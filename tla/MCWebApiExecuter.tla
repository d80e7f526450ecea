-------------------------- MODULE MCWebApiExecuter --------------------------
(* Small instances of WebApiExecuter for TLC. *)
EXTENDS WebApiExecuter, TLC

Symmetry == Permutations(Sessions) \cup Permutations(Requests)

(* What can still be read: no guard reads failures, none reads sentAt     *)
(* outside the three steps that follow a sending, and Commit reads the     *)
(* copy only if it was modified.  No property of executer_overlap but      *)
(* TypeOK reads what is left out.                                          *)
Read(r) ==
  [req[r] EXCEPT
     !.sentAt = IF pc[r] \in {"refreshing", "authenticating", "calling"} THEN @ ELSE 0,
     !.copy = IF pc[r] = "commit" /\ ~req[r].modified THEN EmptySession ELSE @]

View == <<store, pc, [r \in Requests |-> Read(r)], apiFree, authFree, now, issued, live>>

(* Finished for one of the requests: the specification treats all of them   *)
(* alike, so what holds of one holds of every one.  A request that queues  *)
(* for a permit of _apiCallLock is answered, whatever the others do.       *)
AnyFinished == Answered(CHOOSE r \in Requests : TRUE)
=============================================================================
