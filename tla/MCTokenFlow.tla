----------------------------- MODULE MCTokenFlow -----------------------------
(* Small instances of TokenFlow for TLC. *)
EXTENDS TokenFlow, TLC

Symmetry == Permutations(Requests) \cup Permutations(Workers)
              \cup Permutations(Tokens)

(* States that differ only in what no guard and no property of the run      *)
(* reads are one: the count of failures, what is stranded, who exchanged a *)
(* token and when, and what RevokedAt and RevokedByIp say.                 *)
View == <<store, pc, req, apiFree, authFree, known, now, faults,
          answered, call, unrenewed,
          [t \in Tokens |-> <<table[t].status, table[t].expiresAt, origin[t].parent>>],
          [w \in Workers |-> [work[w] EXCEPT !.checkedAt = 0]]>>
=============================================================================
