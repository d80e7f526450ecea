------------------------------ MODULE TaskQueue ------------------------------
(***************************************************************************)
(* BackgroundTaskQueue, an unbounded channel in memory, and its one reader *)
(* QueuedHostedService (Program leaves the pair unregistered).  Stopping   *)
(* the host cancels stoppingToken; a task may end, throw, or be cut off.   *)
(*                                                                         *)
(* Bound: Tasks, each enqueued once between two starts.                    *)
(***************************************************************************)
EXTENDS Naturals, Sequences, SequencesExt

CONSTANTS Tasks, None

ASSUME TasksAssumption == None \notin Tasks

VARIABLES queue,     \* the channel
          worker,    \* where ExecuteAsync is
          current,   \* the task it executes
          stopping,  \* stoppingToken.IsCancellationRequested
          accepted,  \* history: what the channel took since the start
          started    \* history: what was executed since the start

vars == <<queue, worker, current, stopping, accepted, started>>

TypeOK == /\ queue \in Seq(Tasks) /\ accepted \in Seq(Tasks) /\ started \in Seq(Tasks)
          /\ worker \in {"loop", "reading", "executing", "ended"}
          /\ current \in Tasks \cup {None}
          /\ stopping \in BOOLEAN

Init == /\ queue = <<>> /\ accepted = <<>> /\ started = <<>>
        /\ worker = "loop" /\ current = None
        /\ stopping = FALSE

(* TryWrite: an unbounded channel takes everything, also while stopping. *)
Enqueue(t) ==
  /\ t \notin ToSet(accepted)
  /\ queue' = Append(queue, t)
  /\ accepted' = Append(accepted, t)
  /\ UNCHANGED <<worker, current, stopping, started>>

Loop == /\ worker = "loop"
        /\ worker' = IF stopping THEN "ended" ELSE "reading"
        /\ UNCHANGED <<queue, current, stopping, accepted, started>>

(* ReadAsync: a task that is there, or an OperationCanceledException.  (A   *)
(* mutant: the newest task first.)                                         *)
DequeueNewest == /\ worker = "reading" /\ queue # <<>>
                 /\ worker' = "executing"
                 /\ current' = Last(queue)
                 /\ queue' = Front(queue)
                 /\ started' = Append(started, Last(queue))
                 /\ UNCHANGED <<stopping, accepted>>

Dequeue == /\ worker = "reading" /\ queue # <<>>
           /\ worker' = "executing"
           /\ current' = Head(queue)
           /\ queue' = Tail(queue)
           /\ started' = Append(started, Head(queue))
           /\ UNCHANGED <<stopping, accepted>>

DequeueCanceled == /\ worker = "reading" /\ stopping
                   /\ worker' = "ended"
                   /\ UNCHANGED <<queue, current, stopping, accepted, started>>

(* The task ends, or throws and is logged: the loop goes on.  (Mutants: an  *)
(* exception ends the loop; a task that threw is tried again.)             *)
ExecuteRetried ==
  /\ worker = "executing"
  /\ worker' \in {"loop", "retrying"}
  /\ current' = None
  /\ UNCHANGED <<queue, stopping, accepted, started>>

ExecuteUncaught ==
  /\ worker = "executing"
  /\ worker' \in {"loop", "ended"}
  /\ current' = None
  /\ UNCHANGED <<queue, stopping, accepted, started>>

Execute == /\ worker = "executing"
           /\ worker' = "loop"
           /\ current' = None
           /\ UNCHANGED <<queue, stopping, accepted, started>>

Stop == /\ ~stopping
        /\ stopping' = TRUE
        /\ UNCHANGED <<queue, worker, current, accepted, started>>

(* The process ends, in time or cut off, and starts again. *)
Restart == /\ stopping
           /\ queue' = <<>> /\ accepted' = <<>> /\ started' = <<>>
           /\ worker' = "loop" /\ current' = None
           /\ stopping' = FALSE

Next == \/ \E t \in Tasks : Enqueue(t)
        \/ Loop \/ Dequeue \/ DequeueCanceled \/ Execute
        \/ Stop \/ Restart

Spec == Init /\ [][Next]_vars

(* The thread pool runs the worker, and every task ends. *)
FairSpec == Spec /\ WF_vars(Loop \/ Dequeue \/ Execute)

-----------------------------------------------------------------------------
(* Until the process ends, no task is lost, overtaken or executed twice,     *)
(* and one runs at a time: QueuedHostedService is the only reader, and it   *)
(* awaits each task.                                                       *)
InOrder == /\ started \o queue = accepted
           /\ current # None => current = Last(started)

(* A task that throws does not keep the others from running (the catch in    *)
(* ExecuteAsync): every task is executed, unless the host stops.           *)
EveryTaskStarts ==
  \A t \in Tasks : t \in ToSet(accepted) ~> t \in ToSet(started) \/ stopping
=============================================================================
