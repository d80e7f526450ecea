-------------------------- MODULE TaskQueueProofs --------------------------
(* What TLAPS proves of TaskQueue, for every set of tasks. *)
EXTENDS TaskQueue, SequenceTheorems, TLAPS

(* Taking the head of what is left and putting it after what was taken      *)
(* moves the boundary between the two and nothing else.                    *)
LEMMA MoveHead ==
  ASSUME NEW S, NEW a \in Seq(S), NEW b \in Seq(S), b # <<>>
  PROVE  /\ Append(a, Head(b)) \in Seq(S) /\ Tail(b) \in Seq(S)
         /\ Append(a, Head(b)) \o Tail(b) = a \o b
         /\ Last(Append(a, Head(b))) = Head(b)
<1>1. Head(b) \in S /\ Tail(b) \in Seq(S) /\ b = <<Head(b)>> \o Tail(b)
  BY HeadTailProperties, SMT
<1>2. Append(a, Head(b)) \in Seq(S) /\ Append(a, Head(b)) = a \o <<Head(b)>>
  BY <1>1
<1>3. Append(a, Head(b)) \o Tail(b) = a \o b
  BY <1>1, <1>2, ConcatAssociative, <<Head(b)>> \in Seq(S)
<1>4. Last(Append(a, Head(b))) = Head(b)
  BY <1>1 DEF Last
<1> QED
  BY <1>1, <1>2, <1>3, <1>4

(* A task that comes last in the channel comes last in what was accepted. *)
LEMMA AppendBehind ==
  ASSUME NEW S, NEW a \in Seq(S), NEW b \in Seq(S), NEW t \in S
  PROVE  a \o Append(b, t) = Append(a \o b, t)
<1>1. Append(b, t) = b \o <<t>> /\ Append(a \o b, t) = (a \o b) \o <<t>>
  BY a \o b \in Seq(S)
<1> QED
  BY <1>1, ConcatAssociative, <<t>> \in Seq(S)

-----------------------------------------------------------------------------
LEMMA InitTypeOK == Init => TypeOK
<1> <<>> \in Seq(Tasks)
  BY EmptySeq
<1> QED
  BY DEF Init, TypeOK

LEMMA NextTypeOK == ASSUME TypeOK, [Next]_vars PROVE TypeOK'
<1> USE DEF TypeOK
<1>1. ASSUME NEW t \in Tasks, Enqueue(t) PROVE TypeOK'
  BY <1>1 DEF Enqueue
<1>2. CASE Dequeue
  <2>1. started' \in Seq(Tasks) /\ queue' \in Seq(Tasks) /\ current' \in Tasks
    BY <1>2, MoveHead, HeadTailProperties DEF Dequeue
  <2> QED
    BY <1>2, <2>1 DEF Dequeue
<1>3. CASE Loop \/ DequeueCanceled \/ Execute \/ Stop
  BY <1>3 DEF Loop, DequeueCanceled, Execute, Stop
<1>5. CASE Restart
  BY <1>5, EmptySeq DEF Restart
<1>4. CASE UNCHANGED vars
  BY <1>4 DEF vars
<1> QED
  BY <1>1, <1>2, <1>3, <1>4, <1>5 DEF Next

(* The variables of TaskQueue keep their types. *)
THEOREM TypeCorrect == Spec => []TypeOK
<1> QED
  BY InitTypeOK, NextTypeOK, PTL DEF Spec

-----------------------------------------------------------------------------
LEMMA InitInOrder == Init => InOrder
<1> <<>> \in Seq(Tasks) /\ <<>> \o <<>> = <<>>
  BY EmptySeq, ConcatEmptySeq
<1> QED
  BY DEF Init, InOrder

LEMMA NextInOrder == ASSUME TypeOK, InOrder, [Next]_vars PROVE InOrder'
<1> USE DEF InOrder, TypeOK
<1>1. ASSUME NEW t \in Tasks, Enqueue(t) PROVE InOrder'
  <2>1. started \o Append(queue, t) = Append(started \o queue, t)
    BY AppendBehind
  <2> QED
    BY <1>1, <2>1, Zenon DEF Enqueue
<1>2. CASE Dequeue
  <2>1. started' = Append(started, Head(queue)) /\ queue' = Tail(queue)
    BY <1>2 DEF Dequeue
  <2>2. /\ Append(started, Head(queue)) \o Tail(queue) = started \o queue
        /\ Last(Append(started, Head(queue))) = Head(queue)
    BY <1>2, MoveHead DEF Dequeue
  <2> QED
    BY <1>2, <2>1, <2>2, Zenon DEF Dequeue
<1>3. CASE Restart
  BY <1>3, EmptySeq, ConcatEmptySeq DEF Restart
<1>4. CASE Loop \/ DequeueCanceled \/ Execute \/ Stop
  BY <1>4 DEF Loop, DequeueCanceled, Execute, Stop
<1>5. CASE UNCHANGED vars
  BY <1>5 DEF vars
<1> QED
  BY <1>1, <1>2, <1>3, <1>4, <1>5 DEF Next

(* QueuedHostedService is the only reader of the channel and awaits each    *)
(* task: between two starts of the process what was executed and what      *)
(* waits is what the channel took, in its order, however tasks end and      *)
(* whenever the host stops.                                                *)
THEOREM Ordered == Spec => []InOrder
<1> QED
  BY InitTypeOK, NextTypeOK, InitInOrder, NextInOrder, PTL DEF Spec
=============================================================================
