------------------------------ MODULE BoundedQueue ------------------------------
(***************************************************************************)
(* What a circle buffer promises its one producer and its one consumer: a  *)
(* first-in first-out queue of Capacity places, to which the producer adds *)
(* a whole batch or nothing, and from which the consumer takes the oldest. *)
(***************************************************************************)
EXTENDS Naturals, Sequences

CONSTANTS Items, Capacity

VARIABLES
  queue,      \* the items added and not yet taken, oldest first
  delivered   \* what the consumer took last

Init == queue = <<>> /\ delivered = <<>>

Put ==
  \E n \in 1 .. Capacity - Len(queue) : \E batch \in [1 .. n -> Items] :
    queue' = queue \o batch /\ UNCHANGED delivered

Get ==
  \E n \in 1 .. Len(queue) :
    /\ delivered' = SubSeq(queue, 1, n)
    /\ queue' = SubSeq(queue, n + 1, Len(queue))

\* The content is thrown away while nobody uses the queue.
Clear == queue' = <<>> /\ UNCHANGED delivered

Next == Put \/ Get \/ Clear

Spec == Init /\ [][Next]_<<queue, delivered>>
=============================================================================
