------------------------------- MODULE PacketQueue -------------------------------
(***************************************************************************)
(* What a variable-length circle buffer promises its one producer and its  *)
(* one consumer: a first-in first-out queue of whole packets.              *)
(***************************************************************************)
EXTENDS Sequences

CONSTANTS Packets

VARIABLES
  queue,      \* the packets added and not yet taken, oldest first
  delivered   \* the packet the consumer took last

Init == queue = <<>> /\ delivered = <<>>

Put == \E p \in Packets : queue' = Append(queue, p) /\ UNCHANGED delivered

Get ==
  /\ queue # <<>>
  /\ delivered' = Head(queue)
  /\ queue' = Tail(queue)

Next == Put \/ Get

Spec == Init /\ [][Next]_<<queue, delivered>>
=============================================================================
