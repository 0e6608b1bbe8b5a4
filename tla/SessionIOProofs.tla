---------------------------- MODULE SessionIOProofs ----------------------------
(***************************************************************************)
(* What one session's reading and writing keep, for every capacity of the  *)
(* rings and of the system's buffer and every number of bytes: the bytes   *)
(* go out in order, and the ways in which the send thread comes to wait    *)
(* for an EPOLLOUT that nobody armed, and the session to wait for bytes    *)
(* that nobody will receive, are the ones named.                           *)
(***************************************************************************)
EXTENDS SessionIO, SequenceTheorems, TLAPS

Events == {"in", "out"}

IOType ==
  /\ appended \in Nat /\ taken \in Nat /\ snap \in Nat
  /\ full \in BOOLEAN /\ raised \in BOOLEAN /\ closeSent \in BOOLEAN
  /\ outEvents \in Nat /\ recvWork \in Nat
  /\ added \in BOOLEAN /\ gone \in BOOLEAN
  /\ armed \subseteq Events /\ epollEvents \subseteq Events /\ recvMask \subseteq Events
  /\ recvPc \in {"idle", "rearm", "ctl", "close"}
  /\ sendPc \in {"idle", "send", "mod", "close"}
  /\ room \in Nat
  /\ wire \in Seq(Nat)

\* The send thread works between the read index and a write index main has
\* passed, and everything it sent lies behind the read index.
SentIsTaken ==
  /\ taken <= appended
  /\ sendPc = "send" => taken < snap /\ snap <= appended
  /\ \A i \in 1 .. Len(wire) : wire[i] <= taken

\* The events chosen but not yet armed: the peer's bytes are always among
\* them, and the EPOLLOUT of a send thread that waits is, unless it began to
\* wait after the choice.
ChosenEvents ==
  recvPc = "ctl" => "in" \in recvMask /\ (full => "out" \in recvMask \/ raised)

IInv == IOType /\ SentIsTaken /\ WireInOrder /\ ChosenEvents

-----------------------------------------------------------------------------
(* Arithmetic.                                                              *)

\* The end of the ring's round that holds t lies behind t.
LEMMA RoundUp ==
  ASSUME NEW c \in Nat \ {0}, NEW t \in Nat
  PROVE  /\ (t \div c + 1) * c \in Nat
         /\ t < (t \div c + 1) * c
  OBVIOUS

\* AtMost is the smaller of the two.
LEMMA AtMostIsMin ==
  ASSUME NEW a \in Nat, NEW b \in Nat
  PROVE  AtMost(a, b) \in Nat /\ AtMost(a, b) <= a /\ AtMost(a, b) <= b
         /\ (AtMost(a, b) = a \/ AtMost(a, b) = b)
  BY DEF AtMost

\* The bytes of a piece and how many they are.
LEMMA BytesFacts ==
  ASSUME NEW from \in Nat, NEW n \in Nat
  PROVE  /\ Bytes(from, n) \in Seq(Nat)
         /\ Len(Bytes(from, n)) = n
         /\ \A i \in 1 .. n : Bytes(from, n)[i] = from + i
  BY DEF Bytes

\* A piece ends behind the read index, at most at the write index.
LEMMA PieceIsAhead ==
  ASSUME IOType, taken < snap
  PROVE  PieceEnd \in Nat /\ taken < PieceEnd /\ PieceEnd <= snap
<1>1. SendCap \in Nat \ {0}
  BY IOAssumption
<1>2. taken \in Nat /\ snap \in Nat
  BY DEF IOType
<1>3. PICK end \in Nat : end = (taken \div SendCap + 1) * SendCap /\ taken < end
  BY <1>1, <1>2, RoundUp
<1>4. PieceEnd = AtMost(snap, end)
  BY <1>3 DEF PieceEnd
<1> QED BY <1>2, <1>3, <1>4, AtMostIsMin

\* Bytes appended in ascending order behind smaller ones.
LEMMA InOrderAppend ==
  ASSUME NEW w \in Seq(Nat), NEW t \in Nat, NEW n \in Nat,
         \A i, j \in 1 .. Len(w) : i < j => w[i] < w[j],
         \A i \in 1 .. Len(w) : w[i] <= t
  PROVE  LET v == w \o Bytes(t, n)
         IN  /\ v \in Seq(Nat)
             /\ \A i, j \in 1 .. Len(v) : i < j => v[i] < v[j]
             /\ \A i \in 1 .. Len(v) : v[i] <= t + n
<1>1. PICK b \in Seq(Nat) : b = Bytes(t, n) /\ Len(b) = n /\ \A i \in 1 .. n : b[i] = t + i
  BY BytesFacts
<1>2. PICK v \in Seq(Nat) : /\ v = w \o b /\ Len(v) = Len(w) + n
                            /\ \A i \in 1 .. Len(w) : v[i] = w[i]
                            /\ \A i \in Len(w) + 1 .. Len(w) + n : v[i] = b[i - Len(w)]
  <2>1. w \o b \in Seq(Nat) /\ Len(w \o b) = Len(w) + Len(b)
    BY <1>1, ConcatProperties
  <2>2. \A i \in 1 .. Len(w) + Len(b) :
          (w \o b)[i] = IF i <= Len(w) THEN w[i] ELSE b[i - Len(w)]
    BY <1>1, ConcatProperties
  <2>3. Len(w) \in Nat
    OBVIOUS
  <2>4. \A i \in 1 .. Len(w) : (w \o b)[i] = w[i]
    BY <1>1, <2>2, <2>3
  <2>5. \A i \in Len(w) + 1 .. Len(w) + n : (w \o b)[i] = b[i - Len(w)]
    BY <1>1, <2>2, <2>3
  <2> QED BY <1>1, <2>1, <2>4, <2>5
<1>3. PICK k \in Nat : k = Len(w)
  OBVIOUS
<1>4. \A i \in 1 .. k : v[i] \in Nat /\ v[i] <= t
  BY <1>2, <1>3
<1>5. \A i \in k + 1 .. k + n : v[i] = t + (i - k)
  <2> TAKE i \in k + 1 .. k + n
  <2>1. v[i] = b[i - k] /\ i - k \in 1 .. n
    BY <1>2, <1>3
  <2> QED BY <2>1, <1>1
<1>6. ASSUME NEW i \in 1 .. k + n, NEW j \in 1 .. k + n, i < j
      PROVE  v[i] < v[j]
  <2>1. CASE j \in 1 .. k
    BY <2>1, <1>2, <1>3, <1>6
  <2>2. CASE i \in 1 .. k /\ j \in k + 1 .. k + n
    <3>1. v[j] = t + (j - k) /\ v[i] \in Nat /\ v[i] <= t
      BY <2>2, <1>4, <1>5
    <3> QED BY <3>1, <2>2, <1>3
  <2>3. CASE i \in k + 1 .. k + n /\ j \in k + 1 .. k + n
    <3>1. v[i] = t + (i - k) /\ v[j] = t + (j - k)
      BY <2>3, <1>5
    <3> QED BY <3>1, <2>3, <1>3, <1>6
  <2> QED BY <2>1, <2>2, <2>3, <1>3, <1>6
<1>7. ASSUME NEW i \in 1 .. k + n
      PROVE  v[i] <= t + n
  <2>1. CASE i \in 1 .. k
    BY <2>1, <1>4
  <2>2. CASE i \in k + 1 .. k + n
    <3>1. v[i] = t + (i - k)
      BY <2>2, <1>5
    <3> QED BY <3>1, <2>2, <1>3
  <2> QED BY <2>1, <2>2, <1>3
<1> QED BY <1>1, <1>2, <1>3, <1>6, <1>7

-----------------------------------------------------------------------------
(* Rings that others fill, too.                                             *)

\* An item enters the ring or it does not.
LEMMA PutIs ==
  ASSUME NEW n \in Nat, NEW m \in Put(n)
  PROVE  m \in Nat /\ (m = n + 1 \/ m = n)
  BY DEF Put

\* A request for the close sets the flag or leaves it.
LEMMA AppendToCloseIs ==
  ASSUME closeSent \in BOOLEAN, AppendToClose
  PROVE  closeSent' \in BOOLEAN
  BY DEF AppendToClose

-----------------------------------------------------------------------------
(* Every action keeps the invariant.                                        *)

\* A session starts with an empty ring, nothing armed and nothing sent.
LEMMA InitInv == ASSUME Init PROVE IInv
<1>1. KernelCap \in Nat /\ <<>> \in Seq(Nat)
  BY IOAssumption
<1>2. IOType
  BY <1>1 DEF Init, IOType
<1>3. SentIsTaken /\ WireInOrder
  BY DEF Init, SentIsTaken, WireInOrder
<1>4. ChosenEvents
  BY DEF Init, ChosenEvents
<1> QED BY <1>2, <1>3, <1>4 DEF IInv

\* What the send thread and main have in common stays as it is.
SendSide == <<appended, taken, snap, sendPc, wire>>

LEMMA SendSideKept ==
  ASSUME IInv, UNCHANGED SendSide
  PROVE  SentIsTaken' /\ WireInOrder'
  BY DEF IInv, SendSide, SentIsTaken, WireInOrder

\* So does what the receive thread chose.
ChoiceSide == <<full, raised, recvPc, recvMask>>

LEMMA ChoiceSideKept ==
  ASSUME IInv, UNCHANGED ChoiceSide
  PROVE  ChosenEvents'
  BY DEF IInv, ChoiceSide, ChosenEvents

LEMMA SendPacketInv == ASSUME IInv, SendPacket PROVE IInv'
<1>1. IOType'
  <2>1. PICK n \in 1 .. MaxPacket :
          \/ appended' = appended + n /\ UNCHANGED closeSent
          \/ closeSent' = TRUE /\ UNCHANGED appended
    BY DEF SendPacket
  <2>2. n \in Nat
    BY IOAssumption
  <2>3. appended \in Nat /\ closeSent \in BOOLEAN
    BY DEF IInv, IOType
  <2>4. appended' \in Nat
    BY <2>1, <2>2, <2>3
  <2>5. closeSent' \in BOOLEAN
    BY <2>1, <2>3
  <2> QED BY <2>4, <2>5 DEF IInv, IOType, SendPacket, items, epoll, recv, send, net
<1>2. SentIsTaken' /\ WireInOrder'
  BY DEF IInv, IOType, SentIsTaken, WireInOrder, SendPacket, items, epoll, recv, send, net
<1>3. ChosenEvents'
  BY ChoiceSideKept DEF ChoiceSide, SendPacket, recv
<1> QED BY <1>1, <1>2, <1>3 DEF IInv

LEMMA AddOneSendWorkItemInv == ASSUME IInv, AddOneSendWorkItem PROVE IInv'
<1>1. IOType'
  BY DEF IInv, IOType, AddOneSendWorkItem, ring, epoll, recv, send, net
<1>2. SentIsTaken' /\ WireInOrder'
  BY SendSideKept DEF SendSide, AddOneSendWorkItem, ring, send, net
<1>3. ChosenEvents'
  BY ChoiceSideKept DEF ChoiceSide, AddOneSendWorkItem, recv
<1> QED BY <1>1, <1>2, <1>3 DEF IInv

LEMMA AddFirstRecvOfSessionInv == ASSUME IInv, AddFirstRecvOfSession PROVE IInv'
<1>1. IOType'
  BY DEF IInv, IOType, AddFirstRecvOfSession, ring, flags, epoll, recv, send, net
<1>2. SentIsTaken' /\ WireInOrder'
  BY SendSideKept DEF SendSide, AddFirstRecvOfSession, ring, send, net
<1>3. ChosenEvents'
  BY ChoiceSideKept DEF ChoiceSide, AddFirstRecvOfSession, flags, recv
<1> QED BY <1>1, <1>2, <1>3 DEF IInv

LEMMA KickOutSessionInv == ASSUME IInv, KickOutSession PROVE IInv'
<1>1. IOType'
  BY DEF IInv, IOType, KickOutSession, ring, items, epoll, recv, send, net
<1>2. SentIsTaken' /\ WireInOrder'
  BY SendSideKept DEF SendSide, KickOutSession, ring, send, net
<1>3. ChosenEvents'
  BY ChoiceSideKept DEF ChoiceSide, KickOutSession, recv
<1> QED BY <1>1, <1>2, <1>3 DEF IInv

LEMMA EpollWaitInv == ASSUME IInv, EpollWait PROVE IInv'
<1>1. IOType'
  BY DEF IInv, IOType, EpollWait, ring, flags, main, items, recv, send, net
<1>2. SentIsTaken' /\ WireInOrder'
  BY SendSideKept DEF SendSide, EpollWait, ring, send, net
<1>3. ChosenEvents'
  BY ChoiceSideKept DEF ChoiceSide, EpollWait, flags, recv
<1> QED BY <1>1, <1>2, <1>3 DEF IInv

\* A ring keeps its items, and gets one more unless it is full.
LEMMA DispatchRings ==
  ASSUME IInv, Dispatch
  PROVE  /\ recvWork' \in Nat /\ outEvents' \in Nat
         /\ recvWork' = recvWork \/ recvWork' > 0
         /\ outEvents' = outEvents \/ outEvents' > 0
<1>1. recvWork \in Nat /\ outEvents \in Nat
  BY DEF IInv, IOType
<1>2. recvWork' \in Put(recvWork) \/ recvWork' = recvWork
  BY DEF Dispatch
<1>3. outEvents' \in Put(outEvents) \/ outEvents' = outEvents
  BY DEF Dispatch
<1>4. recvWork' \in Nat /\ (recvWork' = recvWork \/ recvWork' > 0)
  BY <1>1, <1>2, PutIs
<1>5. outEvents' \in Nat /\ (outEvents' = outEvents \/ outEvents' > 0)
  BY <1>1, <1>3, PutIs
<1> QED BY <1>4, <1>5

LEMMA DispatchInv == ASSUME IInv, Dispatch PROVE IInv'
<1>1. IOType'
  BY DispatchRings DEF IInv, IOType, Dispatch, ring, flags, main, recv, send, net
<1>2. SentIsTaken' /\ WireInOrder'
  BY SendSideKept DEF SendSide, Dispatch, ring, send, net
<1>3. ChosenEvents'
  BY ChoiceSideKept DEF ChoiceSide, Dispatch, flags, recv
<1> QED BY <1>1, <1>2, <1>3 DEF IInv

\* Either the session is closing, or the receive thread goes on to re-arm the
\* descriptor or to ask for the close.
LEMMA RecvDataEnds ==
  ASSUME NEW first, recvPc = "idle", RecvData(first)
  PROVE  \/ recvPc' = "idle" /\ closeSent
         \/ recvPc' \in {"rearm", "close"} /\ ~closeSent
  BY DEF RecvData

LEMMA ProcessFirstRecvOfSessionInv == ASSUME IInv, ProcessFirstRecvOfSession PROVE IInv'
<1>1. recvPc' \in {"idle", "rearm", "close"}
  BY RecvDataEnds DEF ProcessFirstRecvOfSession
<1>2. IOType'
  BY <1>1 DEF IInv, IOType, ProcessFirstRecvOfSession, ring, flags, epoll, send
<1>3. SentIsTaken' /\ WireInOrder'
  BY SendSideKept DEF SendSide, ProcessFirstRecvOfSession, ring, send
<1>4. ChosenEvents'
  BY <1>1 DEF ChosenEvents
<1> QED BY <1>2, <1>3, <1>4 DEF IInv

LEMMA ProcessRecvworkFromEpollThreadInv ==
  ASSUME IInv, ProcessRecvworkFromEpollThread
  PROVE  IInv'
<1>1. recvPc' \in {"idle", "rearm", "close"}
  BY RecvDataEnds DEF ProcessRecvworkFromEpollThread
<1>2. IOType'
  <2>1. recvWork' \in Nat
    BY DEF ProcessRecvworkFromEpollThread, IInv, IOType
  <2> QED BY <1>1, <2>1
          DEF IInv, IOType, ProcessRecvworkFromEpollThread, ring, flags, epoll, send
<1>3. SentIsTaken' /\ WireInOrder'
  BY SendSideKept DEF SendSide, ProcessRecvworkFromEpollThread, ring, send
<1>4. ChosenEvents'
  BY <1>1 DEF ChosenEvents
<1> QED BY <1>2, <1>3, <1>4 DEF IInv

LEMMA ChooseEventsInv == ASSUME IInv, ChooseEvents PROVE IInv'
<1>1. /\ Wanted \subseteq Events /\ "in" \in Wanted
      /\ full => "out" \in Wanted
  BY DEF Wanted, Events
<1>2. IOType'
  BY <1>1 DEF IInv, IOType, ChooseEvents, ring, items, epoll, send, net
<1>3. SentIsTaken' /\ WireInOrder'
  BY SendSideKept DEF SendSide, ChooseEvents, ring, send, net
<1>4. ChosenEvents'
  BY <1>1 DEF ChosenEvents, ChooseEvents
<1> QED BY <1>2, <1>3, <1>4 DEF IInv

LEMMA AddToEpollWaitThreadInv == ASSUME IInv, AddToEpollWaitThread PROVE IInv'
<1>1. IOType'
  BY DEF IInv, IOType, AddToEpollWaitThread, ring, flags, items, send, net
<1>2. SentIsTaken' /\ WireInOrder'
  BY SendSideKept DEF SendSide, AddToEpollWaitThread, ring, send, net
<1>3. ChosenEvents'
  BY DEF ChosenEvents, AddToEpollWaitThread
<1> QED BY <1>1, <1>2, <1>3 DEF IInv

LEMMA AddSessionToCloseThreadToCloseInv ==
  ASSUME IInv, AddSessionToCloseThreadToClose
  PROVE  IInv'
<1>1. closeSent' \in BOOLEAN
  BY AppendToCloseIs DEF AddSessionToCloseThreadToClose, IInv, IOType
<1>2. IOType'
  BY <1>1 DEF IInv, IOType, AddSessionToCloseThreadToClose, ring, items, epoll, send, net
<1>3. SentIsTaken' /\ WireInOrder'
  BY SendSideKept DEF SendSide, AddSessionToCloseThreadToClose, ring, send, net
<1>4. ChosenEvents'
  BY DEF ChosenEvents, AddSessionToCloseThreadToClose
<1> QED BY <1>2, <1>3, <1>4 DEF IInv

\* The snapshot is the write index, which the read index has not passed.
LEMMA StartSendingKeeps ==
  ASSUME IInv, StartSending, UNCHANGED <<appended, taken, wire>>
  PROVE  /\ SentIsTaken' /\ WireInOrder'
         /\ snap' \in Nat /\ sendPc' \in {"idle", "send"}
  BY DEF IInv, IOType, SentIsTaken, WireInOrder, StartSending

LEMMA ProcessSendWorkInv == ASSUME IInv, ProcessSendWork PROVE IInv'
<1>1. ChosenEvents'
  BY ChoiceSideKept DEF ChoiceSide, ProcessSendWork, flags, recv
<1>2. CASE closeSent \/ full
  <2>1. UNCHANGED send
    BY <1>2 DEF ProcessSendWork
  <2>2. IOType'
    BY <2>1 DEF IInv, IOType, ProcessSendWork, ring, flags, send, epoll, recv, net
  <2>3. SentIsTaken' /\ WireInOrder'
    BY <2>1, SendSideKept DEF SendSide, ProcessSendWork, ring, send, net
  <2> QED BY <1>1, <2>2, <2>3 DEF IInv
<1>3. CASE ~(closeSent \/ full)
  <2>1. StartSending /\ UNCHANGED <<appended, taken, wire>>
    BY <1>3 DEF ProcessSendWork, ring, net
  <2>2. SentIsTaken' /\ WireInOrder' /\ snap' \in Nat /\ sendPc' \in {"idle", "send"}
    BY <2>1, StartSendingKeeps
  <2>3. IOType'
    BY <2>2 DEF IInv, IOType, ProcessSendWork, ring, flags, epoll, recv, net
  <2> QED BY <1>1, <2>2, <2>3 DEF IInv
<1> QED BY <1>2, <1>3

LEMMA ProcessEpollOutEventInv == ASSUME IInv, ProcessEpollOutEvent PROVE IInv'
<1>1. outEvents' \in Nat
  BY DEF IInv, IOType, ProcessEpollOutEvent
<1>2. CASE closeSent
  <2>1. UNCHANGED <<full, send>>
    BY <1>2 DEF ProcessEpollOutEvent
  <2>2. IOType'
    BY <1>1, <2>1 DEF IInv, IOType, ProcessEpollOutEvent, ring, send, epoll, recv, net
  <2>3. SentIsTaken' /\ WireInOrder'
    BY <2>1, SendSideKept DEF SendSide, ProcessEpollOutEvent, ring, send, net
  <2>4. ChosenEvents'
    BY <2>1, ChoiceSideKept DEF ChoiceSide, ProcessEpollOutEvent, recv
  <2> QED BY <2>2, <2>3, <2>4 DEF IInv
<1>3. CASE ~closeSent
  <2>1. full' = FALSE /\ StartSending /\ UNCHANGED <<appended, taken, wire>>
    BY <1>3 DEF ProcessEpollOutEvent, ring, net
  <2>2. SentIsTaken' /\ WireInOrder' /\ snap' \in Nat /\ sendPc' \in {"idle", "send"}
    BY <2>1, StartSendingKeeps
  <2>3. IOType'
    BY <1>1, <2>1, <2>2 DEF IInv, IOType, ProcessEpollOutEvent, ring, epoll, recv, net
  <2>4. ChosenEvents'
    BY <2>1 DEF IInv, ChosenEvents, ProcessEpollOutEvent, recv
  <2> QED BY <2>2, <2>3, <2>4 DEF IInv
<1> QED BY <1>2, <1>3

\* The bytes the system takes are the next ones of the piece, and the read
\* index passes the whole of it.
LEMMA SendAcceptedInv == ASSUME IInv, SendAccepted PROVE IInv'
<1>1. /\ taken \in Nat /\ snap \in Nat /\ appended \in Nat /\ room \in Nat
      /\ taken < snap /\ snap <= appended /\ wire \in Seq(Nat)
  BY DEF IInv, IOType, SentIsTaken, SendAccepted
<1>2. PICK end \in Nat : end = PieceEnd /\ taken < end /\ end <= snap
  BY <1>1, PieceIsAhead DEF IInv
<1>3. PICK n \in Nat : n = AtMost(room, PieceEnd - taken) /\ n <= end - taken /\ n <= room
  <2>1. PieceEnd - taken \in Nat /\ PieceEnd - taken = end - taken
    BY <1>1, <1>2
  <2> QED BY <1>1, <2>1, AtMostIsMin
<1>4. /\ wire' = wire \o Bytes(taken, n) /\ room' = room - n /\ taken' = end
      /\ sendPc' = (IF end = snap THEN "idle" ELSE "send")
  BY <1>2, <1>3 DEF SendAccepted
<1>5. /\ wire' \in Seq(Nat) /\ WireInOrder'
      /\ \A i \in 1 .. Len(wire') : wire'[i] <= taken + n
  BY <1>1, <1>4, InOrderAppend DEF IInv, SentIsTaken, WireInOrder
<1>6. IOType'
  <2>1. room' \in Nat /\ taken' \in Nat /\ sendPc' \in {"idle", "send"}
    BY <1>1, <1>3, <1>4
  <2> QED BY <1>5, <2>1 DEF IInv, IOType, SendAccepted, flags, items, epoll, recv
<1>7. SentIsTaken'
  <2>1. UNCHANGED <<appended, snap>>
    BY DEF SendAccepted
  <2>2. taken' <= appended' /\ (sendPc' = "send" => taken' < snap' /\ snap' <= appended')
    BY <1>1, <1>2, <1>4, <2>1
  <2>3. ASSUME NEW i \in 1 .. Len(wire')
        PROVE  wire'[i] <= taken'
    <3>1. wire'[i] <= taken + n
      BY <1>5, <2>3
    <3>2. wire'[i] \in Nat
      BY <1>5, <2>3
    <3>3. PICK k \in Nat : k = wire'[i]
      BY <3>2
    <3>4. k <= end
      BY <3>1, <3>3, <1>1, <1>2, <1>3
    <3> QED BY <3>3, <3>4, <1>4
  <2> QED BY <2>2, <2>3 DEF SentIsTaken
<1>8. ChosenEvents'
  BY ChoiceSideKept DEF ChoiceSide, SendAccepted, flags, recv
<1> QED BY <1>5, <1>6, <1>7, <1>8 DEF IInv

LEMMA SendFailedInv == ASSUME IInv, SendFailed PROVE IInv'
<1>1. IOType'
  BY DEF IInv, IOType, SendFailed, ring, flags, items, epoll, recv, net
<1>2. SentIsTaken' /\ WireInOrder'
  BY DEF IInv, SentIsTaken, WireInOrder, SendFailed, ring, net
<1>3. ChosenEvents'
  BY ChoiceSideKept DEF ChoiceSide, SendFailed, flags, recv
<1> QED BY <1>1, <1>2, <1>3 DEF IInv

\* The flag that goes up after the choice is on record.
LEMMA SendBufIsFullInv == ASSUME IInv, SendBufIsFull PROVE IInv'
<1>1. IOType'
  BY DEF IInv, IOType, SendBufIsFull, ring, items, epoll, recv, net
<1>2. SentIsTaken' /\ WireInOrder'
  BY DEF IInv, SentIsTaken, WireInOrder, SendBufIsFull, ring, net
<1>3. ChosenEvents'
  BY DEF IInv, ChosenEvents, SendBufIsFull, recv
<1> QED BY <1>1, <1>2, <1>3 DEF IInv

LEMMA SendDataFailedProcessInv == ASSUME IInv, SendDataFailedProcess PROVE IInv'
<1>1. /\ sendPc' \in {"idle", "close"}
      /\ armed' = Events \/ armed' = armed
  BY DEF SendDataFailedProcess, Events
<1>2. IOType'
  BY <1>1 DEF IInv, IOType, SendDataFailedProcess, ring, flags, items, recv, net
<1>3. SentIsTaken' /\ WireInOrder'
  BY <1>1 DEF IInv, SentIsTaken, WireInOrder, SendDataFailedProcess, ring, net
<1>4. ChosenEvents'
  BY ChoiceSideKept DEF ChoiceSide, SendDataFailedProcess, flags, recv
<1> QED BY <1>2, <1>3, <1>4 DEF IInv

LEMMA SendThreadClosesInv == ASSUME IInv, SendThreadCloses PROVE IInv'
<1>1. closeSent' \in BOOLEAN
  BY AppendToCloseIs DEF SendThreadCloses, IInv, IOType
<1>2. IOType'
  BY <1>1 DEF IInv, IOType, SendThreadCloses, ring, items, epoll, recv, net
<1>3. SentIsTaken' /\ WireInOrder'
  BY DEF IInv, SentIsTaken, WireInOrder, SendThreadCloses, ring, net
<1>4. ChosenEvents'
  BY ChoiceSideKept DEF ChoiceSide, SendThreadCloses, recv
<1> QED BY <1>2, <1>3, <1>4 DEF IInv

LEMMA PeerReadsInv == ASSUME IInv, PeerReads PROVE IInv'
<1>1. room' \in Nat
  BY IOAssumption DEF IInv, IOType, PeerReads
<1>2. IOType'
  BY <1>1 DEF IInv, IOType, PeerReads, ring, flags, items, epoll, recv, send
<1>3. SentIsTaken' /\ WireInOrder'
  BY SendSideKept DEF SendSide, PeerReads, ring, send
<1>4. ChosenEvents'
  BY ChoiceSideKept DEF ChoiceSide, PeerReads, flags, recv
<1> QED BY <1>2, <1>3, <1>4 DEF IInv

LEMMA PeerSendsInv == ASSUME IInv, PeerSends PROVE IInv'
<1>1. IOType'
  BY DEF IInv, IOType, PeerSends, ring, flags, items, epoll, recv, send
<1>2. SentIsTaken' /\ WireInOrder'
  BY SendSideKept DEF SendSide, PeerSends, ring, send
<1>3. ChosenEvents'
  BY ChoiceSideKept DEF ChoiceSide, PeerSends, flags, recv
<1> QED BY <1>1, <1>2, <1>3 DEF IInv

LEMMA PeerGoesInv == ASSUME IInv, PeerGoes PROVE IInv'
<1>1. IOType'
  BY DEF IInv, IOType, PeerGoes, ring, flags, items, epoll, recv, send
<1>2. SentIsTaken' /\ WireInOrder'
  BY SendSideKept DEF SendSide, PeerGoes, ring, send
<1>3. ChosenEvents'
  BY ChoiceSideKept DEF ChoiceSide, PeerGoes, flags, recv
<1> QED BY <1>1, <1>2, <1>3 DEF IInv

LEMMA StutterInv == ASSUME IInv, UNCHANGED vars PROVE IInv'
<1>1. IOType'
  BY DEF IInv, IOType, vars, ring, flags, items, epoll, recv, send, net
<1>2. SentIsTaken' /\ WireInOrder'
  BY SendSideKept DEF SendSide, vars, ring, send, net
<1>3. ChosenEvents'
  BY ChoiceSideKept DEF ChoiceSide, vars, flags, recv
<1> QED BY <1>1, <1>2, <1>3 DEF IInv

\* No action of any thread, of epoll or of the peer breaks the invariant.
LEMMA NextInv == ASSUME IInv, [Next]_vars PROVE IInv'
<1>1. CASE MainStep
  BY <1>1, SendPacketInv, AddOneSendWorkItemInv, AddFirstRecvOfSessionInv, KickOutSessionInv
     DEF MainStep
<1>2. CASE EpollStep
  BY <1>2, EpollWaitInv, DispatchInv DEF EpollStep
<1>3. CASE RecvStep
  BY <1>3, ProcessFirstRecvOfSessionInv, ProcessRecvworkFromEpollThreadInv,
     ChooseEventsInv, AddToEpollWaitThreadInv, AddSessionToCloseThreadToCloseInv
     DEF RecvStep
<1>4. CASE SendStep
  BY <1>4, ProcessSendWorkInv, ProcessEpollOutEventInv, SendAcceptedInv, SendFailedInv,
     SendBufIsFullInv, SendDataFailedProcessInv, SendThreadClosesInv
     DEF SendStep, Sending
<1>5. CASE PeerStep
  BY <1>5, PeerReadsInv, PeerSendsInv, PeerGoesInv DEF PeerStep
<1>6. CASE UNCHANGED vars
  BY <1>6, StutterInv
<1> QED BY <1>1, <1>2, <1>3, <1>4, <1>5, <1>6 DEF Next

-----------------------------------------------------------------------------
(* The theorems.                                                            *)

\* LSession.cpp:477: every reachable state of one session's reading and
\* writing has the types of its members, sends from the read index on, and
\* keeps the EPOLLOUT of a send thread that waited at the choice among the
\* events it is about to arm.
THEOREM SessionIOInv == Spec => []IInv
<1>1. Init => IInv
  BY InitInv
<1>2. IInv /\ [Next]_vars => IInv'
  BY NextInv
<1> QED BY <1>1, <1>2, PTL DEF Spec

\* LSession.cpp:500: no byte goes out twice or before an earlier one, for every
\* capacity of the send ring and of the system's buffer, and with a send()
\* that takes a part.
THEOREM BytesGoInOrder == Spec => []WireInOrder
<1>1. IInv => WireInOrder
  BY DEF IInv
<1> QED BY <1>1, SessionIOInv, PTL

-----------------------------------------------------------------------------
(* How the send thread comes to wait for nothing.                           *)

Lost == \/ Overtaken \/ Refused(recvPc) \/ Refused(sendPc)
        \/ Dropped(<<recvWork, outEvents>>) \/ FirstRefused

\* What the flag and those who watch it read.
WatchSide == <<full, closeSent, addPending, firstRecv, recvWork, recvPc, armed,
               epollEvents, outEvents>>

LEMMA StuckSame ==
  ASSUME UNCHANGED WatchSide, Stuck', sendPc \in {"mod", "close"} => sendPc' = sendPc
  PROVE  Stuck
  BY DEF WatchSide, Stuck, Watched

\* Every step but the ones that lose something leaves a watcher.
LEMMA StuckStep ==
  ASSUME IInv, [Next]_vars, ~Stuck, Stuck'
  PROVE  Lost
<1>1. full' /\ ~closeSent' /\ ~Watched'
  BY DEF Stuck
<1>2. CASE SendPacket \/ AddOneSendWorkItem \/ KickOutSession
  <2>1. UNCHANGED <<sendPc, WatchSide>>
    BY <1>1, <1>2 DEF SendPacket, AddOneSendWorkItem, KickOutSession, WatchSide, main,
       items, epoll, recv, send, IInv, IOType
  <2> QED BY <2>1, StuckSame
<1>3. CASE AddFirstRecvOfSession
  BY <1>1, <1>3 DEF AddFirstRecvOfSession, Watched, Lost, FirstRefused
<1>4. CASE EpollWait
  BY <1>1, <1>4 DEF EpollWait, Watched
<1>5. CASE Dispatch
  <2>1. epollEvents # {} /\ epollEvents' = {}
    BY <1>5 DEF Dispatch
  <2>2. recvWork' = recvWork /\ outEvents' = outEvents
    BY <1>1, <1>5, DispatchRings DEF Watched
  <2> QED BY <2>1, <2>2 DEF Lost, Dropped
<1>6. CASE ProcessFirstRecvOfSession \/ ProcessRecvworkFromEpollThread
  <2>1. PICK first \in BOOLEAN : recvPc = "idle" /\ RecvData(first) /\ UNCHANGED closeSent
    BY <1>6 DEF ProcessFirstRecvOfSession, ProcessRecvworkFromEpollThread, flags
  <2>2. recvPc' \in {"rearm", "close"}
    BY <1>1, <2>1, RecvDataEnds
  <2> QED BY <1>1, <2>2 DEF Watched
<1>7. CASE ChooseEvents
  BY <1>1, <1>7 DEF ChooseEvents, Watched
<1>8. CASE AddToEpollWaitThread
  <2>1. recvPc' = "idle" /\ armed' = recvMask /\ "out" \notin recvMask /\ full
    BY <1>1, <1>8 DEF AddToEpollWaitThread, Watched, flags
  <2>2. recvPc = "ctl" /\ raised
    BY <1>8, <2>1 DEF AddToEpollWaitThread, IInv, ChosenEvents
  <2> QED BY <2>1, <2>2 DEF Lost, Overtaken
<1>9. CASE AddSessionToCloseThreadToClose
  BY <1>1, <1>9 DEF AddSessionToCloseThreadToClose, Lost, Refused
<1>10. CASE ProcessSendWork
  <2>1. closeSent \/ full
    BY <1>1, <1>10 DEF ProcessSendWork, flags
  <2>2. UNCHANGED <<sendPc, WatchSide>>
    BY <1>10, <2>1 DEF ProcessSendWork, WatchSide, flags, main, epoll, recv, send
  <2> QED BY <2>2, StuckSame
<1>11. CASE ProcessEpollOutEvent
  BY <1>1, <1>11 DEF ProcessEpollOutEvent
<1>12. CASE SendAccepted
  <2>1. sendPc = "send" /\ UNCHANGED WatchSide
    BY <1>12 DEF SendAccepted, WatchSide, flags, main, items, epoll, recv
  <2> QED BY <2>1, StuckSame
<1>13. CASE SendFailed \/ SendBufIsFull
  BY <1>1, <1>13 DEF SendFailed, SendBufIsFull, Watched
<1>14. CASE SendDataFailedProcess
  BY <1>1, <1>14 DEF SendDataFailedProcess, Watched
<1>15. CASE SendThreadCloses
  BY <1>1, <1>15 DEF SendThreadCloses, Lost, Refused
<1>16. CASE PeerStep \/ UNCHANGED vars
  <2>1. UNCHANGED <<sendPc, WatchSide>>
    BY <1>16 DEF PeerStep, PeerReads, PeerSends, PeerGoes, vars, WatchSide, flags, main,
       items, epoll, recv, send
  <2> QED BY <2>1, StuckSame
<1> QED BY <1>2, <1>3, <1>4, <1>5, <1>6, <1>7, <1>8, <1>9, <1>10, <1>11, <1>12, <1>13,
           <1>14, <1>15, <1>16
        DEF Next, MainStep, EpollStep, RecvStep, SendStep, Sending

\* LSession.cpp:477: the send thread that m_nSendBufIsFull keeps from sending
\* comes to wait for an EPOLLOUT nobody will deliver in these ways only: the
\* receive thread arms events it chose before the flag went up, a request for
\* the close is refused, an event at hand or the first receive finds its ring
\* full.
THEOREM WaitsInVainOnlyByLoss == Spec => StuckOnlyByLoss
<1>1. IInv /\ [Next]_vars =>
        [~Stuck /\ Stuck' => \/ Overtaken \/ Refused(recvPc) \/ Refused(sendPc)
                            \/ Dropped(<<recvWork, outEvents>>) \/ FirstRefused]_vars
  BY StuckStep DEF Lost
<1> QED BY <1>1, SessionIOInv, PTL DEF Spec, StuckOnlyByLoss

-----------------------------------------------------------------------------
(* How the session turns deaf.                                              *)

\* What is armed anew has EPOLLIN in it, and every way out of RecvData goes on
\* to arm the descriptor or to ask for the close.
LEMMA DeafStep ==
  ASSUME IInv, [Next]_vars, CanRead, ~CanRead', ~closeSent'
  PROVE  epollEvents' = {"out"} \/ Dropped(recvWork) \/ FirstRefused \/ Refused(recvPc)
<1> DEFINE Same == UNCHANGED <<addPending, firstRecv, recvWork, recvPc, armed, epollEvents>>
<1>1. ~Same
  <2>1. Same => (CanRead' <=> CanRead)
    BY DEF CanRead
  <2> QED BY <2>1
<1>2. CASE SendPacket \/ AddOneSendWorkItem \/ KickOutSession
  BY <1>1, <1>2 DEF SendPacket, AddOneSendWorkItem, KickOutSession, main, items, epoll, recv
<1>3. CASE AddFirstRecvOfSession
  BY <1>3 DEF AddFirstRecvOfSession, CanRead, FirstRefused
<1>4. CASE EpollWait
  BY <1>4 DEF EpollWait, CanRead, IInv, IOType, Events, items, recv
<1>5. CASE Dispatch
  <2>1. epollEvents # {} /\ epollEvents' = {}
    BY <1>5 DEF Dispatch
  <2>2. recvWork' = recvWork
    BY <1>5, DispatchRings DEF CanRead
  <2> QED BY <2>1, <2>2 DEF Dropped
<1>6. CASE ProcessFirstRecvOfSession \/ ProcessRecvworkFromEpollThread
  <2>1. PICK first \in BOOLEAN : recvPc = "idle" /\ RecvData(first) /\ UNCHANGED closeSent
    BY <1>6 DEF ProcessFirstRecvOfSession, ProcessRecvworkFromEpollThread, flags
  <2>2. recvPc' \in {"rearm", "close"}
    BY <2>1, RecvDataEnds
  <2> QED BY <2>2 DEF CanRead
<1>7. CASE ChooseEvents
  BY <1>7 DEF ChooseEvents, CanRead
<1>8. CASE AddToEpollWaitThread
  BY <1>8 DEF AddToEpollWaitThread, CanRead, IInv, ChosenEvents
<1>9. CASE AddSessionToCloseThreadToClose
  BY <1>9 DEF AddSessionToCloseThreadToClose, Refused
<1>10. CASE SendDataFailedProcess /\ added
  BY <1>10 DEF SendDataFailedProcess, CanRead
<1>11. CASE SendDataFailedProcess /\ ~added
  BY <1>1, <1>11 DEF SendDataFailedProcess, main, items, recv
<1>12. CASE SendStep /\ ~SendDataFailedProcess
  BY <1>1, <1>12 DEF SendStep, Sending, ProcessSendWork, ProcessEpollOutEvent,
     SendAccepted, SendFailed, SendBufIsFull, SendThreadCloses, main, items, epoll, recv
<1>13. CASE PeerStep \/ UNCHANGED vars
  BY <1>1, <1>13 DEF PeerStep, PeerReads, PeerSends, PeerGoes, vars, main, items, epoll, recv
<1> QED BY <1>2, <1>3, <1>4, <1>5, <1>6, <1>7, <1>8, <1>9, <1>10, <1>11, <1>12, <1>13
        DEF Next, MainStep, EpollStep, RecvStep

\* LSession.cpp:245: a session that could hear the peer's next byte stops
\* hearing it only by a close, by an EPOLLOUT that epoll delivers alone, or
\* when a full ring loses the EPOLLIN, the first receive or the receive
\* thread's request to close.
THEOREM DeafOnlyInTheseWays == Spec => DeafOnlyByLoss
<1>1. IInv /\ [Next]_vars =>
        [CanRead /\ ~CanRead' /\ ~closeSent' =>
           epollEvents' = {"out"} \/ Dropped(recvWork) \/ FirstRefused \/ Refused(recvPc)]_vars
  BY DeafStep
<1> QED BY <1>1, SessionIOInv, PTL DEF Spec, DeafOnlyByLoss
=============================================================================
