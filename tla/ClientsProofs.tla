---------------------------- MODULE ClientsProofs -----------------------------
(***************************************************************************)
(* Theorems about the client side, one section a component.  Connector,    *)
(* for every number of descriptors, every size of the rings and of the     *)
(* buffer, and every set of lengths a server may write: the types, what    *)
(* goes out on a connection, what the application gets, which descriptors  *)
(* are closed, and when a connection is given up.  PacketBuffer, for every *)
(* size of the two buffers and every set of kinds: what is laid out, and   *)
(* what is read of it.  PacketPool, for every number of pools and every    *)
(* set of lengths: what becomes of the packets.  MySqlStatement, for every *)
(* set of types and every list of results: what a call is sent, and what   *)
(* its rows and its output parameters become.                              *)
(***************************************************************************)
EXTENDS Connector, PacketBuffer, PacketPool, MySqlStatement,
        FiniteSetTheorems, SequenceTheorems, WellFoundedInduction, TLAPS

Packet == [no : 1 .. MaxHeard, len : Lengths]
Slots  == 0 .. RecvSlots - 1
Places == 0 .. SendPlaces - 1
Fds    == {-1} \union 1 .. NFd
\* Where the connector thread is in ReConnect, and where inside ClearContent.
Clearing   == {"clear_recv_write", "clear_send_read", "clear_send_write"}
Connecting == Clearing \union {"socket", "connect"}
Working    == {"loop", "select", "take", "send", "sending", "aborted"}

\* TypeOK in five parts.
FdType ==
  owner \in [1 .. NFd -> {"free", "mine", "other"}] /\ sock \in Fds /\ fresh \in Fds

FlagType ==
  /\ connected \in BOOLEAN /\ sendable \in BOOLEAN /\ gone \in BOOLEAN
  /\ getting \in BOOLEAN /\ getTorn \in BOOLEAN
  /\ putting \in BOOLEAN /\ putTorn \in BOOLEAN
  /\ pc \in Connecting \union Working
  /\ outcome \in {"none", "ok", "failed"} /\ attempts \in 0 .. MaxAttempts

ServerType ==
  /\ remain \in 0 .. RecvBufLen /\ flight \in Nat /\ heard \in 0 .. MaxHeard
  /\ stream \in Seq(Packet)

InboxType ==
  /\ inbox \in [Slots -> 0 .. MaxHeard]
  /\ rr \in Slots /\ rw \in Slots /\ getAt \in Slots /\ got \in 0 .. MaxHeard

OutboxType ==
  /\ outbox \in [Places -> 0 .. MaxBytes]
  /\ sr \in Places /\ sw \in Places /\ putAt \in Places /\ snap \in Places
  /\ putLen \in 0 .. MaxOut
  /\ accepted \in 0 .. MaxBytes /\ base \in 0 .. accepted
  /\ wire \in Seq(0 .. MaxBytes)
  /\ ~putting => putLen = 0

\* The descriptor of a connection, and of an attempt, is the connector's own.
OwnDescriptor ==
  /\ pc = "connect" => fresh # -1 /\ owner[fresh] = "mine"
  /\ outcome = "none" => sock = -1
  /\ outcome = "ok" /\ pc \notin Connecting => sock # -1 /\ owner[sock] = "mine"
  /\ connected => outcome = "ok" /\ pc \in {"select", "take", "send", "sending"}

\* ends gives the last byte of each packet of a sequence.
EndsOf(packets, ends) ==
  /\ ends \in [0 .. Len(packets) -> Int]
  /\ ends[0] = 0
  /\ \A i \in 1 .. Len(packets) : ends[i] = ends[i - 1] + Size(packets[i].len)

\* n bytes are those of the packets, no more and no fewer.
AreBytesOf(packets, n) == \E ends : EndsOf(packets, ends) /\ ends[Len(packets)] = n

\* What was received and not taken, and what is under way, are the packets of
\* stream; outside the loop of ParseRecvedData the buffer holds no whole one.
BytesAccounted ==
  /\ AreBytesOf(stream, remain + flight)
  /\ pc = "take" => stream # <<>> /\ LegalLen(Head(stream).len)
  /\ pc \in Connecting => remain = 0
  /\ connected /\ pc # "take" =>
       remain = 0 \/ (stream # <<>> /\ remain < Size(Head(stream).len))

\* How far b is behind a in a ring of n places.
Dist(a, b, n) == IF a <= b THEN b - a ELSE b - a + n

\* The numbers of the server's packets: taken ones first, then those of stream.
NumbersAscend ==
  /\ \A i \in 1 .. Len(stream) : stream[i].no = heard - Len(stream) + i
  /\ \A i \in Slots : inbox[i] <= heard - Len(stream)
  /\ got <= heard - Len(stream)

\* The filled slots of the receive ring are in the order of the server, behind
\* what the application got, unless a GetData was under way between the two
\* stores of the last reset: between them nothing else is said of the ring.
InboxInOrder ==
  ~getTorn =>
    /\ pc = "clear_recv_write" => rr = 0 /\ ~getting
    /\ pc # "clear_recv_write" =>
         /\ getting => getAt = rr /\ rr # rw
         /\ \A i \in Slots : Dist(rr, i, RecvSlots) < Dist(rr, rw, RecvSlots) =>
              /\ inbox[i] = 0 \/ inbox[i] > got
              /\ \A j \in Slots : Dist(rr, i, RecvSlots) < Dist(rr, j, RecvSlots)
                                  /\ Dist(rr, j, RecvSlots) < Dist(rr, rw, RecvSlots)
                   => inbox[i] = 0 \/ inbox[j] = 0 \/ inbox[i] < inbox[j]

\* Bytes in the send ring, and the last byte that has left it.
Waiting == Dist(sr, sw, SendPlaces)
LastOut == accepted - putLen - Waiting

\* From the read index on the send ring holds the bytes put since the reset and
\* not yet sent, those of a SendOnePacket under way behind them; between the two
\* stores of the reset nothing is said of it but that the first was made.
OutboxInOrder ==
  /\ pc = "clear_send_write" => sr = 0
  /\ ~putTorn /\ pc # "clear_send_write" =>
       /\ putting => putAt = sw
       /\ Waiting + putLen < SendPlaces
       /\ base <= LastOut
       /\ \A i \in Places : Dist(sr, i, SendPlaces) < Waiting + putLen =>
            outbox[i] = LastOut + Dist(sr, i, SendPlaces) + 1
       /\ pc = "sending" => sr # snap /\ Dist(sr, snap, SendPlaces) <= Waiting

\* What the system took lies between the reset and the last byte out.
WireInOrder ==
  /\ pc \in Clearing => wire = <<>>
  /\ ~putTorn =>
       /\ \A i \in 1 .. Len(wire) : wire[i] > base /\ wire[i] <= LastOut
       /\ \A i, j \in 1 .. Len(wire) : i < j => wire[i] < wire[j]

Types == FdType /\ FlagType /\ ServerType /\ InboxType /\ OutboxType

IInv == /\ Types /\ OwnDescriptor /\ BytesAccounted
        /\ NumbersAscend /\ InboxInOrder /\ OutboxInOrder /\ WireInOrder

LEMMA TypesAreTypeOK == ASSUME Types PROVE TypeOK
<1>1. /\ {connected, sendable, gone, getting, getTorn, putting, putTorn} \subseteq BOOLEAN
      /\ {rr, rw, getAt} \subseteq Slots /\ {sr, sw, putAt, snap} \subseteq Places
  BY DEF Types, FlagType, InboxType, OutboxType
<1>2. TypeOK
  BY <1>1 DEF TypeOK, Types, FdType, FlagType, ServerType, InboxType, OutboxType, Fds,
              Packet, Slots, Places, Clearing, Connecting, Working
<1> QED BY <1>2

-----------------------------------------------------------------------------
(* Rings: arithmetic.                                                       *)

LEMMA NextPlace ==
  ASSUME NEW n \in Nat \ {0}, NEW i \in 0 .. n - 1
  PROVE  (i + 1) % n = IF i + 1 < n THEN i + 1 ELSE 0
  OBVIOUS

LEMMA PlaceAfter ==
  ASSUME NEW n \in Nat \ {0}, NEW i \in 0 .. n - 1, NEW k \in 0 .. n
  PROVE  /\ (i + k) % n = IF i + k < n THEN i + k ELSE i + k - n
         /\ (i + k) % n \in 0 .. n - 1
  OBVIOUS

LEMMA DistRange ==
  ASSUME NEW n \in Nat \ {0}, NEW a \in 0 .. n - 1, NEW b \in 0 .. n - 1
  PROVE  Dist(a, b, n) \in 0 .. n - 1 /\ (Dist(a, b, n) = 0 <=> a = b)
  BY DEF Dist

-----------------------------------------------------------------------------
(* Sequences of packets and their bytes.                                    *)

LEMMA SizeIsTwoOrMore ==
  ASSUME NEW len \in Lengths
  PROVE  len \in Nat /\ Size(len) \in Nat /\ Size(len) >= 2
  BY ConnectorAssumption DEF Size, LegalLen

LEMMA PacketFields ==
  ASSUME NEW p \in Packet
  PROVE  /\ p.no \in 1 .. MaxHeard /\ p.len \in Lengths /\ p.len \in Nat
         /\ Size(p.len) \in Nat /\ Size(p.len) >= 2
<1>1. p.no \in 1 .. MaxHeard /\ p.len \in Lengths
  BY DEF Packet
<1> QED BY <1>1, SizeIsTwoOrMore

LEMMA EmptyBytes == AreBytesOf(<<>>, 0)
<1>1. EndsOf(<<>>, [i \in 0 .. 0 |-> 0])
  BY DEF EndsOf
<1> QED BY <1>1 DEF AreBytesOf

\* Where there are bytes there is a packet.
LEMMA BytesNeedPacket ==
  ASSUME NEW packets \in Seq(Packet), NEW n \in Int, AreBytesOf(packets, n), n > 0
  PROVE  packets # <<>>
<1>1. PICK ends : EndsOf(packets, ends) /\ ends[Len(packets)] = n
  BY DEF AreBytesOf
<1>2. SUFFICES ASSUME packets = <<>> PROVE FALSE
  OBVIOUS
<1>3. Len(packets) = 0
  BY <1>2
<1> QED BY <1>1, <1>3 DEF EndsOf

\* No packet, no bytes.
LEMMA NoPacketNoBytes ==
  ASSUME NEW packets \in Seq(Packet), NEW n \in Int, AreBytesOf(packets, n),
         packets = <<>>
  PROVE  n = 0
<1>1. PICK ends : EndsOf(packets, ends) /\ ends[Len(packets)] = n
  BY DEF AreBytesOf
<1>2. Len(packets) = 0
  OBVIOUS
<1> QED BY <1>1, <1>2 DEF EndsOf

LEMMA AppendBytes ==
  ASSUME NEW packets \in Seq(Packet), NEW n \in Int, AreBytesOf(packets, n),
         NEW p \in Packet
  PROVE  AreBytesOf(Append(packets, p), n + Size(p.len))
<1> DEFINE more == Append(packets, p)
           size == Size(p.len)
<1>1. PICK ends : EndsOf(packets, ends) /\ ends[Len(packets)] = n
  BY DEF AreBytesOf
<1> DEFINE longer == [i \in 0 .. Len(more) |-> IF i <= Len(packets) THEN ends[i] ELSE n + size]
<1>2. /\ Len(more) = Len(packets) + 1 /\ Len(packets) \in Nat
      /\ more[Len(packets) + 1] = p
      /\ \A i \in 1 .. Len(packets) : more[i] = packets[i]
  OBVIOUS
<1>3. size \in Nat
  BY PacketFields
<1>4. longer \in [0 .. Len(more) -> Int]
  BY <1>1, <1>2, <1>3 DEF EndsOf
<1>5. longer[0] = 0 /\ longer[Len(more)] = n + size
  BY <1>1, <1>2 DEF EndsOf
<1>6. ASSUME NEW i \in 1 .. Len(more)
      PROVE  longer[i] = longer[i - 1] + Size(more[i].len)
  <2>1. CASE i <= Len(packets)
    <3>1. i \in 1 .. Len(packets) /\ i - 1 \in 0 .. Len(packets)
      BY <2>1, <1>2
    <3>2. longer[i] = ends[i] /\ longer[i - 1] = ends[i - 1] /\ more[i] = packets[i]
      BY <3>1, <1>2
    <3> QED BY <3>1, <3>2, <1>1 DEF EndsOf
  <2>2. CASE i = Len(more)
    <3>1. longer[i] = n + size /\ longer[i - 1] = n /\ more[i] = p
      BY <2>2, <1>1, <1>2
    <3> QED BY <3>1
  <2> QED BY <2>1, <2>2, <1>2
<1>7. EndsOf(more, longer)
  BY <1>4, <1>5, <1>6 DEF EndsOf
<1> QED BY <1>5, <1>7 DEF AreBytesOf

\* Taking the first packet takes its bytes.
LEMMA TailBytes ==
  ASSUME NEW packets \in Seq(Packet), NEW n \in Int, AreBytesOf(packets, n),
         packets # <<>>
  PROVE  AreBytesOf(Tail(packets), n - Size(Head(packets).len))
<1> DEFINE rest == Tail(packets)
           size == Size(Head(packets).len)
<1>1. PICK ends : EndsOf(packets, ends) /\ ends[Len(packets)] = n
  BY DEF AreBytesOf
<1>2. /\ Len(packets) \in Nat \ {0} /\ Len(rest) = Len(packets) - 1
      /\ Head(packets) = packets[1] /\ packets[1] \in Packet
      /\ \A i \in 1 .. Len(rest) : rest[i] = packets[i + 1]
  OBVIOUS
<1>3. size \in Int
  BY <1>2, PacketFields
<1>4. ends[1] = size
  BY <1>1, <1>2, <1>3 DEF EndsOf
<1> DEFINE shifted == [i \in 0 .. Len(rest) |-> ends[i + 1] - size]
<1>5. shifted \in [0 .. Len(rest) -> Int]
  BY <1>1, <1>2, <1>3 DEF EndsOf
<1>6. shifted[0] = 0 /\ shifted[Len(rest)] = n - size
  BY <1>1, <1>2, <1>3, <1>4
<1>7. ASSUME NEW i \in 1 .. Len(rest)
      PROVE  shifted[i] = shifted[i - 1] + Size(rest[i].len)
  <2>1. i + 1 \in 1 .. Len(packets) /\ i - 1 \in 0 .. Len(rest) /\ i \in 0 .. Len(rest)
    BY <1>2
  <2>2. ends[i + 1] = ends[i] + Size(packets[i + 1].len)
    BY <2>1, <1>1 DEF EndsOf
  <2>3. packets[i + 1] \in Packet
    BY <2>1
  <2>4. Size(packets[i + 1].len) \in Nat
    BY <2>3, PacketFields
  <2>5. ends[i] \in Int
    BY <2>1, <1>1, <1>2 DEF EndsOf
  <2>6. shifted[i] = ends[i + 1] - size /\ shifted[i - 1] = ends[i] - size
        /\ rest[i] = packets[i + 1]
    BY <2>1, <1>2
  <2> HIDE DEF shifted, rest, size
  <2> QED BY <2>2, <2>4, <2>5, <2>6, <1>3
<1>8. EndsOf(rest, shifted)
  BY <1>5, <1>6, <1>7 DEF EndsOf
<1> QED BY <1>6, <1>8 DEF AreBytesOf

LEMMA RestBytes ==
  ASSUME NEW packets \in Seq(Packet), NEW n \in Int, AreBytesOf(packets, n),
         packets # <<>>, NEW m \in Int, m = n - Size(Head(packets).len)
  PROVE  AreBytesOf(Tail(packets), m)
<1>1. AreBytesOf(Tail(packets), n - Size(Head(packets).len))
  BY TailBytes
<1> QED BY <1>1

-----------------------------------------------------------------------------
(* Every step keeps each part of the invariant.                             *)

LEMMA InitInv == ASSUME Init PROVE IInv
<1> USE ConnectorAssumption
<1>1. FdType /\ FlagType /\ OwnDescriptor
  <2>1. FdType
    BY DEF Init, FdType, Fds
  <2>2. FlagType
    <3>1. attempts \in 0 .. MaxAttempts
      BY DEF Init
    <3>2. pc = "loop" /\ outcome = "none"
      BY DEF Init
    <3>3. "loop" \in Connecting \union Working
      BY DEF Working
    <3> QED BY <3>1, <3>2, <3>3, Zenon DEF Init, FlagType
  <2>3. OwnDescriptor
    BY DEF Init, OwnDescriptor, Connecting, Clearing
  <2> QED BY <2>1, <2>2, <2>3
<1>2. remain + flight = 0 /\ stream = <<>> /\ stream \in Seq(Packet)
  BY DEF Init
<1>3. ServerType
  BY <1>2 DEF Init, ServerType
<1>4. BytesAccounted
  BY <1>2, EmptyBytes DEF Init, BytesAccounted, Connecting, Clearing
<1>5. InboxType
  BY DEF Init, InboxType, Slots
<1>6. OutboxType
  <2>1. wire \in Seq(0 .. MaxBytes)
    BY DEF Init
  <2> QED BY <2>1 DEF Init, OutboxType, Places
<1>7. NumbersAscend
  BY <1>2 DEF Init, NumbersAscend, Slots
<1>8. InboxInOrder
  BY DEF Init, InboxInOrder, Slots, Dist
<1>9. OutboxInOrder /\ WireInOrder
  BY DEF Init, OutboxInOrder, WireInOrder, Places, Dist, Waiting, LastOut, Clearing
<1> QED BY <1>1, <1>3, <1>4, <1>5, <1>6, <1>7, <1>8, <1>9 DEF IInv, Types

LEMMA LeastNumber ==
  ASSUME NEW T \in SUBSET Nat, T # {} PROVE \E x \in T : \A y \in T : x <= y
<1>1. IsWellFoundedOn(OpToRel(<, Nat), Nat)
  BY NatLessThanWellFounded, Zenon
<1>2. PICK x \in T : \A y \in T : ~(<<y, x>> \in OpToRel(<, Nat))
  BY <1>1, WFMin, Zenon
<1>3. ASSUME NEW y \in T PROVE x <= y
  <2>1. ~(y < x)
    BY <1>2, Zenon DEF OpToRel
  <2> QED BY <2>1
<1> QED BY <1>3

LEMMA LowestIsFree ==
  ASSUME NEW S \in SUBSET (1 .. NFd), S # {}
  PROVE  Lowest(S) \in S
<1>1. S \in SUBSET Nat
  BY ConnectorAssumption
<1>2. \E d \in S : \A e \in S : d <= e
  BY <1>1, LeastNumber
<1> QED BY <1>2 DEF Lowest

\* The descriptors: whose they are, and the connector's own.
LEMMA DescriptorsKept ==
  ASSUME FdType, FlagType, OwnDescriptor, [Next]_vars
  PROVE  FdType' /\ OwnDescriptor'
<1> USE DEF FdType, FlagType, OwnDescriptor, Connecting, Clearing, Working
<1>1. CASE OtherOpens
  <2>1. Lowest(Free) \in Free
    BY <1>1, LowestIsFree DEF OtherOpens, Free
  <2>2. owner' = [owner EXCEPT ![Lowest(Free)] = "other"] /\ owner[Lowest(Free)] = "free"
        /\ UNCHANGED <<sock, fresh, connected, outcome, pc>>
    BY <1>1, <2>1 DEF OtherOpens, Free, state
  <2> QED BY <2>1, <2>2 DEF Free, Fds
<1>2. CASE OtherCloses
  <2>1. PICK d \in 1 .. NFd : owner[d] = "other" /\ owner' = [owner EXCEPT ![d] = "free"]
    BY <1>2 DEF OtherCloses, Closed
  <2>2. UNCHANGED <<sock, fresh, connected, outcome, pc>>
    BY <1>2 DEF OtherCloses, state
  <2> QED BY <2>1, <2>2 DEF Fds
<1>3. CASE ReConnect \/ ClearRecvWrite \/ ClearSendRead \/ ClearSendWrite
  <2>1. CASE ReConnect
    BY <2>1 DEF ReConnect, Closed, Fds
  <2>2. CASE ClearRecvWrite \/ ClearSendRead \/ ClearSendWrite
    <3>1. /\ UNCHANGED <<owner, sock, fresh, outcome, connected>>
          /\ pc \in Clearing /\ pc' \in {"clear_send_read", "clear_send_write", "socket"}
      BY <2>2 DEF ClearRecvWrite, ClearSendRead, ClearSendWrite, descriptors, state
    <3> QED BY <3>1
  <2> QED BY <1>3, <2>1, <2>2
<1>4. CASE OpenSocket
  <2>1. Free # {} => Lowest(Free) \in Free
    BY LowestIsFree DEF Free
  <2>2. ~connected /\ UNCHANGED <<sock, connected>>
    BY <1>4 DEF OpenSocket
  <2>3. CASE Free = {}
    BY <1>4, <2>2, <2>3 DEF OpenSocket, Failed
  <2>4. CASE Free # {}
    <3>1. fresh' \in Free /\ owner' = [owner EXCEPT ![fresh'] = "mine"] /\ pc' = "connect"
          /\ outcome' = outcome
      BY <1>4, <2>1, <2>4 DEF OpenSocket
    <3> QED BY <2>2, <3>1 DEF Free, Fds
  <2> QED BY <2>3, <2>4
<1>5. CASE ConnectFails \/ ConnectSucceeds \/ NonBlockFails
  <2>1. CASE ConnectSucceeds
    BY <2>1 DEF ConnectSucceeds, Fds
  <2>2. CASE ConnectFails \/ NonBlockFails
    <3>1. /\ outcome' = "failed" /\ pc' \in {"select", "loop"} /\ ~connected /\ ~connected'
          /\ UNCHANGED <<owner, fresh>> /\ sock' \in Fds
      BY <2>2 DEF ConnectFails, NonBlockFails, Failed, descriptors
    <3> QED BY <3>1
  <2> QED BY <1>5, <2>1, <2>2
<1>6. CASE SelectStep
  <2>1. /\ UNCHANGED <<owner, sock, fresh, outcome>>
        /\ pc' \in {"loop", "select", "take", "send", "sending", "aborted"}
        /\ pc \notin Connecting
        /\ connected' => connected /\ pc' \in {"select", "take", "send", "sending"}
    <3>1. CASE SelectNoSocket \/ SelectBadSocket \/ SelectTimeout \/ StraySelect
      BY <3>1 DEF SelectNoSocket, SelectBadSocket, SelectTimeout, StraySelect, Disconnect,
         descriptors, state
    <3>2. CASE DoRecv
      BY <3>2 DEF DoRecv, ParseRecvedData, Disconnect, descriptors
    <3>3. CASE TakePacket
      BY <3>3 DEF TakePacket, AfterPacket, Disconnect, descriptors
    <3> QED BY <1>6, <3>1, <3>2, <3>3 DEF SelectStep
  <2> QED BY <2>1
<1>7. CASE SendStep
  <2>1. /\ UNCHANGED <<owner, sock, fresh, outcome>>
        /\ pc' \in {"loop", "select", "send", "sending"}
        /\ pc \notin Connecting
        /\ connected' => connected /\ pc' \in {"select", "take", "send", "sending"}
    BY <1>7 DEF SendStep, BecomesSendable, SendPackets, SendAccepted, SendBufIsFull,
       StraySend, SendFails, PieceIsGone, Again, Disconnect, descriptors, state
  <2> QED BY <2>1
<1>8. CASE AppStep \/ ServerSends \/ ServerGoes \/ UNCHANGED vars
  <2>1. UNCHANGED <<owner, sock, fresh, outcome, pc, connected>>
    BY <1>8 DEF AppStep, GetOneRecvedPacket, GotPacket, SendOnePacket, PutPacket, ServerSends,
       ServerGoes, descriptors, state, vars
  <2> QED BY <2>1
<1> QED BY <1>1, <1>2, <1>3, <1>4, <1>5, <1>6, <1>7, <1>8 DEF Next, ConnectStep

LEMMA FlagsKept == ASSUME FlagType, [Next]_vars PROVE FlagType'
<1> USE DEF FlagType, Connecting, Clearing, Working
<1>1. CASE ConnectStep
  <2>1. CASE ReConnect
    <3>1. attempts' \in 0 .. MaxAttempts
      BY <2>1, ConnectorAssumption DEF ReConnect
    <3>2. /\ UNCHANGED <<connected, sendable, getting, putting, outcome>>
          /\ gone' = FALSE /\ getTorn' = getting /\ UNCHANGED putTorn
          /\ pc' = "clear_recv_write"
      BY <2>1 DEF ReConnect, puts
    <3> QED BY <3>1, <3>2
  <2>2. CASE OpenSocket \/ ConnectFails \/ ConnectSucceeds \/ NonBlockFails
    <3>1. /\ UNCHANGED <<gone, getting, getTorn, putting, putTorn, attempts>>
          /\ connected' \in {connected, TRUE} /\ sendable' \in {sendable, TRUE}
          /\ pc' \in {"select", "loop", "connect"} /\ outcome' \in {outcome, "failed", "ok"}
      <4>1. CASE OpenSocket
        BY <4>1 DEF OpenSocket, Failed, server, gets, puts
      <4>2. CASE ConnectFails
        BY <4>2 DEF ConnectFails, Failed, server, gets, puts
      <4>3. CASE ConnectSucceeds
        BY <4>3 DEF ConnectSucceeds, server, gets, puts
      <4>4. CASE NonBlockFails
        BY <4>4 DEF NonBlockFails, Failed, server, gets, puts
      <4> QED BY <2>2, <4>1, <4>2, <4>3, <4>4
    <3>2. connected' \in BOOLEAN /\ sendable' \in BOOLEAN
      BY <3>1
    <3>3. /\ pc' \in Connecting \union Working
          /\ outcome' \in {"none", "ok", "failed"}
      BY <3>1
    <3> QED BY <3>1, <3>2, <3>3
  <2>3. CASE ClearRecvWrite \/ ClearSendRead \/ ClearSendWrite
    <3>1. /\ UNCHANGED <<connected, sendable, attempts, outcome, gone, getting, getTorn, putting>>
          /\ putTorn' \in {putTorn, putting}
          /\ pc' \in {"clear_send_read", "clear_send_write", "socket"}
      BY <2>3 DEF ClearRecvWrite, ClearSendRead, ClearSendWrite, state, server, gets, puts
    <3>2. putTorn' \in BOOLEAN /\ pc' \in Connecting \union Working
      BY <3>1
    <3> QED BY <3>1, <3>2
  <2> QED BY <1>1, <2>1, <2>2, <2>3 DEF ConnectStep
<1>2. CASE SelectStep
  <2>1. CASE SelectNoSocket \/ SelectBadSocket \/ SelectTimeout \/ StraySelect
    <3>1. CASE SelectNoSocket
      BY <3>1 DEF SelectNoSocket, Disconnect, state, server, gets, puts
    <3>2. CASE SelectBadSocket
      BY <3>2 DEF SelectBadSocket, Disconnect, state, server, gets, puts
    <3>3. CASE SelectTimeout
      BY <3>3 DEF SelectTimeout, Disconnect, state, server, gets, puts
    <3>4. CASE StraySelect
      BY <3>4 DEF StraySelect, Disconnect, state, server, gets, puts
    <3> QED BY <2>1, <3>1, <3>2, <3>3, <3>4
  <2>2. CASE DoRecv
    BY <2>2 DEF DoRecv, ParseRecvedData, Disconnect, gets, puts
  <2>3. CASE TakePacket
    BY <2>3 DEF TakePacket, AfterPacket, Disconnect, gets, puts
  <2> QED BY <1>2, <2>1, <2>2, <2>3 DEF SelectStep
<1>3. CASE SendStep
  <2>1. CASE BecomesSendable
    BY <2>1 DEF BecomesSendable, Again, state, server, gets, puts
  <2>2. CASE SendPackets
    BY <2>2 DEF SendPackets, Again, state, server, gets, puts
  <2>3. CASE SendAccepted
    BY <2>3 DEF SendAccepted, PieceIsGone, Again, state, server, gets, puts
  <2>4. CASE SendBufIsFull
    BY <2>4 DEF SendBufIsFull, Again, state, server, gets, puts
  <2>5. CASE StraySend
    BY <2>5 DEF StraySend, PieceIsGone, Again, state, server, gets, puts
  <2>6. CASE SendFails
    BY <2>6 DEF SendFails, Disconnect, Again, state, server, gets, puts
  <2> QED BY <1>3, <2>1, <2>2, <2>3, <2>4, <2>5, <2>6 DEF SendStep
<1>4. CASE AppStep \/ ServerSends \/ ServerGoes \/ OtherOpens \/ OtherCloses \/ UNCHANGED vars
  <2>1. /\ UNCHANGED <<connected, sendable, pc, outcome, attempts, putTorn>>
        /\ getTorn' \in BOOLEAN /\ gone' \in BOOLEAN /\ getting' \in BOOLEAN /\ putting' \in BOOLEAN
    BY <1>4 DEF AppStep, GetOneRecvedPacket, GotPacket, SendOnePacket, PutPacket,
       ServerSends, ServerGoes, OtherOpens, OtherCloses, state, server, gets, puts, vars
  <2> QED BY <2>1
<1> QED BY <1>1, <1>2, <1>3, <1>4 DEF Next

\* The server's packets: sent, received and taken.
ServerSide == <<remain, flight, heard, stream, pc, connected>>

LEMMA ServerSideKept ==
  ASSUME ServerType, BytesAccounted, UNCHANGED ServerSide
  PROVE  ServerType' /\ BytesAccounted'
  BY DEF ServerType, BytesAccounted, ServerSide

\* A step that leaves the bytes alone and ends outside the loop.
LEMMA BytesLeftAlone ==
  ASSUME ServerType, BytesAccounted, UNCHANGED <<remain, flight, heard, stream>>,
         pc' \in Working \ {"take"},
         connected' => connected /\ pc # "take"
  PROVE  ServerType' /\ BytesAccounted'
<1>1. pc' \notin Connecting /\ pc' # "take"
  BY DEF Connecting, Clearing, Working
<1> QED BY <1>1 DEF ServerType, BytesAccounted

\* ParseRecvedData's first look at n bytes of which more follow.
LEMMA ParseHolds ==
  ASSUME NEW n \in Nat, NEW packets \in Seq(Packet), NEW more \in Nat, n > 0,
         packets = stream, AreBytesOf(packets, n + more), ParseRecvedData(n)
  PROVE  /\ pc' \in {"send", "take", "loop"}
         /\ pc' = "take" => packets # <<>> /\ LegalLen(Head(packets).len)
         /\ connected' /\ pc' # "take" => packets # <<>> /\ n < Size(Head(packets).len)
<1>1. packets # <<>>
  <2>1. n + more \in Int /\ n + more > 0
    OBVIOUS
  <2> QED BY <2>1, BytesNeedPacket
<1>2. Head(packets) \in Packet
  BY <1>1
<1>3. Size(Head(packets).len) \in Nat /\ Size(Head(packets).len) >= 2
  BY <1>2, PacketFields
<1>4. \/ n = 1 /\ pc' = "send"
      \/ connected' = FALSE /\ pc' = "loop"
      \/ pc' = "take" /\ LegalLen(Head(packets).len)
  BY DEF ParseRecvedData, Disconnect
<1> QED BY <1>1, <1>3, <1>4

LEMMA DoRecvBytes ==
  ASSUME ServerType, BytesAccounted, DoRecv
  PROVE  ServerType' /\ BytesAccounted'
<1>1. UNCHANGED <<heard, stream>> /\ pc = "select"
  BY DEF DoRecv
<1>2. /\ remain \in Nat /\ remain <= RecvBufLen /\ flight \in Nat /\ RecvBufLen \in Nat
      /\ stream \in Seq(Packet)
  BY ConnectorAssumption DEF ServerType
<1>3. CASE /\ UNCHANGED <<remain, flight>>
           /\ pc' = "loop" /\ connected' = FALSE
  BY <1>1, <1>3, BytesLeftAlone DEF Working
<1>4. CASE \E n \in 1 .. flight :
             /\ remain + n <= RecvBufLen
             /\ remain' = remain + n /\ flight' = flight - n
             /\ ParseRecvedData(remain + n)
  <2>1. PICK n \in 1 .. flight :
             /\ remain + n <= RecvBufLen
             /\ remain' = remain + n /\ flight' = flight - n
             /\ ParseRecvedData(remain + n)
    BY <1>4
  <2>2. PICK r \in Nat : r = remain + n /\ r > 0 /\ r <= RecvBufLen
    BY <1>2, <2>1
  <2>3. PICK f \in Nat : f = flight - n /\ r + f = remain + flight
    BY <1>2, <2>2
  <2>4. ServerType'
    BY <1>1, <2>1, <2>2, <2>3 DEF ServerType
  <2>5. AreBytesOf(stream, r + f)
    BY <2>3 DEF BytesAccounted
  <2>6. /\ pc' \in {"send", "take", "loop"}
        /\ pc' = "take" => stream # <<>> /\ LegalLen(Head(stream).len)
        /\ connected' /\ pc' # "take" => stream # <<>> /\ r < Size(Head(stream).len)
    BY <1>2, <2>1, <2>2, <2>5, ParseHolds
  <2>7. BytesAccounted'
    BY <1>1, <2>1, <2>2, <2>3, <2>5, <2>6 DEF BytesAccounted, Connecting, Clearing
  <2> QED BY <2>4, <2>7
<1> QED BY <1>3, <1>4 DEF DoRecv, Disconnect

LEMMA TakePacketBytes ==
  ASSUME ServerType, BytesAccounted, TakePacket
  PROVE  ServerType' /\ BytesAccounted'
<1>1. UNCHANGED <<flight, heard>> /\ pc = "take"
  BY DEF TakePacket
<1>2. /\ remain \in Nat /\ remain <= RecvBufLen /\ flight \in Nat /\ RecvBufLen \in Nat
      /\ stream \in Seq(Packet)
  BY ConnectorAssumption DEF ServerType
<1>3. stream # <<>> /\ LegalLen(Head(stream).len)
  BY <1>1 DEF BytesAccounted
<1>4. PICK len \in Nat : len = Head(stream).len /\ Size(len) = len /\ len >= 2
  BY <1>2, <1>3, PacketFields DEF Size, LegalLen
<1>5. CASE remain < len /\ pc' = "send" /\ UNCHANGED <<connected, remain, stream>>
  BY <1>1, <1>2, <1>3, <1>4, <1>5 DEF ServerType, BytesAccounted, Connecting, Clearing
<1>6. CASE connected' = FALSE /\ pc' = "loop" /\ UNCHANGED <<remain, stream>>
  BY <1>1, <1>6, BytesLeftAlone DEF Working
<1>7. CASE /\ remain >= len /\ remain' = remain - len /\ stream' = Tail(stream)
           /\ AfterPacket(remain - len)
  <2>1. PICK left \in Nat : left = remain - len /\ left <= RecvBufLen
    BY <1>2, <1>4, <1>7
  <2>2. PICK rest \in Seq(Packet) :
          rest = Tail(stream) /\ Len(rest) = Len(stream) - 1
          /\ (rest # <<>> => Head(rest) = stream[2])
    <3>1. /\ Tail(stream) \in Seq(Packet) /\ Len(Tail(stream)) = Len(stream) - 1
          /\ \A i \in 1 .. Len(Tail(stream)) : Tail(stream)[i] = stream[i + 1]
      BY <1>2, <1>3, HeadTailProperties
    <3>2. PICK r \in Seq(Packet) : r = Tail(stream) /\ Len(r) = Len(stream) - 1
                                   /\ \A i \in 1 .. Len(r) : r[i] = stream[i + 1]
      BY <3>1
    <3>3. ASSUME r # <<>> PROVE Head(r) = r[1] /\ 1 \in 1 .. Len(r)
      BY <3>3
    <3>4. r # <<>> => Head(r) = stream[2]
      BY <3>2, <3>3
    <3> QED BY <3>2, <3>4
  <2>3. ServerType'
    BY <1>1, <1>7, <2>1, <2>2 DEF ServerType
  <2>4. AreBytesOf(rest, left + flight)
    <3>1. PICK n \in Int : n = remain + flight /\ AreBytesOf(stream, n)
      BY <1>2 DEF BytesAccounted
    <3>2. PICK m \in Int : m = left + flight /\ m = n - Size(Head(stream).len)
      <4>1. Size(Head(stream).len) = len
        BY <1>4
      <4>2. left + flight = n - len
        BY ONLY <2>1, <3>1, len \in Nat, <1>2
      <4> QED BY <1>2, <2>1, <4>1, <4>2
    <3>3. AreBytesOf(Tail(stream), m)
      BY <1>2, <1>3, <3>1, <3>2, RestBytes
    <3> QED BY <2>2, <3>2, <3>3
  <2>5. left > 0 => rest # <<>>
    <3>1. left + flight \in Int /\ (left > 0 => left + flight > 0)
      BY <1>2
    <3> QED BY <2>4, <3>1, BytesNeedPacket
  <2>6. rest # <<>> => Size(Head(rest).len) \in Nat /\ Size(Head(rest).len) >= 2
    <3>1. rest # <<>> => Head(rest) \in Packet
      OBVIOUS
    <3> QED BY <3>1, PacketFields
  <2>7. \/ left < 2 /\ pc' = "send"
        \/ left >= 2 /\ pc' = "take" /\ LegalLen(stream[2].len)
        \/ pc' = "loop" /\ connected' = FALSE
    BY <1>7, <2>1 DEF AfterPacket, Disconnect
  <2>8. BytesAccounted'
    BY <1>1, <1>7, <2>1, <2>2, <2>4, <2>5, <2>6, <2>7
       DEF BytesAccounted, Connecting, Clearing
  <2> QED BY <2>3, <2>8
<1>8. \/ remain < len /\ pc' = "send" /\ UNCHANGED <<connected, remain, stream>>
      \/ connected' = FALSE /\ pc' = "loop" /\ UNCHANGED <<remain, stream>>
      \/ /\ remain >= len /\ remain' = remain - len /\ stream' = Tail(stream)
         /\ AfterPacket(remain - len)
  BY <1>4 DEF TakePacket, Disconnect
<1> QED BY <1>5, <1>6, <1>7, <1>8

LEMMA ServerSendsBytes ==
  ASSUME ServerType, BytesAccounted, OwnDescriptor, ServerSends
  PROVE  ServerType' /\ BytesAccounted'
<1>1. PICK len \in Lengths :
        /\ stream' = Append(stream, [no |-> heard + 1, len |-> len])
        /\ flight' = flight + Size(len)
  BY DEF ServerSends
<1>2. heard < MaxHeard /\ heard' = heard + 1 /\ UNCHANGED <<connected, pc, remain>>
  BY DEF ServerSends, state
<1>3. /\ remain \in Nat /\ flight \in Nat /\ heard \in Nat /\ MaxHeard \in Nat
      /\ stream \in Seq(Packet)
  BY ConnectorAssumption DEF ServerType
<1>4. PICK p \in Packet : p = [no |-> heard + 1, len |-> len] /\ p.len = len
  <2>1. heard + 1 \in 1 .. MaxHeard
    BY <1>2, <1>3
  <2>2. [no |-> heard + 1, len |-> len] \in Packet
    BY <2>1 DEF Packet
  <2> QED BY <2>2
<1>5. Size(len) \in Nat /\ Size(len) >= 2
  BY SizeIsTwoOrMore
<1>6. ServerType'
  <2>1. heard' \in 0 .. MaxHeard /\ flight' \in Nat
    BY <1>1, <1>2, <1>3, <1>5
  <2> QED BY <2>1, <1>1, <1>2, <1>4 DEF ServerType
<1>7. AreBytesOf(stream', remain' + flight')
  <2>1. AreBytesOf(Append(stream, p), remain + flight + Size(p.len))
    BY <1>3, AppendBytes DEF BytesAccounted
  <2>2. remain' + flight' = remain + flight + Size(p.len)
    BY <1>1, <1>2, <1>3, <1>4, <1>5
  <2> QED BY <2>1, <2>2, <1>1, <1>4
<1>8. stream' # <<>> /\ Head(stream') = IF stream = <<>> THEN p ELSE Head(stream)
  BY <1>1, <1>3, <1>4
<1>9. BytesAccounted'
  BY <1>2, <1>7, <1>8 DEF BytesAccounted
<1> QED BY <1>6, <1>9

LEMMA ServerPartKept ==
  ASSUME ServerType, BytesAccounted, OwnDescriptor, [Next]_vars
  PROVE  ServerType' /\ BytesAccounted'
<1>1. CASE ReConnect
  <2>1. /\ remain' = 0 /\ flight' = 0 /\ stream' = <<>> /\ heard' = heard
        /\ pc' = "clear_recv_write"
    BY <1>1 DEF ReConnect
  <2>2. stream' \in Seq(Packet) /\ remain' + flight' = 0
    BY <2>1
  <2>3. ServerType'
    BY <2>1, <2>2, ConnectorAssumption DEF ServerType
  <2>4. BytesAccounted'
    BY <2>1, <2>2, EmptyBytes DEF BytesAccounted
  <2> QED BY <2>3, <2>4
<1>2. CASE \/ ClearRecvWrite \/ ClearSendRead \/ ClearSendWrite
           \/ OpenSocket \/ ConnectFails \/ ConnectSucceeds \/ NonBlockFails
  <2>1. UNCHANGED <<remain, flight, heard, stream>> /\ pc \in Connecting
        /\ pc' # "take"
    BY <1>2 DEF ClearRecvWrite, ClearSendRead, ClearSendWrite, OpenSocket, ConnectFails,
       ConnectSucceeds, NonBlockFails, Failed, server, Connecting, Clearing
  <2> QED BY <2>1 DEF ServerType, BytesAccounted
<1>3. CASE DoRecv
  BY <1>3, DoRecvBytes
<1>4. CASE TakePacket
  BY <1>4, TakePacketBytes
<1>5. CASE SelectNoSocket \/ SelectBadSocket \/ SelectTimeout \/ StraySelect \/ SendStep
  <2>1. /\ UNCHANGED <<remain, flight, heard, stream>> /\ pc \in {"select", "send", "sending"}
        /\ pc' \in {"send", "aborted", "loop", "select", "sending"}
        /\ connected' => connected
    BY <1>5 DEF SelectNoSocket, SelectBadSocket, SelectTimeout, StraySelect, Disconnect,
       SendStep, BecomesSendable, SendPackets, SendAccepted, SendBufIsFull, StraySend,
       SendFails, PieceIsGone, Again, server, state
  <2> QED BY <2>1, BytesLeftAlone DEF Working
<1>6. CASE ServerSends
  BY <1>6, ServerSendsBytes
<1>7. CASE AppStep \/ ServerGoes \/ OtherOpens \/ OtherCloses \/ UNCHANGED vars
  <2>1. UNCHANGED ServerSide
    BY <1>7 DEF AppStep, GetOneRecvedPacket, GotPacket, SendOnePacket, PutPacket,
       ServerGoes, OtherOpens, OtherCloses, state, server, vars, ServerSide
  <2> QED BY <2>1, ServerSideKept
<1> QED BY <1>1, <1>2, <1>3, <1>4, <1>5, <1>6, <1>7 DEF Next, ConnectStep, SelectStep

\* The receive ring: what is put behind its last slot, what is taken in front.
LEMMA NextDist ==
  ASSUME NEW n \in Nat \ {0}, NEW a \in 0 .. n - 1, NEW b \in 0 .. n - 1,
         NEW next \in 0 .. n - 1, next = (b + 1) % n, next # a
  PROVE  /\ Dist(a, next, n) = Dist(a, b, n) + 1
         /\ \A i \in 0 .. n - 1 : Dist(a, i, n) < Dist(a, b, n) + 1 => 
              i = b \/ Dist(a, i, n) < Dist(a, b, n)
<1>1. next = IF b + 1 < n THEN b + 1 ELSE 0
  BY NextPlace
<1> QED BY <1>1 DEF Dist

LEMMA DropDist ==
  ASSUME NEW n \in Nat \ {0}, NEW a \in 0 .. n - 1, NEW b \in 0 .. n - 1,
         NEW next \in 0 .. n - 1, next = (a + 1) % n, a # b
  PROVE  /\ Dist(next, b, n) = Dist(a, b, n) - 1
         /\ \A i \in 0 .. n - 1 : Dist(next, i, n) < Dist(next, b, n) =>
              Dist(a, i, n) = Dist(next, i, n) + 1 /\ i # a
<1>1. next = IF a + 1 < n THEN a + 1 ELSE 0
  BY NextPlace
<1> QED BY <1>1 DEF Dist

InboxSide == <<inbox, rr, rw, getting, getAt, got, getTorn>>

\* Neither into ClearContent of the receive ring nor out of it.
SameSide == pc' = "clear_recv_write" <=> pc = "clear_recv_write"

LEMMA InboxSideKept ==
  ASSUME InboxType, InboxInOrder, UNCHANGED InboxSide, SameSide
  PROVE  InboxType' /\ InboxInOrder'
  BY DEF InboxType, InboxInOrder, InboxSide, SameSide

LEMMA NumbersKept ==
  ASSUME NumbersAscend, UNCHANGED <<inbox, got, heard, stream>>
  PROVE  NumbersAscend'
  BY DEF NumbersAscend

LEMMA FillSlot ==
  ASSUME InboxType, InboxInOrder, NEW v \in 0 .. MaxHeard,
         v = 0 \/ (v > got /\ \A i \in Slots : inbox[i] < v),
         inbox' = [inbox EXCEPT ![rw] = v], rw' = (rw + 1) % RecvSlots, rw' # rr,
         UNCHANGED <<rr, getting, getAt, got, getTorn>>,
         pc # "clear_recv_write", pc' # "clear_recv_write"
  PROVE  InboxType' /\ InboxInOrder'
<1>1. RecvSlots \in Nat \ {0} /\ MaxHeard \in Nat
  BY ConnectorAssumption
<1>2. PICK n \in Nat \ {0} : n = RecvSlots
  BY <1>1
<1>3. PICK a \in 0 .. n - 1 : a = rr
  BY <1>2 DEF InboxType, Slots
<1>4. PICK b \in 0 .. n - 1 : b = rw
  BY <1>2 DEF InboxType, Slots
<1>5. PICK next \in 0 .. n - 1 : next = rw' /\ next = (b + 1) % n /\ next # a
  <2>1. (b + 1) % n \in 0 .. n - 1
    OBVIOUS
  <2> QED BY <2>1, <1>2, <1>3, <1>4
<1>6. InboxType'
  BY <1>2, <1>5 DEF InboxType, Slots
<1>7. /\ Dist(a, next, n) = Dist(a, b, n) + 1
      /\ \A i \in Slots : Dist(a, i, n) < Dist(a, next, n) =>
              i = b \/ Dist(a, i, n) < Dist(a, b, n)
  BY <1>2, <1>5, NextDist DEF Slots
<1>8. ASSUME ~getTorn' PROVE
        /\ getting' => getAt' = rr' /\ rr' # rw'
        /\ \A i \in Slots : Dist(rr', i, n) < Dist(rr', rw', n) =>
             /\ inbox'[i] = 0 \/ inbox'[i] > got'
             /\ \A j \in Slots : Dist(rr', i, n) < Dist(rr', j, n)
                                 /\ Dist(rr', j, n) < Dist(rr', rw', n)
                  => inbox'[i] = 0 \/ inbox'[j] = 0 \/ inbox'[i] < inbox'[j]
  <2>1. getting => getAt = rr /\ rr # rw
    BY <1>8 DEF InboxInOrder
  <2>2. \A i \in Slots : Dist(a, i, n) < Dist(a, b, n) =>
             /\ inbox[i] = 0 \/ inbox[i] > got
             /\ \A j \in Slots : Dist(a, i, n) < Dist(a, j, n)
                                 /\ Dist(a, j, n) < Dist(a, b, n)
                  => inbox[i] = 0 \/ inbox[j] = 0 \/ inbox[i] < inbox[j]
    BY <1>2, <1>3, <1>4, <1>8 DEF InboxInOrder
  <2>3. inbox'[b] = v /\ \A i \in Slots : i # b => inbox'[i] = inbox[i]
    BY <1>4 DEF InboxType
  <2>4. ASSUME NEW i \in Slots, Dist(a, i, n) < Dist(a, next, n)
        PROVE  inbox'[i] = 0 \/ inbox'[i] > got
    BY <1>7, <2>2, <2>3, <2>4
  <2>5. ASSUME NEW i \in Slots, Dist(a, i, n) < Dist(a, next, n), NEW j \in Slots,
               Dist(a, i, n) < Dist(a, j, n), Dist(a, j, n) < Dist(a, next, n)
        PROVE  inbox'[i] = 0 \/ inbox'[j] = 0 \/ inbox'[i] < inbox'[j]
    <3>1. /\ Dist(a, i, n) \in Nat /\ Dist(a, j, n) \in Nat /\ Dist(a, b, n) \in Nat
      BY <1>2 DEF Dist, Slots
    <3>2. i # b
      BY <1>7, <2>5, <3>1
    <3>3. Dist(a, i, n) < Dist(a, b, n)
      BY <1>7, <2>5, <3>2
    <3>4. CASE j = b
      BY <2>3, <3>2, <3>4
    <3>5. CASE j # b
      <4>1. Dist(a, j, n) < Dist(a, b, n)
        BY <1>7, <2>5, <3>5
      <4> QED BY <2>2, <2>3, <2>5, <3>2, <3>3, <3>5, <4>1
    <3> QED BY <3>4, <3>5
  <2>6. rr' = a /\ rw' = next /\ got' = got /\ (getting' => getAt' = a /\ a # next)
    BY <1>3, <1>5, <2>1
  <2> QED BY <2>4, <2>5, <2>6
<1>9. InboxInOrder'
  BY <1>2, <1>8 DEF InboxInOrder
<1> QED BY <1>6, <1>9

LEMMA TakePacketInbox ==
  ASSUME ServerType, InboxType, NumbersAscend, InboxInOrder, BytesAccounted, TakePacket
  PROVE  InboxType' /\ NumbersAscend' /\ InboxInOrder'
<1>1. UNCHANGED <<heard, rr, getting, getAt, got, getTorn>>
      /\ pc # "clear_recv_write" /\ pc' # "clear_recv_write"
  BY DEF TakePacket, AfterPacket, Disconnect, gets
<1>2. CASE UNCHANGED <<stream, inbox, rw>>
  BY <1>1, <1>2, InboxSideKept, NumbersKept DEF InboxSide, SameSide
<1>3. CASE /\ (rw + 1) % RecvSlots # rr
           /\ inbox' = [inbox EXCEPT ![rw] = Head(stream).no]
           /\ rw' = (rw + 1) % RecvSlots
           /\ stream' = Tail(stream)
  <2>1. stream # <<>> /\ stream \in Seq(Packet)
    BY DEF TakePacket, BytesAccounted, ServerType
  <2>2. PICK v \in 1 .. MaxHeard : v = Head(stream).no /\ v = stream[1].no
    <3>1. Head(stream) \in Packet /\ Head(stream) = stream[1]
      BY <2>1
    <3> QED BY <3>1, PacketFields
  <2>3. PICK k \in Nat : k = Len(stream) /\ k > 0 /\ k = Len(stream') + 1
                         /\ \A i \in 1 .. Len(stream') : stream'[i] = stream[i + 1]
    BY <1>3, <2>1, HeadTailProperties
  <2>4. heard \in Nat /\ MaxHeard \in Nat
    BY ConnectorAssumption DEF ServerType
  <2>5. v = heard - k + 1
    BY <2>2, <2>3, <2>4 DEF NumbersAscend
  <2>6. got \in Nat /\ got <= heard - k
    BY <2>3 DEF NumbersAscend, InboxType
  <2>7. \A i \in Slots : inbox[i] \in Nat /\ inbox[i] <= heard - k
    BY <2>3 DEF NumbersAscend, InboxType
  <2>8. \A i \in Slots : inbox[i] < v
    BY <2>4, <2>5, <2>7
  <2>9. InboxType' /\ InboxInOrder'
    <3>1. v \in 0 .. MaxHeard /\ v > got
      BY <2>4, <2>5, <2>6
    <3>2. inbox' = [inbox EXCEPT ![rw] = v] /\ rw' # rr
      BY <1>3, <2>2
    <3> QED BY <1>1, <1>3, <2>8, <3>1, <3>2, FillSlot
  <2>10. NumbersAscend'
    <3>1. heard' - Len(stream') = heard - k + 1
      BY <1>1, <2>3, <2>4
    <3>2. \A i \in 1 .. Len(stream') : stream'[i].no = heard - k + 1 + i
      <4> TAKE i \in 1 .. Len(stream')
      <4>1. stream'[i] = stream[i + 1] /\ i + 1 \in 1 .. k
        BY <2>3
      <4>2. stream[i + 1].no = heard - k + (i + 1)
        BY <2>3, <4>1 DEF NumbersAscend
      <4> QED BY <2>3, <2>4, <4>1, <4>2
    <3>3. \A i \in Slots : inbox'[i] <= heard - k + 1
      <4> TAKE i \in Slots
      <4>1. inbox'[i] = v \/ inbox'[i] = inbox[i]
        BY <1>3, <2>2 DEF InboxType
      <4> QED BY <2>4, <2>5, <2>7, <4>1
    <3>4. got' <= heard - k + 1
      BY <1>1, <2>4, <2>6
    <3> QED BY <3>1, <3>2, <3>3, <3>4 DEF NumbersAscend
  <2> QED BY <2>9, <2>10
<1> QED BY <1>2, <1>3 DEF TakePacket

LEMMA GotPacketInbox ==
  ASSUME InboxType, FlagType, NumbersAscend, InboxInOrder, GotPacket
  PROVE  InboxType' /\ NumbersAscend' /\ InboxInOrder'
<1>1. PICK n \in Nat \ {0} : n = RecvSlots
  BY ConnectorAssumption
<1>2. /\ getting /\ ~getting' /\ rr' = (getAt + 1) % n /\ getAt' = 0
      /\ got' = (IF inbox[getAt] = 0 THEN got ELSE inbox[getAt])
      /\ UNCHANGED <<inbox, rw, getTorn, stream, heard, pc>>
  BY <1>1 DEF GotPacket, server
<1>3. getAt \in 0 .. n - 1 /\ rr \in 0 .. n - 1 /\ rw \in 0 .. n - 1
  BY <1>1 DEF InboxType, Slots
<1>4. PICK next \in 0 .. n - 1 : next = rr' /\ next = (getAt + 1) % n
  <2>1. (getAt + 1) % n \in 0 .. n - 1
    BY <1>3
  <2> QED BY <1>2, <2>1
<1>5. got' \in 0 .. MaxHeard
  BY <1>2 DEF InboxType
<1>6. InboxType'
  BY <1>1, <1>2, <1>4, <1>5 DEF InboxType, Slots
<1>7. NumbersAscend'
  BY <1>2 DEF NumbersAscend, InboxType
<1>8. ASSUME ~getTorn' PROVE
        pc # "clear_recv_write" /\
        \A i \in Slots : Dist(next, i, n) < Dist(next, rw, n) =>
          /\ inbox[i] = 0 \/ inbox[i] > got'
          /\ \A j \in Slots : Dist(next, i, n) < Dist(next, j, n)
                              /\ Dist(next, j, n) < Dist(next, rw, n)
               => inbox[i] = 0 \/ inbox[j] = 0 \/ inbox[i] < inbox[j]
  <2>1. PICK a \in 0 .. n - 1 : a = rr /\ a = getAt /\ a # rw
    BY <1>2, <1>3, <1>8 DEF InboxInOrder
  <2>11. pc # "clear_recv_write"
    BY <1>2, <1>8 DEF InboxInOrder
  <2>2. PICK b \in 0 .. n - 1 : b = rw /\ a # b
    BY <1>3, <2>1
  <2>3. \A i \in Slots : Dist(a, i, n) < Dist(a, b, n) =>
             /\ inbox[i] = 0 \/ inbox[i] > got
             /\ \A j \in Slots : Dist(a, i, n) < Dist(a, j, n)
                                 /\ Dist(a, j, n) < Dist(a, b, n)
                  => inbox[i] = 0 \/ inbox[j] = 0 \/ inbox[i] < inbox[j]
    BY <1>1, <1>2, <2>1, <2>11, <2>2, <1>8 DEF InboxInOrder
  <2>4. /\ Dist(next, b, n) = Dist(a, b, n) - 1
        /\ \A i \in Slots : Dist(next, i, n) < Dist(next, b, n) =>
              Dist(a, i, n) = Dist(next, i, n) + 1 /\ i # a
    BY <1>1, <1>4, <2>1, <2>2, DropDist DEF Slots
  <2>5. \A i \in Slots : Dist(next, i, n) \in Nat /\ Dist(a, i, n) \in Nat
    BY <1>1 DEF Dist, Slots
  <2>6. a \in Slots /\ b \in Slots /\ Dist(a, a, n) = 0 /\ Dist(a, b, n) > 0
    BY <1>1, <2>2 DEF Dist, Slots
  <2>7. ASSUME NEW i \in Slots, Dist(next, i, n) < Dist(next, b, n)
        PROVE  /\ Dist(a, i, n) = Dist(next, i, n) + 1
               /\ Dist(a, i, n) < Dist(a, b, n) /\ Dist(a, a, n) < Dist(a, i, n)
    BY <2>4, <2>5, <2>6, <2>7
  <2>8. ASSUME NEW i \in Slots, Dist(next, i, n) < Dist(next, b, n)
        PROVE  inbox[i] = 0 \/ inbox[i] > got'
    <3>1. inbox[i] = 0 \/ inbox[i] > got
      BY <2>3, <2>7, <2>8
    <3>2. inbox[a] = 0 \/ inbox[i] = 0 \/ inbox[a] < inbox[i]
      BY <2>3, <2>6, <2>7, <2>8
    <3>3. inbox[a] \in Int /\ inbox[i] \in Int
      BY <2>6 DEF InboxType
    <3> QED BY <1>2, <2>1, <3>1, <3>2, <3>3
  <2>9. ASSUME NEW i \in Slots, Dist(next, i, n) < Dist(next, b, n), NEW j \in Slots,
               Dist(next, i, n) < Dist(next, j, n), Dist(next, j, n) < Dist(next, b, n)
        PROVE  inbox[i] = 0 \/ inbox[j] = 0 \/ inbox[i] < inbox[j]
    <3>1. /\ Dist(a, i, n) < Dist(a, b, n) /\ Dist(a, j, n) < Dist(a, b, n)
          /\ Dist(a, i, n) = Dist(next, i, n) + 1 /\ Dist(a, j, n) = Dist(next, j, n) + 1
      BY <2>7, <2>9
    <3>2. Dist(a, i, n) < Dist(a, j, n)
      BY <2>5, <2>9, <3>1
    <3> QED BY <2>3, <3>1, <3>2
  <2> QED BY <2>2, <2>11, <2>8, <2>9
<1>9. InboxInOrder'
  BY <1>1, <1>2, <1>4, <1>8 DEF InboxInOrder
<1> QED BY <1>6, <1>7, <1>9

LEMMA InboxPartKept ==
  ASSUME FlagType, ServerType, InboxType, NumbersAscend, InboxInOrder, BytesAccounted,
         [Next]_vars
  PROVE  InboxType' /\ NumbersAscend' /\ InboxInOrder'
<1>1. CASE ReConnect
  <2>1. /\ rr' = 0 /\ getTorn' = getting /\ stream' = <<>> /\ pc' = "clear_recv_write"
        /\ UNCHANGED <<inbox, rw, getting, getAt, got, heard>>
    BY <1>1 DEF ReConnect
  <2>2. InboxType' /\ InboxInOrder'
    BY <2>1, ConnectorAssumption DEF InboxType, InboxInOrder, Slots
  <2>4. NumbersAscend'
    <3>1. Len(stream) \in Nat /\ heard \in Nat
      BY DEF ServerType
    <3>2. got \in Nat /\ \A i \in Slots : inbox[i] \in Nat
      BY DEF InboxType
    <3>3. got <= heard /\ \A i \in Slots : inbox[i] <= heard
      BY <3>1, <3>2 DEF NumbersAscend
    <3>4. Len(stream') = 0 /\ heard' - 0 = heard
      BY <2>1, <3>1
    <3> QED BY <2>1, <3>3, <3>4 DEF NumbersAscend
  <2> QED BY <2>2, <2>4
<1>9. CASE ClearRecvWrite
  <2>1. /\ pc = "clear_recv_write" /\ rw' = 0 /\ pc' = "clear_send_read"
        /\ UNCHANGED <<inbox, rr, getting, getAt, got, getTorn, heard, stream>>
    BY <1>9 DEF ClearRecvWrite, gets, server
  <2>2. InboxType'
    BY <2>1, ConnectorAssumption DEF InboxType, Slots
  <2>3. ASSUME ~getTorn PROVE
          ~getting /\ \A i \in Slots : ~(Dist(rr', i, RecvSlots) < Dist(rr', rw', RecvSlots))
    <3>1. rr' = 0 /\ rw' = 0 /\ ~getting
      BY <2>1, <2>3 DEF InboxInOrder
    <3>2. ASSUME NEW i \in Slots
          PROVE  ~(Dist(rr', i, RecvSlots) < Dist(rr', rw', RecvSlots))
      <4>1. Dist(0, i, RecvSlots) \in Nat /\ Dist(0, 0, RecvSlots) = 0
        BY ConnectorAssumption DEF Dist, Slots
      <4> QED BY <3>1, <4>1
    <3> QED BY <3>1, <3>2
  <2>4. InboxInOrder'
    BY <2>1, <2>3 DEF InboxInOrder
  <2> QED BY <2>1, <2>2, <2>4, NumbersKept
<1>2. CASE StraySelect
  <2>1. UNCHANGED <<rr, getting, getAt, got, getTorn, heard, stream>>
        /\ pc # "clear_recv_write" /\ pc' # "clear_recv_write"
    BY <1>2 DEF StraySelect, gets, server
  <2>2. CASE UNCHANGED <<inbox, rw>>
    BY <2>1, <2>2, InboxSideKept, NumbersKept DEF InboxSide, SameSide
  <2>3. CASE inbox' = [inbox EXCEPT ![rw] = 0] /\ rw' = (rw + 1) % RecvSlots /\ rw' # rr
    <3>1. 0 \in 0 .. MaxHeard
      BY ConnectorAssumption
    <3>2. InboxType' /\ InboxInOrder'
      BY <2>1, <2>3, <3>1, FillSlot
    <3>3. \A i \in Slots : inbox'[i] <= heard - Len(stream)
      <4>1. Len(stream) \in Nat /\ heard \in Nat
        BY DEF ServerType
      <4>2. got \in Nat /\ 0 <= heard - Len(stream)
        BY <4>1 DEF InboxType, NumbersAscend
      <4>3. \A i \in Slots : inbox'[i] = 0 \/ inbox'[i] = inbox[i]
        BY <2>3 DEF InboxType
      <4> QED BY <4>2, <4>3 DEF NumbersAscend
    <3>4. NumbersAscend'
      BY <2>1, <3>3 DEF NumbersAscend
    <3> QED BY <3>2, <3>4
  <2> QED BY <1>2, <2>2, <2>3 DEF StraySelect
<1>3. CASE TakePacket
  BY <1>3, TakePacketInbox
<1>4. CASE GetOneRecvedPacket
  <2>1. /\ rr # rw /\ getting' = TRUE /\ getAt' = rr
        /\ getTorn' = (getTorn \/ pc = "clear_recv_write")
        /\ UNCHANGED <<inbox, rr, rw, got, heard, stream, pc>>
    BY <1>4 DEF GetOneRecvedPacket, recvs, server
  <2>2. InboxType' /\ NumbersAscend'
    BY <2>1, NumbersKept DEF InboxType
  <2>3. ~getTorn' => ~getTorn /\ pc # "clear_recv_write"
    BY <2>1
  <2>4. InboxInOrder'
    BY <2>1, <2>3 DEF InboxInOrder
  <2> QED BY <2>2, <2>4
<1>5. CASE GotPacket
  BY <1>5, GotPacketInbox
<1>6. CASE ServerSends
  <2>1. UNCHANGED InboxSide /\ SameSide
    BY <1>6 DEF ServerSends, InboxSide, SameSide, recvs, gets
  <2>2. PICK len \in Lengths : stream' = Append(stream, [no |-> heard + 1, len |-> len])
    BY <1>6 DEF ServerSends
  <2>3. heard' = heard + 1 /\ heard \in Nat /\ stream \in Seq(Packet)
    BY <1>6 DEF ServerSends, ServerType
  <2>4. PICK k \in Nat : k = Len(stream)
    BY <2>3
  <2>5. /\ Len(stream') = k + 1 /\ \A i \in 1 .. k : stream'[i] = stream[i]
        /\ stream'[k + 1].no = heard + 1
    BY <2>2, <2>3, <2>4
  <2>6. heard' - Len(stream') = heard - k
    BY <2>3, <2>4, <2>5
  <2>7. \A i \in 1 .. k + 1 : stream'[i].no = heard - k + i
    <3> TAKE i \in 1 .. k + 1
    <3>1. CASE i \in 1 .. k
      BY <2>4, <2>5, <3>1 DEF NumbersAscend
    <3>2. CASE i = k + 1
      BY <2>3, <2>4, <2>5, <3>2
    <3> QED BY <2>4, <3>1, <3>2
  <2>8. NumbersAscend'
    BY <2>1, <2>4, <2>5, <2>6, <2>7 DEF NumbersAscend, InboxSide
  <2> QED BY <2>1, <2>8, InboxSideKept
<1>7. CASE ClearSendRead \/ ClearSendWrite \/ OpenSocket \/ ConnectFails \/ ConnectSucceeds
           \/ NonBlockFails \/ SelectNoSocket \/ SelectBadSocket \/ SelectTimeout \/ DoRecv
           \/ SendStep
  <2>1. UNCHANGED InboxSide /\ UNCHANGED <<heard, stream>>
    BY <1>7 DEF ClearSendRead, ClearSendWrite, OpenSocket, ConnectFails, ConnectSucceeds,
       NonBlockFails, SelectNoSocket, SelectBadSocket, SelectTimeout, DoRecv, SendStep,
       BecomesSendable, SendPackets, SendAccepted, SendBufIsFull, StraySend, SendFails,
       InboxSide, server, recvs, gets
  <2>2. SameSide
    <3>1. CASE \/ ClearSendRead \/ ClearSendWrite \/ OpenSocket \/ ConnectFails
               \/ ConnectSucceeds \/ NonBlockFails
      BY <3>1 DEF ClearSendRead, ClearSendWrite, OpenSocket, ConnectFails, ConnectSucceeds,
         NonBlockFails, Failed, SameSide
    <3>2. CASE SelectNoSocket \/ SelectBadSocket \/ SelectTimeout \/ DoRecv
      BY <3>2 DEF SelectNoSocket, SelectBadSocket, SelectTimeout, DoRecv, ParseRecvedData,
         Disconnect, SameSide
    <3>3. CASE SendStep
      BY <3>3 DEF SendStep, BecomesSendable, SendPackets, SendAccepted, SendBufIsFull,
         StraySend, SendFails, PieceIsGone, Again, Disconnect, SameSide
    <3> QED BY <1>7, <3>1, <3>2, <3>3
  <2> QED BY <2>1, <2>2, InboxSideKept, NumbersKept DEF InboxSide
<1>8. CASE SendOnePacket \/ PutPacket \/ ServerGoes \/ OtherOpens \/ OtherCloses \/ UNCHANGED vars
  <2>1. UNCHANGED InboxSide /\ UNCHANGED <<heard, stream>> /\ SameSide
    BY <1>8 DEF SendOnePacket, PutPacket, ServerGoes, OtherOpens, OtherCloses, vars,
       InboxSide, SameSide, server, recvs, gets
  <2> QED BY <2>1, InboxSideKept, NumbersKept DEF InboxSide
<1> QED BY <1>1, <1>2, <1>3, <1>4, <1>5, <1>6, <1>7, <1>8, <1>9
        DEF Next, ConnectStep, SelectStep, AppStep

\* The send ring.
LEMMA AdvanceDist ==
  ASSUME NEW n \in Nat \ {0}, NEW a \in 0 .. n - 1, NEW k \in 1 .. n - a,
         NEW next \in 0 .. n - 1, next = (a + k) % n
  PROVE  \A i \in 0 .. n - 1 :
           /\ Dist(a, i, n) >= k => Dist(next, i, n) = Dist(a, i, n) - k
           /\ Dist(next, i, n) < n - k => Dist(a, i, n) = Dist(next, i, n) + k
<1>1. next = IF a + k < n THEN a + k ELSE 0
  <2>1. (a + k) % n = IF a + k < n THEN a + k ELSE a + k - n
    <3>1. k \in 0 .. n
      OBVIOUS
    <3> QED BY <3>1, PlaceAfter
  <2> QED BY <2>1
<1> QED BY <1>1 DEF Dist

LEMMA SplitDist ==
  ASSUME NEW n \in Nat \ {0}, NEW a \in 0 .. n - 1, NEW b \in 0 .. n - 1
  PROVE  \A i \in 0 .. n - 1 :
           Dist(b, i, n) = IF Dist(a, i, n) < Dist(a, b, n)
                             THEN Dist(a, i, n) - Dist(a, b, n) + n
                             ELSE Dist(a, i, n) - Dist(a, b, n)
  BY DEF Dist

LEMMA AddDist ==
  ASSUME NEW n \in Nat \ {0}, NEW a \in 0 .. n - 1, NEW b \in 0 .. n - 1, NEW k \in Nat,
         Dist(a, b, n) + k < n
  PROVE  Dist(a, (b + k) % n, n) = Dist(a, b, n) + k
<1>1. k \in 0 .. n
  BY DEF Dist
<1>2. PICK next \in 0 .. n - 1 :
        next = (b + k) % n /\ next = IF b + k < n THEN b + k ELSE b + k - n
  BY <1>1, PlaceAfter
<1> QED BY <1>2 DEF Dist

LEMMA DistIsMod ==
  ASSUME NEW n \in Nat \ {0}, NEW a \in 0 .. n - 1, NEW i \in 0 .. n - 1
  PROVE  (i - a + n) % n = Dist(a, i, n)
<1>1. CASE a <= i
  <2>1. i - a \in 0 .. n - 1 /\ i - a + n = 1 * n + (i - a)
    BY <1>1
  <2> QED BY <1>1, <2>1 DEF Dist
<1>2. CASE i < a
  BY <1>2 DEF Dist
<1> QED BY <1>1, <1>2

LEMMA AppendAscending ==
  ASSUME NEW w \in Seq(Int), NEW b \in Int, NEW t \in Int, NEW k \in Nat,
         NEW s \in Seq(Int), Len(s) = k, \A i \in 1 .. k : s[i] = t + i, b <= t,
         \A i \in 1 .. Len(w) : w[i] > b /\ w[i] <= t,
         \A i, j \in 1 .. Len(w) : i < j => w[i] < w[j]
  PROVE  /\ \A i \in 1 .. Len(w \o s) : (w \o s)[i] > b /\ (w \o s)[i] <= t + k
         /\ \A i, j \in 1 .. Len(w \o s) : i < j => (w \o s)[i] < (w \o s)[j]
<1>1. PICK v \in Seq(Int) : v = w \o s
  BY ConcatProperties
<1>2. PICK m \in Nat : m = Len(w)
  OBVIOUS
<1>3. Len(v) = m + k
  BY <1>1, <1>2, ConcatProperties
<1>4. \A i \in 1 .. m : v[i] \in Int /\ v[i] = w[i] /\ v[i] > b /\ v[i] <= t
  <2>1. \A i \in 1 .. m + k : v[i] = IF i <= m THEN w[i] ELSE s[i - m]
    BY <1>1, <1>2, ConcatProperties
  <2>2. \A i \in 1 .. m : w[i] \in Int /\ w[i] > b /\ w[i] <= t
    BY <1>2
  <2>3. \A i \in 1 .. m : i \in 1 .. m + k /\ i <= m
    OBVIOUS
  <2> QED BY <2>1, <2>2, <2>3
<1>5. \A i \in m + 1 .. m + k : v[i] = t + (i - m)
  <2> TAKE i \in m + 1 .. m + k
  <2>1. \A l \in 1 .. m + k : v[l] = IF l <= m THEN w[l] ELSE s[l - m]
    BY <1>1, <1>2, ConcatProperties
  <2>2. v[i] = s[i - m] /\ i - m \in 1 .. k
    BY <1>2, <2>1
  <2> QED BY <2>2
<1>6. ASSUME NEW i \in 1 .. m + k PROVE v[i] > b /\ v[i] <= t + k
  <2>1. CASE i \in 1 .. m
    BY <1>4, <2>1
  <2>2. CASE i \in m + 1 .. m + k
    <3>1. v[i] = t + (i - m)
      BY <1>5, <2>2
    <3> QED BY <3>1, <2>2, <1>2
  <2> QED BY <2>1, <2>2, <1>2
<1>7. ASSUME NEW i \in 1 .. m + k, NEW j \in 1 .. m + k, i < j PROVE v[i] < v[j]
  <2>1. CASE j \in 1 .. m
    <3>1. i \in 1 .. m
      BY <1>7, <2>1
    <3>2. w[i] < w[j]
      BY <1>2, <1>7, <2>1, <3>1
    <3> QED BY <1>4, <2>1, <3>1, <3>2
  <2>2. CASE i \in 1 .. m /\ j \in m + 1 .. m + k
    <3>1. v[j] = t + (j - m) /\ v[i] \in Int /\ v[i] <= t
      BY <1>4, <1>5, <2>2
    <3> QED BY <3>1, <2>2, <1>2, SMTT(30)
  <2>3. CASE i \in m + 1 .. m + k /\ j \in m + 1 .. m + k
    <3>1. v[i] = t + (i - m) /\ v[j] = t + (j - m)
      BY <1>5, <2>3
    <3> QED BY <3>1, <2>3, <1>2, <1>7
  <2> QED BY <2>1, <2>2, <2>3, <1>2, <1>7
<1> QED BY <1>1, <1>3, <1>6, <1>7

OutboxSide == <<outbox, sr, sw, putting, putAt, putLen, putTorn, accepted, base, snap, wire>>

LEMMA OutboxSideKept ==
  ASSUME OutboxType, OutboxInOrder, WireInOrder, UNCHANGED OutboxSide,
         pc' = "sending" => pc = "sending",
         pc' = "clear_send_write" <=> pc = "clear_send_write",
         pc' \in Clearing => pc \in Clearing
  PROVE  OutboxType' /\ OutboxInOrder' /\ WireInOrder'
<1>1. OutboxType'
  BY DEF OutboxType, OutboxSide
<1>2. WireInOrder'
  BY DEF WireInOrder, LastOut, Waiting, OutboxSide
<1>3. OutboxInOrder'
  BY DEF OutboxInOrder, LastOut, Waiting, OutboxSide, Clearing
<1> QED BY <1>1, <1>2, <1>3

\* The numbers of the send ring at hand.
LEMMA OutboxNumbers ==
  ASSUME OutboxType
  PROVE  /\ SendPlaces \in Nat \ {0}
         /\ sr \in 0 .. SendPlaces - 1 /\ sw \in 0 .. SendPlaces - 1
         /\ snap \in 0 .. SendPlaces - 1 /\ putAt \in 0 .. SendPlaces - 1
         /\ Waiting \in 0 .. SendPlaces - 1
         /\ accepted \in Nat /\ putLen \in Nat /\ base \in Nat /\ LastOut \in Int
         /\ LastOut = accepted - putLen - Waiting
<1>1. SendPlaces \in Nat \ {0}
  BY ConnectorAssumption
<1>2. /\ sr \in 0 .. SendPlaces - 1 /\ sw \in 0 .. SendPlaces - 1
      /\ snap \in 0 .. SendPlaces - 1 /\ putAt \in 0 .. SendPlaces - 1
  BY DEF OutboxType, Places
<1>3. accepted \in Nat /\ putLen \in Nat /\ base \in Nat
  BY ConnectorAssumption DEF OutboxType
<1>4. Waiting \in 0 .. SendPlaces - 1
  BY <1>1, <1>2 DEF Waiting, Dist
<1> QED BY <1>1, <1>2, <1>3, <1>4 DEF LastOut

LEMMA PieceNumbers ==
  ASSUME OutboxType
  PROVE  /\ PieceEnd \in 0 .. SendPlaces
         /\ PieceEnd % SendPlaces \in Places
<1>1. PieceEnd \in 0 .. SendPlaces
  BY OutboxNumbers DEF PieceEnd
<1>2. SendPlaces \in Nat \ {0}
  BY OutboxNumbers
<1> QED BY <1>1, <1>2 DEF Places

LEMMA BytesAreNumbers ==
  ASSUME NEW s \in Seq(0 .. MaxBytes)
  PROVE  s \in Seq(Int)
<1>1. MaxBytes \in Nat
  BY ConnectorAssumption
<1>2. \A i \in 1 .. Len(s) : s[i] \in Int
  BY <1>1
<1> QED BY <1>2

LEMMA WireIsNumbers ==
  ASSUME OutboxType
  PROVE  wire \in Seq(Int) /\ \A i \in 1 .. Len(wire) : wire[i] \in Int
<1>1. wire \in Seq(0 .. MaxBytes)
  BY DEF OutboxType
<1>2. wire \in Seq(Int)
  BY <1>1, BytesAreNumbers
<1> QED BY <1>2

\* A piece leaves the ring: the read index moves to its end.
LEMMA PieceLeaves ==
  ASSUME OutboxType, OutboxInOrder, pc = "sending", PieceIsGone, ~putTorn,
         UNCHANGED <<outbox, sw, putting, putAt, putLen, putTorn, accepted, base, snap>>
  PROVE  /\ OutboxInOrder'
         /\ PieceEnd - sr \in Nat /\ PieceEnd - sr <= Waiting
         /\ LastOut' = LastOut + (PieceEnd - sr)
<1>1. PICK n \in Nat \ {0} : n = SendPlaces
  BY OutboxNumbers
<1>2. PICK a \in 0 .. n - 1, c \in 0 .. n - 1, b \in 0 .. n - 1 : a = sr /\ c = snap /\ b = sw
  BY <1>1, OutboxNumbers
<1>3. PICK k \in 1 .. n - a : k = PieceEnd - sr /\ k <= Dist(a, c, n) /\ PieceEnd = a + k
  BY <1>1, <1>2 DEF OutboxInOrder, PieceEnd, Dist
<1>4. PICK w \in 0 .. n - 1 : w = Waiting /\ w = Dist(a, b, n) /\ k <= w /\ Dist(a, c, n) <= w
  <2>1. Waiting \in 0 .. n - 1 /\ Waiting = Dist(a, b, n) /\ Dist(a, c, n) <= Waiting
    BY <1>1, <1>2, OutboxNumbers DEF Waiting, OutboxInOrder
  <2>2. Dist(a, c, n) \in Int
    BY <1>2 DEF Dist
  <2> QED BY <1>3, <2>1, <2>2
<1>5. PICK next \in 0 .. n - 1 : next = sr' /\ next = (a + k) % n
  BY <1>1, <1>3 DEF PieceIsGone
<1>6. \A i \in 0 .. n - 1 :
           /\ Dist(a, i, n) >= k => Dist(next, i, n) = Dist(a, i, n) - k
           /\ Dist(next, i, n) < n - k => Dist(a, i, n) = Dist(next, i, n) + k
  BY <1>5, AdvanceDist
<1>7. Waiting' = w - k
  BY <1>1, <1>2, <1>4, <1>5, <1>6 DEF Waiting
<1>8. PICK l \in Int : l = LastOut /\ l = accepted - putLen - w
  BY <1>4, OutboxNumbers
<1>9. accepted \in Nat /\ putLen \in Nat /\ base \in Nat
  BY OutboxNumbers
<1>10. LastOut' = l + k
  BY <1>7, <1>8, <1>9 DEF LastOut
<1>11. /\ putting => putAt = sw
       /\ w + putLen < n /\ base <= l
       /\ \A i \in 0 .. n - 1 : Dist(a, i, n) < w + putLen =>
            outbox[i] = l + Dist(a, i, n) + 1
  BY <1>1, <1>2, <1>4, <1>8 DEF OutboxInOrder, Places
<1>12. /\ putting' => putAt' = sw'
       /\ Waiting' + putLen' < n /\ base' <= LastOut'
  BY <1>7, <1>9, <1>10, <1>11
<1>13. ASSUME NEW i \in 0 .. n - 1, Dist(next, i, n) < Waiting' + putLen'
       PROVE  outbox'[i] = LastOut' + Dist(next, i, n) + 1
  <2>1. PICK d \in Nat : d = Dist(next, i, n) /\ d < w - k + putLen
    BY <1>7, <1>13 DEF Dist
  <2>2. Dist(a, i, n) = d + k
    BY <1>6, <1>9, <1>11, <2>1
  <2>3. outbox[i] = l + (d + k) + 1
    BY <1>9, <1>11, <2>1, <2>2
  <2> QED BY <1>10, <2>1, <2>3
<1>14. ASSUME pc' = "sending" PROVE sr' # snap' /\ Dist(next, snap', n) <= Waiting'
  <2>1. sr' # snap'
    BY <1>14 DEF PieceIsGone, Again
  <2>2. Dist(next, c, n) = Dist(a, c, n) - k /\ Dist(a, c, n) \in Int
    BY <1>2, <1>3, <1>6 DEF Dist
  <2> QED BY <1>2, <1>4, <1>7, <2>1, <2>2
<1>15. OutboxInOrder'
  <2>1. ASSUME NEW i \in Places, Dist(sr', i, SendPlaces) < Waiting' + putLen'
        PROVE  outbox'[i] = LastOut' + Dist(sr', i, SendPlaces) + 1
    <3>1. i \in 0 .. n - 1 /\ Dist(next, i, n) < Waiting' + putLen'
      BY <1>1, <1>5, <2>1 DEF Places
    <3> QED BY <1>1, <1>5, <1>13, <3>1
  <2>2. pc' = "sending" => sr' # snap' /\ Dist(sr', snap', SendPlaces) <= Waiting'
    BY <1>1, <1>5, <1>14
  <2>3. \A i \in Places : Dist(sr', i, SendPlaces) < Waiting' + putLen' =>
              outbox'[i] = LastOut' + Dist(sr', i, SendPlaces) + 1
    BY <2>1
  <2>4. pc' # "clear_send_write"
    BY DEF PieceIsGone, Again
  <2> QED BY <1>1, <1>12, <2>2, <2>3, <2>4 DEF OutboxInOrder, Places
<1>16. k <= w
  <2>1. Dist(a, c, n) \in Int
    BY <1>2 DEF Dist
  <2> QED BY <2>1, <1>3, <1>4
<1>17. PieceEnd - sr \in Nat /\ PieceEnd - sr <= Waiting
  BY <1>3, <1>4, <1>16
<1>18. LastOut' = LastOut + (PieceEnd - sr)
  BY <1>3, <1>8, <1>10
<1> QED BY <1>15, <1>17, <1>18

LEMMA SendAcceptedOutbox ==
  ASSUME OutboxType, OutboxInOrder, WireInOrder, SendAccepted
  PROVE  OutboxType' /\ OutboxInOrder' /\ WireInOrder'
<1>1. /\ pc = "sending" /\ PieceIsGone
      /\ pc' \notin Clearing
      /\ UNCHANGED <<outbox, sw, putting, putAt, putLen, putTorn, accepted, base, snap>>
  BY DEF SendAccepted, PieceIsGone, Again, Clearing, puts
<1>2. PICK n \in 1 .. PieceEnd - sr :
        wire' = wire \o [i \in 1 .. n |-> outbox[sr + i - 1]]
  BY DEF SendAccepted
<1>3. /\ n \in Nat /\ n <= PieceEnd - sr /\ sr \in Nat /\ PieceEnd \in Nat
      /\ \A i \in 1 .. n : sr + i - 1 \in Places /\ sr + i - 1 \in Nat
  BY OutboxNumbers, PieceNumbers DEF Places
<1>4. \A i \in 1 .. n : outbox[sr + i - 1] \in 0 .. MaxBytes
  BY <1>3 DEF OutboxType
<1>5. PICK s \in Seq(0 .. MaxBytes) :
        /\ s = [i \in 1 .. n |-> outbox[sr + i - 1]] /\ Len(s) = n
        /\ \A i \in 1 .. n : s[i] = outbox[sr + i - 1]
  <2>1. [i \in 1 .. n |-> outbox[sr + i - 1]] \in Seq(0 .. MaxBytes)
    BY <1>3, <1>4
  <2>2. Len([i \in 1 .. n |-> outbox[sr + i - 1]]) = n
    BY <1>3
  <2> QED BY <2>1, <2>2
<1>6. wire' = wire \o s /\ wire' \in Seq(0 .. MaxBytes)
  <2>1. wire \in Seq(0 .. MaxBytes)
    BY DEF OutboxType
  <2>2. wire \o s \in Seq(0 .. MaxBytes)
    BY <2>1, <1>5, ConcatProperties
  <2> QED BY <1>2, <1>5, <2>2
<1>7. OutboxType'
  <2>1. sr' \in Places
    BY <1>1, PieceNumbers DEF PieceIsGone
  <2> QED BY <1>1, <1>6, <2>1 DEF OutboxType
<1>8. CASE putTorn
  BY <1>1, <1>7, <1>8 DEF OutboxInOrder, WireInOrder, Clearing
<1>9. CASE ~putTorn
  <2>1. /\ OutboxInOrder'
        /\ PieceEnd - sr <= Waiting
        /\ LastOut' = LastOut + (PieceEnd - sr)
    BY <1>1, <1>9, PieceLeaves
  <2>2. PICK l \in Int : l = LastOut
    BY OutboxNumbers
  <2>3. Waiting \in Nat /\ putLen \in Nat /\ base \in Nat /\ base <= l
    BY <1>1, <1>9, <2>2, OutboxNumbers DEF OutboxInOrder
  <2>4. \A i \in 1 .. n : s[i] = l + i
    <3> TAKE i \in 1 .. n
    <3>1. sr + i - 1 \in Places /\ i \in Nat
      <4>1. i \in Nat
        BY <1>3
      <4> QED BY <1>3, <4>1
    <3>2. Dist(sr, sr + i - 1, SendPlaces) = i - 1
      BY <1>3, <3>1 DEF Dist
    <3>3. i - 1 < Waiting + putLen
      BY <1>3, <2>1, <2>3, <3>1
    <3>4. outbox[sr + i - 1] = l + (i - 1) + 1
      BY <1>1, <1>9, <2>2, <3>1, <3>2, <3>3 DEF OutboxInOrder
    <3> QED BY <1>5, <3>1, <3>4
  <2>5. PICK v \in Seq(Int) : v = wire
    BY WireIsNumbers
  <2>6. /\ \A i \in 1 .. Len(v) : v[i] > base /\ v[i] <= l
        /\ \A i, j \in 1 .. Len(v) : i < j => v[i] < v[j]
    BY <1>9, <2>2, <2>5 DEF WireInOrder
  <2>7. PICK t \in Seq(Int) : t = s
    BY <1>5, BytesAreNumbers
  <2>8. /\ \A i \in 1 .. Len(v \o t) : (v \o t)[i] > base /\ (v \o t)[i] <= l + n
        /\ \A i, j \in 1 .. Len(v \o t) : i < j => (v \o t)[i] < (v \o t)[j]
    <3>1. PICK b \in Int, k \in Nat : b = base /\ k = n
      BY <1>3, <2>3
    <3>2. Len(t) = k /\ \A i \in 1 .. k : t[i] = l + i
      BY <1>5, <2>4, <2>7, <3>1
    <3>3. b <= l /\ \A i \in 1 .. Len(v) : v[i] > b /\ v[i] <= l
      BY <2>3, <2>6, <3>1
    <3>4. /\ \A i \in 1 .. Len(v \o t) : (v \o t)[i] > b /\ (v \o t)[i] <= l + k
          /\ \A i, j \in 1 .. Len(v \o t) : i < j => (v \o t)[i] < (v \o t)[j]
      BY <2>6, <3>2, <3>3, AppendAscending
    <3> QED BY <3>1, <3>4
  <2>9. WireInOrder'
    <3>1. PICK u \in Seq(Int) : u = wire' /\ u = v \o t
      <4>1. v \o t \in Seq(Int)
        BY <2>5, <2>7, ConcatProperties
      <4> QED BY <4>1, <1>6, <2>5, <2>7
    <3>2. ASSUME NEW i \in 1 .. Len(u) PROVE u[i] > base' /\ u[i] <= LastOut'
      <4>1. PICK x \in Int : x = u[i] /\ x > base /\ x <= l + n
        <5>1. i \in 1 .. Len(v \o t) /\ u[i] = (v \o t)[i]
          BY <3>1, <3>2
        <5>2. u[i] \in Int
          BY <3>1
        <5> QED BY <2>8, <5>1, <5>2
      <4>2. base' = base /\ LastOut' = l + (PieceEnd - sr)
        BY <1>1, <2>1, <2>2
      <4> QED BY <1>3, <2>2, <4>1, <4>2
    <3>3. \A i, j \in 1 .. Len(u) : i < j => u[i] < u[j]
      BY <2>8, <3>1
    <3> QED BY <1>1, <3>1, <3>2, <3>3 DEF WireInOrder
  <2> QED BY <1>7, <2>1, <2>9
<1> QED BY <1>8, <1>9

LEMMA StraySendOutbox ==
  ASSUME OutboxType, OutboxInOrder, WireInOrder, StraySend
  PROVE  OutboxType' /\ OutboxInOrder' /\ WireInOrder'
<1>1. /\ pc = "sending" /\ PieceIsGone
      /\ pc' \notin Clearing
      /\ UNCHANGED <<outbox, sw, putting, putAt, putLen, putTorn, accepted, base, snap, wire>>
  BY DEF StraySend, PieceIsGone, Again, Clearing, puts
<1>2. OutboxType'
  <2>1. sr' \in Places
    BY <1>1, PieceNumbers DEF PieceIsGone
  <2> QED BY <1>1, <2>1 DEF OutboxType
<1>3. CASE putTorn
  BY <1>1, <1>2, <1>3 DEF OutboxInOrder, WireInOrder, Clearing
<1>4. CASE ~putTorn
  <2>1. /\ OutboxInOrder' /\ PieceEnd - sr \in Nat
        /\ LastOut' = LastOut + (PieceEnd - sr)
    BY <1>1, <1>4, PieceLeaves
  <2>2. PICK l \in Int, m \in Int : l = LastOut /\ m = LastOut' /\ l <= m
    BY <2>1, OutboxNumbers
  <2>3. \A i \in 1 .. Len(wire) : wire[i] \in Int
    BY WireIsNumbers
  <2>4. \A i \in 1 .. Len(wire) : wire[i] > base /\ wire[i] <= m
    BY <1>4, <2>2, <2>3 DEF WireInOrder
  <2>5. WireInOrder'
    BY <1>1, <1>4, <2>2, <2>4 DEF WireInOrder
  <2> QED BY <1>2, <2>1, <2>5
<1> QED BY <1>3, <1>4

LEMMA SendOnePacketOutbox ==
  ASSUME OutboxType, OutboxInOrder, WireInOrder, SendOnePacket
  PROVE  OutboxType' /\ OutboxInOrder' /\ WireInOrder'
<1>1. PICK n \in Nat \ {0} : n = SendPlaces
  BY OutboxNumbers
<1>2. PICK a \in 0 .. n - 1, b \in 0 .. n - 1 : a = sr /\ b = sw
  BY <1>1, OutboxNumbers
<1>3. PICK k \in 1 .. MaxOut :
        /\ accepted + k <= MaxBytes /\ FreePlaces - 1 >= k
        /\ outbox' = [i \in DOMAIN outbox |->
             LET d == (i - sw + SendPlaces) % SendPlaces
             IN  IF d < k THEN accepted + d + 1 ELSE outbox[i]]
        /\ accepted' = accepted + k /\ putLen' = k
  BY DEF SendOnePacket
<1>4. /\ ~putting /\ putting' = TRUE /\ putAt' = sw
      /\ UNCHANGED <<pc, sr, sw, putTorn, base, snap, wire>>
  BY DEF SendOnePacket
<1>5. /\ MaxOut \in Nat /\ MaxBytes \in Nat /\ k \in Nat /\ k > 0
      /\ accepted \in Nat /\ base \in Nat /\ base <= accepted /\ putLen = 0
  <2>1. MaxOut \in Nat /\ MaxBytes \in Nat
    BY ConnectorAssumption
  <2>2. accepted \in 0 .. MaxBytes /\ base \in 0 .. accepted /\ putLen = 0
    BY <1>4 DEF OutboxType
  <2> QED BY <2>1, <2>2
<1>6. PICK w \in 0 .. n - 1 : w = Waiting /\ w = Dist(a, b, n)
  BY <1>1, <1>2, OutboxNumbers DEF Waiting
<1>7. w + k < n
  BY <1>1, <1>2, <1>3, <1>5, <1>6 DEF FreePlaces, Dist
<1>8. \A i \in 0 .. n - 1 :
        /\ Dist(b, i, n) \in Nat /\ Dist(a, i, n) \in Nat
        /\ Dist(b, i, n) = IF Dist(a, i, n) < w THEN Dist(a, i, n) - w + n
                                                ELSE Dist(a, i, n) - w
  <2>1. \A i \in 0 .. n - 1 : Dist(b, i, n) \in Nat /\ Dist(a, i, n) \in Nat
    BY DEF Dist
  <2> QED BY <2>1, <1>6, SplitDist
<1>9. \A i \in 0 .. n - 1 :
        outbox'[i] = IF Dist(b, i, n) < k THEN accepted + Dist(b, i, n) + 1 ELSE outbox[i]
  <2> TAKE i \in 0 .. n - 1
  <2>1. (i - sw + SendPlaces) % SendPlaces = Dist(b, i, n)
    BY <1>1, <1>2, DistIsMod
  <2>2. i \in DOMAIN outbox
    BY <1>1 DEF OutboxType, Places
  <2> QED BY <1>3, <2>1, <2>2
<1>10. outbox' \in [Places -> 0 .. MaxBytes]
  <2>1. DOMAIN outbox' = Places /\ outbox' = [i \in Places |-> outbox'[i]]
    BY <1>3 DEF OutboxType
  <2>2. ASSUME NEW i \in Places PROVE outbox'[i] \in 0 .. MaxBytes
    <3>1. i \in 0 .. n - 1
      BY <1>1 DEF Places
    <3>2. PICK d \in Nat : d = Dist(b, i, n)
      BY <1>8, <3>1
    <3>3. CASE d < k
      <4>1. outbox'[i] = accepted + d + 1
        BY <1>9, <3>1, <3>2, <3>3
      <4>2. accepted + d + 1 \in 0 .. MaxBytes
        BY <1>3, <1>5, <3>2, <3>3
      <4> QED BY <4>1, <4>2
    <3>4. CASE ~(d < k)
      <4>1. outbox'[i] = outbox[i]
        BY <1>9, <3>1, <3>2, <3>4
      <4> QED BY <4>1 DEF OutboxType
    <3> QED BY <3>3, <3>4
  <2> QED BY <2>1, <2>2
<1>11. OutboxType'
  <2>1. /\ putLen' \in 0 .. MaxOut /\ accepted' \in 0 .. MaxBytes /\ base' \in 0 .. accepted'
    BY <1>3, <1>4, <1>5
  <2>2. /\ sr' \in Places /\ sw' \in Places /\ putAt' \in Places /\ snap' \in Places
        /\ wire' \in Seq(0 .. MaxBytes)
    BY <1>4 DEF OutboxType
  <2> QED BY <1>4, <1>10, <2>1, <2>2 DEF OutboxType
<1>12. Waiting' = w
  BY <1>4, <1>6 DEF Waiting
<1>13. PICK l \in Int : l = LastOut /\ l = accepted - w
  BY <1>5, <1>6, OutboxNumbers
<1>14. LastOut' = l
  BY <1>3, <1>5, <1>12, <1>13 DEF LastOut
<1>15. WireInOrder'
  BY <1>4, <1>13, <1>14 DEF WireInOrder
<1>16. ASSUME ~putTorn, pc # "clear_send_write" PROVE
        /\ base <= l
        /\ \A i \in Places : Dist(a, i, n) < w => outbox[i] = l + Dist(a, i, n) + 1
        /\ pc = "sending" => sr # snap /\ Dist(a, snap, n) <= w
  BY <1>1, <1>2, <1>5, <1>6, <1>13, <1>16 DEF OutboxInOrder
<1>17. ASSUME ~putTorn, pc # "clear_send_write", NEW i \in Places, Dist(a, i, n) < w + k
       PROVE  outbox'[i] = l + Dist(a, i, n) + 1
  <2>1. i \in 0 .. n - 1
    BY <1>1 DEF Places
  <2>2. PICK d \in Nat, e \in Nat : d = Dist(a, i, n) /\ e = Dist(b, i, n)
                                    /\ e = IF d < w THEN d - w + n ELSE d - w
    BY <1>8, <2>1
  <2>3. CASE d < w
    <3>1. ~(e < k)
      BY <1>5, <1>7, <2>2, <2>3
    <3> QED BY <1>9, <1>16, <1>17, <2>1, <2>2, <2>3, <3>1
  <2>4. CASE ~(d < w)
    <3>1. e < k /\ e = d - w
      BY <1>5, <1>17, <2>2, <2>4
    <3>2. outbox'[i] = accepted + e + 1
      BY <1>9, <2>1, <2>2, <3>1
    <3> QED BY <1>5, <1>13, <2>2, <3>1, <3>2
  <2> QED BY <2>3, <2>4
<1>18. OutboxInOrder'
  <2>1. ASSUME ~putTorn', pc' # "clear_send_write" PROVE
          /\ putting' => putAt' = sw'
          /\ Waiting' + putLen' < SendPlaces
          /\ base' <= LastOut'
          /\ \A i \in Places : Dist(sr', i, SendPlaces) < Waiting' + putLen' =>
               outbox'[i] = LastOut' + Dist(sr', i, SendPlaces) + 1
          /\ pc' = "sending" => sr' # snap' /\ Dist(sr', snap', SendPlaces) <= Waiting'
    <3>1. ~putTorn /\ pc # "clear_send_write"
      BY <1>4, <2>1
    <3>2. \A i \in Places : Dist(sr', i, SendPlaces) < Waiting' + putLen' =>
               outbox'[i] = LastOut' + Dist(sr', i, SendPlaces) + 1
      BY <3>1, <1>1, <1>2, <1>3, <1>4, <1>12, <1>14, <1>17
    <3>3. Waiting' + putLen' < SendPlaces
      BY <1>1, <1>3, <1>7, <1>12
    <3>4. base' <= LastOut'
      BY <3>1, <1>4, <1>14, <1>16
    <3> QED BY <3>1, <3>2, <3>3, <3>4, <1>1, <1>2, <1>4, <1>12, <1>16
  <2>2. pc' = "clear_send_write" => sr' = 0
    BY <1>4 DEF OutboxInOrder
  <2> QED BY <2>1, <2>2 DEF OutboxInOrder, Places
<1> QED BY <1>11, <1>15, <1>18

LEMMA PutPacketOutbox ==
  ASSUME OutboxType, OutboxInOrder, WireInOrder, PutPacket
  PROVE  OutboxType' /\ OutboxInOrder' /\ WireInOrder'
<1>1. PICK n \in Nat \ {0} : n = SendPlaces
  BY OutboxNumbers
<1>2. PICK a \in 0 .. n - 1, b \in 0 .. n - 1 : a = sr /\ b = sw
  BY <1>1, OutboxNumbers
<1>3. /\ putting' = FALSE /\ putAt' = 0 /\ putLen' = 0
      /\ sw' = (putAt + putLen) % SendPlaces
      /\ UNCHANGED <<pc, outbox, sr, putTorn, accepted, base, snap, wire>>
  BY DEF PutPacket
<1>4. PICK k \in Nat : k = putLen
  BY OutboxNumbers
<1>5. OutboxType'
  <2>1. (putAt + putLen) % SendPlaces \in Places /\ 0 \in Places /\ 0 \in 0 .. MaxOut
    <3>1. PICK p \in Nat : p = putAt + putLen
      BY OutboxNumbers
    <3>2. p % n \in 0 .. n - 1
      OBVIOUS
    <3> QED BY <1>1, <3>1, <3>2, ConnectorAssumption DEF Places
  <2> QED BY <1>3, <2>1 DEF OutboxType
<1>6. CASE putTorn \/ pc = "clear_send_write"
  BY <1>3, <1>5, <1>6 DEF OutboxInOrder, WireInOrder, Clearing
<1>7. CASE ~putTorn /\ pc # "clear_send_write"
  <2>1. PICK w \in 0 .. n - 1 : w = Waiting /\ w = Dist(a, b, n) /\ w + k < n
    BY <1>1, <1>2, <1>4, <1>7, OutboxNumbers DEF Waiting, OutboxInOrder
  <2>2. Waiting' = w + k
    <3>1. CASE putting
      <4>1. sw' = (b + k) % n
        BY <1>1, <1>2, <1>3, <1>4, <1>7, <3>1 DEF OutboxInOrder
      <4>2. Dist(a, (b + k) % n, n) = w + k
        BY <2>1, AddDist
      <4> QED BY <1>1, <1>2, <1>3, <4>1, <4>2 DEF Waiting
    <3>2. CASE ~putting
      BY <3>2 DEF PutPacket
    <3> QED BY <3>1, <3>2
  <2>3. PICK l \in Int : l = LastOut /\ l = accepted - k - w
    BY <1>4, <2>1, OutboxNumbers
  <2>4. LastOut' = l
    <3>1. accepted \in Int
      BY OutboxNumbers
    <3> QED BY <1>3, <2>2, <2>3, <3>1 DEF LastOut
  <2>5. WireInOrder'
    BY <1>3, <2>3, <2>4 DEF WireInOrder
  <2>6. /\ base <= l
        /\ \A i \in Places : Dist(a, i, n) < w + k => outbox[i] = l + Dist(a, i, n) + 1
        /\ pc = "sending" => sr # snap /\ Dist(a, snap, n) <= w
    BY <1>1, <1>2, <1>4, <1>7, <2>1, <2>3 DEF OutboxInOrder
  <2>7. Waiting' + putLen' = w + k /\ w + k < SendPlaces
    BY <1>1, <1>3, <2>1, <2>2
  <2>8. pc' = "sending" => sr' # snap' /\ Dist(sr', snap', SendPlaces) <= Waiting'
    <3>1. Dist(a, snap, n) \in Int
      BY <1>1, OutboxNumbers DEF Dist
    <3> QED BY <1>1, <1>2, <1>3, <2>1, <2>2, <2>6, <3>1
  <2>9. \A i \in Places : Dist(sr', i, SendPlaces) < Waiting' + putLen' =>
               outbox'[i] = LastOut' + Dist(sr', i, SendPlaces) + 1
    BY <1>1, <1>2, <1>3, <2>4, <2>6, <2>7
  <2>10. OutboxInOrder'
    BY <1>3, <2>4, <2>6, <2>7, <2>8, <2>9 DEF OutboxInOrder, Places
  <2> QED BY <1>5, <2>5, <2>10
<1> QED BY <1>6, <1>7

LEMMA SendPacketsOutbox ==
  ASSUME OutboxType, OutboxInOrder, WireInOrder, SendPackets
  PROVE  OutboxType' /\ OutboxInOrder' /\ WireInOrder'
<1>1. UNCHANGED <<outbox, sr, sw, putting, putAt, putLen, putTorn, accepted, base, wire>>
  BY DEF SendPackets, sends, puts
<1>4. pc = "send"
  BY DEF SendPackets
<1>2. CASE pc' = "sending" /\ snap' = sw /\ sr # sw
  <2>1. OutboxType'
    BY <1>1, <1>2 DEF OutboxType
  <2>2. Waiting' = Waiting /\ LastOut' = LastOut
    BY <1>1 DEF Waiting, LastOut
  <2>3. WireInOrder'
    BY <1>1, <1>2, <2>2 DEF WireInOrder, Clearing
  <2>4. sr' # snap' /\ Dist(sr', snap', SendPlaces) <= Waiting'
    <3>1. Dist(sr', snap', SendPlaces) = Waiting /\ Waiting \in Int
      BY <1>1, <1>2, OutboxNumbers DEF Waiting
    <3> QED BY <1>1, <1>2, <2>2, <3>1
  <2>5. OutboxInOrder'
    BY <1>1, <1>2, <1>4, <2>2, <2>4 DEF OutboxInOrder, Places
  <2> QED BY <2>1, <2>3, <2>5
<1>3. CASE pc' = Again /\ UNCHANGED snap
  BY <1>1, <1>3, <1>4, OutboxSideKept DEF OutboxSide, Again, Clearing
<1> QED BY <1>2, <1>3 DEF SendPackets

LEMMA ReConnectOutbox ==
  ASSUME OutboxType, OutboxInOrder, WireInOrder, ReConnect
  PROVE  OutboxType' /\ OutboxInOrder' /\ WireInOrder'
<1>1. /\ wire' = <<>> /\ pc = "loop" /\ pc' = "clear_recv_write"
      /\ UNCHANGED <<outbox, sr, sw, putting, putAt, putLen, putTorn, accepted, base, snap>>
  BY DEF ReConnect, sends, puts
<1>2. OutboxType'
  <2>1. <<>> \in Seq(0 .. MaxBytes)
    OBVIOUS
  <2> QED BY <1>1, <2>1 DEF OutboxType
<1>3. WireInOrder'
  BY <1>1 DEF WireInOrder
<1>4. OutboxInOrder'
  BY <1>1 DEF OutboxInOrder, Waiting, LastOut
<1> QED BY <1>2, <1>3, <1>4

LEMMA ClearSendReadOutbox ==
  ASSUME OutboxType, OutboxInOrder, WireInOrder, ClearSendRead
  PROVE  OutboxType' /\ OutboxInOrder' /\ WireInOrder'
<1>1. /\ sr' = 0 /\ pc = "clear_send_read" /\ pc' = "clear_send_write"
      /\ UNCHANGED <<outbox, sw, putting, putAt, putLen, putTorn, accepted, base, snap, wire>>
  BY DEF ClearSendRead, puts
<1>2. wire = <<>>
  BY <1>1 DEF WireInOrder, Clearing
<1>3. OutboxType'
  <2>1. 0 \in Places
    BY ConnectorAssumption DEF Places
  <2> QED BY <1>1, <2>1 DEF OutboxType
<1> QED BY <1>1, <1>2, <1>3 DEF OutboxInOrder, WireInOrder

LEMMA ClearSendWriteOutbox ==
  ASSUME OutboxType, OutboxInOrder, WireInOrder, ClearSendWrite
  PROVE  OutboxType' /\ OutboxInOrder' /\ WireInOrder'
<1>1. /\ sw' = 0 /\ putTorn' = putting /\ base' = accepted
      /\ pc = "clear_send_write" /\ pc' = "socket"
      /\ UNCHANGED <<outbox, sr, putting, putAt, putLen, accepted, snap, wire>>
  BY DEF ClearSendWrite
<1>2. SendPlaces \in Nat \ {0} /\ accepted \in Nat
  BY OutboxNumbers
<1>3. OutboxType'
  <2>1. 0 \in Places /\ accepted \in 0 .. accepted
    BY <1>2 DEF Places
  <2> QED BY <1>1, <2>1 DEF OutboxType
<1>4. sr' = 0 /\ wire' = <<>>
  BY <1>1 DEF OutboxInOrder, WireInOrder, Clearing
<1>5. WireInOrder'
  BY <1>4 DEF WireInOrder
<1>6. ASSUME ~putting PROVE OutboxInOrder'
  <2>1. putLen = 0
    BY <1>6 DEF OutboxType
  <2>2. Waiting' = 0
    BY <1>1, <1>2, <1>4 DEF Waiting, Dist
  <2>3. LastOut' = accepted
    BY <1>1, <1>2, <2>1, <2>2 DEF LastOut
  <2>4. \A i \in Places : ~(Dist(sr', i, SendPlaces) < 0)
    BY <1>2, <1>4 DEF Dist, Places
  <2>5. Waiting' + putLen' = 0 /\ 0 < SendPlaces /\ base' <= LastOut' /\ ~putting'
    BY <1>1, <1>2, <1>6, <2>1, <2>2, <2>3
  <2> QED BY <1>1, <2>4, <2>5 DEF OutboxInOrder, Places
<1>7. ASSUME putting PROVE OutboxInOrder'
  BY <1>1, <1>7 DEF OutboxInOrder
<1> QED BY <1>3, <1>5, <1>6, <1>7

LEMMA OutboxPartKept ==
  ASSUME OutboxType, OutboxInOrder, WireInOrder, [Next]_vars
  PROVE  OutboxType' /\ OutboxInOrder' /\ WireInOrder'
<1>1. CASE ReConnect
  BY <1>1, ReConnectOutbox
<1>2. CASE SendPackets
  BY <1>2, SendPacketsOutbox
<1>3. CASE SendAccepted
  BY <1>3, SendAcceptedOutbox
<1>4. CASE StraySend
  BY <1>4, StraySendOutbox
<1>5. CASE SendOnePacket
  BY <1>5, SendOnePacketOutbox
<1>6. CASE PutPacket
  BY <1>6, PutPacketOutbox
<1>7. CASE \/ OpenSocket \/ ConnectFails \/ ConnectSucceeds \/ NonBlockFails
           \/ SelectNoSocket \/ SelectBadSocket \/ SelectTimeout \/ StraySelect
  <2>1. UNCHANGED OutboxSide
        /\ pc \notin Clearing /\ pc' \notin Clearing /\ pc' # "sending"
    BY <1>7 DEF OpenSocket, ConnectFails, ConnectSucceeds, NonBlockFails, Failed,
       SelectNoSocket, SelectBadSocket, SelectTimeout, StraySelect, Disconnect,
       OutboxSide, Clearing, sends, puts
  <2> QED BY <2>1, OutboxSideKept DEF Clearing
<1>8. CASE DoRecv \/ TakePacket
  <2>1. UNCHANGED OutboxSide
    BY <1>8 DEF DoRecv, TakePacket, OutboxSide, sends, puts
  <2>2. pc' # "sending" /\ pc \notin Clearing /\ pc' \notin Clearing
    BY <1>8 DEF DoRecv, TakePacket, ParseRecvedData, AfterPacket, Disconnect, Clearing
  <2> QED BY <2>1, <2>2, OutboxSideKept DEF Clearing
<1>9. CASE BecomesSendable \/ SendBufIsFull \/ SendFails
  <2>1. UNCHANGED OutboxSide /\ (pc' = "sending" => pc = "sending")
        /\ pc \notin Clearing /\ pc' \notin Clearing
    BY <1>9 DEF BecomesSendable, SendBufIsFull, SendFails, Disconnect, Again,
       OutboxSide, Clearing, sends, puts
  <2> QED BY <2>1, OutboxSideKept DEF Clearing
<1>10. CASE \/ GetOneRecvedPacket \/ GotPacket \/ ServerSends \/ ServerGoes
            \/ OtherOpens \/ OtherCloses \/ UNCHANGED vars
  <2>1. UNCHANGED OutboxSide /\ pc' = pc
    BY <1>10 DEF GetOneRecvedPacket, GotPacket, ServerSends, ServerGoes, OtherOpens,
       OtherCloses, OutboxSide, sends, puts, vars
  <2> QED BY <2>1, OutboxSideKept
<1>11. CASE ClearRecvWrite
  <2>1. UNCHANGED OutboxSide /\ pc = "clear_recv_write" /\ pc' = "clear_send_read"
    BY <1>11 DEF ClearRecvWrite, OutboxSide, sends, puts
  <2> QED BY <2>1, OutboxSideKept DEF Clearing
<1>12. CASE ClearSendRead
  BY <1>12, ClearSendReadOutbox
<1>13. CASE ClearSendWrite
  BY <1>13, ClearSendWriteOutbox
<1> QED BY <1>1, <1>2, <1>3, <1>4, <1>5, <1>6, <1>7, <1>8, <1>9, <1>10, <1>11, <1>12, <1>13
        DEF Next, ConnectStep, SelectStep, SendStep, AppStep

-----------------------------------------------------------------------------
(* The theorems.                                                            *)

LEMMA NextInv == ASSUME IInv, [Next]_vars PROVE IInv'
<1>1. /\ FdType /\ FlagType /\ ServerType /\ InboxType /\ OutboxType
      /\ OwnDescriptor /\ BytesAccounted /\ NumbersAscend /\ InboxInOrder
      /\ OutboxInOrder /\ WireInOrder
  BY DEF IInv, Types
<1>2. FdType' /\ OwnDescriptor'
  BY <1>1, DescriptorsKept
<1>3. FlagType'
  BY <1>1, FlagsKept
<1>4. ServerType' /\ BytesAccounted'
  BY <1>1, ServerPartKept
<1>5. InboxType' /\ NumbersAscend' /\ InboxInOrder'
  BY <1>1, InboxPartKept
<1>6. OutboxType' /\ OutboxInOrder' /\ WireInOrder'
  BY <1>1, OutboxPartKept
<1> QED BY <1>2, <1>3, <1>4, <1>5, <1>6 DEF IInv, Types

\* The inductive invariant of the connector: its types, the descriptor of a
\* connection is its own (ReConnect, ThreadDoing), the bytes received and under
\* way are whole packets (DoRecv, ParseRecvedData), and both rings hold what was
\* put into them since the reset, in order, except between the two stores of the
\* reset and after one that a call of the application met (LConnector.cpp:200).
THEOREM ConnectorInv == Spec => []IInv
<1>1. Init => IInv
  BY InitInv
<1>2. IInv /\ [Next]_vars => IInv'
  BY NextInv
<1> QED BY <1>1, <1>2, PTL DEF Spec

\* Every variable of the connector keeps its type: the buffer holds no more bytes
\* than it has room for and every index stays in its ring (LConnector.h).
THEOREM ConnectorTypes == Spec => []TypeOK
<1>1. IInv => TypeOK
  BY TypesAreTypeOK DEF IInv
<1> QED BY <1>1, ConnectorInv, PTL

\* What goes out on a connection was put after the reset that began it, each byte
\* once and in order, unless a SendOnePacket was under way when the reset stored
\* the write index (SendPackets, LConnector.cpp:400; ReConnect, LConnector.cpp:201).
THEOREM WireOfThisConnection == Spec => []WireIsOfThisConnection
<1>1. IInv => WireIsOfThisConnection
  BY DEF IInv, WireInOrder, WireIsOfThisConnection
<1> QED BY <1>1, ConnectorInv, PTL

\* The application gets the server's packets in order and none twice, across
\* every connection, unless a GetOneRecvedPacket was under way at some moment
\* between the two stores of the last reset, one that began between them included
\* (GetOneRecvedPacket; ReConnect, LConnector.cpp:200).
THEOREM PacketsInOrder == Spec => GotInOrder
<1>1. ASSUME IInv, getting, ~getTorn
      PROVE  inbox[getAt] = 0 \/ inbox[getAt] > got
  <2>1. getAt = rr /\ rr # rw /\ rr \in Slots /\ rw \in Slots
    BY <1>1 DEF IInv, Types, InboxType, InboxInOrder
  <2>2. Dist(rr, rr, RecvSlots) < Dist(rr, rw, RecvSlots)
    BY <2>1, ConnectorAssumption DEF Dist, Slots
  <2>3. inbox[rr] = 0 \/ inbox[rr] > got
    BY <1>1, <2>1, <2>2 DEF IInv, InboxInOrder
  <2> QED BY <2>1, <2>3
<1>2. IInv => (getting /\ ~getting' => inbox[getAt] = 0 \/ inbox[getAt] > got \/ getTorn)
  BY <1>1
<1>3. IInv /\ [Next]_vars =>
        [getting /\ ~getting' => inbox[getAt] = 0 \/ inbox[getAt] > got \/ getTorn]_vars
  BY <1>2
<1> QED BY <1>3, ConnectorInv, PTL DEF Spec, GotInOrder

\* ReConnect closes a descriptor of somebody else only after a failed attempt
\* (LConnector.cpp:196).
THEOREM OthersClosedAfterFailure == Spec => ClosesOthersOnlyAfterFailure
<1>1. ASSUME IInv, ReConnect, sock # -1, owner[sock] = "other"
      PROVE  outcome = "failed"
  <2>1. pc = "loop" /\ outcome \in {"none", "ok", "failed"} /\ OwnDescriptor
    BY <1>1 DEF ReConnect, IInv, Types, FlagType
  <2> QED BY <1>1, <2>1 DEF OwnDescriptor, Connecting, Clearing
<1>2. IInv /\ [Next]_vars =>
        [ReConnect /\ sock # -1 /\ owner[sock] = "other" => outcome = "failed"]_vars
  BY <1>1
<1> QED BY <1>2, ConnectorInv, PTL DEF Spec, ClosesOthersOnlyAfterFailure

\* The first packet of a stream of legal ones.
LEMMA LegalHead ==
  ASSUME ServerType, LegalAndDrained, stream # <<>>
  PROVE  /\ Head(stream).len \in 3 .. MaxPacketLen /\ LegalLen(Head(stream).len)
         /\ Size(Head(stream).len) = Head(stream).len
<1>1. stream \in Seq(Packet)
  BY DEF ServerType
<1>2. 1 \in 1 .. Len(stream) /\ Head(stream) = stream[1]
  BY <1>1
<1>3. MaxPacketLen \in Nat
  BY ConnectorAssumption
<1>4. Head(stream).len \in 3 .. MaxPacketLen
  BY <1>2 DEF LegalAndDrained
<1> QED BY <1>3, <1>4 DEF LegalLen, Size

LEMMA RecvGivesUp ==
  ASSUME MaxPacketLen <= RecvBufLen, ServerType, BytesAccounted, DoRecv,
         connected, ~connected', ~gone, LegalAndDrained
  PROVE  pc = "select" /\ (flight = 0 \/ (remain = 0 /\ remain' = 1))
<1> SUFFICES ASSUME flight # 0 PROVE pc = "select" /\ remain = 0 /\ remain' = 1
  BY DEF DoRecv
<1>1. /\ remain \in Nat /\ remain <= RecvBufLen /\ flight \in Nat
      /\ RecvBufLen \in Nat \ {0} /\ MaxPacketLen \in Nat /\ stream \in Seq(Packet)
  BY ConnectorAssumption DEF ServerType
<1>2. pc = "select" /\ flight > 0
  BY <1>1 DEF DoRecv
<1>3. stream # <<>>
  <2>1. PICK n \in Nat : n = remain + flight /\ n > 0
    BY <1>1, <1>2
  <2> QED BY <1>1, <2>1, BytesNeedPacket DEF BytesAccounted
<1>4. /\ Head(stream).len \in 3 .. MaxPacketLen /\ LegalLen(Head(stream).len)
      /\ Size(Head(stream).len) = Head(stream).len
  BY <1>3, LegalHead
<1>5. remain < RecvBufLen
  <2>1. remain = 0 \/ remain < Size(Head(stream).len)
    BY <1>2 DEF BytesAccounted
  <2>2. Size(Head(stream).len) \in 3 .. MaxPacketLen
    BY <1>4
  <2> QED BY <1>1, <2>1, <2>2
<1>6. PICK n \in 1 .. flight : remain' = remain + n /\ ParseRecvedData(remain + n)
  <2>1. remain # RecvBufLen /\ flight # 0
    BY <1>1, <1>2, <1>5
  <2> QED BY <2>1 DEF DoRecv
<1>7. remain + n = 1
  BY <1>4, <1>6 DEF ParseRecvedData
<1> QED BY <1>1, <1>2, <1>6, <1>7

LEMMA TakeKeepsConnection ==
  ASSUME ServerType, BytesAccounted, TakePacket, connected, LegalAndDrained
  PROVE  connected'
<1>1. /\ remain \in Nat /\ flight \in Nat /\ MaxPacketLen \in Nat /\ stream \in Seq(Packet)
  BY ConnectorAssumption DEF ServerType
<1>2. pc = "take" /\ stream # <<>>
  BY DEF TakePacket, BytesAccounted
<1>3. PICK len \in Nat : /\ len = Head(stream).len /\ len \in 3 .. MaxPacketLen
                         /\ len = Size(Head(stream).len)
  BY <1>1, <1>2, LegalHead
<1>4. (rw + 1) % RecvSlots # rr
  BY DEF LegalAndDrained
<1>5. CASE remain < len /\ UNCHANGED connected
  BY <1>5
<1>6. CASE remain >= len /\ AfterPacket(remain - len)
  <2>1. PICK left \in Nat : left = remain - len
    BY <1>1, <1>3, <1>6
  <2>2. CASE left < 2
    BY <1>6, <2>1, <2>2 DEF AfterPacket
  <2>3. CASE left >= 2
    <3>1. PICK n \in Int : n = remain + flight /\ AreBytesOf(stream, n)
      BY <1>1 DEF BytesAccounted
    <3>2. PICK m \in Int : m = left + flight /\ m = n - Size(Head(stream).len)
      BY <1>1, <1>3, <2>1, <3>1
    <3>3. AreBytesOf(Tail(stream), m)
      BY <1>1, <1>2, <3>1, <3>2, RestBytes
    <3>4. m > 0 /\ Tail(stream) \in Seq(Packet) /\ Len(Tail(stream)) = Len(stream) - 1
      BY <1>1, <1>2, <2>3, <3>2, HeadTailProperties
    <3>5. PICK rest \in Seq(Packet) : rest = Tail(stream) /\ Len(rest) = Len(stream) - 1
      BY <3>4
    <3>6. rest # <<>>
      BY <3>3, <3>4, <3>5, BytesNeedPacket
    <3>7. 2 \in 1 .. Len(stream)
      BY <1>1, <3>5, <3>6
    <3>8. stream[2].len \in 3 .. MaxPacketLen
      BY <3>7 DEF LegalAndDrained
    <3>9. LegalLen(stream[2].len)
      BY <1>1, <3>8 DEF LegalLen
    <3> QED BY <1>6, <2>1, <2>3, <3>9 DEF AfterPacket
  <2> QED BY <2>1, <2>2, <2>3
<1>7. \/ remain < len /\ UNCHANGED connected
      \/ remain >= len /\ (len = 2 \/ (rw + 1) % RecvSlots = rr)
      \/ remain >= len /\ AfterPacket(remain - len)
  BY <1>3 DEF TakePacket
<1>8. len # 2
  BY <1>1, <1>3
<1> QED BY <1>4, <1>5, <1>6, <1>7, <1>8

\* A connection whose server sends legal packets and whose application keeps up
\* is given up only because the server went, the first byte of a header came alone
\* (ParseRecvedData, LConnector.cpp:512) or recv() found no bytes where select()
\* had seen some (DoRecv, LConnector.cpp:443), provided that the buffer can hold
\* the largest legal packet: Initialize takes both sizes as they come.
THEOREM GivesUpForCause ==
  MaxPacketLen <= RecvBufLen => (Spec => ClosesLegalOnlyAtOneByte)
<1> DEFINE Cause == connected /\ ~connected' /\ ~gone /\ LegalAndDrained
                      => pc = "select" /\ (flight = 0 \/ (remain = 0 /\ remain' = 1))
<1> SUFFICES ASSUME MaxPacketLen <= RecvBufLen
             PROVE  Spec => ClosesLegalOnlyAtOneByte
  OBVIOUS
<1>1. ASSUME IInv, Next, connected, ~connected', ~gone, LegalAndDrained
      PROVE  pc = "select" /\ (flight = 0 \/ (remain = 0 /\ remain' = 1))
  <2>1. ServerType /\ BytesAccounted
    BY <1>1 DEF IInv, Types
  <2>2. CASE DoRecv
    BY <1>1, <2>1, <2>2, RecvGivesUp
  <2>3. CASE TakePacket
    BY <1>1, <2>1, <2>3, TakeKeepsConnection
  <2>4. CASE ConnectStep
    BY <1>1, <2>4 DEF ConnectStep, ReConnect, ClearRecvWrite, ClearSendRead,
       ClearSendWrite, OpenSocket, ConnectFails, ConnectSucceeds, NonBlockFails, state
  <2>5. CASE SelectNoSocket \/ SelectBadSocket \/ SelectTimeout \/ StraySelect
    BY <1>1, <2>5 DEF SelectNoSocket, SelectBadSocket, SelectTimeout, StraySelect, state
  <2>6. CASE SendStep
    BY <1>1, <2>6 DEF SendStep, BecomesSendable, SendPackets, SendAccepted, SendBufIsFull,
       StraySend, SendFails, state
  <2>7. CASE AppStep \/ ServerSends \/ ServerGoes \/ OtherOpens \/ OtherCloses
    BY <1>1, <2>7 DEF AppStep, GetOneRecvedPacket, GotPacket, SendOnePacket, PutPacket,
       ServerSends, ServerGoes, OtherOpens, OtherCloses, state
  <2> QED BY <1>1, <2>2, <2>3, <2>4, <2>5, <2>6, <2>7 DEF Next, SelectStep
<1>2. IInv /\ [Next]_vars => [Cause]_vars
  BY <1>1
<1>3. Spec => [][Cause]_vars
  BY <1>2, ConnectorInv, PTL DEF Spec
<1> QED BY <1>3 DEF ClosesLegalOnlyAtOneByte

-----------------------------------------------------------------------------
(* PacketBuffer: what a packet holds and what is read of it.                *)

Field == [kind : Kinds, value : {"low", "wide"}]
Byte  == Int \X Int
Read  == [kind : Kinds, field : Int, value : {"low", "wide", "mixed", "none"}]

\* ends gives the last byte of each field.
FieldEnds(fields, ends) ==
  /\ ends \in [0 .. Len(fields) -> Nat]
  /\ ends[0] = 0
  /\ \A i \in 1 .. Len(fields) : ends[i] = ends[i - 1] + Width[fields[i].kind]
  /\ \A i \in 0 .. Len(fields) : ends[i] <= ends[Len(fields)]

\* The fields follow each other in the bytes, each with all of its own.
FieldsAt(bytes, fields, ends) ==
  /\ FieldEnds(fields, ends)
  /\ \A i \in 1 .. Len(fields) : \A k \in 1 .. Width[fields[i].kind] :
       bytes[ends[i - 1] + k] = <<i, k>>

LaidOut(bytes, fields) ==
  \E ends : FieldsAt(bytes, fields, ends) /\ ends[Len(fields)] = Len(bytes)

\* The fields, and behind them the code made from them and the length.
Sealed(bytes, code, fields) ==
  \E s \in Seq(Byte) : /\ code = <<Len(s) + 10>> \o s
                       /\ bytes = s \o Bytes(CrcName, 8)
                       /\ LaidOut(s, fields)

OutBufType ==
  /\ outBytes \in Seq(Byte) /\ added \in Seq(Field)
  /\ outError \in BOOLEAN /\ stamped \in BOOLEAN
  /\ covered \in Seq(Int \union Byte)

\* The sender's object: the fields added, until an id is written over them; a
\* code covers all that was before it, and what comes after it shows.
OutHolds ==
  /\ covered = Unsealed /\ ~stamped => LaidOut(outBytes, added)
  /\ covered # Unsealed =>
       /\ Len(outBytes) >= Len(covered) + 7
       /\ ~stamped /\ Len(outBytes) = Len(covered) + 7 => Sealed(outBytes, covered, added)

InBufType ==
  /\ inBytes \in Seq(Byte) /\ readPos \in Nat /\ reads \in Seq(Read)
  /\ inError \in BOOLEAN /\ cleanRead \in BOOLEAN
  /\ delivered \in [fields : Seq(Field), stamped : BOOLEAN, sealed : BOOLEAN,
                    ok : BOOLEAN, covered : Seq(Int \union Byte)]

InHolds ==
  delivered.sealed /\ ~delivered.stamped =>
    Sealed(inBytes, delivered.covered, delivered.fields)

\* A field is read back whole, and a long as far as 32 bits hold it.
ReadRight(i) ==
  IF i <= Len(delivered.fields)
    THEN /\ reads[i].field = i
         /\ \/ reads[i].value = delivered.fields[i].value
            \/ reads[i].kind = "long" /\ delivered.fields[i].value = "wide"
    ELSE delivered.sealed \/ reads[i].value = "none"

\* The read position is behind the field that was read last.
ReadsFollow ==
  ReadsKinds /\ ~delivered.stamped /\ (delivered.covered = Unsealed \/ delivered.sealed) =>
    \E ends :
      /\ FieldsAt(inBytes, delivered.fields, ends)
      /\ ends[Len(delivered.fields)] <= Len(inBytes)
      /\ delivered.covered = Unsealed => ends[Len(delivered.fields)] = Len(inBytes)
      /\ Len(reads) <= Len(delivered.fields) => readPos = 2 + ends[Len(reads)]
      /\ Len(reads) > Len(delivered.fields) => readPos >= 2 + ends[Len(delivered.fields)]
      /\ \A i \in 1 .. Len(reads) : ReadRight(i)

BufferInv == OutBufType /\ OutHolds /\ InBufType /\ InHolds /\ ReadsFollow

LEMMA WidthOfKind ==
  ASSUME NEW kind \in Kinds PROVE Width[kind] \in Nat /\ Width[kind] >= 1
  BY PacketBufferAssumption DEF Width

LEMMA WidthOfField ==
  ASSUME NEW fields \in Seq(Field), NEW i \in 1 .. Len(fields)
  PROVE  /\ fields[i].kind \in Kinds /\ Width[fields[i].kind] \in Nat
         /\ Width[fields[i].kind] >= 1 /\ fields[i].value \in {"low", "wide"}
<1>1. fields[i] \in Field
  OBVIOUS
<1>2. fields[i].kind \in Kinds /\ fields[i].value \in {"low", "wide"}
  BY <1>1 DEF Field
<1> QED BY <1>2, WidthOfKind

LEMMA BytesOfField ==
  ASSUME NEW name \in Int, NEW n \in Nat
  PROVE  /\ Bytes(name, n) \in Seq(Byte) /\ Len(Bytes(name, n)) = n
         /\ \A k \in 1 .. n : Bytes(name, n)[k] = <<name, k>>
<1>1. \A k \in 1 .. n : <<name, k>> \in Byte
  BY DEF Byte
<1>2. [k \in 1 .. n |-> <<name, k>>] \in Seq(Byte)
  BY <1>1
<1>3. Len([k \in 1 .. n |-> <<name, k>>]) = n
  OBVIOUS
<1> QED BY <1>2, <1>3 DEF Bytes

LEMMA NothingLaidOut == LaidOut(<<>>, <<>>)
<1>1. FieldsAt(<<>>, <<>>, [i \in 0 .. 0 |-> 0])
  BY DEF FieldsAt, FieldEnds
<1> QED BY <1>1 DEF LaidOut

\* What is put behind the fields is a field more.
LEMMA FieldMore ==
  ASSUME NEW bytes \in Seq(Byte), NEW fields \in Seq(Field), NEW f \in Field,
         LaidOut(bytes, fields),
         NEW more \in Seq(Field), more = Append(fields, f),
         NEW long \in Seq(Byte), long = bytes \o Bytes(Len(more), Width[f.kind])
  PROVE  LaidOut(long, more)
<1>1. PICK ends : FieldsAt(bytes, fields, ends) /\ ends[Len(fields)] = Len(bytes)
  BY DEF LaidOut
<1>2. PICK n \in Nat : n = Len(fields)
  OBVIOUS
<1>3. PICK b \in Nat : b = Len(bytes)
  OBVIOUS
<1>4. PICK w \in Nat : w = Width[f.kind] /\ w >= 1
  <2>1. f.kind \in Kinds
    BY DEF Field
  <2> QED BY <2>1, WidthOfKind
<1>5. /\ Len(more) = n + 1 /\ more[n + 1] = f
      /\ \A i \in 1 .. n : more[i] = fields[i]
  BY <1>2
<1>6. PICK m \in Nat : m = n + 1 /\ m \in Int
  OBVIOUS
<1>61. PICK tail \in Seq(Byte) : tail = Bytes(m, w) /\ Len(tail) = w
                                /\ \A k \in 1 .. w : tail[k] = <<m, k>>
  BY <1>6, BytesOfField
<1>7. long = bytes \o tail
  BY <1>4, <1>5, <1>6, <1>61
<1>8. /\ Len(long) = b + w
      /\ \A k \in 1 .. b : long[k] = bytes[k]
      /\ \A k \in 1 .. w : long[b + k] = tail[k]
  <2>1. Len(long) = b + w
    <3>1. Len(bytes \o tail) = Len(bytes) + Len(tail)
      BY ConcatProperties
    <3> QED BY <3>1, <1>3, <1>61, <1>7
  <2>2. \A k \in 1 .. b + w : long[k] = IF k <= b THEN bytes[k] ELSE tail[k - b]
    BY <1>3, <1>61, <1>7
  <2>3. \A k \in 1 .. b : k \in 1 .. b + w /\ k <= b
    OBVIOUS
  <2>4. \A k \in 1 .. w : b + k \in 1 .. b + w /\ ~(b + k <= b) /\ b + k - b = k
    OBVIOUS
  <2> QED BY <2>1, <2>2, <2>3, <2>4
<1>9. ends \in [0 .. n -> Nat] /\ ends[0] = 0 /\ ends[n] = b
      /\ \A i \in 1 .. n : ends[i] = ends[i - 1] + Width[fields[i].kind]
  BY <1>1, <1>2, <1>3 DEF FieldsAt, FieldEnds
<1> DEFINE longer == [i \in 0 .. n + 1 |-> IF i <= n THEN ends[i] ELSE b + w]
<1>10. longer \in [0 .. n + 1 -> Nat] /\ longer[0] = 0 /\ longer[n + 1] = b + w
       /\ \A i \in 0 .. n : longer[i] = ends[i]
  BY <1>9
<1> HIDE DEF longer
<1>11. \A i \in 1 .. n + 1 : longer[i] = longer[i - 1] + Width[more[i].kind]
  <2> TAKE i \in 1 .. n + 1
  <2>1. CASE i \in 1 .. n
    <3>1. more[i] = fields[i] /\ i \in 0 .. n /\ i - 1 \in 0 .. n
      BY <2>1, <1>5
    <3> QED BY <2>1, <3>1, <1>9, <1>10
  <2>2. CASE i = n + 1
    <3>1. longer[i] = b + w /\ longer[i - 1] = b
      BY <2>2, <1>9, <1>10
    <3>2. more[i] = f
      BY <2>2, <1>5
    <3> QED BY <3>1, <3>2, <1>4
  <2>3. i \in 1 .. n \/ i = n + 1
    OBVIOUS
  <2> QED BY <2>1, <2>2, <2>3
<1>12. ASSUME NEW i \in 1 .. n, NEW k \in 1 .. Width[fields[i].kind]
       PROVE  ends[i - 1] + k \in 1 .. b /\ bytes[ends[i - 1] + k] = <<i, k>>
  <2>1. bytes[ends[i - 1] + k] = <<i, k>>
    BY <1>1, <1>2, <1>12 DEF FieldsAt
  <2>2. ends[i - 1] + k <= ends[i] /\ ends[i] \in Nat /\ ends[i - 1] \in Nat /\ k \in Nat /\ k > 0
    <3>1. PICK x \in Nat : x = Width[fields[i].kind]
      BY <1>2, WidthOfField
    <3>2. ends[i] = ends[i - 1] + x /\ ends[i] \in Nat /\ ends[i - 1] \in Nat
      BY <1>9, <3>1
    <3>3. PICK a \in Nat, c \in Nat : a = ends[i - 1] /\ c = ends[i] /\ c = a + x
      BY <3>2
    <3>4. k \in 1 .. x
      BY <3>1
    <3>5. a + k <= c /\ k \in Nat /\ k > 0
      BY ONLY <3>1, <3>3, <3>4, SMTT(30)
    <3> QED BY <3>3, <3>5
  <2>3. ends[i] <= b
    BY <1>1, <1>2, <1>3, SMTT(30) DEF FieldsAt, FieldEnds
  <2> QED BY <2>1, <2>2, <2>3, SMTT(30)
<1>13. ASSUME NEW i \in 1 .. n + 1, NEW k \in 1 .. Width[more[i].kind]
       PROVE  long[longer[i - 1] + k] = <<i, k>>
  <2>1. CASE i \in 1 .. n
    <3>1. k \in 1 .. Width[fields[i].kind] /\ longer[i - 1] = ends[i - 1]
      BY <2>1, <1>5, <1>10, <1>13
    <3>2. ends[i - 1] + k \in 1 .. b /\ bytes[ends[i - 1] + k] = <<i, k>>
      BY <2>1, <3>1, <1>12
    <3> QED BY <3>1, <3>2, <1>8
  <2>2. CASE i = n + 1
    <3>1. k \in 1 .. w /\ longer[i - 1] = b
      BY <2>2, <1>4, <1>5, <1>9, <1>10, <1>13
    <3>2. long[b + k] = tail[k] /\ tail[k] = <<m, k>>
      BY <3>1, <1>61, <1>8
    <3> QED BY <2>2, <3>1, <3>2, <1>6
  <2>3. i \in 1 .. n \/ i = n + 1
    OBVIOUS
  <2> QED BY <2>1, <2>2, <2>3
<1>14. \A i \in 0 .. n + 1 : longer[i] <= b + w
  <2> TAKE i \in 0 .. n + 1
  <2>1. CASE i \in 0 .. n
    <3>1. longer[i] \in Nat /\ longer[i] <= b
      BY <2>1, <1>1, <1>2, <1>3, <1>9, <1>10 DEF FieldsAt, FieldEnds
    <3> QED BY <3>1
  <2>2. CASE i = n + 1
    BY <2>2, <1>10
  <2> QED BY <2>1, <2>2
<1>15. FieldsAt(long, more, longer)
  BY <1>5, <1>10, <1>11, <1>13, <1>14 DEF FieldsAt, FieldEnds
<1> QED BY <1>5, <1>8, <1>10, <1>15 DEF LaidOut

\* A field lies in the bytes of all.
LEMMA FieldInside ==
  ASSUME NEW fields \in Seq(Field), NEW ends, FieldEnds(fields, ends),
         NEW i \in 1 .. Len(fields), NEW k \in 1 .. Width[fields[i].kind]
  PROVE  /\ ends[i - 1] \in Nat /\ ends[i] \in Nat /\ ends[Len(fields)] \in Nat
         /\ ends[i] = ends[i - 1] + Width[fields[i].kind]
         /\ ends[i - 1] + k \in 1 .. ends[Len(fields)]
<1>1. PICK x \in Nat : x = Width[fields[i].kind]
  BY WidthOfField
<1>2. PICK n \in Nat : n = Len(fields)
  OBVIOUS
<1>3. ends[i - 1] \in Nat /\ ends[i] \in Nat /\ ends[n] \in Nat
  BY <1>2 DEF FieldEnds
<1>4. ends[i] = ends[i - 1] + x /\ ends[i] <= ends[n]
  BY <1>1, <1>2 DEF FieldEnds
<1>5. k \in 1 .. x
  BY <1>1
<1> QED BY <1>1, <1>2, <1>3, <1>4, <1>5

LEMMA CodeBytes ==
  /\ Bytes(CrcName, 8) \in Seq(Byte) /\ Len(Bytes(CrcName, 8)) = 8
  /\ \A k \in 1 .. 8 : Bytes(CrcName, 8)[k] = <<CrcName, k>>
<1>1. PICK c \in Int, n \in Nat : c = CrcName /\ n = 8
  BY DEF CrcName
<1>2. /\ Bytes(c, n) \in Seq(Byte) /\ Len(Bytes(c, n)) = n
      /\ \A k \in 1 .. n : Bytes(c, n)[k] = <<c, k>>
  BY BytesOfField
<1> QED BY <1>1, <1>2

LEMMA OutPartSame ==
  ASSUME OutBufType, OutHolds, UNCHANGED outPacket
  PROVE  OutBufType' /\ OutHolds'
  BY DEF OutBufType, OutHolds, outPacket

LEMMA AddHolds ==
  ASSUME OutBufType, OutHolds, NEW kind \in Kinds, Add(kind)
  PROVE  OutBufType' /\ OutHolds'
<1>1. PICK value \in {"low", "wide"} :
        IF CheckHaveEnoughBuf(Width[kind])
          THEN /\ added' = Append(added, [kind |-> kind, value |-> value])
               /\ outBytes' = outBytes \o Bytes(Len(added'), Width[kind])
               /\ UNCHANGED outError
          ELSE outError' = TRUE /\ UNCHANGED <<added, outBytes>>
  BY DEF Add, ValueOf
<1>2. UNCHANGED <<stamped, covered>>
  BY DEF Add
<1>3. CASE outError' = TRUE /\ UNCHANGED <<added, outBytes>>
  BY <1>2, <1>3 DEF OutBufType, OutHolds
<1>4. CASE /\ added' = Append(added, [kind |-> kind, value |-> value])
           /\ outBytes' = outBytes \o Bytes(Len(added'), Width[kind])
           /\ UNCHANGED outError
  <2>1. PICK w \in Nat : w = Width[kind] /\ w >= 1
    BY WidthOfKind
  <2>2. PICK f \in Field : f = [kind |-> kind, value |-> value] /\ f.kind = kind
    <3>1. [kind |-> kind, value |-> value] \in Field
      BY DEF Field
    <3> QED BY <3>1
  <2>3. added \in Seq(Field) /\ outBytes \in Seq(Byte)
    BY DEF OutBufType
  <2>4. added' \in Seq(Field) /\ Len(added') \in Nat
    BY <1>4, <2>2, <2>3
  <2>5. PICK m \in Nat : m = Len(added') /\ m \in Int
    BY <2>4
  <2>6. PICK tail \in Seq(Byte) : tail = Bytes(m, w) /\ Len(tail) = w
    BY <2>5, BytesOfField
  <2>7. outBytes' = outBytes \o tail
    BY <1>4, <2>1, <2>5, <2>6
  <2>8. outBytes' \in Seq(Byte) /\ Len(outBytes') = Len(outBytes) + w
    <3>1. outBytes \o tail \in Seq(Byte) /\ Len(outBytes \o tail) = Len(outBytes) + Len(tail)
      BY <2>3, ConcatProperties
    <3> QED BY <3>1, <2>6, <2>7
  <2>9. OutBufType'
    BY <1>2, <1>4, <2>4, <2>8 DEF OutBufType
  <2>10. ASSUME covered = Unsealed, ~stamped PROVE LaidOut(outBytes', added')
    <3>1. LaidOut(outBytes, added)
      BY <2>10 DEF OutHolds
    <3>2. PICK more \in Seq(Field) : more = added' /\ more = Append(added, f)
      BY <1>4, <2>2, <2>4
    <3>3. PICK long \in Seq(Byte) : long = outBytes' /\ long = outBytes \o Bytes(Len(more), Width[f.kind])
      BY <1>4, <2>2, <2>8, <3>2
    <3>4. LaidOut(long, more)
      BY <2>2, <2>3, <3>1, <3>2, <3>3, FieldMore
    <3> QED BY <3>2, <3>3, <3>4
  <2>11. ASSUME covered # Unsealed PROVE Len(outBytes') > Len(covered) + 7
    <3>1. Len(outBytes) >= Len(covered) + 7 /\ Len(outBytes) \in Nat /\ Len(covered) \in Nat
      BY <2>3, <2>11 DEF OutHolds, OutBufType
    <3> QED BY <2>1, <2>8, <3>1
  <2>12. Len(outBytes') \in Nat /\ Len(covered) \in Nat
    BY <2>8 DEF OutBufType
  <2>13. OutHolds'
    BY <1>2, <2>10, <2>11, <2>12 DEF OutHolds
  <2> QED BY <2>9, <2>13
<1> QED BY <1>1, <1>3, <1>4

LEMMA SetIdHolds ==
  ASSUME OutBufType, OutHolds, SetPacketID
  PROVE  OutBufType' /\ OutHolds'
<1>1. UNCHANGED <<added, covered>>
  BY DEF SetPacketID
<1>2. CASE outError' = TRUE /\ UNCHANGED <<outBytes, stamped>>
  BY <1>1, <1>2 DEF OutBufType, OutHolds
<1>3. CASE /\ outBytes' = [i \in DOMAIN outBytes |-> IF i <= 4 THEN <<IdName, i>>
                                                            ELSE outBytes[i]]
           /\ stamped' = (stamped \/ outBytes # <<>>)
           /\ UNCHANGED outError
  <2>1. PICK n \in Nat : n = Len(outBytes) /\ DOMAIN outBytes = 1 .. n
    BY DEF OutBufType
  <2>2. \A i \in 1 .. n : outBytes[i] \in Byte /\ <<IdName, i>> \in Byte
    BY <2>1 DEF OutBufType, Byte, IdName
  <2>3. outBytes' = [i \in 1 .. n |-> IF i <= 4 THEN <<IdName, i>> ELSE outBytes[i]]
    BY <1>3, <2>1
  <2>4. outBytes' \in [1 .. n -> Byte]
    BY <2>2, <2>3
  <2>5. outBytes' \in Seq(Byte) /\ Len(outBytes') = n
    BY <2>4
  <2>6. Len(outBytes') = Len(outBytes)
    BY <2>1, <2>5
  <2>7. stamped' \in BOOLEAN
    BY <1>3
  <2>8. OutBufType'
    BY <1>1, <1>3, <2>5, <2>7 DEF OutBufType
  <2>9. CASE outBytes = <<>>
    <3>1. outBytes' = <<>>
      <4>1. n = 0
        BY <2>1, <2>9
      <4> QED BY <2>5, <4>1
    <3>2. stamped' = stamped
      BY <1>3, <2>9 DEF OutBufType
    <3> QED BY <1>1, <2>8, <2>9, <3>1, <3>2 DEF OutHolds
  <2>10. CASE outBytes # <<>>
    <3>1. stamped'
      BY <1>3, <2>10
    <3> QED BY <1>1, <2>6, <2>8, <3>1 DEF OutHolds
  <2> QED BY <2>9, <2>10
<1> QED BY <1>2, <1>3 DEF SetPacketID

LEMMA CodeHolds ==
  ASSUME OutBufType, OutHolds, MakeCRC32CodeToPacket
  PROVE  OutBufType' /\ OutHolds'
<1>1. PICK s \in Seq(Byte), n \in Nat : s = outBytes /\ n = Len(s)
  BY DEF OutBufType
<1>2. /\ covered = Unsealed /\ covered' = <<n + 10>> \o s
      /\ outBytes' = s \o Bytes(CrcName, 8) /\ UNCHANGED <<outError, added, stamped>>
  <2>1. 2 + n + 8 = n + 10
    OBVIOUS
  <2> QED BY <1>1, <2>1 DEF MakeCRC32CodeToPacket, LengthOf
<1>3. PICK tail \in Seq(Byte) : tail = Bytes(CrcName, 8) /\ Len(tail) = 8
  BY CodeBytes
<1>4. outBytes' \in Seq(Byte) /\ Len(outBytes') = n + 8
  <2>1. s \o tail \in Seq(Byte) /\ Len(s \o tail) = Len(s) + Len(tail)
    BY ConcatProperties
  <2> QED BY <1>1, <1>2, <1>3, <2>1
<1>5. covered' \in Seq(Int \union Byte) /\ Len(covered') = 1 + n
  <2>1. PICK front \in Seq(Int \union Byte) : front = <<n + 10>> /\ Len(front) = 1
    <3>1. PICK l \in Int \union Byte : l = n + 10
      OBVIOUS
    <3>2. <<l>> \in Seq(Int \union Byte) /\ Len(<<l>>) = 1
      OBVIOUS
    <3> QED BY <3>1, <3>2
  <2>2. PICK back \in Seq(Int \union Byte) : back = s /\ Len(back) = n
    BY <1>1
  <2>3. front \o back \in Seq(Int \union Byte) /\ Len(front \o back) = Len(front) + Len(back)
    BY ConcatProperties
  <2> QED BY <1>2, <2>1, <2>2, <2>3
<1>6. OutBufType'
  BY <1>2, <1>4, <1>5 DEF OutBufType
<1>7. covered' # Unsealed
  BY <1>5 DEF Unsealed
<1>8. ASSUME ~stamped PROVE Sealed(outBytes', covered', added')
  <2>1. LaidOut(s, added)
    BY <1>1, <1>2, <1>8 DEF OutHolds
  <2> QED BY <1>1, <1>2, <2>1 DEF Sealed
<1>9. OutHolds'
  BY <1>2, <1>4, <1>5, <1>7, <1>8 DEF OutHolds
<1> QED BY <1>6, <1>9

LEMMA OutPartKept ==
  ASSUME OutBufType, OutHolds, [PacketNext]_packetVars
  PROVE  OutBufType' /\ OutHolds'
<1>1. CASE ResetOut
  <2>1. /\ outBytes' = <<>> /\ outError' = FALSE
        /\ added' = <<>> /\ stamped' = FALSE /\ covered' = Unsealed
    BY <1>1 DEF ResetOut
  <2>2. <<>> \in Seq(Byte) /\ <<>> \in Seq(Field) /\ <<>> \in Seq(Int \union Byte)
    OBVIOUS
  <2>3. OutBufType'
    BY <2>1, <2>2 DEF OutBufType, Unsealed
  <2>4. OutHolds'
    BY <2>1, NothingLaidOut DEF OutHolds
  <2> QED BY <2>3, <2>4
<1>2. CASE SetPacketID
  BY <1>2, SetIdHolds
<1>3. CASE MakeCRC32CodeToPacket
  BY <1>3, CodeHolds
<1>4. CASE \E kind \in Kinds : Add(kind)
  BY <1>4, AddHolds
<1>5. CASE \/ ResetIn \/ DirectSetData \/ GetPacketID \/ \E kind \in Kinds : Get(kind)
           \/ UNCHANGED packetVars
  <2>1. UNCHANGED outPacket
    BY <1>5 DEF ResetIn, DirectSetData, GetPacketID, Get, packetVars
  <2> QED BY <2>1, OutPartSame
<1> QED BY <1>1, <1>2, <1>3, <1>4, <1>5 DEF PacketNext

LEMMA InPartSame ==
  ASSUME InBufType, InHolds, ReadsFollow, UNCHANGED inPacket
  PROVE  InBufType' /\ InHolds' /\ ReadsFollow'
<1>1. UNCHANGED <<inBytes, inError, readPos, delivered, reads, cleanRead>>
  BY DEF inPacket
<1>2. InBufType' /\ InHolds'
  BY <1>1 DEF InBufType, InHolds
<1>3. ReadsFollow'
  BY <1>1 DEF ReadsFollow, ReadsKinds, ReadRight
<1> QED BY <1>2, <1>3

\* A call that only sets the error code.
LEMMA ErrorHolds ==
  ASSUME InBufType, InHolds, ReadsFollow, inError' = TRUE,
         UNCHANGED <<inBytes, delivered, readPos, reads, cleanRead>>
  PROVE  InBufType' /\ InHolds' /\ ReadsFollow'
<1>1. InBufType' /\ InHolds'
  BY DEF InBufType, InHolds
<1>2. ReadsFollow'
  BY DEF ReadsFollow, ReadsKinds, ReadRight
<1> QED BY <1>1, <1>2

\* The bytes a delivered packet begins with are its fields.
LEMMA CodeBehindFields ==
  ASSUME NEW bytes \in Seq(Byte), NEW code, NEW fields \in Seq(Field),
         Sealed(bytes, code, fields)
  PROVE  \E ends : FieldsAt(bytes, fields, ends) /\ ends[Len(fields)] <= Len(bytes)
<1>1. PICK s \in Seq(Byte) : bytes = s \o Bytes(CrcName, 8) /\ LaidOut(s, fields)
  BY DEF Sealed
<1>2. PICK ends : FieldsAt(s, fields, ends) /\ ends[Len(fields)] = Len(s)
  BY <1>1 DEF LaidOut
<1>3. PICK tail \in Seq(Byte) : tail = Bytes(CrcName, 8)
  BY CodeBytes
<1>4. PICK n \in Nat, b \in Nat : n = Len(fields) /\ b = Len(s)
  OBVIOUS
<1>5. \A k \in 1 .. b : bytes[k] = s[k]
  <2>1. \A k \in 1 .. Len(s) + Len(tail) : (s \o tail)[k] = IF k <= Len(s) THEN s[k] ELSE tail[k - Len(s)]
    BY ConcatProperties
  <2>2. \A k \in 1 .. b : k \in 1 .. Len(s) + Len(tail) /\ k <= Len(s)
    BY <1>4
  <2> QED BY <1>1, <1>3, <2>1, <2>2
<1>6. ASSUME NEW i \in 1 .. n, NEW k \in 1 .. Width[fields[i].kind]
      PROVE  bytes[ends[i - 1] + k] = <<i, k>>
  <2>1. s[ends[i - 1] + k] = <<i, k>>
    BY <1>2, <1>4, <1>6 DEF FieldsAt
  <2>2. ends[i - 1] + k \in 1 .. b
    BY <1>2, <1>4, <1>6, FieldInside DEF FieldsAt
  <2> QED BY <1>5, <2>1, <2>2
<1>7. FieldsAt(bytes, fields, ends)
  BY <1>2, <1>4, <1>6 DEF FieldsAt
<1>8. ends[Len(fields)] <= Len(bytes)
  <2>1. Len(s \o tail) = Len(s) + Len(tail)
    BY ConcatProperties
  <2> QED BY <1>1, <1>2, <1>3, <2>1
<1> QED BY <1>7, <1>8

LEMMA DirectSetDataHolds ==
  ASSUME OutBufType, OutHolds, InBufType, InHolds, ReadsFollow, DirectSetData
  PROVE  InBufType' /\ InHolds' /\ ReadsFollow'
<1>1. readPos' = readPos
  BY DEF DirectSetData
<1>2. CASE Len(outBytes) > InBufLen - 2
  <2>1. inError' = TRUE /\ UNCHANGED <<inBytes, delivered, reads, cleanRead>>
    BY <1>2 DEF DirectSetData
  <2> QED BY <1>1, <2>1, ErrorHolds
<1>3. CASE ~(Len(outBytes) > InBufLen - 2)
  <2>1. /\ inBytes' = outBytes /\ reads' = <<>> /\ inError' = inError
        /\ delivered' = [fields |-> added, stamped |-> stamped, ok |-> TRUE,
                         sealed |-> covered # Unsealed /\ Len(outBytes) = Len(covered) + 7,
                         covered |-> covered]
        /\ cleanRead' = (readPos = 2 /\ ~inError)
    BY <1>3 DEF DirectSetData
  <2>2. /\ delivered'.fields = added /\ delivered'.stamped = stamped
        /\ delivered'.covered = covered
        /\ delivered'.sealed = (covered # Unsealed /\ Len(outBytes) = Len(covered) + 7)
    BY <2>1
  <2>3. InBufType'
    <3>1. delivered' \in [fields : Seq(Field), stamped : BOOLEAN, sealed : BOOLEAN,
                          ok : BOOLEAN, covered : Seq(Int \union Byte)]
      BY <2>1 DEF OutBufType
    <3>2. <<>> \in Seq(Read)
      OBVIOUS
    <3> QED BY <1>1, <2>1, <3>1, <3>2 DEF InBufType, OutBufType
  <2>4. delivered'.sealed /\ ~delivered'.stamped =>
          Sealed(inBytes', delivered'.covered, delivered'.fields)
    BY <2>1, <2>2 DEF OutHolds
  <2>5. InHolds'
    BY <2>4 DEF InHolds
  <2>6. ASSUME readPos = 2, ~delivered'.stamped,
               delivered'.covered = Unsealed \/ delivered'.sealed
        PROVE  \E ends :
                 /\ FieldsAt(inBytes', delivered'.fields, ends)
                 /\ ends[Len(delivered'.fields)] <= Len(inBytes')
                 /\ delivered'.covered = Unsealed => ends[Len(delivered'.fields)] = Len(inBytes')
                 /\ ends[0] = 0
    <3>1. CASE delivered'.covered = Unsealed
      <4>1. LaidOut(inBytes', delivered'.fields)
        BY <2>1, <2>2, <2>6, <3>1 DEF OutHolds
      <4>2. Len(inBytes') \in Nat
        BY <2>1 DEF OutBufType
      <4>3. PICK ends : /\ FieldsAt(inBytes', delivered'.fields, ends)
                        /\ ends[Len(delivered'.fields)] = Len(inBytes')
        BY <4>1 DEF LaidOut
      <4>4. ends[0] = 0
        BY <4>3 DEF FieldsAt, FieldEnds
      <4>5. ends[Len(delivered'.fields)] <= Len(inBytes')
        BY <4>2, <4>3
      <4> QED BY <4>3, <4>4, <4>5
    <3>2. CASE delivered'.covered # Unsealed
      <4>1. Sealed(inBytes', delivered'.covered, delivered'.fields)
        BY <2>4, <2>6, <3>2
      <4>2. inBytes' \in Seq(Byte) /\ delivered'.fields \in Seq(Field)
        BY <2>1, <2>2 DEF OutBufType
      <4>3. PICK ends : /\ FieldsAt(inBytes', delivered'.fields, ends)
                        /\ ends[Len(delivered'.fields)] <= Len(inBytes')
        BY <4>1, <4>2, CodeBehindFields
      <4> QED BY <3>2, <4>3 DEF FieldsAt, FieldEnds
    <3> QED BY <3>1, <3>2
  <2>7. ReadsFollow'
    <3>1. SUFFICES ASSUME ReadsKinds', ~delivered'.stamped,
                          delivered'.covered = Unsealed \/ delivered'.sealed
                   PROVE  \E ends :
      /\ FieldsAt(inBytes', delivered'.fields, ends)
      /\ ends[Len(delivered'.fields)] <= Len(inBytes')
      /\ delivered'.covered = Unsealed => ends[Len(delivered'.fields)] = Len(inBytes')
      /\ Len(reads') <= Len(delivered'.fields) => readPos' = 2 + ends[Len(reads')]
      /\ Len(reads') > Len(delivered'.fields) => readPos' >= 2 + ends[Len(delivered'.fields)]
      /\ \A i \in 1 .. Len(reads') : ReadRight(i)'
      BY DEF ReadsFollow
    <3>2. readPos = 2
      BY <2>1, <3>1 DEF ReadsKinds
    <3>3. PICK ends :
                 /\ FieldsAt(inBytes', delivered'.fields, ends)
                 /\ ends[Len(delivered'.fields)] <= Len(inBytes')
                 /\ delivered'.covered = Unsealed => ends[Len(delivered'.fields)] = Len(inBytes')
                 /\ ends[0] = 0
      BY <2>6, <3>1, <3>2
    <3>4. Len(reads') = 0 /\ Len(delivered'.fields) \in Nat
      BY <2>1, <2>2 DEF OutBufType
    <3> QED BY <1>1, <3>2, <3>3, <3>4
  <2> QED BY <2>3, <2>5, <2>7
<1> QED BY <1>2, <1>3

LEMMA PlacesBehind ==
  ASSUME NEW e \in Nat, NEW w \in Nat, NEW at \in Nat, NEW b \in Nat,
         at = 2 + e, at + w <= 2 + b
  PROVE  /\ at + w = 2 + (e + w)
         /\ \A k \in 1 .. w : at + k - 2 = e + k /\ e + k \in 1 .. b
OBVIOUS

\* The bytes at the read position are those of the next field.
LEMMA NextField ==
  ASSUME NEW bytes \in Seq(Byte), NEW fields \in Seq(Field), NEW ends,
         FieldsAt(bytes, fields, ends), NEW m \in Nat, m + 1 <= Len(fields),
         NEW w \in Nat, w = Width[fields[m + 1].kind],
         NEW at \in Nat, at = 2 + ends[m], at + w <= 2 + Len(bytes)
  PROVE  Part(bytes, at, w) = Bytes(m + 1, w) /\ at + w = 2 + ends[m + 1]
<1>1. PICK i \in 1 .. Len(fields) : i = m + 1 /\ i - 1 = m
  OBVIOUS
<1>2. PICK e \in Nat : e = ends[m] /\ at = 2 + e
  <2>1. m \in 0 .. Len(fields) /\ ends \in [0 .. Len(fields) -> Nat]
    BY DEF FieldsAt, FieldEnds
  <2> QED BY <2>1
<1>3. PICK b \in Nat : b = Len(bytes) /\ DOMAIN bytes = 1 .. b /\ at + w <= 2 + b
  OBVIOUS
<1>4. /\ at + w = 2 + (e + w)
      /\ \A k \in 1 .. w : at + k - 2 = e + k /\ e + k \in 1 .. b
  <2>1. at = 2 + e
    BY <1>2
  <2>2. at + w <= 2 + b
    BY <1>3
  <2> QED BY ONLY <2>1, <2>2, e \in Nat, w \in Nat, at \in Nat, b \in Nat, PlacesBehind
<1>5. \A k \in 1 .. w : bytes[e + k] = <<m + 1, k>>
  BY <1>1, <1>2 DEF FieldsAt
<1>6. \A k \in 1 .. w : at + k - 2 = e + k /\ e + k \in DOMAIN bytes
  BY <1>3, <1>4
<1>7. Part(bytes, at, w) = [k \in 1 .. w |-> <<m + 1, k>>]
  BY <1>5, <1>6 DEF Part
<1>8. at + w = 2 + ends[m + 1]
  <2>1. ends[i] = ends[i - 1] + Width[fields[i].kind]
    BY DEF FieldsAt, FieldEnds
  <2>2. ends[m + 1] = e + w
    BY <1>1, <1>2, <2>1
  <2> QED BY <1>4, <2>2
<1> QED BY <1>7, <1>8 DEF Bytes

\* Such bytes read back as the field.
LEMMA ReadsBackWhole ==
  ASSUME InBufType, NEW kind \in Kinds, NEW i \in 1 .. Len(delivered.fields),
         NEW w \in Nat, w = Width[kind], w >= 1
  PROVE  LET r == ReadBack(kind, Bytes(i, w)) IN
         /\ r.kind = kind /\ r.field = i
         /\ r.value = Through(kind, delivered.fields[i].value)
<1>1. Bytes(i, w)[1] = <<i, 1>>
  BY DEF Bytes
<1>2. Bytes(i, w)[1][1] = i
  BY <1>1
<1>3. i \in DOMAIN delivered.fields
  BY DEF InBufType
<1> QED BY <1>2, <1>3 DEF ReadBack

LEMMA ReadBackType ==
  ASSUME InBufType, NEW kind \in Kinds, NEW bytes
  PROVE  ReadBack(kind, bytes) \in Read
<1>1. delivered.fields \in Seq(Field)
  BY DEF InBufType
<1>2. \A i \in DOMAIN delivered.fields : i \in Int /\ delivered.fields[i].value \in {"low", "wide"}
  BY <1>1, WidthOfField
<1>3. \A i \in DOMAIN delivered.fields : Through(kind, delivered.fields[i].value) \in {"low", "wide"}
  BY <1>2 DEF Through
<1>4. CASE bytes[1][1] \in DOMAIN delivered.fields /\ bytes = Bytes(bytes[1][1], Width[kind])
  <2>1. ReadBack(kind, bytes) = [kind |-> kind, field |-> bytes[1][1],
                                 value |-> Through(kind, delivered.fields[bytes[1][1]].value)]
    BY <1>4 DEF ReadBack
  <2> QED BY <1>2, <1>3, <1>4, <2>1 DEF Read
<1>5. CASE ~(bytes[1][1] \in DOMAIN delivered.fields /\ bytes = Bytes(bytes[1][1], Width[kind]))
  <2>1. ReadBack(kind, bytes) = [kind |-> kind, field |-> 0, value |-> "mixed"]
    BY <1>5 DEF ReadBack
  <2> QED BY <2>1 DEF Read
<1> QED BY <1>4, <1>5

LEMMA GetHolds ==
  ASSUME InBufType, InHolds, ReadsFollow, NEW kind \in Kinds, Get(kind)
  PROVE  InBufType' /\ InHolds' /\ ReadsFollow'
<1>1. UNCHANGED <<inBytes, delivered, cleanRead>>
  BY DEF Get
<1>2. PICK w \in Nat : w = Width[kind] /\ w >= 1
  BY WidthOfKind
<1>3. /\ reads \in Seq(Read) /\ inBytes \in Seq(Byte) /\ readPos \in Nat
      /\ delivered.fields \in Seq(Field)
  BY DEF InBufType
<1>4. PICK m \in Nat, n \in Nat, b \in Nat :
        m = Len(reads) /\ n = Len(delivered.fields) /\ b = Len(inBytes)
  BY <1>3
<1>5. CheckHaveEnoughData(Width[kind]) <=> readPos + w <= 2 + b
  BY <1>2, <1>3, <1>4 DEF CheckHaveEnoughData, LengthOf
<1>6. PICK read \in Read :
        /\ reads' = Append(reads, read) /\ read.kind = kind
        /\ \/ /\ readPos + w <= 2 + b /\ readPos' = readPos + w /\ inError' = inError
              /\ read = ReadBack(kind, Part(inBytes, readPos, w))
           \/ /\ ~(readPos + w <= 2 + b) /\ readPos' = readPos /\ inError' = TRUE
              /\ read.value = "none"
  <2>1. CASE CheckHaveEnoughData(Width[kind])
    <3>1. PICK read \in Read : read = ReadBack(kind, Part(inBytes, readPos, w))
      BY ReadBackType
    <3>2. reads' = Append(reads, read) /\ readPos' = readPos + w /\ inError' = inError
      BY <1>2, <2>1, <3>1 DEF Get
    <3>3. read.kind = kind
      BY <3>1 DEF ReadBack
    <3> QED BY <1>5, <2>1, <3>1, <3>2, <3>3
  <2>2. CASE ~CheckHaveEnoughData(Width[kind])
    <3>1. NoField(kind) \in Read /\ NoField(kind).kind = kind /\ NoField(kind).value = "none"
      BY DEF NoField, Read
    <3>2. PICK read \in Read : /\ read = NoField(kind) /\ read.kind = kind
                               /\ read.value = "none"
      BY <3>1
    <3>3. reads' = Append(reads, read) /\ inError' = TRUE /\ readPos' = readPos
      BY <2>2, <3>2 DEF Get
    <3>4. ~(readPos + w <= 2 + b)
      BY <1>5, <2>2
    <3> QED BY <3>2, <3>3, <3>4
  <2> QED BY <2>1, <2>2
<1>7. /\ Len(reads') = m + 1 /\ reads'[m + 1] = read
      /\ \A i \in 1 .. m : reads'[i] = reads[i]
  BY <1>3, <1>4, <1>6
<1>8. InBufType'
  <2>1. reads' \in Seq(Read) /\ readPos' \in Nat /\ inError' \in BOOLEAN
    <3>1. Append(reads, read) \in Seq(Read) /\ reads' = Append(reads, read)
      BY <1>3, <1>6
    <3>2. inError \in BOOLEAN
      BY DEF InBufType
    <3>3. readPos + w \in Nat
      BY <1>3
    <3>4. readPos' \in {readPos, readPos + w} /\ inError' \in {inError, TRUE}
      BY <1>6
    <3> QED BY <1>3, <3>1, <3>2, <3>3, <3>4
  <2> QED BY <1>1, <2>1 DEF InBufType
<1>9. InHolds'
  BY <1>1 DEF InHolds
<1>10. SUFFICES ASSUME ReadsKinds', ~delivered.stamped,
                       delivered.covered = Unsealed \/ delivered.sealed
                PROVE  ReadsFollow'
  BY <1>8, <1>9, <1>1 DEF ReadsFollow
<1>11. /\ delivered.ok /\ cleanRead
       /\ \A i \in 1 .. m + 1 : i <= n => reads'[i].kind = delivered.fields[i].kind
  BY <1>1, <1>4, <1>7, <1>10 DEF ReadsKinds
<1>12. ReadsKinds
  <2>1. \A i \in 1 .. m : i <= n => reads[i].kind = delivered.fields[i].kind
    <3>1. \A i \in 1 .. m : i \in 1 .. m + 1
      OBVIOUS
    <3> QED BY <3>1, <1>7, <1>11
  <2> QED BY <1>4, <1>11, <2>1 DEF ReadsKinds
<1>13. PICK ends :
    /\ FieldsAt(inBytes, delivered.fields, ends)
    /\ ends[n] <= b
    /\ delivered.covered = Unsealed => ends[n] = b
    /\ m <= n => readPos = 2 + ends[m]
    /\ m > n => readPos >= 2 + ends[n]
    /\ \A i \in 1 .. m : ReadRight(i)
  BY <1>4, <1>10, <1>12 DEF ReadsFollow
<1>14. ends[n] \in Nat
  BY <1>4, <1>13, SMTT(30) DEF FieldsAt, FieldEnds
<1>15. \A i \in 1 .. m : ReadRight(i)'
  BY <1>1, <1>7, <1>13 DEF ReadRight
<1>16. ASSUME m + 1 <= n
       PROVE  ReadRight(m + 1)' /\ readPos' = 2 + ends[m + 1]
  <2>1. PICK i \in 1 .. Len(delivered.fields) : i = m + 1 /\ i - 1 = m
    BY <1>4, <1>16
  <2>2. kind = delivered.fields[i].kind
    BY <1>6, <1>7, <1>11, <1>16, <2>1
  <2>3. readPos + w <= 2 + b
    <3>1. /\ ends[m] \in Nat /\ ends[m + 1] \in Nat
          /\ ends[m + 1] = ends[m] + w /\ ends[m + 1] <= ends[n]
      <4>1. FieldEnds(delivered.fields, ends)
        BY <1>13 DEF FieldsAt
      <4>2. ends[i] = ends[i - 1] + w /\ ends[i] <= ends[n]
        BY <1>2, <1>4, <2>1, <2>2, <4>1 DEF FieldEnds
      <4>3. ends[i - 1] \in Nat /\ ends[i] \in Nat
        BY <1>4, <2>1, <4>1 DEF FieldEnds
      <4> QED BY <2>1, <4>2, <4>3
    <3>2. readPos = 2 + ends[m]
      BY <1>13, <1>16
    <3> QED BY <1>13, <1>14, <3>1, <3>2
  <2>4. /\ read = ReadBack(kind, Part(inBytes, readPos, w)) /\ readPos' = readPos + w
    BY <1>6, <2>3
  <2>5. Part(inBytes, readPos, w) = Bytes(m + 1, w) /\ readPos + w = 2 + ends[m + 1]
    <3>1. PICK fields \in Seq(Field), bytes \in Seq(Byte), at \in Nat :
            fields = delivered.fields /\ bytes = inBytes /\ at = readPos
      BY <1>3
    <3>2. m + 1 <= Len(fields) /\ w = Width[fields[m + 1].kind]
      BY <1>2, <1>4, <1>16, <2>1, <2>2, <3>1
    <3>3. at = 2 + ends[m] /\ at + w <= 2 + Len(bytes)
      BY <1>4, <1>13, <1>16, <2>3, <3>1
    <3>4. FieldsAt(bytes, fields, ends)
      BY <1>13, <3>1
    <3>5. Part(bytes, at, w) = Bytes(m + 1, w) /\ at + w = 2 + ends[m + 1]
      BY <3>2, <3>3, <3>4, NextField, SMTT(30)
    <3> QED BY <3>1, <3>5
  <2>6. read.field = i /\ read.kind = kind
        /\ read.value = Through(kind, delivered.fields[i].value)
    BY <1>2, <2>1, <2>4, <2>5, ReadsBackWhole
  <2>7. delivered.fields[i].value \in {"low", "wide"}
    BY <1>3, WidthOfField
  <2>8. ReadRight(i)'
    BY <1>1, <1>4, <1>7, <1>16, <2>1, <2>6, <2>7 DEF ReadRight, Through
  <2> QED BY <2>1, <2>4, <2>5, <2>8
<1>17. ASSUME ~(m + 1 <= n)
       PROVE  ReadRight(m + 1)' /\ readPos' >= 2 + ends[n]
  <2>1. m = n \/ m > n
    BY <1>17
  <2>2. readPos >= 2 + ends[n]
    BY <1>3, <1>13, <1>14, <2>1
  <2>3. delivered.sealed \/ read.value = "none"
    <3>1. CASE delivered.covered = Unsealed
      BY <1>2, <1>3, <1>6, <1>13, <1>14, <2>2, <3>1
    <3> QED BY <1>10, <3>1
  <2>4. ReadRight(m + 1)'
    BY <1>1, <1>4, <1>7, <1>17, <2>3 DEF ReadRight
  <2> QED BY <1>2, <1>3, <1>6, <1>14, <2>2, <2>4
<1>18. \A i \in 1 .. m + 1 : ReadRight(i)'
  <2>1. ReadRight(m + 1)'
    BY <1>16, <1>17
  <2> QED BY <1>15, <2>1
<1> QED BY <1>1, <1>4, <1>7, <1>13, <1>16, <1>17, <1>18 DEF ReadsFollow

LEMMA InPartKept ==
  ASSUME OutBufType, OutHolds, InBufType, InHolds, ReadsFollow, [PacketNext]_packetVars
  PROVE  InBufType' /\ InHolds' /\ ReadsFollow'
<1>1. CASE ResetIn
  <2>1. /\ inBytes' = <<>> /\ inError' = FALSE /\ readPos' = 2
        /\ delivered' = NoPacket /\ reads' = <<>> /\ cleanRead' = TRUE
    BY <1>1 DEF ResetIn
  <2>2. delivered'.ok = FALSE /\ delivered'.sealed = FALSE
    BY <2>1 DEF NoPacket
  <2>3. InBufType'
    <3>1. <<>> \in Seq(Byte) /\ <<>> \in Seq(Field) /\ <<>> \in Seq(Int \union Byte)
          /\ <<>> \in Seq(Read)
      OBVIOUS
    <3>2. delivered' \in [fields : Seq(Field), stamped : BOOLEAN, sealed : BOOLEAN,
                    ok : BOOLEAN, covered : Seq(Int \union Byte)]
      BY <2>1, <3>1 DEF NoPacket
    <3> QED BY <2>1, <3>1, <3>2 DEF InBufType
  <2>4. InHolds' /\ ReadsFollow'
    BY <2>2 DEF InHolds, ReadsFollow, ReadsKinds
  <2> QED BY <2>3, <2>4
<1>2. CASE DirectSetData
  BY <1>2, DirectSetDataHolds
<1>3. CASE GetPacketID
  <2>1. inError' = TRUE /\ UNCHANGED <<inBytes, readPos, delivered, reads, cleanRead>>
    BY <1>3 DEF GetPacketID
  <2> QED BY <2>1, ErrorHolds
<1>4. CASE \E kind \in Kinds : Get(kind)
  BY <1>4, GetHolds
<1>5. CASE \/ ResetOut \/ SetPacketID \/ MakeCRC32CodeToPacket \/ \E kind \in Kinds : Add(kind)
           \/ UNCHANGED packetVars
  <2>1. UNCHANGED inPacket
    BY <1>5 DEF ResetOut, SetPacketID, MakeCRC32CodeToPacket, Add, packetVars
  <2> QED BY <2>1, InPartSame
<1> QED BY <1>1, <1>2, <1>3, <1>4, <1>5 DEF PacketNext

LEMMA BufferInit == PacketInit => BufferInv
<1> SUFFICES ASSUME PacketInit PROVE BufferInv
  OBVIOUS
<1>1. /\ outBytes = <<>> /\ added = <<>> /\ covered = <<>> /\ outError = FALSE
      /\ stamped = FALSE /\ inBytes = <<>> /\ inError = FALSE /\ readPos = 2
      /\ delivered = NoPacket /\ reads = <<>> /\ cleanRead = TRUE
  BY DEF PacketInit, Unsealed
<1>2. <<>> \in Seq(Byte) /\ <<>> \in Seq(Field) /\ <<>> \in Seq(Int \union Byte)
      /\ <<>> \in Seq(Read)
  OBVIOUS
<1>3. OutBufType /\ OutHolds
  BY <1>1, <1>2, NothingLaidOut DEF OutBufType, OutHolds, Unsealed
<1>4. InBufType
  <2>1. delivered \in [fields : Seq(Field), stamped : BOOLEAN, sealed : BOOLEAN,
                    ok : BOOLEAN, covered : Seq(Int \union Byte)]
    BY <1>1, <1>2 DEF NoPacket
  <2> QED BY <1>1, <1>2, <2>1 DEF InBufType
<1>5. InHolds /\ ReadsFollow
  BY <1>1 DEF InHolds, ReadsFollow, ReadsKinds, NoPacket
<1> QED BY <1>3, <1>4, <1>5 DEF BufferInv

\* The inductive invariant of LPacketBase: the sender's bytes are the fields it
\* added and the code behind them, until an id is written over them, and the
\* receiver's read position is behind the field it read last.
THEOREM BufferInvariant == PacketSpec => []BufferInv
<1>1. BufferInv /\ [PacketNext]_packetVars => BufferInv'
  BY OutPartKept, InPartKept DEF BufferInv
<1> QED BY <1>1, BufferInit, PTL DEF PacketSpec

LEMMA CodeVerifies ==
  ASSUME InBufType, Sealed(inBytes, delivered.covered, delivered.fields)
  PROVE  CheckCRC32Code
<1>1. PICK s \in Seq(Byte) : /\ delivered.covered = <<Len(s) + 10>> \o s
                             /\ inBytes = s \o Bytes(CrcName, 8)
  BY DEF Sealed
<1>2. PICK tail \in Seq(Byte) : tail = Bytes(CrcName, 8) /\ Len(tail) = 8
                                /\ \A k \in 1 .. 8 : tail[k] = <<CrcName, k>>
  BY CodeBytes
<1>3. PICK n \in Nat : n = Len(s)
  OBVIOUS
<1>4. PICK bytes \in Seq(Byte) : bytes = inBytes /\ bytes = s \o tail
  BY <1>1, <1>2 DEF InBufType
<1>5. Len(bytes) = n + 8 /\ DOMAIN bytes = 1 .. n + 8
  <2>1. Len(s \o tail) = Len(s) + Len(tail)
    BY ConcatProperties
  <2>2. Len(bytes) = n + 8
    BY <1>2, <1>3, <1>4, <2>1
  <2> QED BY <2>2
<1>6. \A k \in 1 .. n + 8 : bytes[k] = IF k <= n THEN s[k] ELSE tail[k - n]
  <2>1. \A k \in 1 .. Len(s) + Len(tail) : (s \o tail)[k] = IF k <= Len(s) THEN s[k] ELSE tail[k - Len(s)]
    BY ConcatProperties
  <2>2. Len(s) + Len(tail) = n + 8
    BY <1>2, <1>3
  <2>3. \A k \in 1 .. n + 8 : (s \o tail)[k] = IF k <= n THEN s[k] ELSE tail[k - n]
    BY <1>3, <2>1, <2>2
  <2> QED BY <1>4, <2>3
<1>7. Part(bytes, n + 2, 8) = [k \in 1 .. 8 |-> <<CrcName, k>>]
  <2>1. \A k \in 1 .. 8 : n + 2 + k - 2 = n + k /\ n + k \in 1 .. n + 8 /\ ~(n + k <= n) /\ n + k - n = k
    OBVIOUS
  <2>2. \A k \in 1 .. 8 : bytes[n + k] = <<CrcName, k>>
    BY <1>2, <1>6, <2>1
  <2> QED BY <1>5, <2>1, <2>2 DEF Part
<1>8. Part(bytes, 2, n) = s
  <2>1. \A k \in 1 .. n : 2 + k - 2 = k /\ k \in 1 .. n + 8 /\ k <= n
    OBVIOUS
  <2>2. \A k \in 1 .. n : bytes[k] = s[k]
    BY <1>6, <2>1
  <2>3. Part(bytes, 2, n) = [k \in 1 .. n |-> s[k]]
    BY <1>5, <2>1, <2>2 DEF Part
  <2>4. s = [k \in 1 .. n |-> s[k]]
    BY <1>3
  <2> QED BY <2>3, <2>4
<1>9. LengthOf(inBytes) = n + 10 /\ Len(inBytes) - 8 = n /\ Len(inBytes) >= 8
  <2>1. Len(inBytes) = n + 8
    BY <1>4, <1>5
  <2> QED BY <2>1 DEF LengthOf
<1>10. Part(inBytes, LengthOf(inBytes) - 8, 8) = Bytes(CrcName, 8)
  <2>1. LengthOf(inBytes) - 8 = n + 2
    BY <1>9
  <2> QED BY <1>4, <1>7, <2>1 DEF Bytes
<1>11. <<LengthOf(inBytes)>> \o Part(inBytes, 2, Len(inBytes) - 8) = delivered.covered
  BY <1>1, <1>3, <1>4, <1>8, <1>9
<1> QED BY <1>9, <1>10, <1>11 DEF CheckCRC32Code

\* For every buffer, every set of kinds and any number of packets over the same
\* two objects: a receiver that cleared its object and reads the kinds that were
\* added gets every field with its value, without an error, nothing behind the
\* last but the code, and the code verifies (LPacketBase, LPacketBase.cpp:505).
THEOREM PacketsArriveIntact == PacketSpec => []DeliveredIntact
<1>1. ASSUME BufferInv PROVE DeliveredIntact
  <2>1. ASSUME ReadsKinds, ~delivered.stamped,
               delivered.covered = Unsealed \/ delivered.sealed,
               NEW i \in 1 .. Len(reads)
        PROVE  ReadRight(i)
    BY <1>1, <2>1 DEF BufferInv, ReadsFollow
  <2>2. delivered.sealed => CheckCRC32Code \/ delivered.stamped
    BY <1>1, CodeVerifies DEF BufferInv, InHolds
  <2> QED BY <2>1, <2>2 DEF DeliveredIntact, ReadRight
<1>2. BufferInv => DeliveredIntact
  BY <1>1
<1> QED BY <1>2, BufferInvariant, PTL

-----------------------------------------------------------------------------
(* PacketPool: counting.                                                    *)

LEMMA CountedTo ==
  ASSUME NEW n \in Nat
  PROVE  IsFiniteSet(1 .. n) /\ Cardinality(1 .. n) = n
<1>1. IsFiniteSet(1 .. n) /\ Cardinality(1 .. n) = IF 1 > n THEN 0 ELSE n - 1 + 1
  BY FS_Interval
<1> QED BY <1>1

LEMMA PairedWith ==
  ASSUME NEW x, NEW S, IsFiniteSet(S)
  PROVE  /\ IsFiniteSet({x} \X S) /\ Cardinality({x} \X S) = Cardinality(S)
         /\ Cardinality(S) \in Nat
<1>1. IsFiniteSet({x}) /\ Cardinality({x}) = 1
  BY FS_Singleton
<1>2. IsFiniteSet({x} \X S) /\ Cardinality({x} \X S) = Cardinality({x}) * Cardinality(S)
  BY <1>1, FS_Product
<1>3. Cardinality(S) \in Nat
  BY FS_CardinalityType
<1> QED BY <1>1, <1>2, <1>3

LEMMA UnionIsFinite ==
  ASSUME NEW sets, IsFiniteSet(DOMAIN sets), \A i \in DOMAIN sets : IsFiniteSet(sets[i])
  PROVE  IsFiniteSet(DisjointUnion(sets)) /\ Cardinality(DisjointUnion(sets)) \in Nat
<1> DEFINE pairs == [i \in DOMAIN sets |-> {i} \X sets[i]]
           family == {{i} \X sets[i] : i \in DOMAIN sets}
<1>1. pairs \in Surjection(DOMAIN sets, family)
  BY DEF Surjection
<1>2. IsFiniteSet(family)
  <2> HIDE DEF pairs, family
  <2> QED BY <1>1, FS_Surjection
<1>3. \A A \in family : IsFiniteSet(A)
  <2> SUFFICES ASSUME NEW i \in DOMAIN sets PROVE IsFiniteSet({i} \X sets[i])
    OBVIOUS
  <2> QED BY PairedWith
<1>4. IsFiniteSet(UNION family)
  <2> HIDE DEF family
  <2> QED BY <1>2, <1>3, FS_UNION
<1>5. IsFiniteSet(DisjointUnion(sets))
  BY <1>4 DEF DisjointUnion
<1> QED BY <1>5, FS_CardinalityType

\* With one set of a family replaced, the union is less by the old one and more
\* by the new one.
LEMMA UnionReplaced ==
  ASSUME NEW f, NEW g, IsFiniteSet(DOMAIN f), DOMAIN g = DOMAIN f, NEW x \in DOMAIN f,
         \A i \in DOMAIN f : IsFiniteSet(f[i]) /\ IsFiniteSet(g[i]),
         \A i \in DOMAIN f : i # x => g[i] = f[i]
  PROVE  Cardinality(DisjointUnion(g)) =
           Cardinality(DisjointUnion(f)) - Cardinality(f[x]) + Cardinality(g[x])
<1> DEFINE Old == {x} \X f[x]
           New == {x} \X g[x]
           Rest == DisjointUnion(f) \ Old
<1>1. /\ IsFiniteSet(Old) /\ Cardinality(Old) = Cardinality(f[x]) /\ Cardinality(Old) \in Nat
      /\ IsFiniteSet(New) /\ Cardinality(New) = Cardinality(g[x]) /\ Cardinality(New) \in Nat
  BY PairedWith
<1>2. IsFiniteSet(DisjointUnion(f)) /\ Cardinality(DisjointUnion(f)) \in Nat
  BY UnionIsFinite
<1>3. Old \in SUBSET DisjointUnion(f)
  BY DEF DisjointUnion
<1>4. DisjointUnion(g) = Rest \cup New /\ Rest \cap New = {}
  <2>1. ASSUME NEW t PROVE t \in DisjointUnion(g) <=> t \in Rest \cup New
    <3>1. t \in DisjointUnion(g) <=> \E i \in DOMAIN f : t \in {i} \X g[i]
      BY DEF DisjointUnion
    <3>2. t \in DisjointUnion(f) <=> \E i \in DOMAIN f : t \in {i} \X f[i]
      BY DEF DisjointUnion
    <3>3. \A i \in DOMAIN f : i # x => {i} \X g[i] = {i} \X f[i]
      OBVIOUS
    <3>4. \A i \in DOMAIN f : i # x => ~(t \in {i} \X f[i] /\ t \in Old)
      OBVIOUS
    <3> QED BY <3>1, <3>2, <3>3, <3>4
  <2>2. Rest \cap New = {}
    <3> SUFFICES ASSUME NEW t \in New PROVE t \notin Rest
      OBVIOUS
    <3>1. ASSUME NEW i \in DOMAIN f, t \in {i} \X f[i] PROVE t \in Old
      <4>1. i = x
        BY <3>1
      <4> QED BY <3>1, <4>1
    <3> QED BY <3>1 DEF DisjointUnion
  <2> QED BY <2>1, <2>2
<1> HIDE DEF Old, New
<1>5. IsFiniteSet(Rest)
      /\ Cardinality(Rest) = Cardinality(DisjointUnion(f)) - Cardinality(Old)
  <2>1. DisjointUnion(f) \cap Old = Old
    BY <1>3
  <2> QED BY <1>2, <2>1, FS_Difference
<1> HIDE DEF Rest
<1>6. Cardinality(Rest \cup New) = Cardinality(Rest) + Cardinality(New) - Cardinality({})
  BY <1>1, <1>4, <1>5, FS_Union
<1>7. Cardinality({}) = 0
  BY FS_EmptySet
<1>8. Cardinality(Rest) \in Nat
  BY <1>5, FS_CardinalityType
<1> QED BY <1>1, <1>2, <1>4, <1>5, <1>6, <1>7, <1>8

-----------------------------------------------------------------------------
(* PacketPool: the invariant.                                               *)

Entry == [len : PacketLens, init : Nat, max : Nat]
\* A ring without memory has no packets.
Rings ==
  {ring \in [size : Nat, read : Nat, items : Seq(PacketLens)] :
     ring.size = 0 => ring.items = <<>>}

PoolType ==
  /\ phase \in [Pools -> {"new", "ready", "failed", "released"}]
  /\ descs \in [Pools -> Seq(Entry)] /\ rings \in [Pools -> Seq(Rings)]
  /\ held \in [PacketLens -> [PacketLens -> Nat]] /\ made \in [PacketLens -> Int]

\* A pool has no ring before it is initialized, and then one for every entry.
RingPerEntry ==
  \A p \in Pools : /\ phase[p] = "new" => rings[p] = <<>>
                   /\ phase[p] = "ready" => DOMAIN rings[p] = DOMAIN descs[p]

AreAll(items, len) == \A k \in DOMAIN items : items[k] = len
OfItsLength ==
  \A p \in Pools : \A i \in DOMAIN rings[p] : AreAll(rings[p][i].items, descs[p][i].len)
NoneLostNorDoubled ==
  \A len \in PacketLens : made[len] = Cardinality(InPools(len)) + Cardinality(InHands(len))
LongEnough == \A asked, len \in PacketLens : held[asked][len] > 0 => asked <= len

PoolInv == PoolType /\ RingPerEntry /\ OfItsLength /\ NoneLostNorDoubled /\ LongEnough

\* The packets of one length in a ring that has only packets of one.
CountAt(ring, len) == Cardinality(LyingAt(ring.items, len))

LEMMA CountInRing ==
  ASSUME NEW ring \in Rings, NEW own, AreAll(ring.items, own), NEW len
  PROVE  CountAt(ring, len) = IF len = own THEN Len(ring.items) ELSE 0
<1> DEFINE items == ring.items
<1>1. PICK m \in Nat : m = Len(items) /\ DOMAIN items = 1 .. m
  BY DEF Rings
<1>2. CASE len = own
  <2>1. LyingAt(items, len) = 1 .. m
    BY <1>1, <1>2 DEF LyingAt, AreAll
  <2> QED BY <1>1, <1>2, <2>1, CountedTo DEF CountAt
<1>3. CASE len # own
  <2>1. LyingAt(items, len) = {}
    BY <1>3 DEF LyingAt, AreAll
  <2> QED BY <1>3, <2>1, FS_EmptySet DEF CountAt
<1> QED BY <1>2, <1>3

LEMMA LyingIsFinite ==
  ASSUME NEW items \in Seq(PacketLens), NEW len
  PROVE  IsFiniteSet(LyingAt(items, len))
<1>1. PICK m \in Nat : DOMAIN items = 1 .. m
  OBVIOUS
<1>2. LyingAt(items, len) \in SUBSET (1 .. m)
  BY <1>1 DEF LyingAt
<1> QED BY <1>2, CountedTo, FS_Subset

LEMMA PlacesAreFinite ==
  ASSUME NEW someRings \in Seq(Rings), NEW len
  PROVE  IsFiniteSet(PlacesIn(someRings, len)) /\ Cardinality(PlacesIn(someRings, len)) \in Nat
<1> DEFINE sets == [i \in DOMAIN someRings |-> LyingAt(someRings[i].items, len)]
<1>1. PICK m \in Nat : DOMAIN someRings = 1 .. m
  OBVIOUS
<1>2. IsFiniteSet(DOMAIN sets)
  BY <1>1, CountedTo
<1>3. \A i \in DOMAIN sets : IsFiniteSet(sets[i])
  <2> SUFFICES ASSUME NEW i \in DOMAIN someRings
               PROVE  IsFiniteSet(LyingAt(someRings[i].items, len))
    OBVIOUS
  <2>1. someRings[i].items \in Seq(PacketLens)
    BY <1>1, ElementOfSeq DEF Rings
  <2> QED BY <2>1, LyingIsFinite
<1> HIDE DEF sets
<1>4. IsFiniteSet(DisjointUnion(sets)) /\ Cardinality(DisjointUnion(sets)) \in Nat
  BY <1>2, <1>3, UnionIsFinite
<1> QED BY <1>4 DEF PlacesIn, sets

\* How many packets of a length lie in the rings of all pools.
CountIn(r, len) == Cardinality(DisjointUnion([q \in Pools |-> PlacesIn(r[q], len)]))

\* What a count becomes when some go and some come.
Balance(before, taken, come, after) == after = before - taken + come

\* A ring of one pool is replaced.
LEMMA RingReplaced ==
  ASSUME NEW r \in [Pools -> Seq(Rings)], NEW p \in Pools, NEW i \in DOMAIN r[p],
         NEW ring \in Rings, NEW s, s = [r EXCEPT ![p][i] = ring]
  PROVE  /\ s \in [Pools -> Seq(Rings)] /\ DOMAIN s[p] = DOMAIN r[p]
         /\ s[p][i] = ring
         /\ \A j \in DOMAIN r[p] : j # i => s[p][j] = r[p][j]
         /\ \A q \in Pools : q # p => s[q] = r[q]
<1>1. PICK m \in Nat : DOMAIN r[p] = 1 .. m /\ r[p] \in [1 .. m -> Rings]
  <2>1. r[p] \in Seq(Rings)
    OBVIOUS
  <2> QED BY <2>1
<1>2. [r[p] EXCEPT ![i] = ring] \in [1 .. m -> Rings]
  BY <1>1
<1>3. [r[p] EXCEPT ![i] = ring] \in Seq(Rings)
  BY <1>2
<1>4. [r EXCEPT ![p][i] = ring] = [r EXCEPT ![p] = [r[p] EXCEPT ![i] = ring]]
  OBVIOUS
<1> QED BY <1>1, <1>3, <1>4

\* What the replacement does to the number of packets in the pools.
LEMMA RingCounted ==
  ASSUME NEW r \in [Pools -> Seq(Rings)], NEW p \in Pools, NEW i \in DOMAIN r[p],
         NEW ring \in Rings, NEW len, NEW s \in [Pools -> Seq(Rings)],
         DOMAIN s[p] = DOMAIN r[p], s[p][i] = ring,
         \A j \in DOMAIN r[p] : j # i => s[p][j] = r[p][j],
         \A q \in Pools : q # p => s[q] = r[q]
  PROVE  /\ Balance(CountIn(r, len), CountAt(r[p][i], len), CountAt(ring, len), CountIn(s, len))
         /\ CountIn(r, len) \in Nat /\ CountIn(s, len) \in Nat
<1>1. /\ s \in [Pools -> Seq(Rings)] /\ DOMAIN s[p] = DOMAIN r[p]
      /\ s[p][i] = ring
      /\ \A j \in DOMAIN r[p] : j # i => s[p][j] = r[p][j]
      /\ \A q \in Pools : q # p => s[q] = r[q]
  OBVIOUS
<1>2. r[p] \in Seq(Rings) /\ s[p] \in Seq(Rings)
  BY <1>1
<1>3. /\ Cardinality(PlacesIn(s[p], len)) =
           Cardinality(PlacesIn(r[p], len)) - Cardinality(LyingAt(r[p][i].items, len))
           + Cardinality(LyingAt(ring.items, len))
  <2> DEFINE f == [j \in DOMAIN r[p] |-> LyingAt(r[p][j].items, len)]
             g == [j \in DOMAIN s[p] |-> LyingAt(s[p][j].items, len)]
  <2>1. PICK m \in Nat : DOMAIN r[p] = 1 .. m
    BY <1>2
  <2>2. IsFiniteSet(DOMAIN f) /\ DOMAIN g = DOMAIN f /\ DOMAIN f = DOMAIN r[p]
    BY <1>1, <2>1, CountedTo
  <2>3. ASSUME NEW j \in DOMAIN f PROVE IsFiniteSet(f[j]) /\ IsFiniteSet(g[j])
    <3>1. r[p][j].items \in Seq(PacketLens) /\ s[p][j].items \in Seq(PacketLens)
      <4>1. r[p][j] \in Rings /\ s[p][j] \in Rings
        BY <1>1, <1>2, <2>1, ElementOfSeq
      <4> QED BY <4>1 DEF Rings
    <3> QED BY <1>1, <3>1, LyingIsFinite
  <2>4. \A j \in DOMAIN f : j # i => g[j] = f[j]
    BY <1>1
  <2>5. f[i] = LyingAt(r[p][i].items, len) /\ g[i] = LyingAt(ring.items, len)
    BY <1>1
  <2> HIDE DEF f, g
  <2>6. Cardinality(DisjointUnion(g)) =
          Cardinality(DisjointUnion(f)) - Cardinality(f[i]) + Cardinality(g[i])
    <3>1. /\ IsFiniteSet(DOMAIN f) /\ DOMAIN g = DOMAIN f /\ i \in DOMAIN f
          /\ \A j \in DOMAIN f : IsFiniteSet(f[j]) /\ IsFiniteSet(g[j])
      BY <2>2, <2>3
    <3> QED BY <2>4, <3>1, UnionReplaced, ZenonT(20)
  <2>7. PlacesIn(s[p], len) = DisjointUnion(g) /\ PlacesIn(r[p], len) = DisjointUnion(f)
    BY DEF PlacesIn, f, g
  <2> QED BY <2>5, <2>6, <2>7
<1>4. /\ Cardinality(PlacesIn(s[p], len)) \in Nat /\ Cardinality(PlacesIn(r[p], len)) \in Nat
  BY <1>2, PlacesAreFinite
<1> DEFINE f == [q \in Pools |-> PlacesIn(r[q], len)]
           g == [q \in Pools |-> PlacesIn(s[q], len)]
<1>5. /\ IsFiniteSet(DOMAIN f) /\ DOMAIN g = DOMAIN f /\ DOMAIN f = Pools
      /\ \A q \in Pools : IsFiniteSet(f[q]) /\ IsFiniteSet(g[q])
      /\ \A q \in Pools : q # p => g[q] = f[q]
      /\ f[p] = PlacesIn(r[p], len) /\ g[p] = PlacesIn(s[p], len)
  BY <1>1, PlacesAreFinite, PacketPoolAssumption
<1> HIDE DEF f, g
<1>6. Cardinality(DisjointUnion(g)) =
        Cardinality(DisjointUnion(f)) - Cardinality(f[p]) + Cardinality(g[p])
  BY <1>5, UnionReplaced
<1>7. Cardinality(DisjointUnion(f)) \in Nat /\ Cardinality(DisjointUnion(g)) \in Nat
  BY <1>5, UnionIsFinite
<1>8. Cardinality(LyingAt(r[p][i].items, len)) \in Nat
      /\ Cardinality(LyingAt(ring.items, len)) \in Nat
  <2>1. r[p][i].items \in Seq(PacketLens) /\ ring.items \in Seq(PacketLens)
    BY <1>2, ElementOfSeq DEF Rings
  <2> QED BY <2>1, LyingIsFinite, FS_CardinalityType
<1>9. /\ CountIn(r, len) = Cardinality(DisjointUnion(f))
      /\ CountIn(s, len) = Cardinality(DisjointUnion(g))
      /\ CountAt(r[p][i], len) = Cardinality(LyingAt(r[p][i].items, len))
      /\ CountAt(ring, len) = Cardinality(LyingAt(ring.items, len))
  BY DEF CountIn, CountAt, f, g
<1>10. Cardinality(DisjointUnion(g)) =
         Cardinality(DisjointUnion(f)) - Cardinality(LyingAt(r[p][i].items, len))
         + Cardinality(LyingAt(ring.items, len))
  BY <1>3, <1>4, <1>5, <1>6, <1>7, <1>8
<1> QED BY <1>7, <1>9, <1>10 DEF Balance

LEMMA PoolReplaced ==
  ASSUME NEW r \in [Pools -> Seq(Rings)], NEW p \in Pools, NEW new \in Seq(Rings),
         NEW s, s = [r EXCEPT ![p] = new], NEW len
  PROVE  Balance(CountIn(r, len), CountOf(len, r[p]), CountOf(len, new), CountIn(s, len))
<1> DEFINE f == [q \in Pools |-> PlacesIn(r[q], len)]
           g == [q \in Pools |-> PlacesIn(s[q], len)]
<1>1. s \in [Pools -> Seq(Rings)]
  OBVIOUS
<1>2. /\ IsFiniteSet(DOMAIN f) /\ DOMAIN g = DOMAIN f /\ DOMAIN f = Pools
      /\ \A q \in Pools : IsFiniteSet(f[q]) /\ IsFiniteSet(g[q])
      /\ \A q \in Pools : q # p => g[q] = f[q]
      /\ f[p] = PlacesIn(r[p], len) /\ g[p] = PlacesIn(new, len)
  BY <1>1, PlacesAreFinite, PacketPoolAssumption
<1> HIDE DEF f, g
<1>3. Cardinality(DisjointUnion(g)) =
        Cardinality(DisjointUnion(f)) - Cardinality(f[p]) + Cardinality(g[p])
  BY <1>2, UnionReplaced
<1> QED BY <1>2, <1>3 DEF Balance, CountIn, CountOf, f, g

LEMMA PoolsCounted ==
  ASSUME PoolType, NEW len
  PROVE  Cardinality(InPools(len)) \in Nat /\ Cardinality(InPools(len)) = CountIn(rings, len)
<1> DEFINE f == [q \in Pools |-> PlacesIn(rings[q], len)]
<1>1. IsFiniteSet(DOMAIN f) /\ \A q \in DOMAIN f : IsFiniteSet(f[q])
  BY PlacesAreFinite, PacketPoolAssumption DEF PoolType
<1> HIDE DEF f
<1>2. Cardinality(DisjointUnion(f)) \in Nat
  BY <1>1, UnionIsFinite
<1> QED BY <1>2 DEF CountIn, InPools, f

LEMMA PoolsCountedNext ==
  ASSUME NEW len PROVE Cardinality(InPools(len)') = CountIn(rings', len)
BY DEF CountIn, InPools

\* The callers have one count more or less of one length.
LEMMA HandsCounted ==
  ASSUME PoolType, NEW asked \in PacketLens, NEW own \in PacketLens, NEW c \in Nat,
         held' = [held EXCEPT ![asked][own] = c], NEW len \in PacketLens
  PROVE  /\ Cardinality(InHands(len)) \in Nat
         /\ Balance(Cardinality(InHands(len)), held[asked][len], held'[asked][len],
                    Cardinality(InHands(len)'))
<1>1. /\ held \in [PacketLens -> [PacketLens -> Nat]] /\ held' \in [PacketLens -> [PacketLens -> Nat]]
      /\ \A a \in PacketLens : held[a][len] \in Nat /\ held'[a][len] \in Nat
      /\ held[asked][own] \in Nat /\ held'[asked][own] = c
      /\ \A a, l \in PacketLens : ~(a = asked /\ l = own) => held'[a][l] = held[a][l]
  BY DEF PoolType
<1> DEFINE f == [a \in PacketLens |-> 1 .. held[a][len]]
           g == [a \in PacketLens |-> 1 .. held'[a][len]]
<1>2. /\ IsFiniteSet(DOMAIN f) /\ DOMAIN g = DOMAIN f /\ DOMAIN f = PacketLens
      /\ \A a \in PacketLens : /\ IsFiniteSet(f[a]) /\ Cardinality(f[a]) = held[a][len]
                               /\ IsFiniteSet(g[a]) /\ Cardinality(g[a]) = held'[a][len]
      /\ \A a \in PacketLens : a # asked => g[a] = f[a]
  BY <1>1, CountedTo, PacketPoolAssumption
<1> HIDE DEF f, g
<1>3. Cardinality(DisjointUnion(g)) =
        Cardinality(DisjointUnion(f)) - held[asked][len] + held'[asked][len]
  BY <1>2, UnionReplaced
<1>4. Cardinality(DisjointUnion(f)) \in Nat
  BY <1>2, UnionIsFinite
<1>5. Cardinality(InHands(len)) = Cardinality(DisjointUnion(f))
      /\ Cardinality(InHands(len)') = Cardinality(DisjointUnion(g))
  BY DEF InHands, f, g
<1> QED BY <1>3, <1>4, <1>5 DEF Balance

LEMMA FirstTaken ==
  ASSUME NEW ring \in Rings, NEW n \in 1 .. Len(ring.items), NEW own, AreAll(ring.items, own)
  PROVE  /\ WithoutFirst(ring, n) \in Rings
         /\ Len(WithoutFirst(ring, n).items) = Len(ring.items) - n
         /\ AreAll(WithoutFirst(ring, n).items, own)
<1>1. PICK items \in Seq(PacketLens), m \in Nat :
        items = ring.items /\ m = Len(items) /\ DOMAIN items = 1 .. m
  BY DEF Rings
<1>2. ring.size \in Nat \ {0} /\ ring.read \in Nat /\ n \in 1 .. m
  <2>1. items # <<>>
    BY <1>1
  <2> QED BY <1>1, <2>1 DEF Rings
<1>3. PICK rest \in Seq(PacketLens) : /\ rest = SubSeq(items, n + 1, m) /\ Len(rest) = m - n
                                      /\ \A k \in 1 .. m - n : rest[k] = items[n + k]
  <2>1. SubSeq(items, n + 1, m) = [k \in 1 .. m - n |-> items[n + k]]
    <3>1. SubSeq(items, n + 1, m) = [k \in 1 .. m - (n + 1) + 1 |-> items[k + (n + 1) - 1]]
      BY <1>1, <1>2
    <3>2. m - (n + 1) + 1 = m - n /\ \A k \in 1 .. m - n : k + (n + 1) - 1 = n + k
      BY <1>2
    <3> QED BY <3>1, <3>2
  <2>2. \A k \in 1 .. m - n : n + k \in 1 .. m
    BY <1>2
  <2>3. [k \in 1 .. m - n |-> items[n + k]] \in [1 .. m - n -> PacketLens]
    BY <1>1, <2>2, ElementOfSeq
  <2>4. PICK f \in [1 .. m - n -> PacketLens] : f = [k \in 1 .. m - n |-> items[n + k]]
    BY <2>3, Zenon
  <2>5. m - n \in Nat
    BY <1>2
  <2>6. f \in Seq(PacketLens) /\ Len(f) = m - n
    BY <2>5
  <2> QED BY <2>1, <2>4, <2>6
<1>4. (ring.read + n) % ring.size \in Nat
  BY <1>2
<1>5. /\ WithoutFirst(ring, n).size = ring.size /\ WithoutFirst(ring, n).items = rest
      /\ WithoutFirst(ring, n) \in [size : Nat, read : Nat, items : Seq(PacketLens)]
  <2>1. PICK r \in Nat : r = (ring.read + n) % ring.size
    BY <1>4
  <2>2. WithoutFirst(ring, n) = [ring EXCEPT !.items = rest, !.read = r]
    BY <1>1, <1>3, <2>1 DEF WithoutFirst
  <2>3. ring \in [size : Nat, read : Nat, items : Seq(PacketLens)]
    BY DEF Rings
  <2> QED BY <2>2, <2>3
<1>6. AreAll(rest, own)
  <2>1. \A k \in 1 .. m - n : n + k \in 1 .. m
    BY <1>2
  <2>2. DOMAIN rest = 1 .. m - n
    BY <1>3
  <2>3. \A k \in 1 .. m : items[k] = own
    BY <1>1 DEF AreAll
  <2>4. \A k \in 1 .. m - n : rest[k] = own
    BY <1>3, <2>1, <2>3
  <2> QED BY <2>2, <2>4 DEF AreAll
<1> QED BY <1>1, <1>2, <1>3, <1>4, <1>5, <1>6 DEF Rings

LEMMA ItemsAdded ==
  ASSUME NEW ring \in Rings, ring.size > 0, NEW items \in Seq(PacketLens), NEW own,
         AreAll(ring.items, own), AreAll(items, own)
  PROVE  /\ WithItems(ring, items) \in Rings
         /\ Len(WithItems(ring, items).items) = Len(ring.items) + Len(items)
         /\ AreAll(WithItems(ring, items).items, own)
<1>1. PICK old \in Seq(PacketLens), m \in Nat, n \in Nat :
        old = ring.items /\ m = Len(old) /\ n = Len(items)
  BY DEF Rings
<1>2. PICK all \in Seq(PacketLens) :
        /\ all = old \o items /\ Len(all) = m + n
        /\ \A k \in 1 .. m + n : all[k] = IF k <= m THEN old[k] ELSE items[k - m]
  <2>1. /\ old \o items \in Seq(PacketLens) /\ Len(old \o items) = m + n
        /\ \A k \in 1 .. m + n : (old \o items)[k] = IF k <= m THEN old[k] ELSE items[k - m]
    BY <1>1, ConcatProperties
  <2> QED BY <2>1, Zenon
<1>3. AreAll(all, own)
  <2> SUFFICES ASSUME NEW k \in 1 .. m + n PROVE all[k] = own
    BY <1>2 DEF AreAll
  <2>1. k <= m => k \in DOMAIN old
    BY <1>1
  <2>2. ~(k <= m) => k - m \in DOMAIN items
    BY <1>1
  <2> QED BY <1>1, <1>2, <2>1, <2>2 DEF AreAll
<1>4. /\ WithItems(ring, items).size = ring.size /\ WithItems(ring, items).items = all
      /\ WithItems(ring, items) \in [size : Nat, read : Nat, items : Seq(PacketLens)]
  <2>1. WithItems(ring, items) = [ring EXCEPT !.items = all]
    BY <1>1, <1>2 DEF WithItems
  <2>2. ring \in [size : Nat, read : Nat, items : Seq(PacketLens)]
    BY DEF Rings
  <2> QED BY <2>1, <2>2
<1> QED BY <1>1, <1>2, <1>3, <1>4 DEF Rings

LEMMA MinOfTwo ==
  ASSUME NEW a \in Int, NEW b \in Int
  PROVE  Min({a, b}) \in {a, b} /\ Min({a, b}) <= a /\ Min({a, b}) <= b
<1>1. \E x \in {a, b} : \A y \in {a, b} : x <= y
  OBVIOUS
<1>2. Min({a, b}) \in {a, b} /\ \A y \in {a, b} : Min({a, b}) <= y
  BY <1>1 DEF Min
<1> QED BY <1>2

LEMMA FirstIndexFacts ==
  ASSUME NEW S \in SUBSET Nat, NEW i \in FirstIndex(S)
  PROVE  i \in S
<1>1. S # {} /\ i = Min(S)
  BY DEF FirstIndex
<1> QED BY <1>1, LeastNumber DEF Min

LEMMA SelectedEntry ==
  ASSUME PoolInv, NEW p \in Pools, phase[p] = "ready", NEW len,
         NEW i \in SelectIndexForPacketLenEqual(p, len)
  PROVE  i \in DOMAIN rings[p] /\ i \in DOMAIN descs[p] /\ descs[p][i].len = len
<1> DEFINE S == {j \in DOMAIN descs[p] : len <= Largest(p) /\ len = descs[p][j].len}
<1>1. S \in SUBSET Nat
  BY DEF PoolInv, PoolType
<1>2. i \in FirstIndex(S)
  BY DEF SelectIndexForPacketLenEqual
<1> HIDE DEF S
<1>3. i \in S
  BY <1>1, <1>2, FirstIndexFacts
<1> QED BY <1>3 DEF S, PoolInv, RingPerEntry

-----------------------------------------------------------------------------
(* PacketPool: the steps.                                                   *)

\* n packets of one length go from a ring to another pool's ring of it.
LEMMA MoveHolds ==
  ASSUME PoolInv, NEW p \in Pools, NEW q \in Pools, p # q,
         NEW i \in DOMAIN rings[p], NEW j \in DOMAIN rings[q],
         descs[p][i].len = descs[q][j].len,
         NEW n \in 1 .. Len(rings[p][i].items), rings[q][j].size > 0,
         Move(p, i, q, j, n), UNCHANGED <<phase, given, descs, held, made>>
  PROVE  PoolInv'
<1> DEFINE own == descs[p][i].len
           moved == SubSeq(rings[p][i].items, 1, n)
           a == WithoutFirst(rings[p][i], n)
           b == WithItems(rings[q][j], moved)
<1>1. /\ rings \in [Pools -> Seq(Rings)] /\ rings[p][i] \in Rings /\ rings[q][j] \in Rings
      /\ AreAll(rings[p][i].items, own) /\ AreAll(rings[q][j].items, own)
  BY ElementOfSeq DEF PoolInv, PoolType, OfItsLength
<1>2. PICK items \in Seq(PacketLens), m \in Nat :
        items = rings[p][i].items /\ m = Len(items) /\ DOMAIN items = 1 .. m /\ n <= m
  BY <1>1 DEF Rings
<1>3. moved \in Seq(PacketLens) /\ Len(moved) = n /\ AreAll(moved, own)
  <2>1. moved = [k \in 1 .. n |-> items[k]]
    BY <1>2
  <2>2. [k \in 1 .. n |-> items[k]] \in [1 .. n -> PacketLens]
    BY <1>2, ElementOfSeq
  <2>3. PICK f \in [1 .. n -> PacketLens] : f = [k \in 1 .. n |-> items[k]]
    BY <2>2, Zenon
  <2>4. f \in Seq(PacketLens) /\ Len(f) = n /\ DOMAIN f = 1 .. n
    OBVIOUS
  <2>5. \A k \in 1 .. n : f[k] = own
    <3> HIDE DEF own
    <3>1. \A k \in 1 .. n : k \in 1 .. m
      BY <1>2
    <3>2. \A k \in 1 .. m : items[k] = own
      BY <1>1, <1>2 DEF AreAll
    <3> QED BY <2>3, <3>1, <3>2
  <2> QED BY <2>1, <2>3, <2>4, <2>5 DEF AreAll
<1> HIDE DEF moved
<1>4. a \in Rings /\ Len(a.items) = m - n /\ AreAll(a.items, own)
  BY <1>1, <1>2, FirstTaken
<1>5. b \in Rings /\ Len(b.items) = Len(rings[q][j].items) + n /\ AreAll(b.items, own)
  BY <1>1, <1>3, ItemsAdded
<1>6. PICK r, s : r = [rings EXCEPT ![p][i] = a] /\ s = rings' /\ s = [r EXCEPT ![q][j] = b]
  <2> DEFINE u == [rings EXCEPT ![p][i] = a]
  <2>1. u[q][j] = rings[q][j]
    BY <1>1
  <2>2. rings' = [u EXCEPT ![q][j] = b]
    BY <2>1 DEF Move, moved
  <2> HIDE DEF a, b
  <2> QED BY <2>2
<1> HIDE DEF a, b
<1>7. /\ r \in [Pools -> Seq(Rings)] /\ DOMAIN r[p] = DOMAIN rings[p] /\ r[p][i] = a
      /\ \A k \in DOMAIN rings[p] : k # i => r[p][k] = rings[p][k]
      /\ \A o \in Pools : o # p => r[o] = rings[o]
  BY <1>1, <1>4, <1>6, RingReplaced
<1>15. r = [rings EXCEPT ![p][i] = a]
  BY <1>6
<1>16. s = [r EXCEPT ![q][j] = b]
  BY <1>6
<1>14. j \in DOMAIN r[q] /\ p # q
  BY <1>7
<1>8. /\ s \in [Pools -> Seq(Rings)] /\ DOMAIN s[q] = DOMAIN r[q] /\ s[q][j] = b
      /\ \A k \in DOMAIN r[q] : k # j => s[q][k] = r[q][k]
      /\ \A o \in Pools : o # q => s[o] = r[o]
  BY <1>5, <1>7, <1>14, <1>16, RingReplaced
<1>13. ASSUME NEW o \in Pools
       PROVE  /\ DOMAIN s[o] = DOMAIN rings[o]
              /\ \A k \in DOMAIN rings[o] : \/ s[o][k] = rings[o][k]
                                            \/ o = p /\ k = i /\ s[o][k] = a
                                            \/ o = q /\ k = j /\ s[o][k] = b
  <2>1. CASE o = p
    <3>1. s[o] = r[o]
      BY <1>8, <1>14, <2>1
    <3> QED BY <1>7, <2>1, <3>1
  <2>2. CASE o = q
    <3>1. r[o] = rings[o]
      BY <1>7, <1>14, <2>2
    <3> QED BY <1>8, <2>2, <3>1
  <2>3. CASE o # p /\ o # q
    BY <1>7, <1>8, <2>3
  <2> QED BY <2>1, <2>2, <2>3
<1>9. PoolType' /\ LongEnough'
  BY <1>6, <1>8 DEF PoolInv, PoolType, LongEnough
<1>10. RingPerEntry'
  <2> SUFFICES ASSUME NEW o \in Pools
               PROVE  /\ phase[o] = "new" => rings'[o] = <<>>
                      /\ phase[o] = "ready" => DOMAIN rings'[o] = DOMAIN descs[o]
    BY DEF RingPerEntry
  <2>1. phase[p] # "new" /\ phase[q] # "new"
    BY DEF PoolInv, RingPerEntry
  <2>2. o # p /\ o # q => s[o] = rings[o]
    BY <1>7, <1>8
  <2> QED BY <1>6, <1>13, <2>1, <2>2 DEF PoolInv, RingPerEntry
<1>11. OfItsLength'
  <2> SUFFICES ASSUME NEW o \in Pools, NEW k \in DOMAIN rings'[o]
               PROVE  AreAll(rings'[o][k].items, descs[o][k].len)
    BY DEF OfItsLength
  <2>1. k \in DOMAIN rings[o]
    BY <1>6, <1>13
  <2>2. CASE s[o][k] = rings[o][k]
    BY <1>6, <2>1, <2>2 DEF PoolInv, OfItsLength
  <2>3. CASE o = p /\ k = i /\ s[o][k] = a
    BY <1>4, <1>6, <2>3
  <2>4. CASE o = q /\ k = j /\ s[o][k] = b
    BY <1>5, <1>6, <2>4
  <2> QED BY <1>13, <2>1, <2>2, <2>3, <2>4
<1>12. NoneLostNorDoubled'
  <2> SUFFICES ASSUME NEW len \in PacketLens
               PROVE  made'[len] = Cardinality(InPools(len)') + Cardinality(InHands(len)')
    BY DEF NoneLostNorDoubled
  <2>1. /\ Balance(CountIn(rings, len), CountAt(rings[p][i], len), CountAt(a, len), CountIn(r, len))
        /\ CountIn(rings, len) \in Nat /\ CountIn(r, len) \in Nat
    BY <1>1, <1>4, <1>7, RingCounted
  <2>2. Balance(CountIn(r, len), CountAt(rings[q][j], len), CountAt(b, len), CountIn(s, len))
    <3>1. r[q][j] = rings[q][j]
      BY <1>7
    <3>2. Balance(CountIn(r, len), CountAt(r[q][j], len), CountAt(b, len), CountIn(s, len))
      BY <1>5, <1>7, <1>8, <1>14, RingCounted
    <3> QED BY <3>1, <3>2
  <2>3. PICK m2 \in Nat : m2 = Len(rings[q][j].items)
    BY <1>1 DEF Rings
  <2> HIDE DEF own
  <2>4. /\ CountAt(rings[p][i], len) = IF len = own THEN m ELSE 0
        /\ CountAt(a, len) = IF len = own THEN m - n ELSE 0
        /\ CountAt(rings[q][j], len) = IF len = own THEN m2 ELSE 0
        /\ CountAt(b, len) = IF len = own THEN m2 + n ELSE 0
    BY <1>1, <1>2, <1>4, <1>5, <2>3, CountInRing
  <2>5. n \in Nat
    BY <1>2
  <2>6. CountIn(s, len) = CountIn(rings, len)
    BY <2>1, <2>2, <2>3, <2>4, <2>5 DEF Balance
  <2>7. Cardinality(InPools(len)') = Cardinality(InPools(len))
    BY <1>6, <2>6, PoolsCounted, PoolsCountedNext DEF PoolInv
  <2>8. InHands(len)' = InHands(len)
    BY DEF InHands
  <2> QED BY <2>7, <2>8 DEF PoolInv, NoneLostNorDoubled
<1> QED BY <1>9, <1>10, <1>11, <1>12 DEF PoolInv

LEMMA FirstPieceFits ==
  ASSUME NEW ring \in Rings
  PROVE  FirstPiece(ring) \in Int /\ FirstPiece(ring) <= Len(ring.items)
<1>1. PICK m \in Nat, size \in Nat, read \in Nat :
        m = Len(ring.items) /\ size = ring.size /\ read = ring.read
  BY DEF Rings
<1>2. PICK left \in Int : left = size - read
  OBVIOUS
<1>3. Min({m, left}) \in {m, left} /\ Min({m, left}) <= m
  <2>1. m \in Int
    OBVIOUS
  <2> QED BY <2>1, MinOfTwo
<1> QED BY <1>1, <1>2, <1>3 DEF FirstPiece

LEMMA RequestHolds ==
  ASSUME PoolInv, NEW p \in Pools, NEW q \in Pools, NEW len, NEW count \in 1 .. MaxCount,
         Request(p, q, len, count)
  PROVE  PoolInv'
<1>1. PICK i \in SelectIndexForPacketLenEqual(p, len), j \in SelectIndexForPacketLenEqual(q, len) :
        LET n == Min({count, FirstPiece(rings[p][i])})
        IN  n > 0 /\ CanAdd(rings[q][j], n) /\ Move(p, i, q, j, n)
  BY DEF Request
<1>2. /\ i \in DOMAIN rings[p] /\ descs[p][i].len = len
      /\ j \in DOMAIN rings[q] /\ descs[q][j].len = len
  BY SelectedEntry DEF Request
<1>3. rings[p][i] \in Rings
  BY <1>2, ElementOfSeq DEF PoolInv, PoolType
<1>4. PICK m \in Nat : m = Len(rings[p][i].items)
  BY <1>3 DEF Rings
<1>5. PICK n \in 1 .. m : n = Min({count, FirstPiece(rings[p][i])})
  <2>1. count \in Int
    BY PacketPoolAssumption
  <2>2. PICK f \in Int : f = FirstPiece(rings[p][i]) /\ f <= m
    BY <1>3, <1>4, FirstPieceFits
  <2>3. Min({count, f}) \in {count, f} /\ Min({count, f}) <= f
    BY <2>1, MinOfTwo
  <2>4. Min({count, f}) \in Int /\ Min({count, f}) > 0
    BY <1>1, <2>1, <2>2, <2>3
  <2> QED BY <2>2, <2>3, <2>4
<1>6. rings[q][j].size > 0
  BY <1>1, <1>5 DEF CanAdd
<1> QED BY <1>1, <1>2, <1>4, <1>5, <1>6, MoveHolds DEF Request

LEMMA CommitHolds ==
  ASSUME PoolInv, NEW p \in Pools, NEW q \in Pools, NEW len, CommitToAnother(p, q, len)
  PROVE  PoolInv'
<1>1. PICK i \in SelectIndexForPacketLenEqual(p, len), j \in SelectIndexForPacketLenEqual(q, len) :
        LET first == FirstPiece(rings[p][i])
            all   == Len(rings[p][i].items)
        IN  /\ first > 0 /\ CanAdd(rings[q][j], first)
            /\ Move(p, i, q, j, IF CanAdd(rings[q][j], all) THEN all ELSE first)
  BY DEF CommitToAnother
<1>2. /\ i \in DOMAIN rings[p] /\ descs[p][i].len = len
      /\ j \in DOMAIN rings[q] /\ descs[q][j].len = len
  BY SelectedEntry DEF CommitToAnother
<1>3. rings[p][i] \in Rings
  BY <1>2, ElementOfSeq DEF PoolInv, PoolType
<1>4. PICK m \in Nat : m = Len(rings[p][i].items)
  BY <1>3 DEF Rings
<1>5. PICK first \in 1 .. m : first = FirstPiece(rings[p][i])
  <2>1. FirstPiece(rings[p][i]) \in Int /\ FirstPiece(rings[p][i]) <= m
    BY <1>3, <1>4, FirstPieceFits
  <2> QED BY <1>1, <2>1
<1>6. PICK n \in 1 .. m : Move(p, i, q, j, n)
  BY <1>1, <1>4, <1>5
<1>7. rings[q][j].size > 0
  BY <1>1 DEF CanAdd
<1> QED BY <1>2, <1>4, <1>6, <1>7, MoveHolds DEF CommitToAnother

\* One ring of one pool is replaced by a ring with packets of the same length.
LEMMA RingHolds ==
  ASSUME PoolInv, NEW p \in Pools, phase[p] = "ready", NEW i \in DOMAIN rings[p],
         NEW ring \in Rings, AreAll(ring.items, descs[p][i].len),
         rings' = [rings EXCEPT ![p][i] = ring],
         held' \in [PacketLens -> [PacketLens -> Nat]], UNCHANGED <<phase, given, descs, made>>
  PROVE  /\ PoolType' /\ RingPerEntry' /\ OfItsLength'
         /\ \A len : Balance(CountIn(rings, len), CountAt(rings[p][i], len),
                             CountAt(ring, len), CountIn(rings', len))
<1>1. rings \in [Pools -> Seq(Rings)]
  BY DEF PoolInv, PoolType
<1>2. PICK s : s = [rings EXCEPT ![p][i] = ring] /\ s = rings'
  OBVIOUS
<1>3. /\ s \in [Pools -> Seq(Rings)] /\ DOMAIN s[p] = DOMAIN rings[p] /\ s[p][i] = ring
      /\ \A j \in DOMAIN rings[p] : j # i => s[p][j] = rings[p][j]
      /\ \A q \in Pools : q # p => s[q] = rings[q]
  BY <1>1, <1>2, RingReplaced
<1>4. PoolType'
  BY <1>2, <1>3 DEF PoolInv, PoolType
<1>5. RingPerEntry'
  <2> SUFFICES ASSUME NEW o \in Pools
               PROVE  /\ phase[o] = "new" => s[o] = <<>>
                      /\ phase[o] = "ready" => DOMAIN s[o] = DOMAIN descs[o]
    BY <1>2 DEF RingPerEntry
  <2> QED BY <1>3 DEF PoolInv, RingPerEntry
<1>6. OfItsLength'
  <2> SUFFICES ASSUME NEW o \in Pools, NEW k \in DOMAIN s[o]
               PROVE  AreAll(s[o][k].items, descs[o][k].len)
    BY <1>2 DEF OfItsLength
  <2>1. CASE o = p /\ k = i
    BY <1>3, <2>1
  <2>2. CASE ~(o = p /\ k = i)
    <3>1. k \in DOMAIN rings[o] /\ s[o][k] = rings[o][k]
      BY <1>3, <2>2
    <3> QED BY <3>1 DEF PoolInv, OfItsLength
  <2> QED BY <2>1, <2>2
<1>7. \A len : Balance(CountIn(rings, len), CountAt(rings[p][i], len),
                       CountAt(ring, len), CountIn(s, len))
  BY <1>1, <1>3, RingCounted
<1> QED BY <1>2, <1>4, <1>5, <1>6, <1>7

LEMMA RequestOnePacketHolds ==
  ASSUME PoolInv, NEW p \in Pools, NEW asked \in PacketLens, RequestOnePacket(p, asked)
  PROVE  PoolInv'
<1>1. PICK i \in SelectIndexForPacketLen(p, asked) :
        /\ rings[p][i].items # <<>>
        /\ held' = [held EXCEPT ![asked][Head(rings[p][i].items)] = @ + 1]
        /\ rings' = [rings EXCEPT ![p][i] = WithoutFirst(@, 1)]
  BY DEF RequestOnePacket
<1>2. phase[p] = "ready" /\ UNCHANGED <<phase, given, descs, made>>
  BY DEF RequestOnePacket
<1>3. i \in DOMAIN rings[p] /\ i \in DOMAIN descs[p] /\ asked <= descs[p][i].len
  <2> DEFINE S == {j \in DOMAIN descs[p] : asked <= Largest(p) /\ asked <= descs[p][j].len}
  <2>1. S \in SUBSET Nat
    BY DEF PoolInv, PoolType
  <2>2. i \in FirstIndex(S)
    BY DEF SelectIndexForPacketLen
  <2> HIDE DEF S
  <2>3. i \in S
    BY <2>1, <2>2, FirstIndexFacts
  <2> QED BY <1>2, <2>3 DEF S, PoolInv, RingPerEntry
<1>4. PICK ring \in Rings, own \in PacketLens :
        ring = rings[p][i] /\ own = descs[p][i].len /\ AreAll(ring.items, own)
  <2>1. rings[p][i] \in Rings /\ descs[p][i] \in Entry
    BY <1>3, ElementOfSeq DEF PoolInv, PoolType
  <2> QED BY <1>3, <2>1 DEF Entry, PoolInv, OfItsLength
<1>5. PICK m \in Nat : m = Len(ring.items) /\ m > 0 /\ Head(ring.items) = own
  <2>1. PICK items \in Seq(PacketLens) : items = ring.items /\ items # <<>>
    BY <1>1, <1>4 DEF Rings
  <2>2. 1 \in DOMAIN items /\ Head(items) = items[1] /\ Len(items) \in Nat /\ Len(items) > 0
    BY <2>1
  <2> QED BY <1>4, <2>1, <2>2 DEF AreAll
<1>6. PICK rest \in Rings : rest = WithoutFirst(ring, 1) /\ Len(rest.items) = m - 1
                            /\ AreAll(rest.items, own)
  <2>1. 1 \in 1 .. Len(ring.items)
    BY <1>5
  <2> QED BY <1>4, <1>5, <2>1, FirstTaken
<1>7. rings' = [rings EXCEPT ![p][i] = rest]
  BY <1>1, <1>4, <1>6
<1>8. PICK h \in Nat, c \in Nat :
        h = held[asked][own] /\ c = h + 1 /\ held' = [held EXCEPT ![asked][own] = c]
  <2>1. PICK h \in Nat : h = held[asked][own]
    BY DEF PoolInv, PoolType
  <2>2. PICK c \in Nat : c = h + 1
    BY <1>2, <2>1
  <2>3. held' = [held EXCEPT ![asked][own] = c]
    BY <1>1, <1>4, <1>5, <2>1, <2>2
  <2> QED BY <2>1, <2>2, <2>3
<1>9. held' \in [PacketLens -> [PacketLens -> Nat]]
  BY <1>8 DEF PoolInv, PoolType
<1>10. /\ PoolType' /\ RingPerEntry' /\ OfItsLength'
       /\ \A len : Balance(CountIn(rings, len), CountAt(ring, len), CountAt(rest, len),
                           CountIn(rings', len))
  BY <1>2, <1>3, <1>4, <1>6, <1>7, <1>9, RingHolds
<1>11. NoneLostNorDoubled'
  <2> SUFFICES ASSUME NEW len \in PacketLens
               PROVE  made'[len] = Cardinality(InPools(len)') + Cardinality(InHands(len)')
    BY DEF NoneLostNorDoubled
  <2>8. PICK now : now = Cardinality(InHands(len)')
    OBVIOUS
  <2>9. PICK after : after = CountIn(rings', len)
    OBVIOUS
  <2>1. PICK hands \in Nat :
          /\ hands = Cardinality(InHands(len))
          /\ Balance(hands, held[asked][len], held'[asked][len], now)
    BY <1>8, <2>8, HandsCounted DEF PoolInv
  <2>2. /\ CountAt(ring, len) = IF len = own THEN m ELSE 0
        /\ CountAt(rest, len) = IF len = own THEN m - 1 ELSE 0
    <3>1. CountAt(ring, len) = IF len = own THEN Len(ring.items) ELSE 0
      BY <1>4, CountInRing
    <3>2. CountAt(rest, len) = IF len = own THEN Len(rest.items) ELSE 0
      BY <1>6, CountInRing
    <3> QED BY <1>5, <1>6, <3>1, <3>2
  <2>3. PICK before \in Nat : /\ before = CountIn(rings, len)
                              /\ after = before - CountAt(ring, len) + CountAt(rest, len)
    BY <1>10, <2>9, PoolsCounted DEF Balance, PoolInv
  <2>4. /\ Cardinality(InPools(len)) = before /\ Cardinality(InPools(len)') = after
    BY <2>3, <2>9, PoolsCounted, PoolsCountedNext DEF PoolInv
  <2>5. made'[len] = before + hands
    BY <1>2, <2>1, <2>4 DEF PoolInv, NoneLostNorDoubled
  <2>6. CASE len = own
    <3>1. held[asked][len] = h /\ held'[asked][len] = c
      BY <1>8, <2>6 DEF PoolInv, PoolType
    <3>2. now = hands - h + c
      BY <2>1, <3>1 DEF Balance
    <3>3. after = before - 1
      BY <1>5, <2>2, <2>3, <2>6
    <3> QED BY <1>8, <2>1, <2>4, <2>5, <2>8, <3>2, <3>3
  <2>7. CASE len # own
    <3>1. held[asked][len] \in Nat /\ held'[asked][len] = held[asked][len]
      BY <1>8, <2>7 DEF PoolInv, PoolType
    <3>2. now = hands
      BY <2>1, <3>1 DEF Balance
    <3>3. after = before
      BY <2>2, <2>3, <2>7
    <3> QED BY <2>1, <2>4, <2>5, <2>8, <3>2, <3>3
  <2> QED BY <2>6, <2>7
<1>12. LongEnough'
  <2> SUFFICES ASSUME NEW a \in PacketLens, NEW len \in PacketLens, held'[a][len] > 0
               PROVE  a <= len
    BY DEF LongEnough
  <2>1. CASE a = asked /\ len = own
    BY <1>3, <1>4, <2>1
  <2>2. CASE ~(a = asked /\ len = own)
    <3>1. held'[a][len] = held[a][len]
      BY <1>8, <2>2 DEF PoolInv, PoolType
    <3> QED BY <3>1 DEF PoolInv, LongEnough
  <2> QED BY <2>1, <2>2
<1> QED BY <1>10, <1>11, <1>12 DEF PoolInv

LEMMA FreeOneItemHolds ==
  ASSUME PoolInv, NEW p \in Pools, NEW asked \in PacketLens, NEW own \in PacketLens,
         FreeOneItemToPool(p, asked, own)
  PROVE  PoolInv'
<1>1. PICK i \in SelectIndexForPacketLenEqual(p, own) :
        /\ CanAdd(rings[p][i], 1)
        /\ rings' = [rings EXCEPT ![p][i] = WithItems(@, <<own>>)]
  BY DEF FreeOneItemToPool
<1>2. /\ phase[p] = "ready" /\ held[asked][own] > 0 /\ UNCHANGED <<phase, given, descs, made>>
      /\ held' = [held EXCEPT ![asked][own] = @ - 1]
  BY DEF FreeOneItemToPool
<1>3. i \in DOMAIN rings[p] /\ i \in DOMAIN descs[p] /\ descs[p][i].len = own
  BY <1>2, SelectedEntry
<1>4. PICK ring \in Rings : ring = rings[p][i] /\ AreAll(ring.items, own) /\ ring.size > 0
  BY <1>1, <1>3, ElementOfSeq DEF PoolInv, PoolType, OfItsLength, CanAdd
<1>5. PICK m \in Nat : m = Len(ring.items)
  BY DEF Rings
<1>6. PICK more \in Rings : more = WithItems(ring, <<own>>) /\ Len(more.items) = m + 1
                            /\ AreAll(more.items, own)
  <2>1. <<own>> \in Seq(PacketLens) /\ Len(<<own>>) = 1 /\ AreAll(<<own>>, own)
    BY DEF AreAll
  <2> QED BY <1>4, <1>5, <2>1, ItemsAdded
<1>7. rings' = [rings EXCEPT ![p][i] = more]
  BY <1>1, <1>4, <1>6
<1>8. PICK h \in Nat, c \in Nat :
        h = held[asked][own] /\ c = h - 1 /\ held' = [held EXCEPT ![asked][own] = c]
  <2>1. PICK h \in Nat : h = held[asked][own]
    BY DEF PoolInv, PoolType
  <2>2. PICK c \in Nat : c = h - 1
    BY <1>2, <2>1
  <2>3. held' = [held EXCEPT ![asked][own] = c]
    BY <1>2, <2>1, <2>2
  <2> QED BY <2>1, <2>2, <2>3
<1>9. held' \in [PacketLens -> [PacketLens -> Nat]]
  BY <1>8 DEF PoolInv, PoolType
<1>10. /\ PoolType' /\ RingPerEntry' /\ OfItsLength'
       /\ \A len : Balance(CountIn(rings, len), CountAt(ring, len), CountAt(more, len),
                           CountIn(rings', len))
  BY <1>2, <1>3, <1>4, <1>6, <1>7, <1>9, RingHolds
<1>11. NoneLostNorDoubled'
  <2> SUFFICES ASSUME NEW len \in PacketLens
               PROVE  made'[len] = Cardinality(InPools(len)') + Cardinality(InHands(len)')
    BY DEF NoneLostNorDoubled
  <2>8. PICK now : now = Cardinality(InHands(len)')
    OBVIOUS
  <2>9. PICK after : after = CountIn(rings', len)
    OBVIOUS
  <2>1. PICK hands \in Nat :
          /\ hands = Cardinality(InHands(len))
          /\ Balance(hands, held[asked][len], held'[asked][len], now)
    BY <1>8, <2>8, HandsCounted DEF PoolInv
  <2>2. /\ CountAt(ring, len) = IF len = own THEN m ELSE 0
        /\ CountAt(more, len) = IF len = own THEN m + 1 ELSE 0
    <3>1. CountAt(ring, len) = IF len = own THEN Len(ring.items) ELSE 0
      BY <1>4, CountInRing
    <3>2. CountAt(more, len) = IF len = own THEN Len(more.items) ELSE 0
      BY <1>6, CountInRing
    <3> QED BY <1>5, <1>6, <3>1, <3>2
  <2>3. PICK before \in Nat : /\ before = CountIn(rings, len)
                              /\ after = before - CountAt(ring, len) + CountAt(more, len)
    BY <1>10, <2>9, PoolsCounted DEF Balance, PoolInv
  <2>4. /\ Cardinality(InPools(len)) = before /\ Cardinality(InPools(len)') = after
    BY <2>3, <2>9, PoolsCounted, PoolsCountedNext DEF PoolInv
  <2>5. made'[len] = before + hands
    BY <1>2, <2>1, <2>4 DEF PoolInv, NoneLostNorDoubled
  <2>6. CASE len = own
    <3>1. held[asked][len] = h /\ held'[asked][len] = c
      BY <1>8, <2>6 DEF PoolInv, PoolType
    <3>2. now = hands - h + c
      BY <2>1, <3>1 DEF Balance
    <3>3. after = before + 1
      BY <1>5, <2>2, <2>3, <2>6
    <3> QED BY <1>8, <2>1, <2>4, <2>5, <2>8, <3>2, <3>3
  <2>7. CASE len # own
    <3>1. held[asked][len] \in Nat /\ held'[asked][len] = held[asked][len]
      BY <1>8, <2>7 DEF PoolInv, PoolType
    <3>2. now = hands
      BY <2>1, <3>1 DEF Balance
    <3>3. after = before
      BY <2>2, <2>3, <2>7
    <3> QED BY <2>1, <2>4, <2>5, <2>8, <3>2, <3>3
  <2> QED BY <2>6, <2>7
<1>12. LongEnough'
  <2> SUFFICES ASSUME NEW a \in PacketLens, NEW len \in PacketLens, held'[a][len] > 0
               PROVE  a <= len
    BY DEF LongEnough
  <2>1. held'[a][len] = held[a][len] \/ (a = asked /\ len = own)
    BY <1>8 DEF PoolInv, PoolType
  <2> QED BY <1>2, <2>1 DEF PoolInv, LongEnough
<1> QED BY <1>10, <1>11, <1>12 DEF PoolInv

\* The sort keeps the number of the entries, and each is one of the list.
LEMMA OrderedType ==
  ASSUME NEW T, NEW list \in Seq(T), \A entry \in T : entry.len \in Nat
  PROVE  Ordered(list) \in Seq(T) /\ Len(Ordered(list)) = Len(list)
<1>1. PICK n \in Nat : n = Len(list) /\ DOMAIN list = 1 .. n
  OBVIOUS
<1> DEFINE From(i) == {list[j] : j \in i .. n}
           Shortest(i) == CHOOSE entry \in From(i) : \A j \in i .. n : entry.len <= list[j].len
<1>2. ASSUME NEW i \in 1 .. n PROVE Shortest(i) \in T
  <2>1. \A j \in i .. n : j \in 1 .. n
    OBVIOUS
  <2>2. \A j \in i .. n : list[j] \in T
    BY <1>1, <2>1, ElementOfSeq
  <2>3. PICK lens \in SUBSET Nat : lens = {list[j].len : j \in i .. n}
    BY <2>2
  <2>4. i \in i .. n
    OBVIOUS
  <2>5. lens # {}
    BY <2>3, <2>4
  <2>6. PICK least \in lens : \A len \in lens : least <= len
    BY <2>5, LeastNumber
  <2>7. PICK k \in i .. n : list[k].len = least
    BY <2>3, <2>6
  <2>8. \A j \in i .. n : list[k].len <= list[j].len
    BY <2>3, <2>6, <2>7
  <2>9. list[k] \in From(i)
    OBVIOUS
  <2>10. Shortest(i) \in From(i)
    <3> HIDE DEF From
    <3> QED BY <2>8, <2>9
  <2> QED BY <2>2, <2>10
<1> HIDE DEF Shortest
<1>3. PICK f : f = [i \in 1 .. n |-> Shortest(i)]
  OBVIOUS
<1>4. f \in [1 .. n -> T]
  BY <1>2, <1>3
<1>5. f \in Seq(T) /\ Len(f) = n
  BY <1>4
<1>6. Ordered(list) = f
  BY <1>1, <1>3 DEF Ordered, Shortest
<1> QED BY <1>1, <1>5, <1>6

LEMMA FilledFacts ==
  ASSUME NEW desc \in Entry, desc.max # 0
  PROVE  Filled(desc) \in Rings /\ AreAll(Filled(desc).items, desc.len)
<1>1. PICK own \in PacketLens, init \in Nat, max \in Nat :
        own = desc.len /\ init = desc.init /\ max = desc.max /\ max # 0
  BY DEF Entry
<1>2. PICK n \in Nat : n = Min({init, max - 1})
  <2>1. PICK last \in Nat : last = max - 1
    BY <1>1
  <2>2. init \in Int /\ last \in Int
    OBVIOUS
  <2>3. Min({init, last}) \in {init, last}
    BY <2>2, MinOfTwo
  <2> QED BY <2>1, <2>3
<1>3. PICK items \in [1 .. n -> PacketLens] : items = [k \in 1 .. n |-> own]
  <2>1. [k \in 1 .. n |-> own] \in [1 .. n -> PacketLens]
    OBVIOUS
  <2> QED BY <2>1, Zenon
<1>4. items \in Seq(PacketLens) /\ DOMAIN items = 1 .. n
  OBVIOUS
<1>5. Filled(desc) = [size |-> max, read |-> 0, items |-> items]
  BY <1>1, <1>2, <1>3 DEF Filled
<1>6. AreAll(items, own)
  BY <1>3 DEF AreAll
<1> QED BY <1>1, <1>4, <1>5, <1>6 DEF Rings

LEMMA NoRingFacts ==
  ASSUME NEW own
  PROVE  NoRing \in Rings /\ AreAll(NoRing.items, own)
<1>1. PICK none \in Seq(PacketLens) : none = <<>> /\ DOMAIN none = {}
  <2>1. <<>> \in Seq(PacketLens) /\ DOMAIN <<>> = {}
    BY EmptySeq
  <2> QED BY <2>1, Zenon
<1>2. NoRing = [size |-> 0, read |-> 0, items |-> none]
  BY <1>1 DEF NoRing
<1>3. AreAll(none, own)
  BY <1>1 DEF AreAll
<1> QED BY <1>1, <1>2, <1>3 DEF Rings

LEMMA NoneInNoRings ==
  ASSUME NEW len PROVE CountOf(len, <<>>) = 0
<1>1. DOMAIN <<>> = {}
  BY EmptySeq
<1>2. PlacesIn(<<>>, len) = {}
  BY <1>1 DEF PlacesIn, DisjointUnion
<1> QED BY <1>2, FS_EmptySet DEF CountOf

\* The rings of a pool are replaced by others and the packets alive with them.
LEMMA PoolHolds ==
  ASSUME PoolInv, NEW p \in Pools, NEW new \in Seq(Rings), NEW entries \in Seq(Entry),
         NEW ending \in {"ready", "failed", "released"},
         ending = "ready" => DOMAIN new = DOMAIN entries,
         \A i \in DOMAIN new : AreAll(new[i].items, entries[i].len),
         rings' = [rings EXCEPT ![p] = new], descs' = [descs EXCEPT ![p] = entries],
         phase' = [phase EXCEPT ![p] = ending], UNCHANGED held,
         made' = [len \in PacketLens |-> made[len] - CountOf(len, rings[p]) + CountOf(len, new)]
  PROVE  PoolInv'
<1>1. /\ rings \in [Pools -> Seq(Rings)] /\ rings[p] \in Seq(Rings)
      /\ \A len \in PacketLens : made[len] \in Int
      /\ \A len : CountOf(len, rings[p]) \in Nat /\ CountOf(len, new) \in Nat
  BY PlacesAreFinite DEF PoolInv, PoolType, CountOf
<1>2. PoolType'
  <2>1. made' \in [PacketLens -> Int]
    BY <1>1
  <2> QED BY <2>1 DEF PoolInv, PoolType
<1>3. RingPerEntry'
  <2> SUFFICES ASSUME NEW o \in Pools
               PROVE  /\ phase'[o] = "new" => rings'[o] = <<>>
                      /\ phase'[o] = "ready" => DOMAIN rings'[o] = DOMAIN descs'[o]
    BY DEF RingPerEntry
  <2>1. CASE o = p
    BY <2>1 DEF PoolInv, PoolType
  <2>2. CASE o # p
    BY <2>2 DEF PoolInv, PoolType, RingPerEntry
  <2> QED BY <2>1, <2>2
<1>4. OfItsLength'
  <2> SUFFICES ASSUME NEW o \in Pools, NEW k \in DOMAIN rings'[o]
               PROVE  AreAll(rings'[o][k].items, descs'[o][k].len)
    BY DEF OfItsLength
  <2>1. CASE o = p
    <3>1. rings'[o] = new /\ descs'[o] = entries
      BY <2>1 DEF PoolInv, PoolType
    <3> QED BY <3>1
  <2>2. CASE o # p
    <3>1. rings'[o] = rings[o] /\ descs'[o] = descs[o]
      BY <2>2 DEF PoolInv, PoolType
    <3> QED BY <3>1 DEF PoolInv, OfItsLength
  <2> QED BY <2>1, <2>2
<1>5. NoneLostNorDoubled'
  <2> SUFFICES ASSUME NEW len \in PacketLens
               PROVE  made'[len] = Cardinality(InPools(len)') + Cardinality(InHands(len)')
    BY DEF NoneLostNorDoubled
  <2>9. PICK after : after = CountIn(rings', len)
    OBVIOUS
  <2>1. PICK before \in Nat :
          /\ before = CountIn(rings, len)
          /\ Balance(before, CountOf(len, rings[p]), CountOf(len, new), after)
    BY <1>1, <2>9, PoolReplaced, PoolsCounted DEF PoolInv
  <2>2. Cardinality(InPools(len)) = before /\ Cardinality(InPools(len)') = after
    BY <2>1, <2>9, PoolsCounted, PoolsCountedNext DEF PoolInv
  <2>3. InHands(len)' = InHands(len)
    BY DEF InHands
  <2>4. PICK hands \in Nat : hands = Cardinality(InHands(len))
    <3>1. PICK h \in Nat : h = held[len][len]
      BY DEF PoolInv, PoolType
    <3> DEFINE f == [a \in PacketLens |-> 1 .. held[a][len]]
    <3>2. IsFiniteSet(DOMAIN f) /\ \A a \in DOMAIN f : IsFiniteSet(f[a])
      <4>1. \A a \in PacketLens : held[a][len] \in Nat
        BY DEF PoolInv, PoolType
      <4> QED BY <4>1, CountedTo, PacketPoolAssumption
    <3> HIDE DEF f
    <3>3. Cardinality(DisjointUnion(f)) \in Nat
      BY <3>2, UnionIsFinite
    <3> QED BY <3>3 DEF InHands, f
  <2>5. made[len] = before + hands
    BY <2>2, <2>4 DEF PoolInv, NoneLostNorDoubled
  <2>6. PICK taken \in Nat, come \in Nat : taken = CountOf(len, rings[p]) /\ come = CountOf(len, new)
    BY <1>1
  <2>7. made'[len] = made[len] - taken + come /\ after = before - taken + come
    BY <2>1, <2>6 DEF Balance
  <2>8. Cardinality(InHands(len)') = hands
    BY <2>3, <2>4
  <2> QED BY <2>2, <2>5, <2>7, <2>8
<1>6. LongEnough'
  BY DEF PoolInv, LongEnough
<1> QED BY <1>2, <1>3, <1>4, <1>5, <1>6 DEF PoolInv

LEMMA InitializeHolds ==
  ASSUME PoolInv, NEW p \in Pools, Initialize(p) PROVE PoolInv'
<1>1. PICK list \in Descs :
       /\ given' = [given EXCEPT ![p] = list]
       /\ IF ~Acceptable(list)
            THEN /\ phase' = [phase EXCEPT ![p] = "failed"]
                 /\ UNCHANGED <<descs, rings, made>>
            ELSE LET sorted == Ordered(list)
                     bad    == Overfull(sorted)
                     last   == IF bad = {} THEN Len(sorted) ELSE Min(bad)
                     built  == [i \in DOMAIN sorted |->
                                 IF i <= last THEN Filled(sorted[i]) ELSE NoRing]
                 IN  /\ phase' = [phase EXCEPT ![p] = IF bad = {} THEN "ready" ELSE "failed"]
                     /\ descs' = [descs EXCEPT ![p] = sorted]
                     /\ rings' = [rings EXCEPT ![p] = built]
                     /\ made' = [len \in PacketLens |-> made[len] + CountOf(len, built)]
  BY DEF Initialize
<1>2. phase[p] = "new" /\ rings[p] = <<>> /\ UNCHANGED held
  BY DEF Initialize, PoolInv, RingPerEntry
<1>3. CASE ~Acceptable(list)
  <2>1. phase' = [phase EXCEPT ![p] = "failed"] /\ UNCHANGED <<descs, rings, made, held>>
    BY <1>1, <1>2, <1>3
  <2>2. PoolType' /\ RingPerEntry'
    BY <2>1 DEF PoolInv, PoolType, RingPerEntry
  <2>3. OfItsLength' /\ LongEnough'
    BY <2>1 DEF PoolInv, OfItsLength, LongEnough
  <2>4. NoneLostNorDoubled'
    BY <2>1 DEF PoolInv, NoneLostNorDoubled, InPools, InHands
  <2> QED BY <2>2, <2>3, <2>4 DEF PoolInv
<1>4. CASE Acceptable(list)
  <2> DEFINE Good == {entry \in Entry : entry.max # 0}
  <2>1. list \in Seq(Good)
    <3>1. list \in Seq([len : PacketLens \cup {0}, init : Nat, max : Nat])
      BY PacketPoolAssumption
    <3>2. PICK n \in Nat : n = Len(list) /\ DOMAIN list = 1 .. n
      BY <3>1
    <3>3. \A i \in 1 .. n : list[i] \in Good
      <4> SUFFICES ASSUME NEW i \in 1 .. n PROVE list[i] \in Good
        OBVIOUS
      <4>1. list[i] \in [len : PacketLens \cup {0}, init : Nat, max : Nat]
        BY <3>1, <3>2, ElementOfSeq
      <4>2. list[i].len # 0 /\ list[i].max # 0
        BY <1>4, <3>2 DEF Acceptable
      <4> QED BY <4>1, <4>2 DEF Entry
    <3> HIDE DEF Good
    <3>4. list = [i \in 1 .. n |-> list[i]]
      BY <3>1, <3>2
    <3>5. list \in [1 .. n -> Good]
      BY <3>3, <3>4
    <3> QED BY <3>5
  <2>2. PICK sorted \in Seq(Good), n \in Nat :
          sorted = Ordered(list) /\ n = Len(sorted) /\ DOMAIN sorted = 1 .. n
    <3>1. \A entry \in Good : entry.len \in Nat
      BY PacketPoolAssumption DEF Entry
    <3> HIDE DEF Good
    <3>2. Ordered(list) \in Seq(Good)
      BY <2>1, <3>1, OrderedType
    <3> QED BY <3>2
  <2>3. \A i \in 1 .. n : sorted[i] \in Entry /\ sorted[i].max # 0
    <3>1. \A i \in 1 .. n : sorted[i] \in Good
      <4> HIDE DEF Good
      <4> QED BY <2>2, ElementOfSeq
    <3> QED BY <3>1
  <2>4. PICK last : last = IF Overfull(sorted) = {} THEN Len(sorted) ELSE Min(Overfull(sorted))
    OBVIOUS
  <2>5. PICK ending \in {"ready", "failed", "released"} :
          ending = IF Overfull(sorted) = {} THEN "ready" ELSE "failed"
    OBVIOUS
  <2> DEFINE new == [i \in 1 .. n |-> IF i <= last THEN Filled(sorted[i]) ELSE NoRing]
  <2>6. /\ phase' = [phase EXCEPT ![p] = ending] /\ descs' = [descs EXCEPT ![p] = sorted]
        /\ rings' = [rings EXCEPT ![p] = new]
        /\ made' = [len \in PacketLens |-> made[len] + CountOf(len, new)]
    BY <1>1, <1>4, <2>2, <2>4, <2>5
  <2>7. \A i \in 1 .. n : new[i] \in Rings /\ AreAll(new[i].items, sorted[i].len)
    BY <2>3, FilledFacts, NoRingFacts
  <2>8. new \in [1 .. n -> Rings]
    BY <2>7
  <2> HIDE DEF new
  <2>9. new \in Seq(Rings) /\ DOMAIN new = 1 .. n
    BY <2>8
  <2>10. sorted \in Seq(Entry)
    <3>1. Good \subseteq Entry
      OBVIOUS
    <3> HIDE DEF Good
    <3> QED BY <2>2, <3>1, SeqMonotonic
  <2>11. made' = [len \in PacketLens |-> made[len] - CountOf(len, rings[p]) + CountOf(len, new)]
    <3>1. ASSUME NEW len \in PacketLens
          PROVE  made[len] + CountOf(len, new) = made[len] - CountOf(len, rings[p]) + CountOf(len, new)
      <4>1. CountOf(len, rings[p]) = 0
        BY <1>2, NoneInNoRings
      <4>2. made[len] \in Int
        BY DEF PoolInv, PoolType
      <4>3. made[len] - 0 = made[len]
        BY <4>2
      <4> QED BY <4>1, <4>3
    <3> QED BY <2>6, <3>1
  <2> QED BY <1>2, <2>2, <2>6, <2>7, <2>9, <2>10, <2>11, PoolHolds
<1> QED BY <1>3, <1>4

LEMMA ReleaseHolds ==
  ASSUME PoolInv, NEW p \in Pools, ReleasePacketPoolManagerResource(p) PROVE PoolInv'
<1>1. PICK new \in Seq(Rings) : new = <<>> /\ DOMAIN new = {}
  <2>1. <<>> \in Seq(Rings) /\ DOMAIN <<>> = {}
    BY EmptySeq
  <2> QED BY <2>1, Zenon
<1>2. PICK entries \in Seq(Entry) : entries = descs[p]
  BY DEF PoolInv, PoolType
<1>3. descs' = [descs EXCEPT ![p] = entries]
  BY <1>2 DEF ReleasePacketPoolManagerResource, PoolInv, PoolType
<1>4. made' = [len \in PacketLens |-> made[len] - CountOf(len, rings[p]) + CountOf(len, new)]
  <2>1. ASSUME NEW len \in PacketLens
        PROVE  made[len] - CountOf(len, rings[p]) = made[len] - CountOf(len, rings[p]) + CountOf(len, new)
    <3>1. CountOf(len, new) = 0
      BY <1>1, NoneInNoRings
    <3>2. made[len] \in Int /\ CountOf(len, rings[p]) \in Nat
      BY PlacesAreFinite DEF PoolInv, PoolType, CountOf
    <3>3. made[len] - CountOf(len, rings[p]) \in Int
      BY <3>2
    <3> QED BY <3>1, <3>3
  <2> QED BY <2>1 DEF ReleasePacketPoolManagerResource
<1>5. /\ rings' = [rings EXCEPT ![p] = new] /\ phase' = [phase EXCEPT ![p] = "released"]
      /\ UNCHANGED held
  BY <1>1 DEF ReleasePacketPoolManagerResource
<1>6. \A i \in DOMAIN new : AreAll(new[i].items, entries[i].len)
  BY <1>1
<1> QED BY <1>3, <1>4, <1>5, <1>6, PoolHolds

LEMMA PoolInitHolds ==
  ASSUME PoolInit PROVE PoolInv
<1>1. <<>> \in Seq(Entry) /\ <<>> \in Seq(Rings) /\ DOMAIN <<>> = {}
  BY EmptySeq
<1>2. PoolType
  BY <1>1 DEF PoolInit, PoolType
<1>3. RingPerEntry
  BY <1>1 DEF PoolInit, RingPerEntry
<1>4. OfItsLength /\ LongEnough
  BY <1>1 DEF PoolInit, OfItsLength, LongEnough
<1>5. NoneLostNorDoubled
  <2> SUFFICES ASSUME NEW len \in PacketLens
               PROVE  made[len] = Cardinality(InPools(len)) + Cardinality(InHands(len))
    BY DEF NoneLostNorDoubled
  <2>1. InPools(len) = {}
    <3>1. \A p \in Pools : PlacesIn(rings[p], len) = {}
      BY <1>1 DEF PoolInit, PlacesIn, DisjointUnion
    <3> QED BY <3>1 DEF InPools, DisjointUnion
  <2>2. InHands(len) = {}
    <3>1. \A a \in PacketLens : 1 .. held[a][len] = {}
      BY DEF PoolInit
    <3> QED BY <3>1 DEF InHands, DisjointUnion
  <2>3. made[len] = 0
    BY DEF PoolInit
  <2> QED BY <2>1, <2>2, <2>3, FS_EmptySet
<1> QED BY <1>2, <1>3, <1>4, <1>5 DEF PoolInv

\* In every reachable state of the pools the rings, the callers and the packets
\* alive agree as PoolInv says.
THEOREM PoolInvariant == PoolSpec => []PoolInv
<1>1. PoolInit => PoolInv
  BY PoolInitHolds
<1>2. PoolInv /\ [PoolNext]_poolVars => PoolInv'
  <2> SUFFICES ASSUME PoolInv, [PoolNext]_poolVars PROVE PoolInv'
    OBVIOUS
  <2>1. CASE UNCHANGED poolVars
    <3>1. UNCHANGED <<phase, descs, rings, held, made>>
      BY <2>1 DEF poolVars
    <3>2. PoolType' /\ RingPerEntry' /\ OfItsLength' /\ LongEnough'
      BY <3>1 DEF PoolInv, PoolType, RingPerEntry, OfItsLength, LongEnough
    <3>3. NoneLostNorDoubled'
      BY <3>1 DEF PoolInv, NoneLostNorDoubled, InPools, InHands
    <3> QED BY <3>2, <3>3 DEF PoolInv
  <2>2. CASE PoolNext
    <3>1. PICK p \in Pools :
            \/ Initialize(p)
            \/ ReleasePacketPoolManagerResource(p)
            \/ \E asked \in PacketLens : RequestOnePacket(p, asked)
            \/ \E asked, len \in PacketLens : FreeOneItemToPool(p, asked, len)
            \/ \E q \in Pools, len \in PacketLens :
                 \/ \E count \in 1 .. MaxCount : Request(p, q, len, count)
                 \/ CommitToAnother(p, q, len)
      BY <2>2 DEF PoolNext
    <3>2. CASE Initialize(p)
      BY <3>2, InitializeHolds
    <3>3. CASE ReleasePacketPoolManagerResource(p)
      BY <3>3, ReleaseHolds
    <3>4. CASE \E asked \in PacketLens : RequestOnePacket(p, asked)
      BY <3>4, RequestOnePacketHolds
    <3>5. CASE \E asked, len \in PacketLens : FreeOneItemToPool(p, asked, len)
      BY <3>5, FreeOneItemHolds
    <3>6. CASE \E q \in Pools, len \in PacketLens :
                 \/ \E count \in 1 .. MaxCount : Request(p, q, len, count)
                 \/ CommitToAnother(p, q, len)
      BY <3>6, RequestHolds, CommitHolds
    <3> QED BY <3>1, <3>2, <3>3, <3>4, <3>5, <3>6
  <2> QED BY <2>1, <2>2
<1> QED BY <1>1, <1>2, PTL DEF PoolSpec

\* For any number of pools, lengths and entries: no packet is lost or doubled,
\* a ring holds only packets of its own length, and a caller has a packet at
\* least as long as it asked for.
THEOREM PacketsAreKept == PoolSpec => []PacketsKeepTheirPlace
<1>1. PoolInv => PacketsKeepTheirPlace
  BY DEF PoolInv, PacketsKeepTheirPlace, OfItsLength, AreAll, NoneLostNorDoubled, LongEnough
<1> QED BY <1>1, PoolInvariant, PTL

-----------------------------------------------------------------------------
(* MySqlStatement: ascending numbers.                                       *)

\* Every finite set of numbers can be listed in ascending order: an element
\* stands behind those below it.
LEMMA Ascends ==
  ASSUME NEW S \in SUBSET Nat, IsFiniteSet(S)
  PROVE  \E s \in SetToSeqs(S) : \A i, j \in DOMAIN s : i < j => s[i] < s[j]
<1> DEFINE Below(x) == {y \in S : y < x}
<1>1. PICK n \in Nat : n = Cardinality(S)
  BY FS_CardinalityType
<1>2. ASSUME NEW x \in S
      PROVE  /\ IsFiniteSet(Below(x)) /\ Cardinality(Below(x)) \in Nat
             /\ IsFiniteSet(Below(x) \cup {x})
             /\ Cardinality(Below(x) \cup {x}) = Cardinality(Below(x)) + 1
  <2>1. Below(x) \in SUBSET S /\ x \notin Below(x)
    OBVIOUS
  <2>2. IsFiniteSet(Below(x))
    BY <2>1, FS_Subset
  <2> HIDE DEF Below
  <2> QED BY <2>1, <2>2, FS_AddElement, FS_CardinalityType
<1>3. ASSUME NEW x \in S PROVE Cardinality(Below(x)) + 1 \in 1 .. n
  <2>1. Below(x) \cup {x} \in SUBSET S
    OBVIOUS
  <2>2. Cardinality(Below(x) \cup {x}) <= n
    BY <1>1, <2>1, FS_Subset
  <2> HIDE DEF Below
  <2> QED BY <1>2, <2>2
<1>4. ASSUME NEW x \in S, NEW y \in S, x < y
      PROVE  Cardinality(Below(x)) + 1 < Cardinality(Below(y)) + 1
  <2>1. ASSUME NEW z \in Below(x) \cup {x} PROVE z \in Below(y)
    <3>1. z \in S /\ z \in Nat /\ x \in Nat /\ y \in Nat /\ (z < x \/ z = x)
      OBVIOUS
    <3>2. z < y
      BY <1>4, <3>1
    <3> QED BY <3>1, <3>2
  <2>2. Below(x) \cup {x} \in SUBSET Below(y)
    BY <2>1
  <2> HIDE DEF Below
  <2>3. /\ IsFiniteSet(Below(y)) /\ Cardinality(Below(y)) \in Nat
        /\ Cardinality(Below(x)) \in Nat
        /\ Cardinality(Below(x) \cup {x}) = Cardinality(Below(x)) + 1
    BY <1>2
  <2>4. Cardinality(Below(x) \cup {x}) <= Cardinality(Below(y))
    BY <2>2, <2>3, FS_Subset
  <2> QED BY <2>3, <2>4
<1> DEFINE r == [x \in S |-> Cardinality(Below(x)) + 1]
<1>5. r \in [S -> 1 .. n] /\ \A x, y \in S : x < y => r[x] < r[y]
  <2> HIDE DEF Below
  <2> QED BY <1>3, <1>4
<1> HIDE DEF r
<1>6. \A x, y \in S : r[x] = r[y] => x = y
  <2> SUFFICES ASSUME NEW x \in S, NEW y \in S, x # y PROVE r[x] # r[y]
    OBVIOUS
  <2>1. x < y \/ y < x
    OBVIOUS
  <2>2. r[x] \in Nat /\ r[y] \in Nat
    BY <1>5
  <2> QED BY <1>5, <2>1, <2>2
<1>7. r \in Surjection(S, 1 .. n)
  <2>1. r \in Injection(S, 1 .. n)
    BY <1>5, <1>6 DEF Injection, IsInjective
  <2> QED BY <1>1, <2>1, CountedTo, FS_Injection
<1> DEFINE s == [i \in 1 .. n |-> CHOOSE x \in S : r[x] = i]
<1>8. \A i \in 1 .. n : s[i] \in S /\ r[s[i]] = i
  BY <1>7 DEF Surjection
<1>9. s \in [1 .. n -> S] /\ DOMAIN s = 1 .. n
  BY <1>8
<1> HIDE DEF s
<1>10. \A i, j \in 1 .. n : i < j => s[i] < s[j]
  <2> SUFFICES ASSUME NEW i \in 1 .. n, NEW j \in 1 .. n, i < j PROVE s[i] < s[j]
    OBVIOUS
  <2>1. PICK x \in S, y \in S : x = s[i] /\ y = s[j] /\ r[x] = i /\ r[y] = j
    BY <1>8
  <2>2. x < y \/ y < x \/ x = y
    OBVIOUS
  <2>3. ~(y < x) /\ x # y
    <3>1. y < x => j < i
      BY <1>5, <2>1
    <3> QED BY <2>1, <3>1
  <2> QED BY <2>1, <2>2, <2>3
<1>11. \A i, j \in 1 .. n : i # j => s[i] # s[j]
  BY <1>8
<1>12. s \in SetToSeqs(S)
  BY <1>1, <1>9, <1>11 DEF SetToSeqs
<1> QED BY <1>9, <1>10, <1>12

LEMMA InOrderFacts ==
  ASSUME NEW S \in SUBSET Nat, IsFiniteSet(S)
  PROVE  /\ InOrder(S) \in Seq(S) /\ Len(InOrder(S)) = Cardinality(S)
         /\ Cardinality(S) \in Nat
         /\ DOMAIN InOrder(S) = 1 .. Cardinality(S)
         /\ \A i, j \in 1 .. Cardinality(S) : i < j => InOrder(S)[i] < InOrder(S)[j]
<1>1. PICK n \in Nat : n = Cardinality(S)
  BY FS_CardinalityType
<1>2. PICK s : s = InOrder(S)
  OBVIOUS
<1>3. s \in SetToSeqs(S) /\ \A i, j \in DOMAIN s : i < j => s[i] < s[j]
  BY <1>2, Ascends DEF InOrder
<1>4. s \in [1 .. n -> S]
  BY <1>1, <1>3 DEF SetToSeqs
<1>5. s \in Seq(S) /\ Len(s) = n /\ DOMAIN s = 1 .. n
  BY <1>4
<1> QED BY <1>1, <1>2, <1>3, <1>5

\* What is picked from a list is a list of some of its items.
LEMMA PickedFacts ==
  ASSUME NEW T, NEW list \in Seq(T), NEW P \in SUBSET (1 .. Len(list))
  PROVE  /\ PickedFrom(list, P) \in Seq(T)
         /\ IsFiniteSet(P) /\ Len(PickedFrom(list, P)) = Cardinality(P)
         /\ DOMAIN PickedFrom(list, P) = DOMAIN InOrder(P)
         /\ \A k \in DOMAIN InOrder(P) : /\ InOrder(P)[k] \in P
                                         /\ PickedFrom(list, P)[k] = list[InOrder(P)[k]]
<1>1. PICK m \in Nat : m = Len(list)
  OBVIOUS
<1>2. IsFiniteSet(P) /\ P \in SUBSET Nat
  <2>1. IsFiniteSet(1 .. m)
    BY CountedTo
  <2>2. P \in SUBSET (1 .. m)
    BY <1>1
  <2>3. IsFiniteSet(P)
    BY <2>1, <2>2, FS_Subset
  <2> QED BY <2>2, <2>3
<1>3. PICK at \in Seq(P), n \in Nat : at = InOrder(P) /\ n = Len(at) /\ n = Cardinality(P)
                                      /\ DOMAIN at = 1 .. n
  BY <1>2, InOrderFacts
<1>4. \A k \in 1 .. n : at[k] \in P /\ list[at[k]] \in T
  <2>1. \A k \in 1 .. n : at[k] \in P
    BY <1>3
  <2>2. \A x \in P : list[x] \in T
    OBVIOUS
  <2> QED BY <2>1, <2>2
<1>5. PickedFrom(list, P) = [k \in 1 .. n |-> list[at[k]]]
  BY <1>3 DEF PickedFrom
<1>6. PickedFrom(list, P) \in Seq(T) /\ Len(PickedFrom(list, P)) = n
      /\ DOMAIN PickedFrom(list, P) = 1 .. n
  <2>1. PICK f \in [1 .. n -> T] : f = PickedFrom(list, P)
    BY <1>4, <1>5
  <2> QED BY <2>1
<1> QED BY <1>2, <1>3, <1>4, <1>5, <1>6

\* The numbers up to n in ascending order are just these numbers.
LEMMA AllInOrder ==
  ASSUME NEW n \in Nat, NEW i \in 1 .. n
  PROVE  InOrder(1 .. n)[i] = i
<1>1. PICK s \in Seq(1 .. n) : s = InOrder(1 .. n) /\ DOMAIN s = 1 .. n /\ Len(s) = n
                               /\ \A j, k \in 1 .. n : j < k => s[j] < s[k]
  <2>1. IsFiniteSet(1 .. n) /\ Cardinality(1 .. n) = n /\ 1 .. n \in SUBSET Nat
    BY CountedTo
  <2> QED BY <2>1, InOrderFacts
<1>2. \A k \in 1 .. n : s[k] \in 1 .. n
  BY <1>1
<1>3. \A k \in 1 .. n : s[k] >= k
  <2> DEFINE T == {k \in 1 .. n : s[k] < k}
  <2>1. T \in SUBSET Nat
    OBVIOUS
  <2>2. ASSUME T # {} PROVE FALSE
    <3>1. PICK k \in T : \A j \in T : k <= j
      BY <2>1, <2>2, LeastNumber
    <3>2. k \in 1 .. n /\ s[k] < k /\ s[k] \in 1 .. n
      BY <1>2, <3>1
    <3>3. k - 1 \in 1 .. n /\ k - 1 < k
      BY <3>2
    <3>4. s[k - 1] < s[k] /\ s[k - 1] \in 1 .. n
      BY <1>1, <1>2, <3>2, <3>3
    <3>5. k - 1 \in T
      BY <3>2, <3>3, <3>4
    <3> QED BY <3>1, <3>2, <3>5
  <2>3. ASSUME NEW k \in 1 .. n PROVE s[k] >= k
    <3>1. k \notin T
      BY <2>2
    <3> QED BY <1>2, <3>1
  <2> QED BY <2>3
<1>4. \A k \in 1 .. n : s[k] <= k
  <2> DEFINE T == {d \in Nat : d < n /\ s[n - d] > n - d}
  <2>1. T \in SUBSET Nat
    OBVIOUS
  <2>2. ASSUME T # {} PROVE FALSE
    <3>1. PICK d \in T : \A j \in T : d <= j
      BY <2>1, <2>2, LeastNumber
    <3>2. PICK k \in 1 .. n : k = n - d /\ s[k] > k /\ s[k] \in 1 .. n /\ d \in Nat
      BY <1>2, <3>1
    <3>3. k + 1 \in 1 .. n /\ k < k + 1 /\ d - 1 \in Nat /\ d - 1 < n /\ n - (d - 1) = k + 1
      BY <3>2
    <3>4. s[k] < s[k + 1] /\ s[k + 1] \in 1 .. n
      BY <1>1, <1>2, <3>2, <3>3
    <3>5. s[k + 1] > k + 1
      BY <3>2, <3>4
    <3>6. d - 1 \in T
      BY <3>3, <3>5
    <3>7. d <= d - 1
      BY <3>1, <3>6
    <3> QED BY <3>2, <3>7
  <2>3. ASSUME NEW k \in 1 .. n PROVE s[k] <= k
    <3>1. PICK d \in Nat : d = n - k /\ d < n /\ n - d = k
      OBVIOUS
    <3>2. d \notin T
      BY <2>2
    <3> QED BY <1>2, <3>1, <3>2
  <2> QED BY <2>3
<1>5. s[i] = i
  <2>1. s[i] \in Nat /\ s[i] >= i /\ s[i] <= i
    BY <1>2, <1>3, <1>4
  <2> QED BY <2>1
<1> QED BY <1>1, <1>5

-----------------------------------------------------------------------------
(* MySqlStatement: the invariant.                                           *)

\* The types of the fields of a procedure's results, and of a variable.
FieldTypes == STRING \cup {"VAR"}
Result  == [fields : Seq(FieldTypes), rows : Int]
Param   == [type : ParamTypes, kind : {"in", "out", "inout"}]
Buffers == {ColBuffer[type] : type \in DOMAIN ColBuffer}
Handle  == [state : {"idle", "executed", "stored"}, fields : Seq(FieldTypes), rows : Int,
            more : Seq(Result), bound : Seq(Buffers)]
OutKinds == {"out", "inout"}

BindingType ==
  /\ params \in Seq(Param) /\ inout \in Seq(Nat)
  /\ selectText \in [vars : Seq(Nat), comma : BOOLEAN]
  /\ userVars \in [1 .. MaxBind -> Nat]

RowType == cols \in Seq(Buffers) /\ db \in Handle

\* The fields of a result go into the first columns, and have their types.
Fills(fields, bound) ==
  IsPrefix(bound, cols) /\ fields = [k \in DOMAIN bound |-> bound[k][1]]

\* With m_bBindCol set, the current result is bound to the columns.
BoundFills ==
  bindCol /\ ~direct /\ db.state # "idle" /\ db.fields # <<>> => Fills(db.fields, db.bound)

\* From InitBindParam on nothing is bound until the call; after it, a variable
\* of the server for every OUT and INOUT parameter has what the call left.
CallKept ==
  /\ since = "none" => bindParam = <<>> /\ inout = <<>>
  /\ since = "once" =>
       /\ sent.buffers = ParamBuffers(InTypes(sent.params))
       /\ inout = PlacesOf(sent.params, OutKinds)
       /\ Len(selectText.vars) = Len(inout)
       /\ \A n \in 1 .. Len(inout) : userVars[n] = inout[n]

StatementInv ==
  BindingType /\ RowType /\ BoundFills /\ CallKept /\ RowsFillTheColumns /\ OutputsOfTheCall

LEMMA PlacesFacts ==
  ASSUME NEW list \in Seq(Param), NEW kinds
  PROVE  PlacesOf(list, kinds) \in Seq(Nat)
<1> DEFINE S == {p \in DOMAIN list : list[p].kind \in kinds}
<1>1. PICK m \in Nat : m = Len(list) /\ DOMAIN list = 1 .. m
  OBVIOUS
<1>2. S \in SUBSET (1 .. m) /\ S \in SUBSET Nat
  BY <1>1
<1>3. IsFiniteSet(S)
  BY <1>2, CountedTo, FS_Subset
<1> HIDE DEF S
<1>4. InOrder(S) \in Seq(S)
  BY <1>2, <1>3, InOrderFacts
<1>5. InOrder(S) \in Seq(Nat)
  BY <1>2, <1>4, SeqMonotonic
<1> QED BY <1>5 DEF PlacesOf, S

\* Nothing in front of a list changes it.
LEMMA EmptyInFront ==
  ASSUME NEW n \in Nat, NEW f, f = [k \in 1 .. n |-> f[k]]
  PROVE  <<>> \o f = f
<1> DEFINE T == {f[k] : k \in 1 .. n}
<1>1. f \in [1 .. n -> T]
  OBVIOUS
<1> HIDE DEF T
<1>2. f \in Seq(T)
  BY <1>1
<1>3. PICK s \in Seq(T) : s = f
  BY <1>2
<1>4. <<>> \o s = s
  OBVIOUS
<1> QED BY <1>3, <1>4

LEMMA BuffersInFront ==
  ASSUME NEW types, NEW n \in Nat, DOMAIN types = 1 .. n
  PROVE  <<>> \o ParamBuffers(types) = ParamBuffers(types)
<1> DEFINE Buffer == Numbers @@ WideNumbers @@ Texts
           S == {k \in DOMAIN types : types[k] \in DOMAIN Buffer}
<1>1. S \in SUBSET (1 .. n) /\ S \in SUBSET Nat
  OBVIOUS
<1>2. IsFiniteSet(S)
  BY <1>1, CountedTo, FS_Subset
<1> HIDE DEF S
<1>3. PICK m \in Nat : DOMAIN InOrder(S) = 1 .. m
  BY <1>1, <1>2, InOrderFacts
<1>4. DOMAIN PickedFrom(types, S) = 1 .. m
  BY <1>3 DEF PickedFrom
<1>5. ParamBuffers(types) = [k \in 1 .. m |-> Buffer[PickedFrom(types, S)[k]]]
  BY <1>4 DEF ParamBuffers, S
<1> HIDE DEF Buffer
<1>6. PICK f : f = ParamBuffers(types) /\ f = [k \in 1 .. m |-> f[k]]
  BY <1>5
<1> QED BY <1>6, EmptyInFront

\* The types a call sends are those of its IN parameters.
LEMMA InTypesDomain ==
  ASSUME NEW list \in Seq(Param)
  PROVE  \E n \in Nat : DOMAIN InTypes(list) = 1 .. n
<1>1. PlacesOf(list, {"in"}) \in Seq(Nat)
  BY PlacesFacts
<1>2. PICK n \in Nat : DOMAIN PlacesOf(list, {"in"}) = 1 .. n
  BY <1>1
<1> QED BY <1>2 DEF InTypes

LEMMA HandleUpdates ==
  ASSUME NEW d \in Handle
  PROVE  /\ RowTaken(d) \in Handle
         /\ RowTaken(d).fields = d.fields /\ RowTaken(d).bound = d.bound
         /\ RowTaken(d).state = d.state
         /\ [d EXCEPT !.state = "idle"] \in Handle
         /\ [d EXCEPT !.state = "idle"].state = "idle"
         /\ [d EXCEPT !.state = "idle", !.fields = <<>>, !.bound = NotBound] \in Handle
         /\ [d EXCEPT !.state = "idle", !.fields = <<>>, !.bound = NotBound].state = "idle"
<1>1. /\ d.state \in {"idle", "executed", "stored"} /\ d.fields \in Seq(FieldTypes)
      /\ d.rows \in Int /\ d.more \in Seq(Result) /\ d.bound \in Seq(Buffers)
  BY DEF Handle
<1>2. d = [state |-> d.state, fields |-> d.fields, rows |-> d.rows, more |-> d.more,
           bound |-> d.bound]
  BY DEF Handle
<1>3. RowTaken(d) = [state |-> d.state, fields |-> d.fields, rows |-> d.rows - 1,
                     more |-> d.more, bound |-> d.bound]
  BY <1>2 DEF RowTaken
<1>4. [d EXCEPT !.state = "idle"] =
        [state |-> "idle", fields |-> d.fields, rows |-> d.rows, more |-> d.more,
         bound |-> d.bound]
  BY <1>2
<1>5. PICK f \in Seq(FieldTypes), b \in Seq(Buffers) : f = <<>> /\ b = NotBound
  <2>1. <<>> \in Seq(FieldTypes) /\ <<>> \in Seq(Buffers)
    BY EmptySeq
  <2>2. NotBound \in Seq(Buffers)
    BY <2>1 DEF NotBound
  <2> QED BY <2>1, <2>2, Zenon
<1>6. d.rows - 1 \in Int
  BY <1>1
<1>7. RowTaken(d) \in Handle
  BY <1>1, <1>3, <1>6 DEF Handle
<1>8. [d EXCEPT !.state = "idle"] \in Handle
  BY <1>1, <1>4 DEF Handle
<1>9. /\ [d EXCEPT !.state = "idle", !.fields = f, !.bound = b] \in Handle
      /\ [d EXCEPT !.state = "idle", !.fields = f, !.bound = b].state = "idle"
  BY DEF Handle
<1> QED BY <1>3, <1>4, <1>5, <1>7, <1>8, <1>9

LEMMA BindingKept ==
  ASSUME NEW d \in Handle, NEW buffers \in Seq(Buffers), Len(d.fields) <= Len(buffers)
  PROVE  /\ WithBound(d, buffers) \in Handle
         /\ WithBound(d, buffers).fields = d.fields /\ WithBound(d, buffers).state = d.state
         /\ WithBound(d, buffers).bound = SubSeq(buffers, 1, Len(d.fields))
<1>1. Len(d.fields) \in Nat
  BY DEF Handle
<1>2. PICK b \in Seq(Buffers) : b = SubSeq(buffers, 1, Len(d.fields))
  <2>1. SubSeq(buffers, 1, Len(d.fields)) \in Seq(Buffers)
    BY <1>1, SubSeqProperties
  <2> QED BY <2>1
<1> QED BY <1>2 DEF WithBound, Handle

LEMMA ExecutedFacts ==
  ASSUME NEW results \in Seq(Result), results # <<>>
  PROVE  /\ Executed(results) \in Handle /\ Executed(results).state = "executed"
         /\ Executed(results).fields = Head(results).fields
<1>1. Head(results) \in Result /\ Tail(results) \in Seq(Result)
  BY HeadTailProperties
<1>2. PICK h \in Result, t \in Seq(Result) : h = Head(results) /\ t = Tail(results)
  BY <1>1
<1>3. Executed(results) = [state |-> "executed", fields |-> h.fields, rows |-> h.rows,
                           more |-> t, bound |-> <<>>]
  BY <1>2 DEF Executed, NotBound
<1>4. h.fields \in Seq(FieldTypes) /\ h.rows \in Int
  BY DEF Result
<1> QED BY <1>2, <1>3, <1>4 DEF Handle

LEMMA CalledFacts ==
  ASSUME NEW list \in ResultLists
  PROVE  Called(list) \in Handle /\ (Len(list) = 1 => Executed(list) \in Handle)
<1>1. list \in Seq(Result)
  <2>1. list \in Seq([fields : Seq(STRING), rows : Nat])
    BY MySqlAssumption
  <2>2. [fields : Seq(STRING), rows : Nat] \subseteq Result
    <3>1. STRING \subseteq FieldTypes
      BY DEF FieldTypes
    <3>2. Seq(STRING) \subseteq Seq(FieldTypes)
      BY <3>1, SeqMonotonic
    <3> QED BY <3>2 DEF Result
  <2> QED BY <2>1, <2>2, SeqMonotonic
<1>2. [fields |-> <<>>, rows |-> 0] \in Result
  BY DEF Result
<1>3. PICK more \in Seq(Result) : more = Append(list, [fields |-> <<>>, rows |-> 0]) /\ more # <<>>
  <2>1. PICK r \in Result : r = [fields |-> <<>>, rows |-> 0]
    BY <1>2
  <2>2. Append(list, r) \in Seq(Result) /\ Append(list, r) # <<>>
    BY <1>1, AppendProperties
  <2> QED BY <2>1, <2>2
<1>4. Called(list) \in Handle
  BY <1>3, ExecutedFacts DEF Called
<1>5. Len(list) = 1 => list # <<>>
  <2>1. list = <<>> <=> Len(list) = 0
    BY <1>1, EmptySeq
  <2> QED BY <2>1
<1> QED BY <1>1, <1>4, <1>5, ExecutedFacts

\* FindResult: a result that is not freed matches the columns.
LEMMA FoundFacts ==
  ASSUME RowType
  PROVE  /\ FoundResult \in Handle
         /\ FoundResult.state # "idle" => Matches(FoundResult.fields)
<1>1. /\ db.fields \in Seq(FieldTypes) /\ db.more \in Seq(Result)
  BY DEF RowType, Handle
<1>2. PICK all \in Seq(Result) :
        all = <<[fields |-> db.fields, rows |-> db.rows]>> \o db.more /\ Len(all) >= 1
  <2>1. PICK first \in Result : first = [fields |-> db.fields, rows |-> db.rows]
    BY DEF RowType, Handle, Result
  <2>2. PICK more \in Seq(Result) : more = db.more
    BY <1>1
  <2>3. PICK one \in Seq(Result) : one = <<first>> /\ Len(one) = 1
    <3>1. <<first>> \in Seq(Result) /\ Len(<<first>>) = 1
      BY <2>1
    <3> QED BY <3>1, Zenon
  <2>4. one \o more \in Seq(Result) /\ Len(one \o more) = Len(one) + Len(more)
    BY ConcatProperties
  <2>5. PICK all \in Seq(Result) : all = one \o more /\ Len(all) >= 1
    <3>1. PICK m \in Nat : m = Len(more)
      OBVIOUS
    <3>2. Len(one \o more) = 1 + m
      BY <2>3, <2>4, <3>1
    <3>3. Len(one \o more) >= 1
      BY ONLY m \in Nat, <3>2
    <3> QED BY <2>4, <3>3, Zenon
  <2>6. all = <<[fields |-> db.fields, rows |-> db.rows]>> \o db.more
    BY <2>1, <2>2, <2>3, <2>5
  <2> QED BY <2>5, <2>6
<1> DEFINE hits == {k \in DOMAIN all : Matches(all[k].fields)}
           k == IF hits = {} THEN Len(all) ELSE Min(hits)
<1>3. k \in 1 .. Len(all) /\ (hits # {} => Matches(all[k].fields))
  <2>1. PICK n \in Nat : n = Len(all) /\ DOMAIN all = 1 .. n /\ n >= 1
    BY <1>2
  <2>2. ASSUME hits # {} PROVE Min(hits) \in hits
    <3>1. hits \in SUBSET Nat
      BY <2>1
    <3> HIDE DEF hits
    <3> QED BY <2>2, <3>1, LeastNumber DEF Min
  <2> QED BY <2>1, <2>2
<1>4. FoundResult =
        [state |-> IF hits = {} THEN "idle" ELSE "stored", fields |-> all[k].fields,
         rows |-> all[k].rows, more |-> SubSeq(all, k + 1, Len(all)), bound |-> NotBound]
  BY <1>2 DEF FoundResult
<1> HIDE DEF hits
<1>5. PICK n \in 1 .. Len(all) : n = k
  BY <1>3
<1>6. PICK rest \in Seq(Result) : rest = SubSeq(all, k + 1, Len(all))
  <2>1. PICK m \in Nat : m = Len(all)
    OBVIOUS
  <2>2. \A i \in n + 1 .. m : i \in 1 .. m
    BY <1>5, <2>1
  <2>3. SubSeq(all, n + 1, m) \in Seq(Result)
    BY <1>5, <2>1, <2>2, SubSeqProperties
  <2> QED BY <1>5, <2>1, <2>3
<1>7. PICK r \in Result : r = all[k]
  BY <1>5, ElementOfSeq
<1>8. FoundResult =
        [state |-> IF hits = {} THEN "idle" ELSE "stored", fields |-> r.fields,
         rows |-> r.rows, more |-> rest, bound |-> <<>>]
  BY <1>4, <1>6, <1>7 DEF NotBound
<1>9. FoundResult \in Handle
  <2>1. r.fields \in Seq(FieldTypes) /\ r.rows \in Int
    BY DEF Result
  <2> QED BY <1>8, <2>1 DEF Handle
<1>10. FoundResult.state # "idle" => hits # {}
  BY <1>8
<1>11. FoundResult.fields = all[k].fields
  BY <1>7, <1>8
<1> QED BY <1>3, <1>9, <1>10, <1>11

-----------------------------------------------------------------------------
(* MySqlStatement: the steps.                                               *)

\* What a call that brings nothing leaves to show.
LEMMA NothingBrought ==
  ASSUME brought' = Nothing, BindingType', RowType', BoundFills', CallKept'
  PROVE  StatementInv'
<1>1. brought'.call = "none"
  BY DEF Nothing
<1>2. brought'.call # "row" /\ brought'.call # "outputs"
  BY <1>1
<1>3. RowsFillTheColumns'
  BY <1>2 DEF RowsFillTheColumns
<1>4. OutputsOfTheCall'
  BY <1>2 DEF OutputsOfTheCall, CallKept
<1> QED BY <1>3, <1>4 DEF StatementInv

LEMMA SameRows ==
  ASSUME RowType, BoundFills, UNCHANGED <<cols, bindCol, db, direct>>
  PROVE  RowType' /\ BoundFills'
BY DEF RowType, BoundFills, Fills

LEMMA SameCall ==
  ASSUME BindingType, CallKept,
         UNCHANGED <<params, bindParam, inout, selectText, userVars, since, sent>>
  PROVE  BindingType' /\ CallKept'
BY DEF BindingType, CallKept

LEMMA IdleHandle == Idle \in Handle /\ Idle.state = "idle"
<1>1. <<>> \in Seq(FieldTypes) /\ <<>> \in Seq(Result) /\ <<>> \in Seq(Buffers)
  BY EmptySeq
<1> QED BY <1>1 DEF Idle, Handle, NotBound

LEMMA FreshBinding ==
  ASSUME params' = <<>>, bindParam' = <<>>, inout' = <<>>, selectText' = NoText,
         userVars' = NoValues, since' = "none"
  PROVE  BindingType' /\ CallKept'
<1>1. <<>> \in Seq(Param) /\ <<>> \in Seq(Nat)
  BY EmptySeq
<1>2. NoText \in [vars : Seq(Nat), comma : BOOLEAN]
  BY <1>1 DEF NoText
<1>3. NoValues \in [1 .. MaxBind -> Nat]
  BY DEF NoValues
<1>4. BindingType'
  BY <1>1, <1>2, <1>3 DEF BindingType
<1> QED BY <1>4 DEF CallKept

LEMMA EndedHolds ==
  ASSUME NEW how, Ended(how) PROVE StatementInv'
<1>1. /\ params' = <<>> /\ bindParam' = <<>> /\ inout' = <<>> /\ selectText' = NoText
      /\ cols' = <<>> /\ bindCol' = FALSE /\ db' = Idle /\ userVars' = NoValues
      /\ since' = "none" /\ brought' = Nothing
  BY DEF Ended
<1>2. RowType' /\ BoundFills'
  <2>1. <<>> \in Seq(Buffers)
    BY EmptySeq
  <2> QED BY <1>1, <2>1, IdleHandle DEF RowType, BoundFills
<1>3. BindingType' /\ CallKept'
  BY <1>1, FreshBinding
<1> QED BY <1>1, <1>2, <1>3, NothingBrought

LEMMA BindParamHolds ==
  ASSUME StatementInv,
         NEW type \in ParamTypes, NEW kind \in {"in", "out", "inout"}, BindParam(type, kind)
  PROVE  StatementInv'
<1>1. /\ params' = Append(params, [type |-> type, kind |-> kind]) /\ brought' = Nothing
      /\ UNCHANGED <<bindParam, inout, selectText, cols, bindCol, db, userVars, since,
                     sent, direct>>
  BY DEF BindParam
<1>2. params' \in Seq(Param)
  <2>1. PICK param \in Param : param = [type |-> type, kind |-> kind]
    BY DEF Param
  <2>2. Append(params, param) \in Seq(Param)
    BY AppendProperties DEF StatementInv, BindingType
  <2> QED BY <1>1, <2>1, <2>2
<1>3. BindingType' /\ CallKept'
  BY <1>1, <1>2 DEF StatementInv, BindingType, CallKept
<1>4. RowType' /\ BoundFills'
  BY <1>1, SameRows DEF StatementInv
<1> QED BY <1>1, <1>3, <1>4, NothingBrought

\* The select of the call lists a variable per OUT and INOUT parameter, and the
\* call leaves there what it leaves in the parameter.
LEMMA ExcuteSqlHolds ==
  ASSUME StatementInv, ExcuteSql PROVE StatementInv'
<1>1. CASE ~Asserted(Len(BoundNow))
  BY <1>1, EndedHolds DEF ExcuteSql
<1>2. CASE Asserted(Len(BoundNow))
  <2>1. /\ BindParamFinalize /\ UNCHANGED cols /\ brought' = Nothing
        /\ Len(inout) + Len(Outs) <= MaxBind
    BY <1>2 DEF ExcuteSql
  <2>2. PICK outs \in Seq(Nat), n \in Nat : outs = Outs /\ n = Len(outs)
                                            /\ DOMAIN outs = 1 .. n
    <3>1. Outs \in Seq(Nat)
      BY PlacesFacts DEF StatementInv, BindingType, Outs
    <3> QED BY <3>1
  <2>3. /\ bindParam' = BoundNow /\ inout' = inout \o outs /\ UNCHANGED params
        /\ selectText'.vars = [k \in 1 .. n |-> k] /\ Len(selectText'.vars) = n
        /\ selectText' \in [vars : Seq(Nat), comma : BOOLEAN]
    <3>1. PICK ascending \in Seq(Nat) : ascending = [k \in 1 .. n |-> k] /\ Len(ascending) = n
      <4>1. [k \in 1 .. n |-> k] \in Seq(Nat) /\ Len([k \in 1 .. n |-> k]) = n
        OBVIOUS
      <4> QED BY <4>1, Zenon
    <3>2. PICK comma \in BOOLEAN : comma = (Outs # <<>> /\ Last(Outs) # Len(params))
      OBVIOUS
    <3>3. selectText' = [vars |-> ascending, comma |-> comma]
      BY <2>1, <2>2, <3>1, <3>2 DEF BindParamFinalize
    <3> QED BY <2>1, <2>2, <3>1, <3>3 DEF BindParamFinalize
  <2>4. inout' \in Seq(Nat)
    BY <2>2, <2>3, ConcatProperties DEF StatementInv, BindingType
  <2>5. CASE /\ since' = "else" /\ userVars' \in {userVars} \cup (IF SetRuns THEN {VarsSet} ELSE {})
             /\ db' \in {db, Dropped} /\ (UNCHANGED <<bindCol, direct>> \/ bindCol' = FALSE)
    <3>1. userVars' \in [1 .. MaxBind -> Nat]
      <4>1. userVars \in [1 .. MaxBind -> Nat]
        BY DEF StatementInv, BindingType
      <4>2. VarsSet \in [1 .. MaxBind -> Nat]
        BY <4>1 DEF VarsSet
      <4> QED BY <2>5, <4>1, <4>2
    <3>2. BindingType' /\ CallKept'
      BY <2>1, <2>3, <2>4, <2>5, <3>1 DEF StatementInv, BindingType, CallKept
    <3>3. Dropped \in Handle /\ Dropped.state = "idle"
      BY HandleUpdates DEF StatementInv, RowType, Dropped
    <3>4. RowType'
      BY <2>1, <2>5, <3>3 DEF StatementInv, RowType
    <3>5. BoundFills'
      <4>1. CASE UNCHANGED <<db, bindCol, direct>>
        BY <2>1, <4>1, SameRows DEF StatementInv
      <4>2. CASE db' = Dropped \/ bindCol' = FALSE
        BY <3>3, <4>2 DEF BoundFills
      <4> QED BY <2>5, <4>1, <4>2
    <3> QED BY <2>1, <3>2, <3>4, <3>5, NothingBrought
  <2>6. CASE /\ bindCol' = FALSE
             /\ userVars' = [k \in 1 .. MaxBind |-> IF k <= Len(Outs) THEN Outs[k] ELSE 0]
             /\ \E list \in ResultLists : db' = Called(list)
             /\ since' = IF since = "none" THEN "once" ELSE "else"
             /\ sent' = IF since = "none" THEN [params |-> params, buffers |-> bindParam']
                        ELSE NotSent
    <3>1. userVars' = [k \in 1 .. MaxBind |-> IF k <= n THEN outs[k] ELSE 0]
      BY <2>2, <2>6
    <3>2. userVars' \in [1 .. MaxBind -> Nat]
      <4>1. \A k \in 1 .. MaxBind : (IF k <= n THEN outs[k] ELSE 0) \in Nat
        BY <2>2
      <4> QED BY <3>1, <4>1
    <3>3. BindingType'
      BY <2>3, <2>4, <3>2 DEF StatementInv, BindingType
    <3>4. CallKept'
      <4>1. SUFFICES ASSUME since = "none" PROVE CallKept'
        BY <2>6 DEF CallKept
      <4>2. bindParam = <<>> /\ inout = <<>>
        BY <4>1 DEF StatementInv, CallKept
      <4>3. inout' = outs
        BY <2>2, <2>3, <4>2
      <4>4. bindParam' = ParamBuffers(InTypes(params))
        <5>1. PICK m \in Nat : DOMAIN InTypes(params) = 1 .. m
          BY InTypesDomain DEF StatementInv, BindingType
        <5> QED BY <2>3, <4>2, <5>1, BuffersInFront DEF BoundNow
      <4>5. sent'.params = params /\ sent'.buffers = bindParam' /\ since' = "once"
        BY <2>6, <4>1
      <4>6. n <= MaxBind
        <5>1. Len(inout) = 0
          BY <4>2
        <5> QED BY <2>1, <2>2, <5>1
      <4>7. \A k \in 1 .. n : userVars'[k] = outs[k]
        BY <3>1, <4>6, MySqlAssumption
      <4>8. Outs = PlacesOf(sent'.params, OutKinds)
        BY <4>5 DEF Outs, OutKinds
      <4> QED BY <2>2, <2>3, <4>3, <4>4, <4>5, <4>7, <4>8 DEF CallKept
    <3>5. RowType' /\ BoundFills'
      BY <2>1, <2>6, CalledFacts DEF StatementInv, RowType, BoundFills
    <3> QED BY <2>1, <3>3, <3>4, <3>5, NothingBrought
  <2> QED BY <1>2, <2>5, <2>6 DEF ExcuteSql
<1> QED BY <1>1, <1>2

LEMMA ExcuteSqlDirectHolds ==
  ASSUME StatementInv, ExcuteSqlDirect PROVE StatementInv'
<1>1. /\ brought' = Nothing
      /\ UNCHANGED <<params, bindParam, inout, selectText, cols, bindCol, userVars, since, sent>>
  BY DEF ExcuteSqlDirect, binding
<1>2. BindingType' /\ CallKept'
  BY <1>1, SameCall DEF StatementInv
<1>3. CASE db' = Dropped /\ UNCHANGED direct
  <2>1. Dropped \in Handle /\ Dropped.state = "idle"
    BY HandleUpdates DEF StatementInv, RowType, Dropped
  <2>2. RowType' /\ BoundFills'
    BY <1>1, <1>3, <2>1 DEF StatementInv, RowType, BoundFills
  <2> QED BY <1>1, <1>2, <2>2, NothingBrought
<1>4. CASE direct' = bindCol
           /\ \E list \in ResultLists :
                db' \in {Called(list)} \cup (IF Len(list) = 1 THEN {Executed(list)} ELSE {})
  <2>1. db' \in Handle
    BY <1>4, CalledFacts
  <2>2. RowType' /\ BoundFills'
    BY <1>1, <1>4, <2>1 DEF StatementInv, RowType, BoundFills
  <2> QED BY <1>1, <1>2, <2>2, NothingBrought
<1> QED BY <1>3, <1>4 DEF ExcuteSqlDirect

\* A call that leaves the binding, the columns and the handle alone.
LEMMA NothingChanged ==
  ASSUME StatementInv, brought' = Nothing,
         UNCHANGED <<params, bindParam, inout, selectText, cols, bindCol, db, userVars,
                     since, sent, direct>>
  PROVE  StatementInv'
BY NothingBrought, SameRows, SameCall DEF StatementInv

LEMMA InitBindParamHolds ==
  ASSUME StatementInv, InitBindParam PROVE StatementInv'
<1>1. BindingType' /\ CallKept'
  BY FreshBinding DEF InitBindParam
<1>2. RowType' /\ BoundFills'
  BY SameRows DEF StatementInv, InitBindParam
<1> QED BY <1>1, <1>2, NothingBrought DEF InitBindParam

LEMMA InitBindColHolds ==
  ASSUME StatementInv, InitBindCol PROVE StatementInv'
<1>1. BindingType' /\ CallKept'
  BY SameCall DEF StatementInv, InitBindCol, binding
<1>2. <<>> \in Seq(Buffers)
  BY EmptySeq
<1>3. RowType' /\ BoundFills'
  BY <1>2 DEF StatementInv, InitBindCol, RowType, BoundFills
<1> QED BY <1>1, <1>3, NothingBrought DEF InitBindCol

\* What fills the columns still does when one more is bound.
LEMMA LongerPrefix ==
  ASSUME NEW T, NEW s \in Seq(T), NEW t \in Seq(T), NEW x \in T, IsPrefix(s, t)
  PROVE  IsPrefix(s, Append(t, x))
<1>1. PICK n \in Nat, m \in Nat : n = Len(s) /\ m = Len(t) /\ n <= m
  BY DEF IsPrefix
<1>2. PICK u \in Seq(T) : u = Append(t, x) /\ Len(u) = m + 1
                          /\ \A i \in 1 .. m : u[i] = t[i]
  <2>1. Append(t, x) \in Seq(T) /\ Len(Append(t, x)) = m + 1
        /\ \A i \in 1 .. m : Append(t, x)[i] = t[i]
    BY <1>1, AppendProperties
  <2> QED BY <2>1, Zenon
<1>3. SubSeq(s, 1, n) = SubSeq(t, 1, n)
  BY <1>1 DEF IsPrefix
<1>4. SubSeq(u, 1, n) = SubSeq(t, 1, n)
  <2>1. SubSeq(u, 1, n) = [i \in 1 .. n |-> u[i]] /\ SubSeq(t, 1, n) = [i \in 1 .. n |-> t[i]]
    OBVIOUS
  <2>2. \A i \in 1 .. n : u[i] = t[i]
    BY <1>1, <1>2
  <2> QED BY <2>1, <2>2
<1>5. n <= m + 1
  BY <1>1
<1> QED BY <1>1, <1>2, <1>3, <1>4, <1>5 DEF IsPrefix

LEMMA BindColHolds ==
  ASSUME StatementInv, NEW type, BindCol(type) PROVE StatementInv'
<1>1. CASE ~Asserted(Len(cols) + 1)
  BY <1>1, EndedHolds DEF BindCol
<1>2. CASE Asserted(Len(cols) + 1)
  <2>1. /\ cols' = Append(cols, ColBuffer[type]) /\ brought' = Nothing
        /\ type \in DOMAIN ColBuffer
        /\ UNCHANGED <<params, bindParam, inout, selectText, bindCol, db, userVars, since,
                       sent, direct>>
    BY <1>2 DEF BindCol, binding
  <2>2. PICK b \in Buffers : b = ColBuffer[type]
    BY <2>1 DEF Buffers
  <2>3. cols \in Seq(Buffers) /\ db.bound \in Seq(Buffers)
    BY DEF StatementInv, RowType, Handle
  <2>4. Append(cols, b) \in Seq(Buffers)
    BY <2>3, AppendProperties
  <2>5. RowType'
    BY <2>1, <2>2, <2>4 DEF StatementInv, RowType
  <2>6. BoundFills'
    <3>1. IsPrefix(db.bound, cols) => IsPrefix(db.bound, Append(cols, b))
      BY <2>3, LongerPrefix
    <3>2. Fills(db.fields, db.bound) => Fills(db.fields, db.bound)'
      BY <2>1, <2>2, <3>1 DEF Fills
    <3> QED BY <2>1, <3>2 DEF StatementInv, BoundFills
  <2>7. BindingType' /\ CallKept'
    BY <2>1, SameCall DEF StatementInv
  <2> QED BY <2>1, <2>5, <2>6, <2>7, NothingBrought
<1> QED BY <1>1, <1>2

\* A result whose fields have the types of the columns fills them.
LEMMA MatchingFills ==
  ASSUME RowType, NEW fields \in Seq(FieldTypes), Matches(fields)
  PROVE  Fills(fields, SubSeq(cols, 1, Len(fields)))
<1>1. PICK c \in Seq(Buffers), n \in Nat : c = cols /\ n = Len(c) /\ n = Len(fields)
  BY DEF RowType, Matches
<1>2. PICK b \in Seq(Buffers) : /\ b = SubSeq(c, 1, n) /\ Len(b) = n /\ DOMAIN b = 1 .. n
                                /\ \A i \in 1 .. n : b[i] = c[i]
  <2>1. SubSeq(c, 1, n) = [i \in 1 .. n |-> c[i]]
    OBVIOUS
  <2>2. [i \in 1 .. n |-> c[i]] \in [1 .. n -> Buffers]
    <3>1. \A i \in 1 .. n : c[i] \in Buffers
      BY <1>1, ElementOfSeq
    <3> QED BY <3>1
  <2>3. \A i \in 1 .. n : SubSeq(c, 1, n)[i] = c[i]
    BY <2>1
  <2>4. PICK b \in [1 .. n -> Buffers] : b = SubSeq(c, 1, n)
    BY <2>1, <2>2, Zenon
  <2>5. b \in Seq(Buffers) /\ Len(b) = n /\ DOMAIN b = 1 .. n
    OBVIOUS
  <2> QED BY <2>3, <2>4, <2>5
<1>3. SubSeq(b, 1, n) = SubSeq(c, 1, n)
  <2>1. SubSeq(c, 1, n) = [i \in 1 .. n |-> c[i]] /\ SubSeq(b, 1, n) = [i \in 1 .. n |-> b[i]]
    OBVIOUS
  <2> QED BY <1>2, <2>1
<1>4. IsPrefix(b, c)
  BY <1>1, <1>2, <1>3 DEF IsPrefix
<1>5. fields = [k \in DOMAIN b |-> b[k][1]]
  <2>1. DOMAIN fields = 1 .. n /\ fields = [k \in 1 .. n |-> fields[k]]
    BY <1>1
  <2>2. \A k \in 1 .. n : fields[k] = b[k][1]
    BY <1>1, <1>2, <2>1 DEF Matches
  <2> QED BY <1>2, <2>1, <2>2
<1> QED BY <1>1, <1>2, <1>4, <1>5 DEF Fills

\* One fetch on a handle, with m_bBindCol set afterwards.
LEMMA FetchRowHolds ==
  ASSUME StatementInv, NEW d \in Handle, FetchRow(d),
         UNCHANGED <<params, bindParam, inout, selectText, cols, userVars, since, sent, direct>>,
         ~direct /\ d.state # "idle" /\ d.fields # <<>> => Fills(d.fields, d.bound)
  PROVE  StatementInv'
<1>1. BindingType' /\ CallKept'
  BY SameCall DEF StatementInv
<1>2. CASE HasRow(d)
  <2>1. /\ RowTaken(d) \in Handle
        /\ RowTaken(d).fields = d.fields /\ RowTaken(d).bound = d.bound
        /\ RowTaken(d).state = d.state
    BY HandleUpdates
  <2>2. /\ db' = RowTaken(d)
        /\ brought' = [call |-> "row", fields |-> d.fields, bound |-> d.bound]
           \/ brought' = Nothing
    BY <1>2 DEF FetchRow
  <2>3. ~direct => Fills(d.fields, d.bound)
    BY <1>2 DEF HasRow
  <2>4. Fills(d.fields, d.bound) <=> Fills(d.fields, d.bound)'
    <3>1. Fills(d.fields, d.bound) => IsPrefix(d.bound, cols')
      BY DEF Fills
    <3> QED BY <2>1, <2>2 DEF Fills
  <2>5. RowType' /\ BoundFills'
    BY <2>1, <2>2, <2>3 DEF StatementInv, RowType, BoundFills, Fills
  <2>6. CASE brought' = [call |-> "row", fields |-> d.fields, bound |-> d.bound]
    <3>1. /\ brought'.call = "row" /\ brought'.fields = d.fields /\ brought'.bound = d.bound
      BY <2>6
    <3>2. RowsFillTheColumns'
      BY <2>3, <3>1 DEF RowsFillTheColumns, Fills
    <3>3. OutputsOfTheCall'
      BY <1>1, <3>1 DEF OutputsOfTheCall, CallKept
    <3> QED BY <1>1, <2>5, <3>2, <3>3 DEF StatementInv
  <2> QED BY <1>1, <2>2, <2>5, <2>6, NothingBrought
<1>3. CASE ~HasRow(d)
  <2>1. db' = [d EXCEPT !.state = "idle"] /\ brought' = Nothing
    BY <1>3 DEF FetchRow
  <2>2. RowType' /\ BoundFills'
    BY <2>1, HandleUpdates DEF StatementInv, RowType, BoundFills
  <2> QED BY <1>1, <2>1, <2>2, NothingBrought
<1> QED BY <1>2, <1>3

LEMMA FetchHolds ==
  ASSUME StatementInv, Fetch PROVE StatementInv'
<1>1. UNCHANGED <<params, bindParam, inout, selectText, cols, userVars, since, sent, direct>>
  BY DEF Fetch, binding
<1>2. CASE bindCol
  <2>1. FetchRow(db) /\ db \in Handle
    BY <1>2 DEF Fetch, StatementInv, RowType
  <2>2. ~direct /\ db.state # "idle" /\ db.fields # <<>> => Fills(db.fields, db.bound)
    BY <1>2 DEF StatementInv, BoundFills
  <2> QED BY <1>1, <2>1, <2>2, FetchRowHolds
<1>3. CASE ~bindCol /\ CanStore /\ Bindable(FoundResult, cols)
  <2>1. PICK f \in Handle : f = FoundResult /\ (f.state # "idle" => Matches(f.fields))
                            /\ Len(f.fields) <= Len(cols) /\ f.fields \in Seq(FieldTypes)
    <3>1. FoundResult \in Handle /\ (FoundResult.state # "idle" => Matches(FoundResult.fields))
      BY FoundFacts DEF StatementInv
    <3>2. Len(FoundResult.fields) <= Len(cols)
      BY <1>3 DEF Bindable
    <3>3. FoundResult.fields \in Seq(FieldTypes)
      BY <3>1 DEF Handle
    <3> QED BY <3>1, <3>2, <3>3
  <2>2. PICK d \in Handle : /\ d = WithBound(f, cols)
                            /\ d.fields = f.fields /\ d.state = f.state
                            /\ d.bound = SubSeq(cols, 1, Len(f.fields))
    BY <2>1, BindingKept DEF StatementInv, RowType
  <2>3. FetchRow(d)
    BY <1>3, <2>1, <2>2 DEF Fetch
  <2>4. d.state # "idle" => Fills(d.fields, d.bound)
    BY <2>1, <2>2, MatchingFills DEF StatementInv
  <2> QED BY <1>1, <2>3, <2>4, FetchRowHolds
<1>4. CASE ~bindCol /\ ~(CanStore /\ Bindable(FoundResult, cols))
  <2>1. brought' = Nothing /\ bindCol' = FALSE /\ db' \in {db, FoundResult}
    BY <1>4 DEF Fetch
  <2>2. RowType' /\ BoundFills'
    BY <1>1, <2>1, FoundFacts DEF StatementInv, RowType, BoundFills
  <2>3. BindingType' /\ CallKept'
    BY <1>1, SameCall DEF StatementInv
  <2> QED BY <2>1, <2>2, <2>3, NothingBrought
<1> QED BY <1>2, <1>3, <1>4

LEMMA FreedHolds ==
  ASSUME StatementInv, db' = Idle, brought' = Nothing,
         UNCHANGED <<params, bindParam, inout, selectText, cols, bindCol, userVars, since,
                     sent, direct>>
  PROVE  StatementInv'
<1>1. RowType' /\ BoundFills'
  BY IdleHandle DEF StatementInv, RowType, BoundFills
<1>2. BindingType' /\ CallKept'
  BY SameCall DEF StatementInv
<1> QED BY <1>1, <1>2, NothingBrought

\* When the output parameters are bound and fit, the select's variables go to
\* them one by one.
LEMMA OutputsInPlace ==
  ASSUME NEW n \in Nat, BindingType, Len(inout) = n, n <= Len(OutputPlaces)
  PROVE  SubSeq(OutputPlaces, 1, n) = inout
<1> DEFINE P == {k \in DOMAIN inout : inout[k] <= Len(params)
                                      /\ params[inout[k]].type \in DOMAIN ColBuffer}
<1>1. inout \in Seq(Nat) /\ DOMAIN inout = 1 .. n
  BY DEF BindingType
<1>2. P \in SUBSET (1 .. n) /\ P \in SUBSET (1 .. Len(inout))
  BY <1>1
<1> HIDE DEF P
<1>3. /\ OutputPlaces \in Seq(Nat) /\ IsFiniteSet(P)
      /\ Len(OutputPlaces) = Cardinality(P)
      /\ \A k \in DOMAIN InOrder(P) : OutputPlaces[k] = inout[InOrder(P)[k]]
  <2>1. OutputPlaces = PickedFrom(inout, P)
    BY DEF OutputPlaces, P
  <2> QED BY <1>1, <1>2, <2>1, PickedFacts
<1>4. P = 1 .. n /\ Len(OutputPlaces) = n
  <2>1. IsFiniteSet(1 .. n) /\ Cardinality(1 .. n) = n
    BY CountedTo
  <2>2. Cardinality(P) <= n /\ (Cardinality(P) = n => P = 1 .. n)
    BY <1>2, <2>1, FS_Subset
  <2>3. Cardinality(P) \in Nat
    BY <1>3, FS_CardinalityType
  <2> QED BY <1>3, <2>2, <2>3
<1>5. DOMAIN InOrder(P) = 1 .. n
  <2>1. P \in SUBSET Nat
    BY <1>2
  <2> QED BY <1>3, <1>4, <2>1, InOrderFacts, CountedTo
<1>6. \A k \in 1 .. n : OutputPlaces[k] = inout[k]
  BY <1>3, <1>4, <1>5, AllInOrder
<1>7. SubSeq(OutputPlaces, 1, n) = [k \in 1 .. n |-> OutputPlaces[k]]
  OBVIOUS
<1>8. inout = [k \in 1 .. n |-> inout[k]]
  BY <1>1
<1> QED BY <1>6, <1>7, <1>8

LEMMA OutputColsType ==
  ASSUME BindingType
  PROVE  /\ OutputCols \in Seq(Buffers) /\ Len(OutputCols) = Len(OutputPlaces)
         /\ OutputPlaces \in Seq(Nat)
<1> DEFINE P == {k \in DOMAIN inout : inout[k] <= Len(params)
                                      /\ params[inout[k]].type \in DOMAIN ColBuffer}
<1>1. inout \in Seq(Nat) /\ P \in SUBSET (1 .. Len(inout))
  BY DEF BindingType
<1>2. \A k \in P : params[inout[k]].type \in DOMAIN ColBuffer
  OBVIOUS
<1>3. OutputPlaces = PickedFrom(inout, P)
  BY DEF OutputPlaces
<1> HIDE DEF P
<1>4. /\ OutputPlaces \in Seq(Nat) /\ DOMAIN OutputPlaces = DOMAIN InOrder(P)
      /\ \A k \in DOMAIN InOrder(P) : InOrder(P)[k] \in P
                                      /\ OutputPlaces[k] = inout[InOrder(P)[k]]
  BY <1>1, <1>3, PickedFacts
<1>5. PICK m \in Nat : m = Len(OutputPlaces) /\ DOMAIN OutputPlaces = 1 .. m
  BY <1>4
<1>6. \A k \in 1 .. m : ColBuffer[params[OutputPlaces[k]].type] \in Buffers
  BY <1>2, <1>4, <1>5 DEF Buffers
<1>7. OutputCols \in [1 .. m -> Buffers]
  BY <1>5, <1>6 DEF OutputCols
<1>8. PICK f \in [1 .. m -> Buffers] : f = OutputCols
  BY <1>7
<1>9. f \in Seq(Buffers) /\ Len(f) = m
  OBVIOUS
<1> QED BY <1>4, <1>5, <1>8, <1>9

\* The result of the select has a field per variable.
LEMMA SelectedFields ==
  ASSUME NEW wanted \in Seq(Nat)
  PROVE  LET fields == [n \in DOMAIN wanted |-> "VAR"]
         IN  /\ fields \in Seq(FieldTypes) /\ Len(fields) = Len(wanted)
             /\ [fields |-> fields, rows |-> 1] \in Result
<1>1. PICK m \in Nat : m = Len(wanted) /\ DOMAIN wanted = 1 .. m
  OBVIOUS
<1>2. [n \in 1 .. m |-> "VAR"] \in [1 .. m -> FieldTypes]
  BY DEF FieldTypes
<1>3. PICK f \in [1 .. m -> FieldTypes] : f = [n \in 1 .. m |-> "VAR"]
  BY <1>2, Zenon
<1>4. f \in Seq(FieldTypes) /\ Len(f) = m
  OBVIOUS
<1>5. [fields |-> f, rows |-> 1] \in Result
  BY <1>4 DEF Result
<1> QED BY <1>1, <1>3, <1>4, <1>5

LEMMA GetOutputResultHolds ==
  ASSUME StatementInv, GetOutputResult PROVE StatementInv'
<1> DEFINE wanted   == selectText.vars
           fields == [n \in DOMAIN wanted |-> "VAR"]
           Select == Executed(<<[fields |-> fields, rows |-> 1]>>)
<1>1. CASE db' = Idle /\ brought' = Nothing /\ UNCHANGED <<cols, direct>>
           /\ UNCHANGED <<link, binding, cols, bindCol, userVars, since, sent, direct>>
  BY <1>1, FreedHolds DEF binding
<1>2. CASE ~Asserted(Len(OutputCols)) /\ Ended("aborted")
  BY <1>2, EndedHolds
<1>3. CASE /\ cols' = OutputCols /\ direct' = bindCol
           /\ UNCHANGED <<link, binding, bindCol, userVars, since, sent>>
           /\ \/ db' = Select /\ brought' = Nothing
              \/ /\ Bindable(Select, OutputCols)
                 /\ \/ db' = RowTaken(WithBound(Select, OutputCols)) /\ brought' = Nothing
                    \/ /\ db' = Idle
                       /\ brought' = [call |-> "outputs",
                            places |-> SubSeq(OutputPlaces, 1, Len(wanted)),
                            values |-> [n \in DOMAIN wanted |-> userVars[n]]]
  <2>1. /\ OutputCols \in Seq(Buffers) /\ Len(OutputCols) = Len(OutputPlaces)
        /\ OutputPlaces \in Seq(Nat)
    BY OutputColsType DEF StatementInv
  <2>2. PICK m \in Nat : m = Len(wanted) /\ DOMAIN wanted = 1 .. m
    BY DEF StatementInv, BindingType
  <2>3. fields \in Seq(FieldTypes) /\ Len(fields) = m /\ [fields |-> fields, rows |-> 1] \in Result
    BY <2>2, SelectedFields DEF StatementInv, BindingType
  <2>4. Select \in Handle /\ Select.fields = fields
    <3> HIDE DEF fields
    <3>1. PICK r : r \in Result /\ r = [fields |-> fields, rows |-> 1]
      BY <2>3
    <3>2. <<r>> \in Seq(Result) /\ <<r>> # <<>> /\ Head(<<r>>) = r
      BY <3>1
    <3>3. Executed(<<r>>) \in Handle /\ Executed(<<r>>).fields = r.fields
      BY <3>2, ExecutedFacts
    <3> QED BY <3>1, <3>3
  <2> HIDE DEF Select, fields
  <2>5. Bindable(Select, OutputCols) => m <= Len(OutputPlaces)
    BY <2>1, <2>3, <2>4 DEF Bindable
  <2>6. Bindable(Select, OutputCols) => RowTaken(WithBound(Select, OutputCols)) \in Handle
    <3>1. Bindable(Select, OutputCols) => WithBound(Select, OutputCols) \in Handle
      BY <2>1, <2>4, BindingKept DEF Bindable
    <3> QED BY <3>1, HandleUpdates
  <2>7. RowType'
    BY <1>3, <2>1, <2>4, <2>6, IdleHandle DEF RowType
  <2>8. BoundFills'
    BY <1>3 DEF BoundFills
  <2>9. BindingType' /\ CallKept'
    BY <1>3, SameCall DEF StatementInv, binding
  <2>10. CASE brought' = Nothing
    BY <2>7, <2>8, <2>9, <2>10, NothingBrought
  <2>11. CASE /\ Bindable(Select, OutputCols)
              /\ brought' = [call |-> "outputs",
                             places |-> SubSeq(OutputPlaces, 1, Len(wanted)),
                             values |-> [n \in DOMAIN wanted |-> userVars[n]]]
    <3>1. /\ brought'.call = "outputs" /\ brought'.places = SubSeq(OutputPlaces, 1, m)
          /\ brought'.values = [n \in 1 .. m |-> userVars[n]]
      BY <2>2, <2>11
    <3>2. RowsFillTheColumns'
      BY <3>1 DEF RowsFillTheColumns
    <3>3. OutputsOfTheCall'
      <4> SUFFICES ASSUME since = "once"
                   PROVE  /\ sent.buffers = ParamBuffers(InTypes(sent.params))
                          /\ brought'.places = PlacesOf(sent.params, OutKinds)
                          /\ \A n \in DOMAIN brought'.places :
                               brought'.values[n] = brought'.places[n]
        BY <1>3 DEF OutputsOfTheCall, OutKinds
      <4>1. /\ sent.buffers = ParamBuffers(InTypes(sent.params))
            /\ inout = PlacesOf(sent.params, OutKinds) /\ Len(inout) = m
            /\ \A n \in 1 .. Len(inout) : userVars[n] = inout[n]
        BY <2>2 DEF StatementInv, CallKept
      <4>2. brought'.places = inout
        BY <2>5, <2>11, <3>1, <4>1, OutputsInPlace DEF StatementInv
      <4>3. DOMAIN inout = 1 .. m
        BY <4>1 DEF StatementInv, BindingType
      <4> QED BY <3>1, <4>1, <4>2, <4>3
    <3> QED BY <2>7, <2>8, <2>9, <3>2, <3>3 DEF StatementInv
  <2> QED BY <1>3, <2>10, <2>11
<1> QED BY <1>1, <1>2, <1>3 DEF GetOutputResult

LEMMA StatementInit ==
  ASSUME MySqlInit PROVE StatementInv
<1>1. <<>> \in Seq(Param) /\ <<>> \in Seq(Nat) /\ <<>> \in Seq(Buffers)
  BY EmptySeq
<1>2. NoText \in [vars : Seq(Nat), comma : BOOLEAN] /\ NoValues \in [1 .. MaxBind -> Nat]
  BY <1>1 DEF NoText, NoValues
<1>3. BindingType /\ RowType
  BY <1>1, <1>2, IdleHandle DEF MySqlInit, BindingType, RowType
<1>4. BoundFills /\ CallKept
  BY IdleHandle DEF MySqlInit, BoundFills, CallKept
<1>5. brought.call # "row" /\ brought.call # "outputs" /\ since = "none"
  BY DEF MySqlInit, Nothing
<1>6. RowsFillTheColumns
  BY <1>5 DEF RowsFillTheColumns
<1>7. OutputsOfTheCall
  BY <1>5 DEF OutputsOfTheCall
<1> QED BY <1>3, <1>4, <1>6, <1>7 DEF StatementInv

\* In every reachable state of the connector what is bound, the handle and the
\* columns are as StatementInv says.
THEOREM StatementInvariant == MySqlSpec => []StatementInv
<1>1. MySqlInit => StatementInv
  BY StatementInit
<1>2. StatementInv /\ [MySqlNext]_mysqlVars => StatementInv'
  <2> SUFFICES ASSUME StatementInv, [MySqlNext]_mysqlVars PROVE StatementInv'
    OBVIOUS
  <2>1. CASE InitializeMySql
    BY <2>1, NothingChanged DEF InitializeMySql, binding
  <2>2. CASE ConnectMySql
    BY <2>2, NothingChanged DEF ConnectMySql, binding
  <2>3. CASE DisConnect
    BY <2>3, EndedHolds DEF DisConnect
  <2>4. CASE InitBindParam
    BY <2>4, InitBindParamHolds
  <2>5. CASE SetProcedureName
    BY <2>5, NothingChanged DEF SetProcedureName
  <2>6. CASE \E type \in ParamTypes, kind \in {"in", "out", "inout"} : BindParam(type, kind)
    BY <2>6, BindParamHolds
  <2>7. CASE ExcuteSql
    BY <2>7, ExcuteSqlHolds
  <2>8. CASE ExcuteSqlDirect
    BY <2>8, ExcuteSqlDirectHolds
  <2>9. CASE InitBindCol
    BY <2>9, InitBindColHolds
  <2>10. CASE Fetch
    BY <2>10, FetchHolds
  <2>11. CASE FreeMoreResult
    BY <2>11, FreedHolds DEF FreeMoreResult, binding
  <2>12. CASE GetOutputResult
    BY <2>12, GetOutputResultHolds
  <2>13. CASE \E type \in ColTypes : BindCol(type)
    BY <2>13, BindColHolds
  <2>14. CASE UNCHANGED mysqlVars
    BY <2>14 DEF mysqlVars, binding, StatementInv, BindingType, RowType, BoundFills, Fills,
                 CallKept, RowsFillTheColumns, OutputsOfTheCall
  <2> QED BY <2>1, <2>2, <2>3, <2>4, <2>5, <2>6, <2>7, <2>8, <2>9, <2>10, <2>11, <2>12,
             <2>13, <2>14 DEF MySqlNext
<1> QED BY <1>1, <1>2, PTL DEF MySqlSpec

\* A call is sent the IN parameters bound since InitBindParam, in order, and
\* GetOutputResult after it puts into each OUT and INOUT parameter what this
\* call left there, for any parameters, types and result sets.
THEOREM OutputsReachTheCaller == MySqlSpec => []OutputsOfTheCall
BY StatementInvariant, PTL DEF StatementInv

\* A row Fetch returns is of a result set that has the types of the columns
\* bound since InitBindCol, and goes into these columns; the one exception is
\* ExcuteSqlDirect with m_bBindCol left set.
THEOREM RowsGoIntoTheColumns == MySqlSpec => []RowsFillTheColumns
BY StatementInvariant, PTL DEF StatementInv

===============================================================================
