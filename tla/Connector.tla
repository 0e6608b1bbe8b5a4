------------------------------ MODULE Connector ------------------------------
(***************************************************************************)
(* LConnector: one thread that connects to a server, connects again when   *)
(* the connection is lost, receives packets into a ring the application    *)
(* reads, and sends what the application put into another ring.  Both      *)
(* rings are lock-free for one reader and one writer; ReConnect resets     *)
(* both of their indexes whatever the application is doing.                *)
(*                                                                         *)
(* Descriptors are numbers of the process, shared with everything else     *)
(* that opens some; the system hands out the lowest free one.  Bytes the   *)
(* application sends and packets the server sends are numbered.  A slot of *)
(* the receive ring stands for a packet, a place of the send ring for a    *)
(* byte.  The address of the server is well formed (inet_aton succeeds).   *)
(***************************************************************************)
EXTENDS Integers, Sequences

CONSTANTS
  NFd,          \* descriptors 1 .. NFd may be open
  RecvSlots,    \* places of m_RecvedPackets (one stays empty)
  SendPlaces,   \* places of m_WillSendPackets (one stays empty)
  RecvBufLen,   \* m_unBufUseToRecvDataLen
  MaxPacketLen, \* m_unMaxPacketLen
  Lengths,      \* lengths a server may write in front of a packet
  MaxAttempts,  \* bound: calls of ReConnect that get past the clock
  MaxHeard,     \* bound: packets the server sends
  MaxBytes,     \* bound: bytes the application sends
  MaxTraffic,   \* bound: the two together
  MaxOut        \* bound: bytes of one packet of the application

ASSUME ConnectorAssumption ==
  /\ NFd \in Nat \ {0} /\ RecvSlots \in Nat \ {0} /\ SendPlaces \in Nat \ {0}
  /\ RecvBufLen \in Nat \ {0} /\ MaxPacketLen \in Nat \ {0}
  /\ Lengths \subseteq Nat
  /\ MaxAttempts \in Nat /\ MaxHeard \in Nat /\ MaxBytes \in Nat
  /\ MaxTraffic \in Nat /\ MaxOut \in Nat

VARIABLES
  owner,      \* whose each descriptor is: "free", "mine", "other"
  sock,       \* m_Socket: a descriptor, or -1 before the first success
  fresh,      \* nSocket, the descriptor of the attempt under way
  connected,  \* m_nConnected
  sendable,   \* m_bSendable
  pc,         \* where the connector thread is
  attempts,   \* calls of ReConnect that got past the clock
  outcome,    \* how the last attempt ended ("none": it is Initialize's)
  remain,     \* m_unDataRemainInRecvBuf
  stream,     \* packets the server sent and ParseRecvedData did not take
  flight,     \* bytes of them that recv() has not returned yet
  gone,       \* the server closed or reset the connection
  heard,      \* number of the server's last packet
  inbox, rr, rw,            \* m_RecvedPackets: slots, read index, write index
  getting, getAt,           \* application in GetData: since which read index
  got,                      \* history: the last packet of the server it got
  getTorn,                  \* history: a GetData was under way between the
                            \* two stores of the last reset
  outbox, sr, sw,           \* m_WillSendPackets: places, indexes
  putting, putAt, putLen,   \* application in AddData: since which write index
  putTorn,                  \* history: the last reset fell into an AddData
  accepted,   \* number of the last byte the application put
  base,       \* history: accepted at the last reset of the send ring
  snap,       \* write index SendPackets works up to
  wire        \* bytes the system took on this connection, in order

descriptors == <<owner, sock, fresh>>
state  == <<connected, sendable, attempts, outcome>>
server == <<stream, flight, gone, heard>>
recvs  == <<inbox, rr, rw>>
gets   == <<getting, getAt, got, getTorn>>
sends  == <<outbox, sr, sw>>
puts   == <<putting, putAt, putLen, putTorn, accepted, base>>
vars   == <<descriptors, state, pc, remain, server, recvs, gets, sends, puts,
            snap, wire>>

Init ==
  /\ owner = [d \in 1 .. NFd |-> "free"] /\ sock = -1 /\ fresh = -1
  /\ connected = FALSE /\ sendable = TRUE
  /\ attempts = 0 /\ outcome = "none"
  /\ pc = "loop" /\ remain = 0
  /\ stream = <<>> /\ flight = 0 /\ gone = FALSE /\ heard = 0
  /\ inbox = [i \in 0 .. RecvSlots - 1 |-> 0] /\ rr = 0 /\ rw = 0
  /\ getting = FALSE /\ getAt = 0 /\ got = 0 /\ getTorn = FALSE
  /\ outbox = [i \in 0 .. SendPlaces - 1 |-> 0] /\ sr = 0 /\ sw = 0
  /\ putting = FALSE /\ putAt = 0 /\ putLen = 0 /\ putTorn = FALSE
  /\ accepted = 0 /\ base = 0 /\ snap = 0 /\ wire = <<>>

-----------------------------------------------------------------------------
(* Descriptors.                                                             *)

Free == {d \in 1 .. NFd : owner[d] = "free"}

\* The system gives the lowest number that is free.
Lowest(S) == CHOOSE d \in S : \A e \in S : d <= e

\* close() of a number nobody has open fails and changes nothing.
Closed(d) == [owner EXCEPT ![d] = "free"]

\* The rest of the process opens and closes descriptors of its own.
OtherOpens ==
  /\ Free # {} /\ \A d \in 1 .. NFd : owner[d] # "other"
  /\ owner' = [owner EXCEPT ![Lowest(Free)] = "other"]
  /\ UNCHANGED <<sock, fresh, state, pc, remain, server, recvs, gets, sends,
                 puts, snap, wire>>

OtherCloses ==
  /\ \E d \in 1 .. NFd : owner[d] = "other" /\ owner' = Closed(d)
  /\ UNCHANGED <<sock, fresh, state, pc, remain, server, recvs, gets, sends,
                 puts, snap, wire>>

-----------------------------------------------------------------------------
(* ReConnect.                                                               *)

\* Some call finds that m_usReConnectTime seconds have passed; until then the
\* loop sleeps.  The old number is closed but stays in m_Socket.  ClearContent
\* of the receive ring begins: it stores its two indexes one after the other,
\* under the feet of the application.
ReConnect ==
  /\ pc = "loop" /\ ~connected /\ attempts < MaxAttempts
  /\ attempts' = attempts + 1
  /\ owner' = IF sock = -1 THEN owner ELSE Closed(sock)
  /\ remain' = 0
  /\ stream' = <<>> /\ flight' = 0 /\ gone' = FALSE /\ wire' = <<>>
  /\ rr' = 0 /\ getTorn' = getting
  /\ pc' = "clear_recv_write"
  /\ UNCHANGED <<sock, fresh, connected, sendable, outcome, heard, inbox, rw, getting,
                 getAt, got, sends, puts, snap>>

\* Mutant of ClearRecvWrite: the receive ring's write index is forgotten.
ClearRecvWriteForgotten ==
  /\ pc = "clear_recv_write"
  /\ pc' = "clear_send_read"
  /\ UNCHANGED <<descriptors, state, remain, server, recvs, gets, sends, puts, snap, wire>>

ClearRecvWrite ==
  /\ pc = "clear_recv_write"
  /\ rw' = 0
  /\ pc' = "clear_send_read"
  /\ UNCHANGED <<descriptors, state, remain, server, inbox, rr, gets, sends, puts, snap,
                 wire>>

\* ClearContent of the send ring, as of the other.
ClearSendRead ==
  /\ pc = "clear_send_read"
  /\ sr' = 0
  /\ pc' = "clear_send_write"
  /\ UNCHANGED <<descriptors, state, remain, server, recvs, gets, outbox, sw, puts, snap,
                 wire>>

\* Mutant of ClearSendWrite: the send ring keeps what the last connection left.
ClearSendWriteForgotten ==
  /\ pc = "clear_send_write"
  /\ putTorn' = putting /\ base' = accepted
  /\ pc' = "socket"
  /\ UNCHANGED <<descriptors, state, remain, server, recvs, gets, sends, putting, putAt,
                 putLen, accepted, snap, wire>>

ClearSendWrite ==
  /\ pc = "clear_send_write"
  /\ sw' = 0 /\ putTorn' = putting /\ base' = accepted
  /\ pc' = "socket"
  /\ UNCHANGED <<descriptors, state, remain, server, recvs, gets, outbox, sr, putting,
                 putAt, putLen, accepted, snap, wire>>

\* An attempt that failed: ReConnect returned result.  Initialize does not
\* look at it; ThreadDoing goes back to sleep, or on to select().
Failed(result) ==
  /\ outcome' = "failed"
  /\ pc' = IF outcome # "none" /\ result THEN "select" ELSE "loop"

OpenSocket ==
  /\ pc = "socket"
  /\ IF Free = {}
       THEN Failed(FALSE) /\ UNCHANGED <<owner, fresh>>
       ELSE /\ fresh' = Lowest(Free)
            /\ owner' = [owner EXCEPT ![fresh'] = "mine"]
            /\ pc' = "connect"
            /\ UNCHANGED outcome
  /\ UNCHANGED <<sock, connected, sendable, attempts, remain, server,
                 recvs, gets, sends, puts, snap, wire>>

\* connect() failed: only logged, the new descriptor stays open, and
\* ReConnect returns true.
ConnectFails ==
  /\ pc = "connect"
  /\ Failed(TRUE)
  /\ UNCHANGED <<descriptors, connected, sendable, attempts, remain,
                 server, recvs, gets, sends, puts, snap, wire>>

ConnectSucceeds ==
  /\ pc = "connect"
  /\ sock' = fresh
  /\ connected' = TRUE /\ sendable' = TRUE
  /\ outcome' = "ok"
  /\ pc' = "select"
  /\ UNCHANGED <<owner, fresh, attempts, remain, server, recvs,
                  gets, sends, puts, snap, wire>>

\* SetNonBlockSocket() failed after m_Socket was set.
NonBlockFails ==
  /\ pc = "connect"
  /\ sock' = fresh
  /\ Failed(FALSE)
  /\ UNCHANGED <<owner, fresh, connected, sendable, attempts, remain,
                 server, recvs, gets, sends, puts, snap, wire>>

-----------------------------------------------------------------------------
(* ThreadDoing: select() and DoRecv.                                        *)

Disconnect == connected' = FALSE /\ pc' = "loop"

\* The next round: it begins with select() on a connection.
Again == IF connected THEN "select" ELSE "loop"

\* FD_SET(-1) writes outside the set: unnoticed, or the process is aborted.
SelectNoSocket ==
  /\ pc = "select" /\ sock = -1
  /\ pc' \in {"send", "aborted"}
  /\ UNCHANGED <<descriptors, state, remain, server, recvs, gets, sends, puts,
                 snap, wire>>

\* A number that is closed, or that the failed attempt got again.
SelectBadSocket ==
  /\ pc = "select" /\ sock # -1 /\ ~connected /\ owner[sock] # "other"
  /\ Disconnect
  /\ UNCHANGED <<descriptors, sendable, attempts, outcome,
                 remain, server, recvs, gets, sends, puts, snap, wire>>

\* Nothing to read, or a signal.
SelectTimeout ==
  /\ pc = "select" /\ connected
  /\ pc' = "send"
  /\ UNCHANGED <<descriptors, state, remain, server, recvs, gets, sends, puts,
                 snap, wire>>

\* The number belongs to somebody else now, who may have nothing to read.
StraySelect ==
  /\ pc = "select" /\ sock # -1 /\ ~connected /\ owner[sock] = "other"
  /\ \/ pc' = "send" /\ UNCHANGED <<inbox, rw>>
     \/ pc' = "loop" /\ UNCHANGED <<inbox, rw>>
     \/ /\ inbox' = [inbox EXCEPT ![rw] = 0]
        /\ rw' = (rw + 1) % RecvSlots /\ rw' # rr
        /\ pc' = "send"
  /\ UNCHANGED <<descriptors, state, remain, server, rr, gets, sends, puts,
                 snap, wire>>

\* An illegal length is sent as a header alone.
LegalLen(len) == len >= 2 /\ len <= MaxPacketLen
Size(len) == IF LegalLen(len) THEN len ELSE 2

\* ParseRecvedData's first look at n bytes: the length is read even when only
\* its first byte is there; the second is what an earlier packet left behind.
ParseRecvedData(n) ==
  \/ n = 1 /\ pc' = "send" /\ UNCHANGED connected
  \/ n = 1 /\ Disconnect
  \/ n > 1 /\ LegalLen(Head(stream).len) /\ pc' = "take" /\ UNCHANGED connected
  \/ n > 1 /\ ~LegalLen(Head(stream).len) /\ Disconnect

\* Mutant of DoRecv: the bytes already in the buffer do not shorten the room.
DoRecvOverrun ==
  /\ pc = "select" /\ connected /\ flight > 0
  /\ \E n \in 1 .. flight :
       /\ n <= RecvBufLen
       /\ remain' = remain + n /\ flight' = flight - n
       /\ ParseRecvedData(remain + n)
  /\ UNCHANGED <<descriptors, sendable, attempts, outcome, stream, gone, heard,
                 recvs, gets, sends, puts, snap, wire>>

\* A buffer without room is an error of Recv, as the end of the stream is, and
\* E_Socket_No_Recv_Data, when select() reported bytes and recv() found none.
DoRecv ==
  /\ pc = "select" /\ connected
  /\ \/ /\ flight > 0 /\ remain < RecvBufLen
        /\ \E n \in 1 .. flight :
             /\ remain + n <= RecvBufLen
             /\ remain' = remain + n /\ flight' = flight - n
             /\ ParseRecvedData(remain + n)
     \/ /\ flight = 0 \/ remain = RecvBufLen
        /\ Disconnect /\ UNCHANGED <<remain, flight>>
  /\ UNCHANGED <<descriptors, sendable, attempts, outcome, stream,
                 gone, heard, recvs, gets, sends, puts, snap, wire>>

\* Mutant of AfterPacket: the next length is read from a byte that is not there.
AfterPacketStale(left) ==
  IF left = 0 THEN pc' = "send" /\ UNCHANGED connected
  ELSE \/ LegalLen(stream[2].len) /\ pc' = "take" /\ UNCHANGED connected
       \/ (left = 1 \/ ~LegalLen(stream[2].len)) /\ Disconnect

\* What follows a packet that was taken, with left bytes behind it.
AfterPacket(left) ==
  IF left < 2 THEN pc' = "send" /\ UNCHANGED connected
  ELSE IF LegalLen(stream[2].len) THEN pc' = "take" /\ UNCHANGED connected
  ELSE Disconnect

\* One round of the loop.  AddData refuses a packet without data (a length of
\* 2) and a full ring; both end the connection.
TakePacket ==
  /\ pc = "take"
  /\ LET len == Head(stream).len
     IN  \/ /\ remain < len
            /\ pc' = "send" /\ UNCHANGED <<connected, remain, stream, inbox, rw>>
         \/ /\ remain >= len /\ (len = 2 \/ (rw + 1) % RecvSlots = rr)
            /\ Disconnect /\ UNCHANGED <<remain, stream, inbox, rw>>
         \/ /\ remain >= len /\ len > 2 /\ (rw + 1) % RecvSlots # rr
            /\ inbox' = [inbox EXCEPT ![rw] = Head(stream).no]
            /\ rw' = (rw + 1) % RecvSlots
            /\ remain' = remain - len /\ stream' = Tail(stream)
            /\ AfterPacket(remain - len)
  /\ UNCHANGED <<descriptors, sendable, attempts, outcome,
                 flight, gone, heard, rr, gets, sends, puts, snap, wire>>

-----------------------------------------------------------------------------
(* SendPackets.                                                             *)

\* select() reports the descriptor writable again.
BecomesSendable ==
  /\ pc = "send" /\ ~sendable
  /\ sendable' = TRUE
  /\ UNCHANGED <<descriptors, connected, attempts, outcome,
                 pc, remain, server, recvs, gets, sends, puts, snap, wire>>

SendPackets ==
  /\ pc = "send"
  /\ IF sendable /\ sr # sw THEN pc' = "sending" /\ snap' = sw
                           ELSE pc' = Again /\ UNCHANGED snap
  /\ UNCHANGED <<descriptors, state, remain, server, recvs, gets, sends, puts,
                 wire>>

\* One send(): up to the write index, or first to the end of the buffer.
PieceEnd == IF sr < snap THEN snap ELSE SendPlaces

\* A result above 0 counts as the whole piece.
PieceIsGone ==
  /\ sr' = PieceEnd % SendPlaces
  /\ pc' = IF sr' = snap THEN Again ELSE "sending"

SendAccepted ==
  /\ pc = "sending" /\ connected
  /\ \E n \in 1 .. PieceEnd - sr :
       wire' = wire \o [i \in 1 .. n |-> outbox[sr + i - 1]]
  /\ PieceIsGone
  /\ UNCHANGED <<descriptors, state, remain, server, recvs, gets, outbox, sw,
                 puts, snap>>

SendBufIsFull ==
  /\ pc = "sending" /\ (connected \/ (sock # -1 /\ owner[sock] = "other"))
  /\ sendable' = FALSE /\ pc' = Again
  /\ UNCHANGED <<descriptors, connected, attempts, outcome,
                 remain, server, recvs, gets, sends, puts, snap, wire>>

\* The bytes go to a connection of somebody else.
StraySend ==
  /\ pc = "sending" /\ ~connected /\ sock # -1 /\ owner[sock] = "other"
  /\ PieceIsGone
  /\ UNCHANGED <<descriptors, state, remain, server, recvs, gets, outbox, sw,
                 puts, snap, wire>>

\* Mutant of SendFails: the number is closed at once and again by ReConnect.
SendFailsClosing ==
  /\ pc = "sending" /\ (gone \/ ~connected)
  /\ Disconnect
  /\ owner' = IF sock = -1 THEN owner ELSE Closed(sock)
  /\ UNCHANGED <<sock, fresh, sendable, attempts, outcome, remain, server,
                 recvs, gets, sends, puts, snap, wire>>

\* EPIPE, or no connection at all.
SendFails ==
  /\ pc = "sending" /\ (gone \/ ~connected)
  /\ Disconnect
  /\ UNCHANGED <<descriptors, sendable, attempts, outcome,
                 remain, server, recvs, gets, sends, puts, snap, wire>>

-----------------------------------------------------------------------------
(* The application thread.                                                  *)

\* GetOneRecvedPacket: the packet is copied ...
GetOneRecvedPacket ==
  /\ ~getting /\ rr # rw
  /\ getting' = TRUE /\ getAt' = rr
  /\ getTorn' = (getTorn \/ pc = "clear_recv_write")
  /\ UNCHANGED <<descriptors, state, pc, remain, server, recvs, got, sends, puts, snap,
                 wire>>

\* ... and the read index moved on from where it was.
GotPacket ==
  /\ getting
  /\ getting' = FALSE
  /\ got' = IF inbox[getAt] = 0 THEN got ELSE inbox[getAt]
  /\ rr' = (getAt + 1) % RecvSlots /\ getAt' = 0
  /\ UNCHANGED <<descriptors, state, pc, remain, server, inbox, rw, getTorn,
                 sends, puts, snap, wire>>

FreePlaces == IF sw < sr THEN sr - sw ELSE SendPlaces + sr - sw

\* SendOnePacket, connected or not: the bytes are copied ...
SendOnePacket ==
  /\ ~putting
  /\ \E n \in 1 .. MaxOut :
       /\ accepted + n <= MaxBytes /\ heard + accepted + n <= MaxTraffic
       /\ FreePlaces - 1 >= n
       /\ outbox' = [i \in DOMAIN outbox |->
            LET k == (i - sw + SendPlaces) % SendPlaces
            IN  IF k < n THEN accepted + k + 1 ELSE outbox[i]]
       /\ accepted' = accepted + n /\ putLen' = n
  /\ putting' = TRUE /\ putAt' = sw
  /\ UNCHANGED <<descriptors, state, pc, remain, server, recvs, gets, sr, sw,
                 putTorn, base, snap, wire>>

\* ... and the write index moved on from where it was.
PutPacket ==
  /\ putting
  /\ putting' = FALSE
  /\ sw' = (putAt + putLen) % SendPlaces /\ putAt' = 0 /\ putLen' = 0
  /\ UNCHANGED <<descriptors, state, pc, remain, server, recvs, gets, outbox,
                 sr, putTorn, accepted, base, snap, wire>>

-----------------------------------------------------------------------------
(* The server.                                                              *)

ServerSends ==
  /\ connected /\ ~gone /\ heard < MaxHeard /\ heard + accepted < MaxTraffic
  /\ \E len \in Lengths :
       /\ stream' = Append(stream, [no |-> heard + 1, len |-> len])
       /\ flight' = flight + Size(len)
  /\ heard' = heard + 1
  /\ UNCHANGED <<descriptors, state, pc, remain, gone, recvs, gets, sends,
                 puts, snap, wire>>

ServerGoes ==
  /\ connected /\ ~gone
  /\ gone' = TRUE
  /\ UNCHANGED <<descriptors, state, pc, remain, stream, flight, heard, recvs,
                 gets, sends, puts, snap, wire>>

-----------------------------------------------------------------------------
ConnectStep == \/ ReConnect \/ ClearRecvWrite \/ ClearSendRead \/ ClearSendWrite
               \/ OpenSocket
               \/ ConnectFails \/ ConnectSucceeds \/ NonBlockFails
SelectStep  == \/ SelectNoSocket \/ SelectBadSocket
               \/ SelectTimeout \/ StraySelect \/ DoRecv \/ TakePacket
SendStep    == \/ BecomesSendable \/ SendPackets \/ SendAccepted
               \/ SendBufIsFull \/ StraySend \/ SendFails
AppStep     == GetOneRecvedPacket \/ GotPacket \/ SendOnePacket \/ PutPacket

Next == \/ ConnectStep \/ SelectStep \/ SendStep \/ AppStep
        \/ ServerSends \/ ServerGoes \/ OtherOpens \/ OtherCloses

Spec == Init /\ [][Next]_vars
-----------------------------------------------------------------------------
(* Properties.                                                              *)

\* Every variable keeps its type.
TypeOK ==
  /\ owner \in [1 .. NFd -> {"free", "mine", "other"}]
  /\ sock \in {-1} \union 1 .. NFd /\ fresh \in {-1} \union 1 .. NFd
  /\ {connected, sendable, gone, getting, getTorn, putting,
      putTorn} \subseteq BOOLEAN
  /\ pc \in {"loop", "clear_recv_write", "clear_send_read", "clear_send_write",
             "socket", "connect", "select", "take", "send", "sending", "aborted"}
  /\ outcome \in {"none", "ok", "failed"} /\ attempts \in 0 .. MaxAttempts
  /\ remain \in 0 .. RecvBufLen /\ flight \in Nat /\ heard \in 0 .. MaxHeard
  /\ stream \in Seq([no : 1 .. MaxHeard, len : Lengths])
  /\ inbox \in [0 .. RecvSlots - 1 -> 0 .. MaxHeard]
  /\ {rr, rw, getAt} \subseteq 0 .. RecvSlots - 1 /\ got \in 0 .. MaxHeard
  /\ outbox \in [0 .. SendPlaces - 1 -> 0 .. MaxBytes]
  /\ {sr, sw, putAt, snap} \subseteq 0 .. SendPlaces - 1 /\ putLen \in 0 .. MaxOut
  /\ accepted \in 0 .. MaxBytes /\ base \in 0 .. accepted
  /\ wire \in Seq(0 .. MaxBytes)

\* LConnector.cpp:201: what goes out on a connection was put by the application
\* after the reset that began the attempt, each byte once and in order: nothing
\* of an earlier connection, unless a SendOnePacket was under way when the
\* reset stored the write index.
WireIsOfThisConnection ==
  ~putTorn => /\ \A i \in 1 .. Len(wire) : wire[i] > base
              /\ \A i, j \in 1 .. Len(wire) : i < j => wire[i] < wire[j]

\* LConnector.cpp:200: the application gets the packets of the server in order
\* and none twice, unless a GetOneRecvedPacket was under way when the last reset
\* stored the read index, or began before it stored the write index: such a call
\* gets an old packet again, or leaves the read index ahead of the write index.
\* (Number 0 is what the thread read from a descriptor that was not its own.)
GotInOrder ==
  [][getting /\ ~getting' => inbox[getAt] = 0 \/ inbox[getAt] > got \/ getTorn]_vars

\* LConnector.cpp:196: the connector closes a descriptor of somebody else only when its last
\* attempt failed and the number it had closed before was given away.
ClosesOthersOnlyAfterFailure ==
  [][ReConnect /\ sock # -1 /\ owner[sock] = "other" => outcome = "failed"]_vars

\* LConnector.cpp:512: a connection whose server sent only legal packets, and
\* whose application keeps up, is given up by DoRecv only because its server
\* went, because recv() returned the first byte of a header alone, or because
\* select() reported bytes and recv() found none.
LegalAndDrained ==
  /\ \A i \in 1 .. Len(stream) : stream[i].len \in 3 .. MaxPacketLen
  /\ (rw + 1) % RecvSlots # rr
ClosesLegalOnlyAtOneByte ==
  [][connected /\ ~connected' /\ ~gone /\ LegalAndDrained
       => pc = "select" /\ (flight = 0 \/ (remain = 0 /\ remain' = 1))]_vars
=============================================================================
