------------------------------- MODULE SessionIO -------------------------------
(***************************************************************************)
(* The reading and the writing of one LSession while it is current.  The   *)
(* main thread appends packets to the session's send ring and hands the    *)
(* send thread a work item; the epoll thread, with every descriptor in     *)
(* EPOLLONESHOT mode, hands EPOLLIN to the receive thread and EPOLLOUT to  *)
(* the send thread; both of those re-arm the descriptor by epoll_ctl, the  *)
(* receive thread after every recv(), the send thread after a send() that  *)
(* found the system's buffer full.                                         *)
(*                                                                         *)
(* The bytes the application sends are numbered 1, 2, ...; byte b lies at  *)
(* place (b-1) % SendCap of the send ring, a bounded queue (FixLenRing).   *)
(* The rings between the threads are shared with the other sessions, so    *)
(* each may be full at any time.  The flag of a close request (closeSent)  *)
(* ends the work: SessionLifecycle goes on.                                *)
(***************************************************************************)
EXTENDS Integers, Sequences

CONSTANTS
  SendCap,      \* m_sMaxItemCount of m_FixLenCircleBufForSendData
  WorkCap,      \* items a ring between two threads holds
  RingsHaveRoom,\* do the other sessions leave the rings room at all times?
  KernelCap,    \* bytes the system's send buffer holds
  MaxPacket,    \* bound: bytes of one packet, its length prefix included
  MaxBytes,     \* bound: bytes the application sends
  MaxHeard      \* bound: bytes the peer sends

ASSUME IOAssumption ==
  /\ SendCap \in Nat \ {0} /\ WorkCap \in Nat \ {0} /\ KernelCap \in Nat \ {0}
  /\ MaxPacket \in Nat /\ MaxBytes \in Nat /\ MaxHeard \in Nat
  /\ RingsHaveRoom \in BOOLEAN

VARIABLES
  appended,    \* last byte in the send ring (its write index)
  taken,       \* last byte taken out of it (its read index)
  full,        \* m_nSendBufIsFull
  raised,      \* history: it went up after the receive thread chose its events
  closeSent,   \* m_nCloseWorkSendedToCloseThread
  addPending,  \* main runs OnAddSession, AddFirstRecvOfSession is still to come
  mainPc,      \* main: "idle", or "work" between append and work item
  sendWork,    \* items in m_SendCircleBuf of the send thread
  firstRecv,   \* the id is in m_FixBufFirstRecvOfSession
  recvWork,    \* items in m_pArrayRecvWorkOfEpollthreadToRecvthread
  outEvents,   \* items in m_pArrayEpollOutFromEpollThread
  added,       \* the descriptor is registered with epoll
  armed,       \* the events it is armed for; an event delivered disarms all
  epollEvents, \* the events the epoll thread has at hand
  recvPc, recvFirst, recvMask, \* receive thread: position, bIsFirstRecv, events
  sendPc, snap,                \* send thread: position, write index it read
  room,        \* free bytes of the system's send buffer
  wire,        \* the bytes the system accepted, in order
  inbox,       \* bytes the system holds for recv()
  heard,       \* bytes the peer sent
  gone         \* the peer closed or reset the connection

ring  == <<appended, taken>>
flags == <<full, raised, closeSent>>
main  == <<addPending, mainPc>>
items == <<sendWork, firstRecv, recvWork, outEvents>>
epoll == <<added, armed, epollEvents>>
recv  == <<recvPc, recvFirst, recvMask>>
send  == <<sendPc, snap>>
net   == <<room, wire, inbox, heard, gone>>
vars  == <<ring, flags, main, items, epoll, recv, send, net>>

Init ==
  /\ appended = 0 /\ taken = 0
  /\ full = FALSE /\ raised = FALSE /\ closeSent = FALSE
  /\ addPending = TRUE /\ mainPc = "idle"
  /\ sendWork = 0 /\ firstRecv = FALSE /\ recvWork = 0 /\ outEvents = 0
  /\ added = FALSE /\ armed = {} /\ epollEvents = {}
  /\ recvPc = "idle" /\ recvFirst = FALSE /\ recvMask = {}
  /\ sendPc = "idle" /\ snap = 0
  /\ room = KernelCap /\ wire = <<>>
  /\ inbox = 0 /\ heard = 0 /\ gone = FALSE

AtMost(a, b) == IF a <= b THEN a ELSE b

\* An item for a ring that holds n of this session: it may be full of others'.
Put(n) ==
  {m \in {n + 1} : m <= WorkCap} \union {m \in {n} : n = WorkCap \/ ~RingsHaveRoom}

\* AppendToClose by the receive or the send thread; only a request that found
\* room in the ring sets the flag.
AppendToClose ==
  \/ closeSent' = TRUE
  \/ ~RingsHaveRoom /\ UNCHANGED closeSent

-----------------------------------------------------------------------------
(* The main thread.                                                         *)

Fits(n) == appended - taken + n < SendCap

\* LSession::AppendDataToSend of a packet of n bytes; a ring that cannot hold
\* it has the session kicked out.  SendPacket may run inside OnAddSession.
SendPacket ==
  /\ mainPc = "idle" /\ ~closeSent
  /\ \E n \in 1 .. MaxPacket :
       /\ appended + n <= MaxBytes
       /\ IF Fits(n)
            THEN /\ appended' = appended + n
                 /\ mainPc' = "work"
                 /\ UNCHANGED closeSent
            ELSE closeSent' = TRUE /\ UNCHANGED <<appended, mainPc>>
  /\ UNCHANGED <<taken, full, raised, addPending, items, epoll, recv, send, net>>

\* A ring without room has the session kicked out.
AddOneSendWorkItem ==
  /\ mainPc = "work"
  /\ mainPc' = "idle"
  /\ sendWork' \in Put(sendWork)
  /\ closeSent' = (closeSent \/ sendWork' = sendWork)
  /\ UNCHANGED <<ring, full, raised, addPending, firstRecv, recvWork, outEvents, epoll,
                 recv, send, net>>

\* After OnAddSession main asks for the first recv; a ring that is full only
\* gives a line in the log.
AddFirstRecvOfSession ==
  /\ mainPc = "idle" /\ addPending
  /\ addPending' = FALSE
  /\ firstRecv' \in {TRUE, RingsHaveRoom}
  /\ UNCHANGED <<ring, flags, mainPc, sendWork, recvWork, outEvents, epoll,
                 recv, send, net>>

\* KickOutSession and KickOutIdleSession: the flag is set whatever the ring of
\* close requests said.
KickOutSession ==
  /\ mainPc = "idle" /\ ~closeSent
  /\ closeSent' = TRUE
  /\ UNCHANGED <<ring, full, raised, main, items, epoll, recv, send, net>>

-----------------------------------------------------------------------------
(* The epoll thread and EPOLLONESHOT.                                       *)

Ready ==
  {e \in {"in"} : inbox > 0 \/ gone} \union {e \in {"out"} : room > 0 \/ gone}

\* epoll_wait returns what is ready of the armed events and disarms them all.
EpollWait ==
  /\ epollEvents = {}
  /\ armed \intersect Ready # {}
  /\ epollEvents' = armed \intersect Ready
  /\ armed' = {}
  /\ UNCHANGED <<ring, flags, main, items, added, recv, send, net>>

\* A session that is closing gets no more work; a full ring loses the event.
Dispatch ==
  /\ epollEvents # {}
  /\ recvWork' \in IF "in" \in epollEvents /\ ~closeSent
                     THEN Put(recvWork) ELSE {recvWork}
  /\ outEvents' \in IF "out" \in epollEvents /\ ~closeSent
                      THEN Put(outEvents) ELSE {outEvents}
  /\ epollEvents' = {}
  /\ UNCHANGED <<ring, flags, main, sendWork, firstRecv, added, armed, recv,
                 send, net>>

-----------------------------------------------------------------------------
(* The receive thread.                                                      *)

\* Mutant of RecvData: too few bytes for a length return without re-arming.
RecvDataForgettingShort(first) ==
  IF closeSent THEN UNCHANGED <<recvPc, recvFirst, inbox>>
  ELSE /\ recvFirst' = first
       /\ \/ inbox = 0 /\ recvPc' = (IF gone THEN "close" ELSE "rearm") /\ UNCHANGED inbox
          \/ (\E n \in 1 .. inbox : inbox' = inbox - n) /\ recvPc' \in {"idle", "close"}

\* ProcessRecvSystemCall and LSession::RecvData.  No bytes: re-arm.  Error or
\* end of stream: close.  Bytes: the packets go to main and the descriptor is
\* re-armed, or a length is illegal or main's queue is full: close.
RecvData(first) ==
  IF closeSent THEN UNCHANGED <<recvPc, recvFirst, inbox>>
  ELSE /\ recvFirst' = first
       /\ \/ inbox = 0 /\ recvPc' = (IF gone THEN "close" ELSE "rearm") /\ UNCHANGED inbox
          \/ (\E n \in 1 .. inbox : inbox' = inbox - n) /\ recvPc' \in {"rearm", "close"}

ProcessFirstRecvOfSession ==
  /\ recvPc = "idle" /\ firstRecv
  /\ firstRecv' = FALSE
  /\ RecvData(TRUE)
  /\ UNCHANGED <<ring, flags, main, sendWork, recvWork, outEvents, epoll,
                 recvMask, send, room, wire, heard, gone>>

ProcessRecvworkFromEpollThread ==
  /\ recvPc = "idle" /\ recvWork > 0
  /\ recvWork' = recvWork - 1
  /\ RecvData(FALSE)
  /\ UNCHANGED <<ring, flags, main, sendWork, firstRecv, outEvents, epoll,
                 recvMask, send, room, wire, heard, gone>>

\* Mutant of Wanted: the flag is not read.
WantedInOnly == {"in"}

\* The events AddToEpollWaitThread asks for.
Wanted == IF full THEN {"in", "out"} ELSE {"in"}

\* AddToEpollWaitThread: it reads m_nSendBufIsFull ...
ChooseEvents ==
  /\ recvPc = "rearm"
  /\ recvMask' = Wanted /\ raised' = FALSE
  /\ recvPc' = "ctl"
  /\ UNCHANGED <<ring, full, closeSent, main, items, epoll, recvFirst, send, net>>

\* ... and then calls epoll_ctl: EPOLL_CTL_ADD the first time, which the system
\* may refuse, EPOLL_CTL_MOD later.
AddToEpollWaitThread ==
  /\ recvPc = "ctl"
  /\ \/ added' = TRUE /\ armed' = recvMask /\ recvPc' = "idle"
     \/ recvFirst /\ recvPc' = "close" /\ UNCHANGED <<added, armed>>
  /\ UNCHANGED <<ring, flags, main, items, epollEvents, recvFirst, recvMask,
                 send, net>>

AddSessionToCloseThreadToClose ==
  /\ recvPc = "close"
  /\ recvPc' = "idle"
  /\ AppendToClose
  /\ UNCHANGED <<ring, full, raised, main, items, epoll, recvFirst, recvMask, send, net>>

-----------------------------------------------------------------------------
(* The send thread: LSession::SendDataInFixCircleSendBuf.                   *)

StartSending ==
  /\ sendPc' = IF taken = appended THEN "idle" ELSE "send"
  /\ snap' = appended

\* Nothing is sent while an EPOLLOUT is awaited.
ProcessSendWork ==
  /\ sendPc = "idle" /\ sendWork > 0
  /\ sendWork' = sendWork - 1
  /\ IF closeSent \/ full THEN UNCHANGED send ELSE StartSending
  /\ UNCHANGED <<ring, flags, main, firstRecv, recvWork, outEvents, epoll,
                 recv, net>>

\* Mutant of ProcessEpollOutEvent: it takes the flag down and does not send.
ProcessEpollOutEventFlagOnly ==
  /\ sendPc = "idle" /\ outEvents > 0
  /\ outEvents' = outEvents - 1
  /\ full' = (full /\ closeSent)
  /\ UNCHANGED <<ring, raised, closeSent, main, sendWork, firstRecv, recvWork,
                 epoll, recv, send, net>>

ProcessEpollOutEvent ==
  /\ sendPc = "idle" /\ outEvents > 0
  /\ outEvents' = outEvents - 1
  /\ IF closeSent THEN UNCHANGED <<full, send>> ELSE full' = FALSE /\ StartSending
  /\ UNCHANGED <<ring, raised, closeSent, main, sendWork, firstRecv, recvWork,
                 epoll, recv, net>>

\* One send(): everything up to the write index, or to the end of the buffer.
PieceEnd == AtMost(snap, (taken \div SendCap + 1) * SendCap)

\* Bytes from + 1 .. from + n.
Bytes(from, n) == [i \in 1 .. n |-> from + i]

\* Mutant of SendAccepted: SetReadIndex(0) is missing after the first piece.
SendAcceptedKeepingIndex ==
  /\ sendPc = "send" /\ ~gone /\ room > 0
  /\ LET n == AtMost(room, PieceEnd - taken)
     IN  /\ wire' = wire \o Bytes(taken, n)
         /\ room' = room - n
  /\ taken' = IF PieceEnd = snap THEN snap ELSE taken
  /\ sendPc' = IF PieceEnd = snap THEN "idle" ELSE "send"
  /\ UNCHANGED <<appended, flags, main, items, epoll, recv, snap, inbox, heard,
                 gone>>

\* The system takes what it has room for; a result above 0 counts as all.
SendAccepted ==
  /\ sendPc = "send" /\ ~gone /\ room > 0
  /\ LET n == AtMost(room, PieceEnd - taken)
     IN  /\ wire' = wire \o Bytes(taken, n)
         /\ room' = room - n
  /\ taken' = PieceEnd
  /\ sendPc' = IF PieceEnd = snap THEN "idle" ELSE "send"
  /\ UNCHANGED <<appended, flags, main, items, epoll, recv, snap, inbox, heard,
                 gone>>

SendFailed ==
  /\ sendPc = "send" /\ gone
  /\ sendPc' = "close"
  /\ UNCHANGED <<ring, flags, main, items, epoll, recv, snap, net>>

\* SendDataFailedProcess: first the flag ...
SendBufIsFull ==
  /\ sendPc = "send" /\ ~gone /\ room = 0
  /\ full' = TRUE /\ raised' = (recvPc = "ctl")
  /\ sendPc' = "mod"
  /\ UNCHANGED <<ring, closeSent, main, items, epoll, recv, snap, net>>

\* ... then EPOLL_CTL_MOD, which fails as long as the descriptor was not added.
SendDataFailedProcess ==
  /\ sendPc = "mod"
  /\ IF added THEN armed' = {"in", "out"} /\ sendPc' = "idle"
              ELSE sendPc' = "close" /\ UNCHANGED armed
  /\ UNCHANGED <<ring, flags, main, items, added, epollEvents, recv, snap, net>>

\* The send thread asks for the close; a full ring leaves everything as it is.
SendThreadCloses ==
  /\ sendPc = "close"
  /\ sendPc' = "idle"
  /\ AppendToClose
  /\ UNCHANGED <<ring, full, raised, main, items, epoll, recv, snap, net>>

-----------------------------------------------------------------------------
(* The peer and the system's buffers.                                       *)

PeerReads ==
  /\ room < KernelCap
  /\ room' \in room + 1 .. KernelCap
  /\ UNCHANGED <<ring, flags, main, items, epoll, recv, send, wire, inbox,
                 heard, gone>>

PeerSends ==
  /\ ~gone /\ heard < MaxHeard
  /\ heard' = heard + 1
  /\ inbox' = inbox + 1
  /\ UNCHANGED <<ring, flags, main, items, epoll, recv, send, room, wire, gone>>

\* A close leaves what was sent to be read, a reset throws it away.
PeerGoes ==
  /\ ~gone
  /\ gone' = TRUE
  /\ inbox' \in {inbox, 0}
  /\ UNCHANGED <<ring, flags, main, items, epoll, recv, send, room, wire, heard>>

-----------------------------------------------------------------------------
MainStep  == SendPacket \/ AddOneSendWorkItem \/ AddFirstRecvOfSession \/ KickOutSession
EpollStep == EpollWait \/ Dispatch
RecvStep  == \/ ProcessFirstRecvOfSession \/ ProcessRecvworkFromEpollThread
             \/ ChooseEvents \/ AddToEpollWaitThread \/ AddSessionToCloseThreadToClose
Sending   == \/ SendAccepted \/ SendFailed \/ SendBufIsFull
             \/ SendDataFailedProcess \/ SendThreadCloses
SendStep  == ProcessSendWork \/ ProcessEpollOutEvent \/ Sending
PeerStep  == PeerReads \/ PeerSends \/ PeerGoes

Next == MainStep \/ EpollStep \/ RecvStep \/ SendStep \/ PeerStep

Spec == Init /\ [][Next]_vars

\* The threads keep running their loops: main returns from the application and
\* finishes what it started, epoll, receive and send thread take what there is
\* (the send thread polls both of its rings in every round), and the peer reads.
Fairness ==
  /\ WF_vars(AddOneSendWorkItem) /\ WF_vars(AddFirstRecvOfSession)
  /\ WF_vars(EpollStep) /\ WF_vars(RecvStep)
  /\ SF_vars(ProcessSendWork) /\ SF_vars(ProcessEpollOutEvent)
  /\ WF_vars(Sending) /\ WF_vars(PeerReads)

FairSpec == Spec /\ Fairness
-----------------------------------------------------------------------------
(* Properties.                                                              *)

\* No byte goes out twice or before an earlier one, whatever main appends while
\* the send thread works from its snapshot, and across the end of the ring.
WireInOrder == \A i, j \in 1 .. Len(wire) : i < j => wire[i] < wire[j]

\* LSession.cpp:500: what the read index passed has been sent, all of it.
NothingSkipped == wire = Bytes(0, taken)

\* A receive is to come that will see the flag when it arms the descriptor, or
\* an EPOLLOUT is armed for, at hand or queued.
Watched ==
  \/ addPending \/ firstRecv \/ recvWork > 0 \/ recvPc # "idle"
  \/ "out" \in armed \/ epollEvents # {} \/ outEvents > 0
  \/ sendPc \in {"mod", "close"}

\* The flag keeps the send thread from sending and nothing will take it down.
Stuck == full /\ ~closeSent /\ ~Watched

\* Steps that lose something.  The receive thread arms the descriptor with
\* events it chose before the flag went up, ...
Overtaken == recvPc = "ctl" /\ recvPc' = "idle" /\ raised
\* ... a ring refuses the close request of a thread, ...
Refused(at) == at = "close" /\ at' = "idle" /\ ~closeSent'
\* ... an event at hand, ...
Dropped(ringItems) == epollEvents # {} /\ epollEvents' = {} /\ ringItems' = ringItems
\* ... or the request for the first receive.
FirstRefused == addPending /\ ~addPending' /\ ~firstRecv'

\* LSession.cpp:477: while the flag keeps the send thread from sending, an
\* EPOLLOUT will come, unless the receive thread's epoll_ctl takes it away that
\* followed on a choice of events made before the flag went up, or a ring that
\* others filled lost an event, the first receive or a request for the close.
StuckOnlyByLoss ==
  [][~Stuck /\ Stuck' => \/ Overtaken \/ Refused(recvPc) \/ Refused(sendPc)
                        \/ Dropped(<<recvWork, outEvents>>) \/ FirstRefused]_vars

\* The next byte of the peer will reach recv().
CanRead ==
  \/ addPending \/ firstRecv \/ recvWork > 0 \/ recvPc # "idle"
  \/ "in" \in armed \/ "in" \in epollEvents

\* LSession.cpp:245: the session waits for the bytes to come, so bytes that
\* came are received, or the session is closed.
HeardIsReceived == inbox > 0 ~> (inbox = 0 \/ closeSent)

\* LSession.cpp:245: a session that is not closing turns deaf only when an
\* EPOLLOUT is delivered alone, or when a full ring loses its EPOLLIN, its first
\* receive or the receive thread's request to close it: every way out of RecvData
\* re-arms the descriptor or asks for a close.
DeafOnlyByLoss ==
  [][CanRead /\ ~CanRead' /\ ~closeSent' =>
       epollEvents' = {"out"} \/ Dropped(recvWork) \/ FirstRefused \/ Refused(recvPc)]_vars

\* LSession.cpp:477: whatever the application appended is taken by the send
\* thread as long as the peer is there and reads, or the session is closed, or
\* it got stuck in one of the ways above.
AppendedIsTaken ==
  \A b \in 1 .. MaxBytes : appended >= b ~> (taken >= b \/ closeSent \/ gone \/ Stuck)
=============================================================================
