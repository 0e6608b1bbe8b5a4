------------------------------- MODULE MainLogic -------------------------------
(***************************************************************************)
(* What the application sees of LNetWorkServices: OnAddSession,            *)
(* OnRecvedPacket and OnRemoveSession, which the main thread calls while   *)
(* it drains the rings of the accept, the receive and the close thread,    *)
(* some items of each in every round (ProcessRecvedPacket), and the close  *)
(* requests of the accept, receive, send and main thread.  Rings are       *)
(* bounded queues (FixLenRing, VarLenRing); what happens to a retired      *)
(* session before it is used again is SessionLifecycle's.                  *)
(***************************************************************************)
EXTENDS Integers, Sequences

CONSTANTS
  MaxSession,   \* sessions 1 .. MaxSession are accepted, each id once
  PerQueue,     \* unMaxProcessRecvedPakcetNumPerQueue
  AcceptCap,    \* connections the ring of the accept thread holds
  PacketCap,    \* packets the ring of the receive thread holds
  ClosedCap,    \* ids the ring of the close thread holds
  FirstCap,     \* ids m_FixBufFirstRecvOfSession holds
  RequestCap,   \* ids a ring of the close thread holds
  MaxPackets    \* bound: packets of all sessions together

ASSUME MainLogicAssumption ==
  /\ {MaxSession, PerQueue, AcceptCap, PacketCap, ClosedCap, FirstCap,
      RequestCap} \subseteq Nat \ {0}
  /\ MaxPackets \in Nat

Session == 1 .. MaxSession
Requester == {"accept", "recv", "send", "main"}

VARIABLES
  life,        \* "none", "current", "retired" (FindSession does not find it)
  closing,     \* m_nCloseWorkSendedToCloseThread
  acceptor,    \* session the accept thread works on, or 0
  acceptQueue, packetQueue, closedQueue, \* rings to the main thread: ids
  firstRecv,   \* m_FixBufFirstRecvOfSession
  armed,       \* sessions whose descriptor is armed
  receiving,   \* session the receive thread found and works on, or 0
  sending,     \* session the send thread found and works on, or 0
  requests,    \* rings of close requests
  closer,      \* session the close thread retired and has to report, or 0
  mainAt,      \* queue the main thread drains: "accept", "first", "packet",
               \* "closed", "idle"
  count,       \* items of that queue it handled in this round
  adding,      \* session whose OnAddSession returned, or 0
  online,      \* m_listCurrentOnlineClient and the ring that feeds it
  known,       \* sessions the application keeps: added and not removed
  packets,     \* number of packets received
  unreported,  \* history: sessions whose removal found the close ring full
  unrequested  \* history: sessions the main thread flagged with a full ring
sessions  == <<life, closing>>
toMain    == <<acceptQueue, packetQueue, closedQueue>>
receiver  == <<firstRecv, armed, receiving, packets>>
workers   == <<receiver, sending>>
mainState == <<mainAt, count, adding, online, known>>
histories == <<unreported, unrequested>>
logicVars == <<sessions, acceptor, toMain, workers, requests, closer, mainState,
               histories>>

LogicInit ==
  /\ life = [s \in Session |-> "none"] /\ closing = [s \in Session |-> FALSE]
  /\ acceptor = 0
  /\ acceptQueue = <<>> /\ packetQueue = <<>> /\ closedQueue = <<>>
  /\ firstRecv = <<>> /\ armed = {} /\ receiving = 0 /\ packets = 0 /\ sending = 0
  /\ requests = [r \in Requester |-> <<>>] /\ closer = 0
  /\ mainAt = "accept" /\ count = 0 /\ adding = 0 /\ online = {} /\ known = {}
  /\ unreported = {} /\ unrequested = {}

In(s, q) == \E i \in 1 .. Len(q) : q[i] = s

-----------------------------------------------------------------------------
(* Close requests.                                                          *)

\* AppendToClose.
AppendToClose(r, s) == requests' = [requests EXCEPT ![r] = Append(@, s)]

\* Mutant of RequestClose: the flag is set although the ring was full.
RequestCloseFlagAlways(r, s) ==
  /\ closing' = [closing EXCEPT ![s] = TRUE]
  /\ IF Len(requests[r]) < RequestCap THEN AppendToClose(r, s) ELSE UNCHANGED requests

\* The accept, receive and send thread flag the session when the ring took it;
\* after a failure nobody owns the session until the idle check finds it.
RequestClose(r, s) ==
  IF Len(requests[r]) < RequestCap
    THEN AppendToClose(r, s) /\ closing' = [closing EXCEPT ![s] = TRUE]
    ELSE UNCHANGED <<requests, closing>>

\* ProcessKickOutSession: the main thread flags it whatever the ring said.
ProcessKickOutSession(s) ==
  IF life[s] # "current" \/ closing[s] THEN UNCHANGED <<requests, closing, unrequested>>
  ELSE /\ closing' = [closing EXCEPT ![s] = TRUE]
       /\ IF Len(requests["main"]) < RequestCap
            THEN AppendToClose("main", s) /\ UNCHANGED unrequested
            ELSE unrequested' = unrequested \union {s} /\ UNCHANGED requests

-----------------------------------------------------------------------------
(* The accept thread.                                                       *)

AllocSession(s) ==
  /\ acceptor = 0 /\ life[s] = "none" /\ \A t \in Session : t < s => life[t] # "none"
  /\ acceptor' = s
  /\ life' = [life EXCEPT ![s] = "current"]
  /\ online' = online \union {s}
  /\ UNCHANGED <<closing, toMain, workers, requests, closer, mainAt, count,
                 adding, known, histories>>

\* Mutant of Announce: the descriptor is armed without waiting for OnAddSession.
AnnounceAndArm ==
  /\ acceptor # 0 /\ Len(acceptQueue) < AcceptCap
  /\ acceptQueue' = Append(acceptQueue, acceptor)
  /\ acceptor' = 0 /\ armed' = armed \union {acceptor}
  /\ UNCHANGED <<sessions, packetQueue, closedQueue, firstRecv, receiving, packets,
                 sending, requests, closer, mainState, histories>>

\* The session is bound to its threads and announced to the main thread.
Announce ==
  /\ acceptor # 0 /\ Len(acceptQueue) < AcceptCap
  /\ acceptQueue' = Append(acceptQueue, acceptor)
  /\ acceptor' = 0
  /\ UNCHANGED <<sessions, packetQueue, closedQueue, workers, requests, closer,
                 mainState, histories>>

\* AddWillCloseSessionToCloseThread: no thread to bind to, or the ring is full.
GiveUp ==
  /\ acceptor # 0
  /\ RequestClose("accept", acceptor)
  /\ acceptor' = 0
  /\ UNCHANGED <<life, toMain, workers, closer, mainState, histories>>

-----------------------------------------------------------------------------
(* The receive thread.                                                      *)

\* ProcessRecvSystemCall of an id: RecvData, unless the session is gone or
\* closing.
Receivable(s) == life[s] = "current" /\ ~closing[s]

\* The first RecvData of a session does not wait for the epoll thread.
FirstRecv ==
  /\ receiving = 0 /\ firstRecv # <<>>
  /\ firstRecv' = Tail(firstRecv)
  /\ receiving' = IF Receivable(Head(firstRecv)) THEN Head(firstRecv) ELSE 0
  /\ UNCHANGED <<sessions, acceptor, toMain, armed, packets, sending, requests, closer,
                 mainState, histories>>

\* Work from the epoll thread.
FindWork(s) ==
  /\ receiving = 0
  /\ s \in armed /\ Receivable(s)
  /\ receiving' = s /\ armed' = armed \ {s}
  /\ UNCHANGED <<sessions, acceptor, toMain, firstRecv, packets, sending, requests, closer,
                 mainState, histories>>

\* RecvData of a session that may have been retired since it was found.
RecvPacket ==
  /\ receiving # 0 /\ packets < MaxPackets /\ Len(packetQueue) < PacketCap
  /\ packetQueue' = Append(packetQueue, receiving) /\ packets' = packets + 1
  /\ UNCHANGED <<sessions, acceptor, acceptQueue, closedQueue, firstRecv, armed,
                 receiving, sending, requests, closer, mainState, histories>>

ArmDescriptor ==
  /\ receiving # 0
  /\ armed' = armed \union {receiving} /\ receiving' = 0
  /\ UNCHANGED <<sessions, acceptor, toMain, firstRecv, packets, sending, requests, closer,
                 mainState, histories>>

\* AddSessionToCloseThreadToClose: the peer went, or the ring is full.
RecvFails ==
  /\ receiving # 0
  /\ IF closing[receiving] THEN UNCHANGED <<requests, closing>>
                           ELSE RequestClose("recv", receiving)
  /\ receiving' = 0
  /\ UNCHANGED <<life, acceptor, toMain, firstRecv, armed, packets, sending, closer,
                 mainState, histories>>

-----------------------------------------------------------------------------
(* The send thread.                                                         *)

\* A work item, which main made when it sent something to the session, or an
\* EPOLLOUT; of a session that is closing it is dropped.
FindSendWork(s) ==
  /\ sending = 0 /\ s \in known /\ Receivable(s)
  /\ sending' = s
  /\ UNCHANGED <<sessions, acceptor, toMain, receiver, requests, closer, mainState,
                 histories>>

SendSucceeds ==
  /\ sending # 0
  /\ sending' = 0
  /\ UNCHANGED <<sessions, acceptor, toMain, receiver, requests, closer, mainState,
                 histories>>

\* SendDataInFixCircleSendBuf failed, for a session that may be closing or
\* retired by now.
SendFails ==
  /\ sending # 0
  /\ RequestClose("send", sending)
  /\ sending' = 0
  /\ UNCHANGED <<life, acceptor, toMain, receiver, closer, mainState, histories>>

-----------------------------------------------------------------------------
(* The close thread.                                                        *)

ProcessDisconnect(r) ==
  /\ closer = 0 /\ requests[r] # <<>>
  /\ requests' = [requests EXCEPT ![r] = Tail(@)]
  /\ LET s == Head(requests[r])
     IN  IF life[s] = "current"
           THEN life' = [life EXCEPT ![s] = "retired"] /\ closer' = s
           ELSE UNCHANGED <<life, closer>>
  /\ UNCHANGED <<closing, acceptor, toMain, workers, mainState, histories>>

\* The notice for OnRemoveSession; a ring that is full loses it.
ReportDisconnect ==
  /\ closer # 0
  /\ closer' = 0
  /\ IF Len(closedQueue) < ClosedCap
       THEN closedQueue' = Append(closedQueue, closer) /\ UNCHANGED unreported
       ELSE unreported' = unreported \union {closer} /\ UNCHANGED closedQueue
  /\ UNCHANGED <<sessions, acceptor, acceptQueue, packetQueue, workers, requests,
                 mainState, unrequested>>

-----------------------------------------------------------------------------
(* The main thread: a round of ProcessRecvedPacket and the idle check.      *)

MainUnchanged == UNCHANGED <<life, acceptor, armed, receiving, packets, sending, closer,
                           unreported>>

OnAddSession ==
  /\ mainAt = "accept" /\ count < PerQueue /\ acceptQueue # <<>>
  /\ known' = known \union {Head(acceptQueue)}
  /\ acceptQueue' = Tail(acceptQueue)
  /\ adding' = Head(acceptQueue) /\ mainAt' = "first"
  /\ MainUnchanged
  /\ UNCHANGED <<closing, packetQueue, closedQueue, firstRecv, requests, count, online,
                 unrequested>>

\* After OnAddSession; a ring that is full only gives a line in the log.
AddFirstRecvOfSession ==
  /\ mainAt = "first"
  /\ firstRecv' = IF life[adding] = "current" /\ Len(firstRecv) < FirstCap
                    THEN Append(firstRecv, adding) ELSE firstRecv
  /\ adding' = 0 /\ mainAt' = "accept" /\ count' = count + 1
  /\ MainUnchanged
  /\ UNCHANGED <<closing, toMain, requests, online, known, unrequested>>

OnRecvedPacket ==
  /\ mainAt = "packet" /\ count < PerQueue /\ packetQueue # <<>>
  /\ packetQueue' = Tail(packetQueue) /\ count' = count + 1
  /\ MainUnchanged
  /\ UNCHANGED <<closing, acceptQueue, closedQueue, firstRecv, requests, mainAt, adding,
                 online, known, unrequested>>

OnRemoveSession ==
  /\ mainAt = "closed" /\ count < PerQueue /\ closedQueue # <<>>
  /\ known' = known \ {Head(closedQueue)}
  /\ closedQueue' = Tail(closedQueue) /\ count' = count + 1
  /\ MainUnchanged
  /\ UNCHANGED <<closing, acceptQueue, packetQueue, firstRecv, requests, mainAt, adding,
                 online, unrequested>>

QueueAt == [accept |-> acceptQueue, packet |-> packetQueue, closed |-> closedQueue,
            idle |-> <<>>]

After == [accept |-> "packet", packet |-> "closed", closed |-> "idle", idle |-> "accept"]

\* The ring is empty, or it had its share of this round.
NextQueue ==
  /\ mainAt # "first"
  /\ QueueAt[mainAt] = <<>> \/ count = PerQueue
  /\ mainAt' = After[mainAt] /\ count' = 0
  /\ MainUnchanged
  /\ UNCHANGED <<closing, toMain, firstRecv, requests, adding, online, known, unrequested>>

\* KickOutIdleSession forgets a session that is gone, or kicks it out.  It is
\* idle for m_usTime seconds: by then the main thread has handled its accept.
KickOutIdleSession(s) ==
  /\ mainAt = "idle" /\ s \in online
  /\ acceptor # s /\ ~In(s, acceptQueue)
  /\ online' = online \ {s}
  /\ ProcessKickOutSession(s)
  /\ MainUnchanged
  /\ UNCHANGED <<toMain, firstRecv, mainAt, count, adding, known>>

\* The application asks for it, or a SendPacket of it fails: from a callback,
\* OnAddSession included, or between two rounds.
KickOutSession(s) ==
  /\ mainAt # "accept" /\ s \in known
  /\ ProcessKickOutSession(s)
  /\ MainUnchanged
  /\ UNCHANGED <<toMain, firstRecv, mainState>>

-----------------------------------------------------------------------------
LogicNext ==
  \/ \E s \in Session : \/ AllocSession(s) \/ FindWork(s) \/ FindSendWork(s)
                        \/ KickOutIdleSession(s) \/ KickOutSession(s)
  \/ Announce \/ GiveUp
  \/ FirstRecv \/ RecvPacket \/ ArmDescriptor \/ RecvFails
  \/ SendSucceeds \/ SendFails
  \/ \E r \in Requester : ProcessDisconnect(r)
  \/ ReportDisconnect
  \/ OnAddSession \/ AddFirstRecvOfSession \/ OnRecvedPacket \/ OnRemoveSession
  \/ NextQueue

LogicSpec == LogicInit /\ [][LogicNext]_logicVars
-----------------------------------------------------------------------------
(* Properties.                                                              *)

\* LAcceptThread.cpp:303: no packet of a session reaches the main thread before
\* the application was told of the session.
AddBeforeRecv ==
  \A s \in Session : In(s, packetQueue) => s \in known \/ life[s] = "retired"

\* LCloseSocketThread.cpp:480: once a session is gone and its notices are
\* handled, the application keeps nothing of it, unless the notice was lost in
\* a full ring: in particular OnAddSession never follows OnRemoveSession.
RemovalReported ==
  \A s \in known :
    life[s] = "retired" /\ closer # s => In(s, closedQueue) \/ s \in unreported

\* LRecvThread.cpp:193: a session marked as closing is in a ring of the close
\* thread, or the main thread marked it when its own ring was full.
ClosingIsRequested ==
  \A s \in Session :
    closing[s] /\ life[s] = "current" =>
      \/ s \in unrequested
      \/ \E r \in Requester : In(s, requests[r])

\* NetWorkTest/LMainLogicBroadCast.cpp:140 takes a packet of a session it does
\* not know for an error: OnRecvedPacket is only called between OnAddSession
\* and OnRemoveSession.
PacketOfKnownSession ==
  [][Len(packetQueue') < Len(packetQueue) => Head(packetQueue) \in known]_logicVars
=============================================================================
