--------------------------- MODULE SessionLifecycle ---------------------------
(***************************************************************************)
(* The life of a pooled LSession: LMasterSessionManager allocates it to    *)
(* the accept thread, four worker threads use it through FindSession, a    *)
(* close request retires it, each worker acknowledges a stop notice, and   *)
(* the worker that sees all four acknowledgements puts it back.            *)
(*                                                                         *)
(* One engine with one thread of every role.  The main logic thread is the *)
(* application thread that calls LNetWorkServices.  A step is the work a   *)
(* thread does between two accesses to state another thread also writes.   *)
(***************************************************************************)
EXTENDS Integers, Sequences, FiniteSets

CONSTANTS
  N,               \* unMaxClientNum: slots, and sessions, of the engine
  MaxIndex,        \* bound: how often one slot is handed out
  CloseCap,        \* items a close-request ring of LCloseSocketThread holds
  Active,          \* bound: the workers that get work on sessions; the others
                   \* take part in the closing only
  AcceptMayStall,  \* may the idle kick find a session its accept thread is
                   \* still binding (a stall longer than m_usTime seconds)?
  CloseQueueRoom   \* does the close thread's queue to main always have room?

ASSUME ConstantsAssumption ==
  /\ N \in Nat \ {0}
  /\ MaxIndex \in Nat
  /\ CloseCap \in Nat
  /\ Active \subseteq {"main", "epoll", "recv", "send"}
  /\ {AcceptMayStall, CloseQueueRoom} \subseteq BOOLEAN

Slots    == 0 .. N-1
Sessions == 0 .. N-1
Workers  == {"main", "epoll", "recv", "send"}
Requesters == {"accept", "main", "recv", "send"}
Bindings == {"recv", "send", "epoll"}

NoSession == N                           \* the NULL LSession*
Ids  == [slot : Slots, index : Nat]      \* u64SessionID = slot << 32 | index
NoId == [slot |-> 0, index |-> 0]        \* the id 0 that Reset stores
FDs  == 0 .. N                           \* descriptors accept() can return

VARIABLES
  slotIndex,    \* t_Session_Manager_Slot_Info::nSessionIndex
  slotSession,  \* t_Session_Manager_Slot_Info::pSession
  freeSlots,    \* m_SessionManagerSlotFree
  pool,         \* m_queueDirtySessionManager
  willReuse,    \* m_mapSessionWillReuseManager
  sid,          \* LSession::m_u64SessionID
  sock,         \* LSession::m_nSessionSocket
  bound,        \* which of the three thread ids of a session are set
  stopped,      \* which workers' m_n..ThreadStopProcessSession flags are 1
  closeSent,    \* LSession::m_nCloseWorkSendedToCloseThread
  announced,    \* the accept event of the session went to the main thread
  closeRing,    \* the close thread's request rings, one per requester
  stopRing,     \* the stop-notice rings, one per worker
  acc,          \* the accept thread
  closer,       \* the close thread
  pc, hand, held, \* each worker: its position, the LSession* and id it uses
  told          \* ids whose disconnect was published to the main thread

slots   == <<slotIndex, slotSession, freeSlots, pool, willReuse>>
session == <<sid, sock, bound, stopped, closeSent, announced>>
rings   == <<closeRing, stopRing>>
work    == <<pc, hand, held>>
vars    == <<slots, session, rings, acc, closer, work, told>>

-----------------------------------------------------------------------------
\* Mutant of FindSession: the slot alone decides, the index is not compared.
FindSessionIgnoringIndex(id) == slotSession[id.slot]

(* LMasterSessionManager::FindSession: the session of an id that is still   *)
(* the current one of its slot.                                             *)
FindSession(id) ==
  IF slotIndex[id.slot] = id.index THEN slotSession[id.slot] ELSE NoSession

Live    == {s \in Sessions : FindSession(sid[s]) = s}
InPool(s) == \E i \in 1 .. Len(pool) : pool[i] = s
OpenFds == {sock[s] : s \in Live}
\* Mutant of AllStopped: the epoll thread's flag is not read.
AllStoppedButEpoll(s) == Workers \ {"epoll"} \subseteq stopped[s]
AllStopped(s) == stopped[s] = Workers

Idle == [pc |-> "idle", s |-> NoSession]
NotClosing == [pc |-> "idle", s |-> NoSession, id |-> NoId]

\* InitializeSessionPool: every slot free with index 1, every session Reset.
Init ==
  /\ slotIndex = [k \in Slots |-> 1]
  /\ slotSession = [k \in Slots |-> NoSession]
  /\ freeSlots = [i \in 1 .. N |-> i - 1]
  /\ pool = [i \in 1 .. N |-> i - 1]
  /\ willReuse = {}
  /\ sid = [s \in Sessions |-> NoId]
  /\ sock = [s \in Sessions |-> 0]
  /\ bound = [s \in Sessions |-> {}]
  /\ stopped = [s \in Sessions |-> {}]
  /\ closeSent = [s \in Sessions |-> FALSE]
  /\ announced = [s \in Sessions |-> FALSE]
  /\ closeRing = [r \in Requesters |-> <<>>]
  /\ stopRing = [t \in Workers |-> <<>>]
  /\ acc = Idle
  /\ closer = NotClosing
  /\ pc = [t \in Workers |-> "idle"]
  /\ hand = [t \in Workers |-> NoSession]
  /\ held = [t \in Workers |-> NoId]
  /\ told = {}

-----------------------------------------------------------------------------
(* The accept thread.                                                       *)

\* Mutants of Reset: one field keeps the value of the last connection.
ResetKeepingStopFlags(s) ==
  /\ bound' = [bound EXCEPT ![s] = {}]
  /\ closeSent' = [closeSent EXCEPT ![s] = FALSE]
  /\ announced' = [announced EXCEPT ![s] = FALSE]
  /\ UNCHANGED stopped

ResetKeepingCloseSent(s) ==
  /\ bound' = [bound EXCEPT ![s] = {}]
  /\ stopped' = [stopped EXCEPT ![s] = {}]
  /\ announced' = [announced EXCEPT ![s] = FALSE]
  /\ UNCHANGED closeSent

\* LSession::Reset: what a new connection finds in a reused session.
Reset(s) ==
  /\ bound' = [bound EXCEPT ![s] = {}]
  /\ stopped' = [stopped EXCEPT ![s] = {}]
  /\ closeSent' = [closeSent EXCEPT ![s] = FALSE]
  /\ announced' = [announced EXCEPT ![s] = FALSE]

\* accept() returns the lowest free descriptor; AllocSession pops a slot and a
\* session and ties them together under a fresh id.  Its two error returns
\* need an empty pool beside a free slot, which SessionsConserved excludes.
AllocSession ==
  /\ acc.pc = "idle"
  /\ freeSlots # <<>> /\ pool # <<>>
  /\ LET k == Head(freeSlots)
         s == Head(pool)
     IN  /\ slotIndex[k] <= MaxIndex
         /\ \E fd \in FDs \ OpenFds :
              /\ \A other \in FDs \ OpenFds : fd <= other
              /\ sock' = [sock EXCEPT ![s] = fd]
         /\ freeSlots' = Tail(freeSlots)
         /\ pool' = Tail(pool)
         /\ Reset(s)
         /\ sid' = [sid EXCEPT ![s] = [slot |-> k, index |-> slotIndex[k]]]
         /\ slotSession' = [slotSession EXCEPT ![k] = s]
         /\ acc' = [pc |-> "bind_recv", s |-> s]
  /\ UNCHANGED <<slotIndex, willReuse, rings, closer, work, told>>

\* BindRecvThread, BindSendThread, BindEpollThread: with one thread of each
\* role the selection never fails.
Bind(role, from, to) ==
  /\ acc.pc = from
  /\ bound' = [bound EXCEPT ![acc.s] = @ \union {role}]
  /\ acc' = [acc EXCEPT !.pc = to]
  /\ UNCHANGED <<slots, sid, sock, stopped, closeSent, announced, rings,
                 closer, work, told>>

BindRecvThread  == Bind("recv", "bind_recv", "bind_send")
BindSendThread  == Bind("send", "bind_send", "bind_epoll")
BindEpollThread == Bind("epoll", "bind_epoll", "announce")

\* The accept event goes to the main thread, whose queue may be full.
AnnounceAccepted ==
  /\ acc.pc = "announce"
  /\ \/ /\ announced' = [announced EXCEPT ![acc.s] = TRUE]
        /\ acc' = Idle
     \/ /\ acc' = [acc EXCEPT !.pc = "give_up"]
        /\ UNCHANGED announced
  /\ UNCHANGED <<slots, sid, sock, bound, stopped, closeSent, rings, closer,
                 work, told>>

\* LCloseSocketThread::AppendToClose on the ring of one requester.
AppendToClose(r, id) ==
  IF Len(closeRing[r]) < CloseCap
    THEN closeRing' = [closeRing EXCEPT ![r] = Append(@, id)]
    ELSE UNCHANGED closeRing

\* AddWillCloseSessionToCloseThread: append first; the flag is set in a step
\* of its own, by which time the session may already be back in the pool.
AcceptGivesUp ==
  /\ acc.pc = "give_up"
  /\ AppendToClose("accept", sid[acc.s])
  /\ acc' = IF Len(closeRing["accept"]) < CloseCap
              THEN [acc EXCEPT !.pc = "mark"] ELSE Idle
  /\ UNCHANGED <<slots, session, stopRing, closer, work, told>>

AcceptMarks ==
  /\ acc.pc = "mark"
  /\ closeSent' = [closeSent EXCEPT ![acc.s] = TRUE]
  /\ acc' = Idle
  /\ UNCHANGED <<slots, sid, sock, bound, stopped, announced, rings, closer,
                 work, told>>

AcceptStep ==
  BindRecvThread \/ BindSendThread \/ BindEpollThread \/ AnnounceAccepted
  \/ AcceptGivesUp \/ AcceptMarks

-----------------------------------------------------------------------------
(* The workers.                                                             *)

\* Who can know the id of s: every worker once main was told of it; before
\* that only the idle kick of main, which takes ids from NewSessionOnline.
Knows(t, s) ==
  \/ announced[s]
  \/ t = "main" /\ (acc.s # s \/ AcceptMayStall)

\* A worker looks up an id it was handed and keeps the pointer.
Find(t) ==
  /\ t \in Active /\ pc[t] = "idle"
  /\ \E s \in Live :
       /\ Knows(t, s)
       /\ hand' = [hand EXCEPT ![t] = s]
       /\ held' = [held EXCEPT ![t] = sid[s]]
  /\ pc' = [pc EXCEPT ![t] = "use"]
  /\ UNCHANGED <<slots, session, rings, acc, closer, told>>

LetGo(t) ==
  /\ pc' = [pc EXCEPT ![t] = "idle"]
  /\ hand' = [hand EXCEPT ![t] = NoSession]
  /\ held' = [held EXCEPT ![t] = NoId]

\* The work on the session ends without a reason to close it.
Finish(t) ==
  /\ pc[t] = "use"
  /\ LetGo(t)
  /\ UNCHANGED <<slots, session, rings, acc, closer, told>>

\* Mutant of Judge: the epoll thread, whose request ring nobody fills, asks too.
JudgeByAnyWorker(t) ==
  /\ pc[t] = "use"
  /\ ~closeSent[hand[t]]
  /\ pc' = [pc EXCEPT ![t] = "ask"]
  /\ UNCHANGED <<slots, session, rings, acc, closer, hand, held, told>>

\* recv() or send() failed, or main kicks: nobody asked for the close yet.
Judge(t) ==
  /\ t \in Requesters /\ pc[t] = "use"
  /\ ~closeSent[hand[t]]
  /\ pc' = [pc EXCEPT ![t] = "ask"]
  /\ UNCHANGED <<slots, session, rings, acc, closer, hand, held, told>>

\* AddSessionToCloseThreadToClose, ProcessSendWork, ProcessKickOutSession:
\* recv and send set the flag when the append succeeded, main in any case.
RequestClose(t) ==
  /\ pc[t] = "ask"
  /\ AppendToClose(t, held[t])
  /\ closeSent' = [closeSent EXCEPT ![hand[t]] =
                     @ \/ t = "main" \/ Len(closeRing[t]) < CloseCap]
  /\ LetGo(t)
  /\ UNCHANGED <<slots, sid, sock, bound, stopped, announced, stopRing, acc,
                 closer, told>>

\* A worker takes a stop notice and raises its own flag ...
AckStop(t) ==
  /\ pc[t] = "idle" /\ stopRing[t] # <<>>
  /\ LET s == Head(stopRing[t])
     IN  /\ stopped' = [stopped EXCEPT ![s] = @ \union {t}]
         /\ hand' = [hand EXCEPT ![t] = s]
  /\ stopRing' = [stopRing EXCEPT ![t] = Tail(@)]
  /\ pc' = [pc EXCEPT ![t] = "check"]
  /\ UNCHANGED <<slots, sid, sock, bound, closeSent, announced, closeRing, acc,
                 closer, held, told>>

\* ... then reads all four (GetStopProcessInfos) ...
CheckStop(t) ==
  /\ pc[t] = "check"
  /\ IF AllStopped(hand[t])
       THEN pc' = [pc EXCEPT ![t] = "move"] /\ UNCHANGED <<hand, held>>
       ELSE LetGo(t)
  /\ UNCHANGED <<slots, session, rings, acc, closer, told>>

\* Mutant of MoveToPool: the map of sessions to reuse is not consulted.
MoveToPoolUnchecked(t) ==
  /\ pc[t] = "move"
  /\ LET s == hand[t]
     IN  /\ bound' = [bound EXCEPT ![s] = {}]
         /\ pool' = Append(pool, s)
         /\ freeSlots' = Append(freeSlots, sid[s].slot)
         /\ slotSession' = [slotSession EXCEPT ![sid[s].slot] = NoSession]
         /\ willReuse' = willReuse \ {s}
  /\ LetGo(t)
  /\ UNCHANGED <<slotIndex, sid, sock, stopped, closeSent, announced, rings, acc,
                 closer, told>>

\* ... and calls MoveWillCloseSessionToSessionPool, which unbinds the threads
\* and frees slot and session: a session that left the map in the meantime is a
\* "Double Free" and is left alone.
MoveToPool(t) ==
  /\ pc[t] = "move"
  /\ LET s == hand[t]
     IN  IF s \in willReuse
           THEN /\ bound' = [bound EXCEPT ![s] = {}]
                /\ pool' = Append(pool, s)
                /\ freeSlots' = Append(freeSlots, sid[s].slot)
                /\ slotSession' = [slotSession EXCEPT ![sid[s].slot] = NoSession]
                /\ willReuse' = willReuse \ {s}
           ELSE UNCHANGED <<bound, pool, freeSlots, slotSession, willReuse>>
  /\ LetGo(t)
  /\ UNCHANGED <<slotIndex, sid, sock, stopped, closeSent, announced, rings, acc,
                 closer, told>>

-----------------------------------------------------------------------------
(* The close thread: ProcessDisconnectInFixLenCircle, ProcessDisconnect.    *)

\* Mutant of TakeRequest: FreeSession leaves the slot's index as it is.
TakeRequestWithoutBump(r) ==
  /\ closer.pc = "idle" /\ closeRing[r] # <<>>
  /\ closeRing' = [closeRing EXCEPT ![r] = Tail(@)]
  /\ LET s == FindSession(Head(closeRing[r]))
     IN  closer' = IF s # NoSession
                     THEN [pc |-> "retire", s |-> s, id |-> sid[s]] ELSE closer
  /\ UNCHANGED <<slots, session, stopRing, acc, work, told>>

\* A request for a session that is still current bumps the slot's index and
\* closes the descriptor (FreeSession); a stale one is dropped.
TakeRequest(r) ==
  /\ closer.pc = "idle" /\ closeRing[r] # <<>>
  /\ closeRing' = [closeRing EXCEPT ![r] = Tail(@)]
  /\ LET s == FindSession(Head(closeRing[r]))
     IN  IF s # NoSession
           THEN /\ slotIndex' = [slotIndex EXCEPT ![sid[s].slot] = @ + 1]
                /\ closer' = [pc |-> "retire", s |-> s, id |-> sid[s]]
           ELSE UNCHANGED <<slotIndex, closer>>
  /\ UNCHANGED <<slotSession, freeSlots, pool, willReuse, session, stopRing,
                 acc, work, told>>

AddToWillReuseManager ==
  /\ closer.pc = "retire"
  /\ willReuse' = willReuse \union {closer.s}
  /\ closer' = [closer EXCEPT !.pc = "tell_main"]
  /\ UNCHANGED <<slotIndex, slotSession, freeSlots, pool, session, rings, acc,
                 work, told>>

\* A stop notice to worker t; epoll, recv and send only when bound.
Tell(t, from, to) ==
  /\ closer.pc = from
  /\ stopRing' = IF t = "main" \/ t \in bound[closer.s]
                   THEN [stopRing EXCEPT ![t] = Append(@, closer.s)]
                   ELSE stopRing
  /\ closer' = [closer EXCEPT !.pc = to]
  /\ UNCHANGED <<slots, session, closeRing, acc, work, told>>

TellMain  == Tell("main", "tell_main", "tell_epoll")
TellEpoll == Tell("epoll", "tell_epoll", "tell_recv")
TellRecv  == Tell("recv", "tell_recv", "tell_send")
TellSend  == Tell("send", "tell_send", "publish")

\* Mutant of PublishDisconnect: the id is read from the session at the end.
PublishCurrentId ==
  /\ closer.pc = "publish"
  /\ told' = told \union {sid[closer.s]}
  /\ closer' = NotClosing
  /\ UNCHANGED <<slots, session, rings, acc, work>>

\* The disconnect event, by the id read before FreeSession.
PublishDisconnect ==
  /\ closer.pc = "publish"
  /\ \/ told' = told \union {closer.id}
     \/ ~CloseQueueRoom /\ UNCHANGED told
  /\ closer' = NotClosing
  /\ UNCHANGED <<slots, session, rings, acc, work>>

CloserStep ==
  AddToWillReuseManager \/ TellMain \/ TellEpoll \/ TellRecv \/ TellSend
  \/ PublishDisconnect

-----------------------------------------------------------------------------
\* Only the bound MaxIndex ends a run: nothing is under way and the next slot
\* in the queue was handed out often enough.
WornOut ==
  /\ Len(pool) = N /\ slotIndex[Head(freeSlots)] > MaxIndex
  /\ acc = Idle /\ closer = NotClosing
  /\ \A t \in Workers : pc[t] = "idle" /\ stopRing[t] = <<>>
  /\ \A r \in Requesters : closeRing[r] = <<>>
  /\ UNCHANGED vars

Leave(t) == Finish(t) \/ Judge(t) \/ RequestClose(t)

\* Everything but the hand-out of a session.
Ongoing ==
  \/ AcceptStep
  \/ \E t \in Workers :
       \/ Find(t) \/ Leave(t)
       \/ AckStop(t) \/ CheckStop(t) \/ MoveToPool(t)
  \/ \E r \in Requesters : TakeRequest(r)
  \/ CloserStep
  \/ WornOut

Next == AllocSession \/ Ongoing

Spec == Init /\ [][Next]_vars

\* A worker that has decided to put s back and has not done it yet.
MoverOf(s) == \E t \in Workers : pc[t] = "move" /\ hand[t] = s

\* The code does not rule out that another worker puts the session back first
\* and that it is handed out again before this worker comes to it; what the
\* life cycle promises holds in the behaviours without that.
NotOvertaken == AllocSession => ~MoverOf(Head(pool))

PromptNext == (AllocSession /\ ~MoverOf(Head(pool))) \/ Ongoing

PromptSpec == Init /\ [][PromptNext]_vars

(***************************************************************************)
(* Every thread keeps running its loop.  A worker's loop polls its stop    *)
(* ring, and the close thread each request ring, once per iteration and    *)
(* with a bounded number of items from anything else in between: hence     *)
(* strong fairness for those two polls and weak fairness for the rest.     *)
(***************************************************************************)
Fairness ==
  /\ WF_vars(AcceptStep)
  /\ WF_vars(CloserStep)
  /\ \A t \in Workers :
       /\ WF_vars(Leave(t))
       /\ WF_vars(CheckStop(t) \/ MoveToPool(t))
       /\ SF_vars(AckStop(t))
  /\ \A r \in Requesters : SF_vars(TakeRequest(r))

FairSpec == PromptSpec /\ Fairness
-----------------------------------------------------------------------------
(* Properties.                                                              *)

Busy == {"use", "ask"}                 \* a worker that holds a looked-up session
Closing == {"retire", "tell_main", "tell_epoll", "tell_recv", "tell_send"}

SlotsType ==
  /\ slotIndex \in [Slots -> Nat \ {0}]
  /\ slotSession \in [Slots -> Sessions \union {NoSession}]
  /\ freeSlots \in Seq(Slots)
  /\ pool \in Seq(Sessions)
  /\ willReuse \in SUBSET Sessions

SessionType ==
  /\ sid \in [Sessions -> Ids]
  /\ sock \in [Sessions -> FDs]
  /\ bound \in [Sessions -> SUBSET Bindings]
  /\ stopped \in [Sessions -> SUBSET Workers]
  /\ closeSent \in [Sessions -> BOOLEAN]
  /\ announced \in [Sessions -> BOOLEAN]

RingsType ==
  /\ closeRing \in [Requesters -> Seq(Ids)]
  /\ stopRing \in [Workers -> Seq(Sessions)]

AccType ==
  \/ acc = Idle
  \/ acc \in [pc : {"bind_recv", "bind_send", "bind_epoll", "announce",
                    "give_up", "mark"}, s : Sessions]

CloserType ==
  \/ closer = NotClosing
  \/ closer \in [pc : Closing \union {"publish"}, s : Sessions, id : Ids]

WorkType ==
  /\ pc \in [Workers -> {"idle", "use", "ask", "check", "move"}]
  /\ hand \in [Workers -> Sessions \union {NoSession}]
  /\ held \in [Workers -> Ids]
  /\ \A t \in Workers : pc[t] = "idle" <=> hand[t] = NoSession
  /\ \A t \in Workers : pc[t] = "ask" => t \in Requesters

\* Every variable keeps its type; a thread at work has a session in hand, and
\* the epoll thread, whose ring of requests stays unused, asks for no close.
TypeOK ==
  SlotsType /\ SessionType /\ RingsType /\ AccType /\ CloserType /\ WorkType
  /\ told \in SUBSET Ids

\* The free slots and the pooled sessions are popped and pushed by different
\* threads in different orders, yet stay paired one to one and never repeat.
PoolPairsSlots ==
  /\ pool = freeSlots
  /\ \A i, j \in 1 .. Len(pool) : pool[i] = pool[j] => i = j

\* FreeSession ran for s and it waits for the workers' acknowledgements.
Retired(s) == s \in willReuse \/ (closer.pc = "retire" /\ closer.s = s)

\* A session in the pool belongs to no slot and is in no other container.
PooledIsNowhereElse ==
  \A s \in Sessions : InPool(s) => slotSession[s] = NoSession /\ ~Retired(s)

\* A session outside the pool is tied to the slot its id names; it is current
\* there until FreeSession, then one index behind and waiting for reuse.
AllocatedKeepsSlot ==
  \A s \in Sessions : ~InPool(s) =>
    /\ slotSession[s] = s /\ sid[s].slot = s
    /\ slotIndex[s] = sid[s].index + (IF Retired(s) THEN 1 ELSE 0)

\* What the two properties above rest on: the index of a slot runs one ahead of
\* its session's id while the session is not current, every id in circulation
\* was issued, and FreeSession comes before the session can be reused.
IndexRunsAhead ==
  \A s \in Sessions : InPool(s) =>
    /\ slotIndex[s] = sid[s].index + 1
    /\ sid[s] = NoId \/ sid[s].slot = s

IdsIssued ==
  /\ \A r \in Requesters : \A i \in 1 .. Len(closeRing[r]) :
       closeRing[r][i].index <= sid[closeRing[r][i].slot].index
  /\ \A t \in Workers : held[t].index <= sid[held[t].slot].index

RetiredBeforeReuse == closer.pc = "retire" => closer.s \notin willReuse

\* No slot and no session is lost or handed out twice, whatever the order of
\* Alloc, Free, AddToWillReuse and Move, and whichever worker moves first.
SessionsConserved ==
  PoolPairsSlots /\ PooledIsNowhereElse /\ AllocatedKeepsSlot

\* LSession.h:82: a session is handed out again only after the four threads
\* gave it up, so whoever holds a pointer still sees the incarnation it found.
HeldNotRecycled ==
  /\ \A t \in Workers : pc[t] \in Busy =>
       ~InPool(hand[t]) /\ sid[hand[t]] = held[t]
  /\ closer.pc \in Closing => ~InPool(closer.s) /\ sid[closer.s] = closer.id

\* LCloseSocketThread.cpp:431: a worker whose flag is up on a session does not
\* use that session any more, and nobody raises a flag on a current session.
AcknowledgedIsLetGo ==
  \A s \in Sessions : ~InPool(s) => \A t \in stopped[s] :
    /\ s \notin Live
    /\ ~(pc[t] \in Busy /\ hand[t] = s)
    /\ \A i \in 1 .. Len(stopRing[t]) : stopRing[t][i] # s

\* A retired session has at most one notice under way to each worker and no
\* pooled session has any: MaxClientNum places are enough for a stop ring.
StopNoticesFit ==
  \A t \in Workers :
    /\ Len(stopRing[t]) <= N
    /\ \A i, j \in 1 .. Len(stopRing[t]) :
         stopRing[t][i] = stopRing[t][j] => i = j
    /\ \A i \in 1 .. Len(stopRing[t]) : ~InPool(stopRing[t][i])

\* However many threads asked for the same close, a connection is retired and
\* its disconnect published at most once, and never while it is current.
DisconnectOnce ==
  /\ closer.pc # "idle" => closer.id \notin told
  /\ \A id \in told : id.index < slotIndex[id.slot]

\* LNetWorkServices.cpp:700: the connection is closed once the threads stopped
\* operating on it, so no thread works on a descriptor that is another's.
HeldSocketIsOwn ==
  \A t \in Workers, s \in Live :
    pc[t] \in Busy /\ sock[s] = sock[hand[t]] => hand[t] = s

\* LSessionManager.cpp:110: once the close thread has been asked, the session
\* comes back to the pool.
RequestedCloseIsRecycled ==
  \A s \in Sessions : closeSent[s] ~> InPool(s)

\* Every connection the engine closes is eventually reported to main.
DisconnectIsReported ==
  \A k \in Slots : \A i \in 1 .. MaxIndex :
    slotIndex[k] > i ~> [slot |-> k, index |-> i] \in told

\* The abstract pool this life cycle implements.
Status(s) ==
  IF InPool(s) THEN "free" ELSE IF s \in Live THEN "live" ELSE "closing"

Users(s) ==
  {t \in Workers : pc[t] \in Busy /\ hand[t] = s}
  \union {a \in {"accept"} : acc.s = s /\ acc.pc # "mark"}
  \union {c \in {"closer"} : closer.s = s /\ closer.pc \in Closing}

Abstract == INSTANCE SessionPool WITH
  Sessions <- Sessions, Threads <- Workers \union {"accept", "closer"},
  status <- [s \in Sessions |-> Status(s)],
  users  <- [s \in Sessions |-> Users(s)]

\* The life cycle never recycles a session under a user and never lets anyone
\* start using a session that is being closed.
ImplementsSessionPool == Abstract!Spec
=============================================================================
