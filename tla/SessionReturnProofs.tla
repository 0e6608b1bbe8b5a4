-------------------------- MODULE SessionReturnProofs --------------------------
(***************************************************************************)
(* No close is forgotten, for every number of sessions: the safety half of *)
(* RequestedCloseIsRecycled.                                               *)
(*                                                                         *)
(* A session whose close was asked for has its request in a ring until the *)
(* close thread retires it; of a retired session every worker raised its   *)
(* flag, has its notice in its ring or is still to be told; and with four  *)
(* flags up one of the workers is on its way to put the session back.  So  *)
(* there is always a thread with the next step to do, and what remains for *)
(* liveness is that every thread keeps running its loop.                   *)
(***************************************************************************)
EXTENDS SessionPoolProofs

\* The close thread has its notice to t still to do.
ToBeTold(s, t) == closer.s = s /\ t \in Untold[closer.pc]

\* The thread ids the accept thread set before it is at a step.
BoundSoFar ==
  [bind_recv |-> {}, bind_send |-> {"recv"}, bind_epoll |-> {"recv", "send"}]

\* The ids a session out of the pool has.
BoundNow(s) ==
  IF acc.s = s /\ acc.pc \in DOMAIN BoundSoFar THEN BoundSoFar[acc.pc] ELSE Bindings

\* Only a session of which all three ids are set gets all its notices.
BoundInFull == \A s \in Sessions : ~InPool(s) => bound[s] = BoundNow(s)

\* No worker is left out when a session is closed.
EachWorkerHears ==
  \A s \in Sessions : Retired(s) =>
    \A t \in Workers : t \in stopped[s] \/ Noticed(s, t) \/ ToBeTold(s, t)

\* A worker that has s in hand after its own flag, before it looked at the others
\* or after it saw them all.
Returning(s, t) == hand[t] = s /\ pc[t] \in {"check", "move"}

\* The last flag is raised by a worker that reads the four after it.
LastFlagReturns ==
  \A s \in Sessions : Retired(s) /\ AllStopped(s) => \E t \in Workers : Returning(s, t)

ReturnInv == BoundInFull /\ EachWorkerHears /\ LastFlagReturns

\* A request for the current connection of s lies in a ring.
Requested(s) ==
  \E r \in Requesters : \E i \in 1 .. Len(closeRing[r]) : closeRing[r][i] = sid[s]

\* Who asked for a close believes that the request is under way: the flag, or
\* the accept thread that is about to set it.
Asked(s) == closeSent[s] \/ (acc.pc = "mark" /\ acc.s = s)

AskedIsRequested ==
  \A s \in Sessions : ~InPool(s) /\ ~Retired(s) /\ Asked(s) => Requested(s)

\* ProcessKickOutSession sets the flag even when the append failed.
MainHasRoom == RequestClose("main") => Len(closeRing["main"]) < CloseCap

\* Nothing is under way between the threads.
Quiet ==
  /\ acc = Idle /\ closer = NotClosing
  /\ \A t \in Workers : pc[t] = "idle" /\ stopRing[t] = <<>>
  /\ \A r \in Requesters : closeRing[r] = <<>>

QuietMeansReturned ==
  Quiet => \A s \in Sessions : InPool(s) \/ (s \in Live /\ ~closeSent[s])

\* The id that the slot k had before it was bumped to i + 1.
IdOf(k, i) == [slot |-> k, index |-> i]

\* A connection that was closed is reported, or the close thread is at it.
ClosedIsReported ==
  \A k \in Slots : \A i \in Nat \ {0} :
    i < slotIndex[k] =>
      IdOf(k, i) \in told \/ (closer.pc # "idle" /\ closer.id = IdOf(k, i))

-----------------------------------------------------------------------------
(* What a step leaves as it was.                                            *)

\* Steps that touch no notice, no flag and no worker that puts a session back.
LEMMA HearFrame ==
  ASSUME EachWorkerHears, LastFlagReturns,
         UNCHANGED <<willReuse, closer, stopped, stopRing>>,
         \A s \in Sessions : \A t \in Workers :
           Retired(s) /\ AllStopped(s) /\ Returning(s, t) => Returning(s, t)'
  PROVE  EachWorkerHears' /\ LastFlagReturns'
<1>1. \A s : Retired(s)' <=> Retired(s)
  BY DEF Retired
<1>2. \A s : \A t \in Workers : /\ Noticed(s, t)' <=> Noticed(s, t)
                                /\ ToBeTold(s, t)' <=> ToBeTold(s, t)
  BY DEF Noticed, ToBeTold
<1>3. EachWorkerHears'
  BY <1>1, <1>2 DEF EachWorkerHears
<1>4. \A s : AllStopped(s)' <=> AllStopped(s)
  BY DEF AllStopped
<1>5. LastFlagReturns'
  BY <1>1, <1>4 DEF LastFlagReturns
<1> QED BY <1>3, <1>5

LEMMA BoundFrame ==
  ASSUME BoundInFull, UNCHANGED <<pool, bound, acc>>
  PROVE  BoundInFull'
BY DEF BoundInFull, BoundNow, InPool

\* The accept thread is done with a retired session, which has all its ids.
LEMMA RetiredIsBound ==
  ASSUME TypeOK, PoolInv, AcceptedIsPrivate, BoundInFull, NEW s \in Sessions, Retired(s)
  PROVE  bound[s] = Bindings
<1>1. ~InPool(s)
  BY DEF PoolInv, SessionsConserved, PooledIsNowhereElse
<1>2. acc.pc \in DOMAIN BoundSoFar => acc.s # s
  BY DEF AcceptedIsPrivate, BoundSoFar
<1> QED BY <1>1, <1>2 DEF BoundInFull, BoundNow

\* What goes to the pool when a worker puts its session back.
LEMMA Returned ==
  ASSUME TypeOK, PoolInv, AckInv, NEW t \in Workers, MoveToPool(t), hand[t] \in willReuse
  PROVE  /\ hand[t] \in Sessions
         /\ \A x : InPool(x)' <=> InPool(x) \/ x = hand[t]
         /\ \A x \in Sessions : Retired(x)' <=> Retired(x) /\ x # hand[t]
<1>1. PICK s \in Sessions : s = hand[t]
  BY DEF TypeOK, SlotsType
<1>2. Retired(s) /\ AllStopped(s)
  BY <1>1 DEF Retired, MoveToPool, AckInv, MoverSeesFlags
<1>3. ~(closer.pc \in Closing /\ closer.s = s)
  BY <1>2, NobodyLeft
<1>4. pool' = Append(pool, s) /\ willReuse' = willReuse \ {s} /\ closer' = closer
  BY <1>1 DEF MoveToPool
<1>5. \A x : InPool(x)' <=> InPool(x) \/ x = s
  <2>1. /\ pool \in Seq(Sessions)
        /\ \A i, j \in 1 .. Len(pool) : pool[i] = pool[j] => i = j
        /\ \A i \in 1 .. Len(pool) : pool[i] # s
    BY <1>2 DEF TypeOK, SlotsType, PoolInv, SessionsConserved, PoolPairsSlots,
       PooledIsNowhereElse, InPool
  <2>2. \A x : (\E i \in 1 .. Len(Append(pool, s)) : Append(pool, s)[i] = x)
                 <=> (\E i \in 1 .. Len(pool) : pool[i] = x) \/ x = s
    BY <2>1, AppendAddsElement
  <2> QED BY <1>4, <2>2, Zenon DEF InPool
<1>6. \A x \in Sessions : Retired(x)' <=> Retired(x) /\ x # s
  BY <1>3, <1>4 DEF Retired, Closing
<1> QED BY <1>1, <1>5, <1>6

-----------------------------------------------------------------------------
(* The way of a retired session back to the pool, action by action.         *)

LEMMA InitReturn == Init => ReturnInv
<1> SUFFICES ASSUME Init PROVE ReturnInv
  OBVIOUS
<1>1. \A s \in Sessions : InPool(s) /\ ~Retired(s)
  <2>1. TypeOK /\ PoolInv
    BY InitType, InitConserved
  <2>2. ASSUME NEW s \in Sessions PROVE InPool(s)
    <3>1. pool = [i \in 1 .. N |-> i - 1] /\ Len(pool) = N /\ N \in Nat
      BY ConstantsAssumption DEF Init
    <3>2. s + 1 \in 1 .. Len(pool) /\ pool[s + 1] = s
      BY <3>1 DEF Sessions
    <3> QED BY <3>2 DEF InPool
  <2> QED BY <2>1, <2>2 DEF PoolInv, SessionsConserved, PooledIsNowhereElse
<1> QED BY <1>1 DEF ReturnInv, BoundInFull, EachWorkerHears, LastFlagReturns

\* A new connection: no id is set, and no retired session is touched.
LEMMA AllocReturn ==
  ASSUME Bases, ReturnInv, AllocSession PROVE ReturnInv'
<1>1. PICK s \in Sessions : s = Head(pool)
  BY AllocTakes DEF Bases
<1>2. InPool(s) /\ \A x : InPool(x)' <=> InPool(x) /\ x # s
  BY <1>1, AllocTakes DEF Bases
<1>3. /\ acc = Idle /\ acc' = [pc |-> "bind_recv", s |-> s]
      /\ bound' = [bound EXCEPT ![s] = {}] /\ stopped' = [stopped EXCEPT ![s] = {}]
      /\ UNCHANGED <<willReuse, closer, stopRing, pc, hand>>
  BY <1>1 DEF AllocSession, Reset, Bases, TypeOK, AccType, rings, work
<1>4. ~Retired(s) /\ \A x : Retired(x)' <=> Retired(x)
  BY <1>2, <1>3 DEF Bases, PoolInv, SessionsConserved, PooledIsNowhereElse, Retired
<1>5. /\ bound'[s] = {}
      /\ \A x \in Sessions : x # s => bound'[x] = bound[x] /\ stopped'[x] = stopped[x]
  BY <1>3 DEF Bases, TypeOK, SessionType
<1>6. BoundInFull'
  <2>1. BoundNow(s)' = {}
    BY <1>3 DEF BoundNow, BoundSoFar
  <2>2. ASSUME NEW x \in Sessions, x # s, ~InPool(x) PROVE bound'[x] = BoundNow(x)'
    <3>1. bound[x] = Bindings
      BY <1>3, <2>2 DEF ReturnInv, BoundInFull, BoundNow, BoundSoFar, Idle
    <3> QED BY <1>3, <1>5, <2>2, <3>1 DEF BoundNow
  <2> QED BY <1>2, <1>5, <2>1, <2>2 DEF BoundInFull
<1>7. \A x : \A t \in Workers : /\ Noticed(x, t)' <=> Noticed(x, t)
                                /\ ToBeTold(x, t)' <=> ToBeTold(x, t)
                                /\ Returning(x, t)' <=> Returning(x, t)
  BY <1>3 DEF Noticed, ToBeTold, Returning
<1>8. EachWorkerHears'
  BY <1>4, <1>5, <1>7 DEF ReturnInv, EachWorkerHears
<1>9. LastFlagReturns'
  BY <1>4, <1>5, <1>7 DEF ReturnInv, LastFlagReturns, AllStopped
<1> QED BY <1>6, <1>8, <1>9 DEF ReturnInv

\* The accept thread sets the three ids in turn before it announces or gives up.
LEMMA AcceptReturn ==
  ASSUME Bases, ReturnInv, AcceptStep PROVE ReturnInv'
<1>1. UNCHANGED <<pool, willReuse, closer, stopped, stopRing, pc, hand>>
  <2>1. CASE BindRecvThread \/ BindSendThread \/ BindEpollThread
    BY <2>1 DEF BindRecvThread, BindSendThread, BindEpollThread, Bind, slots, rings, work
  <2>2. CASE AnnounceAccepted
    BY <2>2 DEF AnnounceAccepted, slots, rings, work
  <2>3. CASE AcceptGivesUp
    BY <2>3 DEF AcceptGivesUp, slots, session, work
  <2>4. CASE AcceptMarks
    BY <2>4 DEF AcceptMarks, slots, rings, work
  <2> QED BY <2>1, <2>2, <2>3, <2>4 DEF AcceptStep
<1>2. EachWorkerHears' /\ LastFlagReturns'
  BY <1>1, HearFrame DEF ReturnInv, Returning
<1>3. \A x : InPool(x)' <=> InPool(x)
  BY <1>1 DEF InPool
<1>4. acc.pc # "idle" /\ acc.s \in Sessions
  BY DEF Bases, TypeOK, AccType, Idle, AcceptStep, BindRecvThread, BindSendThread,
     BindEpollThread, Bind, AnnounceAccepted, AcceptGivesUp, AcceptMarks
<1>5. CASE BindRecvThread \/ BindSendThread \/ BindEpollThread
  <2>1. PICK s \in Sessions : s = acc.s
    BY <1>4
  <2>2. \E role \in Bindings :
          /\ acc.pc \in DOMAIN BoundSoFar /\ acc'.s = s
          /\ bound' = [bound EXCEPT ![s] = @ \union {role}]
          /\ BoundNow(s)' = BoundSoFar[acc.pc] \union {role}
    <3>1. CASE BindRecvThread
      <4>1. /\ acc.pc = "bind_recv" /\ acc'.pc = "bind_send" /\ acc'.s = s
            /\ bound' = [bound EXCEPT ![s] = @ \union {"recv"}]
        BY <2>1, <3>1 DEF BindRecvThread, Bind, Bases, TypeOK, AccType, Idle
      <4> QED BY <4>1 DEF BoundNow, BoundSoFar, Bindings
    <3>2. CASE BindSendThread
      <4>1. /\ acc.pc = "bind_send" /\ acc'.pc = "bind_epoll" /\ acc'.s = s
            /\ bound' = [bound EXCEPT ![s] = @ \union {"send"}]
        BY <2>1, <3>2 DEF BindSendThread, Bind, Bases, TypeOK, AccType, Idle
      <4> QED BY <4>1 DEF BoundNow, BoundSoFar, Bindings
    <3>3. CASE BindEpollThread
      <4>1. /\ acc.pc = "bind_epoll" /\ acc'.pc = "announce" /\ acc'.s = s
            /\ bound' = [bound EXCEPT ![s] = @ \union {"epoll"}]
        BY <2>1, <3>3 DEF BindEpollThread, Bind, Bases, TypeOK, AccType, Idle
      <4> QED BY <4>1 DEF BoundNow, BoundSoFar, Bindings
    <3> QED BY <1>5, <3>1, <3>2, <3>3
  <2>3. PICK role \in Bindings :
          /\ acc.pc \in DOMAIN BoundSoFar /\ acc'.s = s
          /\ bound' = [bound EXCEPT ![s] = @ \union {role}]
          /\ BoundNow(s)' = BoundSoFar[acc.pc] \union {role}
    BY <2>2
  <2>4. /\ bound'[s] = bound[s] \union {role}
        /\ \A x \in Sessions : x # s => bound'[x] = bound[x]
    BY <2>3 DEF Bases, TypeOK, SessionType
  <2>5. ASSUME NEW x \in Sessions, ~InPool(x) PROVE bound'[x] = BoundNow(x)'
    <3>1. CASE x = s
      <4>1. bound[s] = BoundSoFar[acc.pc]
        BY <2>1, <2>3, <2>5, <3>1 DEF ReturnInv, BoundInFull, BoundNow
      <4> QED BY <2>3, <2>4, <3>1, <4>1
    <3>2. CASE x # s
      <4>1. bound[x] = Bindings
        BY <2>1, <2>5, <3>2 DEF ReturnInv, BoundInFull, BoundNow
      <4> QED BY <2>3, <2>4, <3>2, <4>1 DEF BoundNow
    <3> QED BY <3>1, <3>2
  <2>6. BoundInFull'
    BY <1>3, <2>5 DEF BoundInFull
  <2> QED BY <1>2, <2>6 DEF ReturnInv
<1>6. CASE AnnounceAccepted \/ AcceptGivesUp \/ AcceptMarks
  <2>1. acc.pc \notin DOMAIN BoundSoFar /\ acc'.pc \notin DOMAIN BoundSoFar /\ bound' = bound
    BY <1>6 DEF AnnounceAccepted, AcceptGivesUp, AcceptMarks, BoundSoFar, Bases, TypeOK,
       AccType, Idle, session
  <2>2. BoundInFull'
    BY <1>3, <2>1 DEF ReturnInv, BoundInFull, BoundNow
  <2> QED BY <1>2, <2>2 DEF ReturnInv
<1> QED BY <1>5, <1>6 DEF AcceptStep

\* Nobody with something else to do puts a session back.
LEMMA WorkerReturn ==
  ASSUME Bases, ReturnInv, NEW t \in Workers, ~(pc[t] \in {"check", "move"}),
         UNCHANGED <<pool, bound, acc, willReuse, closer, stopped, stopRing>>,
         \A u \in Workers : u # t => pc'[u] = pc[u] /\ hand'[u] = hand[u]
  PROVE  ReturnInv'
<1>1. \A s \in Sessions : \A u \in Workers : Returning(s, u) => Returning(s, u)'
  BY DEF Returning
<1>2. EachWorkerHears' /\ LastFlagReturns'
  BY <1>1, HearFrame DEF ReturnInv
<1> QED BY <1>2, BoundFrame DEF ReturnInv

\* The notice becomes a flag, and who raised it looks at the others.
LEMMA AckStopReturn ==
  ASSUME Bases, ReturnInv, NEW t \in Workers, AckStop(t) PROVE ReturnInv'
<1>1. /\ pc[t] = "idle" /\ stopRing[t] # <<>>
      /\ stopRing' = [stopRing EXCEPT ![t] = Tail(@)]
      /\ stopped' = [stopped EXCEPT ![Head(stopRing[t])] = @ \union {t}]
      /\ hand' = [hand EXCEPT ![t] = Head(stopRing[t])]
      /\ pc' = [pc EXCEPT ![t] = "check"]
      /\ UNCHANGED <<pool, bound, acc, willReuse, closer>>
  BY DEF AckStop, slots
<1>2. PICK s \in Sessions :
        /\ s = Head(stopRing[t])
        /\ \A x \in Sessions : \A u \in Workers :
             Noticed(x, u)' <=> Noticed(x, u) /\ ~(x = s /\ u = t)
  BY <1>1, NoticeTaken DEF Bases, AckInv
<1>3. /\ stopped'[s] = stopped[s] \union {t}
      /\ \A x \in Sessions : x # s => stopped'[x] = stopped[x]
  BY <1>1, <1>2 DEF Bases, TypeOK, SessionType
<1>4. /\ hand'[t] = s /\ pc'[t] = "check"
      /\ \A u \in Workers : u # t => hand'[u] = hand[u] /\ pc'[u] = pc[u]
  BY <1>1, <1>2 DEF Bases, TypeOK, WorkType
<1>5. \A x : /\ Retired(x)' <=> Retired(x)
             /\ \A u \in Workers : ToBeTold(x, u)' <=> ToBeTold(x, u)
  BY <1>1 DEF Retired, ToBeTold
<1>6. EachWorkerHears'
  <2>1. ASSUME NEW x \in Sessions, Retired(x), NEW u \in Workers
        PROVE  u \in stopped'[x] \/ Noticed(x, u)' \/ ToBeTold(x, u)'
    <3>1. u \in stopped[x] \/ Noticed(x, u) \/ ToBeTold(x, u)
      BY <2>1 DEF ReturnInv, EachWorkerHears
    <3>2. CASE x = s /\ u = t
      BY <1>3, <3>2
    <3>3. CASE ~(x = s /\ u = t)
      BY <1>2, <1>3, <1>5, <3>1, <3>3
    <3> QED BY <3>2, <3>3
  <2> QED BY <1>5, <2>1 DEF EachWorkerHears
<1>7. LastFlagReturns'
  <2>1. ASSUME NEW x \in Sessions, Retired(x), AllStopped(x)'
        PROVE  \E u \in Workers : Returning(x, u)'
    <3>1. CASE x = s
      BY <1>4, <3>1 DEF Returning
    <3>2. CASE x # s
      <4>1. PICK u \in Workers : Returning(x, u)
        BY <1>3, <2>1, <3>2 DEF ReturnInv, LastFlagReturns, AllStopped
      <4>2. u # t
        BY <1>1, <4>1 DEF Returning
      <4> QED BY <1>4, <4>1, <4>2 DEF Returning
    <3> QED BY <3>1, <3>2
  <2> QED BY <1>5, <2>1 DEF LastFlagReturns
<1> QED BY <1>1, <1>6, <1>7, BoundFrame DEF ReturnInv

\* Who sees fewer than four flags leaves the session to a later one.
LEMMA CheckStopReturn ==
  ASSUME Bases, ReturnInv, NEW t \in Workers, CheckStop(t) PROVE ReturnInv'
<1>1. UNCHANGED <<pool, bound, acc, willReuse, closer, stopped, stopRing>>
  BY DEF CheckStop, slots, session, rings
<1>2. ASSUME NEW s \in Sessions, NEW u \in Workers, AllStopped(s), Returning(s, u)
      PROVE  Returning(s, u)'
  <2>1. CASE AllStopped(hand[t])
    BY <1>2, <2>1 DEF CheckStop, Returning, Bases, TypeOK, WorkType
  <2>2. CASE ~AllStopped(hand[t])
    <3>1. u # t
      BY <1>2, <2>2 DEF Returning
    <3> QED BY <1>2, <2>2, <3>1 DEF CheckStop, LetGo, Returning, Bases, TypeOK, WorkType
  <2> QED BY <2>1, <2>2
<1>3. EachWorkerHears' /\ LastFlagReturns'
  BY <1>1, <1>2, HearFrame DEF ReturnInv
<1> QED BY <1>1, <1>3, BoundFrame DEF ReturnInv

\* The first of them puts it back; the others find it gone.
LEMMA MoveReturn ==
  ASSUME Bases, ReturnInv, NEW t \in Workers, MoveToPool(t) PROVE ReturnInv'
<1>1. /\ LetGo(t) /\ AllStopped(hand[t]) /\ pc[t] = "move"
      /\ UNCHANGED <<acc, closer, stopped, stopRing>>
  BY DEF MoveToPool, Bases, AckInv, MoverSeesFlags, rings
<1>2. \A u \in Workers : u # t => pc'[u] = pc[u] /\ hand'[u] = hand[u]
  BY <1>1 DEF LetGo, Bases, TypeOK, WorkType
<1>3. CASE hand[t] \notin willReuse
  <2>1. UNCHANGED <<pool, bound, willReuse>>
    BY <1>3 DEF MoveToPool
  <2>2. ASSUME NEW s \in Sessions, NEW u \in Workers, Retired(s), AllStopped(s), Returning(s, u)
        PROVE  Returning(s, u)'
    <3>1. CASE u = t
      <4>1. closer.pc = "retire" /\ closer.s = s
        BY <1>3, <2>2, <3>1 DEF Returning, Retired
      <4> QED BY <2>2, <4>1, NobodyLeft DEF Bases, Closing
    <3>2. CASE u # t
      BY <1>2, <2>2, <3>2 DEF Returning
    <3> QED BY <3>1, <3>2
  <2>3. EachWorkerHears' /\ LastFlagReturns'
    BY <1>1, <2>1, <2>2, HearFrame DEF ReturnInv
  <2> QED BY <1>1, <2>1, <2>3, BoundFrame DEF ReturnInv
<1>4. CASE hand[t] \in willReuse
  <2>1. PICK s \in Sessions : s = hand[t]
    BY <1>4 DEF Bases, TypeOK, SlotsType
  <2>2. /\ \A x : InPool(x)' <=> InPool(x) \/ x = s
        /\ \A x \in Sessions : Retired(x)' <=> Retired(x) /\ x # s
    BY <1>4, <2>1, Returned DEF Bases
  <2>3. \A x \in Sessions : x # s => bound'[x] = bound[x]
    BY <1>4, <2>1 DEF MoveToPool, Bases, TypeOK, SessionType
  <2>4. BoundInFull'
    BY <1>1, <2>2, <2>3 DEF ReturnInv, BoundInFull, BoundNow
  <2>5. \A x : \A u \in Workers : /\ Noticed(x, u)' <=> Noticed(x, u)
                                  /\ ToBeTold(x, u)' <=> ToBeTold(x, u)
    BY <1>1 DEF Noticed, ToBeTold
  <2>6. EachWorkerHears'
    BY <1>1, <2>2, <2>5 DEF ReturnInv, EachWorkerHears
  <2>7. LastFlagReturns'
    <3>1. ASSUME NEW x \in Sessions, Retired(x), x # s, AllStopped(x)
          PROVE  \E u \in Workers : Returning(x, u)'
      <4>1. PICK u \in Workers : Returning(x, u)
        BY <3>1 DEF ReturnInv, LastFlagReturns
      <4>2. u # t
        BY <2>1, <3>1, <4>1 DEF Returning
      <4> QED BY <1>2, <4>1, <4>2 DEF Returning
    <3> QED BY <1>1, <2>2, <3>1 DEF LastFlagReturns, AllStopped
  <2> QED BY <2>4, <2>6, <2>7 DEF ReturnInv
<1> QED BY <1>3, <1>4

-----------------------------------------------------------------------------
\* A session just retired has all its notices before it and no flag up.
LEMMA TakeRequestReturn ==
  ASSUME Bases, ReturnInv, NEW r \in Requesters, TakeRequest(r) PROVE ReturnInv'
<1> DEFINE id == Head(closeRing[r])
           f == FindSession(id)
<1>1. id \in Ids /\ id.index <= sid[id.slot].index
  BY RequestIssued DEF TakeRequest, Bases
<1>2. UNCHANGED <<pool, bound, acc, willReuse, stopped, stopRing, pc, hand>>
  BY DEF TakeRequest, session, work
<1>3. BoundInFull'
  BY <1>2, BoundFrame DEF ReturnInv
<1>4. CASE f = NoSession
  <2>1. closer' = closer
    BY <1>4 DEF TakeRequest
  <2>2. EachWorkerHears' /\ LastFlagReturns'
    BY <1>2, <2>1, HearFrame DEF ReturnInv, Returning
  <2> QED BY <1>3, <2>2 DEF ReturnInv
<1>5. CASE f # NoSession
  <2>1. PICK s \in Sessions : s = f /\ ~InPool(s) /\ ~Retired(s)
    BY <1>1, <1>5, FoundIsCurrent DEF Bases
  <2>2. closer.pc = "idle" /\ closer' = [pc |-> "retire", s |-> s, id |-> sid[s]]
    BY <1>5, <2>1 DEF TakeRequest
  <2>3. \A x : Retired(x)' <=> Retired(x) \/ x = s
    BY <1>2, <2>2 DEF Retired
  <2>4. stopped[s] = {}
    BY <2>1 DEF Bases, AckInv, NoticesOfRetired
  <2>5. /\ \A x : \A t \in Workers : ~ToBeTold(x, t) /\ (Noticed(x, t)' <=> Noticed(x, t))
        /\ \A t \in Workers : ToBeTold(s, t)'
    BY <1>2, <2>2 DEF ToBeTold, Untold, Noticed
  <2>6. EachWorkerHears'
    BY <1>2, <2>3, <2>5 DEF ReturnInv, EachWorkerHears
  <2>7. ~AllStopped(s)'
    BY <1>2, <2>4 DEF AllStopped, Workers
  <2>8. LastFlagReturns'
    BY <1>2, <2>3, <2>7 DEF ReturnInv, LastFlagReturns, AllStopped, Returning
  <2> QED BY <1>3, <2>6, <2>8 DEF ReturnInv
<1> QED BY <1>4, <1>5

\* Steps of the close thread that leave the sessions it retired retired and
\* forget no worker it has to tell.
LEMMA CloserReturn ==
  ASSUME Bases, ReturnInv, UNCHANGED <<pool, bound, acc, stopped, pc, hand>>,
         \A s \in Sessions : Retired(s)' <=> Retired(s),
         \A s \in Sessions : \A t \in Workers : Retired(s) =>
           /\ Noticed(s, t) => Noticed(s, t)'
           /\ ToBeTold(s, t) => ToBeTold(s, t)' \/ Noticed(s, t)'
  PROVE  ReturnInv'
<1>1. BoundInFull'
  BY BoundFrame DEF ReturnInv
<1>2. EachWorkerHears'
  BY DEF ReturnInv, EachWorkerHears
<1>3. LastFlagReturns'
  BY DEF ReturnInv, LastFlagReturns, AllStopped, Returning
<1> QED BY <1>1, <1>2, <1>3 DEF ReturnInv

LEMMA RetireReturn ==
  ASSUME Bases, ReturnInv, AddToWillReuseManager PROVE ReturnInv'
<1>1. /\ closer.pc = "retire" /\ closer'.pc = "tell_main" /\ closer'.s = closer.s
      /\ willReuse' = willReuse \union {closer.s}
      /\ UNCHANGED <<pool, bound, acc, stopped, stopRing, pc, hand>>
  BY DEF AddToWillReuseManager, Bases, TypeOK, CloserType, NotClosing, session, rings, work
<1>2. \A s : Retired(s)' <=> Retired(s)
  BY <1>1 DEF Retired
<1>3. \A s : \A t \in Workers : /\ Noticed(s, t)' <=> Noticed(s, t)
                                /\ ToBeTold(s, t)' <=> ToBeTold(s, t)
  BY <1>1 DEF Noticed, ToBeTold, Untold
<1> QED BY <1>1, <1>2, <1>3, CloserReturn

\* A notice goes out to every worker in turn, because all three ids are set.
LEMMA TellReturn ==
  ASSUME Bases, ReturnInv, NEW t \in Workers,
         NEW from \in Closing \ {"retire"}, NEW to \in (Closing \union {"publish"}) \ {"retire"},
         Untold[from] = Untold[to] \union {t}, t \notin Untold[to], Tell(t, from, to)
  PROVE  ReturnInv'
<1>1. PICK s \in Sessions : s = closer.s
  BY DEF Tell, Bases, TypeOK, CloserType, NotClosing, Closing
<1>2. /\ closer.pc = from /\ closer'.pc = to /\ closer'.s = s
      /\ UNCHANGED <<pool, bound, acc, willReuse, stopped, pc, hand>>
  BY <1>1 DEF Tell, Bases, TypeOK, CloserType, NotClosing, Closing, slots, session, work
<1>3. Retired(s) /\ ~Noticed(s, t)
  BY <1>1, <1>2 DEF Bases, AckInv, CloserTellsInTurn
<1>4. bound[s] = Bindings
  BY <1>3, RetiredIsBound DEF Bases, ReturnInv
<1>5. stopRing' = [stopRing EXCEPT ![t] = Append(@, s)]
  BY <1>1, <1>4 DEF Tell, Workers, Bindings
<1>6. \A x \in Sessions : \A u \in Workers :
        Noticed(x, u)' <=> Noticed(x, u) \/ (x = s /\ u = t)
  BY <1>3, <1>5, NoticeAdded DEF Bases, AckInv
<1>7. \A x : Retired(x)' <=> Retired(x)
  BY <1>1, <1>2 DEF Retired
<1>8. \A x : \A u \in Workers : ToBeTold(x, u) => ToBeTold(x, u)' \/ (x = s /\ u = t)
  BY <1>1, <1>2 DEF ToBeTold
<1> QED BY <1>2, <1>6, <1>7, <1>8, CloserReturn

LEMMA PublishReturn ==
  ASSUME Bases, ReturnInv, PublishDisconnect PROVE ReturnInv'
<1>1. /\ closer.pc = "publish" /\ closer' = NotClosing
      /\ UNCHANGED <<pool, bound, acc, willReuse, stopped, stopRing, pc, hand>>
  BY DEF PublishDisconnect, slots, session, rings, work
<1>2. \A s : /\ Retired(s)' <=> Retired(s)
             /\ \A t \in Workers : ~ToBeTold(s, t) /\ (Noticed(s, t)' <=> Noticed(s, t))
  BY <1>1 DEF Retired, NotClosing, ToBeTold, Untold, Noticed
<1> QED BY <1>1, <1>2, CloserReturn

LEMMA NextReturn == ASSUME Bases, ReturnInv, [Next]_vars PROVE ReturnInv'
<1>1. CASE AllocSession \/ AcceptStep
  BY <1>1, AllocReturn, AcceptReturn
<1>2. ASSUME NEW t \in Workers, Find(t) \/ Leave(t) PROVE ReturnInv'
  <2>1. /\ pc[t] \in {"idle", "use", "ask"}
        /\ UNCHANGED <<pool, bound, acc, willReuse, closer, stopped, stopRing>>
        /\ \A u \in Workers : u # t => pc'[u] = pc[u] /\ hand'[u] = hand[u]
    <3>1. CASE Find(t)
      BY <3>1 DEF Find, slots, session, rings, Bases, TypeOK, WorkType
    <3>2. CASE Finish(t) \/ Judge(t)
      BY <3>2 DEF Finish, Judge, LetGo, slots, session, rings, Bases, TypeOK, WorkType
    <3>3. CASE RequestClose(t)
      BY <3>3 DEF RequestClose, LetGo, slots, Bases, TypeOK, WorkType
    <3> QED BY <1>2, <3>1, <3>2, <3>3 DEF Leave
  <2> QED BY <2>1, WorkerReturn
<1>3. ASSUME NEW t \in Workers, AckStop(t) \/ CheckStop(t) \/ MoveToPool(t) PROVE ReturnInv'
  BY <1>3, AckStopReturn, CheckStopReturn, MoveReturn
<1>4. ASSUME NEW r \in Requesters, TakeRequest(r) PROVE ReturnInv'
  BY <1>4, TakeRequestReturn
<1>5. CASE AddToWillReuseManager \/ PublishDisconnect
  BY <1>5, RetireReturn, PublishReturn
<1>6. CASE TellMain
  BY <1>6, TellReturn DEF TellMain, Untold, Closing, Workers
<1>7. CASE TellEpoll
  BY <1>7, TellReturn DEF TellEpoll, Untold, Closing, Workers
<1>8. CASE TellRecv
  BY <1>8, TellReturn DEF TellRecv, Untold, Closing, Workers
<1>9. CASE TellSend
  BY <1>9, TellReturn DEF TellSend, Untold, Closing, Workers
<1>10. CASE UNCHANGED vars
  <2>1. EachWorkerHears' /\ LastFlagReturns'
    BY <1>10, HearFrame DEF ReturnInv, Returning, vars, slots, session, rings, work
  <2>2. BoundInFull'
    BY <1>10, BoundFrame DEF ReturnInv, vars, slots, session
  <2> QED BY <2>1, <2>2 DEF ReturnInv
<1> QED
  BY <1>1, <1>2, <1>3, <1>4, <1>5, <1>6, <1>7, <1>8, <1>9, <1>10
  DEF Next, Ongoing, CloserStep, WornOut

-----------------------------------------------------------------------------
(* The request of a session whose close was asked for, action by action.    *)

\* A ring after one more request, and after the first was taken.
LEMMA OneMore ==
  ASSUME NEW S, NEW q \in Seq(S), NEW e \in S
  PROVE  /\ \A x : (\E i \in 1 .. Len(q) : q[i] = x)
                 => \E i \in 1 .. Len(Append(q, e)) : Append(q, e)[i] = x
         /\ \E i \in 1 .. Len(Append(q, e)) : Append(q, e)[i] = e
<1>1. /\ Len(q) \in Nat /\ Len(Append(q, e)) = Len(q) + 1
      /\ \A i \in 1 .. Len(q) : Append(q, e)[i] = q[i]
      /\ Append(q, e)[Len(q) + 1] = e
  BY AppendProperties, LenProperties
<1>2. /\ Len(q) + 1 \in 1 .. Len(Append(q, e))
      /\ \A i \in 1 .. Len(q) : i \in 1 .. Len(Append(q, e))
  BY <1>1
<1> QED BY <1>1, <1>2

LEMMA AllButTheHead ==
  ASSUME NEW S, NEW q \in Seq(S), q # <<>>
  PROVE  \A x : (\E i \in 1 .. Len(q) : q[i] = x)
               => x = Head(q) \/ \E i \in 1 .. Len(Tail(q)) : Tail(q)[i] = x
<1>1. /\ Len(q) \in Nat /\ Len(q) # 0
      /\ Len(Tail(q)) = Len(q) - 1 /\ Head(q) = q[1]
      /\ \A i \in 1 .. Len(Tail(q)) : Tail(q)[i] = q[i + 1]
  BY HeadTailProperties, LenProperties, EmptySeq
<1>2. ASSUME NEW i \in 1 .. Len(q), i # 1
      PROVE  \E j \in 1 .. Len(Tail(q)) : Tail(q)[j] = q[i]
  <2>1. i - 1 \in 1 .. Len(Tail(q)) /\ (i - 1) + 1 = i
    BY <1>1, <1>2
  <2> QED BY <1>1, <2>1
<1> QED BY <1>1, <1>2

\* Steps that ask for no close and take no request.
LEMMA AskedFrame ==
  ASSUME AskedIsRequested,
         UNCHANGED <<pool, willReuse, closer, sid, closeSent, closeRing>>,
         acc'.pc # "mark" \/ acc' = acc
  PROVE  AskedIsRequested'
<1>1. \A s \in Sessions : /\ InPool(s)' <=> InPool(s)
                          /\ Retired(s)' <=> Retired(s)
                          /\ Requested(s)' <=> Requested(s)
                          /\ Asked(s)' => Asked(s)
  BY DEF InPool, Retired, Requested, Asked
<1> QED BY <1>1 DEF AskedIsRequested

\* The request of the session s joins a ring and no other one leaves it.
LEMMA RequestJoins ==
  ASSUME TypeOK, NEW r \in Requesters, NEW s \in Sessions,
         Len(closeRing[r]) < CloseCap, AppendToClose(r, sid[s]), sid' = sid
  PROVE  Requested(s)' /\ \A x \in Sessions : Requested(x) => Requested(x)'
<1>1. closeRing[r] \in Seq(Ids) /\ sid[s] \in Ids
  BY DEF TypeOK, RingsType, SessionType
<1>2. /\ closeRing'[r] = Append(closeRing[r], sid[s])
      /\ \A q \in Requesters : q # r => closeRing'[q] = closeRing[q]
  BY DEF AppendToClose, TypeOK, RingsType
<1> DEFINE more == Append(closeRing[r], sid[s])
<1>3. /\ \A x : (\E i \in 1 .. Len(closeRing[r]) : closeRing[r][i] = x)
                 => \E i \in 1 .. Len(more) : more[i] = x
      /\ \E i \in 1 .. Len(more) : more[i] = sid[s]
  BY <1>1, OneMore
<1>4. Requested(s)'
  BY <1>2, <1>3 DEF Requested
<1>5. ASSUME NEW x \in Sessions, Requested(x) PROVE Requested(x)'
  <2>1. PICK q \in Requesters : \E i \in 1 .. Len(closeRing[q]) : closeRing[q][i] = sid[x]
    BY <1>5 DEF Requested
  <2>2. \E i \in 1 .. Len(closeRing'[q]) : closeRing'[q][i] = sid[x]
    <3>1. CASE q = r
      BY <1>2, <1>3, <2>1, <3>1
    <3>2. CASE q # r
      BY <1>2, <2>1, <3>2
    <3> QED BY <3>1, <3>2
  <2> QED BY <2>2 DEF Requested
<1> QED BY <1>4, <1>5

\* Reset takes the flag down before the session is anyone's connection.
LEMMA AllocAsked ==
  ASSUME TypeOK, PoolInv, AskedIsRequested, AllocSession PROVE AskedIsRequested'
<1>1. PICK s \in Sessions : s = Head(pool)
  BY AllocTakes
<1>2. /\ \A x : InPool(x)' <=> InPool(x) /\ x # s
      /\ sid' = [sid EXCEPT ![s] = [slot |-> s, index |-> slotIndex[s]]]
  BY <1>1, AllocTakes
<1>3. /\ acc'.pc # "mark" /\ closeSent' = [closeSent EXCEPT ![s] = FALSE]
      /\ UNCHANGED <<willReuse, closer, closeRing>>
  BY <1>1 DEF AllocSession, Reset, rings
<1>4. /\ ~closeSent'[s]
      /\ \A x \in Sessions : x # s => closeSent'[x] = closeSent[x] /\ sid'[x] = sid[x]
  BY <1>2, <1>3 DEF TypeOK, SessionType
<1>5. \A x : Retired(x)' <=> Retired(x)
  BY <1>3 DEF Retired
<1>6. ASSUME NEW x \in Sessions, (~InPool(x))', (~Retired(x))', Asked(x)'
      PROVE  Requested(x)'
  <2>1. x # s /\ closeSent[x]
    BY <1>3, <1>4, <1>6 DEF Asked
  <2>2. Requested(x)
    BY <1>2, <1>5, <1>6, <2>1 DEF AskedIsRequested, Asked
  <2> QED BY <1>3, <1>4, <2>1, <2>2 DEF Requested
<1> QED BY <1>6 DEF AskedIsRequested

\* The accept thread sets the flag after its request, which may be served by
\* then: the session is retired, or already back in the pool.
LEMMA AcceptAsked ==
  ASSUME TypeOK, AskedIsRequested, AcceptStep PROVE AskedIsRequested'
<1>1. CASE BindRecvThread \/ BindSendThread \/ BindEpollThread
  <2>1. acc'.pc # "mark" /\ UNCHANGED <<pool, willReuse, closer, sid, closeSent, closeRing>>
    BY <1>1 DEF BindRecvThread, BindSendThread, BindEpollThread, Bind, slots, rings,
       TypeOK, AccType, Idle
  <2> QED BY <2>1, AskedFrame
<1>2. CASE AnnounceAccepted
  <2>1. acc'.pc # "mark" /\ UNCHANGED <<pool, willReuse, closer, sid, closeSent, closeRing>>
    BY <1>2 DEF AnnounceAccepted, slots, rings, TypeOK, AccType, Idle
  <2> QED BY <2>1, AskedFrame
<1>3. CASE AcceptGivesUp
  <2>1. PICK s \in Sessions : s = acc.s
    BY <1>3 DEF AcceptGivesUp, TypeOK, AccType, Idle
  <2>2. UNCHANGED <<pool, willReuse, closer, sid, closeSent>> /\ acc.pc = "give_up"
    BY <1>3 DEF AcceptGivesUp, slots, session
  <2>3. AppendToClose("accept", sid[s]) /\ "accept" \in Requesters
    BY <1>3, <2>1 DEF AcceptGivesUp, Requesters
  <2>4. CASE Len(closeRing["accept"]) < CloseCap
    <3>1. Requested(s)' /\ \A x \in Sessions : Requested(x) => Requested(x)'
      BY <2>2, <2>3, <2>4, RequestJoins
    <3>2. acc'.s = s
      BY <1>3, <2>1, <2>4 DEF AcceptGivesUp, TypeOK, AccType, Idle
    <3>3. \A x \in Sessions : /\ InPool(x)' <=> InPool(x)
                              /\ Retired(x)' <=> Retired(x)
                              /\ Asked(x)' => Asked(x) \/ x = s
      BY <2>2, <3>2 DEF InPool, Retired, Asked
    <3> QED BY <3>1, <3>3 DEF AskedIsRequested
  <2>5. CASE ~(Len(closeRing["accept"]) < CloseCap)
    <3>1. acc'.pc # "mark" /\ closeRing' = closeRing
      BY <1>3, <2>3, <2>5 DEF AcceptGivesUp, AppendToClose, Idle
    <3> QED BY <2>2, <3>1, AskedFrame
  <2> QED BY <2>4, <2>5
<1>4. CASE AcceptMarks
  <2>1. PICK s \in Sessions : s = acc.s
    BY <1>4 DEF AcceptMarks, TypeOK, AccType, Idle
  <2>2. /\ acc.pc = "mark" /\ acc' = Idle /\ closeSent' = [closeSent EXCEPT ![s] = TRUE]
        /\ UNCHANGED <<pool, willReuse, closer, sid, closeRing>>
    BY <1>4, <2>1 DEF AcceptMarks, slots, rings
  <2>3. \A x \in Sessions : x # s => closeSent'[x] = closeSent[x]
    BY <2>2 DEF TypeOK, SessionType
  <2>4. \A x \in Sessions : /\ InPool(x)' <=> InPool(x)
                            /\ Retired(x)' <=> Retired(x)
                            /\ Requested(x)' <=> Requested(x)
                            /\ Asked(x)' => Asked(x)
    BY <2>1, <2>2, <2>3 DEF InPool, Retired, Requested, Asked, Idle
  <2> QED BY <2>4 DEF AskedIsRequested
<1> QED BY <1>1, <1>2, <1>3, <1>4 DEF AcceptStep

\* A worker raises the flag with its request in the ring, main because it has room.
LEMMA RequestAsked ==
  ASSUME TypeOK, AckInv, AskedIsRequested, MainHasRoom,
         NEW t \in Workers, RequestClose(t)
  PROVE  AskedIsRequested'
<1>1. /\ pc[t] = "ask" /\ AppendToClose(t, held[t])
      /\ UNCHANGED <<pool, willReuse, closer, sid, acc>>
  BY DEF RequestClose, slots
<1>2. t \in Requesters /\ hand[t] \in Sessions /\ held[t] = sid[hand[t]]
  BY <1>1 DEF TypeOK, WorkType, AckInv, UserHasNoFlag, Busy
<1>3. PICK s \in Sessions : s = hand[t]
  BY <1>2
<1>4. closeSent' = [closeSent EXCEPT ![s] = @ \/ t = "main" \/ Len(closeRing[t]) < CloseCap]
  BY <1>3 DEF RequestClose
<1>5. \A x \in Sessions : x # s => closeSent'[x] = closeSent[x]
  BY <1>4 DEF TypeOK, SessionType
<1>6. CASE Len(closeRing[t]) < CloseCap
  <2>1. Requested(s)' /\ \A x \in Sessions : Requested(x) => Requested(x)'
    BY <1>1, <1>2, <1>3, <1>6, RequestJoins
  <2>2. \A x \in Sessions : /\ InPool(x)' <=> InPool(x)
                            /\ Retired(x)' <=> Retired(x)
                            /\ Asked(x)' => Asked(x) \/ x = s
    BY <1>1, <1>5 DEF InPool, Retired, Asked
  <2> QED BY <2>1, <2>2 DEF AskedIsRequested
<1>7. CASE ~(Len(closeRing[t]) < CloseCap)
  <2>1. t # "main"
    BY <1>7 DEF MainHasRoom
  <2>2. closeSent'[s] = closeSent[s]
    BY <1>4, <1>7, <2>1 DEF TypeOK, SessionType
  <2>3. closeSent' = closeSent
    <3>1. /\ closeSent \in [Sessions -> BOOLEAN] /\ DOMAIN closeSent' = Sessions
          /\ closeSent' = [x \in Sessions |-> closeSent'[x]]
      BY <1>4 DEF TypeOK, SessionType
    <3> QED BY <1>5, <2>2, <3>1
  <2>4. closeRing' = closeRing
    BY <1>1, <1>7 DEF AppendToClose
  <2> QED BY <1>1, <2>3, <2>4, AskedFrame
<1> QED BY <1>6, <1>7

\* Only a retired session goes to the pool.
LEMMA MoveAsked ==
  ASSUME TypeOK, PoolInv, AckInv, AskedIsRequested, NEW t \in Workers, MoveToPool(t)
  PROVE  AskedIsRequested'
<1>1. UNCHANGED <<closer, sid, closeSent, closeRing, acc>>
  BY DEF MoveToPool, rings
<1>2. CASE hand[t] \notin willReuse
  BY <1>1, <1>2, AskedFrame DEF MoveToPool
<1>3. CASE hand[t] \in willReuse
  <2>1. /\ \A x : InPool(x)' <=> InPool(x) \/ x = hand[t]
        /\ \A x \in Sessions : Retired(x)' <=> Retired(x) /\ x # hand[t]
    BY <1>3, Returned
  <2>2. \A x \in Sessions : /\ Requested(x)' <=> Requested(x)
                            /\ Asked(x)' <=> Asked(x)
    BY <1>1 DEF Requested, Asked
  <2>3. ASSUME NEW x \in Sessions, (~InPool(x))', (~Retired(x))', Asked(x)'
        PROVE  Requested(x)'
    <3>1. ~InPool(x) /\ ~Retired(x) /\ Asked(x)
      BY <2>1, <2>2, <2>3
    <3> QED BY <2>2, <3>1 DEF AskedIsRequested
  <2> QED BY <2>3 DEF AskedIsRequested
<1> QED BY <1>2, <1>3

\* The close thread finds the session of a request for a current connection, and
\* so drops only requests nobody waits for.
LEMMA TakeRequestAsked ==
  ASSUME TypeOK, PoolInv, AskedIsRequested, NEW r \in Requesters, TakeRequest(r)
  PROVE  AskedIsRequested'
<1>1. /\ closeRing[r] # <<>> /\ closer.pc = "idle"
      /\ UNCHANGED <<pool, willReuse, sid, closeSent, acc>>
  BY DEF TakeRequest, session
<1>2. /\ closeRing'[r] = Tail(closeRing[r])
      /\ \A q \in Requesters : q # r => closeRing'[q] = closeRing[q]
  BY DEF TakeRequest, TypeOK, RingsType
<1>3. closeRing[r] \in Seq(Ids)
  BY DEF TypeOK, RingsType
<1>4. \A x : (\E i \in 1 .. Len(closeRing[r]) : closeRing[r][i] = x)
            => \/ x = Head(closeRing[r])
               \/ \E i \in 1 .. Len(Tail(closeRing[r])) : Tail(closeRing[r])[i] = x
  BY <1>1, <1>3, AllButTheHead
<1>5. \A x \in Sessions : /\ InPool(x)' <=> InPool(x)
                          /\ Asked(x)' <=> Asked(x)
                          /\ Retired(x) => Retired(x)'
  <2>1. ASSUME NEW x \in Sessions, Retired(x) PROVE Retired(x)'
    BY <1>1, <2>1 DEF Retired
  <2> QED BY <1>1, <2>1 DEF InPool, Asked
<1>6. ASSUME NEW x \in Sessions, ~InPool(x), ~Retired(x), Head(closeRing[r]) = sid[x]
      PROVE  Retired(x)'
  <2>1. FindSession(Head(closeRing[r])) = x
    BY <1>6, LiveIsCurrent DEF Live
  <2>2. x # NoSession
    BY ConstantsAssumption DEF Sessions, NoSession
  <2>3. closer' = [pc |-> "retire", s |-> x, id |-> sid[x]]
    BY <2>1, <2>2 DEF TakeRequest
  <2> QED BY <2>3 DEF Retired
<1>7. ASSUME NEW x \in Sessions, ~InPool(x), (~Retired(x))', Asked(x) PROVE Requested(x)'
  <2>1. ~Retired(x)
    BY <1>5, <1>7
  <2>2. Requested(x)
    BY <1>7, <2>1 DEF AskedIsRequested
  <2>3. PICK q \in Requesters : \E i \in 1 .. Len(closeRing[q]) : closeRing[q][i] = sid[x]
    BY <2>2 DEF Requested
  <2>4. sid[x] # Head(closeRing[r])
    BY <1>6, <1>7, <2>1
  <2>5. \E i \in 1 .. Len(closeRing'[q]) : closeRing'[q][i] = sid[x]
    <3>1. CASE q = r
      <4>1. \E i \in 1 .. Len(closeRing[r]) : closeRing[r][i] = sid[x]
        BY <2>3, <3>1
      <4>2. \E i \in 1 .. Len(Tail(closeRing[r])) : Tail(closeRing[r])[i] = sid[x]
        BY <1>4, <2>4, <4>1
      <4> QED BY <1>2, <3>1, <4>2
    <3>2. CASE q # r
      BY <1>2, <2>3, <3>2
    <3> QED BY <3>1, <3>2
  <2> QED BY <1>1, <2>5 DEF Requested
<1> QED BY <1>5, <1>7 DEF AskedIsRequested

LEMMA InitAsked == Init => AskedIsRequested
BY DEF Init, AskedIsRequested, Asked, Idle

LEMMA NextAsked ==
  ASSUME TypeOK, PoolInv, AckInv, AskedIsRequested, [Next]_vars, [MainHasRoom]_vars
  PROVE  AskedIsRequested'
<1>1. CASE AllocSession \/ AcceptStep
  BY <1>1, AllocAsked, AcceptAsked
<1>2. ASSUME NEW t \in Workers, Find(t) \/ Finish(t) \/ Judge(t) \/ AckStop(t) \/ CheckStop(t)
      PROVE  AskedIsRequested'
  <2>1. UNCHANGED <<pool, willReuse, closer, sid, closeSent, closeRing, acc>>
    <3>1. CASE Find(t) \/ CheckStop(t)
      BY <3>1 DEF Find, CheckStop, slots, session, rings
    <3>2. CASE Finish(t) \/ Judge(t)
      BY <3>2 DEF Finish, Judge, slots, session, rings
    <3>3. CASE AckStop(t)
      BY <3>3 DEF AckStop, slots
    <3> QED BY <1>2, <3>1, <3>2, <3>3
  <2> QED BY <2>1, AskedFrame
<1>3. ASSUME NEW t \in Workers, RequestClose(t) PROVE AskedIsRequested'
  <2>1. CASE MainHasRoom
    BY <1>3, <2>1, RequestAsked
  <2>2. CASE UNCHANGED vars
    BY <2>2, AskedFrame DEF vars, slots, session, rings
  <2> QED BY <2>1, <2>2
<1>4. ASSUME NEW t \in Workers, MoveToPool(t) PROVE AskedIsRequested'
  BY <1>4, MoveAsked
<1>5. ASSUME NEW r \in Requesters, TakeRequest(r) PROVE AskedIsRequested'
  BY <1>5, TakeRequestAsked
<1>6. CASE CloserStep
  <2>1. UNCHANGED <<pool, sid, closeSent, closeRing, acc>>
    <3>1. CASE AddToWillReuseManager \/ PublishDisconnect
      BY <3>1 DEF AddToWillReuseManager, PublishDisconnect, slots, session, rings
    <3>2. CASE TellMain \/ TellEpoll \/ TellRecv \/ TellSend
      BY <3>2 DEF TellMain, TellEpoll, TellRecv, TellSend, Tell, slots, session
    <3> QED BY <1>6, <3>1, <3>2 DEF CloserStep
  <2>2. \A s \in Sessions : Retired(s) => Retired(s)'
    <3>1. CASE AddToWillReuseManager
      BY <3>1 DEF AddToWillReuseManager, Retired
    <3>2. CASE PublishDisconnect
      BY <3>2 DEF PublishDisconnect, slots, Retired
    <3>3. CASE TellMain \/ TellEpoll \/ TellRecv \/ TellSend
      BY <3>3 DEF TellMain, TellEpoll, TellRecv, TellSend, Tell, slots, Retired
    <3> QED BY <1>6, <3>1, <3>2, <3>3 DEF CloserStep
  <2>3. \A s \in Sessions : /\ InPool(s)' <=> InPool(s)
                            /\ Requested(s)' <=> Requested(s)
                            /\ Asked(s)' <=> Asked(s)
    BY <2>1 DEF InPool, Requested, Asked
  <2> QED BY <2>2, <2>3 DEF AskedIsRequested
<1>7. CASE UNCHANGED vars
  BY <1>7, AskedFrame DEF vars, slots, session, rings
<1> QED
  BY <1>1, <1>2, <1>3, <1>4, <1>5, <1>6, <1>7 DEF Next, Ongoing, Leave, WornOut

-----------------------------------------------------------------------------
\* A session that is out of the pool and not current waits for a thread that has
\* a step to do for it: its worker is told, has its notice or has raised its flag,
\* and once all four have, one is on its way to MoveWillCloseSessionToSessionPool.
\* The accept thread must not be stalled in its binding when the idle kick comes
\* (AcceptMayStall), or a thread id is missing and no notice goes to its thread.
THEOREM RetiredIsOnItsWay ==
  Spec /\ ~AcceptMayStall /\ [][NotOvertaken]_vars => []ReturnInv
<1>1. ASSUME ~AcceptMayStall PROVE Spec /\ [][NotOvertaken]_vars => []ReturnInv
  <2>1. Init => ReturnInv
    BY InitReturn
  <2>2. IInv /\ AckInv /\ AcceptedInv /\ ReturnInv /\ [Next]_vars => ReturnInv'
    BY <1>1, NextReturn DEF IInv, AcceptedInv, Bases
  <2> QED BY <2>1, <2>2, LifecycleInv, AcknowledgementInv, AcceptedStaysPrivate, PTL
          DEF Spec
<1> QED BY <1>1

\* m_nCloseWorkSendedToCloseThread keeps every thread from asking a second time:
\* so as long as it is up on a current session, a request for that very id lies in
\* a ring of the close thread, which has not dropped it as stale.
\* ProcessKickOutSession must find room in its ring, as it sets the flag anyway.
THEOREM RequestsAreKept ==
  Spec /\ [][NotOvertaken]_vars /\ [][MainHasRoom]_vars => []AskedIsRequested
<1>1. Init => AskedIsRequested
  BY InitAsked
<1>2. IInv /\ AckInv /\ AskedIsRequested /\ [Next]_vars /\ [MainHasRoom]_vars
        => AskedIsRequested'
  BY NextAsked DEF IInv
<1> QED BY <1>1, <1>2, LifecycleInv, AcknowledgementInv, PTL DEF Spec

\* No session leaks: when every thread has done its work, each session is back in
\* the pool or is a current connection whose close nobody asked for.
THEOREM NothingLeaks ==
  Spec /\ ~AcceptMayStall /\ [][NotOvertaken]_vars /\ [][MainHasRoom]_vars
    => []QuietMeansReturned
<1>1. ASSUME IInv, ReturnInv, AskedIsRequested PROVE QuietMeansReturned
  <2> SUFFICES ASSUME Quiet, NEW s \in Sessions, ~InPool(s)
               PROVE  s \in Live /\ ~closeSent[s]
    BY DEF QuietMeansReturned
  <2>1. \A t \in Workers : ~Noticed(s, t) /\ ~ToBeTold(s, t) /\ ~Returning(s, t)
    BY DEF Quiet, Noticed, ToBeTold, Untold, NotClosing, Returning
  <2>2. ASSUME Retired(s) PROVE FALSE
    <3>1. \A t \in Workers : t \in stopped[s]
      BY <1>1, <2>1, <2>2 DEF ReturnInv, EachWorkerHears
    <3>2. stopped[s] \subseteq Workers
      BY <1>1 DEF IInv, TypeOK, SessionType
    <3>3. AllStopped(s)
      BY <3>1, <3>2 DEF AllStopped
    <3> QED BY <1>1, <2>1, <2>2, <3>3 DEF ReturnInv, LastFlagReturns
  <2>3. s \in Live
    BY <1>1, <2>2, LiveIsCurrent DEF IInv
  <2>4. ~Requested(s)
    BY DEF Quiet, Requested
  <2>5. ~closeSent[s]
    BY <1>1, <2>2, <2>4 DEF AskedIsRequested, Asked
  <2> QED BY <2>3, <2>5
<1>2. IInv /\ ReturnInv /\ AskedIsRequested => QuietMeansReturned
  BY <1>1
<1>3. ASSUME ~AcceptMayStall
      PROVE  Spec /\ [][NotOvertaken]_vars /\ [][MainHasRoom]_vars => []QuietMeansReturned
  <2>1. Spec /\ [][NotOvertaken]_vars => []ReturnInv
    BY <1>3, RetiredIsOnItsWay
  <2> QED BY <1>2, <2>1, LifecycleInv, RequestsAreKept, PTL
<1> QED BY <1>3

-----------------------------------------------------------------------------
(* The report of a closed connection.                                       *)

LEMMA ReportFrame ==
  ASSUME ClosedIsReported, UNCHANGED <<slotIndex, told>>,
         (closer'.pc # "idle" /\ closer'.id = closer.id) \/ closer' = closer
  PROVE  ClosedIsReported'
BY DEF ClosedIsReported, IdOf

\* FreeSession takes one index, and ProcessDisconnect keeps the id it had.
LEMMA TakeRequestReports ==
  ASSUME TypeOK, PoolInv, IdsIssued, ClosedIsReported,
         NEW r \in Requesters, TakeRequest(r)
  PROVE  ClosedIsReported'
<1> DEFINE id == Head(closeRing[r])
           f == FindSession(id)
<1>1. id \in Ids /\ id.index <= sid[id.slot].index
  BY RequestIssued DEF TakeRequest
<1>2. told' = told /\ closer.pc = "idle"
  BY DEF TakeRequest
<1>3. CASE f = NoSession
  BY <1>2, <1>3, ReportFrame DEF TakeRequest
<1>4. CASE f # NoSession
  <2>1. PICK s \in Sessions : s = f /\ sid[s].slot = s /\ slotIndex[s] = sid[s].index
    BY <1>1, <1>4, FoundIsCurrent
  <2>2. /\ slotIndex' = [slotIndex EXCEPT ![sid[s].slot] = @ + 1]
        /\ closer' = [pc |-> "retire", s |-> s, id |-> sid[s]]
    BY <1>4, <2>1 DEF TakeRequest
  <2>3. slotIndex \in [Slots -> Nat \ {0}] /\ sid[s] \in Ids /\ s \in Slots
    BY DEF TypeOK, SlotsType, SessionType, Slots, Sessions
  <2>4. sid[s] = IdOf(s, slotIndex[s])
    BY <2>1, <2>3 DEF Ids, IdOf
  <2>5. ASSUME NEW k \in Slots, NEW i \in Nat \ {0}, i < slotIndex'[k],
               IdOf(k, i) \notin told
        PROVE  closer'.pc # "idle" /\ closer'.id = IdOf(k, i)
    <3>1. ~(i < slotIndex[k])
      BY <1>2, <2>5 DEF ClosedIsReported
    <3>2. k = s /\ i = slotIndex[s]
      BY <2>1, <2>2, <2>3, <2>5, <3>1
    <3> QED BY <2>2, <2>4, <3>2
  <2> QED BY <1>2, <2>5 DEF ClosedIsReported, IdOf
<1> QED BY <1>3, <1>4

LEMMA NextReports ==
  ASSUME TypeOK, PoolInv, IdsIssued, ClosedIsReported, CloseQueueRoom, [Next]_vars
  PROVE  ClosedIsReported'
<1>1. CASE AllocSession
  BY <1>1, ReportFrame DEF AllocSession
<1>2. CASE AcceptStep
  <2>1. UNCHANGED <<slotIndex, told, closer>>
    BY <1>2 DEF AcceptStep, BindRecvThread, BindSendThread, BindEpollThread, Bind,
       AnnounceAccepted, AcceptGivesUp, AcceptMarks, slots
  <2> QED BY <2>1, ReportFrame
<1>3. ASSUME NEW t \in Workers, Find(t) \/ Leave(t) \/ AckStop(t) \/ CheckStop(t) \/ MoveToPool(t)
      PROVE  ClosedIsReported'
  <2>1. UNCHANGED <<slotIndex, told, closer>>
    BY <1>3 DEF Find, Leave, Finish, Judge, RequestClose, AckStop, CheckStop, MoveToPool, slots
  <2> QED BY <2>1, ReportFrame
<1>4. ASSUME NEW r \in Requesters, TakeRequest(r) PROVE ClosedIsReported'
  BY <1>4, TakeRequestReports
<1>5. CASE AddToWillReuseManager
  <2>1. UNCHANGED <<slotIndex, told>> /\ closer'.pc # "idle" /\ closer'.id = closer.id
    BY <1>5 DEF AddToWillReuseManager, TypeOK, CloserType, NotClosing
  <2> QED BY <2>1, ReportFrame
<1>6. CASE TellMain \/ TellEpoll \/ TellRecv \/ TellSend
  <2>1. UNCHANGED <<slotIndex, told>> /\ closer'.pc # "idle" /\ closer'.id = closer.id
    BY <1>6 DEF TellMain, TellEpoll, TellRecv, TellSend, Tell, slots, TypeOK, CloserType,
       NotClosing
  <2> QED BY <2>1, ReportFrame
<1>7. CASE PublishDisconnect
  <2>1. told' = told \union {closer.id} /\ slotIndex' = slotIndex
    BY <1>7 DEF PublishDisconnect, slots
  <2> QED BY <2>1 DEF ClosedIsReported, IdOf
<1>8. CASE UNCHANGED vars
  BY <1>8, ReportFrame DEF vars, slots
<1> QED
  BY <1>1, <1>2, <1>3, <1>4, <1>5, <1>6, <1>7, <1>8 DEF Next, Ongoing, CloserStep, WornOut

\* No closed connection is forgotten on its way to the main thread: of every id
\* FreeSession made stale, the disconnect was published or ProcessDisconnect still
\* has it, provided that the queue to the main thread has room.
THEOREM ClosedConnectionsAreReported ==
  Spec /\ CloseQueueRoom => []ClosedIsReported
<1>1. ASSUME CloseQueueRoom PROVE Spec => []ClosedIsReported
  <2>1. Init => ClosedIsReported
    BY DEF Init, ClosedIsReported
  <2>2. IInv /\ ClosedIsReported /\ [Next]_vars => ClosedIsReported'
    BY <1>1, NextReports DEF IInv
  <2> QED BY <2>1, <2>2, LifecycleInv, PTL DEF Spec
<1> QED BY <1>1
=============================================================================
