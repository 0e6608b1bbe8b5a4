------------------------ MODULE SessionLifecycleProofs ------------------------
(***************************************************************************)
(* Proofs about SessionLifecycle for every value of its constants: the     *)
(* number of sessions and ring places, how often a slot is reused, and     *)
(* whichever of the three hazards the Boolean constants let happen.        *)
(***************************************************************************)
EXTENDS SessionLifecycle, SequenceTheorems, TLAPS

USE ConstantsAssumption DEF NoSession, Slots, Sessions, Ids, FDs

-----------------------------------------------------------------------------
(* Lemmas about the queues.                                                 *)

\* Popping a queue without repetitions removes its head and nothing else.
LEMMA TailRemovesHead ==
  ASSUME NEW S, NEW q \in Seq(S), q # <<>>,
         \A i, j \in 1 .. Len(q) : q[i] = q[j] => i = j
  PROVE  /\ Tail(q) \in Seq(S) /\ Head(q) \in S
         /\ \E i \in 1 .. Len(q) : q[i] = Head(q)
         /\ \A i, j \in 1 .. Len(Tail(q)) : Tail(q)[i] = Tail(q)[j] => i = j
         /\ \A x : (\E i \in 1 .. Len(Tail(q)) : Tail(q)[i] = x)
                     <=> (\E i \in 1 .. Len(q) : q[i] = x) /\ x # Head(q)
<1>1. /\ Len(q) \in Nat \ {0} /\ Len(Tail(q)) = Len(q) - 1
      /\ Head(q) = q[1] /\ Tail(q) \in Seq(S) /\ Head(q) \in S
      /\ \A i \in 1 .. Len(Tail(q)) : Tail(q)[i] = q[i+1]
  BY HeadTailProperties, LenProperties, EmptySeq
<1>2. \A i, j \in 1 .. Len(Tail(q)) : Tail(q)[i] = Tail(q)[j] => i = j
  BY <1>1
<1>3. ASSUME NEW x
      PROVE  (\E i \in 1 .. Len(Tail(q)) : Tail(q)[i] = x)
                <=> (\E i \in 1 .. Len(q) : q[i] = x) /\ x # Head(q)
  <2>1. ASSUME NEW i \in 1 .. Len(Tail(q)), Tail(q)[i] = x
        PROVE  (\E k \in 1 .. Len(q) : q[k] = x) /\ x # Head(q)
    <3>1. i + 1 \in 1 .. Len(q) /\ 1 \in 1 .. Len(q) /\ q[i+1] = x
      BY <1>1, <2>1
    <3>2. QED BY <1>1, <3>1
  <2>2. ASSUME NEW i \in 1 .. Len(q), q[i] = x, x # Head(q)
        PROVE  \E k \in 1 .. Len(Tail(q)) : Tail(q)[k] = x
    <3>1. i # 1 /\ i - 1 \in 1 .. Len(Tail(q))
      BY <1>1, <2>2
    <3>2. Tail(q)[i-1] = x
      BY <1>1, <2>2, <3>1
    <3>3. QED BY <3>1, <3>2
  <2>3. QED BY <2>1, <2>2
<1>4. 1 \in 1 .. Len(q)
  BY <1>1
<1>5. QED BY <1>1, <1>2, <1>3, <1>4

\* Pushing a new element adds it and nothing else.
LEMMA AppendAddsElement ==
  ASSUME NEW S, NEW q \in Seq(S), NEW e \in S,
         \A i, j \in 1 .. Len(q) : q[i] = q[j] => i = j,
         \A i \in 1 .. Len(q) : q[i] # e
  PROVE  /\ Append(q, e) \in Seq(S)
         /\ \A i, j \in 1 .. Len(Append(q, e)) :
              Append(q, e)[i] = Append(q, e)[j] => i = j
         /\ \A x : (\E i \in 1 .. Len(Append(q, e)) : Append(q, e)[i] = x)
                     <=> (\E i \in 1 .. Len(q) : q[i] = x) \/ x = e
<1>1. /\ Append(q, e) \in Seq(S) /\ Len(q) \in Nat
      /\ Len(Append(q, e)) = Len(q) + 1
      /\ \A i \in 1 .. Len(q) : Append(q, e)[i] = q[i]
      /\ Append(q, e)[Len(q) + 1] = e
  BY AppendProperties, LenProperties
<1>2. \A i \in 1 .. Len(q) + 1 : i \in 1 .. Len(q) \/ i = Len(q) + 1
  BY <1>1
<1>3. \A i, j \in 1 .. Len(Append(q, e)) :
        Append(q, e)[i] = Append(q, e)[j] => i = j
  BY <1>1, <1>2
<1>4. ASSUME NEW x
      PROVE  (\E i \in 1 .. Len(Append(q, e)) : Append(q, e)[i] = x)
                <=> (\E i \in 1 .. Len(q) : q[i] = x) \/ x = e
  <2>1. 1 .. Len(q) \subseteq 1 .. Len(q) + 1 /\ Len(q) + 1 \in 1 .. Len(q) + 1
    BY <1>1
  <2>2. QED BY <1>1, <1>2, <2>1
<1>5. QED BY <1>1, <1>3, <1>4

-----------------------------------------------------------------------------
(* Type correctness.                                                        *)

\* FindSession answers with a session or with NULL.
LEMMA FindSessionType ==
  ASSUME TypeOK, NEW id \in Ids
  PROVE  FindSession(id) \in Sessions \union {NoSession}
BY DEF TypeOK, SlotsType, FindSession

LEMMA InitType == Init => TypeOK
<1> SUFFICES ASSUME Init PROVE TypeOK
  OBVIOUS
<1>1. [i \in 1 .. N |-> i - 1] \in Seq(0 .. N-1)
  BY IsASeq
<1>2. SlotsType
  BY <1>1 DEF Init, SlotsType
<1>3. SessionType
  BY DEF Init, SessionType, NoId
<1>4. RingsType
  BY EmptySeq DEF Init, RingsType
<1>5. WorkType
  BY DEF Init, WorkType, NoId
<1>6. QED
  BY <1>2, <1>3, <1>4, <1>5 DEF Init, TypeOK, AccType, CloserType

LEMMA NextType == TypeOK /\ [Next]_vars => TypeOK'
<1> SUFFICES ASSUME TypeOK, [Next]_vars PROVE TypeOK'
  OBVIOUS
<1> USE DEF slots, session, rings, work
<1>a. /\ SlotsType /\ SessionType /\ RingsType /\ AccType /\ CloserType
      /\ WorkType /\ told \in SUBSET Ids
  BY DEF TypeOK
<1>1. CASE AllocSession
  <2>1. /\ Head(freeSlots) \in Slots /\ Tail(freeSlots) \in Seq(Slots)
        /\ Head(pool) \in Sessions /\ Tail(pool) \in Seq(Sessions)
    <3>1. /\ freeSlots \in Seq(Slots) /\ freeSlots # <<>>
          /\ pool \in Seq(Sessions) /\ pool # <<>>
      BY <1>1, <1>a DEF AllocSession, SlotsType
    <3>2. QED BY <3>1, HeadTailProperties
  <2>2. [slot |-> Head(freeSlots), index |-> slotIndex[Head(freeSlots)]] \in Ids
    BY <1>a, <2>1 DEF SlotsType
  <2>3. SlotsType'
    BY <1>1, <1>a, <2>1 DEF AllocSession, SlotsType
  <2>4. SessionType'
    <3>1. sock' \in [Sessions -> FDs]
      <4>1. PICK fd \in FDs : sock' = [sock EXCEPT ![Head(pool)] = fd]
        BY <1>1 DEF AllocSession
      <4>2. QED BY <1>a, <4>1 DEF SessionType
    <3>2. sid' \in [Sessions -> Ids]
      BY <1>1, <1>a, <2>2 DEF AllocSession, SessionType
    <3>3. Reset(Head(pool))
      BY <1>1 DEF AllocSession
    <3>4. QED BY <1>a, <3>1, <3>2, <3>3 DEF Reset, SessionType
  <2>5. AccType'
    BY <1>1, <2>1 DEF AllocSession, AccType
  <2>6. RingsType' /\ CloserType' /\ WorkType' /\ told' \in SUBSET Ids
    BY <1>1, <1>a DEF AllocSession, RingsType, CloserType, WorkType
  <2>7. QED BY <2>3, <2>4, <2>5, <2>6 DEF TypeOK
<1>2. CASE BindRecvThread
  <2>1. acc \in [pc : {"bind_recv"}, s : Sessions]
    BY <1>2, <1>a DEF BindRecvThread, Bind, AccType, Idle
  <2>2. SessionType' /\ AccType'
    BY <1>2, <1>a, <2>1 DEF BindRecvThread, Bind, SessionType, AccType, Bindings
  <2>3. QED
    BY <1>2, <1>a, <2>2 DEF BindRecvThread, Bind, TypeOK, SlotsType, RingsType,
       CloserType, WorkType
<1>3. CASE BindSendThread
  <2>1. SessionType' /\ AccType'
    BY <1>3, <1>a DEF BindSendThread, Bind, SessionType, AccType, Bindings, Idle
  <2>2. QED
    BY <1>3, <1>a, <2>1 DEF BindSendThread, Bind, TypeOK, SlotsType, RingsType,
       CloserType, WorkType
<1>4. CASE BindEpollThread
  <2>1. SessionType' /\ AccType'
    BY <1>4, <1>a DEF BindEpollThread, Bind, SessionType, AccType, Bindings, Idle
  <2>2. QED
    BY <1>4, <1>a, <2>1 DEF BindEpollThread, Bind, TypeOK, SlotsType, RingsType,
       CloserType, WorkType
<1>5. CASE AnnounceAccepted
  <2>1. SessionType' /\ AccType'
    <3>1. acc \in [pc : {"announce"}, s : Sessions]
      BY <1>5, <1>a DEF AnnounceAccepted, AccType, Idle
    <3>2. AccType'
      BY <1>5, <3>1 DEF AnnounceAccepted, AccType
    <3>3. announced' \in [Sessions -> BOOLEAN]
      BY <1>5, <1>a DEF AnnounceAccepted, SessionType
    <3>4. QED BY <1>5, <1>a, <3>2, <3>3 DEF AnnounceAccepted, SessionType
  <2>2. QED
    BY <1>5, <1>a, <2>1 DEF AnnounceAccepted, TypeOK, SlotsType, RingsType,
       CloserType, WorkType
<1>6. CASE AcceptGivesUp
  <2>1. sid[acc.s] \in Ids
    BY <1>6, <1>a DEF AcceptGivesUp, AccType, Idle, SessionType
  <2>2. Append(closeRing["accept"], sid[acc.s]) \in Seq(Ids)
    BY <1>a, <2>1, AppendProperties DEF RingsType, Requesters
  <2>3. RingsType'
    BY <1>6, <1>a, <2>2 DEF AcceptGivesUp, AppendToClose, RingsType
  <2>4. AccType'
    BY <1>6, <1>a DEF AcceptGivesUp, AccType, Idle
  <2>5. QED
    BY <1>6, <1>a, <2>3, <2>4 DEF AcceptGivesUp, TypeOK, SlotsType, SessionType,
       CloserType, WorkType
<1>7. CASE AcceptMarks
  BY <1>7, <1>a DEF AcceptMarks, TypeOK, SlotsType, SessionType, RingsType,
     AccType, CloserType, WorkType
<1>8. ASSUME NEW t \in Workers, Find(t)
      PROVE  TypeOK'
  <2>1. PICK s \in Sessions : /\ hand' = [hand EXCEPT ![t] = s]
                              /\ held' = [held EXCEPT ![t] = sid[s]]
    BY <1>8 DEF Find, Live
  <2>2. sid[s] \in Ids
    BY <1>a DEF SessionType
  <2>3. WorkType'
    BY <1>8, <1>a, <2>1, <2>2 DEF Find, WorkType
  <2>4. QED
    BY <1>8, <1>a, <2>3 DEF Find, TypeOK, SlotsType, SessionType, RingsType,
       AccType, CloserType
<1>9. ASSUME NEW t \in Workers, LetGo(t)
      PROVE  WorkType'
  BY <1>9, <1>a DEF LetGo, WorkType, NoId
<1>10. ASSUME NEW t \in Workers, Finish(t)
       PROVE  TypeOK'
  BY <1>10, <1>9, <1>a DEF Finish, TypeOK, SlotsType, SessionType, RingsType,
     AccType, CloserType
<1>11. ASSUME NEW t \in Workers, Judge(t)
       PROVE  TypeOK'
  <2>1. WorkType'
    BY <1>11, <1>a DEF Judge, WorkType
  <2>2. QED
    BY <1>11, <1>a, <2>1 DEF Judge, TypeOK, SlotsType, SessionType, RingsType,
       AccType, CloserType
<1>12. ASSUME NEW t \in Workers, RequestClose(t)
       PROVE  TypeOK'
  <2>1. held[t] \in Ids
    BY <1>a DEF WorkType
  <2>2. Append(closeRing[t], held[t]) \in Seq(Ids)
    <3>1. t \in Requesters
      BY <1>12, <1>a DEF RequestClose, WorkType
    <3>2. QED BY <1>a, <2>1, <3>1, AppendProperties DEF RingsType
  <2>3. RingsType'
    BY <1>12, <1>a, <2>2 DEF RequestClose, AppendToClose, RingsType
  <2>4. SessionType'
    <3>1. PICK b \in BOOLEAN : closeSent' = [closeSent EXCEPT ![hand[t]] = b]
      BY <1>12 DEF RequestClose
    <3>2. QED BY <1>12, <1>a, <3>1 DEF RequestClose, SessionType
  <2>5. QED
    BY <1>12, <1>9, <1>a, <2>3, <2>4 DEF RequestClose, TypeOK, SlotsType,
       AccType, CloserType
<1>13. ASSUME NEW t \in Workers, AckStop(t)
       PROVE  TypeOK'
  <2>1. Head(stopRing[t]) \in Sessions /\ Tail(stopRing[t]) \in Seq(Sessions)
    <3>1. stopRing[t] \in Seq(Sessions) /\ stopRing[t] # <<>>
      BY <1>13, <1>a DEF AckStop, RingsType
    <3>2. QED BY <3>1, HeadTailProperties
  <2>2. SessionType' /\ RingsType'
    BY <1>13, <1>a, <2>1 DEF AckStop, SessionType, RingsType
  <2>3. WorkType'
    BY <1>13, <1>a, <2>1 DEF AckStop, WorkType
  <2>4. QED
    BY <1>13, <1>a, <2>2, <2>3 DEF AckStop, TypeOK, SlotsType, AccType, CloserType
<1>14. ASSUME NEW t \in Workers, CheckStop(t)
       PROVE  TypeOK'
  <2>1. WorkType'
    BY <1>14, <1>9, <1>a DEF CheckStop, WorkType
  <2>2. QED
    BY <1>14, <1>a, <2>1 DEF CheckStop, TypeOK, SlotsType, SessionType,
       RingsType, AccType, CloserType
<1>15. ASSUME NEW t \in Workers, MoveToPool(t)
       PROVE  TypeOK'
  <2>1. hand[t] \in Sessions
    BY <1>15, <1>a DEF MoveToPool, WorkType
  <2>2. sid[hand[t]].slot \in Slots
    BY <1>a, <2>1 DEF SessionType
  <2>3. /\ Append(pool, hand[t]) \in Seq(Sessions)
        /\ Append(freeSlots, sid[hand[t]].slot) \in Seq(Slots)
    BY <1>a, <2>1, <2>2, AppendProperties DEF SlotsType
  <2>4. SlotsType'
    BY <1>15, <1>a, <2>3 DEF MoveToPool, SlotsType
  <2>5. QED
    BY <1>15, <1>9, <1>a, <2>4 DEF MoveToPool, TypeOK, SessionType, RingsType,
       AccType, CloserType
<1>16. ASSUME NEW r \in Requesters, TakeRequest(r)
       PROVE  TypeOK'
  <2>1. Head(closeRing[r]) \in Ids /\ Tail(closeRing[r]) \in Seq(Ids)
    <3>1. closeRing[r] \in Seq(Ids) /\ closeRing[r] # <<>>
      BY <1>16, <1>a DEF TakeRequest, RingsType
    <3>2. QED BY <3>1, HeadTailProperties
  <2>2. FindSession(Head(closeRing[r])) \in Sessions \union {NoSession}
    BY <2>1, FindSessionType
  <2>3. RingsType'
    BY <1>16, <1>a, <2>1 DEF TakeRequest, RingsType
  <2>4. CASE FindSession(Head(closeRing[r])) = NoSession
    BY <1>16, <1>a, <2>3, <2>4 DEF TakeRequest, TypeOK, SlotsType, SessionType,
       AccType, CloserType, WorkType
  <2>5. CASE FindSession(Head(closeRing[r])) # NoSession
    <3>1. PICK s \in Sessions :
            /\ slotIndex' = [slotIndex EXCEPT ![sid[s].slot] = @ + 1]
            /\ closer' = [pc |-> "retire", s |-> s, id |-> sid[s]]
      BY <1>16, <2>2, <2>5 DEF TakeRequest
    <3>2. SlotsType'
      <4>1. sid[s].slot \in Slots
        BY <1>a DEF SessionType
      <4>2. slotIndex' \in [Slots -> Nat \ {0}]
        BY <1>a, <3>1, <4>1 DEF SlotsType
      <4>3. QED BY <1>16, <1>a, <4>2 DEF TakeRequest, SlotsType
    <3>3. CloserType'
      <4>1. sid[s] \in Ids
        BY <1>a DEF SessionType
      <4>2. QED BY <3>1, <4>1 DEF CloserType, Closing
    <3>4. QED
      BY <1>16, <1>a, <2>3, <3>2, <3>3 DEF TakeRequest, TypeOK, SessionType,
         AccType, WorkType
  <2>6. QED BY <2>4, <2>5
<1>17. CASE AddToWillReuseManager
  <2>1. closer \in [pc : Closing, s : Sessions, id : Ids]
    BY <1>17, <1>a DEF AddToWillReuseManager, CloserType, NotClosing, Closing
  <2>2. SlotsType' /\ CloserType'
    BY <1>17, <1>a, <2>1 DEF AddToWillReuseManager, SlotsType, CloserType, Closing
  <2>3. QED
    BY <1>17, <1>a, <2>2 DEF AddToWillReuseManager, TypeOK, SessionType,
       RingsType, AccType, WorkType
<1>18. ASSUME NEW t \in Workers, NEW from \in Closing,
              NEW to \in Closing \union {"publish"}, Tell(t, from, to)
       PROVE  TypeOK'
  <2>1. closer \in [pc : Closing, s : Sessions, id : Ids]
    BY <1>18, <1>a DEF Tell, CloserType, NotClosing, Closing
  <2>2. Append(stopRing[t], closer.s) \in Seq(Sessions)
    BY <1>a, <2>1, AppendProperties DEF RingsType
  <2>3. RingsType' /\ CloserType'
    BY <1>18, <1>a, <2>1, <2>2 DEF Tell, RingsType, CloserType
  <2>4. QED
    BY <1>18, <1>a, <2>3 DEF Tell, TypeOK, SlotsType, SessionType, AccType, WorkType
<1>19. CASE TellMain \/ TellEpoll \/ TellRecv \/ TellSend
  <2>1. /\ {"main", "epoll", "recv", "send"} = Workers
        /\ {"tell_main", "tell_epoll", "tell_recv", "tell_send"} \subseteq Closing
    BY DEF Workers, Closing
  <2>2. QED BY <1>18, <1>19, <2>1 DEF TellMain, TellEpoll, TellRecv, TellSend
<1>20. CASE PublishDisconnect
  <2>1. closer.id \in Ids
    BY <1>20, <1>a DEF PublishDisconnect, CloserType, NotClosing
  <2>2. QED
    BY <1>20, <1>a, <2>1 DEF PublishDisconnect, TypeOK, SlotsType, SessionType,
       RingsType, AccType, CloserType, WorkType
<1>21. CASE UNCHANGED vars
  BY <1>21, <1>a DEF vars, TypeOK, SlotsType, SessionType, RingsType, AccType,
     CloserType, WorkType
<1>22. QED
  BY <1>1, <1>2, <1>3, <1>4, <1>5, <1>6, <1>7, <1>8, <1>10, <1>11, <1>12,
     <1>13, <1>14, <1>15, <1>16, <1>17, <1>19, <1>20, <1>21
  DEF Next, Ongoing, AcceptStep, Leave, CloserStep, WornOut

\* Every reachable state has the types TypeOK gives: in particular the close
\* thread and the workers never act on a NULL session.
THEOREM TypeCorrect == Spec => []TypeOK
BY InitType, NextType, PTL DEF Spec

-----------------------------------------------------------------------------
(* Conservation of slots and sessions.                                      *)

\* The part of the invariant about the pool, and all of it.
PoolInv == SessionsConserved /\ IndexRunsAhead /\ RetiredBeforeReuse
IInv == TypeOK /\ PoolInv /\ IdsIssued

\* An id names its own session's slot, or was never issued.
LEMMA SlotOfSession ==
  ASSUME PoolInv, NEW s \in Sessions
  PROVE  sid[s] = NoId \/ sid[s].slot = s
BY DEF PoolInv, SessionsConserved, AllocatedKeepsSlot, IndexRunsAhead

\* The id of a session is an issued one.
LEMMA OwnIdIssued ==
  ASSUME TypeOK, PoolInv, NEW s \in Sessions
  PROVE  sid[s].index <= sid[sid[s].slot].index
<1>1. CASE sid[s].slot = s
  BY <1>1 DEF TypeOK, SessionType
<1>2. CASE sid[s] = NoId
  BY <1>2 DEF TypeOK, SessionType, NoId
<1>3. QED BY <1>1, <1>2, SlotOfSession

\* PoolInv only looks at the slots, the ids and who is retired.
LEMMA PoolInvFrame ==
  ASSUME PoolInv, UNCHANGED <<slots, sid>>,
         closer' = closer \/ (closer.pc # "retire" /\ closer'.pc # "retire")
  PROVE  PoolInv'
<1>1. \A s \in Sessions : (InPool(s)' <=> InPool(s)) /\ (Retired(s)' <=> Retired(s))
  BY DEF InPool, Retired, slots
<1>2. PoolPairsSlots'
  BY DEF PoolInv, SessionsConserved, PoolPairsSlots, slots
<1>3. PooledIsNowhereElse' /\ AllocatedKeepsSlot' /\ IndexRunsAhead'
  BY <1>1 DEF PoolInv, SessionsConserved, PooledIsNowhereElse,
     AllocatedKeepsSlot, IndexRunsAhead, slots
<1>4. RetiredBeforeReuse'
  BY DEF PoolInv, RetiredBeforeReuse, slots
<1>5. QED
  BY <1>2, <1>3, <1>4 DEF PoolInv, SessionsConserved

\* An id that was issued and is looked up finds the session of its own slot,
\* which is then neither pooled nor retired.
LEMMA FoundIsCurrent ==
  ASSUME TypeOK, PoolInv, NEW id \in Ids,
         id.index <= sid[id.slot].index, FindSession(id) # NoSession
  PROVE  LET s == FindSession(id)
         IN  /\ s \in Sessions /\ s = id.slot
             /\ ~InPool(s) /\ ~Retired(s)
             /\ sid[s].slot = s /\ slotIndex[s] = sid[s].index
<1> DEFINE s == id.slot
<1>1. s \in Sessions /\ slotIndex[s] = id.index /\ slotSession[s] = FindSession(id)
  BY DEF FindSession
<1>2. ~InPool(s)
  BY <1>1 DEF PoolInv, SessionsConserved, PooledIsNowhereElse
<1>3. /\ slotSession[s] = s /\ sid[s].slot = s
      /\ slotIndex[s] = sid[s].index + (IF Retired(s) THEN 1 ELSE 0)
  BY <1>1, <1>2 DEF PoolInv, SessionsConserved, AllocatedKeepsSlot
<1>4. sid[s].index \in Nat
  BY <1>1 DEF TypeOK, SessionType
<1>5. ~Retired(s)
  BY <1>1, <1>3, <1>4
<1>6. QED BY <1>1, <1>2, <1>3, <1>4, <1>5

LEMMA InitConserved == Init => PoolInv /\ IdsIssued
<1> SUFFICES ASSUME Init PROVE PoolInv /\ IdsIssued
  OBVIOUS
<1>1. pool = [i \in 1 .. N |-> i - 1] /\ Len(pool) = N /\ pool = freeSlots
  BY DEF Init
<1>2. \A s \in Sessions : InPool(s)
  <2>1. ASSUME NEW s \in Sessions PROVE InPool(s)
    <3>1. s + 1 \in 1 .. Len(pool) /\ pool[s+1] = s
      BY <1>1
    <3>2. QED BY <3>1 DEF InPool
  <2>2. QED BY <2>1
<1>3. \A s \in Sessions : ~Retired(s)
  BY DEF Init, Retired, NotClosing
<1>4. SessionsConserved
  BY <1>1, <1>2, <1>3 DEF Init, SessionsConserved, PoolPairsSlots,
     PooledIsNowhereElse, AllocatedKeepsSlot
<1>5. IndexRunsAhead /\ RetiredBeforeReuse
  BY DEF Init, IndexRunsAhead, RetiredBeforeReuse, NotClosing, NoId
<1>6. IdsIssued
  <2>1. \A t \in Workers : held[t].index <= sid[held[t].slot].index
    BY DEF Init, NoId
  <2>2. \A r \in Requesters : Len(closeRing[r]) = 0
    BY EmptySeq DEF Init
  <2>3. QED BY <2>1, <2>2 DEF IdsIssued
<1>7. QED BY <1>4, <1>5, <1>6 DEF PoolInv

LEMMA AllocConserves ==
  ASSUME TypeOK, PoolInv, AllocSession
  PROVE  PoolInv' /\ \A k \in Sessions : sid[k].index <= sid'[k].index
<1> DEFINE s == Head(pool)
<1>1. /\ pool \in Seq(Sessions) /\ pool # <<>> /\ pool = freeSlots
      /\ \A i, j \in 1 .. Len(pool) : pool[i] = pool[j] => i = j
  BY DEF AllocSession, TypeOK, SlotsType, PoolInv, SessionsConserved, PoolPairsSlots
<1>2. /\ pool' = Tail(pool) /\ freeSlots' = Tail(pool)
      /\ sid' = [sid EXCEPT ![s] = [slot |-> s, index |-> slotIndex[s]]]
      /\ slotSession' = [slotSession EXCEPT ![s] = s]
      /\ UNCHANGED <<slotIndex, willReuse, closer>>
  BY <1>1 DEF AllocSession
<1>3. /\ s \in Sessions /\ InPool(s)
      /\ \A i, j \in 1 .. Len(pool') : pool'[i] = pool'[j] => i = j
      /\ \A x \in Sessions : InPool(x)' <=> InPool(x) /\ x # s
  <2>1. /\ s \in Sessions
        /\ \E i \in 1 .. Len(pool) : pool[i] = s
        /\ \A i, j \in 1 .. Len(Tail(pool)) : Tail(pool)[i] = Tail(pool)[j] => i = j
        /\ \A x : (\E i \in 1 .. Len(Tail(pool)) : Tail(pool)[i] = x)
                    <=> (\E i \in 1 .. Len(pool) : pool[i] = x) /\ x # s
    <3>1. /\ pool \in Seq(Sessions) /\ pool # <<>>
          /\ \A i, j \in 1 .. Len(pool) : pool[i] = pool[j] => i = j
      BY <1>1
    <3>2. QED
      <4> HIDE DEF Sessions
      <4>1. QED BY <3>1, TailRemovesHead
  <2>2. QED BY <1>2, <2>1 DEF InPool
<1>4. \A x \in Sessions : Retired(x)' <=> Retired(x)
  BY <1>2 DEF Retired
<1>5. ~Retired(s) /\ slotIndex[s] = sid[s].index + 1 /\ sid[s].index \in Nat
  BY <1>3 DEF PoolInv, SessionsConserved, PooledIsNowhereElse, IndexRunsAhead,
     TypeOK, SessionType
<1>6. /\ sid'[s] = [slot |-> s, index |-> slotIndex[s]] /\ slotSession'[s] = s
      /\ \A x \in Sessions \ {s} : sid'[x] = sid[x] /\ slotSession'[x] = slotSession[x]
  BY <1>2, <1>3 DEF TypeOK, SlotsType, SessionType
<1>7. PoolPairsSlots'
  BY <1>2, <1>3 DEF PoolPairsSlots
<1>8. PooledIsNowhereElse'
  BY <1>3, <1>4, <1>6 DEF PooledIsNowhereElse, PoolInv, SessionsConserved
<1>9. AllocatedKeepsSlot'
  <2>1. ASSUME NEW x \in Sessions, ~InPool(x)'
        PROVE  /\ slotSession'[x] = x /\ sid'[x].slot = x
               /\ slotIndex'[x] = sid'[x].index + (IF Retired(x)' THEN 1 ELSE 0)
    <3>1. CASE x = s
      <4>1. slotIndex[s] \in Nat
        BY <1>3 DEF TypeOK, SlotsType
      <4>2. QED BY <1>2, <1>4, <1>5, <1>6, <3>1, <4>1
    <3>2. CASE x # s
      <4>1. ~InPool(x)
        BY <1>3, <2>1, <3>2
      <4>2. QED BY <1>2, <1>4, <1>6, <3>2, <4>1
            DEF PoolInv, SessionsConserved, AllocatedKeepsSlot
    <3>3. QED BY <3>1, <3>2
  <2>2. QED BY <2>1 DEF AllocatedKeepsSlot
<1>10. IndexRunsAhead' /\ RetiredBeforeReuse'
  BY <1>2, <1>3, <1>6 DEF PoolInv, IndexRunsAhead, RetiredBeforeReuse
<1>11. \A k \in Sessions : sid[k].index <= sid'[k].index
  <2>1. ASSUME NEW k \in Sessions PROVE sid[k].index <= sid'[k].index
    <3>1. sid[k].index \in Nat
      BY DEF TypeOK, SessionType
    <3>2. CASE k = s
      BY <1>5, <1>6, <3>2
    <3>3. CASE k # s
      BY <1>6, <3>1, <3>3
    <3>4. QED BY <3>2, <3>3
  <2>2. QED BY <2>1
<1>12. QED
  BY <1>7, <1>8, <1>9, <1>10, <1>11 DEF PoolInv, SessionsConserved

LEMMA MoveConserves ==
  ASSUME TypeOK, PoolInv, NEW t \in Workers, MoveToPool(t)
  PROVE  PoolInv'
<1> DEFINE s == hand[t]
<1>1. CASE s \notin willReuse
  BY <1>1, PoolInvFrame DEF MoveToPool, slots, session
<1>2. CASE s \in willReuse
  <2>1. s \in Sessions /\ Retired(s)
    BY <1>2 DEF TypeOK, SlotsType, Retired
  <2>2. /\ ~InPool(s) /\ sid[s].slot = s /\ slotIndex[s] = sid[s].index + 1
    BY <2>1 DEF PoolInv, SessionsConserved, PooledIsNowhereElse, AllocatedKeepsSlot
  <2>3. ~(closer.pc = "retire" /\ closer.s = s)
    BY <1>2 DEF PoolInv, RetiredBeforeReuse
  <2>4. /\ pool' = Append(pool, s) /\ freeSlots' = Append(pool, s)
        /\ slotSession' = [slotSession EXCEPT ![s] = NoSession]
        /\ willReuse' = willReuse \ {s}
        /\ UNCHANGED <<slotIndex, sid, closer>>
    BY <1>2, <2>2 DEF MoveToPool, session, PoolInv, SessionsConserved, PoolPairsSlots
  <2>5. /\ \A i, j \in 1 .. Len(pool') : pool'[i] = pool'[j] => i = j
        /\ \A x \in Sessions : InPool(x)' <=> InPool(x) \/ x = s
    <3>1. /\ pool \in Seq(Sessions)
          /\ \A i, j \in 1 .. Len(pool) : pool[i] = pool[j] => i = j
          /\ \A i \in 1 .. Len(pool) : pool[i] # s
      BY <2>2 DEF TypeOK, SlotsType, PoolInv, SessionsConserved, PoolPairsSlots, InPool
    <3>2. /\ \A i, j \in 1 .. Len(Append(pool, s)) :
               Append(pool, s)[i] = Append(pool, s)[j] => i = j
          /\ \A x : (\E i \in 1 .. Len(Append(pool, s)) : Append(pool, s)[i] = x)
                      <=> (\E i \in 1 .. Len(pool) : pool[i] = x) \/ x = s
      <4> HIDE DEF s
      <4> QED BY <2>1, <3>1, AppendAddsElement
    <3>3. \A i, j \in 1 .. Len(pool') : pool'[i] = pool'[j] => i = j
      BY <2>4, <3>2, Zenon
    <3>4. \A x \in Sessions : InPool(x)' <=> InPool(x) \/ x = s
      BY <2>4, <3>2, Zenon DEF InPool
    <3>5. QED BY <3>3, <3>4
  <2>6. \A x \in Sessions : Retired(x)' <=> Retired(x) /\ x # s
    BY <2>3, <2>4 DEF Retired
  <2>7. /\ slotSession'[s] = NoSession
        /\ \A x \in Sessions \ {s} : slotSession'[x] = slotSession[x]
    BY <2>1, <2>4 DEF TypeOK, SlotsType
  <2>8. PoolPairsSlots'
    BY <2>4, <2>5 DEF PoolPairsSlots
  <2>9. PooledIsNowhereElse' /\ AllocatedKeepsSlot'
    BY <2>4, <2>5, <2>6, <2>7 DEF PoolInv, SessionsConserved,
       PooledIsNowhereElse, AllocatedKeepsSlot
  <2>10. IndexRunsAhead' /\ RetiredBeforeReuse'
    BY <2>2, <2>4, <2>5 DEF PoolInv, IndexRunsAhead, RetiredBeforeReuse
  <2>11. QED
    BY <2>8, <2>9, <2>10 DEF PoolInv, SessionsConserved
<1>3. QED BY <1>1, <1>2

LEMMA TakeRequestConserves ==
  ASSUME TypeOK, PoolInv, IdsIssued, NEW r \in Requesters, TakeRequest(r)
  PROVE  PoolInv'
<1> DEFINE id == Head(closeRing[r])
           s == FindSession(id)
<1>1. id \in Ids /\ id.index <= sid[id.slot].index
  <2>1. closeRing[r] \in Seq(Ids) /\ closeRing[r] # <<>>
    BY DEF TakeRequest, TypeOK, RingsType
  <2>2. id = closeRing[r][1] /\ 1 \in 1 .. Len(closeRing[r]) /\ id \in Ids
    <3>1. Len(closeRing[r]) \in Nat /\ Len(closeRing[r]) # 0
      BY <2>1, LenProperties, EmptySeq
    <3>2. Head(closeRing[r]) = closeRing[r][1]
      BY <2>1
    <3>3. 1 \in 1 .. Len(closeRing[r])
      BY <3>1
    <3>4. closeRing[r][1] \in Ids
      BY <2>1, <3>3, ElementOfSeq
    <3>5. QED BY <3>2, <3>3, <3>4
  <2>3. QED BY <2>2 DEF IdsIssued
<1>2. CASE s = NoSession
  BY <1>2, PoolInvFrame DEF TakeRequest, slots, session
<1>3. CASE s # NoSession
  <2>1. /\ s \in Sessions /\ ~InPool(s) /\ ~Retired(s)
        /\ sid[s].slot = s /\ slotIndex[s] = sid[s].index
    BY <1>1, <1>3, FoundIsCurrent
  <2>2. /\ slotIndex' = [slotIndex EXCEPT ![s] = @ + 1]
        /\ closer' = [pc |-> "retire", s |-> s, id |-> sid[s]]
        /\ closer.pc = "idle"
        /\ UNCHANGED <<slotSession, freeSlots, pool, willReuse, sid>>
    BY <1>3, <2>1 DEF TakeRequest, session
  <2>3. \A x \in Sessions : /\ InPool(x)' <=> InPool(x)
                            /\ Retired(x)' <=> Retired(x) \/ x = s
    BY <2>2 DEF InPool, Retired
  <2>4. /\ slotIndex'[s] = sid[s].index + 1
        /\ \A x \in Sessions \ {s} : slotIndex'[x] = slotIndex[x]
    BY <2>1, <2>2 DEF TypeOK, SlotsType
  <2>5. PoolPairsSlots' /\ PooledIsNowhereElse' /\ AllocatedKeepsSlot'
    BY <2>1, <2>2, <2>3, <2>4 DEF PoolInv, SessionsConserved, PoolPairsSlots,
       PooledIsNowhereElse, AllocatedKeepsSlot
  <2>6. IndexRunsAhead' /\ RetiredBeforeReuse'
    BY <2>1, <2>2, <2>3, <2>4 DEF PoolInv, IndexRunsAhead, RetiredBeforeReuse,
       Retired
  <2>7. QED BY <2>5, <2>6 DEF PoolInv, SessionsConserved
<1>4. QED BY <1>2, <1>3

LEMMA RetireConserves ==
  ASSUME TypeOK, PoolInv, AddToWillReuseManager
  PROVE  PoolInv'
<1>1. /\ willReuse' = willReuse \union {closer.s} /\ closer'.pc = "tell_main"
      /\ closer.pc = "retire"
      /\ UNCHANGED <<slotIndex, slotSession, freeSlots, pool, sid>>
  BY DEF AddToWillReuseManager, session, TypeOK, CloserType, NotClosing
<1>2. \A x \in Sessions : (InPool(x)' <=> InPool(x)) /\ (Retired(x)' <=> Retired(x))
  BY <1>1 DEF InPool, Retired
<1>3. PoolPairsSlots' /\ PooledIsNowhereElse' /\ AllocatedKeepsSlot'
  BY <1>1, <1>2 DEF PoolInv, SessionsConserved, PoolPairsSlots,
     PooledIsNowhereElse, AllocatedKeepsSlot
<1>4. IndexRunsAhead' /\ RetiredBeforeReuse'
  BY <1>1, <1>2 DEF PoolInv, IndexRunsAhead, RetiredBeforeReuse
<1>5. QED BY <1>3, <1>4 DEF PoolInv, SessionsConserved

\* PoolInv through every step.
LEMMA NextPoolInv == TypeOK /\ PoolInv /\ IdsIssued /\ [Next]_vars => PoolInv'
<1> SUFFICES ASSUME TypeOK, PoolInv, IdsIssued, [Next]_vars PROVE PoolInv'
  OBVIOUS
<1> USE DEF slots, session
<1>1. CASE AllocSession
  BY <1>1, AllocConserves
<1>2. CASE AcceptStep
  BY <1>2, PoolInvFrame DEF AcceptStep, BindRecvThread, BindSendThread,
     BindEpollThread, Bind, AnnounceAccepted, AcceptGivesUp, AcceptMarks
<1>3. ASSUME NEW t \in Workers, Find(t) \/ Leave(t) \/ AckStop(t) \/ CheckStop(t)
      PROVE  PoolInv'
  BY <1>3, PoolInvFrame DEF Find, Leave, Finish, Judge, RequestClose, AckStop,
     CheckStop
<1>4. ASSUME NEW t \in Workers, MoveToPool(t)
      PROVE  PoolInv'
  BY <1>4, MoveConserves
<1>5. ASSUME NEW r \in Requesters, TakeRequest(r)
      PROVE  PoolInv'
  BY <1>5, TakeRequestConserves
<1>6. CASE AddToWillReuseManager
  BY <1>6, RetireConserves
<1>7. CASE TellMain \/ TellEpoll \/ TellRecv \/ TellSend
  <2>1. /\ UNCHANGED <<slots, sid>>
        /\ closer.pc \in {"tell_main", "tell_epoll", "tell_recv", "tell_send"}
        /\ \/ closer' = [closer EXCEPT !.pc = "tell_epoll"]
           \/ closer' = [closer EXCEPT !.pc = "tell_recv"]
           \/ closer' = [closer EXCEPT !.pc = "tell_send"]
           \/ closer' = [closer EXCEPT !.pc = "publish"]
    BY <1>7 DEF TellMain, TellEpoll, TellRecv, TellSend, Tell
  <2>2. closer.pc # "retire" /\ closer'.pc # "retire"
    BY <2>1 DEF TypeOK, CloserType, NotClosing
  <2>3. QED BY <2>1, <2>2, PoolInvFrame
<1>8. CASE PublishDisconnect
  BY <1>8, PoolInvFrame DEF PublishDisconnect, NotClosing
<1>9. CASE UNCHANGED vars
  BY <1>9, PoolInvFrame DEF vars
<1>10. QED
  BY <1>1, <1>2, <1>3, <1>4, <1>5, <1>6, <1>7, <1>8, <1>9
  DEF Next, Ongoing, CloserStep, WornOut

\* IdsIssued while ids, rings and held ids stay as they are or are dropped.
LEMMA IdsFrame ==
  ASSUME TypeOK, IdsIssued, TypeOK',
         \A k \in Sessions : sid[k].index <= sid'[k].index,
         \A r \in Requesters : \A i \in 1 .. Len(closeRing'[r]) :
           \/ \E j \in 1 .. Len(closeRing[r]) : closeRing'[r][i] = closeRing[r][j]
           \/ closeRing'[r][i].index <= sid[closeRing'[r][i].slot].index,
         \A t \in Workers :
           held'[t] = held[t] \/ held'[t].index <= sid[held'[t].slot].index
  PROVE  IdsIssued'
<1>1. ASSUME NEW id \in Ids, id.index <= sid[id.slot].index
      PROVE  id.index <= sid'[id.slot].index
  <2>1. id.slot \in Sessions
    OBVIOUS
  <2>2. /\ id.index \in Nat /\ sid[id.slot].index \in Nat
        /\ sid'[id.slot].index \in Nat
    BY <2>1 DEF TypeOK, SessionType
  <2>3. QED BY <1>1, <2>1, <2>2
<1>2. ASSUME NEW r \in Requesters, NEW i \in 1 .. Len(closeRing'[r])
      PROVE  closeRing'[r][i].index <= sid'[closeRing'[r][i].slot].index
  <2>1. closeRing'[r][i].index <= sid[closeRing'[r][i].slot].index
    BY <1>2 DEF IdsIssued
  <2>2. closeRing'[r][i] \in Ids
    <3>1. closeRing'[r] \in Seq(Ids)
      BY DEF TypeOK, RingsType
    <3>2. QED BY <3>1, ElementOfSeq
  <2>3. QED BY <1>1, <2>1, <2>2
<1>3. ASSUME NEW t \in Workers
      PROVE  held'[t].index <= sid'[held'[t].slot].index
  <2>1. held'[t].index <= sid[held'[t].slot].index
    BY DEF IdsIssued
  <2>2. held'[t] \in Ids
    BY DEF TypeOK, WorkType
  <2>3. QED BY <1>1, <2>1, <2>2
<1>4. QED BY <1>2, <1>3 DEF IdsIssued

\* What a request ring holds after one more id, and after its head is taken.
LEMMA RingAfterAppend ==
  ASSUME NEW q \in Seq(Ids), NEW id \in Ids, NEW i \in 1 .. Len(Append(q, id))
  PROVE  (\E j \in 1 .. Len(q) : Append(q, id)[i] = q[j]) \/ Append(q, id)[i] = id
<1>1. /\ Len(q) \in Nat /\ Len(Append(q, id)) = Len(q) + 1
      /\ \A j \in 1 .. Len(q) : Append(q, id)[j] = q[j]
      /\ Append(q, id)[Len(q) + 1] = id
  BY AppendProperties, LenProperties
<1>2. i \in 1 .. Len(q) \/ i = Len(q) + 1
  BY <1>1
<1>3. QED BY <1>1, <1>2

LEMMA RingAfterTail ==
  ASSUME NEW q \in Seq(Ids), q # <<>>, NEW i \in 1 .. Len(Tail(q))
  PROVE  \E j \in 1 .. Len(q) : Tail(q)[i] = q[j]
<1>1. /\ Len(q) \in Nat /\ Len(Tail(q)) = Len(q) - 1 /\ Tail(q)[i] = q[i+1]
  BY HeadTailProperties, LenProperties
<1>2. i + 1 \in 1 .. Len(q)
  BY <1>1
<1>3. QED BY <1>1, <1>2

LEMMA NextIdsIssued ==
  TypeOK /\ PoolInv /\ IdsIssued /\ TypeOK' /\ [Next]_vars => IdsIssued'
<1> SUFFICES ASSUME TypeOK, PoolInv, IdsIssued, TypeOK', [Next]_vars
    PROVE  IdsIssued'
  OBVIOUS
<1> USE DEF session, rings, work
<1>1. \A k \in Sessions : sid[k].index \in Nat /\ sid[k].index <= sid[k].index
  <2>1. sid \in [Sessions -> Ids]
    BY DEF TypeOK, SessionType
  <2>2. \A k \in Sessions : sid[k] \in Ids
    BY <2>1
  <2>3. \A id \in Ids : id.index \in Nat
    OBVIOUS
  <2>4. QED BY <2>2, <2>3
<1>2. NoId.index <= sid[NoId.slot].index
  BY <1>1 DEF NoId
<1>3. CASE AllocSession
  <2>1. \A k \in Sessions : sid[k].index <= sid'[k].index
    BY <1>3, AllocConserves
  <2>2. UNCHANGED <<closeRing, held>>
    BY <1>3 DEF AllocSession
  <2>3. QED BY <2>1, <2>2, IdsFrame
<1>4. ASSUME UNCHANGED <<sid, closeRing>>,
             \A t \in Workers :
               held'[t] = held[t] \/ held'[t].index <= sid[held'[t].slot].index
      PROVE  IdsIssued'
  BY <1>4, <1>1, IdsFrame
<1>5. ASSUME UNCHANGED sid, NEW r \in Requesters, NEW id \in Ids,
             id.index <= sid[id.slot].index,
             AppendToClose(r, id),
             \A t \in Workers : held'[t] = held[t] \/ held'[t] = NoId
      PROVE  IdsIssued'
  <2>1. ASSUME NEW r2 \in Requesters, NEW i \in 1 .. Len(closeRing'[r2])
        PROVE  \/ \E j \in 1 .. Len(closeRing[r2]) : closeRing'[r2][i] = closeRing[r2][j]
               \/ closeRing'[r2][i].index <= sid[closeRing'[r2][i].slot].index
    <3>1. closeRing[r2] \in Seq(Ids)
      BY DEF TypeOK, RingsType
    <3>2. CASE closeRing'[r2] = closeRing[r2]
      BY <3>2
    <3>3. CASE closeRing'[r2] # closeRing[r2]
      <4>1. closeRing'[r2] = Append(closeRing[r2], id)
        BY <1>5, <3>3 DEF AppendToClose, TypeOK, RingsType
      <4>2. i \in 1 .. Len(Append(closeRing[r2], id))
        BY <2>1, <4>1
      <4>3. QED BY <1>5, <3>1, <4>1, <4>2, RingAfterAppend
    <3>4. QED BY <3>2, <3>3
  <2>2. QED BY <1>1, <1>2, <1>5, <2>1, IdsFrame
<1>6. CASE BindRecvThread \/ BindSendThread \/ BindEpollThread
           \/ AnnounceAccepted \/ AcceptMarks
  BY <1>4, <1>6 DEF BindRecvThread, BindSendThread, BindEpollThread, Bind,
     AnnounceAccepted, AcceptMarks
<1>7. CASE AcceptGivesUp
  <2>1. acc.s \in Sessions
    BY <1>7 DEF AcceptGivesUp, TypeOK, AccType, Idle
  <2>2. sid[acc.s] \in Ids /\ sid[acc.s].index <= sid[sid[acc.s].slot].index
    BY <2>1, OwnIdIssued DEF TypeOK, SessionType
  <2>3. /\ AppendToClose("accept", sid[acc.s]) /\ UNCHANGED <<sid, held>>
        /\ "accept" \in Requesters
    BY <1>7 DEF AcceptGivesUp, Requesters
  <2>4. QED BY <1>5, <2>2, <2>3
<1>8. ASSUME NEW t \in Workers, Find(t)
      PROVE  IdsIssued'
  <2>1. PICK s \in Sessions : held' = [held EXCEPT ![t] = sid[s]]
    BY <1>8 DEF Find, Live
  <2>2. sid[s].index <= sid[sid[s].slot].index
    BY OwnIdIssued
  <2>3. \A u \in Workers :
          held'[u] = held[u] \/ held'[u].index <= sid[held'[u].slot].index
    BY <2>1, <2>2 DEF TypeOK, WorkType
  <2>4. UNCHANGED <<sid, closeRing>>
    BY <1>8 DEF Find
  <2>5. QED BY <1>4, <2>3, <2>4
<1>9. ASSUME NEW t \in Workers, LetGo(t)
      PROVE  \A u \in Workers : held'[u] = held[u] \/ held'[u] = NoId
  BY <1>9 DEF LetGo, TypeOK, WorkType
<1>10. ASSUME NEW t \in Workers, LetGo(t), UNCHANGED <<sid, closeRing>>
       PROVE  IdsIssued'
  BY <1>2, <1>4, <1>9, <1>10
<1>11. ASSUME NEW t \in Workers, RequestClose(t)
       PROVE  IdsIssued'
  <2>1. t \in Requesters /\ held[t] \in Ids /\ held[t].index <= sid[held[t].slot].index
    BY <1>11 DEF RequestClose, TypeOK, WorkType, IdsIssued
  <2>2. AppendToClose(t, held[t]) /\ LetGo(t) /\ UNCHANGED sid
    BY <1>11 DEF RequestClose
  <2>3. QED BY <1>5, <1>9, <2>1, <2>2
<1>12. ASSUME NEW t \in Workers,
              Finish(t) \/ Judge(t) \/ AckStop(t) \/ CheckStop(t) \/ MoveToPool(t)
       PROVE  IdsIssued'
  BY <1>4, <1>10, <1>12 DEF Finish, Judge, AckStop, CheckStop, MoveToPool
<1>13. ASSUME NEW r \in Requesters, TakeRequest(r)
       PROVE  IdsIssued'
  <2>1. /\ closeRing[r] \in Seq(Ids) /\ closeRing[r] # <<>>
        /\ closeRing' = [closeRing EXCEPT ![r] = Tail(@)]
        /\ closeRing'[r] = Tail(closeRing[r])
        /\ \A r2 \in Requesters \ {r} : closeRing'[r2] = closeRing[r2]
        /\ UNCHANGED <<sid, held>>
    BY <1>13 DEF TakeRequest, TypeOK, RingsType
  <2>2. ASSUME NEW r2 \in Requesters, NEW i \in 1 .. Len(closeRing'[r2])
        PROVE  \E j \in 1 .. Len(closeRing[r2]) : closeRing'[r2][i] = closeRing[r2][j]
    <3>1. CASE r2 = r
      BY <2>1, <2>2, <3>1, RingAfterTail
    <3>2. CASE r2 # r
      BY <2>1, <2>2, <3>2
    <3>3. QED BY <3>1, <3>2
  <2>3. sid' = sid /\ held' = held
    BY <2>1
  <2>4. \A k \in Sessions : sid[k].index <= sid'[k].index
    BY <1>1, <2>3
  <2>5. \A r2 \in Requesters : \A i \in 1 .. Len(closeRing'[r2]) :
          \E j \in 1 .. Len(closeRing[r2]) : closeRing'[r2][i] = closeRing[r2][j]
    BY <2>2
  <2>6. QED BY <2>3, <2>4, <2>5, IdsFrame, Zenon
<1>14. CASE CloserStep \/ UNCHANGED vars
  <2>1. UNCHANGED <<sid, closeRing, held>>
    <3>1. CASE AddToWillReuseManager
      BY <3>1 DEF AddToWillReuseManager
    <3>2. CASE TellMain \/ TellEpoll \/ TellRecv \/ TellSend
      BY <3>2 DEF TellMain, TellEpoll, TellRecv, TellSend, Tell
    <3>3. CASE PublishDisconnect
      BY <3>3 DEF PublishDisconnect
    <3>4. CASE UNCHANGED vars
      BY <3>4 DEF vars
    <3>5. QED BY <1>14, <3>1, <3>2, <3>3, <3>4 DEF CloserStep
  <2>2. QED BY <1>4, <2>1
<1>15. QED
  BY <1>3, <1>6, <1>7, <1>8, <1>11, <1>12, <1>13, <1>14
  DEF Next, Ongoing, AcceptStep, Leave, WornOut

\* The inductive invariant of the life cycle.
THEOREM LifecycleInv == Spec => []IInv
<1>1. Init => IInv
  BY InitType, InitConserved DEF IInv
<1>2. IInv /\ [Next]_vars => IInv'
  BY NextType, NextPoolInv, NextIdsIssued DEF IInv
<1>3. QED BY <1>1, <1>2, PTL DEF Spec

\* No slot and no session is ever lost, doubled or paired with another's, for
\* any number of sessions, even when an overtaken worker recycles a session
\* too early: the will-reuse map alone is enough for that.
THEOREM Conserved == Spec => []SessionsConserved
<1>1. IInv => SessionsConserved
  BY DEF IInv, PoolInv
<1>2. QED BY <1>1, LifecycleInv, PTL
=============================================================================
