--------------------------- MODULE SessionPoolProofs ---------------------------
(***************************************************************************)
(* The promise of SessionPool, for every number of sessions: a session is  *)
(* recycled only when no thread holds it, and found only while its         *)
(* connection is current.                                                  *)
(*                                                                         *)
(* It rests on the stop notices: a worker that raised its flag on a        *)
(* retired session does not come back to it, the close thread has a worker *)
(* left to tell as long as it uses the session, and so four flags mean     *)
(* that nobody is left.  What can break it is a worker that saw the four   *)
(* flags and puts the session back only after somebody else did and it was *)
(* handed out again; the theorems are about all behaviours without that.   *)
(***************************************************************************)
EXTENDS SessionLifecycleProofs, FiniteSetTheorems

Noticed(s, t) == \E i \in 1 .. Len(stopRing[t]) : stopRing[t][i] = s

\* The workers the close thread still has to tell of its session.
Untold ==
  [retire |-> Workers, tell_main |-> Workers, tell_epoll |-> {"epoll", "recv", "send"},
   tell_recv |-> {"recv", "send"}, tell_send |-> {"send"}, publish |-> {}, idle |-> {}]

\* A session nobody closed, and a pooled one, has no notice under way; a
\* session nobody closed has no flag.
NoticesOfRetired ==
  \A s \in Sessions : ~Retired(s) =>
    /\ \A t \in Workers : ~Noticed(s, t)
    /\ InPool(s) \/ stopped[s] = {}

\* A worker gets one notice, and raises its flag after it.
NoticeThenFlag ==
  /\ \A t \in Workers : \A s \in Sessions : t \in stopped[s] => ~Noticed(s, t)
  /\ \A t \in Workers : \A i, j \in 1 .. Len(stopRing[t]) :
       stopRing[t][i] = stopRing[t][j] => i = j

\* The close thread works on a retired session, and has not told these yet.
CloserTellsInTurn ==
  closer.pc \in Closing =>
    /\ Retired(closer.s) /\ sid[closer.s] = closer.id
    /\ \A t \in Untold[closer.pc] : t \notin stopped[closer.s] /\ ~Noticed(closer.s, t)

\* A worker at work on a session has not raised its flag on it.
UserHasNoFlag ==
  \A t \in Workers : pc[t] \in Busy =>
    ~InPool(hand[t]) /\ sid[hand[t]] = held[t] /\ t \notin stopped[hand[t]]

\* A worker about to put a session back sees four flags.
MoverSeesFlags == \A t \in Workers : pc[t] = "move" => AllStopped(hand[t])

AckInv ==
  /\ NoticesOfRetired /\ NoticeThenFlag /\ CloserTellsInTurn
  /\ UserHasNoFlag /\ MoverSeesFlags

\* Until it is announced or given up, the accept thread alone knows a session.
AcceptedIsPrivate ==
  acc.pc \notin {"idle", "mark"} =>
    /\ ~InPool(acc.s) /\ ~Retired(acc.s) /\ ~announced[acc.s]
    /\ \A t \in Workers : held[t] # sid[acc.s]
    /\ \A r \in Requesters : \A i \in 1 .. Len(closeRing[r]) :
         closeRing[r][i] # sid[acc.s]

-----------------------------------------------------------------------------
(* What the parts of the state say of one session.                          *)

\* The sessions FindSession can return are those allocated and not retired.
LEMMA LiveIsCurrent ==
  ASSUME TypeOK, PoolInv, NEW s \in Sessions
  PROVE  s \in Live <=> ~InPool(s) /\ ~Retired(s)
<1>1. sid[s] \in Ids /\ sid[s].index \in Nat /\ slotIndex \in [Slots -> Nat \ {0}]
  BY DEF TypeOK, SessionType, SlotsType, Ids
<1>2. CASE InPool(s)
  <2>1. slotIndex[s] = sid[s].index + 1 /\ (sid[s] = NoId \/ sid[s].slot = s)
    BY <1>2 DEF PoolInv, IndexRunsAhead
  <2>2. slotIndex[sid[s].slot] # sid[s].index
    <3>1. CASE sid[s] = NoId
      <4>1. 0 \in Slots /\ sid[s].slot = 0 /\ sid[s].index = 0
        BY <3>1, ConstantsAssumption DEF NoId, Slots
      <4> QED BY <1>1, <4>1
    <3>2. CASE sid[s].slot = s
      BY <1>1, <2>1, <3>2
    <3> QED BY <2>1, <3>1, <3>2
  <2>3. s # NoSession
    BY ConstantsAssumption DEF Sessions, NoSession
  <2> QED BY <1>2, <2>2, <2>3 DEF Live, FindSession
<1>3. CASE ~InPool(s)
  <2>1. /\ slotSession[s] = s /\ sid[s].slot = s
        /\ slotIndex[s] = sid[s].index + (IF Retired(s) THEN 1 ELSE 0)
    BY <1>3 DEF PoolInv, SessionsConserved, AllocatedKeepsSlot
  <2>2. slotIndex[s] = sid[s].index <=> ~Retired(s)
    BY <1>1, <2>1
  <2>3. s # NoSession
    BY ConstantsAssumption DEF Sessions, NoSession
  <2> QED BY <1>3, <2>1, <2>2, <2>3 DEF Live, FindSession
<1> QED BY <1>2, <1>3

\* A stop notice more, and one taken.
LEMMA NoticeAdded ==
  ASSUME TypeOK, NoticeThenFlag, NEW t \in Workers, NEW s \in Sessions, ~Noticed(s, t),
         stopRing' = [stopRing EXCEPT ![t] = Append(@, s)]
  PROVE  /\ \A x \in Sessions : \A u \in Workers :
              Noticed(x, u)' <=> Noticed(x, u) \/ (x = s /\ u = t)
         /\ \A u \in Workers : \A i, j \in 1 .. Len(stopRing'[u]) :
              stopRing'[u][i] = stopRing'[u][j] => i = j
<1>1. stopRing \in [Workers -> Seq(Sessions)] /\ stopRing[t] \in Seq(Sessions)
  BY DEF TypeOK, RingsType
<1>2. /\ stopRing'[t] = Append(stopRing[t], s)
      /\ \A u \in Workers : u # t => stopRing'[u] = stopRing[u]
  BY <1>1
<1>3. /\ \A i, j \in 1 .. Len(stopRing[t]) : stopRing[t][i] = stopRing[t][j] => i = j
      /\ \A i \in 1 .. Len(stopRing[t]) : stopRing[t][i] # s
  BY DEF NoticeThenFlag, Noticed
<1> DEFINE more == Append(stopRing[t], s)
<1>4. /\ \A i, j \in 1 .. Len(more) : more[i] = more[j] => i = j
      /\ \A x : (\E i \in 1 .. Len(more) : more[i] = x)
                  <=> (\E i \in 1 .. Len(stopRing[t]) : stopRing[t][i] = x) \/ x = s
  BY <1>1, <1>3, AppendAddsElement
<1>5. \A i, j \in 1 .. Len(stopRing'[t]) : stopRing'[t][i] = stopRing'[t][j] => i = j
  BY <1>2, <1>4
<1>6. \A x : Noticed(x, t)' <=> Noticed(x, t) \/ x = s
  BY <1>2, <1>4 DEF Noticed
<1>7. \A u \in Workers : u # t => \A x : Noticed(x, u)' <=> Noticed(x, u)
  BY <1>2 DEF Noticed
<1>8. \A u \in Workers : \A i, j \in 1 .. Len(stopRing'[u]) :
        stopRing'[u][i] = stopRing'[u][j] => i = j
  BY <1>2, <1>5 DEF NoticeThenFlag
<1> QED BY <1>6, <1>7, <1>8

LEMMA NoticeTaken ==
  ASSUME TypeOK, NoticeThenFlag, NEW t \in Workers, stopRing[t] # <<>>,
         stopRing' = [stopRing EXCEPT ![t] = Tail(@)]
  PROVE  LET s == Head(stopRing[t])
         IN  /\ s \in Sessions /\ Noticed(s, t)
             /\ \A x \in Sessions : \A u \in Workers :
                  Noticed(x, u)' <=> Noticed(x, u) /\ ~(x = s /\ u = t)
             /\ \A u \in Workers : \A i, j \in 1 .. Len(stopRing'[u]) :
                  stopRing'[u][i] = stopRing'[u][j] => i = j
<1>1. stopRing \in [Workers -> Seq(Sessions)] /\ stopRing[t] \in Seq(Sessions)
  BY DEF TypeOK, RingsType
<1>2. /\ stopRing'[t] = Tail(stopRing[t])
      /\ \A u \in Workers : u # t => stopRing'[u] = stopRing[u]
  BY <1>1
<1>3. \A i, j \in 1 .. Len(stopRing[t]) : stopRing[t][i] = stopRing[t][j] => i = j
  BY DEF NoticeThenFlag
<1> DEFINE s == Head(stopRing[t])
           rest == Tail(stopRing[t])
<1>4. /\ s \in Sessions
      /\ \E i \in 1 .. Len(stopRing[t]) : stopRing[t][i] = s
      /\ \A i, j \in 1 .. Len(rest) : rest[i] = rest[j] => i = j
      /\ \A x : (\E i \in 1 .. Len(rest) : rest[i] = x)
                  <=> (\E i \in 1 .. Len(stopRing[t]) : stopRing[t][i] = x) /\ x # s
  BY <1>1, <1>3, TailRemovesHead
<1>5. \A i, j \in 1 .. Len(stopRing'[t]) : stopRing'[t][i] = stopRing'[t][j] => i = j
  BY <1>2, <1>4
<1>6. ASSUME NEW x PROVE Noticed(x, t)' <=> Noticed(x, t) /\ x # s
  <2>1. Noticed(x, t)' <=> \E i \in 1 .. Len(rest) : rest[i] = x
    BY <1>2 DEF Noticed
  <2>2. Noticed(x, t) <=> \E i \in 1 .. Len(stopRing[t]) : stopRing[t][i] = x
    BY DEF Noticed
  <2> HIDE DEF s, rest
  <2> QED BY <1>4, <2>1, <2>2
<1>7. \A u \in Workers : u # t => \A x : Noticed(x, u)' <=> Noticed(x, u)
  BY <1>2 DEF Noticed
<1>8. \A u \in Workers : \A i, j \in 1 .. Len(stopRing'[u]) :
        stopRing'[u][i] = stopRing'[u][j] => i = j
  BY <1>2, <1>5 DEF NoticeThenFlag
<1>9. Noticed(s, t)
  BY <1>4 DEF Noticed
<1> QED BY <1>4, <1>6, <1>7, <1>8, <1>9

-----------------------------------------------------------------------------
(* The invariant, action by action.                                         *)

LEMMA InitAck == Init => AckInv
<1> SUFFICES ASSUME Init PROVE AckInv
  OBVIOUS
<1>1. \A t \in Workers : Len(stopRing[t]) = 0
  BY DEF Init
<1>2. \A s : \A t \in Workers : ~Noticed(s, t)
  BY <1>1 DEF Noticed
<1>3. NoticesOfRetired /\ NoticeThenFlag
  BY <1>1, <1>2 DEF Init, NoticesOfRetired, NoticeThenFlag
<1>4. CloserTellsInTurn /\ UserHasNoFlag /\ MoverSeesFlags
  BY DEF Init, NotClosing, CloserTellsInTurn, Closing, UserHasNoFlag, Busy, MoverSeesFlags
<1> QED BY <1>3, <1>4 DEF AckInv

\* The parts of the state the invariant is about.
LEMMA AckFrame ==
  ASSUME AckInv,
         UNCHANGED <<pool, willReuse, closer, sid, stopped, stopRing, pc, hand, held>>
  PROVE  AckInv'
<1>1. \A s \in Sessions : /\ InPool(s)' <=> InPool(s)
                          /\ Retired(s)' <=> Retired(s)
                          /\ \A t \in Workers : Noticed(s, t)' <=> Noticed(s, t)
  BY DEF InPool, Retired, Noticed
<1>2. NoticesOfRetired' /\ NoticeThenFlag'
  BY <1>1 DEF AckInv, NoticesOfRetired, NoticeThenFlag
<1>3. CloserTellsInTurn' /\ UserHasNoFlag' /\ MoverSeesFlags'
  BY DEF AckInv, CloserTellsInTurn, Retired, Noticed, UserHasNoFlag, InPool,
     MoverSeesFlags, AllStopped
<1> QED BY <1>2, <1>3 DEF AckInv

\* Everything but what the workers have in hand.
LEMMA WorkerFrame ==
  ASSUME AckInv, UNCHANGED <<pool, willReuse, closer, sid, stopped, stopRing>>
  PROVE  /\ NoticesOfRetired' /\ NoticeThenFlag' /\ CloserTellsInTurn'
         /\ \A s : InPool(s)' <=> InPool(s)
<1>1. \A s \in Sessions : /\ InPool(s)' <=> InPool(s)
                          /\ Retired(s)' <=> Retired(s)
                          /\ \A t \in Workers : Noticed(s, t)' <=> Noticed(s, t)
  BY DEF InPool, Retired, Noticed
<1>2. NoticesOfRetired' /\ NoticeThenFlag'
  BY <1>1 DEF AckInv, NoticesOfRetired, NoticeThenFlag
<1>3. CloserTellsInTurn'
  BY DEF AckInv, CloserTellsInTurn, Retired, Noticed
<1>4. \A s : InPool(s)' <=> InPool(s)
  BY DEF InPool
<1> QED BY <1>2, <1>3, <1>4

\* A worker finds only current sessions, on which no flag is up.
LEMMA FindAck ==
  ASSUME TypeOK, PoolInv, AckInv, NEW t \in Workers, Find(t) PROVE AckInv'
<1>1. PICK s \in Live : /\ hand' = [hand EXCEPT ![t] = s]
                        /\ held' = [held EXCEPT ![t] = sid[s]]
  BY DEF Find
<1>2. /\ pc' = [pc EXCEPT ![t] = "use"]
      /\ UNCHANGED <<pool, willReuse, closer, sid, stopped, stopRing>>
  BY DEF Find, slots, session, rings
<1>3. s \in Sessions /\ ~InPool(s) /\ stopped[s] = {}
  BY <1>1, LiveIsCurrent DEF Live, AckInv, NoticesOfRetired
<1>4. /\ NoticesOfRetired' /\ NoticeThenFlag' /\ CloserTellsInTurn'
      /\ \A x : InPool(x)' <=> InPool(x)
  BY <1>2, WorkerFrame
<1>5. /\ pc'[t] = "use" /\ hand'[t] = s /\ held'[t] = sid[s]
      /\ \A u \in Workers : u # t => /\ pc'[u] = pc[u] /\ hand'[u] = hand[u]
                                     /\ held'[u] = held[u]
  BY <1>1, <1>2 DEF TypeOK, WorkType
<1>6. UserHasNoFlag'
  BY <1>2, <1>3, <1>4, <1>5 DEF AckInv, UserHasNoFlag
<1>7. MoverSeesFlags'
  BY <1>2, <1>5 DEF AckInv, MoverSeesFlags, AllStopped
<1> QED BY <1>4, <1>6, <1>7 DEF AckInv

\* A worker that lets go, or goes on to ask for the close.
LEMMA LeaveAck ==
  ASSUME TypeOK, AckInv, NEW t \in Workers,
         LetGo(t) \/ (/\ pc[t] = "use" /\ pc' = [pc EXCEPT ![t] = "ask"]
                      /\ UNCHANGED <<hand, held>>),
         UNCHANGED <<pool, willReuse, closer, sid, stopped, stopRing>>
  PROVE  AckInv'
<1>1. /\ NoticesOfRetired' /\ NoticeThenFlag' /\ CloserTellsInTurn'
      /\ \A x : InPool(x)' <=> InPool(x)
  BY WorkerFrame
<1>2. /\ \A u \in Workers : u # t => /\ pc'[u] = pc[u] /\ hand'[u] = hand[u]
                                     /\ held'[u] = held[u]
      /\ \/ pc'[t] = "idle"
         \/ /\ pc'[t] = "ask" /\ pc[t] = "use"
            /\ hand'[t] = hand[t] /\ held'[t] = held[t]
  BY DEF LetGo, TypeOK, WorkType
<1>3. UserHasNoFlag' /\ MoverSeesFlags'
  BY <1>1, <1>2 DEF AckInv, UserHasNoFlag, Busy, MoverSeesFlags, AllStopped
<1> QED BY <1>1, <1>3 DEF AckInv

\* The flag goes up when the notice is taken, by a worker with nothing in hand.
LEMMA AckStopAck ==
  ASSUME TypeOK, AckInv, NEW t \in Workers, AckStop(t) PROVE AckInv'
<1> DEFINE s == Head(stopRing[t])
<1>1. /\ pc[t] = "idle" /\ stopRing[t] # <<>>
      /\ stopRing' = [stopRing EXCEPT ![t] = Tail(@)]
      /\ stopped' = [stopped EXCEPT ![s] = @ \union {t}]
      /\ hand' = [hand EXCEPT ![t] = s]
      /\ pc' = [pc EXCEPT ![t] = "check"]
      /\ UNCHANGED <<pool, willReuse, closer, sid, held>>
  BY DEF AckStop, slots
<1>2. /\ s \in Sessions /\ Noticed(s, t)
      /\ \A x \in Sessions : \A u \in Workers :
           Noticed(x, u)' <=> Noticed(x, u) /\ ~(x = s /\ u = t)
      /\ \A u \in Workers : \A i, j \in 1 .. Len(stopRing'[u]) :
           stopRing'[u][i] = stopRing'[u][j] => i = j
  BY <1>1, NoticeTaken DEF AckInv
<1> HIDE DEF s
<1>3. /\ \A x \in Sessions : stopped'[x] = IF x = s THEN stopped[x] \union {t} ELSE stopped[x]
      /\ pc'[t] = "check"
      /\ \A u \in Workers : u # t => pc'[u] = pc[u] /\ hand'[u] = hand[u]
  BY <1>1, <1>2 DEF TypeOK, SessionType, WorkType
<1>4. \A x : (InPool(x)' <=> InPool(x)) /\ (Retired(x)' <=> Retired(x))
  BY <1>1 DEF InPool, Retired
<1>5. Retired(s)
  BY <1>2 DEF AckInv, NoticesOfRetired
<1>6. NoticesOfRetired'
  BY <1>2, <1>3, <1>4, <1>5 DEF AckInv, NoticesOfRetired
<1>7. NoticeThenFlag'
  <2>1. ASSUME NEW u \in Workers, NEW x \in Sessions, u \in stopped'[x]
        PROVE  ~Noticed(x, u)'
    <3>1. CASE x = s /\ u = t
      BY <1>2, <3>1
    <3>2. CASE ~(x = s /\ u = t)
      <4>1. u \in stopped[x]
        BY <1>3, <2>1, <3>2
      <4>2. ~Noticed(x, u)
        BY <4>1 DEF AckInv, NoticeThenFlag
      <4> QED BY <1>2, <4>2
    <3> QED BY <3>1, <3>2
  <2> QED BY <1>2, <2>1 DEF NoticeThenFlag
<1>8. CloserTellsInTurn'
  <2>1. CASE closer.pc \in Closing
    <3>1. closer.s \in Sessions /\ Untold[closer.pc] \subseteq Workers
      BY <2>1 DEF TypeOK, CloserType, NotClosing, Closing, Untold, Workers
    <3> QED BY <1>1, <1>2, <1>3, <1>4, <2>1, <3>1 DEF AckInv, CloserTellsInTurn
  <2>2. CASE closer.pc \notin Closing
    BY <1>1, <2>2 DEF CloserTellsInTurn
  <2> QED BY <2>1, <2>2
<1>9. \A u \in Workers : pc[u] # "idle" => hand[u] \in Sessions
  BY DEF TypeOK, WorkType
<1>10. UserHasNoFlag'
  BY <1>1, <1>3, <1>4, <1>9 DEF AckInv, UserHasNoFlag, Busy
<1>11. MoverSeesFlags'
  BY <1>3, <1>9 DEF AckInv, MoverSeesFlags, AllStopped
<1> QED BY <1>6, <1>7, <1>8, <1>10, <1>11 DEF AckInv

LEMMA CheckStopAck ==
  ASSUME TypeOK, AckInv, NEW t \in Workers, CheckStop(t) PROVE AckInv'
<1>1. UNCHANGED <<pool, willReuse, closer, sid, stopped, stopRing>>
  BY DEF CheckStop, slots, session, rings
<1>2. CASE AllStopped(hand[t])
  <2>1. pc' = [pc EXCEPT ![t] = "move"] /\ UNCHANGED <<hand, held>>
    BY <1>2 DEF CheckStop
  <2>2. /\ NoticesOfRetired' /\ NoticeThenFlag' /\ CloserTellsInTurn'
        /\ \A x : InPool(x)' <=> InPool(x)
    BY <1>1, WorkerFrame
  <2>3. pc'[t] = "move" /\ \A u \in Workers : u # t => pc'[u] = pc[u]
    BY <2>1 DEF TypeOK, WorkType
  <2>4. UserHasNoFlag'
    BY <1>1, <2>1, <2>2, <2>3 DEF AckInv, UserHasNoFlag, Busy
  <2>5. MoverSeesFlags'
    BY <1>1, <1>2, <2>1, <2>3 DEF AckInv, MoverSeesFlags, AllStopped
  <2> QED BY <2>2, <2>4, <2>5 DEF AckInv
<1>3. CASE ~AllStopped(hand[t])
  BY <1>1, <1>3, LeaveAck DEF CheckStop
<1> QED BY <1>2, <1>3

\* With four flags up, no worker and not the close thread uses the session.
LEMMA NobodyLeft ==
  ASSUME TypeOK, AckInv, NEW s \in Sessions, AllStopped(s)
  PROVE  /\ \A t \in Workers : ~(pc[t] \in Busy /\ hand[t] = s)
         /\ ~(closer.pc \in Closing /\ closer.s = s)
         /\ \A t \in Workers : ~Noticed(s, t)
<1>1. \A t \in Workers : ~(pc[t] \in Busy /\ hand[t] = s)
  BY DEF AckInv, UserHasNoFlag, AllStopped
<1>2. ASSUME closer.pc \in Closing, closer.s = s PROVE FALSE
  <2>1. "send" \in Untold[closer.pc] /\ "send" \in Workers
    BY <1>2 DEF Closing, Untold, Workers
  <2> QED BY <1>2, <2>1 DEF AckInv, CloserTellsInTurn, AllStopped
<1>3. \A t \in Workers : ~Noticed(s, t)
  BY DEF AckInv, NoticeThenFlag, AllStopped
<1> QED BY <1>1, <1>2, <1>3


\* The session goes to the pool when nobody holds it and no notice is left.
LEMMA MoveAck ==
  ASSUME TypeOK, PoolInv, AckInv, NEW t \in Workers, MoveToPool(t) PROVE AckInv'
<1> DEFINE s == hand[t]
<1>1. CASE s \notin willReuse
  BY <1>1, LeaveAck DEF MoveToPool, rings
<1>2. CASE s \in willReuse
  <2>1. s \in Sessions /\ Retired(s) /\ AllStopped(s)
    BY <1>2 DEF TypeOK, SlotsType, Retired, MoveToPool, AckInv, MoverSeesFlags
  <2>2. /\ \A u \in Workers : ~(pc[u] \in Busy /\ hand[u] = s)
        /\ ~(closer.pc \in Closing /\ closer.s = s)
        /\ \A u \in Workers : ~Noticed(s, u)
    BY <2>1, NobodyLeft
  <2>3. /\ pool' = Append(pool, s) /\ willReuse' = willReuse \ {s} /\ LetGo(t)
        /\ UNCHANGED <<closer, sid, stopped, stopRing>>
    BY <1>2 DEF MoveToPool, rings
  <2>4. \A x : InPool(x)' <=> InPool(x) \/ x = s
    <3>1. /\ pool \in Seq(Sessions)
          /\ \A i, j \in 1 .. Len(pool) : pool[i] = pool[j] => i = j
          /\ \A i \in 1 .. Len(pool) : pool[i] # s
      BY <2>1 DEF TypeOK, SlotsType, PoolInv, SessionsConserved, PoolPairsSlots,
         PooledIsNowhereElse, InPool
    <3>2. \A x : (\E i \in 1 .. Len(Append(pool, s)) : Append(pool, s)[i] = x)
                   <=> (\E i \in 1 .. Len(pool) : pool[i] = x) \/ x = s
      <4> HIDE DEF s
      <4> QED BY <2>1, <3>1, AppendAddsElement
    <3> QED BY <2>3, <3>2, Zenon DEF InPool
  <2>5. \A x \in Sessions : Retired(x)' <=> Retired(x) /\ x # s
    BY <2>2, <2>3 DEF Retired, Closing
  <2>6. \A x : \A u \in Workers : Noticed(x, u)' <=> Noticed(x, u)
    BY <2>3 DEF Noticed
  <2>7. /\ \A u \in Workers : u # t => pc'[u] = pc[u] /\ hand'[u] = hand[u] /\ held'[u] = held[u]
        /\ pc'[t] = "idle"
    BY <2>3 DEF LetGo, TypeOK, WorkType
  <2> HIDE DEF s
  <2>8. NoticesOfRetired'
    BY <2>2, <2>3, <2>4, <2>5, <2>6 DEF AckInv, NoticesOfRetired
  <2>9. NoticeThenFlag'
    BY <2>3, <2>6 DEF AckInv, NoticeThenFlag
  <2>10. CloserTellsInTurn'
    <3>1. CASE closer.pc \in Closing
      <4>1. PICK c \in Sessions : c = closer.s
        BY <3>1 DEF TypeOK, CloserType, NotClosing, Closing
      <4>a. c # s /\ Retired(c) /\ sid[c] = closer.id
        BY <2>2, <3>1, <4>1 DEF AckInv, CloserTellsInTurn
      <4>b. Retired(c)'
        BY <2>5, <4>a
      <4>2. Untold[closer.pc] \subseteq Workers
        BY <3>1 DEF Closing, Untold, Workers
      <4> QED BY <2>3, <2>6, <3>1, <4>1, <4>2, <4>a, <4>b DEF AckInv, CloserTellsInTurn
    <3>2. CASE closer.pc \notin Closing
      BY <2>3, <3>2 DEF CloserTellsInTurn
    <3> QED BY <3>1, <3>2
  <2>11. UserHasNoFlag'
    BY <2>2, <2>3, <2>4, <2>7 DEF AckInv, UserHasNoFlag, Busy
  <2>12. MoverSeesFlags'
    BY <2>3, <2>7 DEF AckInv, MoverSeesFlags, AllStopped
  <2> QED BY <2>8, <2>9, <2>10, <2>11, <2>12 DEF AckInv
<1> QED BY <1>1, <1>2

\* The request at the head of a ring names an id that was issued.
LEMMA RequestIssued ==
  ASSUME TypeOK, IdsIssued, NEW r \in Requesters, closeRing[r] # <<>>
  PROVE  LET id == Head(closeRing[r])
         IN  /\ id \in Ids /\ id.index <= sid[id.slot].index
             /\ 1 \in 1 .. Len(closeRing[r]) /\ id = closeRing[r][1]
<1>1. closeRing[r] \in Seq(Ids)
  BY DEF TypeOK, RingsType
<1>2. Len(closeRing[r]) \in Nat /\ Len(closeRing[r]) # 0
  BY <1>1, LenProperties, EmptySeq
<1>3. 1 \in 1 .. Len(closeRing[r]) /\ Head(closeRing[r]) = closeRing[r][1]
  BY <1>1, <1>2
<1>4. closeRing[r][1] \in Ids
  BY <1>1, <1>3, ElementOfSeq
<1> QED BY <1>3, <1>4 DEF IdsIssued

\* What FreeSession retires has no flag up and no notice under way.
LEMMA TakeRequestAck ==
  ASSUME TypeOK, PoolInv, IdsIssued, AckInv, NEW r \in Requesters, TakeRequest(r)
  PROVE  AckInv'
<1> DEFINE id == Head(closeRing[r])
           s == FindSession(id)
<1>1. id \in Ids /\ id.index <= sid[id.slot].index
  BY RequestIssued DEF TakeRequest
<1>2. UNCHANGED <<pool, willReuse, sid, stopped, stopRing, pc, hand, held>>
  BY DEF TakeRequest, session, work
<1>3. CASE s = NoSession
  BY <1>2, <1>3, AckFrame DEF TakeRequest
<1>4. CASE s # NoSession
  <2>1. s \in Sessions /\ ~InPool(s) /\ ~Retired(s)
    BY <1>1, <1>4, FoundIsCurrent
  <2>2. /\ closer' = [pc |-> "retire", s |-> s, id |-> sid[s]]
        /\ closer.pc = "idle"
    BY <1>4 DEF TakeRequest
  <2> HIDE DEF s
  <2>3. \A x \in Sessions : /\ InPool(x)' <=> InPool(x)
                            /\ Retired(x)' <=> Retired(x) \/ x = s
                            /\ \A u \in Workers : Noticed(x, u)' <=> Noticed(x, u)
    BY <1>2, <2>2 DEF InPool, Retired, Noticed
  <2>4. stopped[s] = {} /\ \A u \in Workers : ~Noticed(s, u)
    BY <2>1 DEF AckInv, NoticesOfRetired
  <2>5. NoticesOfRetired' /\ NoticeThenFlag'
    BY <1>2, <2>3 DEF AckInv, NoticesOfRetired, NoticeThenFlag
  <2>6. CloserTellsInTurn'
    BY <1>2, <2>1, <2>2, <2>3, <2>4 DEF CloserTellsInTurn, Untold
  <2>7. UserHasNoFlag' /\ MoverSeesFlags'
    BY <1>2, <2>3 DEF AckInv, UserHasNoFlag, InPool, MoverSeesFlags, AllStopped
  <2> QED BY <2>5, <2>6, <2>7 DEF AckInv
<1> QED BY <1>3, <1>4

LEMMA RetireAck ==
  ASSUME TypeOK, AckInv, AddToWillReuseManager PROVE AckInv'
<1>1. /\ closer.pc = "retire" /\ closer \in [pc : Closing, s : Sessions, id : Ids]
      /\ willReuse' = willReuse \union {closer.s}
      /\ UNCHANGED <<pool, sid, stopped, stopRing, pc, hand, held>>
  BY DEF AddToWillReuseManager, TypeOK, CloserType, NotClosing, Closing, session,
     rings, work
<1>2. closer'.pc = "tell_main" /\ closer'.s = closer.s /\ closer'.id = closer.id
  BY <1>1 DEF AddToWillReuseManager
<1>3. \A x \in Sessions : /\ InPool(x)' <=> InPool(x)
                          /\ Retired(x)' <=> Retired(x)
                          /\ \A u \in Workers : Noticed(x, u)' <=> Noticed(x, u)
  BY <1>1, <1>2 DEF InPool, Retired, Noticed
<1>4. NoticesOfRetired' /\ NoticeThenFlag'
  BY <1>1, <1>3 DEF AckInv, NoticesOfRetired, NoticeThenFlag
<1>5. CloserTellsInTurn'
  <2>1. /\ closer.s \in Sessions /\ Retired(closer.s) /\ sid[closer.s] = closer.id
        /\ \A t \in Workers : t \notin stopped[closer.s] /\ ~Noticed(closer.s, t)
    BY <1>1 DEF AckInv, CloserTellsInTurn, Untold, Closing
  <2> QED BY <1>1, <1>2, <1>3, <2>1 DEF CloserTellsInTurn, Untold
<1>6. UserHasNoFlag' /\ MoverSeesFlags'
  BY <1>1 DEF AckInv, UserHasNoFlag, InPool, MoverSeesFlags, AllStopped
<1> QED BY <1>4, <1>5, <1>6 DEF AckInv

\* The close thread sends t the notice it has not sent yet, if t is to get one.
LEMMA TellAck ==
  ASSUME TypeOK, AckInv, NEW t \in Workers,
         NEW from \in Closing \ {"retire"}, NEW to \in (Closing \union {"publish"}) \ {"retire"},
         t \in Untold[from], Untold[to] \subseteq Untold[from] \ {t}, Tell(t, from, to)
  PROVE  AckInv'
<1>a. PICK s \in Sessions : s = closer.s
  BY DEF Tell, TypeOK, CloserType, NotClosing, Closing
<1>1. /\ closer.pc = from
      /\ closer'.pc = to /\ closer'.s = s /\ closer'.id = closer.id
      /\ UNCHANGED <<pool, willReuse, sid, stopped, pc, hand, held>>
  BY <1>a DEF Tell, TypeOK, CloserType, NotClosing, Closing, slots, session, work
<1>2. /\ Retired(s) /\ sid[s] = closer.id
      /\ \A u \in Untold[from] : u \notin stopped[s] /\ ~Noticed(s, u)
  BY <1>1, <1>a DEF AckInv, CloserTellsInTurn
<1>3. \A x \in Sessions : /\ InPool(x)' <=> InPool(x)
                          /\ Retired(x)' <=> Retired(x)
  BY <1>1, <1>a DEF InPool, Retired
<1>4. /\ \A x \in Sessions : \A u \in Workers :
           Noticed(x, u)' => Noticed(x, u) \/ (x = s /\ u = t)
      /\ \A u \in Workers : \A i, j \in 1 .. Len(stopRing'[u]) :
           stopRing'[u][i] = stopRing'[u][j] => i = j
  <2>1. CASE stopRing' = stopRing
    BY <2>1 DEF Noticed, AckInv, NoticeThenFlag
  <2>2. CASE stopRing' # stopRing
    <3>1. stopRing' = [stopRing EXCEPT ![t] = Append(@, s)] /\ ~Noticed(s, t)
      BY <1>1, <1>2, <1>a, <2>2 DEF Tell
    <3>2. NoticeThenFlag
      BY DEF AckInv
    <3>3. \A x \in Sessions : \A u \in Workers :
            Noticed(x, u)' <=> Noticed(x, u) \/ (x = s /\ u = t)
      BY <3>1, <3>2, NoticeAdded
    <3>4. \A u \in Workers : \A i, j \in 1 .. Len(stopRing'[u]) :
            stopRing'[u][i] = stopRing'[u][j] => i = j
      BY <3>1, <3>2, NoticeAdded
    <3> QED BY <3>3, <3>4
  <2> QED BY <2>1, <2>2
<1>5. NoticesOfRetired'
  BY <1>1, <1>2, <1>3, <1>4 DEF AckInv, NoticesOfRetired
<1>6. NoticeThenFlag'
  <2>1. ASSUME NEW u \in Workers, NEW x \in Sessions, u \in stopped[x]
        PROVE  ~Noticed(x, u)'
    <3>1. ~Noticed(x, u)
      BY <2>1 DEF AckInv, NoticeThenFlag
    <3>2. ~(x = s /\ u = t)
      BY <1>2, <2>1
    <3> QED BY <1>4, <3>1, <3>2
  <2> QED BY <1>1, <1>4, <2>1 DEF NoticeThenFlag
<1>7. CloserTellsInTurn'
  <2>1. \A u \in Untold[to] : u \in Workers /\ u # t /\ u \notin stopped[s] /\ ~Noticed(s, u)
    BY <1>2 DEF Untold, Workers, Closing
  <2>2. \A u \in Untold[to] : ~Noticed(s, u)'
    BY <1>4, <2>1
  <2>3. Retired(s)' /\ sid'[s] = closer'.id
    BY <1>1, <1>2, <1>3
  <2>4. \A u \in Untold[to] : u \notin stopped'[s]
    BY <1>1, <2>1
  <2> QED BY <1>1, <2>2, <2>3, <2>4 DEF CloserTellsInTurn
<1>8. UserHasNoFlag' /\ MoverSeesFlags'
  BY <1>1 DEF AckInv, UserHasNoFlag, InPool, MoverSeesFlags, AllStopped
<1> QED BY <1>5, <1>6, <1>7, <1>8 DEF AckInv

LEMMA PublishAck ==
  ASSUME TypeOK, AckInv, PublishDisconnect PROVE AckInv'
<1>1. /\ closer.pc = "publish" /\ closer' = NotClosing
      /\ UNCHANGED <<pool, willReuse, sid, stopped, stopRing, pc, hand, held>>
  BY DEF PublishDisconnect, slots, session, rings, work
<1>2. \A x \in Sessions : /\ InPool(x)' <=> InPool(x)
                          /\ Retired(x)' <=> Retired(x)
                          /\ \A u \in Workers : Noticed(x, u)' <=> Noticed(x, u)
  BY <1>1 DEF InPool, Retired, Noticed, NotClosing
<1>3. NoticesOfRetired' /\ NoticeThenFlag'
  BY <1>1, <1>2 DEF AckInv, NoticesOfRetired, NoticeThenFlag
<1>4. CloserTellsInTurn'
  BY <1>1 DEF CloserTellsInTurn, NotClosing, Closing
<1>5. UserHasNoFlag' /\ MoverSeesFlags'
  BY <1>1 DEF AckInv, UserHasNoFlag, InPool, MoverSeesFlags, AllStopped
<1> QED BY <1>3, <1>4, <1>5 DEF AckInv

\* What the allocation takes from the pool.
LEMMA AllocTakes ==
  ASSUME TypeOK, PoolInv, AllocSession
  PROVE  LET s == Head(pool)
         IN  /\ s \in Sessions /\ InPool(s)
             /\ \A x : InPool(x)' <=> InPool(x) /\ x # s
             /\ sid' = [sid EXCEPT ![s] = [slot |-> s, index |-> slotIndex[s]]]
<1>1. /\ pool \in Seq(Sessions) /\ pool # <<>> /\ pool = freeSlots
      /\ \A i, j \in 1 .. Len(pool) : pool[i] = pool[j] => i = j
      /\ pool' = Tail(pool)
      /\ sid' = [sid EXCEPT ![Head(pool)] =
                   [slot |-> Head(freeSlots), index |-> slotIndex[Head(freeSlots)]]]
  BY DEF AllocSession, TypeOK, SlotsType, PoolInv, SessionsConserved, PoolPairsSlots
<1>2. /\ Head(pool) \in Sessions
      /\ \E i \in 1 .. Len(pool) : pool[i] = Head(pool)
      /\ \A x : (\E i \in 1 .. Len(Tail(pool)) : Tail(pool)[i] = x)
                  <=> (\E i \in 1 .. Len(pool) : pool[i] = x) /\ x # Head(pool)
  <2>1. /\ pool \in Seq(Sessions) /\ pool # <<>>
        /\ \A i, j \in 1 .. Len(pool) : pool[i] = pool[j] => i = j
    BY <1>1
  <2> HIDE DEF Sessions
  <2> QED BY <2>1, TailRemovesHead
<1>3. PICK s : s = Head(pool)
  OBVIOUS
<1>4. s \in Sessions /\ InPool(s)
  BY <1>2, <1>3, Zenon DEF InPool
<1>5. \A x : InPool(x)' <=> InPool(x) /\ x # s
  <2>1. PICK tail : tail = Tail(pool) /\ pool' = tail
    BY <1>1
  <2>2. \A x : (\E i \in 1 .. Len(tail) : tail[i] = x)
                <=> (\E i \in 1 .. Len(pool) : pool[i] = x) /\ x # s
    BY <1>2, <1>3, <2>1
  <2> QED BY <2>1, <2>2 DEF InPool
<1>6. sid' = [sid EXCEPT ![s] = [slot |-> s, index |-> slotIndex[s]]]
  BY <1>1, <1>3
<1> QED BY <1>3, <1>4, <1>5, <1>6

\* A new connection starts without flags, and nobody is left to raise one.
LEMMA AllocAck ==
  ASSUME TypeOK, PoolInv, AckInv, AllocSession, NotOvertaken PROVE AckInv'
<1> DEFINE s == Head(pool)
<1>1. /\ s \in Sessions /\ InPool(s)
      /\ \A x : InPool(x)' <=> InPool(x) /\ x # s
      /\ sid' = [sid EXCEPT ![s] = [slot |-> s, index |-> slotIndex[s]]]
  BY AllocTakes
<1>2. /\ stopped' = [stopped EXCEPT ![s] = {}] /\ ~MoverOf(s)
      /\ UNCHANGED <<willReuse, closer, stopRing, pc, hand, held>>
  BY DEF AllocSession, Reset, NotOvertaken, rings, work
<1>3. ~Retired(s)
  BY <1>1 DEF PoolInv, SessionsConserved, PooledIsNowhereElse
<1> HIDE DEF s
<1>4. /\ stopped'[s] = {}
      /\ \A x \in Sessions : x # s => stopped'[x] = stopped[x] /\ sid'[x] = sid[x]
  BY <1>1, <1>2 DEF TypeOK, SessionType
<1>5. \A x : /\ Retired(x)' <=> Retired(x)
             /\ \A u \in Workers : Noticed(x, u)' <=> Noticed(x, u)
  BY <1>2 DEF Retired, Noticed
<1>6. NoticesOfRetired'
  BY <1>1, <1>3, <1>4, <1>5 DEF AckInv, NoticesOfRetired
<1>7. NoticeThenFlag'
  BY <1>1, <1>2, <1>3, <1>4, <1>5 DEF AckInv, NoticeThenFlag
<1>8. CloserTellsInTurn'
  <2>1. CASE closer.pc \in Closing
    <3>1. closer.s \in Sessions /\ Untold[closer.pc] \subseteq Workers
      BY <2>1 DEF TypeOK, CloserType, NotClosing, Closing, Untold, Workers
    <3>2. Retired(closer.s) /\ sid[closer.s] = closer.id /\ closer.s # s
      BY <1>3, <2>1 DEF AckInv, CloserTellsInTurn
    <3>3. stopped'[closer.s] = stopped[closer.s] /\ sid'[closer.s] = sid[closer.s]
      BY <1>4, <3>1, <3>2
    <3> QED BY <1>2, <1>5, <2>1, <3>1, <3>2, <3>3 DEF AckInv, CloserTellsInTurn
  <2>2. CASE closer.pc \notin Closing
    BY <1>2, <2>2 DEF CloserTellsInTurn
  <2> QED BY <2>1, <2>2
<1>9. \A u \in Workers : pc[u] # "idle" => hand[u] \in Sessions
  BY DEF TypeOK, WorkType
<1>10. UserHasNoFlag'
  BY <1>1, <1>2, <1>4, <1>9 DEF AckInv, UserHasNoFlag, Busy
<1>11. MoverSeesFlags'
  BY <1>2, <1>4, <1>9 DEF AckInv, MoverSeesFlags, AllStopped, MoverOf
<1> QED BY <1>6, <1>7, <1>8, <1>10, <1>11 DEF AckInv

LEMMA NextAck ==
  TypeOK /\ PoolInv /\ IdsIssued /\ AckInv /\ [Next]_vars /\ (NotOvertaken \/ UNCHANGED vars)
    => AckInv'
<1> SUFFICES ASSUME TypeOK, PoolInv, IdsIssued, AckInv, [Next]_vars,
                    NotOvertaken \/ UNCHANGED vars
    PROVE  AckInv'
  OBVIOUS
<1>1. CASE UNCHANGED vars
  BY <1>1, AckFrame DEF vars, slots, session, rings, work
<1>2. CASE AllocSession /\ ~UNCHANGED vars
  BY <1>2, AllocAck
<1>3. CASE AcceptStep
  BY <1>3, AckFrame DEF AcceptStep, BindRecvThread, BindSendThread, BindEpollThread,
     Bind, AnnounceAccepted, AcceptGivesUp, AcceptMarks, slots, session, rings, work
<1>4. ASSUME NEW t \in Workers, Finish(t) \/ Judge(t) \/ RequestClose(t)
      PROVE  AckInv'
  BY <1>4, LeaveAck DEF Finish, Judge, RequestClose, slots, session, rings
<1>5. ASSUME NEW t \in Workers, Find(t) \/ AckStop(t) \/ CheckStop(t) \/ MoveToPool(t)
      PROVE  AckInv'
  BY <1>5, FindAck, AckStopAck, CheckStopAck, MoveAck
<1>6. ASSUME NEW r \in Requesters, TakeRequest(r)
      PROVE  AckInv'
  BY <1>6, TakeRequestAck
<1>7. CASE AddToWillReuseManager \/ PublishDisconnect
  BY <1>7, RetireAck, PublishAck
<1>8. CASE TellMain
  BY <1>8, TellAck DEF TellMain, Untold, Closing, Workers
<1>9. CASE TellEpoll
  BY <1>9, TellAck DEF TellEpoll, Untold, Closing, Workers
<1>10. CASE TellRecv
  BY <1>10, TellAck DEF TellRecv, Untold, Closing, Workers
<1>11. CASE TellSend
  BY <1>11, TellAck DEF TellSend, Untold, Closing, Workers
<1> QED
  BY <1>1, <1>2, <1>3, <1>4, <1>5, <1>6, <1>7, <1>8, <1>9, <1>10, <1>11
  DEF Next, Ongoing, CloserStep, Leave, WornOut

-----------------------------------------------------------------------------
(* What follows from it.                                                    *)

\* The acknowledgements keep their order in every behaviour in which no
\* worker about to put a session back is overtaken by its next allocation.
THEOREM AcknowledgementInv == Spec /\ [][NotOvertaken]_vars => []AckInv
<1>1. Init => AckInv
  BY InitAck
<1>2. IInv /\ AckInv /\ [Next]_vars /\ [NotOvertaken]_vars => AckInv'
  BY NextAck DEF IInv
<1> QED BY <1>1, <1>2, LifecycleInv, PTL DEF Spec

\* These are the behaviours the runs of the life cycle check.
LEMMA PromptIsSpec == PromptSpec => Spec /\ [][NotOvertaken]_vars
<1>1. [PromptNext]_vars => [Next]_vars
  BY DEF PromptNext, Next
<1>2. ASSUME TypeOK, [PromptNext]_vars PROVE [NotOvertaken]_vars
  <2>1. CASE AllocSession /\ ~MoverOf(Head(pool))
    BY <2>1 DEF NotOvertaken
  <2>2. CASE Ongoing
    <3>1. AllocSession => acc.pc = "idle" /\ acc'.pc = "bind_recv"
      BY DEF AllocSession
    <3>2. acc.pc # "idle" \/ acc' = acc
      <4>1. AcceptStep => acc.pc # "idle"
        BY DEF AcceptStep, BindRecvThread, BindSendThread, BindEpollThread, Bind,
               AnnounceAccepted, AcceptGivesUp, AcceptMarks
      <4>2. ASSUME NEW t \in Workers,
                   Find(t) \/ Leave(t) \/ AckStop(t) \/ CheckStop(t) \/ MoveToPool(t)
            PROVE  acc' = acc
        BY <4>2 DEF Find, Leave, Finish, Judge, RequestClose, AckStop, CheckStop, MoveToPool
      <4>3. (\E r \in Requesters : TakeRequest(r)) \/ CloserStep => acc' = acc
        BY DEF TakeRequest, CloserStep, AddToWillReuseManager, TellMain, TellEpoll,
               TellRecv, TellSend, Tell, PublishDisconnect
      <4>4. WornOut => acc' = acc
        BY DEF WornOut, vars
      <4> QED BY <2>2, <4>1, <4>2, <4>3, <4>4 DEF Ongoing
    <3>3. acc.pc = "idle" /\ acc'.pc = "bind_recv" => acc' # acc
      OBVIOUS
    <3> QED BY <3>1, <3>2, <3>3 DEF NotOvertaken
  <2>3. CASE UNCHANGED vars
    BY <2>3
  <2> QED BY <1>2, <2>1, <2>2, <2>3 DEF PromptNext
<1>3. TypeOK /\ [PromptNext]_vars => [NotOvertaken]_vars
  BY <1>2
<1>4. PromptSpec => Spec
  BY <1>1, PTL DEF PromptSpec, Spec
<1>5. IInv => TypeOK
  BY DEF IInv
<1> QED BY <1>3, <1>4, <1>5, LifecycleInv, PTL DEF PromptSpec

\* LSession.h:82 for every number of sessions: neither a worker nor the close
\* thread ever holds a session that went back to the pool or to another
\* connection.
THEOREM NobodyHoldsRecycled == Spec /\ [][NotOvertaken]_vars => []HeldNotRecycled
<1>1. IInv /\ AckInv => HeldNotRecycled
  <2> SUFFICES ASSUME TypeOK, PoolInv, AckInv PROVE HeldNotRecycled
    BY DEF IInv
  <2>1. \A t \in Workers : pc[t] \in Busy => ~InPool(hand[t]) /\ sid[hand[t]] = held[t]
    BY DEF AckInv, UserHasNoFlag
  <2>2. closer.pc \in Closing => ~InPool(closer.s) /\ sid[closer.s] = closer.id
    BY DEF TypeOK, CloserType, NotClosing, Closing, AckInv, CloserTellsInTurn, PoolInv,
       SessionsConserved, PooledIsNowhereElse
  <2> QED BY <2>1, <2>2 DEF HeldNotRecycled
<1> QED BY <1>1, LifecycleInv, AcknowledgementInv, PTL

\* A worker whose flag is up has let go of the session, finds it no more and
\* gets no second notice, until the session is handed out again.
THEOREM AcknowledgedLetsGo == Spec /\ [][NotOvertaken]_vars => []AcknowledgedIsLetGo
<1>1. IInv /\ AckInv => AcknowledgedIsLetGo
  <2> SUFFICES ASSUME TypeOK, PoolInv, AckInv, NEW s \in Sessions, ~InPool(s),
                      NEW t \in stopped[s]
      PROVE  /\ s \notin Live
             /\ ~(pc[t] \in Busy /\ hand[t] = s)
             /\ \A i \in 1 .. Len(stopRing[t]) : stopRing[t][i] # s
    BY DEF IInv, AcknowledgedIsLetGo
  <2>1. t \in Workers
    BY DEF TypeOK, SessionType
  <2>2. Retired(s)
    BY DEF AckInv, NoticesOfRetired
  <2>3. s \notin Live
    BY <2>2, LiveIsCurrent
  <2>4. ~(pc[t] \in Busy /\ hand[t] = s)
    BY <2>1 DEF AckInv, UserHasNoFlag
  <2>5. ~Noticed(s, t)
    BY <2>1 DEF AckInv, NoticeThenFlag
  <2> QED BY <2>3, <2>4, <2>5 DEF Noticed
<1> QED BY <1>1, LifecycleInv, AcknowledgementInv, PTL

\* A queue without repetitions holds at most as many items as there are.
LEMMA DistinctFits ==
  ASSUME NEW q \in Seq(Sessions), \A i, j \in 1 .. Len(q) : q[i] = q[j] => i = j
  PROVE  Len(q) <= N
<1>1. q \in [1 .. Len(q) -> Sessions] /\ Len(q) \in Nat
  BY LenProperties
<1>2. IsFiniteSet(Sessions) /\ Cardinality(Sessions) = N
  <2>1. 0 \in Int /\ N - 1 \in Int /\ ~(0 > N - 1)
    BY ConstantsAssumption
  <2>2. IsFiniteSet(0 .. N-1) /\ Cardinality(0 .. N-1) = (N - 1) - 0 + 1
    BY <2>1, FS_Interval
  <2>3. (N - 1) - 0 + 1 = N
    BY ConstantsAssumption
  <2> QED BY <2>2, <2>3 DEF Sessions
<1>3. q \in Injection(1 .. Len(q), Sessions)
  BY <1>1 DEF Injection, IsInjective
<1>4. Cardinality(1 .. Len(q)) <= N
  <2> HIDE DEF Sessions
  <2> QED BY <1>2, <1>3, FS_Injection
<1>5. Cardinality(1 .. Len(q)) = Len(q)
  <2> DEFINE n == Len(q)
  <2>1. n \in Nat
    BY <1>1
  <2> HIDE DEF n
  <2>2. Cardinality(1 .. n) = IF 1 > n THEN 0 ELSE n - 1 + 1
    BY <2>1, FS_Interval
  <2>3. Cardinality(1 .. n) = n
    BY <2>1, <2>2
  <2> QED BY <2>3 DEF n
<1> QED BY <1>4, <1>5

\* MaxClientNum places are enough for the stop ring of every worker: at most
\* one notice of a session is under way to it, and none of a pooled one.
THEOREM StopRingsSuffice == Spec /\ [][NotOvertaken]_vars => []StopNoticesFit
<1>1. IInv /\ AckInv => StopNoticesFit
  <2> SUFFICES ASSUME TypeOK, PoolInv, AckInv, NEW t \in Workers
      PROVE  /\ Len(stopRing[t]) <= N
             /\ \A i, j \in 1 .. Len(stopRing[t]) :
                  stopRing[t][i] = stopRing[t][j] => i = j
             /\ \A i \in 1 .. Len(stopRing[t]) : ~InPool(stopRing[t][i])
    BY DEF IInv, StopNoticesFit
  <2>1. stopRing[t] \in Seq(Sessions)
    BY DEF TypeOK, RingsType
  <2>2. \A i, j \in 1 .. Len(stopRing[t]) : stopRing[t][i] = stopRing[t][j] => i = j
    BY DEF AckInv, NoticeThenFlag
  <2>3. ASSUME NEW i \in 1 .. Len(stopRing[t]) PROVE ~InPool(stopRing[t][i])
    <3>1. PICK s \in Sessions : s = stopRing[t][i]
      BY <2>1, ElementOfSeq
    <3>2. Noticed(s, t)
      BY <3>1 DEF Noticed
    <3>3. Retired(s)
      BY <3>2 DEF AckInv, NoticesOfRetired
    <3> QED BY <3>1, <3>3 DEF PoolInv, SessionsConserved, PooledIsNowhereElse
  <2>4. Len(stopRing[t]) <= N
    BY <2>1, <2>2, DistinctFits
  <2> QED BY <2>2, <2>3, <2>4
<1> QED BY <1>1, LifecycleInv, AcknowledgementInv, PTL

\* The close thread's id was retired, and so was every published one.
ToldInv ==
  /\ closer.pc # "idle" => closer.id.index < slotIndex[closer.id.slot]
  /\ DisconnectOnce

\* However the threads race to ask for a close, and even when a session is
\* recycled too early, a connection's disconnect is published at most once and
\* only after its slot moved on.
THEOREM PublishedOnce == Spec => []DisconnectOnce
<1>1. Init => ToldInv
  BY DEF Init, ToldInv, NotClosing, DisconnectOnce
<1>2. ASSUME IInv, ToldInv, [Next]_vars PROVE ToldInv'
  <2>0. TypeOK /\ PoolInv /\ IdsIssued
    BY <1>2 DEF IInv
  <2>1. CASE UNCHANGED <<closer, slotIndex, told>>
    BY <1>2, <2>1 DEF ToldInv, DisconnectOnce
  <2>2. ASSUME NEW r \in Requesters, TakeRequest(r), closer' # closer PROVE ToldInv'
    <3> DEFINE f == FindSession(Head(closeRing[r]))
    <3>1. f # NoSession
      BY <2>2 DEF TakeRequest
    <3>2. PICK s \in Sessions : s = f /\ sid[s].slot = s /\ slotIndex[s] = sid[s].index
      BY <2>0, <2>2, <3>1, RequestIssued, FoundIsCurrent DEF TakeRequest
    <3>3. /\ slotIndex' = [slotIndex EXCEPT ![s] = @ + 1]
          /\ closer'.id = sid[s] /\ told' = told
      BY <2>2, <3>1, <3>2 DEF TakeRequest
    <3>4. slotIndex \in [Slots -> Nat \ {0}] /\ sid[s] \in Ids /\ told \subseteq Ids
      BY <2>0 DEF TypeOK, SlotsType, SessionType
    <3>5. /\ slotIndex'[s] = slotIndex[s] + 1 /\ slotIndex[s] \in Nat
          /\ \A k \in Slots : k # s => slotIndex'[k] = slotIndex[k]
      <4>1. s \in Slots
        BY DEF Slots, Sessions
      <4> QED BY <3>3, <3>4, <4>1
    <3>6. \A id \in told : id.index < slotIndex[id.slot]
      BY <1>2 DEF ToldInv, DisconnectOnce
    <3>7. sid[s] \notin told
      BY <3>2, <3>5, <3>6
    <3>8. ASSUME NEW id \in told PROVE id.index < slotIndex'[id.slot]
      <4>1. id.slot \in Slots /\ id.index \in Nat
        BY <3>4 DEF Ids
      <4>2. slotIndex[id.slot] \in Nat /\ id.index < slotIndex[id.slot]
        BY <3>4, <3>6, <4>1
      <4>3. CASE id.slot = s
        BY <3>5, <4>1, <4>2, <4>3
      <4>4. CASE id.slot # s
        BY <3>5, <4>1, <4>2, <4>4
      <4> QED BY <4>3, <4>4
    <3> QED BY <3>2, <3>3, <3>5, <3>7, <3>8 DEF ToldInv, DisconnectOnce
  <2>3. CASE CloserStep
    <3>1. CASE PublishDisconnect
      <4>1. closer' = NotClosing /\ closer.pc = "publish"
            /\ told' \subseteq told \union {closer.id} /\ slotIndex' = slotIndex
        BY <3>1 DEF PublishDisconnect, slots
      <4>2. closer.id.index < slotIndex[closer.id.slot]
        BY <1>2, <4>1 DEF ToldInv
      <4> QED BY <1>2, <4>1, <4>2 DEF ToldInv, DisconnectOnce, NotClosing
    <3>2. CASE AddToWillReuseManager
      BY <1>2, <2>0, <3>2 DEF AddToWillReuseManager, ToldInv, DisconnectOnce, TypeOK, CloserType,
         NotClosing
    <3>3. CASE TellMain \/ TellEpoll \/ TellRecv \/ TellSend
      <4>1. /\ closer.pc # "idle" /\ closer'.id = closer.id
            /\ UNCHANGED <<slotIndex, told>>
        BY <2>0, <3>3 DEF TellMain, TellEpoll, TellRecv, TellSend, Tell, slots, TypeOK,
           CloserType, NotClosing
      <4> QED BY <1>2, <4>1 DEF ToldInv, DisconnectOnce
    <3> QED BY <2>3, <3>1, <3>2, <3>3 DEF CloserStep
  <2>4. \/ UNCHANGED <<closer, slotIndex, told>> \/ CloserStep
        \/ \E r \in Requesters : TakeRequest(r) /\ closer' # closer
    <3>1. CASE AllocSession \/ AcceptStep
      BY <3>1 DEF AllocSession, AcceptStep, BindRecvThread, BindSendThread, BindEpollThread,
         Bind, AnnounceAccepted, AcceptGivesUp, AcceptMarks, slots
    <3>2. ASSUME NEW t \in Workers, Find(t) \/ Leave(t)
          PROVE  UNCHANGED <<closer, slotIndex, told>>
      BY <3>2 DEF Find, Leave, Finish, Judge, RequestClose, slots
    <3>3. ASSUME NEW t \in Workers, AckStop(t) \/ CheckStop(t) \/ MoveToPool(t)
          PROVE  UNCHANGED <<closer, slotIndex, told>>
      BY <3>3 DEF AckStop, CheckStop, MoveToPool, slots
    <3>4. ASSUME NEW r \in Requesters, TakeRequest(r), closer' = closer
          PROVE  UNCHANGED <<closer, slotIndex, told>>
      BY <3>4 DEF TakeRequest
    <3>5. CASE WornOut \/ UNCHANGED vars
      BY <3>5 DEF WornOut, vars, slots
    <3> QED BY <1>2, <3>1, <3>2, <3>3, <3>4, <3>5 DEF Next, Ongoing
  <2> QED BY <2>1, <2>2, <2>3, <2>4
<1>3. ToldInv => DisconnectOnce
  BY DEF ToldInv
<1> QED BY <1>1, <1>2, <1>3, LifecycleInv, PTL DEF Spec

-----------------------------------------------------------------------------
(* The session the accept thread is still binding.                          *)


\* The id of a session in use is not the id 0, and names its slot.
LEMMA CurrentId ==
  ASSUME TypeOK, PoolInv, NEW s \in Sessions, ~InPool(s), ~Retired(s)
  PROVE  sid[s] # NoId /\ sid[s].slot = s /\ sid[s].index = slotIndex[s]
<1>1. /\ sid[s].slot = s
      /\ slotIndex[s] = sid[s].index + 0
  BY DEF PoolInv, SessionsConserved, AllocatedKeepsSlot
<1>2. slotIndex[s] \in Nat \ {0} /\ sid[s].index \in Nat
  BY DEF TypeOK, SlotsType, SessionType, Slots, Sessions, Ids
<1> QED BY <1>1, <1>2 DEF NoId

LEMMA AllocPrivate ==
  ASSUME TypeOK, PoolInv, IdsIssued, AllocSession PROVE AcceptedIsPrivate'
<1>1. PICK s \in Sessions : s = Head(pool)
  BY AllocTakes
<1>2. /\ InPool(s) /\ ~InPool(s)'
      /\ sid' = [sid EXCEPT ![s] = [slot |-> s, index |-> slotIndex[s]]]
  BY <1>1, AllocTakes
<1>3. /\ announced' = [announced EXCEPT ![s] = FALSE] /\ acc'.s = s
      /\ UNCHANGED <<willReuse, closer, held, closeRing>>
  BY <1>1 DEF AllocSession, Reset, rings, work
<1>4. ~announced'[s] /\ sid'[s].slot = s /\ sid'[s].index = slotIndex[s]
  BY <1>2, <1>3 DEF TypeOK, SessionType
<1>5. sid[s].index \in Nat /\ slotIndex[s] = sid[s].index + 1 /\ ~Retired(s)
  <2>1. sid[s].index \in Nat
    BY DEF TypeOK, SessionType, Ids
  <2> QED BY <1>2, <2>1 DEF PoolInv, SessionsConserved, PooledIsNowhereElse, IndexRunsAhead
<1>6. ~Retired(s)'
  BY <1>3, <1>5 DEF Retired
<1>7. ASSUME NEW id \in Ids, id.index <= sid[id.slot].index PROVE id # sid'[s]
  <2>1. CASE id.slot = s
    BY <1>4, <1>5, <1>7, <2>1
  <2>2. CASE id.slot # s
    BY <1>4, <2>2
  <2> QED BY <2>1, <2>2
<1>8. \A t \in Workers : held'[t] # sid'[s]
  BY <1>3, <1>7 DEF TypeOK, WorkType, IdsIssued
<1>9. ASSUME NEW r \in Requesters, NEW i \in 1 .. Len(closeRing[r])
      PROVE  closeRing'[r][i] # sid'[s]
  <2>1. closeRing[r] \in Seq(Ids)
    BY DEF TypeOK, RingsType
  <2>2. closeRing[r][i] \in Ids /\ closeRing[r][i].index <= sid[closeRing[r][i].slot].index
    BY <2>1, ElementOfSeq DEF IdsIssued
  <2> QED BY <1>3, <1>7, <2>2
<1> QED BY <1>2, <1>3, <1>4, <1>6, <1>8, <1>9 DEF AcceptedIsPrivate

LEMMA NextPrivate ==
  ASSUME ~AcceptMayStall, TypeOK, PoolInv, IdsIssued, AcceptedIsPrivate, [Next]_vars
  PROVE  AcceptedIsPrivate'
<1>1. CASE AllocSession
  BY <1>1, AllocPrivate
<1>2. CASE acc.pc \in {"idle", "mark"} /\ ~AllocSession
  <2>1. acc' = acc \/ acc' = Idle
    BY <1>2 DEF Next, Ongoing, AcceptStep, BindRecvThread, BindSendThread, BindEpollThread, Bind,
       AnnounceAccepted, AcceptGivesUp, AcceptMarks, Find, Leave, Finish, Judge,
       RequestClose, AckStop, CheckStop, MoveToPool, TakeRequest, CloserStep,
       AddToWillReuseManager, TellMain, TellEpoll, TellRecv, TellSend, Tell,
       PublishDisconnect, WornOut, vars
  <2> QED BY <1>2, <2>1 DEF AcceptedIsPrivate, Idle
<1>3. CASE acc.pc \notin {"idle", "mark"} /\ ~AllocSession
  <2>0. PICK a \in Sessions : a = acc.s
    BY <1>3 DEF TypeOK, AccType, Idle
  <2>1. /\ ~InPool(a) /\ ~Retired(a) /\ ~announced[a]
        /\ \A t \in Workers : held[t] # sid[a]
        /\ \A r \in Requesters : \A i \in 1 .. Len(closeRing[r]) : closeRing[r][i] # sid[a]
    BY <1>3, <2>0 DEF AcceptedIsPrivate
  <2>2. sid[a] # NoId /\ sid[a].slot = a /\ sid[a].index = slotIndex[a]
    BY <2>1, CurrentId
  <2>3. ASSUME UNCHANGED <<sid, announced>>, acc'.s = a,
               ~InPool(a)', ~Retired(a)',
               \A t \in Workers : held'[t] = held[t] \/ held'[t] # sid[a],
               \A r \in Requesters : \A i \in 1 .. Len(closeRing'[r]) :
                 \/ \E j \in 1 .. Len(closeRing[r]) : closeRing'[r][i] = closeRing[r][j]
                 \/ closeRing'[r][i] # sid[a]
        PROVE  AcceptedIsPrivate'
    <3>1. \A t \in Workers : held'[t] # sid'[a]
      BY <2>1, <2>3
    <3>2. \A r \in Requesters : \A i \in 1 .. Len(closeRing'[r]) : closeRing'[r][i] # sid'[a]
      BY <2>1, <2>3
    <3> QED BY <2>1, <2>3, <3>1, <3>2 DEF AcceptedIsPrivate
  <2>4. ASSUME UNCHANGED <<sid, announced, pool, willReuse, closer, closeRing>>, acc'.s = a,
               \A t \in Workers : held'[t] = held[t] \/ held'[t] # sid[a]
        PROVE  AcceptedIsPrivate'
    <3>1. ~InPool(a)' /\ ~Retired(a)'
      BY <2>1, <2>4 DEF InPool, Retired
    <3> QED BY <2>3, <2>4, <3>1
  <2>5. ASSUME acc'.pc \in {"idle", "mark"} PROVE AcceptedIsPrivate'
    BY <2>5 DEF AcceptedIsPrivate
  <2>6. ASSUME NEW t \in Workers, LetGo(t)
        PROVE  \A u \in Workers : held'[u] = held[u] \/ held'[u] # sid[a]
    BY <2>2, <2>6 DEF LetGo, TypeOK, WorkType
  <2>7. CASE BindRecvThread \/ BindSendThread \/ BindEpollThread
    BY <2>0, <2>4, <2>7, <1>3 DEF BindRecvThread, BindSendThread, BindEpollThread, Bind, slots,
       rings, work, TypeOK, AccType, Idle
  <2>8. CASE AnnounceAccepted
    <3>1. CASE acc' = Idle
      BY <2>5, <3>1 DEF Idle
    <3>2. CASE acc' # Idle
      <4>1. acc' = [acc EXCEPT !.pc = "give_up"] /\ UNCHANGED announced
        BY <2>8, <3>2 DEF AnnounceAccepted
      <4>2. acc'.s = a
        BY <1>3, <2>0, <4>1 DEF TypeOK, AccType, Idle
      <4> QED BY <2>4, <2>8, <4>1, <4>2 DEF AnnounceAccepted, slots, rings, work
    <3> QED BY <3>1, <3>2
  <2>9. CASE AcceptGivesUp \/ AcceptMarks
    BY <2>5, <2>9 DEF AcceptGivesUp, AcceptMarks, Idle, TypeOK, AccType
  <2>10. ASSUME NEW t \in Workers, Find(t) PROVE AcceptedIsPrivate'
    <3>1. PICK s \in Live : Knows(t, s) /\ held' = [held EXCEPT ![t] = sid[s]]
      BY <2>10 DEF Find
    <3>2. s \in Sessions /\ s # a
      BY <2>0, <2>1, <3>1 DEF Live, Knows
    <3>3. ~InPool(s) /\ ~Retired(s)
      BY <3>1, <3>2, LiveIsCurrent
    <3>4. sid[s].slot = s
      BY <3>2, <3>3, CurrentId
    <3>5. sid[s] # sid[a]
      BY <2>2, <3>2, <3>4
    <3>6. \A u \in Workers : held'[u] = held[u] \/ held'[u] # sid[a]
      BY <3>1, <3>5 DEF TypeOK, WorkType
    <3> QED BY <2>0, <2>4, <2>10, <3>6 DEF Find, slots, session, rings
  <2>11. ASSUME NEW t \in Workers, Finish(t) \/ Judge(t) \/ AckStop(t) \/ CheckStop(t)
         PROVE  AcceptedIsPrivate'
    BY <2>0, <2>4, <2>6, <2>11 DEF Finish, Judge, AckStop, CheckStop, slots, session, rings
  <2>12. ASSUME NEW t \in Workers, RequestClose(t) PROVE AcceptedIsPrivate'
    <3>1. ~InPool(a)' /\ ~Retired(a)'
      BY <2>1, <2>12 DEF RequestClose, slots, InPool, Retired
    <3>2. ASSUME NEW r \in Requesters, NEW i \in 1 .. Len(closeRing'[r])
          PROVE  \/ \E j \in 1 .. Len(closeRing[r]) : closeRing'[r][i] = closeRing[r][j]
                 \/ closeRing'[r][i] # sid[a]
      <4>1. closeRing[r] \in Seq(Ids) /\ held[t] \in Ids
        BY DEF TypeOK, RingsType, WorkType
      <4>2. CASE closeRing'[r] = closeRing[r]
        BY <4>2
      <4>3. CASE closeRing'[r] # closeRing[r]
        <5>1. closeRing'[r] = Append(closeRing[r], held[t])
          BY <2>12, <4>3 DEF RequestClose, AppendToClose, TypeOK, RingsType
        <5>2. (\E j \in 1 .. Len(closeRing[r]) : closeRing'[r][i] = closeRing[r][j])
                \/ closeRing'[r][i] = held[t]
          BY <4>1, <5>1, RingAfterAppend
        <5> QED BY <2>1, <5>2
      <4> QED BY <4>2, <4>3
    <3>3. \A u \in Workers : held'[u] = held[u] \/ held'[u] # sid[a]
      BY <2>6, <2>12 DEF RequestClose
    <3> QED BY <2>0, <2>3, <2>12, <3>1, <3>2, <3>3 DEF RequestClose
  <2>13. ASSUME NEW t \in Workers, MoveToPool(t) PROVE AcceptedIsPrivate'
    <3>1. /\ pool' = pool \/ (hand[t] \in willReuse /\ pool' = Append(pool, hand[t]))
          /\ willReuse' \subseteq willReuse /\ closer' = closer
      BY <2>13 DEF MoveToPool
    <3>2. ~Retired(a)'
      BY <2>1, <3>1 DEF Retired
    <3>3. ~InPool(a)'
      <4>1. hand[t] \in willReuse => hand[t] # a
        BY <2>1 DEF Retired
      <4>2. pool \in Seq(Sessions)
        BY DEF TypeOK, SlotsType
      <4>3. hand[t] \in willReuse => hand[t] \in Sessions
        BY DEF TypeOK, SlotsType
      <4>4. CASE pool' = pool
        BY <2>1, <4>4 DEF InPool
      <4>5. CASE hand[t] \in willReuse /\ pool' = Append(pool, hand[t])
        <5>1. PICK h \in Sessions : h = hand[t] /\ h # a
          BY <4>1, <4>3, <4>5
        <5>2. /\ Len(pool') = Len(pool) + 1 /\ pool'[Len(pool) + 1] = h /\ Len(pool) \in Nat
              /\ \A i \in 1 .. Len(pool) : pool'[i] = pool[i]
          BY <4>2, <4>5, <5>1, AppendProperties, LenProperties
        <5>3. ASSUME NEW i \in 1 .. Len(pool') PROVE pool'[i] # a
          <6>1. i \in 1 .. Len(pool) \/ i = Len(pool) + 1
            BY <5>2
          <6> QED BY <2>1, <5>1, <5>2, <6>1 DEF InPool
        <5> QED BY <5>3 DEF InPool
      <4> QED BY <3>1, <4>4, <4>5
    <3> QED BY <2>0, <2>3, <2>6, <2>13, <3>2, <3>3 DEF MoveToPool, rings
  <2>14. ASSUME NEW r \in Requesters, TakeRequest(r) PROVE AcceptedIsPrivate'
    <3> DEFINE id == Head(closeRing[r])
               f == FindSession(id)
    <3>1. /\ id \in Ids /\ id.index <= sid[id.slot].index
          /\ 1 \in 1 .. Len(closeRing[r]) /\ id = closeRing[r][1]
      BY <2>14, RequestIssued DEF TakeRequest
    <3>2. f # NoSession => f # a
      <4>1. ASSUME f # NoSession, f = a PROVE FALSE
        <5>1. id.slot = a /\ slotIndex[a] = id.index
          BY <3>1, <4>1, FoundIsCurrent DEF FindSession
        <5>2. sid[a] \in Ids
          BY DEF TypeOK, SessionType
        <5>3. id = sid[a]
          BY <2>2, <3>1, <5>1, <5>2 DEF Ids
        <5> QED BY <2>1, <3>1, <5>3
      <4> QED BY <4>1
    <3>3. ~InPool(a)' /\ ~Retired(a)'
      <4>1. \/ closer' = closer
            \/ f # NoSession /\ closer'.s = f
        BY <2>14 DEF TakeRequest
      <4> HIDE DEF f
      <4> QED BY <2>1, <2>14, <3>2, <4>1 DEF TakeRequest, InPool, Retired
    <3>4. ASSUME NEW r2 \in Requesters, NEW i \in 1 .. Len(closeRing'[r2])
          PROVE  \E j \in 1 .. Len(closeRing[r2]) : closeRing'[r2][i] = closeRing[r2][j]
      <4>1. closeRing[r] \in Seq(Ids) /\ closeRing[r] # <<>>
        BY <2>14 DEF TakeRequest, TypeOK, RingsType
      <4>2. CASE r2 = r
        <5>1. closeRing'[r] = Tail(closeRing[r])
          BY <2>14 DEF TakeRequest, TypeOK, RingsType
        <5> QED BY <4>1, <4>2, <5>1, RingAfterTail
      <4>3. CASE r2 # r
        BY <2>14, <4>3 DEF TakeRequest, TypeOK, RingsType
      <4> QED BY <4>2, <4>3
    <3> QED BY <2>0, <2>3, <2>14, <3>3, <3>4 DEF TakeRequest, session, work
  <2>15. CASE CloserStep
    <3>1. ~Retired(a)'
      <4>1. CASE AddToWillReuseManager
        BY <2>1, <4>1 DEF AddToWillReuseManager, Retired
      <4>2. CASE TellMain \/ TellEpoll \/ TellRecv \/ TellSend
        BY <2>1, <4>2 DEF TellMain, TellEpoll, TellRecv, TellSend, Tell, slots, Retired,
           TypeOK, CloserType, NotClosing
      <4>3. CASE PublishDisconnect
        BY <2>1, <4>3 DEF PublishDisconnect, slots, Retired, NotClosing
      <4> QED BY <2>15, <4>1, <4>2, <4>3 DEF CloserStep
    <3>2. /\ UNCHANGED <<sid, announced, pool, closeRing, held, acc>>
      BY <2>15 DEF CloserStep, AddToWillReuseManager, TellMain, TellEpoll, TellRecv, TellSend,
         Tell, PublishDisconnect, slots, session, rings, work
    <3>3. ~InPool(a)'
      BY <2>1, <3>2 DEF InPool
    <3> QED BY <2>0, <2>3, <3>1, <3>2, <3>3
  <2>16. CASE UNCHANGED vars
    BY <2>0, <2>4, <2>16 DEF vars, slots, session, rings, work
  <2> QED
    BY <1>3, <2>7, <2>8, <2>9, <2>10, <2>11, <2>12, <2>13, <2>14, <2>15, <2>16
    DEF Next, Ongoing, AcceptStep, Leave, WornOut
<1> QED BY <1>1, <1>2, <1>3

-----------------------------------------------------------------------------
(* The refinement of SessionPool.                                           *)

AcceptedInv == ~AcceptMayStall => AcceptedIsPrivate

LEMMA AcceptedStaysPrivate == Spec => []AcceptedInv
<1>1. Init => AcceptedInv
  BY DEF Init, Idle, AcceptedInv, AcceptedIsPrivate
<1>2. IInv /\ AcceptedInv /\ [Next]_vars => AcceptedInv'
  BY NextPrivate DEF IInv, AcceptedInv
<1> QED BY <1>1, <1>2, LifecycleInv, PTL DEF Spec

\* The users of a session, by kind of thread.
WorkersOn(s) == {t \in Workers : pc[t] \in Busy /\ hand[t] = s}
AcceptorOn(s) == {a \in {"accept"} : acc.s = s /\ acc.pc # "mark"}
CloserOn(s) == {c \in {"closer"} : closer.s = s /\ closer.pc \in Closing}

Pooled == [s \in Sessions |-> Status(s)]
Using  == [s \in Sessions |-> Users(s)]

LEMMA UsersByKind ==
  /\ \A s : Users(s) = WorkersOn(s) \union AcceptorOn(s) \union CloserOn(s)
  /\ \A s : Users(s)' = WorkersOn(s)' \union AcceptorOn(s)' \union CloserOn(s)'
BY DEF Users, WorkersOn, AcceptorOn, CloserOn

StatusFromContainers ==
  \A s \in Sessions :
    Status(s) = IF InPool(s) THEN "free" ELSE IF Retired(s) THEN "closing" ELSE "live"

LEMMA StatusOf == TypeOK /\ PoolInv => StatusFromContainers
BY LiveIsCurrent DEF Status, StatusFromContainers

\* A step that changes neither the pool nor who is retired changes no status.
LEMMA StatusFrame ==
  ASSUME TypeOK, PoolInv, TypeOK', PoolInv',
         \A s \in Sessions : (InPool(s)' <=> InPool(s)) /\ (Retired(s)' <=> Retired(s))
  PROVE  \A s \in Sessions : Status(s)' = Status(s)
<1>1. StatusFromContainers /\ StatusFromContainers'
  BY StatusOf, PTL
<1> QED BY <1>1 DEF StatusFromContainers

\* The steps of the abstract pool, by what they do to each session.
LEMMA OpenStep ==
  ASSUME NEW s \in Sessions, Status(s) = "free", Users(s) = {},
         \A x \in Sessions : Status(x)' = IF x = s THEN "live" ELSE Status(x),
         \A x \in Sessions : Users(x)' = IF x = s THEN {"accept"} ELSE Users(x)
  PROVE  Abstract!Open(s, "accept")
BY DEF Abstract!Open, Abstract!Set

LEMMA AcquireStep ==
  ASSUME NEW s \in Sessions, NEW t, Status(s) = "live", t \notin Users(s),
         \A x \in Sessions : Status(x)' = Status(x),
         \A x \in Sessions : Users(x)' = IF x = s THEN Users(x) \union {t} ELSE Users(x)
  PROVE  Abstract!Acquire(s, t)
BY DEF Abstract!Acquire

LEMMA ReleaseStep ==
  ASSUME NEW s \in Sessions, NEW t, t \in Users(s),
         \A x \in Sessions : Status(x)' = Status(x),
         \A x \in Sessions : Users(x)' = IF x = s THEN Users(x) \ {t} ELSE Users(x)
  PROVE  Abstract!Release(s, t)
BY DEF Abstract!Release

LEMMA CloseStep ==
  ASSUME NEW s \in Sessions, Status(s) = "live", "closer" \notin Users(s),
         \A x \in Sessions : Status(x)' = IF x = s THEN "closing" ELSE Status(x),
         \A x \in Sessions :
           Users(x)' = IF x = s THEN Users(x) \union {"closer"} ELSE Users(x)
  PROVE  Abstract!Close(s, "closer")
BY DEF Abstract!Close, Abstract!Set

LEMMA RecycleStep ==
  ASSUME NEW s \in Sessions, Status(s) = "closing", Users(s) = {},
         \A x \in Sessions : Status(x)' = IF x = s THEN "free" ELSE Status(x),
         \A x \in Sessions : Users(x)' = Users(x)
  PROVE  Abstract!Recycle(s)
BY DEF Abstract!Recycle, Abstract!Set

PoolStep == [Abstract!Next]_<<Pooled, Using>>

LEMMA StutterStep ==
  ASSUME \A x \in Sessions : Status(x)' = Status(x) /\ Users(x)' = Users(x)
  PROVE  PoolStep
BY DEF PoolStep, Pooled, Using

LEMMA SomeStep ==
  ASSUME NEW s \in Sessions, NEW t \in Workers \union {"accept", "closer"},
         Abstract!Open(s, t) \/ Abstract!Acquire(s, t) \/ Abstract!Release(s, t)
           \/ Abstract!Close(s, t) \/ Abstract!Recycle(s)
  PROVE  PoolStep
BY DEF PoolStep, Abstract!Next

\* What the lemmas below ask of the states before and after a step.
Bases == TypeOK /\ PoolInv /\ IdsIssued /\ AckInv /\ AcceptedIsPrivate

LEMMA QuietStatus ==
  ASSUME Bases, TypeOK', PoolInv', UNCHANGED <<pool, willReuse, closer>>
  PROVE  \A x \in Sessions : Status(x)' = Status(x)
<1>1. \A x \in Sessions : (InPool(x)' <=> InPool(x)) /\ (Retired(x)' <=> Retired(x))
  BY DEF InPool, Retired
<1> QED BY <1>1, StatusFrame DEF Bases

\* AllocSession opens the session in the hands of the accept thread.
LEMMA AllocOpens ==
  ASSUME Bases, TypeOK', PoolInv', AllocSession PROVE PoolStep
<1>1. PICK s \in Sessions : s = Head(pool)
  BY AllocTakes DEF Bases
<1>2. InPool(s) /\ \A x : InPool(x)' <=> InPool(x) /\ x # s
  BY <1>1, AllocTakes DEF Bases
<1>3. /\ acc.pc = "idle" /\ acc' = [pc |-> "bind_recv", s |-> s]
      /\ UNCHANGED <<willReuse, closer, pc, hand>>
  BY <1>1 DEF AllocSession, work
<1>4. ~Retired(s)
  BY <1>2 DEF Bases, PoolInv, SessionsConserved, PooledIsNowhereElse
<1>5. \A x \in Sessions : Retired(x)' <=> Retired(x)
  BY <1>3 DEF Retired
<1>6. StatusFromContainers /\ StatusFromContainers'
  BY StatusOf, PTL DEF Bases
<1>7. /\ Status(s) = "free"
      /\ \A x \in Sessions : Status(x)' = IF x = s THEN "live" ELSE Status(x)
  BY <1>2, <1>4, <1>5, <1>6 DEF StatusFromContainers
<1>8. \A x \in Sessions : /\ WorkersOn(x)' = WorkersOn(x) /\ CloserOn(x)' = CloserOn(x)
                          /\ AcceptorOn(x) = {}
                          /\ AcceptorOn(x)' = IF x = s THEN {"accept"} ELSE {}
  BY <1>3 DEF Bases, TypeOK, AccType, Idle, WorkersOn, CloserOn, AcceptorOn, Sessions, NoSession
<1>9. WorkersOn(s) = {} /\ CloserOn(s) = {}
  BY <1>2, <1>4 DEF Bases, AckInv, UserHasNoFlag, CloserTellsInTurn, WorkersOn, CloserOn
<1>10. /\ Users(s) = {}
       /\ \A x \in Sessions : Users(x)' = IF x = s THEN {"accept"} ELSE Users(x)
  BY <1>8, <1>9, UsersByKind
<1>11. Abstract!Open(s, "accept")
  BY <1>7, <1>10, OpenStep
<1> QED BY <1>11, SomeStep

\* The accept thread lets go when the main thread knows the session, or when it
\* asked for the close itself; in between it only changes its own position.
LEMMA AcceptRefines ==
  ASSUME Bases, TypeOK', PoolInv', AcceptStep PROVE PoolStep
<1>1. UNCHANGED <<pool, willReuse, closer, pc, hand>>
  BY DEF AcceptStep, BindRecvThread, BindSendThread, BindEpollThread, Bind, AnnounceAccepted,
     AcceptGivesUp, AcceptMarks, slots, work
<1>2. \A x \in Sessions : Status(x)' = Status(x)
  BY <1>1, QuietStatus
<1>3. \A x : WorkersOn(x)' = WorkersOn(x) /\ CloserOn(x)' = CloserOn(x)
  BY <1>1 DEF WorkersOn, CloserOn
<1>4. acc.pc # "idle" /\ acc \in [pc : {"bind_recv", "bind_send", "bind_epoll", "announce",
                                        "give_up", "mark"}, s : Sessions]
  BY DEF Bases, TypeOK, AccType, Idle, AcceptStep, BindRecvThread, BindSendThread,
     BindEpollThread, Bind, AnnounceAccepted, AcceptGivesUp, AcceptMarks
<1>5. PICK a \in Sessions : a = acc.s
  BY <1>4
<1>6. CASE /\ acc.pc # "mark" /\ acc'.s = a /\ acc'.pc # "mark"
  <2>1. \A x : AcceptorOn(x)' = AcceptorOn(x)
    BY <1>5, <1>6 DEF AcceptorOn
  <2> QED BY <1>2, <1>3, <2>1, UsersByKind, StutterStep
<1>7. CASE acc.pc = "mark" /\ acc' = Idle
  <2>1. \A x \in Sessions : AcceptorOn(x)' = AcceptorOn(x)
    BY <1>7 DEF AcceptorOn, Idle, Sessions, NoSession
  <2> QED BY <1>2, <1>3, <2>1, UsersByKind, StutterStep
<1>8. CASE acc.pc # "mark" /\ (acc' = Idle \/ acc'.pc = "mark")
  <2>1. \A x \in Sessions : AcceptorOn(x)' = {}
    BY <1>8 DEF AcceptorOn, Idle, Sessions, NoSession
  <2>2. \A x \in Sessions : AcceptorOn(x) = IF x = a THEN {"accept"} ELSE {}
    BY <1>5, <1>8 DEF AcceptorOn
  <2>3. \A x : "accept" \notin WorkersOn(x) /\ "accept" \notin CloserOn(x)
    BY DEF WorkersOn, CloserOn, Workers
  <2>4. /\ "accept" \in Users(a)
        /\ \A x \in Sessions : Users(x)' = IF x = a THEN Users(x) \ {"accept"} ELSE Users(x)
    BY <1>3, <2>1, <2>2, <2>3, UsersByKind
  <2>5. Abstract!Release(a, "accept")
    BY <1>2, <2>4, ReleaseStep
  <2> QED BY <2>5, SomeStep
<1>9. CASE BindRecvThread \/ BindSendThread \/ BindEpollThread
  <2>1. acc.pc # "mark" /\ acc'.s = a /\ acc'.pc # "mark"
    BY <1>4, <1>5, <1>9 DEF BindRecvThread, BindSendThread, BindEpollThread, Bind
  <2> QED BY <1>6, <2>1
<1>10. CASE AnnounceAccepted
  <2>1. acc.pc = "announce" /\ (acc' = Idle \/ acc' = [acc EXCEPT !.pc = "give_up"])
    BY <1>10 DEF AnnounceAccepted
  <2>2. acc' = [acc EXCEPT !.pc = "give_up"] => acc'.s = a /\ acc'.pc # "mark"
    BY <1>4, <1>5
  <2> QED BY <1>6, <1>8, <2>1, <2>2
<1>11. CASE AcceptGivesUp
  <2>1. acc.pc = "give_up" /\ (acc' = Idle \/ acc' = [acc EXCEPT !.pc = "mark"])
    BY <1>11 DEF AcceptGivesUp
  <2>2. acc' = [acc EXCEPT !.pc = "mark"] => acc'.pc = "mark"
    BY <1>4
  <2> QED BY <1>8, <2>1, <2>2
<1>12. CASE AcceptMarks
  BY <1>7, <1>12 DEF AcceptMarks
<1> QED BY <1>9, <1>10, <1>11, <1>12 DEF AcceptStep

\* FindSession is where a worker starts to use a session.
LEMMA FindAcquires ==
  ASSUME Bases, TypeOK', PoolInv', NEW t \in Workers, Find(t) PROVE PoolStep
<1>1. PICK s \in Live : hand' = [hand EXCEPT ![t] = s]
  BY DEF Find
<1>2. /\ pc[t] = "idle" /\ pc' = [pc EXCEPT ![t] = "use"]
      /\ UNCHANGED <<pool, willReuse, closer, acc>>
  BY DEF Find, slots
<1>3. s \in Sessions /\ ~InPool(s) /\ ~Retired(s)
  BY <1>1, LiveIsCurrent DEF Live, Bases
<1>4. Status(s) = "live" /\ \A x \in Sessions : Status(x)' = Status(x)
  <2>1. StatusFromContainers
    BY StatusOf DEF Bases
  <2> QED BY <1>2, <1>3, <2>1, QuietStatus DEF StatusFromContainers
<1>5. \A x : AcceptorOn(x)' = AcceptorOn(x) /\ CloserOn(x)' = CloserOn(x)
  BY <1>2 DEF AcceptorOn, CloserOn
<1>6. /\ pc'[t] = "use" /\ hand'[t] = s
      /\ \A u \in Workers : u # t => pc'[u] = pc[u] /\ hand'[u] = hand[u]
  BY <1>1, <1>2 DEF Bases, TypeOK, WorkType
<1>7. \A x \in Sessions :
        WorkersOn(x)' = IF x = s THEN WorkersOn(x) \union {t} ELSE WorkersOn(x)
  BY <1>2, <1>6 DEF WorkersOn, Busy
<1>8. \A x : t \notin WorkersOn(x) /\ t \notin AcceptorOn(x) /\ t \notin CloserOn(x)
  BY <1>2 DEF WorkersOn, AcceptorOn, CloserOn, Busy, Workers
<1>9. /\ t \notin Users(s)
      /\ \A x \in Sessions : Users(x)' = IF x = s THEN Users(x) \union {t} ELSE Users(x)
  BY <1>5, <1>7, <1>8, UsersByKind
<1>10. Abstract!Acquire(s, t)
  BY <1>3, <1>4, <1>9, AcquireStep
<1> QED BY <1>3, <1>10, SomeStep

\* What a worker does after it: it lets the session go, or keeps it.
LEMMA LetGoReleases ==
  ASSUME Bases, TypeOK', PoolInv', NEW t \in Workers, pc[t] \in Busy, LetGo(t),
         UNCHANGED <<pool, willReuse, closer, acc>>
  PROVE  PoolStep
<1>1. PICK s \in Sessions : s = hand[t]
  BY DEF Bases, TypeOK, WorkType, Busy
<1>2. \A x \in Sessions : Status(x)' = Status(x)
  BY QuietStatus
<1>3. \A x : AcceptorOn(x)' = AcceptorOn(x) /\ CloserOn(x)' = CloserOn(x)
  BY DEF AcceptorOn, CloserOn
<1>4. /\ pc'[t] = "idle"
      /\ \A u \in Workers : u # t => pc'[u] = pc[u] /\ hand'[u] = hand[u]
  BY DEF LetGo, Bases, TypeOK, WorkType
<1>5. \A x \in Sessions :
        WorkersOn(x)' = IF x = s THEN WorkersOn(x) \ {t} ELSE WorkersOn(x)
  BY <1>1, <1>4 DEF WorkersOn, Busy
<1>6. t \in WorkersOn(s) /\ \A x : t \notin AcceptorOn(x) /\ t \notin CloserOn(x)
  BY <1>1 DEF WorkersOn, AcceptorOn, CloserOn, Workers
<1>7. /\ t \in Users(s)
      /\ \A x \in Sessions : Users(x)' = IF x = s THEN Users(x) \ {t} ELSE Users(x)
  <2>1. \A x \in Sessions : Users(x)' = WorkersOn(x)' \cup AcceptorOn(x) \cup CloserOn(x)
    BY <1>3, UsersByKind
  <2>2. t \in Users(s) /\ t \notin AcceptorOn(s) /\ t \notin CloserOn(s)
    BY <1>6, UsersByKind
  <2>3. Users(s)' = Users(s) \ {t}
    BY <1>1, <1>5, <2>1, <2>2, UsersByKind
  <2>4. \A x \in Sessions : x # s => Users(x)' = Users(x)
    BY <1>5, <2>1, UsersByKind
  <2> QED BY <2>2, <2>3, <2>4
<1>8. Abstract!Release(s, t)
  BY <1>2, <1>7, ReleaseStep
<1> QED BY <1>8, SomeStep

\* A worker that was not using a session and is not using one after the step.
LEMMA WorkerStutters ==
  ASSUME Bases, TypeOK', PoolInv', NEW t \in Workers,
         UNCHANGED <<pool, willReuse, closer, acc>>,
         \A u \in Workers : u # t => pc'[u] = pc[u] /\ hand'[u] = hand[u],
         \/ pc[t] \notin Busy /\ pc'[t] \notin Busy
         \/ pc[t] \in Busy /\ pc'[t] \in Busy /\ hand'[t] = hand[t]
  PROVE  PoolStep
<1>1. \A x \in Sessions : Status(x)' = Status(x)
  BY QuietStatus
<1>2. \A x \in Sessions : AcceptorOn(x)' = AcceptorOn(x) /\ CloserOn(x)' = CloserOn(x)
  BY DEF AcceptorOn, CloserOn
<1>3. \A x \in Sessions : WorkersOn(x)' = WorkersOn(x)
  BY DEF WorkersOn
<1> QED BY <1>1, <1>2, <1>3, UsersByKind, StutterStep

LEMMA WorkerRefines ==
  ASSUME Bases, TypeOK', PoolInv', NEW t \in Workers,
         Leave(t) \/ AckStop(t) \/ CheckStop(t)
  PROVE  PoolStep
<1>0. UNCHANGED <<pool, willReuse, closer, acc>>
  BY DEF Leave, Finish, Judge, RequestClose, AckStop, CheckStop, slots
<1>1. CASE Finish(t) \/ RequestClose(t)
  BY <1>0, <1>1, LetGoReleases DEF Finish, RequestClose, Busy
<1>2. CASE Judge(t)
  <2>1. pc[t] \in Busy /\ pc'[t] \in Busy /\ UNCHANGED hand
        /\ \A u \in Workers : u # t => pc'[u] = pc[u]
    BY <1>2 DEF Judge, Busy, Bases, TypeOK, WorkType
  <2> QED BY <1>0, <2>1, WorkerStutters
<1>3. CASE AckStop(t) \/ CheckStop(t)
  <2>1. /\ pc[t] \notin Busy /\ pc'[t] \notin Busy
        /\ \A u \in Workers : u # t => pc'[u] = pc[u] /\ hand'[u] = hand[u]
    BY <1>3 DEF AckStop, CheckStop, LetGo, Busy, Bases, TypeOK, WorkType
  <2> QED BY <1>0, <2>1, WorkerStutters
<1> QED BY <1>1, <1>2, <1>3 DEF Leave

\* MoveWillCloseSessionToSessionPool recycles a session nobody uses.
LEMMA MoveRecycles ==
  ASSUME Bases, TypeOK', PoolInv', NEW t \in Workers, MoveToPool(t) PROVE PoolStep
<1>1. /\ pc[t] = "move" /\ LetGo(t) /\ UNCHANGED <<closer, acc>>
  BY DEF MoveToPool
<1>2. /\ pc[t] \notin Busy /\ pc'[t] \notin Busy
      /\ \A u \in Workers : u # t => pc'[u] = pc[u] /\ hand'[u] = hand[u]
  BY <1>1 DEF LetGo, Busy, Bases, TypeOK, WorkType
<1>3. CASE hand[t] \notin willReuse
  <2>1. UNCHANGED <<pool, willReuse, closer, acc>>
    BY <1>3 DEF MoveToPool
  <2> QED BY <1>2, <2>1, WorkerStutters
<1>4. CASE hand[t] \in willReuse
  <2>1. PICK s \in Sessions : s = hand[t] /\ s \in willReuse
    BY <1>4 DEF Bases, TypeOK, SlotsType
  <2>2. Retired(s) /\ AllStopped(s) /\ ~InPool(s)
    BY <1>1, <2>1 DEF Retired, Bases, AckInv, MoverSeesFlags, PoolInv, SessionsConserved,
       PooledIsNowhereElse
  <2>3. /\ \A u \in Workers : ~(pc[u] \in Busy /\ hand[u] = s)
        /\ ~(closer.pc \in Closing /\ closer.s = s)
    BY <2>2, NobodyLeft DEF Bases
  <2>4. /\ pool' = Append(pool, s) /\ willReuse' = willReuse \ {s}
    BY <1>4, <2>1 DEF MoveToPool
  <2>5. \A x : InPool(x)' <=> InPool(x) \/ x = s
    <3>1. /\ pool \in Seq(Sessions)
          /\ \A i, j \in 1 .. Len(pool) : pool[i] = pool[j] => i = j
          /\ \A i \in 1 .. Len(pool) : pool[i] # s
      BY <2>2 DEF Bases, TypeOK, SlotsType, PoolInv, SessionsConserved, PoolPairsSlots, InPool
    <3>2. \A x : (\E i \in 1 .. Len(Append(pool, s)) : Append(pool, s)[i] = x)
                   <=> (\E i \in 1 .. Len(pool) : pool[i] = x) \/ x = s
      BY <3>1, AppendAddsElement
    <3> QED BY <2>4, <3>2, Zenon DEF InPool
  <2>6. \A x \in Sessions : Retired(x)' <=> Retired(x) /\ x # s
    BY <1>1, <2>3, <2>4 DEF Retired, Closing
  <2>7. StatusFromContainers /\ StatusFromContainers'
    BY StatusOf, PTL DEF Bases
  <2>8. /\ Status(s) = "closing"
        /\ \A x \in Sessions : Status(x)' = IF x = s THEN "free" ELSE Status(x)
    BY <2>2, <2>5, <2>6, <2>7 DEF StatusFromContainers
  <2>9. WorkersOn(s) = {} /\ CloserOn(s) = {}
    BY <2>3 DEF WorkersOn, CloserOn
  <2>10. AcceptorOn(s) = {}
    <3>1. acc.pc = "idle" => acc.s # s
      BY DEF Bases, TypeOK, AccType, Idle, Sessions, NoSession
    <3>2. acc.pc \notin {"idle", "mark"} => acc.s # s
      BY <2>2 DEF Bases, AcceptedIsPrivate
    <3> QED BY <3>1, <3>2 DEF AcceptorOn
  <2>11. \A x \in Sessions : /\ WorkersOn(x)' = WorkersOn(x)
                             /\ AcceptorOn(x)' = AcceptorOn(x) /\ CloserOn(x)' = CloserOn(x)
    BY <1>1, <1>2 DEF WorkersOn, AcceptorOn, CloserOn
  <2>12. Users(s) = {} /\ \A x \in Sessions : Users(x)' = Users(x)
    BY <2>9, <2>10, <2>11, UsersByKind
  <2>13. Abstract!Recycle(s)
    BY <2>8, <2>12, RecycleStep
  <2> QED BY <2>13, SomeStep
<1> QED BY <1>3, <1>4

\* FreeSession closes it in the hands of the close thread; a stale request is
\* no step of the pool.
LEMMA TakeRequestCloses ==
  ASSUME Bases, TypeOK', PoolInv', NEW r \in Requesters, TakeRequest(r) PROVE PoolStep
<1> DEFINE f == FindSession(Head(closeRing[r]))
<1>1. /\ closer.pc = "idle" /\ UNCHANGED <<pool, willReuse, acc, pc, hand>>
  BY DEF TakeRequest, work
<1>2. \A x : WorkersOn(x)' = WorkersOn(x) /\ AcceptorOn(x)' = AcceptorOn(x)
  BY <1>1 DEF WorkersOn, AcceptorOn
<1>3. CASE f = NoSession
  <2>1. UNCHANGED closer
    BY <1>3 DEF TakeRequest
  <2>2. \A x \in Sessions : Status(x)' = Status(x)
    BY <1>1, <2>1, QuietStatus
  <2>3. \A x : CloserOn(x)' = CloserOn(x)
    BY <2>1 DEF CloserOn
  <2> QED BY <1>2, <2>2, <2>3, UsersByKind, StutterStep
<1>4. CASE f # NoSession
  <2>1. PICK s \in Sessions : s = f /\ ~InPool(s) /\ ~Retired(s)
    BY <1>4, RequestIssued, FoundIsCurrent DEF TakeRequest, Bases
  <2>2. closer' = [pc |-> "retire", s |-> s, id |-> sid[s]]
    BY <1>4, <2>1 DEF TakeRequest
  <2>3. \A x \in Sessions : /\ InPool(x)' <=> InPool(x)
                            /\ Retired(x)' <=> Retired(x) \/ x = s
    BY <1>1, <2>2 DEF InPool, Retired
  <2>4. StatusFromContainers /\ StatusFromContainers'
    BY StatusOf, PTL DEF Bases
  <2>5. /\ Status(s) = "live"
        /\ \A x \in Sessions : Status(x)' = IF x = s THEN "closing" ELSE Status(x)
    BY <2>1, <2>3, <2>4 DEF StatusFromContainers
  <2>6. \A x \in Sessions : /\ CloserOn(x) = {}
                            /\ CloserOn(x)' = IF x = s THEN {"closer"} ELSE {}
    BY <1>1, <2>2 DEF CloserOn, Closing
  <2>7. \A x : "closer" \notin WorkersOn(x) /\ "closer" \notin AcceptorOn(x)
    BY DEF WorkersOn, AcceptorOn, Workers
  <2>8. /\ "closer" \notin Users(s)
        /\ \A x \in Sessions :
             Users(x)' = IF x = s THEN Users(x) \union {"closer"} ELSE Users(x)
    BY <1>2, <2>6, <2>7, UsersByKind
  <2>9. Abstract!Close(s, "closer")
    BY <2>5, <2>8, CloseStep
  <2> QED BY <2>9, SomeStep
<1> QED BY <1>3, <1>4

\* The close thread lets go with the last stop notice.
LEMMA CloserRefines ==
  ASSUME Bases, TypeOK', PoolInv', CloserStep PROVE PoolStep
<1>1. UNCHANGED <<pool, acc, pc, hand>>
  BY DEF CloserStep, AddToWillReuseManager, TellMain, TellEpoll, TellRecv, TellSend, Tell,
     PublishDisconnect, slots, work
<1>2. \A x : WorkersOn(x)' = WorkersOn(x) /\ AcceptorOn(x)' = AcceptorOn(x)
  BY <1>1 DEF WorkersOn, AcceptorOn
<1>3. closer \in [pc : Closing \union {"publish"}, s : Sessions, id : Ids]
  BY DEF Bases, TypeOK, CloserType, NotClosing, CloserStep, AddToWillReuseManager, TellMain,
     TellEpoll, TellRecv, TellSend, Tell, PublishDisconnect
<1>4. PICK s \in Sessions : s = closer.s
  BY <1>3
<1>5. \A x \in Sessions : (InPool(x)' <=> InPool(x)) /\ (Retired(x)' <=> Retired(x))
  <2>1. CASE AddToWillReuseManager
    BY <1>1, <1>3, <2>1 DEF AddToWillReuseManager, InPool, Retired
  <2>2. CASE TellMain \/ TellEpoll \/ TellRecv \/ TellSend
    BY <1>1, <1>3, <2>2 DEF TellMain, TellEpoll, TellRecv, TellSend, Tell, slots, InPool, Retired
  <2>3. CASE PublishDisconnect
    BY <1>1, <2>3 DEF PublishDisconnect, slots, InPool, Retired, NotClosing
  <2> QED BY <2>1, <2>2, <2>3 DEF CloserStep
<1>6. \A x \in Sessions : Status(x)' = Status(x)
  BY <1>5, StatusFrame DEF Bases
<1>7. CASE AddToWillReuseManager \/ TellMain \/ TellEpoll \/ TellRecv
  <2>1. closer.pc \in Closing /\ closer'.pc \in Closing /\ closer'.s = s
    BY <1>3, <1>4, <1>7 DEF AddToWillReuseManager, TellMain, TellEpoll, TellRecv, Tell, Closing
  <2>2. \A x : CloserOn(x)' = CloserOn(x)
    BY <1>4, <2>1 DEF CloserOn
  <2> QED BY <1>2, <1>6, <2>2, UsersByKind, StutterStep
<1>8. CASE PublishDisconnect
  <2>1. closer.pc \notin Closing /\ closer'.pc \notin Closing
    BY <1>8 DEF PublishDisconnect, NotClosing, Closing
  <2>2. \A x : CloserOn(x)' = CloserOn(x)
    BY <2>1 DEF CloserOn
  <2> QED BY <1>2, <1>6, <2>2, UsersByKind, StutterStep
<1>9. CASE TellSend
  <2>1. closer.pc \in Closing /\ closer'.pc \notin Closing
    BY <1>3, <1>9 DEF TellSend, Tell, Closing
  <2>2. \A x \in Sessions : /\ CloserOn(x)' = {}
                            /\ CloserOn(x) = IF x = s THEN {"closer"} ELSE {}
    BY <1>4, <2>1 DEF CloserOn
  <2>3. \A x : "closer" \notin WorkersOn(x) /\ "closer" \notin AcceptorOn(x)
    BY DEF WorkersOn, AcceptorOn, Workers
  <2>4. /\ "closer" \in Users(s)
        /\ \A x \in Sessions : Users(x)' = IF x = s THEN Users(x) \ {"closer"} ELSE Users(x)
    BY <1>2, <2>2, <2>3, UsersByKind
  <2>5. Abstract!Release(s, "closer")
    BY <1>6, <2>4, ReleaseStep
  <2> QED BY <2>5, SomeStep
<1> QED BY <1>7, <1>8, <1>9 DEF CloserStep

LEMMA NextRefines ==
  ASSUME Bases, TypeOK', PoolInv', [Next]_vars PROVE PoolStep
<1>1. CASE UNCHANGED vars
  <2>1. \A x \in Sessions : Status(x)' = Status(x)
    BY <1>1, QuietStatus DEF vars, slots
  <2>2. \A x : Users(x)' = Users(x)
    BY <1>1 DEF vars, work, Users
  <2> QED BY <2>1, <2>2, StutterStep
<1>2. ASSUME NEW t \in Workers, Find(t) \/ Leave(t) \/ AckStop(t) \/ CheckStop(t) \/ MoveToPool(t)
      PROVE  PoolStep
  BY <1>2, FindAcquires, WorkerRefines, MoveRecycles
<1> QED
  BY <1>1, <1>2, AllocOpens, AcceptRefines, TakeRequestCloses, CloserRefines DEF Next, Ongoing, WornOut

\* The life cycle keeps the promise of SessionPool, step by step and for every
\* number of sessions, in the behaviours in which the main thread is not told of
\* a session that is still being bound and no recycling worker is overtaken.
THEOREM LifecycleIsSessionPool ==
  Spec /\ ~AcceptMayStall /\ [][NotOvertaken]_vars => ImplementsSessionPool
<1>1. Init => Abstract!Init
  <2> SUFFICES ASSUME Init PROVE Abstract!Init
    OBVIOUS
  <2>1. TypeOK /\ PoolInv
    BY InitType, InitConserved
  <2>2. \A s \in Sessions : InPool(s)
    <3>1. ASSUME NEW s \in Sessions PROVE InPool(s)
      <4>0. pool = [i \in 1 .. N |-> i - 1] /\ Len(pool) = N /\ N \in Nat
        BY ConstantsAssumption DEF Init
      <4>1. s + 1 \in 1 .. Len(pool) /\ pool[s+1] = s
        BY <4>0 DEF Sessions
      <4> QED BY <4>1 DEF InPool
    <3> QED BY <3>1
  <2>3. \A s \in Sessions : Status(s) = "free"
    BY <2>2 DEF Status
  <2>4. \A s \in Sessions : Users(s) = {}
    BY DEF Init, Users, Busy, Idle, NotClosing, Closing, Sessions, NoSession
  <2> QED BY <2>3, <2>4 DEF Abstract!Init
<1>2. IInv /\ IInv' /\ AckInv /\ AcceptedInv /\ ~AcceptMayStall /\ [Next]_vars
        => [Abstract!Next]_<<Pooled, Using>>
  BY NextRefines DEF IInv, Bases, AcceptedInv, PoolStep
<1>3. ASSUME ~AcceptMayStall
      PROVE  Spec /\ [][NotOvertaken]_vars => ImplementsSessionPool
  <2>1. IInv /\ IInv' /\ AckInv /\ AcceptedInv /\ [Next]_vars
          => [Abstract!Next]_<<Pooled, Using>>
    BY <1>2, <1>3
  <2> QED BY <1>1, <2>1, LifecycleInv, AcknowledgementInv, AcceptedStaysPrivate, PTL
          DEF Spec, ImplementsSessionPool, Abstract!Spec, Pooled, Using
<1> QED BY <1>3
=============================================================================
