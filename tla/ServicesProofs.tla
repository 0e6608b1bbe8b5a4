----------------------------- MODULE ServicesProofs -----------------------------
(***************************************************************************)
(* Theorems about the three parts of LNetWorkServices that share no state: *)
(* MainLogic, ServiceThreads and RecvStream, one after the other.          *)
(***************************************************************************)
EXTENDS MainLogic, ServiceThreads, RecvStream, TLAPS

-----------------------------------------------------------------------------
(* MainLogic.  For any number of sessions and any sizes of the rings: no    *)
(* packet comes before OnAddSession, the application forgets every session  *)
(* that is gone unless the notice was lost in a full ring, and a session    *)
(* marked as closing is with the close thread.                              *)
(*                                                                          *)
(* It rests on one fact about the order of the handlers: as long as a       *)
(* session is with the accept thread or in its ring, nobody else has it.    *)

LogicTypeOK ==
  /\ life \in [Session -> {"none", "current", "retired"}]
  /\ closing \in [Session -> BOOLEAN]
  /\ {acceptor, receiving, sending, closer, adding} \subseteq Session \union {0}
  /\ acceptQueue \in Seq(Session) /\ packetQueue \in Seq(Session)
  /\ closedQueue \in Seq(Session) /\ firstRecv \in Seq(Session)
  /\ requests \in [Requester -> Seq(Session)]
  /\ {armed, known, unreported, unrequested} \subseteq SUBSET Session
  /\ mainAt \in {"accept", "first", "packet", "closed", "idle"}

\* The session is with the accept thread or on its way to OnAddSession.
Fresh(s) == s = acceptor \/ In(s, acceptQueue)

\* The receive thread or a packet on its way knows the session.
AtWorker(s) ==
  In(s, firstRecv) \/ s \in armed \/ s = receiving \/ s = sending \/ In(s, packetQueue)

AtCloser(s) == \E r \in Requester : In(s, requests[r])

\* Nobody but the accept thread has a fresh session.
FreshIsUntouched ==
  \A s \in Session :
    Fresh(s) => life[s] = "current" /\ s \notin known /\ ~AtCloser(s)

\* A session that was never allocated is nowhere.
UnusedIsNowhere ==
  \A s \in Session :
    life[s] = "none" => s \notin known /\ ~AtCloser(s) /\ ~closing[s]

\* What the receive or the send thread has was announced to the application.
WorkedOnIsKnown ==
  \A s \in Session : AtWorker(s) => s \in known \/ life[s] = "retired"

\* The close thread reports what it retired.
ReportedIsRetired ==
  \A s \in Session : s = closer \/ In(s, closedQueue) => life[s] = "retired"

Distinct(q) == \A i, j \in 1 .. Len(q) : q[i] = q[j] => i = j

AnnouncedOnce == Distinct(acceptQueue) /\ ~In(acceptor, acceptQueue)

AddingIsKnown == mainAt = "first" => adding \in known

LogicInv ==
  /\ LogicTypeOK /\ AnnouncedOnce /\ AddingIsKnown
  /\ FreshIsUntouched /\ UnusedIsNowhere /\ WorkedOnIsKnown /\ ReportedIsRetired
  /\ RemovalReported /\ ClosingIsRequested

USE MainLogicAssumption

LEMMA ZeroIsNoSession == 0 \notin Session
BY DEF Session

-----------------------------------------------------------------------------
(* Rings.                                                                   *)

LEMMA InAppend ==
  ASSUME NEW S, NEW q \in Seq(S), NEW x \in S, NEW s
  PROVE  /\ Append(q, x) \in Seq(S)
         /\ In(s, Append(q, x)) <=> In(s, q) \/ s = x
<1>1. /\ Len(Append(q, x)) = Len(q) + 1 /\ Len(q) \in Nat
      /\ Append(q, x)[Len(q) + 1] = x
      /\ \A i \in 1 .. Len(q) : Append(q, x)[i] = q[i]
  OBVIOUS
<1>2. ASSUME In(s, Append(q, x)) PROVE In(s, q) \/ s = x
  BY <1>1, <1>2 DEF In
<1>3. ASSUME In(s, q) PROVE In(s, Append(q, x))
  BY <1>1, <1>3 DEF In
<1>4. In(x, Append(q, x))
  BY <1>1 DEF In
<1> QED BY <1>2, <1>3, <1>4

LEMMA InTail ==
  ASSUME NEW S, NEW q \in Seq(S), q # <<>>, NEW s
  PROVE  /\ Tail(q) \in Seq(S) /\ Head(q) \in S
         /\ In(s, q) <=> s = Head(q) \/ In(s, Tail(q))
<1>1. /\ Len(Tail(q)) = Len(q) - 1 /\ Len(q) \in Nat \ {0}
      /\ Head(q) = q[1]
      /\ \A i \in 1 .. Len(q) - 1 : Tail(q)[i] = q[i + 1]
  OBVIOUS
<1>2. ASSUME In(s, q) PROVE s = Head(q) \/ In(s, Tail(q))
  <2>1. PICK i \in 1 .. Len(q) : q[i] = s
    BY <1>2 DEF In
  <2>2. CASE i = 1
    BY <1>1, <2>1, <2>2
  <2>3. CASE i # 1
    <3>1. i - 1 \in 1 .. Len(Tail(q)) /\ Tail(q)[i - 1] = s
      BY <1>1, <2>1, <2>3
    <3> QED BY <3>1 DEF In
  <2> QED BY <2>2, <2>3
<1>3. ASSUME In(s, Tail(q)) PROVE In(s, q)
  BY <1>1, <1>3 DEF In
<1>4. In(Head(q), q)
  BY <1>1 DEF In
<1>5. Tail(q) \in Seq(S) /\ Head(q) \in S
  OBVIOUS
<1> QED BY <1>2, <1>3, <1>4, <1>5

LEMMA DistinctAppend ==
  ASSUME NEW S, NEW q \in Seq(S), NEW x \in S, Distinct(q), ~In(x, q)
  PROVE  Distinct(Append(q, x))
<1>1. /\ Len(Append(q, x)) = Len(q) + 1 /\ Len(q) \in Nat
      /\ Append(q, x)[Len(q) + 1] = x
      /\ \A i \in 1 .. Len(q) : Append(q, x)[i] = q[i]
  OBVIOUS
<1> DEFINE more == Append(q, x)
<1>2. ASSUME NEW i \in 1 .. Len(more), NEW j \in 1 .. Len(more), more[i] = more[j]
      PROVE  i = j
  <2>1. CASE i \in 1 .. Len(q) /\ j \in 1 .. Len(q)
    <3>1. q[i] = q[j]
      BY <1>1, <1>2, <2>1
    <3> QED BY <2>1, <3>1 DEF Distinct
  <2>2. CASE i = Len(q) + 1 /\ j \in 1 .. Len(q)
    <3>1. q[j] = x
      BY <1>1, <1>2, <2>2
    <3> QED BY <2>2, <3>1 DEF In
  <2>3. CASE i \in 1 .. Len(q) /\ j = Len(q) + 1
    <3>1. q[i] = x
      BY <1>1, <1>2, <2>3
    <3> QED BY <2>3, <3>1 DEF In
  <2>4. i \in 1 .. Len(q) \/ i = Len(q) + 1
    BY <1>1
  <2>5. j \in 1 .. Len(q) \/ j = Len(q) + 1
    BY <1>1
  <2> QED BY <2>1, <2>2, <2>3, <2>4, <2>5
<1> QED BY <1>2 DEF Distinct

LEMMA DistinctTail ==
  ASSUME NEW S, NEW q \in Seq(S), q # <<>>, Distinct(q)
  PROVE  Distinct(Tail(q)) /\ ~In(Head(q), Tail(q))
<1>1. /\ Len(Tail(q)) = Len(q) - 1 /\ Len(q) \in Nat \ {0}
      /\ Head(q) = q[1]
      /\ \A i \in 1 .. Len(q) - 1 : Tail(q)[i] = q[i + 1]
  OBVIOUS
<1>2. Distinct(Tail(q))
  <2>1. ASSUME NEW i \in 1 .. Len(Tail(q)), NEW j \in 1 .. Len(Tail(q)),
               Tail(q)[i] = Tail(q)[j]
        PROVE  i = j
    <3>1. q[i + 1] = q[j + 1] /\ i + 1 \in 1 .. Len(q) /\ j + 1 \in 1 .. Len(q)
      BY <1>1, <2>1
    <3>2. i + 1 = j + 1
      BY <3>1 DEF Distinct
    <3> QED BY <3>2
  <2> QED BY <2>1 DEF Distinct
<1>3. ASSUME In(Head(q), Tail(q)) PROVE FALSE
  <2>1. PICK i \in 1 .. Len(Tail(q)) : Tail(q)[i] = Head(q)
    BY <1>3 DEF In
  <2>2. q[i + 1] = q[1] /\ i + 1 \in 1 .. Len(q) /\ 1 \in 1 .. Len(q) /\ i + 1 # 1
    BY <1>1, <2>1
  <2> QED BY <2>2 DEF Distinct
<1> QED BY <1>2, <1>3

-----------------------------------------------------------------------------
(* Close requests.                                                          *)

LEMMA AppendToCloseAdds ==
  ASSUME LogicTypeOK, NEW r \in Requester, NEW s \in Session, AppendToClose(r, s)
  PROVE  /\ requests' \in [Requester -> Seq(Session)]
         /\ \A t \in Session : AtCloser(t)' <=> AtCloser(t) \/ t = s
<1>1. requests \in [Requester -> Seq(Session)]
  BY DEF LogicTypeOK
<1>2. /\ requests' = [requests EXCEPT ![r] = Append(requests[r], s)]
      /\ requests[r] \in Seq(Session)
  BY <1>1 DEF AppendToClose
<1>3. /\ Append(requests[r], s) \in Seq(Session)
      /\ \A t \in Session : In(t, Append(requests[r], s)) <=> In(t, requests[r]) \/ t = s
  BY <1>2, InAppend
<1>4. /\ requests' \in [Requester -> Seq(Session)]
      /\ requests'[r] = Append(requests[r], s)
      /\ \A p \in Requester : p # r => requests'[p] = requests[p]
  BY <1>1, <1>2, <1>3
<1> QED BY <1>3, <1>4 DEF AtCloser

\* What a request of the accept, the receive or the send thread can change.
LEMMA RequestCloseAdds ==
  ASSUME LogicTypeOK, NEW r \in Requester, NEW s \in Session, RequestClose(r, s)
  PROVE  /\ requests' \in [Requester -> Seq(Session)]
         /\ closing' \in [Session -> BOOLEAN]
         /\ \A t \in Session :
              /\ AtCloser(t) => AtCloser(t)'
              /\ AtCloser(t)' => AtCloser(t) \/ t = s
              /\ closing'[t] => closing[t] \/ (t = s /\ AtCloser(t)')
<1>1. requests \in [Requester -> Seq(Session)] /\ closing \in [Session -> BOOLEAN]
  BY DEF LogicTypeOK
<1>2. CASE AppendToClose(r, s) /\ closing' = [closing EXCEPT ![s] = TRUE]
  BY <1>1, <1>2, AppendToCloseAdds
<1>3. CASE UNCHANGED <<requests, closing>>
  BY <1>1, <1>3 DEF AtCloser
<1> QED BY <1>2, <1>3 DEF RequestClose

\* The same for the main thread, which may fail to file the request.
LEMMA KickOutAdds ==
  ASSUME LogicTypeOK, NEW s \in Session, ProcessKickOutSession(s)
  PROVE  /\ requests' \in [Requester -> Seq(Session)]
         /\ closing' \in [Session -> BOOLEAN]
         /\ unrequested' \subseteq Session /\ unrequested \subseteq unrequested'
         /\ \A t \in Session :
              /\ AtCloser(t) => AtCloser(t)'
              /\ AtCloser(t)' => AtCloser(t) \/ (t = s /\ life[t] = "current")
              /\ closing'[t] =>
                   \/ closing[t]
                   \/ t = s /\ life[t] = "current" /\ (AtCloser(t)' \/ t \in unrequested')
<1>1. /\ requests \in [Requester -> Seq(Session)] /\ closing \in [Session -> BOOLEAN]
      /\ unrequested \subseteq Session /\ "main" \in Requester
  BY DEF LogicTypeOK, Requester
<1>2. CASE UNCHANGED <<requests, closing, unrequested>>
  BY <1>1, <1>2 DEF AtCloser
<1>3. CASE /\ life[s] = "current" /\ closing' = [closing EXCEPT ![s] = TRUE]
           /\ AppendToClose("main", s) /\ UNCHANGED unrequested
  BY <1>1, <1>3, AppendToCloseAdds
<1>4. CASE /\ life[s] = "current" /\ closing' = [closing EXCEPT ![s] = TRUE]
           /\ unrequested' = unrequested \union {s} /\ UNCHANGED requests
  BY <1>1, <1>4 DEF AtCloser
<1> QED BY <1>2, <1>3, <1>4 DEF ProcessKickOutSession

-----------------------------------------------------------------------------
(* The steps.                                                               *)

LEMMA LogicInitInv == LogicInit => LogicInv
<1> SUFFICES ASSUME LogicInit PROVE LogicInv
  OBVIOUS
<1>1. \A s : ~In(s, <<>>)
  BY DEF In
<1>2. \A s \in Session : ~AtCloser(s)
  BY <1>1 DEF LogicInit, AtCloser
<1>3. LogicTypeOK
  BY DEF LogicInit, LogicTypeOK
<1>4. AnnouncedOnce /\ AddingIsKnown
  BY <1>1 DEF LogicInit, AnnouncedOnce, Distinct, AddingIsKnown
<1>5. FreshIsUntouched /\ WorkedOnIsKnown /\ ReportedIsRetired
  BY <1>1, ZeroIsNoSession DEF LogicInit, FreshIsUntouched, Fresh, WorkedOnIsKnown,
     AtWorker, ReportedIsRetired
<1>6. UnusedIsNowhere /\ RemovalReported /\ ClosingIsRequested
  BY <1>2 DEF LogicInit, UnusedIsNowhere, RemovalReported, ClosingIsRequested
<1> QED BY <1>3, <1>4, <1>5, <1>6 DEF LogicInv

\* An unused session becomes the accept thread's: nobody knew it.
LEMMA AllocSessionInv ==
  ASSUME LogicInv, NEW t \in Session, AllocSession(t) PROVE LogicInv'
<1> USE DEF LogicInv
<1>1. /\ acceptor = 0 /\ life[t] = "none" /\ acceptor' = t
      /\ life' = [life EXCEPT ![t] = "current"]
      /\ UNCHANGED <<closing, acceptQueue, packetQueue, closedQueue, firstRecv, armed,
                     receiving, sending, requests, closer, mainAt, adding, known, unreported,
                     unrequested>>
  BY DEF AllocSession, toMain, workers, receiver, histories
<1>2. LogicTypeOK'
  BY <1>1 DEF LogicTypeOK
<1>3. \A s \in Session :
        /\ life'[s] = IF s = t THEN "current" ELSE life[s]
        /\ AtCloser(s)' <=> AtCloser(s)
        /\ AtWorker(s)' <=> AtWorker(s)
        /\ Fresh(s)' <=> Fresh(s) \/ s = t
  BY <1>1, ZeroIsNoSession DEF LogicTypeOK, AtCloser, AtWorker, Fresh
<1>4. ~In(t, acceptQueue)
  BY <1>1 DEF FreshIsUntouched, Fresh
<1>5. AnnouncedOnce' /\ AddingIsKnown'
  BY <1>1, <1>4 DEF AnnouncedOnce, AddingIsKnown
<1>6. FreshIsUntouched' /\ UnusedIsNowhere'
  BY <1>1, <1>3 DEF FreshIsUntouched, UnusedIsNowhere
<1>7. WorkedOnIsKnown' /\ ReportedIsRetired' /\ RemovalReported'
  BY <1>1, <1>3 DEF WorkedOnIsKnown, ReportedIsRetired, RemovalReported, LogicTypeOK
<1>8. ClosingIsRequested'
  BY <1>1, <1>3 DEF ClosingIsRequested, UnusedIsNowhere, AtCloser
<1> QED BY <1>2, <1>5, <1>6, <1>7, <1>8

LEMMA AnnounceInv == ASSUME LogicInv, Announce PROVE LogicInv'
<1> USE DEF LogicInv
<1>1. /\ acceptor # 0 /\ acceptQueue' = Append(acceptQueue, acceptor) /\ acceptor' = 0
      /\ UNCHANGED <<life, closing, packetQueue, closedQueue, firstRecv, armed,
                     receiving, sending, requests, closer, mainAt, adding, known, unreported,
                     unrequested>>
  BY DEF Announce, sessions, workers, receiver, mainState, histories
<1>2. acceptor \in Session /\ acceptQueue \in Seq(Session)
  BY <1>1 DEF LogicTypeOK
<1>3. /\ acceptQueue' \in Seq(Session)
      /\ \A s : In(s, acceptQueue') <=> In(s, acceptQueue) \/ s = acceptor
  BY <1>1, <1>2, InAppend
<1>4. LogicTypeOK'
  BY <1>1, <1>3 DEF LogicTypeOK
<1>5. \A s \in Session :
        /\ AtCloser(s)' <=> AtCloser(s)
        /\ AtWorker(s)' <=> AtWorker(s)
        /\ Fresh(s)' <=> Fresh(s)
  BY <1>1, <1>3, ZeroIsNoSession DEF AtCloser, AtWorker, Fresh
<1>6. ~In(0, acceptQueue')
  BY <1>3, ZeroIsNoSession DEF In
<1>7. Distinct(acceptQueue')
  BY <1>1, <1>2, DistinctAppend DEF AnnouncedOnce
<1>8. AnnouncedOnce' /\ AddingIsKnown'
  BY <1>1, <1>6, <1>7 DEF AnnouncedOnce, AddingIsKnown
<1>9. FreshIsUntouched' /\ UnusedIsNowhere'
  BY <1>1, <1>5 DEF FreshIsUntouched, UnusedIsNowhere
<1>10. WorkedOnIsKnown' /\ ReportedIsRetired' /\ RemovalReported' /\ ClosingIsRequested'
  BY <1>1, <1>5 DEF WorkedOnIsKnown, ReportedIsRetired, RemovalReported,
     ClosingIsRequested, AtCloser
<1> QED BY <1>4, <1>8, <1>9, <1>10

LEMMA GiveUpInv == ASSUME LogicInv, GiveUp PROVE LogicInv'
<1> USE DEF LogicInv
<1>1. /\ acceptor # 0 /\ RequestClose("accept", acceptor) /\ acceptor' = 0
      /\ UNCHANGED <<life, acceptQueue, packetQueue, closedQueue, firstRecv, armed,
                     receiving, sending, closer, mainAt, adding, known, unreported,
                     unrequested>>
  BY DEF GiveUp, toMain, workers, receiver, mainState, histories
<1>2. acceptor \in Session /\ acceptQueue \in Seq(Session) /\ "accept" \in Requester
  BY <1>1 DEF LogicTypeOK, Requester
<1>3. /\ requests' \in [Requester -> Seq(Session)]
      /\ closing' \in [Session -> BOOLEAN]
      /\ \A s \in Session :
           /\ AtCloser(s) => AtCloser(s)'
           /\ AtCloser(s)' => AtCloser(s) \/ s = acceptor
           /\ closing'[s] => closing[s] \/ (s = acceptor /\ AtCloser(s)')
  BY <1>1, <1>2, RequestCloseAdds
<1>4. LogicTypeOK'
  BY <1>1, <1>3 DEF LogicTypeOK
<1>5. \A s \in Session :
        /\ AtWorker(s)' <=> AtWorker(s)
        /\ Fresh(s)' <=> Fresh(s) /\ s # acceptor
  BY <1>1, ZeroIsNoSession DEF AtWorker, Fresh, AnnouncedOnce
<1>6. ~In(0, acceptQueue)
  BY <1>2, ZeroIsNoSession DEF In
<1>7. AnnouncedOnce' /\ AddingIsKnown'
  BY <1>1, <1>6 DEF AnnouncedOnce, AddingIsKnown
<1>8. life[acceptor] = "current"
  BY <1>2 DEF FreshIsUntouched, Fresh
<1>9. FreshIsUntouched' /\ UnusedIsNowhere'
  BY <1>1, <1>3, <1>5, <1>8 DEF FreshIsUntouched, UnusedIsNowhere
<1>10. WorkedOnIsKnown' /\ ReportedIsRetired' /\ RemovalReported'
  BY <1>1, <1>5 DEF WorkedOnIsKnown, ReportedIsRetired, RemovalReported
<1>11. ClosingIsRequested'
  BY <1>1, <1>3 DEF ClosingIsRequested, AtCloser
<1> QED BY <1>4, <1>7, <1>9, <1>10, <1>11

\* The receive thread moves what it has from one place to another.
LEMMA ReceiverStepInv ==
  ASSUME LogicInv,
         FirstRecv \/ RecvPacket \/ ArmDescriptor \/ \E t \in Session : FindWork(t)
  PROVE  LogicInv'
<1> USE DEF LogicInv
<1>1. UNCHANGED <<life, closing, acceptor, acceptQueue, closedQueue, requests, closer,
                  mainAt, adding, known, unreported, unrequested>>
  BY DEF FirstRecv, RecvPacket, ArmDescriptor, FindWork, sessions, toMain, mainState,
     histories
<1>2. sending' = sending
  BY DEF FirstRecv, RecvPacket, ArmDescriptor, FindWork
<1>3. LogicTypeOK' /\ (\A s \in Session : AtWorker(s)' => AtWorker(s))
  <2>1. CASE FirstRecv
    <3>1. /\ firstRecv # <<>> /\ firstRecv \in Seq(Session)
          /\ firstRecv' = Tail(firstRecv) /\ receiving' \in {Head(firstRecv), 0}
          /\ UNCHANGED <<packetQueue, armed>>
      BY <2>1 DEF FirstRecv, LogicTypeOK, toMain
    <3>2. /\ firstRecv' \in Seq(Session) /\ Head(firstRecv) \in Session
          /\ \A s : In(s, firstRecv) <=> s = Head(firstRecv) \/ In(s, firstRecv')
      BY <3>1, InTail
    <3>3. LogicTypeOK'
      BY <1>1, <1>2, <3>1, <3>2 DEF LogicTypeOK
    <3>4. \A s \in Session : AtWorker(s)' => AtWorker(s)
      BY <1>2, <3>1, <3>2, ZeroIsNoSession DEF AtWorker
    <3> QED BY <3>3, <3>4
  <2>2. CASE RecvPacket
    <3>1. /\ receiving \in Session /\ packetQueue \in Seq(Session)
          /\ packetQueue' = Append(packetQueue, receiving)
          /\ UNCHANGED <<firstRecv, receiving, sending, armed>>
      BY <2>2 DEF RecvPacket, LogicTypeOK
    <3>2. /\ packetQueue' \in Seq(Session)
          /\ \A s : In(s, packetQueue') <=> In(s, packetQueue) \/ s = receiving
      BY <3>1, InAppend
    <3>3. LogicTypeOK'
      BY <1>1, <1>2, <3>1, <3>2 DEF LogicTypeOK
    <3>4. \A s \in Session : AtWorker(s)' => AtWorker(s)
      BY <1>2, <3>1, <3>2 DEF AtWorker
    <3> QED BY <3>3, <3>4
  <2>3. CASE ArmDescriptor
    <3>1. /\ receiving \in Session /\ armed' = armed \union {receiving}
          /\ receiving' = 0 /\ UNCHANGED <<firstRecv, packetQueue>>
      BY <2>3 DEF ArmDescriptor, LogicTypeOK, toMain
    <3>2. LogicTypeOK'
      BY <1>1, <1>2, <3>1 DEF LogicTypeOK
    <3>3. \A s \in Session : AtWorker(s)' => AtWorker(s)
      BY <1>2, <3>1, ZeroIsNoSession DEF AtWorker
    <3> QED BY <3>2, <3>3
  <2>4. ASSUME NEW t \in Session, FindWork(t)
        PROVE  LogicTypeOK' /\ (\A s \in Session : AtWorker(s)' => AtWorker(s))
    <3>1. /\ t \in armed /\ armed' = armed \ {t} /\ receiving' = t
          /\ UNCHANGED <<firstRecv, packetQueue>>
      BY <2>4 DEF FindWork, toMain
    <3>2. LogicTypeOK'
      BY <1>1, <1>2, <3>1 DEF LogicTypeOK
    <3>3. \A s \in Session : AtWorker(s)' => AtWorker(s)
      BY <1>2, <3>1 DEF AtWorker
    <3> QED BY <3>2, <3>3
  <2> QED BY <2>1, <2>2, <2>3, <2>4
<1>4. \A s \in Session : (AtCloser(s)' <=> AtCloser(s)) /\ (Fresh(s)' <=> Fresh(s))
  BY <1>1 DEF AtCloser, Fresh
<1>5. AnnouncedOnce' /\ AddingIsKnown'
  BY <1>1 DEF AnnouncedOnce, AddingIsKnown
<1>6. FreshIsUntouched' /\ UnusedIsNowhere' /\ WorkedOnIsKnown'
  BY <1>1, <1>3, <1>4 DEF FreshIsUntouched, UnusedIsNowhere, WorkedOnIsKnown
<1>7. ReportedIsRetired' /\ RemovalReported' /\ ClosingIsRequested'
  BY <1>1, <1>4 DEF ReportedIsRetired, RemovalReported, ClosingIsRequested, AtCloser
<1> QED BY <1>3, <1>5, <1>6, <1>7

\* The send thread finds a session the application knows, and lets it go.
LEMMA SenderStepInv ==
  ASSUME LogicInv, SendSucceeds \/ \E t \in Session : FindSendWork(t) PROVE LogicInv'
<1> USE DEF LogicInv
<1>1. UNCHANGED <<life, closing, acceptor, acceptQueue, packetQueue, closedQueue, firstRecv,
                  armed, receiving, requests, closer, mainAt, adding, known, unreported,
                  unrequested>>
  BY DEF SendSucceeds, FindSendWork, sessions, toMain, receiver, mainState, histories
<1>2. sending' = 0 \/ (sending' \in Session /\ sending' \in known)
  BY DEF SendSucceeds, FindSendWork
<1>3. LogicTypeOK'
  BY <1>1, <1>2 DEF LogicTypeOK
<1>4. \A s \in Session : /\ AtCloser(s)' <=> AtCloser(s)
                         /\ AtWorker(s)' => AtWorker(s) \/ s \in known
                         /\ Fresh(s)' <=> Fresh(s)
  BY <1>1, <1>2, ZeroIsNoSession DEF AtCloser, AtWorker, Fresh
<1>5. AnnouncedOnce' /\ AddingIsKnown'
  BY <1>1 DEF AnnouncedOnce, AddingIsKnown
<1>6. FreshIsUntouched' /\ UnusedIsNowhere' /\ WorkedOnIsKnown'
  BY <1>1, <1>4 DEF FreshIsUntouched, UnusedIsNowhere, WorkedOnIsKnown
<1>7. ReportedIsRetired' /\ RemovalReported' /\ ClosingIsRequested'
  BY <1>1, <1>4 DEF ReportedIsRetired, RemovalReported, ClosingIsRequested, AtCloser
<1> QED BY <1>3, <1>5, <1>6, <1>7

LEMMA RecvFailsInv == ASSUME LogicInv, RecvFails PROVE LogicInv'
<1> USE DEF LogicInv
<1>1. /\ receiving # 0 /\ receiving' = 0
      /\ UNCHANGED <<life, acceptor, acceptQueue, packetQueue, closedQueue, firstRecv,
                     armed, sending, closer, mainAt, adding, known, unreported, unrequested>>
  BY DEF RecvFails, toMain, mainState, histories
<1>2. receiving \in Session /\ "recv" \in Requester
  BY <1>1 DEF LogicTypeOK, Requester
<1>3. /\ requests' \in [Requester -> Seq(Session)]
      /\ closing' \in [Session -> BOOLEAN]
      /\ \A s \in Session :
           /\ AtCloser(s) => AtCloser(s)'
           /\ AtCloser(s)' => AtCloser(s) \/ s = receiving
           /\ closing'[s] => closing[s] \/ (s = receiving /\ AtCloser(s)')
  <2>1. CASE RequestClose("recv", receiving)
    BY <1>2, <2>1, RequestCloseAdds
  <2>2. CASE UNCHANGED <<requests, closing>>
    BY <2>2 DEF LogicTypeOK, AtCloser
  <2> QED BY <2>1, <2>2 DEF RecvFails
<1>4. LogicTypeOK'
  BY <1>1, <1>3 DEF LogicTypeOK
<1>5. \A s \in Session :
        /\ AtWorker(s)' => AtWorker(s)
        /\ Fresh(s)' <=> Fresh(s)
  BY <1>1, ZeroIsNoSession DEF AtWorker, Fresh
<1>6. receiving \in known \/ life[receiving] = "retired"
  BY <1>2 DEF WorkedOnIsKnown, AtWorker
<1>7. AnnouncedOnce' /\ AddingIsKnown'
  BY <1>1 DEF AnnouncedOnce, AddingIsKnown
<1>8. FreshIsUntouched' /\ UnusedIsNowhere'
  BY <1>1, <1>3, <1>5, <1>6 DEF FreshIsUntouched, UnusedIsNowhere
<1>9. WorkedOnIsKnown' /\ ReportedIsRetired' /\ RemovalReported'
  BY <1>1, <1>5 DEF WorkedOnIsKnown, ReportedIsRetired, RemovalReported
<1>10. ClosingIsRequested'
  BY <1>1, <1>3 DEF ClosingIsRequested, AtCloser
<1> QED BY <1>4, <1>7, <1>8, <1>9, <1>10

LEMMA SendFailsInv == ASSUME LogicInv, SendFails PROVE LogicInv'
<1> USE DEF LogicInv
<1>1. /\ sending # 0 /\ sending' = 0
      /\ UNCHANGED <<life, acceptor, acceptQueue, packetQueue, closedQueue, firstRecv,
                     armed, receiving, closer, mainAt, adding, known, unreported, unrequested>>
  BY DEF SendFails, toMain, receiver, mainState, histories
<1>2. sending \in Session /\ "send" \in Requester
  BY <1>1 DEF LogicTypeOK, Requester
<1>3. /\ requests' \in [Requester -> Seq(Session)]
      /\ closing' \in [Session -> BOOLEAN]
      /\ \A s \in Session :
           /\ AtCloser(s) => AtCloser(s)'
           /\ AtCloser(s)' => AtCloser(s) \/ s = sending
           /\ closing'[s] => closing[s] \/ (s = sending /\ AtCloser(s)')
  BY <1>2, RequestCloseAdds DEF SendFails
<1>4. LogicTypeOK'
  BY <1>1, <1>3 DEF LogicTypeOK
<1>5. \A s \in Session :
        /\ AtWorker(s)' => AtWorker(s)
        /\ Fresh(s)' <=> Fresh(s)
  BY <1>1, ZeroIsNoSession DEF AtWorker, Fresh
<1>6. sending \in known \/ life[sending] = "retired"
  BY <1>2 DEF WorkedOnIsKnown, AtWorker
<1>7. AnnouncedOnce' /\ AddingIsKnown'
  BY <1>1 DEF AnnouncedOnce, AddingIsKnown
<1>8. FreshIsUntouched' /\ UnusedIsNowhere'
  BY <1>1, <1>3, <1>5, <1>6 DEF FreshIsUntouched, UnusedIsNowhere
<1>9. WorkedOnIsKnown' /\ ReportedIsRetired' /\ RemovalReported'
  BY <1>1, <1>5 DEF WorkedOnIsKnown, ReportedIsRetired, RemovalReported
<1>10. ClosingIsRequested'
  BY <1>1, <1>3 DEF ClosingIsRequested, AtCloser
<1> QED BY <1>4, <1>7, <1>8, <1>9, <1>10

\* The request that is taken out of its ring retires its session.
LEMMA ProcessDisconnectInv ==
  ASSUME LogicInv, NEW r \in Requester, ProcessDisconnect(r) PROVE LogicInv'
<1> USE DEF LogicInv
<1> DEFINE t == Head(requests[r])
<1>1. /\ closer = 0 /\ requests[r] # <<>>
      /\ requests' = [requests EXCEPT ![r] = Tail(requests[r])]
      /\ \/ /\ life[t] = "current" /\ closer' = t
            /\ life' = [life EXCEPT ![t] = "retired"]
         \/ life[t] # "current" /\ UNCHANGED <<life, closer>>
      /\ UNCHANGED <<closing, acceptor, acceptQueue, packetQueue, closedQueue, firstRecv,
                     armed, receiving, sending, mainAt, adding, known, unreported, unrequested>>
  BY DEF ProcessDisconnect, toMain, workers, receiver, mainState, histories
<1>2. requests \in [Requester -> Seq(Session)] /\ requests[r] \in Seq(Session)
  BY DEF LogicTypeOK
<1>3. /\ Tail(requests[r]) \in Seq(Session) /\ t \in Session
      /\ \A s : In(s, requests[r]) <=> s = t \/ In(s, Tail(requests[r]))
  BY <1>1, <1>2, InTail
<1>4. /\ requests' \in [Requester -> Seq(Session)]
      /\ requests'[r] = Tail(requests[r])
      /\ \A p \in Requester : p # r => requests'[p] = requests[p]
  BY <1>1, <1>2, <1>3
<1>5. AtCloser(t)
  BY <1>3 DEF AtCloser
<1>6. \A s \in Session :
        /\ AtCloser(s)' => AtCloser(s)
        /\ AtCloser(s) => AtCloser(s)' \/ s = t
  BY <1>3, <1>4 DEF AtCloser
<1> HIDE DEF t
<1>7. /\ life' \in [Session -> {"none", "current", "retired"}]
      /\ closer' \in Session \union {0}
  BY <1>1, <1>3 DEF LogicTypeOK
<1>8. LogicTypeOK'
  BY <1>1, <1>4, <1>7 DEF LogicTypeOK
<1>9. \A s \in Session :
        /\ s # t => life'[s] = life[s]
        /\ life[s] = "retired" => life'[s] = "retired"
        /\ life'[s] = "none" => life[s] = "none"
  BY <1>1, <1>3 DEF LogicTypeOK
<1>10. \A s \in Session :
         (AtWorker(s)' <=> AtWorker(s)) /\ (Fresh(s)' <=> Fresh(s))
  BY <1>1 DEF AtWorker, Fresh
<1>11. AnnouncedOnce' /\ AddingIsKnown'
  BY <1>1 DEF AnnouncedOnce, AddingIsKnown
<1>12. FreshIsUntouched'
  BY <1>1, <1>5, <1>6, <1>9, <1>10 DEF FreshIsUntouched
<1>13. UnusedIsNowhere' /\ WorkedOnIsKnown'
  BY <1>1, <1>6, <1>9, <1>10 DEF UnusedIsNowhere, WorkedOnIsKnown
<1>14. life'[t] # "current" /\ (closer' = t \/ UNCHANGED <<life, closer>>)
  BY <1>1, <1>3, <1>7 DEF LogicTypeOK
<1>15. ReportedIsRetired' /\ RemovalReported'
  <2>1. CASE UNCHANGED <<life, closer>>
    BY <1>1, <2>1 DEF ReportedIsRetired, RemovalReported
  <2>2. CASE closer' = t /\ life' = [life EXCEPT ![t] = "retired"]
    <3>1. life'[t] = "retired"
      BY <1>3, <2>2 DEF LogicTypeOK
    <3> QED BY <1>1, <1>9, <2>2, <3>1, ZeroIsNoSession
          DEF ReportedIsRetired, RemovalReported, LogicTypeOK
  <2> QED BY <1>1, <2>1, <2>2
<1>16. ClosingIsRequested'
  BY <1>1, <1>6, <1>9, <1>14 DEF ClosingIsRequested, AtCloser
<1> QED BY <1>8, <1>11, <1>12, <1>13, <1>15, <1>16

LEMMA ReportDisconnectInv == ASSUME LogicInv, ReportDisconnect PROVE LogicInv'
<1> USE DEF LogicInv
<1>1. /\ closer # 0 /\ closer' = 0
      /\ \/ closedQueue' = Append(closedQueue, closer) /\ UNCHANGED unreported
         \/ unreported' = unreported \union {closer} /\ UNCHANGED closedQueue
      /\ UNCHANGED <<life, closing, acceptor, acceptQueue, packetQueue, firstRecv, armed,
                     receiving, sending, requests, mainAt, adding, known, unrequested>>
  BY DEF ReportDisconnect, sessions, workers, receiver, mainState
<1>2. closer \in Session /\ closedQueue \in Seq(Session) /\ life[closer] = "retired"
  BY <1>1 DEF LogicTypeOK, ReportedIsRetired
<1>3. /\ closedQueue' \in Seq(Session)
      /\ unreported' \subseteq Session /\ unreported \subseteq unreported'
      /\ \A s : In(s, closedQueue') => In(s, closedQueue) \/ s = closer
      /\ \A s : In(s, closedQueue) => In(s, closedQueue')
      /\ In(closer, closedQueue') \/ closer \in unreported'
  <2>1. CASE closedQueue' = Append(closedQueue, closer) /\ UNCHANGED unreported
    BY <1>2, <2>1, InAppend DEF LogicTypeOK
  <2>2. CASE unreported' = unreported \union {closer} /\ UNCHANGED closedQueue
    BY <1>2, <2>2 DEF LogicTypeOK
  <2> QED BY <1>1, <2>1, <2>2
<1>4. LogicTypeOK'
  BY <1>1, <1>3 DEF LogicTypeOK
<1>5. \A s \in Session : /\ AtCloser(s)' <=> AtCloser(s)
                         /\ AtWorker(s)' <=> AtWorker(s)
                         /\ Fresh(s)' <=> Fresh(s)
  BY <1>1 DEF AtCloser, AtWorker, Fresh
<1>6. AnnouncedOnce' /\ AddingIsKnown'
  BY <1>1 DEF AnnouncedOnce, AddingIsKnown
<1>7. FreshIsUntouched' /\ UnusedIsNowhere' /\ WorkedOnIsKnown'
  BY <1>1, <1>5 DEF FreshIsUntouched, UnusedIsNowhere, WorkedOnIsKnown
<1>8. ReportedIsRetired' /\ RemovalReported'
  BY <1>1, <1>2, <1>3, ZeroIsNoSession DEF ReportedIsRetired, RemovalReported
<1>9. ClosingIsRequested'
  BY <1>1 DEF ClosingIsRequested
<1> QED BY <1>4, <1>6, <1>7, <1>8, <1>9

\* The session leaves the ring of the accept thread for the application.
LEMMA OnAddSessionInv == ASSUME LogicInv, OnAddSession PROVE LogicInv'
<1> USE DEF LogicInv
<1> DEFINE t == Head(acceptQueue)
<1>1. /\ acceptQueue # <<>> /\ acceptQueue' = Tail(acceptQueue)
      /\ known' = known \union {t} /\ adding' = t /\ mainAt' = "first"
      /\ UNCHANGED <<life, closing, acceptor, packetQueue, closedQueue, firstRecv, armed,
                     receiving, sending, requests, closer, unreported, unrequested>>
  BY DEF OnAddSession, MainUnchanged
<1>2. acceptQueue \in Seq(Session)
  BY DEF LogicTypeOK
<1>3. /\ acceptQueue' \in Seq(Session) /\ t \in Session
      /\ \A s : In(s, acceptQueue) <=> s = t \/ In(s, acceptQueue')
  BY <1>1, <1>2, InTail
<1>4. Distinct(acceptQueue') /\ ~In(t, acceptQueue')
  BY <1>1, <1>2, DistinctTail DEF AnnouncedOnce
<1> HIDE DEF t
<1>5. LogicTypeOK'
  BY <1>1, <1>3 DEF LogicTypeOK
<1>6. AnnouncedOnce' /\ AddingIsKnown'
  BY <1>1, <1>3, <1>4 DEF AnnouncedOnce, AddingIsKnown
<1>7. \A s \in Session : /\ AtCloser(s)' <=> AtCloser(s)
                         /\ AtWorker(s)' <=> AtWorker(s)
                         /\ Fresh(s)' => Fresh(s) /\ s # t
  BY <1>1, <1>3, <1>4 DEF AtCloser, AtWorker, Fresh, AnnouncedOnce
<1>8. Fresh(t) /\ life[t] = "current"
  BY <1>3 DEF Fresh, FreshIsUntouched
<1>9. FreshIsUntouched' /\ UnusedIsNowhere' /\ WorkedOnIsKnown'
  BY <1>1, <1>7, <1>8 DEF FreshIsUntouched, UnusedIsNowhere, WorkedOnIsKnown
<1>10. ReportedIsRetired' /\ RemovalReported' /\ ClosingIsRequested'
  BY <1>1, <1>8 DEF ReportedIsRetired, RemovalReported, ClosingIsRequested
<1> QED BY <1>5, <1>6, <1>9, <1>10

LEMMA AddFirstRecvOfSessionInv ==
  ASSUME LogicInv, AddFirstRecvOfSession PROVE LogicInv'
<1> USE DEF LogicInv
<1>1. /\ mainAt = "first" /\ mainAt' = "accept" /\ adding' = 0
      /\ firstRecv' = Append(firstRecv, adding) \/ firstRecv' = firstRecv
      /\ UNCHANGED <<life, closing, acceptor, acceptQueue, packetQueue, closedQueue, armed,
                     receiving, sending, requests, closer, known, unreported, unrequested>>
  BY DEF AddFirstRecvOfSession, MainUnchanged, toMain
<1>2. adding \in known /\ adding \in Session /\ firstRecv \in Seq(Session)
  BY <1>1 DEF AddingIsKnown, LogicTypeOK
<1>3. /\ firstRecv' \in Seq(Session)
      /\ \A s : In(s, firstRecv') => In(s, firstRecv) \/ s = adding
  <2>1. CASE firstRecv' = Append(firstRecv, adding)
    BY <1>2, <2>1, InAppend
  <2>2. CASE firstRecv' = firstRecv
    BY <1>2, <2>2
  <2> QED BY <1>1, <2>1, <2>2
<1>4. LogicTypeOK'
  BY <1>1, <1>3 DEF LogicTypeOK
<1>5. \A s \in Session : /\ AtCloser(s)' <=> AtCloser(s)
                         /\ AtWorker(s)' => AtWorker(s) \/ s = adding
                         /\ Fresh(s)' <=> Fresh(s)
  BY <1>1, <1>3 DEF AtCloser, AtWorker, Fresh
<1>6. AnnouncedOnce' /\ AddingIsKnown'
  BY <1>1 DEF AnnouncedOnce, AddingIsKnown
<1>7. FreshIsUntouched' /\ UnusedIsNowhere' /\ WorkedOnIsKnown'
  BY <1>1, <1>2, <1>5 DEF FreshIsUntouched, UnusedIsNowhere, WorkedOnIsKnown
<1>8. ReportedIsRetired' /\ RemovalReported' /\ ClosingIsRequested'
  BY <1>1 DEF ReportedIsRetired, RemovalReported, ClosingIsRequested
<1> QED BY <1>4, <1>6, <1>7, <1>8

\* A packet is taken, or the main thread goes on to its next queue.
LEMMA MainGoesOnInv ==
  ASSUME LogicInv, OnRecvedPacket \/ NextQueue PROVE LogicInv'
<1> USE DEF LogicInv
<1>1. /\ UNCHANGED <<life, closing, acceptor, acceptQueue, closedQueue, firstRecv, armed,
                     receiving, sending, requests, closer, adding, known, unreported, unrequested>>
      /\ mainAt' \in {"accept", "packet", "closed", "idle"}
      /\ \/ packetQueue' = packetQueue
         \/ packetQueue # <<>> /\ packetQueue' = Tail(packetQueue)
  <2>1. CASE OnRecvedPacket
    BY <2>1 DEF OnRecvedPacket, MainUnchanged
  <2>2. CASE NextQueue
    <3>1. mainAt' \in {"accept", "packet", "closed", "idle"}
      BY <2>2 DEF NextQueue, After, LogicTypeOK
    <3> QED BY <2>2, <3>1 DEF NextQueue, MainUnchanged, toMain
  <2> QED BY <2>1, <2>2
<1>2. packetQueue \in Seq(Session)
  BY DEF LogicTypeOK
<1>3. packetQueue' \in Seq(Session) /\ \A s : In(s, packetQueue') => In(s, packetQueue)
  BY <1>1, <1>2, InTail
<1>4. LogicTypeOK'
  BY <1>1, <1>3 DEF LogicTypeOK
<1>5. \A s \in Session : /\ AtCloser(s)' <=> AtCloser(s)
                         /\ AtWorker(s)' => AtWorker(s)
                         /\ Fresh(s)' <=> Fresh(s)
  BY <1>1, <1>3 DEF AtCloser, AtWorker, Fresh
<1>6. AnnouncedOnce' /\ AddingIsKnown'
  BY <1>1 DEF AnnouncedOnce, AddingIsKnown
<1>7. FreshIsUntouched' /\ UnusedIsNowhere' /\ WorkedOnIsKnown'
  BY <1>1, <1>5 DEF FreshIsUntouched, UnusedIsNowhere, WorkedOnIsKnown
<1>8. ReportedIsRetired' /\ RemovalReported' /\ ClosingIsRequested'
  BY <1>1 DEF ReportedIsRetired, RemovalReported, ClosingIsRequested
<1> QED BY <1>4, <1>6, <1>7, <1>8

\* What the application forgets is retired.
LEMMA OnRemoveSessionInv == ASSUME LogicInv, OnRemoveSession PROVE LogicInv'
<1> USE DEF LogicInv
<1> DEFINE t == Head(closedQueue)
<1>1. /\ closedQueue # <<>> /\ closedQueue' = Tail(closedQueue)
      /\ known' = known \ {t} /\ mainAt = "closed"
      /\ UNCHANGED <<life, closing, acceptor, acceptQueue, packetQueue, firstRecv, armed,
                     receiving, sending, requests, closer, mainAt, adding, unreported, unrequested>>
  BY DEF OnRemoveSession, MainUnchanged
<1>2. closedQueue \in Seq(Session)
  BY DEF LogicTypeOK
<1>3. /\ closedQueue' \in Seq(Session) /\ t \in Session
      /\ \A s : In(s, closedQueue) <=> s = t \/ In(s, closedQueue')
  BY <1>1, <1>2, InTail
<1> HIDE DEF t
<1>4. life[t] = "retired"
  BY <1>3 DEF ReportedIsRetired
<1>5. LogicTypeOK'
  BY <1>1, <1>3 DEF LogicTypeOK
<1>6. \A s \in Session : /\ AtCloser(s)' <=> AtCloser(s)
                         /\ AtWorker(s)' <=> AtWorker(s)
                         /\ Fresh(s)' <=> Fresh(s)
  BY <1>1 DEF AtCloser, AtWorker, Fresh
<1>7. AnnouncedOnce' /\ AddingIsKnown'
  BY <1>1 DEF AnnouncedOnce, AddingIsKnown
<1>8. FreshIsUntouched' /\ UnusedIsNowhere' /\ WorkedOnIsKnown'
  BY <1>1, <1>4, <1>6 DEF FreshIsUntouched, UnusedIsNowhere, WorkedOnIsKnown
<1>9. ReportedIsRetired' /\ RemovalReported' /\ ClosingIsRequested'
  BY <1>1, <1>3 DEF ReportedIsRetired, RemovalReported, ClosingIsRequested
<1> QED BY <1>5, <1>7, <1>8, <1>9

\* Only a session the application knows, or that was announced long ago, is
\* kicked out.
LEMMA KickOutInv ==
  ASSUME LogicInv, NEW t \in Session, KickOutIdleSession(t) \/ KickOutSession(t)
  PROVE  LogicInv'
<1> USE DEF LogicInv
<1>1. /\ ProcessKickOutSession(t)
      /\ UNCHANGED <<life, acceptor, acceptQueue, packetQueue, closedQueue, firstRecv,
                     armed, receiving, sending, closer, mainAt, adding, known, unreported>>
  BY DEF KickOutIdleSession, KickOutSession, MainUnchanged, toMain, mainState
<1>2. ~Fresh(t)
  BY DEF KickOutIdleSession, KickOutSession, Fresh, FreshIsUntouched
<1>3. /\ requests' \in [Requester -> Seq(Session)]
      /\ closing' \in [Session -> BOOLEAN]
      /\ unrequested' \subseteq Session /\ unrequested \subseteq unrequested'
      /\ \A s \in Session :
           /\ AtCloser(s) => AtCloser(s)'
           /\ AtCloser(s)' => AtCloser(s) \/ (s = t /\ life[s] = "current")
           /\ closing'[s] =>
                \/ closing[s]
                \/ s = t /\ life[s] = "current" /\ (AtCloser(s)' \/ s \in unrequested')
  BY <1>1, KickOutAdds
<1>4. LogicTypeOK'
  BY <1>1, <1>3 DEF LogicTypeOK
<1>5. \A s \in Session : /\ AtWorker(s)' <=> AtWorker(s)
                         /\ Fresh(s)' <=> Fresh(s)
  BY <1>1 DEF AtWorker, Fresh
<1>6. AnnouncedOnce' /\ AddingIsKnown'
  BY <1>1 DEF AnnouncedOnce, AddingIsKnown
<1>7. FreshIsUntouched' /\ UnusedIsNowhere'
  BY <1>1, <1>2, <1>3, <1>5 DEF FreshIsUntouched, UnusedIsNowhere
<1>8. WorkedOnIsKnown' /\ ReportedIsRetired' /\ RemovalReported'
  BY <1>1, <1>5 DEF WorkedOnIsKnown, ReportedIsRetired, RemovalReported
<1>9. ClosingIsRequested'
  BY <1>1, <1>3 DEF ClosingIsRequested, AtCloser
<1> QED BY <1>4, <1>6, <1>7, <1>8, <1>9

LEMMA LogicStepInv == LogicInv /\ [LogicNext]_logicVars => LogicInv'
<1> SUFFICES ASSUME LogicInv, [LogicNext]_logicVars PROVE LogicInv'
  OBVIOUS
<1>1. ASSUME NEW t \in Session, AllocSession(t) PROVE LogicInv'
  BY <1>1, AllocSessionInv
<1>2. ASSUME NEW t \in Session, KickOutIdleSession(t) \/ KickOutSession(t)
      PROVE  LogicInv'
  BY <1>2, KickOutInv
<1>3. CASE FirstRecv \/ RecvPacket \/ ArmDescriptor \/ \E t \in Session : FindWork(t)
  BY <1>3, ReceiverStepInv
<1>4. CASE Announce BY <1>4, AnnounceInv
<1>5. CASE GiveUp BY <1>5, GiveUpInv
<1>6. CASE RecvFails BY <1>6, RecvFailsInv
<1>7. ASSUME NEW r \in Requester, ProcessDisconnect(r) PROVE LogicInv'
  BY <1>7, ProcessDisconnectInv
<1>8. CASE ReportDisconnect BY <1>8, ReportDisconnectInv
<1>9. CASE OnAddSession BY <1>9, OnAddSessionInv
<1>10. CASE AddFirstRecvOfSession BY <1>10, AddFirstRecvOfSessionInv
<1>11. CASE OnRecvedPacket \/ NextQueue BY <1>11, MainGoesOnInv
<1>12. CASE OnRemoveSession BY <1>12, OnRemoveSessionInv
<1>13. CASE SendSucceeds \/ \E t \in Session : FindSendWork(t)
  BY <1>13, SenderStepInv
<1>14. CASE SendFails BY <1>14, SendFailsInv
<1>15. CASE UNCHANGED logicVars
  <2>1. UNCHANGED <<life, closing, acceptor, acceptQueue, packetQueue, closedQueue,
                    firstRecv, armed, receiving, sending, requests, closer, mainAt, adding, known,
                    unreported, unrequested>>
    BY <1>15 DEF logicVars, sessions, toMain, workers, receiver, mainState, histories
  <2> QED BY <2>1 DEF LogicInv, LogicTypeOK, AnnouncedOnce, AddingIsKnown,
          FreshIsUntouched, Fresh, UnusedIsNowhere, AtCloser, WorkedOnIsKnown, AtWorker,
          ReportedIsRetired, RemovalReported, ClosingIsRequested
<1> QED BY <1>1, <1>2, <1>3, <1>4, <1>5, <1>6, <1>7, <1>8, <1>9, <1>10, <1>11, <1>12,
           <1>13, <1>14, <1>15 DEF LogicNext

-----------------------------------------------------------------------------

\* LNetWorkServices::ProcessRecvedPacket and the threads around it: the
\* inductive invariant of what the application sees.
THEOREM LogicInvariant == LogicSpec => []LogicInv
BY LogicInitInv, LogicStepInv, PTL DEF LogicSpec

\* LAcceptThread.cpp:303, for any number of sessions and any rings: no packet of
\* a session reaches the main thread before OnAddSession.
THEOREM NoPacketBeforeAdd == LogicSpec => []AddBeforeRecv
<1>1. LogicInv => AddBeforeRecv
  BY DEF LogicInv, WorkedOnIsKnown, AtWorker, AddBeforeRecv
<1> QED BY <1>1, LogicInvariant, PTL

\* LCloseSocketThread.cpp:480, for any number of sessions and any rings: a
\* session that is gone and reported is forgotten, unless a full ring lost it.
THEOREM GoneIsForgotten == LogicSpec => []RemovalReported
<1>1. LogicInv => RemovalReported
  BY DEF LogicInv
<1> QED BY <1>1, LogicInvariant, PTL

\* LRecvThread.cpp:193, for any number of sessions and any rings: a session
\* marked as closing is with the close thread, unless the main thread marked it
\* when its own ring was full.
THEOREM MarkedIsRequested == LogicSpec => []ClosingIsRequested
<1>1. LogicInv => ClosingIsRequested
  BY DEF LogicInv
<1> QED BY <1>1, LogicInvariant, PTL

HIDE MainLogicAssumption

-----------------------------------------------------------------------------
(* ServiceThreads.  For every set of threads and every order of starting    *)
(* and stopping them.  Stop is a sweep over the groups: behind it nothing   *)
(* runs any more, before it nothing was told to stop.                       *)

\* No thread was told to stop before Stop began.
NotStoppedYet ==
  phase \in {"down", "starting", "up"} => group = 1 /\ \A t \in Threads : stops[t] = 0

\* Behind the sweep no thread runs.
BehindIsDone == \A t \in Threads : StopRank[t] < group => thr[t] # "running"

\* Before the sweep no thread was told to stop.
AheadIsUntold == \A t \in Threads : stops[t] > 0 => StopRank[t] <= group

\* Stop joins a group that exists, and the resources go after the last one.
SweepEnds ==
  /\ phase = "join" => group <= Groups
  /\ phase = "gone" => group > Groups

ThreadsInv ==
  ThreadsTypeOK /\ NotStoppedYet /\ BehindIsDone /\ AheadIsUntold /\ SweepEnds

USE ThreadsAssumption

LEMMA ThreadsInitInv == ThreadsInit => ThreadsInv
<1> SUFFICES ASSUME ThreadsInit PROVE ThreadsInv
  OBVIOUS
<1>1. ThreadsTypeOK
  <2>1. asleep \in BOOLEAN BY DEF ThreadsInit
  <2>2. group \in 1 .. Groups + 1 /\ clients \in 0 .. MaxClients
    BY DEF ThreadsInit
  <2> QED BY <2>1, <2>2 DEF ThreadsInit, ThreadsTypeOK
<1>2. BehindIsDone
  BY DEF ThreadsInit, BehindIsDone
<1>3. NotStoppedYet /\ AheadIsUntold /\ SweepEnds
  BY DEF ThreadsInit, NotStoppedYet, AheadIsUntold, SweepEnds
<1> QED BY <1>1, <1>2, <1>3 DEF ThreadsInv

\* Starting a thread: Stop has not begun, so nothing is behind the sweep.
LEMMA StartThreadInv ==
  ASSUME ThreadsInv, NEW t \in Threads, StartThread(t)
  PROVE  ThreadsInv'
<1>1. group = 1 /\ phase = "starting"
  BY DEF ThreadsInv, NotStoppedYet, StartThread, NextToStart
<1>2. \A u \in Threads : ~(StopRank[u] < group)
  BY <1>1
<1>3. ThreadsTypeOK'
  BY DEF ThreadsInv, ThreadsTypeOK, StartThread
<1>4. NotStoppedYet' /\ AheadIsUntold' /\ SweepEnds'
  BY <1>1 DEF ThreadsInv, NotStoppedYet, AheadIsUntold, SweepEnds, StartThread
<1>5. BehindIsDone'
  BY <1>2 DEF BehindIsDone, StartThread
<1> QED BY <1>3, <1>4, <1>5 DEF ThreadsInv

\* A loop that ends changes nothing but its thread.
LEMMA ThreadEndsInv ==
  ASSUME ThreadsInv, NEW t \in Threads, Leave(t) \/ Quit(t)
  PROVE  ThreadsInv'
<1>1. /\ thr' = [thr EXCEPT ![t] = "done"] /\ asleep' \in BOOLEAN
      /\ UNCHANGED <<phase, group, handle, stops, clients>>
  BY DEF Leave, Quit, ThreadsInv, ThreadsTypeOK
<1>2. ThreadsTypeOK'
  BY <1>1 DEF ThreadsInv, ThreadsTypeOK
<1>3. BehindIsDone'
  BY <1>1 DEF ThreadsInv, ThreadsTypeOK, BehindIsDone
<1>4. NotStoppedYet' /\ AheadIsUntold' /\ SweepEnds'
  BY <1>1 DEF ThreadsInv, NotStoppedYet, AheadIsUntold, SweepEnds
<1> QED BY <1>2, <1>3, <1>4 DEF ThreadsInv

\* The acceptor's waiting, and clients, touch neither threads nor sweep.
LEMMA WaitingInv ==
  ASSUME ThreadsInv, Sleep \/ Accept \/ ClientConnects
  PROVE  ThreadsInv'
<1>1. UNCHANGED <<phase, group, handle, thr, stops>>
  BY DEF Sleep, Accept, ClientConnects
<1>2. asleep' \in BOOLEAN
  <2>1. asleep \in BOOLEAN BY DEF ThreadsInv, ThreadsTypeOK
  <2> QED BY <2>1 DEF Sleep, Accept, ClientConnects
<1>3. clients' \in 0 .. MaxClients
  <2>1. clients \in 0 .. MaxClients BY DEF ThreadsInv, ThreadsTypeOK
  <2> QED BY <2>1 DEF Sleep, Accept, ClientConnects
<1>4. ThreadsTypeOK'
  BY <1>1, <1>2, <1>3 DEF ThreadsInv, ThreadsTypeOK
<1> QED BY <1>1, <1>4 DEF ThreadsInv, NotStoppedYet, BehindIsDone,
                          AheadIsUntold, SweepEnds

\* The phases before the sweep, and the end of it.
LEMMA PhaseInv ==
  ASSUME ThreadsInv, NetWorkStart \/ Started \/ NetWorkDown \/ ReleaseResource
  PROVE  ThreadsInv'
<1>1. UNCHANGED <<group, handle, thr, stops, asleep, clients>>
  BY DEF NetWorkStart, Started, NetWorkDown, ReleaseResource
<1>2. ThreadsTypeOK' /\ BehindIsDone' /\ AheadIsUntold'
  BY <1>1 DEF ThreadsInv, ThreadsTypeOK, BehindIsDone, AheadIsUntold,
              NetWorkStart, Started, NetWorkDown, ReleaseResource
<1>3. NotStoppedYet' /\ SweepEnds'
  BY <1>1 DEF ThreadsInv, NotStoppedYet, SweepEnds,
              NetWorkStart, Started, NetWorkDown, ReleaseResource
<1> QED BY <1>2, <1>3 DEF ThreadsInv

\* Only threads of the sweep's own group are told.
LEMMA SignalGroupInv ==
  ASSUME ThreadsInv, SignalGroup
  PROVE  ThreadsInv'
<1>1. ThreadsTypeOK'
  BY DEF ThreadsInv, ThreadsTypeOK, SignalGroup
<1>2. AheadIsUntold'
  <2> SUFFICES ASSUME NEW t \in Threads, stops'[t] > 0
               PROVE  StopRank[t] <= group
    BY DEF AheadIsUntold, SignalGroup
  <2>1. CASE t \in Group
    BY <2>1 DEF Group
  <2>2. CASE t \notin Group
    BY <2>2 DEF ThreadsInv, AheadIsUntold, SignalGroup
  <2> QED BY <2>1, <2>2
<1>3. NotStoppedYet' /\ BehindIsDone' /\ SweepEnds'
  BY DEF ThreadsInv, NotStoppedYet, BehindIsDone, SweepEnds, SignalGroup
<1> QED BY <1>1, <1>2, <1>3 DEF ThreadsInv

\* The sweep moves past a group of which no thread runs.
LEMMA JoinGroupInv ==
  ASSUME ThreadsInv, JoinGroup
  PROVE  ThreadsInv'
<1>1. group \in 1 .. Groups /\ group' = group + 1 /\ phase' \in {"signal", "crashed"}
  BY DEF ThreadsInv, ThreadsTypeOK, SweepEnds, JoinGroup
<1>2. ThreadsTypeOK'
  BY <1>1 DEF ThreadsInv, ThreadsTypeOK, JoinGroup
<1>3. BehindIsDone'
  <2> SUFFICES ASSUME NEW t \in Threads, StopRank[t] < group + 1
               PROVE  thr[t] # "running"
    BY <1>1 DEF BehindIsDone, JoinGroup
  <2>1. CASE StopRank[t] < group
    BY <2>1 DEF ThreadsInv, BehindIsDone
  <2>2. CASE StopRank[t] = group
    BY <2>2 DEF JoinGroup, Group
  <2> QED BY <1>1, <2>1, <2>2
<1>4. AheadIsUntold'
  BY <1>1 DEF ThreadsInv, AheadIsUntold, JoinGroup
<1>5. NotStoppedYet' /\ SweepEnds'
  BY <1>1 DEF NotStoppedYet, SweepEnds
<1> QED BY <1>2, <1>3, <1>4, <1>5 DEF ThreadsInv

LEMMA ThreadsNextInv == ThreadsInv /\ [ThreadsNext]_threadVars => ThreadsInv'
<1> SUFFICES ASSUME ThreadsInv, [ThreadsNext]_threadVars PROVE ThreadsInv'
  OBVIOUS
<1>1. CASE NetWorkStart \/ Started \/ NetWorkDown \/ ReleaseResource
  BY <1>1, PhaseInv
<1>2. CASE \E t \in Threads : StartThread(t)
  BY <1>2, StartThreadInv
<1>3. CASE \E t \in Threads : Leave(t) \/ Quit(t)
  BY <1>3, ThreadEndsInv
<1>4. CASE Sleep \/ Accept \/ ClientConnects
  BY <1>4, WaitingInv
<1>5. CASE SignalGroup
  BY <1>5, SignalGroupInv
<1>6. CASE JoinGroup
  BY <1>6, JoinGroupInv
<1>7. CASE UNCHANGED threadVars
  BY <1>7 DEF threadVars, ThreadsInv, ThreadsTypeOK, NotStoppedYet, BehindIsDone,
              AheadIsUntold, SweepEnds
<1> QED BY <1>1, <1>2, <1>3, <1>4, <1>5, <1>6, <1>7 DEF ThreadsNext, LoopStep, StopStep

\* LNetWorkServices.cpp:528-573: Start and Stop keep the inductive invariant,
\* and with it every variable its type.
THEOREM ThreadsInvariant == ThreadsSpec => []ThreadsInv
<1>1. ThreadsInit => ThreadsInv BY ThreadsInitInv
<1>2. ThreadsInv /\ [ThreadsNext]_threadVars => ThreadsInv' BY ThreadsNextInv
<1> QED BY <1>1, <1>2, PTL DEF ThreadsSpec

\* LNetWorkServices.cpp:565: whatever threads there are, whichever of them ended
\* by themselves or were never created, a thread that is stopped later runs on
\* until those stopped before it are gone, and none runs at the release.
THEOREM StopsInOrder == ThreadsSpec => []StoppedInOrder
<1>1. ThreadsInv => StoppedInOrder
  <2> SUFFICES ASSUME ThreadsInv PROVE StoppedInOrder
    OBVIOUS
  <2>1. ASSUME NEW t \in Threads, NEW u \in Threads,
               StopRank[t] < StopRank[u], stops[u] > 0
        PROVE  thr[t] # "running"
    <3>1. StopRank[u] <= group
      BY <2>1 DEF ThreadsInv, AheadIsUntold
    <3>2. StopRank[t] < group
      BY <2>1, <3>1 DEF ThreadsInv, ThreadsTypeOK
    <3> QED BY <3>2 DEF ThreadsInv, BehindIsDone
  <2>2. ASSUME phase = "gone", NEW t \in Threads
        PROVE  thr[t] # "running"
    <3>1. StopRank[t] < group
      BY <2>2 DEF ThreadsInv, ThreadsTypeOK, SweepEnds
    <3> QED BY <3>1 DEF ThreadsInv, BehindIsDone
  <2> QED BY <2>1, <2>2 DEF StoppedInOrder
<1> QED BY <1>1, ThreadsInvariant, PTL

HIDE ThreadsAssumption

-----------------------------------------------------------------------------
(* RecvStream.  For every limit, buffer, ring and stream of packets, cut    *)
(* anywhere: a session that waits for bytes has everything that was         *)
(* received behind it, and a session is given up only for cause.            *)
(*                                                                          *)
(* The invariant has to say that the buffer and the bytes under way are     *)
(* exactly the packets not taken yet, without a sum over a sequence: there  *)
(* is a function from positions to the end of each packet.                  *)

Packet == [no : Nat, len : StreamLengths]

StreamTypeOK ==
  /\ recvState \in {"wait", "take", "closing"}
  /\ peerSent \in Nat /\ peerGone \in BOOLEAN
  /\ unparsed \in Seq(Packet)
  /\ unread \in Nat /\ contentLen \in Nat
  /\ recvQueue \in Seq(Nat) /\ handled \in Nat

\* Packets are counted through: handled, in the ring, not taken.
Consecutive ==
  /\ \A i \in 1 .. Len(recvQueue) : recvQueue[i] = handled + i
  /\ \A i \in 1 .. Len(unparsed) : unparsed[i].no = handled + Len(recvQueue) + i
  /\ handled + Len(recvQueue) + Len(unparsed) = peerSent

\* ends gives the last byte of each packet of a sequence.
EndsOf(waiting, ends) ==
  /\ ends \in [0 .. Len(waiting) -> Int]
  /\ ends[0] = 0
  /\ \A i \in 1 .. Len(waiting) : ends[i] = ends[i - 1] + BytesOf(waiting[i].len)

\* n bytes are those of the packets, no more and no fewer.
AreBytesOf(waiting, n) == \E ends : EndsOf(waiting, ends) /\ ends[Len(waiting)] = n

AllAccounted == AreBytesOf(unparsed, contentLen + unread)

\* RecvData's loop looks at a packet, and its length is legal.
LoopHasPacket ==
  recvState = "take" => unparsed # <<>> /\ LegalPacketLen(Head(unparsed).len)

\* Outside the loop no complete packet is in the buffer.
WaitsForMore ==
  recvState = "wait" =>
    /\ contentLen < StreamMaxLen
    /\ unparsed # <<>> => contentLen < BytesOf(Head(unparsed).len)

StreamInv ==
  StreamTypeOK /\ Consecutive /\ AllAccounted /\ LoopHasPacket /\ WaitsForMore

USE StreamAssumption

-----------------------------------------------------------------------------
(* Sequences of packets and their bytes.                                    *)

LEMMA BytesAreTwoOrMore ==
  ASSUME NEW len \in StreamLengths
  PROVE  BytesOf(len) \in Nat /\ BytesOf(len) >= 2
BY DEF BytesOf, LegalPacketLen

LEMMA PacketFields ==
  ASSUME NEW p \in Packet
  PROVE  /\ p.no \in Nat /\ p.len \in Nat /\ p.len \in StreamLengths
         /\ BytesOf(p.len) \in Nat /\ BytesOf(p.len) >= 2
<1>1. p.no \in Nat /\ p.len \in StreamLengths
  BY DEF Packet
<1> QED BY <1>1, BytesAreTwoOrMore

\* Where there are bytes there is a packet.
LEMMA BytesNeedPacket ==
  ASSUME NEW waiting \in Seq(Packet), NEW n \in Int, AreBytesOf(waiting, n), n > 0
  PROVE  waiting # <<>>
<1>1. PICK ends : EndsOf(waiting, ends) /\ ends[Len(waiting)] = n
  BY DEF AreBytesOf
<1>2. SUFFICES ASSUME waiting = <<>> PROVE FALSE
  OBVIOUS
<1>3. Len(waiting) = 0
  BY <1>2
<1> QED BY <1>1, <1>3 DEF EndsOf

\* No packet, no bytes.
LEMMA NoPacketNoBytes ==
  ASSUME NEW waiting \in Seq(Packet), NEW n \in Int, AreBytesOf(waiting, n),
         waiting = <<>>
  PROVE  n = 0
<1>1. PICK ends : EndsOf(waiting, ends) /\ ends[Len(waiting)] = n
  BY DEF AreBytesOf
<1>2. Len(waiting) = 0
  OBVIOUS
<1> QED BY <1>1, <1>2 DEF EndsOf

LEMMA AppendBytes ==
  ASSUME NEW waiting \in Seq(Packet), NEW n \in Int, AreBytesOf(waiting, n),
         NEW p \in Packet
  PROVE  AreBytesOf(Append(waiting, p), n + BytesOf(p.len))
<1> DEFINE more == Append(waiting, p)
           size == BytesOf(p.len)
<1>1. PICK ends : EndsOf(waiting, ends) /\ ends[Len(waiting)] = n
  BY DEF AreBytesOf
<1> DEFINE longer == [i \in 0 .. Len(more) |-> IF i <= Len(waiting) THEN ends[i] ELSE n + size]
<1>2. /\ Len(more) = Len(waiting) + 1 /\ Len(waiting) \in Nat
      /\ more[Len(waiting) + 1] = p
      /\ \A i \in 1 .. Len(waiting) : more[i] = waiting[i]
  OBVIOUS
<1>3. size \in Nat
  BY PacketFields
<1>4. longer \in [0 .. Len(more) -> Int]
  BY <1>1, <1>2, <1>3 DEF EndsOf
<1>5. longer[0] = 0 /\ longer[Len(more)] = n + size
  BY <1>1, <1>2 DEF EndsOf
<1>6. ASSUME NEW i \in 1 .. Len(more)
      PROVE  longer[i] = longer[i - 1] + BytesOf(more[i].len)
  <2>1. CASE i <= Len(waiting)
    <3>1. i \in 1 .. Len(waiting) /\ i - 1 \in 0 .. Len(waiting)
      BY <2>1, <1>2
    <3>2. longer[i] = ends[i] /\ longer[i - 1] = ends[i - 1] /\ more[i] = waiting[i]
      BY <3>1, <1>2
    <3> QED BY <3>1, <3>2, <1>1 DEF EndsOf
  <2>2. CASE i = Len(more)
    <3>1. longer[i] = n + size /\ longer[i - 1] = n /\ more[i] = p
      BY <2>2, <1>1, <1>2
    <3> QED BY <3>1
  <2> QED BY <2>1, <2>2, <1>2
<1>7. EndsOf(more, longer)
  BY <1>4, <1>5, <1>6 DEF EndsOf
<1> QED BY <1>5, <1>7 DEF AreBytesOf

\* Taking the first packet takes its bytes.
LEMMA TailBytes ==
  ASSUME NEW waiting \in Seq(Packet), NEW n \in Int, AreBytesOf(waiting, n),
         waiting # <<>>
  PROVE  AreBytesOf(Tail(waiting), n - BytesOf(Head(waiting).len))
<1> DEFINE rest == Tail(waiting)
           size == BytesOf(Head(waiting).len)
<1>1. PICK ends : EndsOf(waiting, ends) /\ ends[Len(waiting)] = n
  BY DEF AreBytesOf
<1>2. /\ Len(waiting) \in Nat \ {0} /\ Len(rest) = Len(waiting) - 1
      /\ Head(waiting) = waiting[1] /\ waiting[1] \in Packet
      /\ \A i \in 1 .. Len(rest) : rest[i] = waiting[i + 1]
  OBVIOUS
<1>3. size \in Int
  BY <1>2, PacketFields
<1>4. ends[1] = size
  BY <1>1, <1>2, <1>3 DEF EndsOf
<1> DEFINE shifted == [i \in 0 .. Len(rest) |-> ends[i + 1] - size]
<1>5. shifted \in [0 .. Len(rest) -> Int]
  BY <1>1, <1>2, <1>3 DEF EndsOf
<1>6. shifted[0] = 0 /\ shifted[Len(rest)] = n - size
  BY <1>1, <1>2, <1>3, <1>4
<1>7. ASSUME NEW i \in 1 .. Len(rest)
      PROVE  shifted[i] = shifted[i - 1] + BytesOf(rest[i].len)
  <2>1. i + 1 \in 1 .. Len(waiting) /\ i - 1 \in 0 .. Len(rest) /\ i \in 0 .. Len(rest)
    BY <1>2
  <2>2. ends[i + 1] = ends[i] + BytesOf(waiting[i + 1].len)
    BY <2>1, <1>1 DEF EndsOf
  <2>3. waiting[i + 1] \in Packet
    BY <2>1
  <2>4. BytesOf(waiting[i + 1].len) \in Nat
    BY <2>3, PacketFields
  <2>5. ends[i] \in Int
    BY <2>1, <1>1, <1>2 DEF EndsOf
  <2>6. shifted[i] = ends[i + 1] - size /\ shifted[i - 1] = ends[i] - size
        /\ rest[i] = waiting[i + 1]
    BY <2>1, <1>2
  <2> HIDE DEF shifted, rest, size
  <2> QED BY <2>2, <2>4, <2>5, <2>6, <1>3
<1>8. EndsOf(rest, shifted)
  BY <1>5, <1>6, <1>7 DEF EndsOf
<1> QED BY <1>6, <1>8 DEF AreBytesOf

-----------------------------------------------------------------------------
(* The invariant, action by action.                                         *)

LEMMA StreamInitInv == StreamInit => StreamInv
<1> SUFFICES ASSUME StreamInit PROVE StreamInv
  OBVIOUS
<1>1. StreamTypeOK
  <2>1. unparsed \in Seq(Packet) /\ recvQueue \in Seq(Nat)
    BY DEF StreamInit
  <2> QED BY <2>1 DEF StreamInit, StreamTypeOK
<1>2. Consecutive /\ LoopHasPacket /\ WaitsForMore
  BY DEF StreamInit, Consecutive, LoopHasPacket, WaitsForMore
<1>3. EndsOf(unparsed, [i \in 0 .. 0 |-> 0])
  BY DEF StreamInit, EndsOf
<1>4. AllAccounted
  BY <1>3 DEF StreamInit, AllAccounted, AreBytesOf
<1> QED BY <1>1, <1>2, <1>4 DEF StreamInv

\* A new packet goes to the end.  If nothing was there before, nothing is in
\* the buffer either.
LEMMA PeerSendsInv == ASSUME StreamInv, PeerSends PROVE StreamInv'
<1> USE DEF StreamInv
<1>1. PICK len \in StreamLengths :
        /\ unparsed' = Append(unparsed, [no |-> peerSent + 1, len |-> len])
        /\ unread' = unread + BytesOf(len)
  BY DEF PeerSends
<1> DEFINE p == [no |-> peerSent + 1, len |-> len]
<1>2. p \in Packet /\ BytesOf(len) \in Nat /\ BytesOf(len) >= 2
  BY BytesAreTwoOrMore DEF Packet, StreamTypeOK
<1>3. /\ peerSent' = peerSent + 1
      /\ UNCHANGED <<recvState, peerGone, contentLen, recvQueue, handled>>
  BY DEF PeerSends
<1>4. StreamTypeOK'
  BY <1>1, <1>2, <1>3 DEF StreamTypeOK
<1>5. Consecutive'
  BY <1>1, <1>2, <1>3 DEF StreamTypeOK, Consecutive
<1>6. AllAccounted'
  <2>1. AreBytesOf(Append(unparsed, p), contentLen + unread + BytesOf(p.len))
    BY <1>2, AppendBytes DEF StreamTypeOK, AllAccounted
  <2>2. contentLen' + unread' = contentLen + unread + BytesOf(p.len)
    BY <1>1, <1>2, <1>3 DEF StreamTypeOK
  <2> QED BY <2>1, <2>2, <1>1 DEF AllAccounted
<1>7. Head(unparsed') = IF unparsed = <<>> THEN p ELSE Head(unparsed)
  BY <1>1, <1>2 DEF StreamTypeOK
<1>8. unparsed' # <<>>
  BY <1>1, <1>2 DEF StreamTypeOK
<1>9. LoopHasPacket'
  BY <1>3, <1>7, <1>8 DEF LoopHasPacket
<1>10. WaitsForMore'
  <2>1. CASE unparsed = <<>>
    <3>1. contentLen + unread \in Int /\ unparsed \in Seq(Packet)
      BY DEF StreamTypeOK
    <3>2. contentLen + unread = 0
      BY <2>1, <3>1, NoPacketNoBytes DEF AllAccounted
    <3>3. contentLen = 0
      BY <3>2 DEF StreamTypeOK
    <3> QED BY <2>1, <3>3, <1>2, <1>3, <1>7 DEF WaitsForMore
  <2>2. CASE unparsed # <<>>
    BY <2>2, <1>3, <1>7 DEF WaitsForMore
  <2> QED BY <2>1, <2>2
<1> QED BY <1>4, <1>5, <1>6, <1>9, <1>10

\* What LookAtHeader leaves, for any packets whose bytes are there.
LEMMA LookAtHeaderHolds ==
  ASSUME NEW n \in Nat, NEW waiting \in Seq(Packet), NEW more \in Nat,
         AreBytesOf(waiting, n + more), LookAtHeader(n, waiting)
  PROVE  /\ recvState' \in {"wait", "take", "closing"}
         /\ recvState' = "take" => waiting # <<>> /\ LegalPacketLen(Head(waiting).len)
         /\ recvState' = "wait" =>
              /\ n < StreamMaxLen
              /\ waiting # <<>> => n < BytesOf(Head(waiting).len)
<1>1. CASE n < 2
  <2>1. recvState' = "wait"
    BY <1>1 DEF LookAtHeader, ArmAgain
  <2>2. waiting # <<>> => Head(waiting) \in Packet
    OBVIOUS
  <2>3. waiting # <<>> => n < BytesOf(Head(waiting).len)
    BY <1>1, <2>2, PacketFields
  <2> QED BY <1>1, <2>1, <2>3
<1>2. CASE n >= 2
  <2>1. waiting # <<>>
    BY <1>2, BytesNeedPacket
  <2>2. \/ recvState' = "take" /\ LegalPacketLen(Head(waiting).len)
        \/ recvState' = "closing"
    BY <1>2 DEF LookAtHeader, CloseSession
  <2> QED BY <2>1, <2>2
<1> QED BY <1>1, <1>2

LEMMA RecvBytesInv == ASSUME StreamInv, RecvBytes PROVE StreamInv'
<1> USE DEF StreamInv
<1>1. PICK n \in 1 .. unread :
        /\ contentLen' = contentLen + n /\ unread' = unread - n
        /\ LookAtHeader(contentLen + n, unparsed)
  BY DEF RecvBytes
<1>2. UNCHANGED <<peerSent, peerGone, unparsed, recvQueue, handled>>
  BY DEF RecvBytes
<1>3. /\ contentLen' \in Nat /\ unread' \in Nat
      /\ contentLen' + unread' = contentLen + unread
  BY <1>1 DEF StreamTypeOK
<1>4. AllAccounted'
  BY <1>2, <1>3 DEF AllAccounted
<1>5. /\ recvState' \in {"wait", "take", "closing"}
      /\ recvState' = "take" => unparsed # <<>> /\ LegalPacketLen(Head(unparsed).len)
      /\ recvState' = "wait" =>
           /\ contentLen' < StreamMaxLen
           /\ unparsed # <<>> => contentLen' < BytesOf(Head(unparsed).len)
  <2>1. AreBytesOf(unparsed, contentLen' + unread')
    BY <1>3 DEF AllAccounted
  <2>2. LookAtHeader(contentLen', unparsed) /\ unparsed \in Seq(Packet)
    BY <1>1 DEF StreamTypeOK
  <2> QED BY <2>1, <2>2, <1>3, LookAtHeaderHolds
<1>6. StreamTypeOK' /\ Consecutive'
  BY <1>2, <1>3, <1>5 DEF StreamTypeOK, Consecutive
<1>7. LoopHasPacket' /\ WaitsForMore'
  BY <1>2, <1>5 DEF LoopHasPacket, WaitsForMore
<1> QED BY <1>4, <1>6, <1>7

LEMMA TakeRecvedPacketInv == ASSUME StreamInv, TakeRecvedPacket PROVE StreamInv'
<1> USE DEF StreamInv
<1>1. /\ recvState = "take" /\ contentLen >= Head(unparsed).len
      /\ recvQueue' = Append(recvQueue, Head(unparsed).no)
      /\ contentLen' = contentLen - Head(unparsed).len
      /\ unparsed' = Tail(unparsed)
      /\ LookAtHeader(contentLen', unparsed')
      /\ UNCHANGED <<peerSent, peerGone, unread, handled>>
  BY DEF TakeRecvedPacket
<1>2. /\ unparsed # <<>> /\ LegalPacketLen(Head(unparsed).len)
      /\ Head(unparsed) \in Packet
  BY <1>1 DEF LoopHasPacket, StreamTypeOK
<1>3. /\ Head(unparsed).len \in Nat /\ Head(unparsed).no \in Nat
      /\ BytesOf(Head(unparsed).len) = Head(unparsed).len
  BY <1>2 DEF Packet, BytesOf
<1>4. /\ unparsed' \in Seq(Packet) /\ contentLen' \in Nat
      /\ recvQueue' \in Seq(Nat)
  BY <1>1, <1>2, <1>3 DEF StreamTypeOK
<1>5. AreBytesOf(unparsed', contentLen' + unread')
  <2>1. AreBytesOf(Tail(unparsed), contentLen + unread - Head(unparsed).len)
    BY <1>2, <1>3, TailBytes DEF StreamTypeOK, AllAccounted
  <2>2. contentLen' + unread' = contentLen + unread - Head(unparsed).len
    BY <1>1, <1>3 DEF StreamTypeOK
  <2> QED BY <1>1, <2>1, <2>2
<1>6. /\ recvState' \in {"wait", "take", "closing"}
      /\ recvState' = "take" => unparsed' # <<>> /\ LegalPacketLen(Head(unparsed').len)
      /\ recvState' = "wait" =>
           /\ contentLen' < StreamMaxLen
           /\ unparsed' # <<>> => contentLen' < BytesOf(Head(unparsed').len)
  <2>1. unread' \in Nat
    BY <1>1 DEF StreamTypeOK
  <2> QED BY <1>1, <1>4, <1>5, <2>1, LookAtHeaderHolds
<1>7. StreamTypeOK'
  BY <1>1, <1>4, <1>6 DEF StreamTypeOK
<1>8. Consecutive'
  <2>1. /\ Len(unparsed') = Len(unparsed) - 1 /\ Len(recvQueue') = Len(recvQueue) + 1
        /\ Head(unparsed) = unparsed[1]
        /\ \A i \in 1 .. Len(unparsed') : unparsed'[i] = unparsed[i + 1]
        /\ \A i \in 1 .. Len(recvQueue) : recvQueue'[i] = recvQueue[i]
        /\ recvQueue'[Len(recvQueue) + 1] = Head(unparsed).no
        /\ Len(unparsed) \in Nat \ {0} /\ Len(recvQueue) \in Nat
    BY <1>1, <1>2 DEF StreamTypeOK
  <2>2. Head(unparsed).no = handled + Len(recvQueue) + 1
    BY <2>1 DEF Consecutive
  <2>3. ASSUME NEW i \in 1 .. Len(recvQueue') PROVE recvQueue'[i] = handled' + i
    <3>1. handled' = handled /\ handled \in Nat
      BY <1>1 DEF StreamTypeOK
    <3>2. CASE i = Len(recvQueue) + 1
      BY <3>1, <3>2, <2>1, <2>2
    <3>3. CASE i # Len(recvQueue) + 1
      <4>1. i \in 1 .. Len(recvQueue)
        BY <3>3, <2>1
      <4>2. recvQueue[i] = handled + i
        BY <4>1 DEF Consecutive
      <4> QED BY <4>1, <4>2, <3>1, <2>1
    <3> QED BY <3>2, <3>3
  <2>4. ASSUME NEW i \in 1 .. Len(unparsed')
        PROVE  unparsed'[i].no = handled' + Len(recvQueue') + i
    <3>1. unparsed[i + 1].no = handled + Len(recvQueue) + (i + 1)
      BY <2>1 DEF Consecutive
    <3> QED BY <1>1, <2>1, <3>1 DEF StreamTypeOK
  <2>5. handled' + Len(recvQueue') + Len(unparsed') = peerSent'
    <3>1. handled' = handled /\ peerSent' = peerSent /\ handled \in Nat /\ peerSent \in Nat
      BY <1>1 DEF StreamTypeOK
    <3>2. handled + Len(recvQueue) + Len(unparsed) = peerSent
      BY DEF Consecutive
    <3>3. /\ Len(unparsed') = Len(unparsed) - 1 /\ Len(recvQueue') = Len(recvQueue) + 1
          /\ Len(unparsed) \in Nat /\ Len(recvQueue) \in Nat
      BY <2>1
    <3> HIDE DEF StreamInv
    <3> QED BY <3>1, <3>2, <3>3
  <2> QED BY <2>3, <2>4, <2>5 DEF Consecutive
<1>9. AllAccounted' /\ LoopHasPacket' /\ WaitsForMore'
  BY <1>5, <1>6 DEF AllAccounted, LoopHasPacket, WaitsForMore
<1> QED BY <1>7, <1>8, <1>9

LEMMA NoWholePacketInv == ASSUME StreamInv, NoWholePacket PROVE StreamInv'
<1> USE DEF StreamInv
<1>1. /\ recvState = "take" /\ contentLen < Head(unparsed).len /\ recvState' = "wait"
      /\ UNCHANGED <<peerSent, peerGone, unparsed, unread, contentLen, recvQueue, handled>>
  BY DEF NoWholePacket, ArmAgain
<1>2. unparsed # <<>> /\ LegalPacketLen(Head(unparsed).len) /\ Head(unparsed) \in Packet
  BY <1>1 DEF LoopHasPacket, StreamTypeOK
<1>3. Head(unparsed).len \in Nat /\ contentLen \in Nat /\ StreamMaxLen \in Nat
  BY <1>2, PacketFields DEF StreamTypeOK
<1>4. /\ contentLen < BytesOf(Head(unparsed).len)
      /\ contentLen < StreamMaxLen
  BY <1>1, <1>2, <1>3 DEF BytesOf, LegalPacketLen
<1>5. StreamTypeOK' /\ Consecutive' /\ AllAccounted'
  BY <1>1 DEF StreamTypeOK, Consecutive, AllAccounted
<1>6. LoopHasPacket' /\ WaitsForMore'
  BY <1>1, <1>4 DEF LoopHasPacket, WaitsForMore
<1> QED BY <1>5, <1>6

\* The session is given up: the loop and the waiting are over.
LEMMA GivenUpInv ==
  ASSUME StreamInv, RecvNothing \/ RefusePacket
  PROVE  StreamInv'
<1> USE DEF StreamInv
<1>1. /\ recvState' = "closing"
      /\ UNCHANGED <<peerSent, peerGone, unparsed, unread, contentLen, recvQueue, handled>>
  BY DEF RecvNothing, RefusePacket, CloseSession
<1>2. StreamTypeOK' /\ Consecutive' /\ AllAccounted'
  BY <1>1 DEF StreamTypeOK, Consecutive, AllAccounted
<1>3. LoopHasPacket' /\ WaitsForMore'
  BY <1>1 DEF LoopHasPacket, WaitsForMore
<1> QED BY <1>2, <1>3

LEMMA PeerGoesInv == ASSUME StreamInv, PeerGoes PROVE StreamInv'
<1> USE DEF StreamInv
<1>1. /\ peerGone' = TRUE
      /\ UNCHANGED <<recvState, peerSent, unparsed, unread, contentLen, recvQueue, handled>>
  BY DEF PeerGoes
<1>2. StreamTypeOK' /\ Consecutive' /\ AllAccounted'
  BY <1>1 DEF StreamTypeOK, Consecutive, AllAccounted
<1>3. LoopHasPacket' /\ WaitsForMore'
  BY <1>1 DEF LoopHasPacket, WaitsForMore
<1> QED BY <1>2, <1>3

LEMMA MainTakesPacketInv == ASSUME StreamInv, MainTakesPacket PROVE StreamInv'
<1> USE DEF StreamInv
<1>1. /\ recvQueue # <<>>
      /\ handled' = Head(recvQueue) /\ recvQueue' = Tail(recvQueue)
      /\ UNCHANGED <<recvState, peerSent, peerGone, unparsed, unread, contentLen>>
  BY DEF MainTakesPacket
<1>2. /\ Len(recvQueue) \in Nat \ {0} /\ Len(recvQueue') = Len(recvQueue) - 1
      /\ Head(recvQueue) = recvQueue[1] /\ Head(recvQueue) \in Nat
      /\ recvQueue' \in Seq(Nat)
      /\ \A i \in 1 .. Len(recvQueue') : recvQueue'[i] = recvQueue[i + 1]
  BY <1>1 DEF StreamTypeOK
<1>3. handled' = handled + 1
  BY <1>1, <1>2 DEF Consecutive
<1>4. StreamTypeOK' /\ AllAccounted'
  BY <1>1, <1>2 DEF StreamTypeOK, AllAccounted
<1>5. Consecutive'
  <2>1. ASSUME NEW i \in 1 .. Len(recvQueue') PROVE recvQueue'[i] = handled' + i
    <3>1. recvQueue[i + 1] = handled + (i + 1)
      BY <1>2 DEF Consecutive
    <3> QED BY <1>2, <1>3, <3>1 DEF StreamTypeOK
  <2>2. ASSUME NEW i \in 1 .. Len(unparsed')
        PROVE  unparsed'[i].no = handled' + Len(recvQueue') + i
    BY <1>1, <1>2, <1>3 DEF Consecutive, StreamTypeOK
  <2>3. handled' + Len(recvQueue') + Len(unparsed') = peerSent'
    BY <1>1, <1>2, <1>3 DEF Consecutive, StreamTypeOK
  <2> QED BY <2>1, <2>2, <2>3 DEF Consecutive
<1>6. LoopHasPacket' /\ WaitsForMore'
  BY <1>1 DEF LoopHasPacket, WaitsForMore
<1> QED BY <1>4, <1>5, <1>6

LEMMA StreamStepInv == StreamInv /\ [StreamNext]_streamVars => StreamInv'
<1> SUFFICES ASSUME StreamInv, [StreamNext]_streamVars PROVE StreamInv'
  OBVIOUS
<1>1. CASE PeerSends BY <1>1, PeerSendsInv
<1>2. CASE PeerGoes BY <1>2, PeerGoesInv
<1>3. CASE MainTakesPacket BY <1>3, MainTakesPacketInv
<1>4. CASE RecvBytes BY <1>4, RecvBytesInv
<1>5. CASE RecvNothing \/ RefusePacket BY <1>5, GivenUpInv
<1>6. CASE TakeRecvedPacket BY <1>6, TakeRecvedPacketInv
<1>7. CASE NoWholePacket BY <1>7, NoWholePacketInv
<1>8. CASE UNCHANGED streamVars
  BY <1>8 DEF streamVars, StreamInv, StreamTypeOK, Consecutive, AllAccounted,
              LoopHasPacket, WaitsForMore
<1> QED BY <1>1, <1>2, <1>3, <1>4, <1>5, <1>6, <1>7, <1>8 DEF StreamNext

-----------------------------------------------------------------------------

\* LSession::RecvData: the inductive invariant of the reassembly.
THEOREM StreamInvariant == StreamSpec => []StreamInv
BY StreamInitInv, StreamStepInv, PTL DEF StreamSpec

\* LSession.cpp:276, for every limit, ring and stream: a session that waits has
\* no complete packet in its buffer, room for the next bytes, and every packet
\* that was taken is with the main thread, in order.
THEOREM NothingIsHeldBack == StreamSpec => []NothingHeldBack
<1>1. StreamInv => NothingHeldBack
  BY DEF StreamInv, WaitsForMore, Consecutive, NothingHeldBack
<1> QED BY <1>1, StreamInvariant, PTL

\* LSession.cpp:230, for every limit, ring and stream: a session is given up for
\* its peer or for the packet in front, never for where the stream was cut.
THEOREM GivenUpForCause == StreamSpec => ClosedForCause
<1> DEFINE Cause ==
      recvState # "closing" /\ recvState' = "closing" =>
        \/ peerGone /\ unread = 0
        \/ contentLen' >= 2 /\ ~LegalPacketLen(Head(unparsed').len)
        \/ contentLen >= Head(unparsed).len /\ Len(recvQueue) = StreamQueueCap
        \/ KeepAliveInFront
<1>1. ASSUME StreamInv, StreamNext PROVE Cause
  <2> SUFFICES ASSUME recvState # "closing", recvState' = "closing"
               PROVE  Cause
    OBVIOUS
  <2>1. CASE PeerSends \/ PeerGoes \/ MainTakesPacket \/ NoWholePacket
    BY <2>1 DEF PeerSends, PeerGoes, MainTakesPacket, NoWholePacket, ArmAgain
  <2>2. CASE RecvBytes
    <3>1. PICK n \in 1 .. unread :
            contentLen' = contentLen + n /\ LookAtHeader(contentLen + n, unparsed)
      BY <2>2 DEF RecvBytes
    <3>2. contentLen' \in Nat /\ unparsed' = unparsed
      BY <1>1, <2>2, <3>1 DEF RecvBytes, StreamInv, StreamTypeOK
    <3> QED BY <3>1, <3>2 DEF LookAtHeader, ArmAgain
  <2>3. CASE RecvNothing
    BY <1>1, <2>3 DEF RecvNothing, StreamInv, WaitsForMore, StreamTypeOK
  <2>4. CASE TakeRecvedPacket
    <3>1. LookAtHeader(contentLen', unparsed') /\ contentLen' \in Nat
      BY <1>1, <2>4, TakeRecvedPacketInv DEF TakeRecvedPacket, StreamInv, StreamTypeOK
    <3> QED BY <3>1 DEF LookAtHeader, ArmAgain
  <2>5. CASE RefusePacket
    BY <2>5 DEF RefusePacket, KeepAliveInFront
  <2> QED BY <1>1, <2>1, <2>2, <2>3, <2>4, <2>5 DEF StreamNext
<1>2. StreamInv /\ [StreamNext]_streamVars => [Cause]_streamVars
  BY <1>1
<1> QED BY <1>2, StreamInvariant, PTL DEF StreamSpec, ClosedForCause
=============================================================================
