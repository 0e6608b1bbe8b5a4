---------------------------- MODULE ServiceThreads ----------------------------
(***************************************************************************)
(* Starting and stopping the threads of LNetWorkServices.  Each is an      *)
(* LThreadBase: Start() calls pthread_create, Stop() adds one to m_nStop,  *)
(* and the thread's loop ends when it finds m_nStop equal to 1.  Start     *)
(* goes through the threads in one order and never waits; Stop goes        *)
(* through groups of them in another, signals a group and joins it.        *)
(* The accept thread sleeps in epoll_wait without a timeout, the others    *)
(* poll.  The application stops once: OnStop of its main loop.             *)
(***************************************************************************)
EXTENDS Integers, FiniteSets

CONSTANTS
  Threads,    \* accept, epoll, send, receive and close threads
  Acceptor,   \* the accept thread
  MayQuit,    \* threads whose loop also ends on an error of a system call
  StartRank,  \* order of Start: equal for the threads of one manager
  StopRank,   \* order of Stop, 1 .. Groups
  Groups,     \* number of groups Stop goes through
  MaxClients  \* bound: connections that arrive

ASSUME ThreadsAssumption ==
  /\ Acceptor \in Threads /\ MayQuit \subseteq Threads
  /\ Groups \in Nat /\ MaxClients \in Nat
  /\ StartRank \in [Threads -> Nat]
  /\ StopRank \in [Threads -> 1 .. Groups]

VARIABLES
  phase,    \* of the services: down, starting, up, signal, join, gone
  group,    \* the group Stop is at
  handle,   \* m_ThreadHandle: "none", "own", or "bad" after a failed create
  thr,      \* the thread: "none", "running", "done"
  stops,    \* m_nStop
  asleep,   \* the accept thread is in epoll_wait
  clients   \* connections that arrived and were not accepted yet
threadVars == <<phase, group, handle, thr, stops, asleep, clients>>

ThreadsInit ==
  /\ phase = "down" /\ group = 1
  /\ handle = [t \in Threads |-> "none"] /\ thr = [t \in Threads |-> "none"]
  /\ stops = [t \in Threads |-> 0]
  /\ asleep = FALSE /\ clients = 0

-----------------------------------------------------------------------------
(* LNetWorkServices::Start.                                                 *)

NetWorkStart ==
  /\ phase = "down"
  /\ phase' = "starting"
  /\ UNCHANGED <<group, handle, thr, stops, asleep, clients>>

\* The next thread: all of a lower rank were started.
NextToStart(t) ==
  /\ phase = "starting"
  /\ handle[t] = "none" /\ thr[t] = "none"
  /\ \A u \in Threads : StartRank[u] < StartRank[t] => handle[u] # "none"

\* LThreadBase::Start.  pthread_create reports a failure by a positive number
\* and the result is compared with -1, so a thread that was not created counts
\* as started; its handle is whatever the call left there.
StartThread(t) ==
  /\ NextToStart(t)
  /\ \/ handle' = [handle EXCEPT ![t] = "own"] /\ thr' = [thr EXCEPT ![t] = "running"]
     \/ handle' = [handle EXCEPT ![t] = "bad"] /\ UNCHANGED thr
  /\ UNCHANGED <<phase, group, stops, asleep, clients>>

Started ==
  /\ phase = "starting" /\ \A t \in Threads : handle[t] # "none"
  /\ phase' = "up"
  /\ UNCHANGED <<group, handle, thr, stops, asleep, clients>>

-----------------------------------------------------------------------------
(* The loops.                                                               *)

\* Mutant of CheckForStop: the flag is a counter of requests still to come.
CheckForStopTwice(t) == stops[t] = 2

CheckForStop(t) == stops[t] = 1

\* The loop looks at the flag between two rounds.
Leave(t) ==
  /\ thr[t] = "running" /\ CheckForStop(t)
  /\ t = Acceptor => ~asleep
  /\ thr' = [thr EXCEPT ![t] = "done"]
  /\ UNCHANGED <<phase, group, handle, stops, asleep, clients>>

\* epoll_wait, accept or epoll_ctl failed.
Quit(t) ==
  /\ t \in MayQuit /\ thr[t] = "running"
  /\ thr' = [thr EXCEPT ![t] = "done"]
  /\ asleep' = IF t = Acceptor THEN FALSE ELSE asleep
  /\ UNCHANGED <<phase, group, handle, stops, clients>>

Sleep ==
  /\ thr[Acceptor] = "running" /\ ~asleep /\ ~CheckForStop(Acceptor)
  /\ asleep' = TRUE
  /\ UNCHANGED <<phase, group, handle, thr, stops, clients>>

\* A connection ends the wait and is accepted, stopping or not.
Accept ==
  /\ thr[Acceptor] = "running" /\ asleep /\ clients > 0
  /\ clients' = clients - 1
  /\ asleep' = FALSE
  /\ UNCHANGED <<phase, group, handle, thr, stops>>

ClientConnects ==
  /\ clients < MaxClients
  /\ clients' = clients + 1
  /\ UNCHANGED <<phase, group, handle, thr, stops, asleep>>

-----------------------------------------------------------------------------
(* LNetWorkServices::Stop and the release of the resources.                 *)

Group == {t \in Threads : StopRank[t] = group}

NetWorkDown ==
  /\ phase = "up"
  /\ phase' = "signal"
  /\ UNCHANGED <<group, handle, thr, stops, asleep, clients>>

\* Stop() of every thread of the group.
SignalGroup ==
  /\ phase = "signal" /\ group <= Groups
  /\ stops' = [t \in Threads |-> IF t \in Group THEN stops[t] + 1 ELSE stops[t]]
  /\ phase' = "join"
  /\ UNCHANGED <<group, handle, thr, asleep, clients>>

\* Mutant of JoinGroup: one pthread_join for the whole group.
JoinOneOfGroup ==
  /\ phase = "join"
  /\ Group = {} \/ \E t \in Group : thr[t] # "running"
  /\ group' = group + 1
  /\ phase' = "signal"
  /\ UNCHANGED <<handle, thr, stops, asleep, clients>>

\* pthread_join of each; of a bad handle it fails, or there is no telling.
JoinGroup ==
  /\ phase = "join"
  /\ \A t \in Group : thr[t] # "running"
  /\ group' = group + 1
  /\ phase' \in {"signal"} \union {p \in {"crashed"} : \E t \in Group : handle[t] = "bad"}
  /\ UNCHANGED <<handle, thr, stops, asleep, clients>>

\* ReleaseNetWorkServicesResource and delete.
ReleaseResource ==
  /\ phase = "signal" /\ group > Groups
  /\ phase' = "gone"
  /\ UNCHANGED <<group, handle, thr, stops, asleep, clients>>

-----------------------------------------------------------------------------
LoopStep == \/ \E t \in Threads : Leave(t) \/ Quit(t)
            \/ Sleep \/ Accept
StopStep == SignalGroup \/ JoinGroup \/ ReleaseResource

ThreadsNext ==
  \/ NetWorkStart \/ Started \/ NetWorkDown
  \/ \E t \in Threads : StartThread(t)
  \/ LoopStep \/ ClientConnects \/ StopStep

ThreadsSpec == ThreadsInit /\ [][ThreadsNext]_threadVars

\* The threads run their loops and the caller of Stop goes on when it can.
\* Nothing makes a client connect.
ThreadsFairness ==
  /\ \A t \in Threads : WF_threadVars(Leave(t))
  /\ WF_threadVars(Accept) /\ WF_threadVars(StopStep)
-----------------------------------------------------------------------------
(* Properties.                                                              *)

\* Every variable keeps its type.
ThreadsTypeOK ==
  /\ phase \in {"down", "starting", "up", "signal", "join", "crashed", "gone"}
  /\ group \in 1 .. Groups + 1
  /\ handle \in [Threads -> {"none", "own", "bad"}]
  /\ thr \in [Threads -> {"none", "running", "done"}]
  /\ stops \in [Threads -> Nat]
  /\ asleep \in BOOLEAN /\ clients \in 0 .. MaxClients

\* LNetWorkServices.cpp:565: a thread that is stopped later keeps running until
\* every thread stopped before it is gone (the close thread outlives all that
\* hand it sessions), and no thread runs when the rings and sessions are freed.
StoppedInOrder ==
  /\ \A t, u \in Threads :
       StopRank[t] < StopRank[u] /\ stops[u] > 0 => thr[t] # "running"
  /\ phase = "gone" => \A t \in Threads : thr[t] # "running"

\* Stop returns, or the accept thread sleeps on with nobody connecting.
StopHangsOnlyInAccept ==
  phase = "signal" ~> \/ phase \in {"gone", "crashed"}
                      \/ [](asleep /\ thr[Acceptor] = "running" /\ clients = 0)
=============================================================================
