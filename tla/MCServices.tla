------------------------------ MODULE MCServices ------------------------------
(* Instances for TLC of four parts of LNetWorkServices that share no state:   *)
(* every behaviour is one of FixLenRing, of RecvStream, of MainLogic or of    *)
(* ServiceThreads, and the other three stay in their initial states.  The     *)
(* constants are in the .cfg.                                                 *)
EXTENDS FixLenRing, RecvStream, MainLogic, ServiceThreads

AllThreads == {"accept", "epoll", "send1", "send2", "recv", "close"}
CanQuit == {"accept", "epoll"}
RankOfStart == [t \in AllThreads |->
  CASE t = "recv" -> 1 [] t \in {"send1", "send2"} -> 2 [] t = "epoll" -> 3
    [] t = "close" -> 4 [] t = "accept" -> 5]
RankOfStop == [t \in AllThreads |->
  CASE t = "accept" -> 1 [] t = "epoll" -> 2 [] t \in {"send1", "send2"} -> 3
    [] t = "recv" -> 4 [] t = "close" -> 5]

VARIABLE part
vars == <<part, ringVars, streamVars, logicVars, threadVars>>

Init ==
  /\ part \in {"ring", "stream", "logic", "threads"}
  /\ RingInit /\ (part # "ring" => \A c \in Places : buf[c] = 0)
  /\ StreamInit /\ LogicInit /\ ThreadsInit

Next ==
  /\ UNCHANGED part
  /\ \/ part = "ring" /\ RingNext /\ UNCHANGED <<streamVars, logicVars, threadVars>>
     \/ part = "stream" /\ StreamNext /\ UNCHANGED <<ringVars, logicVars, threadVars>>
     \/ part = "logic" /\ LogicNext /\ UNCHANGED <<ringVars, streamVars, threadVars>>
     \/ part = "threads" /\ ThreadsNext /\ UNCHANGED <<ringVars, streamVars, logicVars>>

Spec == Init /\ [][Next]_vars
FairSpec == Spec /\ ThreadsFairness
=============================================================================
