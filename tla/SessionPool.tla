------------------------------ MODULE SessionPool ------------------------------
(***************************************************************************)
(* What the session manager promises its threads, without saying how:      *)
(* a session is free, live or closing; a thread starts to use it only      *)
(* while it is live, and it becomes free again only when nobody uses it.   *)
(***************************************************************************)
CONSTANTS Sessions, Threads

VARIABLES
  status,   \* of each session: "free", "live" or "closing"
  users     \* of each session: the threads that hold a pointer to it

Init ==
  /\ status = [s \in Sessions |-> "free"]
  /\ users = [s \in Sessions |-> {}]

Set(s, value) == status' = [status EXCEPT ![s] = value]

\* A free session becomes a connection, in the hands of the thread t.
Open(s, t) ==
  /\ status[s] = "free" /\ users[s] = {}
  /\ Set(s, "live")
  /\ users' = [users EXCEPT ![s] = {t}]

Acquire(s, t) ==
  /\ status[s] = "live" /\ t \notin users[s]
  /\ users' = [users EXCEPT ![s] = @ \union {t}]
  /\ UNCHANGED status

Release(s, t) ==
  /\ t \in users[s]
  /\ users' = [users EXCEPT ![s] = @ \ {t}]
  /\ UNCHANGED status

\* The thread t ends the connection; its other users may still be at work.
Close(s, t) ==
  /\ status[s] = "live" /\ t \notin users[s]
  /\ Set(s, "closing")
  /\ users' = [users EXCEPT ![s] = @ \union {t}]

Recycle(s) ==
  /\ status[s] = "closing" /\ users[s] = {}
  /\ Set(s, "free")
  /\ UNCHANGED users

Next ==
  \E s \in Sessions :
    \/ Recycle(s)
    \/ \E t \in Threads : Open(s, t) \/ Acquire(s, t) \/ Release(s, t) \/ Close(s, t)

Spec == Init /\ [][Next]_<<status, users>>
=============================================================================
