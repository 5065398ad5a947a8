---------------------------- MODULE CallLifecycle ----------------------------
(***************************************************************************)
(* What the service promises a client, whatever threads it is made of:     *)
(* calls run one at a time in the order they were accepted, a call ends    *)
(* cancelled only if it was being cancelled while it ran, and a line is    *)
(* answered at most once and never before its call is settled.             *)
(***************************************************************************)
EXTENDS Naturals

CONSTANT MaxLines   \* bound on the lines of a session

VARIABLES
  stage,  \* where each line of the input is in its life
  told    \* the lines that have been answered

vars == <<stage, told>>

Line == 1 .. MaxLines
Arrivals == {"protocol", "waiting", "rejected", "ignored"}
Outcomes == {"done", "cancelled", "refused"}
Stages == {"unread", "running", "stopping"} \cup Arrivals \cup Outcomes

TypeOK ==
  /\ stage \in [Line -> Stages]
  /\ told \subseteq Line

Init ==
  /\ stage = [n \in Line |-> "unread"]
  /\ told = {}

Underway(n) == stage[n] \in {"running", "stopping"}
First(n) == \A m \in 1 .. n - 1 : stage[m] # "waiting"
Move(n, s) == stage' = [stage EXCEPT ![n] = s] /\ UNCHANGED told

(* A line is read; a stop or a cancellation may reach the running call.    *)
Arrive(n, s) ==
  /\ stage[n] = "unread"
  /\ \A m \in 1 .. n - 1 : stage[m] # "unread"
  /\ \/ Move(n, s)
     \/ /\ s = "protocol"
        /\ \E m \in Line :
             /\ stage[m] = "running"
             /\ stage' = [stage EXCEPT ![n] = s, ![m] = "stopping"]
        /\ UNCHANGED told

Start(n) ==
  /\ stage[n] = "waiting"
  /\ First(n)
  /\ \A m \in Line : ~Underway(m)
  /\ Move(n, "running")

Drop(n) ==
  /\ stage[n] = "waiting"
  /\ First(n)
  /\ \A m \in Line : ~Underway(m)
  /\ \E s \in {"ignored", "refused"} : Move(n, s)

End(n) ==
  \/ Underway(n) /\ \E s \in {"done", "refused"} : Move(n, s)
  \/ stage[n] = "stopping" /\ Move(n, "cancelled")

Tell(n) ==
  /\ n \notin told
  /\ stage[n] \in Outcomes \cup {"protocol", "rejected"}
  /\ told' = told \cup {n}
  /\ UNCHANGED stage

Next == \E n \in Line :
  \/ \E s \in Arrivals : Arrive(n, s)
  \/ Start(n)
  \/ Drop(n)
  \/ End(n)
  \/ Tell(n)

Spec == Init /\ [][Next]_vars
=============================================================================
