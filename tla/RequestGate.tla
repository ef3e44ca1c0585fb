----------------------------- MODULE RequestGate -----------------------------
(***************************************************************************)
(* What the request routines are promised (iumfs_request.c, header         *)
(* comment): a routine calls iumfs_daemon_request_enter, _start and _exit  *)
(* in that order, and between its enter and its exit no other thread uses  *)
(* the instance of the control device it was given.                        *)
(***************************************************************************)
EXTENDS Integers

CONSTANTS Threads, Instances,
          NoInst      \* what a thread outside holds: not an instance

VARIABLES
  holds,   \* thread -> the instance enter gave it, or NoInst
  stage    \* thread -> how far its request has come

gateVars == <<holds, stage>>

Stages == {"outside", "entered", "started", "returned"}

Init ==
  /\ holds = [t \in Threads |-> NoInst]
  /\ stage = [t \in Threads |-> "outside"]

\* enter returns 0 with instance i.
Enter(t) ==
  /\ stage[t] = "outside"
  /\ \E i \in Instances :
       /\ \A u \in Threads : holds[u] # i
       /\ holds' = [holds EXCEPT ![t] = i]
  /\ stage' = [stage EXCEPT ![t] = "entered"]

\* start makes the request visible to the daemon...
Start(t) ==
  /\ stage[t] = "entered"
  /\ stage' = [stage EXCEPT ![t] = "started"]
  /\ UNCHANGED holds

\* ...and returns: answered, failed, timed out or interrupted.
Return(t) ==
  /\ stage[t] = "started"
  /\ stage' = [stage EXCEPT ![t] = "returned"]
  /\ UNCHANGED holds

Exit(t) ==
  /\ stage[t] = "returned"
  /\ holds' = [holds EXCEPT ![t] = NoInst]
  /\ stage' = [stage EXCEPT ![t] = "outside"]

Next == \E t \in Threads : Enter(t) \/ Start(t) \/ Return(t) \/ Exit(t)

Spec == Init /\ [][Next]_gateVars

\* Once inside, a thread is not kept there.
FairSpec ==
  Spec /\ \A t \in Threads : WF_gateVars(Start(t) \/ Return(t) \/ Exit(t))
=============================================================================
