------------------------- MODULE IumfsRequest_proofs -------------------------
(***************************************************************************)
(* Proofs about the request channel, for any number of threads, daemons    *)
(* and instances and any environment: types, claims and the gate; then the *)
(* flags of an instance, and who sleeps on its condition variable; then    *)
(* what is in its buffer.                                                  *)
(***************************************************************************)
EXTENDS IumfsRequest, TLAPS

\* A buffer content gives results that iumfscntl_write can store.
LEMMA ResultFieldType ==
  ASSUME NEW c \in Contents, NEW r \in ResultField(c)
  PROVE  r \in Results
<1>1. CASE c \in Requests
  BY <1>1 DEF Requests, RequestOf, ResultField, Results
<1>2. CASE c \in Responses
  BY <1>2 DEF Responses, ResponseTo, ResultField
<1>3. CASE c = Garbage
  BY <1>3 DEF Garbage, ResultField
<1> QED
  BY <1>1, <1>2, <1>3 DEF Contents

\* A request content names a thread and a routine that exist.
LEMMA RequestContent ==
  ASSUME NEW c \in Contents, c.kind = "request"
  PROVE  c.from \in Threads /\ c.op \in Calls
  BY DEF Contents, Requests, Responses, Garbage, RequestOf, ResponseTo

\* Requests and responses are buffer contents.
LEMMA ContentIntro ==
  /\ Garbage \in Contents
  /\ \A t \in Threads, o \in Calls :
       /\ RequestOf(t, o) \in Contents
       /\ \A r \in Results : ResponseTo(t, o, r) \in Contents
  BY DEF Contents, Requests, Responses
\* The values a scan goes through: instance numbers, and NoInst past the last.
LEMMA InstanceNumbers ==
  /\ 0 \in Instances
  /\ \A i \in Instances : i + 1 # MaxInst => i + 1 \in Instances
  /\ \A i \in Instances : i + 1 \in Instances \cup {NoInst}
  /\ NoInst \notin Instances
  BY RequestAssumption DEF Instances, NoInst

-----------------------------------------------------------------------------
(***************************************************************************)
(* Type correctness                                                        *)
(***************************************************************************)
\* The state after attach is well typed.
LEMMA TypeInit == Init => TypeOK
  BY ContentIntro, RequestAssumption
  DEF Init, TypeOK, Procs, Results, Lengths, ThreadPcs, DaemonPcs

\* Every step of a file-system thread keeps the types.
LEMMA TypeThread ==
  ASSUME TypeOK, NEW t \in Threads,
         Call(t) \/ ThreadStep(t) \/ EnterInterrupted(t) \/ Interrupt(t)
  PROVE  TypeOK'
<1> USE RequestAssumption DEF TypeOK, Procs, history, device, daemon, Goto, Set, Clear, Busy, StillWaiting, ExitFlags, CloseFlags
<1>1. CASE Call(t)
  BY <1>1, InstanceNumbers DEF Call, ThreadPcs
<1>2. ASSUME Claim(t), at[t] \in Instances PROVE TypeOK'
  BY <1>2 DEF Claim, Flags, ThreadPcs
<1>3. ASSUME NEW l \in ThreadPcs, NEW m \in ThreadPcs, at[t] \in Instances,
             Advance(t, l, m)
      PROVE  TypeOK'
  BY <1>3, InstanceNumbers DEF Advance
<1>4. ASSUME TakeTurn(t), at[t] \in Instances PROVE TypeOK'
  BY <1>2, <1>4 DEF TakeTurn, CvWait, ThreadPcs
<1>5. CASE Enter(t)
  <2>1. pc[t] \notin {"idle", "closed"} /\ at[t] \in Instances
    BY <1>5 DEF Enter, ScanTake, ScanSkip, ScanOpened, WaitTurn, WaitOpen, Runs
  <2>2. CASE ScanTake(t)
    BY <1>2, <2>1, <2>2 DEF ScanTake
  <2>3. CASE ScanSkip(t)
    BY <1>3, <2>1, <2>3 DEF ScanSkip, ThreadPcs
  <2>4. CASE ScanOpened(t)
    BY <1>3, <1>4, <2>1, <2>4 DEF ScanOpened, ThreadPcs
  <2>5. CASE WaitTurn(t)
    BY <1>4, <2>1, <2>5 DEF WaitTurn
  <2>6. CASE WaitOpen(t)
    BY <1>4, <2>1, <2>6 DEF WaitOpen, CvWait
  <2> QED
    BY <1>5, <2>2, <2>3, <2>4, <2>5, <2>6 DEF Enter
<1>6. CASE EnterInterrupted(t)
  BY <1>6 DEF EnterInterrupted, ThreadPcs
<1>7. CASE Fill(t)
  BY <1>7, ContentIntro DEF Fill, Runs, Lengths, ThreadPcs
<1>8. CASE Post(t)
  BY <1>8 DEF Post, Runs, CvBroadcast, Flags, ThreadPcs
<1>9. \A err : After(t, err) \in ThreadPcs \ {"idle"}
  BY DEF After, ThreadPcs
<1>10. CASE Await(t)
  BY <1>9, <1>10 DEF Await, Runs, CvWait
<1>11. CASE Expire(t) \/ Interrupt(t)
  BY <1>11 DEF Expire, Interrupt, WakeWithoutAnswer, ThreadPcs
<1>12. CASE Cancel(t)
  BY <1>9, <1>12 DEF Cancel, Flags
<1>13. CASE CopyReply(t)
  BY <1>13 DEF CopyReply, Runs, ThreadPcs
<1>14. CASE Exit(t)
  BY <1>14, InstanceNumbers DEF Exit, CvBroadcast, ThreadPcs
<1> QED
  BY <1>1, <1>5, <1>6, <1>7, <1>8, <1>10, <1>11, <1>12, <1>13, <1>14 DEF ThreadStep
\* Every step of a daemon thread keeps the types.
LEMMA TypeDaemon ==
  ASSUME TypeOK, NEW d \in Daemons,
         \/ Open(d) \/ OpenTake(d) \/ OpenSkip(d) \/ DaemonStep(d)
         \/ SelectInterrupted(d) \/ ReadInterrupted(d) \/ CopyInFails(d) \/ Close(d)
  PROVE  TypeOK'
<1> USE RequestAssumption DEF TypeOK, Procs, history, device, daemon, Goto, Set, Clear, Busy, StillWaiting, ExitFlags, CloseFlags
<1>1. CASE Open(d)
  BY <1>1, InstanceNumbers DEF Open, DaemonPcs
<1>2. CASE OpenTake(d)
  BY <1>2, ContentIntro DEF OpenTake, CvBroadcast, Flags, DaemonPcs
<1>3. CASE OpenSkip(d)
  <2>1. at[d] \in Instances
    BY <1>3 DEF OpenSkip
  <2> QED
    BY <1>3, <2>1, InstanceNumbers DEF OpenSkip, DaemonPcs
<1>4. CASE \/ FdZero(d) \/ FdSet(d) \/ SelectCall(d) \/ SelectReturn(d)
           \/ SelectInterrupted(d)
  BY <1>4 DEF FdZero, FdSet, SelectCall, SelectReturn, SelectInterrupted, DaemonPcs
<1>5. CASE ReadWait(d)
  BY <1>5 DEF ReadWait, CvWait
<1>6. CASE ReadFetch(d)
  <2>1. at[d] \in Instances
    BY <1>6 DEF ReadFetch, Runs
  <2> QED
    BY <1>6, <2>1, ContentIntro DEF ReadFetch, Runs, DaemonPcs
<1>7. CASE ReadInterrupted(d)
  BY <1>7 DEF ReadInterrupted, DaemonPcs
<1>8. CASE CopyIn(d)
  <2>1. at[d] \in Instances
    BY <1>8 DEF CopyIn
  <2>2. got[d] \in Contents
    OBVIOUS
  <2>3. got[d].kind = "request" =>
          {ResponseTo(got[d].from, got[d].op, r) : r \in Results} \subseteq Contents
    BY <2>2, ContentIntro, RequestContent
  <2>4. PICK c \in Contents : buf' = [buf EXCEPT ![at[d]] = c]
    BY <1>8, <2>3, ContentIntro DEF CopyIn
  <2> QED
    BY <1>8, <2>1, <2>4 DEF CopyIn, DaemonPcs
<1>9. CASE CopyInFails(d)
  BY <1>9, ContentIntro DEF CopyInFails, DaemonPcs
<1>10. CASE Publish(d)
  <2>1. at[d] \in Instances
    BY <1>10 DEF Publish
  <2>2. PICK r \in Results : error' = [error EXCEPT ![at[d]] = r]
    BY <1>10, <2>1, ResultFieldType DEF Publish, Results
  <2>3. AnswerLengths(got[d]) \subseteq Lengths
    BY DEF AnswerLengths, Lengths
  <2>4. used' \in [Instances -> Lengths]
    BY <1>10, <2>1, <2>3 DEF Publish
  <2>5. state' \in [Instances -> SUBSET Flags]
    BY <1>10, <2>1 DEF Publish, Flags
  <2> QED
    BY <1>10, <2>2, <2>4, <2>5 DEF Publish, CvBroadcast, DaemonPcs
<1>11. CASE Close(d)
  BY <1>11 DEF Close, CvBroadcast, Flags, Results, DaemonPcs
<1> QED
  BY <1>1, <1>2, <1>3, <1>4, <1>5, <1>6, <1>7, <1>8, <1>9, <1>10, <1>11 DEF DaemonStep

\* Every step keeps the types.
LEMMA TypeNext == TypeOK /\ [Next]_vars => TypeOK'
<1> SUFFICES ASSUME TypeOK, [Next]_vars PROVE TypeOK'
  OBVIOUS
<1>1. CASE UNCHANGED vars
  BY <1>1 DEF vars, TypeOK
<1>2. CASE Next
  BY <1>2, TypeThread, TypeDaemon DEF Next
<1> QED
  BY <1>1, <1>2

\* Every variable keeps its type, and whoever scans, owns or has open an
\* instance is at one that exists.
THEOREM TypeCorrect == Spec => []TypeOK
<1>1. Init => TypeOK
  BY TypeInit
<1>2. TypeOK /\ [Next]_vars => TypeOK'
  BY TypeNext
<1> QED
  BY <1>1, <1>2, PTL DEF Spec

-----------------------------------------------------------------------------
(***************************************************************************)
(* One owner per instance                                                  *)
(***************************************************************************)

\* A step that changes neither who owns what nor any INPROGRESS flag.
OwnershipKept ==
  /\ \A t \in Threads :
       /\ pc'[t] \in Owning <=> pc[t] \in Owning
       /\ pc[t] \in Owning => at'[t] = at[t]
  /\ \A i \in Instances : "INPROGRESS" \in state'[i] <=> "INPROGRESS" \in state[i]

\* Such a step cannot break exclusive ownership.
LEMMA KeptPreserves == OneOwner /\ OwnershipKept => OneOwner'
  BY DEF OneOwner, OwnershipKept, Owns

\* Claiming an instance that nobody has: the claimer becomes its only owner.
LEMMA ClaimPreserves ==
  ASSUME TypeOK, OneOwner, NEW t \in Threads, pc[t] \notin Owning,
         at[t] \in Instances, "INPROGRESS" \notin state[at[t]], Claim(t)
  PROVE  OneOwner'
<1>1. /\ pc' = [pc EXCEPT ![t] = "fill"] /\ at' = at
      /\ state' = [state EXCEPT ![at[t]] = @ \cup {"INPROGRESS"}]
  BY DEF Claim, Goto, Set
<1>2. \A u \in Threads, i \in Instances :
        Owns(u, i)' <=> Owns(u, i) \/ (u = t /\ i = at[t])
  BY <1>1, RequestAssumption DEF TypeOK, Owns, Owning, Procs
<1>3. \A i \in Instances :
        "INPROGRESS" \in state'[i] <=> "INPROGRESS" \in state[i] \/ i = at[t]
  BY <1>1 DEF TypeOK
<1>4. \A u \in Threads : ~Owns(u, at[t])
  BY DEF OneOwner
<1> QED
  BY <1>2, <1>3, <1>4 DEF OneOwner

\* Exit gives up the flag together with the ownership.
LEMMA ExitPreserves ==
  ASSUME TypeOK, OneOwner, NEW t \in Threads, Exit(t)
  PROVE  OneOwner'
<1>1. pc[t] \in Owning /\ at[t] \in Instances
  BY DEF Exit, TypeOK, Owning, Procs
<1>2. \A u \in Threads, i \in Instances :
        Owns(u, i)' <=> Owns(u, i) /\ u # t
  BY <1>1 DEF Exit, Goto, TypeOK, Owns, Owning, Procs
<1>3. \A i \in Instances :
        "INPROGRESS" \in state'[i] <=> "INPROGRESS" \in state[i] /\ i # at[t]
  BY <1>1 DEF Exit, Clear, ExitFlags, TypeOK
<1>4. Owns(t, at[t])
  BY <1>1 DEF Owns
<1> QED
  BY <1>1, <1>2, <1>3, <1>4 DEF OneOwner, Owns
\* A daemon thread claims and releases nothing.
LEMMA DaemonKeeps ==
  ASSUME TypeOK, NEW d \in Daemons,
         \/ Open(d) \/ OpenTake(d) \/ OpenSkip(d) \/ DaemonStep(d)
         \/ SelectInterrupted(d) \/ ReadInterrupted(d) \/ CopyInFails(d) \/ Close(d)
  PROVE  /\ OwnershipKept
         /\ \A t \in Threads : pc'[t] = pc[t]
<1>1. \A t \in Threads : t # d
  BY RequestAssumption
<1>2. \A t \in Threads : pc'[t] = pc[t] /\ at'[t] = at[t]
  BY <1>1 DEF TypeOK, Procs, DaemonStep, Open, OpenTake, OpenSkip, FdZero, FdSet,
              SelectCall, SelectReturn, ReadWait,
              ReadFetch, SelectInterrupted, ReadInterrupted, CopyIn, CopyInFails, Publish, Close, Goto
<1>3. \A i \in Instances : "INPROGRESS" \in state'[i] <=> "INPROGRESS" \in state[i]
  BY DEF TypeOK, Set, Clear, CloseFlags, DaemonStep, Open, OpenTake, OpenSkip, FdZero, FdSet,
              SelectCall, SelectReturn, ReadWait,
         ReadFetch, SelectInterrupted, ReadInterrupted, CopyIn, CopyInFails, Publish, Close
<1> QED
  BY <1>2, <1>3 DEF OwnershipKept

\* The steps of a thread: a claim, an exit, or neither.
LEMMA ThreadStepKinds ==
  ASSUME TypeOK, NEW t \in Threads,
         Call(t) \/ ThreadStep(t) \/ EnterInterrupted(t) \/ Interrupt(t)
  PROVE  \/ /\ pc[t] \in {"scan", "scanOpened", "waitTurn", "waitOpen"}
            /\ at[t] \in Instances /\ "INPROGRESS" \notin state[at[t]] /\ Claim(t)
         \/ Exit(t)
         \/ /\ OwnershipKept
            /\ \A u \in Threads \ {t} : pc'[u] = pc[u]
            /\ \/ Stage(pc'[t]) = Stage(pc[t])
               \/ Stage(pc[t]) = "entered" /\ Stage(pc'[t]) = "started"
               \/ Stage(pc[t]) = "started" /\ Stage(pc'[t]) = "returned"
<1> DEFINE Quiet(l, m) ==
      /\ \A u \in Threads \ {t} : pc'[u] = pc[u] /\ at'[u] = at[u]
      /\ pc[t] = l /\ pc'[t] = m
      /\ \A i \in Instances : "INPROGRESS" \in state'[i] <=> "INPROGRESS" \in state[i]
<1> USE DEF TypeOK, Procs, Goto, Set, Clear, Busy, StillWaiting
<1>1. ASSUME NEW l \in ThreadPcs \ Owning, NEW m \in ThreadPcs \ Owning, Quiet(l, m)
      PROVE  /\ OwnershipKept
             /\ \A u \in Threads \ {t} : pc'[u] = pc[u]
             /\ Stage(pc'[t]) = Stage(pc[t])
  BY <1>1 DEF OwnershipKept, Stage, ThreadPcs, Owning
<1>2. ASSUME NEW l \in Owning, NEW m \in Owning, Quiet(l, m), at'[t] = at[t]
      PROVE  /\ OwnershipKept
             /\ \A u \in Threads \ {t} : pc'[u] = pc[u]
  BY <1>2 DEF OwnershipKept
<1>3. CASE Call(t)
  BY <1>1, <1>3 DEF Call, ThreadPcs, Owning
<1>4. CASE Enter(t)
  <2>1. pc[t] \in {"scan", "scanOpened", "waitTurn", "waitOpen"} /\ at[t] \in Instances
    BY <1>4 DEF Enter, ScanTake, ScanSkip, ScanOpened, WaitTurn, WaitOpen, Runs
  <2>2. \/ "INPROGRESS" \notin state[at[t]] /\ Claim(t)
        \/ \E m \in {"scan", "scanOpened", "waitTurn", "waitOpen"} : Quiet(pc[t], m)
    BY <1>4, <2>1 DEF Enter, ScanTake, ScanSkip, ScanOpened, WaitTurn, WaitOpen, Runs,
                      TakeTurn, Advance, CvWait
  <2> QED
    BY <1>1, <2>1, <2>2 DEF ThreadPcs, Owning
<1>5. CASE EnterInterrupted(t)
  BY <1>1, <1>5 DEF EnterInterrupted, ThreadPcs, Owning
<1>6. CASE Fill(t)
  BY <1>2, <1>6 DEF Fill, Runs, Owning, Stage
<1>7. CASE Post(t)
  BY <1>2, <1>7 DEF Post, Runs, Owning, Stage
<1>8. \A err : /\ After(t, err) \in Owning
               /\ Stage(After(t, err)) = "returned"
  BY DEF After, Owning, Stage
<1>9. CASE Await(t)
  BY <1>2, <1>8, <1>9 DEF Await, Runs, Owning, Stage, CvWait
<1>10. CASE Expire(t) \/ Interrupt(t)
  BY <1>2, <1>10 DEF Expire, Interrupt, WakeWithoutAnswer, Owning, Stage
<1>11. CASE Cancel(t)
  BY <1>2, <1>8, <1>11 DEF Cancel, Owning, Stage
<1>12. CASE CopyReply(t)
  BY <1>2, <1>12 DEF CopyReply, Runs, Owning, Stage
<1> QED
  BY <1>3, <1>4, <1>5, <1>6, <1>7, <1>9, <1>10, <1>11, <1>12 DEF ThreadStep

\* Every step keeps ownership exclusive.
LEMMA OwnerNext == TypeOK /\ OneOwner /\ [Next]_vars => OneOwner'
<1> SUFFICES ASSUME TypeOK, OneOwner, [Next]_vars PROVE OneOwner'
  OBVIOUS
<1>1. CASE UNCHANGED vars
  BY <1>1 DEF vars, OneOwner, Owns
<1>2. ASSUME NEW t \in Threads,
             Call(t) \/ ThreadStep(t) \/ EnterInterrupted(t) \/ Interrupt(t)
      PROVE  OneOwner'
  BY <1>2, ThreadStepKinds, ClaimPreserves, ExitPreserves, KeptPreserves DEF Owning
<1>3. ASSUME NEW d \in Daemons,
             \/ Open(d) \/ OpenTake(d) \/ OpenSkip(d) \/ DaemonStep(d)
             \/ SelectInterrupted(d) \/ ReadInterrupted(d) \/ CopyInFails(d) \/ Close(d)
      PROVE  OneOwner'
  BY <1>3, DaemonKeeps, KeptPreserves
<1> QED
  BY <1>1, <1>2, <1>3 DEF Next

\* REQUEST_INPROGRESS is an exclusive lock: through every timeout, signal and
\* restart of the daemon it marks exactly the instances with an owner, and no
\* instance has two.  (iumfs_request.c: enter, start and exit guarantee it.)
THEOREM Exclusive == Spec => []OneOwner
<1>1. Init => OneOwner
  BY RequestAssumption DEF Init, OneOwner, Owns, Owning, Procs
<1> QED
  BY <1>1, OwnerNext, TypeCorrect, PTL DEF Spec
-----------------------------------------------------------------------------
(***************************************************************************)
(* The channel implements the gate                                         *)
(***************************************************************************)
\* All threads start outside the gate.
LEMMA GateInit == Init => Gate!Init
  BY RequestAssumption DEF Init, Gate!Init, gateHolds, gateStage, Stage, Owning, Procs

\* The step of one thread on the abstract gate.
LEMMA GateThread ==
  ASSUME TypeOK, OneOwner, NEW t \in Threads,
         Call(t) \/ ThreadStep(t) \/ EnterInterrupted(t) \/ Interrupt(t)
  PROVE  Gate!Next \/ UNCHANGED Gate!gateVars
<1>1. \/ /\ pc[t] \in {"scan", "scanOpened", "waitTurn", "waitOpen"}
         /\ at[t] \in Instances /\ "INPROGRESS" \notin state[at[t]] /\ Claim(t)
      \/ Exit(t)
      \/ /\ OwnershipKept
         /\ \A u \in Threads \ {t} : pc'[u] = pc[u]
         /\ \/ Stage(pc'[t]) = Stage(pc[t])
            \/ Stage(pc[t]) = "entered" /\ Stage(pc'[t]) = "started"
            \/ Stage(pc[t]) = "started" /\ Stage(pc'[t]) = "returned"
  BY ThreadStepKinds
<1>2. ASSUME pc[t] \in {"scan", "scanOpened", "waitTurn", "waitOpen"},
             at[t] \in Instances, "INPROGRESS" \notin state[at[t]], Claim(t)
      PROVE  Gate!Enter(t)
  <2>1. pc' = [pc EXCEPT ![t] = "fill"] /\ at' = at
    BY <1>2 DEF Claim, Goto
  <2>2. gateStage[t] = "outside" /\ gateStage' = [gateStage EXCEPT ![t] = "entered"]
    BY <1>2, <2>1 DEF gateStage, Stage, TypeOK, Procs
  <2>3. \A u \in Threads : gateHolds[u] # at[t]
    BY <1>2, InstanceNumbers DEF gateHolds, OneOwner, Owns
  <2>4. gateHolds' = [gateHolds EXCEPT ![t] = at[t]]
    BY <1>2, <2>1 DEF gateHolds, TypeOK, Procs, Owning
  <2> QED
    BY <1>2, <2>2, <2>3, <2>4 DEF Gate!Enter
<1>3. ASSUME Exit(t) PROVE Gate!Exit(t)
  <2>1. pc[t] \in {"exit", "retry", "finish"} /\ pc'[t] \in {"scan", "idle"}
        /\ \A u \in Threads \ {t} : pc'[u] = pc[u] /\ at'[u] = at[u]
    BY <1>3 DEF Exit, Goto, TypeOK, Procs
  <2>2. gateStage[t] = "returned" /\ gateStage' = [gateStage EXCEPT ![t] = "outside"]
    BY <2>1 DEF gateStage, Stage
  <2>3. gateHolds' = [gateHolds EXCEPT ![t] = NoInst]
    BY <2>1 DEF gateHolds, Owning
  <2> QED
    BY <2>2, <2>3 DEF Gate!Exit
<1>4. ASSUME OwnershipKept, \A u \in Threads \ {t} : pc'[u] = pc[u]
      PROVE  UNCHANGED gateHolds
  BY <1>4 DEF OwnershipKept, gateHolds
<1>5. ASSUME \A u \in Threads \ {t} : pc'[u] = pc[u]
      PROVE  gateStage' = [gateStage EXCEPT ![t] = Stage(pc'[t])]
  BY <1>5 DEF gateStage
<1>6. gateStage[t] = Stage(pc[t])
  BY DEF gateStage
<1>7. ASSUME OwnershipKept, \A u \in Threads \ {t} : pc'[u] = pc[u],
             \/ Stage(pc'[t]) = Stage(pc[t])
             \/ Stage(pc[t]) = "entered" /\ Stage(pc'[t]) = "started"
             \/ Stage(pc[t]) = "started" /\ Stage(pc'[t]) = "returned"
      PROVE  Gate!Next \/ UNCHANGED Gate!gateVars
  <2>1. CASE Stage(pc'[t]) = Stage(pc[t])
    BY <1>4, <1>7, <2>1 DEF Gate!gateVars, gateStage
  <2>2. CASE Stage(pc[t]) = "entered" /\ Stage(pc'[t]) = "started"
    BY <1>4, <1>5, <1>6, <1>7, <2>2 DEF Gate!Next, Gate!Start
  <2>3. CASE Stage(pc[t]) = "started" /\ Stage(pc'[t]) = "returned"
    BY <1>4, <1>5, <1>6, <1>7, <2>3 DEF Gate!Next, Gate!Return
  <2> QED
    BY <1>7, <2>1, <2>2, <2>3
<1> QED
  BY <1>1, <1>2, <1>3, <1>7 DEF Gate!Next

\* Every step of the channel is a step of the gate or leaves it alone.
LEMMA GateNext == TypeOK /\ OneOwner /\ [Next]_vars => [Gate!Next]_(Gate!gateVars)
<1> SUFFICES ASSUME TypeOK, OneOwner, [Next]_vars
             PROVE  Gate!Next \/ UNCHANGED Gate!gateVars
  OBVIOUS
<1>1. CASE UNCHANGED vars
  BY <1>1 DEF vars, Gate!gateVars, gateHolds, gateStage
<1>2. ASSUME NEW t \in Threads,
             Call(t) \/ ThreadStep(t) \/ EnterInterrupted(t) \/ Interrupt(t)
      PROVE  Gate!Next \/ UNCHANGED Gate!gateVars
  BY <1>2, GateThread
<1>3. ASSUME NEW d \in Daemons,
             \/ Open(d) \/ OpenTake(d) \/ OpenSkip(d) \/ DaemonStep(d)
             \/ SelectInterrupted(d) \/ ReadInterrupted(d) \/ CopyInFails(d) \/ Close(d)
      PROVE  UNCHANGED Gate!gateVars
  <2>1. OwnershipKept /\ \A t \in Threads : pc'[t] = pc[t]
    BY <1>3, DaemonKeeps
  <2> QED
    BY <2>1 DEF OwnershipKept, Gate!gateVars, gateHolds, gateStage
<1> QED
  BY <1>1, <1>2, <1>3 DEF Next

\* The channel implements the gate of RequestGate: every routine goes through
\* enter, start and exit in that order and alone on its instance.
THEOREM Implements == Spec => ImplementsGate
  BY GateInit, GateNext, TypeCorrect, Exclusive, PTL DEF Spec, ImplementsGate, Gate!Spec

-----------------------------------------------------------------------------
(***************************************************************************)
(* The flags of an instance, and who sleeps on its condition variable.     *)
(***************************************************************************)
\* The steps of a file-system thread and of a daemon thread, as in Next.
OfThread(t) == Call(t) \/ ThreadStep(t) \/ EnterInterrupted(t) \/ Interrupt(t)
OfDaemon(d) ==
  \/ Open(d) \/ OpenTake(d) \/ OpenSkip(d) \/ DaemonStep(d)
  \/ SelectInterrupted(d) \/ ReadInterrupted(d) \/ CopyInFails(d) \/ Close(d)

\* Every step is one of them or changes nothing.
LEMMA NextSplit ==
  ASSUME [Next]_vars
  PROVE  \/ \E t \in Threads : OfThread(t)
         \/ \E d \in Daemons : OfDaemon(d)
         \/ UNCHANGED vars
  BY DEF Next, OfThread, OfDaemon

\* What a step of process p cannot do: move another process, or change an
\* instance that p is not at.
Frame(p) ==
  /\ \A q \in Procs \ {p} : pc'[q] = pc[q] /\ at'[q] = at[q]
  /\ \A i \in Instances : i # at[p] => state'[i] = state[i]

\* A thread moves only itself and touches only its own instance; of OPENED it
\* changes nothing anywhere.
LEMMA ThreadFrame ==
  ASSUME TypeOK, NEW t \in Threads, OfThread(t)
  PROVE  /\ Frame(t)
         /\ \A i \in Instances : "OPENED" \in state'[i] <=> "OPENED" \in state[i]
<1> USE DEF TypeOK, Procs, Goto, Set, Clear, Frame
<1>1. CASE Call(t) \/ EnterInterrupted(t) \/ Interrupt(t)
  BY <1>1 DEF Call, EnterInterrupted, Interrupt, WakeWithoutAnswer
<1>2. CASE Enter(t)
  BY <1>2 DEF Enter, ScanTake, ScanSkip, ScanOpened, WaitTurn, WaitOpen, Runs,
              TakeTurn, Claim, Advance, CvWait
<1>3. CASE Fill(t) \/ Post(t) \/ Await(t) \/ Expire(t)
  BY <1>3 DEF Fill, Post, Await, Expire, WakeWithoutAnswer, Runs
<1>4. CASE Cancel(t)
  BY <1>4 DEF Cancel
<1>5. CASE CopyReply(t)
  <2>1. state' = state /\ at' = at /\ \E l \in {"finish", "exit"} : Goto(t, l)
    BY <1>5 DEF CopyReply
  <2> QED
    BY <2>1
<1>6. CASE Exit(t)
  BY <1>6 DEF Exit, ExitFlags
<1> QED
  BY <1>1, <1>2, <1>3, <1>4, <1>5, <1>6 DEF OfThread, ThreadStep

\* So does a daemon thread.
LEMMA DaemonFrame ==
  ASSUME TypeOK, NEW d \in Daemons, OfDaemon(d)
  PROVE  Frame(d)
<1> USE DEF TypeOK, Procs, Goto, Set, Clear, Frame
<1>1. CASE Open(d) \/ OpenTake(d) \/ OpenSkip(d) \/ Close(d)
  BY <1>1 DEF Open, OpenTake, OpenSkip, Close
<1>2. CASE FdZero(d) \/ FdSet(d) \/ SelectCall(d) \/ SelectReturn(d) \/ SelectInterrupted(d)
  BY <1>2 DEF FdZero, FdSet, SelectCall, SelectReturn, SelectInterrupted
<1>3. CASE ReadWait(d) \/ ReadFetch(d) \/ ReadInterrupted(d)
  BY <1>3 DEF ReadWait, ReadFetch, ReadInterrupted
<1>4. CASE CopyIn(d) \/ CopyInFails(d) \/ Publish(d)
  BY <1>4 DEF CopyIn, CopyInFails, Publish
<1> QED
  BY <1>1, <1>2, <1>3, <1>4 DEF OfDaemon, DaemonStep

-----------------------------------------------------------------------------
(***************************************************************************)
(* One daemon thread per instance                                          *)
(***************************************************************************)
\* Where a daemon thread has its instance open.
Opened == Selecting \cup {"reading"} \cup Serving

\* A daemon thread opens an instance nobody has open, closes its own, or keeps
\* its instance and every OPENED flag.
LEMMA DaemonOpenKinds ==
  ASSUME TypeOK, NEW d \in Daemons, OfDaemon(d)
  PROVE  \/ /\ pc[d] = "opening" /\ pc'[d] = "loop" /\ at'[d] = at[d]
            /\ "OPENED" \notin state[at[d]] /\ "OPENED" \in state'[at[d]]
         \/ /\ pc[d] \in Opened /\ pc'[d] = "closed"
            /\ "OPENED" \notin state'[at[d]]
         \/ /\ pc[d] \in Opened <=> pc'[d] \in Opened
            /\ pc[d] \in Opened => at'[d] = at[d]
            /\ \A i \in Instances : "OPENED" \in state'[i] <=> "OPENED" \in state[i]
<1> USE DEF TypeOK, Procs, Goto, Set, Clear, Opened, Selecting, Serving
<1>1. CASE Open(d) \/ OpenTake(d) \/ OpenSkip(d)
  BY <1>1 DEF Open, OpenTake, OpenSkip
<1>2. CASE Close(d)
  BY <1>2 DEF Close, CloseFlags
<1>3. CASE FdZero(d) \/ FdSet(d) \/ SelectCall(d) \/ SelectReturn(d) \/ SelectInterrupted(d)
  BY <1>3 DEF FdZero, FdSet, SelectCall, SelectReturn, SelectInterrupted
<1>4. CASE ReadWait(d) \/ ReadFetch(d) \/ ReadInterrupted(d)
  BY <1>4 DEF ReadWait, ReadFetch, ReadInterrupted, Runs
<1>5. CASE CopyIn(d) \/ CopyInFails(d) \/ Publish(d)
  BY <1>5 DEF CopyIn, CopyInFails, Publish
<1> QED
  BY <1>1, <1>2, <1>3, <1>4, <1>5 DEF OfDaemon, DaemonStep

\* Every step keeps the device exclusive.
LEMMA OpenNext == TypeOK /\ OneDaemon /\ [Next]_vars => OneDaemon'
<1> SUFFICES ASSUME TypeOK, OneDaemon, [Next]_vars PROVE OneDaemon'
  OBVIOUS
<1> USE DEF OneDaemon, HasOpen
<1>1. CASE UNCHANGED vars
  BY <1>1 DEF vars
<1>2. ASSUME NEW t \in Threads, OfThread(t) PROVE OneDaemon'
  <2>1. \A d \in Daemons : pc'[d] = pc[d] /\ at'[d] = at[d]
    BY <1>2, ThreadFrame, RequestAssumption DEF Frame, Procs
  <2> QED
    BY <1>2, <2>1, ThreadFrame
<1>3. ASSUME NEW d \in Daemons, OfDaemon(d) PROVE OneDaemon'
  <2>1. \A e \in Daemons \ {d} : pc'[e] = pc[e] /\ at'[e] = at[e]
    BY <1>3, DaemonFrame DEF Frame, Procs
  <2>2. \A i \in Instances : i # at[d] => state'[i] = state[i]
    BY <1>3, DaemonFrame DEF Frame
  <2>3. CASE /\ pc[d] = "opening" /\ pc'[d] = "loop" /\ at'[d] = at[d]
             /\ "OPENED" \notin state[at[d]] /\ "OPENED" \in state'[at[d]]
    BY <2>1, <2>2, <2>3 DEF Selecting, Serving
  <2>4. CASE /\ pc[d] \in Opened /\ pc'[d] = "closed"
             /\ "OPENED" \notin state'[at[d]]
    BY <2>1, <2>2, <2>4 DEF Opened, Selecting, Serving
  <2>5. CASE /\ pc[d] \in Opened <=> pc'[d] \in Opened
             /\ pc[d] \in Opened => at'[d] = at[d]
             /\ \A i \in Instances : "OPENED" \in state'[i] <=> "OPENED" \in state[i]
    BY <2>1, <2>5 DEF Opened
  <2> QED
    BY <1>3, <2>3, <2>4, <2>5, DaemonOpenKinds
<1> QED
  BY <1>1, <1>2, <1>3, NextSplit

\* IUMFSCNTL_OPENED marks exactly the instances a daemon thread has open, and
\* no instance is open twice: iumfscntl_open and iumfscntl_close keep it so
\* through every crash and restart of the daemon.
THEOREM DeviceExclusive == Spec => []OneDaemon
<1>1. Init => OneDaemon
  BY RequestAssumption DEF Init, OneDaemon, HasOpen, Selecting, Serving, Procs
<1> QED
  BY <1>1, OpenNext, TypeCorrect, PTL DEF Spec

-----------------------------------------------------------------------------
(***************************************************************************)
(* No orphan requests                                                      *)
(***************************************************************************)
\* A posted request, or its cancellation, is visible to the daemon.
Visible(i) == "IS_SET" \in state[i] \/ "CANCELED" \in state[i]

\* A thread makes a request visible only on an instance where it has posted,
\* and leaves none visible there when it goes.
LEMMA ThreadVisible ==
  ASSUME TypeOK, NEW t \in Threads, OfThread(t)
  PROVE  \/ /\ \A i \in Instances :
                 Visible(i)' => Visible(i) \/ (i = at[t] /\ pc'[t] \in Posted)
            /\ pc[t] \in Posted \/ pc'[t] \in Posted => at'[t] = at[t]
            /\ pc[t] \in Posted => pc'[t] \in Posted
         \/ \A i \in Instances : Visible(i)' => Visible(i) /\ i # at[t]
<1> USE DEF TypeOK, Procs, Goto, Set, Clear, Visible, Posted, Owning
<1>1. CASE Call(t) \/ EnterInterrupted(t) \/ Interrupt(t)
  BY <1>1 DEF Call, EnterInterrupted, Interrupt, WakeWithoutAnswer
<1>2. CASE Enter(t)
  BY <1>2 DEF Enter, ScanTake, ScanSkip, ScanOpened, WaitTurn, WaitOpen, Runs,
              TakeTurn, Claim, Advance, CvWait
<1>3. CASE Fill(t)
  BY <1>3 DEF Fill, Runs
<1>4. CASE Post(t)
  BY <1>4 DEF Post, Runs
<1>5. \A err : After(t, err) \in Posted
  BY DEF After
<1>6. CASE Await(t)
  BY <1>5, <1>6 DEF Await, Runs
<1>7. CASE Expire(t)
  BY <1>7 DEF Expire, WakeWithoutAnswer
<1>8. CASE Cancel(t)
  BY <1>5, <1>8 DEF Cancel
<1>9. CASE CopyReply(t)
  BY <1>9 DEF CopyReply, Runs
<1>10. CASE Exit(t)
  <2>1. at[t] \in Instances
    BY <1>10 DEF Exit
  <2>2. state' = [state EXCEPT ![at[t]] = @ \ ExitFlags]
    BY <1>10 DEF Exit
  <2> QED
    BY <2>1, <2>2 DEF ExitFlags
<1> QED
  BY <1>1, <1>2, <1>3, <1>4, <1>6, <1>7, <1>8, <1>9, <1>10 DEF OfThread, ThreadStep

\* A daemon thread makes nothing visible.
LEMMA DaemonVisible ==
  ASSUME TypeOK, NEW d \in Daemons, OfDaemon(d), NEW i \in Instances
  PROVE  Visible(i)' => Visible(i)
<1> USE DEF TypeOK, Procs, Set, Clear, Visible
<1>1. CASE Open(d) \/ OpenTake(d) \/ OpenSkip(d) \/ Close(d)
  BY <1>1 DEF Open, OpenTake, OpenSkip, Close, CloseFlags
<1>2. CASE FdZero(d) \/ FdSet(d) \/ SelectCall(d) \/ SelectReturn(d) \/ SelectInterrupted(d)
  BY <1>2 DEF FdZero, FdSet, SelectCall, SelectReturn, SelectInterrupted
<1>3. CASE ReadWait(d) \/ ReadFetch(d) \/ ReadInterrupted(d)
  BY <1>3 DEF ReadWait, ReadFetch, ReadInterrupted
<1>4. CASE CopyIn(d) \/ CopyInFails(d) \/ Publish(d)
  BY <1>4 DEF CopyIn, CopyInFails, Publish
<1> QED
  BY <1>1, <1>2, <1>3, <1>4 DEF OfDaemon, DaemonStep

\* Every step leaves no orphan.
LEMMA OrphanNext == TypeOK /\ NoOrphanRequest /\ [Next]_vars => NoOrphanRequest'
<1> SUFFICES ASSUME TypeOK, NoOrphanRequest, [Next]_vars,
                    NEW i \in Instances, Visible(i)'
             PROVE  \E t \in Threads : at'[t] = i /\ pc'[t] \in Posted
  BY DEF NoOrphanRequest, Visible
<1>1. Visible(i) => \E t \in Threads : at[t] = i /\ pc[t] \in Posted
  BY DEF NoOrphanRequest, Visible
<1>2. CASE UNCHANGED vars
  BY <1>1, <1>2 DEF vars, Visible
<1>3. ASSUME NEW u \in Threads, OfThread(u)
      PROVE  \E t \in Threads : at'[t] = i /\ pc'[t] \in Posted
  <2>1. \A t \in Threads \ {u} : pc'[t] = pc[t] /\ at'[t] = at[t]
    BY <1>3, ThreadFrame DEF Frame, Procs
  <2>2. CASE \A j \in Instances : Visible(j)' => Visible(j) /\ j # at[u]
    BY <1>1, <2>1, <2>2
  <2>3. CASE /\ \A j \in Instances :
                 Visible(j)' => Visible(j) \/ (j = at[u] /\ pc'[u] \in Posted)
             /\ pc[u] \in Posted \/ pc'[u] \in Posted => at'[u] = at[u]
             /\ pc[u] \in Posted => pc'[u] \in Posted
    <3>1. CASE Visible(i)
      BY <1>1, <2>1, <2>3, <3>1
    <3>2. CASE i = at[u] /\ pc'[u] \in Posted
      BY <2>3, <3>2
    <3> QED
      BY <2>3, <3>1, <3>2
  <2> QED
    BY <1>3, <2>2, <2>3, ThreadVisible
<1>4. ASSUME NEW d \in Daemons, OfDaemon(d)
      PROVE  \E t \in Threads : at'[t] = i /\ pc'[t] \in Posted
  <2>1. \A t \in Threads : pc'[t] = pc[t] /\ at'[t] = at[t]
    BY <1>4, DaemonFrame, RequestAssumption DEF Frame, Procs
  <2>2. Visible(i)
    BY <1>4, DaemonVisible
  <2> QED
    BY <1>1, <2>1, <2>2
<1> QED
  BY <1>2, <1>3, <1>4, NextSplit

\* A request the daemon can see belongs to a thread that still owns the
\* instance: iumfs_daemon_request_exit, on every way out of a routine, leaves
\* neither REQUEST_IS_SET nor REQUEST_IS_CANCELED behind.
THEOREM NoOrphans == Spec => []NoOrphanRequest
<1>1. Init => NoOrphanRequest
  BY DEF Init, NoOrphanRequest
<1> QED
  BY <1>1, OrphanNext, TypeCorrect, PTL DEF Spec

-----------------------------------------------------------------------------
(***************************************************************************)
(* No lost wakeups                                                         *)
(***************************************************************************)
\* Process p, if asleep, still has a reason to sleep.
MustSleep(p) ==
  CASE pc[p] = "waitTurn" -> "INPROGRESS" \in state[at[p]]
    [] pc[p] = "await"    -> "DAEMON_INPROGRESS" \in state[at[p]]
    [] pc[p] = "reading"  -> "IS_SET" \notin state[at[p]]
    [] OTHER              -> pc[p] = "waitOpen"

\* No waiter's reason at instance i goes away in this step.
ReasonsKept(i) ==
  /\ "INPROGRESS" \in state[i] => "INPROGRESS" \in state'[i]
  /\ "DAEMON_INPROGRESS" \in state[i] => "DAEMON_INPROGRESS" \in state'[i]
  /\ "IS_SET" \notin state[i] => "IS_SET" \notin state'[i]

\* What a step of process p does to the sleepers: it puts nobody but itself to
\* sleep, and that for a reason; where it takes a reason away, it wakes them.
Considerate(p) ==
  /\ asleep' \subseteq asleep \cup {p}
  /\ p \in asleep' => MustSleep(p)'
  /\ at[p] \in Instances =>
       ReasonsKept(at[p]) \/ \A q \in asleep' : at[q] # at[p]

\* A process that is not at a waiting place is awake.
LEMMA AwakeElsewhere ==
  ASSUME NoLostWakeup, NEW p,
         pc[p] \notin {"waitTurn", "await", "reading", "waitOpen"}
  PROVE  p \notin asleep
  BY DEF NoLostWakeup

\* The steps of a thread are considerate.
LEMMA ThreadConsiderate ==
  ASSUME TypeOK, NoLostWakeup, NEW t \in Threads, OfThread(t)
  PROVE  Considerate(t)
<1> USE AwakeElsewhere
    DEF TypeOK, Procs, Goto, Set, Clear, Considerate, MustSleep, ReasonsKept, CvWait,
        CvBroadcast, Busy, StillWaiting
<1>1. CASE Call(t)
  BY <1>1 DEF Call
<1>2. CASE EnterInterrupted(t) \/ Interrupt(t) \/ Expire(t)
  BY <1>2 DEF EnterInterrupted, Interrupt, Expire, WakeWithoutAnswer
<1>3. ASSUME Claim(t), t \notin asleep PROVE Considerate(t)
  BY <1>3 DEF Claim
<1>4. ASSUME TakeTurn(t), t \notin asleep, at[t] \in Instances PROVE Considerate(t)
  BY <1>3, <1>4 DEF TakeTurn
<1>5. CASE Enter(t)
  <2>1. t \notin asleep /\ pc[t] \in {"scan", "scanOpened", "waitTurn", "waitOpen"}
    BY <1>5 DEF Enter, ScanTake, ScanSkip, ScanOpened, WaitTurn, WaitOpen, Runs
  <2>2. at[t] \in Instances
    BY <2>1
  <2>3. CASE ScanTake(t)
    BY <1>3, <2>1, <2>3 DEF ScanTake
  <2>4. CASE ScanSkip(t)
    BY <2>1, <2>4 DEF ScanSkip, Advance
  <2>5. CASE ScanOpened(t)
    BY <1>4, <2>1, <2>2, <2>5 DEF ScanOpened, Advance
  <2>6. CASE WaitTurn(t)
    BY <1>4, <2>1, <2>2, <2>6 DEF WaitTurn
  <2>7. CASE WaitOpen(t)
    BY <1>4, <2>1, <2>2, <2>7 DEF WaitOpen, Runs
  <2> QED
    BY <1>5, <2>3, <2>4, <2>5, <2>6, <2>7 DEF Enter
<1>6. CASE Fill(t) \/ CopyReply(t)
  BY <1>6 DEF Fill, CopyReply, Runs
<1>7. CASE Post(t)
  BY <1>7 DEF Post, Runs
<1>8. CASE Await(t)
  BY <1>8 DEF Await, Runs
<1>9. CASE Cancel(t)
  BY <1>9 DEF Cancel
<1>10. CASE Exit(t)
  BY <1>10 DEF Exit
<1> QED
  BY <1>1, <1>2, <1>5, <1>6, <1>7, <1>8, <1>9, <1>10 DEF OfThread, ThreadStep

\* So are those of a daemon thread.
LEMMA DaemonConsiderate ==
  ASSUME TypeOK, NoLostWakeup, NEW d \in Daemons, OfDaemon(d)
  PROVE  Considerate(d)
<1> USE AwakeElsewhere
    DEF TypeOK, Procs, Goto, Set, Clear, Considerate, MustSleep, ReasonsKept, CvWait,
        CvBroadcast
<1>1. CASE Open(d) \/ OpenSkip(d)
  BY <1>1 DEF Open, OpenSkip
<1>2. CASE OpenTake(d)
  BY <1>2 DEF OpenTake
<1>3. CASE FdZero(d) \/ FdSet(d) \/ SelectCall(d) \/ SelectReturn(d) \/ SelectInterrupted(d)
  BY <1>3 DEF FdZero, FdSet, SelectCall, SelectReturn, SelectInterrupted
<1>4. CASE ReadWait(d)
  BY <1>4 DEF ReadWait, Runs
<1>5. CASE ReadFetch(d) \/ ReadInterrupted(d)
  BY <1>5 DEF ReadFetch, ReadInterrupted, Runs
<1>6. CASE CopyIn(d) \/ CopyInFails(d)
  BY <1>6 DEF CopyIn, CopyInFails
<1>7. CASE Publish(d)
  BY <1>7 DEF Publish
<1>8. CASE Close(d)
  BY <1>8 DEF Close, CloseFlags
<1> QED
  BY <1>1, <1>2, <1>3, <1>4, <1>5, <1>6, <1>7, <1>8 DEF OfDaemon, DaemonStep

\* A considerate step of a process that moves nobody else loses no wakeup.
LEMMA ConsiderateKeeps ==
  ASSUME TypeOK, NoLostWakeup, NEW p \in Procs, Frame(p), Considerate(p)
  PROVE  NoLostWakeup'
<1> SUFFICES ASSUME NEW q \in asleep', q # p PROVE MustSleep(q)'
  BY DEF NoLostWakeup, MustSleep, Considerate
<1>1. q \in asleep /\ q \in Procs /\ pc'[q] = pc[q] /\ at'[q] = at[q]
  BY DEF Considerate, Frame, TypeOK
<1>2. MustSleep(q)
  BY <1>1 DEF NoLostWakeup, MustSleep
<1>3. at[q] \in Instances
  BY <1>1, <1>2 DEF MustSleep, TypeOK
<1>4. state'[at[q]] = state[at[q]] \/ ReasonsKept(at[q])
  BY <1>1, <1>3 DEF Frame, Considerate
<1> QED
  BY <1>1, <1>2, <1>4 DEF MustSleep, ReasonsKept

\* Every step loses no wakeup.
LEMMA WakeNext == TypeOK /\ NoLostWakeup /\ [Next]_vars => NoLostWakeup'
<1> SUFFICES ASSUME TypeOK, NoLostWakeup, [Next]_vars PROVE NoLostWakeup'
  OBVIOUS
<1>1. CASE UNCHANGED vars
  BY <1>1 DEF vars, NoLostWakeup
<1>2. ASSUME NEW t \in Threads, OfThread(t) PROVE NoLostWakeup'
  BY <1>2, ThreadFrame, ThreadConsiderate, ConsiderateKeeps DEF Procs
<1>3. ASSUME NEW d \in Daemons, OfDaemon(d) PROVE NoLostWakeup'
  BY <1>3, DaemonFrame, DaemonConsiderate, ConsiderateKeeps DEF Procs
<1> QED
  BY <1>1, <1>2, <1>3, NextSplit

\* Five waiting loops share the condition variable of an instance, and none of
\* their sleepers outlives its reason: every change of a flag that somebody
\* may wait for comes with a cv_broadcast, by whomever and however it is made.
THEOREM NoWakeupLost == Spec => []NoLostWakeup
<1>1. Init => NoLostWakeup
  BY DEF Init, NoLostWakeup
<1> QED
  BY <1>1, WakeNext, TypeCorrect, PTL DEF Spec

-----------------------------------------------------------------------------
(***************************************************************************)
(* The content of an instance's buffer: whom a daemon thread serves, and   *)
(* whose answer a thread of the file system copies out.  Without timeouts, *)
(* signals and crashes nothing can be late, so that the last sections drop *)
(* the exception made for late answers.                                    *)
(***************************************************************************)
\* Daemon thread d works on a request, fetched from instance i, that has not
\* been given up.
Working(d, i) == at[d] = i /\ pc[d] \in Serving /\ d \notin stale

\* The last error of the instance cannot yet pass for a success.
Unanswered(i) == "DAEMON_INPROGRESS" \in state[i] \/ error[i] # "ok"

\* The buffer holds the request of t, or a daemon thread has just copied an
\* answer to an older request into it and not yet published that.
Sent(t) ==
  \/ buf[at[t]] = RequestOf(t, op[t])
  \/ \E d \in Daemons : at[d] = at[t] /\ pc[d] = "publish"

\* The buffer holds the answer to the request of t.
Answered(t) == buf[at[t]] = ResponseTo(t, op[t], "ok")

\* What d has done so far of the request of t.
WorksFor(d, t) ==
  /\ "IS_SET" \notin state[at[t]] /\ Unanswered(at[t])
  /\ got[d] = RequestOf(t, op[t])
  /\ pc[d] = "publish" => \E r \in Results : buf[at[t]] = ResponseTo(t, op[t], r)

\* How far the request of t is, from the post on.
Faithful(t) ==
  /\ pc[t] = "post" => Sent(t)
  /\ pc[t] \in Posted =>
       /\ "IS_SET" \in state[at[t]] => Sent(t) /\ Unanswered(at[t])
       /\ \A d \in Daemons : Working(d, at[t]) => WorksFor(d, t)
       /\ pc[t] = "await" /\ ~Unanswered(at[t]) => Answered(t)
       /\ pc[t] = "answered" =>
            /\ Answered(t) /\ "IS_SET" \notin state[at[t]]
            /\ \A d \in Daemons : ~Working(d, at[t])

\* Whoever works on a request that was not given up works for a posted one.
Employed ==
  \A d \in Daemons, i \in Instances :
    Working(d, i) => \E t \in Threads : at[t] = i /\ pc[t] \in Posted

\* The invariant: unless a stale daemon thread has touched the instance.
FaithfulUnlessLate == \A t \in Threads : at[t] \notin late => Faithful(t)

AnswerInv == Employed /\ FaithfulUnlessLate

\* The invariants it rests on.
ChannelInv == TypeOK /\ OneOwner /\ OneDaemon /\ NoOrphanRequest /\ NoLostWakeup

\* They hold together in every state.
LEMMA ChannelSafe == Spec => []ChannelInv
  BY TypeCorrect, Exclusive, DeviceExclusive, NoOrphans, NoWakeupLost, PTL
  DEF ChannelInv

-----------------------------------------------------------------------------
(***************************************************************************)
(* Steps elsewhere                                                         *)
(***************************************************************************)
\* A step that leaves alone what instance i says of its request: two flags, the
\* error and the buffer, and the daemon threads that serve it.
Untouched(i) ==
  /\ "IS_SET" \in state'[i] <=> "IS_SET" \in state[i]
  /\ "DAEMON_INPROGRESS" \in state'[i] <=> "DAEMON_INPROGRESS" \in state[i]
  /\ error'[i] = error[i] /\ buf'[i] = buf[i]
  /\ i \in late => i \in late'
  /\ \A d \in Daemons :
       /\ Working(d, i)' => Working(d, i)
       /\ at[d] = i /\ pc[d] = "publish" <=> at'[d] = i /\ pc'[d] = "publish"
       /\ Working(d, i) => got'[d] = got[d]

\* It does not disturb a thread at that instance that does not move.
LEMMA UntouchedKeeps ==
  ASSUME NEW t \in Threads, Untouched(at[t]),
         pc'[t] = pc[t], at'[t] = at[t], op'[t] = op[t],
         at[t] \notin late => Faithful(t)
  PROVE  at'[t] \notin late' => Faithful(t)'
<1> SUFFICES ASSUME at'[t] \notin late' PROVE Faithful(t)'
  OBVIOUS
<1>1. Faithful(t)
  BY DEF Untouched
<1>2. Unanswered(at[t])' <=> Unanswered(at[t])
  BY DEF Untouched, Unanswered
<1>3. Sent(t) <=> Sent(t)'
  BY DEF Untouched, Sent
<1>4. Answered(t) <=> Answered(t)'
  BY DEF Untouched, Answered
<1>5. ASSUME NEW d \in Daemons, Working(d, at[t])', pc[t] \in Posted
      PROVE  WorksFor(d, t)'
  <2>1. Working(d, at[t]) /\ WorksFor(d, t)
    BY <1>1, <1>5 DEF Untouched, Faithful
  <2>2. got'[d] = got[d] /\ buf'[at'[t]] = buf[at[t]]
    BY <2>1 DEF Untouched
  <2>3. pc'[d] = "publish" => pc[d] = "publish"
    BY <1>5 DEF Untouched, Working
  <2>4. "IS_SET" \notin state'[at'[t]] /\ Unanswered(at[t])'
    BY <1>2, <2>1 DEF Untouched, WorksFor
  <2> QED
    BY <2>1, <2>2, <2>3, <2>4 DEF WorksFor
<1> QED
  BY <1>1, <1>2, <1>3, <1>4, <1>5 DEF Faithful, Untouched

\* Threads that own the same instance are the same, and so are daemon threads
\* that have it open.
LEMMA Alone ==
  ASSUME OneOwner, OneDaemon, NEW i \in Instances
  PROVE  /\ \A t, u \in Threads :
              at[t] = i /\ at[u] = i /\ pc[t] \in Owning /\ pc[u] \in Owning => t = u
         /\ \A d, e \in Daemons :
              at[d] = i /\ at[e] = i /\ pc[d] \in Serving \cup {"reading"}
                /\ pc[e] \in Serving \cup {"reading"} => d = e
  BY DEF OneOwner, OneDaemon, Owns, HasOpen

\* A request that is worked on has been posted by whoever owns the instance.
LEMMA Employer ==
  ASSUME OneOwner, Employed, NEW t \in Threads, pc[t] \in Owning, at[t] \in Instances,
         NEW d \in Daemons, Working(d, at[t])
  PROVE  pc[t] \in Posted
  BY DEF OneOwner, Owns, Employed, Posted

-----------------------------------------------------------------------------
(***************************************************************************)
(* The steps of a thread                                                   *)
(***************************************************************************)
\* What the step of thread u leaves as it is.
LEMMA ThreadLeaves ==
  ASSUME TypeOK, NEW u \in Threads, OfThread(u)
  PROVE  /\ error' = error /\ got' = got /\ stale \subseteq stale'
         /\ \A t \in Threads \ {u} : op'[t] = op[t]
         /\ \A i \in Instances \ {at[u]} :
              /\ buf'[i] = buf[i]
              /\ i \in late => i \in late'
         /\ pc[u] \notin Owning => buf' = buf
         /\ pc[u] \in Owning => op' = op /\ late' = late
         /\ "INPROGRESS" \in state[at[u]] /\ pc[u] \notin Owning =>
              state' = state /\ late' = late
         /\ pc[u] \in Posted => buf' = buf
<1> USE DEF TypeOK, Procs, history, device, daemon, Posted, Owning
<1>1. CASE Call(u)
  BY <1>1 DEF Call
<1>2. CASE Enter(u)
  BY <1>2 DEF Enter, ScanTake, ScanSkip, ScanOpened, WaitTurn, WaitOpen, Runs,
              TakeTurn, Claim, Advance, Busy
<1>3. CASE EnterInterrupted(u) \/ Interrupt(u) \/ Expire(u)
  BY <1>3 DEF EnterInterrupted, Interrupt, Expire, WakeWithoutAnswer
<1>4. CASE Fill(u)
  BY <1>4 DEF Fill, Runs
<1>5. CASE Post(u) \/ Await(u)
  BY <1>5 DEF Post, Await, Runs
<1>6. CASE Cancel(u) \/ CopyReply(u)
  BY <1>6 DEF Cancel, CopyReply, Runs
<1>7. CASE Exit(u)
  BY <1>7 DEF Exit
<1> QED
  BY <1>1, <1>2, <1>3, <1>4, <1>5, <1>6, <1>7 DEF OfThread, ThreadStep

\* It moves no daemon thread, and none begins to work.
LEMMA ThreadStartsNoWork ==
  ASSUME TypeOK, NEW u \in Threads, OfThread(u)
  PROVE  /\ \A d \in Daemons : pc'[d] = pc[d] /\ at'[d] = at[d]
         /\ \A d \in Daemons, i \in Instances : Working(d, i)' => Working(d, i)
<1>1. \A d \in Daemons : pc'[d] = pc[d] /\ at'[d] = at[d]
  BY ThreadFrame, RequestAssumption DEF Frame, Procs
<1> QED
  BY <1>1, ThreadLeaves DEF Working

\* It does not disturb another thread that has filled its buffer.
LEMMA ThreadElsewhere ==
  ASSUME ChannelInv, NEW u \in Threads, OfThread(u), NEW t \in Threads \ {u},
         pc[t] \in Owning, at[t] \notin late => Faithful(t)
  PROVE  at'[t] \notin late' => Faithful(t)'
<1> USE DEF ChannelInv
<1>1. at[t] \in Instances
  BY DEF TypeOK, Procs, Owning
<1>2. /\ pc'[t] = pc[t] /\ at'[t] = at[t] /\ op'[t] = op[t]
      /\ \A i \in Instances : i # at[u] => state'[i] = state[i]
  BY ThreadFrame, ThreadLeaves DEF Frame, Procs
<1>3. CASE at[u] # at[t]
  <2>1. Untouched(at[t])
    BY <1>1, <1>2, <1>3, ThreadLeaves, ThreadStartsNoWork DEF Untouched
  <2> QED
    BY <1>2, <2>1, UntouchedKeeps
<1>4. CASE at[u] = at[t]
  <2>1. "INPROGRESS" \in state[at[u]] /\ pc[u] \notin Owning
    BY <1>1, <1>4 DEF OneOwner, Owns
  <2>2. state' = state /\ late' = late /\ buf' = buf /\ error' = error /\ got' = got
    BY <2>1, ThreadLeaves
  <2>3. Untouched(at[t])
    BY <1>1, <1>2, <2>2, ThreadStartsNoWork DEF Untouched
  <2> QED
    BY <1>2, <2>3, UntouchedKeeps
<1> QED
  BY <1>3, <1>4

\* A thread's own step keeps its request faithful.
LEMMA ThreadOwn ==
  ASSUME ChannelInv, AnswerInv, NEW u \in Threads, OfThread(u), at'[u] \notin late'
  PROVE  Faithful(u)'
<1> USE DEF ChannelInv, TypeOK, Procs, Goto, Set
<1>1. CASE Call(u) \/ EnterInterrupted(u) \/ Exit(u)
  BY <1>1 DEF Call, EnterInterrupted, Exit, Faithful, Posted, Owning
<1>2. CASE Enter(u)
  <2>1. pc'[u] \in {"scan", "scanOpened", "waitTurn", "waitOpen", "fill"}
    BY <1>2 DEF Enter, ScanTake, ScanSkip, ScanOpened, WaitTurn, WaitOpen, Runs,
                TakeTurn, Claim, Advance
  <2> QED
    BY <2>1 DEF Faithful, Posted, Owning
<1>3. CASE Fill(u)
  <2>1. /\ pc'[u] = "post" /\ at' = at /\ op' = op /\ at[u] \in Instances
        /\ \A d \in Daemons : pc'[d] = pc[d]
    BY <1>3, RequestAssumption DEF Fill, Runs
  <2>2. PICK c \in {RequestOf(u, op[u])} \cup
                   (IF \E d \in Daemons : at[d] = at[u] /\ pc[d] = "publish"
                    THEN {Garbage} ELSE {}) :
          buf' = [buf EXCEPT ![at[u]] = c]
    BY <1>3 DEF Fill
  <2>3. Sent(u)'
    BY <2>1, <2>2 DEF Sent
  <2> QED
    BY <2>1, <2>3 DEF Faithful, Posted, Owning
<1> SUFFICES ASSUME pc[u] \in Owning, at[u] \in Instances, at' = at, op' = op,
                    buf' = buf, error' = error, late' = late, got' = got, stale' = stale,
                    \A d \in Daemons : pc'[d] = pc[d],
                    Post(u) \/ Await(u) \/ Expire(u) \/ Interrupt(u) \/ Cancel(u)
                      \/ CopyReply(u)
             PROVE  Faithful(u)'
  <2>1. CASE Post(u) \/ Await(u)
    BY <2>1, ThreadStartsNoWork DEF Post, Await, Runs, Owning, device, daemon, history
  <2>2. CASE Expire(u) \/ Interrupt(u)
    BY <2>2, ThreadStartsNoWork
    DEF Expire, Interrupt, WakeWithoutAnswer, Owning, device, daemon, history
  <2>3. CASE Cancel(u) \/ CopyReply(u)
    BY <2>3, ThreadStartsNoWork DEF Cancel, CopyReply, Runs, Owning, device, daemon, history
  <2> QED
    BY <1>1, <1>2, <1>3, <2>1, <2>2, <2>3 DEF OfThread, ThreadStep
<1>4. Faithful(u)
  BY DEF AnswerInv, FaithfulUnlessLate
<1>5. /\ Sent(u)' <=> Sent(u)
      /\ Answered(u)' <=> Answered(u)
      /\ \A d \in Daemons : Working(d, at[u])' <=> Working(d, at[u])
  BY DEF Sent, Answered, Working
<1>6. CASE Post(u)
  <2>1. pc[u] = "post" /\ pc'[u] = "await" /\ Unanswered(at[u])'
    BY <1>6 DEF Post, Runs, Unanswered
  <2>2. \A d \in Daemons : ~Working(d, at[u])
    BY <2>1, Employer DEF AnswerInv, Posted
  <2> QED
    BY <1>4, <1>5, <2>1, <2>2 DEF Faithful
<1>7. CASE Await(u)
  <2>1. pc[u] = "await" /\ state' = state
    BY <1>7 DEF Await, Runs
  <2>2. pc'[u] = "answered" => ~Unanswered(at[u])
    BY <1>7, <2>1 DEF Await, StillWaiting, After, Unanswered
  <2>3. pc'[u] # "post"
    BY <1>7, <2>1 DEF Await, After
  <2>4. Unanswered(at[u])' <=> Unanswered(at[u])
    BY <2>1 DEF Unanswered
  <2>5. \A d \in Daemons : WorksFor(d, u)' <=> WorksFor(d, u)
    BY <2>1, <2>4 DEF WorksFor
  <2>6. pc[u] \in Posted
    BY <2>1 DEF Posted, Owning
  <2>7. pc'[u] = "answered" =>
          /\ Answered(u) /\ "IS_SET" \notin state[at[u]]
          /\ \A d \in Daemons : ~Working(d, at[u])
    BY <1>4, <2>1, <2>2, <2>6 DEF Faithful, WorksFor
  <2>8. pc'[u] = "await" /\ ~Unanswered(at[u]) => Answered(u)
    BY <1>4, <2>1, <2>6 DEF Faithful
  <2>9. /\ "IS_SET" \in state[at[u]] => Sent(u) /\ Unanswered(at[u])
        /\ \A d \in Daemons : Working(d, at[u]) => WorksFor(d, u)
    BY <1>4, <2>6 DEF Faithful
  <2>10. "IS_SET" \in state'[at'[u]] => Sent(u)' /\ Unanswered(at[u])'
    BY <1>5, <2>1, <2>4, <2>9
  <2>11. \A d \in Daemons : Working(d, at[u])' => WorksFor(d, u)'
    BY <1>5, <2>5, <2>9
  <2>12. pc'[u] = "await" /\ ~Unanswered(at[u])' => Answered(u)'
    BY <1>5, <2>4, <2>8
  <2>13. pc'[u] = "answered" =>
           /\ Answered(u)' /\ "IS_SET" \notin state'[at'[u]]
           /\ \A d \in Daemons : ~Working(d, at[u])'
    BY <1>5, <2>1, <2>7
  <2> QED
    BY <2>3, <2>10, <2>11, <2>12, <2>13 DEF Faithful
<1>8. CASE Expire(u) \/ Interrupt(u) \/ Cancel(u) \/ CopyReply(u)
  <2>1. pc[u] \in Posted /\ pc'[u] \notin {"post", "await", "answered"}
    BY <1>8 DEF Expire, Interrupt, WakeWithoutAnswer, Cancel, CopyReply, Runs, After,
                Posted, Owning
  <2>2. /\ "IS_SET" \in state'[at[u]] <=> "IS_SET" \in state[at[u]]
        /\ Unanswered(at[u])' <=> Unanswered(at[u])
    <3>1. CASE state' = state
      BY <3>1 DEF Unanswered
    <3>2. CASE Cancel(u)
      BY <3>2 DEF Cancel, Unanswered
    <3>3. CASE Expire(u) \/ Interrupt(u) \/ CopyReply(u)
      BY <3>1, <3>3 DEF Expire, Interrupt, WakeWithoutAnswer, CopyReply
    <3> QED
      BY <1>8, <3>2, <3>3
  <2>3. \A d \in Daemons : WorksFor(d, u)' <=> WorksFor(d, u)
    BY <2>2 DEF WorksFor
  <2> QED
    BY <1>4, <1>5, <2>1, <2>2, <2>3 DEF Faithful
<1> QED
  BY <1>6, <1>7, <1>8

\* A thread that stops waiting leaves its instance through exit, and whoever
\* still works on its request is stale from then on.
LEMMA ThreadEmploys ==
  ASSUME ChannelInv, AnswerInv, NEW u \in Threads, OfThread(u)
  PROVE  Employed'
<1> USE DEF ChannelInv
<1> SUFFICES ASSUME NEW d \in Daemons, NEW i \in Instances, Working(d, i)'
             PROVE  \E t \in Threads : at'[t] = i /\ pc'[t] \in Posted
  BY DEF Employed
<1>1. Working(d, i)
  BY ThreadStartsNoWork
<1>2. PICK t \in Threads : at[t] = i /\ pc[t] \in Posted
  BY <1>1 DEF AnswerInv, Employed
<1>3. CASE t # u
  BY <1>2, <1>3, ThreadFrame DEF Frame, Procs
<1>4. CASE t = u /\ Exit(u)
  BY <1>1, <1>2, <1>4 DEF Exit, Working
<1>5. CASE t = u /\ ~Exit(u)
  <2>1. at'[u] = at[u] /\ pc'[u] \in Posted
    <3>1. \A err : After(u, err) \in Posted
      BY DEF After, Posted, Owning
    <3>2. pc[u] \in Posted
      BY <1>2, <1>5
    <3>3. Await(u) \/ Expire(u) \/ Interrupt(u) \/ Cancel(u) \/ CopyReply(u)
      BY <1>5, <3>2
      DEF OfThread, ThreadStep, Call, Enter, ScanTake, ScanSkip, ScanOpened, WaitTurn,
          WaitOpen, Fill, Post, EnterInterrupted, Runs, Posted, Owning
    <3> USE DEF Goto, Posted, Owning, TypeOK, Procs
    <3>4. CASE Await(u) \/ Cancel(u)
      BY <3>1, <3>2, <3>4 DEF Await, Cancel, Runs
    <3>5. CASE Expire(u) \/ Interrupt(u)
      BY <3>5 DEF Expire, Interrupt, WakeWithoutAnswer
    <3>6. CASE CopyReply(u)
      BY <3>6 DEF CopyReply, Runs
    <3> QED
      BY <3>3, <3>4, <3>5, <3>6
  <2> QED
    BY <1>2, <1>5, <2>1
<1> QED
  BY <1>3, <1>4, <1>5

\* The steps of a thread keep the invariant.
LEMMA ThreadAnswers ==
  ASSUME ChannelInv, AnswerInv, NEW u \in Threads, OfThread(u)
  PROVE  AnswerInv'
<1>1. ASSUME NEW t \in Threads, at'[t] \notin late' PROVE Faithful(t)'
  <2>1. CASE t = u
    BY <1>1, <2>1, ThreadOwn
  <2>2. CASE t # u /\ pc[t] \in Owning
    BY <1>1, <2>2, ThreadElsewhere DEF AnswerInv, FaithfulUnlessLate
  <2>3. CASE t # u /\ pc[t] \notin Owning
    BY <2>3, ThreadFrame DEF ChannelInv, Frame, Procs, Faithful, Posted, Owning
  <2> QED
    BY <2>1, <2>2, <2>3
<1> QED
  BY <1>1, ThreadEmploys DEF AnswerInv, FaithfulUnlessLate

-----------------------------------------------------------------------------
(***************************************************************************)
(* The steps of a daemon thread                                            *)
(***************************************************************************)
\* What the step of daemon thread e leaves as it is.
LEMMA DaemonLeaves ==
  ASSUME TypeOK, NEW e \in Daemons, OfDaemon(e)
  PROVE  /\ op' = op /\ late \subseteq late'
         /\ \A t \in Threads : pc'[t] = pc[t] /\ at'[t] = at[t]
         /\ \A i \in Instances \ {at[e]} :
              state'[i] = state[i] /\ error'[i] = error[i] /\ buf'[i] = buf[i]
         /\ \A d \in Daemons \ {e} :
              /\ pc'[d] = pc[d] /\ at'[d] = at[d] /\ got'[d] = got[d]
              /\ d \in stale' <=> d \in stale
<1>1. /\ \A t \in Threads : pc'[t] = pc[t] /\ at'[t] = at[t]
      /\ \A i \in Instances \ {at[e]} : state'[i] = state[i]
      /\ \A d \in Daemons \ {e} : pc'[d] = pc[d] /\ at'[d] = at[d]
  BY DaemonFrame, RequestAssumption DEF Frame, Procs
<1> USE <1>1 DEF TypeOK, Procs, Goto, history, device, daemon, Serving
<1>2. CASE Open(e) \/ OpenTake(e) \/ OpenSkip(e)
  BY <1>2 DEF Open, OpenTake, OpenSkip
<1>3. CASE FdZero(e) \/ FdSet(e) \/ SelectCall(e) \/ SelectReturn(e) \/ SelectInterrupted(e)
  BY <1>3 DEF FdZero, FdSet, SelectCall, SelectReturn, SelectInterrupted
<1>4. CASE ReadWait(e) \/ ReadInterrupted(e)
  BY <1>4 DEF ReadWait, ReadInterrupted
<1>5. CASE ReadFetch(e)
  BY <1>5 DEF ReadFetch
<1>6. CASE CopyIn(e) \/ CopyInFails(e)
  BY <1>6 DEF CopyIn, CopyInFails
<1>7. CASE Publish(e)
  BY <1>7 DEF Publish
<1>8. CASE Close(e)
  BY <1>8 DEF Close
<1> QED
  BY <1>2, <1>3, <1>4, <1>5, <1>6, <1>7, <1>8 DEF OfDaemon, DaemonStep

\* The steps that begin, change or end the work on a request.
OfWork(e) == ReadFetch(e) \/ CopyIn(e) \/ CopyInFails(e) \/ Publish(e) \/ Close(e)

\* The other steps leave every instance alone.
LEMMA IdleUntouched ==
  ASSUME TypeOK, NEW e \in Daemons, OfDaemon(e), ~OfWork(e), NEW i \in Instances
  PROVE  Untouched(i)
<1>1. CASE Open(e) \/ OpenTake(e) \/ OpenSkip(e)
  <2>1. pc[e] \notin Serving /\ pc'[e] \notin Serving
    BY <1>1 DEF Open, OpenTake, OpenSkip, Goto, TypeOK, Procs, Serving
  <2>2. error' = error /\ buf' = buf
    BY <1>1 DEF Open, OpenTake, OpenSkip, device
  <2>3. /\ "IS_SET" \in state'[i] <=> "IS_SET" \in state[i]
        /\ "DAEMON_INPROGRESS" \in state'[i] <=> "DAEMON_INPROGRESS" \in state[i]
    BY <1>1 DEF Open, OpenTake, OpenSkip, Set, TypeOK
  <2> QED
    BY <2>1, <2>2, <2>3, DaemonLeaves DEF Untouched, Working, Serving
<1>2. CASE \/ FdZero(e) \/ FdSet(e) \/ SelectCall(e) \/ SelectReturn(e)
           \/ SelectInterrupted(e) \/ ReadWait(e)
  <2>1. pc[e] \notin Serving /\ pc'[e] \notin Serving
    BY <1>2 DEF FdZero, FdSet, SelectCall, SelectReturn, SelectInterrupted, ReadWait, Runs,
                Goto, TypeOK, Procs, Serving
  <2>2. error' = error /\ buf' = buf /\ state' = state
    BY <1>2 DEF FdZero, FdSet, SelectCall, SelectReturn, SelectInterrupted, ReadWait, device
  <2> QED
    BY <2>1, <2>2, DaemonLeaves DEF Untouched, Working, Serving
<1>3. CASE ReadInterrupted(e)
  <2>1. pc[e] \notin Serving /\ pc'[e] # "publish" /\ e \in stale'
    BY <1>3 DEF ReadInterrupted, Goto, TypeOK, Procs, Serving
  <2>2. error' = error /\ buf' = buf /\ state' = state
    BY <1>3 DEF ReadInterrupted, device
  <2> QED
    BY <2>1, <2>2, DaemonLeaves DEF Untouched, Working, Serving
<1> QED
  BY <1>1, <1>2, <1>3 DEF OfDaemon, OfWork, DaemonStep

\* Nor do they, at another instance than the daemon thread's own.
LEMMA DaemonElsewhere ==
  ASSUME TypeOK, NEW e \in Daemons, OfDaemon(e), OfWork(e), NEW i \in Instances \ {at[e]}
  PROVE  Untouched(i)
<1>1. at'[e] = at[e] \/ pc'[e] = "closed"
  BY DEF OfWork, ReadFetch, CopyIn, CopyInFails, Publish, Close, Goto, TypeOK, Procs
<1> QED
  BY <1>1, DaemonLeaves DEF Untouched, Working, Serving

\* A request is fetched whole: from then on the daemon thread works for the
\* thread that posted it.
LEMMA FetchKeeps ==
  ASSUME ChannelInv, AnswerInv, NEW e \in Daemons, ReadFetch(e),
         NEW t \in Threads, at[t] = at[e], pc[t] \in Owning, Faithful(t)
  PROVE  Faithful(t)'
<1> USE DEF ChannelInv
<1>1. /\ at[e] \in Instances /\ pc[e] = "reading" /\ pc'[e] \in {"serve", "loop"}
      /\ "IS_SET" \in state[at[t]] /\ "IS_SET" \notin state'[at[t]]
      /\ "DAEMON_INPROGRESS" \in state'[at[t]] <=> "DAEMON_INPROGRESS" \in state[at[t]]
      /\ buf' = buf /\ error' = error /\ at' = at /\ stale' = stale \ {e} /\ OfDaemon(e)
  BY DEF ReadFetch, Runs, Goto, Clear, TypeOK, Procs, device, OfDaemon, DaemonStep
<1>2. pc'[t] = pc[t] /\ op' = op /\ \A d \in Daemons \ {e} : pc'[d] = pc[d]
  BY <1>1, DaemonLeaves
<1>3. pc[t] \in Posted
  BY <1>1 DEF NoOrphanRequest, OneOwner, Owns, Posted
<1>4. Sent(t) /\ Unanswered(at[t]) /\ pc[t] # "answered"
  BY <1>1, <1>3 DEF Faithful
<1>5. Unanswered(at[t])'
  BY <1>1, <1>4 DEF Unanswered
<1>6. ASSUME NEW d \in Daemons, Working(d, at[t])' PROVE WorksFor(d, t)'
  <2>1. d = e
    BY <1>1, <1>2, <1>3, <1>6 DEF Faithful, Working, WorksFor
  <2>2. buf[at[t]] = RequestOf(t, op[t])
    BY <1>1, <1>4, Alone DEF Sent, Serving
  <2>3. got'[e] = RequestOf(t, op[t])
    BY <1>1, <1>6, <2>1, <2>2 DEF ReadFetch, Working, Serving, RequestOf, Goto, TypeOK, Procs
  <2> QED
    BY <1>1, <1>2, <1>5, <2>1, <2>3 DEF WorksFor
<1> QED
  BY <1>1, <1>2, <1>3, <1>4, <1>5, <1>6 DEF Faithful, Posted

\* The answer copied in is the answer to the owner's request.
LEMMA CopyKeeps ==
  ASSUME ChannelInv, AnswerInv, NEW e \in Daemons, CopyIn(e) \/ CopyInFails(e),
         NEW t \in Threads, at[t] = at[e], pc[t] \in Owning, Faithful(t), at[t] \notin late'
  PROVE  Faithful(t)'
<1> USE DEF ChannelInv
<1>1. /\ at[e] \in Instances /\ pc[e] = "serve" /\ e \notin stale
      /\ pc'[e] = IF CopyIn(e) THEN "publish" ELSE "faulted"
      /\ state' = state /\ error' = error /\ at' = at /\ got' = got /\ stale' = stale
      /\ OfDaemon(e)
  BY DEF CopyIn, CopyInFails, Goto, TypeOK, Procs, daemon, OfDaemon, DaemonStep
<1>2. pc'[t] = pc[t] /\ op' = op /\ \A d \in Daemons \ {e} : pc'[d] = pc[d]
  BY <1>1, DaemonLeaves
<1>3. Working(e, at[t])
  BY <1>1 DEF Working, Serving
<1>4. pc[t] \in Posted
  BY <1>1, <1>3, Employer DEF AnswerInv
<1>5. WorksFor(e, t) /\ pc[t] # "answered"
  BY <1>3, <1>4 DEF Faithful
<1>6. "IS_SET" \notin state[at[t]] /\ Unanswered(at[t])'
  BY <1>1, <1>5 DEF WorksFor, Unanswered
<1>7. CopyIn(e) => \E r \in Results : buf'[at[t]] = ResponseTo(t, op[t], r)
  <2>1. \A u \in Threads : ~(at[u] = at[e] /\ pc[u] = "post")
    BY <1>1, <1>4, Alone DEF Posted, Owning
  <2>2. got[e] = RequestOf(t, op[t])
    BY <1>5 DEF WorksFor
  <2> QED
    BY <1>1, <2>1, <2>2 DEF CopyIn, RequestOf, TypeOK
<1>8. ASSUME NEW d \in Daemons, Working(d, at[t])' PROVE WorksFor(d, t)'
  <2>1. d = e
    BY <1>1, <1>2, <1>8, Alone DEF Working, Serving
  <2> QED
    BY <1>1, <1>2, <1>5, <1>6, <1>7, <2>1 DEF WorksFor
<1> QED
  BY <1>1, <1>2, <1>4, <1>5, <1>6, <1>8 DEF Faithful, Posted

\* What is published as the result is the result of the owner's request.
LEMMA PublishKeeps ==
  ASSUME ChannelInv, AnswerInv, NEW e \in Daemons, Publish(e),
         NEW t \in Threads, at[t] = at[e], pc[t] \in Owning, Faithful(t), at[t] \notin late'
  PROVE  Faithful(t)'
<1> USE DEF ChannelInv
<1>1. /\ at[e] \in Instances /\ pc[e] \in {"publish", "faulted"} /\ pc'[e] = "loop"
      /\ e \notin stale /\ "IS_SET" \notin state'[at[t]]
      /\ buf' = buf /\ at' = at /\ got' = got /\ stale' = stale \ {e} /\ OfDaemon(e)
  BY DEF Publish, Goto, Clear, TypeOK, Procs, daemon, OfDaemon, DaemonStep
<1>2. pc'[t] = pc[t] /\ op' = op /\ \A d \in Daemons \ {e} : pc'[d] = pc[d]
  BY <1>1, DaemonLeaves
<1>3. Working(e, at[t])
  BY <1>1 DEF Working, Serving
<1>4. pc[t] \in Posted
  BY <1>1, <1>3, Employer DEF AnswerInv
<1>5. WorksFor(e, t) /\ pc[t] # "answered"
  BY <1>3, <1>4 DEF Faithful
<1>6. \A d \in Daemons : ~Working(d, at[t])'
  BY <1>1, <1>2, Alone DEF Working, Serving
<1>7. ~Unanswered(at[t])' => Answered(t)'
  <2>1. CASE pc[e] = "publish"
    <3>1. PICK r \in Results : buf[at[t]] = ResponseTo(t, op[t], r)
      BY <1>5, <2>1 DEF WorksFor
    <3>2. error'[at[t]] = r
      BY <1>1, <2>1, <3>1 DEF Publish, ResultField, ResponseTo, TypeOK
    <3> QED
      BY <1>1, <1>2, <3>1, <3>2 DEF Unanswered, Answered
  <2>2. CASE pc[e] = "faulted"
    BY <1>1, <2>2 DEF Publish, Unanswered, TypeOK
  <2> QED
    BY <1>1, <2>1, <2>2
<1> QED
  BY <1>1, <1>2, <1>4, <1>5, <1>6, <1>7 DEF Faithful, Posted

\* A daemon thread that dies leaves an error to whoever still waits.
LEMMA CloseKeeps ==
  ASSUME ChannelInv, AnswerInv, NEW e \in Daemons, Close(e),
         NEW t \in Threads, at[t] = at[e], pc[t] \in Owning, Faithful(t)
  PROVE  Faithful(t)'
<1> USE DEF ChannelInv
<1>1. /\ at[t] \in Instances /\ pc[e] # "publish" /\ pc'[e] = "closed"
      /\ buf' = buf /\ got' = got /\ stale' = stale \ {e} /\ OfDaemon(e)
  BY DEF Close, Goto, TypeOK, Procs, Selecting, OfDaemon, Owning
<1>2. /\ pc'[t] = pc[t] /\ at'[t] = at[t] /\ op' = op
      /\ \A d \in Daemons \ {e} : pc'[d] = pc[d] /\ at'[d] = at[d]
  BY <1>1, DaemonLeaves
<1>3. "IS_SET" \in state'[at[t]] <=> "IS_SET" \in state[at[t]]
  BY <1>1 DEF Close, Clear, CloseFlags, TypeOK
<1>4. Unanswered(at[t])' <=> Unanswered(at[t])
  BY <1>1, <1>2 DEF Close, Clear, CloseFlags, TypeOK, Unanswered
<1>5. /\ Sent(t)' <=> Sent(t)
      /\ Answered(t)' <=> Answered(t)
  BY <1>1, <1>2 DEF Sent, Answered
<1>6. ASSUME NEW d \in Daemons, Working(d, at[t])'
      PROVE  Working(d, at[t]) /\ (WorksFor(d, t) => WorksFor(d, t)')
  <2>1. d # e /\ Working(d, at[t])
    BY <1>1, <1>2, <1>6 DEF Working, Serving
  <2> QED
    BY <1>1, <1>2, <1>3, <1>4, <2>1 DEF WorksFor
<1>7. pc[t] = "await" /\ ~Unanswered(at[t])' => Answered(t)'
  BY <1>4, <1>5 DEF Faithful, Posted, Owning
<1> QED
  BY <1>2, <1>3, <1>4, <1>5, <1>6, <1>7 DEF Faithful

\* Only a request that a thread has posted is fetched.
LEMMA DaemonEmploys ==
  ASSUME ChannelInv, AnswerInv, NEW e \in Daemons, OfDaemon(e)
  PROVE  Employed'
<1> USE DEF ChannelInv
<1> SUFFICES ASSUME NEW d \in Daemons, NEW i \in Instances, Working(d, i)'
             PROVE  \E t \in Threads : at[t] = i /\ pc[t] \in Posted
  BY DaemonLeaves DEF Employed
<1>1. CASE Working(d, i)
  BY <1>1 DEF AnswerInv, Employed
<1>2. CASE ~Working(d, i)
  <2>1. d = e
    BY <1>2, DaemonLeaves DEF Working
  <2>2. OfWork(e)
    BY <1>2, IdleUntouched DEF Untouched
  <2>3. ReadFetch(e) /\ at[e] = i
    BY <1>2, <2>1, <2>2
    DEF OfWork, ReadFetch, CopyIn, CopyInFails, Publish, Close, Goto, Working, Serving,
        daemon, history, TypeOK, Procs
  <2> QED
    BY <2>3 DEF ReadFetch, NoOrphanRequest
<1> QED
  BY <1>1, <1>2

\* The steps of a daemon thread keep the invariant.
LEMMA DaemonAnswers ==
  ASSUME ChannelInv, AnswerInv, NEW e \in Daemons, OfDaemon(e)
  PROVE  AnswerInv'
<1> USE DEF ChannelInv
<1>1. ASSUME NEW t \in Threads, at'[t] \notin late' PROVE Faithful(t)'
  <2>1. pc'[t] = pc[t] /\ at'[t] = at[t] /\ op'[t] = op[t]
    BY DaemonLeaves
  <2>2. Faithful(t)
    BY <1>1, <2>1, DaemonLeaves DEF AnswerInv, FaithfulUnlessLate
  <2>3. CASE pc[t] \notin Owning
    BY <2>1, <2>3 DEF Faithful, Posted, Owning
  <2>4. CASE pc[t] \in Owning
    <3>1. at[t] \in Instances
      BY <2>4 DEF TypeOK, Procs, Owning
    <3>2. CASE ~OfWork(e) \/ at[t] # at[e]
      BY <1>1, <2>1, <2>2, <3>1, <3>2, IdleUntouched, DaemonElsewhere, UntouchedKeeps
    <3>3. CASE OfWork(e) /\ at[t] = at[e]
      BY <1>1, <2>1, <2>2, <2>4, <3>3, FetchKeeps, CopyKeeps, PublishKeeps, CloseKeeps
      DEF OfWork
    <3> QED
      BY <3>2, <3>3
  <2> QED
    BY <2>3, <2>4
<1> QED
  BY <1>1, DaemonEmploys DEF AnswerInv, FaithfulUnlessLate

-----------------------------------------------------------------------------
(***************************************************************************)
(* The theorems                                                            *)
(***************************************************************************)
\* Nobody has posted anything after attach.
LEMMA AnswerInit == Init => AnswerInv
  BY RequestAssumption
  DEF Init, AnswerInv, Employed, FaithfulUnlessLate, Faithful, Working, Serving, Posted,
      Owning, Procs

\* Every step keeps the invariant.
LEMMA AnswerNext == ChannelInv /\ AnswerInv /\ [Next]_vars => AnswerInv'
<1> SUFFICES ASSUME ChannelInv, AnswerInv, [Next]_vars PROVE AnswerInv'
  OBVIOUS
<1>1. CASE UNCHANGED vars
  BY <1>1 DEF vars, AnswerInv, Employed, FaithfulUnlessLate, Faithful, Working, WorksFor,
              Unanswered, Sent, Answered
<1>2. ASSUME NEW t \in Threads, OfThread(t) PROVE AnswerInv'
  BY <1>2, ThreadAnswers
<1>3. ASSUME NEW d \in Daemons, OfDaemon(d) PROVE AnswerInv'
  BY <1>3, DaemonAnswers
<1> QED
  BY <1>1, <1>2, <1>3, NextSplit

\* The invariant of the buffers holds in every state.
LEMMA AnswersFaithful == Spec => [](ChannelInv /\ AnswerInv)
  BY ChannelSafe, AnswerInit, AnswerNext, PTL DEF Spec

\* A thread that iumfs_daemon_request_start tells that its request succeeded
\* finds the answer to that request in the buffer, through every timeout,
\* signal and restart, unless a daemon thread answered an abandoned request on
\* this instance since the thread claimed it.
THEOREM OwnAnswer == Spec => []AnswerIsOwnUnlessLate
<1>1. ChannelInv /\ AnswerInv => AnswerIsOwnUnlessLate
  BY DEF AnswerInv, FaithfulUnlessLate, Faithful, Answered, AnswerIsOwnUnlessLate, Posted,
         Owning
<1> QED
  BY <1>1, AnswersFaithful, PTL

\* A daemon thread whose request was not given up works for the present owner
\* of its instance, on that owner's request.
THEOREM ServesOwner == Spec => []ServesTheOwner
<1>1. ChannelInv /\ AnswerInv => ServesTheOwner
  <2> SUFFICES ASSUME ChannelInv, AnswerInv, NEW d \in Daemons,
                      pc[d] \in Serving, d \notin stale, at[d] \notin late
               PROVE  \E t \in Threads :
                        /\ at[t] = at[d] /\ pc[t] \in Posted
                        /\ got[d] = RequestOf(t, op[t])
    BY DEF ServesTheOwner
  <2>1. Working(d, at[d]) /\ at[d] \in Instances
    BY DEF Working, ChannelInv, TypeOK, Procs, Serving
  <2>2. PICK t \in Threads : at[t] = at[d] /\ pc[t] \in Posted
    BY <2>1 DEF AnswerInv, Employed
  <2> QED
    BY <2>1, <2>2 DEF AnswerInv, FaithfulUnlessLate, Faithful, WorksFor
<1> QED
  BY <1>1, AnswersFaithful, PTL

-----------------------------------------------------------------------------
(***************************************************************************)
(* When nobody gives up                                                    *)
(***************************************************************************)
\* No timer fires, no signal arrives and no daemon thread dies: all that may
\* go wrong is the copy of an answer.
NobodyGivesUp == Faults \subseteq {"writeEFAULT"}

\* The wait of t for its answer is over.
Settled(t) ==
  \/ pc[t] \in {"answered", "exit", "retry", "finish"}
  \/ pc[t] = "await" /\ "DAEMON_INPROGRESS" \notin state[at[t]]

\* No daemon thread has anything to do at instance i.
Calm(i) ==
  /\ "IS_SET" \notin state[i]
  /\ \A d \in Daemons : at[d] = i => pc[d] \notin Serving

\* The invariant: a request is abandoned by nobody, and a thread whose wait is
\* over leaves no work behind.
PatientInv ==
  /\ stale = {} /\ late = {}
  /\ \A t \in Threads :
       /\ pc[t] \notin {"expired", "interrupted"}
       /\ Settled(t) => Calm(at[t])

\* Calm depends on two things.
LEMMA CalmKept ==
  ASSUME NEW i, Calm(i), state'[i] = state[i],
         \A d \in Daemons : pc'[d] = pc[d] /\ at'[d] = at[d]
  PROVE  Calm(i)'
  BY DEF Calm

\* A thread that posts is not settled, one whose wait ends finds its instance
\* calm, and releases it so.
LEMMA ThreadPatient ==
  ASSUME ChannelInv, NobodyGivesUp, PatientInv, NEW u \in Threads, OfThread(u)
  PROVE  PatientInv'
<1> USE DEF ChannelInv
<1>1. /\ \A d \in Daemons : pc'[d] = pc[d] /\ at'[d] = at[d]
      /\ \A t \in Threads \ {u} : pc'[t] = pc[t] /\ at'[t] = at[t]
      /\ \A i \in Instances \ {at[u]} : state'[i] = state[i]
  BY ThreadFrame, RequestAssumption DEF Frame, Procs
<1>2. stale' = {}
  <2>1. CASE Exit(u)
    BY <2>1 DEF Exit, PatientInv, Settled, Calm
  <2>2. CASE ~Exit(u)
    BY <2>2
    DEF PatientInv, OfThread, Call, ThreadStep, EnterInterrupted, Interrupt, Enter, ScanTake,
        ScanSkip, ScanOpened, WaitTurn, WaitOpen, TakeTurn, Claim, Advance, Fill, Post, Await,
        Expire, WakeWithoutAnswer, Cancel, CopyReply, history
  <2> QED
    BY <2>1, <2>2
<1>3. late' = {}
  BY DEF PatientInv, OfThread, Call, ThreadStep, EnterInterrupted, Interrupt, Enter, ScanTake,
         ScanSkip, ScanOpened, WaitTurn, WaitOpen, TakeTurn, Claim, Advance, Fill, Post, Await,
         Expire, WakeWithoutAnswer, Cancel, CopyReply, Exit, history
<1>4. ASSUME NEW t \in Threads \ {u}
      PROVE  /\ pc'[t] \notin {"expired", "interrupted"}
             /\ Settled(t)' => Calm(at[t])'
  <2>1. CASE ~Settled(t)' /\ pc'[t] = pc[t]
    BY <2>1 DEF PatientInv
  <2>2. CASE Settled(t)'
    <3>1. pc[t] \in Owning /\ at[t] \in Instances /\ at'[t] = at[t] /\ pc'[t] = pc[t]
      BY <1>1, <2>2 DEF Settled, Owning, TypeOK, Procs
    <3>2. state'[at[t]] = state[at[t]]
      <4>1. CASE at[u] = at[t]
        <5>1. "INPROGRESS" \in state[at[u]] /\ pc[u] \notin Owning
          BY <3>1, <4>1 DEF OneOwner, Owns
        <5> QED
          BY <5>1, ThreadLeaves
      <4> QED
        BY <1>1, <3>1, <4>1
    <3>3. Calm(at[t])
      BY <2>2, <3>1, <3>2 DEF Settled, PatientInv
    <3> QED
      BY <1>1, <3>1, <3>2, <3>3, CalmKept DEF PatientInv
  <2> QED
    BY <1>1, <2>1, <2>2
<1>5. /\ pc'[u] \notin {"expired", "interrupted"}
      /\ Settled(u)' => Calm(at[u])'
  <2> USE DEF TypeOK, Procs, Goto
  <2>1. CASE Call(u) \/ EnterInterrupted(u) \/ Enter(u) \/ Fill(u) \/ Exit(u)
    BY <2>1
    DEF Call, EnterInterrupted, Enter, ScanTake, ScanSkip, ScanOpened, WaitTurn, WaitOpen,
        Runs, TakeTurn, Claim, Advance, Fill, Exit, Settled
  <2>2. CASE Post(u)
    BY <2>2 DEF Post, Runs, Set, Settled
  <2>3. CASE Await(u) \/ CopyReply(u)
    <3>1. /\ state' = state /\ at' = at
          /\ pc'[u] \notin {"expired", "interrupted"}
          /\ Settled(u)' => Settled(u)
      BY <2>3 DEF Await, CopyReply, Runs, After, StillWaiting, Settled
    <3> QED
      BY <1>1, <3>1, CalmKept DEF PatientInv
  <2>4. ~(Expire(u) \/ Interrupt(u) \/ Cancel(u))
    BY DEF Expire, Interrupt, WakeWithoutAnswer, NobodyGivesUp, Cancel, PatientInv
  <2> QED
    BY <2>1, <2>2, <2>3, <2>4 DEF OfThread, ThreadStep
<1> QED
  BY <1>2, <1>3, <1>4, <1>5 DEF PatientInv

\* A daemon thread that works does so for a thread that still waits.
LEMMA DaemonPatient ==
  ASSUME ChannelInv, NobodyGivesUp, PatientInv, NEW e \in Daemons, OfDaemon(e)
  PROVE  PatientInv'
<1> USE DEF ChannelInv
<1>1. ~(Close(e) \/ SelectInterrupted(e) \/ ReadInterrupted(e))
  BY DEF Close, SelectInterrupted, ReadInterrupted, NobodyGivesUp
<1>2. stale' = {} /\ late' = {}
  BY <1>1
  DEF PatientInv, OfDaemon, DaemonStep, Open, OpenTake, OpenSkip, FdZero, FdSet, SelectCall,
      SelectReturn, ReadWait, ReadFetch, CopyIn, CopyInFails, Publish, history
<1>3. /\ \A t \in Threads : pc'[t] = pc[t] /\ at'[t] = at[t]
      /\ \A i \in Instances \ {at[e]} : state'[i] = state[i]
      /\ \A d \in Daemons \ {e} : pc'[d] = pc[d] /\ at'[d] = at[d]
  BY DaemonLeaves
<1>4. ASSUME NEW t \in Threads, Settled(t)' PROVE Calm(at[t])'
  <2>1. pc[t] \in Owning /\ at[t] \in Instances /\ at'[t] = at[t] /\ pc'[t] = pc[t]
    BY <1>3, <1>4 DEF Settled, Owning, TypeOK, Procs
  <2>2. Settled(t) => Calm(at[t])
    BY DEF PatientInv
  <2> USE DEF Goto, Serving
  <2>3. CASE ~OfWork(e)
    <3>1. pc'[e] \notin Serving
      BY <1>1, <2>3
      DEF OfWork, OfDaemon, DaemonStep, Open, OpenTake, OpenSkip, FdZero, FdSet, SelectCall,
          SelectReturn, ReadWait, Runs, TypeOK, Procs
    <3>2. Untouched(at[t])
      BY <2>1, <2>3, IdleUntouched
    <3>3. Settled(t)
      BY <1>4, <2>1, <3>2 DEF Settled, Untouched
    <3> QED
      BY <1>3, <2>1, <2>2, <3>1, <3>2, <3>3 DEF Calm, Untouched
  <2>4. CASE OfWork(e) /\ at[e] # at[t]
    <3>1. state'[at[t]] = state[at[t]]
      BY <1>3, <2>1, <2>4
    <3>2. at'[e] = at[e]
      BY <1>1, <2>4 DEF OfWork, ReadFetch, CopyIn, CopyInFails, Publish
    <3>3. Settled(t)
      BY <1>4, <2>1, <3>1 DEF Settled
    <3> QED
      BY <1>3, <2>1, <2>2, <2>4, <3>1, <3>2, <3>3 DEF Calm
  <2>5. CASE ReadFetch(e) /\ at[e] = at[t]
    <3>1. "IS_SET" \in state[at[t]]
      BY <2>5 DEF ReadFetch
    <3>2. "DAEMON_INPROGRESS" \in state'[at[t]] <=> "DAEMON_INPROGRESS" \in state[at[t]]
      BY <2>1, <2>5 DEF ReadFetch, Clear, TypeOK
    <3> QED
      BY <1>4, <2>1, <2>2, <3>1, <3>2 DEF Settled, Calm
  <2>6. CASE (CopyIn(e) \/ CopyInFails(e)) /\ at[e] = at[t]
    <3>1. pc[e] \in Serving /\ state' = state
      BY <2>6 DEF CopyIn, CopyInFails
    <3> QED
      BY <1>4, <2>1, <2>2, <2>6, <3>1 DEF Settled, Calm
  <2>7. CASE Publish(e) /\ at[e] = at[t]
    <3>1. /\ "IS_SET" \notin state'[at[t]] /\ at' = at
          /\ pc[e] \in Serving /\ pc'[e] = "loop"
      BY <2>1, <2>7 DEF Publish, Clear, TypeOK, Procs
    <3>2. \A d \in Daemons : at[d] = at[t] /\ pc[d] \in Serving => d = e
      BY <2>1, <2>7, <3>1, Alone
    <3> QED
      BY <1>3, <2>1, <3>1, <3>2 DEF Calm
  <2> QED
    BY <1>1, <2>3, <2>4, <2>5, <2>6, <2>7 DEF OfWork
<1> QED
  BY <1>2, <1>3, <1>4 DEF PatientInv

\* Nobody gives up: the invariant holds in every state.
LEMMA Patience == NobodyGivesUp => (Spec => [](ChannelInv /\ PatientInv))
<1> SUFFICES ASSUME NobodyGivesUp PROVE Spec => [](ChannelInv /\ PatientInv)
  OBVIOUS
<1>1. Init => PatientInv
  BY RequestAssumption DEF Init, PatientInv, Settled, Procs
<1>2. ChannelInv /\ PatientInv /\ [Next]_vars => PatientInv'
  <2> SUFFICES ASSUME ChannelInv, PatientInv, [Next]_vars PROVE PatientInv'
    OBVIOUS
  <2>1. CASE UNCHANGED vars
    BY <2>1 DEF vars, PatientInv, Settled, Calm
  <2> QED
    BY <2>1, NextSplit, ThreadPatient, DaemonPatient
<1> QED
  BY <1>1, <1>2, ChannelSafe, PTL DEF Spec

\* While no timer fires, no signal arrives and no daemon thread dies, a thread
\* told that its request succeeded finds the answer to that very request in the
\* buffer: however many threads of either kind there are, whichever instances
\* they share, and whether or not copies of answers fail.
THEOREM OwnAnswerWhenPatient == Faults \subseteq {"writeEFAULT"} => (Spec => []AnswerIsOwn)
<1> SUFFICES ASSUME Faults \subseteq {"writeEFAULT"} PROVE Spec => []AnswerIsOwn
  OBVIOUS
<1>1. NobodyGivesUp
  BY DEF NobodyGivesUp
<1>2. PatientInv /\ AnswerIsOwnUnlessLate => AnswerIsOwn
  BY DEF PatientInv, AnswerIsOwnUnlessLate, AnswerIsOwn
<1> QED
  BY <1>1, <1>2, Patience, OwnAnswer, PTL

-----------------------------------------------------------------------------
(***************************************************************************)
(* What select promises a single daemon thread                             *)
(***************************************************************************)
\* The one fd_set holds at most the instance of the one thread that uses it,
\* and once that has been reported readable its request stays there.
Reported(d) ==
  /\ pc[d] = "fdset" => fds = {}
  /\ pc[d] = "select" => fds \subseteq {at[d]}
  /\ pc[d] = "polling" => watch[d] \subseteq {at[d]}
  /\ pc[d] = "reading" => "IS_SET" \in state[at[d]]

\* No thread of the file system takes a request back that nobody gives up.
LEMMA ThreadReported ==
  ASSUME ChannelInv, PatientInv, NEW d \in Daemons, Reported(d), NEW u \in Threads, OfThread(u)
  PROVE  Reported(d)'
<1>1. pc'[d] = pc[d] /\ at'[d] = at[d]
  BY ThreadFrame, RequestAssumption DEF ChannelInv, Frame, Procs
<1>2. fds' = fds /\ watch' = watch
  BY DEF OfThread, Call, ThreadStep, EnterInterrupted, Interrupt, Enter, ScanTake,
         ScanSkip, ScanOpened, WaitTurn, WaitOpen, TakeTurn, Claim, Advance, Fill, Post, Await,
         Expire, WakeWithoutAnswer, Cancel, CopyReply, Exit, daemon
<1>3. ASSUME NEW i \in Instances, "IS_SET" \in state[i] PROVE "IS_SET" \in state'[i]
  <2> USE <1>3 DEF ChannelInv, TypeOK, Set, Clear
  <2>1. CASE Exit(u)
    <3>1. "IS_SET" \notin state[at[u]]
      BY <2>1 DEF Exit, PatientInv, Settled, Calm
    <3>2. i # at[u]
      BY <3>1
    <3>3. state'[i] = state[i]
      BY <2>1, <3>2, ThreadFrame DEF Frame
    <3> QED
      BY <3>3
  <2>2. CASE Enter(u)
    BY <2>2 DEF Enter, ScanTake, ScanSkip, ScanOpened, WaitTurn, WaitOpen, TakeTurn, Claim,
                Advance
  <2>3. CASE Call(u) \/ Fill(u) \/ EnterInterrupted(u) \/ Expire(u) \/ Interrupt(u)
    BY <2>3 DEF Call, Fill, EnterInterrupted, Expire, Interrupt, WakeWithoutAnswer
  <2>4. CASE Post(u)
    BY <2>4 DEF Post
  <2>5. CASE Cancel(u)
    BY <2>5 DEF Cancel
  <2>6. CASE Await(u) \/ CopyReply(u)
    BY <2>6 DEF Await, CopyReply
  <2> QED
    BY <2>1, <2>2, <2>3, <2>4, <2>5, <2>6 DEF OfThread, ThreadStep
<1>4. pc[d] = "reading" => at[d] \in Instances
  BY DEF ChannelInv, TypeOK, Procs
<1> QED
  BY <1>1, <1>2, <1>3, <1>4 DEF Reported

\* The daemon thread's own steps.
LEMMA DaemonReported ==
  ASSUME ChannelInv, NobodyGivesUp, NEW d \in Daemons, Reported(d), OfDaemon(d)
  PROVE  Reported(d)'
<1> USE DEF ChannelInv, TypeOK, Procs, Goto, Reported
<1>1. CASE Open(d) \/ OpenTake(d) \/ OpenSkip(d) \/ Close(d)
  BY <1>1 DEF Open, OpenTake, OpenSkip, Close
<1>2. CASE FdZero(d) \/ FdSet(d) \/ SelectCall(d)
  BY <1>2 DEF FdZero, FdSet, SelectCall
<1>3. CASE SelectReturn(d)
  BY <1>3 DEF SelectReturn
<1>4. CASE ReadWait(d) \/ ReadFetch(d)
  BY <1>4 DEF ReadWait, ReadFetch, Runs
<1>5. CASE CopyIn(d) \/ CopyInFails(d) \/ Publish(d)
  BY <1>5 DEF CopyIn, CopyInFails, Publish
<1>6. ~(SelectInterrupted(d) \/ ReadInterrupted(d))
  BY DEF SelectInterrupted, ReadInterrupted, NobodyGivesUp
<1> QED
  BY <1>1, <1>2, <1>3, <1>4, <1>5, <1>6 DEF OfDaemon, DaemonStep

\* A daemon of one thread does get to read only when its device is readable, as
\* long as nobody gives up a request: the read that follows select does not
\* sleep.  (With several threads the static fd_set is shared, and it may.)
THEOREM SelectedIsReadable ==
  Faults \subseteq {"writeEFAULT"} /\ (\A d, e \in Daemons : d = e)
    => (Spec => []ReadableAfterSelect)
<1> SUFFICES ASSUME Faults \subseteq {"writeEFAULT"}, \A d, e \in Daemons : d = e
             PROVE  Spec => []ReadableAfterSelect
  OBVIOUS
<1> DEFINE AllReported == \A d \in Daemons : Reported(d)
<1>1. NobodyGivesUp
  BY DEF NobodyGivesUp
<1>2. Init => AllReported
  BY RequestAssumption DEF Init, Reported, Procs
<1>3. ChannelInv /\ PatientInv /\ AllReported /\ [Next]_vars => AllReported'
  <2> SUFFICES ASSUME ChannelInv, PatientInv, AllReported, [Next]_vars,
                      NEW d \in Daemons
               PROVE  Reported(d)'
    OBVIOUS
  <2>1. CASE UNCHANGED vars
    BY <2>1 DEF vars, Reported
  <2>2. ASSUME NEW e \in Daemons, OfDaemon(e) PROVE Reported(d)'
    BY <1>1, <2>2, DaemonReported
  <2> QED
    BY <2>1, <2>2, NextSplit, ThreadReported
<1>4. ChannelInv /\ AllReported => ReadableAfterSelect
  BY DEF ChannelInv, NoLostWakeup, Reported, ReadableAfterSelect
<1> HIDE DEF AllReported
<1> QED
  BY <1>1, <1>2, <1>3, <1>4, Patience, PTL DEF Spec
=============================================================================
