---------------------------- MODULE IumfsRequest ----------------------------
(***************************************************************************)
(* The request channel of iumfs: file-system threads hand requests to a    *)
(* user-mode daemon through the instances of the iumfscntl device.         *)
(*                                                                         *)
(* A thread claims an instance (iumfs_daemon_request_enter), fills its     *)
(* buffer, posts the request and waits up to DAEMON_TIMEOUT for the answer *)
(* (iumfs_daemon_request_start), copies the answer out of the same buffer  *)
(* and releases the instance (iumfs_daemon_request_exit).  A thread of the *)
(* daemon opens one instance, then loops: select, read, serve, write.      *)
(*                                                                         *)
(* Everything done under an instance's s_lock is one step.  The buffer is  *)
(* filled under d_lock but overwritten by iumfscntl_write under no lock,   *)
(* so those two copies are steps of their own and may mix.                 *)
(***************************************************************************)
EXTENDS Integers, FiniteSets

CONSTANTS
  Threads,     \* kernel threads that enter the file system
  Daemons,     \* threads of the user-mode daemon
  MaxInst,     \* number of instances of the control device (MAX_INST)
  Calls,       \* request routines the threads call, by the names in Routine
  Faults       \* what the environment may do: a subset of AllFaults

AllFaults == {"timeout", "signal", "crash", "daemonSignal", "writeEFAULT"}

(***************************************************************************)
(* The request routines: what each adds to the common enter, fill, start,  *)
(* copy, exit skeleton.  reply is what it takes from the answer; a sized   *)
(* request has its size and offset fields set (they alias the result and   *)
(* datasize fields of a response_t); retries says whether EAGAIN from      *)
(* iumfs_daemon_request_start makes it start over.                         *)
(***************************************************************************)
iumfs_request_read    == [reply |-> "data",       sized |-> TRUE,  retries |-> TRUE]
iumfs_request_readdir == [reply |-> "data",       sized |-> FALSE, retries |-> FALSE]
iumfs_request_lookup  == [reply |-> "attributes", sized |-> FALSE, retries |-> TRUE]
iumfs_request_getattr == [reply |-> "attributes", sized |-> FALSE, retries |-> TRUE]
iumfs_request_write   == [reply |-> "none",       sized |-> TRUE,  retries |-> TRUE]
iumfs_request_create  == [reply |-> "none",       sized |-> FALSE, retries |-> TRUE]
iumfs_request_remove  == [reply |-> "none",       sized |-> FALSE, retries |-> TRUE]
iumfs_request_mkdir   == [reply |-> "none",       sized |-> FALSE, retries |-> TRUE]
iumfs_request_rmdir   == [reply |-> "none",       sized |-> FALSE, retries |-> TRUE]

Routine ==
  [read    |-> iumfs_request_read,    readdir |-> iumfs_request_readdir,
   lookup  |-> iumfs_request_lookup,  getattr |-> iumfs_request_getattr,
   write   |-> iumfs_request_write,   create  |-> iumfs_request_create,
   remove  |-> iumfs_request_remove,  mkdir   |-> iumfs_request_mkdir,
   rmdir   |-> iumfs_request_rmdir]

Procs     == Threads \cup Daemons
Instances == 0 .. MaxInst - 1
NoInst    == MaxInst             \* the value of a scan that ran off the list

ASSUME RequestAssumption ==
  /\ Threads \cap Daemons = {}
  /\ MaxInst \in Nat \ {0}
  /\ Calls \subseteq DOMAIN Routine
  /\ Faults \subseteq AllFaults

(***************************************************************************)
(* The state flags of an instance, by the names of iumfs.h.                *)
(***************************************************************************)
Flags == {"OPENED", "INPROGRESS", "IS_SET", "DAEMON_INPROGRESS",
          "BUFFER_INVALID", "CANCELED"}

\* Result of an operation: 0, EAGAIN, or any other errno.
Results == {"ok", "EAGAIN", "fail"}

\* What the buffer of an instance holds: a request_t, a response_t, or bytes
\* that are neither (zeroes at attach, two copies that mixed).
Garbage == [kind |-> "garbage"]
RequestOf(t, o)     == [kind |-> "request", from |-> t, op |-> o]
ResponseTo(t, o, r) == [kind |-> "response", from |-> t, op |-> o, result |-> r]
Requests  == {RequestOf(t, o) : t \in Threads, o \in Calls}
Responses == {ResponseTo(t, o, r) : t \in Threads, o \in Calls, r \in Results}
Contents  == Requests \cup Responses \cup {Garbage}

\* bufusedsize: that of a request, or of a response that is shorter than a
\* request_t, or as long or longer.  Only data makes a response that long, or an
\* answer to what was no request.
Lengths == {"request", "short", "long"}
AnswerLengths(c) ==
  IF c.kind = "request" /\ Routine[c.op].reply # "data" THEN {"short"} ELSE {"short", "long"}

VARIABLES
  state,    \* instance -> set of flags
  error,    \* instance -> errno left by iumfscntl_write or iumfscntl_close
  buf,      \* instance -> content of bufaddr
  used,     \* instance -> what bufusedsize counts, see Lengths
  pc,       \* process  -> where it is
  at,       \* process  -> the instance it scans, owns or has open, or NoInst
  asleep,   \* processes blocked on the condition variable of their instance
  op,       \* thread   -> the routine it runs
  got,      \* daemon   -> content of its request buffer
  fds,      \* the one fd_set of request_loop, static: all threads share it
  watch,    \* daemon   -> the instances its select call was given
  stale,    \* history: daemons whose fetched request nobody waits for any more
  late      \* history: instances a stale daemon touched since the last claim

vars == <<state, error, buf, used, pc, at, asleep, op, got, fds, watch, stale, late>>
history == <<stale, late>>
device == <<error, buf, used>>
daemon == <<got, fds, watch>>

ThreadPcs == {"idle", "scan", "scanOpened", "waitTurn", "waitOpen", "fill",
              "post", "await", "expired", "interrupted", "answered", "exit",
              "retry", "finish"}
DaemonPcs == {"closed", "opening", "loop", "fdset", "select", "polling", "reading",
              "serve", "publish", "faulted"}
\* A daemon thread at the top of request_loop or in select.
Selecting == {"loop", "fdset", "select", "polling"}
\* A daemon thread that has fetched a request and not yet answered it.
Serving   == {"serve", "publish", "faulted"}
\* A thread that owns the instance it is at.
Owning    == {"fill", "post", "await", "expired", "interrupted", "answered",
              "exit", "retry", "finish"}
\* The thread has posted its request and not yet released the instance.
Posted    == Owning \ {"fill", "post"}

TypeOK ==
  /\ state \in [Instances -> SUBSET Flags]
  /\ error \in [Instances -> Results]
  /\ buf \in [Instances -> Contents]
  /\ used \in [Instances -> Lengths]
  /\ pc \in [Procs -> ThreadPcs \cup DaemonPcs]
  /\ \A t \in Threads : pc[t] \in ThreadPcs
  /\ \A d \in Daemons : pc[d] \in DaemonPcs
  /\ at \in [Procs -> Instances \cup {NoInst}]
  /\ \A p \in Procs : pc[p] \notin {"idle", "closed"} => at[p] \in Instances
  /\ asleep \subseteq Procs
  /\ op \in [Threads -> Calls]
  /\ got \in [Daemons -> Contents]
  /\ fds \subseteq Instances
  /\ watch \in [Daemons -> SUBSET Instances]
  /\ stale \subseteq Daemons
  /\ late \subseteq Instances

\* After attach: every instance closed, with a zeroed buffer.
Init ==
  /\ state = [i \in Instances |-> {}]
  /\ error = [i \in Instances |-> "ok"]
  /\ buf = [i \in Instances |-> Garbage]
  /\ used = [i \in Instances |-> "short"]
  /\ pc = [p \in Procs |-> IF p \in Threads THEN "idle" ELSE "closed"]
  /\ at = [p \in Procs |-> NoInst]
  /\ asleep = {}
  /\ op \in [Threads -> Calls]
  /\ got = [d \in Daemons |-> Garbage]
  /\ fds = {}
  /\ watch = [d \in Daemons |-> {}]
  /\ stale = {}
  /\ late = {}

-----------------------------------------------------------------------------
(***************************************************************************)
(* Helpers                                                                 *)
(***************************************************************************)
Runs(p, l)  == pc[p] = l /\ p \notin asleep
Goto(p, l)  == pc' = [pc EXCEPT ![p] = l]
Set(i, S)   == state' = [state EXCEPT ![i] = @ \cup S]
Clear(i, S) == state' = [state EXCEPT ![i] = @ \ S]

\* Slips that are easy to make below: a claim without its check, the wrong
\* flag awaited, cv_signal for cv_broadcast, a flag left behind.
Busy_Unchecked(i)         == FALSE
StillWaiting_WrongFlag(i) == "IS_SET" \in state[i]
CvSignal(i) ==
  LET here == {p \in asleep : at[p] = i} IN
  IF here = {} THEN UNCHANGED asleep ELSE \E p \in here : asleep' = asleep \ {p}
ExitFlags_KeepCanceled == {"INPROGRESS", "BUFFER_INVALID", "IS_SET"}
ExitFlags_KeepSet      == {"INPROGRESS", "BUFFER_INVALID", "CANCELED"}

\* The tests of the waiting loops.
Busy(i)         == "INPROGRESS" \in state[i]
StillWaiting(i) == "DAEMON_INPROGRESS" \in state[i]

\* cv_wait on the instance p is at, and cv_broadcast to everyone at i.
CvWait(p)      == asleep' = asleep \cup {p}
CvBroadcast(i) == asleep' = {p \in asleep : at[p] # i}

\* The flags that iumfs_daemon_request_exit and iumfscntl_close take away.
ExitFlags  == {"INPROGRESS", "BUFFER_INVALID", "IS_SET", "CANCELED"}
CloseFlags == {"DAEMON_INPROGRESS", "OPENED"}

\* mutex_tryenter may fail: another process awake at this instance may be in
\* one of its critical sections.
Contended(p) == \E q \in Procs \ {p} : at[q] = at[p] /\ q \notin asleep

\* What the result and the datasize fields of a response_t read as, when the
\* buffer holds c: the second tells whether it passes the attribute check of
\* iumfs_request_lookup and iumfs_request_getattr.
ResultField(c) ==
  CASE c.kind = "response" -> {c.result}
    [] c.kind = "request"  -> IF Routine[c.op].sized THEN {"EAGAIN", "fail"} ELSE {"ok"}
    [] c.kind = "garbage"  -> Results

AttributeCheck(c) ==
  CASE c.kind = "response" /\ Routine[c.op].reply = "attributes" -> {c.result = "ok"}
    [] c.kind = "response" /\ Routine[c.op].reply = "none"       -> {FALSE}
    [] c.kind = "request" /\ ~Routine[c.op].sized                -> {FALSE}
    [] OTHER                                                     -> BOOLEAN

-----------------------------------------------------------------------------
(***************************************************************************)
(* File-system threads: iumfs_daemon_request_enter                         *)
(***************************************************************************)
Call(t) ==
  /\ pc[t] = "idle"
  /\ \E o \in Calls : op' = [op EXCEPT ![t] = o]
  /\ Goto(t, "scan")
  /\ at' = [at EXCEPT ![t] = 0]
  /\ UNCHANGED <<state, device, asleep, daemon, history>>

\* REQUEST_INPROGRESS set: t owns the instance it is at.
Claim(t) ==
  /\ Set(at[t], {"INPROGRESS"})
  /\ late' = late \ {at[t]}
  /\ Goto(t, "fill")
  /\ UNCHANGED <<device, at, asleep, op, daemon, stale>>

\* Slip: the scan runs off the list.
Advance_NoWrap(t, phase, next) ==
  /\ Goto(t, IF at[t] + 1 = MaxInst THEN next ELSE phase)
  /\ at' = [at EXCEPT ![t] = @ + 1]
  /\ UNCHANGED <<state, device, asleep, op, daemon, history>>

\* To the next instance of a scan; after the last one, to the next phase,
\* which starts again from instance 0.
Advance(t, phase, next) ==
  /\ Goto(t, IF at[t] + 1 = MaxInst THEN next ELSE phase)
  /\ at' = [at EXCEPT ![t] = IF @ + 1 = MaxInst THEN 0 ELSE @ + 1]
  /\ UNCHANGED <<state, device, asleep, op, daemon, history>>

\* First pass: take an instance that is open and idle, without blocking.
ScanTake(t) ==
  /\ Runs(t, "scan")
  /\ "OPENED" \in state[at[t]] /\ ~Busy(at[t])
  /\ Claim(t)

ScanSkip(t) ==
  /\ Runs(t, "scan")
  /\ \/ "OPENED" \notin state[at[t]]
     \/ Busy(at[t])
     \/ Contended(t)
  /\ Advance(t, "scan", "scanOpened")

\* The loop "while REQUEST_INPROGRESS, cv_wait_sig", then claim: reached in
\* the second and in the third pass.  OPENED is not looked at again.
TakeTurn(t) ==
  \/ /\ ~Busy(at[t])
     /\ Claim(t)
  \/ /\ Busy(at[t])
     /\ CvWait(t)
     /\ Goto(t, "waitTurn")
     /\ UNCHANGED <<state, device, at, op, daemon, history>>

WaitTurn(t) == Runs(t, "waitTurn") /\ TakeTurn(t)

\* Second pass: wait for the first instance that is open.
ScanOpened(t) ==
  /\ Runs(t, "scanOpened")
  /\ \/ "OPENED" \in state[at[t]] /\ TakeTurn(t)
     \/ "OPENED" \notin state[at[t]] /\ Advance(t, "scanOpened", "waitOpen")

\* Third pass, on instance 0: the loop is "while IUMFSCNTL_OPENED, cv_wait_sig".
WaitOpen(t) ==
  /\ Runs(t, "waitOpen")
  /\ \/ "OPENED" \notin state[at[t]] /\ TakeTurn(t)
     \/ /\ "OPENED" \in state[at[t]]
        /\ CvWait(t)
        /\ UNCHANGED <<state, device, pc, at, op, daemon, history>>

\* cv_wait_sig returned 0: enter returns EINTR and the routine returns it.
EnterInterrupted(t) ==
  /\ "signal" \in Faults
  /\ pc[t] \in {"waitTurn", "waitOpen"} /\ t \in asleep
  /\ asleep' = asleep \ {t}
  /\ Goto(t, "idle")
  /\ at' = [at EXCEPT ![t] = NoInst]
  /\ UNCHANGED <<state, device, op, daemon, history>>

Enter(t) == ScanTake(t) \/ ScanSkip(t) \/ ScanOpened(t) \/ WaitTurn(t) \/ WaitOpen(t)

-----------------------------------------------------------------------------
(***************************************************************************)
(* The routine fills the buffer; iumfs_daemon_request_start                *)
(***************************************************************************)
\* The request_t is built in bufaddr under d_lock.  A daemon thread that has
\* just copied a response into the same bytes may have run alongside.
Fill(t) ==
  LET i == at[t]
      mixed == \E d \in Daemons : at[d] = i /\ pc[d] = "publish"
  IN
  /\ Runs(t, "fill")
  /\ \E c \in {RequestOf(t, op[t])} \cup (IF mixed THEN {Garbage} ELSE {}) :
       buf' = [buf EXCEPT ![i] = c]
  /\ used' = [used EXCEPT ![i] = "request"]
  /\ Goto(t, "post")
  /\ UNCHANGED <<state, error, at, asleep, op, daemon, history>>

Post(t) ==
  /\ Runs(t, "post")
  /\ Set(at[t], {"IS_SET", "DAEMON_INPROGRESS"})
  /\ CvBroadcast(at[t])
  /\ Goto(t, "await")
  /\ UNCHANGED <<device, at, op, daemon, history>>

\* Slip: a timed-out request starts over without exit.
After_NoExit(t, err) ==
  CASE err = "ok" -> "answered" [] err = "EAGAIN" -> "scan" [] OTHER -> "exit"

\* Where a thread goes when start returns err: an error leads to exit, and
\* EAGAIN to another round in the routines that retry.
After(t, err) ==
  CASE err = "ok" -> "answered"
    [] err = "EAGAIN" /\ Routine[op[t]].retries -> "retry"
    [] OTHER -> "exit"

\* The loop "while DAEMON_INPROGRESS, cv_timedwait_sig".
Await(t) ==
  LET i == at[t] IN
  /\ Runs(t, "await")
  /\ \/ /\ StillWaiting(i)
        /\ CvWait(t)
        /\ UNCHANGED pc
     \/ /\ ~StillWaiting(i)
        /\ Goto(t, After(t, error[i]))
        /\ UNCHANGED asleep
  /\ UNCHANGED <<state, device, at, op, daemon, history>>

\* The timer fires or a signal arrives.  The thread is no longer on the
\* condition variable, but an answer may still come before it has s_lock.
WakeWithoutAnswer(t, fault, l) ==
  /\ fault \in Faults
  /\ pc[t] = "await" /\ t \in asleep
  /\ asleep' = asleep \ {t}
  /\ Goto(t, l)
  /\ UNCHANGED <<state, device, at, op, daemon, history>>

Expire_Never(t) == FALSE    \* slip: cv_wait_sig for cv_timedwait_sig

Expire(t)    == WakeWithoutAnswer(t, "timeout", "expired")
Interrupt(t) == WakeWithoutAnswer(t, "signal", "interrupted")

Cancel(t) ==
  /\ pc[t] \in {"expired", "interrupted"}
  /\ Set(at[t], {"CANCELED"})
  /\ Goto(t, After(t, IF pc[t] = "expired" THEN "EAGAIN" ELSE "fail"))
  /\ UNCHANGED <<device, at, asleep, op, daemon, history>>

-----------------------------------------------------------------------------
(***************************************************************************)
(* The routine takes the answer; iumfs_daemon_request_exit                 *)
(***************************************************************************)
\* Under d_lock.  The EAGAIN of a failed attribute check is returned to the
\* caller and never retried.
CopyReply(t) ==
  /\ Runs(t, "answered")
  /\ \E accepted \in IF Routine[op[t]].reply = "attributes"
                     THEN AttributeCheck(buf[at[t]]) ELSE {TRUE} :
       Goto(t, IF accepted THEN "finish" ELSE "exit")
  /\ UNCHANGED <<state, device, at, asleep, op, daemon, history>>

Exit(t) ==
  LET i == at[t] IN
  /\ pc[t] \in {"exit", "retry", "finish"}
  /\ Clear(i, ExitFlags)
  /\ CvBroadcast(i)
  /\ Goto(t, IF pc[t] = "retry" THEN "scan" ELSE "idle")
  /\ at' = [at EXCEPT ![t] = IF pc[t] = "retry" THEN 0 ELSE NoInst]
  /\ stale' = stale \cup {d \in Daemons : at[d] = i /\ pc[d] \in Serving}
  /\ UNCHANGED <<device, op, daemon, late>>

-----------------------------------------------------------------------------
(***************************************************************************)
(* The daemon thread and the entry points of iumfscntl                     *)
(***************************************************************************)
Open(d) ==
  /\ pc[d] = "closed"
  /\ Goto(d, "opening")
  /\ at' = [at EXCEPT ![d] = 0]
  /\ UNCHANGED <<state, device, asleep, op, daemon, history>>

OpenTake_Unchecked(d) ==    \* slip: the device is opened twice
  /\ pc[d] = "opening"
  /\ Set(at[d], {"OPENED"})
  /\ Goto(d, "loop")
  /\ UNCHANGED <<device, daemon, at, asleep, op, history>>

OpenTake(d) ==
  /\ pc[d] = "opening"
  /\ "OPENED" \notin state[at[d]]
  /\ Set(at[d], {"OPENED"})
  /\ CvBroadcast(at[d])
  /\ Goto(d, "loop")
  /\ got' = [got EXCEPT ![d] = Garbage]
  /\ UNCHANGED <<device, fds, watch, at, op, history>>

\* Past the last instance open fails with ENXIO.
OpenSkip(d) ==
  /\ pc[d] = "opening"
  /\ "OPENED" \in state[at[d]] \/ Contended(d)
  /\ Goto(d, IF at[d] + 1 = MaxInst THEN "closed" ELSE "opening")
  /\ at' = [at EXCEPT ![d] = @ + 1]
  /\ UNCHANGED <<state, device, asleep, op, daemon, history>>

\* FD_ZERO, FD_SET and select each work on the static fd_set: a thread may be
\* given the set another thread has just prepared, emptied or got back.
FdZero(d) ==
  /\ pc[d] = "loop"
  /\ fds' = {}
  /\ Goto(d, "fdset")
  /\ UNCHANGED <<state, device, at, asleep, op, got, watch, history>>

FdSet(d) ==
  /\ pc[d] = "fdset"
  /\ fds' = fds \cup {at[d]}
  /\ Goto(d, "select")
  /\ UNCHANGED <<state, device, at, asleep, op, got, watch, history>>

SelectCall(d) ==
  /\ pc[d] = "select"
  /\ watch' = [watch EXCEPT ![d] = fds]
  /\ Goto(d, "polling")
  /\ UNCHANGED <<state, device, at, asleep, op, got, fds, history>>

SelectReturn_Always(d) ==    \* slip: poll reports POLLIN whatever the state
  /\ pc[d] = "polling"
  /\ fds' = watch[d]
  /\ watch' = [watch EXCEPT ![d] = {}]
  /\ Goto(d, "reading")
  /\ UNCHANGED <<state, device, at, asleep, op, got, history>>

\* select returns when iumfscntl_poll reports POLLIN for an instance watched.
SelectReturn(d) ==
  LET ready == {i \in watch[d] : "IS_SET" \in state[i]} IN
  /\ pc[d] = "polling"
  /\ ready # {}
  /\ fds' = ready
  /\ watch' = [watch EXCEPT ![d] = {}]
  /\ Goto(d, "reading")
  /\ UNCHANGED <<state, device, at, asleep, op, got, history>>

\* select is interrupted.  The test for an error never holds, the result being
\* a size_t, and the thread goes on to read.
SelectInterrupted(d) ==
  /\ "daemonSignal" \in Faults
  /\ pc[d] = "polling"
  /\ watch' = [watch EXCEPT ![d] = {}]
  /\ Goto(d, "reading")
  /\ UNCHANGED <<state, device, at, asleep, op, got, fds, history>>

ReadWait(d) ==
  /\ Runs(d, "reading")
  /\ "IS_SET" \notin state[at[d]]
  /\ CvWait(d)
  /\ UNCHANGED <<state, device, pc, at, op, daemon, history>>

\* bufusedsize bytes go out.  The daemon drops fewer than sizeof(request_t) and
\* selects again; any more it serves, also when they are those of a response.
ReadFetch(d) ==
  LET i == at[d]
      whole == used[i] # "short"
  IN
  /\ Runs(d, "reading")
  /\ "IS_SET" \in state[i]
  /\ Clear(i, {"IS_SET"})
  /\ got' = [got EXCEPT ![d] =
               IF whole /\ buf[i].kind = "request" THEN buf[i] ELSE Garbage]
  /\ Goto(d, IF whole THEN "serve" ELSE "loop")
  /\ stale' = stale \ {d}
  /\ UNCHANGED <<device, at, asleep, op, fds, watch, late>>

\* iumfscntl_read returns EINTR.  The daemon compares -1 with sizeof(request_t)
\* as unsigned numbers and serves what its request buffer held before.
ReadInterrupted(d) ==
  /\ "daemonSignal" \in Faults
  /\ pc[d] = "reading" /\ d \in asleep
  /\ asleep' = asleep \ {d}
  /\ Goto(d, "serve")
  /\ stale' = stale \cup {d}
  /\ UNCHANGED <<state, device, at, op, daemon, late>>

\* The daemon executes the request and writes the response: iumfscntl_write
\* first copies it over the buffer, holding no lock.  An owner that has just
\* filled the buffer may have run alongside.
CopyIn(d) ==
  LET i == at[d]
      mixed == \E t \in Threads : at[t] = i /\ pc[t] = "post"
      answers == IF got[d].kind = "request"
                 THEN {ResponseTo(got[d].from, got[d].op, r) : r \in Results}
                 ELSE {Garbage}
  IN
  /\ pc[d] = "serve"
  /\ \E c \in answers \cup (IF mixed THEN {Garbage} ELSE {}) :
       buf' = [buf EXCEPT ![i] = c]
  /\ Goto(d, "publish")
  /\ late' = IF d \in stale THEN late \cup {i} ELSE late
  /\ UNCHANGED <<state, error, used, at, asleep, op, daemon, stale>>

\* uiomove fails part way.
CopyInFails(d) ==
  /\ "writeEFAULT" \in Faults
  /\ pc[d] = "serve"
  /\ buf' = [buf EXCEPT ![at[d]] = Garbage]
  /\ Goto(d, "faulted")
  /\ late' = IF d \in stale THEN late \cup {at[d]} ELSE late
  /\ UNCHANGED <<state, error, used, at, asleep, op, daemon, stale>>

\* The part of iumfscntl_write under s_lock.
Publish(d) ==
  LET i == at[d]
      done == {"DAEMON_INPROGRESS", "IS_SET"}
  IN
  /\ \/ /\ pc[d] = "publish"
        /\ \E r \in ResultField(buf[i]) : error' = [error EXCEPT ![i] = r]
        /\ \E l \in AnswerLengths(got[d]) : used' = [used EXCEPT ![i] = l]
        /\ Clear(i, done)
     \/ /\ pc[d] = "faulted"
        /\ error' = [error EXCEPT ![i] = "fail"]
        /\ state' = [state EXCEPT ![i] = (@ \cup {"BUFFER_INVALID"}) \ done]
        /\ UNCHANGED used
  /\ CvBroadcast(i)
  /\ Goto(d, "loop")
  /\ late' = IF d \in stale THEN late \cup {i} ELSE late
  /\ stale' = stale \ {d}
  /\ UNCHANGED <<buf, at, op, daemon>>

\* The daemon dies outside a driver call or asleep in one: iumfscntl_close.
\* Only a pending request is woken.  (A thread closed and opened again stands
\* for one of a restarted process, which shares no fd_set with the others; that
\* it does here adds behaviours and takes none away.)
Close(d) ==
  LET i == at[d] IN
  /\ "crash" \in Faults
  /\ pc[d] \in Selecting \cup {"serve"} \/ (pc[d] = "reading" /\ d \in asleep)
  /\ \/ /\ "DAEMON_INPROGRESS" \in state[i]
        /\ state' = [state EXCEPT ![i] =
                       (@ \cup {"BUFFER_INVALID"}) \ CloseFlags]
        /\ error' = [error EXCEPT ![i] = "fail"]
        /\ CvBroadcast(i)
     \/ /\ "DAEMON_INPROGRESS" \notin state[i]
        /\ Clear(i, CloseFlags)
        /\ asleep' = asleep \ {d}
        /\ UNCHANGED error
  /\ Goto(d, "closed")
  /\ at' = [at EXCEPT ![d] = NoInst]
  /\ watch' = [watch EXCEPT ![d] = {}]
  /\ stale' = stale \ {d}
  /\ UNCHANGED <<buf, used, op, got, fds, late>>

-----------------------------------------------------------------------------
ThreadStep(t) ==
  \/ Enter(t) \/ Fill(t) \/ Post(t) \/ Await(t) \/ Expire(t) \/ Cancel(t)
  \/ CopyReply(t) \/ Exit(t)

DaemonStep(d) ==
  \/ FdZero(d) \/ FdSet(d) \/ SelectCall(d) \/ SelectReturn(d)
  \/ ReadWait(d) \/ ReadFetch(d) \/ CopyIn(d) \/ Publish(d)

Next ==
  \/ \E t \in Threads :
       Call(t) \/ ThreadStep(t) \/ EnterInterrupted(t) \/ Interrupt(t)
  \/ \E d \in Daemons :
       \/ Open(d) \/ OpenTake(d) \/ OpenSkip(d) \/ DaemonStep(d)
       \/ SelectInterrupted(d) \/ ReadInterrupted(d) \/ CopyInFails(d) \/ Close(d)

Spec == Init /\ [][Next]_vars

\* Threads that can run do, the timer of a waiting thread fires, and a daemon
\* thread that has the device open keeps serving.  Nobody has to call, open,
\* interrupt or crash.
Fairness ==
  /\ \A t \in Threads : WF_vars(ThreadStep(t))
  /\ \A d \in Daemons : WF_vars(DaemonStep(d))

FairSpec == Spec /\ Fairness

-----------------------------------------------------------------------------
(***************************************************************************)
(* Properties                                                              *)
(***************************************************************************)
Owns(t, i) == at[t] = i /\ pc[t] \in Owning
HasOpen(d, i) == at[d] = i /\ pc[d] \in Selecting \cup {"reading"} \cup Serving

\* enter, start and exit, called in that order, serve one thread at a time
\* (iumfs_request.c, header comment): REQUEST_INPROGRESS is set on an instance
\* exactly while one thread, and only one, owns it, through every timeout,
\* signal and restart of the daemon.
OneOwner ==
  \A i \in Instances :
    /\ "INPROGRESS" \in state[i] <=> \E t \in Threads : Owns(t, i)
    /\ \A t, u \in Threads : Owns(t, i) /\ Owns(u, i) => t = u

\* iumfscntl_open hands an instance to one daemon thread at a time, and a
\* crashed thread gives it back.
OneDaemon ==
  \A i \in Instances :
    /\ "OPENED" \in state[i] <=> \E d \in Daemons : HasOpen(d, i)
    /\ \A d, e \in Daemons : HasOpen(d, i) /\ HasOpen(e, i) => d = e

\* A request is visible to the daemon (REQUEST_IS_SET, REQUEST_IS_CANCELED)
\* only while the thread that posted it still owns the instance: no path out
\* of a routine leaves an orphan for the next owner's daemon to pick up.
NoOrphanRequest ==
  \A i \in Instances :
    state[i] \cap {"IS_SET", "CANCELED"} # {} =>
      \E t \in Threads : at[t] = i /\ pc[t] \in Posted

\* Whoever sleeps on an instance's condition variable still has its reason to:
\* the flag it waits for has not changed since without a broadcast.  (The
\* third pass of enter is apart: see OpenWaitHonoured.)
NoLostWakeup ==
  \A p \in asleep :
    CASE pc[p] = "waitTurn" -> "INPROGRESS" \in state[at[p]]
      [] pc[p] = "await"    -> "DAEMON_INPROGRESS" \in state[at[p]]
      [] pc[p] = "reading"  -> "IS_SET" \notin state[at[p]]
      [] OTHER              -> pc[p] = "waitOpen"

\* A daemon thread whose request has not been given up works for the present
\* owner of its instance, on that owner's request.
ServesTheOwner ==
  \A d \in Daemons :
    pc[d] \in Serving /\ d \notin stale /\ at[d] \notin late =>
      \E t \in Threads :
        /\ at[t] = at[d] /\ pc[t] \in Posted
        /\ got[d] = RequestOf(t, op[t])

\* A thread that start told its request succeeded finds the answer to that
\* very request in the buffer, whatever was cancelled, retried or restarted
\* before, unless a daemon answered an abandoned request on this instance
\* after the thread claimed it.
AnswerIsOwnUnlessLate ==
  \A t \in Threads :
    pc[t] = "answered" /\ at[t] \notin late =>
      buf[at[t]] = ResponseTo(t, op[t], "ok")

\* The same without the exception: response_t names "the corresponding request
\* type" and the routines copy the buffer as the answer to their request.
AnswerIsOwn ==
  \A t \in Threads :
    pc[t] = "answered" => buf[at[t]] = ResponseTo(t, op[t], "ok")

\* The third pass of enter leaves its wait for an open instance only when the
\* instance has been opened ("yatto open shita": at last it is open).
OpenWaitHonoured ==
  [][\A t \in Threads :
       pc[t] = "waitOpen" /\ pc'[t] \in {"waitTurn", "fill"}
         => "OPENED" \in state[at[t]]]_vars

\* A daemon thread that select has returned in can read: "we get here only when
\* the iumfscntl device is in a readable state" (localfsd.c).
ReadableAfterSelect ==
  \A d \in Daemons : pc[d] = "reading" => d \notin asleep

\* A claimed instance is released again, even by a daemon that never answers:
\* the timer of iumfs_daemon_request_start bounds every wait of an owner.
ClaimIsReleased ==
  \A i \in Instances :
    "INPROGRESS" \in state[i] ~> "INPROGRESS" \notin state[i]

\* A thread that sleeps for its turn is woken to try again.
SleeperIsWoken ==
  \A t \in Threads :
    pc[t] = "waitTurn" /\ t \in asleep ~> t \notin asleep

\* Timer aside, a request posted to an instance that a daemon thread has open
\* is answered: the thread watches its device and waits for new requests
\* (localfsd.c, at select), and poll, read and write lose no wakeup.
AnswerArrives ==
  \A t \in Threads :
    pc[t] = "await" /\ "OPENED" \in state[at[t]] ~> pc[t] # "await"

-----------------------------------------------------------------------------
(***************************************************************************)
(* The channel implements the gate.                                        *)
(***************************************************************************)
Stage(l) ==
  CASE l \in {"fill", "post"}                         -> "entered"
    [] l \in {"await", "expired", "interrupted"}      -> "started"
    [] l \in {"answered", "exit", "retry", "finish"}  -> "returned"
    [] OTHER                                          -> "outside"

gateHolds == [t \in Threads |-> IF pc[t] \in Owning THEN at[t] ELSE NoInst]
gateStage == [t \in Threads |-> Stage(pc[t])]

Gate == INSTANCE RequestGate WITH holds <- gateHolds, stage <- gateStage

\* Whatever the passes of enter, the timer, signals and the daemon do, a routine
\* goes through enter, start and exit in order and alone on its instance.
ImplementsGate == Gate!Spec

\* And it always comes out of start and exit again.
ImplementsFairGate == Gate!FairSpec

=============================================================================
