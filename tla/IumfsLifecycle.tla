--------------------------- MODULE IumfsLifecycle ---------------------------
(***************************************************************************)
(* The life of the module: _init and _fini, attach and detach of the       *)
(* device, mount and unmount, and the requests and daemons in between.     *)
(*                                                                         *)
(* Locks that are taken and given back in one routine are invisible here,  *)
(* save where a routine keeps one: the global lock during attach, detach   *)
(* and the first part of mount, and an instance's s_lock that detach does  *)
(* not give back.  The request channel is reduced to the claim of an       *)
(* instance, its buffer and the flag DAEMON_INPROGRESS (see IumfsRequest). *)
(***************************************************************************)
EXTENDS Naturals, FiniteSets

CONSTANTS
  Threads,    \* users: they mount, unmount and make requests
  Mounts,     \* file systems that may be mounted
  MaxInst,    \* instances of the device
  NoOne,
  MaxMinor,   \* bound of iumfs_last_minor
  Faults,     \* a subset of AllFaults
  Rules       \* what the kernel's frameworks keep to: a subset of AllRules

AllFaults == {"nomem", "timeout", "daemonDies"}

\* "loadFirst": nothing is called before _init has returned.  "deviceFirst": a file
\* system is mounted while the device is attached, which stays so until the unmount.
\* "closedFirst": a device that is open is not detached.  "served": the timer of a
\* request runs out only while a daemon has the instance open.  "wholeAttach": attach
\* has memory.  "detachOnly": detach is not called with another command.  "usersSeen":
\* whoever uses a file system has a vnode whose count tells the walk of unmount so.
AllRules == {"loadFirst", "deviceFirst", "closedFirst", "served", "wholeAttach", "detachOnly",
             "usersSeen"}

Instances == 0 .. MaxInst - 1
Loader    == "loader"       \* calls _init and _fini
Devices   == "devices"      \* calls attach and detach
Procs     == Threads \cup {Loader, Devices}

ASSUME LifecycleAssumption ==
  /\ MaxInst \in Nat \ {0} /\ MaxMinor \in Nat
  /\ NoOne \notin Procs /\ {Loader, Devices} \cap Threads = {}
  /\ Faults \subseteq AllFaults /\ Rules \subseteq AllRules

VARIABLES
  module,   \* "out", "installed" (known to the kernel), "loaded" (_init has returned)
  glock,    \* owner of iumfs_global_lock
  attached, \* the kernel knows the device
  inst,     \* cntlsoft_list: memory and locks there, open, DAEMON_INPROGRESS, ...
  last,     \* iumfs_last_minor
  fs,       \* file system -> its memory and nodes, whether it is mounted, its number
  pc,       \* process -> where it is
  at,       \* process -> the instance it is at
  on,       \* thread -> the file system it works on
  unseen    \* threads whose use of a file system the walk of unmount overlooks

vars == <<module, glock, attached, inst, last, fs, pc, at, on, unseen>>
users == <<on, unseen>>

\* An instance that nobody has opened, with its memory or without.
Blank(live, owner) ==
  [live |-> live, open |-> FALSE, busy |-> FALSE, owner |-> owner, s_lock |-> NoOne]
NoFs   == [memory |-> FALSE, nodes |-> FALSE, mounted |-> FALSE, dev |-> 0]

InstRecords == [live : BOOLEAN, open : BOOLEAN, busy : BOOLEAN,
                owner : Threads \cup {NoOne}, s_lock : {Devices, NoOne}]
FsRecords   == [memory : BOOLEAN, nodes : BOOLEAN, mounted : BOOLEAN, dev : 0 .. MaxMinor]

TypeOK ==
  /\ module \in {"out", "installed", "loaded"}
  /\ glock \in Procs \cup {NoOne} /\ attached \in BOOLEAN /\ last \in 0 .. MaxMinor
  /\ inst \in [Instances -> InstRecords] /\ fs \in [Mounts -> FsRecords]
  /\ pc \in [Procs -> {"idle", "init", "attach", "detach", "number", "memory", "root",
                       "failed", "lost", "freeing", "freed", "claimed", "waiting"}]
  /\ at \in [Procs -> 0 .. MaxInst]
  /\ on \in [Threads -> Mounts \cup {NoOne}] /\ unseen \subseteq Threads

Init ==
  /\ module = "out" /\ glock = NoOne /\ attached = FALSE /\ last = 0
  /\ inst = [i \in Instances |-> Blank(FALSE, NoOne)]
  /\ fs = [m \in Mounts |-> NoFs]
  /\ pc = [p \in Procs |-> "idle"]
  /\ at = [p \in Procs |-> 0]
  /\ on = [t \in Threads |-> NoOne] /\ unseen = {}

Goto(p, l) == pc' = [pc EXCEPT ![p] = l]
Known      == module = "loaded" \/ (module = "installed" /\ "loadFirst" \notin Rules)
Mounted    == {m \in Mounts : fs[m].mounted}
Mounting   == {t \in Threads : pc[t] \in {"number", "memory", "root", "failed", "lost"}}
Lock(p)    == glock = NoOne /\ glock' = p
Unlock     == glock' = NoOne

-----------------------------------------------------------------------------
(***************************************************************************)
(* _init and _fini                                                         *)
(***************************************************************************)
\* mod_install makes file system and driver known, or fails.
_init ==
  /\ pc[Loader] = "idle" /\ module = "out"
  /\ \/ module' = "installed" /\ Goto(Loader, "init")
     \/ "nomem" \in Faults /\ UNCHANGED <<module, pc>>
  /\ UNCHANGED <<glock, attached, inst, last, fs, at, users>>

\* Only now is the global lock initialised, whoever has it.
InitLock ==
  /\ pc[Loader] = "init"
  /\ module' = "loaded" /\ Unlock /\ Goto(Loader, "idle")
  /\ UNCHANGED <<attached, inst, last, fs, at, users>>

\* mod_remove refuses while something is mounted, being mounted or attached.
_fini ==
  /\ pc[Loader] = "idle" /\ module = "loaded"
  /\ ~attached /\ Mounted \cup Mounting = {} /\ pc[Devices] = "idle"
  /\ module' = "out"
  /\ UNCHANGED <<glock, attached, inst, last, fs, pc, at, users>>

-----------------------------------------------------------------------------
(***************************************************************************)
(* attach and detach, an instance at a time                                *)
(***************************************************************************)
iumfscntl_attach ==
  /\ pc[Devices] = "idle" /\ Known /\ ~attached
  /\ Lock(Devices) /\ Goto(Devices, "attach")
  /\ at' = [at EXCEPT ![Devices] = 0]
  /\ UNCHANGED <<module, attached, inst, last, fs, users>>

\* kmem_zalloc and the locks of an instance; if it fails, the others stay.
AttachInstance ==
  LET i == at[Devices] IN
  /\ pc[Devices] = "attach" /\ i < MaxInst
  /\ \/ /\ inst' = [inst EXCEPT ![i] = Blank(TRUE, NoOne)]
        /\ at' = [at EXCEPT ![Devices] = i + 1]
        /\ UNCHANGED <<glock, pc>>
     \/ /\ "wholeAttach" \notin Rules
        /\ Unlock /\ Goto(Devices, "idle")
        /\ UNCHANGED <<inst, at>>
  /\ UNCHANGED <<module, attached, last, fs, users>>

AttachDone ==
  /\ pc[Devices] = "attach" /\ at[Devices] = MaxInst
  /\ attached' = TRUE /\ Unlock /\ Goto(Devices, "idle")
  /\ UNCHANGED <<module, inst, last, fs, at, users>>

\* With another command detach returns at once, and keeps the lock.
iumfscntl_detach ==
  /\ pc[Devices] = "idle" /\ attached
  /\ "deviceFirst" \in Rules => Mounted \cup Mounting = {}
  /\ "closedFirst" \in Rules => \A i \in Instances : ~inst[i].open
  /\ Lock(Devices)
  /\ Goto(Devices, "detach") \/ ("detachOnly" \notin Rules /\ UNCHANGED pc)
  /\ at' = [at EXCEPT ![Devices] = 0]
  /\ UNCHANGED <<module, attached, inst, last, fs, users>>

\* An instance with DAEMON_INPROGRESS ends the loop, with both locks held.  One that
\* is open only causes a warning; what its daemon does next is not described.
DetachInstance ==
  LET i == at[Devices] IN
  /\ pc[Devices] = "detach" /\ i < MaxInst
  /\ inst[i].s_lock = NoOne
  /\ IF inst[i].busy
     THEN /\ inst' = [inst EXCEPT ![i].busy = FALSE, ![i].s_lock = Devices]
          /\ Goto(Devices, "idle") /\ UNCHANGED at
     ELSE /\ inst' = [inst EXCEPT ![i] = Blank(FALSE, inst[i].owner)]
          /\ at' = [at EXCEPT ![Devices] = i + 1] /\ UNCHANGED pc
  /\ UNCHANGED <<module, glock, attached, last, fs, users>>

DetachDone ==
  /\ pc[Devices] = "detach" /\ at[Devices] = MaxInst
  /\ attached' = FALSE /\ Unlock /\ Goto(Devices, "idle")
  /\ UNCHANGED <<module, inst, last, fs, at, users>>

-----------------------------------------------------------------------------
(***************************************************************************)
(* mount                                                                   *)
(***************************************************************************)
iumfs_mount_NoLock(t, m) ==      \* slip: the number is taken without the lock
  /\ pc[t] = "idle" /\ Known /\ last < MaxMinor
  /\ ~fs[m].memory /\ \A s \in Mounting : on[s] # m
  /\ "deviceFirst" \in Rules => attached /\ pc[Devices] = "idle"
  /\ UNCHANGED glock /\ Goto(t, "number")
  /\ on' = [on EXCEPT ![t] = m] /\ at' = [at EXCEPT ![t] = 0]
  /\ fs' = [fs EXCEPT ![m].dev = last + 1]
  /\ UNCHANGED <<module, attached, inst, last, unseen>>

\* ++iumfs_last_minor, under the lock: read ...
iumfs_mount(t, m) ==
  /\ pc[t] = "idle" /\ Known /\ last < MaxMinor
  /\ ~fs[m].memory /\ \A s \in Mounting : on[s] # m
  /\ "deviceFirst" \in Rules => attached /\ pc[Devices] = "idle"
  /\ Lock(t) /\ Goto(t, "number")
  /\ on' = [on EXCEPT ![t] = m] /\ at' = [at EXCEPT ![t] = 0]
  /\ fs' = [fs EXCEPT ![m].dev = last + 1]
  /\ UNCHANGED <<module, attached, inst, last, unseen>>

\* ... and written.
MountNumber(t) ==
  /\ pc[t] = "number"
  /\ last' = fs[on[t]].dev /\ Unlock /\ Goto(t, "memory")
  /\ UNCHANGED <<module, attached, inst, fs, at, users>>

\* A mount or an unmount of t is over.
Over(t) == Goto(t, "idle") /\ on' = [on EXCEPT ![t] = NoOne] /\ UNCHANGED unseen

\* kmem_zalloc of the iumfs_t; there is nothing to give back when it fails.
MountMemory(t) ==
  /\ pc[t] = "memory"
  /\ \/ /\ fs' = [fs EXCEPT ![on[t]].memory = TRUE]
        /\ Goto(t, "root") /\ UNCHANGED users
     \/ /\ "nomem" \in Faults
        /\ Over(t) /\ UNCHANGED fs
  /\ UNCHANGED <<module, glock, attached, inst, last, at>>

\* iumfs_create_fs_root: the root directory is there; or it is not; or it is in the
\* list but has no memory for "." or "..", and iumfs_make_directory succeeds without
\* telling which vnode it is: its caller reads through NULL.
MountRoot(t) ==
  LET m == on[t] IN
  /\ pc[t] = "root"
  /\ \/ fs' = [fs EXCEPT ![m].nodes = TRUE, ![m].mounted = TRUE] /\ Over(t)
     \/ /\ "nomem" \in Faults
        /\ \/ Goto(t, "failed") /\ UNCHANGED fs
           \/ Goto(t, "lost") /\ fs' = [fs EXCEPT ![m].nodes = TRUE]
        /\ UNCHANGED users
  /\ UNCHANGED <<module, glock, attached, inst, last, at>>

Freed_KeepsMemory(f) == [f EXCEPT !.mounted = FALSE]      \* slip

\* kmem_free of the iumfs_t; what nodes there are stay.
Freed(f) == [NoFs EXCEPT !.nodes = f.nodes]

\* The error path of mount.  It frees the nodes only if it knows a root vnode, and
\* none of the errors that lead here comes with one.
MountFailed(t) ==
  /\ pc[t] = "failed"
  /\ fs' = [fs EXCEPT ![on[t]] = Freed(@)]
  /\ Over(t)
  /\ UNCHANGED <<module, glock, attached, inst, last, at>>

-----------------------------------------------------------------------------
(***************************************************************************)
(* unmount                                                                 *)
(***************************************************************************)
\* A thread is in an operation, on a vnode whose v_count is not 1 when the walk is
\* there.  A removed file that is open, or a vnode reached by ".." behind the walk,
\* is in use all the same (IumfsNodes).
InUse(m) == \E t \in Threads \ unseen : pc[t] \in {"claimed", "waiting"} /\ on[t] = m

Unmounting(m) == \E t \in Threads : pc[t] \in {"freeing", "freed"} /\ on[t] = m

\* The walk has gone through.
iumfs_unmount(t, m) ==
  /\ pc[t] = "idle" /\ fs[m].mounted /\ ~Unmounting(m) /\ ~InUse(m)
  /\ Goto(t, "freeing") /\ on' = [on EXCEPT ![t] = m]
  /\ UNCHANGED <<module, glock, attached, inst, last, fs, at, unseen>>

iumfs_free_all_node(t) ==
  /\ pc[t] = "freeing"
  /\ fs' = [fs EXCEPT ![on[t]].nodes = FALSE]
  /\ Goto(t, "freed")
  /\ UNCHANGED <<module, glock, attached, inst, last, at, users>>

UnmountDone(t) ==
  /\ pc[t] = "freed"
  /\ fs' = [fs EXCEPT ![on[t]] = Freed(@)]
  /\ Over(t)
  /\ UNCHANGED <<module, glock, attached, inst, last, at>>

-----------------------------------------------------------------------------
(***************************************************************************)
(* Requests and daemons                                                    *)
(***************************************************************************)
Free(i) == inst[i].s_lock = NoOne

\* An instance that is open and free, else the first one.  Once the walk of unmount is
\* through, only those come that it has overlooked.
iumfs_daemon_request_enter(t, m) ==
  /\ pc[t] = "idle" /\ fs[m].mounted
  /\ unseen' \in {unseen} \cup (IF "usersSeen" \in Rules THEN {} ELSE {unseen \cup {t}})
  /\ Unmounting(m) => t \in unseen'
  /\ \E i \in Instances :
       /\ Free(i) /\ inst[i].owner = NoOne
       /\ inst[i].open \/ (i = 0 /\ \A j \in Instances : ~inst[j].open)
       /\ inst' = [inst EXCEPT ![i].owner = t]
       /\ at' = [at EXCEPT ![t] = i]
  /\ on' = [on EXCEPT ![t] = m] /\ Goto(t, "claimed")
  /\ UNCHANGED <<module, glock, attached, last, fs>>

iumfs_daemon_request_start(t) ==
  /\ pc[t] = "claimed" /\ Free(at[t])
  /\ inst' = [inst EXCEPT ![at[t]].busy = TRUE]
  /\ Goto(t, "waiting")
  /\ UNCHANGED <<module, glock, attached, last, fs, at, users>>

TimerRunsOut(t) ==
  "timeout" \in Faults /\ ("served" \in Rules => inst[at[t]].open)

\* Exit leaves DAEMON_INPROGRESS as it is: after a timeout it stays.
iumfs_daemon_request_exit(t) ==
  /\ pc[t] = "waiting" /\ Free(at[t])
  /\ ~inst[at[t]].busy \/ TimerRunsOut(t)
  /\ inst' = [inst EXCEPT ![at[t]].owner = NoOne]
  /\ Goto(t, "idle") /\ on' = [on EXCEPT ![t] = NoOne] /\ unseen' = unseen \ {t}
  /\ UNCHANGED <<module, glock, attached, last, fs, at>>

iumfscntl_open(i) ==
  /\ attached /\ Free(i) /\ ~inst[i].open
  /\ pc[Devices] = "idle"
  /\ inst' = [inst EXCEPT ![i].open = TRUE]
  /\ UNCHANGED <<module, glock, attached, last, fs, pc, at, users>>

\* The daemon answers.
iumfscntl_write(i) ==
  /\ inst[i].open /\ inst[i].busy /\ Free(i)
  /\ inst' = [inst EXCEPT ![i].busy = FALSE]
  /\ UNCHANGED <<module, glock, attached, last, fs, pc, at, users>>

Closed_KeepsBusy(c) == [c EXCEPT !.open = FALSE]      \* slip

Closed(c) == [c EXCEPT !.open = FALSE, !.busy = FALSE]

\* It exits, with a request in hand only if it dies.
iumfscntl_close(i) ==
  /\ inst[i].open /\ Free(i)
  /\ inst[i].busy => "daemonDies" \in Faults
  /\ inst' = [inst EXCEPT ![i] = Closed(@)]
  /\ UNCHANGED <<module, glock, attached, last, fs, pc, at, users>>

Next ==
  \/ _init \/ InitLock \/ _fini
  \/ iumfscntl_attach \/ AttachInstance \/ AttachDone
  \/ iumfscntl_detach \/ DetachInstance \/ DetachDone
  \/ \E t \in Threads :
       \/ \E m \in Mounts :
            iumfs_mount(t, m) \/ iumfs_unmount(t, m) \/ iumfs_daemon_request_enter(t, m)
       \/ MountNumber(t) \/ MountMemory(t) \/ MountRoot(t) \/ MountFailed(t)
       \/ iumfs_free_all_node(t) \/ UnmountDone(t)
       \/ iumfs_daemon_request_start(t) \/ iumfs_daemon_request_exit(t)
  \/ \E i \in Instances : iumfscntl_open(i) \/ iumfscntl_write(i) \/ iumfscntl_close(i)

Spec == Init /\ [][Next]_vars

-----------------------------------------------------------------------------
(***************************************************************************)
(* Properties                                                              *)
(***************************************************************************)
\* A lock is held only by a thread that is inside the routine that took it: above
\* all detach gives its locks back, whatever became of the requests before.
LocksAreReturned ==
  /\ glock # NoOne => pc[glock] \in {"attach", "detach", "number"}
  /\ \A i \in Instances : inst[i].s_lock # NoOne => pc[Devices] = "detach"

\* When the module has gone, nothing of it is left behind: no instance, no file
\* system, no node, also after mounts that failed at one step or another.
NothingIsLeft ==
  module = "out" =>
    (\A i \in Instances : ~inst[i].live) /\ (\A m \in Mounts : ~fs[m].memory /\ ~fs[m].nodes)

\* Two mounted file systems have different device numbers (iumfs_last_minor).
DevicesDiffer ==
  \A m, n \in Mounted : fs[m].dev = fs[n].dev => m = n
=============================================================================
