------------------------ MODULE IumfsLifecycle_proofs ------------------------
(***************************************************************************)
(* What unloading leaves behind and the numbers of file systems, for every *)
(* number of users, file systems and instances.  Of the rules only two are *)
(* needed: that nothing is called before _init has returned, and that      *)
(* attach has memory.  Requests, daemons, detach and unmount go on as they *)
(* like, in use or not.                                                    *)
(***************************************************************************)
EXTENDS IumfsLifecycle, TLAPS

\* A thread that mounts or unmounts, and what its file system is like at each step.
AtWork == {"number", "memory", "root", "failed", "lost", "freeing", "freed"}

Nothing(f) == ~f.memory /\ ~f.nodes /\ ~f.mounted
Whole(f)   == f.memory /\ f.nodes /\ f.mounted

Stage(l, f) ==
  CASE l \in {"number", "memory"} -> Nothing(f)
    [] l \in {"root", "failed"}   -> f.memory /\ ~f.nodes /\ ~f.mounted
    [] l = "lost"                 -> f.memory /\ f.nodes /\ ~f.mounted
    [] l = "freeing"              -> Whole(f)
    [] l = "freed"                -> f.memory /\ ~f.nodes /\ f.mounted
    [] OTHER                      -> TRUE

Worked(m) == \E t \in Threads : pc[t] \in AtWork /\ on[t] = m

\* A file system has one thread at work on it; with none it is whole, or nothing.
Files ==
  /\ \A t \in Threads : pc[t] \in AtWork => on[t] \in Mounts /\ Stage(pc[t], fs[on[t]])
  /\ \A s, t \in Threads :
       pc[s] \in AtWork /\ pc[t] \in AtWork /\ on[s] = on[t] => s = t
  /\ \A m \in Mounts : ~Worked(m) => Nothing(fs[m]) \/ Whole(fs[m])

\* Each process is at steps of its own.
Places ==
  /\ pc[Loader] \in {"idle", "init"}
  /\ pc[Devices] \in {"idle", "attach", "detach"}
  /\ \A t \in Threads : pc[t] \in AtWork \cup {"idle", "claimed", "waiting"}

\* Before _init has returned, and after _fini, nothing is attached or mounted.
Unloaded ==
  /\ pc[Loader] = "init" => module = "installed"
  /\ module # "loaded" =>
       /\ ~attached /\ pc[Devices] = "idle"
       /\ \A t \in Threads : pc[t] \notin AtWork
       /\ \A m \in Mounts : Nothing(fs[m])

\* Attach, detach and the beginning of mount have the global lock.
Locked ==
  /\ pc[Devices] \in {"attach", "detach"} => glock = Devices
  /\ \A t \in Threads : pc[t] = "number" => glock = t

\* Device numbers are given out once.
Numbered(m) == fs[m].mounted \/ Worked(m)

Numbers ==
  /\ \A m \in Mounts :
       Numbered(m) => \/ fs[m].dev <= last
                      \/ \E t \in Threads : pc[t] = "number" /\ on[t] = m
  /\ \A t \in Threads : pc[t] = "number" => fs[on[t]].dev = last + 1
  /\ \A m, n \in Mounts : Numbered(m) /\ Numbered(n) /\ fs[m].dev = fs[n].dev => m = n

\* No instance has memory but those attach has come to and detach has not.
Alive ==
  \A i \in Instances : inst[i].live =>
    /\ pc[Devices] = "attach" => i < at[Devices]
    /\ pc[Devices] = "detach" => attached /\ i >= at[Devices]
    /\ pc[Devices] = "idle"   => attached

LifeInv == TypeOK /\ Places /\ Unloaded /\ Locked /\ Files /\ Numbers

-----------------------------------------------------------------------------
(***************************************************************************)
(* The records keep their types.                                           *)
(***************************************************************************)
\* What open, claims, answers, close and a detach that gives up do to an instance.
LEMMA InstTyped ==
  ASSUME NEW c \in InstRecords
  PROVE  /\ [c EXCEPT !.open = TRUE] \in InstRecords
         /\ [c EXCEPT !.busy = TRUE] \in InstRecords
         /\ [c EXCEPT !.busy = FALSE] \in InstRecords
         /\ [c EXCEPT !.busy = FALSE, !.s_lock = Devices] \in InstRecords
         /\ [c EXCEPT !.open = FALSE, !.busy = FALSE] \in InstRecords
         /\ c.owner \in Threads \cup {NoOne}
         /\ \A o \in Threads \cup {NoOne} : [c EXCEPT !.owner = o] \in InstRecords
  BY DEF InstRecords

\* What attach and detach make of it.
LEMMA BlankTyped ==
  ASSUME NEW b \in BOOLEAN, NEW o \in Threads \cup {NoOne}
  PROVE  Blank(b, o) \in InstRecords
  BY DEF InstRecords, Blank

\* What mount and unmount do to a file system.
LEMMA FsTyped ==
  ASSUME NEW f \in FsRecords
  PROVE  /\ [f EXCEPT !.memory = TRUE] \in FsRecords
         /\ [f EXCEPT !.nodes = TRUE] \in FsRecords
         /\ [f EXCEPT !.nodes = FALSE] \in FsRecords
         /\ [f EXCEPT !.nodes = TRUE, !.mounted = TRUE] \in FsRecords
         /\ \A n \in 0 .. MaxMinor : [f EXCEPT !.dev = n] \in FsRecords
         /\ Freed(f) \in FsRecords
<1>1. /\ [f EXCEPT !.memory = TRUE] \in FsRecords
      /\ [f EXCEPT !.nodes = TRUE] \in FsRecords
      /\ [f EXCEPT !.nodes = FALSE] \in FsRecords
      /\ [f EXCEPT !.nodes = TRUE, !.mounted = TRUE] \in FsRecords
      /\ \A n \in 0 .. MaxMinor : [f EXCEPT !.dev = n] \in FsRecords
  BY DEF FsRecords
<1>2. Freed(f) \in FsRecords
  <2>1. NoFs \in FsRecords /\ f.nodes \in BOOLEAN
    BY LifecycleAssumption DEF FsRecords, NoFs
  <2> QED
    BY <2>1 DEF Freed, FsRecords
<1> QED
  BY <1>1, <1>2

\* Nothing is loaded at the start.
LEMMA InitLife ==
  ASSUME Init
  PROVE  LifeInv /\ Alive
<1>1. TypeOK
  <2>1. Blank(FALSE, NoOne) \in InstRecords
    BY BlankTyped
  <2>2. NoFs \in FsRecords
    BY LifecycleAssumption DEF FsRecords, NoFs
  <2>3. inst \in [Instances -> InstRecords] /\ fs \in [Mounts -> FsRecords]
    BY <2>1, <2>2 DEF Init
  <2>4. /\ last \in 0 .. MaxMinor /\ at \in [Procs -> 0 .. MaxInst]
        /\ on \in [Threads -> Mounts \cup {NoOne}] /\ glock \in Procs \cup {NoOne}
    BY LifecycleAssumption DEF Init
  <2> QED
    BY <2>3, <2>4 DEF Init, TypeOK
<1>2. \A p \in Procs : pc[p] = "idle"
  BY DEF Init
<1>3. \A m \in Mounts : Nothing(fs[m])
  BY DEF Init, Nothing, NoFs
<1>4. Places /\ Unloaded /\ Locked
  BY <1>2, <1>3 DEF Init, Places, Unloaded, Locked, AtWork, Procs
<1>5. Files /\ Numbers
  BY <1>2, <1>3 DEF Files, Numbers, Numbered, Worked, Nothing, AtWork, Procs
<1>6. Alive
  BY DEF Init, Alive, Blank
<1> QED
  BY <1>1, <1>4, <1>5, <1>6 DEF LifeInv
-----------------------------------------------------------------------------
(***************************************************************************)
(* The parts of the invariant, by what a step changes.                     *)
(***************************************************************************)
\* Files and numbers do not see what happens elsewhere.
LEMMA FilesFrame ==
  ASSUME Files, Numbers, fs' = fs, last' = last,
         \A t \in Threads : \/ pc'[t] = pc[t] /\ on'[t] = on[t]
                            \/ pc[t] \notin AtWork /\ pc'[t] \notin AtWork
  PROVE  Files' /\ Numbers'
<1>1. \A t \in Threads : /\ pc[t] \in AtWork <=> pc'[t] \in AtWork
                         /\ pc[t] \in AtWork => pc'[t] = pc[t] /\ on'[t] = on[t]
  OBVIOUS
<1>2. \A m \in Mounts : Worked(m)' <=> Worked(m)
  BY <1>1 DEF Worked
<1>3. Files'
  BY <1>1, <1>2 DEF Files, Stage, Nothing, Whole
<1>4. \A t \in Threads : /\ pc'[t] = "number" <=> pc[t] = "number"
                         /\ pc[t] = "number" => on'[t] = on[t]
  BY <1>1 DEF AtWork
<1>5. \A m \in Mounts : Numbered(m)' <=> Numbered(m)
  BY <1>2 DEF Numbered
<1>6. Numbers'
  BY <1>4, <1>5 DEF Numbers
<1> QED
  BY <1>3, <1>6

\* Numbers that are given up do no harm.
LEMMA NumbersFrame ==
  ASSUME Numbers, last' = last,
         \A m \in Mounts : Numbered(m)' => Numbered(m) /\ fs'[m].dev = fs[m].dev,
         \A t \in Threads : /\ pc'[t] = "number" <=> pc[t] = "number"
                            /\ pc[t] = "number" =>
                                 on'[t] = on[t] /\ fs'[on[t]].dev = fs[on[t]].dev
  PROVE  Numbers'
  BY DEF Numbers

\* A thread takes up a file system nobody is at work on.
LEMMA Begins ==
  ASSUME TypeOK, Files,
         NEW t \in Threads, NEW m \in Mounts, NEW l \in AtWork, NEW f \in FsRecords,
         pc[t] \notin AtWork, ~Worked(m), Stage(l, f),
         pc' = [pc EXCEPT ![t] = l], on' = [on EXCEPT ![t] = m], fs' = [fs EXCEPT ![m] = f]
  PROVE  Files'
<1>1. /\ pc'[t] = l /\ on'[t] = m /\ fs'[m] = f
      /\ \A s \in Threads \ {t} : pc'[s] = pc[s] /\ on'[s] = on[s]
      /\ \A n \in Mounts \ {m} : fs'[n] = fs[n]
  BY DEF TypeOK, Procs
<1>2. \A s \in Threads \ {t} : pc[s] \in AtWork => on[s] # m
  BY DEF Worked
<1>3. \A s \in Threads : pc'[s] \in AtWork => on'[s] \in Mounts /\ Stage(pc[s], fs[on[s]])'
  <2> SUFFICES ASSUME NEW s \in Threads, pc'[s] \in AtWork
               PROVE  on'[s] \in Mounts /\ Stage(pc'[s], fs'[on'[s]])
    BY DEF Stage, Nothing, Whole
  <2>1. CASE s = t
    BY <2>1, <1>1
  <2>2. CASE s # t
    <3>1. pc'[s] = pc[s] /\ on'[s] = on[s] /\ on[s] \in Mounts /\ on[s] # m
      BY <2>2, <1>1, <1>2 DEF Files
    <3>2. Stage(pc[s], fs[on[s]]) /\ fs'[on'[s]] = fs[on[s]]
      BY <3>1, <1>1 DEF Files
    <3> QED
      BY <3>1, <3>2
  <2> QED
    BY <2>1, <2>2
<1>4. \A r, s \in Threads :
        pc'[r] \in AtWork /\ pc'[s] \in AtWork /\ on'[r] = on'[s] => r = s
  BY <1>1, <1>2 DEF Files
<1>5. \A n \in Mounts : ~Worked(n)' => n # m /\ ~Worked(n)
  BY <1>1 DEF Worked
<1>6. \A n \in Mounts : ~Worked(n)' => (Nothing(fs[n]) \/ Whole(fs[n]))'
  BY <1>1, <1>5 DEF Files, Nothing, Whole
<1> QED
  BY <1>3, <1>4, <1>6 DEF Files

\* It goes on with it.
LEMMA GoesOn ==
  ASSUME TypeOK, Files,
         NEW t \in Threads, NEW l \in AtWork, NEW f \in FsRecords,
         pc[t] \in AtWork, Stage(l, f),
         pc' = [pc EXCEPT ![t] = l], on' = on, fs' = [fs EXCEPT ![on[t]] = f]
  PROVE  Files' /\ \A m \in Mounts : Worked(m)' <=> Worked(m)
<1>1. /\ on[t] \in Mounts /\ pc'[t] = l /\ on'[t] = on[t] /\ fs'[on[t]] = f
      /\ \A s \in Threads \ {t} : pc'[s] = pc[s] /\ on'[s] = on[s]
      /\ \A n \in Mounts \ {on[t]} : fs'[n] = fs[n]
  BY DEF TypeOK, Procs, Files
<1>2. \A s \in Threads \ {t} : pc[s] \in AtWork => on[s] # on[t]
  BY DEF Files
<1>3. \A s \in Threads : pc'[s] \in AtWork => on'[s] \in Mounts /\ Stage(pc[s], fs[on[s]])'
  <2> SUFFICES ASSUME NEW s \in Threads, pc'[s] \in AtWork
               PROVE  on'[s] \in Mounts /\ Stage(pc'[s], fs'[on'[s]])
    BY DEF Stage, Nothing, Whole
  <2>1. CASE s = t
    BY <2>1, <1>1
  <2>2. CASE s # t
    <3>1. pc'[s] = pc[s] /\ on'[s] = on[s] /\ on[s] \in Mounts /\ on[s] # on[t]
      BY <2>2, <1>1, <1>2 DEF Files
    <3>2. Stage(pc[s], fs[on[s]]) /\ fs'[on'[s]] = fs[on[s]]
      BY <3>1, <1>1 DEF Files
    <3> QED
      BY <3>1, <3>2
  <2> QED
    BY <2>1, <2>2
<1>4. \A r, s \in Threads :
        pc'[r] \in AtWork /\ pc'[s] \in AtWork /\ on'[r] = on'[s] => r = s
  BY <1>1, <1>2 DEF Files
<1>5. \A m \in Mounts : Worked(m)' <=> Worked(m)
  BY <1>1 DEF Worked
<1>6. \A n \in Mounts : ~Worked(n)' => (Nothing(fs[n]) \/ Whole(fs[n]))'
  <2> SUFFICES ASSUME NEW n \in Mounts, ~Worked(n)
               PROVE  (Nothing(fs[n]) \/ Whole(fs[n]))'
    BY <1>5
  <2>1. n # on[t]
    BY DEF Worked
  <2> QED
    BY <2>1, <1>1 DEF Files, Nothing, Whole
<1> QED
  BY <1>3, <1>4, <1>5, <1>6 DEF Files

\* It is through, and leaves it whole or leaves nothing.
LEMMA Ends ==
  ASSUME TypeOK, Files,
         NEW t \in Threads, NEW f \in FsRecords,
         pc[t] \in AtWork, Nothing(f) \/ Whole(f),
         Over(t), fs' = [fs EXCEPT ![on[t]] = f]
  PROVE  /\ Files'
         /\ \A m \in Mounts : Worked(m)' => Worked(m) /\ m # on[t]
<1>1. /\ on[t] \in Mounts /\ pc'[t] = "idle" /\ fs'[on[t]] = f
      /\ \A s \in Threads \ {t} : pc'[s] = pc[s] /\ on'[s] = on[s]
      /\ \A n \in Mounts \ {on[t]} : fs'[n] = fs[n]
  BY DEF TypeOK, Procs, Files, Over, Goto
<1>2. \A s \in Threads : pc'[s] \in AtWork => s # t /\ pc[s] \in AtWork /\ on[s] # on[t]
  BY <1>1 DEF Files, AtWork
<1>3. \A s \in Threads : pc'[s] \in AtWork => on'[s] \in Mounts /\ Stage(pc[s], fs[on[s]])'
  <2> SUFFICES ASSUME NEW s \in Threads, pc'[s] \in AtWork
               PROVE  on'[s] \in Mounts /\ Stage(pc'[s], fs'[on'[s]])
    BY DEF Stage, Nothing, Whole
  <2>1. /\ pc'[s] = pc[s] /\ on'[s] = on[s] /\ on[s] \in Mounts /\ on[s] # on[t]
        /\ pc[s] \in AtWork
    BY <1>1, <1>2 DEF Files
  <2>2. Stage(pc[s], fs[on[s]]) /\ fs'[on'[s]] = fs[on[s]]
    BY <2>1, <1>1 DEF Files
  <2> QED
    BY <2>1, <2>2
<1>4. \A r, s \in Threads :
        pc'[r] \in AtWork /\ pc'[s] \in AtWork /\ on'[r] = on'[s] => r = s
  BY <1>1, <1>2 DEF Files
<1>5. \A m \in Mounts : Worked(m)' <=> Worked(m) /\ m # on[t]
  BY <1>1, <1>2 DEF Worked, Files
<1>6. \A n \in Mounts : ~Worked(n)' => (Nothing(fs[n]) \/ Whole(fs[n]))'
  <2> SUFFICES ASSUME NEW n \in Mounts, ~Worked(n) \/ n = on[t]
               PROVE  Nothing(fs'[n]) \/ Whole(fs'[n])
    BY <1>5 DEF Nothing, Whole
  <2>1. CASE n = on[t]
    BY <2>1, <1>1
  <2>2. CASE n # on[t] /\ ~Worked(n)
    BY <2>2, <1>1 DEF Files
  <2> QED
    BY <2>1, <2>2
<1> QED
  BY <1>3, <1>4, <1>5, <1>6 DEF Files
-----------------------------------------------------------------------------
(***************************************************************************)
(* Types, action by action.                                                *)
(***************************************************************************)
\* The module, attach and detach.
LEMMA TypeModule ==
  ASSUME TypeOK,
         \/ _init \/ InitLock \/ _fini
         \/ iumfscntl_attach \/ AttachInstance \/ AttachDone
         \/ iumfscntl_detach \/ DetachInstance \/ DetachDone
  PROVE  TypeOK'
<1> USE LifecycleAssumption
<1>0. 0 \in 0 .. MaxInst /\ {Loader, Devices} \subseteq Procs
  BY DEF Procs
<1>1. CASE _init \/ InitLock \/ _fini
  BY <1>0, <1>1 DEF TypeOK, _init, InitLock, _fini, Goto, Unlock, users
<1>2. CASE iumfscntl_attach \/ AttachDone \/ iumfscntl_detach \/ DetachDone
  BY <1>0, <1>2 DEF TypeOK, iumfscntl_attach, AttachDone, iumfscntl_detach, DetachDone,
                   Goto, Lock, Unlock, users
<1>3. CASE AttachInstance
  <2> DEFINE i == at[Devices]
  <2>1. i \in Instances /\ i + 1 \in 0 .. MaxInst
    BY <1>0, <1>3 DEF TypeOK, AttachInstance, Instances
  <2>2. Blank(TRUE, NoOne) \in InstRecords
    BY BlankTyped
  <2>3. inst' \in [Instances -> InstRecords] /\ at' \in [Procs -> 0 .. MaxInst]
    <3>1. /\ inst' = inst \/ inst' = [inst EXCEPT ![i] = Blank(TRUE, NoOne)]
          /\ at' = at \/ at' = [at EXCEPT ![Devices] = i + 1]
      BY <1>3 DEF AttachInstance
    <3>2. /\ inst \in [Instances -> InstRecords] /\ at \in [Procs -> 0 .. MaxInst]
          /\ Devices \in Procs
      BY <1>0 DEF TypeOK
    <3> HIDE DEF i
    <3>3. inst' \in [Instances -> InstRecords]
      BY <2>1, <2>2, <3>1, <3>2
    <3>4. at' \in [Procs -> 0 .. MaxInst]
      BY <2>1, <3>1, <3>2
    <3> QED
      BY <3>3, <3>4
  <2>4. pc' \in [Procs -> {"idle", "init", "attach", "detach", "number", "memory", "root",
                           "failed", "lost", "freeing", "freed", "claimed", "waiting"}]
        /\ glock' \in Procs \cup {NoOne}
    BY <1>0, <1>3 DEF TypeOK, AttachInstance, Goto, Unlock
  <2> QED
    BY <1>3, <2>3, <2>4 DEF TypeOK, AttachInstance, users
<1>4. CASE DetachInstance
  <2> DEFINE i == at[Devices]
  <2>1. i \in Instances /\ i + 1 \in 0 .. MaxInst
    BY <1>0, <1>4 DEF TypeOK, DetachInstance, Instances
  <2>2. inst[i] \in InstRecords
    BY <2>1 DEF TypeOK
  <2>3. /\ Blank(FALSE, inst[i].owner) \in InstRecords
        /\ [inst[i] EXCEPT !.busy = FALSE, !.s_lock = Devices] \in InstRecords
    BY <2>2, InstTyped, BlankTyped
  <2>4. inst' \in [Instances -> InstRecords] /\ at' \in [Procs -> 0 .. MaxInst]
    BY <1>0, <1>4, <2>1, <2>3 DEF TypeOK, DetachInstance
  <2>5. pc' \in [Procs -> {"idle", "init", "attach", "detach", "number", "memory", "root",
                           "failed", "lost", "freeing", "freed", "claimed", "waiting"}]
    BY <1>0, <1>4 DEF TypeOK, DetachInstance, Goto
  <2> QED
    BY <1>4, <2>4, <2>5 DEF TypeOK, DetachInstance, users
<1> QED
  BY <1>1, <1>2, <1>3, <1>4

\* Mount and unmount.
LEMMA TypeMount ==
  ASSUME TypeOK, NEW t \in Threads, NEW m \in Mounts,
         \/ iumfs_mount(t, m) \/ iumfs_unmount(t, m)
         \/ pc[t] \in AtWork /\ on[t] = m /\
              \/ MountNumber(t) \/ MountMemory(t) \/ MountRoot(t) \/ MountFailed(t)
              \/ iumfs_free_all_node(t) \/ UnmountDone(t)
  PROVE  TypeOK'
<1> USE LifecycleAssumption
<1>0. 0 \in 0 .. MaxInst /\ t \in Procs /\ fs[m] \in FsRecords
  BY DEF Procs, TypeOK
<1>a. /\ [fs[m] EXCEPT !.memory = TRUE] \in FsRecords
      /\ [fs[m] EXCEPT !.nodes = TRUE] \in FsRecords
      /\ [fs[m] EXCEPT !.nodes = FALSE] \in FsRecords
      /\ [fs[m] EXCEPT !.nodes = TRUE, !.mounted = TRUE] \in FsRecords
      /\ \A n \in 0 .. MaxMinor : [fs[m] EXCEPT !.dev = n] \in FsRecords
      /\ Freed(fs[m]) \in FsRecords
  BY <1>0, FsTyped
<1>1. CASE iumfs_mount(t, m)
  <2>1. last + 1 \in 0 .. MaxMinor
    BY <1>1 DEF iumfs_mount, TypeOK
  <2>2. fs' \in [Mounts -> FsRecords]
    BY <1>a, <1>1, <2>1 DEF iumfs_mount, TypeOK
  <2>3. UNCHANGED <<module, attached, inst, last, unseen>>
    BY <1>1 DEF iumfs_mount
  <2>4. glock' = t /\ pc' = [pc EXCEPT ![t] = "number"]
        /\ on' = [on EXCEPT ![t] = m] /\ at' = [at EXCEPT ![t] = 0]
    BY <1>1 DEF iumfs_mount, Lock, Goto
  <2>5. /\ module' = module /\ attached' = attached /\ inst' = inst
        /\ last' = last /\ unseen' = unseen
    BY <2>3
  <2>6. pc' \in [Procs -> {"idle", "init", "attach", "detach", "number", "memory", "root",
                           "failed", "lost", "freeing", "freed", "claimed", "waiting"}]
    BY <1>0, <2>4 DEF TypeOK
  <2>7. /\ glock' \in Procs \cup {NoOne} /\ at' \in [Procs -> 0 .. MaxInst]
        /\ on' \in [Threads -> Mounts \cup {NoOne}]
    BY <1>0, <2>4 DEF TypeOK
  <2> QED
    BY <2>2, <2>5, <2>6, <2>7 DEF TypeOK
<1>2. CASE iumfs_unmount(t, m)
  BY <1>0, <1>2 DEF iumfs_unmount, TypeOK, Goto
<1>3. CASE on[t] = m /\ MountNumber(t)
  <2>1. fs[m].dev \in 0 .. MaxMinor
    BY <1>0 DEF FsRecords
  <2> QED
    BY <1>0, <1>3, <2>1 DEF MountNumber, TypeOK, Unlock, Goto, users
<1>4. CASE on[t] = m /\ MountMemory(t)
  BY <1>0, <1>a, <1>4 DEF MountMemory, TypeOK, Over, Goto, users
<1>5. CASE on[t] = m /\ MountRoot(t)
  <2>1. fs' \in [Mounts -> FsRecords]
    <3>1. [fs EXCEPT ![m].nodes = TRUE, ![m].mounted = TRUE]
            = [fs EXCEPT ![m] = [fs[m] EXCEPT !.nodes = TRUE, !.mounted = TRUE]]
      BY DEF TypeOK
    <3> QED
      BY <1>0, <1>a, <1>5, <3>1 DEF MountRoot, TypeOK
  <2> QED
    BY <1>0, <1>5, <2>1 DEF MountRoot, TypeOK, Over, Goto, users
<1>6. CASE on[t] = m /\ (MountFailed(t) \/ UnmountDone(t))
  BY <1>0, <1>a, <1>6 DEF MountFailed, UnmountDone, TypeOK, Over, Goto
<1>7. CASE on[t] = m /\ iumfs_free_all_node(t)
  BY <1>0, <1>a, <1>7 DEF iumfs_free_all_node, TypeOK, Goto, users
<1> QED
  BY <1>1, <1>2, <1>3, <1>4, <1>5, <1>6, <1>7

\* Requests and daemons: they only change instances, and threads not at work.
LEMMA Channel ==
  ASSUME TypeOK,
         \/ \E t \in Threads :
              \/ \E m \in Mounts : iumfs_daemon_request_enter(t, m)
              \/ iumfs_daemon_request_start(t) \/ iumfs_daemon_request_exit(t)
         \/ \E i \in Instances : iumfscntl_open(i) \/ iumfscntl_write(i) \/ iumfscntl_close(i)
  PROVE  /\ TypeOK'
         /\ UNCHANGED <<module, glock, attached, last, fs>>
         /\ \A p \in {Loader, Devices} : pc'[p] = pc[p] /\ at'[p] = at[p]
         /\ \A t \in Threads : \/ pc'[t] = pc[t] /\ on'[t] = on[t]
                               \/ /\ pc[t] \in {"idle", "claimed", "waiting"}
                                  /\ pc'[t] \in {"idle", "claimed", "waiting"}
         /\ \A i \in Instances : inst'[i].live = inst[i].live
<1> USE LifecycleAssumption
<1>0. \A t \in Threads : t \in Procs /\ t # Loader /\ t # Devices
  BY DEF Procs
<1>a. Instances \subseteq 0 .. MaxInst
  BY DEF Instances
<1>1. ASSUME NEW t \in Threads, NEW m \in Mounts, iumfs_daemon_request_enter(t, m)
      PROVE  /\ TypeOK'
             /\ \A i \in Instances : inst'[i].live = inst[i].live
  <2>1. PICK i \in Instances : /\ inst' = [inst EXCEPT ![i].owner = t]
                               /\ at' = [at EXCEPT ![t] = i]
    BY <1>1 DEF iumfs_daemon_request_enter
  <2>2. [inst[i] EXCEPT !.owner = t] \in InstRecords
    BY InstTyped DEF TypeOK
  <2>3. unseen' \subseteq Threads
    BY <1>1 DEF iumfs_daemon_request_enter, TypeOK
  <2>4. UNCHANGED <<module, glock, attached, last, fs>> /\ Goto(t, "claimed")
        /\ on' = [on EXCEPT ![t] = m]
    BY <1>1 DEF iumfs_daemon_request_enter
  <2>5. inst' \in [Instances -> InstRecords] /\ at' \in [Procs -> 0 .. MaxInst]
    BY <1>0, <1>a, <2>1, <2>2 DEF TypeOK
  <2>6. pc' \in [Procs -> {"idle", "init", "attach", "detach", "number", "memory", "root",
                           "failed", "lost", "freeing", "freed", "claimed", "waiting"}]
        /\ on' \in [Threads -> Mounts \cup {NoOne}]
    BY <1>0, <2>4 DEF TypeOK, Goto
  <2>7. TypeOK'
    BY <2>3, <2>4, <2>5, <2>6 DEF TypeOK
  <2>8. \A j \in Instances : inst'[j].live = inst[j].live
    BY <2>1 DEF TypeOK, InstRecords
  <2> QED
    BY <2>7, <2>8
<1>2. ASSUME NEW t \in Threads, iumfs_daemon_request_start(t) \/ iumfs_daemon_request_exit(t)
      PROVE  /\ TypeOK'
             /\ \A i \in Instances : inst'[i].live = inst[i].live
  <2>1. CASE at[t] \in Instances
    <3>1. /\ [inst[at[t]] EXCEPT !.busy = TRUE] \in InstRecords
          /\ [inst[at[t]] EXCEPT !.owner = NoOne] \in InstRecords
      BY <2>1, InstTyped DEF TypeOK
    <3> QED
      BY <1>0, <1>2, <2>1, <3>1
      DEF TypeOK, iumfs_daemon_request_start, iumfs_daemon_request_exit, Goto, users, InstRecords
  <2>2. CASE at[t] \notin Instances
    <3>1. \A e : [inst EXCEPT ![at[t]].busy = e] = inst /\ [inst EXCEPT ![at[t]].owner = e] = inst
      BY <2>2 DEF TypeOK
    <3> QED
      BY <1>0, <1>2, <2>2, <3>1
      DEF TypeOK, iumfs_daemon_request_start, iumfs_daemon_request_exit, Goto, users
  <2> QED
    BY <2>1, <2>2
<1>3. ASSUME NEW i \in Instances, iumfscntl_open(i) \/ iumfscntl_write(i) \/ iumfscntl_close(i)
      PROVE  /\ TypeOK'
             /\ \A j \in Instances : inst'[j].live = inst[j].live
  <2>1. /\ [inst[i] EXCEPT !.open = TRUE] \in InstRecords
        /\ [inst[i] EXCEPT !.busy = FALSE] \in InstRecords
        /\ Closed(inst[i]) \in InstRecords /\ Closed(inst[i]).live = inst[i].live
    <3>1. inst[i] \in InstRecords
      BY DEF TypeOK
    <3>2. Closed(inst[i]).live = inst[i].live
      BY <3>1 DEF Closed, InstRecords
    <3> QED
      BY <3>1, <3>2, InstTyped DEF Closed
  <2>2. PICK c \in InstRecords : c.live = inst[i].live /\ inst' = [inst EXCEPT ![i] = c]
    <3>1. /\ [inst[i] EXCEPT !.open = TRUE].live = inst[i].live
          /\ [inst[i] EXCEPT !.busy = FALSE].live = inst[i].live
      BY DEF TypeOK, InstRecords
    <3>2. \/ inst' = [inst EXCEPT ![i].open = TRUE]
          \/ inst' = [inst EXCEPT ![i].busy = FALSE]
          \/ inst' = [inst EXCEPT ![i] = Closed(@)]
      BY <1>3 DEF iumfscntl_open, iumfscntl_write, iumfscntl_close
    <3> QED
      BY <2>1, <3>1, <3>2
  <2>3. UNCHANGED <<module, glock, attached, last, fs, pc, at, on, unseen>>
    BY <1>3 DEF iumfscntl_open, iumfscntl_write, iumfscntl_close, users
  <2>4. TypeOK'
    BY <2>2, <2>3 DEF TypeOK
  <2> QED
    BY <2>2, <2>4 DEF TypeOK
<1>4. TypeOK' /\ \A i \in Instances : inst'[i].live = inst[i].live
  BY <1>1, <1>2, <1>3
<1>5. ASSUME NEW t \in Threads,
             \/ \E m \in Mounts : iumfs_daemon_request_enter(t, m)
             \/ iumfs_daemon_request_start(t) \/ iumfs_daemon_request_exit(t)
      PROVE  /\ UNCHANGED <<module, glock, attached, last, fs>>
             /\ \A p \in Procs \ {t} : pc'[p] = pc[p] /\ at'[p] = at[p]
             /\ \A s \in Threads \ {t} : on'[s] = on[s]
             /\ pc[t] \in {"idle", "claimed", "waiting"}
             /\ pc'[t] \in {"idle", "claimed", "waiting"}
  BY <1>0, <1>5 DEF iumfs_daemon_request_enter, iumfs_daemon_request_start,
                   iumfs_daemon_request_exit, Goto, users, TypeOK
<1>6. ASSUME NEW i \in Instances, iumfscntl_open(i) \/ iumfscntl_write(i) \/ iumfscntl_close(i)
      PROVE  UNCHANGED <<module, glock, attached, last, fs, pc, at, on>>
  BY <1>6 DEF iumfscntl_open, iumfscntl_write, iumfscntl_close, users
<1>7. {Loader, Devices} \subseteq Procs
  BY DEF Procs
<1>8. /\ UNCHANGED <<module, glock, attached, last, fs>>
      /\ \A p \in {Loader, Devices} : pc'[p] = pc[p] /\ at'[p] = at[p]
  BY <1>0, <1>5, <1>6, <1>7
<1>9. \A t \in Threads : \/ pc'[t] = pc[t] /\ on'[t] = on[t]
                         \/ /\ pc[t] \in {"idle", "claimed", "waiting"}
                            /\ pc'[t] \in {"idle", "claimed", "waiting"}
  BY <1>0, <1>5, <1>6
<1> QED
  BY <1>4, <1>8, <1>9
-----------------------------------------------------------------------------
(***************************************************************************)
(* The invariant, action by action.                                        *)
(***************************************************************************)
\* The module, attach and detach: file systems stay as they are.
LEMMA ModuleKeeps ==
  ASSUME LifeInv, "loadFirst" \in Rules,
         \/ _init \/ InitLock \/ _fini
         \/ iumfscntl_attach \/ AttachInstance \/ AttachDone
         \/ iumfscntl_detach \/ DetachInstance \/ DetachDone
  PROVE  LifeInv'
<1> USE LifecycleAssumption
<1>0. \A t \in Threads : t \in Procs /\ t # Loader /\ t # Devices
  BY DEF Procs
<1>1. TypeOK'
  BY TypeModule DEF LifeInv
<1>2. fs' = fs /\ last' = last /\ on' = on /\ \A t \in Threads : pc'[t] = pc[t]
  BY <1>0 DEF LifeInv, TypeOK, _init, InitLock, _fini, iumfscntl_attach, AttachInstance,
              AttachDone, iumfscntl_detach, DetachInstance, DetachDone, Goto, users
<1>3. Files' /\ Numbers'
  BY <1>2, FilesFrame DEF LifeInv
<1>4. Places'
  <2>1. pc'[Loader] \in {"idle", "init"} /\ pc'[Devices] \in {"idle", "attach", "detach"}
    <3>1. Loader \in Procs /\ Devices \in Procs /\ Loader # Devices
      BY DEF Procs, Loader, Devices
    <3>2. /\ pc \in [Procs -> {"idle", "init", "attach", "detach", "number", "memory", "root",
                              "failed", "lost", "freeing", "freed", "claimed", "waiting"}]
          /\ pc[Loader] \in {"idle", "init"} /\ pc[Devices] \in {"idle", "attach", "detach"}
      BY DEF LifeInv, TypeOK, Places
    <3>3. \/ pc' = pc
          \/ \E l \in {"idle", "init"} : pc' = [pc EXCEPT ![Loader] = l]
          \/ \E l \in {"idle", "attach", "detach"} : pc' = [pc EXCEPT ![Devices] = l]
      BY DEF _init, InitLock, _fini, iumfscntl_attach, AttachInstance, AttachDone,
             iumfscntl_detach, DetachInstance, DetachDone, Goto
    <3> QED
      BY <3>1, <3>2, <3>3
  <2> QED
    BY <1>2, <2>1 DEF LifeInv, Places
<1>5. Unloaded'
  <2>1. CASE _init \/ InitLock
    <3>1. Loader \in Procs /\ Devices \in Procs /\ Loader # Devices
      BY DEF Procs, Loader, Devices
    <3>2. attached' = attached /\ pc'[Devices] = pc[Devices]
      BY <2>1, <3>1 DEF LifeInv, TypeOK, _init, InitLock, Goto
    <3>3. module' # "loaded" =>
            ~attached' /\ pc'[Devices] = "idle" /\ \A t \in Threads : pc'[t] \notin AtWork
      BY <1>2, <2>1, <3>2 DEF LifeInv, Unloaded, _init, InitLock
    <3>4. module' # "loaded" => \A m \in Mounts : Nothing(fs[m])'
      BY <1>2, <2>1 DEF LifeInv, Unloaded, _init, InitLock, Nothing
    <3>5. pc'[Loader] = "init" => module' = "installed"
      BY <2>1, <3>1 DEF LifeInv, TypeOK, Unloaded, _init, InitLock, Goto
    <3> QED
      BY <3>3, <3>4, <3>5 DEF Unloaded
  <2>2. CASE _fini
    <3>1. \A t \in Threads : pc[t] \notin AtWork
      <4> SUFFICES ASSUME NEW t \in Threads, pc[t] \in AtWork PROVE FALSE
        OBVIOUS
      <4>1. on[t] \in Mounts /\ Stage(pc[t], fs[on[t]])
        BY DEF LifeInv, Files
      <4>2. pc[t] \in {"freeing", "freed"}
        BY <2>2 DEF _fini, Mounting, AtWork
      <4>3. fs[on[t]].mounted
        BY <4>1, <4>2 DEF Stage, Whole
      <4> QED
        BY <2>2, <4>1, <4>3 DEF _fini, Mounted
    <3>2. \A n \in Mounts : Nothing(fs[n])
      BY <2>2, <3>1 DEF LifeInv, Files, Worked, Whole, _fini, Mounted
    <3> QED
      BY <1>2, <2>2, <3>1, <3>2 DEF LifeInv, Unloaded, _fini, Nothing
  <2>3. CASE \/ iumfscntl_attach \/ AttachInstance \/ AttachDone
             \/ iumfscntl_detach \/ DetachInstance \/ DetachDone
    <3>1. Loader \in Procs /\ Devices \in Procs /\ Loader # Devices
      BY DEF Procs, Loader, Devices
    <3>2. module' = module /\ (pc[Devices] # "idle" \/ attached \/ Known)
      BY <2>3 DEF iumfscntl_attach, AttachInstance, AttachDone,
                  iumfscntl_detach, DetachInstance, DetachDone
    <3>3. module = "loaded"
      BY <3>2 DEF LifeInv, Unloaded, Known
    <3>4. \/ pc' = pc
          \/ \E l \in {"idle", "attach", "detach"} : pc' = [pc EXCEPT ![Devices] = l]
      BY <2>3 DEF iumfscntl_attach, AttachInstance, AttachDone,
                  iumfscntl_detach, DetachInstance, DetachDone, Goto
    <3>5. module = "loaded" /\ module' = module /\ pc'[Loader] = pc[Loader]
      BY <3>1, <3>2, <3>3, <3>4 DEF LifeInv, TypeOK
    <3> QED
      BY <3>5 DEF LifeInv, Unloaded
  <2> QED
    BY <2>1, <2>2, <2>3
<1>6. Locked'
  <2>1. CASE _init \/ InitLock \/ _fini
    <3>1. CASE InitLock
      BY <1>2, <3>1 DEF LifeInv, TypeOK, Procs, Unloaded, Locked, InitLock, Goto, AtWork
    <3>2. CASE _init \/ _fini
      BY <1>2, <3>2 DEF LifeInv, TypeOK, Procs, Locked, _init, _fini, Goto
    <3> QED
      BY <2>1, <3>1, <3>2
  <2>2. CASE iumfscntl_attach \/ iumfscntl_detach
    BY <1>0, <1>2, <2>2 DEF LifeInv, TypeOK, Procs, Locked, iumfscntl_attach, iumfscntl_detach,
                            Goto, Lock
  <2>3. CASE AttachInstance \/ AttachDone \/ DetachInstance \/ DetachDone
    BY <1>0, <1>2, <2>3 DEF LifeInv, TypeOK, Procs, Locked, AttachInstance, AttachDone,
                            DetachInstance, DetachDone, Goto, Unlock
  <2> QED
    BY <2>1, <2>2, <2>3
<1> QED
  BY <1>1, <1>3, <1>4, <1>5, <1>6 DEF LifeInv

\* Requests and daemons.
LEMMA ChannelKeeps ==
  ASSUME LifeInv,
         \/ \E t \in Threads :
              \/ \E m \in Mounts : iumfs_daemon_request_enter(t, m)
              \/ iumfs_daemon_request_start(t) \/ iumfs_daemon_request_exit(t)
         \/ \E i \in Instances : iumfscntl_open(i) \/ iumfscntl_write(i) \/ iumfscntl_close(i)
  PROVE  LifeInv'
<1>1. /\ TypeOK' /\ UNCHANGED <<module, glock, attached, last, fs>>
      /\ pc'[Loader] = pc[Loader] /\ pc'[Devices] = pc[Devices]
      /\ \A t \in Threads : \/ pc'[t] = pc[t] /\ on'[t] = on[t]
                            \/ /\ pc[t] \in {"idle", "claimed", "waiting"}
                               /\ pc'[t] \in {"idle", "claimed", "waiting"}
  BY Channel DEF LifeInv
<1>2. Files' /\ Numbers'
  BY <1>1, FilesFrame DEF LifeInv, AtWork
<1>3. Places' /\ Unloaded' /\ Locked'
  BY <1>1 DEF LifeInv, Places, Unloaded, Locked, AtWork, Nothing
<1> QED
  BY <1>1, <1>2, <1>3 DEF LifeInv

\* Mount begins: the number is new.
LEMMA MountKeeps ==
  ASSUME LifeInv, "loadFirst" \in Rules,
         NEW t \in Threads, NEW m \in Mounts, iumfs_mount(t, m)
  PROVE  LifeInv'
<1> USE LifecycleAssumption
<1>0. t \in Procs /\ t # Loader /\ t # Devices /\ fs[m] \in FsRecords
  BY DEF Procs, LifeInv, TypeOK
<1>1. TypeOK'
  BY TypeMount DEF LifeInv
<1>2. /\ module = "loaded" /\ pc[t] = "idle" /\ glock = NoOne /\ glock' = t
      /\ pc' = [pc EXCEPT ![t] = "number"] /\ on' = [on EXCEPT ![t] = m]
      /\ fs' = [fs EXCEPT ![m] = [fs[m] EXCEPT !.dev = last + 1]]
      /\ UNCHANGED <<module, attached, last>> /\ last < MaxMinor
  BY DEF iumfs_mount, Known, Lock, Goto
<1>3. ~Worked(m) /\ Nothing(fs[m])
  <2>1. ASSUME NEW s \in Threads, pc[s] \in AtWork, on[s] = m PROVE FALSE
    <3>1. pc[s] \in {"freeing", "freed"}
      BY <2>1 DEF iumfs_mount, Mounting, AtWork
    <3>2. Stage(pc[s], fs[m])
      BY <2>1 DEF LifeInv, Files
    <3> QED
      BY <3>1, <3>2 DEF Stage, Whole, iumfs_mount
  <2>2. ~Worked(m)
    BY <2>1 DEF Worked
  <2> QED
    BY <2>2 DEF LifeInv, Files, Whole, iumfs_mount
<1>4. /\ [fs[m] EXCEPT !.dev = last + 1] \in FsRecords
      /\ Nothing([fs[m] EXCEPT !.dev = last + 1])
      /\ [fs[m] EXCEPT !.dev = last + 1].dev = last + 1
  <2>1. last + 1 \in 0 .. MaxMinor
    BY <1>2 DEF LifeInv, TypeOK
  <2> QED
    BY <1>0, <1>3, <2>1 DEF Nothing, FsRecords
<1>5. Files'
  BY <1>2, <1>3, <1>4, Begins DEF LifeInv, AtWork, Stage
<1>6. Places' /\ Unloaded'
  BY <1>0, <1>2 DEF LifeInv, TypeOK, Places, Unloaded, AtWork
<1>7. \A s \in Threads : pc[s] # "number"
  BY <1>2 DEF LifeInv, Locked, Procs
<1>8. Locked'
  <2>1. pc[Devices] = "idle"
    BY <1>2 DEF LifeInv, Locked, Places, Procs
  <2> QED
    BY <1>0, <1>2, <1>7, <2>1 DEF LifeInv, TypeOK, Locked, Procs
<1>9. Numbers'
  <2>1. \A n \in Mounts \ {m} : fs'[n] = fs[n] /\ (Numbered(n)' => Numbered(n))
    BY <1>0, <1>2 DEF LifeInv, TypeOK, Numbered, Worked
  <2>2. \A n \in Mounts \ {m} : Numbered(n)' => fs'[n].dev <= last
    BY <1>7, <2>1 DEF LifeInv, Numbers
  <2>3. /\ fs'[m].dev = last + 1 /\ pc'[t] = "number" /\ on'[t] = m
        /\ \A s \in Threads : pc'[s] = "number" => s = t
    BY <1>0, <1>2, <1>4, <1>7 DEF LifeInv, TypeOK
  <2>4. last \in Nat /\ \A n \in Mounts : fs'[n].dev \in Nat
    BY <1>1 DEF LifeInv, TypeOK, FsRecords
  <2>5. \A k, n \in Mounts : Numbered(k)' /\ Numbered(n)' /\ fs'[k].dev = fs'[n].dev => k = n
    <3> SUFFICES ASSUME NEW k \in Mounts, NEW n \in Mounts, Numbered(k)', Numbered(n)',
                        fs'[k].dev = fs'[n].dev, k # n
                 PROVE  FALSE
      OBVIOUS
    <3>1. CASE k # m /\ n # m
      BY <2>1, <3>1 DEF LifeInv, Numbers
    <3>2. CASE k = m \/ n = m
      BY <2>2, <2>3, <2>4, <3>2
    <3> QED
      BY <3>1, <3>2
  <2> QED
    BY <1>2, <2>2, <2>3, <2>5 DEF Numbers
<1> QED
  BY <1>1, <1>5, <1>6, <1>8, <1>9 DEF LifeInv

\* The number is written, and the lock given back.
LEMMA NumberKeeps ==
  ASSUME LifeInv, NEW t \in Threads, MountNumber(t)
  PROVE  LifeInv'
<1> USE LifecycleAssumption
<1>0. t \in Procs /\ t # Loader /\ t # Devices /\ pc[t] \in AtWork
  BY DEF Procs, MountNumber, AtWork
<1>1. on[t] \in Mounts /\ Nothing(fs[on[t]]) /\ fs[on[t]] \in FsRecords
  BY <1>0 DEF LifeInv, TypeOK, Files, Stage, MountNumber
<1>2. TypeOK'
  BY <1>0, <1>1, TypeMount DEF LifeInv
<1>3. /\ pc[t] = "number" /\ glock' = NoOne /\ pc' = [pc EXCEPT ![t] = "memory"] /\ on' = on
      /\ UNCHANGED <<module, attached, fs>> /\ last' = fs[on[t]].dev
  BY DEF MountNumber, Unlock, Goto, users
<1>4. fs' = [fs EXCEPT ![on[t]] = fs[on[t]]]
  BY <1>3 DEF LifeInv, TypeOK
<1>5. Files' /\ \A m \in Mounts : Worked(m)' <=> Worked(m)
  BY <1>0, <1>1, <1>3, <1>4, GoesOn DEF LifeInv, AtWork, Stage
<1>6. glock = t /\ \A s \in Threads : pc[s] = "number" => s = t
  BY <1>3 DEF LifeInv, Locked
<1>7. pc[Devices] = "idle"
  BY <1>0, <1>6 DEF LifeInv, Locked, Places
<1>8. Places' /\ Unloaded'
  BY <1>0, <1>3 DEF LifeInv, TypeOK, Places, Unloaded, AtWork, Nothing
<1>9. Locked'
  BY <1>0, <1>3, <1>6, <1>7 DEF LifeInv, TypeOK, Locked, Procs
<1>10. Numbers'
  <2>1. \A m \in Mounts : Numbered(m)' <=> Numbered(m)
    BY <1>3, <1>5 DEF Numbered
  <2>2. last' = last + 1
    BY <1>3 DEF LifeInv, Numbers
  <2>3. last \in Nat /\ \A m \in Mounts : fs[m].dev \in Nat
    BY DEF LifeInv, TypeOK, FsRecords
  <2>4. \A m \in Mounts : Numbered(m) => fs[m].dev <= last'
    BY <1>3, <1>6, <2>2, <2>3 DEF LifeInv, Numbers
  <2>5. \A s \in Threads : pc'[s] # "number"
    BY <1>0, <1>3, <1>6 DEF LifeInv, TypeOK, Procs
  <2> QED
    BY <1>3, <2>1, <2>4, <2>5 DEF LifeInv, Numbers
<1> QED
  BY <1>2, <1>5, <1>8, <1>9, <1>10 DEF LifeInv

\* What the other steps of mount and of unmount do.
LEMMA WorkerStep ==
  ASSUME TypeOK, Files, NEW t \in Threads,
         \/ MountMemory(t) \/ MountRoot(t) \/ MountFailed(t)
         \/ iumfs_free_all_node(t) \/ UnmountDone(t)
  PROVE  /\ pc[t] \in AtWork \ {"number"} /\ on[t] \in Mounts
         /\ UNCHANGED <<module, glock, attached, inst, last, at>>
         /\ \E f \in FsRecords :
              /\ fs' = [fs EXCEPT ![on[t]] = f]
              /\ \/ Nothing(f) /\ Over(t)
                 \/ Whole(f) /\ f.dev = fs[on[t]].dev /\ Over(t)
                 \/ \E l \in AtWork \ {"number"} :
                      /\ Stage(l, f) /\ f.dev = fs[on[t]].dev
                      /\ pc' = [pc EXCEPT ![t] = l] /\ on' = on
<1> DEFINE m == on[t]
<1> DEFINE f == fs[m]
<1>1. pc[t] \in AtWork \ {"number"}
  BY DEF MountMemory, MountRoot, MountFailed, iumfs_free_all_node, UnmountDone, AtWork
<1>2. m \in Mounts /\ f \in FsRecords /\ Stage(pc[t], f)
  BY <1>1 DEF Files, TypeOK
<1>3. UNCHANGED <<module, glock, attached, inst, last, at>>
  BY DEF MountMemory, MountRoot, MountFailed, iumfs_free_all_node, UnmountDone
<1>4. fs = [fs EXCEPT ![m] = f]
  BY DEF TypeOK
<1>a. /\ [f EXCEPT !.memory = TRUE] \in FsRecords
      /\ [f EXCEPT !.nodes = TRUE] \in FsRecords
      /\ [f EXCEPT !.nodes = FALSE] \in FsRecords
      /\ [f EXCEPT !.nodes = TRUE, !.mounted = TRUE] \in FsRecords
      /\ Freed(f) \in FsRecords
  BY <1>2, FsTyped
<1> HIDE DEF m, f
<1>5. CASE MountMemory(t)
  <2>1. Nothing(f) /\ Stage("root", [f EXCEPT !.memory = TRUE])
        /\ [f EXCEPT !.memory = TRUE].dev = f.dev
    BY <1>2, <1>5 DEF MountMemory, Stage, Nothing, FsRecords
  <2>2. \/ fs' = [fs EXCEPT ![m] = [f EXCEPT !.memory = TRUE]]
           /\ pc' = [pc EXCEPT ![t] = "root"] /\ on' = on
        \/ fs' = [fs EXCEPT ![m] = f] /\ Over(t)
    BY <1>4, <1>5 DEF MountMemory, Goto, users, m, f
  <2> QED
    BY <1>1, <1>2, <1>3, <1>a, <2>1, <2>2 DEF AtWork, m, f
<1>6. CASE MountRoot(t)
  <2>1. /\ Whole([f EXCEPT !.nodes = TRUE, !.mounted = TRUE])
        /\ [f EXCEPT !.nodes = TRUE, !.mounted = TRUE].dev = f.dev
        /\ Stage("failed", f) /\ Stage("lost", [f EXCEPT !.nodes = TRUE])
        /\ [f EXCEPT !.nodes = TRUE].dev = f.dev
    BY <1>2, <1>6 DEF MountRoot, Stage, Whole, FsRecords
  <2>2. \/ fs' = [fs EXCEPT ![m].nodes = TRUE, ![m].mounted = TRUE] /\ Over(t)
        \/ fs' = [fs EXCEPT ![m] = f]
           /\ pc' = [pc EXCEPT ![t] = "failed"] /\ on' = on
        \/ fs' = [fs EXCEPT ![m] = [f EXCEPT !.nodes = TRUE]]
           /\ pc' = [pc EXCEPT ![t] = "lost"] /\ on' = on
    BY <1>4, <1>6 DEF MountRoot, Goto, users, m, f
  <2>3. [fs EXCEPT ![m].nodes = TRUE, ![m].mounted = TRUE]
          = [fs EXCEPT ![m] = [f EXCEPT !.nodes = TRUE, !.mounted = TRUE]]
    BY <1>2 DEF TypeOK, f
  <2> QED
    BY <1>1, <1>2, <1>3, <1>a, <2>1, <2>2, <2>3 DEF AtWork, m, f
<1>7. CASE MountFailed(t) \/ UnmountDone(t)
  <2>1. ~f.nodes
    BY <1>2, <1>7 DEF MountFailed, UnmountDone, Stage
  <2>2. Nothing(Freed(f))
    BY <2>1 DEF Nothing, Freed, NoFs
  <2>3. fs' = [fs EXCEPT ![m] = Freed(f)] /\ Over(t)
    BY <1>7 DEF MountFailed, UnmountDone, m, f
  <2> QED
    BY <1>1, <1>2, <1>3, <1>a, <2>2, <2>3 DEF m, f
<1>8. CASE iumfs_free_all_node(t)
  <2>1. Stage("freed", [f EXCEPT !.nodes = FALSE]) /\ [f EXCEPT !.nodes = FALSE].dev = f.dev
    BY <1>2, <1>8 DEF iumfs_free_all_node, Stage, Whole, FsRecords
  <2>2. /\ fs' = [fs EXCEPT ![m] = [f EXCEPT !.nodes = FALSE]]
        /\ pc' = [pc EXCEPT ![t] = "freed"] /\ on' = on
    BY <1>8 DEF iumfs_free_all_node, Goto, users, m, f
  <2> QED
    BY <1>1, <1>2, <1>3, <1>a, <2>1, <2>2 DEF AtWork, m, f
<1> QED
  BY <1>5, <1>6, <1>7, <1>8

\* The other steps of mount, and unmount.
LEMMA WorkerKeeps ==
  ASSUME LifeInv, NEW t \in Threads,
         \/ MountMemory(t) \/ MountRoot(t) \/ MountFailed(t)
         \/ iumfs_free_all_node(t) \/ UnmountDone(t)
  PROVE  LifeInv'
<1>0. t \in Procs /\ t # Loader /\ t # Devices
  BY LifecycleAssumption DEF Procs
<1>1. /\ pc[t] \in AtWork \ {"number"} /\ on[t] \in Mounts
      /\ UNCHANGED <<module, glock, attached, inst, last, at>>
  BY WorkerStep DEF LifeInv
<1>2. PICK f \in FsRecords :
        /\ fs' = [fs EXCEPT ![on[t]] = f]
        /\ \/ Nothing(f) /\ Over(t)
           \/ Whole(f) /\ f.dev = fs[on[t]].dev /\ Over(t)
           \/ \E l \in AtWork \ {"number"} :
                /\ Stage(l, f) /\ f.dev = fs[on[t]].dev
                /\ pc' = [pc EXCEPT ![t] = l] /\ on' = on
  BY WorkerStep DEF LifeInv
<1>3. TypeOK'
  BY <1>0, TypeMount, <1>1 DEF LifeInv
<1>4. /\ \A s \in Procs \ {t} : pc'[s] = pc[s]
      /\ \A s \in Threads \ {t} : on'[s] = on[s]
      /\ \A n \in Mounts \ {on[t]} : fs'[n] = fs[n]
      /\ fs'[on[t]] = f
      /\ pc'[t] \in AtWork \ {"number"} \/ pc'[t] = "idle"
  BY <1>0, <1>1, <1>2 DEF LifeInv, TypeOK, Over, Goto
<1>5. Places' /\ Locked'
  BY <1>0, <1>1, <1>4 DEF LifeInv, Places, Locked, Procs
<1>6. Unloaded'
  <2>1. module = "loaded"
    BY <1>1 DEF LifeInv, Unloaded
  <2>2. pc'[Loader] = pc[Loader] /\ pc'[Devices] = pc[Devices]
    BY <1>0, <1>4 DEF Procs
  <2> QED
    BY <1>1, <2>1, <2>2 DEF LifeInv, Unloaded
<1>7. \A s \in Threads : /\ pc'[s] = "number" <=> pc[s] = "number"
                         /\ pc[s] = "number" => /\ on'[s] = on[s]
                                                /\ fs'[on[s]].dev = fs[on[s]].dev
  <2> SUFFICES ASSUME NEW s \in Threads
               PROVE  /\ pc'[s] = "number" <=> pc[s] = "number"
                      /\ pc[s] = "number" => /\ on'[s] = on[s]
                                             /\ fs'[on[s]].dev = fs[on[s]].dev
    OBVIOUS
  <2>1. CASE s = t
    BY <1>1, <1>4, <2>1
  <2>2. CASE s # t
    <3>1. pc'[s] = pc[s] /\ on'[s] = on[s]
      BY <1>4, <2>2 DEF Procs
    <3>2. pc[s] = "number" => on[s] \in Mounts /\ on[s] # on[t]
      BY <1>1, <2>2 DEF LifeInv, Files, AtWork
    <3> QED
      BY <1>4, <3>1, <3>2
  <2> QED
    BY <2>1, <2>2
<1>8. CASE Over(t) /\ (Nothing(f) \/ (Whole(f) /\ f.dev = fs[on[t]].dev))
  <2>1. Files' /\ \A n \in Mounts : Worked(n)' => Worked(n) /\ n # on[t]
    BY <1>1, <1>2, <1>8, Ends DEF LifeInv
  <2>2. \A n \in Mounts : Numbered(n)' => Numbered(n) /\ fs'[n].dev = fs[n].dev
    <3> SUFFICES ASSUME NEW n \in Mounts, Numbered(n)'
                 PROVE  Numbered(n) /\ fs'[n].dev = fs[n].dev
      OBVIOUS
    <3>1. CASE n # on[t]
      BY <1>4, <2>1, <3>1 DEF Numbered
    <3>2. CASE n = on[t]
      <4>1. Worked(n) /\ Numbered(n)
        BY <1>1, <3>2 DEF Worked, Numbered
      <4>2. fs'[n].mounted
        BY <2>1, <3>2 DEF Numbered
      <4> QED
        BY <1>4, <1>8, <3>2, <4>1, <4>2 DEF Nothing
    <3> QED
      BY <3>1, <3>2
  <2>3. Numbers'
    BY <1>1, <1>7, <2>2, NumbersFrame DEF LifeInv
  <2> QED
    BY <1>3, <1>5, <1>6, <2>1, <2>3 DEF LifeInv
<1>9. CASE \E l \in AtWork \ {"number"} : /\ Stage(l, f) /\ f.dev = fs[on[t]].dev
                                          /\ pc' = [pc EXCEPT ![t] = l] /\ on' = on
  <2>1. Files' /\ \A n \in Mounts : Worked(n)' <=> Worked(n)
    BY <1>1, <1>2, <1>9, GoesOn DEF LifeInv
  <2>2. \A n \in Mounts : Numbered(n)' => Numbered(n) /\ fs'[n].dev = fs[n].dev
    <3> SUFFICES ASSUME NEW n \in Mounts, Numbered(n)'
                 PROVE  Numbered(n) /\ fs'[n].dev = fs[n].dev
      OBVIOUS
    <3>1. CASE n # on[t]
      BY <1>4, <2>1, <3>1 DEF Numbered
    <3>2. CASE n = on[t]
      <4>1. Worked(n) /\ Numbered(n)
        BY <1>1, <3>2 DEF Worked, Numbered
      <4> QED
        BY <1>4, <1>9, <3>2, <4>1
    <3> QED
      BY <3>1, <3>2
  <2>3. Numbers'
    BY <1>1, <1>7, <2>2, NumbersFrame DEF LifeInv
  <2> QED
    BY <1>3, <1>5, <1>6, <2>1, <2>3 DEF LifeInv
<1> QED
  BY <1>2, <1>8, <1>9

\* Unmount finds nobody at work on a file system that is there.
LEMMA UnmountKeeps ==
  ASSUME LifeInv, NEW t \in Threads, NEW m \in Mounts, iumfs_unmount(t, m)
  PROVE  LifeInv'
<1>0. t \in Procs /\ t # Loader /\ t # Devices
  BY LifecycleAssumption DEF Procs
<1>1. /\ pc[t] = "idle" /\ fs[m].mounted /\ ~Unmounting(m)
      /\ pc' = [pc EXCEPT ![t] = "freeing"] /\ on' = [on EXCEPT ![t] = m]
      /\ UNCHANGED <<module, glock, attached, inst, last, fs, at, unseen>>
  BY DEF iumfs_unmount, Goto
<1>2. TypeOK'
  BY TypeMount DEF LifeInv
<1>3. ~Worked(m)
  <2> SUFFICES ASSUME NEW s \in Threads, pc[s] \in AtWork, on[s] = m PROVE FALSE
    BY DEF Worked
  <2>1. Stage(pc[s], fs[m])
    BY DEF LifeInv, Files
  <2>2. pc[s] \in {"freeing", "freed"}
    BY <1>1, <2>1 DEF Stage, Nothing, AtWork
  <2> QED
    BY <1>1, <2>2 DEF Unmounting
<1>4. Whole(fs[m]) /\ fs[m] \in FsRecords /\ fs' = [fs EXCEPT ![m] = fs[m]]
  BY <1>1, <1>3 DEF LifeInv, Files, Nothing, TypeOK
<1>5. Files'
  BY <1>1, <1>3, <1>4, Begins DEF LifeInv, AtWork, Stage
<1>6. /\ \A s \in Procs \ {t} : pc'[s] = pc[s]
      /\ \A s \in Threads \ {t} : on'[s] = on[s]
      /\ pc'[t] = "freeing" /\ on'[t] = m
  BY <1>0, <1>1 DEF LifeInv, TypeOK
<1>7. \A n \in Mounts : Numbered(n)' => Numbered(n) /\ fs'[n].dev = fs[n].dev
  BY <1>1, <1>6 DEF Numbered, Worked, Procs
<1>8. \A s \in Threads : /\ pc'[s] = "number" <=> pc[s] = "number"
                         /\ pc[s] = "number" => /\ on'[s] = on[s]
                                                /\ fs'[on[s]].dev = fs[on[s]].dev
  BY <1>1, <1>6 DEF Procs
<1>9. Numbers'
  BY <1>1, <1>7, <1>8, NumbersFrame DEF LifeInv
<1>10. module = "loaded"
  BY <1>1 DEF LifeInv, Unloaded, Nothing
<1>11. Places' /\ Unloaded' /\ Locked'
  BY <1>0, <1>1, <1>6, <1>10 DEF LifeInv, Places, Unloaded, Locked, AtWork, Procs
<1> QED
  BY <1>2, <1>5, <1>9, <1>11 DEF LifeInv

\* Every step keeps the invariant.
LEMMA LifeStep ==
  ASSUME LifeInv, "loadFirst" \in Rules, [Next]_vars
  PROVE  LifeInv'
<1>1. CASE Next
  <2>1. CASE \/ _init \/ InitLock \/ _fini
             \/ iumfscntl_attach \/ AttachInstance \/ AttachDone
             \/ iumfscntl_detach \/ DetachInstance \/ DetachDone
    BY <2>1, ModuleKeeps
  <2>2. CASE \/ \E t \in Threads :
                  \/ \E m \in Mounts : iumfs_daemon_request_enter(t, m)
                  \/ iumfs_daemon_request_start(t) \/ iumfs_daemon_request_exit(t)
             \/ \E i \in Instances :
                  iumfscntl_open(i) \/ iumfscntl_write(i) \/ iumfscntl_close(i)
    BY <2>2, ChannelKeeps
  <2>3. CASE \E t \in Threads : \E m \in Mounts : iumfs_mount(t, m) \/ iumfs_unmount(t, m)
    BY <2>3, MountKeeps, UnmountKeeps
  <2>4. CASE \E t \in Threads :
               \/ MountNumber(t) \/ MountMemory(t) \/ MountRoot(t) \/ MountFailed(t)
               \/ iumfs_free_all_node(t) \/ UnmountDone(t)
    BY <2>4, NumberKeeps, WorkerKeeps
  <2> QED
    BY <1>1, <2>1, <2>2, <2>3, <2>4 DEF Next
<1>2. CASE UNCHANGED vars
  BY <1>2 DEF vars, LifeInv, TypeOK, Places, Unloaded, Locked, Files, Numbers, Numbered, Worked,
              Stage, Nothing, Whole
<1> QED
  BY <1>1, <1>2

-----------------------------------------------------------------------------
(***************************************************************************)
(* Instances that have memory.                                             *)
(***************************************************************************)
\* If attach has memory for all of them, detach frees what attach has made, unless
\* it gives up, and then the device stays.
LEMMA AliveStep ==
  ASSUME LifeInv, Alive, {"loadFirst", "wholeAttach"} \subseteq Rules, [Next]_vars
  PROVE  Alive'
<1> USE LifecycleAssumption
<1>0. Loader \in Procs /\ Devices \in Procs /\ Loader # Devices /\ Devices \notin Threads
  BY DEF Procs, Loader, Devices
<1>t. /\ pc \in [Procs -> {"idle", "init", "attach", "detach", "number", "memory", "root",
                           "failed", "lost", "freeing", "freed", "claimed", "waiting"}]
      /\ at \in [Procs -> 0 .. MaxInst] /\ inst \in [Instances -> InstRecords]
  BY DEF LifeInv, TypeOK
<1>1. CASE iumfscntl_attach
  <2>1. \A i \in Instances : ~inst[i].live
    BY <1>1 DEF Alive, iumfscntl_attach
  <2> QED
    BY <1>1, <2>1 DEF Alive, iumfscntl_attach
<1>2. CASE AttachInstance
  <2> DEFINE k == at[Devices]
  <2>1. /\ k \in Instances /\ inst' = [inst EXCEPT ![k] = Blank(TRUE, NoOne)]
        /\ at' = [at EXCEPT ![Devices] = k + 1] /\ pc' = pc
        /\ pc[Devices] = "attach"
    <3>1. "wholeAttach" \in Rules
      OBVIOUS
    <3>2. k \in 0 .. MaxInst /\ k < MaxInst
      BY <1>0, <1>2, <1>t DEF AttachInstance
    <3>3. k \in Instances
      BY <3>2 DEF Instances
    <3> QED
      BY <1>2, <3>1, <3>3 DEF AttachInstance
  <2>2. k \in Nat /\ at'[Devices] = k + 1 /\ pc'[Devices] = "attach"
    BY <1>0, <1>t, <2>1 DEF Instances
  <2> HIDE DEF k
  <2>3. \A i \in Instances : inst'[i].live => i < k \/ i = k
    BY <1>t, <2>1 DEF Alive, k
  <2>4. \A i \in Instances : inst'[i].live => i < k + 1
    BY <2>2, <2>3 DEF Instances
  <2> QED
    BY <2>2, <2>4 DEF Alive
<1>3. CASE AttachDone
  BY <1>0, <1>3, <1>t DEF Alive, AttachDone, Goto
<1>4. CASE iumfscntl_detach
  <2>1. /\ pc[Devices] = "idle" /\ attached /\ attached' = attached /\ inst' = inst
        /\ at' = [at EXCEPT ![Devices] = 0]
        /\ (pc' = [pc EXCEPT ![Devices] = "detach"] \/ pc' = pc)
    BY <1>4 DEF iumfscntl_detach, Goto
  <2> QED
    BY <1>0, <1>t, <2>1 DEF Alive, Instances
<1>5. CASE DetachInstance
  <2> DEFINE k == at[Devices]
  <2>1. k \in Instances /\ pc[Devices] = "detach" /\ attached' = attached
    BY <1>0, <1>5, <1>t DEF DetachInstance, Instances
  <2>2. CASE inst[k].busy
    <3>1. /\ inst' = [inst EXCEPT ![k].busy = FALSE, ![k].s_lock = Devices]
          /\ pc' = [pc EXCEPT ![Devices] = "idle"] /\ at' = at
      BY <1>5, <2>2 DEF DetachInstance, Goto
    <3>2. \A i \in Instances : inst'[i].live = inst[i].live
      BY <1>t, <2>1, <3>1 DEF InstRecords
    <3> QED
      BY <1>0, <1>t, <2>1, <3>1, <3>2 DEF Alive
  <2>3. CASE ~inst[k].busy
    <3>1. /\ inst' = [inst EXCEPT ![k] = Blank(FALSE, inst[k].owner)]
          /\ at' = [at EXCEPT ![Devices] = k + 1] /\ pc' = pc
      BY <1>5, <2>3 DEF DetachInstance
    <3>2. \A i \in Instances : inst'[i].live => inst[i].live /\ i # k
      BY <1>t, <2>1, <3>1 DEF Blank
    <3>3. k \in Nat /\ at'[Devices] = k + 1 /\ pc'[Devices] = "detach"
      BY <1>0, <1>t, <2>1, <3>1 DEF Instances
    <3>4. \A i \in Instances : inst'[i].live => attached /\ i >= k /\ i # k
      BY <2>1, <3>2 DEF Alive
    <3> HIDE DEF k
    <3>5. \A i \in Instances : inst'[i].live => i >= k + 1
      BY <3>3, <3>4 DEF Instances
    <3> QED
      BY <2>1, <3>3, <3>4, <3>5 DEF Alive
  <2> QED
    BY <2>2, <2>3
<1>6. CASE DetachDone
  <2>1. \A i \in Instances : ~inst[i].live
    BY <1>6 DEF Alive, DetachDone, Instances
  <2> QED
    BY <1>6, <2>1 DEF Alive, DetachDone
<1>7. CASE _init \/ InitLock \/ _fini
  BY <1>0, <1>7, <1>t DEF Alive, _init, InitLock, _fini, Goto
<1>8. CASE \/ \E t \in Threads :
                \/ \E m \in Mounts : iumfs_daemon_request_enter(t, m)
                \/ iumfs_daemon_request_start(t) \/ iumfs_daemon_request_exit(t)
           \/ \E i \in Instances :
                iumfscntl_open(i) \/ iumfscntl_write(i) \/ iumfscntl_close(i)
  <2>1. /\ attached' = attached /\ pc'[Devices] = pc[Devices] /\ at'[Devices] = at[Devices]
        /\ \A i \in Instances : inst'[i].live = inst[i].live
    BY <1>8, Channel DEF LifeInv
  <2> QED
    BY <2>1 DEF Alive
<1>9. ASSUME NEW t \in Threads,
             \/ \E m \in Mounts : iumfs_mount(t, m) \/ iumfs_unmount(t, m)
             \/ MountNumber(t) \/ MountMemory(t) \/ MountRoot(t) \/ MountFailed(t)
             \/ iumfs_free_all_node(t) \/ UnmountDone(t)
      PROVE  Alive'
  <2>1. attached' = attached /\ inst' = inst /\ pc'[Devices] = pc[Devices]
        /\ at'[Devices] = at[Devices]
    BY <1>0, <1>9, <1>t DEF iumfs_mount, iumfs_unmount, MountNumber, MountMemory, MountRoot,
       MountFailed, iumfs_free_all_node, UnmountDone, Over, Goto
  <2> QED
    BY <2>1 DEF Alive
<1>10. CASE UNCHANGED vars
  BY <1>10 DEF vars, Alive
<1> QED
  BY <1>1, <1>2, <1>3, <1>4, <1>5, <1>6, <1>7, <1>8, <1>9, <1>10 DEF Next

-----------------------------------------------------------------------------
(***************************************************************************)
(* Theorems                                                                *)
(***************************************************************************)
\* However requests, daemons, mounts and unmounts went, and whatever detach did or
\* failed to do, nothing is left when the module has gone: no instance, no file
\* system and no node (_fini, iumfs_mount, iumfs_unmount, attach and detach).
THEOREM NothingLeft ==
  ASSUME {"loadFirst", "wholeAttach"} \subseteq Rules
  PROVE  Spec => []NothingIsLeft
<1>1. Init => LifeInv /\ Alive
  BY InitLife
<1>2. LifeInv /\ Alive /\ [Next]_vars => (LifeInv /\ Alive)'
  BY LifeStep, AliveStep
<1>3. LifeInv /\ Alive => NothingIsLeft
  BY DEF LifeInv, Alive, Unloaded, Nothing, NothingIsLeft
<1> QED
  BY <1>1, <1>2, <1>3, PTL DEF Spec

\* Two mounted file systems have different device numbers, also while others are
\* mounted, fail or are unmounted (iumfs_mount, iumfs_last_minor).
THEOREM NumbersDiffer ==
  ASSUME "loadFirst" \in Rules
  PROVE  Spec => []DevicesDiffer
<1>1. Init => LifeInv
  BY InitLife
<1>2. LifeInv /\ [Next]_vars => LifeInv'
  BY LifeStep
<1>3. LifeInv => DevicesDiffer
  BY DEF LifeInv, Numbers, Numbered, DevicesDiffer, Mounted
<1> QED
  BY <1>1, <1>2, <1>3, PTL DEF Spec
=============================================================================
