----------------------------- MODULE IumfsNodes -----------------------------
(***************************************************************************)
(* The nodes of a mounted iumfs: the list of vnodes, their reference       *)
(* counts, the directory entries they cache, and the vnode operations that *)
(* look up, create and remove them while other threads do the same.        *)
(*                                                                         *)
(* Every vnode is allocated with a reference of its own (v_count 1), which *)
(* iumfs_remove and iumfs_rmdir give back.  Each section under one lock is *)
(* a step: the search of a directory (i_dlock), the search of the node     *)
(* list, which also takes the reference (i_listlock), one VN_HOLD or       *)
(* VN_RELE (v_lock), one request to the daemon.  The request channel       *)
(* itself is IumfsRequest; here a request is executed by the server at     *)
(* some moment and answered, unless a fault loses the answer.              *)
(***************************************************************************)
EXTENDS Naturals, Sequences, FiniteSets, FiniteSetsExt, SequencesExt

CONSTANTS
  Threads,    \* kernel threads
  Names,      \* names of files and directories
  MaxDepth,   \* length of the longest path
  MaxVnodes,  \* vnodes and node numbers that exist at a time
  MaxNodeId,
  MaxLate,    \* daemon threads that may be late with a request
  MountedOn,  \* node number of the mount point, in its own file system
  Disk,       \* paths that exist on the server at the start -> "file" or "dir"
  Calls,      \* vnode operations the threads call: a subset of AllCalls
  Faults      \* a subset of AllFaults

AllCalls  == {"lookup", "dotdot", "create", "createExcl", "remove", "mkdir",
              "rmdir", "readdir", "unmount"}
AllFaults == {"timeout", "signal", "nomem"}

Paths    == UNION {[1 .. k -> Names] : k \in 0 .. MaxDepth}
RootPath == <<>>
Parent(p) == SubSeq(p, 1, Len(p) - 1)

Vnodes   == 1 .. MaxVnodes
NoVnode  == 0
RootV    == 1             \* iumfsp->rootvnode
NodeIds  == 1 .. MaxNodeId
NoId     == 0             \* iumfs_find_nodeid_by_name found nothing
Entries  == Names \cup {".."}

ASSUME NodesAssumption ==
  /\ MaxDepth \in Nat \ {0} /\ MaxVnodes \in Nat \ {0} /\ MaxNodeId \in Nat \ {0}
  /\ MountedOn \in Nat /\ MaxLate \in Nat
  /\ IsFiniteSet(Threads) /\ ".." \notin Names
  /\ DOMAIN Disk \subseteq Paths \ {RootPath}
  /\ \A p \in DOMAIN Disk :
       /\ Disk[p] \in {"file", "dir"}
       /\ \A k \in 1 .. Len(p) - 1 :
            SubSeq(p, 1, k) \in DOMAIN Disk /\ Disk[SubSeq(p, 1, k)] = "dir"
  /\ Calls \subseteq AllCalls /\ Faults \subseteq AllFaults

VARIABLES
  server,   \* path -> what the server has there
  late,     \* requests nobody waits for that a daemon thread will still execute
  list,     \* the vnodes of iumfsp->node_list_head, in order
  node,     \* vnode -> its vnode_t and iumnode_t
  mount,    \* progress of iumfs_unmount
  cursor,   \* the node the walk of iumfs_unmount has locked
  ahead,    \* the next one, when the walk has read it and waits for its lock
  pc,       \* thread -> where it is
  op,       \* thread -> its operation: which, on what name, what it found
  dir,      \* thread -> directory it works in, which it holds
  res,      \* thread -> open file or current directory, which it holds
  vp,       \* thread -> vnode the operation has in hand
  todo      \* thread -> the VN_RELEs it still has to do

vars   == <<server, late, list, node, mount, cursor, ahead, pc, op, dir, res, vp, todo>>
disk   == <<server, late>>
fs     == <<list, node>>
umount == <<mount, cursor, ahead>>
hands  == <<dir, res, vp, todo>>

Alive == {list[i] : i \in DOMAIN list}

Pcs == {"idle", "find", "get", "askLookup", "askCreate", "askMkdir", "askRemove",
        "askRmdir", "allocFile", "allocNew", "allocDir", "dots", "name", "link", "ref",
        "noent", "giveUp", "empty", "unlink", "list", "add", "rele", "inactive", "wild"}

\* vp is a counted reference: iumfs_find_vnode_by_nodeid has held it.
Held == {"empty", "askRemove", "askRmdir", "unlink", "giveUp"}

\* call, the name it is about, the node number found in the directory, and the
\* names the daemon listed; nothing of it outlives the operation.
Operation == [call : (AllCalls \ {"unmount"}) \cup {"new", "none"}, name : Entries,
              found : Nat, listed : SUBSET Names]
NoOp == [call |-> "none", name |-> "..", found |-> NoId, listed |-> {}]

\* What the daemon is asked to do to the server.
Requests == [kind : {"create", "mkdir", "remove", "rmdir"}, path : Seq(Names)]

NoEntries == [e \in Entries |-> NoId]
NewNode(type, id) ==
  [type |-> type, id |-> id, path |-> RootPath, count |-> 1, entries |-> NoEntries]
NoNode == NewNode("file", 1)     \* memory that is not a vnode

TypeOK ==
  /\ server \in [Paths -> {"none", "file", "dir"}]
  /\ late \subseteq Requests
  /\ list \in Seq(Vnodes) /\ Cardinality(Alive) = Len(list)
  /\ node \in [Vnodes -> [type : {"file", "dir"}, id : NodeIds, path : Seq(Names),
                          count : Nat \ {0}, entries : [Entries -> Nat]]]
  /\ mount \in {"mounted", "checking", "freeing", "gone", "wild"}
  /\ cursor \in Vnodes \cup {NoVnode} /\ ahead \in Vnodes \cup {NoVnode}
  /\ pc \in [Threads -> Pcs]
  /\ op \in [Threads -> Operation]
  /\ dir \in [Threads -> Vnodes \cup {NoVnode}]
  /\ res \in [Threads -> Vnodes \cup {NoVnode}]
  /\ vp \in [Threads -> Vnodes \cup {NoVnode}]
  /\ todo \in [Threads -> Seq(Vnodes)]

\* After iumfs_mount: iumfs_create_fs_root has made the root directory, whose
\* ".." carries the node number of the mount point.
Init ==
  /\ server = [p \in Paths |-> IF p = RootPath THEN "dir"
                               ELSE IF p \in DOMAIN Disk THEN Disk[p] ELSE "none"]
  /\ late = {}
  /\ list = <<RootV>>
  /\ node = [v \in Vnodes |->
               IF v = RootV
               THEN [NewNode("dir", 1) EXCEPT !.entries[".."] = MountedOn]
               ELSE NoNode]
  /\ mount = "mounted" /\ cursor = NoVnode /\ ahead = NoVnode
  /\ pc = [t \in Threads |-> "idle"]
  /\ op = [t \in Threads |-> NoOp]
  /\ dir = [t \in Threads |-> NoVnode]
  /\ res = [t \in Threads |-> NoVnode]
  /\ vp = [t \in Threads |-> NoVnode]
  /\ todo = [t \in Threads |-> <<>>]

-----------------------------------------------------------------------------
(***************************************************************************)
(* Helpers                                                                 *)
(***************************************************************************)
Go(t, l, o) == pc' = [pc EXCEPT ![t] = l] /\ op' = [op EXCEPT ![t] = o]
Goto(t, l)  == Go(t, l, IF l = "idle" THEN NoOp ELSE op[t])

\* The end of an operation, with vnode v returned to the caller.
Return(t, v) ==
  /\ Goto(t, "idle")
  /\ res' = [res EXCEPT ![t] = v]
  /\ vp' = [vp EXCEPT ![t] = NoVnode]

\* The end of an operation that releases the vnodes of s first.
ReturnAfter(t, s) ==
  /\ Goto(t, "rele")
  /\ todo' = [todo EXCEPT ![t] = s]
  /\ vp' = [vp EXCEPT ![t] = NoVnode]

\* i_dlock is held from one step to the next by iumfs_readdir, while it waits
\* for the daemon, and by the walk of iumfs_unmount.
\* (iumfs_getattr waits with it too; here that is one step of make_directory.)
Locked(v) == v = cursor \/ \E t \in Threads : pc[t] \in {"list", "add"} /\ dir[t] = v

\* The vnodes the next step of t may touch.  A step never touches one that has
\* been freed: the thread that would goes wild, see Stray.
Touched(t) == ({dir[t], vp[t]} \cup {todo[t][i] : i \in DOMAIN todo[t]}) \ {NoVnode}
At(t, l)   == pc[t] = l /\ Touched(t) \subseteq Alive

\* Memory for a vnode: none that a thread still points to.
Unused == {v \in Vnodes \ {RootV} : /\ v \notin Alive
                                    /\ v \notin {cursor, ahead}
                                    /\ \A t \in Threads : v \notin Touched(t) \cup {res[t]}}
FreshId_FromLength == {Len(list) + 1}    \* slip: numbers come back

\* ++iumfs_last_nodeid: a number nobody has.
FreshId == {i \in NodeIds :
             /\ \A v \in Alive : node[v].id # i
             /\ \A v \in Alive, n \in Names : node[v].entries[n] # i
             /\ \A t \in Threads : op[t].found # i}

\* Target of the operation of t.
Target(t) == Append(node[dir[t]].path, op[t].name)

VN_HOLD_Missing(v) == UNCHANGED node    \* slip: the reference is not taken

\* VN_HOLD, and VN_RELE of one reference out of several.
VN_HOLD(v) == node' = [node EXCEPT ![v].count = @ + 1]
Drop(v)    == node' = [node EXCEPT ![v].count = @ - 1]

-----------------------------------------------------------------------------
(***************************************************************************)
(* Requests: what the daemon does to the server, and how the routine that  *)
(* sent the request ends.                                                  *)
(***************************************************************************)
OnServer(p) == IF p \in Paths THEN server[p] ELSE "none"
Exists(p)   == OnServer(p) # "none"
Children(p) == {n \in Names : Exists(Append(p, n))}

\* The server has no path longer than MaxDepth.
process_create_request(p) ==
  [refused |-> p \notin Paths \/ OnServer(p) = "dir" \/ OnServer(Parent(p)) # "dir",
   done    |-> [server EXCEPT ![p] = "file"]]
process_mkdir_request(p) ==
  [refused |-> p \notin Paths \/ Exists(p) \/ OnServer(Parent(p)) # "dir",
   done    |-> [server EXCEPT ![p] = "dir"]]
process_remove_request(p) ==
  [refused |-> OnServer(p) # "file",
   done    |-> [server EXCEPT ![p] = "none"]]
process_rmdir_request_Always(p) ==    \* slip: the server removes a full directory
  [refused |-> OnServer(p) # "dir",
   done    |-> [server EXCEPT ![p] = "none"]]
process_rmdir_request(p) ==
  [refused |-> OnServer(p) # "dir" \/ Children(p) # {},
   done    |-> [server EXCEPT ![p] = "none"]]

Process(r) ==
  CASE r.kind = "create" -> process_create_request(r.path)
    [] r.kind = "mkdir"  -> process_mkdir_request(r.path)
    [] r.kind = "remove" -> process_remove_request(r.path)
    [] r.kind = "rmdir"  -> process_rmdir_request(r.path)

Execute(r) == server' = IF Process(r).refused THEN server ELSE Process(r).done

\* The sender stops waiting: the request has been executed, or a daemon thread
\* has it and will execute it later.
Unanswered(r) ==
  \/ Execute(r) /\ UNCHANGED late
  \/ /\ Cardinality(late) < MaxLate
     /\ late' = late \cup {r}
     /\ UNCHANGED server

\* The request is executed and answered; or it times out and is sent once more;
\* or it is given up on a signal, fetched by the daemon or not.
Ask(t, kind, path, ok, failed) ==
  LET r == [kind |-> kind, path |-> path] IN
  \/ /\ Execute(r)
     /\ Goto(t, IF Process(r).refused THEN failed ELSE ok)
     /\ UNCHANGED late
  \/ /\ "timeout" \in Faults
     /\ Unanswered(r)
     /\ UNCHANGED <<pc, op>>
  \/ /\ "signal" \in Faults
     /\ Unanswered(r) \/ UNCHANGED disk
     /\ Goto(t, failed)

\* A daemon thread executes a request whose sender has stopped waiting.
LateExecution ==
  /\ \E r \in late : Execute(r) /\ late' = late \ {r}
  /\ UNCHANGED <<fs, umount, pc, op, hands>>

-----------------------------------------------------------------------------
(***************************************************************************)
(* What a thread does between operations: reach the root through           *)
(* iumfs_root, walk into a directory, close, leave.  An unmount in         *)
(* progress keeps new threads out of the mount point (VFS framework).      *)
(***************************************************************************)
Root(t) ==
  /\ pc[t] = "idle" /\ dir[t] = NoVnode
  /\ mount = "mounted" /\ RootV \in Alive
  /\ VN_HOLD(RootV)
  /\ dir' = [dir EXCEPT ![t] = RootV]
  /\ UNCHANGED <<disk, list, umount, pc, op, res, vp, todo>>

\* The directory looked up last becomes the one to work in.
Chdir(t) ==
  /\ At(t, "idle") /\ dir[t] # NoVnode /\ res[t] \in Alive
  /\ node[res[t]].type = "dir"
  /\ ReturnAfter(t, <<dir[t]>>)
  /\ dir' = [dir EXCEPT ![t] = res[t]]
  /\ res' = [res EXCEPT ![t] = NoVnode]
  /\ UNCHANGED <<disk, fs, umount>>

Close(t) ==
  /\ pc[t] = "idle" /\ res[t] # NoVnode
  /\ ReturnAfter(t, <<res[t]>>)
  /\ res' = [res EXCEPT ![t] = NoVnode]
  /\ UNCHANGED <<disk, fs, umount, dir>>

Leave(t) ==
  /\ pc[t] = "idle" /\ dir[t] # NoVnode
  /\ ReturnAfter(t, <<dir[t]>>)
  /\ dir' = [dir EXCEPT ![t] = NoVnode]
  /\ UNCHANGED <<disk, fs, umount, res>>

\* A vnode operation on a name in the directory, at its first step.
Start(t, c, n) ==
  /\ At(t, "idle") /\ dir[t] # NoVnode
  /\ c \in Calls
  /\ c \notin {"remove", "rmdir", "readdir"} => res[t] = NoVnode
  /\ c = "readdir" => ~Locked(dir[t])
  /\ Go(t, CASE c = "mkdir" -> "askMkdir" [] c = "readdir" -> "list" [] OTHER -> "find",
        [NoOp EXCEPT !.call = c, !.name = n])
  /\ UNCHANGED <<disk, fs, umount, hands>>

Call(t) ==
  \/ \E c \in AllCalls \ {"dotdot", "readdir", "unmount"}, n \in Names : Start(t, c, n)
  \/ \E c \in {"dotdot", "readdir"} : Start(t, c, "..")

-----------------------------------------------------------------------------
(***************************************************************************)
(* The searches that lookup, create, remove and rmdir begin with.          *)
(***************************************************************************)
iumfs_find_nodeid_by_name(t) ==
  LET id == node[dir[t]].entries[op[t].name] IN
  /\ At(t, "find") /\ ~Locked(dir[t])
  /\ Go(t, IF id = NoId THEN "noent" ELSE "get", [op[t] EXCEPT !.found = id])
  /\ UNCHANGED <<disk, fs, umount, hands>>

\* The first node of the list with the number is held, and goes to the caller
\* of lookup; create closes it again when it was to be exclusive, by VN_RELE
\* and iumfs_free_node; remove and rmdir go on with it.
iumfs_find_vnode_by_nodeid(t) ==
  LET hits == {i \in DOMAIN list : node[list[i]].id = op[t].found} IN
  /\ At(t, "get")
  /\ \/ /\ hits = {}
        /\ Goto(t, "noent")
        /\ UNCHANGED <<node, res, vp, todo>>
     \/ /\ hits # {}
        /\ LET v == list[Min(hits)] IN
           /\ VN_HOLD(v)
           /\ CASE op[t].call \in {"lookup", "dotdot", "create"} ->
                     Return(t, v) /\ UNCHANGED todo
                [] op[t].call = "createExcl" ->
                     ReturnAfter(t, <<v, v>>) /\ UNCHANGED res
                [] op[t].call \in {"remove", "rmdir"} ->
                     /\ vp' = [vp EXCEPT ![t] = v]
                     /\ Goto(t, CASE op[t].call = "remove" /\ node[v].type = "file" -> "askRemove"
                                  [] op[t].call = "rmdir" /\ node[v].type = "dir"
                                       /\ v # res[t] -> "empty"
                                  [] OTHER -> "giveUp")
                     /\ UNCHANGED <<res, todo>>
  /\ UNCHANGED <<disk, list, umount, dir>>

\* No vnode: remove and rmdir fail with ENOENT, ".." leaves the file system
\* (lookupname("/")), lookup and create ask the server.
NotCached(t) ==
  /\ At(t, "noent")
  /\ Goto(t, IF op[t].call \in {"lookup", "create", "createExcl"} THEN "askLookup" ELSE "idle")
  /\ UNCHANGED <<disk, fs, umount, hands>>

\* How a lookup that found nothing ends: create goes on to make the file,
\* whatever the error was.
LookupFailed(t) == IF op[t].call \in {"create", "createExcl"} THEN "askCreate" ELSE "idle"

AskLookup(t) ==
  /\ At(t, "askLookup")
  /\ \/ Exists(Target(t)) /\
          Goto(t, IF OnServer(Target(t)) = "dir" THEN "allocDir" ELSE "allocFile")
     \/ ~Exists(Target(t)) /\ Goto(t, LookupFailed(t))
     \/ "signal" \in Faults /\ Goto(t, LookupFailed(t))
  /\ UNCHANGED <<disk, fs, umount, hands>>

-----------------------------------------------------------------------------
(***************************************************************************)
(* Making a vnode: iumfs_alloc_node, then its path, the entry in the       *)
(* directory unless it is there, and the reference of the caller.          *)
(***************************************************************************)
\* In the list, unnamed, with the reference of its own only.
Alloc(t, type, nodeid) ==
  /\ Unused # {} /\ FreshId # {}
  /\ LET v  == Min(Unused)
         id == IF nodeid = NoId THEN Min(FreshId) ELSE nodeid
     IN
     /\ node' = [node EXCEPT ![v] = NewNode(type, id)]
     /\ list' = Append(list, v)
     /\ vp' = [vp EXCEPT ![t] = v]

AllocFile(t) ==
  /\ At(t, "allocFile")
  /\ Alloc(t, "file", op[t].found)
  /\ Goto(t, "name")
  /\ UNCHANGED <<disk, umount, dir, res, todo>>

\* The second half of iumfs_create: the new file gets a number of its own.
AllocNew(t) ==
  /\ At(t, "allocNew")
  /\ Alloc(t, "file", NoId)
  /\ Go(t, "name", [op[t] EXCEPT !.call = "new", !.found = NoId])
  /\ UNCHANGED <<disk, umount, dir, res, todo>>

\* No memory for a vnode or an iumnode.
AllocFails(t) ==
  /\ "nomem" \in Faults
  /\ \/ At(t, "allocFile") /\ Goto(t, LookupFailed(t))
     \/ At(t, "allocNew") /\ Goto(t, "idle")
  /\ UNCHANGED <<disk, fs, umount, hands>>

\* An entry that is there stays as it is, and that counts as success.
iumfs_add_entry_to_dir(v, n, id) ==
  IF node[v].entries[n] = NoId THEN [node EXCEPT ![v].entries[n] = id] ELSE node

\* iumfs_make_directory asks the server for the attributes of the parent first.
iumfs_make_directory(t) ==
  LET parent == node[dir[t]].path IN
  /\ At(t, "allocDir") /\ ~Locked(dir[t])
  /\ \/ /\ Exists(parent)
        /\ Alloc(t, "dir", op[t].found)
        /\ Goto(t, "dots")
     \/ /\ ~Exists(parent) \/ Faults \cap {"signal", "nomem"} # {}
        /\ Goto(t, LookupFailed(t))
        /\ UNCHANGED <<fs, vp>>
  /\ UNCHANGED <<disk, umount, dir, res, todo>>

\* Its second half.  When there is no memory for the entries it returns success
\* without a vnode, and its caller dereferences NULL.
AddDots(t) ==
  /\ At(t, "dots") /\ ~Locked(vp[t])
  /\ \/ /\ node' = iumfs_add_entry_to_dir(vp[t], "..", node[dir[t]].id)
        /\ Goto(t, "name")
     \/ /\ "nomem" \in Faults
        /\ Goto(t, "wild")
        /\ UNCHANGED node
  /\ UNCHANGED <<disk, list, umount, hands>>

\* Slip: the path of the parent is left out.
SetName_NameOnly(t) ==
  /\ At(t, "name")
  /\ node' = [node EXCEPT ![vp[t]].path = <<op[t].name>>]
  /\ Goto(t, IF op[t].found = NoId THEN "link" ELSE "ref")
  /\ UNCHANGED <<disk, list, umount, hands>>

\* The new node gets its path.
SetName(t) ==
  /\ At(t, "name")
  /\ node' = [node EXCEPT ![vp[t]].path = Target(t)]
  /\ Goto(t, IF op[t].found = NoId THEN "link" ELSE "ref")
  /\ UNCHANGED <<disk, list, umount, hands>>

\* When there is no memory for the entry, create and mkdir free the new node
\* and lookup forgets it.
Link(t) ==
  /\ At(t, "link") /\ ~Locked(dir[t])
  /\ \/ /\ node' = iumfs_add_entry_to_dir(dir[t], op[t].name, node[vp[t]].id)
        /\ Goto(t, "ref")
        /\ UNCHANGED <<vp, todo>>
     \/ /\ "nomem" \in Faults
        /\ node[dir[t]].entries[op[t].name] = NoId
        /\ UNCHANGED node
        /\ \/ /\ op[t].call \in {"new", "mkdir"}
              /\ ReturnAfter(t, <<vp[t]>>)
           \/ /\ op[t].call \notin {"new", "mkdir"}
              /\ Goto(t, LookupFailed(t))
              /\ vp' = [vp EXCEPT ![t] = NoVnode]
              /\ UNCHANGED todo
  /\ UNCHANGED <<disk, list, umount, dir, res>>

\* VN_HOLD for the caller.
Ref(t) ==
  /\ At(t, "ref")
  /\ VN_HOLD(vp[t])
  /\ IF op[t].call = "createExcl"
     THEN ReturnAfter(t, <<vp[t], vp[t]>>) /\ UNCHANGED res
     ELSE Return(t, vp[t]) /\ UNCHANGED todo
  /\ UNCHANGED <<disk, list, umount, dir>>

-----------------------------------------------------------------------------
(***************************************************************************)
(* create, mkdir, remove, rmdir, readdir                                   *)
(***************************************************************************)
AskCreate(t) ==
  /\ At(t, "askCreate")
  /\ Ask(t, "create", Target(t), "allocNew", "idle")
  /\ UNCHANGED <<fs, umount, hands>>

AskMkdir(t) ==
  /\ At(t, "askMkdir")
  /\ Ask(t, "mkdir", Target(t), "allocDir", "idle")
  /\ UNCHANGED <<fs, umount, hands>>

\* The paths of these two requests are those of the vnodes.
AskRemove(t) ==
  /\ At(t, "askRemove")
  /\ Ask(t, "remove", node[vp[t]].path, "unlink", "giveUp")
  /\ UNCHANGED <<fs, umount, hands>>

AskRmdir(t) ==
  /\ At(t, "askRmdir")
  /\ Ask(t, "rmdir", node[vp[t]].path, "unlink", "giveUp")
  /\ UNCHANGED <<fs, umount, hands>>

iumfs_dir_is_empty(t) ==
  /\ At(t, "empty") /\ ~Locked(vp[t])
  /\ Goto(t, IF \A n \in Names : node[vp[t]].entries[n] = NoId
             THEN "askRmdir" ELSE "giveUp")
  /\ UNCHANGED <<disk, fs, umount, hands>>

\* remove and rmdir release what the search held.
GiveUp(t) ==
  /\ At(t, "giveUp")
  /\ ReturnAfter(t, <<vp[t]>>)
  /\ UNCHANGED <<disk, fs, umount, dir, res>>

\* Slip: the reference of the node itself is kept.
Released_Search(v) == <<v>>

\* What remove and rmdir release: the reference the vnode was allocated with
\* and the one the search took.
Released(v) == <<v, v>>

\* Slip: the entry stays.
iumfs_remove_entry_from_dir_Kept(t) ==
  /\ At(t, "unlink")
  /\ ReturnAfter(t, Released(vp[t]))
  /\ UNCHANGED <<disk, fs, umount, dir, res>>

\* The entry of that name goes, by now perhaps another one, or stays when there
\* is no memory for the shorter directory: nobody looks at the result.
iumfs_remove_entry_from_dir(t) ==
  /\ At(t, "unlink") /\ ~Locked(dir[t])
  /\ \/ node' = [node EXCEPT ![dir[t]].entries[op[t].name] = NoId]
     \/ "nomem" \in Faults /\ UNCHANGED node
  /\ ReturnAfter(t, Released(vp[t]))
  /\ UNCHANGED <<disk, list, umount, dir, res>>

\* i_dlock is held from here on; the request is not repeated.
iumfs_request_readdir(t) ==
  /\ At(t, "list")
  /\ \/ /\ OnServer(node[dir[t]].path) = "dir"
        /\ Go(t, "add", [op[t] EXCEPT !.listed = Children(node[dir[t]].path)])
     \/ /\ OnServer(node[dir[t]].path) # "dir" \/ Faults \cap {"timeout", "signal"} # {}
        /\ Goto(t, "idle")
  /\ UNCHANGED <<disk, fs, umount, hands>>

\* A listed name gets an entry, with a number nobody has, unless it has one or
\* there is no memory; or all names are done.
AddListed(t) ==
  /\ At(t, "add")
  /\ \/ \E n \in op[t].listed :
        /\ \/ /\ node[dir[t]].entries[n] = NoId /\ FreshId # {}
              /\ node' = iumfs_add_entry_to_dir(dir[t], n, Min(FreshId))
           \/ /\ node[dir[t]].entries[n] # NoId \/ "nomem" \in Faults
              /\ UNCHANGED node
        /\ Go(t, "add", [op[t] EXCEPT !.listed = @ \ {n}])
     \/ /\ op[t].listed = {}
        /\ Goto(t, "idle")
        /\ UNCHANGED node
  /\ UNCHANGED <<disk, list, umount, hands>>

-----------------------------------------------------------------------------
(***************************************************************************)
(* VN_RELE, iumfs_inactive and iumfs_free_node                             *)
(***************************************************************************)
\* One release done; the operation ends with the last.
ReleaseDone(t) ==
  /\ todo' = [todo EXCEPT ![t] = Tail(@)]
  /\ Goto(t, IF Len(todo[t]) = 1 THEN "idle" ELSE "rele")

\* Slip: the last reference is dropped like any other.
VN_RELE_NoInactive(t) ==
  /\ At(t, "rele")
  /\ Drop(Head(todo[t])) /\ ReleaseDone(t)
  /\ UNCHANGED <<disk, list, umount, dir, res, vp>>

\* Of the last reference VN_RELE makes a call of iumfs_inactive instead.
VN_RELE(t) ==
  LET v == Head(todo[t]) IN
  /\ At(t, "rele")
  /\ \/ node[v].count > 1 /\ Drop(v) /\ ReleaseDone(t)
     \/ node[v].count = 1 /\ Goto(t, "inactive") /\ UNCHANGED <<node, todo>>
  /\ UNCHANGED <<disk, list, umount, dir, res, vp>>

\* Where the list has v.
Position(v) == CHOOSE i \in DOMAIN list : list[i] = v

\* Slip: iumfs_remove_node_from_list does not look at v_count again.
iumfs_free_node_Unchecked(v) ==
  /\ list' = RemoveAt(list, Position(v))
  /\ node' = [node EXCEPT ![v] = NoNode]

\* iumfs_remove_node_from_list looks once more, under the locks of the list:
\* a vnode somebody has found in the meantime is not freed.
iumfs_free_node(v) ==
  \/ node[v].count > 1 /\ Drop(v) /\ UNCHANGED list
  \/ /\ node[v].count = 1
     /\ list' = RemoveAt(list, Position(v))
     /\ node' = [node EXCEPT ![v] = NoNode]

\* Once iumfs_unmount has freed the root vnode, iumfs_inactive does nothing.
iumfs_inactive(t) ==
  /\ At(t, "inactive")
  /\ \/ RootV \in Alive /\ iumfs_free_node(Head(todo[t]))
     \/ RootV \notin Alive /\ UNCHANGED fs
  /\ ReleaseDone(t)
  /\ UNCHANGED <<disk, umount, dir, res, vp>>

\* A thread whose next step would touch a freed vnode: what happens then is
\* not described.
Stray(t) ==
  /\ pc[t] \notin {"idle", "wild"}
  /\ ~(Touched(t) \subseteq Alive)
  /\ Goto(t, "wild")
  /\ UNCHANGED <<disk, fs, umount, hands>>

-----------------------------------------------------------------------------
(***************************************************************************)
(* iumfs_unmount: a walk of the list, from lock to lock, that stops with   *)
(* EBUSY at a vnode in use, then iumfs_free_all_node.                      *)
(***************************************************************************)
Unmount ==
  /\ "unmount" \in Calls
  /\ mount = "mounted"
  /\ mount' = "checking"
  /\ UNCHANGED <<disk, fs, cursor, ahead, pc, op, hands>>

After(v) == IF v = NoVnode THEN 1 ELSE 1 + Position(v)

\* previnp->next, read with the lock of previnp held; threads that change the
\* list do not take that lock.
UnmountNext ==
  /\ mount = "checking" /\ ahead = NoVnode
  /\ cursor \in Alive \cup {NoVnode}
  /\ LET i == After(cursor) IN
     \/ i > Len(list) /\ mount' = "freeing" /\ cursor' = NoVnode /\ UNCHANGED ahead
     \/ i <= Len(list) /\ ahead' = list[i] /\ UNCHANGED <<mount, cursor>>
  /\ UNCHANGED <<disk, fs, pc, op, hands>>

\* Slip: nobody looks whether the vnode is in use.
UnmountCheck_NoBusy ==
  /\ mount = "checking" /\ ahead \in Alive /\ ~Locked(ahead)
  /\ cursor' = ahead /\ ahead' = NoVnode
  /\ UNCHANGED <<disk, fs, mount, pc, op, hands>>

\* The lock of the next node, and the look at its vnode.
UnmountCheck ==
  /\ mount = "checking"
  /\ ahead \in Alive /\ ~Locked(ahead) /\ cursor \in Alive \cup {NoVnode}
  /\ IF node[ahead].count # 1
     THEN mount' = "mounted" /\ cursor' = NoVnode
     ELSE cursor' = ahead /\ UNCHANGED mount
  /\ ahead' = NoVnode
  /\ UNCHANGED <<disk, fs, pc, op, hands>>

\* The walk comes to a node that has been freed.
UnmountStray ==
  /\ mount = "checking" /\ ~({cursor, ahead} \subseteq Alive \cup {NoVnode})
  /\ mount' = "wild"
  /\ UNCHANGED <<disk, fs, cursor, ahead, pc, op, hands>>

iumfs_free_all_node ==
  /\ mount = "freeing"
  /\ \/ list # <<>> /\ iumfs_free_node(Head(list)) /\ UNCHANGED mount
     \/ list = <<>> /\ mount' = "gone" /\ UNCHANGED fs
  /\ UNCHANGED <<disk, cursor, ahead, pc, op, hands>>

-----------------------------------------------------------------------------
Step(t) ==
  \/ iumfs_find_nodeid_by_name(t) \/ iumfs_find_vnode_by_nodeid(t) \/ NotCached(t)
  \/ AskLookup(t) \/ AllocFile(t) \/ AllocNew(t) \/ AllocFails(t) \/ iumfs_make_directory(t)
  \/ AddDots(t) \/ SetName(t) \/ Link(t) \/ Ref(t) \/ AskCreate(t) \/ AskMkdir(t) \/ AskRemove(t)
  \/ AskRmdir(t) \/ iumfs_dir_is_empty(t) \/ GiveUp(t)
  \/ iumfs_remove_entry_from_dir(t) \/ iumfs_request_readdir(t) \/ AddListed(t)
  \/ VN_RELE(t) \/ iumfs_inactive(t) \/ Stray(t)

Next ==
  \/ \E t \in Threads : Root(t) \/ Chdir(t) \/ Close(t) \/ Leave(t) \/ Call(t) \/ Step(t)
  \/ LateExecution
  \/ Unmount \/ UnmountNext \/ UnmountCheck \/ iumfs_free_all_node \/ UnmountStray

Spec == Init /\ [][Next]_vars

-----------------------------------------------------------------------------
(***************************************************************************)
(* Properties                                                              *)
(***************************************************************************)
\* References to v: what threads hold, the vnodes their operations found, and
\* the releases under way.
References(v) ==
  LET n(S) == Cardinality(S) IN
    n({t \in Threads : dir[t] = v}) + n({t \in Threads : res[t] = v})
  + n({t \in Threads : vp[t] = v /\ pc[t] \in Held})
  + n({x \in Threads \X {1, 2} : x[2] \in DOMAIN todo[x[1]] /\ todo[x[1]][x[2]] = v})

\* v_count counts the references, and the one the vnode was allocated with as
\* long as nobody has begun to give it back: never less, never a leak of more.
CountIsExact ==
  \A v \in Alive : node[v].count - References(v) \in {0, 1}

\* A vnode is freed only when nobody refers to it: iumfs_free_node is called
\* only when v_count is surely 1 (iumfs_node.c, at iumfs_free_node).
FreedOnlyUnreferenced ==
  [][\A v \in Alive \ {list'[i] : i \in DOMAIN list'} : References(v)' = 0]_vars

\* Whoever has made a vnode can still hold it when it comes to it: it is in the
\* list before its maker has a reference (VN_HOLD, at the end of iumfs_lookup).
MakerHasItsVnode ==
  \A t \in Threads : pc[t] = "ref" => vp[t] \in Alive

\* Unmount begins to free only when no vnode is in use (iumfs_vfsops.c, behind
\* its walk): at that moment whatever is still referred to is a removed file or
\* directory, whose count lacks the reference of its own and so passes for unused.
UnmountSparesUsed ==
  [][mount = "checking" /\ mount' = "freeing" =>
       \A v \in Alive : References(v) > 0 => node[v].count = References(v)]_vars

\* A remove or rmdir request carries the path it is about.
RequestNamesItsTarget ==
  \A t \in Threads :
    At(t, "askRemove") \/ At(t, "askRmdir") => node[vp[t]].path = Target(t)

\* Two vnodes never share a node number.
OneVnodePerNumber ==
  \A v, w \in Alive : node[v].id = node[w].id => v = w

\* What rmdir takes out of the tree has nothing in it that still exists on the
\* server, whatever was created since it looked (iumfs_rmdir, TODO on locks).
RmdirLosesNothing ==
  \A t \in Threads :
    At(t, "unlink") /\ op[t].call = "rmdir" =>
      \A n \in Names : node[vp[t]].entries[n] # NoId =>
        ~Exists(Append(node[vp[t]].path, n))

Quiet == mount = "mounted" /\ \A t \in Threads : pc[t] = "idle"

\* The directories reached from the root.
Linked == {v \in Alive :
             v = RootV \/ \E d \in Alive, n \in Names : node[d].entries[n] = node[v].id}

\* Between operations every entry of a directory exists on the server.
EntriesExist ==
  Quiet => \A v \in Linked, n \in Names :
             node[v].entries[n] # NoId => Exists(Append(node[v].path, n))

\* Between operations a vnode that no directory names is one somebody holds.
NoLeak ==
  Quiet => \A v \in Alive \ Linked : References(v) > 0

=============================================================================
