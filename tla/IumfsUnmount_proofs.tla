------------------------ MODULE IumfsUnmount_proofs -------------------------
(***************************************************************************)
(* iumfs_unmount walks the list of IumfsNodes while threads work in it.    *)
(* The walk stops at a vnode in use, but nothing keeps a thread from       *)
(* taking a reference to a vnode the walk has passed.  That nobody does,   *)
(* and that nobody uses what is freed after the walk, rests on the order   *)
(* of the list, in which a directory comes before what it has entries for. *)
(*                                                                         *)
(* The first section lets one thread do everything but go up (Downwards).  *)
(* The others are about any number of threads, of which none goes up or    *)
(* removes a directory (Downhill); the last one, where no file is removed  *)
(* either, is about the counts of the vnodes to the end of the unmount.    *)
(***************************************************************************)
EXTENDS IumfsSolo_proofs

-----------------------------------------------------------------------------
(***************************************************************************)
(* The walk reads which vnode comes next and then waits for its lock.  The *)
(* list may change meanwhile; as long as both are in it, the vnode it      *)
(* waits for still comes right behind the one it has locked.               *)
(***************************************************************************)
Adjoining ==
  /\ ahead \in Alive /\ cursor = NoVnode => 1 \in DOMAIN list /\ list[1] = ahead
  /\ ahead \in Alive /\ cursor \in Alive =>
       \E i, j \in DOMAIN list : j = i + 1 /\ list[i] = cursor /\ list[j] = ahead

\* A vnode is appended that the walk does not look at.
LEMMA AppendAdjoins ==
  ASSUME TypeInv, Adjoining, UNCHANGED umount,
         NEW v \in Vnodes, v \notin Alive, v \notin {cursor, ahead}, list' = Append(list, v)
  PROVE  Adjoining'
<1>1. Alive' = Alive \cup {v} /\ UNCHANGED <<cursor, ahead>>
  BY Listed DEF TypeInv, StateTyped, umount
<1>2. \A i \in DOMAIN list : i \in DOMAIN list' /\ list'[i] = list[i]
  BY DEF TypeInv, StateTyped
<1> QED
  BY <1>1, <1>2 DEF Adjoining

\* A vnode is taken out of the list.
LEMMA RemoveAdjoins ==
  ASSUME TypeInv, Adjoining, UNCHANGED <<cursor, ahead>>,
         NEW v \in Alive, list' = RemoveAt(list, Position(v))
  PROVE  Adjoining'
<1> DEFINE k == Position(v)
<1>1. /\ k \in 1 .. Len(list) /\ list[k] = v /\ Len(list) \in Nat
      /\ list' \in Seq(Vnodes) /\ Len(list') = Len(list) - 1
      /\ \A i \in 1 .. Len(list') : list'[i] = IF i < k THEN list[i] ELSE list[i + 1]
  BY MovesUp DEF TypeInv, StateTyped
<1>2. Alive' = Alive \ {v}
  BY Removed DEF TypeInv, StateTyped
<1> HIDE DEF k
<1>3. DOMAIN list = 1 .. Len(list) /\ DOMAIN list' = 1 .. Len(list')
  BY <1>1 DEF TypeInv, StateTyped
<1>4. ASSUME ahead \in Alive \ {v}, 1 \in DOMAIN list, list[1] = ahead
      PROVE  1 \in DOMAIN list' /\ list'[1] = ahead
  BY <1>1, <1>3, <1>4
<1>5. ASSUME cursor # v, ahead # v, NEW i \in DOMAIN list, NEW j \in DOMAIN list, j = i + 1,
             list[i] = cursor, list[j] = ahead
      PROVE  \E x, y \in DOMAIN list' : y = x + 1 /\ list'[x] = cursor /\ list'[y] = ahead
  <2>1. CASE k < i
    <3>1. i - 1 \in DOMAIN list' /\ i \in DOMAIN list' /\ i = (i - 1) + 1
          /\ list'[i - 1] = list[i] /\ list'[i] = list[j]
      BY <1>1, <1>3, <1>5, <2>1
    <3> QED
      BY <1>5, <3>1
  <2>2. CASE k > j
    <3>1. i \in DOMAIN list' /\ j \in DOMAIN list' /\ list'[i] = list[i] /\ list'[j] = list[j]
      BY <1>1, <1>3, <1>5, <2>2
    <3> QED
      BY <1>5, <3>1
  <2>3. k # i /\ k # j
    BY <1>1, <1>5
  <2> QED
    BY <1>1, <1>3, <1>5, <2>1, <2>2, <2>3
<1> QED
  BY <1>2, <1>4, <1>5 DEF Adjoining

\* The walk reads where it goes.
LEMMA NextAdjoins ==
  ASSUME TypeInv, Adjoining, UnmountNext \/ UnmountCheck
  PROVE  Adjoining'
<1>1. UNCHANGED list /\ Alive' = Alive /\ NoVnode \notin Alive
  <2>1. UNCHANGED list
    BY DEF UnmountNext, UnmountCheck, fs
  <2> QED
    BY <2>1, AliveTyped DEF Alive, TypeInv, StateTyped, Vnodes, NoVnode
<1>2. CASE ahead' = NoVnode
  BY <1>1, <1>2 DEF Adjoining
<1>3. CASE UnmountNext /\ ahead' # NoVnode
  <2>1. /\ cursor \in Alive \cup {NoVnode} /\ cursor' = cursor
        /\ After(cursor) =< Len(list) /\ ahead' = list[After(cursor)]
    BY <1>3 DEF UnmountNext
  <2>2. DOMAIN list = 1 .. Len(list) /\ Len(list) \in Nat
    BY DEF TypeInv, StateTyped
  <2>3. CASE cursor = NoVnode
    BY <1>1, <2>1, <2>2, <2>3 DEF After, Adjoining
  <2>4. CASE cursor \in Alive
    <3>1. Position(cursor) \in DOMAIN list /\ list[Position(cursor)] = cursor
      BY <2>4 DEF Position, Alive
    <3>2. After(cursor) = Position(cursor) + 1 /\ After(cursor) \in DOMAIN list
      BY <1>1, <2>1, <2>2, <2>4, <3>1 DEF After
    <3> QED
      BY <1>1, <2>1, <2>4, <3>1, <3>2 DEF Adjoining
  <2> QED
    BY <2>1, <2>3, <2>4
<1> QED
  BY <1>2, <1>3 DEF UnmountCheck, UnmountNext

\* No other step changes the list.
LEMMA ListStays ==
  ASSUME NEW t \in Threads,
         Root(t) \/ Chdir(t) \/ Close(t) \/ Leave(t) \/ Call(t) \/ Step(t),
         ~(AllocFile(t) \/ AllocNew(t) \/ iumfs_make_directory(t) \/ iumfs_inactive(t))
  PROVE  UNCHANGED list
  BY DEF Root, Chdir, Close, Leave, Call, Start, Step, iumfs_find_nodeid_by_name,
     iumfs_find_vnode_by_nodeid, NotCached, AskLookup, AllocFails, AddDots, SetName, Link, Ref,
     AskCreate, AskMkdir, AskRemove, AskRmdir, iumfs_dir_is_empty, GiveUp,
     iumfs_remove_entry_from_dir, iumfs_request_readdir, AddListed, VN_RELE, Stray, fs

LEMMA AdjoiningStep ==
  ASSUME TypeInv, Adjoining, [Next]_vars
  PROVE  Adjoining'
<1>1. ASSUME UNCHANGED <<list, cursor, ahead>>
      PROVE  Adjoining'
  BY <1>1 DEF Adjoining, Alive
<1>2. ASSUME NEW v \in Alive, iumfs_free_node(v), UNCHANGED <<cursor, ahead>>
      PROVE  Adjoining'
  BY <1>1, <1>2, RemoveAdjoins DEF iumfs_free_node
<1>3. ASSUME NEW t \in Threads, Root(t) \/ Chdir(t) \/ Close(t) \/ Leave(t) \/ Call(t) \/ Step(t)
      PROVE  Adjoining'
  <2>1. UNCHANGED <<cursor, ahead>> /\ UNCHANGED umount
    BY <1>3, ThreadsDoNotUnmount DEF umount
  <2>2. CASE AllocFile(t) \/ AllocNew(t) \/ iumfs_make_directory(t)
    <3>1. CASE UNCHANGED list
      BY <1>1, <2>1, <3>1
    <3>2. ASSUME NEW type \in {"file", "dir"}, NEW id \in 0 .. MaxNodeId, Alloc(t, type, id)
          PROVE  Adjoining'
      <4>1. PICK v \in Unused : list' = Append(list, v)
        BY <3>2, Allocates
      <4>2. v \in Vnodes /\ v \notin Alive /\ v \notin {cursor, ahead}
        BY <4>1 DEF Unused
      <4> QED
        BY <2>1, <4>1, <4>2, AppendAdjoins
    <3>3. NoId \in 0 .. MaxNodeId
      BY NodesAssumption DEF NoId
    <3>4. pc[t] \in {"allocFile", "allocDir"} => op[t].found \in 0 .. MaxNodeId
      BY DEF TypeInv, Asking, Making
    <3> QED
      BY <2>2, <3>1, <3>2, <3>3, <3>4 DEF AllocFile, AllocNew, iumfs_make_directory, At, fs
  <2>3. CASE iumfs_inactive(t)
    <3>1. Head(todo[t]) \in Alive
      BY <2>3, HeadListed DEF iumfs_inactive, At, Releasing
    <3> QED
      BY <1>1, <1>2, <2>1, <2>3, <3>1 DEF iumfs_inactive, fs
  <2> QED
    BY <1>1, <1>3, <2>1, <2>2, <2>3, ListStays
<1>4. CASE UnmountNext \/ UnmountCheck
  BY <1>4, NextAdjoins
<1>5. CASE Unmount \/ UnmountStray \/ LateExecution \/ UNCHANGED vars
  BY <1>1, <1>5 DEF Unmount, UnmountStray, LateExecution, vars, fs, umount
<1>6. CASE iumfs_free_all_node
  <2>1. ASSUME list # <<>>
        PROVE  Head(list) \in Alive
    <3>1. 1 \in DOMAIN list /\ Head(list) = list[1]
      BY <2>1 DEF TypeInv, StateTyped
    <3> QED
      BY <3>1 DEF Alive
  <2> QED
    BY <1>1, <1>2, <1>6, <2>1 DEF iumfs_free_all_node, fs
<1> QED
  BY <1>3, <1>4, <1>5, <1>6 DEF Next

LEMMA AdjoiningInit ==
  ASSUME Init
  PROVE  Adjoining
  BY DEF Init, Adjoining, Alive, RootV, NoVnode

\* The vnode the walk waits for is the one it comes to next.
LEMMA ComesNext ==
  ASSUME TypeInv, Adjoining, ahead \in Alive, cursor \in Alive \cup {NoVnode}
  PROVE  After(cursor) \in DOMAIN list /\ list[After(cursor)] = ahead
<1>1. CASE cursor = NoVnode
  BY <1>1 DEF Adjoining, After
<1>2. CASE cursor \in Alive
  <2>1. PICK i \in DOMAIN list, j \in DOMAIN list :
               j = i + 1 /\ list[i] = cursor /\ list[j] = ahead
    BY <1>2 DEF Adjoining
  <2>2. Position(cursor) \in DOMAIN list /\ list[Position(cursor)] = cursor
    BY <2>1 DEF Position
  <2>3. Position(cursor) = i /\ i \in Nat
    BY <2>1, <2>2 DEF TypeInv, Once, StateTyped
  <2>4. cursor # NoVnode
    BY <1>2, AliveTyped DEF TypeInv, StateTyped, Vnodes, NoVnode
  <2> QED
    BY <2>1, <2>3, <2>4 DEF After
<1> QED
  BY <1>1, <1>2

-----------------------------------------------------------------------------
(***************************************************************************)
(* The walk of iumfs_unmount, while a thread works.  A directory is in the *)
(* list before what it has entries for, so that a thread, which only goes  *)
(* down the tree, never comes back to a vnode the walk has passed.  With   *)
(* ".." it would.                                                          *)
(***************************************************************************)
Downwards == Solo /\ "dotdot" \notin Calls

Before(v, w) == \E i, j \in DOMAIN list : i < j /\ list[i] = v /\ list[j] = w

\* What a directory has an entry for comes behind it.
Ordered ==
  \A v, w \in Alive, n \in Names : node[v].entries[n] = node[w].id => Before(v, w)

\* The vnodes t refers to; those among them that have their own reference as well.
Refers(t, v) ==
  \/ dir[t] = v \/ res[t] = v \/ (pc[t] \in Held /\ vp[t] = v)
  \/ \E i \in DOMAIN todo[t] : todo[t][i] = v
Used(t, v) == v \in Linked /\ Refers(t, v)

WalkAt(t) ==
  /\ mount = "mounted" => cursor = NoVnode
  /\ Ordered
  /\ op[t].call # "dotdot"
  /\ pc[t] \in Fresh => Before(dir[t], vp[t])
  /\ cursor \in Alive => \A v \in Alive : Used(t, v) => Before(cursor, v)

WalkInv == Mounted => \A t \in Threads : WalkAt(t)

\* Whoever refers to a vnode is counted.
LEMMA SomeoneRefers ==
  ASSUME TypeInv, NEW v
  PROVE  /\ References(v) \in Nat
         /\ References(v) > 0 <=> \E t \in Threads : Refers(t, v)
<1>1. \A t \in Threads : \A i \in DOMAIN todo[t] : i \in {1, 2}
  <2>1. ASSUME NEW t \in Threads
        PROVE  todo[t] \in Seq(Vnodes) /\ Len(todo[t]) =< 2
    BY DEF TypeInv, HandsTyped, AtWork
  <2> QED
    BY <2>1
<1> DEFINE A == InDir(v)
           B == InRes(v)
           C == InVp(v)
           D == InTodo(v)
<1>2. IsFiniteSet(A) /\ IsFiniteSet(B) /\ IsFiniteSet(C) /\ IsFiniteSet(D)
  BY RefsFinite
<1>3. (A # {} \/ B # {} \/ C # {} \/ D # {}) <=> \E t \in Threads : Refers(t, v)
  <2>1. (A # {} \/ B # {} \/ C # {}) <=>
          \E t \in Threads : dir[t] = v \/ res[t] = v \/ (pc[t] \in Held /\ vp[t] = v)
    BY DEF InDir, InRes, InVp
  <2>2. D # {} <=> \E t \in Threads : \E i \in DOMAIN todo[t] : todo[t][i] = v
    <3>1. ASSUME NEW x \in D
          PROVE  \E t \in Threads : \E i \in DOMAIN todo[t] : todo[t][i] = v
      BY DEF InTodo
    <3>2. ASSUME NEW t \in Threads, NEW i \in DOMAIN todo[t], todo[t][i] = v
          PROVE  <<t, i>> \in D
      BY <1>1, <3>2 DEF InTodo
    <3> QED
      BY <3>1, <3>2
  <2> QED
    BY <2>1, <2>2 DEF Refers
<1>4. References(v) = Cardinality(A) + Cardinality(B) + Cardinality(C) + Cardinality(D)
  BY RefsAre
<1> HIDE DEF A, B, C, D
<1>5. \A S \in {A, B, C, D} : Cardinality(S) \in Nat /\ (Cardinality(S) = 0 <=> S = {})
  BY <1>2, FS_CardinalityType, FS_EmptySet
<1> DEFINE a == Cardinality(A)
           b == Cardinality(B)
           c == Cardinality(C)
           e == Cardinality(D)
<1>6. /\ a \in Nat /\ b \in Nat /\ c \in Nat /\ e \in Nat
      /\ (a = 0 <=> A = {}) /\ (b = 0 <=> B = {}) /\ (c = 0 <=> C = {}) /\ (e = 0 <=> D = {})
  BY <1>5
<1>7. References(v) = a + b + c + e
  BY <1>4
<1> HIDE DEF a, b, c, e
<1>8. a + b + c + e \in Nat /\ (a + b + c + e > 0 <=> a # 0 \/ b # 0 \/ c # 0 \/ e # 0)
  BY <1>6
<1> QED
  BY <1>3, <1>6, <1>7, <1>8

LEMMA RefersIs ==
  ASSUME TypeInv, NEW t \in Threads, Alone(t), NEW v
  PROVE  References(v) > 0 <=> Refers(t, v)
  BY SomeoneRefers DEF Alone

\* The list has each vnode once, so its order is one.
LEMMA BeforeThrough ==
  ASSUME Once, list \in Seq(Vnodes), NEW u, NEW v, NEW w, Before(u, v), Before(v, w)
  PROVE  Before(u, w)
<1>1. PICK i \in DOMAIN list, j \in DOMAIN list : i < j /\ list[i] = u /\ list[j] = v
  BY DEF Before
<1>2. PICK k \in DOMAIN list, l \in DOMAIN list : k < l /\ list[k] = v /\ list[l] = w
  BY DEF Before
<1>3. j = k
  BY <1>1, <1>2 DEF Once
<1>4. i \in Nat /\ j \in Nat /\ l \in Nat
  BY <1>1, <1>2
<1> QED
  BY <1>1, <1>2, <1>3, <1>4 DEF Before

\* What a thread is making it does not refer to yet.
LEMMA MakerHoldsNothing ==
  ASSUME TypeInv, NEW t \in Threads, SoloAt(t), NEW v, Maker(t, v)
  PROVE  ~Refers(t, v)
<1>1. /\ pc[t] \in Fresh /\ v \in Alive /\ res[t] = NoVnode
      /\ dir[t] # NoVnode => dir[t] # v
  BY DEF SoloAt, Standing, Maker, Fresh, Making
<1>2. todo[t] = <<>> /\ dir[t] \in Vnodes
  BY <1>1 DEF TypeInv, AtWork, Fresh, Releasing
<1>3. v # NoVnode /\ dir[t] # NoVnode
  BY <1>1, <1>2, AliveTyped DEF TypeInv, StateTyped, Vnodes, NoVnode
<1> QED
  BY <1>1, <1>2, <1>3 DEF Refers, Fresh, Held

\* Steps that make no vnode, enter no number and free nothing.
LEMMA WalkKeeps ==
  ASSUME TypeInv, NEW t \in Threads, SoloAt(t), WalkAt(t), Mounted, UNCHANGED <<list, umount>>,
         \A v \in Vnodes : /\ node'[v].id = node[v].id
                           /\ \A n \in Names : node'[v].entries[n] \in {node[v].entries[n], NoId},
         \A v \in Alive : mount = "checking" /\ Refers(t, v)' /\ ~Refers(t, v) =>
           dir[t] # NoVnode /\ Before(dir[t], v),
         pc'[t] \in Fresh => pc[t] \in Fresh /\ UNCHANGED <<dir, vp>>,
         op'[t].call # "dotdot"
  PROVE  WalkAt(t)'
<1>1. Alive' = Alive /\ Alive \subseteq Vnodes /\ Linked \subseteq Alive
  BY ListedStay, LinkedThen
<1>2. \A v, w : Before(v, w)' <=> Before(v, w)
  BY DEF Before
<1>3. \A v \in Alive : node[v].id # NoId
  BY <1>1, Numbers
<1>4. ASSUME NEW v \in Alive, NEW w \in Alive, NEW n \in Names,
             node'[v].entries[n] = node'[w].id
      PROVE  node[v].entries[n] = node[w].id
  BY <1>1, <1>3, <1>4
<1>5. Ordered'
  BY <1>1, <1>2, <1>4 DEF Ordered, WalkAt
<1>6. Linked' \subseteq Linked
  BY <1>1, <1>4, LinkedThen DEF Linked
<1>7. ASSUME cursor \in Alive, NEW v \in Alive, Used(t, v)'
      PROVE  Before(cursor, v)
  <2>1. v \in Linked /\ Refers(t, v)'
    BY <1>6, <1>7 DEF Used
  <2>2. CASE Refers(t, v)
    BY <1>7, <2>1, <2>2 DEF Used, WalkAt
  <2>3. CASE ~Refers(t, v)
    <3>1. mount = "checking"
      BY <1>1, <1>7 DEF WalkAt, Vnodes, NoVnode, umount, Mounted
    <3>2. dir[t] # NoVnode /\ Before(dir[t], v)
      BY <1>7, <2>1, <2>3, <3>1
    <3>3. dir[t] \in Linked /\ dir[t] \in Alive /\ Used(t, dir[t])
      BY <1>1, <3>2 DEF SoloAt, Standing, Used, Refers
    <3>4. Before(cursor, dir[t])
      BY <1>7, <3>3 DEF WalkAt
    <3> QED
      BY <3>2, <3>4, BeforeThrough DEF TypeInv, StateTyped
  <2> QED
    BY <2>2, <2>3
<1> QED
  BY <1>1, <1>2, <1>5, <1>7 DEF WalkAt, umount

\* The nodes stay, and the thread takes no reference.
Still(t) ==
  /\ UNCHANGED <<list, node, umount>>
  /\ \A v : Refers(t, v)' => Refers(t, v)
  /\ pc'[t] \notin Fresh /\ op'[t].call # "dotdot"

LEMMA StillKeeps ==
  ASSUME TypeInv, NEW t \in Threads, SoloAt(t), WalkAt(t), Mounted, Still(t)
  PROVE  WalkAt(t)'
  BY WalkKeeps DEF Still

\* The thread goes from one step to another.
LEMMA GoesStill ==
  ASSUME TypeInv, NEW t \in Threads, WalkAt(t), NEW l \in Pcs \ Fresh, Goto(t, l),
         l \in Held => pc[t] \in Held, UNCHANGED <<list, node, umount, dir, res, vp, todo>>
  PROVE  Still(t)
<1>1. pc'[t] = l /\ op'[t] \in {op[t], NoOp}
  BY GotoMoves DEF TypeInv
<1> QED
  BY <1>1 DEF Still, Refers, WalkAt, NoOp

LEMMA AsksStill ==
  ASSUME TypeInv, NEW t \in Threads, Alone(t), WalkAt(t), NEW request, NEW l \in Pcs \ Fresh,
         NEW k \in Pcs \ Fresh, NEW p, Ask(t, request, p, l, k),
         l \in Held \/ k \in Held => pc[t] \in Held,
         UNCHANGED <<list, node, umount, dir, res, vp, todo>>
  PROVE  Still(t)
<1>1. Goto(t, l) \/ Goto(t, k)
  BY AskAlone DEF Alone
<1> QED
  BY <1>1, GoesStill

LEMMA WaysStill ==
  ASSUME TypeInv, NEW t \in Threads, Alone(t), WalkAt(t),
         NotCached(t) \/ AskLookup(t) \/ AskCreate(t) \/ AskMkdir(t) \/ AskRemove(t) \/ AskRmdir(t)
         \/ iumfs_dir_is_empty(t)
  PROVE  Still(t)
<1>1. UNCHANGED <<list, node, umount, dir, res, vp, todo>>
  BY DEF NotCached, AskLookup, AskCreate, AskMkdir, AskRemove, AskRmdir, iumfs_dir_is_empty,
         fs, hands
<1>2. {"askLookup", "idle", "askCreate", "allocDir", "allocFile", "allocNew", "unlink", "giveUp",
       "askRmdir"} \subseteq Pcs \ Fresh
  BY DEF Pcs, Fresh
<1>3. CASE NotCached(t)
  <2>1. Goto(t, "askLookup") \/ Goto(t, "idle")
    BY <1>3 DEF NotCached
  <2> QED
    BY <1>1, <1>2, <2>1, GoesStill DEF Held
<1>4. CASE AskLookup(t)
  <2>1. Goto(t, "allocDir") \/ Goto(t, "allocFile") \/ Goto(t, "askCreate") \/ Goto(t, "idle")
    BY <1>4 DEF AskLookup, Alone, LookupFailed
  <2> QED
    BY <1>1, <1>2, <2>1, GoesStill DEF Held
<1>5. CASE AskCreate(t)
  BY <1>1, <1>2, <1>5, AsksStill DEF AskCreate, Held
<1>6. CASE AskMkdir(t)
  BY <1>1, <1>2, <1>6, AsksStill DEF AskMkdir, Held
<1>7. CASE AskRemove(t)
  BY <1>1, <1>2, <1>7, AsksStill DEF AskRemove, At, Held
<1>8. CASE AskRmdir(t)
  BY <1>1, <1>2, <1>8, AsksStill DEF AskRmdir, At, Held
<1>9. CASE iumfs_dir_is_empty(t)
  <2>1. pc[t] \in Held /\ (Goto(t, "askRmdir") \/ Goto(t, "giveUp"))
    BY <1>9 DEF iumfs_dir_is_empty, At, Held
  <2> QED
    BY <1>1, <1>2, <2>1, GoesStill
<1> QED
  BY <1>3, <1>4, <1>5, <1>6, <1>7, <1>8, <1>9

\* An operation begins, reads the entry, or has the names listed.
LEMMA CallStill ==
  ASSUME TypeInv, NEW t \in Threads, Alone(t), Downwards, WalkAt(t),
         Call(t) \/ iumfs_find_nodeid_by_name(t) \/ iumfs_request_readdir(t)
  PROVE  Still(t)
<1>1. HandsTyped /\ op[t] \in Operation /\ op[t].call # "dotdot"
  BY DEF TypeInv, HandsTyped, WalkAt
<1>2. ASSUME NEW l \in Pcs \ (Fresh \cup Held), NEW o, Go(t, l, o), o.call # "dotdot",
             UNCHANGED <<list, node, umount, dir, res, vp, todo>>
      PROVE  Still(t)
  <2>1. pc'[t] = l /\ op'[t] = o
    BY <1>1, <1>2 DEF Go, HandsTyped
  <2> QED
    BY <1>2, <2>1 DEF Still, Refers
<1>3. {"find", "askMkdir", "list", "noent", "get", "add", "idle"} \subseteq Pcs \ (Fresh \cup Held)
  BY DEF Pcs, Fresh, Held
<1>4. CASE Call(t)
  <2>1. PICK c \in AllCalls, n \in Entries : Start(t, c, n)
    BY <1>4 DEF Call, AllCalls, Entries
  <2> DEFINE l == CASE c = "mkdir" -> "askMkdir" [] c = "readdir" -> "list" [] OTHER -> "find"
             o == [NoOp EXCEPT !.call = c, !.name = n]
  <2>2. l \in {"askMkdir", "list", "find"} /\ c # "dotdot"
    BY <2>1 DEF Start, Downwards
  <2>3. o.call = c
    BY DEF NoOp
  <2>4. Go(t, l, o) /\ UNCHANGED <<list, node, umount, dir, res, vp, todo>>
    BY <2>1 DEF Start, fs, hands
  <2> HIDE DEF l, o
  <2> QED
    BY <1>2, <1>3, <2>2, <2>3, <2>4
<1>5. CASE iumfs_find_nodeid_by_name(t)
  <2> DEFINE id == node[dir[t]].entries[op[t].name]
             o == [op[t] EXCEPT !.found = id]
  <2>1. o.call = op[t].call
    BY <1>1 DEF Operation
  <2>2. /\ Go(t, "noent", o) \/ Go(t, "get", o)
        /\ UNCHANGED <<list, node, umount, dir, res, vp, todo>>
    BY <1>5 DEF iumfs_find_nodeid_by_name, fs, hands
  <2> HIDE DEF o
  <2> QED
    BY <1>1, <1>2, <1>3, <2>1, <2>2
<1>6. CASE iumfs_request_readdir(t)
  <2> DEFINE o == [op[t] EXCEPT !.listed = Children(node[dir[t]].path)]
  <2>1. o.call = op[t].call
    BY <1>1 DEF Operation
  <2>2. /\ Go(t, "add", o) \/ Goto(t, "idle")
        /\ UNCHANGED <<list, node, umount, dir, res, vp, todo>>
    BY <1>6 DEF iumfs_request_readdir, fs, hands
  <2> HIDE DEF o
  <2>3. CASE Go(t, "add", o)
    BY <1>1, <1>2, <1>3, <2>1, <2>2, <2>3
  <2>4. CASE Goto(t, "idle")
    BY <1>3, <2>2, <2>4, GoesStill
  <2> QED
    BY <2>2, <2>3, <2>4
<1> QED
  BY <1>4, <1>5, <1>6

\* References go from one hand to another, or to the releases.
LEMMA ReturnStill ==
  ASSUME TypeInv, NEW t \in Threads, WalkAt(t), NEW s, ReturnAfter(t, s),
         \A i \in DOMAIN s : Refers(t, s[i]),
         dir'[t] \in {dir[t], res[t], NoVnode}, res'[t] \in {res[t], NoVnode}
  PROVE  /\ \A v \in Vnodes : Refers(t, v)' => Refers(t, v)
         /\ pc'[t] \notin Fresh /\ op'[t].call # "dotdot"
<1>1. HandsTyped /\ "rele" \in Pcs /\ Goto(t, "rele")
  BY DEF TypeInv, Pcs, ReturnAfter
<1>2. pc'[t] = "rele" /\ op'[t] = op[t] /\ todo'[t] = s
  BY <1>1, GotoMoves DEF ReturnAfter, HandsTyped
<1>3. ASSUME NEW v \in Vnodes, Refers(t, v)'
      PROVE  Refers(t, v)
  <2>1. \/ dir'[t] = v \/ res'[t] = v
        \/ \E i \in DOMAIN s : s[i] = v
    BY <1>2, <1>3 DEF Refers, Held
  <2>2. v # NoVnode
    BY DEF Vnodes, NoVnode
  <2> QED
    BY <2>1, <2>2 DEF Refers
<1> QED
  BY <1>2, <1>3 DEF Fresh, WalkAt

LEMMA ReturnWalk ==
  ASSUME TypeInv, NEW t \in Threads, SoloAt(t), WalkAt(t), Mounted, NEW s, ReturnAfter(t, s),
         \A i \in DOMAIN s : Refers(t, s[i]),
         dir'[t] \in {dir[t], res[t], NoVnode}, res'[t] \in {res[t], NoVnode},
         UNCHANGED <<list, umount>>,
         \A v \in Vnodes : /\ node'[v].id = node[v].id
                           /\ \A n \in Names : node'[v].entries[n] \in {node[v].entries[n], NoId}
  PROVE  WalkAt(t)'
<1>1. /\ \A v \in Vnodes : Refers(t, v)' => Refers(t, v)
      /\ pc'[t] \notin Fresh /\ op'[t].call # "dotdot"
  BY ReturnStill
<1>2. Alive \subseteq Vnodes
  BY AliveTyped DEF TypeInv, StateTyped
<1> QED
  BY <1>1, <1>2, WalkKeeps

LEMMA EndsWalk ==
  ASSUME TypeInv, NEW t \in Threads, SoloAt(t), WalkAt(t), Mounted,
         Chdir(t) \/ Close(t) \/ Leave(t) \/ GiveUp(t)
  PROVE  WalkAt(t)'
<1>1. HandsTyped /\ UNCHANGED <<list, node, umount>>
  BY DEF TypeInv, Chdir, Close, Leave, GiveUp, fs
<1>2. CASE Chdir(t)
  <2>1. /\ ReturnAfter(t, <<dir[t]>>) /\ dir'[t] = res[t] /\ res'[t] = NoVnode
        /\ Refers(t, dir[t])
    BY <1>1, <1>2 DEF Chdir, HandsTyped, Refers
  <2> QED
    BY <1>1, <2>1, ReturnWalk
<1>3. CASE Close(t)
  <2>1. /\ ReturnAfter(t, <<res[t]>>) /\ dir'[t] = dir[t] /\ res'[t] = NoVnode
        /\ Refers(t, res[t])
    BY <1>1, <1>3 DEF Close, HandsTyped, Refers
  <2> QED
    BY <1>1, <2>1, ReturnWalk
<1>4. CASE Leave(t)
  <2>1. /\ ReturnAfter(t, <<dir[t]>>) /\ dir'[t] = NoVnode /\ res'[t] = res[t]
        /\ Refers(t, dir[t])
    BY <1>1, <1>4 DEF Leave, HandsTyped, Refers
  <2> QED
    BY <1>1, <2>1, ReturnWalk
<1>5. CASE GiveUp(t)
  <2>1. /\ ReturnAfter(t, <<vp[t]>>) /\ dir'[t] = dir[t] /\ res'[t] = res[t]
        /\ Refers(t, vp[t])
    BY <1>1, <1>5 DEF GiveUp, At, Held, Refers
  <2> QED
    BY <1>1, <2>1, ReturnWalk
<1> QED
  BY <1>2, <1>3, <1>4, <1>5

LEMMA UnlinkWalk ==
  ASSUME TypeInv, NEW t \in Threads, Alone(t), SoloAt(t), WalkAt(t), Mounted,
         iumfs_remove_entry_from_dir(t)
  PROVE  WalkAt(t)'
<1>1. /\ ReturnAfter(t, <<vp[t], vp[t]>>) /\ UNCHANGED <<list, umount, dir, res>>
      /\ pc[t] \in Held /\ node' = [node EXCEPT ![dir[t]].entries[op[t].name] = NoId]
  BY DEF iumfs_remove_entry_from_dir, Released, At, Held, Alone
<1>2. Refers(t, vp[t])
  BY <1>1 DEF Refers
<1>3. \A i \in DOMAIN <<vp[t], vp[t]>> : Refers(t, <<vp[t], vp[t]>>[i])
  BY <1>2
<1>4. dir[t] \in Vnodes /\ op[t].name \in Names
  BY <1>1, AtName
<1>5. EntryIs(dir[t], op[t].name, NoId)
  BY <1>1, <1>4, EntryChanges
<1>6. \A v \in Vnodes : /\ node'[v].id = node[v].id
                        /\ \A n \in Names : node'[v].entries[n] \in {node[v].entries[n], NoId}
  BY <1>5 DEF EntryIs
<1> QED
  BY <1>1, <1>3, <1>6, ReturnWalk

LEMMA RootWalk ==
  ASSUME TypeInv, NEW t \in Threads, SoloAt(t), WalkAt(t), Mounted, Root(t)
  PROVE  WalkAt(t)'
<1>1. RootV \in Vnodes /\ VN_HOLD(RootV) /\ mount = "mounted" /\ pc'[t] = "idle"
  BY AliveTyped DEF Root, TypeInv, StateTyped
<1>2. \A v \in Vnodes : Same(v)
  BY <1>1, HoldTwins DEF Twin
<1>3. \A v \in Vnodes : /\ node'[v].id = node[v].id
                        /\ \A n \in Names : node'[v].entries[n] \in {node[v].entries[n], NoId}
  BY <1>2 DEF Same
<1>4. UNCHANGED <<list, umount>> /\ op'[t].call # "dotdot"
  BY DEF Root, WalkAt
<1> QED
  BY <1>1, <1>3, <1>4, WalkKeeps DEF Fresh

LEMMA GetWalk ==
  ASSUME TypeInv, NEW t \in Threads, SoloAt(t), WalkAt(t), Mounted,
         iumfs_find_vnode_by_nodeid(t)
  PROVE  WalkAt(t)'
<1>1. /\ pc[t] = "get" /\ UNCHANGED <<list, umount, dir>>
      /\ \/ Goto(t, "noent") /\ UNCHANGED <<node, res, vp, todo>>
         \/ Found(t) \in Alive /\ node[Found(t)].id = op[t].found /\ Taken(t, Found(t))
  BY Takes
<1>2. CASE Goto(t, "noent") /\ UNCHANGED <<node, res, vp, todo>>
  <2>1. "noent" \in Pcs \ Fresh /\ "noent" \notin Held
    BY DEF Pcs, Fresh, Held
  <2>2. Still(t)
    BY <1>1, <1>2, <2>1, GoesStill
  <2> QED
    BY <2>2, StillKeeps
<1>3. ASSUME NEW v \in Alive, node[v].id = op[t].found, Taken(t, v)
      PROVE  WalkAt(t)'
  <2>1. v \in Vnodes /\ VN_HOLD(v) /\ Alive \subseteq Vnodes
    BY <1>3, AliveTyped DEF TypeInv, StateTyped, Taken
  <2>2. \A w \in Vnodes : /\ node'[w].id = node[w].id
                          /\ \A n \in Names : node'[w].entries[n] \in {node[w].entries[n], NoId}
    BY <2>1, HoldTwins DEF Twin, Same
  <2>3. /\ HandsTyped /\ Asking(t) /\ Standing(t) /\ KnowsEntry(t)
        /\ {"idle", "askRemove", "empty", "giveUp"} \subseteq Pcs
    BY DEF TypeInv, SoloAt, Knowing, Pcs
  <2>4. op[t].name \in Names /\ op[t].found # NoId
    BY <1>1, <2>3 DEF Asking, Searching, WalkAt, KnowsEntry
  <2>5. dir[t] \in Vnodes /\ dir[t] \in Alive /\ dir[t] # NoVnode
    BY <1>1, <2>3, LinkedThen DEF TypeInv, AtWork, Releasing, Standing, Vnodes, NoVnode
  <2>6. Before(dir[t], v)
    BY <1>1, <1>3, <2>3, <2>4, <2>5 DEF WalkAt, Ordered, KnowsEntry, Entry
  <2>7. CASE Return(t, v) /\ UNCHANGED todo
    <3>1. pc'[t] = "idle" /\ op'[t] = NoOp /\ res'[t] = v /\ vp'[t] = NoVnode
      BY <2>3, <2>7, GotoMoves DEF Return, HandsTyped
    <3>2. \A w \in Vnodes : Refers(t, w)' => Refers(t, w) \/ w = v
      BY <1>1, <2>7, <3>1 DEF Refers, Held
    <3>3. pc'[t] \notin Fresh /\ op'[t].call # "dotdot"
      BY <3>1 DEF Fresh, NoOp
    <3> QED
      BY <1>1, <2>1, <2>2, <2>5, <2>6, <3>2, <3>3, WalkKeeps
  <2>8. CASE op[t].call = "createExcl"
    BY <2>3, <2>8 DEF Standing
  <2>9. ASSUME NEW l \in {"askRemove", "empty", "giveUp"}, Goto(t, l),
               vp' = [vp EXCEPT ![t] = v], UNCHANGED <<res, todo>>
        PROVE  WalkAt(t)'
    <3>1. pc'[t] = l /\ op'[t] = op[t] /\ vp'[t] = v
      BY <2>3, <2>9, GotoMoves DEF HandsTyped
    <3>2. \A w \in Vnodes : Refers(t, w)' => Refers(t, w) \/ w = v
      BY <1>1, <2>9, <3>1 DEF Refers, Held
    <3>3. pc'[t] \notin Fresh /\ op'[t].call # "dotdot"
      BY <3>1 DEF Fresh, WalkAt
    <3> QED
      BY <1>1, <2>1, <2>2, <2>5, <2>6, <3>2, <3>3, WalkKeeps
  <2> QED
    BY <1>3, <2>7, <2>8, <2>9 DEF Taken
<1> QED
  BY <1>1, <1>2, <1>3

LEMMA RefWalk ==
  ASSUME TypeInv, NEW t \in Threads, SoloAt(t), WalkAt(t), Mounted, Ref(t)
  PROVE  WalkAt(t)'
<1>1. pc[t] = "ref" /\ VN_HOLD(vp[t]) /\ UNCHANGED <<list, umount, dir>>
  BY DEF Ref, At
<1>2. /\ HandsTyped /\ "idle" \in Pcs /\ vp[t] \in Alive /\ op[t].call # "createExcl"
      /\ Before(dir[t], vp[t]) /\ Alive \subseteq Vnodes
  BY <1>1, AliveTyped DEF TypeInv, StateTyped, Pcs, SoloAt, Standing, Fresh, WalkAt
<1>3. dir[t] # NoVnode
  BY <1>1 DEF TypeInv, AtWork, Releasing, Vnodes, NoVnode
<1>4. Return(t, vp[t]) /\ UNCHANGED todo
  BY <1>2 DEF Ref
<1>5. pc'[t] = "idle" /\ op'[t] = NoOp /\ res'[t] = vp[t] /\ vp'[t] = NoVnode
  BY <1>2, <1>4, GotoMoves DEF Return, HandsTyped
<1>6. \A w \in Vnodes : Refers(t, w)' => Refers(t, w) \/ w = vp[t]
  BY <1>1, <1>4, <1>5 DEF Refers, Held
<1>7. \A w \in Vnodes : /\ node'[w].id = node[w].id
                        /\ \A n \in Names : node'[w].entries[n] \in {node[w].entries[n], NoId}
  BY <1>1, <1>2, HoldTwins DEF Twin, Same
<1>8. pc'[t] \notin Fresh /\ op'[t].call # "dotdot"
  BY <1>5 DEF Fresh, NoOp
<1> QED
  BY <1>1, <1>2, <1>3, <1>6, <1>7, <1>8, WalkKeeps

\* What is left to release was to be released before.
LEMMA ReleaseRefers ==
  ASSUME TypeInv, NEW t \in Threads, WalkAt(t), pc[t] \in Releasing, ReleaseDone(t),
         UNCHANGED <<dir, res, vp>>
  PROVE  /\ \A v : Refers(t, v)' => Refers(t, v)
         /\ pc'[t] \in {"idle", "rele"} /\ op'[t].call # "dotdot"
<1>1. /\ HandsTyped /\ todo[t] \in Seq(Vnodes) /\ todo[t] # <<>> /\ todo'[t] = Tail(todo[t])
      /\ {"idle", "rele"} \subseteq Pcs
  BY DEF TypeInv, HandsTyped, AtWork, ReleaseDone, Pcs
<1>2. \A i \in DOMAIN todo'[t] : i + 1 \in DOMAIN todo[t] /\ todo'[t][i] = todo[t][i + 1]
  BY <1>1
<1>3. Goto(t, "idle") \/ Goto(t, "rele")
  BY DEF ReleaseDone
<1>4. pc'[t] \in {"idle", "rele"} /\ op'[t] \in {op[t], NoOp}
  BY <1>1, <1>3, GotoMoves
<1>5. \A v : Refers(t, v)' => Refers(t, v)
  BY <1>2, <1>4 DEF Refers, Held
<1> QED
  BY <1>4, <1>5 DEF WalkAt, NoOp

LEMMA DropsWalk ==
  ASSUME TypeInv, NEW t \in Threads, SoloAt(t), WalkAt(t), Mounted, pc[t] \in Releasing,
         ReleaseDone(t), NEW v \in Alive, Drop(v), UNCHANGED <<list, umount, dir, res, vp>>
  PROVE  WalkAt(t)'
<1>1. v \in Vnodes /\ Alive \subseteq Vnodes
  BY AliveTyped DEF TypeInv, StateTyped
<1>2. \A w \in Vnodes : /\ node'[w].id = node[w].id
                        /\ \A n \in Names : node'[w].entries[n] \in {node[w].entries[n], NoId}
  BY <1>1, DropTwins DEF Twin, Same
<1>3. /\ \A w : Refers(t, w)' => Refers(t, w)
      /\ pc'[t] \in {"idle", "rele"} /\ op'[t].call # "dotdot"
  BY ReleaseRefers
<1> QED
  BY <1>2, <1>3, WalkKeeps DEF Fresh

LEMMA ReleWalk ==
  ASSUME TypeInv, NEW t \in Threads, SoloAt(t), WalkAt(t), Mounted, VN_RELE(t)
  PROVE  WalkAt(t)'
<1>1. /\ pc[t] = "rele" /\ UNCHANGED <<list, umount, dir, res, vp>> /\ Touched(t) \subseteq Alive
  BY DEF VN_RELE, At
<1>2. CASE Drop(Head(todo[t])) /\ ReleaseDone(t)
  <2>1. Head(todo[t]) \in Alive
    BY <1>1, HeadListed DEF Releasing
  <2> QED
    BY <1>1, <1>2, <2>1, DropsWalk DEF Releasing
<1>3. CASE Goto(t, "inactive") /\ UNCHANGED <<node, todo>>
  <2>1. "inactive" \in Pcs \ Fresh /\ "inactive" \notin Held
    BY DEF Pcs, Fresh, Held
  <2>2. Still(t)
    BY <1>1, <1>3, <2>1, GoesStill
  <2> QED
    BY <2>2, StillKeeps
<1> QED
  BY <1>2, <1>3 DEF VN_RELE

LEMMA SetNameWalk ==
  ASSUME TypeInv, TypeInv', NEW t \in Threads, Alone(t), SoloAt(t), WalkAt(t), Mounted,
         AddDots(t) \/ SetName(t)
  PROVE  WalkAt(t)'
<1>1. /\ pc[t] \in {"dots", "name"} /\ UNCHANGED <<list, umount, dir, res, vp, todo>>
      /\ pc'[t] \in {"name", "link", "ref", "wild"} /\ op'[t] = op[t]
      /\ \A w \in Vnodes : /\ node'[w].id = node[w].id
                           /\ \A n \in Names : node'[w].entries[n] = node[w].entries[n]
  <2>1. CASE SetName(t)
    BY <2>1, SetNameIs DEF SetName
  <2>2. CASE AddDots(t)
    BY <2>2, AddDotsIs
  <2> QED
    BY <2>1, <2>2
<1>2. \A v \in Alive : Refers(t, v)' => Refers(t, v)
  BY <1>1 DEF Refers, Held
<1>3. pc[t] \in Fresh /\ op'[t].call # "dotdot"
  BY <1>1 DEF Fresh, WalkAt
<1> QED
  BY <1>1, <1>2, <1>3, WalkKeeps

\* A new vnode comes behind all others.
LEMMA BehindAll ==
  ASSUME list \in Seq(Vnodes), NEW v, list' = Append(list, v)
  PROVE  /\ \A u, w : Before(u, w) => Before(u, w)'
         /\ \A u \in Alive : Before(u, v)'
<1>1. /\ DOMAIN list = 1 .. Len(list) /\ Len(list) \in Nat
      /\ DOMAIN list' = 1 .. Len(list) + 1
      /\ \A i \in DOMAIN list : i \in DOMAIN list' /\ list'[i] = list[i]
      /\ list'[Len(list) + 1] = v
  OBVIOUS
<1>2. \A u, w : Before(u, w) => Before(u, w)'
  BY <1>1 DEF Before
<1>3. ASSUME NEW u \in Alive
      PROVE  Before(u, v)'
  <2>1. PICK i \in DOMAIN list : list[i] = u
    BY DEF Alive
  <2>2. i \in DOMAIN list' /\ Len(list) + 1 \in DOMAIN list' /\ i < Len(list) + 1
    BY <1>1
  <2> QED
    BY <1>1, <2>1, <2>2 DEF Before
<1> QED
  BY <1>2, <1>3

LEMMA MakesWalk ==
  ASSUME TypeInv, TypeInv', NEW t \in Threads, SoloAt(t), WalkAt(t), NEW v \in Unused, NEW i,
         Makes(t, v, i), list' = Append(list, v), UNCHANGED umount, op'[t].call # "dotdot"
  PROVE  WalkAt(t)'
<1>1. /\ Alive \subseteq Vnodes /\ v \notin Alive /\ Alive' = Alive \cup {v} /\ v # cursor
      /\ cursor' = cursor /\ mount' = mount /\ UNCHANGED <<dir, res, todo>>
      /\ pc'[t] \in {"dots", "name"} /\ vp'[t] = v
  BY AliveTyped DEF Makes, TypeInv, StateTyped, Unused, umount
<1>2. /\ \A u, w : Before(u, w) => Before(u, w)'
      /\ \A u \in Alive : Before(u, v)'
  BY BehindAll DEF TypeInv, StateTyped
<1>3. dir[t] \in Alive
  <2>1. dir'[t] \in Vnodes
    BY <1>1 DEF TypeInv, AtWork, Releasing
  <2> QED
    BY <1>1, <2>1, LinkedThen DEF SoloAt, Standing, Vnodes, NoVnode
<1>4. Ordered'
  <2>1. ASSUME NEW u \in Alive', NEW w \in Alive', NEW n \in Names,
               node'[u].entries[n] = node'[w].id
        PROVE  Before(u, w)'
    <3>1. \A x \in Alive : node'[x] = node[x] /\ node[x].id # NoId
      BY <1>1, Numbers DEF Makes
    <3>2. node'[v].id = i /\ i # NoId /\ node'[v].entries[n] = NoId
      BY DEF Makes
    <3>3. u \in Alive
      BY <1>1, <2>1, <3>1, <3>2
    <3>4. CASE w = v
      BY <1>2, <3>3, <3>4
    <3>5. CASE w # v
      <4>1. w \in Alive /\ node[u].entries[n] = node[w].id
        BY <1>1, <2>1, <3>1, <3>3, <3>5
      <4> QED
        BY <1>2, <3>3, <4>1 DEF WalkAt, Ordered
    <3> QED
      BY <3>4, <3>5
  <2> QED
    BY <2>1 DEF Ordered
<1>5. ASSUME cursor' \in Alive', NEW w \in Alive', Used(t, w)'
      PROVE  Before(cursor, w)'
  <2>1. cursor \in Alive
    BY <1>1, <1>5
  <2>2. CASE w = v
    BY <1>1, <1>2, <2>1, <2>2
  <2>3. CASE w # v
    <3>1. w \in Alive /\ w \in Linked
      BY <1>1, <1>5, <2>3, MakesLinked DEF Used
    <3>2. Refers(t, w)
      BY <1>1, <1>5 DEF Used, Refers, Held
    <3>3. Before(cursor, w)
      BY <2>1, <3>1, <3>2 DEF WalkAt, Used
    <3> QED
      BY <1>1, <1>2, <3>3
  <2> QED
    BY <2>2, <2>3
<1>6. Before(dir[t], vp[t])'
  BY <1>1, <1>2, <1>3 DEF Before
<1> QED
  BY <1>1, <1>4, <1>5, <1>6 DEF WalkAt

LEMMA AllocWalk ==
  ASSUME NEW t \in Threads, Alone(t), TypeInv, TypeInv', SoloAt(t), WalkAt(t), Mounted,
         AllocFile(t) \/ AllocNew(t) \/ iumfs_make_directory(t)
  PROVE  WalkAt(t)'
<1>1. PICK v, i : v \in Unused /\ Makes(t, v, i) /\ list' = Append(list, v)
  BY AllocsSolo
<1>2. op'[t].call # "dotdot"
  <2>1. HandsTyped /\ {"dots", "name"} \subseteq Pcs /\ pc'[t] \in {"dots", "name"}
    BY <1>1 DEF TypeInv, Pcs, Makes
  <2>2. CASE Go(t, "name", [op[t] EXCEPT !.call = "new", !.found = NoId])
    BY <2>1, <2>2 DEF Go, HandsTyped, Operation
  <2>3. CASE Goto(t, "dots") \/ Goto(t, "name")
    BY <2>1, <2>3, GotoMoves DEF WalkAt
  <2>4. CASE Goto(t, LookupFailed(t))
    <3>1. LookupFailed(t) \in {"idle", "askCreate"} /\ LookupFailed(t) \in Pcs
      BY DEF LookupFailed, Pcs
    <3> QED
      BY <2>1, <2>4, <3>1, GotoMoves
  <2> QED
    BY <2>2, <2>3, <2>4 DEF AllocFile, AllocNew, iumfs_make_directory
<1>3. UNCHANGED umount
  BY DEF AllocFile, AllocNew, iumfs_make_directory
<1> QED
  BY <1>1, <1>2, <1>3, MakesWalk

LEMMA EntersWalk ==
  ASSUME TypeInv, NEW t \in Threads, SoloAt(t), WalkAt(t), NEW n, NEW i, Enters(t, n, i),
         UNCHANGED umount, op'[t].call # "dotdot"
  PROVE  WalkAt(t)'
<1>1. /\ \A v : v \in Linked' <=> v \in Linked \/ (v \in Alive /\ node[v].id = i)
      /\ Alive' = Alive /\ Alive \subseteq Vnodes /\ Linked \subseteq Alive
      /\ dir[t] \in Alive /\ dir[t] \in Vnodes
  BY EntersLinked
<1>2. /\ UNCHANGED <<list, umount, dir, res, vp, todo>>
      /\ \/ pc[t] = "link" /\ pc'[t] = "ref"
         \/ pc[t] = "add" /\ pc'[t] = "add"
  BY DEF Enters
<1>3. /\ \A v, w : Before(v, w)' <=> Before(v, w)
      /\ \A v : Refers(t, v)' => Refers(t, v)
  BY <1>2 DEF Before, Refers, Held
<1>4. \A w \in Alive : node[w].id = i => Maker(t, w)
  BY DEF Enters
<1>5. ASSUME NEW v \in Alive, NEW w \in Alive, NEW m \in Names,
             node'[v].entries[m] = node'[w].id
      PROVE  Before(v, w)
  <2>1. /\ node'[v].entries[m] = IF v = dir[t] /\ m = n THEN i ELSE node[v].entries[m]
        /\ node'[w].id = node[w].id
    BY <1>1 DEF Enters, EntryIs
  <2>2. CASE v = dir[t] /\ m = n
    BY <1>4, <1>5, <2>1, <2>2 DEF Maker, WalkAt
  <2>3. CASE ~(v = dir[t] /\ m = n)
    BY <1>5, <2>1, <2>3 DEF WalkAt, Ordered
  <2> QED
    BY <2>2, <2>3
<1>6. Ordered'
  BY <1>1, <1>3, <1>5 DEF Ordered
<1>7. pc'[t] \in Fresh => Before(dir[t], vp[t])
  BY <1>2 DEF Fresh, WalkAt
<1>8. ASSUME NEW w \in Alive, Used(t, w)'
      PROVE  Used(t, w)
  BY <1>1, <1>3, <1>4, <1>8, MakerHoldsNothing DEF Used
<1> QED
  BY <1>1, <1>2, <1>3, <1>6, <1>7, <1>8 DEF WalkAt, umount

LEMMA LinkWalk ==
  ASSUME NEW t \in Threads, Alone(t), TypeInv, TypeInv', SoloAt(t), WalkAt(t), Mounted,
         Link(t) \/ AddListed(t)
  PROVE  WalkAt(t)'
<1>1. UNCHANGED <<list, umount, dir, res>> /\ HandsTyped
  BY DEF Link, AddListed, hands, TypeInv
<1>2. CASE Link(t)
  <2>1. Enters(t, op[t].name, node[vp[t]].id)
    BY <1>2, LinkSolo
  <2>2. Goto(t, "ref") /\ "ref" \in Pcs
    BY <1>2 DEF Link, Alone, Pcs
  <2>3. op'[t].call # "dotdot"
    BY <1>1, <2>2, GotoMoves DEF WalkAt
  <2> QED
    BY <1>1, <2>1, <2>3, EntersWalk
<1>3. CASE AddListed(t)
  <2>1. /\ pc'[t] \in {"add", "idle"} /\ op'[t].call # "dotdot" /\ UNCHANGED <<vp, todo>>
        /\ pc[t] = "add"
    <3>1. CASE Goto(t, "idle")
      <4>1. "idle" \in Pcs
        BY DEF Pcs
      <4> QED
        BY <1>1, <1>3, <3>1, <4>1, GotoMoves DEF NoOp, AddListed, hands, At
    <3>2. ASSUME NEW n, Go(t, "add", [op[t] EXCEPT !.listed = @ \ {n}])
          PROVE  pc'[t] = "add" /\ op'[t].call # "dotdot"
      <4>1. pc'[t] = "add" /\ op'[t] = [op[t] EXCEPT !.listed = @ \ {n}]
        BY <1>1, <3>2 DEF Go, HandsTyped
      <4>2. op[t] \in Operation
        BY <1>1 DEF HandsTyped
      <4> QED
        BY <4>1, <4>2 DEF Operation, WalkAt
    <3> QED
      BY <1>3, <3>1, <3>2 DEF AddListed, hands, At
  <2>2. CASE UNCHANGED node
    <3>1. Still(t)
      BY <1>1, <2>1, <2>2 DEF Still, Refers, Held, Fresh
    <3> QED
      BY <3>1, StillKeeps
  <2>3. CASE \E n, i : Enters(t, n, i)
    BY <1>1, <2>1, <2>3, EntersWalk
  <2> QED
    BY <1>3, <2>2, <2>3, AddSolo
<1> QED
  BY <1>2, <1>3

\* Those that stay keep their order.
LEMMA OrderStays ==
  ASSUME list \in Seq(Vnodes), NEW v \in Alive, list' = RemoveAt(list, Position(v)),
         NEW u, NEW w, u # v, w # v, Before(u, w)
  PROVE  Before(u, w)'
<1> DEFINE k == Position(v)
<1>1. /\ k \in 1 .. Len(list) /\ list[k] = v /\ Len(list) \in Nat
      /\ list' \in Seq(Vnodes) /\ Len(list') = Len(list) - 1
      /\ \A i \in 1 .. Len(list') : list'[i] = IF i < k THEN list[i] ELSE list[i + 1]
  BY MovesUp
<1> HIDE DEF k
<1>2. DOMAIN list = 1 .. Len(list) /\ DOMAIN list' = 1 .. Len(list')
  BY <1>1
<1>3. PICK i \in DOMAIN list, j \in DOMAIN list : i < j /\ list[i] = u /\ list[j] = w
  BY DEF Before
<1> DEFINE To(x) == IF x < k THEN x ELSE x - 1
<1>4. i \in 1 .. Len(list) /\ j \in 1 .. Len(list) /\ i # k /\ j # k
  BY <1>1, <1>2, <1>3
<1>5. \A x \in 1 .. Len(list) : x # k => To(x) \in 1 .. Len(list') /\ list'[To(x)] = list[x]
  BY <1>1
<1>6. To(i) < To(j)
  BY <1>1, <1>3, <1>4
<1> QED
  BY <1>2, <1>3, <1>4, <1>5, <1>6 DEF Before

LEMMA InactiveWalk ==
  ASSUME NEW t \in Threads, Alone(t), TypeInv, TypeInv', SoloAt(t), WalkAt(t), Mounted,
         iumfs_inactive(t)
  PROVE  WalkAt(t)'
<1> DEFINE v == Head(todo[t])
<1>1. /\ pc[t] \in Releasing /\ ReleaseDone(t) /\ UNCHANGED <<disk, umount, dir, res, vp>>
      /\ Touched(t) \subseteq Alive
  BY DEF iumfs_inactive, At, Releasing
<1>2. v \in Alive /\ Alive \subseteq Vnodes
  BY <1>1, HeadListed, AliveTyped DEF TypeInv, StateTyped
<1>3. iumfs_free_node(v)
  BY DEF iumfs_inactive, SoloAt, LinksInv, RootIn
<1> HIDE DEF v
<1>4. CASE Drop(v) /\ UNCHANGED list
  BY <1>1, <1>2, <1>4, DropsWalk
<1>5. CASE /\ node[v].count = 1 /\ list' = RemoveAt(list, Position(v))
           /\ node' = [node EXCEPT ![v] = NoNode]
  <2>1. Linked' = Linked /\ v \notin Linked
    BY <1>1, <1>2, <1>5, FreeSolo DEF v
  <2>2. Alive' = Alive \ {v} /\ \A w \in Alive \ {v} : node'[w] = node[w]
    BY <1>2, <1>5, Removed DEF TypeInv, StateTyped
  <2>3. /\ \A w : Refers(t, w)' => Refers(t, w)
        /\ pc'[t] \in {"idle", "rele"} /\ op'[t].call # "dotdot"
    BY <1>1, ReleaseRefers
  <2>4. \A u, w : u # v /\ w # v /\ Before(u, w) => Before(u, w)'
    BY <1>2, <1>5, OrderStays DEF TypeInv, StateTyped
  <2>5. Ordered'
    BY <2>2, <2>4 DEF WalkAt, Ordered
  <2>6. ASSUME cursor \in Alive', NEW w \in Alive', Used(t, w)'
        PROVE  Before(cursor, w)'
    <3>1. cursor \in Alive /\ cursor # v /\ w \in Alive /\ w # v /\ Used(t, w)
      BY <2>1, <2>2, <2>3, <2>6 DEF Used
    <3> QED
      BY <1>1, <2>4, <3>1 DEF WalkAt, umount
  <2> QED
    BY <1>1, <2>3, <2>5, <2>6 DEF WalkAt, umount, Fresh
<1> QED
  BY <1>3, <1>4, <1>5 DEF iumfs_free_node

-----------------------------------------------------------------------------
(***************************************************************************)
(* Every step, the walk itself, and where it ends.                         *)
(***************************************************************************)
LEMMA WalkThreadStep ==
  ASSUME NEW t \in Threads, Alone(t), Downwards, TypeInv, TypeInv', SoloAt(t), WalkAt(t), Mounted,
         Root(t) \/ Chdir(t) \/ Close(t) \/ Leave(t) \/ Call(t) \/ Step(t)
  PROVE  WalkAt(t)'
<1>1. CASE Root(t) \/ Chdir(t) \/ Close(t) \/ Leave(t) \/ GiveUp(t)
  BY <1>1, RootWalk, EndsWalk
<1>2. CASE Call(t) \/ iumfs_find_nodeid_by_name(t) \/ iumfs_request_readdir(t)
  <2>1. Still(t)
    BY <1>2, CallStill
  <2> QED
    BY <2>1, StillKeeps
<1>3. CASE NotCached(t) \/ AskLookup(t) \/ AskCreate(t) \/ AskMkdir(t) \/ AskRemove(t) \/ AskRmdir(t)
           \/ iumfs_dir_is_empty(t)
  <2>1. Still(t)
    BY <1>3, WaysStill
  <2> QED
    BY <2>1, StillKeeps
<1>4. CASE iumfs_find_vnode_by_nodeid(t) \/ Ref(t) \/ VN_RELE(t)
  BY <1>4, GetWalk, RefWalk, ReleWalk
<1>5. CASE AllocFile(t) \/ AllocNew(t) \/ iumfs_make_directory(t)
  BY <1>5, AllocWalk
<1>6. CASE AddDots(t) \/ SetName(t) \/ Link(t) \/ AddListed(t)
  BY <1>6, SetNameWalk, LinkWalk
<1>7. CASE iumfs_remove_entry_from_dir(t) \/ iumfs_inactive(t)
  BY <1>7, UnlinkWalk, InactiveWalk
<1>8. ~AllocFails(t) /\ ~Stray(t)
  BY NothingFails
<1> QED
  BY <1>1, <1>2, <1>3, <1>4, <1>5, <1>6, <1>7, <1>8 DEF Step

\* A linked vnode the thread refers to has one reference more, and is in use.
LEMMA UsedIsBusy ==
  ASSUME NEW t \in Threads, Alone(t), TypeInv, SoloAt(t), NEW v \in Alive
  PROVE  /\ Used(t, v) => node[v].count > 1
         /\ v \notin Linked /\ Refers(t, v) => node[v].count = References(v)
<1> DEFINE a == Has(v \in Linked \/ Maker(t, v))
<1>1. node[v].count = References(v) + a /\ a \in {0, 1}
  BY DEF SoloAt, RefsInv, OwnedWhenLinked, Has
<1>2. References(v) \in Nat /\ (References(v) > 0 <=> Refers(t, v))
  BY RefsAreMine, RefersIs
<1>3. v \in Linked => a = 1
  BY DEF Has
<1>4. v \notin Linked /\ Refers(t, v) => a = 0
  BY MakerHoldsNothing DEF Has
<1> HIDE DEF a
<1> QED
  BY <1>1, <1>2, <1>3, <1>4 DEF Used

\* What is in use is at the position the walk comes to, or behind it.
LEMMA WalkAhead ==
  ASSUME TypeInv, NEW t \in Threads, WalkAt(t), cursor \in Alive \cup {NoVnode},
         NEW v \in Alive, Used(t, v)
  PROVE  /\ After(cursor) \in Nat
         /\ \E j \in DOMAIN list : list[j] = v /\ j >= After(cursor)
<1>1. CASE cursor = NoVnode
  <2>1. After(cursor) = 1
    BY <1>1 DEF After
  <2>2. PICK j \in DOMAIN list : list[j] = v
    BY DEF Alive
  <2> QED
    BY <2>1, <2>2 DEF TypeInv, StateTyped
<1>2. CASE cursor \in Alive
  <2>1. After(cursor) = 1 + Position(cursor)
    BY <1>2, AliveTyped DEF After, TypeInv, StateTyped, Vnodes, NoVnode
  <2>2. PICK i \in DOMAIN list, j \in DOMAIN list : i < j /\ list[i] = cursor /\ list[j] = v
    BY <1>2 DEF WalkAt, Before
  <2>3. Position(cursor) \in DOMAIN list /\ list[Position(cursor)] = cursor
    BY <2>2 DEF Position
  <2>4. Position(cursor) = i
    BY <2>2, <2>3 DEF TypeInv, Once
  <2> QED
    BY <2>1, <2>2, <2>4 DEF TypeInv, StateTyped
<1> QED
  BY <1>1, <1>2

\* The walk goes on only over a vnode that is not in use.
LEMMA CheckWalk ==
  ASSUME NEW t \in Threads, Alone(t), TypeInv, SoloAt(t), WalkAt(t), Adjoining,
         UnmountNext \/ UnmountCheck, Mounted'
  PROVE  WalkAt(t)'
<1>1. UNCHANGED <<list, node, pc, op, dir, res, vp, todo>>
  BY DEF UnmountNext, UnmountCheck, fs, hands
<1>2. /\ Alive' = Alive /\ Linked' = Linked /\ Alive \subseteq Vnodes
      /\ \A v, w : Before(v, w)' <=> Before(v, w)
  BY <1>1, AliveTyped DEF Alive, Linked, Before, TypeInv, StateTyped
<1>3. Ordered' /\ op'[t].call # "dotdot" /\ (pc'[t] \in Fresh => Before(dir'[t], vp'[t]))
  BY <1>1, <1>2 DEF WalkAt, Ordered
<1>4. \A v : Used(t, v)' => Used(t, v)
  BY <1>1, <1>2 DEF Used, Refers
<1>5. CASE cursor' = NoVnode
  BY <1>1, <1>2, <1>3, <1>5 DEF WalkAt, Vnodes, NoVnode
<1>6. CASE UNCHANGED <<cursor, mount>>
  BY <1>1, <1>2, <1>3, <1>4, <1>6 DEF WalkAt
<1>7. ASSUME UnmountCheck, node[ahead].count = 1, cursor' = ahead, UNCHANGED mount
      PROVE  WalkAt(t)'
  <2>1. mount' = "checking" /\ cursor \in Alive \cup {NoVnode} /\ ahead \in Alive
    BY <1>7 DEF UnmountCheck
  <2>2. ASSUME NEW v \in Alive, Used(t, v)
        PROVE  Before(ahead, v)
    <3>1. After(cursor) \in DOMAIN list /\ list[After(cursor)] = ahead
      BY <2>1, ComesNext
    <3>2. PICK j \in DOMAIN list : list[j] = v /\ j >= After(cursor)
      BY <2>1, <2>2, WalkAhead
    <3>3. node[v].count > 1
      BY <2>2, UsedIsBusy
    <3>4. After(cursor) < j
      BY <1>7, <3>1, <3>2, <3>3 DEF TypeInv, StateTyped
    <3> QED
      BY <3>1, <3>2, <3>4 DEF Before
  <2> QED
    BY <1>1, <1>2, <1>3, <1>4, <1>7, <2>1, <2>2 DEF WalkAt
<1> QED
  BY <1>5, <1>6, <1>7 DEF UnmountNext, UnmountCheck, Mounted

LEMMA WalkStep ==
  ASSUME Downwards, TypeInv, SoloInv, WalkInv, Adjoining, [Next]_vars
  PROVE  WalkInv'
<1>1. PICK t : Alone(t)
  BY DEF Downwards, Solo
<1>2. t \in Threads /\ Threads = {t}
  BY <1>1 DEF Alone
<1>3. SUFFICES ASSUME Mounted'
               PROVE  WalkAt(t)'
  BY <1>2 DEF WalkInv
<1>4. Mounted => SoloAt(t) /\ WalkAt(t)
  BY <1>2 DEF SoloInv, WalkInv
<1>5. CASE Root(t) \/ Chdir(t) \/ Close(t) \/ Leave(t) \/ Call(t) \/ Step(t)
  <2>1. Mounted
    BY <1>3, <1>5, ThreadsDoNotUnmount DEF Mounted, umount
  <2> QED
    BY <1>1, <1>2, <1>4, <1>5, <2>1, TypeStep, WalkThreadStep
<1>6. CASE Unmount \/ UNCHANGED vars
  <2>1. /\ UNCHANGED <<list, node, cursor, pc, op, dir, res, vp, todo>> /\ Mounted
        /\ mount' = "mounted" => mount = "mounted"
    BY <1>3, <1>6 DEF Unmount, vars, Mounted, fs, hands
  <2>2. /\ Alive' = Alive /\ Linked' = Linked
        /\ \A v, w : Before(v, w)' <=> Before(v, w)
    BY <2>1 DEF Alive, Linked, Before
  <2> QED
    BY <1>4, <2>1, <2>2 DEF WalkAt, Ordered, Used, Refers
<1>7. CASE UnmountNext \/ UnmountCheck
  BY <1>1, <1>2, <1>3, <1>4, <1>7, CheckWalk DEF UnmountNext, UnmountCheck, Mounted
<1>8. CASE iumfs_free_all_node \/ UnmountStray
  BY <1>3, <1>8 DEF iumfs_free_all_node, UnmountStray, Mounted
<1>9. ~LateExecution
  BY <1>1, NoneLate DEF Alone, SoloInv
<1> QED
  BY <1>2, <1>5, <1>6, <1>7, <1>8, <1>9 DEF Next

LEMMA WalkInit ==
  ASSUME Downwards, Init
  PROVE  WalkInv
<1>1. RootV \in Vnodes
  BY NodesAssumption DEF RootV, Vnodes
<1>2. Alive = {RootV}
  <2>1. DOMAIN list = {1} /\ list[1] = RootV
    BY DEF Init
  <2> QED
    BY <2>1 DEF Alive
<1>3. node[RootV].id = 1 /\ \A n \in Names : node[RootV].entries[n] = NoId
  <2>1. node[RootV] = [NewNode("dir", 1) EXCEPT !.entries[".."] = MountedOn]
    BY <1>1 DEF Init
  <2>2. node[RootV].entries = [NoEntries EXCEPT ![".."] = MountedOn]
    BY <2>1 DEF NewNode
  <2>3. \A n \in Names : node[RootV].entries[n] = NoId
    BY <2>2, NodesAssumption DEF NoEntries, Entries
  <2> QED
    BY <2>1, <2>3 DEF NewNode
<1>4. Ordered
  BY <1>2, <1>3 DEF Ordered, NoId
<1>5. \A t \in Threads : pc[t] = "idle" /\ op[t].call = "none"
  BY DEF Init, NoOp
<1>6. cursor = NoVnode /\ NoVnode \notin Alive
  BY <1>2 DEF Init, RootV, NoVnode
<1> QED
  BY <1>4, <1>5, <1>6 DEF WalkInv, WalkAt, Fresh

LEMMA WalkInvariant ==
  ASSUME Downwards
  PROVE  Spec => [](TypeInv /\ SoloInv /\ WalkInv /\ Adjoining)
<1>1. Init => TypeInv /\ SoloInv /\ WalkInv /\ Adjoining
  BY InitTyped, SoloInit, WalkInit, AdjoiningInit DEF Downwards
<1>2. TypeInv /\ SoloInv /\ WalkInv /\ Adjoining /\ [Next]_vars =>
        (TypeInv /\ SoloInv /\ WalkInv /\ Adjoining)'
  BY TypeStep, SoloStep, WalkStep, AdjoiningStep DEF Downwards
<1> QED
  BY <1>1, <1>2, PTL DEF Spec

\* When the walk of iumfs_unmount has come to its end and iumfs_free_all_node begins, no
\* vnode of the tree is in use, although a thread has gone on working in it meanwhile.
THEOREM UnmountSparesAlone == Downwards => (Spec => UnmountSparesUsed)
<1>1. SUFFICES ASSUME Downwards
               PROVE  Spec => UnmountSparesUsed
  OBVIOUS
<1>2. ASSUME TypeInv, SoloInv, WalkInv, [Next]_vars, mount = "checking", mount' = "freeing",
             NEW v \in Alive, References(v) > 0
      PROVE  node[v].count = References(v)
  <2>1. PICK t : Alone(t)
    BY <1>1 DEF Downwards, Solo
  <2>2. /\ t \in Threads /\ Threads = {t}
        /\ SoloAt(t) /\ WalkAt(t)
    BY <1>2, <2>1 DEF Alone, SoloInv, WalkInv, Mounted
  <2>3. UnmountNext
    BY <1>2, <2>2, ThreadsDoNotUnmount
    DEF Next, Unmount, UnmountCheck, iumfs_free_all_node, UnmountStray, LateExecution, vars, umount
  <2>4. cursor \in Alive \cup {NoVnode} /\ After(cursor) > Len(list)
    BY <1>2, <2>3 DEF UnmountNext
  <2>5. Refers(t, v)
    BY <1>2, <2>1, <2>2, RefersIs
  <2>6. ~Used(t, v)
    <3>1. SUFFICES ASSUME Used(t, v)
                   PROVE  FALSE
      OBVIOUS
    <3>2. PICK j \in DOMAIN list : j >= After(cursor) /\ After(cursor) \in Nat
      BY <1>2, <2>2, <2>4, <3>1, WalkAhead
    <3> QED
      BY <1>2, <2>4, <3>2 DEF TypeInv, StateTyped
  <2> QED
    BY <1>2, <2>1, <2>2, <2>5, <2>6, UsedIsBusy DEF Used
<1>3. TypeInv /\ SoloInv /\ WalkInv /\ [Next]_vars =>
        [mount = "checking" /\ mount' = "freeing" =>
           \A v \in Alive : References(v) > 0 => node[v].count = References(v)]_vars
  BY <1>2
<1> QED
  BY <1>1, <1>3, WalkInvariant, PTL DEF Spec, UnmountSparesUsed


-----------------------------------------------------------------------------
(***************************************************************************)
(* The walk of iumfs_unmount among many threads.  They look up and make    *)
(* names, or look up and remove files; as long as no directory is removed  *)
(* and nobody goes up, the directory a thread works in has its own         *)
(* reference besides the thread's, so that the walk cannot pass it, and    *)
(* what the thread finds or makes there comes behind it.                   *)
(***************************************************************************)
Downhill == OwnGivenOnce /\ {"rmdir", "dotdot"} \cap Calls = {}

\* create or mkdir gives back the reference of a vnode it could not enter.
Discards(t, v) == pc[t] \in Releasing /\ op[t].call \in {"new", "mkdir"} /\ todo[t] = <<v>>

\* t is making v under a new number, or discards it: nobody else can find it.
Secret(t, v) ==
  \/ pc[t] \in {"dots", "name", "link"} /\ op[t].found = NoId /\ vp[t] = v
  \/ Discards(t, v)

Unknown(v) ==
  /\ \A w \in Alive : node[w].id = node[v].id => w = v
  /\ \A u \in Alive, n \in Names : node[u].entries[n] # node[v].id
  /\ \A s \in Threads : op[s].found # node[v].id

KeepsSecret(t) ==
  \A v \in Alive : Secret(t, v) =>
    /\ Unknown(v) /\ node[v].count = 1 /\ Before(dir[t], v)
    /\ \A s \in Threads \ {t} : vp[s] # v

\* What a thread looks for, finds or makes is behind the directory it works in.
Descends(t) ==
  /\ pc[t] = "idle" => op[t] = NoOp
  /\ pc[t] = "link" => op[t].found = NoId
  /\ pc[t] \notin {"empty", "askRmdir"}
  /\ pc[t] \in Held => op[t].call = "remove"
  /\ pc[t] \in {"askRemove", "unlink"} => node[vp[t]].type = "file"
  /\ pc[t] \in Fresh \cup Held /\ vp[t] \in Alive => Before(dir[t], vp[t])
  /\ pc[t] \notin Fresh \cup Held \cup {"wild"} => vp[t] = NoVnode
  /\ \A v \in Alive : op[t].found = node[v].id => Before(dir[t], v)
  /\ dir[t] # NoVnode => node[dir[t]].type = "dir"
  /\ dir[t] = NoVnode => op[t].found = NoId
  /\ pc[t] \in Releasing /\ op[t].call \in {"new", "mkdir"} => Len(todo[t]) = 1

\* Only removed and discarded vnodes lack their own reference.
OwnKept ==
  \A v \in Alive : node[v].type = "dir" \/ "remove" \notin Calls =>
    Owned(v) \/ \E t \in Threads : Discards(t, v)

\* What t refers to, and has not been removed, is ahead of the walk.
Ahead(t) == cursor \in Alive => \A v \in Alive : Refers(t, v) /\ Owned(v) => Before(cursor, v)

WalkRuns ==
  /\ mount = "mounted" => cursor = NoVnode
  /\ "remove" \notin Calls => cursor \in Alive \cup {NoVnode}

DownInv ==
  /\ Ordered /\ node[RootV].type = "dir" /\ OwnKept /\ WalkRuns
  /\ \A t \in Threads : Descends(t) /\ KeepsSecret(t) /\ Ahead(t)

-----------------------------------------------------------------------------
(***************************************************************************)
(* Facts about the threads' references.                                    *)
(***************************************************************************)
\* A directory somebody works in is not one that somebody else gives back the last
\* reference of.
LEMMA WorkedInTwice ==
  ASSUME NEW s \in Threads, NEW t \in Threads, NEW v, dir[t] = v, todo[s] = <<v>>
  PROVE  References(v) \in Nat /\ References(v) >= 2
<1> DEFINE A == InDir(v)
           B == InRes(v)
           C == InVp(v)
           D == InTodo(v)
<1>1. IsFiniteSet(A) /\ IsFiniteSet(B) /\ IsFiniteSet(C) /\ IsFiniteSet(D)
  BY RefsFinite
<1>2. A # {} /\ D # {}
  <2>1. t \in A
    BY DEF InDir
  <2>2. <<s, 1>> \in D
    BY DEF InTodo
  <2> QED
    BY <2>1, <2>2
<1>3. References(v) = Cardinality(A) + Cardinality(B) + Cardinality(C) + Cardinality(D)
  BY RefsAre
<1> HIDE DEF A, B, C, D
<1>4. /\ Cardinality(A) \in Nat /\ Cardinality(B) \in Nat /\ Cardinality(C) \in Nat
      /\ Cardinality(D) \in Nat /\ Cardinality(A) # 0 /\ Cardinality(D) # 0
  BY <1>1, <1>2, FS_CardinalityType, FS_EmptySet
<1> QED
  BY <1>3, <1>4

\* The root is nobody's secret.
LEMMA SecretNotRoot ==
  ASSUME TypeInv, CountInv, NEW t \in Threads, KeepsSecret(t), NEW v \in Alive, Secret(t, v)
  PROVE  v # RootV /\ v \in Vnodes /\ node[v].count = 1
<1>1. v \in Vnodes /\ node[v].count = 1
  BY AliveTyped DEF TypeInv, StateTyped, KeepsSecret
<1>2. CASE pc[t] \in {"dots", "name", "link"}
  BY <1>1, <1>2 DEF Secret, Discards, Releasing, CountInv, RootStays, Fresh
<1>3. CASE Discards(t, v)
  <2>1. Refers(t, v)
    BY <1>3 DEF Discards, Refers
  <2>2. References(v) \in Nat /\ References(v) > 0
    BY <2>1, SomeoneRefers
  <2> QED
    BY <1>1, <2>2 DEF CountInv, RootStays, Owned
<1> QED
  BY <1>1, <1>2, <1>3 DEF Secret

\* A vnode is not before itself.
LEMMA NotBeforeItself ==
  ASSUME TypeInv, NEW v
  PROVE  ~Before(v, v)
<1>1. ASSUME NEW i \in DOMAIN list, NEW j \in DOMAIN list, i < j, list[i] = v, list[j] = v
      PROVE  FALSE
  <2>1. i = j /\ i \in Nat
    BY <1>1 DEF TypeInv, StateTyped, Once
  <2> QED
    BY <1>1, <2>1
<1> QED
  BY <1>1 DEF Before

\* The directory a thread works in has its own reference too, and is ahead of the walk.
LEMMA DirAhead ==
  ASSUME TypeInv, CountInv, DownInv, NEW t \in Threads, dir[t] # NoVnode
  PROVE  /\ dir[t] \in Alive /\ dir[t] \in Vnodes /\ Owned(dir[t]) /\ node[dir[t]].type = "dir"
         /\ cursor \in Alive => Before(cursor, dir[t])
<1> DEFINE v == dir[t]
<1>1. v \in Alive /\ v \in Vnodes /\ node[v].type = "dir"
  BY ReferredAlive, AliveTyped DEF TypeInv, StateTyped, DownInv, Descends
<1>2. ASSUME NEW s \in Threads, Discards(s, v)
      PROVE  Owned(v)
  <2>1. References(v) \in Nat /\ References(v) >= 2
    BY <1>2, WorkedInTwice DEF Discards
  <2>2. node[v].count = 1
    BY <1>1, <1>2 DEF DownInv, KeepsSecret, Secret
  <2>3. node[v].count - References(v) \in {0, 1}
    BY <1>1 DEF CountInv, CountIsExact
  <2> QED
    BY <2>1, <2>2, <2>3
<1>3. Owned(v)
  BY <1>1, <1>2 DEF DownInv, OwnKept
<1>4. Refers(t, v)
  BY DEF Refers
<1> QED
  BY <1>1, <1>3, <1>4 DEF DownInv, Ahead

\* What is behind the directory of a thread is ahead of the walk.
LEMMA BehindIsAhead ==
  ASSUME TypeInv, CountInv, DownInv, NEW t \in Threads, dir[t] # NoVnode, NEW v, Before(dir[t], v),
         cursor \in Alive
  PROVE  Before(cursor, v)
  BY DirAhead, BeforeThrough DEF TypeInv, StateTyped

-----------------------------------------------------------------------------
(***************************************************************************)
(* Steps of a thread that leave the list as it is.                         *)
(***************************************************************************)
Stays(t) ==
  /\ Others(t) /\ UNCHANGED <<list, mount, cursor>>
  /\ \A v \in Vnodes : /\ node'[v].id = node[v].id /\ node'[v].type = node[v].type
                       /\ Owned(v)' => Owned(v)
  /\ \A v \in Alive, n \in Names :
       \/ node'[v].entries[n] = node[v].entries[n]
       \/ \A w \in Alive : node[w].id = node'[v].entries[n] =>
            Before(v, w) /\ \A s \in Threads : ~Secret(s, w)'
  /\ \A v \in Alive :
       /\ Owned(v) => Owned(v)' \/ Discards(t, v)' \/ (node[v].type = "file" /\ "remove" \in Calls)
       /\ Discards(t, v) => Discards(t, v)'
       /\ Refers(t, v)' =>
            Refers(t, v) \/ mount = "mounted" \/ (dir[t] # NoVnode /\ Before(dir[t], v))
       /\ Secret(t, v)' => Secret(t, v) /\ dir'[t] = dir[t]
  /\ \A s \in Threads, v \in Alive : Secret(s, v) /\ Secret(s, v)' =>
       /\ node'[v].count = node[v].count /\ op'[t].found # node[v].id
       /\ s # t => vp'[t] # v
  /\ Descends(t)'

LEMMA DownStays ==
  ASSUME TypeInv, TypeInv', CountInv, DownInv, NEW t \in Threads, Stays(t)
  PROVE  DownInv'
<1>1. Alive' = Alive /\ Alive \subseteq Vnodes
  BY ListedStay DEF Stays
<1>2. \A u, w : Before(u, w)' <=> Before(u, w)
  BY DEF Stays, Before
<1>3. \A s \in Threads : s # t =>
        /\ pc'[s] = pc[s] /\ op'[s] = op[s] /\ dir'[s] = dir[s] /\ vp'[s] = vp[s]
        /\ todo'[s] = todo[s]
        /\ \A v : (Refers(s, v)' <=> Refers(s, v)) /\ (Secret(s, v)' <=> Secret(s, v))
                  /\ (Discards(s, v)' <=> Discards(s, v))
  BY DEF Stays, Others, Refers, Secret, Discards
<1>4. Ordered'
  <2>1. ASSUME NEW v \in Alive, NEW w \in Alive, NEW n \in Names, node'[v].entries[n] = node'[w].id
        PROVE  Before(v, w)
    <3>1. node'[w].id = node[w].id
      BY <1>1 DEF Stays
    <3> QED
      BY <2>1, <3>1 DEF Stays, DownInv, Ordered
  <2> QED
    BY <1>1, <1>2, <2>1 DEF Ordered
<1>5. node'[RootV].type = "dir"
  BY NodesAssumption DEF Stays, DownInv, RootV, Vnodes
<1>6. OwnKept'
  <2>1. ASSUME NEW v \in Alive, node'[v].type = "dir" \/ "remove" \notin Calls
        PROVE  Owned(v)' \/ \E s \in Threads : Discards(s, v)'
    <3>1. node[v].type = "dir" \/ "remove" \notin Calls
      BY <1>1, <2>1 DEF Stays
    <3>2. CASE Owned(v)
      BY <3>1, <3>2 DEF Stays
    <3>3. ASSUME NEW s \in Threads, Discards(s, v)
          PROVE  Discards(s, v)'
      BY <1>3, <3>3 DEF Stays
    <3> QED
      BY <3>1, <3>2, <3>3 DEF DownInv, OwnKept
  <2> QED
    BY <1>1, <2>1 DEF OwnKept
<1>7. WalkRuns'
  BY <1>1 DEF Stays, DownInv, WalkRuns
<1>8. ASSUME NEW s \in Threads
      PROVE  Descends(s)'
  <2>1. CASE s = t
    BY <2>1 DEF Stays
  <2>2. CASE s # t
    <3>1. /\ dir[s] # NoVnode => dir[s] \in Vnodes
          /\ pc[s] \in {"askRemove", "unlink"} => vp[s] \in Vnodes
      BY DEF TypeInv, HandsTyped, AtWork, Held
    <3>2. \A v \in Vnodes : node'[v].id = node[v].id /\ node'[v].type = node[v].type
      BY DEF Stays
    <3>3. Descends(s)
      BY DEF DownInv
    <3> QED
      BY <1>1, <1>2, <1>3, <2>2, <3>1, <3>2, <3>3 DEF Descends
  <2> QED
    BY <2>1, <2>2
<1>9. ASSUME NEW s \in Threads
      PROVE  KeepsSecret(s)'
  <2>1. ASSUME NEW v \in Alive, Secret(s, v)'
        PROVE  /\ Unknown(v)' /\ node'[v].count = 1 /\ Before(dir'[s], v)
               /\ \A r \in Threads \ {s} : vp'[r] # v
    <3>1. Secret(s, v) /\ dir'[s] = dir[s]
      BY <1>3, <2>1 DEF Stays
    <3>2. /\ Unknown(v) /\ node[v].count = 1 /\ Before(dir[s], v)
          /\ \A r \in Threads \ {s} : vp[r] # v
      BY <3>1 DEF DownInv, KeepsSecret
    <3>3. node'[v].count = 1 /\ op'[t].found # node[v].id /\ (s # t => vp'[t] # v)
      BY <2>1, <3>1, <3>2 DEF Stays
    <3>4. node'[v].id = node[v].id
      BY <1>1 DEF Stays
    <3>5. \A w \in Alive : node'[w].id = node'[v].id => w = v
      BY <1>1, <3>2, <3>4 DEF Stays, Unknown
    <3>6. ASSUME NEW u \in Alive, NEW n \in Names
          PROVE  node'[u].entries[n] # node'[v].id
      <4>1. node[u].entries[n] # node[v].id
        BY <3>2 DEF Unknown
      <4> QED
        BY <2>1, <3>4, <4>1 DEF Stays
    <3>7. \A r \in Threads : op'[r].found # node'[v].id
      BY <1>3, <3>2, <3>3, <3>4 DEF Unknown
    <3>8. Unknown(v)'
      BY <1>1, <3>5, <3>6, <3>7 DEF Unknown
    <3>9. \A r \in Threads \ {s} : vp'[r] # v
      BY <1>3, <3>2, <3>3
    <3> QED
      BY <3>1, <3>2, <3>3, <3>8, <3>9
  <2> QED
    BY <1>1, <1>2, <2>1 DEF KeepsSecret
<1>10. ASSUME NEW s \in Threads
       PROVE  Ahead(s)'
  <2>1. ASSUME cursor \in Alive, NEW v \in Alive, Refers(s, v)', Owned(v)'
        PROVE  Before(cursor, v)
    <3>1. Owned(v)
      BY <1>1, <2>1 DEF Stays
    <3>2. CASE Refers(s, v)
      BY <2>1, <3>1, <3>2 DEF DownInv, Ahead
    <3>3. CASE ~Refers(s, v)
      <4>1. s = t /\ mount # "mounted"
        BY <1>1, <1>3, <2>1, <3>3 DEF DownInv, WalkRuns, Vnodes, NoVnode
      <4>2. dir[t] # NoVnode /\ Before(dir[t], v)
        BY <2>1, <3>3, <4>1 DEF Stays
      <4> QED
        BY <2>1, <4>2, BehindIsAhead
    <3> QED
      BY <3>2, <3>3
  <2> QED
    BY <1>1, <1>2, <2>1 DEF Ahead, Stays
<1> QED
  BY <1>4, <1>5, <1>6, <1>7, <1>8, <1>9, <1>10 DEF DownInv

\* A steady step stays, if it enters nothing a thread keeps to itself and refers to nothing
\* the walk has passed.
LEMMA SteadyDown ==
  ASSUME TypeInv, TypeInv', CountInv, DownInv, NEW t \in Threads, Steady(t), UNCHANGED cursor,
         \A v \in Vnodes : node'[v].type = node[v].type,
         \A v \in Alive, n \in Names :
           \/ node'[v].entries[n] = node[v].entries[n]
           \/ \A w \in Alive : node[w].id = node'[v].entries[n] =>
                Before(v, w) /\ \A s \in Threads : ~Secret(s, w)',
         \A v \in Alive :
           /\ Discards(t, v) => Discards(t, v)'
           /\ Refers(t, v)' =>
                Refers(t, v) \/ mount = "mounted" \/ (dir[t] # NoVnode /\ Before(dir[t], v))
           /\ Secret(t, v)' => Secret(t, v) /\ dir'[t] = dir[t]
           /\ \A s \in Threads : Secret(s, v) /\ Secret(s, v)' => node'[v].count = node[v].count,
         \/ op'[t].found \in {op[t].found, NoId}
         \/ \E u \in Alive, n \in Names : op'[t].found = node[u].entries[n],
         vp'[t] \in {vp[t], NoVnode} \/ node[vp'[t]].id = op[t].found,
         Descends(t)'
  PROVE  DownInv'
<1>1. Alive' = Alive /\ Alive \subseteq Vnodes
  BY ListedStay DEF Steady
<1>2. Others(t) /\ UNCHANGED <<list, mount, cursor>>
  BY DEF Steady, umount
<1>3. \A v \in Vnodes : /\ node'[v].id = node[v].id /\ node[v].id # NoId
                        /\ Owned(v)' <=> Owned(v)
  BY SteadyCounts, Numbers DEF Steady
<1>4. ASSUME NEW s \in Threads, NEW v \in Alive, Secret(s, v), Secret(s, v)'
      PROVE  /\ node'[v].count = node[v].count /\ op'[t].found # node[v].id
             /\ s # t => vp'[t] # v
  <2>1. Unknown(v) /\ v # NoVnode /\ \A r \in Threads \ {s} : vp[r] # v
    BY <1>1, <1>4 DEF DownInv, KeepsSecret, Vnodes, NoVnode
  <2>2. op'[t].found # node[v].id
    BY <1>1, <1>3, <2>1 DEF Unknown
  <2>3. s # t => vp'[t] # v
    BY <2>1 DEF Unknown
  <2> QED
    BY <1>4, <2>2, <2>3
<1>5. Stays(t)
  BY <1>1, <1>2, <1>3, <1>4 DEF Stays
<1> QED
  BY <1>5, DownStays

\* What t looks for and has in hand stays behind its directory.
Keeping(t) ==
  /\ pc'[t] = "idle" => op'[t] = NoOp
  /\ pc'[t] = "link" => op'[t].found = NoId
  /\ pc'[t] \notin {"empty", "askRmdir"}
  /\ pc'[t] \in Held => op'[t].call = "remove"
  /\ pc'[t] \in {"askRemove", "unlink"} => pc[t] \in {"askRemove", "unlink"}
  /\ pc'[t] \in Fresh \cup Held =>
       pc[t] \in Fresh \cup Held /\ vp'[t] = vp[t] /\ dir'[t] = dir[t]
  /\ pc'[t] \notin Fresh \cup Held \cup {"wild"} => vp'[t] = NoVnode
  /\ op'[t].found = NoId \/ (op'[t].found = op[t].found /\ dir'[t] = dir[t])
  /\ dir'[t] \in {dir[t], NoVnode} \/ (dir'[t] \in Alive /\ node[dir'[t]].type = "dir")
  /\ pc'[t] \in Releasing /\ op'[t].call \in {"new", "mkdir"} => Len(todo'[t]) = 1

LEMMA KeepingDescends ==
  ASSUME TypeInv, CountInv, DownInv, NEW t \in Threads, UNCHANGED list, Keeping(t),
         \A v \in Vnodes : node'[v].id = node[v].id /\ node'[v].type = node[v].type
  PROVE  Descends(t)'
<1>1. Alive' = Alive /\ Alive \subseteq Vnodes
  BY ListedStay
<1>2. \A u, w : Before(u, w)' <=> Before(u, w)
  BY DEF Before
<1>3. \A v \in Vnodes : node[v].id # NoId
  BY Numbers
<1>4. Descends(t)
  BY DEF DownInv
<1>5. dir[t] # NoVnode => dir[t] \in Vnodes
  BY <1>1, ReferredAlive
<1>6. pc'[t] \in {"askRemove", "unlink"} => node'[vp'[t]].type = "file"
  <2>1. pc'[t] \in {"askRemove", "unlink"} =>
          pc[t] \in {"askRemove", "unlink"} /\ vp'[t] = vp[t] /\ vp[t] \in Vnodes
    BY DEF Keeping, Held, TypeInv, AtWork
  <2> QED
    BY <1>4, <2>1 DEF Descends
<1>7. pc'[t] \in Fresh \cup Held /\ vp'[t] \in Alive => Before(dir'[t], vp'[t])
  BY <1>4 DEF Keeping, Descends
<1>8. \A v \in Alive : op'[t].found = node'[v].id => Before(dir'[t], v)
  BY <1>1, <1>3, <1>4 DEF Keeping, Descends
<1>9. dir'[t] # NoVnode => node'[dir'[t]].type = "dir"
  BY <1>1, <1>4, <1>5 DEF Keeping, Descends
<1>10. dir'[t] = NoVnode => op'[t].found = NoId
  BY <1>4 DEF Keeping, Descends
<1> QED
  BY <1>1, <1>2, <1>6, <1>7, <1>8, <1>9, <1>10 DEF Descends, Keeping

\* A step that only looks, or ends an operation: no vnode changes but for its count, and
\* t gives up what it has to itself.
Looks(t) ==
  /\ UNCHANGED cursor /\ Keeping(t)
  /\ \A v \in Vnodes : /\ node'[v].type = node[v].type
                       /\ \A n \in Names : node'[v].entries[n] = node[v].entries[n]
  /\ pc'[t] \notin {"dots", "name", "link"}
  /\ pc'[t] \in Releasing => op'[t].call \notin {"new", "mkdir"}
  /\ \A v \in Alive : ~Discards(t, v)
  /\ vp'[t] \in {vp[t], NoVnode}

LEMMA LooksDown ==
  ASSUME TypeInv, TypeInv', CountInv, DownInv, NEW t \in Threads, Steady(t), Looks(t),
         \A v \in Alive :
           /\ Refers(t, v)' =>
                Refers(t, v) \/ mount = "mounted" \/ (dir[t] # NoVnode /\ Before(dir[t], v))
           /\ node'[v].count = node[v].count \/ \A s \in Threads : ~Secret(s, v)
  PROVE  DownInv'
<1>1. Alive \subseteq Vnodes
  BY AliveTyped DEF TypeInv, StateTyped
<1>2. \A v \in Vnodes : node'[v].id = node[v].id /\ node'[v].type = node[v].type
  BY DEF Steady, Looks
<1>3. Descends(t)'
  BY <1>2, KeepingDescends DEF Steady, Looks
<1>4. \A v : ~Secret(t, v)'
  BY DEF Secret, Discards, Looks
<1>5. op'[t].found \in {op[t].found, NoId}
  BY DEF Looks, Keeping
<1> QED
  BY <1>1, <1>2, <1>3, <1>4, <1>5, SteadyDown DEF Looks

\* t goes from one step to another and keeps its hands.
LEMMA GoesDown ==
  ASSUME TypeInv, TypeInv', CountInv, DownInv, NEW t \in Threads, Steady(t), NEW l \in Pcs,
         Goto(t, l), UNCHANGED <<node, cursor, dir, res, todo>>,
         vp'[t] = vp[t] \/ (vp'[t] = NoVnode /\ l \notin Fresh \cup Held),
         l \notin Fresh \cup Releasing \cup {"empty", "askRmdir"},
         pc[t] \notin Releasing \cup {"wild"}, pc[t] \in Fresh => vp'[t] = NoVnode \/ l = "wild",
         pc[t] \in Held <=> l \in Held,
         l \in {"askRemove", "unlink"} => pc[t] \in {"askRemove", "unlink"}
  PROVE  DownInv'
<1>1. HandsTyped /\ pc'[t] = l /\ op'[t] = IF l = "idle" THEN NoOp ELSE op[t]
  BY GotoMoves DEF TypeInv
<1>2. Descends(t) /\ NoOp.found = NoId
  BY DEF DownInv, NoOp
<1>3. Keeping(t)
  BY <1>1, <1>2 DEF Keeping, Descends, Fresh, Held
<1>4. Looks(t)
  BY <1>1, <1>3 DEF Looks, Fresh, Discards, Releasing
<1>5. \A v \in Vnodes : Refers(t, v)' => Refers(t, v)
  BY <1>1 DEF Refers, Held, NoVnode, Vnodes
<1>6. Alive \subseteq Vnodes
  BY AliveTyped DEF TypeInv, StateTyped
<1> QED
  BY <1>4, <1>5, <1>6, LooksDown

-----------------------------------------------------------------------------
(***************************************************************************)
(* Steps of a thread between and in its operations.                        *)
(***************************************************************************)
\* References go from one hand to another, or to the releases.
LEMMA ReturnRefers ==
  ASSUME TypeInv, NEW t \in Threads, NEW s, ReturnAfter(t, s),
         \A i \in DOMAIN s : Refers(t, s[i]),
         dir'[t] \in {dir[t], res[t], NoVnode}, res'[t] \in {res[t], NoVnode}
  PROVE  /\ pc'[t] = "rele" /\ op'[t] = op[t] /\ todo'[t] = s /\ vp'[t] = NoVnode
         /\ \A v \in Vnodes : Refers(t, v)' => Refers(t, v)
<1>1. HandsTyped /\ "rele" \in Pcs /\ Goto(t, "rele")
  BY DEF TypeInv, Pcs, ReturnAfter
<1>2. pc'[t] = "rele" /\ op'[t] = op[t] /\ todo'[t] = s /\ vp'[t] = NoVnode
  BY <1>1, GotoMoves DEF ReturnAfter, HandsTyped
<1>3. ASSUME NEW v \in Vnodes, Refers(t, v)'
      PROVE  Refers(t, v)
  <2>1. \/ dir'[t] = v \/ res'[t] = v
        \/ \E i \in DOMAIN s : s[i] = v
    BY <1>2, <1>3 DEF Refers, Held
  <2>2. v # NoVnode
    BY DEF Vnodes, NoVnode
  <2> QED
    BY <2>1, <2>2 DEF Refers
<1> QED
  BY <1>2, <1>3

LEMMA EndDown ==
  ASSUME TypeInv, TypeInv', CountInv, DownInv, NEW t \in Threads, Steady(t), NEW s,
         ReturnAfter(t, s), UNCHANGED <<node, cursor>>, \A i \in DOMAIN s : Refers(t, s[i]),
         dir'[t] \in {dir[t], NoVnode} \/ (dir'[t] = res[t] /\ node[res[t]].type = "dir"),
         res'[t] \in {res[t], NoVnode},
         op[t].call \notin {"new", "mkdir"}, pc[t] \notin Releasing,
         op[t].found = NoId \/ dir'[t] = dir[t]
  PROVE  DownInv'
<1>1. /\ pc'[t] = "rele" /\ op'[t] = op[t] /\ vp'[t] = NoVnode
      /\ \A v \in Vnodes : Refers(t, v)' => Refers(t, v)
  BY ReturnRefers
<1>2. Alive \subseteq Vnodes
  BY AliveTyped DEF TypeInv, StateTyped
<1>3. dir'[t] \in {dir[t], NoVnode} \/ (dir'[t] \in Alive /\ node[dir'[t]].type = "dir")
  BY ReferredAlive
<1>4. Keeping(t)
  BY <1>1, <1>3 DEF Keeping, Held, Fresh
<1>5. Looks(t)
  BY <1>1, <1>4 DEF Looks, Discards
<1> QED
  BY <1>1, <1>2, <1>5, LooksDown

LEMMA EndsDown ==
  ASSUME TypeInv, TypeInv', CountInv, DownInv, NEW t \in Threads,
         Chdir(t) \/ Close(t) \/ Leave(t) \/ GiveUp(t)
  PROVE  DownInv'
<1>1. Steady(t)
  BY ChdirCalm, CloseCalm, LeaveCalm, GiveUpCalm DEF Calm
<1>2. HandsTyped /\ Descends(t) /\ NoOp.found = NoId /\ NoOp.call = "none"
  BY DEF TypeInv, DownInv, NoOp
<1>3. pc[t] \in {"idle", "giveUp"} /\ UNCHANGED <<node, cursor>>
  BY DEF Chdir, Close, Leave, GiveUp, At, fs, umount
<1>4. /\ op[t].call \notin {"new", "mkdir"}
      /\ pc[t] = "idle" => op[t].found = NoId
  BY <1>2, <1>3 DEF Descends, Held
<1>5. CASE Chdir(t)
  <2>1. ReturnAfter(t, <<dir[t]>>) /\ Refers(t, dir[t])
    BY <1>5 DEF Chdir, Refers
  <2>2. dir'[t] = res[t] /\ node[res[t]].type = "dir" /\ res'[t] = NoVnode /\ pc[t] = "idle"
    BY <1>2, <1>5 DEF Chdir, At, HandsTyped
  <2> QED
    BY <1>1, <1>3, <1>4, <2>1, <2>2, EndDown DEF Releasing
<1>6. CASE Close(t)
  <2>1. ReturnAfter(t, <<res[t]>>) /\ Refers(t, res[t])
    BY <1>6 DEF Close, Refers
  <2>2. dir'[t] = dir[t] /\ res'[t] = NoVnode
    BY <1>2, <1>6 DEF Close, HandsTyped
  <2> QED
    BY <1>1, <1>3, <1>4, <2>1, <2>2, EndDown DEF Releasing
<1>7. CASE Leave(t)
  <2>1. ReturnAfter(t, <<dir[t]>>) /\ Refers(t, dir[t])
    BY <1>7 DEF Leave, Refers
  <2>2. dir'[t] = NoVnode /\ res'[t] = res[t] /\ pc[t] = "idle"
    BY <1>2, <1>7 DEF Leave, HandsTyped
  <2> QED
    BY <1>1, <1>3, <1>4, <2>1, <2>2, EndDown DEF Releasing
<1>8. CASE GiveUp(t)
  <2>1. ReturnAfter(t, <<vp[t]>>) /\ Refers(t, vp[t])
    BY <1>8 DEF GiveUp, Refers, At, Held
  <2>2. dir'[t] = dir[t] /\ res'[t] = res[t]
    BY <1>8 DEF GiveUp
  <2> QED
    BY <1>1, <1>3, <1>4, <2>1, <2>2, EndDown DEF Releasing
<1> QED
  BY <1>5, <1>6, <1>7, <1>8

LEMMA RootDown ==
  ASSUME TypeInv, TypeInv', CountInv, DownInv, NEW t \in Threads, Root(t)
  PROVE  DownInv'
<1>1. Steady(t)
  BY RootCalm DEF Calm
<1>2. /\ RootV \in Vnodes /\ RootV \in Alive /\ VN_HOLD(RootV) /\ mount = "mounted"
      /\ pc[t] = "idle" /\ UNCHANGED <<cursor, pc, op, res, vp, todo>> /\ dir'[t] = RootV
  BY AliveTyped DEF Root, TypeInv, StateTyped, HandsTyped, umount
<1>3. \A w \in Vnodes : Twin(w) /\ node'[w].count = node[w].count + Has(w = RootV)
  BY <1>2, HoldTwins
<1>4. \A v \in Alive : v \in Vnodes /\ (v = RootV => \A s \in Threads : ~Secret(s, v))
  BY AliveTyped, SecretNotRoot DEF TypeInv, StateTyped, DownInv
<1>5. \A v \in Alive : node'[v].count = node[v].count \/ \A s \in Threads : ~Secret(s, v)
  <2>1. ASSUME NEW v \in Alive, v # RootV
        PROVE  node'[v].count = node[v].count
    <3>1. node[v].count \in Nat
      BY <1>4, NodeTyped DEF TypeInv, StateTyped
    <3> QED
      BY <1>3, <1>4, <2>1, <3>1 DEF Has
  <2> QED
    BY <1>4, <2>1
<1>6. Descends(t) /\ NoOp.found = NoId /\ NoOp.call = "none"
  BY DEF DownInv, NoOp
<1>7. Keeping(t)
  BY <1>2, <1>6 DEF Keeping, Descends, Held, Fresh, DownInv
<1>8. Looks(t)
  BY <1>2, <1>3, <1>7 DEF Looks, Discards, Releasing, Twin, Same
<1> QED
  BY <1>1, <1>2, <1>5, <1>8, LooksDown

\* An operation goes on and looks for what an entry names.
LEMMA SeeksDown ==
  ASSUME TypeInv, TypeInv', CountInv, DownInv, NEW t \in Threads, Steady(t),
         pc[t] \in {"idle", "find", "list"}, NEW l \in Pcs, NEW o, Go(t, l, o),
         l \notin Fresh \cup Held \cup Releasing \cup {"wild"}, UNCHANGED <<node, cursor, hands>>,
         l = "idle" => o = NoOp,
         \/ o.found \in {op[t].found, NoId}
         \/ dir[t] \in Alive /\ \E n \in Names : o.found = node[dir[t]].entries[n]
  PROVE  DownInv'
<1>1. HandsTyped /\ pc'[t] = l /\ op'[t] = o
  BY DEF TypeInv, HandsTyped, Go
<1>2. Alive' = Alive /\ Alive \subseteq Vnodes /\ UNCHANGED <<dir, res, vp, todo>>
  BY ListedStay DEF Steady, hands
<1>3. Descends(t) /\ \A v \in Vnodes : node[v].id # NoId
  BY Numbers DEF DownInv
<1>4. \A u, w : Before(u, w)' <=> Before(u, w)
  BY DEF Before, Steady
<1>5. vp[t] = NoVnode
  BY <1>3 DEF Descends, Fresh, Held
<1>6. \A v \in Alive : o.found = node[v].id => Before(dir[t], v)
  BY <1>2, <1>3 DEF Descends, DownInv, Ordered
<1>7. dir[t] = NoVnode => o.found = NoId
  BY <1>2, <1>3, ReferredAlive DEF Descends, Vnodes, NoVnode
<1>8. Descends(t)'
  BY <1>1, <1>2, <1>3, <1>4, <1>5, <1>6, <1>7 DEF Descends, Fresh, Held
<1>9. \A v \in Alive : /\ ~Secret(t, v)' /\ ~Discards(t, v)
                       /\ Refers(t, v)' => Refers(t, v)
  BY <1>1, <1>2 DEF Secret, Discards, Refers, Fresh, Held, Releasing
<1> QED
  BY <1>1, <1>2, <1>8, <1>9, SteadyDown

LEMMA SeeksDowns ==
  ASSUME TypeInv, TypeInv', CountInv, DownInv, Downhill, NEW t \in Threads,
         Call(t) \/ iumfs_find_nodeid_by_name(t) \/ iumfs_request_readdir(t)
  PROVE  DownInv'
<1>1. Steady(t)
  BY CallCalm, FindCalm, ListCalm DEF Calm
<1>2. HandsTyped /\ op[t] \in Operation /\ Asking(t) /\ AtWork(t)
  BY DEF TypeInv, HandsTyped
<1>3. {"find", "askMkdir", "list", "noent", "get", "add", "idle"}
        \subseteq Pcs \ (Fresh \cup Held \cup Releasing \cup {"wild"})
  BY DEF Pcs, Fresh, Held, Releasing
<1>4. UNCHANGED <<node, cursor, hands>>
  BY DEF Call, Start, iumfs_find_nodeid_by_name, iumfs_request_readdir, fs, umount
<1>5. CASE Call(t)
  <2>1. PICK c \in AllCalls, n \in Entries : Start(t, c, n)
    BY <1>5 DEF Call, AllCalls, Entries
  <2> DEFINE l == CASE c = "mkdir" -> "askMkdir" [] c = "readdir" -> "list" [] OTHER -> "find"
             o == [NoOp EXCEPT !.call = c, !.name = n]
  <2>2. l \in {"askMkdir", "list", "find"}
    OBVIOUS
  <2>3. o.found = NoId
    BY DEF NoOp
  <2>4. Go(t, l, o) /\ pc[t] = "idle"
    BY <2>1 DEF Start, At
  <2> HIDE DEF l, o
  <2> QED
    BY <1>1, <1>3, <1>4, <2>2, <2>3, <2>4, SeeksDown
<1>6. CASE iumfs_find_nodeid_by_name(t)
  <2> DEFINE id == node[dir[t]].entries[op[t].name]
             o == [op[t] EXCEPT !.found = id]
  <2>1. o.found = id
    BY <1>2 DEF Operation
  <2>2. (Go(t, "noent", o) \/ Go(t, "get", o)) /\ pc[t] = "find"
    BY <1>6 DEF iumfs_find_nodeid_by_name, At
  <2>3. op[t].name \in Names
    BY <1>2, <2>2 DEF Asking, Searching, CountInv, Called, Downhill
  <2>4. dir[t] \in Alive
    BY <1>2, <2>2, ReferredAlive DEF AtWork, Releasing, Vnodes, NoVnode
  <2> HIDE DEF o
  <2> QED
    BY <1>1, <1>3, <1>4, <2>1, <2>2, <2>3, <2>4, SeeksDown
<1>7. CASE iumfs_request_readdir(t)
  <2> DEFINE o == [op[t] EXCEPT !.listed = Children(node[dir[t]].path)]
  <2>1. o.found = op[t].found
    BY <1>2 DEF Operation
  <2>2. (Go(t, "add", o) \/ Goto(t, "idle")) /\ pc[t] = "list"
    BY <1>7 DEF iumfs_request_readdir, At
  <2> HIDE DEF o
  <2>3. CASE Go(t, "add", o)
    BY <1>1, <1>3, <1>4, <2>1, <2>2, <2>3, SeeksDown
  <2>4. CASE Goto(t, "idle")
    <3>1. Go(t, "idle", NoOp) /\ NoOp.found = NoId
      BY <2>4 DEF Goto, NoOp
    <3> QED
      BY <1>1, <1>3, <1>4, <2>2, <3>1, SeeksDown
  <2> QED
    BY <2>2, <2>3, <2>4
<1> QED
  BY <1>5, <1>6, <1>7

\* The vnode of the entry is held.
LEMMA GetDown ==
  ASSUME TypeInv, TypeInv', CountInv, DownInv, Downhill, NEW t \in Threads,
         iumfs_find_vnode_by_nodeid(t)
  PROVE  DownInv'
<1>1. /\ pc[t] = "get" /\ UNCHANGED <<list, umount, dir>>
      /\ \/ Goto(t, "noent") /\ UNCHANGED <<node, res, vp, todo>>
         \/ Found(t) \in Alive /\ node[Found(t)].id = op[t].found /\ Taken(t, Found(t))
  BY Takes
<1>2. Steady(t) /\ UNCHANGED cursor
  BY <1>1, GetCalm DEF Calm, Downhill, umount
<1>3. HandsTyped /\ {"noent", "idle", "askRemove", "giveUp"} \subseteq Pcs
  BY DEF TypeInv, Pcs
<1>4. CASE Goto(t, "noent") /\ UNCHANGED <<node, res, vp, todo>>
  BY <1>1, <1>2, <1>3, <1>4, GoesDown DEF Fresh, Held, Releasing
<1>5. ASSUME NEW v \in Alive, node[v].id = op[t].found, Taken(t, v)
      PROVE  DownInv'
  <2>1. v \in Vnodes /\ VN_HOLD(v) /\ Alive' = Alive /\ Alive \subseteq Vnodes
    BY <1>1, <1>5, AliveTyped, ListedStay DEF TypeInv, StateTyped, Taken
  <2>2. \A w \in Vnodes : Twin(w) /\ node'[w].count = node[w].count + Has(w = v)
    BY <2>1, HoldTwins
  <2>3. Descends(t) /\ vp[t] = NoVnode
    BY <1>1 DEF DownInv, Descends, Fresh, Held
  <2>4. op[t].call \in {"lookup", "create", "remove"}
    BY <1>1 DEF TypeInv, Asking, Searching, CountInv, Called, Downhill, OwnGivenOnce
  <2>5. Before(dir[t], v) /\ dir[t] # NoVnode
    BY <1>1, <1>5, <2>3 DEF Descends, TypeInv, AtWork, Releasing, Vnodes, NoVnode
  <2>6. \A s \in Threads : ~Secret(s, v)
    BY <1>5 DEF DownInv, KeepsSecret, Unknown
  <2>7. \A w \in Alive : node'[w].count = node[w].count \/ \A s \in Threads : ~Secret(s, w)
    <3>1. ASSUME NEW w \in Alive, w # v
          PROVE  node'[w].count = node[w].count
      <4>1. node[w].count \in Nat
        BY <2>1, NodeTyped DEF TypeInv, StateTyped
      <4> QED
        BY <2>1, <2>2, <3>1, <4>1 DEF Has
    <3> QED
      BY <2>6, <3>1
  <2>8. \A w \in Alive : ~Discards(t, w)
    BY <1>1 DEF Discards, Releasing
  <2>9. CASE Return(t, v) /\ UNCHANGED todo
    <3>1. pc'[t] = "idle" /\ op'[t] = NoOp /\ res'[t] = v /\ vp'[t] = NoVnode /\ NoOp.found = NoId
      BY <1>3, <2>9, GotoMoves DEF Return, HandsTyped, NoOp
    <3>2. \A w \in Vnodes : Refers(t, w)' => Refers(t, w) \/ w = v
      BY <1>1, <2>9, <3>1 DEF Refers, Held
    <3>3. Keeping(t)
      BY <1>1, <3>1 DEF Keeping, Held, Fresh, Releasing
    <3>4. Looks(t)
      BY <1>2, <2>2, <2>8, <3>1, <3>3 DEF Looks, Twin, Same, Releasing
    <3> QED
      BY <1>2, <2>1, <2>5, <2>7, <3>2, <3>4, LooksDown
  <2>10. ASSUME NEW l \in {"askRemove", "giveUp"}, Goto(t, l), op[t].call = "remove",
                l = "askRemove" => node[v].type = "file",
                vp' = [vp EXCEPT ![t] = v], UNCHANGED <<res, todo>>
         PROVE  DownInv'
    <3>1. pc'[t] = l /\ op'[t] = op[t] /\ vp'[t] = v
      BY <1>3, <2>10, GotoMoves DEF HandsTyped
    <3>2. \A w \in Vnodes : Refers(t, w)' => Refers(t, w) \/ w = v
      BY <1>1, <2>10, <3>1 DEF Refers, Held
    <3>3. \A w : ~Secret(t, w)'
      BY <3>1 DEF Secret, Discards, Releasing
    <3>4. \A w \in Vnodes : /\ node'[w].id = node[w].id /\ node'[w].type = node[w].type
                            /\ \A n \in Names : node'[w].entries[n] = node[w].entries[n]
      BY <2>2 DEF Twin, Same
    <3>5. \A u, w : Before(u, w)' <=> Before(u, w)
      BY <1>1 DEF Before
    <3>6. dir[t] \in Vnodes /\ dir[t] # NoVnode
      BY <1>1 DEF TypeInv, AtWork, Releasing, Vnodes, NoVnode
    <3>7. pc'[t] \in {"askRemove", "unlink"} => node'[vp'[t]].type = "file"
      BY <2>1, <2>10, <3>1, <3>4
    <3>8. \A w \in Alive' : op'[t].found = node'[w].id => Before(dir[t], w)'
      BY <1>1, <2>1, <2>3, <3>1, <3>4, <3>5 DEF Descends
    <3>9. node'[dir'[t]].type = "dir" /\ Before(dir[t], vp[t])'
      BY <1>1, <2>3, <2>5, <3>1, <3>4, <3>5, <3>6 DEF Descends
    <3>10. /\ pc'[t] \notin {"idle", "link", "empty", "askRmdir"} \cup Releasing
           /\ pc'[t] \in Held /\ op'[t].call = "remove"
      BY <2>10, <3>1 DEF Held, Releasing
    <3>11. Descends(t)'
      BY <1>1, <3>6, <3>7, <3>8, <3>9, <3>10 DEF Descends
    <3>12. node[vp'[t]].id = op[t].found /\ op'[t].found = op[t].found
      BY <1>5, <3>1
    <3> QED
      BY <1>2, <2>1, <2>5, <2>7, <2>8, <3>2, <3>3, <3>4, <3>12, <3>11, SteadyDown
  <2> QED
    BY <1>5, <2>4, <2>9, <2>10 DEF Taken
<1> QED
  BY <1>1, <1>4, <1>5

\* A request ends in one of two steps, or is sent again.
LEMMA AskGoes ==
  ASSUME HandsTyped, NEW t \in Threads, NEW kind, NEW p, NEW ok, NEW failed,
         Ask(t, kind, p, ok, failed), pc[t] # "idle"
  PROVE  \E l \in {pc[t], ok, failed} : Goto(t, l)
<1>1. CASE UNCHANGED <<pc, op>>
  <2>1. Goto(t, pc[t])
    BY <1>1 DEF Goto, Go, HandsTyped
  <2> QED
    BY <2>1
<1> QED
  BY <1>1, Asked

\* The steps that only choose the next step.
LEMMA WaysDown ==
  ASSUME TypeInv, TypeInv', CountInv, DownInv, Downhill, NEW t \in Threads,
         \/ NotCached(t) \/ AskLookup(t) \/ AllocFails(t)
         \/ AskCreate(t) \/ AskMkdir(t) \/ AskRemove(t)
  PROVE  DownInv'
<1>1. HandsTyped
  BY DEF TypeInv
<1>2. UNCHANGED <<node, cursor, dir, res, vp, todo>>
  BY DEF NotCached, AskLookup, AllocFails, AskCreate, AskMkdir, AskRemove, fs, umount, hands
<1>3. {"askLookup", "idle", "askCreate", "allocDir", "allocFile", "allocNew", "askMkdir",
       "askRemove", "unlink", "giveUp"} \subseteq Pcs
  BY DEF Pcs
<1>4. ASSUME pc[t] \in {"noent", "askLookup", "allocFile", "allocNew", "askCreate", "askMkdir"},
             Steady(t), NEW l, Goto(t, l),
             l \in {"askLookup", "idle", "askCreate", "allocDir", "allocFile", "allocNew", "askMkdir"}
      PROVE  DownInv'
  BY <1>2, <1>3, <1>4, GoesDown DEF Fresh, Held, Releasing
<1>5. CASE NotCached(t)
  BY <1>4, <1>5, NotCachedCalm DEF Calm, NotCached, At
<1>6. CASE AskLookup(t)
  BY <1>4, <1>6, AskLookupCalm DEF Calm, AskLookup, At, LookupFailed, Downhill
<1>7. CASE AllocFails(t)
  BY <1>4, <1>7, AllocFailsCalm DEF Calm, AllocFails, At, LookupFailed, Downhill
<1>8. CASE AskCreate(t)
  <2>1. pc[t] = "askCreate" /\ \E l \in {pc[t], "allocNew", "idle"} : Goto(t, l)
    BY <1>1, <1>8, AskGoes DEF AskCreate, At
  <2> QED
    BY <1>4, <1>8, <2>1, AskMakeCalm DEF Calm
<1>9. CASE AskMkdir(t)
  <2>1. pc[t] = "askMkdir" /\ \E l \in {pc[t], "allocDir", "idle"} : Goto(t, l)
    BY <1>1, <1>9, AskGoes DEF AskMkdir, At
  <2> QED
    BY <1>4, <1>9, <2>1, AskMakeCalm DEF Calm
<1>10. CASE AskRemove(t)
  <2>1. PICK l \in Pcs : Removing(t, l)
    BY <1>10, AskRemoves
  <2>2. pc[t] = "askRemove" /\ l \in {"askRemove", "unlink", "giveUp"} /\ Goto(t, l)
    BY <1>10, <2>1 DEF Removing, AskRemove, At
  <2>3. Permitted(l)
    BY <2>2 DEF CountInv, Called, Permitted
  <2>4. Going(t, l)
    BY <2>1, <2>2, <2>3 DEF Removing, Going, Held, Fresh, Making, Searching
  <2>5. Steady(t)
    BY <2>4, GoesSteadily
  <2> QED
    BY <1>2, <2>2, <2>5, GoesDown DEF Fresh, Held, Releasing
<1> QED
  BY <1>5, <1>6, <1>7, <1>8, <1>9, <1>10

\* Nobody is in iumfs_rmdir.
LEMMA NotEmptied ==
  ASSUME DownInv, NEW t \in Threads
  PROVE  ~iumfs_dir_is_empty(t) /\ ~AskRmdir(t)
  BY DEF DownInv, Descends, iumfs_dir_is_empty, AskRmdir, At

\* A thread that holds no vnode strays.
LEMMA StrayDown ==
  ASSUME TypeInv, TypeInv', CountInv, DownInv, NEW t \in Threads, Stray(t)
  PROVE  DownInv'
<1>1. Steady(t)
  BY StrayCalm DEF Calm
<1>2. /\ pc[t] \notin {"idle", "wild"} /\ Goto(t, "wild") /\ "wild" \in Pcs
      /\ UNCHANGED <<node, cursor, dir, res, vp, todo>>
  BY DEF Stray, fs, umount, hands, Pcs
<1>3. vp[t] # NoVnode /\ vp[t] \notin Alive
  BY ReferredAlive DEF Stray, Touched
<1>4. pc[t] \in Fresh
  BY <1>2, <1>3, ReferredAlive DEF DownInv, Descends
<1> QED
  BY <1>1, <1>2, <1>4, GoesDown DEF Fresh, Held, Releasing

\* The listed names get numbers that nobody has.
LEMMA AddDown ==
  ASSUME TypeInv, TypeInv', CountInv, DownInv, NEW t \in Threads, AddListed(t)
  PROVE  DownInv'
<1>1. Steady(t)
  BY AddCalm DEF Calm
<1>2. /\ pc[t] = "add" /\ UNCHANGED <<cursor, dir, res, vp, todo>> /\ Descends(t)
      /\ HandsTyped /\ op[t] \in Operation /\ "add" \in Pcs /\ "idle" \in Pcs
  BY DEF AddListed, At, umount, hands, DownInv, TypeInv, HandsTyped, Pcs
<1>3. dir[t] \in Vnodes
  BY <1>2 DEF TypeInv, AtWork, Releasing
<1>4. ASSUME NEW v \in Vnodes
      PROVE  /\ node'[v].type = node[v].type /\ node'[v].count = node[v].count
             /\ node'[v].id = node[v].id
             /\ \A n \in Names : \/ node'[v].entries[n] = node[v].entries[n]
                                 \/ \A w \in Alive : node[w].id # node'[v].entries[n]
  <2>1. CASE UNCHANGED node
    BY <2>1
  <2>2. ASSUME NEW n \in Names, FreshId # {}, node[dir[t]].entries[n] = NoId,
               node' = iumfs_add_entry_to_dir(dir[t], n, Min(FreshId))
        PROVE  /\ node'[v].type = node[v].type /\ node'[v].count = node[v].count
               /\ node'[v].id = node[v].id
               /\ \A m \in Names : \/ node'[v].entries[m] = node[v].entries[m]
                                   \/ \A w \in Alive : node[w].id # node'[v].entries[m]
    <3>1. Min(FreshId) \in FreshId
      BY <2>2, MinOfNat DEF FreshId, NodeIds
    <3>2. \A w \in Alive : node[w].id # Min(FreshId)
      BY <3>1 DEF FreshId
    <3>3. EntryIs(dir[t], n, Min(FreshId))
      BY <1>3, <2>2, EntryChanges DEF iumfs_add_entry_to_dir
    <3> QED
      BY <3>2, <3>3 DEF EntryIs
  <2>3. op[t].listed \subseteq Names
    BY <1>2 DEF Operation
  <2> QED
    BY <2>1, <2>2, <2>3 DEF AddListed
<1>5. \/ pc'[t] = "add" /\ op'[t].call = op[t].call /\ op'[t].found = op[t].found
      \/ pc'[t] = "idle" /\ op'[t] = NoOp
  <2>1. CASE Goto(t, "idle")
    BY <1>2, <2>1, GotoMoves
  <2>2. ASSUME NEW n, Go(t, "add", [op[t] EXCEPT !.listed = @ \ {n}])
        PROVE  pc'[t] = "add" /\ op'[t].call = op[t].call /\ op'[t].found = op[t].found
    BY <1>2, <2>2 DEF Go, HandsTyped, Operation
  <2> QED
    BY <2>1, <2>2 DEF AddListed
<1>6. NoOp.found = NoId
  BY DEF NoOp
<1>7. Keeping(t)
  BY <1>2, <1>5, <1>6 DEF Keeping, Descends, Fresh, Held, Releasing
<1>8. Descends(t)'
  BY <1>1, <1>4, <1>7, KeepingDescends DEF Steady
<1>9. \A v \in Alive : /\ ~Secret(t, v)' /\ ~Discards(t, v) /\ v \in Vnodes
                       /\ Refers(t, v)' => Refers(t, v)
  BY <1>2, <1>5, AliveTyped DEF Secret, Discards, Refers, Held, Releasing, TypeInv, StateTyped
<1>10. op'[t].found \in {op[t].found, NoId}
  BY <1>5, <1>6
<1> QED
  BY <1>1, <1>2, <1>4, <1>8, <1>9, <1>10, SteadyDown

-----------------------------------------------------------------------------
(***************************************************************************)
(* Naming, entering and releasing.                                         *)
(***************************************************************************)
\* The maker gets the vnode.
LEMMA RefDown ==
  ASSUME TypeInv, TypeInv', CountInv, DownInv, Downhill, NEW t \in Threads, Ref(t)
  PROVE  DownInv'
<1>1. Steady(t)
  BY RefCalm DEF Calm, Downhill
<1> DEFINE v == vp[t]
<1>2. /\ pc[t] = "ref" /\ VN_HOLD(v) /\ UNCHANGED <<list, cursor, dir>> /\ HandsTyped
      /\ "idle" \in Pcs /\ op[t].call # "createExcl" /\ v \in Vnodes /\ dir[t] # NoVnode
  BY DEF Ref, At, umount, TypeInv, Pcs, AtWork, Fresh, Releasing, Vnodes, NoVnode, CountInv,
         Called, Downhill, OwnGivenOnce
<1>3. v \in Alive /\ Alive \subseteq Vnodes
  BY <1>2, AliveTyped DEF Ref, At, Touched, Vnodes, NoVnode, TypeInv, StateTyped
<1>4. Return(t, v) /\ UNCHANGED todo
  BY <1>2 DEF Ref
<1>5. pc'[t] = "idle" /\ op'[t] = NoOp /\ res'[t] = v /\ vp'[t] = NoVnode /\ NoOp.found = NoId
  BY <1>2, <1>4, GotoMoves DEF Return, HandsTyped, NoOp
<1>6. \A w \in Vnodes : Refers(t, w)' => Refers(t, w) \/ w = v
  BY <1>2, <1>4, <1>5 DEF Refers, Held
<1>7. Before(dir[t], v)
  BY <1>2, <1>3 DEF DownInv, Descends, Fresh
<1>8. \A w \in Vnodes : Twin(w) /\ node'[w].count = node[w].count + Has(w = v)
  BY <1>2, HoldTwins
<1>9. \A s \in Threads : ~Secret(s, v)
  BY <1>2, <1>3 DEF DownInv, KeepsSecret, Secret, Discards, Releasing
<1>10. \A w \in Alive : node'[w].count = node[w].count \/ \A s \in Threads : ~Secret(s, w)
  <2>1. ASSUME NEW w \in Alive, w # v
        PROVE  node'[w].count = node[w].count
    <3>1. node[w].count \in Nat
      BY <1>3, NodeTyped DEF TypeInv, StateTyped
    <3> QED
      BY <1>3, <1>8, <2>1, <3>1 DEF Has
  <2> QED
    BY <1>9, <2>1
<1>11. Keeping(t)
  BY <1>2, <1>5 DEF Keeping, Held, Fresh, Releasing
<1>12. Looks(t)
  BY <1>2, <1>5, <1>8, <1>11 DEF Looks, Twin, Same, Releasing, Discards
<1> QED
  BY <1>1, <1>2, <1>3, <1>6, <1>7, <1>10, <1>12, LooksDown

\* The vnode gets its path.
LEMMA SetNameDown ==
  ASSUME TypeInv, TypeInv', CountInv, DownInv, NEW t \in Threads, SetName(t)
  PROVE  DownInv'
<1>1. Named(t)
  BY SetNameSteady
<1>2. /\ Steady(t) /\ pc[t] = "name" /\ op'[t] = op[t] /\ UNCHANGED <<cursor, dir, res, vp, todo>>
      /\ Descends(t) /\ pc'[t] = IF op[t].found = NoId THEN "link" ELSE "ref"
  BY <1>1 DEF Named, SetName, Goto, Go, umount, DownInv, TypeInv, HandsTyped
<1>3. ASSUME NEW w \in Vnodes
      PROVE  node'[w].type = node[w].type
  <2>1. node[w] \in NodeRecords /\ node[w].type = node[w].type
    BY DEF TypeInv, StateTyped
  <2>2. \/ node'[w] = node[w]
        \/ \E p : node'[w] = [node[w] EXCEPT !.path = p]
    BY DEF SetName, TypeInv, StateTyped
  <2> QED
    BY <2>1, <2>2 DEF NodeRecords
<1>4. \A w \in Vnodes : /\ node'[w].id = node[w].id /\ node'[w].count = node[w].count
                        /\ \A n \in Names : node'[w].entries[n] = node[w].entries[n]
  BY <1>1 DEF Named
<1>5. Keeping(t)
  BY <1>2 DEF Keeping, Fresh, Held, Releasing
<1>6. Descends(t)'
  BY <1>2, <1>3, <1>4, <1>5, KeepingDescends DEF Steady
<1>7. \A v \in Alive : /\ v \in Vnodes /\ ~Discards(t, v)
                       /\ Refers(t, v)' => Refers(t, v)
                       /\ Secret(t, v)' => Secret(t, v)
  BY <1>2, AliveTyped DEF Secret, Discards, Refers, Held, Releasing, TypeInv, StateTyped
<1>8. op'[t].found = op[t].found /\ vp'[t] = vp[t] /\ dir'[t] = dir[t]
  BY <1>2
<1> QED
  BY <1>2, <1>3, <1>4, <1>6, <1>7, <1>8, SteadyDown

\* The new directory gets its "..", or the thread goes wild.
LEMMA AddDotsDown ==
  ASSUME TypeInv, TypeInv', CountInv, DownInv, NEW t \in Threads, AddDots(t)
  PROVE  DownInv'
<1>1. /\ Steady(t) /\ pc[t] = "dots" /\ op'[t] = op[t] /\ UNCHANGED <<cursor, dir, res, vp, todo>>
      /\ Descends(t) /\ pc'[t] \in {"name", "wild"} /\ UNCHANGED list
      /\ \A w \in Vnodes : /\ node'[w].id = node[w].id /\ node'[w].count = node[w].count
                           /\ node'[w].type = node[w].type
                           /\ \A n \in Names : node'[w].entries[n] = node[w].entries[n]
  BY AddDotsCalm, AddDotsIs DEF Calm, umount, DownInv
<1>2. Keeping(t)
  BY <1>1 DEF Keeping, Fresh, Held, Releasing
<1>3. Descends(t)'
  BY <1>1, <1>2, KeepingDescends
<1>4. \A v \in Alive : /\ v \in Vnodes /\ ~Discards(t, v)
                       /\ Refers(t, v)' => Refers(t, v)
                       /\ Secret(t, v)' => Secret(t, v)
  BY <1>1, AliveTyped DEF Secret, Discards, Refers, Held, Releasing, TypeInv, StateTyped
<1>5. op'[t].found = op[t].found /\ vp'[t] = vp[t] /\ dir'[t] = dir[t]
  BY <1>1
<1> QED
  BY <1>1, <1>3, <1>4, <1>5, SteadyDown

\* The entry is made, or is there.
LEMMA LinkedDown ==
  ASSUME TypeInv, TypeInv', CountInv, DownInv, NEW t \in Threads, At(t, "link"),
         node' = iumfs_add_entry_to_dir(dir[t], op[t].name, node[vp[t]].id),
         Goto(t, "ref"), UNCHANGED <<disk, list, umount, dir, res, vp, todo>>
  PROVE  DownInv'
<1> DEFINE v == vp[t]
           d == dir[t]
           n == op[t].name
<1>1. Steady(t)
  BY LinkedCalm DEF Calm, umount
<1>2. /\ pc[t] = "link" /\ UNCHANGED cursor /\ HandsTyped /\ Descends(t) /\ "ref" \in Pcs
      /\ d \in Vnodes /\ v \in Vnodes /\ op[t].call \notin {"none", "dotdot", "readdir"}
  BY DEF At, umount, TypeInv, DownInv, Pcs, AtWork, Fresh, Releasing, Asking, Making
<1>3. n \in Names /\ op[t].found = NoId
  BY <1>2 DEF TypeInv, Asking, Descends
<1>4. v \in Alive /\ Alive \subseteq Vnodes
  BY <1>2, AliveTyped DEF At, Touched, Vnodes, NoVnode, TypeInv, StateTyped
<1>5. pc'[t] = "ref" /\ op'[t] = op[t]
  BY <1>2, GotoMoves
<1>6. Secret(t, v) /\ Before(d, v)
  BY <1>2, <1>3, <1>4 DEF Secret, Descends, Fresh
<1>7. Unknown(v) /\ \A s \in Threads \ {t} : ~Secret(s, v)
  BY <1>2, <1>4, <1>6 DEF DownInv, KeepsSecret
<1>8. /\ \A w \in Vnodes : /\ node'[w].id = node[w].id /\ node'[w].count = node[w].count
                           /\ node'[w].type = node[w].type
      /\ \A w \in Vnodes, m \in Names :
           \/ node'[w].entries[m] = node[w].entries[m]
           \/ w = d /\ node'[w].entries[m] = node[v].id
  <2>1. CASE node[d].entries[n] = NoId
    <3>1. EntryIs(d, n, node[v].id)
      BY <1>2, <1>3, <2>1, EntryChanges DEF iumfs_add_entry_to_dir
    <3> QED
      BY <3>1 DEF EntryIs
  <2>2. CASE node[d].entries[n] # NoId
    BY <2>2 DEF iumfs_add_entry_to_dir
  <2> QED
    BY <2>1, <2>2
<1>9. Others(t) /\ \A w : ~Secret(t, w)'
  BY <1>1, <1>5 DEF Steady, Secret, Discards, Releasing
<1>10. \A s \in Threads : ~Secret(s, v)'
  BY <1>7, <1>9 DEF Others, Secret, Discards
<1>11. \A w \in Alive, m \in Names :
         \/ node'[w].entries[m] = node[w].entries[m]
         \/ \A u \in Alive : node[u].id = node'[w].entries[m] =>
              Before(w, u) /\ \A s \in Threads : ~Secret(s, u)'
  BY <1>4, <1>6, <1>7, <1>8, <1>10 DEF Unknown
<1>12. Keeping(t)
  BY <1>2, <1>5 DEF Keeping, Fresh, Held, Releasing
<1>13. Descends(t)'
  BY <1>8, <1>12, KeepingDescends
<1>14. \A w \in Alive : ~Discards(t, w) /\ (Refers(t, w)' => Refers(t, w))
  BY <1>2, <1>5 DEF Discards, Refers, Held, Releasing
<1> QED
  BY <1>1, <1>2, <1>4, <1>5, <1>8, <1>9, <1>11, <1>13, <1>14, SteadyDown

\* create and mkdir give the new vnode back.
LEMMA GivenBackDown ==
  ASSUME TypeInv, TypeInv', CountInv, DownInv, Downhill, NEW t \in Threads, At(t, "link"),
         op[t].call \in {"new", "mkdir"}, ReturnAfter(t, <<vp[t]>>),
         UNCHANGED <<disk, list, node, umount, dir, res>>
  PROVE  DownInv'
<1>1. PICK v \in Vnodes : v = vp[t] /\ GivingBack(t, v)
  <2>1. GivingBack(t, vp[t]) /\ vp[t] \in Vnodes
    BY LinkGivesBack DEF Downhill, umount, At, TypeInv, AtWork, Fresh
  <2> QED
    BY <2>1
<1>2. /\ pc[t] = "link" /\ HandsTyped /\ Descends(t) /\ "rele" \in Pcs
      /\ v \in Alive /\ Others(t) /\ dir[t] # NoVnode
  BY <1>1 DEF At, TypeInv, DownInv, Pcs, AtWork, GivingBack, Releasing, Vnodes, NoVnode
<1>3. pc'[t] = "rele" /\ op'[t] = op[t] /\ todo'[t] = <<v>> /\ vp'[t] = NoVnode
  BY <1>1, <1>2, GotoMoves DEF ReturnAfter, HandsTyped
<1>4. Alive \subseteq Vnodes /\ \A w \in Vnodes : node[w].id # NoId
  BY AliveTyped, Numbers DEF TypeInv, StateTyped
<1>5. ASSUME NEW w \in Vnodes
      PROVE  (Owned(w)' => Owned(w)) /\ (w # v => (Owned(w) => Owned(w)'))
  <2>1. /\ References(w) \in Nat /\ References(w)' \in Nat
        /\ Mine(t, w) \in Nat /\ Mine(t, w)' \in Nat
        /\ References(w)' = References(w) - Mine(t, w) + Mine(t, w)'
    BY <1>2, RefsStep
  <2>2. Mine(t, w)' = Mine(t, w) + Has(w = v) /\ node'[w].count = node[w].count /\ Owned(v)
    BY <1>1 DEF GivingBack
  <2> QED
    BY <2>1, <2>2 DEF Has, Owned
<1>6. Discards(t, v)'
  BY <1>3 DEF Discards, Releasing
<1>7. Secret(t, v) /\ op[t].found = NoId /\ Before(dir[t], v)
  BY <1>1, <1>2 DEF Secret, Descends, Fresh
<1>8. \A w \in Alive : /\ ~Discards(t, w)
                       /\ Secret(t, w)' => w = v
                       /\ Refers(t, w)' => Refers(t, w) \/ w = v
  <2>1. \A i \in DOMAIN todo'[t] : todo'[t][i] = v
    BY <1>3
  <2> QED
    BY <1>2, <1>3, <2>1 DEF Discards, Secret, Refers, Releasing, Held
<1>9. Len(todo'[t]) = 1
  BY <1>3
<1>10. Keeping(t)
  BY <1>2, <1>3, <1>9 DEF Keeping, Fresh, Held, Releasing
<1>11. Descends(t)'
  BY <1>10, KeepingDescends
<1>12. \A s \in Threads, w \in Alive : Secret(s, w) => op'[t].found # node[w].id /\ vp'[t] # w
  BY <1>3, <1>4, <1>7 DEF Vnodes, NoVnode
<1>13. Stays(t)
  BY <1>2, <1>4, <1>5, <1>6, <1>7, <1>8, <1>11, <1>12 DEF Stays, umount
<1> QED
  BY <1>13, DownStays

LEMMA LinkDown ==
  ASSUME TypeInv, TypeInv', CountInv, DownInv, Downhill, NEW t \in Threads, Link(t)
  PROVE  DownInv'
<1>1. /\ At(t, "link") /\ UNCHANGED <<disk, list, umount, dir, res>>
      /\ {"idle", "askCreate"} \subseteq Pcs /\ HandsTyped
  BY DEF Link, Pcs, TypeInv
<1>2. CASE /\ node' = iumfs_add_entry_to_dir(dir[t], op[t].name, node[vp[t]].id)
           /\ Goto(t, "ref") /\ UNCHANGED <<vp, todo>>
  BY <1>1, <1>2, LinkedDown
<1>3. CASE UNCHANGED node /\ op[t].call \in {"new", "mkdir"} /\ ReturnAfter(t, <<vp[t]>>)
  BY <1>1, <1>3, GivenBackDown
<1>4. CASE /\ UNCHANGED node /\ Goto(t, LookupFailed(t)) /\ vp' = [vp EXCEPT ![t] = NoVnode]
           /\ UNCHANGED todo
  <2>1. \A s \in Threads : s # t => vp'[s] = vp[s]
    BY <1>4
  <2>2. Steady(t) /\ pc[t] = "link" /\ vp'[t] = NoVnode
    BY <1>1, <1>4, <2>1, FailsCalmly DEF Calm, Downhill, At, umount, HandsTyped
  <2>3. LookupFailed(t) \in {"idle", "askCreate"} /\ UNCHANGED <<node, cursor, dir, res, todo>>
    BY <1>1, <1>4 DEF LookupFailed, umount
  <2> QED
    BY <1>1, <1>4, <2>2, <2>3, GoesDown DEF Fresh, Held, Releasing
<1> QED
  BY <1>2, <1>3, <1>4 DEF Link

\* One of several references goes.
LEMMA DropsDown ==
  ASSUME TypeInv, TypeInv', CountInv, DownInv, NEW t \in Threads, pc[t] \in Releasing,
         ReleaseDone(t), NEW v \in Alive, v = Head(todo[t]), node[v].count > 1, Drop(v),
         UNCHANGED <<disk, list, umount, dir, res, vp>>
  PROVE  DownInv'
<1>1. Steady(t)
  BY DropsCalmly DEF Calm, umount
<1>2. /\ v \in Vnodes /\ Alive \subseteq Vnodes /\ Descends(t) /\ NoOp.found = NoId
      /\ HandsTyped /\ {"idle", "rele"} \subseteq Pcs /\ UNCHANGED cursor
  BY AliveTyped DEF TypeInv, StateTyped, DownInv, NoOp, Pcs, umount
<1>3. /\ todo[t] \in Seq(Vnodes) /\ todo[t] # <<>> /\ Len(todo[t]) =< 2
      /\ todo'[t] = Tail(todo[t])
  BY <1>2 DEF HandsTyped, TypeInv, AtWork, ReleaseDone
<1>4. \A i \in DOMAIN todo'[t] : i + 1 \in DOMAIN todo[t] /\ todo'[t][i] = todo[t][i + 1]
  BY <1>3
<1>5. /\ Goto(t, IF Len(todo[t]) = 1 THEN "idle" ELSE "rele")
      /\ pc'[t] = IF Len(todo[t]) = 1 THEN "idle" ELSE "rele"
      /\ op'[t] = IF Len(todo[t]) = 1 THEN NoOp ELSE op[t]
  BY <1>2, GotoMoves DEF ReleaseDone
<1>6. \A s \in Threads : ~Secret(s, v)
  BY DEF DownInv, KeepsSecret
<1>7. op[t].call \notin {"new", "mkdir"}
  <2>1. ASSUME op[t].call \in {"new", "mkdir"}
        PROVE  Discards(t, v)
    <3>1. Len(todo[t]) = 1
      BY <1>2, <2>1 DEF Descends
    <3>2. todo[t] = <<v>>
      BY <1>3, <3>1
    <3> QED
      BY <2>1, <3>2 DEF Discards
  <2> QED
    BY <1>6, <2>1 DEF Secret
<1>8. \A w : Refers(t, w)' => Refers(t, w)
  BY <1>4, <1>5 DEF Refers, Held
<1>9. \A w \in Vnodes : Twin(w) /\ node'[w].count + Has(w = v) = node[w].count
  BY <1>2, DropTwins
<1>10. \A w \in Alive : node'[w].count = node[w].count \/ \A s \in Threads : ~Secret(s, w)
  <2>1. ASSUME NEW w \in Alive, w # v
        PROVE  node'[w].count = node[w].count
    <3>1. node[w].count \in Nat /\ node'[w].count \in Nat
      BY <1>2, NodeTyped DEF TypeInv, StateTyped
    <3> QED
      BY <1>2, <1>9, <2>1, <3>1 DEF Has
  <2> QED
    BY <1>6, <2>1
<1>11. Keeping(t)
  BY <1>2, <1>5, <1>7 DEF Keeping, Descends, Held, Fresh, Releasing
<1>12. Looks(t)
  <2>1. vp'[t] = vp[t] /\ \A w : ~Discards(t, w)
    BY <1>7 DEF Discards
  <2>2. pc'[t] \notin {"dots", "name", "link"} /\ op'[t].call \notin {"new", "mkdir"}
    BY <1>5, <1>7 DEF NoOp
  <2> QED
    BY <1>2, <1>9, <1>11, <2>1, <2>2 DEF Looks, Twin, Same
<1> QED
  BY <1>1, <1>2, <1>8, <1>10, <1>12, LooksDown

LEMMA ReleDown ==
  ASSUME TypeInv, TypeInv', CountInv, DownInv, NEW t \in Threads, VN_RELE(t)
  PROVE  DownInv'
<1>1. /\ pc[t] = "rele" /\ UNCHANGED <<disk, list, umount, dir, res, vp>>
      /\ Head(todo[t]) \in Alive
  BY HeadListed DEF VN_RELE, At, Releasing
<1>2. CASE node[Head(todo[t])].count > 1 /\ Drop(Head(todo[t])) /\ ReleaseDone(t)
  BY <1>1, <1>2, DropsDown DEF Releasing
<1>3. CASE Goto(t, "inactive") /\ UNCHANGED <<node, todo>>
  <2>1. Steady(t) /\ UNCHANGED <<cursor, dir, vp, todo>> /\ Descends(t)
    BY <1>1, <1>3, ReleCalm DEF Calm, umount, DownInv
  <2>2. pc'[t] = "inactive" /\ op'[t] = op[t]
    BY <1>3, GotoMoves DEF TypeInv, Pcs
  <2>3. Keeping(t)
    BY <1>1, <2>1, <2>2 DEF Keeping, Descends, Fresh, Held, Releasing
  <2>4. Descends(t)'
    BY <1>1, <1>3, <2>3, KeepingDescends
  <2>5. \A v \in Alive : /\ Discards(t, v) => Discards(t, v)'
                         /\ Refers(t, v)' => Refers(t, v)
                         /\ Secret(t, v)' => Secret(t, v) /\ dir'[t] = dir[t]
    BY <1>1, <2>1, <2>2, <1>3 DEF Discards, Refers, Secret, Held, Releasing
  <2>6. op'[t].found = op[t].found /\ vp'[t] = vp[t]
    BY <2>1, <2>2
  <2> QED
    BY <1>3, <2>1, <2>4, <2>5, <2>6, SteadyDown
<1> QED
  BY <1>2, <1>3 DEF VN_RELE

\* remove goes on to its releases, and the file loses the reference of its own.
LEMMA UnlinkDown ==
  ASSUME TypeInv, TypeInv', CountInv, DownInv, NEW t \in Threads, iumfs_remove_entry_from_dir(t)
  PROVE  DownInv'
<1>1. PICK v \in Vnodes : v = vp[t]
  BY DEF iumfs_remove_entry_from_dir, At, TypeInv, AtWork, Held
<1>2. /\ pc[t] = "unlink" /\ ReturnAfter(t, <<v, v>>) /\ UNCHANGED <<disk, list, umount, dir, res>>
      /\ HandsTyped /\ Descends(t) /\ v \in Alive
  BY <1>1, ReferredAlive DEF iumfs_remove_entry_from_dir, At, Released, TypeInv, DownInv, Held
<1>3. op[t].call = "remove" /\ "remove" \in Calls /\ node[v].type = "file" /\ dir[t] \in Vnodes
  BY <1>1, <1>2 DEF Descends, Held, CountInv, Called, TypeInv, AtWork, Releasing
<1>4. op[t].name \in Names
  BY <1>3 DEF TypeInv, Asking
<1>5. /\ pc'[t] = "rele" /\ op'[t] = op[t] /\ todo'[t] = <<v, v>> /\ vp'[t] = NoVnode
      /\ \A w \in Vnodes : Refers(t, w)' => Refers(t, w)
  <2>1. \A i \in DOMAIN <<v, v>> : Refers(t, <<v, v>>[i])
    BY <1>1, <1>2 DEF Refers, Held
  <2>2. dir'[t] \in {dir[t], res[t], NoVnode} /\ res'[t] \in {res[t], NoVnode}
    BY <1>2
  <2> QED
    BY <1>2, <2>1, <2>2, ReturnRefers
<1>6. /\ \A w \in Vnodes : /\ node'[w].id = node[w].id /\ node'[w].count = node[w].count
                           /\ node'[w].type = node[w].type
      /\ \A w \in Vnodes, m \in Names : node'[w].entries[m] \in {node[w].entries[m], NoId}
  <2>1. CASE UNCHANGED node
    BY <2>1
  <2>2. CASE node' = [node EXCEPT ![dir[t]].entries[op[t].name] = NoId]
    <3>1. EntryIs(dir[t], op[t].name, NoId)
      BY <1>3, <1>4, <2>2, EntryChanges
    <3> QED
      BY <3>1 DEF EntryIs
  <2> QED
    BY <2>1, <2>2 DEF iumfs_remove_entry_from_dir
<1>7. Others(t)
  BY <1>2 DEF Others, ReturnAfter, Goto, Go, HandsTyped
<1>8. \A w \in Vnodes : Mine(t, w) \in Nat /\ Mine(t, w)' = Mine(t, w) + Has(w = v)
  <2>1. ASSUME NEW w \in Vnodes
        PROVE  Mine(t, w) \in Nat /\ Mine(t, w)' = Mine(t, w) + Has(w = v)
    <3>1. Mine(t, w) = Has(dir[t] = w) + Has(res[t] = w) + Has(v = w)
      BY <1>1, <1>2, MineIs DEF Held, Releasing, Has
    <3>2. Mine(t, w)' = Has(dir'[t] = w) + Has(res'[t] = w) + InSeq(<<v, v>>, w)
      BY <1>2, ReturnAfterEnds DEF umount
    <3>3. Mine(t, w)' = Has(dir[t] = w) + Has(res[t] = w) + (Has(v = w) + Has(v = w))
      BY <1>2, <3>2, InTwo
    <3> QED
      BY <3>1, <3>3 DEF Has
  <2> QED
    BY <2>1
<1>9. Alive \subseteq Vnodes /\ \A w \in Vnodes : node[w].id # NoId
  BY AliveTyped, Numbers DEF TypeInv, StateTyped
<1>10. ASSUME NEW w \in Alive
       PROVE  (Owned(w)' => Owned(w)) /\ (w # v => (Owned(w) => Owned(w)'))
  <2>1. /\ References(w) \in Nat /\ References(w)' \in Nat
        /\ References(w)' = References(w) - Mine(t, w) + Mine(t, w)'
    BY <1>7, RefsStep
  <2>2. node[w].count \in Nat /\ w \in Vnodes
    BY <1>9, NodeTyped DEF TypeInv, StateTyped
  <2>3. node[w].count - References(w) \in {0, 1}
    BY DEF CountInv, CountIsExact
  <2> QED
    BY <1>6, <1>8, <2>1, <2>2, <2>3 DEF Has, Owned
<1>11. \A w \in Vnodes \ Alive : Owned(w)' => Owned(w)
  <2>1. ASSUME NEW w \in Vnodes \ Alive
        PROVE  Owned(w)' => Owned(w)
    <3>1. /\ References(w) \in Nat /\ References(w)' \in Nat
          /\ References(w)' = References(w) - Mine(t, w) + Mine(t, w)'
      BY <1>7, RefsStep
    <3> QED
      BY <1>2, <1>6, <1>8, <2>1, <3>1 DEF Has, Owned
  <2> QED
    BY <2>1
<1>12. Keeping(t)
  BY <1>2, <1>3, <1>5 DEF Keeping, Fresh, Held, Releasing
<1>13. Descends(t)'
  BY <1>2, <1>6, <1>12, KeepingDescends
<1>14. \A w \in Alive : ~Discards(t, w) /\ ~Secret(t, w)'
  BY <1>2, <1>3, <1>5 DEF Discards, Secret, Releasing
<1>15. \A s \in Threads, w \in Alive : Secret(s, w) => op'[t].found # node[w].id /\ vp'[t] # w
  BY <1>5, <1>9 DEF DownInv, KeepsSecret, Unknown, Vnodes, NoVnode
<1>16. \A w \in Alive, m \in Names :
         \/ node'[w].entries[m] = node[w].entries[m]
         \/ \A u \in Alive : node[u].id # node'[w].entries[m]
  BY <1>6, <1>9
<1>17. \A w \in Vnodes : Owned(w)' => Owned(w)
  BY <1>10, <1>11
<1>18. \A w \in Alive : Owned(w) => Owned(w)' \/ (node[w].type = "file" /\ "remove" \in Calls)
  BY <1>3, <1>10
<1>19. Stays(t)
  BY <1>2, <1>5, <1>6, <1>7, <1>9, <1>13, <1>14, <1>15, <1>16, <1>17, <1>18 DEF Stays, umount
<1> QED
  BY <1>19, DownStays

-----------------------------------------------------------------------------
(***************************************************************************)
(* A new vnode.                                                            *)
(***************************************************************************)
\* t makes v: nobody refers to it, and it has its number from an entry or for itself.
Arrives(t, v) ==
  /\ Others(t) /\ UNCHANGED <<dir, res, todo>>
  /\ pc[t] \notin Fresh \cup Held \cup Releasing \cup {"idle", "wild"}
  /\ pc'[t] \in {"dots", "name"} /\ vp'[t] = v /\ op'[t].found \in {NoId, op[t].found}
  /\ list' = Append(list, v) /\ Alive' = Alive \cup {v}
  /\ \A w \in Vnodes : w # v => node'[w] = node[w] /\ (Owned(w)' <=> Owned(w))
  /\ Owned(v)' /\ node'[v].count = 1 /\ node'[v].id # NoId
  /\ \A n \in Names : node'[v].entries[n] = NoId
  /\ node'[v].id = op'[t].found \/ (op'[t].found = NoId /\ node'[v].id \in FreshId)

LEMMA AllocArrives ==
  ASSUME TypeInv, TypeInv', CountInv, NEW t \in Threads,
         pc[t] \in {"allocFile", "allocNew", "allocDir"},
         NEW type \in {"file", "dir"}, NEW id \in {NoId, op[t].found}, Alloc(t, type, id),
         pc'[t] \in {"dots", "name"}, op'[t].found = id,
         \A s \in Threads : s # t => pc'[s] = pc[s] /\ op'[s] = op[s],
         UNCHANGED <<dir, res, todo>>
  PROVE  \E v \in Unused : Arrives(t, v)
<1>1. HandsTyped /\ Asking(t) /\ EmptyHanded(t) /\ op[t] \in Operation /\ id \in 0 .. MaxNodeId
  BY NodesAssumption DEF TypeInv, HandsTyped, Asking, Making, CountInv, NoId
<1>2. PICK v \in Unused, i \in NodeIds :
        /\ node' = [node EXCEPT ![v] = NewNode(type, i)] /\ list' = Append(list, v)
        /\ vp' = [vp EXCEPT ![t] = v]
        /\ i = id \/ (id = NoId /\ i \in FreshId)
  BY <1>1, Allocates
<1>3. v \in Vnodes /\ v \notin Alive
  BY DEF Unused
<1>4. /\ Alive' = Alive \cup {v}
      /\ \A w \in Vnodes : w # v => node'[w] = node[w]
      /\ node'[v] = NewNode(type, i)
  BY <1>2, <1>3, Listed DEF TypeInv, StateTyped
<1>5. /\ node'[v].id = i /\ node'[v].count = 1 /\ i # NoId
      /\ \A n \in Names : node'[v].entries[n] = NoId
  BY <1>4, NewNodeTyped DEF NewNode, NodeIds, NoId
<1>6. vp'[t] = v /\ Others(t)
  BY <1>1, <1>2 DEF HandsTyped, Others
<1>7. \A w \in Vnodes : References(w)' = References(w)
  <2>1. ASSUME NEW w \in Vnodes
        PROVE  References(w)' = References(w)
    <3>1. Mine(t, w) = Has(dir[t] = w) + Has(res[t] = w) + 0 + InSeq(todo[t], w)
      BY MineIs DEF Held
    <3>2. Mine(t, w)' = Has(dir[t] = w) + Has(res[t] = w) + 0 + InSeq(todo[t], w)
      BY MineWillBe DEF Held
    <3>3. /\ References(w) \in Nat /\ Mine(t, w) \in Nat
          /\ References(w)' = References(w) - Mine(t, w) + Mine(t, w)'
      BY <1>6, RefsStep
    <3> QED
      BY <3>1, <3>2, <3>3
  <2> QED
    BY <2>1
<1>8. Owned(v)'
  <2>1. References(v)' = 0
    BY <1>3, <1>7 DEF CountInv, NoneLost
  <2> QED
    BY <1>5, <2>1 DEF Owned
<1>9. \A w \in Vnodes : w # v => (Owned(w)' <=> Owned(w))
  BY <1>4, <1>7 DEF Owned
<1> QED
  BY <1>2, <1>4, <1>5, <1>6, <1>8, <1>9 DEF Arrives, Fresh, Held, Releasing

LEMMA ArrivesDown ==
  ASSUME TypeInv, TypeInv', CountInv, DownInv, NEW t \in Threads, NEW v \in Unused,
         Arrives(t, v), UNCHANGED umount
  PROVE  DownInv'
<1>1. /\ v \in Vnodes /\ v # RootV /\ v \notin Alive /\ v # cursor /\ v # NoVnode
      /\ \A s \in Threads : vp[s] # v /\ dir[s] # v /\ res[s] # v
      /\ \A s \in Threads : \A j \in DOMAIN todo[s] : todo[s][j] # v
      /\ RootV \in Alive /\ Alive \subseteq Vnodes
      /\ UNCHANGED <<mount, cursor, dir, res, todo>> /\ Alive' = Alive \cup {v}
  <2>1. v \in Vnodes /\ v # RootV /\ v \notin Alive /\ v # cursor
        /\ \A s \in Threads : v \notin Touched(s) \cup {res[s]}
    BY DEF Unused
  <2>2. v # NoVnode
    BY <2>1 DEF Vnodes, NoVnode
  <2> QED
    BY <2>1, <2>2, AliveTyped DEF Touched, TypeInv, StateTyped, CountInv, RootStays, umount, Arrives
<1> DEFINE i == node'[v].id
<1>2. /\ \A w \in Alive : node'[w] = node[w] /\ node[w].id # NoId /\ (Owned(w)' <=> Owned(w))
      /\ i # NoId /\ Owned(v)' /\ \A n \in Names : node'[v].entries[n] = NoId
  BY <1>1, Numbers DEF Arrives
<1>3. /\ \A u, w : Before(u, w) => Before(u, w)'
      /\ \A u \in Alive : Before(u, v)'
  BY BehindAll DEF TypeInv, StateTyped, Arrives
<1>4. /\ \A s \in Threads \ {t} : pc'[s] = pc[s] /\ op'[s] = op[s] /\ vp'[s] = vp[s]
      /\ pc'[t] \in {"dots", "name"} /\ vp'[t] = v /\ op'[t].found \in {NoId, op[t].found}
      /\ pc[t] \notin Fresh \cup Held \cup Releasing
      /\ dir[t] \in Alive
  <2>1. dir[t] \in Vnodes /\ dir[t] # NoVnode
    BY DEF Arrives, TypeInv, AtWork, Vnodes, NoVnode
  <2> QED
    BY <2>1, ReferredAlive DEF Arrives, Others
<1>5. \/ i = op'[t].found /\ op'[t].found = op[t].found
      \/ op'[t].found = NoId /\ i \in FreshId
  BY <1>2, <1>4 DEF Arrives
<1> HIDE DEF i
<1>6. \A s \in Threads : Descends(s) /\ KeepsSecret(s) /\ Ahead(s)
  BY DEF DownInv
<1>7. Ordered'
  <2>1. ASSUME NEW u \in Alive', NEW w \in Alive', NEW n \in Names,
               node'[u].entries[n] = node'[w].id
        PROVE  Before(u, w)'
    <3>1. u \in Alive
      BY <1>1, <1>2, <2>1 DEF i
    <3>2. CASE w = v
      BY <1>3, <3>1, <3>2
    <3>3. CASE w # v
      <4>1. w \in Alive /\ node[u].entries[n] = node[w].id
        BY <1>1, <1>2, <2>1, <3>1, <3>3
      <4> QED
        BY <1>3, <3>1, <4>1 DEF DownInv, Ordered
    <3> QED
      BY <3>2, <3>3
  <2> QED
    BY <2>1 DEF Ordered
<1>8. node'[RootV].type = "dir" /\ WalkRuns'
  BY <1>1, <1>2 DEF DownInv, WalkRuns
<1>9. \A s \in Threads, w \in Alive : Discards(s, w)' <=> Discards(s, w)
  BY <1>1, <1>4 DEF Discards, Releasing
<1>10. OwnKept'
  BY <1>1, <1>2, <1>9 DEF DownInv, OwnKept
<1>11. ASSUME NEW s \in Threads
       PROVE  Ahead(s)'
  <2>1. ASSUME cursor' \in Alive', NEW w \in Alive', Refers(s, w)', Owned(w)'
        PROVE  Before(cursor, w)'
    <3>1. cursor \in Alive /\ cursor' = cursor
      BY <1>1, <2>1
    <3>2. CASE w = v
      BY <1>3, <3>1, <3>2
    <3>3. CASE w # v
      <4>1. w \in Alive /\ Refers(s, w) /\ Owned(w)
        BY <1>1, <1>2, <1>4, <2>1, <3>3 DEF Refers, Held
      <4> QED
        BY <1>3, <1>6, <3>1, <4>1 DEF Ahead
    <3> QED
      BY <3>2, <3>3
  <2> QED
    BY <2>1 DEF Ahead
<1>12. ASSUME NEW s \in Threads, s # t
       PROVE  Descends(s)'
  <2>1. \A w \in Alive' : op[s].found = node'[w].id => Before(dir[s], w)'
    <3>1. ASSUME op[s].found = i
          PROVE  Before(dir[s], v)'
      <4>1. dir[s] # NoVnode
        BY <1>2, <1>6, <3>1 DEF Descends
      <4> QED
        BY <1>1, <1>3, <4>1, ReferredAlive
    <3>2. \A w \in Alive : op[s].found = node'[w].id => Before(dir[s], w)'
      BY <1>1, <1>2, <1>3, <1>6 DEF Descends
    <3> QED
      BY <1>1, <3>1, <3>2 DEF i
  <2>2. pc[s] \in Fresh \cup Held /\ vp[s] \in Alive' => Before(dir[s], vp[s])'
    BY <1>1, <1>3, <1>4, <1>6, <1>12 DEF Descends
  <2>3. pc[s] \in {"askRemove", "unlink"} => node'[vp[s]].type = "file"
    <3>1. pc[s] \in {"askRemove", "unlink"} => vp[s] \in Alive
      BY ReferredAlive DEF Held
    <3> QED
      BY <1>2, <1>6, <3>1 DEF Descends
  <2>4. dir[s] # NoVnode => node'[dir[s]].type = "dir"
    BY <1>2, <1>6, ReferredAlive DEF Descends
  <2> QED
    BY <1>1, <1>4, <1>6, <1>12, <2>1, <2>2, <2>3, <2>4 DEF Descends
<1>13. Descends(t)'
  <2>1. \A w \in Alive' : op'[t].found = node'[w].id => Before(dir[t], w)'
    BY <1>1, <1>2, <1>3, <1>4, <1>6 DEF Descends
  <2>2. node'[dir[t]].type = "dir" /\ Before(dir[t], v)' /\ dir[t] # NoVnode
    <3>1. dir[t] # NoVnode
      BY <1>1, <1>4 DEF Vnodes, NoVnode
    <3> QED
      BY <1>1, <1>2, <1>3, <1>4, <1>6, <3>1 DEF Descends
  <2>3. pc'[t] \notin {"idle", "link", "empty", "askRmdir", "askRemove", "unlink"}
                      \cup Held \cup Releasing
    BY <1>4 DEF Held, Releasing
  <2>4. pc'[t] \in Fresh
    BY <1>4 DEF Fresh
  <2> QED
    BY <1>1, <1>4, <2>1, <2>2, <2>3, <2>4 DEF Descends
<1>14. KeepsSecret(t)'
  <2>1. ASSUME NEW w \in Alive', Secret(t, w)'
        PROVE  w = v /\ i \in FreshId /\ op'[t].found = NoId
    <3>1. ~Discards(t, w)'
      BY <1>4 DEF Discards, Releasing
    <3> QED
      BY <1>1, <1>2, <1>4, <1>5, <2>1, <3>1 DEF Secret
  <2>2. ASSUME i \in FreshId, op'[t].found = NoId
        PROVE  Unknown(v)'
    <3>1. /\ \A w \in Alive : node[w].id # i
          /\ \A w \in Alive, n \in Names : node[w].entries[n] # i
          /\ \A s \in Threads : op[s].found # i
      BY <2>2 DEF FreshId
    <3>2. \A w \in Alive' : node'[w].id = i => w = v
      BY <1>1, <1>2, <3>1
    <3>3. \A w \in Alive', n \in Names : node'[w].entries[n] # i
      BY <1>1, <1>2, <3>1
    <3>4. \A s \in Threads : op'[s].found # i
      BY <1>2, <1>4, <2>2, <3>1
    <3> QED
      BY <3>2, <3>3, <3>4 DEF Unknown, i
  <2>3. node'[v].count = 1 /\ Before(dir[t], v)' /\ \A s \in Threads \ {t} : vp'[s] # v
    BY <1>1, <1>3, <1>4 DEF Arrives
  <2> QED
    BY <1>1, <2>1, <2>2, <2>3 DEF KeepsSecret
<1>15. ASSUME NEW s \in Threads, s # t
       PROVE  KeepsSecret(s)'
  <2>1. ASSUME NEW w \in Alive', Secret(s, w)'
        PROVE  w \in Alive /\ Secret(s, w)
    <3>1. todo[s] # <<v>>
      BY <1>1
    <3>2. w # v
      BY <1>1, <1>4, <1>15, <2>1, <3>1 DEF Secret, Discards
    <3> QED
      BY <1>1, <1>4, <1>15, <2>1, <3>2 DEF Secret, Discards
  <2>2. ASSUME NEW w \in Alive, Unknown(w)
        PROVE  Unknown(w)'
    <3>1. i # node[w].id
      BY <1>5, <2>2 DEF Unknown, FreshId
    <3>2. \A x \in Alive' : node'[x].id = node'[w].id => x = w
      BY <1>1, <1>2, <2>2, <3>1 DEF Unknown, i
    <3>3. \A x \in Alive', n \in Names : node'[x].entries[n] # node'[w].id
      BY <1>1, <1>2, <2>2 DEF Unknown
    <3>4. \A x \in Threads : op'[x].found # node'[w].id
      BY <1>2, <1>4, <2>2 DEF Unknown
    <3> QED
      BY <3>2, <3>3, <3>4 DEF Unknown
  <2>3. ASSUME NEW w \in Alive, Secret(s, w)
        PROVE  /\ Unknown(w)' /\ node'[w].count = 1 /\ Before(dir[s], w)'
               /\ \A r \in Threads \ {s} : vp'[r] # w
    <3>1. /\ Unknown(w) /\ node[w].count = 1 /\ Before(dir[s], w)
          /\ \A r \in Threads \ {s} : vp[r] # w
      BY <1>6, <2>3 DEF KeepsSecret
    <3>2. \A r \in Threads \ {s} : vp'[r] # w
      BY <1>1, <1>4, <3>1
    <3> QED
      BY <1>1, <1>2, <1>3, <2>2, <3>1, <3>2
  <2> QED
    BY <1>1, <2>1, <2>3 DEF KeepsSecret
<1> QED
  BY <1>7, <1>8, <1>10, <1>11, <1>12, <1>13, <1>14, <1>15 DEF DownInv

LEMMA AllocDown ==
  ASSUME Downhill, TypeInv, TypeInv', CountInv, DownInv, NEW t \in Threads,
         AllocFile(t) \/ AllocNew(t) \/ iumfs_make_directory(t)
  PROVE  DownInv'
<1>1. HandsTyped /\ op[t] \in Operation /\ {"dots", "name"} \subseteq Pcs /\ UNCHANGED umount
  BY DEF TypeInv, HandsTyped, Pcs, AllocFile, AllocNew, iumfs_make_directory
<1>2. ASSUME Goto(t, "dots") \/ Goto(t, "name"), pc[t] \in {"allocFile", "allocDir"}, NEW type \in {"file", "dir"},
             Alloc(t, type, op[t].found), UNCHANGED <<dir, res, todo>>
      PROVE  DownInv'
  <2>1. /\ pc'[t] \in {"dots", "name"} /\ op'[t].found = op[t].found
        /\ \A s \in Threads : s # t => pc'[s] = pc[s] /\ op'[s] = op[s]
    BY <1>1, <1>2, GotoMoves
  <2>2. PICK v \in Unused : Arrives(t, v)
    BY <1>2, <2>1, AllocArrives
  <2> QED
    BY <1>1, <2>2, ArrivesDown
<1>3. CASE AllocNew(t)
  <2>1. /\ pc'[t] = "name" /\ op'[t].found = NoId /\ pc[t] = "allocNew"
        /\ \A s \in Threads : s # t => pc'[s] = pc[s] /\ op'[s] = op[s]
    BY <1>1, <1>3 DEF AllocNew, At, Go, HandsTyped, Operation
  <2>2. PICK v \in Unused : Arrives(t, v)
    BY <1>3, <2>1, AllocArrives DEF AllocNew
  <2> QED
    BY <1>1, <2>2, ArrivesDown
<1>4. CASE AllocFile(t)
  BY <1>2, <1>4 DEF AllocFile, At
<1>5. CASE iumfs_make_directory(t)
  <2>1. pc[t] = "allocDir" /\ UNCHANGED <<disk, umount, dir, res, todo>>
    BY <1>5 DEF iumfs_make_directory, At
  <2>2. CASE Goto(t, LookupFailed(t)) /\ UNCHANGED <<fs, vp>>
    <3>1. LookupFailed(t) \in {"askCreate", "idle"} /\ {"askCreate", "idle"} \subseteq Pcs
      BY DEF LookupFailed, Pcs
    <3>2. Calm(t)
      BY <2>1, <2>2, FailsCalmly DEF Downhill, umount, fs
    <3> QED
      BY <2>1, <2>2, <3>1, <3>2, GoesDown DEF Calm, Fresh, Held, Releasing, umount, fs
  <2> QED
    BY <1>2, <1>5, <2>1, <2>2 DEF iumfs_make_directory
<1> QED
  BY <1>3, <1>4, <1>5

-----------------------------------------------------------------------------
(***************************************************************************)
(* The last release.                                                       *)
(***************************************************************************)
LEMMA RefersThen == (TypeInv => \A v \in Vnodes : References(v) = 0 =>
                                  \A t \in Threads : ~Refers(t, v))'
<1>1. TypeInv => \A v \in Vnodes : References(v) = 0 => \A t \in Threads : ~Refers(t, v)
  <2>1. ASSUME TypeInv, NEW v \in Vnodes, References(v) = 0
        PROVE  \A t \in Threads : ~Refers(t, v)
    <3>1. \A t \in Threads : Refers(t, v) => References(v) > 0
      BY <2>1, SomeoneRefers
    <3> QED
      BY <2>1, <3>1
  <2> QED
    BY <2>1
<1> QED
  BY <1>1, PTL

\* The vnode that goes had no reference of its own: nobody works in it, and the walk is
\* not at it.
LEMMA FreeDown ==
  ASSUME Downhill, TypeInv, TypeInv', CountInv, CountInv', DownInv, NEW t \in Threads,
         pc[t] \in Releasing, ReleaseDone(t), NEW v \in Alive, v = Head(todo[t]),
         node[v].count = 1, list' = RemoveAt(list, Position(v)),
         node' = [node EXCEPT ![v] = NoNode], UNCHANGED <<disk, umount, dir, res, vp>>
  PROVE  DownInv'
<1>1. /\ Others(t) /\ \A w : Mine(t, w) = Mine(t, w)' + Has(v = w) /\ Mine(t, w)' \in Nat
  BY ReleaseCounts
<1>2. /\ Alive' = Alive \ {v} /\ Alive \subseteq Vnodes /\ v \in Vnodes /\ v # NoVnode
      /\ \A w \in Vnodes : w # v => node'[w] = node[w]
      /\ UNCHANGED <<mount, cursor, dir, res, vp>>
  BY Removed, AliveTyped DEF TypeInv, StateTyped, umount, Vnodes, NoVnode
<1>3. ASSUME NEW w \in Vnodes
      PROVE  /\ References(w) \in Nat /\ References(w)' \in Nat
             /\ References(w) = References(w)' + Has(v = w)
  <2>1. /\ References(w) \in Nat /\ Mine(t, w) \in Nat /\ References(w)' \in Nat
        /\ References(w)' = References(w) - Mine(t, w) + Mine(t, w)'
    BY <1>1, RefsStep
  <2>2. Mine(t, w) = Mine(t, w)' + Has(v = w) /\ Mine(t, w)' \in Nat
    BY <1>1
  <2> QED
    BY <2>1, <2>2 DEF Has
<1>4. References(v)' = 0 /\ ~Owned(v)
  <2>1. References(v) = References(v)' + 1 /\ References(v)' \in Nat
    BY <1>2, <1>3 DEF Has
  <2>2. 1 - References(v) \in {0, 1}
    BY DEF CountInv, CountIsExact
  <2> QED
    BY <2>1, <2>2 DEF Owned
<1>5. \A w \in Alive' : Owned(w)' <=> Owned(w)
  BY <1>2, <1>3 DEF Owned, Has
<1>6. \A s \in Threads : ~Refers(s, v)'
  BY <1>2, <1>4, RefersThen
<1>7. v # RootV
  BY <1>4 DEF CountInv, RootStays
<1>8. HandsTyped /\ {"idle", "rele"} \subseteq Pcs /\ NoOp.found = NoId
  BY DEF TypeInv, Pcs, NoOp
<1>9. /\ todo[t] \in Seq(Vnodes) /\ todo[t] # <<>> /\ Len(todo[t]) =< 2
      /\ todo'[t] = Tail(todo[t])
  BY <1>8 DEF HandsTyped, TypeInv, AtWork, ReleaseDone
<1>10. /\ pc'[t] = IF Len(todo[t]) = 1 THEN "idle" ELSE "rele"
       /\ op'[t] = IF Len(todo[t]) = 1 THEN NoOp ELSE op[t]
  BY <1>8, GotoMoves DEF ReleaseDone
<1>11. \A w : Refers(t, w)' => Refers(t, w)
  <2>1. \A i \in DOMAIN todo'[t] : i + 1 \in DOMAIN todo[t] /\ todo'[t][i] = todo[t][i + 1]
    BY <1>9
  <2> QED
    BY <1>2, <1>10, <2>1 DEF Refers, Held
<1>12. \A s \in Threads : Descends(s) /\ KeepsSecret(s) /\ Ahead(s)
  BY DEF DownInv
<1>13. \A s \in Threads : s # t =>
         /\ pc'[s] = pc[s] /\ op'[s] = op[s] /\ dir'[s] = dir[s]
         /\ vp'[s] = vp[s] /\ todo'[s] = todo[s] /\ dir[s] # v
         /\ \A w : (Refers(s, w)' <=> Refers(s, w)) /\ (Secret(s, w)' <=> Secret(s, w))
  <2>1. \A s \in Threads : s # t =>
          /\ pc'[s] = pc[s] /\ op'[s] = op[s] /\ dir'[s] = dir[s] /\ res'[s] = res[s]
          /\ vp'[s] = vp[s] /\ todo'[s] = todo[s]
    BY <1>1 DEF Others
  <2>2. \A s \in Threads : dir'[s] # v
    BY <1>6 DEF Refers
  <2> QED
    BY <1>2, <2>1, <2>2 DEF Refers, Secret, Discards
<1>14. \A w \in Alive : w # v => ~Discards(t, w) /\ ~Secret(t, w)'
  <2>1. ASSUME NEW w \in Alive, w # v, todo[t] = <<w>>
        PROVE  FALSE
    BY <2>1
  <2>2. pc'[t] \notin {"dots", "name", "link"}
    BY <1>10
  <2>3. ~(pc'[t] \in Releasing /\ op'[t].call \in {"new", "mkdir"})
    <3>1. op[t].call \in {"new", "mkdir"} => Len(todo[t]) = 1
      BY <1>12 DEF Descends
    <3> QED
      BY <1>10, <3>1 DEF Releasing
  <2> QED
    BY <2>1, <2>2, <2>3 DEF Discards, Secret
<1>15. \A u, w : u # v /\ w # v /\ Before(u, w) => Before(u, w)'
  BY OrderStays DEF TypeInv, StateTyped
<1>16. Ordered'
  BY <1>2, <1>15 DEF DownInv, Ordered
<1>17. node'[RootV].type = "dir"
  BY <1>2, <1>7 DEF DownInv, CountInv, RootStays
<1>18. OwnKept'
  <2>1. ASSUME NEW w \in Alive', node'[w].type = "dir" \/ "remove" \notin Calls, ~Owned(w)'
        PROVE  \E s \in Threads : Discards(s, w)'
    <3>1. w \in Alive /\ w # v /\ node'[w] = node[w] /\ ~Owned(w)
      BY <1>2, <1>5, <2>1
    <3>2. PICK s \in Threads : Discards(s, w)
      BY <2>1, <3>1 DEF DownInv, OwnKept
    <3>3. s # t
      BY <1>14, <3>1, <3>2
    <3>4. Discards(s, w)'
      BY <1>13, <3>2, <3>3 DEF Discards
    <3> QED
      BY <3>4
  <2> QED
    BY <2>1 DEF OwnKept
<1>19. WalkRuns'
  <2>1. ASSUME "remove" \notin Calls, cursor = v
        PROVE  FALSE
    <3>1. PICK s \in Threads : Discards(s, v)
      BY <1>4, <2>1 DEF DownInv, OwnKept
    <3>2. Before(dir[s], v)
      BY <1>12, <3>1 DEF KeepsSecret, Secret
    <3>3. dir[s] # NoVnode
      BY <1>2, <3>2 DEF Before, Alive, Vnodes, NoVnode
    <3>4. Before(v, v)
      BY <2>1, <3>2, <3>3, BehindIsAhead
    <3> QED
      BY <3>4, NotBeforeItself
  <2> QED
    BY <1>2, <2>1 DEF DownInv, WalkRuns
<1>20. ASSUME NEW s \in Threads
       PROVE  Ahead(s)'
  <2>1. ASSUME cursor' \in Alive', NEW w \in Alive', Refers(s, w)', Owned(w)'
        PROVE  Before(cursor, w)'
    <3>1. cursor \in Alive /\ w \in Alive /\ cursor # v /\ w # v /\ Owned(w) /\ cursor' = cursor
      BY <1>2, <1>5, <2>1
    <3>2. Refers(s, w)
      BY <1>11, <1>13, <2>1
    <3>3. Before(cursor, w)
      BY <1>12, <3>1, <3>2 DEF Ahead
    <3> QED
      BY <1>15, <3>1, <3>3
  <2> QED
    BY <2>1 DEF Ahead
<1>21. ASSUME NEW s \in Threads, s # t
       PROVE  Descends(s)' /\ KeepsSecret(s)'
  <2>1. /\ pc'[s] = pc[s] /\ op'[s] = op[s] /\ dir'[s] = dir[s]
        /\ vp'[s] = vp[s] /\ todo'[s] = todo[s] /\ dir[s] # v
    BY <1>13, <1>21
  <2>2. pc[s] \in {"askRemove", "unlink"} => node'[vp[s]].type = "file"
    <3>1. pc[s] \in {"askRemove", "unlink"} => vp[s] \in Alive /\ vp[s] # v
      <4>1. pc[s] \in Held => vp[s] # v
        BY <1>6, <2>1 DEF Refers
      <4> QED
        BY <4>1, ReferredAlive DEF Held
    <3> QED
      BY <1>2, <1>12, <3>1 DEF Descends
  <2>3. pc[s] \in Fresh \cup Held /\ vp[s] \in Alive' => Before(dir[s], vp[s])'
    BY <1>2, <1>12, <1>15, <2>1 DEF Descends
  <2>4. \A w \in Alive' : op[s].found = node'[w].id => Before(dir[s], w)'
    BY <1>2, <1>12, <1>15, <2>1 DEF Descends
  <2>5. dir[s] # NoVnode => node'[dir[s]].type = "dir"
    BY <1>2, <1>12, <2>1, ReferredAlive DEF Descends
  <2>6. Descends(s)'
    BY <1>12, <2>1, <2>2, <2>3, <2>4, <2>5 DEF Descends
  <2>7. ASSUME NEW w \in Alive', Secret(s, w)'
        PROVE  /\ Unknown(w)' /\ node'[w].count = 1 /\ Before(dir[s], w)'
               /\ \A r \in Threads \ {s} : vp'[r] # w
    <3>1. w \in Alive /\ w # v /\ node'[w] = node[w] /\ Secret(s, w)
      BY <1>2, <1>13, <1>21, <2>7
    <3>2. /\ Unknown(w) /\ node[w].count = 1 /\ Before(dir[s], w)
          /\ \A r \in Threads \ {s} : vp[r] # w
      BY <1>12, <3>1 DEF KeepsSecret
    <3>3. \A r \in Threads : op'[r].found \in {op[r].found, NoId}
      BY <1>8, <1>10, <1>13
    <3>4. node[w].id # NoId
      BY <1>2, <3>1, Numbers
    <3>5. Unknown(w)'
      BY <1>2, <3>1, <3>2, <3>3, <3>4 DEF Unknown
    <3> QED
      BY <1>2, <1>15, <2>1, <3>1, <3>2, <3>5
  <2>8. KeepsSecret(s)'
    BY <2>7 DEF KeepsSecret
  <2> QED
    BY <2>6, <2>8
<1>22. KeepsSecret(t)'
  BY <1>2, <1>14 DEF KeepsSecret
<1>23. Descends(t)'
  <2>1. /\ pc'[t] = "idle" => op'[t] = NoOp
        /\ pc'[t] \notin {"link", "empty", "askRmdir", "askRemove", "unlink"} \cup Held \cup Fresh
    BY <1>10 DEF Held, Fresh
  <2>2. vp'[t] = NoVnode
    BY <1>2, <1>12 DEF Descends, Fresh, Held, Releasing
  <2>3. pc'[t] \in Releasing /\ op'[t].call \in {"new", "mkdir"} => Len(todo'[t]) = 1
    <3>1. op[t].call \in {"new", "mkdir"} => Len(todo[t]) = 1
      BY <1>12 DEF Descends
    <3> QED
      BY <1>10, <3>1 DEF Releasing
  <2>4. dir'[t] = dir[t] /\ dir[t] # v
    BY <1>2, <1>6 DEF Refers
  <2>5. op'[t].found = NoId \/ op'[t].found = op[t].found
    BY <1>8, <1>10
  <2>6. \A w \in Alive' : op'[t].found = node'[w].id => Before(dir[t], w)'
    <3>1. \A w \in Alive' : node'[w].id = node[w].id /\ node[w].id # NoId /\ w \in Alive /\ w # v
      BY <1>2, Numbers
    <3> QED
      BY <1>12, <1>15, <2>4, <2>5, <3>1 DEF Descends
  <2>7. dir[t] # NoVnode => node'[dir[t]].type = "dir"
    BY <1>2, <1>12, <2>4, ReferredAlive DEF Descends
  <2>8. dir[t] = NoVnode => op'[t].found = NoId
    BY <1>12, <2>5 DEF Descends
  <2> QED
    BY <2>1, <2>2, <2>3, <2>4, <2>6, <2>7, <2>8 DEF Descends
<1> QED
  BY <1>16, <1>17, <1>18, <1>19, <1>20, <1>21, <1>22, <1>23 DEF DownInv

LEMMA InactiveDown ==
  ASSUME Downhill, TypeInv, TypeInv', CountInv, CountInv', DownInv, NEW t \in Threads,
         iumfs_inactive(t)
  PROVE  DownInv'
<1>1. /\ pc[t] \in Releasing /\ ReleaseDone(t) /\ UNCHANGED <<disk, umount, dir, res, vp>>
      /\ Touched(t) \subseteq Alive /\ RootV \in Alive
  BY DEF iumfs_inactive, At, Releasing, CountInv, RootStays
<1>2. PICK v \in Alive : v = Head(todo[t])
  BY <1>1, HeadListed
<1>3. iumfs_free_node(v)
  BY <1>1, <1>2 DEF iumfs_inactive
<1>4. CASE node[v].count > 1 /\ Drop(v) /\ UNCHANGED list
  BY <1>1, <1>2, <1>4, DropsDown
<1>5. CASE /\ node[v].count = 1 /\ list' = RemoveAt(list, Position(v))
           /\ node' = [node EXCEPT ![v] = NoNode]
  BY <1>1, <1>2, <1>5, FreeDown
<1> QED
  BY <1>3, <1>4, <1>5 DEF iumfs_free_node

-----------------------------------------------------------------------------
(***************************************************************************)
(* Every step, the walk itself, and where it ends.                         *)
(***************************************************************************)
LEMMA DownThreadStep ==
  ASSUME Downhill, TypeInv, TypeInv', CountInv, CountInv', DownInv, NEW t \in Threads,
         Root(t) \/ Chdir(t) \/ Close(t) \/ Leave(t) \/ Call(t) \/ Step(t)
  PROVE  DownInv'
<1>1. CASE Root(t) \/ Chdir(t) \/ Close(t) \/ Leave(t) \/ GiveUp(t)
  BY <1>1, RootDown, EndsDown
<1>2. CASE Call(t) \/ iumfs_find_nodeid_by_name(t) \/ iumfs_request_readdir(t)
  BY <1>2, SeeksDowns
<1>3. CASE iumfs_find_vnode_by_nodeid(t) \/ Ref(t)
  BY <1>3, GetDown, RefDown
<1>4. CASE NotCached(t) \/ AskLookup(t) \/ AllocFails(t) \/ AskCreate(t) \/ AskMkdir(t) \/ AskRemove(t)
  BY <1>4, WaysDown
<1>5. CASE AllocFile(t) \/ AllocNew(t) \/ iumfs_make_directory(t)
  BY <1>5, AllocDown
<1>6. CASE AddDots(t) \/ SetName(t) \/ Link(t) \/ AddListed(t)
  BY <1>6, AddDotsDown, SetNameDown, LinkDown, AddDown
<1>7. CASE VN_RELE(t) \/ iumfs_inactive(t) \/ iumfs_remove_entry_from_dir(t)
  BY <1>7, ReleDown, InactiveDown, UnlinkDown
<1>8. CASE Stray(t)
  BY <1>8, StrayDown
<1>9. ~AskRmdir(t) /\ ~iumfs_dir_is_empty(t)
  BY NotEmptied
<1> QED
  BY <1>1, <1>2, <1>3, <1>4, <1>5, <1>6, <1>7, <1>8, <1>9 DEF Step

\* What threads refer to is at the position the walk comes to, or behind it, unless it has
\* lost the reference of its own.
LEMMA NotPassed ==
  ASSUME TypeInv, CountInv, DownInv, cursor \in Alive \cup {NoVnode}, NEW t \in Threads,
         NEW v \in Alive, Refers(t, v), Owned(v)
  PROVE  /\ After(cursor) \in Nat \ {0} /\ node[v].count # 1
         /\ \E j \in DOMAIN list : list[j] = v /\ j >= After(cursor)
<1> DEFINE Comes == /\ After(cursor) \in Nat \ {0}
                    /\ \E j \in DOMAIN list : list[j] = v /\ j >= After(cursor)
<1>1. ASSUME cursor = NoVnode
      PROVE  Comes
  <2>1. After(cursor) = 1
    BY <1>1 DEF After
  <2>2. PICK j \in DOMAIN list : list[j] = v
    BY DEF Alive
  <2> QED
    BY <2>1, <2>2 DEF TypeInv, StateTyped
<1>2. ASSUME cursor \in Alive
      PROVE  Comes
  <2>1. After(cursor) = 1 + Position(cursor)
    BY <1>2, AliveTyped DEF After, TypeInv, StateTyped, Vnodes, NoVnode
  <2>2. PICK i \in DOMAIN list, j \in DOMAIN list : i < j /\ list[i] = cursor /\ list[j] = v
    BY <1>2 DEF DownInv, Ahead, Before
  <2>3. Position(cursor) \in DOMAIN list /\ list[Position(cursor)] = cursor
    BY <2>2 DEF Position
  <2>4. Position(cursor) = i
    BY <2>2, <2>3 DEF TypeInv, Once
  <2> QED
    BY <2>1, <2>2, <2>4 DEF TypeInv, StateTyped
<1>3. node[v].count # 1
  <2>1. References(v) \in Nat /\ References(v) > 0
    BY SomeoneRefers
  <2> QED
    BY <2>1 DEF Owned
<1> QED
  BY <1>1, <1>2, <1>3

\* The walk goes on only over a vnode that is not in use.
LEMMA CheckDown ==
  ASSUME TypeInv, CountInv, DownInv, Adjoining, UnmountNext \/ UnmountCheck, Mounted'
  PROVE  DownInv'
<1>1. UNCHANGED <<list, node, pc, op, dir, res, vp, todo>> /\ mount = "checking"
  BY DEF UnmountNext, UnmountCheck, fs, hands
<1>2. /\ Alive' = Alive /\ Alive \subseteq Vnodes /\ \A v, w : Before(v, w)' <=> Before(v, w)
      /\ \A v : References(v)' = References(v)
  BY <1>1, AliveTyped DEF Alive, Before, TypeInv, StateTyped, References
<1>3. /\ Ordered' /\ OwnKept' /\ node'[RootV].type = "dir"
      /\ \A t \in Threads : Descends(t)' /\ KeepsSecret(t)'
  BY <1>1, <1>2
  DEF DownInv, Ordered, OwnKept, Owned, Discards, Descends, KeepsSecret, Secret, Unknown
<1>4. CASE cursor' = NoVnode
  <2>1. WalkRuns' /\ \A t \in Threads : Ahead(t)'
    BY <1>1, <1>2, <1>4 DEF WalkRuns, Ahead, Vnodes, NoVnode
  <2> QED
    BY <1>3, <2>1 DEF DownInv
<1>5. CASE UNCHANGED <<cursor, mount>>
  <2>1. WalkRuns' /\ \A t \in Threads : Ahead(t)'
    BY <1>1, <1>2, <1>5 DEF DownInv, WalkRuns, Ahead, Refers, Owned
  <2> QED
    BY <1>3, <2>1 DEF DownInv
<1>6. ASSUME UnmountCheck, node[ahead].count = 1, cursor' = ahead, UNCHANGED mount
      PROVE  DownInv'
  <2>1. cursor \in Alive \cup {NoVnode} /\ ahead \in Alive
    BY <1>6 DEF UnmountCheck
  <2>2. After(cursor) \in DOMAIN list /\ list[After(cursor)] = ahead
    BY <2>1, ComesNext
  <2>3. WalkRuns'
    BY <1>1, <1>2, <1>6, <2>1 DEF WalkRuns
  <2>4. ASSUME NEW t \in Threads, NEW v \in Alive, Refers(t, v), Owned(v)
        PROVE  Before(ahead, v)
    <3>1. PICK j \in DOMAIN list : list[j] = v /\ j >= After(cursor)
      BY <2>1, <2>4, NotPassed
    <3>2. After(cursor) # j
      BY <1>6, <2>1, <2>2, <2>4, <3>1, NotPassed
    <3>3. After(cursor) < j
      BY <2>2, <3>1, <3>2 DEF TypeInv, StateTyped
    <3> QED
      BY <2>2, <3>1, <3>3 DEF Before
  <2>5. \A t \in Threads : Ahead(t)'
    BY <1>1, <1>2, <1>6, <2>4 DEF Ahead, Refers, Owned
  <2> QED
    BY <1>3, <2>3, <2>5 DEF DownInv
<1> QED
  BY <1>4, <1>5, <1>6 DEF UnmountNext, UnmountCheck, Mounted

DownMounted == Mounted => CountInv /\ DownInv

LEMMA DownStep ==
  ASSUME Downhill, TypeInv, DownMounted, Adjoining, [Next]_vars
  PROVE  DownMounted'
<1>1. SUFFICES ASSUME Mounted'
               PROVE  CountInv' /\ DownInv'
  BY DEF DownMounted
<1>2. TypeInv'
  BY TypeStep
<1>3. ASSUME NEW t \in Threads, Root(t) \/ Chdir(t) \/ Close(t) \/ Leave(t) \/ Call(t) \/ Step(t)
      PROVE  UNCHANGED umount
  BY <1>3, ThreadsDoNotUnmount
<1>4. Mounted
  BY <1>1, <1>3
  DEF Mounted, umount, Next, Unmount, UnmountNext, UnmountCheck, iumfs_free_all_node, UnmountStray,
      LateExecution, vars
<1>5. CountInv /\ DownInv
  BY <1>4 DEF DownMounted
<1>6. CountInv'
  BY <1>1, <1>5, CountStep DEF Downhill
<1>7. ASSUME NEW t \in Threads, Root(t) \/ Chdir(t) \/ Close(t) \/ Leave(t) \/ Call(t) \/ Step(t)
      PROVE  DownInv'
  BY <1>2, <1>5, <1>6, <1>7, DownThreadStep
<1>8. CASE Unmount \/ LateExecution \/ UNCHANGED vars
  <2>1. /\ UNCHANGED <<list, node, cursor, pc, op, dir, res, vp, todo>>
        /\ mount' = "mounted" => mount = "mounted"
    BY <1>8 DEF Unmount, LateExecution, umount, vars, fs, hands
  <2>2. /\ Alive' = Alive /\ \A v, w : Before(v, w)' <=> Before(v, w)
        /\ \A v : References(v)' = References(v)
    BY <2>1 DEF Alive, Before, References
  <2>3. Ordered' /\ OwnKept' /\ WalkRuns' /\ node'[RootV].type = "dir"
    BY <1>5, <2>1, <2>2 DEF DownInv, Ordered, OwnKept, WalkRuns, Owned, Discards
  <2>4. \A t \in Threads : Descends(t)' /\ KeepsSecret(t)' /\ Ahead(t)'
    BY <1>5, <2>1, <2>2
    DEF DownInv, Descends, KeepsSecret, Secret, Unknown, Discards, Ahead, Refers, Owned
  <2> QED
    BY <1>6, <2>3, <2>4 DEF DownInv
<1>9. CASE UnmountNext \/ UnmountCheck
  BY <1>1, <1>5, <1>6, <1>9, CheckDown
<1>10. CASE iumfs_free_all_node \/ UnmountStray
  BY <1>1, <1>10 DEF iumfs_free_all_node, UnmountStray, Mounted
<1> QED
  BY <1>6, <1>7, <1>8, <1>9, <1>10 DEF Next

LEMMA DownInit ==
  ASSUME Downhill, Init
  PROVE  DownMounted
<1>1. RootV \in Vnodes /\ Alive = {RootV}
  <2>1. DOMAIN list = {1} /\ list[1] = RootV
    BY DEF Init
  <2> QED
    BY <2>1, NodesAssumption DEF Alive, RootV, Vnodes
<1>2. /\ node[RootV].id = 1 /\ node[RootV].type = "dir"
      /\ \A n \in Names : node[RootV].entries[n] = NoId
  <2>1. node[RootV] = [NewNode("dir", 1) EXCEPT !.entries[".."] = MountedOn]
    BY <1>1 DEF Init
  <2>2. node[RootV].entries = [NoEntries EXCEPT ![".."] = MountedOn]
    BY <2>1 DEF NewNode
  <2>3. \A n \in Names : node[RootV].entries[n] = NoId
    BY <2>2, NodesAssumption DEF NoEntries, Entries
  <2> QED
    BY <2>1, <2>3 DEF NewNode
<1>3. CountInv
  BY CountInit
<1>4. Ordered /\ OwnKept
  BY <1>1, <1>2, <1>3 DEF Ordered, OwnKept, NoId, CountInv, RootStays
<1>5. \A t \in Threads : pc[t] = "idle" /\ op[t] = NoOp /\ vp[t] = NoVnode /\ dir[t] = NoVnode
  BY DEF Init
<1>6. cursor = NoVnode /\ NoVnode \notin Alive
  BY <1>1 DEF Init, Vnodes, NoVnode
<1>7. \A t \in Threads : Descends(t) /\ KeepsSecret(t)
  BY <1>1, <1>2, <1>5, <1>6
  DEF Descends, KeepsSecret, Secret, Discards, Fresh, Held, Releasing, NoOp, NoId
<1>8. WalkRuns /\ \A t \in Threads : Ahead(t)
  BY <1>6 DEF WalkRuns, Ahead
<1> QED
  BY <1>2, <1>3, <1>4, <1>7, <1>8 DEF DownMounted, DownInv

LEMMA DownInvariant ==
  ASSUME Downhill
  PROVE  Spec => [](TypeInv /\ DownMounted /\ Adjoining)
<1>1. Init => TypeInv /\ DownMounted /\ Adjoining
  BY InitTyped, DownInit, AdjoiningInit
<1>2. TypeInv /\ DownMounted /\ Adjoining /\ [Next]_vars => (TypeInv /\ DownMounted /\ Adjoining)'
  BY TypeStep, DownStep, AdjoiningStep
<1> QED
  BY <1>1, <1>2, PTL DEF Spec

\* At the end of the walk nothing that has its own reference is in use.
LEMMA PassedAll ==
  ASSUME TypeInv, CountInv, DownInv, UnmountNext, mount' = "freeing", NEW t \in Threads,
         NEW v \in Alive, Refers(t, v)
  PROVE  ~Owned(v)
<1>1. cursor \in Alive \cup {NoVnode} /\ After(cursor) > Len(list)
  BY DEF UnmountNext
<1>2. SUFFICES ASSUME Owned(v)
               PROVE  FALSE
  OBVIOUS
<1>3. PICK j \in DOMAIN list : j >= After(cursor) /\ After(cursor) \in Nat
  BY <1>1, <1>2, NotPassed
<1> QED
  BY <1>1, <1>3 DEF TypeInv, StateTyped

\* When the walk of iumfs_unmount has come to its end and iumfs_free_all_node begins, what
\* is still in use is a removed file, or a vnode its maker is giving back: the threads that
\* have gone on looking up and making names meanwhile use nothing the walk has passed.
THEOREM UnmountSparesMany == Downhill => (Spec => UnmountSparesUsed)
<1>1. SUFFICES ASSUME Downhill
               PROVE  Spec => UnmountSparesUsed
  OBVIOUS
<1>2. ASSUME TypeInv, DownMounted, [Next]_vars, mount = "checking", mount' = "freeing",
             NEW v \in Alive, References(v) > 0
      PROVE  node[v].count = References(v)
  <2>1. CountInv /\ DownInv
    BY <1>2 DEF DownMounted, Mounted
  <2>2. UnmountNext
    BY <1>2, ThreadsDoNotUnmount
    DEF Next, Unmount, UnmountCheck, iumfs_free_all_node, UnmountStray, LateExecution, vars, umount
  <2>3. PICK t \in Threads : Refers(t, v)
    BY <1>2, SomeoneRefers
  <2>4. ~Owned(v)
    BY <1>2, <2>1, <2>2, <2>3, PassedAll
  <2>5. node[v].count \in Nat /\ References(v) \in Nat /\ node[v].count - References(v) \in {0, 1}
    <3>1. v \in Vnodes
      BY <1>2, AliveTyped DEF TypeInv, StateTyped
    <3>2. node[v].count \in Nat
      BY <1>2, <3>1, NodeTyped DEF TypeInv, StateTyped
    <3> QED
      BY <1>2, <2>1, <3>2, SomeoneRefers DEF CountInv, CountIsExact
  <2> QED
    BY <2>4, <2>5 DEF Owned
<1>3. TypeInv /\ DownMounted /\ [Next]_vars =>
        [mount = "checking" /\ mount' = "freeing" =>
           \A v \in Alive : References(v) > 0 => node[v].count = References(v)]_vars
  BY <1>2
<1> QED
  BY <1>1, <1>3, DownInvariant, PTL DEF Spec, UnmountSparesUsed

-----------------------------------------------------------------------------
(***************************************************************************)
(* When no file is removed either, nobody has anything left when           *)
(* iumfs_free_all_node begins, and nothing happens beside it.              *)
(***************************************************************************)
AtRest ==
  /\ mount \in {"freeing", "gone"}
  /\ \A t \in Threads : /\ pc[t] \in {"idle", "wild"} /\ todo[t] = <<>>
                        /\ dir[t] = NoVnode /\ res[t] = NoVnode
  /\ \A v \in Alive : node[v].count = 1

\* The vnode the walk waits for is not freed.
Waits == ahead \in Alive \cup {NoVnode}

RestOrMounted == DownMounted /\ Adjoining /\ ((Mounted /\ Waits) \/ AtRest)

\* Nobody refers to anything.
LEMMA RestCounts ==
  ASSUME TypeInv, RestOrMounted
  PROVE  CountIsExact /\ \A v \in Vnodes \ Alive : References(v) = 0
<1>1. CASE Mounted
  BY <1>1 DEF RestOrMounted, DownMounted, CountInv, NoneLost
<1>2. CASE AtRest
  <2>1. ASSUME NEW v \in Vnodes
        PROVE  References(v) = 0
    <3>1. \A t \in Threads : ~Refers(t, v)
      BY <1>2 DEF AtRest, Refers, Held, Vnodes, NoVnode
    <3>2. References(v) \in Nat /\ ~(References(v) > 0)
      BY <3>1, SomeoneRefers
    <3> QED
      BY <3>2
  <2>2. Alive \subseteq Vnodes
    BY AliveTyped DEF TypeInv, StateTyped
  <2> QED
    BY <1>2, <2>1, <2>2 DEF AtRest, CountIsExact
<1> QED
  BY <1>1, <1>2 DEF RestOrMounted

\* At the end of the walk.
LEMMA WalkEnds ==
  ASSUME Downhill, "remove" \notin Calls, TypeInv, CountInv, DownInv,
         UnmountNext, mount' = "freeing"
  PROVE  AtRest'
<1>1. UNCHANGED <<list, node, pc, op, dir, res, vp, todo>> /\ Alive \subseteq Vnodes
  BY AliveTyped DEF UnmountNext, fs, hands, TypeInv, StateTyped
<1>2. \A t \in Threads : dir[t] = NoVnode
  <2>1. ASSUME NEW t \in Threads, dir[t] # NoVnode
        PROVE  FALSE
    <3>1. dir[t] \in Alive /\ Owned(dir[t]) /\ Refers(t, dir[t])
      BY <2>1, DirAhead DEF Refers
    <3> QED
      BY <3>1, PassedAll
  <2> QED
    BY <2>1
<1>3. ASSUME NEW v \in Alive
      PROVE  Owned(v)
  <2>1. ASSUME NEW s \in Threads, Discards(s, v)
        PROVE  FALSE
    <3>1. Before(dir[s], v)
      BY <2>1 DEF DownInv, KeepsSecret, Secret
    <3>2. dir[s] # NoVnode
      BY <1>1, <3>1 DEF Before, Alive, Vnodes, NoVnode
    <3> QED
      BY <1>2, <3>2
  <2> QED
    BY <2>1 DEF DownInv, OwnKept
<1>4. \A v \in Alive, t \in Threads : ~Refers(t, v)
  BY <1>3, PassedAll
<1>5. ASSUME NEW t \in Threads
      PROVE  pc[t] \in {"idle", "wild"} /\ todo[t] = <<>> /\ res[t] = NoVnode
  <2>1. res[t] = NoVnode
    BY <1>4, ReferredAlive DEF Refers
  <2>2. DOMAIN todo[t] = {}
    BY <1>4, ReferredAlive DEF Refers
  <2>3. todo[t] = <<>>
    <3>1. todo[t] \in Seq(Vnodes)
      BY DEF TypeInv, HandsTyped
    <3>2. todo[t] # <<>> => 1 \in DOMAIN todo[t]
      BY <3>1
    <3> QED
      BY <2>2, <3>2
  <2>4. pc[t] \in {"idle", "wild"}
    BY <1>2, <2>3 DEF TypeInv, AtWork, Vnodes, NoVnode
  <2> QED
    BY <2>1, <2>3, <2>4
<1>6. ASSUME NEW v \in Alive
      PROVE  node[v].count = 1
  <2>1. References(v) \in Nat /\ ~(References(v) > 0)
    BY <1>4, SomeoneRefers
  <2> QED
    BY <1>3, <2>1 DEF Owned
<1> QED
  BY <1>1, <1>2, <1>5, <1>6 DEF AtRest, Alive

\* Only iumfs_free_all_node goes on.
LEMMA RestStays ==
  ASSUME TypeInv, AtRest, [Next]_vars
  PROVE  AtRest'
<1>1. ASSUME NEW t \in Threads
      PROVE  ~(Root(t) \/ Chdir(t) \/ Close(t) \/ Leave(t) \/ Call(t))
  BY DEF AtRest, Root, Chdir, Close, Leave, Call, Start
<1>2. ASSUME NEW t \in Threads
      PROVE  ~Step(t)
  <2>1. pc[t] \in {"idle", "wild"}
    BY DEF AtRest
  <2> QED
    BY <2>1
    DEF At, Step, iumfs_find_nodeid_by_name, iumfs_find_vnode_by_nodeid, NotCached, AskLookup,
        AllocFile, AllocNew, AllocFails, iumfs_make_directory, AddDots, SetName, Link, Ref,
        AskCreate, AskMkdir, AskRemove, AskRmdir, iumfs_dir_is_empty, GiveUp, iumfs_remove_entry_from_dir,
        iumfs_request_readdir, AddListed, VN_RELE, iumfs_inactive, Stray
<1>3. ~Unmount /\ ~UnmountNext /\ ~UnmountCheck /\ ~UnmountStray
  BY DEF AtRest, Unmount, UnmountNext, UnmountCheck, UnmountStray
<1>4. CASE LateExecution \/ UNCHANGED vars
  BY <1>4 DEF AtRest, LateExecution, vars, fs, umount, hands, Alive
<1>5. CASE iumfs_free_all_node
  <2>1. UNCHANGED <<pc, dir, res, todo>> /\ mount' \in {"freeing", "gone"}
    BY <1>5 DEF iumfs_free_all_node, hands
  <2>2. CASE UNCHANGED fs
    BY <2>1, <2>2 DEF AtRest, fs, Alive
  <2>3. CASE list # <<>> /\ iumfs_free_node(Head(list))
    <3>1. PICK v \in Alive : v = Head(list)
      <4>1. Head(list) = list[1] /\ 1 \in DOMAIN list
        BY <2>3 DEF TypeInv, StateTyped
      <4> QED
        BY <4>1 DEF Alive
    <3>2. node[v].count = 1
      BY DEF AtRest
    <3>3. list' = RemoveAt(list, Position(v)) /\ node' = [node EXCEPT ![v] = NoNode]
      BY <2>3, <3>1, <3>2 DEF iumfs_free_node
    <3>4. Alive' = Alive \ {v}
      BY <3>3, Removed DEF TypeInv, StateTyped
    <3>5. \A w \in Alive' : node'[w] = node[w]
      BY <3>3, <3>4, AliveTyped DEF TypeInv, StateTyped
    <3> QED
      BY <2>1, <3>4, <3>5 DEF AtRest
  <2> QED
    BY <1>5, <2>2, <2>3 DEF iumfs_free_all_node
<1> QED
  BY <1>1, <1>2, <1>3, <1>4, <1>5 DEF Next

\* A vnode that is freed lies behind the one the walk waits for: a thread that made it
\* gives it back, and the directory that thread works in is ahead of the walk.
LEMMA FreedBehind ==
  ASSUME "remove" \notin Calls, TypeInv, CountInv, DownInv, Adjoining,
         NEW v \in Alive, ~Owned(v), ahead \in Alive
  PROVE  ahead # v
<1>1. cursor \in Alive \cup {NoVnode}
  BY DEF DownInv, WalkRuns
<1>2. PICK s \in Threads : Discards(s, v)
  BY DEF DownInv, OwnKept
<1>3. Before(dir[s], v)
  BY <1>2 DEF DownInv, KeepsSecret, Secret
<1>4. dir[s] # NoVnode
  <2>1. dir[s] \in Alive
    BY <1>3 DEF Before, Alive
  <2> QED
    BY <2>1, AliveTyped DEF TypeInv, StateTyped, Vnodes, NoVnode
<1>5. dir[s] \in Alive /\ Owned(dir[s]) /\ Refers(s, dir[s])
  BY <1>4, DirAhead DEF Refers
<1>6. PICK j \in DOMAIN list : list[j] = dir[s] /\ j >= After(cursor)
  BY <1>1, <1>5, NotPassed
<1>7. PICK i \in DOMAIN list, k \in DOMAIN list : i < k /\ list[i] = dir[s] /\ list[k] = v
  BY <1>3 DEF Before
<1>8. After(cursor) \in DOMAIN list /\ list[After(cursor)] = ahead
  BY <1>1, ComesNext
<1>9. i = j
  BY <1>6, <1>7 DEF TypeInv, Once
<1>10. After(cursor) # k
  BY <1>6, <1>7, <1>8, <1>9 DEF TypeInv, StateTyped
<1> QED
  BY <1>7, <1>8, <1>10 DEF TypeInv, Once

LEMMA WaitsStep ==
  ASSUME "remove" \notin Calls, TypeInv, CountInv, DownInv, Adjoining, Waits, [Next]_vars, Mounted'
  PROVE  Waits'
<1>1. ASSUME UNCHANGED <<list, ahead>>
      PROVE  Waits'
  BY <1>1 DEF Waits, Alive
<1>2. ASSUME NEW t \in Threads, Root(t) \/ Chdir(t) \/ Close(t) \/ Leave(t) \/ Call(t) \/ Step(t)
      PROVE  Waits'
  <2>1. UNCHANGED ahead
    BY <1>2, ThreadsDoNotUnmount DEF umount
  <2>2. CASE AllocFile(t) \/ AllocNew(t) \/ iumfs_make_directory(t)
    <3>1. UNCHANGED list \/ \E v \in Vnodes : v \notin Alive /\ list' = Append(list, v)
      <4>1. ASSUME NEW type \in {"file", "dir"}, NEW id \in 0 .. MaxNodeId, Alloc(t, type, id)
            PROVE  \E v \in Vnodes : v \notin Alive /\ list' = Append(list, v)
        <5>1. PICK v \in Unused : list' = Append(list, v)
          BY <4>1, Allocates
        <5> QED
          BY <5>1 DEF Unused
      <4>2. NoId \in 0 .. MaxNodeId
        BY NodesAssumption DEF NoId
      <4>3. pc[t] \in {"allocFile", "allocDir"} => op[t].found \in 0 .. MaxNodeId
        BY DEF TypeInv, Asking, Making
      <4> QED
        BY <2>2, <4>1, <4>2, <4>3 DEF AllocFile, AllocNew, iumfs_make_directory, At, fs
    <3>2. Alive \subseteq Alive'
      BY <3>1, Listed DEF TypeInv, StateTyped, Alive
    <3> QED
      BY <2>1, <3>2 DEF Waits
  <2>3. CASE iumfs_inactive(t)
    <3>1. Head(todo[t]) \in Alive /\ Head(todo[t]) \in Vnodes
      BY <2>3, HeadListed DEF iumfs_inactive, At, Releasing
    <3> DEFINE v == Head(todo[t])
    <3>2. CASE UNCHANGED list
      BY <1>1, <2>1, <3>2
    <3>3. CASE node[v].count = 1 /\ list' = RemoveAt(list, Position(v))
      <4>1. Alive' = Alive \ {v}
        BY <3>1, <3>3, Removed DEF TypeInv, StateTyped
      <4>2. ~Owned(v)
        <5>1. Refers(t, v)
          <6>1. 1 \in DOMAIN todo[t] /\ Head(todo[t]) = todo[t][1]
            BY <2>3 DEF TypeInv, HandsTyped, AtWork, Releasing, iumfs_inactive, At
          <6> QED
            BY <6>1 DEF Refers
        <5>2. References(v) \in Nat /\ References(v) > 0
          BY <5>1, SomeoneRefers
        <5> QED
          BY <3>3, <5>2 DEF Owned
      <4>3. ahead \in Alive => ahead # v
        BY <3>1, <4>2, FreedBehind
      <4> QED
        BY <2>1, <4>1, <4>3 DEF Waits
    <3> QED
      BY <2>3, <3>2, <3>3 DEF iumfs_inactive, iumfs_free_node, fs
  <2> QED
    BY <1>1, <1>2, <2>1, <2>2, <2>3, ListStays
<1>3. CASE UnmountNext \/ UnmountCheck
  <2>1. UNCHANGED list /\ Alive' = Alive
    BY <1>3 DEF UnmountNext, UnmountCheck, fs, Alive
  <2>2. CASE ahead' = NoVnode
    BY <2>2 DEF Waits
  <2>3. CASE ahead' # NoVnode
    <3>1. ahead' \in Alive
      <4>1. cursor' = cursor /\ After(cursor) =< Len(list) /\ ahead' = list[After(cursor)]
            /\ cursor \in Alive \cup {NoVnode}
        BY <1>3, <2>3 DEF UnmountNext, UnmountCheck, Mounted, Waits
      <4>2. After(cursor) \in 1 .. Len(list)
        <5>1. CASE cursor = NoVnode
          BY <4>1, <5>1 DEF After, TypeInv, StateTyped
        <5>2. CASE cursor # NoVnode
          <6>1. Position(cursor) \in DOMAIN list
            BY <4>1, <5>2 DEF Position, Alive
          <6> QED
            BY <4>1, <5>2, <6>1 DEF After, TypeInv, StateTyped
        <5> QED
          BY <5>1, <5>2
      <4> QED
        BY <4>1, <4>2, AliveTyped DEF TypeInv, StateTyped
    <3> QED
      BY <2>1, <3>1 DEF Waits
  <2> QED
    BY <2>2, <2>3
<1>4. CASE Unmount \/ UnmountStray \/ LateExecution \/ UNCHANGED vars
  BY <1>1, <1>4 DEF Unmount, UnmountStray, LateExecution, vars, fs, umount
<1>5. ~iumfs_free_all_node
  BY DEF iumfs_free_all_node, Mounted
<1> QED
  BY <1>2, <1>3, <1>4, <1>5 DEF Next

LEMMA RestStep ==
  ASSUME Downhill, "remove" \notin Calls, TypeInv, RestOrMounted, [Next]_vars
  PROVE  RestOrMounted'
<1>1. DownMounted' /\ Adjoining'
  BY DownStep, AdjoiningStep DEF RestOrMounted
<1>2. CASE AtRest
  BY <1>1, <1>2, RestStays DEF RestOrMounted
<1>3. ASSUME Mounted, Waits
      PROVE  (Mounted' /\ Waits') \/ AtRest'
  <2>1. CountInv /\ DownInv
    BY <1>3 DEF RestOrMounted, DownMounted
  <2>2. ASSUME NEW t \in Threads, Root(t) \/ Chdir(t) \/ Close(t) \/ Leave(t) \/ Call(t) \/ Step(t)
        PROVE  Mounted' \/ AtRest'
    BY <1>3, <2>2, ThreadsDoNotUnmount DEF Mounted, umount
  <2>3. ASSUME Unmount \/ LateExecution \/ UNCHANGED vars
        PROVE  Mounted' \/ AtRest'
    BY <1>3, <2>3 DEF Unmount, LateExecution, umount, Mounted, vars
  <2>4. ASSUME UnmountNext \/ UnmountCheck
        PROVE  Mounted' \/ AtRest'
    <3>1. CASE mount' \in {"mounted", "checking"}
      BY <3>1 DEF Mounted
    <3>2. CASE UnmountNext /\ mount' = "freeing"
      BY <2>1, <3>2, WalkEnds
    <3> QED
      BY <2>4, <3>1, <3>2 DEF UnmountNext, UnmountCheck
  <2>5. ~UnmountStray
    BY <1>3, <2>1 DEF UnmountStray, DownInv, WalkRuns, Waits
  <2>6. ~iumfs_free_all_node
    BY <1>3 DEF iumfs_free_all_node, Mounted
  <2>7. Mounted' => Waits'
    BY <1>3, <2>1, WaitsStep DEF RestOrMounted
  <2> QED
    BY <2>2, <2>3, <2>4, <2>5, <2>6, <2>7 DEF Next
<1> QED
  BY <1>1, <1>2, <1>3 DEF RestOrMounted

LEMMA RestInvariant ==
  ASSUME Downhill, "remove" \notin Calls
  PROVE  Spec => [](TypeInv /\ RestOrMounted)
<1>1. Init => TypeInv /\ RestOrMounted
  BY InitTyped, DownInit, AdjoiningInit DEF RestOrMounted, Mounted, Waits, Init
<1>2. TypeInv /\ RestOrMounted /\ [Next]_vars => (TypeInv /\ RestOrMounted)'
  BY TypeStep, RestStep
<1> QED
  BY <1>1, <1>2, PTL DEF Spec

\* While threads look up and make names, and also while the file system is being unmounted
\* under them, every vnode has the references somebody holds and at most one of its own.
THEOREM CountsExactUnmounting ==
  Downhill /\ "remove" \notin Calls => (Spec => []CountIsExact)
<1>1. SUFFICES ASSUME Downhill, "remove" \notin Calls
               PROVE  Spec => []CountIsExact
  OBVIOUS
<1>2. TypeInv /\ RestOrMounted => CountIsExact
  BY RestCounts
<1> QED
  BY <1>1, <1>2, RestInvariant, PTL

\* And iumfs_free_all_node, like every other step, frees only what nobody refers to.
THEOREM FreedUnreferencedUnmounting ==
  Downhill /\ "remove" \notin Calls => (Spec => FreedOnlyUnreferenced)
<1>1. SUFFICES ASSUME Downhill, "remove" \notin Calls
               PROVE  Spec => FreedOnlyUnreferenced
  OBVIOUS
<1>2. TypeInv /\ RestOrMounted => \A v \in Vnodes \ Alive : References(v) = 0
  BY RestCounts
<1>3. (TypeInv /\ RestOrMounted => \A v \in Vnodes \ Alive : References(v) = 0)'
  BY <1>2, PTL
<1>4. (TypeInv /\ RestOrMounted) /\ (TypeInv /\ RestOrMounted)' =>
        [\A v \in Alive \ {list'[i] : i \in DOMAIN list'} : References(v)' = 0]_vars
  <2>1. TypeInv => Alive \subseteq Vnodes
    BY AliveTyped DEF TypeInv, StateTyped
  <2>2. {list'[i] : i \in DOMAIN list'} = Alive'
    BY DEF Alive
  <2> QED
    BY <1>3, <2>1, <2>2
<1> QED
  BY <1>1, <1>4, RestInvariant, PTL DEF FreedOnlyUnreferenced
=============================================================================
