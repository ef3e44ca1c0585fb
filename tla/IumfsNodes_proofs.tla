------------------------- MODULE IumfsNodes_proofs --------------------------
(***************************************************************************)
(* The types of IumfsNodes, for any threads, names, vnodes and server:     *)
(* which vnodes, numbers and releases a thread has in hand at which step,  *)
(* and that the list of vnodes has each of them once.                      *)
(***************************************************************************)
EXTENDS IumfsNodes, FiniteSetTheorems, SequenceTheorems, WellFoundedInduction, TLAPS

Searching == {"find", "get", "noent"}
Making    == {"askLookup", "askCreate", "askMkdir", "allocFile", "allocNew", "allocDir",
              "dots", "name", "link"}
Fresh     == {"dots", "name", "link", "ref"}
Releasing == {"rele", "inactive"}

NodeRecords == [type : {"file", "dir"}, id : NodeIds, path : Seq(Names),
                count : Nat \ {0}, entries : [Entries -> Nat]]

\* A vnode is in the list once.
Once == \A i, j \in DOMAIN list : list[i] = list[j] => i = j

StateTyped ==
  /\ server \in [Paths -> {"none", "file", "dir"}]
  /\ late \subseteq Requests
  /\ list \in Seq(Vnodes)
  /\ node \in [Vnodes -> NodeRecords]
  /\ mount \in {"mounted", "checking", "freeing", "gone", "wild"}
  /\ cursor \in Vnodes \cup {NoVnode} /\ ahead \in Vnodes \cup {NoVnode}

HandsTyped ==
  /\ pc \in [Threads -> Pcs]
  /\ op \in [Threads -> Operation]
  /\ dir \in [Threads -> Vnodes \cup {NoVnode}]
  /\ res \in [Threads -> Vnodes \cup {NoVnode}]
  /\ vp \in [Threads -> Vnodes \cup {NoVnode}]
  /\ todo \in [Threads -> Seq(Vnodes)]

\* Numbers of names are numbers of nodes.
Numbered == \A v \in Vnodes, n \in Names : node[v].entries[n] \in 0 .. MaxNodeId

\* What a thread has in hand at which step.
AtWork(t) ==
  /\ pc[t] \notin {"idle", "wild"} \cup Releasing => dir[t] \in Vnodes
  /\ pc[t] \in Held \cup Fresh => vp[t] \in Vnodes
  /\ pc[t] \in Releasing => todo[t] # <<>>
  /\ pc[t] \notin Releasing \cup {"wild"} => todo[t] = <<>>
  /\ Len(todo[t]) =< 2

\* What it looks for.
Asking(t) ==
  /\ pc[t] \in Searching =>
       op[t].call \in {"lookup", "dotdot", "create", "createExcl", "remove", "rmdir"}
  /\ op[t].call \notin {"none", "dotdot", "readdir"} => op[t].name \in Names
  /\ pc[t] \in Making => op[t].call \notin {"none", "dotdot", "readdir"}
  /\ op[t].name \in Names => op[t].found \in 0 .. MaxNodeId

TypeInv ==
  /\ StateTyped /\ HandsTyped /\ Once /\ Numbered
  /\ \A t \in Threads : AtWork(t) /\ Asking(t)

-----------------------------------------------------------------------------
(***************************************************************************)
(* Choices, records and the list.                                          *)
(***************************************************************************)
\* The least element of a set of numbers is one of it.
LEMMA MinOfNat ==
  ASSUME NEW S \in SUBSET Nat, S # {}
  PROVE  Min(S) \in S
<1>1. PICK x \in S : \A y \in S : <<y, x>> \notin OpToRel(<, Nat)
  BY NatLessThanWellFounded, WFMin, Zenon
<1>2. ASSUME NEW y \in S
      PROVE  x =< y
  <2>1. ~(y < x)
    BY <1>1, Zenon DEF OpToRel
  <2> QED
    BY <2>1
<1> QED
  BY <1>2 DEF Min

\* A vnode in the list is a vnode.
LEMMA AliveTyped ==
  ASSUME list \in Seq(Vnodes)
  PROVE  /\ Alive \subseteq Vnodes
         /\ \A i \in DOMAIN list : list[i] \in Vnodes /\ list[i] \in Alive
  BY DEF Alive

\* iumfs_alloc_node makes a typed vnode.
LEMMA NewNodeTyped ==
  ASSUME NEW type \in {"file", "dir"}, NEW id \in NodeIds
  PROVE  /\ NewNode(type, id) \in NodeRecords
         /\ \A n \in Names : NewNode(type, id).entries[n] = NoId
<1>1. NoEntries \in [Entries -> Nat] /\ RootPath \in Seq(Names)
  BY DEF NoEntries, NoId, RootPath
<1> QED
  BY <1>1 DEF NewNode, NodeRecords, NoEntries, NoId, Entries

\* One entry, one path, one count of a typed vnode may change.
LEMMA NodeTyped ==
  ASSUME NEW r \in NodeRecords
  PROVE  /\ r.count \in Nat \ {0} /\ r.id \in NodeIds /\ r.path \in Seq(Names)
         /\ r.type \in {"file", "dir"} /\ r.entries \in [Entries -> Nat]
         /\ [r EXCEPT !.count = r.count + 1] \in NodeRecords
         /\ r.count > 1 => [r EXCEPT !.count = r.count - 1] \in NodeRecords
         /\ \A n \in Entries, i \in Nat : [r EXCEPT !.entries[n] = i] \in NodeRecords
         /\ \A p \in Seq(Names) : [r EXCEPT !.path = p] \in NodeRecords
<1>1. /\ r.count \in Nat \ {0} /\ r.id \in NodeIds /\ r.path \in Seq(Names)
      /\ r.type \in {"file", "dir"} /\ r.entries \in [Entries -> Nat]
  BY DEF NodeRecords
<1>2. \A c \in Nat \ {0} : [r EXCEPT !.count = c] \in NodeRecords
  BY DEF NodeRecords
<1>3. r.count + 1 \in Nat \ {0} /\ (r.count > 1 => r.count - 1 \in Nat \ {0})
  BY <1>1
<1>4. ASSUME NEW n \in Entries, NEW i \in Nat
      PROVE  [r EXCEPT !.entries[n] = i] \in NodeRecords
  BY <1>1 DEF NodeRecords
<1>5. ASSUME NEW p \in Seq(Names)
      PROVE  [r EXCEPT !.path = p] \in NodeRecords
  BY <1>1 DEF NodeRecords
<1> QED
  BY <1>1, <1>2, <1>3, <1>4, <1>5

\* Those behind a vnode that is taken out of the list move up.
LEMMA MovesUp ==
  ASSUME list \in Seq(Vnodes), NEW v \in Alive, list' = RemoveAt(list, Position(v))
  PROVE  /\ Position(v) \in 1 .. Len(list) /\ list[Position(v)] = v
         /\ list' \in Seq(Vnodes) /\ Len(list') = Len(list) - 1
         /\ \A i \in 1 .. Len(list') :
              list'[i] = IF i < Position(v) THEN list[i] ELSE list[i + 1]
<1> DEFINE k == Position(v)
           f == list
           g == list'
<1>1. k \in 1 .. Len(f) /\ f[k] = v
  BY DEF Alive, Position
<1> HIDE DEF k
<1>2. /\ g \in Seq(Vnodes) /\ Len(g) = Len(f) - 1
      /\ \A i \in 1 .. Len(g) : g[i] = IF i < k THEN f[i] ELSE f[i + 1]
  <2> DEFINE a == SubSeq(f, 1, k - 1)
             b == SubSeq(f, k + 1, Len(f))
  <2>1. a \in Seq(Vnodes) /\ Len(a) = k - 1 /\ \A i \in 1 .. k - 1 : a[i] = f[i]
    BY <1>1
  <2>2. /\ b \in Seq(Vnodes) /\ Len(b) = Len(f) - k
        /\ \A i \in 1 .. Len(f) - k : b[i] = f[k + i]
    BY <1>1
  <2>3. g = a \o b
    BY DEF RemoveAt, k
  <2> HIDE DEF a, b
  <2>4. g \in Seq(Vnodes) /\ Len(g) = Len(f) - 1
    BY <1>1, <2>1, <2>2, <2>3
  <2>5. ASSUME NEW i \in 1 .. Len(g)
        PROVE  g[i] = IF i < k THEN f[i] ELSE f[i + 1]
    <3>1. CASE i < k
      BY <1>1, <2>1, <2>2, <2>3, <2>4, <3>1
    <3>2. CASE ~(i < k)
      <4>1. i - (k - 1) \in 1 .. Len(f) - k /\ k + (i - (k - 1)) = i + 1
        BY <1>1, <2>4, <3>2
      <4>2. g[i] = b[i - (k - 1)]
        BY <1>1, <2>1, <2>2, <2>3, <2>4, <3>2
      <4> QED
        BY <2>2, <3>2, <4>1, <4>2
    <3> QED
      BY <3>1, <3>2
  <2> QED
    BY <2>4, <2>5
<1> QED
  BY <1>1, <1>2 DEF k

\* The list of vnodes without one of them.
LEMMA Removed ==
  ASSUME list \in Seq(Vnodes), Once, NEW v \in Alive, list' = RemoveAt(list, Position(v))
  PROVE  list' \in Seq(Vnodes) /\ Once' /\ Alive' = Alive \ {v}
<1> DEFINE k == Position(v)
           f == list
           g == list'
<1>1. /\ k \in 1 .. Len(f) /\ f[k] = v
      /\ g \in Seq(Vnodes) /\ Len(g) = Len(f) - 1
      /\ \A i \in 1 .. Len(g) : g[i] = IF i < k THEN f[i] ELSE f[i + 1]
  BY MovesUp
<1> HIDE DEF k
<1>2. /\ g \in Seq(Vnodes) /\ Len(g) = Len(f) - 1
      /\ \A i \in 1 .. Len(g) : g[i] = IF i < k THEN f[i] ELSE f[i + 1]
  BY <1>1
<1> DEFINE From(i) == IF i < k THEN i ELSE i + 1
<1>3. \A i \in 1 .. Len(g) : From(i) \in 1 .. Len(f) /\ From(i) # k /\ g[i] = f[From(i)]
  BY <1>1, <1>2
<1>4. Once'
  <2>1. ASSUME NEW i \in 1 .. Len(g), NEW j \in 1 .. Len(g), g[i] = g[j]
        PROVE  i = j
    <3>1. From(i) = From(j)
      BY <1>3, <2>1 DEF Once
    <3> QED
      BY <1>1, <3>1
  <2> QED
    BY <1>2, <2>1 DEF Once
<1>5. ASSUME NEW i \in 1 .. Len(f), i # k
      PROVE  \E j \in 1 .. Len(g) : g[j] = f[i]
  <2>1. CASE i < k
    BY <1>1, <1>2, <2>1
  <2>2. CASE i > k
    <3>1. i - 1 \in 1 .. Len(g) /\ g[i - 1] = f[i]
      BY <1>1, <1>2, <2>2
    <3> QED
      BY <3>1
  <2> QED
    BY <1>1, <1>5, <2>1, <2>2
<1>6. ASSUME NEW j \in 1 .. Len(g)
      PROVE  \E i \in 1 .. Len(f) : i # k /\ f[i] = g[j]
  BY <1>3
<1>7. \A i \in 1 .. Len(f) : i # k => f[i] # v
  BY <1>1 DEF Once
<1>8. Alive' = Alive \ {v}
  <2>1. \A w : w \in Alive' <=> \E j \in 1 .. Len(g) : g[j] = w
    BY <1>2 DEF Alive
  <2>2. \A w : w \in Alive <=> \E i \in 1 .. Len(f) : f[i] = w
    BY DEF Alive
  <2> QED
    <3>1. ASSUME NEW w \in Alive'
          PROVE  w \in Alive /\ w # v
      BY <1>6, <1>7, <2>1, <2>2
    <3>2. ASSUME NEW w \in Alive, w # v
          PROVE  w \in Alive'
      BY <1>1, <1>5, <2>1, <2>2, <3>2
    <3> QED
      BY <3>1, <3>2
<1> QED
  BY <1>2, <1>4, <1>8

\* The list with one more.
LEMMA Listed ==
  ASSUME list \in Seq(Vnodes), Once, NEW v \in Vnodes \ Alive, list' = Append(list, v)
  PROVE  list' \in Seq(Vnodes) /\ Once' /\ Alive' = Alive \cup {v}
<1>1. /\ list' \in Seq(Vnodes) /\ Len(list') = Len(list) + 1
      /\ \A i \in 1 .. Len(list) : list'[i] = list[i]
      /\ list'[Len(list) + 1] = v
  OBVIOUS
<1>2. Once'
  BY <1>1 DEF Once, Alive
<1>3. Alive' = Alive \cup {v}
  BY <1>1 DEF Alive
<1> QED
  BY <1>1, <1>2, <1>3

\* A list without doubles is as long as it has members.
LEMMA AliveCounted ==
  ASSUME list \in Seq(Vnodes), Once
  PROVE  Cardinality(Alive) = Len(list)
<1>1. list \in Bijection(1 .. Len(list), Alive)
  BY DEF Once, Alive, Bijection, Injection, Surjection, IsInjective
<1>2. IsFiniteSet(1 .. Len(list)) /\ Cardinality(1 .. Len(list)) = Len(list)
  <2>1. Len(list) \in Nat
    OBVIOUS
  <2> QED
    BY <2>1, FS_Interval
<1>3. ExistsBijection(1 .. Len(list), Alive)
  BY <1>1 DEF ExistsBijection
<1> QED
  BY <1>2, <1>3, FS_Bijection

-----------------------------------------------------------------------------
(***************************************************************************)
(* One thread moves.                                                       *)
(***************************************************************************)
Others(t) ==
  \A s \in Threads : s # t =>
    /\ pc'[s] = pc[s] /\ op'[s] = op[s] /\ dir'[s] = dir[s]
    /\ res'[s] = res[s] /\ vp'[s] = vp[s] /\ todo'[s] = todo[s]

Moved(t) == HandsTyped' /\ Others(t) /\ AtWork(t)' /\ Asking(t)'

StateInv == StateTyped /\ Once /\ Numbered

\* Go and Goto move one thread to a step.
LEMMA GoMoves ==
  ASSUME HandsTyped, NEW t \in Threads, NEW l \in Pcs, NEW o \in Operation, Go(t, l, o)
  PROVE  /\ pc' \in [Threads -> Pcs] /\ op' \in [Threads -> Operation]
         /\ pc'[t] = l /\ op'[t] = o
         /\ \A s \in Threads : s # t => pc'[s] = pc[s] /\ op'[s] = op[s]
  BY DEF HandsTyped, Go

LEMMA NoOpTyped == NoOp \in Operation
  BY NodesAssumption DEF NoOp, Operation, AllCalls, Entries, NoId

LEMMA GotoMoves ==
  ASSUME HandsTyped, NEW t \in Threads, NEW l \in Pcs, Goto(t, l)
  PROVE  /\ pc' \in [Threads -> Pcs] /\ op' \in [Threads -> Operation]
         /\ pc'[t] = l /\ op'[t] = IF l = "idle" THEN NoOp ELSE op[t]
         /\ \A s \in Threads : s # t => pc'[s] = pc[s] /\ op'[s] = op[s]
<1> DEFINE o == IF l = "idle" THEN NoOp ELSE op[t]
<1>1. o \in Operation
  BY NoOpTyped DEF HandsTyped
<1>2. Go(t, l, o)
  BY DEF Goto
<1> HIDE DEF o
<1>3. /\ pc' \in [Threads -> Pcs] /\ op' \in [Threads -> Operation]
      /\ pc'[t] = l /\ op'[t] = o
      /\ \A s \in Threads : s # t => pc'[s] = pc[s] /\ op'[s] = op[s]
  BY <1>1, <1>2, GoMoves
<1> QED
  BY <1>3 DEF o

\* An idle thread asks for nothing.
LEMMA NoOpAsks ==
  ASSUME NEW t \in Threads, pc'[t] \in {"idle"} \cup Releasing \cup {"wild"}, op'[t] = NoOp
  PROVE  Asking(t)'
  BY NodesAssumption DEF Asking, NoOp, Searching, Making, Releasing, NoId

\* The other threads stay as they are.
LEMMA TypeAssembled ==
  ASSUME TypeInv, NEW t \in Threads, StateInv', Moved(t)
  PROVE  TypeInv'
<1>1. ASSUME NEW s \in Threads, s # t
      PROVE  AtWork(s)' /\ Asking(s)'
  BY <1>1 DEF TypeInv, Moved, Others, AtWork, Asking
<1> QED
  BY <1>1 DEF TypeInv, Moved, StateInv

\* A step that leaves the file system alone.
LEMMA StateKept ==
  ASSUME TypeInv, UNCHANGED <<disk, fs, umount>>
  PROVE  StateInv'
  BY DEF disk, TypeInv, StateInv, StateTyped, Once, Numbered, fs, umount

\* A step of the server.
LEMMA ServerSteps ==
  ASSUME TypeInv, server' \in [Paths -> {"none", "file", "dir"}], late' \subseteq Requests,
         UNCHANGED <<fs, umount>>
  PROVE  StateInv'
  BY DEF TypeInv, StateInv, StateTyped, Once, Numbered, fs, umount

\* A step that changes the vnodes only.
LEMMA NodeSteps ==
  ASSUME TypeInv, node' \in [Vnodes -> NodeRecords], Numbered', UNCHANGED <<disk, list, umount>>
  PROVE  StateInv'
  BY DEF TypeInv, StateInv, StateTyped, Once, disk, umount

\* A reference is taken, or given back.
LEMMA CountSteps ==
  ASSUME TypeInv, NEW v \in Vnodes,
         VN_HOLD(v) \/ (node[v].count > 1 /\ Drop(v)),
         UNCHANGED <<disk, list, umount>>
  PROVE  StateInv'
<1>1. node[v] \in NodeRecords
  BY DEF TypeInv, StateTyped
<1>2. CASE VN_HOLD(v)
  <2>1. [node[v] EXCEPT !.count = node[v].count + 1] \in NodeRecords
    BY <1>1, NodeTyped
  <2>2. node' \in [Vnodes -> NodeRecords]
    BY <1>2, <2>1 DEF VN_HOLD, TypeInv, StateTyped
  <2>3. Numbered'
    BY <1>1, <1>2 DEF VN_HOLD, TypeInv, StateTyped, Numbered, NodeRecords
  <2> QED
    BY <2>2, <2>3, NodeSteps
<1>3. CASE node[v].count > 1 /\ Drop(v)
  <2>1. [node[v] EXCEPT !.count = node[v].count - 1] \in NodeRecords
    BY <1>1, <1>3, NodeTyped
  <2>2. node' \in [Vnodes -> NodeRecords]
    BY <1>3, <2>1 DEF Drop, TypeInv, StateTyped
  <2>3. Numbered'
    BY <1>1, <1>3 DEF Drop, TypeInv, StateTyped, Numbered, NodeRecords
  <2> QED
    BY <2>2, <2>3, NodeSteps
<1> QED
  BY <1>2, <1>3

\* The number of a name changes.
LEMMA EntrySteps ==
  ASSUME TypeInv, NEW v \in Vnodes, NEW n \in Entries, NEW i \in 0 .. MaxNodeId,
         node' = [node EXCEPT ![v].entries[n] = i], UNCHANGED <<disk, list, umount>>
  PROVE  StateInv'
<1>1. node[v] \in NodeRecords /\ i \in Nat
  BY NodesAssumption DEF TypeInv, StateTyped
<1>2. [node[v] EXCEPT !.entries[n] = i] \in NodeRecords
  BY <1>1, NodeTyped
<1>3. node' \in [Vnodes -> NodeRecords]
  BY <1>2 DEF TypeInv, StateTyped
<1>4. Numbered'
  BY <1>1 DEF TypeInv, StateTyped, Numbered, NodeRecords, Entries
<1> QED
  BY <1>3, <1>4, NodeSteps

\* An operation goes from one of its steps to another and leaves its hands alone.
Walking(t, l) ==
  /\ pc[t] \notin {"idle", "wild"} \cup Releasing /\ l \in Pcs \ Releasing
  /\ l \in Held \cup Fresh => pc[t] \in Held \cup Fresh
  /\ l \in Searching => pc[t] \in Searching
  /\ l \in Making => op[t].call \notin {"none", "dotdot", "readdir"}
  /\ Goto(t, l) /\ UNCHANGED hands

LEMMA Walks ==
  ASSUME TypeInv, NEW t \in Threads, NEW l \in Pcs, Walking(t, l)
  PROVE  Moved(t)
<1>1. HandsTyped /\ AtWork(t) /\ Asking(t)
  BY DEF TypeInv
<1>2. /\ pc' \in [Threads -> Pcs] /\ op' \in [Threads -> Operation]
      /\ pc'[t] = l /\ op'[t] = IF l = "idle" THEN NoOp ELSE op[t]
      /\ \A s \in Threads : s # t => pc'[s] = pc[s] /\ op'[s] = op[s]
  BY <1>1, GotoMoves DEF Walking
<1>3. UNCHANGED <<dir, res, vp, todo>>
  BY DEF Walking, hands
<1>4. HandsTyped' /\ Others(t)
  BY <1>1, <1>2, <1>3 DEF HandsTyped, Others
<1>5. AtWork(t)'
  BY <1>1, <1>2, <1>3 DEF AtWork, Walking, Held, Fresh, Releasing
<1>6. Asking(t)'
  <2>1. CASE l = "idle"
    BY <1>2, <2>1, NoOpAsks
  <2>2. CASE l # "idle"
    BY <1>1, <1>2, <2>2 DEF Asking, Walking
  <2> QED
    BY <2>1, <2>2
<1> QED
  BY <1>4, <1>5, <1>6 DEF Moved

\* An operation ends, with a vnode for the caller.
LEMMA Returns ==
  ASSUME TypeInv, NEW t \in Threads, pc[t] \notin {"wild"} \cup Releasing,
         NEW v \in Vnodes, Return(t, v), UNCHANGED <<dir, todo>>
  PROVE  Moved(t)
<1>1. HandsTyped /\ AtWork(t) /\ Asking(t)
  BY DEF TypeInv
<1>2. "idle" \in Pcs /\ Goto(t, "idle")
  BY DEF Return, Pcs
<1>3. /\ pc' \in [Threads -> Pcs] /\ op' \in [Threads -> Operation]
      /\ pc'[t] = "idle" /\ op'[t] = NoOp
      /\ \A s \in Threads : s # t => pc'[s] = pc[s] /\ op'[s] = op[s]
  BY <1>1, <1>2, GotoMoves
<1>4. HandsTyped' /\ Others(t)
  BY <1>1, <1>3 DEF HandsTyped, Others, Return
<1>5. AtWork(t)'
  BY <1>1, <1>3 DEF AtWork, Releasing, Held, Fresh
<1> QED
  BY <1>3, <1>4, <1>5, NoOpAsks DEF Moved

\* An operation, or close, goes on to its releases.
LEMMA ReturnsAfter ==
  ASSUME TypeInv, NEW t \in Threads, NEW s \in Seq(Vnodes), s # <<>>, Len(s) =< 2,
         ReturnAfter(t, s), res' \in [Threads -> Vnodes \cup {NoVnode}],
         dir' \in [Threads -> Vnodes \cup {NoVnode}],
         \A r \in Threads : r # t => res'[r] = res[r] /\ dir'[r] = dir[r]
  PROVE  Moved(t)
<1>1. HandsTyped /\ AtWork(t) /\ Asking(t)
  BY DEF TypeInv
<1>2. "rele" \in Pcs /\ Goto(t, "rele")
  BY DEF ReturnAfter, Pcs
<1>3. /\ pc' \in [Threads -> Pcs] /\ op' \in [Threads -> Operation]
      /\ pc'[t] = "rele" /\ op'[t] = op[t]
      /\ \A r \in Threads : r # t => pc'[r] = pc[r] /\ op'[r] = op[r]
  BY <1>1, <1>2, GotoMoves
<1>4. HandsTyped' /\ Others(t) /\ todo'[t] = s
  BY <1>1, <1>3 DEF HandsTyped, Others, ReturnAfter, NoVnode
<1>5. AtWork(t)'
  BY <1>3, <1>4 DEF AtWork, Releasing, Held, Fresh
<1>6. Asking(t)'
  BY <1>1, <1>3 DEF Asking, Searching, Making
<1> QED
  BY <1>4, <1>5, <1>6 DEF Moved

-----------------------------------------------------------------------------
(***************************************************************************)
(* Every action keeps the types.                                           *)
(***************************************************************************)
LEMMA RootTyped ==
  ASSUME TypeInv, NEW t \in Threads, Root(t)
  PROVE  TypeInv'
<1>1. RootV \in Vnodes
  BY NodesAssumption DEF RootV, Vnodes
<1>2. StateInv'
  BY <1>1, CountSteps DEF Root
<1>3. Moved(t)
  BY <1>1, NoOpTyped DEF TypeInv, HandsTyped, Root, Moved, Others, AtWork, Asking,
     Releasing, Held, Fresh, Searching, Making
<1> QED
  BY <1>2, <1>3, TypeAssembled

LEMMA ChdirTyped ==
  ASSUME TypeInv, NEW t \in Threads, Chdir(t)
  PROVE  TypeInv'
<1>1. /\ dir[t] \in Vnodes /\ res[t] \in Vnodes
      /\ dir \in [Threads -> Vnodes \cup {NoVnode}] /\ res \in [Threads -> Vnodes \cup {NoVnode}]
  BY AliveTyped DEF TypeInv, HandsTyped, StateTyped, Chdir
<1>2. Moved(t)
  <2>1. <<dir[t]>> \in Seq(Vnodes) /\ <<dir[t]>> # <<>> /\ Len(<<dir[t]>>) =< 2
    BY <1>1
  <2> QED
    BY <1>1, <2>1, ReturnsAfter DEF Chdir
<1> QED
  BY <1>2, StateKept, TypeAssembled DEF Chdir

LEMMA CloseTyped ==
  ASSUME TypeInv, NEW t \in Threads, Close(t)
  PROVE  TypeInv'
<1>1. /\ res[t] \in Vnodes
      /\ dir \in [Threads -> Vnodes \cup {NoVnode}] /\ res \in [Threads -> Vnodes \cup {NoVnode}]
  BY DEF TypeInv, HandsTyped, Close
<1>2. <<res[t]>> \in Seq(Vnodes) /\ <<res[t]>> # <<>> /\ Len(<<res[t]>>) =< 2
  BY <1>1
<1>3. Moved(t)
  BY <1>1, <1>2, ReturnsAfter DEF Close
<1> QED
  BY <1>3, StateKept, TypeAssembled DEF Close

LEMMA LeaveTyped ==
  ASSUME TypeInv, NEW t \in Threads, Leave(t)
  PROVE  TypeInv'
<1>1. /\ dir[t] \in Vnodes
      /\ dir \in [Threads -> Vnodes \cup {NoVnode}] /\ res \in [Threads -> Vnodes \cup {NoVnode}]
  BY DEF TypeInv, HandsTyped, Leave
<1>2. <<dir[t]>> \in Seq(Vnodes) /\ <<dir[t]>> # <<>> /\ Len(<<dir[t]>>) =< 2
  BY <1>1
<1>3. Moved(t)
  BY <1>1, <1>2, ReturnsAfter DEF Leave
<1> QED
  BY <1>3, StateKept, TypeAssembled DEF Leave

LEMMA StartTyped ==
  ASSUME TypeInv, NEW t \in Threads, NEW c \in AllCalls \ {"unmount"}, NEW n \in Entries,
         n \in Names <=> c \notin {"dotdot", "readdir"}, Start(t, c, n)
  PROVE  TypeInv'
<1> DEFINE l == CASE c = "mkdir" -> "askMkdir" [] c = "readdir" -> "list" [] OTHER -> "find"
           o == [NoOp EXCEPT !.call = c, !.name = n]
<1>1. HandsTyped /\ AtWork(t) /\ Asking(t) /\ pc[t] = "idle" /\ dir[t] \in Vnodes
  BY DEF TypeInv, HandsTyped, Start, At
<1>2. /\ l \in {"askMkdir", "list", "find"} /\ (l = "askMkdir" => c = "mkdir")
      /\ (l = "find" => c \notin {"mkdir", "readdir"})
  OBVIOUS
<1>3. /\ o \in Operation /\ o.call = c /\ o.name = n /\ o.found = NoId
  BY NoOpTyped DEF Operation, NoOp
<1>4. Go(t, l, o) /\ UNCHANGED <<dir, res, vp, todo>>
  BY DEF Start, hands
<1> HIDE DEF l, o
<1>5. l \in Pcs
  BY <1>2 DEF Pcs
<1>6. /\ pc' \in [Threads -> Pcs] /\ op' \in [Threads -> Operation]
      /\ pc'[t] = l /\ op'[t] = o
      /\ \A s \in Threads : s # t => pc'[s] = pc[s] /\ op'[s] = op[s]
  BY <1>1, <1>3, <1>4, <1>5, GoMoves
<1>7. HandsTyped' /\ Others(t)
  BY <1>1, <1>4, <1>6 DEF HandsTyped, Others
<1>8. AtWork(t)'
  BY <1>1, <1>2, <1>4, <1>6 DEF AtWork, Releasing, Held, Fresh
<1>9. Asking(t)'
  <2>1. NoId \in 0 .. MaxNodeId
    BY NodesAssumption DEF NoId
  <2> QED
    BY <1>2, <1>3, <1>6, <2>1 DEF Asking, Searching, Making, AllCalls
<1> QED
  BY <1>7, <1>8, <1>9, StateKept, TypeAssembled DEF Start, Moved

LEMMA CallTyped ==
  ASSUME TypeInv, NEW t \in Threads, Call(t)
  PROVE  TypeInv'
<1>1. ASSUME NEW c \in AllCalls \ {"dotdot", "readdir", "unmount"}, NEW n \in Names, Start(t, c, n)
      PROVE  TypeInv'
  BY <1>1, StartTyped DEF Entries
<1>2. ASSUME NEW c \in {"dotdot", "readdir"}, Start(t, c, "..")
      PROVE  TypeInv'
  BY <1>2, StartTyped, NodesAssumption DEF Entries, AllCalls
<1> QED
  BY <1>1, <1>2 DEF Call

\* iumfs_find_nodeid_by_name brings a number into the operation.
LEMMA FindTyped ==
  ASSUME TypeInv, NEW t \in Threads, iumfs_find_nodeid_by_name(t)
  PROVE  TypeInv'
<1> DEFINE id == node[dir[t]].entries[op[t].name]
           l == IF id = NoId THEN "noent" ELSE "get"
           o == [op[t] EXCEPT !.found = id]
<1>1. /\ HandsTyped /\ AtWork(t) /\ Asking(t) /\ pc[t] = "find" /\ dir[t] \in Vnodes
      /\ op[t] \in Operation
  BY DEF TypeInv, HandsTyped, AtWork, Releasing, iumfs_find_nodeid_by_name, At
<1>2. node[dir[t]] \in NodeRecords /\ op[t].name \in Entries
  BY <1>1 DEF TypeInv, StateTyped, Operation
<1>3. id \in Nat /\ (op[t].name \in Names => id \in 0 .. MaxNodeId)
  BY <1>1, <1>2 DEF TypeInv, Numbered, NodeRecords
<1>4. Go(t, l, o) /\ l \in {"noent", "get"} /\ UNCHANGED <<dir, res, vp, todo>>
  BY DEF iumfs_find_nodeid_by_name, hands
<1> HIDE DEF id
<1>5. o \in Operation /\ o.call = op[t].call /\ o.name = op[t].name /\ o.found = id
  BY <1>1, <1>3 DEF Operation
<1> HIDE DEF l, o
<1>6. l \in Pcs
  BY <1>4 DEF Pcs
<1>7. /\ pc' \in [Threads -> Pcs] /\ op' \in [Threads -> Operation]
      /\ pc'[t] = l /\ op'[t] = o
      /\ \A s \in Threads : s # t => pc'[s] = pc[s] /\ op'[s] = op[s]
  BY <1>1, <1>4, <1>5, <1>6, GoMoves
<1>8. HandsTyped' /\ Others(t)
  BY <1>1, <1>4, <1>7 DEF HandsTyped, Others
<1>9. AtWork(t)'
  BY <1>1, <1>4, <1>7 DEF AtWork, Releasing, Held, Fresh
<1>10. Asking(t)'
  BY <1>1, <1>3, <1>4, <1>5, <1>7 DEF Asking, Searching, Making
<1> QED
  BY <1>8, <1>9, <1>10, StateKept, TypeAssembled DEF Moved, iumfs_find_nodeid_by_name

\* The first vnode with the number.
Found(t) == list[Min({i \in DOMAIN list : node[list[i]].id = op[t].found})]

LEMMA FoundTyped ==
  ASSUME TypeInv, NEW t \in Threads,
         {i \in DOMAIN list : node[list[i]].id = op[t].found} # {}
  PROVE  Found(t) \in Alive /\ Found(t) \in Vnodes /\ node[Found(t)].id = op[t].found
<1> DEFINE hits == {i \in DOMAIN list : node[list[i]].id = op[t].found}
<1>1. hits \in SUBSET Nat
  BY DEF TypeInv, StateTyped
<1>2. Min(hits) \in hits
  BY <1>1, MinOfNat
<1> QED
  BY <1>2, AliveTyped DEF TypeInv, StateTyped, Found

\* What iumfs_find_vnode_by_nodeid does with a vnode it finds.
Taken(t, v) ==
  /\ VN_HOLD(v)
  /\ \/ Return(t, v) /\ UNCHANGED todo /\ op[t].call \in {"lookup", "dotdot", "create"}
     \/ ReturnAfter(t, <<v, v>>) /\ UNCHANGED res /\ op[t].call = "createExcl"
     \/ /\ vp' = [vp EXCEPT ![t] = v] /\ UNCHANGED <<res, todo>>
        /\ op[t].call \in {"remove", "rmdir"}
        /\ \/ Goto(t, "askRemove") /\ op[t].call = "remove" /\ node[v].type = "file"
           \/ Goto(t, "empty") /\ op[t].call = "rmdir" /\ node[v].type = "dir" /\ v # res[t]
           \/ Goto(t, "giveUp")

LEMMA Takes ==
  ASSUME TypeInv, NEW t \in Threads, iumfs_find_vnode_by_nodeid(t)
  PROVE  /\ pc[t] = "get" /\ UNCHANGED <<disk, list, umount, dir>>
         /\ \/ /\ Goto(t, "noent") /\ UNCHANGED <<node, res, vp, todo>>
               /\ \A v \in Alive : node[v].id # op[t].found
            \/ Found(t) \in Alive /\ node[Found(t)].id = op[t].found /\ Taken(t, Found(t))
<1>1. pc[t] = "get" /\ Asking(t) /\ UNCHANGED <<disk, list, umount, dir>>
  BY DEF iumfs_find_vnode_by_nodeid, At, TypeInv
<1>2. op[t].call \in {"lookup", "dotdot", "create", "createExcl", "remove", "rmdir"}
  BY <1>1 DEF Asking, Searching
<1> DEFINE hits == {i \in DOMAIN list : node[list[i]].id = op[t].found}
<1>3. CASE hits = {}
  BY <1>1, <1>3 DEF iumfs_find_vnode_by_nodeid, Alive
<1>4. CASE hits # {}
  <2>1. Found(t) \in Alive /\ node[Found(t)].id = op[t].found
    BY <1>4, FoundTyped
  <2>2. Found(t) = list[Min(hits)]
    BY DEF Found
  <2> DEFINE v == list[Min(hits)]
  <2>3. VN_HOLD(v)
    BY <1>4 DEF iumfs_find_vnode_by_nodeid
  <2>4. CASE op[t].call \in {"lookup", "dotdot", "create"}
    BY <1>1, <1>4, <2>1, <2>2, <2>3, <2>4 DEF iumfs_find_vnode_by_nodeid, Taken
  <2>5. CASE op[t].call = "createExcl"
    BY <1>1, <1>4, <2>1, <2>2, <2>3, <2>5 DEF iumfs_find_vnode_by_nodeid, Taken
  <2>6. CASE op[t].call \in {"remove", "rmdir"}
    <3> DEFINE l == CASE op[t].call = "remove" /\ node[v].type = "file" -> "askRemove"
                      [] op[t].call = "rmdir" /\ node[v].type = "dir" /\ v # res[t] -> "empty"
                      [] OTHER -> "giveUp"
    <3>1. vp' = [vp EXCEPT ![t] = v] /\ Goto(t, l) /\ UNCHANGED <<res, todo>>
      BY <1>4, <2>6 DEF iumfs_find_vnode_by_nodeid
    <3>2. \/ l = "askRemove" /\ op[t].call = "remove" /\ node[v].type = "file"
          \/ l = "empty" /\ op[t].call = "rmdir" /\ node[v].type = "dir" /\ v # res[t]
          \/ l = "giveUp"
      OBVIOUS
    <3> HIDE DEF l
    <3> QED
      BY <1>1, <2>1, <2>2, <2>3, <2>6, <3>1, <3>2 DEF Taken
  <2> QED
    BY <1>2, <2>4, <2>5, <2>6
<1> QED
  BY <1>3, <1>4

LEMMA GetTyped ==
  ASSUME TypeInv, NEW t \in Threads, iumfs_find_vnode_by_nodeid(t)
  PROVE  TypeInv'
<1>1. /\ pc[t] = "get" /\ UNCHANGED <<disk, list, umount, dir>>
      /\ \/ Goto(t, "noent") /\ UNCHANGED <<node, res, vp, todo>>
         \/ Found(t) \in Alive /\ node[Found(t)].id = op[t].found /\ Taken(t, Found(t))
  BY Takes
<1>2. HandsTyped /\ AtWork(t) /\ Asking(t) /\ {"noent", "askRemove", "empty", "giveUp"} \subseteq Pcs
  BY DEF TypeInv, Pcs
<1>3. CASE Goto(t, "noent") /\ UNCHANGED <<node, res, vp, todo>>
  <2>1. Walking(t, "noent")
    BY <1>1, <1>2, <1>3 DEF Walking, Releasing, Held, Fresh, Searching, Making, hands
  <2>2. Moved(t)
    BY <1>2, <2>1, Walks
  <2> QED
    BY <1>1, <1>3, <2>2, StateKept, TypeAssembled DEF fs
<1>4. ASSUME NEW v \in Alive, Taken(t, v)
      PROVE  TypeInv'
  <2>1. v \in Vnodes
    BY AliveTyped DEF TypeInv, StateTyped
  <2>2. StateInv'
    BY <1>1, <1>4, <2>1, CountSteps DEF Taken
  <2>3. CASE Return(t, v) /\ UNCHANGED todo
    <3>1. Moved(t)
      BY <1>1, <2>1, <2>3, Returns DEF Releasing
    <3> QED
      BY <2>2, <3>1, TypeAssembled
  <2>4. CASE ReturnAfter(t, <<v, v>>) /\ UNCHANGED res
    <3>1. <<v, v>> \in Seq(Vnodes) /\ <<v, v>> # <<>> /\ Len(<<v, v>>) =< 2
      BY <2>1
    <3>2. Moved(t)
      BY <1>1, <1>2, <2>4, <3>1, ReturnsAfter DEF HandsTyped
    <3> QED
      BY <2>2, <3>2, TypeAssembled
  <2>5. ASSUME NEW l \in {"askRemove", "empty", "giveUp"}, Goto(t, l),
               vp' = [vp EXCEPT ![t] = v], UNCHANGED <<res, todo>>
        PROVE  TypeInv'
    <3>1. /\ pc' \in [Threads -> Pcs] /\ op' \in [Threads -> Operation]
          /\ pc'[t] = l /\ op'[t] = op[t]
          /\ \A s \in Threads : s # t => pc'[s] = pc[s] /\ op'[s] = op[s]
      BY <1>2, <2>5, GotoMoves
    <3>2. HandsTyped' /\ Others(t) /\ vp'[t] = v
      BY <1>1, <1>2, <2>1, <2>5, <3>1 DEF HandsTyped, Others
    <3>3. AtWork(t)'
      BY <1>1, <1>2, <2>1, <2>5, <3>1, <3>2 DEF AtWork, Releasing, Held, Fresh
    <3>4. Asking(t)'
      BY <1>2, <3>1 DEF Asking, Searching, Making
    <3> QED
      BY <2>2, <3>2, <3>3, <3>4, TypeAssembled DEF Moved
  <2> QED
    BY <1>4, <2>3, <2>4, <2>5 DEF Taken
<1> QED
  BY <1>1, <1>3, <1>4

\* The steps that only choose the next step.
LEMMA NotCachedTyped ==
  ASSUME TypeInv, NEW t \in Threads, NotCached(t)
  PROVE  TypeInv'
<1>1. AtWork(t) /\ Asking(t) /\ pc[t] = "noent"
  BY DEF TypeInv, NotCached, At
<1>2. ASSUME NEW l \in {"askLookup", "idle"}, Goto(t, l),
             l = "askLookup" => op[t].call \in {"lookup", "create", "createExcl"}
      PROVE  Walking(t, l)
  BY <1>1, <1>2 DEF Walking, NotCached, Pcs, Releasing, Held, Fresh, Searching, Making
<1>3. \E l \in {"askLookup", "idle"} : Walking(t, l)
  BY <1>2 DEF NotCached
<1>4. Moved(t)
  BY <1>3, Walks DEF Pcs
<1> QED
  BY <1>4, StateKept, TypeAssembled DEF NotCached

\* How a lookup fails.
LEMMA Fails ==
  ASSUME TypeInv, NEW t \in Threads, pc[t] \in {"askLookup", "allocFile", "allocDir", "link"},
         Goto(t, LookupFailed(t)), UNCHANGED hands
  PROVE  Walking(t, LookupFailed(t)) /\ LookupFailed(t) \in Pcs
<1>1. AtWork(t) /\ Asking(t)
  BY DEF TypeInv
<1>2. /\ LookupFailed(t) \in {"askCreate", "idle"}
      /\ LookupFailed(t) = "askCreate" => op[t].call \in {"create", "createExcl"}
  BY DEF LookupFailed
<1> QED
  BY <1>1, <1>2 DEF Walking, Pcs, Releasing, Held, Fresh, Searching, Making

LEMMA AskLookupTyped ==
  ASSUME TypeInv, NEW t \in Threads, AskLookup(t)
  PROVE  TypeInv'
<1>1. AtWork(t) /\ Asking(t) /\ pc[t] = "askLookup" /\ UNCHANGED hands
  BY DEF TypeInv, AskLookup, At
<1>2. ASSUME NEW l \in {"allocDir", "allocFile"}, Goto(t, l)
      PROVE  Walking(t, l) /\ l \in Pcs
  BY <1>1, <1>2 DEF Asking, Walking, Pcs, Releasing, Held, Fresh, Searching, Making
<1>3. \E l \in Pcs : Walking(t, l)
  BY <1>1, <1>2, Fails DEF AskLookup
<1>4. Moved(t)
  BY <1>3, Walks
<1> QED
  BY <1>4, StateKept, TypeAssembled DEF AskLookup

LEMMA AllocFailsTyped ==
  ASSUME TypeInv, NEW t \in Threads, AllocFails(t)
  PROVE  TypeInv'
<1>1. AtWork(t) /\ Asking(t) /\ UNCHANGED hands
  BY DEF TypeInv, AllocFails
<1>2. ASSUME At(t, "allocFile"), Goto(t, LookupFailed(t))
      PROVE  Moved(t)
  BY <1>1, <1>2, Fails, Walks DEF At
<1>3. ASSUME At(t, "allocNew"), Goto(t, "idle")
      PROVE  Moved(t)
  <2>1. Walking(t, "idle") /\ "idle" \in Pcs
    BY <1>1, <1>3 DEF At, Walking, Pcs, Releasing, Held, Fresh, Searching, Making
  <2> QED
    BY <2>1, Walks
<1>4. Moved(t)
  BY <1>2, <1>3 DEF AllocFails
<1> QED
  BY <1>4, StateKept, TypeAssembled DEF AllocFails

\* iumfs_alloc_node: one more vnode in the list, with a number for a name.
LEMMA Allocates ==
  ASSUME TypeInv, NEW t \in Threads, NEW type \in {"file", "dir"}, NEW id \in 0 .. MaxNodeId,
         Alloc(t, type, id)
  PROVE  \E v \in Unused, i \in NodeIds :
           /\ node' = [node EXCEPT ![v] = NewNode(type, i)] /\ list' = Append(list, v)
           /\ vp' = [vp EXCEPT ![t] = v]
           /\ i = id \/ (id = NoId /\ i \in FreshId)
<1>1. Unused \in SUBSET Nat /\ FreshId \in SUBSET Nat
  BY DEF Unused, FreshId, Vnodes, NodeIds
<1>2. Min(Unused) \in Unused /\ Min(FreshId) \in FreshId
  BY <1>1, MinOfNat DEF Alloc
<1>3. (IF id = NoId THEN Min(FreshId) ELSE id) \in NodeIds
  BY <1>2, NodesAssumption DEF FreshId, NodeIds, NoId
<1> QED
  BY <1>2, <1>3 DEF Alloc

LEMMA AllocState ==
  ASSUME TypeInv, NEW type \in {"file", "dir"}, NEW v \in Unused, NEW i \in NodeIds,
         node' = [node EXCEPT ![v] = NewNode(type, i)], list' = Append(list, v),
         UNCHANGED <<disk, umount>>
  PROVE  StateInv'
<1>1. v \in Vnodes \ Alive /\ list \in Seq(Vnodes) /\ Once /\ node \in [Vnodes -> NodeRecords]
  BY DEF Unused, TypeInv, StateTyped
<1>2. list' \in Seq(Vnodes) /\ Once'
  BY <1>1, Listed
<1>3. /\ NewNode(type, i) \in NodeRecords
      /\ \A n \in Names : NewNode(type, i).entries[n] = NoId
  BY NewNodeTyped
<1>4. node' \in [Vnodes -> NodeRecords]
  BY <1>1, <1>3
<1>5. Numbered'
  BY <1>1, <1>3, NodesAssumption DEF TypeInv, Numbered, NoId
<1> QED
  BY <1>2, <1>4, <1>5 DEF StateInv, StateTyped, TypeInv, disk, umount

\* The thread goes on to name it.
LEMMA AllocMoves ==
  ASSUME TypeInv, NEW t \in Threads, pc[t] \in {"allocFile", "allocNew", "allocDir"},
         NEW v \in Vnodes, vp' = [vp EXCEPT ![t] = v],
         \/ Goto(t, "dots")
         \/ Goto(t, "name")
         \/ Go(t, "name", [op[t] EXCEPT !.call = "new", !.found = NoId]),
         UNCHANGED <<dir, res, todo>>
  PROVE  Moved(t)
<1>1. HandsTyped /\ AtWork(t) /\ Asking(t) /\ {"dots", "name"} \subseteq Pcs /\ op[t] \in Operation
  BY DEF TypeInv, Pcs, HandsTyped
<1> DEFINE o == [op[t] EXCEPT !.call = "new", !.found = NoId]
<1>2. o \in Operation /\ o.call = "new" /\ o.found = NoId /\ o.name = op[t].name
  BY <1>1 DEF Operation, NoId
<1> HIDE DEF o
<1>3. /\ pc' \in [Threads -> Pcs] /\ op' \in [Threads -> Operation]
      /\ pc'[t] \in {"dots", "name"} /\ (op'[t] = op[t] \/ op'[t] = o)
      /\ \A s \in Threads : s # t => pc'[s] = pc[s] /\ op'[s] = op[s]
  <2>1. ASSUME NEW l \in {"dots", "name"}, Goto(t, l)
        PROVE  /\ pc' \in [Threads -> Pcs] /\ op' \in [Threads -> Operation]
               /\ pc'[t] = l /\ op'[t] = op[t]
               /\ \A s \in Threads : s # t => pc'[s] = pc[s] /\ op'[s] = op[s]
    BY <1>1, <2>1, GotoMoves
  <2>2. CASE Go(t, "name", o)
    BY <1>1, <1>2, <2>2, GoMoves
  <2> QED
    BY <2>1, <2>2 DEF o
<1>4. HandsTyped' /\ Others(t) /\ vp'[t] = v
  BY <1>1, <1>3 DEF HandsTyped, Others
<1>5. AtWork(t)'
  BY <1>1, <1>3, <1>4 DEF AtWork, Releasing, Held, Fresh
<1>6. Asking(t)'
  BY <1>1, <1>2, <1>3, NodesAssumption DEF Asking, Searching, Making, NoId
<1> QED
  BY <1>4, <1>5, <1>6 DEF Moved

LEMMA AllocTyped ==
  ASSUME TypeInv, NEW t \in Threads, pc[t] \in {"allocFile", "allocNew", "allocDir"},
         NEW type \in {"file", "dir"}, NEW id \in {NoId, op[t].found}, Alloc(t, type, id),
         \/ Goto(t, "dots")
         \/ Goto(t, "name")
         \/ Go(t, "name", [op[t] EXCEPT !.call = "new", !.found = NoId]),
         UNCHANGED <<disk, umount, dir, res, todo>>
  PROVE  TypeInv'
<1>1. op[t].name \in Names /\ id \in 0 .. MaxNodeId
  BY NodesAssumption DEF TypeInv, Asking, Making, NoId
<1>2. PICK v \in Unused, i \in NodeIds :
         /\ node' = [node EXCEPT ![v] = NewNode(type, i)] /\ list' = Append(list, v)
         /\ vp' = [vp EXCEPT ![t] = v]
  BY <1>1, Allocates
<1>3. v \in Vnodes
  BY DEF Unused
<1>4. StateInv'
  BY <1>2, AllocState
<1>5. Moved(t)
  BY <1>2, <1>3, AllocMoves
<1> QED
  BY <1>4, <1>5, TypeAssembled

LEMMA MakeDirectoryTyped ==
  ASSUME TypeInv, NEW t \in Threads, iumfs_make_directory(t)
  PROVE  TypeInv'
<1>1. pc[t] = "allocDir" /\ UNCHANGED <<disk, umount, dir, res, todo>>
  BY DEF iumfs_make_directory, At
<1>2. CASE Alloc(t, "dir", op[t].found) /\ Goto(t, "dots")
  BY <1>1, <1>2, AllocTyped
<1>3. CASE Goto(t, LookupFailed(t)) /\ UNCHANGED <<fs, vp>>
  <2>1. Moved(t)
    BY <1>1, <1>3, Fails, Walks DEF hands
  <2> QED
    BY <1>1, <1>3, <2>1, StateKept, TypeAssembled
<1> QED
  BY <1>2, <1>3 DEF iumfs_make_directory

\* A thread goes wild.
LEMMA GoesWild ==
  ASSUME TypeInv, NEW t \in Threads, Goto(t, "wild"), UNCHANGED hands
  PROVE  Moved(t)
<1>1. HandsTyped /\ AtWork(t) /\ Asking(t) /\ "wild" \in Pcs
  BY DEF TypeInv, Pcs
<1>2. /\ pc' \in [Threads -> Pcs] /\ op' \in [Threads -> Operation]
      /\ pc'[t] = "wild" /\ op'[t] = op[t]
      /\ \A s \in Threads : s # t => pc'[s] = pc[s] /\ op'[s] = op[s]
  BY <1>1, GotoMoves
<1>3. HandsTyped' /\ Others(t)
  BY <1>1, <1>2 DEF HandsTyped, Others, hands
<1>4. AtWork(t)' /\ Asking(t)'
  BY <1>1, <1>2 DEF AtWork, Asking, Releasing, Held, Fresh, Searching, Making, hands
<1> QED
  BY <1>3, <1>4 DEF Moved

LEMMA AddDotsTyped ==
  ASSUME TypeInv, NEW t \in Threads, AddDots(t)
  PROVE  TypeInv'
<1>1. /\ AtWork(t) /\ Asking(t) /\ pc[t] = "dots" /\ UNCHANGED <<disk, list, umount, hands>>
      /\ dir[t] \in Vnodes /\ vp[t] \in Vnodes
  BY DEF TypeInv, AddDots, At, AtWork, Asking, Making, Fresh, Releasing
<1>2. CASE node' = iumfs_add_entry_to_dir(vp[t], "..", node[dir[t]].id) /\ Goto(t, "name")
  <2>1. node[dir[t]].id \in 0 .. MaxNodeId /\ ".." \in Entries
    <3>1. node[dir[t]].id \in NodeIds
      BY <1>1, NodeTyped DEF TypeInv, StateTyped
    <3> QED
      BY <3>1, NodesAssumption DEF NodeIds, Entries
  <2>2. StateInv'
    BY <1>1, <1>2, <2>1, EntrySteps, StateKept DEF iumfs_add_entry_to_dir, fs
  <2>3. Walking(t, "name") /\ "name" \in Pcs
    BY <1>1, <1>2 DEF Asking, Walking, Pcs, Releasing, Held, Fresh, Searching, Making
  <2> QED
    BY <2>2, <2>3, Walks, TypeAssembled
<1>3. CASE Goto(t, "wild") /\ UNCHANGED node
  BY <1>1, <1>3, GoesWild, StateKept, TypeAssembled DEF fs
<1> QED
  BY <1>2, <1>3 DEF AddDots

\* It enters no name.
LEMMA AddDotsIs ==
  ASSUME TypeInv, NEW t \in Threads, AddDots(t)
  PROVE  /\ pc[t] = "dots" /\ vp[t] \in Vnodes
         /\ UNCHANGED <<disk, list, umount, dir, res, vp, todo>>
         /\ pc'[t] \in {"name", "wild"} /\ op'[t] = op[t]
         /\ \A s \in Threads : s # t => pc'[s] = pc[s] /\ op'[s] = op[s]
         /\ \A w \in Vnodes :
              /\ node'[w].id = node[w].id /\ node'[w].path = node[w].path
              /\ node'[w].count = node[w].count /\ node'[w].type = node[w].type
              /\ \A n \in Names : node'[w].entries[n] = node[w].entries[n]
<1>1. /\ pc[t] = "dots" /\ UNCHANGED <<disk, list, umount, dir, res, vp, todo>>
      /\ vp[t] \in Vnodes /\ HandsTyped /\ {"name", "wild"} \subseteq Pcs
  BY DEF TypeInv, AddDots, At, AtWork, Fresh, Pcs, hands
<1>2. Goto(t, "name") \/ Goto(t, "wild")
  BY DEF AddDots
<1>3. CASE node' = node
  BY <1>1, <1>2, <1>3, GotoMoves
<1>4. CASE node' = [node EXCEPT ![vp[t]].entries[".."] = node[dir[t]].id]
  <2> DEFINE i == node[dir[t]].id
  <2>1. node \in [Vnodes -> NodeRecords]
    BY DEF TypeInv, StateTyped
  <2>2. \A n \in Names : n # ".." /\ n \in Entries
    BY NodesAssumption DEF Entries
  <2>3. node' = [node EXCEPT ![vp[t]].entries[".."] = i]
    BY <1>4
  <2> HIDE DEF i
  <2>4. ASSUME NEW w \in Vnodes
        PROVE  /\ node'[w].id = node[w].id /\ node'[w].path = node[w].path
               /\ node'[w].count = node[w].count /\ node'[w].type = node[w].type
               /\ \A n \in Names : node'[w].entries[n] = node[w].entries[n]
    <3>1. node[w] \in NodeRecords /\ node[w].entries \in [Entries -> Nat]
      BY <2>1 DEF NodeRecords
    <3>2. node'[w] = IF w = vp[t] THEN [node[w] EXCEPT !.entries[".."] = i] ELSE node[w]
      BY <2>1, <2>3
    <3> QED
      BY <2>2, <3>1, <3>2 DEF NodeRecords
  <2> QED
    BY <1>1, <1>2, <2>4, GotoMoves
<1> QED
  BY <1>3, <1>4 DEF AddDots, iumfs_add_entry_to_dir

\* The path of the target.
LEMMA TargetTyped ==
  ASSUME TypeInv, NEW t \in Threads, dir[t] \in Vnodes, op[t].name \in Names
  PROVE  Target(t) \in Seq(Names)
<1>1. node[dir[t]].path \in Seq(Names)
  BY NodeTyped DEF TypeInv, StateTyped
<1> QED
  BY <1>1 DEF Target

LEMMA SetNameTyped ==
  ASSUME TypeInv, NEW t \in Threads, SetName(t)
  PROVE  TypeInv'
<1>1. /\ AtWork(t) /\ Asking(t) /\ pc[t] = "name" /\ op[t].name \in Names
      /\ dir[t] \in Vnodes /\ vp[t] \in Vnodes
  BY DEF TypeInv, SetName, At, AtWork, Asking, Making, Fresh, Releasing
<1> DEFINE p == Target(t)
           r == [node[vp[t]] EXCEPT !.path = p]
<1>2. /\ node[vp[t]] \in NodeRecords /\ node[dir[t]] \in NodeRecords
      /\ node \in [Vnodes -> NodeRecords]
  BY <1>1 DEF TypeInv, StateTyped
<1>3. p \in Seq(Names)
  BY <1>1, TargetTyped
<1>4. node' = [node EXCEPT ![vp[t]] = r]
  BY DEF SetName
<1> HIDE DEF p
<1>5. r \in NodeRecords
  BY <1>2, <1>3, NodeTyped
<1>6. \A n \in Names : r.entries[n] = node[vp[t]].entries[n]
  BY <1>2, NodesAssumption DEF NodeRecords, Entries
<1> HIDE DEF r
<1>7. node' \in [Vnodes -> NodeRecords] /\ Numbered'
  BY <1>1, <1>2, <1>4, <1>5, <1>6 DEF TypeInv, Numbered
<1>8. StateInv'
  BY <1>7, NodeSteps DEF SetName
<1>9. ASSUME NEW l \in {"link", "ref"}, Goto(t, l)
      PROVE  Walking(t, l) /\ l \in Pcs
  BY <1>1, <1>9 DEF SetName, Asking, Walking, Pcs, Releasing, Held, Fresh, Searching, Making
<1>10. Moved(t)
  BY <1>9, Walks DEF SetName
<1> QED
  BY <1>8, <1>10, TypeAssembled

LEMMA LinkTyped ==
  ASSUME TypeInv, NEW t \in Threads, Link(t)
  PROVE  TypeInv'
<1>1. /\ AtWork(t) /\ Asking(t) /\ pc[t] = "link" /\ op[t].name \in Names
      /\ dir[t] \in Vnodes /\ vp[t] \in Vnodes /\ HandsTyped
  BY DEF TypeInv, Link, At, AtWork, Asking, Making, Fresh, Releasing
<1>2. UNCHANGED <<disk, list, umount, dir, res>>
  BY DEF Link
<1>3. CASE /\ node' = iumfs_add_entry_to_dir(dir[t], op[t].name, node[vp[t]].id)
           /\ Goto(t, "ref") /\ UNCHANGED <<vp, todo>>
  <2>1. node[vp[t]].id \in 0 .. MaxNodeId
    <3>1. node[vp[t]].id \in NodeIds
      BY <1>1, NodeTyped DEF TypeInv, StateTyped
    <3> QED
      BY <3>1, NodesAssumption DEF NodeIds
  <2>2. StateInv'
    BY <1>1, <1>2, <1>3, <2>1, EntrySteps, StateKept DEF iumfs_add_entry_to_dir, Entries, fs
  <2>3. Walking(t, "ref") /\ "ref" \in Pcs
    BY <1>1, <1>2, <1>3 DEF Walking, hands, Pcs, Releasing, Held, Fresh, Searching, Making
  <2> QED
    BY <2>2, <2>3, Walks, TypeAssembled
<1>4. CASE UNCHANGED node /\ ReturnAfter(t, <<vp[t]>>)
  <2>1. <<vp[t]>> \in Seq(Vnodes) /\ <<vp[t]>> # <<>> /\ Len(<<vp[t]>>) =< 2
    BY <1>1
  <2>2. Moved(t)
    BY <1>1, <1>2, <1>4, <2>1, ReturnsAfter DEF HandsTyped
  <2> QED
    BY <1>2, <1>4, <2>2, StateKept, TypeAssembled DEF fs
<1>5. CASE /\ UNCHANGED <<node, todo>> /\ Goto(t, LookupFailed(t))
           /\ vp' = [vp EXCEPT ![t] = NoVnode]
  <2>1. /\ LookupFailed(t) \in {"askCreate", "idle"}
        /\ LookupFailed(t) = "askCreate" => op[t].call \in {"create", "createExcl"}
    BY DEF LookupFailed
  <2> DEFINE l == LookupFailed(t)
  <2> HIDE DEF l
  <2>2. l \in Pcs /\ l \in {"askCreate", "idle"}
    BY <2>1 DEF Pcs, l
  <2>3. /\ pc' \in [Threads -> Pcs] /\ op' \in [Threads -> Operation]
        /\ pc'[t] = l /\ op'[t] = IF l = "idle" THEN NoOp ELSE op[t]
        /\ \A s \in Threads : s # t => pc'[s] = pc[s] /\ op'[s] = op[s]
    BY <1>1, <1>5, <2>2, GotoMoves DEF l
  <2>4. HandsTyped' /\ Others(t)
    BY <1>1, <1>2, <1>5, <2>3 DEF HandsTyped, Others
  <2>5. AtWork(t)'
    BY <1>1, <1>2, <1>5, <2>2, <2>3 DEF AtWork, Releasing, Held, Fresh
  <2>6. Asking(t)'
    <3>1. CASE l = "idle"
      BY <2>3, <3>1, NoOpAsks
    <3>2. CASE l = "askCreate"
      BY <1>1, <2>3, <3>2 DEF Asking, Searching, Making
    <3> QED
      BY <2>2, <3>1, <3>2
  <2> QED
    BY <1>2, <1>5, <2>4, <2>5, <2>6, StateKept, TypeAssembled DEF Moved, fs
<1> QED
  BY <1>3, <1>4, <1>5 DEF Link

LEMMA RefTyped ==
  ASSUME TypeInv, NEW t \in Threads, Ref(t)
  PROVE  TypeInv'
<1>1. pc[t] = "ref" /\ vp[t] \in Vnodes /\ HandsTyped /\ UNCHANGED <<disk, list, umount, dir>>
  BY DEF TypeInv, Ref, At, AtWork, Fresh
<1>2. StateInv'
  BY <1>1, CountSteps DEF Ref
<1>3. ASSUME ReturnAfter(t, <<vp[t], vp[t]>>), UNCHANGED res
      PROVE  Moved(t)
  <2>1. <<vp[t], vp[t]>> \in Seq(Vnodes) /\ <<vp[t], vp[t]>> # <<>> /\ Len(<<vp[t], vp[t]>>) =< 2
    BY <1>1
  <2> QED
    BY <1>1, <1>3, <2>1, ReturnsAfter DEF HandsTyped
<1>4. ASSUME Return(t, vp[t]), UNCHANGED todo
      PROVE  Moved(t)
  BY <1>1, <1>4, Returns DEF Releasing
<1>5. Moved(t)
  BY <1>3, <1>4 DEF Ref
<1> QED
  BY <1>2, <1>5, TypeAssembled

\* What the daemon does for a request, by its kind.
LEMMA Processed ==
  \A p : /\ Process([kind |-> "create", path |-> p]) = process_create_request(p)
         /\ Process([kind |-> "mkdir", path |-> p]) = process_mkdir_request(p)
         /\ Process([kind |-> "remove", path |-> p]) = process_remove_request(p)
         /\ Process([kind |-> "rmdir", path |-> p]) = process_rmdir_request(p)
BY DEF Process

LEMMA Executes ==
  ASSUME TypeInv, NEW r \in Requests, Execute(r)
  PROVE  server' \in [Paths -> {"none", "file", "dir"}]
<1>1. server \in [Paths -> {"none", "file", "dir"}]
  BY DEF TypeInv, StateTyped
<1>2. r.kind \in {"create", "mkdir", "remove", "rmdir"}
  BY DEF Requests
<1>3. PICK what \in {"none", "file", "dir"} : Process(r).done = [server EXCEPT ![r.path] = what]
  BY <1>2 DEF Process, process_create_request, process_mkdir_request, process_remove_request,
              process_rmdir_request
<1> QED
  BY <1>1, <1>3 DEF Execute

LEMMA NotAnswered ==
  ASSUME TypeInv, NEW r \in Requests, Unanswered(r)
  PROVE  server' \in [Paths -> {"none", "file", "dir"}] /\ late' \subseteq Requests
<1>1. server \in [Paths -> {"none", "file", "dir"}] /\ late \subseteq Requests
  BY DEF TypeInv, StateTyped
<1>2. CASE Execute(r) /\ UNCHANGED late
  BY <1>1, <1>2, Executes
<1>3. CASE late' = late \cup {r} /\ UNCHANGED server
  BY <1>1, <1>3
<1> QED
  BY <1>2, <1>3 DEF Unanswered

\* A request changes the server, and ends in one of two steps or is sent again.
LEMMA Asks ==
  ASSUME TypeInv, NEW t \in Threads, NEW kind \in {"create", "mkdir", "remove", "rmdir"},
         NEW p \in Seq(Names),
         NEW ok \in Pcs, NEW failed \in Pcs, Ask(t, kind, p, ok, failed),
         UNCHANGED <<fs, umount, hands>>,
         pc[t] \notin {"idle", "wild"} \cup Releasing,
         {ok, failed} \cap (Releasing \cup Searching) = {},
         {ok, failed} \cap (Held \cup Fresh) # {} => pc[t] \in Held \cup Fresh,
         {ok, failed} \cap Making # {} => pc[t] \in Making
  PROVE  TypeInv'
<1> DEFINE r == [kind |-> kind, path |-> p]
<1>1. r \in Requests
  BY DEF Requests
<1>2. /\ (Execute(r) /\ UNCHANGED late) \/ Unanswered(r) \/ UNCHANGED disk
      /\ \/ Goto(t, IF Process(r).refused THEN failed ELSE ok)
         \/ Goto(t, failed)
         \/ UNCHANGED <<pc, op>>
  BY DEF Ask
<1> HIDE DEF r
<1>3. server' \in [Paths -> {"none", "file", "dir"}] /\ late' \subseteq Requests
  BY <1>1, <1>2, Executes, NotAnswered DEF TypeInv, StateTyped, disk
<1>4. StateInv'
  BY <1>3, ServerSteps
<1>5. ASSUME NEW l \in {ok, failed}, Goto(t, l)
      PROVE  Moved(t)
  <2>1. Walking(t, l)
    BY <1>5 DEF Walking, TypeInv, Asking
  <2> QED
    BY <2>1, Walks
<1>6. ASSUME UNCHANGED <<pc, op>>
      PROVE  Moved(t)
  BY <1>6 DEF TypeInv, Moved, HandsTyped, Others, AtWork, Asking, hands
<1>7. Moved(t)
  BY <1>2, <1>5, <1>6
<1> QED
  BY <1>4, <1>7, TypeAssembled

LEMMA AskTyped ==
  ASSUME TypeInv, NEW t \in Threads,
         AskCreate(t) \/ AskMkdir(t) \/ AskRemove(t) \/ AskRmdir(t)
  PROVE  TypeInv'
<1>1. {"allocNew", "allocDir", "unlink", "giveUp", "idle"} \subseteq Pcs
  BY DEF Pcs
<1>2. CASE AskCreate(t)
  <2>1. pc[t] = "askCreate" /\ UNCHANGED <<fs, umount, hands>>
    BY <1>2 DEF AskCreate, At
  <2>2. Target(t) \in Seq(Names)
    BY <2>1, NodesAssumption, TargetTyped DEF TypeInv, AtWork, Asking, Making, Releasing
  <2>3. Ask(t, "create", Target(t), "allocNew", "idle")
    BY <1>2 DEF AskCreate
  <2> QED
    BY <1>1, <2>1, <2>2, <2>3, Asks DEF Releasing, Searching, Held, Fresh, Making
<1>3. CASE AskMkdir(t)
  <2>1. pc[t] = "askMkdir" /\ UNCHANGED <<fs, umount, hands>>
    BY <1>3 DEF AskMkdir, At
  <2>2. Target(t) \in Seq(Names)
    BY <2>1, NodesAssumption, TargetTyped DEF TypeInv, AtWork, Asking, Making, Releasing
  <2>3. Ask(t, "mkdir", Target(t), "allocDir", "idle")
    BY <1>3 DEF AskMkdir
  <2> QED
    BY <1>1, <2>1, <2>2, <2>3, Asks DEF Releasing, Searching, Held, Fresh, Making
<1>4. CASE AskRemove(t)
  <2>1. pc[t] = "askRemove" /\ UNCHANGED <<fs, umount, hands>>
    BY <1>4 DEF AskRemove, At
  <2>2. node[vp[t]].path \in Seq(Names)
    BY <2>1, NodeTyped DEF TypeInv, StateTyped, AtWork, Held
  <2>3. Ask(t, "remove", node[vp[t]].path, "unlink", "giveUp")
    BY <1>4 DEF AskRemove
  <2> QED
    BY <1>1, <2>1, <2>2, <2>3, Asks DEF Releasing, Searching, Held, Fresh, Making
<1>5. CASE AskRmdir(t)
  <2>1. pc[t] = "askRmdir" /\ UNCHANGED <<fs, umount, hands>>
    BY <1>5 DEF AskRmdir, At
  <2>2. node[vp[t]].path \in Seq(Names)
    BY <2>1, NodeTyped DEF TypeInv, StateTyped, AtWork, Held
  <2>3. Ask(t, "rmdir", node[vp[t]].path, "unlink", "giveUp")
    BY <1>5 DEF AskRmdir
  <2> QED
    BY <1>1, <2>1, <2>2, <2>3, Asks DEF Releasing, Searching, Held, Fresh, Making
<1> QED
  BY <1>2, <1>3, <1>4, <1>5

LEMMA EmptyTyped ==
  ASSUME TypeInv, NEW t \in Threads, iumfs_dir_is_empty(t)
  PROVE  TypeInv'
<1>1. ASSUME NEW l \in {"askRmdir", "giveUp"}, Goto(t, l)
      PROVE  Walking(t, l) /\ l \in Pcs
  BY <1>1 DEF iumfs_dir_is_empty, At, Walking, Pcs, Releasing, Held, Fresh, Searching, Making
<1>2. Moved(t)
  BY <1>1, Walks DEF iumfs_dir_is_empty
<1> QED
  BY <1>2, StateKept, TypeAssembled DEF iumfs_dir_is_empty

LEMMA GiveUpTyped ==
  ASSUME TypeInv, NEW t \in Threads, GiveUp(t)
  PROVE  TypeInv'
<1>1. vp[t] \in Vnodes /\ HandsTyped /\ UNCHANGED <<dir, res>>
  BY DEF TypeInv, GiveUp, At, AtWork, Held
<1>2. <<vp[t]>> \in Seq(Vnodes) /\ <<vp[t]>> # <<>> /\ Len(<<vp[t]>>) =< 2
  BY <1>1
<1>3. Moved(t)
  BY <1>1, <1>2, ReturnsAfter DEF GiveUp, HandsTyped
<1> QED
  BY <1>3, StateKept, TypeAssembled DEF GiveUp

LEMMA UnlinkTyped ==
  ASSUME TypeInv, NEW t \in Threads, iumfs_remove_entry_from_dir(t)
  PROVE  TypeInv'
<1>1. /\ vp[t] \in Vnodes /\ dir[t] \in Vnodes /\ op[t].name \in Entries /\ HandsTyped
      /\ UNCHANGED <<disk, list, umount, dir, res>>
  BY DEF TypeInv, HandsTyped, iumfs_remove_entry_from_dir, At, AtWork, Held, Releasing, Operation
<1>2. Released(vp[t]) \in Seq(Vnodes) /\ Released(vp[t]) # <<>> /\ Len(Released(vp[t])) =< 2
  BY <1>1 DEF Released
<1>3. Moved(t)
  BY <1>1, <1>2, ReturnsAfter DEF iumfs_remove_entry_from_dir, HandsTyped
<1>4. NoId \in 0 .. MaxNodeId
  BY NodesAssumption DEF NoId
<1>5. CASE node' = [node EXCEPT ![dir[t]].entries[op[t].name] = NoId]
  BY <1>1, <1>3, <1>4, <1>5, EntrySteps, TypeAssembled
<1>6. CASE UNCHANGED node
  BY <1>1, <1>3, <1>6, StateKept, TypeAssembled DEF fs
<1> QED
  BY <1>5, <1>6 DEF iumfs_remove_entry_from_dir

LEMMA ListTyped ==
  ASSUME TypeInv, NEW t \in Threads, iumfs_request_readdir(t)
  PROVE  TypeInv'
<1>1. /\ HandsTyped /\ AtWork(t) /\ Asking(t) /\ pc[t] = "list" /\ UNCHANGED hands
      /\ op[t] \in Operation /\ "add" \in Pcs /\ "idle" \in Pcs
  BY DEF TypeInv, HandsTyped, iumfs_request_readdir, At, Pcs
<1> DEFINE o == [op[t] EXCEPT !.listed = Children(node[dir[t]].path)]
<1>2. CASE Go(t, "add", o)
  <2>1. o \in Operation /\ o.call = op[t].call /\ o.name = op[t].name /\ o.found = op[t].found
    BY <1>1 DEF Operation, Children
  <2> HIDE DEF o
  <2>2. /\ pc' \in [Threads -> Pcs] /\ op' \in [Threads -> Operation]
        /\ pc'[t] = "add" /\ op'[t] = o
        /\ \A s \in Threads : s # t => pc'[s] = pc[s] /\ op'[s] = op[s]
    BY <1>1, <1>2, <2>1, GoMoves
  <2>3. HandsTyped' /\ Others(t)
    BY <1>1, <2>2 DEF HandsTyped, Others, hands
  <2>4. AtWork(t)'
    BY <1>1, <2>2 DEF AtWork, Releasing, Held, Fresh, hands
  <2>5. Asking(t)'
    BY <1>1, <2>1, <2>2 DEF Asking, Searching, Making
  <2> QED
    BY <2>3, <2>4, <2>5, StateKept, TypeAssembled DEF Moved, iumfs_request_readdir
<1>3. CASE Goto(t, "idle")
  <2>1. Walking(t, "idle")
    BY <1>1, <1>3 DEF Walking, Releasing, Held, Fresh, Searching, Making
  <2> QED
    BY <1>1, <2>1, Walks, StateKept, TypeAssembled DEF iumfs_request_readdir
<1> QED
  BY <1>2, <1>3 DEF iumfs_request_readdir

LEMMA AddTyped ==
  ASSUME TypeInv, NEW t \in Threads, AddListed(t)
  PROVE  TypeInv'
<1>1. /\ HandsTyped /\ AtWork(t) /\ Asking(t) /\ pc[t] = "add" /\ UNCHANGED hands
      /\ op[t] \in Operation /\ "add" \in Pcs /\ "idle" \in Pcs /\ dir[t] \in Vnodes
      /\ UNCHANGED <<disk, list, umount>>
  BY DEF TypeInv, HandsTyped, AddListed, At, Pcs, AtWork, Releasing
<1>2. ASSUME NEW n \in op[t].listed,
             \/ /\ FreshId # {}
                /\ node' = iumfs_add_entry_to_dir(dir[t], n, Min(FreshId))
             \/ UNCHANGED node,
             Go(t, "add", [op[t] EXCEPT !.listed = @ \ {n}])
      PROVE  TypeInv'
  <2>1. StateInv'
    <3>1. CASE UNCHANGED node
      BY <1>1, <3>1, StateKept DEF fs
    <3>2. CASE /\ FreshId # {}
               /\ node' = iumfs_add_entry_to_dir(dir[t], n, Min(FreshId))
      <4>1. FreshId \in SUBSET Nat
        BY DEF FreshId, NodeIds
      <4>2. Min(FreshId) \in 0 .. MaxNodeId
        BY <3>2, <4>1, MinOfNat DEF FreshId, NodeIds
      <4>3. n \in Entries
        BY <1>1 DEF Operation, Entries
      <4>4. CASE node' = [node EXCEPT ![dir[t]].entries[n] = Min(FreshId)]
        BY <1>1, <4>2, <4>3, <4>4, EntrySteps
      <4> QED
        BY <3>1, <3>2, <4>4 DEF iumfs_add_entry_to_dir
    <3> QED
      BY <1>2, <3>1, <3>2
  <2> DEFINE o == [op[t] EXCEPT !.listed = @ \ {n}]
  <2>2. o \in Operation /\ o.call = op[t].call /\ o.name = op[t].name /\ o.found = op[t].found
    BY <1>1 DEF Operation
  <2>3. Go(t, "add", o)
    BY <1>2
  <2> HIDE DEF o
  <2>4. /\ pc' \in [Threads -> Pcs] /\ op' \in [Threads -> Operation]
        /\ pc'[t] = "add" /\ op'[t] = o
        /\ \A s \in Threads : s # t => pc'[s] = pc[s] /\ op'[s] = op[s]
    BY <1>1, <2>2, <2>3, GoMoves
  <2>5. HandsTyped' /\ Others(t)
    BY <1>1, <2>4 DEF HandsTyped, Others, hands
  <2>6. AtWork(t)'
    BY <1>1, <2>4 DEF AtWork, Releasing, Held, Fresh, hands
  <2>7. Asking(t)'
    BY <1>1, <2>2, <2>4 DEF Asking, Searching, Making
  <2> QED
    BY <2>1, <2>5, <2>6, <2>7, TypeAssembled DEF Moved
<1>3. CASE Goto(t, "idle") /\ UNCHANGED node
  <2>1. Walking(t, "idle")
    BY <1>1, <1>3 DEF Walking, Releasing, Held, Fresh, Searching, Making
  <2> QED
    BY <1>1, <1>3, <2>1, Walks, StateKept, TypeAssembled DEF fs
<1> QED
  BY <1>2, <1>3 DEF AddListed

\* One release less.
LEMMA Releases ==
  ASSUME TypeInv, NEW t \in Threads, pc[t] \in Releasing, ReleaseDone(t), UNCHANGED <<dir, res, vp>>
  PROVE  Moved(t)
<1>1. HandsTyped /\ AtWork(t) /\ Asking(t) /\ todo[t] \in Seq(Vnodes) /\ todo[t] # <<>>
  BY DEF TypeInv, HandsTyped, AtWork
<1> DEFINE l == IF Len(todo[t]) = 1 THEN "idle" ELSE "rele"
<1>2. l \in Pcs /\ Goto(t, l) /\ (l = "idle" <=> Len(todo[t]) = 1) /\ l \in {"idle", "rele"}
  BY DEF ReleaseDone, Pcs
<1> HIDE DEF l
<1>3. /\ pc' \in [Threads -> Pcs] /\ op' \in [Threads -> Operation]
      /\ pc'[t] = l /\ op'[t] = IF l = "idle" THEN NoOp ELSE op[t]
      /\ \A s \in Threads : s # t => pc'[s] = pc[s] /\ op'[s] = op[s]
  BY <1>1, <1>2, GotoMoves
<1>4. /\ Tail(todo[t]) \in Seq(Vnodes) /\ Len(Tail(todo[t])) = Len(todo[t]) - 1
      /\ Len(todo[t]) \in Nat \ {0}
  BY <1>1
<1>5. /\ todo' = [todo EXCEPT ![t] = Tail(todo[t])]
      /\ HandsTyped' /\ Others(t) /\ todo'[t] = Tail(todo[t])
  BY <1>1, <1>3, <1>4 DEF HandsTyped, Others, ReleaseDone
<1>6. /\ Tail(todo[t]) = <<>> <=> Len(todo[t]) = 1
      /\ Len(todo[t]) =< 2
  <2>1. Tail(todo[t]) = <<>> <=> Len(Tail(todo[t])) = 0
    BY <1>4, EmptySeq
  <2> QED
    BY <1>1, <1>4, <2>1 DEF AtWork
<1>7. AtWork(t)'
  <2>1. Len(todo'[t]) =< 2
    BY <1>4, <1>5, <1>6
  <2>2. todo'[t] = <<>> <=> l = "idle"
    BY <1>2, <1>5, <1>6
  <2> QED
    BY <1>2, <1>3, <2>1, <2>2 DEF AtWork, Releasing, Held, Fresh
<1>8. Asking(t)'
  <2>1. CASE l = "idle"
    BY <1>3, <2>1, NoOpAsks
  <2>2. CASE l = "rele"
    BY <1>1, <1>3, <2>2 DEF Asking, Searching, Making
  <2> QED
    BY <1>2, <2>1, <2>2
<1> QED
  BY <1>5, <1>7, <1>8 DEF Moved

LEMMA ReleTyped ==
  ASSUME TypeInv, NEW t \in Threads, VN_RELE(t)
  PROVE  TypeInv'
<1> DEFINE v == Head(todo[t])
<1>1. /\ HandsTyped /\ AtWork(t) /\ Asking(t) /\ pc[t] = "rele" /\ v \in Vnodes
      /\ UNCHANGED <<disk, list, umount, dir, res, vp>> /\ "inactive" \in Pcs
  BY DEF TypeInv, HandsTyped, AtWork, Releasing, VN_RELE, At, Pcs
<1>2. CASE node[v].count > 1 /\ Drop(v) /\ ReleaseDone(t)
  <2>1. StateInv'
    BY <1>1, <1>2, CountSteps
  <2>2. Moved(t)
    BY <1>1, <1>2, Releases DEF Releasing
  <2> QED
    BY <2>1, <2>2, TypeAssembled
<1>3. CASE Goto(t, "inactive") /\ UNCHANGED <<node, todo>>
  <2>1. /\ pc' \in [Threads -> Pcs] /\ op' \in [Threads -> Operation]
        /\ pc'[t] = "inactive" /\ op'[t] = op[t]
        /\ \A s \in Threads : s # t => pc'[s] = pc[s] /\ op'[s] = op[s]
    BY <1>1, <1>3, GotoMoves
  <2>2. HandsTyped' /\ Others(t)
    BY <1>1, <1>3, <2>1 DEF HandsTyped, Others
  <2>3. AtWork(t)'
    BY <1>1, <1>3, <2>1 DEF AtWork, Releasing, Held, Fresh
  <2>4. Asking(t)'
    BY <1>1, <2>1 DEF Asking, Searching, Making
  <2> QED
    BY <1>1, <1>3, <2>2, <2>3, <2>4, StateKept, TypeAssembled DEF Moved, fs
<1> QED
  BY <1>2, <1>3 DEF VN_RELE

\* iumfs_free_node of a vnode in the list.
LEMMA Frees ==
  ASSUME TypeInv, NEW v \in Alive, iumfs_free_node(v), UNCHANGED <<disk, umount>>
  PROVE  StateInv'
<1>1. /\ v \in Vnodes /\ list \in Seq(Vnodes) /\ Once /\ node \in [Vnodes -> NodeRecords]
      /\ Numbered
  BY AliveTyped DEF TypeInv, StateTyped
<1>2. CASE node[v].count > 1 /\ Drop(v) /\ UNCHANGED list
  BY <1>1, <1>2, CountSteps
<1>3. CASE list' = RemoveAt(list, Position(v)) /\ node' = [node EXCEPT ![v] = NoNode]
  <2>1. list' \in Seq(Vnodes) /\ Once'
    BY <1>1, <1>3, Removed
  <2>2. 1 \in NodeIds
    BY NodesAssumption DEF NodeIds
  <2>3. NoNode \in NodeRecords /\ \A n \in Names : NoNode.entries[n] = NoId
    BY <2>2, NewNodeTyped DEF NoNode
  <2>4. node' \in [Vnodes -> NodeRecords] /\ Numbered'
    BY <1>1, <1>3, <2>3, NodesAssumption DEF Numbered, NoId
  <2> QED
    BY <2>1, <2>4 DEF StateInv, StateTyped, TypeInv, disk, umount
<1> QED
  BY <1>2, <1>3 DEF iumfs_free_node

LEMMA InactiveTyped ==
  ASSUME TypeInv, NEW t \in Threads, iumfs_inactive(t)
  PROVE  TypeInv'
<1>1. /\ HandsTyped /\ AtWork(t) /\ pc[t] = "inactive" /\ todo[t] # <<>>
      /\ UNCHANGED <<disk, umount, dir, res, vp>> /\ ReleaseDone(t)
      /\ todo[t] \in Seq(Vnodes) /\ Touched(t) \subseteq Alive
  BY DEF TypeInv, HandsTyped, AtWork, Releasing, iumfs_inactive, At
<1>2. Head(todo[t]) \in Alive
  <2>1. 1 \in DOMAIN todo[t] /\ Head(todo[t]) = todo[t][1] /\ todo[t][1] \in Vnodes
    BY <1>1
  <2>2. todo[t][1] # NoVnode
    BY <2>1 DEF NoVnode, Vnodes
  <2> QED
    BY <1>1, <2>1, <2>2 DEF Touched
<1>3. StateInv'
  BY <1>1, <1>2, Frees, StateKept DEF iumfs_inactive
<1>4. Moved(t)
  BY <1>1, Releases DEF Releasing
<1> QED
  BY <1>3, <1>4, TypeAssembled

LEMMA StrayTyped ==
  ASSUME TypeInv, NEW t \in Threads, Stray(t)
  PROVE  TypeInv'
<1>1. Moved(t)
  BY GoesWild DEF Stray
<1> QED
  BY <1>1, StateKept, TypeAssembled DEF Stray

\* A late request is executed.
LEMMA LateTyped ==
  ASSUME TypeInv, LateExecution
  PROVE  TypeInv'
<1>1. PICK r \in late : Execute(r) /\ late' = late \ {r}
  BY DEF LateExecution
<1>2. r \in Requests /\ late' \subseteq Requests
  BY <1>1 DEF TypeInv, StateTyped
<1>3. StateInv'
  BY <1>1, <1>2, Executes, ServerSteps DEF LateExecution
<1>4. HandsTyped' /\ \A t \in Threads : AtWork(t)' /\ Asking(t)'
  BY DEF LateExecution, TypeInv, HandsTyped, AtWork, Asking, hands
<1> QED
  BY <1>3, <1>4 DEF TypeInv, StateInv

\* The steps of unmount.
LEMMA UnmountTyped ==
  ASSUME TypeInv, Unmount \/ UnmountNext \/ UnmountCheck \/ iumfs_free_all_node \/ UnmountStray
  PROVE  TypeInv'
<1>1. UNCHANGED <<disk, pc, op, hands>>
  BY DEF Unmount, UnmountNext, UnmountCheck, iumfs_free_all_node, UnmountStray
<1>2. HandsTyped' /\ \A t \in Threads : AtWork(t)' /\ Asking(t)'
  BY <1>1 DEF TypeInv, HandsTyped, AtWork, Asking, hands
<1>3. ASSUME UNCHANGED fs, mount' \in {"mounted", "checking", "freeing", "gone", "wild"},
             cursor' \in Vnodes \cup {NoVnode}, ahead' \in Vnodes \cup {NoVnode}
      PROVE  TypeInv'
  <2>1. StateInv'
    BY <1>1, <1>3 DEF TypeInv, StateInv, StateTyped, Once, Numbered, fs, disk
  <2> QED
    BY <1>2, <2>1 DEF TypeInv, StateInv
<1>4. /\ list \in Seq(Vnodes) /\ {cursor, ahead} \subseteq Vnodes \cup {NoVnode}
      /\ mount \in {"mounted", "checking", "freeing", "gone", "wild"}
  BY DEF TypeInv, StateTyped
<1>5. CASE Unmount \/ UnmountCheck \/ UnmountStray
  BY <1>3, <1>4, <1>5 DEF Unmount, UnmountCheck, UnmountStray, fs
<1>6. CASE UnmountNext
  <2> DEFINE i == After(cursor)
  <2>1. ASSUME i =< Len(list)
        PROVE  i \in DOMAIN list
    <3>1. CASE cursor = NoVnode
      BY <1>4, <2>1, <3>1 DEF After
    <3>2. CASE cursor # NoVnode
      <4>1. Position(cursor) \in DOMAIN list
        BY <1>6, <3>2 DEF UnmountNext, Alive, Position
      <4> QED
        BY <1>4, <2>1, <3>2, <4>1 DEF After
    <3> QED
      BY <3>1, <3>2
  <2> HIDE DEF i
  <2>2. /\ UNCHANGED fs
        /\ \/ mount' = "freeing" /\ cursor' = NoVnode /\ ahead' = ahead
           \/ i =< Len(list) /\ ahead' = list[i] /\ cursor' = cursor /\ mount' = mount
    BY <1>6 DEF UnmountNext, i
  <2>3. ahead' \in Vnodes \cup {NoVnode} /\ cursor' \in Vnodes \cup {NoVnode}
    BY <1>4, <2>1, <2>2
  <2> QED
    BY <1>3, <1>4, <2>2, <2>3
<1>7. CASE iumfs_free_all_node
  <2>1. CASE list # <<>> /\ iumfs_free_node(Head(list)) /\ UNCHANGED mount
    <3>1. Head(list) \in Alive
      <4>1. 1 \in DOMAIN list /\ Head(list) = list[1]
        BY <1>4, <2>1
      <4> QED
        BY <4>1 DEF Alive
    <3>2. StateInv'
      BY <1>1, <1>7, <2>1, <3>1, Frees DEF iumfs_free_all_node, umount
    <3> QED
      BY <1>2, <3>2 DEF TypeInv, StateInv
  <2>2. CASE mount' = "gone" /\ UNCHANGED fs
    BY <1>3, <1>4, <1>7, <2>2 DEF iumfs_free_all_node
  <2> QED
    BY <1>7, <2>1, <2>2 DEF iumfs_free_all_node
<1> QED
  BY <1>5, <1>6, <1>7

LEMMA InitTyped == Init => TypeInv
<1> SUFFICES ASSUME Init PROVE TypeInv
  OBVIOUS
<1>1. RootV \in Vnodes /\ 1 \in NodeIds
  BY NodesAssumption DEF RootV, Vnodes, NodeIds
<1>2. \A type \in {"file", "dir"} :
        /\ NewNode(type, 1) \in NodeRecords
        /\ \A n \in Names : NewNode(type, 1).entries[n] = NoId
  BY <1>1, NewNodeTyped
<1> DEFINE r == NewNode("dir", 1)
           root == [r EXCEPT !.entries[".."] = MountedOn]
<1>3. r \in NodeRecords /\ (\A n \in Names : r.entries[n] = NoId) /\ ".." \in Entries
  BY <1>2 DEF Entries
<1>4. root \in NodeRecords
  BY <1>3, NodeTyped, NodesAssumption
<1>5. \A n \in Names : root.entries[n] = NoId
  BY <1>3, NodesAssumption DEF NodeRecords, Entries
<1>6. node = [v \in Vnodes |-> IF v = RootV THEN root ELSE NoNode]
  BY DEF Init
<1> HIDE DEF root, r
<1>7. node \in [Vnodes -> NodeRecords] /\ Numbered
  BY <1>2, <1>4, <1>5, <1>6, NodesAssumption DEF NoNode, Numbered, NoId
<1>8. server \in [Paths -> {"none", "file", "dir"}]
  BY NodesAssumption DEF Init
<1>9. StateTyped /\ Once
  BY <1>1, <1>7, <1>8 DEF Init, StateTyped, Once
<1>10. HandsTyped
  BY NoOpTyped DEF Init, HandsTyped, Pcs
<1>11. \A t \in Threads : AtWork(t) /\ Asking(t)
  BY NodesAssumption DEF Init, AtWork, Asking, NoOp, Releasing, Held, Fresh, Searching, Making, NoId
<1> QED
  BY <1>7, <1>9, <1>10, <1>11 DEF TypeInv

\* Every step keeps the types.
LEMMA TypeStep ==
  ASSUME TypeInv, [Next]_vars
  PROVE  TypeInv'
<1>1. ASSUME NEW t \in Threads, Root(t) \/ Chdir(t) \/ Close(t) \/ Leave(t) \/ Call(t)
      PROVE  TypeInv'
  BY <1>1, RootTyped, ChdirTyped, CloseTyped, LeaveTyped, CallTyped
<1>2. ASSUME NEW t \in Threads, Step(t)
      PROVE  TypeInv'
  <2>1. CASE AllocFile(t)
    BY <2>1, AllocTyped DEF AllocFile, At
  <2>2. CASE AllocNew(t)
    BY <2>2, AllocTyped DEF AllocNew, At
  <2> QED
    BY <1>2, <2>1, <2>2, FindTyped, GetTyped, NotCachedTyped, AskLookupTyped, AllocFailsTyped,
       MakeDirectoryTyped, AddDotsTyped, SetNameTyped, LinkTyped, RefTyped, AskTyped, EmptyTyped, GiveUpTyped,
       UnlinkTyped, ListTyped, AddTyped, ReleTyped, InactiveTyped, StrayTyped DEF Step
<1>3. CASE UNCHANGED vars
  BY <1>3 DEF vars, TypeInv, StateTyped, HandsTyped, Once, Numbered, AtWork, Asking
<1> QED
  BY <1>1, <1>2, <1>3, LateTyped, UnmountTyped DEF Next

\* The types of IumfsNodes: every thread works on vnodes, numbers and paths, and no
\* vnode is in the list twice.
THEOREM TypeCorrect == Spec => []TypeOK
<1>1. Init => TypeInv
  BY InitTyped
<1>2. TypeInv /\ [Next]_vars => TypeInv'
  BY TypeStep
<1>3. TypeInv => TypeOK
  BY AliveCounted DEF TypeInv, StateTyped, HandsTyped, NodeRecords, TypeOK
<1> QED
  BY <1>1, <1>2, <1>3, PTL DEF Spec

=============================================================================
