-------------------------- MODULE IumfsSolo_proofs ---------------------------
(***************************************************************************)
(* What IumfsNodes promises to one thread that has the file system to      *)
(* itself: its entries are those of the server, and no vnode is left       *)
(* behind.  What holds for many threads only if they call no more than     *)
(* some of the operations holds here for all but exclusive creation, with  *)
(* things made and removed in turn.  One thread and no faults (Solo) is    *)
(* the instance of the run nodes_single, with any names, tree and bounds.  *)
(*                                                                         *)
(* SoloInv says of the thread, at every step of every operation, what it   *)
(* knows of the entry, the server and the vnode it works with.             *)
(***************************************************************************)
EXTENDS IumfsCounts_proofs

\* One thread, no faults, no exclusive create.
Alone(t) == Threads = {t} /\ Faults = {} /\ "createExcl" \notin Calls
Solo     == \E t : Alone(t)

\* t is making v; v has no path yet; t has had n removed from v on the server.
Maker(t, v)      == pc[t] \in Fresh /\ vp[t] = v
Nameless(t, v)   == pc[t] \in {"dots", "name"} /\ vp[t] = v
Leaving(t, v, n) == pc[t] = "unlink" /\ dir[t] = v /\ op[t].name = n

\* The root is in the list and on the server, and no entry has its number.
RootIn(t) ==
  /\ RootV \in Alive /\ node[RootV].id = 1 /\ node[RootV].type = "dir"
  /\ node[RootV].path = RootPath /\ Exists(RootPath)
  /\ \A v \in Alive, n \in Names : node[v].entries[n] # 1
  /\ ~Maker(t, RootV)

\* A number is in one entry only.
OneEntry ==
  \A v, w \in Alive, m, n \in Names :
    node[v].entries[m] = node[w].entries[n] /\ node[v].entries[m] # NoId => v = w /\ m = n

\* Only linked directories have entries, of what exists; whoever has the number of
\* an entry has the path it stands for.
EntriesLead(t) ==
  \A v \in Alive, n \in Names : node[v].entries[n] # NoId =>
    /\ v \in Linked /\ ~Nameless(t, v) /\ node[v].type = "dir"
    /\ Leaving(t, v, n) \/ Exists(Append(node[v].path, n))
    /\ \A w \in Alive : node[w].id = node[v].entries[n] =>
         Nameless(t, w) \/ node[w].path = Append(node[v].path, n)

PathsDiffer(t) ==
  \A v, w \in Linked :
    node[v].path = node[w].path /\ ~Nameless(t, v) /\ ~Nameless(t, w) => v = w

LinksInv(t) ==
  RootIn(t) /\ OneVnodePerNumber /\ OneEntry /\ EntriesLead(t) /\ PathsDiffer(t)

\* A vnode has the reference it was allocated with exactly as long as it is linked
\* or being made.
OwnedWhenLinked(t) ==
  \A v \in Alive : node[v].count = References(v) + Has(v \in Linked \/ Maker(t, v))

RefsInv(t) == OwnedWhenLinked(t) /\ NoneLost

Entry(t) == node[dir[t]].entries[op[t].name]

\* Where a thread stands: its directories are linked.
Standing(t) ==
  /\ pc[t] # "wild" /\ op[t].call # "createExcl"
  /\ dir[t] # NoVnode => dir[t] \in Linked /\ node[dir[t]].type = "dir" /\ ~Maker(t, dir[t])
  /\ res[t] # NoVnode /\ node[res[t]].type = "dir" => res[t] \in Linked
  /\ pc[t] \in Making \cup {"ref"} => res[t] = NoVnode
  /\ pc[t] \in Searching /\ op[t].call \notin {"remove", "rmdir"} => res[t] = NoVnode
  /\ pc[t] \in Fresh => vp[t] \in Alive
  /\ pc[t] \notin Held \cup Fresh => vp[t] = NoVnode

\* What it knows of the entry it has read, of the server it has asked, and of the
\* vnode it has in hand.
KnowsEntry(t) ==
  /\ pc[t] \in {"get", "noent", "askLookup", "allocFile", "allocDir"} /\ op[t].name \in Names =>
       Entry(t) = op[t].found
  /\ pc[t] \in {"noent", "askLookup", "allocFile", "allocDir"} /\ op[t].found # NoId =>
       \A v \in Alive : node[v].id # op[t].found
  /\ pc[t] = "get" => op[t].found # NoId
  /\ pc[t] = "askMkdir" => op[t].found = NoId
  /\ pc[t] = "allocNew" => Entry(t) = NoId

KnowsServer(t) ==
  /\ pc[t] = "askCreate" => ~Exists(Target(t))
  /\ pc[t] \in {"allocFile", "allocDir", "allocNew", "dots", "name", "link"} => Exists(Target(t))
  /\ pc[t] = "add" => \A n \in op[t].listed : Exists(Append(node[dir[t]].path, n))

KnowsNew(t) ==
  /\ pc[t] \in {"dots", "name", "link"} =>
       /\ \A n \in Names : node[vp[t]].entries[n] = NoId
       /\ Entry(t) = op[t].found
       /\ op[t].found # NoId => node[vp[t]].id = op[t].found
       /\ op[t].found = NoId =>
            \A v \in Alive, n \in Names : node[v].entries[n] # node[vp[t]].id
  /\ pc[t] = "link" => op[t].found = NoId /\ node[vp[t]].path = Target(t)
  /\ pc[t] = "ref" => vp[t] \in Linked

KnowsHeld(t) ==
  /\ pc[t] \in Held => vp[t] \in Alive /\ op[t].name \in Names /\ Entry(t) = node[vp[t]].id
  /\ pc[t] = "askRemove" => node[vp[t]].type = "file"
  /\ pc[t] \in {"empty", "askRmdir"} => node[vp[t]].type = "dir" /\ vp[t] # res[t]
  /\ pc[t] = "unlink" /\ node[vp[t]].type = "dir" => vp[t] # res[t]
  /\ pc[t] \in {"askRmdir", "unlink"} => \A n \in Names : node[vp[t]].entries[n] = NoId

Knowing(t) == KnowsEntry(t) /\ KnowsServer(t) /\ KnowsNew(t) /\ KnowsHeld(t)

SoloAt(t) == LinksInv(t) /\ RefsInv(t) /\ Standing(t) /\ Knowing(t)
SoloInv   == late = {} /\ (Mounted => \A t \in Threads : SoloAt(t))

-----------------------------------------------------------------------------
(***************************************************************************)
(* Facts about one thread.                                                 *)
(***************************************************************************)
\* All references are those of the thread.
LEMMA RefsAreMine ==
  ASSUME NEW t \in Threads, Alone(t), NEW v
  PROVE  /\ References(v) = Mine(t, v) /\ References(v)' = Mine(t, v)'
         /\ Mine(t, v) \in Nat /\ Mine(t, v)' \in Nat
<1> DEFINE D == InDir(v)
           R == InRes(v)
           V == InVp(v)
           X == InTodo(v)
           x == <<t, 1>>
           y == <<t, 2>>
<1>1. IsFiniteSet({}) /\ Cardinality({}) = 0
  BY FS_EmptySet
<1>2. {} \ {t} = D \ {t} /\ {} \ {t} = R \ {t} /\ {} \ {t} = V \ {t}
  BY DEF InDir, InRes, InVp, Alone
<1>3. {} \ {x, y} = X \ {x, y}
  <2>1. ASSUME NEW z \in Threads \X {1, 2}
        PROVE  z = x \/ z = y
    BY DEF Alone
  <2> QED
    BY <2>1 DEF InTodo
<1>4. /\ t \in D <=> dir[t] = v
      /\ t \in R <=> res[t] = v
      /\ t \in V <=> vp[t] = v /\ pc[t] \in Held
      /\ x \in X <=> 1 \in DOMAIN todo[t] /\ todo[t][1] = v
      /\ y \in X <=> 2 \in DOMAIN todo[t] /\ todo[t][2] = v
      /\ x # y
  BY DEF InDir, InRes, InVp, InTodo
<1>5. Mine(t, v) = Has(t \in D) + Has(t \in R) + Has(t \in V) + (Has(x \in X) + Has(y \in X))
  BY <1>4 DEF Mine, Todo, InSeq, Has
<1>6. References(v) = Cardinality(D) + Cardinality(R) + Cardinality(V) + Cardinality(X)
  BY RefsAre
<1> HIDE DEF D, R, V, X, x, y
<1>7. Cardinality(D) = Has(t \in D)
  <2>1. Cardinality(D) = 0 - Has(t \in {}) + Has(t \in D)
    BY <1>1, <1>2, OneElement
  <2> QED
    BY <2>1 DEF Has
<1>8. Cardinality(R) = Has(t \in R)
  <2>1. Cardinality(R) = 0 - Has(t \in {}) + Has(t \in R)
    BY <1>1, <1>2, OneElement
  <2> QED
    BY <2>1 DEF Has
<1>9. Cardinality(V) = Has(t \in V)
  <2>1. Cardinality(V) = 0 - Has(t \in {}) + Has(t \in V)
    BY <1>1, <1>2, OneElement
  <2> QED
    BY <2>1 DEF Has
<1>10. Cardinality(X) = Has(x \in X) + Has(y \in X)
  <2> DEFINE N == {}
  <2>1. IsFiniteSet(N) /\ N \ {x, y} = X \ {x, y} /\ x # y
    BY <1>1, <1>3, <1>4
  <2>2. Cardinality(N) = 0 /\ Has(x \in N) = 0 /\ Has(y \in N) = 0
    BY <1>1 DEF Has
  <2> HIDE DEF N
  <2>3. Cardinality(X) = Cardinality(N) - (Has(x \in N) + Has(y \in N)) + (Has(x \in X) + Has(y \in X))
    BY <2>1, TwoElements
  <2> QED
    BY <2>2, <2>3 DEF Has
<1>11. References(v) = Mine(t, v)
  BY <1>5, <1>6, <1>7, <1>8, <1>9, <1>10
<1>12. Others(t)
  BY DEF Others, Alone
<1>13. /\ References(v) \in Nat /\ References(v)' \in Nat /\ Mine(t, v) \in Nat /\ Mine(t, v)' \in Nat
       /\ References(v)' = References(v) - Mine(t, v) + Mine(t, v)'
  BY <1>12, RefsStep
<1> QED
  BY <1>11, <1>13

\* Nothing it points to has been freed.
LEMMA TouchesAlive ==
  ASSUME TypeInv, NEW t \in Threads, SoloAt(t)
  PROVE  Touched(t) \subseteq Alive
<1>1. /\ dir[t] # NoVnode => dir[t] \in Alive
      /\ pc[t] \in Held => vp[t] \in Alive
      /\ \A i \in DOMAIN todo[t] : todo[t][i] \in Alive
  BY ReferredListed DEF SoloAt, RefsInv
<1>2. vp[t] # NoVnode => vp[t] \in Alive
  BY <1>1 DEF SoloAt, Standing
<1> QED
  BY <1>1, <1>2 DEF Touched

\* A count changes, the rest of a vnode does not.
Twin(w) == Same(w) /\ node'[w].type = node[w].type

LEMMA HoldTwins ==
  ASSUME TypeInv, NEW v \in Vnodes, VN_HOLD(v)
  PROVE  \A w \in Vnodes : Twin(w) /\ node'[w].count = node[w].count + Has(w = v)
<1>1. \A w \in Vnodes : node[w] \in NodeRecords
  BY DEF TypeInv, StateTyped
<1>2. \A w \in Vnodes : node'[w] = IF w = v THEN [node[w] EXCEPT !.count = @ + 1] ELSE node[w]
  BY DEF VN_HOLD, TypeInv, StateTyped
<1>3. \A w \in Vnodes : node'[w].type = node[w].type
  BY <1>1, <1>2 DEF NodeRecords
<1> QED
  BY <1>3, HoldCounts DEF Twin

LEMMA DropTwins ==
  ASSUME TypeInv, NEW v \in Vnodes, Drop(v)
  PROVE  \A w \in Vnodes : Twin(w) /\ node'[w].count + Has(w = v) = node[w].count
<1>1. \A w \in Vnodes : node[w] \in NodeRecords
  BY DEF TypeInv, StateTyped
<1>2. \A w \in Vnodes : node'[w] = IF w = v THEN [node[w] EXCEPT !.count = @ - 1] ELSE node[w]
  BY DEF Drop, TypeInv, StateTyped
<1>3. \A w \in Vnodes : node'[w].type = node[w].type
  BY <1>1, <1>2 DEF NodeRecords
<1> QED
  BY <1>3, DropCounts DEF Twin

LEMMA SameTwins ==
  ASSUME node' = node
  PROVE  \A w \in Vnodes : Twin(w) /\ node'[w].count = node[w].count
  BY DEF Twin, Same

\* Every vnode has a number and a path.
LEMMA Numbers ==
  ASSUME TypeInv, NEW v \in Vnodes
  PROVE  node[v].id \in NodeIds /\ node[v].id # NoId /\ node[v].path \in Seq(Names)
<1>1. node[v] \in NodeRecords
  BY DEF TypeInv, StateTyped
<1>2. node[v].id \in NodeIds /\ node[v].path \in Seq(Names)
  BY <1>1, NodeTyped
<1> QED
  BY <1>2 DEF NodeIds, NoId

\* A path and a name make the path of one entry.
LEMMA AppendOne ==
  ASSUME NEW p \in Seq(Names), NEW q \in Seq(Names), NEW m \in Names, NEW n \in Names,
         Append(p, m) = Append(q, n)
  PROVE  p = q /\ m = n
<1>1. /\ Len(Append(p, m)) = Len(p) + 1 /\ Len(Append(q, n)) = Len(q) + 1
      /\ Append(p, m)[Len(p) + 1] = m /\ Append(q, n)[Len(q) + 1] = n
      /\ \A i \in 1 .. Len(p) : Append(p, m)[i] = p[i]
      /\ \A i \in 1 .. Len(q) : Append(q, n)[i] = q[i]
  OBVIOUS
<1>2. Len(p) = Len(q) /\ m = n
  BY <1>1
<1>3. p = q
  BY <1>1, <1>2, SeqEqual
<1> QED
  BY <1>2, <1>3

LEMMA AppendNotRoot ==
  ASSUME NEW p \in Seq(Names), NEW n \in Names
  PROVE  Append(p, n) # RootPath
<1>1. Len(Append(p, n)) = Len(p) + 1 /\ Len(p) \in Nat /\ Len(RootPath) = 0
  BY DEF RootPath
<1> QED
  BY <1>1

-----------------------------------------------------------------------------
(***************************************************************************)
(* Steps after which the entries say what they said, and every count       *)
(* stands where it stood.                                                  *)
(***************************************************************************)
\* Exists, one step later, for a path that stays.
Remains(p) == p \in Paths /\ server'[p] # "none"

\* What the entries stand for is still there.
Shows(t) ==
  /\ Remains(RootPath)
  /\ \A v \in Alive, n \in Names : node[v].entries[n] # NoId =>
       \/ pc'[t] = "unlink" /\ dir'[t] = v /\ op'[t].name = n
       \/ Remains(Append(node[v].path, n))

\* The thread changes its references and the counts alike.
Even(t) ==
  \A v \in Vnodes :
    /\ Twin(v)
    /\ node'[v].count + Mine(t, v) = node[v].count + Mine(t, v)'
    /\ v \notin Alive => Mine(t, v)' = Mine(t, v)

QuietStep(t) ==
  /\ UNCHANGED list /\ Even(t) /\ Shows(t)
  /\ pc[t] \notin {"dots", "name", "link"} /\ pc'[t] \notin Fresh
  /\ pc[t] = "ref" => vp[t] \in Linked

LEMMA LinkedThen ==
  /\ \A v : v \in Linked' <=>
       /\ v \in Alive'
       /\ v = RootV \/ \E d \in Alive', n \in Names : node'[d].entries[n] = node'[v].id
  /\ Linked' \subseteq Alive' /\ Linked \subseteq Alive
  BY DEF Linked

\* The list, and the vnodes in it.
LEMMA ListedStay ==
  ASSUME TypeInv, UNCHANGED list
  PROVE  Alive' = Alive /\ Alive \subseteq Vnodes
  BY AliveTyped DEF Alive, TypeInv, StateTyped

\* A step of one thread that leaves the server alone, and is not that of unlink.
LEMMA ShowsSame ==
  ASSUME UNCHANGED disk, NEW t \in Threads, LinksInv(t), pc[t] # "unlink"
  PROVE  Shows(t)
<1>1. \A p : Exists(p) => Remains(p)
  BY DiskSame DEF Exists, OnServer, Remains
<1>2. Exists(RootPath)
  BY DEF LinksInv, RootIn
<1>3. \A v \in Alive, n \in Names : node[v].entries[n] # NoId => Exists(Append(node[v].path, n))
  BY DEF LinksInv, EntriesLead, Leaving
<1> QED
  BY <1>1, <1>2, <1>3 DEF Shows

LEMMA QuietKeeps ==
  ASSUME NEW t \in Threads, Alone(t), TypeInv, TypeInv', LinksInv(t), RefsInv(t), QuietStep(t)
  PROVE  LinksInv(t)' /\ RefsInv(t)' /\ Alive' = Alive /\ Linked' = Linked
<1>1. Alive' = Alive /\ Alive \subseteq Vnodes
  BY ListedStay DEF QuietStep
<1>2. ASSUME NEW v \in Vnodes
      PROVE  /\ node'[v].id = node[v].id /\ node'[v].path = node[v].path
             /\ node'[v].type = node[v].type
             /\ \A n \in Names : node'[v].entries[n] = node[v].entries[n]
             /\ node'[v].count + Mine(t, v) = node[v].count + Mine(t, v)'
             /\ v \notin Alive => Mine(t, v)' = Mine(t, v)
  BY DEF QuietStep, Even, Twin, Same
<1>3. Linked' = Linked /\ Linked \subseteq Alive
  <2>1. \A v : v \in Linked' <=> v \in Linked
    BY <1>1, <1>2, LinkedThen DEF Linked
  <2> QED
    BY <2>1, LinkedThen
<1>4. /\ pc'[t] \notin {"dots", "name"} /\ pc'[t] \notin Fresh /\ pc[t] \notin {"dots", "name", "link"}
      /\ pc[t] = "ref" => vp[t] \in Linked
  BY DEF QuietStep, Fresh
<1>5. RootIn(t)'
  <2>1. Exists(RootPath)'
    BY DEF QuietStep, Shows, Remains, Exists, OnServer
  <2>2. RootV \in Alive /\ node[RootV].id = 1 /\ node[RootV].type = "dir" /\ node[RootV].path = RootPath
    BY DEF LinksInv, RootIn
  <2>3. \A v \in Alive', n \in Names : node'[v].entries[n] # 1
    BY <1>1, <1>2 DEF LinksInv, RootIn
  <2>4. ~Maker(t, RootV)'
    BY <1>4 DEF Maker
  <2> QED
    BY <1>1, <1>2, <2>1, <2>2, <2>3, <2>4 DEF RootIn
<1>6. OneVnodePerNumber'
  BY <1>1, <1>2 DEF LinksInv, OneVnodePerNumber
<1>7. OneEntry'
  <2>1. SUFFICES ASSUME NEW v \in Alive', NEW w \in Alive', NEW m \in Names, NEW n \in Names,
                        node'[v].entries[m] = node'[w].entries[n], node'[v].entries[m] # NoId
                 PROVE  v = w /\ m = n
    BY DEF OneEntry
  <2> QED
    BY <1>1, <1>2, <2>1 DEF LinksInv, OneEntry
<1>8. EntriesLead(t)'
  <2>1. SUFFICES ASSUME NEW v \in Alive', NEW n \in Names, node'[v].entries[n] # NoId
                 PROVE  /\ v \in Linked' /\ ~Nameless(t, v)' /\ node'[v].type = "dir"
                        /\ Leaving(t, v, n)' \/ Remains(Append(node'[v].path, n))
                        /\ \A w \in Alive' : node'[w].id = node'[v].entries[n] =>
                             Nameless(t, w)' \/ node'[w].path = Append(node'[v].path, n)
    BY DEF EntriesLead, Exists, OnServer, Remains
  <2>2. v \in Alive /\ v \in Vnodes /\ node[v].entries[n] # NoId
    BY <1>1, <1>2, <2>1
  <2>3. /\ v \in Linked /\ node[v].type = "dir"
        /\ \A w \in Alive : node[w].id = node[v].entries[n] =>
             Nameless(t, w) \/ node[w].path = Append(node[v].path, n)
    BY <2>2 DEF LinksInv, EntriesLead
  <2>4. Leaving(t, v, n)' \/ Remains(Append(node[v].path, n))
    BY <2>2 DEF QuietStep, Shows, Leaving
  <2>5. \A w \in Alive' : node'[w].id = node'[v].entries[n] => node'[w].path = Append(node'[v].path, n)
    BY <1>1, <1>2, <1>4, <2>2, <2>3 DEF Nameless
  <2> QED
    BY <1>2, <1>3, <1>4, <2>2, <2>3, <2>4, <2>5 DEF Nameless
<1>9. PathsDiffer(t)'
  <2>1. SUFFICES ASSUME NEW v \in Linked', NEW w \in Linked', node'[v].path = node'[w].path
                 PROVE  v = w
    BY DEF PathsDiffer
  <2>2. v \in Vnodes /\ w \in Vnodes /\ v \in Linked /\ w \in Linked
    BY <1>1, <1>3
  <2> QED
    BY <1>2, <1>4, <2>1, <2>2 DEF LinksInv, PathsDiffer, Nameless
<1>10. OwnedWhenLinked(t)'
  <2>1. ASSUME NEW v \in Alive
        PROVE  node'[v].count = References(v)' + Has(v \in Linked' \/ Maker(t, v)')
    <3> DEFINE a == Has(v \in Linked \/ Maker(t, v))
               b == Has(v \in Linked' \/ Maker(t, v)')
    <3>1. v \in Vnodes
      BY <1>1
    <3>2. node[v].count = References(v) + a
      BY DEF RefsInv, OwnedWhenLinked
    <3>3. a = b /\ a \in Nat
      BY <1>3, <1>4 DEF Maker, Fresh, Has
    <3> HIDE DEF a, b
    <3>4. /\ References(v) = Mine(t, v) /\ References(v)' = Mine(t, v)'
          /\ Mine(t, v) \in Nat /\ Mine(t, v)' \in Nat
      BY RefsAreMine
    <3>5. node'[v].count + Mine(t, v) = node[v].count + Mine(t, v)'
      BY <1>2, <3>1
    <3>6. node[v].count \in Nat /\ node'[v].count \in Nat
      BY <3>1, NodeTyped DEF TypeInv, StateTyped
    <3>7. node'[v].count = References(v)' + b
      BY <3>2, <3>3, <3>4, <3>5, <3>6
    <3> QED
      BY <3>7 DEF b
  <2> QED
    BY <1>1, <2>1 DEF OwnedWhenLinked
<1>11. NoneLost'
  <2>1. ASSUME NEW v \in Vnodes, v \notin Alive
        PROVE  References(v)' = 0
    <3>1. References(v) = 0
      BY <2>1 DEF RefsInv, NoneLost
    <3>2. References(v) = Mine(t, v) /\ References(v)' = Mine(t, v)'
      BY RefsAreMine
    <3> QED
      BY <1>2, <2>1, <3>1, <3>2
  <2> QED
    BY <1>1, <2>1 DEF NoneLost
<1> QED
  BY <1>1, <1>3, <1>5, <1>6, <1>7, <1>8, <1>9, <1>10, <1>11 DEF LinksInv, RefsInv

\* At most steps there is nothing to know.
LEMMA KnowsNothing ==
  ASSUME NEW t \in Threads, pc'[t] \in {"idle", "find", "list", "rele", "inactive", "giveUp"},
         pc'[t] = "giveUp" => KnowsHeld(t)'
  PROVE  Knowing(t)'
<1>1. KnowsEntry(t)' /\ KnowsServer(t)' /\ KnowsNew(t)'
  BY DEF KnowsEntry, KnowsServer, KnowsNew
<1>2. KnowsHeld(t)'
  BY DEF KnowsHeld, Held
<1> QED
  BY <1>1, <1>2 DEF Knowing

\* What the thread has in hand after a quiet step.
LEMMA QuietSolo ==
  ASSUME NEW t \in Threads, Alone(t), TypeInv, TypeInv', SoloAt(t), QuietStep(t), Knowing(t)',
         pc'[t] # "wild", op'[t].call # "createExcl",
         dir'[t] # NoVnode => dir'[t] \in Linked /\ node[dir'[t]].type = "dir",
         res'[t] # NoVnode /\ node[res'[t]].type = "dir" => res'[t] \in Linked,
         pc'[t] \in Making => res'[t] = NoVnode,
         pc'[t] \in Searching /\ op'[t].call \notin {"remove", "rmdir"} => res'[t] = NoVnode,
         pc'[t] \notin Held => vp'[t] = NoVnode
  PROVE  SoloAt(t)'
<1>1. LinksInv(t)' /\ RefsInv(t)' /\ Alive' = Alive /\ Linked' = Linked
  BY QuietKeeps DEF SoloAt
<1>2. dir'[t] \in Vnodes \cup {NoVnode} /\ res'[t] \in Vnodes \cup {NoVnode}
  BY DEF TypeInv, HandsTyped
<1>3. \A v \in Vnodes : node'[v].type = node[v].type
  BY DEF QuietStep, Even, Twin
<1>4. pc'[t] \notin Fresh /\ pc'[t] # "ref"
  BY DEF QuietStep, Fresh
<1>5. Standing(t)'
  BY <1>1, <1>2, <1>3, <1>4 DEF Standing, Maker
<1> QED
  BY <1>1, <1>5 DEF SoloAt

\* An operation goes from one step to another and keeps what it has in hand.
OnTheWay(t) ==
  /\ UNCHANGED <<list, node, dir, res, vp, todo>>
  /\ pc[t] \notin Fresh \cup {"wild"} /\ pc'[t] \notin Fresh \cup {"wild"}
  /\ pc[t] \in Held <=> pc'[t] \in Held
  /\ op'[t].call # "createExcl"
  /\ pc'[t] \in Making => res[t] = NoVnode
  /\ pc'[t] \in Searching /\ op'[t].call \notin {"remove", "rmdir"} => res[t] = NoVnode
  /\ Shows(t)

LEMMA WaySolo ==
  ASSUME NEW t \in Threads, Alone(t), TypeInv, TypeInv', SoloAt(t), OnTheWay(t), Knowing(t)'
  PROVE  SoloAt(t)'
<1>1. \A v : Mine(t, v)' = Mine(t, v)
  BY DEF OnTheWay, Mine, Todo, InSeq
<1>2. \A w \in Vnodes : Twin(w) /\ node'[w].count = node[w].count
  BY SameTwins DEF OnTheWay
<1>3. QuietStep(t)
  BY <1>1, <1>2 DEF QuietStep, Even, OnTheWay, Fresh
<1>4. /\ dir[t] # NoVnode => dir[t] \in Linked /\ node[dir[t]].type = "dir"
      /\ res[t] # NoVnode /\ node[res[t]].type = "dir" => res[t] \in Linked
      /\ pc[t] \notin Held \cup Fresh => vp[t] = NoVnode
  BY DEF SoloAt, Standing
<1> QED
  BY <1>3, <1>4, QuietSolo DEF OnTheWay

LEMMA CallSolo ==
  ASSUME NEW t \in Threads, Alone(t), TypeInv, TypeInv', SoloAt(t), Call(t)
  PROVE  SoloAt(t)'
<1>1. PICK c \in AllCalls \ {"unmount"}, n \in Entries : Start(t, c, n)
  BY DEF Call, AllCalls, Entries
<1> DEFINE l == CASE c = "mkdir" -> "askMkdir" [] c = "readdir" -> "list" [] OTHER -> "find"
           o == [NoOp EXCEPT !.call = c, !.name = n]
<1>2. /\ pc[t] = "idle" /\ c \in Calls /\ Go(t, l, o)
      /\ c \notin {"remove", "rmdir", "readdir"} => res[t] = NoVnode
      /\ UNCHANGED <<disk, list, mount, node, dir, res, vp, todo>>
  BY <1>1 DEF Start, At, hands, umount, fs
<1>3. /\ l \in {"askMkdir", "list", "find"} /\ (l = "askMkdir" => c = "mkdir")
      /\ (l = "find" => c \notin {"mkdir", "readdir"})
  OBVIOUS
<1>4. o.call = c /\ o.found = NoId
  BY DEF NoOp
<1>5. pc'[t] = l /\ op'[t] = o
  BY <1>2 DEF Go, TypeInv, HandsTyped
<1> HIDE DEF l, o
<1>6. Knowing(t)'
  <2>1. CASE l # "askMkdir"
    BY <1>3, <1>5, <2>1, KnowsNothing
  <2>2. CASE l = "askMkdir"
    <3>1. KnowsEntry(t)' /\ KnowsServer(t)' /\ KnowsNew(t)'
      BY <1>4, <1>5, <2>2 DEF KnowsEntry, KnowsServer, KnowsNew
    <3>2. KnowsHeld(t)'
      BY <1>5, <2>2 DEF KnowsHeld, Held
    <3> QED
      BY <3>1, <3>2 DEF Knowing
  <2> QED
    BY <2>1, <2>2
<1>7. Shows(t)
  BY <1>2, ShowsSame DEF SoloAt
<1>8. OnTheWay(t)
  BY <1>2, <1>3, <1>4, <1>5, <1>7 DEF OnTheWay, Fresh, Held, Making, Searching, Alone
<1> QED
  BY <1>6, <1>8, WaySolo

LEMMA FindSolo ==
  ASSUME NEW t \in Threads, Alone(t), TypeInv, TypeInv', SoloAt(t), iumfs_find_nodeid_by_name(t)
  PROVE  SoloAt(t)'
<1> DEFINE id == node[dir[t]].entries[op[t].name]
           l == IF id = NoId THEN "noent" ELSE "get"
           o == [op[t] EXCEPT !.found = id]
<1>1. /\ pc[t] = "find" /\ Go(t, l, o) /\ l \in {"noent", "get"}
      /\ UNCHANGED <<disk, list, mount, node, dir, res, vp, todo>>
      /\ l = "noent" <=> id = NoId
  BY DEF iumfs_find_nodeid_by_name, At, hands, umount, fs
<1>2. op[t] \in Operation
  BY DEF TypeInv, HandsTyped
<1>3. o.call = op[t].call /\ o.name = op[t].name /\ o.found = id
  BY <1>2 DEF Operation
<1>4. pc'[t] = l /\ op'[t] = o /\ Entry(t) = id
  BY <1>1 DEF Go, TypeInv, HandsTyped, Entry
<1> HIDE DEF id, l, o
<1>5. Knowing(t)'
  <2>1. KnowsEntry(t)'
    BY <1>1, <1>3, <1>4 DEF KnowsEntry, Entry
  <2>2. KnowsServer(t)' /\ KnowsNew(t)'
    BY <1>1, <1>4 DEF KnowsServer, KnowsNew
  <2>3. KnowsHeld(t)'
    BY <1>1, <1>4 DEF KnowsHeld, Held
  <2> QED
    BY <2>1, <2>2, <2>3 DEF Knowing
<1>6. Shows(t)
  BY <1>1, ShowsSame DEF SoloAt
<1>7. op[t].call # "createExcl"
      /\ (op[t].call \notin {"remove", "rmdir"} => res[t] = NoVnode)
  BY <1>1 DEF SoloAt, Standing, Searching
<1>8. OnTheWay(t)
  BY <1>1, <1>3, <1>4, <1>6, <1>7 DEF OnTheWay, Fresh, Held, Making
<1> QED
  BY <1>5, <1>8, WaySolo

\* The same for the steps of an operation that only look.
LEMMA LooksSolo ==
  ASSUME NEW t \in Threads, Alone(t), TypeInv, TypeInv', SoloAt(t),
         UNCHANGED <<disk, list, node, dir, res, vp, todo>>,
         NEW l \in Pcs \ (Fresh \cup {"wild"}), Goto(t, l),
         pc[t] \notin Fresh \cup {"wild", "unlink"}, pc[t] \in Held <=> l \in Held,
         l \in Making => res[t] = NoVnode, l \in Searching => pc[t] \in Searching,
         Knowing(t)'
  PROVE  SoloAt(t)'
<1>1. pc'[t] = l /\ op'[t] = IF l = "idle" THEN NoOp ELSE op[t]
  BY GotoMoves DEF TypeInv
<1>2. Shows(t)
  BY ShowsSame DEF SoloAt
<1>3. op'[t].call # "createExcl"
  BY <1>1 DEF SoloAt, Standing, NoOp
<1>4. l \in Searching /\ op'[t].call \notin {"remove", "rmdir"} => res[t] = NoVnode
  BY <1>1 DEF SoloAt, Standing, Searching
<1>5. OnTheWay(t)
  BY <1>1, <1>2, <1>3, <1>4 DEF OnTheWay
<1> QED
  BY <1>5, WaySolo

LEMMA NotCachedSolo ==
  ASSUME NEW t \in Threads, Alone(t), TypeInv, TypeInv', SoloAt(t), NotCached(t)
  PROVE  SoloAt(t)'
<1>1. /\ pc[t] = "noent" /\ UNCHANGED <<disk, list, node, dir, res, vp, todo>>
      /\ {"askLookup", "idle"} \subseteq Pcs
  BY DEF NotCached, At, fs, umount, hands, Pcs
<1>2. CASE Goto(t, "idle")
  <2>1. pc'[t] = "idle"
    BY <1>1, <1>2, GotoMoves DEF TypeInv
  <2> QED
    BY <1>1, <1>2, <2>1, KnowsNothing, LooksSolo DEF Fresh, Held, Making, Searching
<1>3. CASE Goto(t, "askLookup") /\ op[t].call \in {"lookup", "create", "createExcl"}
  <2>1. pc'[t] = "askLookup" /\ op'[t] = op[t]
    BY <1>1, <1>3, GotoMoves DEF TypeInv
  <2>2. Alive' = Alive
    BY <1>1 DEF Alive
  <2>3. KnowsEntry(t)'
    BY <1>1, <2>1, <2>2 DEF SoloAt, Knowing, KnowsEntry, Entry
  <2>4. KnowsServer(t)' /\ KnowsNew(t)' /\ KnowsHeld(t)'
    BY <2>1 DEF KnowsServer, KnowsNew, KnowsHeld, Held
  <2>5. res[t] = NoVnode
    BY <1>1, <1>3 DEF SoloAt, Standing, Searching
  <2> QED
    BY <1>1, <1>3, <2>3, <2>4, <2>5, LooksSolo DEF Knowing, Fresh, Held, Making, Searching
<1> QED
  BY <1>2, <1>3 DEF NotCached

LEMMA AskLookupSolo ==
  ASSUME NEW t \in Threads, Alone(t), TypeInv, TypeInv', SoloAt(t), AskLookup(t)
  PROVE  SoloAt(t)'
<1>1. /\ pc[t] = "askLookup" /\ UNCHANGED <<disk, list, node, dir, res, vp, todo>>
      /\ {"allocDir", "allocFile", "idle", "askCreate"} \subseteq Pcs
  BY DEF AskLookup, At, fs, umount, hands, Pcs
<1>2. Alive' = Alive /\ res[t] = NoVnode
  BY <1>1 DEF Alive, SoloAt, Standing, Making
<1>3. ASSUME NEW l \in {"allocDir", "allocFile"}, Exists(Target(t)), Goto(t, l)
      PROVE  SoloAt(t)'
  <2>1. pc'[t] = l /\ op'[t] = op[t]
    BY <1>1, <1>3, GotoMoves DEF TypeInv
  <2>2. KnowsEntry(t)'
    BY <1>1, <1>2, <2>1 DEF SoloAt, Knowing, KnowsEntry, Entry
  <2>3. KnowsServer(t)'
    BY <1>1, <1>3, <2>1, DiskSame DEF KnowsServer, Target, Exists, OnServer
  <2>4. KnowsNew(t)' /\ KnowsHeld(t)'
    BY <2>1 DEF KnowsNew, KnowsHeld, Held
  <2> QED
    BY <1>1, <1>2, <1>3, <2>2, <2>3, <2>4, LooksSolo DEF Knowing, Fresh, Held, Making, Searching
<1>4. CASE ~Exists(Target(t)) /\ Goto(t, "askCreate")
  <2>1. pc'[t] = "askCreate" /\ op'[t] = op[t]
    BY <1>1, <1>4, GotoMoves DEF TypeInv
  <2>2. KnowsServer(t)'
    BY <1>1, <1>4, <2>1, DiskSame DEF KnowsServer, Target, Exists, OnServer
  <2>3. KnowsEntry(t)' /\ KnowsNew(t)' /\ KnowsHeld(t)'
    BY <2>1 DEF KnowsEntry, KnowsNew, KnowsHeld, Held
  <2> QED
    BY <1>1, <1>2, <1>4, <2>2, <2>3, LooksSolo DEF Knowing, Fresh, Held, Making, Searching
<1>5. CASE Goto(t, "idle")
  <2>1. pc'[t] = "idle"
    BY <1>1, <1>5, GotoMoves DEF TypeInv
  <2> QED
    BY <1>1, <1>5, <2>1, KnowsNothing, LooksSolo DEF Fresh, Held, Making, Searching
<1> QED
  BY <1>3, <1>4, <1>5 DEF AskLookup, LookupFailed, Alone

LEMMA EmptySolo ==
  ASSUME NEW t \in Threads, Alone(t), TypeInv, TypeInv', SoloAt(t), iumfs_dir_is_empty(t)
  PROVE  SoloAt(t)'
<1>1. /\ pc[t] = "empty" /\ UNCHANGED <<disk, list, node, dir, res, vp, todo>>
      /\ {"askRmdir", "giveUp"} \subseteq Pcs
  BY DEF iumfs_dir_is_empty, At, fs, umount, hands, Pcs
<1>2. Alive' = Alive /\ KnowsHeld(t)
  BY <1>1 DEF Alive, SoloAt, Knowing
<1>3. ASSUME NEW l \in {"askRmdir", "giveUp"}, Goto(t, l),
             l = "askRmdir" => \A n \in Names : node[vp[t]].entries[n] = NoId
      PROVE  SoloAt(t)'
  <2>1. pc'[t] = l /\ op'[t] = op[t]
    BY <1>1, <1>3, GotoMoves DEF TypeInv
  <2>2. KnowsHeld(t)'
    BY <1>1, <1>2, <1>3, <2>1 DEF KnowsHeld, Entry, Held
  <2>3. KnowsEntry(t)' /\ KnowsServer(t)' /\ KnowsNew(t)'
    BY <2>1 DEF KnowsEntry, KnowsServer, KnowsNew
  <2> QED
    BY <1>1, <1>3, <2>2, <2>3, LooksSolo DEF Knowing, Fresh, Held, Making, Searching
<1> QED
  BY <1>3 DEF iumfs_dir_is_empty

LEMMA ListSolo ==
  ASSUME NEW t \in Threads, Alone(t), TypeInv, TypeInv', SoloAt(t), iumfs_request_readdir(t)
  PROVE  SoloAt(t)'
<1>1. /\ pc[t] = "list" /\ UNCHANGED <<disk, list, node, dir, res, vp, todo>>
      /\ op[t] \in Operation /\ {"add", "idle"} \subseteq Pcs
  BY DEF iumfs_request_readdir, At, fs, umount, hands, TypeInv, HandsTyped, Pcs
<1>2. CASE Go(t, "add", [op[t] EXCEPT !.listed = Children(node[dir[t]].path)])
  <2>1. pc'[t] = "add" /\ op'[t] = [op[t] EXCEPT !.listed = Children(node[dir[t]].path)]
    BY <1>1, <1>2 DEF Go, TypeInv, HandsTyped
  <2>2. op'[t].call = op[t].call /\ op'[t].listed = Children(node[dir[t]].path)
    BY <1>1, <2>1 DEF Operation
  <2>3. \A n \in op'[t].listed : Exists(Append(node[dir[t]].path, n))
    BY <2>2 DEF Children
  <2>4. KnowsServer(t)'
    BY <1>1, <2>1, <2>3, DiskSame DEF KnowsServer, Exists, OnServer
  <2>5. KnowsEntry(t)' /\ KnowsNew(t)' /\ KnowsHeld(t)'
    BY <2>1 DEF KnowsEntry, KnowsNew, KnowsHeld, Held
  <2>6. Shows(t)
    BY <1>1, ShowsSame DEF SoloAt
  <2>7. OnTheWay(t)
    BY <1>1, <2>1, <2>2, <2>6 DEF OnTheWay, SoloAt, Standing, Fresh, Held, Making, Searching
  <2> QED
    BY <2>4, <2>5, <2>7, WaySolo DEF Knowing
<1>3. CASE Goto(t, "idle")
  <2>1. pc'[t] = "idle"
    BY <1>1, <1>3, GotoMoves DEF TypeInv
  <2> QED
    BY <1>1, <1>3, <2>1, KnowsNothing, LooksSolo DEF Fresh, Held, Making, Searching
<1> QED
  BY <1>2, <1>3 DEF iumfs_request_readdir

\* Memory is there and requests are answered, so neither the vnode nor the directory fails.
LEMMA NothingFails ==
  ASSUME NEW t \in Threads, Alone(t), TypeInv, SoloAt(t)
  PROVE  ~AllocFails(t) /\ ~Stray(t)
  BY TouchesAlive DEF Alone, AllocFails, Stray

-----------------------------------------------------------------------------
(***************************************************************************)
(* Steps that take references or hand them on.                             *)
(***************************************************************************)
LEMMA EndsSolo ==
  ASSUME NEW t \in Threads, Alone(t), TypeInv, TypeInv', SoloAt(t), NEW s, ReturnAfter(t, s),
         UNCHANGED <<disk, list, node>>, pc[t] \notin Fresh \cup {"unlink"},
         \A v \in Vnodes : Mine(t, v)' = Mine(t, v),
         dir'[t] \in {NoVnode, dir[t]} \/ (dir'[t] = res[t] /\ node[res[t]].type = "dir"),
         res'[t] \in {NoVnode, res[t]}
  PROVE  SoloAt(t)'
<1>1. pc'[t] = "rele" /\ op'[t] = op[t] /\ vp'[t] = NoVnode
  <2>1. "rele" \in Pcs /\ Goto(t, "rele")
    BY DEF Pcs, ReturnAfter
  <2> QED
    BY <2>1, GotoMoves DEF TypeInv, HandsTyped, ReturnAfter
<1>2. \A w \in Vnodes : Twin(w) /\ node'[w].count = node[w].count
  BY SameTwins
<1>3. Shows(t)
  BY ShowsSame DEF SoloAt
<1>4. QuietStep(t)
  BY <1>1, <1>2, <1>3 DEF QuietStep, Even, Fresh
<1>5. /\ dir'[t] # NoVnode => dir'[t] \in Linked /\ node[dir'[t]].type = "dir"
      /\ res'[t] # NoVnode /\ node[res'[t]].type = "dir" => res'[t] \in Linked
      /\ op'[t].call # "createExcl"
  BY <1>1 DEF SoloAt, Standing
<1> QED
  BY <1>1, <1>4, <1>5, KnowsNothing, QuietSolo DEF Making, Searching

LEMMA ChdirSolo ==
  ASSUME NEW t \in Threads, Alone(t), TypeInv, TypeInv', SoloAt(t), Chdir(t)
  PROVE  SoloAt(t)'
<1>1. /\ pc[t] = "idle" /\ ReturnAfter(t, <<dir[t]>>) /\ dir'[t] = res[t] /\ res'[t] = NoVnode
      /\ \A r \in Threads : r # t => res'[r] = res[r] /\ dir'[r] = dir[r]
      /\ UNCHANGED <<disk, list, mount, node>> /\ node[res[t]].type = "dir"
  BY DEF Chdir, At, TypeInv, HandsTyped, umount, fs
<1>2. \A v : Mine(t, v)' = Has(dir'[t] = v) + Has(res'[t] = v) + InSeq(<<dir[t]>>, v)
  BY <1>1, ReturnAfterEnds
<1>3. ASSUME NEW v \in Vnodes
      PROVE  Mine(t, v)' = Mine(t, v)
  <2>1. Mine(t, v) = Has(dir[t] = v) + Has(res[t] = v)
    BY <1>1, MineIs DEF Has, Held, Releasing
  <2>2. Mine(t, v)' = Has(res[t] = v) + Has(NoVnode = v) + Has(dir[t] = v)
    BY <1>1, <1>2, InOne
  <2>3. Has(NoVnode = v) = 0
    BY DEF Has, Vnodes, NoVnode
  <2> QED
    BY <2>1, <2>2, <2>3 DEF Has
<1> QED
  BY <1>1, <1>3, EndsSolo DEF Fresh

LEMMA CloseSolo ==
  ASSUME NEW t \in Threads, Alone(t), TypeInv, TypeInv', SoloAt(t), Close(t)
  PROVE  SoloAt(t)'
<1>1. /\ pc[t] = "idle" /\ ReturnAfter(t, <<res[t]>>) /\ dir' = dir /\ res'[t] = NoVnode
      /\ \A r \in Threads : r # t => res'[r] = res[r] /\ dir'[r] = dir[r]
      /\ UNCHANGED <<disk, list, mount, node>>
  BY DEF Close, TypeInv, HandsTyped, umount, fs
<1>2. \A v : Mine(t, v)' = Has(dir'[t] = v) + Has(res'[t] = v) + InSeq(<<res[t]>>, v)
  BY <1>1, ReturnAfterEnds
<1>3. ASSUME NEW v \in Vnodes
      PROVE  Mine(t, v)' = Mine(t, v)
  <2>1. Mine(t, v) = Has(dir[t] = v) + Has(res[t] = v)
    BY <1>1, MineIs DEF Has, Held, Releasing
  <2>2. Mine(t, v)' = Has(dir[t] = v) + Has(NoVnode = v) + Has(res[t] = v)
    BY <1>1, <1>2, InOne
  <2>3. Has(NoVnode = v) = 0
    BY DEF Has, Vnodes, NoVnode
  <2> QED
    BY <2>1, <2>2, <2>3 DEF Has
<1> QED
  BY <1>1, <1>3, EndsSolo DEF Fresh

LEMMA LeaveSolo ==
  ASSUME NEW t \in Threads, Alone(t), TypeInv, TypeInv', SoloAt(t), Leave(t)
  PROVE  SoloAt(t)'
<1>1. /\ pc[t] = "idle" /\ ReturnAfter(t, <<dir[t]>>) /\ res' = res /\ dir'[t] = NoVnode
      /\ \A r \in Threads : r # t => res'[r] = res[r] /\ dir'[r] = dir[r]
      /\ UNCHANGED <<disk, list, mount, node>>
  BY DEF Leave, TypeInv, HandsTyped, umount, fs
<1>2. \A v : Mine(t, v)' = Has(dir'[t] = v) + Has(res'[t] = v) + InSeq(<<dir[t]>>, v)
  BY <1>1, ReturnAfterEnds
<1>3. ASSUME NEW v \in Vnodes
      PROVE  Mine(t, v)' = Mine(t, v)
  <2>1. Mine(t, v) = Has(dir[t] = v) + Has(res[t] = v)
    BY <1>1, MineIs DEF Has, Held, Releasing
  <2>2. Mine(t, v)' = Has(NoVnode = v) + Has(res[t] = v) + Has(dir[t] = v)
    BY <1>1, <1>2, InOne
  <2>3. Has(NoVnode = v) = 0
    BY DEF Has, Vnodes, NoVnode
  <2> QED
    BY <2>1, <2>2, <2>3 DEF Has
<1> QED
  BY <1>1, <1>3, EndsSolo DEF Fresh

LEMMA GiveUpSolo ==
  ASSUME NEW t \in Threads, Alone(t), TypeInv, TypeInv', SoloAt(t), GiveUp(t)
  PROVE  SoloAt(t)'
<1>1. /\ pc[t] = "giveUp" /\ ReturnAfter(t, <<vp[t]>>) /\ res' = res /\ dir' = dir
      /\ UNCHANGED <<disk, list, mount, node>>
  BY DEF GiveUp, At, umount, fs
<1>2. \A v : Mine(t, v)' = Has(dir'[t] = v) + Has(res'[t] = v) + InSeq(<<vp[t]>>, v)
  BY <1>1, ReturnAfterEnds
<1>3. ASSUME NEW v \in Vnodes
      PROVE  Mine(t, v)' = Mine(t, v)
  <2>1. Mine(t, v) = Has(dir[t] = v) + Has(res[t] = v) + Has(vp[t] = v)
    BY <1>1, MineIs DEF Has, Held, Releasing
  <2>2. Mine(t, v)' = Has(dir[t] = v) + Has(res[t] = v) + Has(vp[t] = v)
    BY <1>1, <1>2, InOne
  <2> QED
    BY <2>1, <2>2
<1> QED
  BY <1>1, <1>3, EndsSolo DEF Fresh

LEMMA RootSolo ==
  ASSUME NEW t \in Threads, Alone(t), TypeInv, TypeInv', SoloAt(t), Root(t)
  PROVE  SoloAt(t)'
<1>1. /\ pc[t] = "idle" /\ dir[t] = NoVnode /\ VN_HOLD(RootV) /\ dir'[t] = RootV
      /\ UNCHANGED <<disk, list, mount, pc, op, res, vp, todo>>
      /\ RootV \in Vnodes /\ RootV \in Alive
  BY NodesAssumption DEF Root, TypeInv, HandsTyped, umount, RootV, Vnodes
<1>2. \A w \in Vnodes : Twin(w) /\ node'[w].count = node[w].count + Has(w = RootV)
  BY <1>1, HoldTwins
<1>3. \A w \in Vnodes : node[w].count \in Nat
  BY NodeTyped DEF TypeInv, StateTyped
<1>4. ASSUME NEW w \in Vnodes
      PROVE  Mine(t, w)' = Mine(t, w) + Has(w = RootV) /\ Mine(t, w) \in Nat
  <2>1. /\ Mine(t, w) = Has(dir[t] = w) + Has(res[t] = w) + InSeq(todo[t], w)
        /\ InSeq(todo[t], w) \in Nat
    <3>1. /\ InSeq(todo[t], w) \in Nat
          /\ Mine(t, w) = Has(dir[t] = w) + Has(res[t] = w) + 0 + InSeq(todo[t], w)
      BY <1>1, MineIs DEF Held
    <3> QED
      BY <3>1 DEF Has
  <2>2. Mine(t, w)' = Has(dir'[t] = w) + Has(res[t] = w) + InSeq(todo[t], w)
    BY <1>1, <2>1, MineWillBe DEF Has, Held
  <2>3. Has(dir[t] = w) = 0 /\ Has(dir'[t] = w) = Has(w = RootV)
    BY <1>1 DEF Has, Vnodes, NoVnode
  <2> QED
    BY <2>1, <2>2, <2>3 DEF Has
<1>5. Shows(t)
  BY <1>1, ShowsSame DEF SoloAt
<1>6. QuietStep(t)
  BY <1>1, <1>2, <1>3, <1>4, <1>5 DEF QuietStep, Even, Fresh, Has
<1>7. RootV \in Linked /\ node[RootV].type = "dir"
  BY <1>1 DEF Linked, SoloAt, LinksInv, RootIn
<1>8. /\ res[t] # NoVnode /\ node[res[t]].type = "dir" => res[t] \in Linked
      /\ op[t].call # "createExcl" /\ vp[t] = NoVnode
  BY <1>1 DEF SoloAt, Standing, Held, Fresh
<1> QED
  BY <1>1, <1>6, <1>7, <1>8, KnowsNothing, QuietSolo DEF Making, Searching

\* An operation ends with a vnode that is held for the caller.
LEMMA ReturnsSolo ==
  ASSUME NEW t \in Threads, Alone(t), TypeInv, TypeInv', SoloAt(t), NEW v \in Alive,
         VN_HOLD(v), Return(t, v), pc[t] \notin Held \cup Releasing \cup {"wild", "dots", "name", "link"},
         res[t] = NoVnode, UNCHANGED <<disk, list, dir, todo>>,
         node[v].type = "dir" => v \in Linked, pc[t] = "ref" => vp[t] \in Linked
  PROVE  SoloAt(t)'
<1>1. HandsTyped /\ "idle" \in Pcs /\ Goto(t, "idle") /\ v \in Vnodes
  BY AliveTyped DEF TypeInv, StateTyped, Pcs, Return
<1>2. pc'[t] = "idle" /\ op'[t] = NoOp /\ res'[t] = v /\ vp'[t] = NoVnode
  BY <1>1, GotoMoves DEF Return, HandsTyped
<1>3. /\ \A w \in Vnodes : Twin(w) /\ node'[w].count = node[w].count + Has(w = v)
      /\ \A w \in Vnodes : node[w].count \in Nat
  BY <1>1, HoldTwins, NodeTyped DEF TypeInv, StateTyped
<1>4. ASSUME NEW w \in Vnodes
      PROVE  Mine(t, w)' = Mine(t, w) + Has(w = v) /\ Mine(t, w) \in Nat
  <2>1. Mine(t, w) = Has(dir[t] = w) + Has(res[t] = w) + 0 + InSeq(todo[t], w)
    BY MineIs
  <2>2. Mine(t, w)' = Has(dir[t] = w) + Has(v = w) + 0 + InSeq(todo[t], w)
    BY <1>2, MineWillBe DEF Held
  <2>3. InSeq(todo[t], w) = 0
    BY MineIs
  <2>4. Has(res[t] = w) = 0
    BY DEF Has, Vnodes, NoVnode
  <2> QED
    BY <2>1, <2>2, <2>3, <2>4 DEF Has
<1>5. Shows(t)
  BY ShowsSame DEF SoloAt, Held
<1>6. QuietStep(t)
  BY <1>2, <1>3, <1>4, <1>5 DEF QuietStep, Even, Fresh, Has
<1>7. dir[t] # NoVnode => dir[t] \in Linked /\ node[dir[t]].type = "dir"
  BY DEF SoloAt, Standing
<1> QED
  BY <1>2, <1>6, <1>7, KnowsNothing, QuietSolo DEF NoOp, Making, Searching

LEMMA RefSolo ==
  ASSUME NEW t \in Threads, Alone(t), TypeInv, TypeInv', SoloAt(t), Ref(t)
  PROVE  SoloAt(t)'
<1>1. /\ pc[t] = "ref" /\ VN_HOLD(vp[t]) /\ UNCHANGED <<disk, list, dir>>
  BY DEF Ref, At
<1>2. vp[t] \in Alive /\ vp[t] \in Linked /\ res[t] = NoVnode /\ op[t].call # "createExcl"
  BY <1>1 DEF SoloAt, Standing, Knowing, KnowsNew, Fresh
<1>3. Return(t, vp[t]) /\ UNCHANGED todo
  BY <1>2 DEF Ref
<1> QED
  BY <1>1, <1>2, <1>3, ReturnsSolo DEF Held, Releasing

\* A vnode that is neither linked nor being made is one the thread refers to.
LEMMA UnlinkedReferred ==
  ASSUME NEW t \in Threads, Alone(t), TypeInv, SoloAt(t), NEW v \in Alive, v \notin Linked,
         ~Maker(t, v)
  PROVE  node[v].count = Mine(t, v) /\ Mine(t, v) > 0
<1>1. v \in Vnodes
  BY AliveTyped DEF TypeInv, StateTyped
<1>2. node[v].count \in Nat \ {0}
  BY <1>1, NodeTyped DEF TypeInv, StateTyped
<1>3. node[v].count = References(v) + 0
  BY DEF SoloAt, RefsInv, OwnedWhenLinked, Has
<1>4. References(v) = Mine(t, v) /\ Mine(t, v) \in Nat
  BY RefsAreMine
<1> QED
  BY <1>2, <1>3, <1>4

LEMMA GetSolo ==
  ASSUME NEW t \in Threads, Alone(t), TypeInv, TypeInv', SoloAt(t), iumfs_find_vnode_by_nodeid(t)
  PROVE  SoloAt(t)'
<1>1. /\ pc[t] = "get" /\ UNCHANGED <<disk, list, mount, dir>>
      /\ \/ /\ Goto(t, "noent") /\ UNCHANGED <<node, res, vp, todo>>
            /\ \A v \in Alive : node[v].id # op[t].found
         \/ Found(t) \in Alive /\ node[Found(t)].id = op[t].found /\ Taken(t, Found(t))
  BY Takes DEF umount
<1>2. /\ HandsTyped /\ Asking(t) /\ Standing(t) /\ KnowsEntry(t)
      /\ {"noent", "idle", "askRemove", "empty", "giveUp"} \subseteq Pcs
      /\ Alive' = Alive
  BY <1>1 DEF TypeInv, SoloAt, Knowing, Pcs, Alive
<1>3. CASE /\ Goto(t, "noent") /\ UNCHANGED <<node, res, vp, todo>>
           /\ \A v \in Alive : node[v].id # op[t].found
  <2>1. pc'[t] = "noent" /\ op'[t] = op[t]
    BY <1>2, <1>3, GotoMoves
  <2>2. KnowsEntry(t)'
    BY <1>1, <1>2, <1>3, <2>1 DEF KnowsEntry, Entry
  <2>3. KnowsServer(t)' /\ KnowsNew(t)' /\ KnowsHeld(t)'
    BY <2>1 DEF KnowsServer, KnowsNew, KnowsHeld, Held
  <2> QED
    BY <1>1, <1>2, <1>3, <2>2, <2>3, LooksSolo DEF Knowing, Fresh, Held, Making, Searching
<1>4. ASSUME NEW v \in Alive, node[v].id = op[t].found, Taken(t, v)
      PROVE  SoloAt(t)'
  <2>1. v \in Vnodes /\ VN_HOLD(v)
    BY <1>4, AliveTyped DEF TypeInv, StateTyped, Taken
  <2>2. \A w : Mine(t, w) = Has(dir[t] = w) + Has(res[t] = w) + 0 + 0
    BY <1>1, MineIs DEF Held, Releasing
  <2>3. CASE Return(t, v) /\ UNCHANGED todo /\ op[t].call \in {"lookup", "dotdot", "create"}
    <3>1. res[t] = NoVnode
      BY <1>1, <1>2, <2>3 DEF Standing, Searching
    <3>2. v \in Linked
      <4>1. SUFFICES ASSUME v \notin Linked
                     PROVE  FALSE
        OBVIOUS
      <4>2. Mine(t, v) > 0
        BY <1>1, <4>1, UnlinkedReferred DEF Maker, Fresh
      <4>3. dir[t] # v /\ res[t] # v
        BY <1>2, <2>1, <3>1, <4>1 DEF Standing, Vnodes, NoVnode
      <4> QED
        BY <2>2, <4>2, <4>3 DEF Has
    <3> QED
      BY <1>1, <2>1, <2>3, <3>1, <3>2, ReturnsSolo DEF Held, Releasing
  <2>4. CASE ReturnAfter(t, <<v, v>>) /\ UNCHANGED res /\ op[t].call = "createExcl"
    BY <1>2, <2>4 DEF Standing
  <2>5. ASSUME NEW l \in {"askRemove", "empty", "giveUp"}, Goto(t, l),
               vp' = [vp EXCEPT ![t] = v], UNCHANGED <<res, todo>>,
               op[t].call \in {"remove", "rmdir"},
               l = "askRemove" => node[v].type = "file",
               l = "empty" => node[v].type = "dir" /\ v # res[t]
        PROVE  SoloAt(t)'
    <3>1. pc'[t] = l /\ op'[t] = op[t] /\ vp'[t] = v
      BY <1>2, <2>5, GotoMoves DEF HandsTyped
    <3>2. /\ \A w \in Vnodes : Twin(w) /\ node'[w].count = node[w].count + Has(w = v)
          /\ \A w \in Vnodes : node[w].count \in Nat
      BY <2>1, HoldTwins, NodeTyped DEF TypeInv, StateTyped
    <3>3. ASSUME NEW w \in Vnodes
          PROVE  Mine(t, w)' = Mine(t, w) + Has(w = v) /\ Mine(t, w) \in Nat
      <4>1. Mine(t, w)' = Has(dir[t] = w) + Has(res[t] = w) + Has(v = w) + InSeq(todo[t], w)
        BY <1>1, <2>5, <3>1, MineWillBe DEF Held
      <4>2. InSeq(todo[t], w) = 0
        BY <1>1, MineIs DEF Releasing
      <4> QED
        BY <2>2, <4>1, <4>2 DEF Has
    <3>4. Shows(t)
      BY <1>1, ShowsSame DEF SoloAt
    <3>5. QuietStep(t)
      BY <1>1, <3>1, <3>2, <3>3, <3>4 DEF QuietStep, Even, Fresh, Has
    <3>6. op[t].name \in Names /\ dir[t] \in Vnodes
      BY <1>1, <1>2, <2>5 DEF Asking, TypeInv, AtWork, Releasing
    <3>7. KnowsHeld(t)'
      <4>1. node'[v].id = node[v].id /\ node'[v].type = node[v].type
        BY <2>1, <3>2 DEF Twin, Same
      <4>2. node'[dir[t]].entries[op[t].name] = node[dir[t]].entries[op[t].name]
        BY <3>2, <3>6 DEF Twin, Same
      <4>3. Entry(t)' = node'[v].id
        BY <1>1, <1>2, <1>4, <3>1, <3>6, <4>1, <4>2 DEF KnowsEntry, Entry
      <4> QED
        BY <1>2, <2>5, <3>1, <3>6, <4>1, <4>3 DEF KnowsHeld
    <3>8. KnowsEntry(t)' /\ KnowsServer(t)' /\ KnowsNew(t)'
      BY <3>1 DEF KnowsEntry, KnowsServer, KnowsNew
    <3> QED
      BY <1>1, <1>2, <2>5, <3>1, <3>5, <3>7, <3>8, QuietSolo
      DEF Knowing, Standing, Held, Making, Searching
  <2> QED
    BY <1>4, <2>3, <2>4, <2>5 DEF Taken
<1> QED
  BY <1>1, <1>3, <1>4

\* One of several references goes.
LEMMA DropsSolo ==
  ASSUME NEW t \in Threads, Alone(t), TypeInv, TypeInv', SoloAt(t), pc[t] \in Releasing,
         ReleaseDone(t), NEW v \in Alive, v = Head(todo[t]), Drop(v),
         UNCHANGED <<disk, list, dir, res, vp>>
  PROVE  SoloAt(t)'
<1>1. /\ pc'[t] \in {"idle", "rele"} /\ op'[t] \in {op[t], NoOp}
      /\ \A w : Mine(t, w) = Mine(t, w)' + Has(v = w) /\ Mine(t, w)' \in Nat
  BY ReleaseCounts
<1>2. /\ \A w \in Vnodes : Twin(w) /\ node'[w].count + Has(w = v) = node[w].count
      /\ \A w \in Vnodes : node'[w].count \in Nat
  <2>1. v \in Vnodes
    BY AliveTyped DEF TypeInv, StateTyped
  <2>2. \A w \in Vnodes : node'[w].count \in Nat
    BY NodeTyped DEF TypeInv, StateTyped
  <2> QED
    BY <2>1, <2>2, DropTwins
<1>3. Shows(t)
  BY ShowsSame DEF SoloAt, Releasing
<1>4. QuietStep(t)
  BY <1>1, <1>2, <1>3 DEF QuietStep, Even, Fresh, Releasing, Has
<1>5. Standing(t)
  BY DEF SoloAt
<1> QED
  BY <1>1, <1>4, <1>5, KnowsNothing, QuietSolo
  DEF NoOp, Standing, Making, Searching, Held, Fresh, Releasing

LEMMA HeadListed ==
  ASSUME TypeInv, NEW t \in Threads, pc[t] \in Releasing, Touched(t) \subseteq Alive
  PROVE  Head(todo[t]) \in Alive /\ Head(todo[t]) \in Vnodes
<1>1. todo[t] \in Seq(Vnodes) /\ todo[t] # <<>>
  BY DEF TypeInv, HandsTyped, AtWork
<1>2. Head(todo[t]) = todo[t][1] /\ 1 \in DOMAIN todo[t] /\ todo[t][1] \in Vnodes
  BY <1>1, HeadIsFirst, EmptySeq
<1> QED
  BY <1>2 DEF Touched, Vnodes, NoVnode

LEMMA ReleSolo ==
  ASSUME NEW t \in Threads, Alone(t), TypeInv, TypeInv', SoloAt(t), VN_RELE(t)
  PROVE  SoloAt(t)'
<1>1. /\ pc[t] = "rele" /\ UNCHANGED <<disk, list, mount, dir, res, vp>> /\ "inactive" \in Pcs
      /\ Touched(t) \subseteq Alive
  BY DEF VN_RELE, At, umount, Pcs
<1>2. CASE Drop(Head(todo[t])) /\ ReleaseDone(t)
  <2>1. Head(todo[t]) \in Alive
    BY <1>1, HeadListed DEF Releasing
  <2> QED
    BY <1>1, <1>2, <2>1, DropsSolo DEF Releasing
<1>3. CASE Goto(t, "inactive") /\ UNCHANGED <<node, todo>>
  <2>1. pc'[t] = "inactive"
    BY <1>1, <1>3, GotoMoves DEF TypeInv
  <2> QED
    BY <1>1, <1>3, <2>1, KnowsNothing, LooksSolo DEF Fresh, Held, Making, Searching
<1> QED
  BY <1>2, <1>3 DEF VN_RELE

-----------------------------------------------------------------------------
(***************************************************************************)
(* Steps that change the server.                                           *)
(***************************************************************************)
\* Something is made: everything that existed still does.
LEMMA GrownShows ==
  ASSUME TypeInv, NEW t \in Threads, LinksInv(t), pc[t] # "unlink", NEW p \in Paths,
         NEW what \in {"file", "dir"}, server' = [server EXCEPT ![p] = what]
  PROVE  Shows(t) /\ Remains(p)
<1>1. \A q \in Paths : server'[q] = IF q = p THEN what ELSE server[q]
  BY DEF TypeInv, StateTyped
<1>2. \A q : Exists(q) => Remains(q)
  BY <1>1 DEF Exists, OnServer, Remains
<1>3. Exists(RootPath)
  BY DEF LinksInv, RootIn
<1>4. \A v \in Alive, n \in Names : node[v].entries[n] # NoId => Exists(Append(node[v].path, n))
  BY DEF LinksInv, EntriesLead, Leaving
<1> QED
  BY <1>1, <1>2, <1>3, <1>4 DEF Shows, Remains

\* The directory has no entry for what does not exist.
LEMMA NoEntryThere ==
  ASSUME NEW t \in Threads, LinksInv(t), dir[t] \in Alive, op[t].name \in Names,
         pc[t] # "unlink", ~Exists(Target(t))
  PROVE  Entry(t) = NoId
  BY DEF LinksInv, EntriesLead, Leaving, Entry, Target

\* The directory and the name an operation works with.
LEMMA AtName ==
  ASSUME TypeInv, NEW t \in Threads, SoloAt(t), pc[t] \in Making \cup Held
  PROVE  /\ dir[t] \in Vnodes /\ dir[t] \in Alive /\ dir[t] \in Linked
         /\ op[t].name \in Names /\ node[dir[t]].type = "dir" /\ ~Maker(t, dir[t])
<1>1. dir[t] \in Vnodes
  BY DEF TypeInv, AtWork, Making, Held, Releasing
<1>2. dir[t] \in Linked /\ node[dir[t]].type = "dir" /\ ~Maker(t, dir[t])
  BY <1>1 DEF SoloAt, Standing, Vnodes, NoVnode
<1>3. op[t].name \in Names
  <2>1. CASE pc[t] \in Making
    BY <2>1 DEF TypeInv, Asking
  <2>2. CASE pc[t] \in Held
    BY <2>2 DEF SoloAt, Knowing, KnowsHeld
  <2> QED
    BY <2>1, <2>2
<1> QED
  BY <1>1, <1>2, <1>3 DEF Linked

\* A request is executed and answered.
LEMMA AskAlone ==
  ASSUME Faults = {}, NEW t, NEW kind, NEW p, NEW ok, NEW failed, Ask(t, kind, p, ok, failed)
  PROVE  /\ UNCHANGED late
         /\ LET r == Process([kind |-> kind, path |-> p]) IN
            \/ r.refused /\ Goto(t, failed) /\ UNCHANGED server
            \/ ~r.refused /\ Goto(t, ok) /\ server' = r.done
<1> DEFINE q == [kind |-> kind, path |-> p]
<1>1. Execute(q) /\ UNCHANGED late /\ Goto(t, IF Process(q).refused THEN failed ELSE ok)
  BY DEF Ask
<1> QED
  BY <1>1 DEF Execute

LEMMA AskMakeSolo ==
  ASSUME NEW t \in Threads, Alone(t), TypeInv, TypeInv', SoloAt(t), AskCreate(t) \/ AskMkdir(t)
  PROVE  SoloAt(t)'
<1> DEFINE p == Target(t)
<1>1. /\ pc[t] \in {"askCreate", "askMkdir"} /\ UNCHANGED <<list, node, dir, res, vp, todo>>
      /\ {"allocNew", "allocDir", "idle"} \subseteq Pcs
  BY DEF AskCreate, AskMkdir, At, fs, umount, hands, Pcs
<1>2. Alive' = Alive /\ res[t] = NoVnode /\ op[t].call # "createExcl"
  BY <1>1 DEF Alive, SoloAt, Standing, Making
<1>3. CASE Goto(t, "idle") /\ UNCHANGED disk
  <2>1. pc'[t] = "idle"
    BY <1>1, <1>3, GotoMoves DEF TypeInv
  <2> QED
    BY <1>1, <1>3, <2>1, KnowsNothing, LooksSolo DEF Fresh, Held, Making, Searching
<1>4. ASSUME NEW l \in {"allocNew", "allocDir"}, Goto(t, l), p \in Paths, ~Exists(p),
             NEW what \in {"file", "dir"}, server' = [server EXCEPT ![p] = what],
             l = "allocDir" => op[t].found = NoId
      PROVE  SoloAt(t)'
  <2>1. pc'[t] = l /\ op'[t] = op[t]
    BY <1>1, <1>4, GotoMoves DEF TypeInv
  <2>2. Shows(t) /\ Remains(p)
    <3>1. LinksInv(t) /\ pc[t] # "unlink"
      BY <1>1 DEF SoloAt
    <3> HIDE DEF p
    <3> QED
      BY <1>4, <3>1, GrownShows
  <2>3. Entry(t) = NoId
    <3>1. dir[t] \in Alive /\ op[t].name \in Names
      BY <1>1, AtName DEF Making
    <3> QED
      BY <1>1, <1>4, <3>1, NoEntryThere DEF SoloAt
  <2>4. KnowsEntry(t)'
    BY <1>1, <1>4, <2>1, <2>3 DEF KnowsEntry, Entry
  <2>5. KnowsServer(t)'
    <3>1. Exists(Target(t))'
      BY <1>1, <2>1, <2>2 DEF Remains, Target, Exists, OnServer
    <3> QED
      BY <1>4, <2>1, <3>1 DEF KnowsServer
  <2>6. KnowsNew(t)' /\ KnowsHeld(t)'
    BY <2>1 DEF KnowsNew, KnowsHeld, Held
  <2>7. OnTheWay(t)
    BY <1>1, <1>2, <2>1, <2>2 DEF OnTheWay, Fresh, Held, Making, Searching
  <2> QED
    BY <2>4, <2>5, <2>6, <2>7, WaySolo DEF Knowing
<1>5. CASE AskCreate(t)
  <2>1. pc[t] = "askCreate" /\ Ask(t, "create", p, "allocNew", "idle")
    BY <1>5 DEF AskCreate, At
  <2>2. ~Exists(p)
    BY <2>1 DEF SoloAt, Knowing, KnowsServer
  <2>3. Process([kind |-> "create", path |-> p]) = process_create_request(p)
    BY Processed
  <2> HIDE DEF p
  <2>4. /\ UNCHANGED late
        /\ LET r == process_create_request(p) IN
           \/ r.refused /\ Goto(t, "idle") /\ UNCHANGED server
           \/ ~r.refused /\ Goto(t, "allocNew") /\ server' = r.done
    BY <2>1, <2>3, AskAlone DEF Alone
  <2> QED
    BY <1>3, <1>4, <2>1, <2>2, <2>4 DEF process_create_request, disk
<1>6. CASE AskMkdir(t)
  <2>1. pc[t] = "askMkdir" /\ Ask(t, "mkdir", p, "allocDir", "idle")
    BY <1>6 DEF AskMkdir, At
  <2>2. op[t].found = NoId
    BY <2>1 DEF SoloAt, Knowing, KnowsEntry
  <2>3. Process([kind |-> "mkdir", path |-> p]) = process_mkdir_request(p)
    BY Processed
  <2> HIDE DEF p
  <2>4. /\ UNCHANGED late
        /\ LET r == process_mkdir_request(p) IN
           \/ r.refused /\ Goto(t, "idle") /\ UNCHANGED server
           \/ ~r.refused /\ Goto(t, "allocDir") /\ server' = r.done
    BY <2>1, <2>3, AskAlone DEF Alone
  <2> QED
    BY <1>3, <1>4, <2>1, <2>2, <2>4 DEF process_mkdir_request, disk
<1> QED
  BY <1>5, <1>6

\* The vnode in hand is the one the entry names.
LEMMA HeldIsNamed ==
  ASSUME TypeInv, NEW t \in Threads, SoloAt(t), pc[t] \in Held
  PROVE  /\ vp[t] \in Alive /\ vp[t] \in Vnodes /\ node[vp[t]].path = Target(t)
         /\ Entry(t) = node[vp[t]].id /\ Entry(t) # NoId
<1>1. /\ dir[t] \in Alive /\ op[t].name \in Names
      /\ vp[t] \in Alive /\ vp[t] \in Vnodes /\ Entry(t) = node[vp[t]].id
  BY AtName DEF SoloAt, Knowing, KnowsHeld, TypeInv, AtWork
<1>2. node[vp[t]].id \in NodeIds
  BY <1>1, NodeTyped DEF TypeInv, StateTyped
<1>3. Entry(t) # NoId
  BY <1>1, <1>2 DEF NodeIds, NoId
<1>4. ~Nameless(t, vp[t])
  BY DEF Nameless, Held
<1>5. node[vp[t]].path = Target(t)
  BY <1>1, <1>3, <1>4 DEF SoloAt, LinksInv, EntriesLead, Entry, Target
<1> QED
  BY <1>1, <1>3, <1>5

\* No other entry stands for the path of the one the thread works with.
LEMMA NoOtherEntry ==
  ASSUME TypeInv, NEW t \in Threads, SoloAt(t), pc[t] \in Making \cup Held, NEW v \in Alive,
         NEW n \in Names, node[v].entries[n] # NoId, Append(node[v].path, n) = Target(t)
  PROVE  v = dir[t] /\ n = op[t].name
<1>1. dir[t] \in Vnodes /\ dir[t] \in Linked /\ op[t].name \in Names /\ ~Maker(t, dir[t])
  BY AtName
<1>2. v \in Linked /\ ~Nameless(t, v) /\ v \in Vnodes
  BY AliveTyped DEF SoloAt, LinksInv, EntriesLead, TypeInv, StateTyped
<1>3. node[v].path \in Seq(Names) /\ node[dir[t]].path \in Seq(Names)
  BY <1>1, <1>2, NodeTyped DEF TypeInv, StateTyped
<1>4. node[v].path = node[dir[t]].path /\ n = op[t].name
  <2> DEFINE p == node[v].path
             q == node[dir[t]].path
             m == op[t].name
  <2>1. p \in Seq(Names) /\ q \in Seq(Names) /\ m \in Names /\ Append(p, n) = Append(q, m)
    BY <1>1, <1>3 DEF Target
  <2> HIDE DEF p, q, m
  <2>2. p = q /\ n = m
    BY <2>1, AppendOne
  <2> QED
    BY <2>2 DEF p, q, m
<1>5. ~Nameless(t, dir[t])
  BY <1>1 DEF Maker, Nameless, Fresh
<1> QED
  BY <1>1, <1>2, <1>4, <1>5 DEF SoloAt, LinksInv, PathsDiffer

LEMMA AskRemoveSolo ==
  ASSUME NEW t \in Threads, Alone(t), TypeInv, TypeInv', SoloAt(t), AskRemove(t) \/ AskRmdir(t)
  PROVE  SoloAt(t)'
<1> DEFINE p == node[vp[t]].path
<1>1. /\ pc[t] \in {"askRemove", "askRmdir"} /\ UNCHANGED <<list, node, dir, res, vp, todo>>
      /\ {"unlink", "giveUp"} \subseteq Pcs
  BY DEF AskRemove, AskRmdir, At, fs, umount, hands, Pcs
<1>2. Alive' = Alive /\ KnowsHeld(t) /\ op[t].call # "createExcl"
  BY <1>1 DEF Alive, SoloAt, Knowing, Standing
<1>3. /\ vp[t] \in Alive /\ vp[t] \in Vnodes /\ p = Target(t)
      /\ dir[t] \in Vnodes /\ op[t].name \in Names
  BY <1>1, HeldIsNamed, AtName DEF Held
<1>4. CASE Goto(t, "giveUp") /\ UNCHANGED disk
  <2>1. pc'[t] = "giveUp" /\ op'[t] = op[t]
    BY <1>1, <1>4, GotoMoves DEF TypeInv
  <2>2. KnowsHeld(t)'
    BY <1>1, <1>2, <2>1 DEF KnowsHeld, Held, Entry
  <2> QED
    BY <1>1, <1>4, <2>1, <2>2, KnowsNothing, LooksSolo DEF Fresh, Held, Making, Searching
<1>5. ASSUME Goto(t, "unlink"), server' = [server EXCEPT ![p] = "none"]
      PROVE  SoloAt(t)'
  <2>1. pc'[t] = "unlink" /\ op'[t] = op[t]
    BY <1>1, <1>5, GotoMoves DEF TypeInv
  <2>2. \A n \in Names : node[vp[t]].entries[n] = NoId
    <3>1. CASE pc[t] = "askRemove"
      <4>1. node[vp[t]].type = "file"
        BY <1>2, <3>1 DEF KnowsHeld
      <4> QED
        BY <1>3, <4>1 DEF SoloAt, LinksInv, EntriesLead
    <3>2. CASE pc[t] = "askRmdir"
      BY <1>2, <3>2 DEF KnowsHeld
    <3> QED
      BY <1>1, <3>1, <3>2
  <2>3. KnowsHeld(t)'
    BY <1>1, <1>2, <2>1, <2>2 DEF KnowsHeld, Held, Entry
  <2>4. KnowsEntry(t)' /\ KnowsServer(t)' /\ KnowsNew(t)'
    BY <2>1 DEF KnowsEntry, KnowsServer, KnowsNew
  <2>5. \A q : Exists(q) /\ q # p => Remains(q)
    BY <1>5 DEF Exists, OnServer, Remains, TypeInv, StateTyped
  <2>6. Remains(RootPath)
    <3>1. node[dir[t]].path \in Seq(Names)
      BY <1>3, NodeTyped DEF TypeInv, StateTyped
    <3>2. p # RootPath
      BY <1>3, <3>1, AppendNotRoot DEF Target
    <3> QED
      BY <2>5, <3>2 DEF SoloAt, LinksInv, RootIn
  <2>7. ASSUME NEW v \in Alive, NEW n \in Names, node[v].entries[n] # NoId
        PROVE  (dir[t] = v /\ op[t].name = n) \/ Remains(Append(node[v].path, n))
    <3>1. Exists(Append(node[v].path, n))
      BY <1>1, <2>7 DEF SoloAt, LinksInv, EntriesLead, Leaving
    <3>2. CASE Append(node[v].path, n) = Target(t)
      BY <1>1, <2>7, <3>2, NoOtherEntry DEF Held
    <3>3. CASE Append(node[v].path, n) # p
      BY <2>5, <3>1, <3>3
    <3> QED
      BY <1>3, <3>2, <3>3
  <2>8. Shows(t)
    BY <1>1, <2>1, <2>6, <2>7 DEF Shows
  <2>9. OnTheWay(t)
    BY <1>1, <1>2, <2>1, <2>8 DEF OnTheWay, Fresh, Held, Making, Searching
  <2> QED
    BY <2>3, <2>4, <2>9, WaySolo DEF Knowing
<1> HIDE DEF p
<1>6. CASE AskRemove(t)
  <2>1. Ask(t, "remove", p, "unlink", "giveUp")
    BY <1>6 DEF AskRemove, p
  <2>2. Process([kind |-> "remove", path |-> p]) = process_remove_request(p)
    BY Processed
  <2>3. /\ UNCHANGED late
        /\ LET r == process_remove_request(p) IN
           \/ r.refused /\ Goto(t, "giveUp") /\ UNCHANGED server
           \/ ~r.refused /\ Goto(t, "unlink") /\ server' = r.done
    BY <2>1, <2>2, AskAlone DEF Alone
  <2> QED
    BY <1>4, <1>5, <2>3 DEF process_remove_request, disk
<1>7. CASE AskRmdir(t)
  <2>1. Ask(t, "rmdir", p, "unlink", "giveUp")
    BY <1>7 DEF AskRmdir, p
  <2>2. Process([kind |-> "rmdir", path |-> p]) = process_rmdir_request(p)
    BY Processed
  <2>3. /\ UNCHANGED late
        /\ LET r == process_rmdir_request(p) IN
           \/ r.refused /\ Goto(t, "giveUp") /\ UNCHANGED server
           \/ ~r.refused /\ Goto(t, "unlink") /\ server' = r.done
    BY <2>1, <2>2, AskAlone DEF Alone
  <2> QED
    BY <1>4, <1>5, <2>3 DEF process_rmdir_request, disk
<1> QED
  BY <1>6, <1>7

-----------------------------------------------------------------------------
(***************************************************************************)
(* A new vnode, its path and its entry.                                    *)
(***************************************************************************)
\* A vnode is put in the list; an entry may have its number already.
Makes(t, v, i) ==
  /\ v \in Vnodes \ Alive /\ v # RootV /\ v # dir[t]
  /\ Alive' = Alive \cup {v}
  /\ \A w \in Vnodes \ {v} : node'[w] = node[w]
  /\ node'[v].id = i /\ node'[v].count = 1 /\ \A n \in Names : node'[v].entries[n] = NoId
  /\ i # NoId /\ i # 1 /\ \A w \in Alive : node[w].id # i
  /\ UNCHANGED <<disk, dir, res, todo>>
  /\ pc[t] \notin Fresh \cup Held \cup {"unlink"} /\ pc'[t] \in {"dots", "name"} /\ vp'[t] = v

LEMMA MakesLinked ==
  ASSUME TypeInv, NEW t \in Threads, NEW v, NEW i, Makes(t, v, i)
  PROVE  /\ \A w \in Alive : w \in Linked' <=> w \in Linked
         /\ v \in Linked' <=> \E d \in Alive, n \in Names : node[d].entries[n] = i
         /\ Linked' \subseteq Alive \cup {v} /\ Alive \subseteq Vnodes /\ v \notin Alive
<1>1. /\ Alive \subseteq Vnodes /\ v \notin Alive /\ Alive' = Alive \cup {v} /\ v # RootV
      /\ \A w \in Alive : node'[w] = node[w]
      /\ \A n \in Names : node'[v].entries[n] = NoId
      /\ node'[v].id = i /\ i # NoId
  BY AliveTyped DEF Makes, TypeInv, StateTyped
<1>2. \A w \in Alive : node[w].id # NoId
  BY <1>1, Numbers
<1>3. ASSUME NEW w \in Alive
      PROVE  w \in Linked' <=> w \in Linked
  <2>1. (\E d \in Alive', n \in Names : node'[d].entries[n] = node'[w].id)
          <=> (\E d \in Alive, n \in Names : node[d].entries[n] = node[w].id)
    BY <1>1, <1>2
  <2> QED
    BY <1>1, <2>1, LinkedThen DEF Linked
<1>4. v \in Linked' <=> \E d \in Alive, n \in Names : node[d].entries[n] = i
  BY <1>1, LinkedThen
<1> QED
  BY <1>1, <1>3, <1>4, LinkedThen

LEMMA MakesLinks ==
  ASSUME NEW t \in Threads, TypeInv, LinksInv(t), NEW v, NEW i, Makes(t, v, i)
  PROVE  LinksInv(t)'
<1>1. /\ Alive \subseteq Vnodes /\ v \notin Alive /\ Alive' = Alive \cup {v} /\ v # RootV
      /\ \A w \in Alive : node'[w] = node[w]
      /\ \A n \in Names : node'[v].entries[n] = NoId
      /\ node'[v].id = i /\ i # NoId /\ i # 1 /\ \A w \in Alive : node[w].id # i
      /\ UNCHANGED server
  BY AliveTyped, DiskSame DEF Makes, TypeInv, StateTyped
<1>2. /\ pc[t] \notin {"dots", "name", "unlink"} /\ pc'[t] \in {"dots", "name"} /\ vp'[t] = v
  BY DEF Makes, Fresh
<1>3. /\ \A w \in Alive : w \in Linked' <=> w \in Linked
      /\ Linked' \subseteq Alive \cup {v}
  BY MakesLinked
<1>4. /\ RootIn(t) /\ OneVnodePerNumber /\ OneEntry /\ EntriesLead(t) /\ PathsDiffer(t)
      /\ RootV \in Alive
  BY DEF LinksInv, RootIn
<1>5. RootIn(t)'
  <2>1. Exists(RootPath)' /\ ~Maker(t, RootV)'
    BY <1>1, <1>2, <1>4 DEF RootIn, Exists, OnServer, Maker
  <2>2. \A w \in Alive', n \in Names : node'[w].entries[n] # 1
    BY <1>1, <1>4 DEF RootIn, NoId
  <2> QED
    BY <1>1, <1>4, <2>1, <2>2 DEF RootIn
<1>6. OneVnodePerNumber'
  BY <1>1, <1>4 DEF OneVnodePerNumber
<1>7. OneEntry'
  <2>1. SUFFICES ASSUME NEW x \in Alive', NEW w \in Alive', NEW m \in Names, NEW n \in Names,
                        node'[x].entries[m] = node'[w].entries[n], node'[x].entries[m] # NoId
                 PROVE  x = w /\ m = n
    BY DEF OneEntry
  <2>2. x \in Alive /\ w \in Alive
    BY <1>1, <2>1
  <2> QED
    BY <1>1, <1>4, <2>1, <2>2 DEF OneEntry
<1>8. EntriesLead(t)'
  <2>1. SUFFICES ASSUME NEW x \in Alive', NEW n \in Names, node'[x].entries[n] # NoId
                 PROVE  /\ x \in Linked' /\ ~Nameless(t, x)' /\ node'[x].type = "dir"
                        /\ Remains(Append(node'[x].path, n))
                        /\ \A w \in Alive' : node'[w].id = node'[x].entries[n] =>
                             Nameless(t, w)' \/ node'[w].path = Append(node'[x].path, n)
    BY DEF EntriesLead, Exists, OnServer, Remains
  <2>2. x \in Alive /\ x # v /\ node'[x] = node[x] /\ node[x].entries[n] # NoId
    BY <1>1, <2>1
  <2>3. /\ x \in Linked /\ node[x].type = "dir" /\ Exists(Append(node[x].path, n))
        /\ \A w \in Alive : node[w].id = node[x].entries[n] => node[w].path = Append(node[x].path, n)
    BY <1>2, <1>4, <2>2 DEF EntriesLead, Leaving, Nameless
  <2>4. Remains(Append(node[x].path, n))
    BY <1>1, <2>3 DEF Exists, OnServer, Remains
  <2>5. \A w \in Alive' : node'[w].id = node'[x].entries[n] =>
          Nameless(t, w)' \/ node'[w].path = Append(node'[x].path, n)
    BY <1>1, <1>2, <2>2, <2>3 DEF Nameless
  <2> QED
    BY <1>2, <1>3, <2>2, <2>3, <2>4, <2>5 DEF Nameless
<1>9. PathsDiffer(t)'
  <2>1. SUFFICES ASSUME NEW x \in Linked', NEW w \in Linked', node'[x].path = node'[w].path,
                        ~Nameless(t, x)', ~Nameless(t, w)'
                 PROVE  x = w
    BY DEF PathsDiffer
  <2>2. x \in Linked /\ w \in Linked /\ x \in Alive /\ w \in Alive
    BY <1>2, <1>3, <2>1 DEF Nameless
  <2> QED
    BY <1>1, <1>2, <1>4, <2>1, <2>2 DEF PathsDiffer, Nameless
<1> QED
  BY <1>5, <1>6, <1>7, <1>8, <1>9 DEF LinksInv

LEMMA MakesRefs ==
  ASSUME NEW t \in Threads, Alone(t), TypeInv, RefsInv(t), NEW v, NEW i, Makes(t, v, i)
  PROVE  RefsInv(t)'
<1>1. /\ Alive \subseteq Vnodes /\ v \in Vnodes \ Alive /\ Alive' = Alive \cup {v}
      /\ \A w \in Alive : node'[w] = node[w]
      /\ node'[v].count = 1
  BY AliveTyped DEF Makes, TypeInv, StateTyped
<1>2. pc[t] \notin Fresh /\ pc'[t] \in Fresh /\ vp'[t] = v
  BY DEF Makes, Fresh
<1>3. /\ \A w \in Alive : w \in Linked' <=> w \in Linked
      /\ Linked' \subseteq Alive \cup {v}
  BY MakesLinked
<1>4. ASSUME NEW w
      PROVE  References(w)' = References(w) /\ References(w) \in Nat
  <2>1. Mine(t, w)' = Mine(t, w)
    BY DEF Makes, Mine, Todo, InSeq, Held
  <2> QED
    BY <2>1, RefsAreMine
<1>5. References(v)' = 0
  BY <1>1, <1>4 DEF RefsInv, NoneLost
<1>6. OwnedWhenLinked(t)'
  <2>1. ASSUME NEW w \in Alive
        PROVE  node'[w].count = References(w)' + Has(w \in Linked' \/ Maker(t, w)')
    <3> DEFINE a == Has(w \in Linked \/ Maker(t, w))
               b == Has(w \in Linked' \/ Maker(t, w)')
    <3>1. node[w].count = References(w) + a
      BY DEF RefsInv, OwnedWhenLinked
    <3>2. a = b
      BY <1>1, <1>2, <1>3 DEF Maker, Has
    <3> HIDE DEF a, b
    <3>3. node'[w].count = References(w)' + b
      BY <1>1, <1>4, <3>1, <3>2
    <3> QED
      BY <3>3 DEF b
  <2>2. node'[v].count = References(v)' + Has(v \in Linked' \/ Maker(t, v)')
    <3>1. Has(v \in Linked' \/ Maker(t, v)') = 1
      BY <1>2 DEF Maker, Has
    <3> QED
      BY <1>1, <1>5, <3>1
  <2> QED
    BY <1>1, <2>1, <2>2 DEF OwnedWhenLinked
<1>7. NoneLost'
  BY <1>1, <1>4 DEF RefsInv, NoneLost
<1> QED
  BY <1>6, <1>7 DEF RefsInv

LEMMA AllocSolo ==
  ASSUME NEW t \in Threads, Alone(t), TypeInv, TypeInv', SoloAt(t),
         pc[t] \in {"allocFile", "allocNew", "allocDir"},
         NEW type \in {"file", "dir"}, NEW id, Alloc(t, type, id),
         NEW l \in {"dots", "name"},
         \/ Goto(t, l) /\ id = op[t].found /\ pc[t] # "allocNew"
         \/ /\ Go(t, l, [op[t] EXCEPT !.call = "new", !.found = NoId])
            /\ pc[t] = "allocNew" /\ id = NoId,
         UNCHANGED <<disk, dir, res, todo>>
  PROVE  SoloAt(t)' /\ \E v \in Unused : \E i : Makes(t, v, i) /\ list' = Append(list, v)
<1> DEFINE o == [op[t] EXCEPT !.call = "new", !.found = NoId]
<1>1. /\ HandsTyped /\ Asking(t) /\ op[t] \in Operation /\ l \in Pcs
      /\ res[t] = NoVnode /\ op[t].call # "createExcl" /\ KnowsEntry(t) /\ KnowsServer(t)
      /\ vp[t] = NoVnode
  BY DEF TypeInv, HandsTyped, SoloAt, Standing, Making, Held, Fresh, Knowing, Pcs
<1>2. /\ dir[t] \in Vnodes /\ dir[t] \in Alive /\ dir[t] \in Linked
      /\ op[t].name \in Names /\ node[dir[t]].type = "dir" /\ op[t].found \in 0 .. MaxNodeId
  BY <1>1, AtName DEF Making, Asking
<1>3. id \in 0 .. MaxNodeId
  BY <1>2, NodesAssumption DEF NoId
<1>4. PICK v \in Unused, i \in NodeIds :
        /\ node' = [node EXCEPT ![v] = NewNode(type, i)] /\ list' = Append(list, v)
        /\ vp' = [vp EXCEPT ![t] = v]
        /\ i = id \/ (id = NoId /\ i \in FreshId)
  BY <1>3, Allocates
<1>5. /\ v \in Vnodes /\ v # RootV /\ v \notin Alive /\ v # dir[t]
  BY <1>2 DEF Unused
<1>6. /\ Alive' = Alive \cup {v} /\ Alive \subseteq Vnodes
      /\ \A w \in Vnodes : w # v => node'[w] = node[w]
      /\ node'[v] = NewNode(type, i)
  BY <1>4, <1>5, Listed, AliveTyped DEF TypeInv, StateTyped
<1>7. /\ node'[v].id = i /\ node'[v].count = 1
      /\ \A n \in Names : node'[v].entries[n] = NoId
  BY <1>6, NewNodeTyped DEF NewNode
<1>8. /\ pc'[t] = l
      /\ \/ op'[t] = op[t] /\ id = op[t].found /\ pc[t] # "allocNew"
         \/ op'[t] = o /\ id = NoId /\ pc[t] = "allocNew"
  BY <1>1, GotoMoves DEF Go, HandsTyped
<1>9. o.call = "new" /\ o.found = NoId /\ o.name = op[t].name
  BY <1>1 DEF Operation
<1> HIDE DEF o
<1>10. /\ op'[t].name = op[t].name /\ op'[t].found = id /\ Entry(t) = id
       /\ op'[t].call # "createExcl"
  BY <1>1, <1>2, <1>8, <1>9 DEF KnowsEntry
<1>11. i # NoId /\ i # 1 /\ (\A w \in Alive : node[w].id # i)
       /\ (id = NoId => \A w \in Alive, n \in Names : node[w].entries[n] # i)
       /\ (id # NoId => i = id)
  <2>1. i # NoId
    BY DEF NodeIds, NoId
  <2>2. CASE id = NoId
    <3>1. i \in FreshId
      BY <1>4, <2>1, <2>2
    <3>2. RootV \in Alive /\ node[RootV].id = 1
      BY DEF SoloAt, LinksInv, RootIn
    <3> QED
      BY <2>1, <2>2, <3>1, <3>2 DEF FreshId
  <2>3. CASE id # NoId
    <3>1. i = id /\ id = op[t].found /\ pc[t] \in {"allocFile", "allocDir"}
      BY <1>4, <1>8, <2>3
    <3>2. \A w \in Alive : node[w].id # i
      BY <1>1, <2>3, <3>1 DEF KnowsEntry
    <3>3. i # 1
      BY <1>2, <1>10, <3>1 DEF SoloAt, LinksInv, RootIn, Entry
    <3> QED
      BY <2>1, <2>3, <3>1, <3>2, <3>3
  <2> QED
    BY <2>2, <2>3
<1>12. vp'[t] = v
  BY <1>1, <1>4 DEF HandsTyped
<1>13. Makes(t, v, i)
  BY <1>5, <1>6, <1>7, <1>8, <1>11, <1>12 DEF Makes, Fresh, Held
<1>14. LinksInv(t)' /\ RefsInv(t)'
  BY <1>13, MakesLinks, MakesRefs DEF SoloAt
<1>15. Standing(t)'
  <2>1. dir[t] \in Linked'
    BY <1>2, <1>13, MakesLinked
  <2>2. node'[dir[t]].type = "dir" /\ v \in Alive'
    BY <1>2, <1>5, <1>6
  <2> QED
    BY <1>1, <1>5, <1>8, <1>10, <1>12, <2>1, <2>2 DEF Standing, Maker, Searching, Fresh
<1>16. Knowing(t)'
  <2>1. node'[dir[t]] = node[dir[t]]
    BY <1>2, <1>5, <1>6
  <2>2. Entry(t)' = id
    BY <1>10, <2>1 DEF Entry
  <2>3. \A w \in Alive', n \in Names : id = NoId => node'[w].entries[n] # i
    BY <1>6, <1>7, <1>11
  <2>4. KnowsNew(t)'
    BY <1>7, <1>8, <1>10, <1>11, <1>12, <2>2, <2>3 DEF KnowsNew
  <2>5. KnowsServer(t)'
    BY <1>1, <1>8, <1>10, <2>1, DiskSame DEF KnowsServer, Target, Exists, OnServer
  <2>6. KnowsEntry(t)' /\ KnowsHeld(t)'
    BY <1>8 DEF KnowsEntry, KnowsHeld, Held
  <2> QED
    BY <2>4, <2>5, <2>6 DEF Knowing
<1> QED
  BY <1>4, <1>13, <1>14, <1>15, <1>16 DEF SoloAt

LEMMA AllocsSolo ==
  ASSUME NEW t \in Threads, Alone(t), TypeInv, TypeInv', SoloAt(t),
         AllocFile(t) \/ AllocNew(t) \/ iumfs_make_directory(t)
  PROVE  SoloAt(t)' /\ \E v \in Unused : \E i : Makes(t, v, i) /\ list' = Append(list, v)
<1>1. CASE AllocFile(t)
  BY <1>1, AllocSolo DEF AllocFile, At
<1>2. CASE AllocNew(t)
  BY <1>2, AllocSolo DEF AllocNew, At
<1>3. CASE iumfs_make_directory(t)
  <2>1. At(t, "allocDir") /\ pc[t] = "allocDir"
    BY <1>3 DEF iumfs_make_directory, At
  <2>2. dir[t] \in Vnodes /\ dir[t] \in Alive /\ dir[t] \in Linked /\ ~Maker(t, dir[t])
    BY <2>1, AtName DEF Making
  <2>3. Exists(node[dir[t]].path)
    <3>1. CASE dir[t] = RootV
      BY <3>1 DEF SoloAt, LinksInv, RootIn
    <3>2. CASE dir[t] # RootV
      <4>1. PICK d \in Alive, n \in Names : node[d].entries[n] = node[dir[t]].id
        BY <2>2, <3>2 DEF Linked
      <4>2. node[d].entries[n] # NoId
        BY <2>2, <4>1, Numbers
      <4>3. Exists(Append(node[d].path, n))
        BY <2>1, <4>2 DEF SoloAt, LinksInv, EntriesLead, Leaving
      <4>4. node[dir[t]].path = Append(node[d].path, n)
        BY <2>1, <2>2, <4>1, <4>2 DEF SoloAt, LinksInv, EntriesLead, Nameless
      <4> QED
        BY <4>3, <4>4
    <3> QED
      BY <3>1, <3>2
  <2>4. Alloc(t, "dir", op[t].found) /\ Goto(t, "dots") /\ UNCHANGED <<disk, dir, res, todo>>
    BY <1>3, <2>3 DEF iumfs_make_directory, Alone
  <2> QED
    BY <2>1, <2>4, AllocSolo
<1> QED
  BY <1>1, <1>2, <1>3

\* The new directory gets its "..": no name in it changes.
LEMMA AddDotsSolo ==
  ASSUME NEW t \in Threads, Alone(t), TypeInv, TypeInv', SoloAt(t), AddDots(t)
  PROVE  SoloAt(t)'
<1>1. /\ pc[t] = "dots" /\ UNCHANGED <<disk, list, dir, res, vp, todo>> /\ vp[t] \in Vnodes
      /\ pc'[t] = "name" /\ op'[t] = op[t]
  <2>1. Goto(t, "name") /\ "name" \in Pcs
    BY DEF AddDots, Alone, Pcs
  <2> QED
    BY <2>1, AddDotsIs, GotoMoves DEF TypeInv
<1>2. Alive' = Alive /\ Alive \subseteq Vnodes /\ dir[t] \in Alive /\ op[t].name \in Names
  BY <1>1, ListedStay, AtName DEF Making
<1>3. \A w \in Vnodes :
        /\ node'[w].id = node[w].id /\ node'[w].path = node[w].path
        /\ node'[w].count = node[w].count /\ node'[w].type = node[w].type
        /\ \A n \in Names : node'[w].entries[n] = node[w].entries[n]
  BY AddDotsIs
<1>4. \A v : v \in Linked' <=> v \in Linked
  BY <1>2, <1>3, LinkedThen DEF Linked
<1>5. \A v : (Maker(t, v)' <=> Maker(t, v)) /\ (Nameless(t, v)' <=> Nameless(t, v))
  BY <1>1 DEF Maker, Nameless, Fresh
<1>6. LinksInv(t)'
  <2>1. LinksInv(t) /\ \A p : Exists(p)' <=> Exists(p)
    BY <1>1, DiskSame DEF SoloAt, Exists, OnServer
  <2>2. RootIn(t)' /\ OneVnodePerNumber' /\ OneEntry'
    BY <1>1, <1>2, <1>3, <1>5, <2>1, DiskSame
    DEF LinksInv, RootIn, OneVnodePerNumber, OneEntry, Exists, OnServer
  <2>3. ASSUME NEW v \in Alive', NEW n \in Names, node'[v].entries[n] # NoId
        PROVE  /\ v \in Linked' /\ ~Nameless(t, v)' /\ node'[v].type = "dir"
               /\ Leaving(t, v, n)' \/ Exists(Append(node[v].path, n))'
               /\ \A w \in Alive' : node'[w].id = node'[v].entries[n] =>
                    Nameless(t, w)' \/ node'[w].path = Append(node'[v].path, n)
    <3>1. /\ v \in Linked /\ ~Nameless(t, v) /\ node[v].type = "dir"
          /\ Exists(Append(node[v].path, n))
          /\ \A w \in Alive : node[w].id = node[v].entries[n] =>
               Nameless(t, w) \/ node[w].path = Append(node[v].path, n)
      BY <1>1, <1>2, <1>3, <2>1, <2>3 DEF LinksInv, EntriesLead, Leaving
    <3>2. Exists(Append(node[v].path, n))'
      BY <1>1, <1>2, <1>3, <3>1, DiskSame DEF Exists, OnServer
    <3> QED
      BY <1>2, <1>3, <1>4, <1>5, <3>1, <3>2
  <2>4. EntriesLead(t)'
    BY <2>3 DEF EntriesLead
  <2>5. PathsDiffer(t)'
    BY <1>2, <1>3, <1>4, <1>5, <2>1, LinkedThen DEF LinksInv, PathsDiffer
  <2> QED
    BY <2>2, <2>4, <2>5 DEF LinksInv
<1>7. RefsInv(t)'
  <2>1. \A v : References(v)' = References(v)
    <3>1. \A v : Mine(t, v)' = Mine(t, v)
      <4>1. pc[t] \notin Held /\ pc'[t] \notin Held
        BY <1>1 DEF Held
      <4> QED
        BY <1>1, <4>1, MineIs, MineWillBe
    <3> QED
      BY <3>1, RefsAreMine
  <2> QED
    BY <1>2, <1>3, <1>4, <1>5, <2>1 DEF SoloAt, RefsInv, OwnedWhenLinked, NoneLost, Has
<1>8. Standing(t)'
  BY <1>1, <1>2, <1>3, <1>4, <1>5 DEF SoloAt, Standing, Making, Searching, Fresh, Held
<1>9. Knowing(t)'
  <2>1. Knowing(t) /\ vp[t] \in Alive
    BY <1>1 DEF SoloAt, Standing, Fresh
  <2>2. Entry(t)' = Entry(t) /\ Target(t)' = Target(t)
    BY <1>1, <1>2, <1>3 DEF Entry, Target
  <2>3. Exists(Target(t))' <=> Exists(Target(t))
    BY <1>1, <2>2, DiskSame DEF Exists, OnServer
  <2>4. KnowsEntry(t)' /\ KnowsHeld(t)' /\ KnowsServer(t)'
    BY <1>1, <2>1, <2>3 DEF Knowing, KnowsEntry, KnowsHeld, KnowsServer, Held
  <2>5. KnowsNew(t)'
    BY <1>1, <1>2, <1>3, <2>1, <2>2 DEF Knowing, KnowsNew
  <2> QED
    BY <2>4, <2>5 DEF Knowing
<1> QED
  BY <1>6, <1>7, <1>8, <1>9 DEF SoloAt

\* The new vnode gets the path its maker works with.
LEMMA SetNameIs ==
  ASSUME NEW t \in Threads, Alone(t), TypeInv, SoloAt(t), SetName(t)
  PROVE  /\ pc[t] = "name" /\ UNCHANGED <<disk, list, dir, res, vp, todo>>
         /\ vp[t] \in Alive /\ vp[t] \in Vnodes /\ Alive' = Alive /\ Alive \subseteq Vnodes
         /\ res[t] = NoVnode
         /\ dir[t] \in Vnodes /\ dir[t] \in Alive /\ dir[t] \in Linked /\ dir[t] # vp[t]
         /\ op[t].name \in Names /\ node[dir[t]].type = "dir"
         /\ pc'[t] = (IF op[t].found = NoId THEN "link" ELSE "ref") /\ op'[t] = op[t]
         /\ \A w \in Vnodes :
              /\ node'[w].id = node[w].id /\ node'[w].count = node[w].count
              /\ node'[w].type = node[w].type
              /\ node'[w].path = IF w = vp[t] THEN Target(t) ELSE node[w].path
              /\ \A n \in Names : node'[w].entries[n] = node[w].entries[n]
<1> DEFINE v == vp[t]
           p == Target(t)
<1>1. /\ pc[t] = "name" /\ UNCHANGED <<disk, list, dir, res, vp, todo>>
      /\ v \in Alive /\ v \in Vnodes /\ Alive' = Alive /\ Alive \subseteq Vnodes
      /\ res[t] = NoVnode
  <2>1. pc[t] = "name" /\ UNCHANGED <<disk, list, dir, res, vp, todo>>
    BY DEF SetName, At, hands
  <2>2. v \in Alive /\ res[t] = NoVnode
    BY <2>1 DEF SoloAt, Standing, Fresh, Making
  <2> QED
    BY <2>1, <2>2, ListedStay
<1>2. /\ dir[t] \in Vnodes /\ dir[t] \in Alive /\ dir[t] \in Linked /\ dir[t] # v
      /\ op[t].name \in Names /\ node[dir[t]].type = "dir"
  BY <1>1, AtName DEF Making, Maker, Fresh
<1>3. /\ pc'[t] = IF op[t].found = NoId THEN "link" ELSE "ref"
      /\ op'[t] = op[t]
  <2> DEFINE l == IF op[t].found = NoId THEN "link" ELSE "ref"
  <2>1. Goto(t, l) /\ l \in Pcs /\ l # "idle" /\ HandsTyped
    BY DEF SetName, Pcs, TypeInv
  <2> HIDE DEF l
  <2>2. pc'[t] = l /\ op'[t] = op[t]
    BY <2>1, GotoMoves
  <2> QED
    BY <2>2 DEF l
<1>4. \A w \in Vnodes : /\ node'[w].id = node[w].id /\ node'[w].count = node[w].count
                        /\ node'[w].type = node[w].type
                        /\ node'[w].path = IF w = v THEN p ELSE node[w].path
                        /\ \A n \in Names : node'[w].entries[n] = node[w].entries[n]
  <2>1. node' = [node EXCEPT ![v] = [node[v] EXCEPT !.path = p]]
    BY DEF SetName
  <2> HIDE DEF p, v
  <2>2. ASSUME NEW w \in Vnodes
        PROVE  node[w] \in NodeRecords
    BY NodeTyped DEF TypeInv, StateTyped
  <2>3. \A w \in Vnodes : node'[w] = IF w = v THEN [node[w] EXCEPT !.path = p] ELSE node[w]
    BY <1>1, <2>1 DEF TypeInv, StateTyped
  <2> QED
    BY <2>2, <2>3 DEF NodeRecords
<1> QED
  BY <1>1, <1>2, <1>3, <1>4

LEMMA SetNameSolo ==
  ASSUME NEW t \in Threads, Alone(t), TypeInv, TypeInv', SoloAt(t), SetName(t)
  PROVE  SoloAt(t)'
<1> DEFINE v == vp[t]
           p == Target(t)
<1>1. /\ pc[t] = "name" /\ UNCHANGED <<disk, list, dir, res, vp, todo>>
      /\ v \in Alive /\ v \in Vnodes /\ Alive' = Alive /\ Alive \subseteq Vnodes
      /\ res[t] = NoVnode
  BY SetNameIs
<1>2. /\ dir[t] \in Vnodes /\ dir[t] \in Alive /\ dir[t] \in Linked /\ dir[t] # v
      /\ op[t].name \in Names /\ node[dir[t]].type = "dir"
  BY SetNameIs
<1>3. /\ pc'[t] = IF op[t].found = NoId THEN "link" ELSE "ref"
      /\ op'[t] = op[t]
  BY SetNameIs
<1>4. \A w \in Vnodes : /\ node'[w].id = node[w].id /\ node'[w].count = node[w].count
                        /\ node'[w].type = node[w].type
                        /\ node'[w].path = IF w = v THEN p ELSE node[w].path
                        /\ \A n \in Names : node'[w].entries[n] = node[w].entries[n]
  BY SetNameIs
<1>5. Linked' = Linked /\ Linked \subseteq Alive
  <2>1. \A w : w \in Linked' <=> w \in Linked
    BY <1>1, <1>4, LinkedThen DEF Linked
  <2> QED
    BY <2>1, LinkedThen
<1>6. Target(t)' = p /\ Entry(t)' = Entry(t)
  BY <1>1, <1>2, <1>3, <1>4 DEF Target, Entry
<1>7. /\ Entry(t) = op[t].found
      /\ op[t].found # NoId => node[v].id = op[t].found
      /\ op[t].found = NoId => \A w \in Alive, n \in Names : node[w].entries[n] # node[v].id
      /\ \A n \in Names : node[v].entries[n] = NoId
      /\ Exists(p)
  BY <1>1 DEF SoloAt, Knowing, KnowsNew, KnowsServer
<1>8. /\ RootIn(t) /\ OneVnodePerNumber /\ OneEntry /\ EntriesLead(t) /\ PathsDiffer(t)
      /\ RootV \in Alive /\ v # RootV
  BY <1>1 DEF SoloAt, LinksInv, RootIn, Maker, Fresh
<1>9. \A w \in Alive : (Nameless(t, w) <=> w = v) /\ ~Nameless(t, w)' /\ (Maker(t, w)' <=> Maker(t, w))
  BY <1>1, <1>3 DEF Nameless, Maker, Fresh
<1> HIDE DEF p, v
<1>10. RootIn(t)'
  <2>1. Exists(RootPath)' /\ ~Maker(t, RootV)'
    BY <1>1, <1>8, <1>9, DiskSame DEF RootIn, Exists, OnServer
  <2>2. \A w \in Alive', n \in Names : node'[w].entries[n] # 1
    BY <1>1, <1>4, <1>8 DEF RootIn
  <2> QED
    BY <1>1, <1>4, <1>8, <2>1, <2>2 DEF RootIn
<1>11. OneVnodePerNumber' /\ OneEntry'
  <2>1. OneVnodePerNumber'
    BY <1>1, <1>4, <1>8 DEF OneVnodePerNumber
  <2>2. SUFFICES ASSUME NEW x \in Alive, NEW w \in Alive, NEW m \in Names, NEW n \in Names,
                        node[x].entries[m] = node[w].entries[n], node[x].entries[m] # NoId
                 PROVE  x = w /\ m = n
    BY <1>1, <1>4, <2>1 DEF OneEntry
  <2> QED
    BY <1>8, <2>2 DEF OneEntry
<1>12. EntriesLead(t)'
  <2>1. SUFFICES ASSUME NEW x \in Alive', NEW n \in Names, node'[x].entries[n] # NoId
                 PROVE  /\ x \in Linked' /\ ~Nameless(t, x)' /\ node'[x].type = "dir"
                        /\ Remains(Append(node'[x].path, n))
                        /\ \A w \in Alive' : node'[w].id = node'[x].entries[n] =>
                             Nameless(t, w)' \/ node'[w].path = Append(node'[x].path, n)
    BY DEF EntriesLead, Exists, OnServer, Remains
  <2>2. x \in Alive /\ x \in Vnodes /\ node[x].entries[n] # NoId /\ node'[x].entries[n] = node[x].entries[n]
    BY <1>1, <1>4, <2>1
  <2>3. x # v
    BY <1>7, <2>2
  <2>4. node'[x].path = node[x].path /\ node'[x].type = node[x].type
    BY <1>4, <2>2, <2>3
  <2>5. /\ x \in Linked /\ node[x].type = "dir" /\ Exists(Append(node[x].path, n))
        /\ \A w \in Alive : node[w].id = node[x].entries[n] =>
             w = v \/ node[w].path = Append(node[x].path, n)
    BY <1>1, <1>8, <1>9, <2>2 DEF EntriesLead, Leaving
  <2>6. Remains(Append(node[x].path, n))
    BY <1>1, <2>5, DiskSame DEF Exists, OnServer, Remains
  <2>7. ASSUME NEW w \in Alive, node[w].id = node[x].entries[n]
        PROVE  node'[w].path = Append(node[x].path, n)
    <3>1. CASE w # v
      BY <1>1, <1>4, <2>5, <2>7, <3>1
    <3>2. CASE w = v
      <4>1. op[t].found # NoId /\ Entry(t) = node[x].entries[n]
        BY <1>7, <2>2, <2>7, <3>2
      <4>2. x = dir[t] /\ n = op[t].name
        BY <1>2, <1>8, <2>2, <4>1 DEF OneEntry, Entry
      <4>3. p = Append(node[x].path, n)
        BY <4>2 DEF p, Target
      <4> QED
        BY <1>1, <1>4, <3>2, <4>3
    <3> QED
      BY <3>1, <3>2
  <2> QED
    BY <1>1, <1>4, <1>5, <1>9, <2>2, <2>4, <2>5, <2>6, <2>7
<1>13. PathsDiffer(t)'
  <2>1. ASSUME NEW w \in Linked, w # v
        PROVE  node[w].path # p
    <3>1. SUFFICES ASSUME node[w].path = p PROVE FALSE
      OBVIOUS
    <3>2. w \in Alive /\ w \in Vnodes /\ node[w].id # NoId
      BY <1>1, <1>5, Numbers
    <3>3. w # RootV
      <4>1. node[dir[t]].path \in Seq(Names)
        BY <1>2, Numbers
      <4> QED
        BY <1>2, <1>8, <3>1, <4>1, AppendNotRoot DEF RootIn, p, Target
    <3>4. PICK d \in Alive, n \in Names : node[d].entries[n] = node[w].id
      BY <3>3 DEF Linked
    <3>5. node[w].path = Append(node[d].path, n)
      BY <1>8, <1>9, <2>1, <3>2, <3>4 DEF EntriesLead
    <3>6. d = dir[t] /\ n = op[t].name
      BY <1>1, <3>1, <3>2, <3>4, <3>5, NoOtherEntry DEF p, Making
    <3>7. node[v].id = node[w].id
      BY <1>7, <3>2, <3>4, <3>6 DEF Entry
    <3> QED
      BY <1>1, <1>8, <2>1, <3>2, <3>7 DEF OneVnodePerNumber
  <2>2. SUFFICES ASSUME NEW x \in Linked, NEW w \in Linked, node'[x].path = node'[w].path
                 PROVE  x = w
    BY <1>5 DEF PathsDiffer
  <2>3. x \in Alive /\ w \in Alive /\ x \in Vnodes /\ w \in Vnodes
    BY <1>1, <1>5
  <2>4. CASE x # v /\ w # v
    BY <1>4, <1>8, <1>9, <2>2, <2>3, <2>4 DEF PathsDiffer
  <2>5. CASE x = v \/ w = v
    BY <1>4, <2>1, <2>2, <2>3, <2>5
  <2> QED
    BY <2>4, <2>5
<1>14. RefsInv(t)'
  <2>1. ASSUME NEW w
        PROVE  References(w)' = References(w) /\ References(w) \in Nat
    <3>1. Mine(t, w)' = Mine(t, w)
      BY <1>1, <1>3 DEF Mine, Todo, InSeq, Held
    <3> QED
      BY <3>1, RefsAreMine
  <2>2. ASSUME NEW w \in Alive
        PROVE  node'[w].count = References(w)' + Has(w \in Linked' \/ Maker(t, w)')
    <3>1. node[w].count = References(w) + Has(w \in Linked \/ Maker(t, w))
      BY DEF SoloAt, RefsInv, OwnedWhenLinked
    <3>2. Has(w \in Linked' \/ Maker(t, w)') = Has(w \in Linked \/ Maker(t, w))
      BY <1>5, <1>9 DEF Has
    <3> QED
      BY <1>1, <1>4, <2>1, <3>1, <3>2
  <2>3. OwnedWhenLinked(t)'
    BY <1>1, <2>2 DEF OwnedWhenLinked
  <2>4. NoneLost'
    BY <1>1, <2>1 DEF SoloAt, RefsInv, NoneLost
  <2> QED
    BY <2>3, <2>4 DEF RefsInv
<1>15. Standing(t)'
  <2>1. op[t].call # "createExcl" /\ ~Maker(t, dir[t])'
    BY <1>1, <1>2, <1>9 DEF SoloAt, Standing, Maker, v
  <2>2. node'[dir[t]].type = "dir"
    BY <1>2, <1>4
  <2> QED
    BY <1>1, <1>2, <1>3, <1>5, <2>1, <2>2 DEF Standing, Searching, Fresh, v
<1>16. Knowing(t)'
  <2>1. pc'[t] = "link" => op[t].found = NoId
    BY <1>3
  <2>2. Exists(Target(t))'
    BY <1>1, <1>6, <1>7, DiskSame DEF Exists, OnServer
  <2>3. pc'[t] = "ref" => v \in Linked
    <3>1. ASSUME pc'[t] = "ref"
          PROVE  v \in Linked
      <4>1. op[t].found # NoId
        BY <1>3, <3>1
      <4>2. node[dir[t]].entries[op[t].name] = node[v].id
        BY <1>7, <4>1 DEF Entry
      <4> QED
        BY <1>1, <1>2, <4>2 DEF Linked
    <3> QED
      BY <3>1
  <2>4. node'[v].path = p
    BY <1>1, <1>4
  <2>5. \A w \in Alive', n \in Names : op[t].found = NoId => node'[w].entries[n] # node'[v].id
    BY <1>1, <1>4, <1>7
  <2>6. \A n \in Names : node'[v].entries[n] = NoId
    BY <1>1, <1>4, <1>7
  <2>7. Entry(t)' = op'[t].found /\ vp'[t] = v /\ op'[t].found = op[t].found
    BY <1>1, <1>3, <1>6, <1>7 DEF v
  <2>8. KnowsNew(t)'
    BY <1>3, <1>5, <1>6, <2>1, <2>3, <2>4, <2>5, <2>6, <2>7 DEF KnowsNew
  <2>9. KnowsServer(t)'
    BY <1>3, <2>2 DEF KnowsServer
  <2>10. KnowsEntry(t)' /\ KnowsHeld(t)'
    BY <1>3 DEF KnowsEntry, KnowsHeld, Held
  <2> QED
    BY <2>8, <2>9, <2>10 DEF Knowing
<1> QED
  BY <1>10, <1>11, <1>12, <1>13, <1>14, <1>15, <1>16 DEF SoloAt, LinksInv

\* One entry of a directory changes.
EntryIs(v, n, i) ==
  \A w \in Vnodes :
    /\ node'[w].id = node[w].id /\ node'[w].path = node[w].path
    /\ node'[w].count = node[w].count /\ node'[w].type = node[w].type
    /\ \A m \in Names : node'[w].entries[m] = IF w = v /\ m = n THEN i ELSE node[w].entries[m]

LEMMA EntryChanges ==
  ASSUME TypeInv, NEW v \in Vnodes, NEW n \in Names, NEW i,
         node' = [node EXCEPT ![v].entries[n] = i]
  PROVE  EntryIs(v, n, i)
<1>1. ASSUME NEW w \in Vnodes
      PROVE  /\ node[w] \in NodeRecords /\ node[w].entries \in [Entries -> Nat]
             /\ node'[w] = IF w = v THEN [node[w] EXCEPT !.entries[n] = i] ELSE node[w]
  BY NodeTyped DEF TypeInv, StateTyped
<1>2. ASSUME NEW w \in Vnodes
      PROVE  /\ node'[w].id = node[w].id /\ node'[w].path = node[w].path
             /\ node'[w].count = node[w].count /\ node'[w].type = node[w].type
             /\ node'[w].entries = IF w = v THEN [node[w].entries EXCEPT ![n] = i]
                                   ELSE node[w].entries
  BY <1>1 DEF NodeRecords
<1>3. ASSUME NEW w \in Vnodes, NEW m \in Names
      PROVE  node'[w].entries[m] = IF w = v /\ m = n THEN i ELSE node[w].entries[m]
  BY <1>1, <1>2 DEF Entries
<1> QED
  BY <1>2, <1>3 DEF EntryIs

\* A name that exists on the server is entered in the directory of the thread, with a
\* number that is new or that of the vnode the thread is making.
Enters(t, n, i) ==
  /\ n \in Names /\ dir[t] \in Linked /\ node[dir[t]].type = "dir" /\ ~Maker(t, dir[t])
  /\ node[dir[t]].entries[n] = NoId
  /\ i # NoId /\ i # 1 /\ \A v \in Alive, m \in Names : node[v].entries[m] # i
  /\ \A v \in Alive : node[v].id = i =>
       Maker(t, v) /\ node[v].path = Append(node[dir[t]].path, n)
  /\ Exists(Append(node[dir[t]].path, n))
  /\ EntryIs(dir[t], n, i)
  /\ UNCHANGED <<disk, list, dir, res, vp, todo>>
  /\ \/ pc[t] = "link" /\ pc'[t] = "ref"
     \/ pc[t] = "add" /\ pc'[t] = "add"

LEMMA EntersLinked ==
  ASSUME TypeInv, NEW t \in Threads, NEW n, NEW i, Enters(t, n, i)
  PROVE  /\ \A v : v \in Linked' <=> v \in Linked \/ (v \in Alive /\ node[v].id = i)
         /\ Alive' = Alive /\ Alive \subseteq Vnodes /\ Linked \subseteq Alive
         /\ dir[t] \in Alive /\ dir[t] \in Vnodes
<1>1. /\ Alive' = Alive /\ Alive \subseteq Vnodes /\ Linked \subseteq Alive
      /\ dir[t] \in Alive /\ dir[t] \in Vnodes
  BY ListedStay, LinkedThen DEF Enters
<1>2. /\ \A v \in Alive, m \in Names :
           node'[v].entries[m] = IF v = dir[t] /\ m = n THEN i ELSE node[v].entries[m]
      /\ \A v \in Alive : node'[v].id = node[v].id
      /\ n \in Names /\ node[dir[t]].entries[n] = NoId
  BY <1>1 DEF Enters, EntryIs
<1>3. \A v \in Alive : node[v].id # NoId
  BY <1>1, Numbers
<1>4. ASSUME NEW v \in Alive
      PROVE  (\E d \in Alive', m \in Names : node'[d].entries[m] = node'[v].id)
               <=> \/ \E d \in Alive, m \in Names : node[d].entries[m] = node[v].id
                   \/ node[v].id = i
  <2>1. CASE node[v].id = i
    <3>1. node'[dir[t]].entries[n] = node'[v].id
      BY <1>1, <1>2, <2>1
    <3> QED
      BY <1>1, <1>2, <2>1, <3>1
  <2>2. CASE node[v].id # i
    <3>1. \A d \in Alive, m \in Names :
            node'[d].entries[m] = node'[v].id <=> node[d].entries[m] = node[v].id
      BY <1>2, <1>3, <2>2
    <3> QED
      BY <1>1, <2>2, <3>1
  <2> QED
    BY <2>1, <2>2
<1>5. ASSUME NEW v
      PROVE  v \in Linked' <=> v \in Linked \/ (v \in Alive /\ node[v].id = i)
  BY <1>1, <1>4, LinkedThen DEF Linked
<1> QED
  BY <1>1, <1>5

LEMMA EntersLinks ==
  ASSUME NEW t \in Threads, TypeInv, LinksInv(t), NEW n, NEW i, Enters(t, n, i)
  PROVE  LinksInv(t)'
<1> DEFINE d == dir[t]
<1>1. /\ Alive' = Alive /\ Alive \subseteq Vnodes /\ Linked \subseteq Alive
      /\ d \in Alive /\ d \in Vnodes /\ d \in Linked
      /\ \A v : v \in Linked' <=> v \in Linked \/ (v \in Alive /\ node[v].id = i)
      /\ n \in Names /\ node[d].entries[n] = NoId /\ node[d].type = "dir"
      /\ i # NoId /\ i # 1 /\ Exists(Append(node[d].path, n)) /\ UNCHANGED server
      /\ \A v \in Alive, m \in Names : node[v].entries[m] # i
      /\ \A v \in Alive : node[v].id = i => node[v].path = Append(node[d].path, n)
  <2>1. /\ Alive' = Alive /\ Alive \subseteq Vnodes /\ Linked \subseteq Alive
        /\ d \in Alive /\ d \in Vnodes
        /\ \A v : v \in Linked' <=> v \in Linked \/ (v \in Alive /\ node[v].id = i)
    BY EntersLinked
  <2>2. /\ d \in Linked /\ n \in Names /\ node[d].entries[n] = NoId /\ node[d].type = "dir"
        /\ i # NoId /\ i # 1 /\ Exists(Append(node[d].path, n)) /\ UNCHANGED server
        /\ \A v \in Alive, m \in Names : node[v].entries[m] # i
        /\ \A v \in Alive : node[v].id = i => node[v].path = Append(node[d].path, n)
    BY DiskSame DEF Enters
  <2> QED
    BY <2>1, <2>2
<1>2. \A v \in Alive :
        /\ node'[v].id = node[v].id /\ node'[v].path = node[v].path /\ node'[v].type = node[v].type
        /\ \A m \in Names : node'[v].entries[m] = IF v = d /\ m = n THEN i ELSE node[v].entries[m]
  BY <1>1 DEF Enters, EntryIs
<1>3. /\ pc[t] \in {"link", "add"} /\ pc'[t] \in {"ref", "add"}
      /\ \A v : Maker(t, v)' <=> Maker(t, v)
  BY DEF Enters, Maker, Fresh
<1>4. /\ RootIn(t) /\ OneVnodePerNumber /\ OneEntry /\ EntriesLead(t) /\ PathsDiffer(t)
      /\ RootV \in Alive
  BY DEF LinksInv, RootIn
<1> HIDE DEF d
<1>5. RootIn(t)'
  <2>1. Exists(RootPath)' /\ ~Maker(t, RootV)'
    BY <1>1, <1>3, <1>4 DEF RootIn, Exists, OnServer
  <2>2. \A v \in Alive', m \in Names : node'[v].entries[m] # 1
    BY <1>1, <1>2, <1>4 DEF RootIn
  <2> QED
    BY <1>1, <1>2, <1>4, <2>1, <2>2 DEF RootIn
<1>6. OneVnodePerNumber'
  BY <1>1, <1>2, <1>4 DEF OneVnodePerNumber
<1>7. OneEntry'
  <2>1. SUFFICES ASSUME NEW x \in Alive, NEW w \in Alive, NEW k \in Names, NEW m \in Names,
                        node'[x].entries[k] = node'[w].entries[m], node'[x].entries[k] # NoId
                 PROVE  x = w /\ k = m
    BY <1>1 DEF OneEntry
  <2>2. CASE x = d /\ k = n
    BY <1>1, <1>2, <2>1, <2>2
  <2>3. CASE w = d /\ m = n
    BY <1>1, <1>2, <2>1, <2>3
  <2>4. CASE ~(x = d /\ k = n) /\ ~(w = d /\ m = n)
    BY <1>2, <1>4, <2>1, <2>4 DEF OneEntry
  <2> QED
    BY <2>2, <2>3, <2>4
<1>8. EntriesLead(t)'
  <2>1. SUFFICES ASSUME NEW x \in Alive', NEW m \in Names, node'[x].entries[m] # NoId
                 PROVE  /\ x \in Linked' /\ ~Nameless(t, x)' /\ node'[x].type = "dir"
                        /\ Remains(Append(node'[x].path, m))
                        /\ \A w \in Alive' : node'[w].id = node'[x].entries[m] =>
                             Nameless(t, w)' \/ node'[w].path = Append(node'[x].path, m)
    BY DEF EntriesLead, Exists, OnServer, Remains
  <2>2. CASE x = d /\ m = n
    BY <1>1, <1>2, <1>3, <2>1, <2>2 DEF Nameless, Exists, OnServer, Remains
  <2>3. CASE ~(x = d /\ m = n)
    <3>1. x \in Alive /\ node'[x].entries[m] = node[x].entries[m] /\ node[x].entries[m] # NoId
      BY <1>1, <1>2, <2>1, <2>3
    <3>2. /\ x \in Linked /\ node[x].type = "dir" /\ Exists(Append(node[x].path, m))
          /\ \A w \in Alive : node[w].id = node[x].entries[m] => node[w].path = Append(node[x].path, m)
      BY <1>3, <1>4, <3>1 DEF EntriesLead, Leaving, Nameless
    <3>3. Remains(Append(node[x].path, m))
      BY <1>1, <3>2 DEF Exists, OnServer, Remains
    <3> QED
      BY <1>1, <1>2, <1>3, <3>1, <3>2, <3>3 DEF Nameless
  <2> QED
    BY <2>2, <2>3
<1>9. PathsDiffer(t)'
  <2>1. ASSUME NEW x \in Linked
        PROVE  node[x].path # Append(node[d].path, n)
    <3>1. SUFFICES ASSUME node[x].path = Append(node[d].path, n) PROVE FALSE
      OBVIOUS
    <3>2. x \in Alive /\ node[x].id # NoId /\ node[d].path \in Seq(Names)
      BY <1>1, Numbers
    <3>3. x # RootV
      BY <1>1, <1>4, <3>1, <3>2, AppendNotRoot DEF RootIn
    <3>4. PICK e \in Alive, m \in Names : node[e].entries[m] = node[x].id
      BY <3>3 DEF Linked
    <3>5. node[x].path = Append(node[e].path, m) /\ e \in Linked
      BY <1>3, <1>4, <3>2, <3>4 DEF EntriesLead, Nameless
    <3>6. node[e].path \in Seq(Names)
      BY <1>1, <3>4, Numbers
    <3>7. node[e].path = node[d].path /\ m = n
      <4> DEFINE p == node[e].path
                 q == node[d].path
      <4>1. p \in Seq(Names) /\ q \in Seq(Names) /\ n \in Names /\ Append(p, m) = Append(q, n)
        BY <1>1, <3>1, <3>2, <3>5, <3>6
      <4> HIDE DEF p, q
      <4>2. p = q /\ m = n
        BY <4>1, AppendOne
      <4> QED
        BY <4>2 DEF p, q
    <3>8. e = d
      BY <1>1, <1>3, <1>4, <3>5, <3>7 DEF PathsDiffer, Nameless
    <3> QED
      BY <1>1, <3>2, <3>4, <3>7, <3>8
  <2>2. SUFFICES ASSUME NEW x \in Linked', NEW w \in Linked', node'[x].path = node'[w].path
                 PROVE  x = w
    BY DEF PathsDiffer
  <2>3. x \in Alive /\ w \in Alive /\ node[x].path = node[w].path
    BY <1>1, <1>2, <2>2
  <2>4. CASE x \in Linked /\ w \in Linked
    BY <1>3, <1>4, <2>3, <2>4 DEF PathsDiffer, Nameless
  <2>5. CASE node[x].id = i \/ node[w].id = i
    BY <1>1, <1>4, <2>1, <2>2, <2>3, <2>5 DEF OneVnodePerNumber
  <2> QED
    BY <1>1, <2>2, <2>4, <2>5
<1> QED
  BY <1>5, <1>6, <1>7, <1>8, <1>9 DEF LinksInv

LEMMA EntersRefs ==
  ASSUME NEW t \in Threads, Alone(t), TypeInv, RefsInv(t), NEW n, NEW i, Enters(t, n, i)
  PROVE  RefsInv(t)'
<1>1. /\ Alive' = Alive /\ Alive \subseteq Vnodes
      /\ \A v : v \in Linked' <=> v \in Linked \/ (v \in Alive /\ node[v].id = i)
  BY EntersLinked
<1>2. /\ \A v \in Vnodes : node'[v].count = node[v].count
      /\ \A v \in Alive : node[v].id = i => Maker(t, v)
      /\ \A v : Maker(t, v)' <=> Maker(t, v)
  BY DEF Enters, EntryIs, Maker, Fresh
<1>3. ASSUME NEW v
      PROVE  References(v)' = References(v)
  <2>1. Mine(t, v)' = Mine(t, v)
    BY DEF Enters, Mine, Todo, InSeq, Held
  <2> QED
    BY <2>1, RefsAreMine
<1>4. ASSUME NEW v \in Alive
      PROVE  node'[v].count = References(v)' + Has(v \in Linked' \/ Maker(t, v)')
  <2>1. node[v].count = References(v) + Has(v \in Linked \/ Maker(t, v))
    BY DEF RefsInv, OwnedWhenLinked
  <2>2. Has(v \in Linked' \/ Maker(t, v)') = Has(v \in Linked \/ Maker(t, v))
    BY <1>1, <1>2 DEF Has
  <2> QED
    BY <1>1, <1>2, <1>3, <2>1, <2>2
<1>5. OwnedWhenLinked(t)' /\ NoneLost'
  BY <1>1, <1>3, <1>4 DEF OwnedWhenLinked, RefsInv, NoneLost
<1> QED
  BY <1>5 DEF RefsInv

LEMMA LinkSolo ==
  ASSUME NEW t \in Threads, Alone(t), TypeInv, TypeInv', SoloAt(t), Link(t)
  PROVE  SoloAt(t)' /\ Enters(t, op[t].name, node[vp[t]].id)
<1> DEFINE v == vp[t]
           i == node[v].id
<1>1. /\ pc[t] = "link" /\ Goto(t, "ref") /\ "ref" \in Pcs
      /\ node' = iumfs_add_entry_to_dir(dir[t], op[t].name, i)
      /\ UNCHANGED <<disk, list, dir, res, vp, todo>>
  BY DEF Link, At, Alone, Pcs
<1>2. /\ dir[t] \in Vnodes /\ dir[t] \in Alive /\ dir[t] \in Linked /\ ~Maker(t, dir[t])
      /\ op[t].name \in Names /\ node[dir[t]].type = "dir"
  BY <1>1, AtName DEF Making
<1>3. pc'[t] = "ref" /\ op'[t] = op[t]
  BY <1>1, GotoMoves DEF TypeInv
<1>4. /\ v \in Alive /\ v \in Vnodes /\ res[t] = NoVnode /\ op[t].call # "createExcl"
      /\ Entry(t) = NoId /\ node[v].path = Target(t) /\ Exists(Target(t))
      /\ \A w \in Alive, n \in Names : node[w].entries[n] # i
  <2>1. v \in Alive /\ res[t] = NoVnode /\ op[t].call # "createExcl"
    BY <1>1 DEF SoloAt, Standing, Fresh, Making
  <2>2. /\ Entry(t) = NoId /\ node[v].path = Target(t) /\ Exists(Target(t))
        /\ \A w \in Alive, n \in Names : node[w].entries[n] # i
    BY <1>1 DEF SoloAt, Knowing, KnowsNew, KnowsServer
  <2>3. v \in Vnodes
    BY <2>1, AliveTyped DEF TypeInv, StateTyped
  <2> QED
    BY <2>1, <2>2, <2>3
<1>5. /\ i # NoId /\ i # 1 /\ \A w \in Alive : node[w].id = i => w = v
  <2>1. i # NoId
    BY <1>4, Numbers
  <2>2. OneVnodePerNumber /\ RootV \in Alive /\ node[RootV].id = 1 /\ ~Maker(t, RootV)
    BY DEF SoloAt, LinksInv, RootIn
  <2> QED
    BY <1>1, <1>4, <2>1, <2>2 DEF OneVnodePerNumber, Maker, Fresh
<1>6. node' = [node EXCEPT ![dir[t]].entries[op[t].name] = i]
  BY <1>1, <1>4 DEF iumfs_add_entry_to_dir, Entry
<1> HIDE DEF i
<1>7. EntryIs(dir[t], op[t].name, i)
  BY <1>2, <1>6, EntryChanges
<1>8. Maker(t, v)
  BY <1>1 DEF Maker, Fresh
<1>9. Enters(t, op[t].name, i)
  BY <1>1, <1>2, <1>3, <1>4, <1>5, <1>7, <1>8 DEF Enters, Entry, Target
<1>10. LinksInv(t)' /\ RefsInv(t)'
  BY <1>9, EntersLinks, EntersRefs DEF SoloAt
<1>11. /\ Alive' = Alive /\ Linked \subseteq Linked' /\ v \in Linked'
       /\ node'[dir[t]].type = "dir"
  BY <1>2, <1>4, <1>7, <1>9, EntersLinked DEF i, EntryIs
<1>12. Standing(t)'
  <2>1. ~Maker(t, dir[t])'
    BY <1>1, <1>2, <1>3 DEF Maker, Fresh
  <2> QED
    BY <1>1, <1>2, <1>3, <1>4, <1>11, <2>1 DEF Standing, Searching, Fresh
<1>13. Knowing(t)'
  BY <1>1, <1>3, <1>11 DEF Knowing, KnowsEntry, KnowsServer, KnowsNew, KnowsHeld, Held
<1> QED
  BY <1>9, <1>10, <1>12, <1>13 DEF SoloAt, i

\* A listed name is entered, or has an entry, or all are done.
LEMMA AddSolo ==
  ASSUME NEW t \in Threads, Alone(t), TypeInv, TypeInv', SoloAt(t), AddListed(t)
  PROVE  SoloAt(t)' /\ (UNCHANGED node \/ \E n, i : Enters(t, n, i))
<1>1. /\ pc[t] = "add" /\ UNCHANGED <<disk, list, dir, res, vp, todo>> /\ "add" \in Pcs
      /\ "idle" \in Pcs /\ HandsTyped /\ op[t] \in Operation /\ op[t].listed \subseteq Names
  BY DEF AddListed, At, hands, TypeInv, HandsTyped, Operation, Pcs
<1>2. /\ dir[t] \in Vnodes /\ dir[t] \in Alive /\ dir[t] \in Linked
      /\ node[dir[t]].type = "dir" /\ ~Maker(t, dir[t])
  <2>1. dir[t] \in Vnodes
    BY <1>1 DEF TypeInv, AtWork, Releasing
  <2> QED
    BY <2>1, LinkedThen DEF SoloAt, Standing, Vnodes, NoVnode
<1>3. /\ \A n \in op[t].listed : Exists(Append(node[dir[t]].path, n))
      /\ op[t].call # "createExcl"
      /\ res[t] # NoVnode /\ node[res[t]].type = "dir" => res[t] \in Linked
      /\ vp[t] = NoVnode
  BY <1>1 DEF SoloAt, Knowing, KnowsServer, Standing, Held, Fresh
<1>4. ASSUME NEW n \in op[t].listed, Go(t, "add", [op[t] EXCEPT !.listed = @ \ {n}])
      PROVE  /\ pc'[t] = "add" /\ op'[t].call = op[t].call /\ op'[t].listed \subseteq op[t].listed
             /\ op'[t].name = op[t].name
  <2> DEFINE o == [op[t] EXCEPT !.listed = @ \ {n}]
  <2>1. o \in Operation /\ o.call = op[t].call /\ o.listed \subseteq op[t].listed /\ o.name = op[t].name
    BY <1>1 DEF Operation
  <2> HIDE DEF o
  <2>2. pc'[t] = "add" /\ op'[t] = o
    BY <1>1, <1>4 DEF Go, HandsTyped, o
  <2> QED
    BY <2>1, <2>2
<1>5. ASSUME NEW n \in op[t].listed, node[dir[t]].entries[n] = NoId, FreshId # {},
             node' = iumfs_add_entry_to_dir(dir[t], n, Min(FreshId)),
             Go(t, "add", [op[t] EXCEPT !.listed = @ \ {n}])
      PROVE  SoloAt(t)' /\ \E m, i : Enters(t, m, i)
  <2> DEFINE i == Min(FreshId)
  <2>1. i \in FreshId
    BY <1>5, MinOfNat DEF FreshId, NodeIds
  <2>2. node' = [node EXCEPT ![dir[t]].entries[n] = i]
    BY <1>5 DEF iumfs_add_entry_to_dir
  <2> HIDE DEF i
  <2>3. n \in Names /\ EntryIs(dir[t], n, i)
    BY <1>1, <1>2, <1>5, <2>2, EntryChanges
  <2>4. RootV \in Alive /\ node[RootV].id = 1
    BY DEF SoloAt, LinksInv, RootIn
  <2>5. /\ i # NoId /\ i # 1 /\ \A w \in Alive : node[w].id # i
        /\ \A w \in Alive, m \in Names : node[w].entries[m] # i
    BY <2>1, <2>4 DEF FreshId, NodeIds, NoId
  <2>6. pc'[t] = "add" /\ op'[t].call = op[t].call /\ op'[t].listed \subseteq op[t].listed
    BY <1>4, <1>5
  <2>7. Enters(t, n, i)
    BY <1>1, <1>2, <1>3, <1>5, <2>3, <2>5, <2>6 DEF Enters
  <2>8. LinksInv(t)' /\ RefsInv(t)'
    BY <2>7, EntersLinks, EntersRefs DEF SoloAt
  <2>9. Linked \subseteq Linked' /\ \A w \in Vnodes : node'[w].type = node[w].type /\ node'[w].path = node[w].path
    BY <2>3, <2>7, EntersLinked DEF EntryIs
  <2>10. Standing(t)'
    <3>1. ~Maker(t, dir[t])'
      BY <2>6 DEF Maker, Fresh
    <3>2. res[t] \in Vnodes \cup {NoVnode}
      BY <1>1 DEF HandsTyped
    <3> QED
      BY <1>1, <1>2, <1>3, <2>6, <2>9, <3>1, <3>2 DEF Standing, Searching, Making, Fresh, Held
  <2>11. Knowing(t)'
    <3>1. KnowsServer(t)'
      BY <1>1, <1>2, <1>3, <2>6, <2>9, DiskSame DEF KnowsServer, Exists, OnServer
    <3>2. KnowsEntry(t)' /\ KnowsNew(t)' /\ KnowsHeld(t)'
      BY <2>6 DEF KnowsEntry, KnowsNew, KnowsHeld, Held
    <3> QED
      BY <3>1, <3>2 DEF Knowing
  <2> QED
    BY <2>7, <2>8, <2>10, <2>11 DEF SoloAt
<1>6. ASSUME NEW n \in op[t].listed, UNCHANGED node,
             Go(t, "add", [op[t] EXCEPT !.listed = @ \ {n}])
      PROVE  SoloAt(t)'
  <2>1. pc'[t] = "add" /\ op'[t].call = op[t].call /\ op'[t].listed \subseteq op[t].listed
    BY <1>4, <1>6
  <2>2. Shows(t)
    BY <1>1, ShowsSame, DiskSame DEF SoloAt
  <2>3. OnTheWay(t)
    BY <1>1, <1>3, <1>6, <2>1, <2>2 DEF OnTheWay, Fresh, Held, Making, Searching
  <2>4. KnowsServer(t)'
    BY <1>1, <1>3, <1>6, <2>1, DiskSame DEF KnowsServer, Exists, OnServer
  <2>5. KnowsEntry(t)' /\ KnowsNew(t)' /\ KnowsHeld(t)'
    BY <2>1 DEF KnowsEntry, KnowsNew, KnowsHeld, Held
  <2> QED
    BY <2>3, <2>4, <2>5, WaySolo DEF Knowing
<1>7. CASE Goto(t, "idle") /\ UNCHANGED node
  <2>1. pc'[t] = "idle"
    BY <1>1, <1>7, GotoMoves
  <2> QED
    BY <1>1, <1>7, <2>1, KnowsNothing, LooksSolo DEF Fresh, Held, Making, Searching
<1> QED
  BY <1>5, <1>6, <1>7 DEF AddListed

-----------------------------------------------------------------------------
(***************************************************************************)
(* The entry goes, and with it the reference of the vnode.                 *)
(***************************************************************************)
LEMMA UnlinkSolo ==
  ASSUME NEW t \in Threads, Alone(t), TypeInv, TypeInv', SoloAt(t), iumfs_remove_entry_from_dir(t)
  PROVE  SoloAt(t)'
<1> DEFINE v == vp[t]
           d == dir[t]
           n == op[t].name
<1>1. /\ pc[t] = "unlink" /\ ReturnAfter(t, <<v, v>>) /\ "rele" \in Pcs /\ Goto(t, "rele")
      /\ UNCHANGED <<disk, list, mount, dir, res>>
      /\ node' = [node EXCEPT ![d].entries[n] = NoId]
  BY DEF iumfs_remove_entry_from_dir, At, Released, Alone, ReturnAfter, Pcs, umount
<1>2. /\ pc'[t] = "rele" /\ op'[t] = op[t] /\ vp'[t] = NoVnode
      /\ \A w : Mine(t, w)' = Has(dir'[t] = w) + Has(res'[t] = w) + InSeq(<<v, v>>, w)
  <2>1. HandsTyped
    BY DEF TypeInv
  <2>2. pc'[t] = "rele" /\ op'[t] = op[t]
    BY <1>1, <2>1, GotoMoves
  <2>3. vp'[t] = NoVnode
    BY <1>1, <2>1 DEF ReturnAfter, HandsTyped
  <2> QED
    BY <1>1, <2>2, <2>3, ReturnAfterEnds
<1>3. /\ d \in Vnodes /\ d \in Alive /\ d \in Linked /\ n \in Names /\ node[d].type = "dir"
      /\ v \in Alive /\ v \in Vnodes /\ node[d].entries[n] = node[v].id /\ node[v].id # NoId
      /\ v \in Linked
  <2>1. d \in Vnodes /\ d \in Alive /\ d \in Linked /\ n \in Names /\ node[d].type = "dir"
    BY <1>1, AtName DEF Held
  <2>2. v \in Alive /\ v \in Vnodes /\ node[d].entries[n] = node[v].id /\ node[v].id # NoId
    BY <1>1, HeldIsNamed DEF Held, Entry
  <2> QED
    BY <2>1, <2>2 DEF Linked
<1>4. /\ \A m \in Names : node[v].entries[m] = NoId
      /\ node[v].type = "dir" => v # res[t]
  BY <1>1 DEF SoloAt, Knowing, KnowsHeld
<1>5. /\ RootIn(t) /\ OneVnodePerNumber /\ OneEntry /\ EntriesLead(t) /\ PathsDiffer(t)
      /\ RootV \in Alive
  BY DEF SoloAt, LinksInv, RootIn
<1>6. d # v /\ v # RootV
  BY <1>3, <1>4, <1>5 DEF RootIn
<1>7. Alive' = Alive /\ Alive \subseteq Vnodes /\ Linked \subseteq Alive
  BY <1>1, ListedStay, LinkedThen
<1>8. \A w \in Vnodes :
        /\ node'[w].id = node[w].id /\ node'[w].path = node[w].path
        /\ node'[w].count = node[w].count /\ node'[w].type = node[w].type
        /\ \A m \in Names : node'[w].entries[m] = IF w = d /\ m = n THEN NoId ELSE node[w].entries[m]
  <2>1. EntryIs(d, n, NoId)
    BY <1>1, <1>3, EntryChanges
  <2> QED
    BY <2>1 DEF EntryIs
<1>9. \A w : (Maker(t, w)' <=> FALSE) /\ (Maker(t, w) <=> FALSE) /\ ~Nameless(t, w) /\ ~Nameless(t, w)'
  BY <1>1, <1>2 DEF Maker, Nameless, Fresh
<1> HIDE DEF v, d, n
<1>10. \A w : w \in Linked' <=> w \in Linked /\ w # v
  <2>1. ASSUME NEW w \in Linked', w = v
        PROVE  FALSE
    <3>1. PICK x \in Alive, m \in Names : node'[x].entries[m] = node'[v].id
      BY <1>6, <1>7, <2>1, LinkedThen
    <3>2. node[x].entries[m] = node[v].id /\ ~(x = d /\ m = n)
      BY <1>3, <1>7, <1>8, <3>1
    <3> QED
      BY <1>3, <1>5, <3>2 DEF OneEntry
  <2>2. ASSUME NEW w \in Linked'
        PROVE  w \in Linked
    <3>1. w \in Alive /\ (w = RootV \/ \E x \in Alive, m \in Names : node'[x].entries[m] = node'[w].id)
      BY <1>7, LinkedThen
    <3>2. node[w].id # NoId
      BY <1>7, <3>1, Numbers
    <3> QED
      BY <1>7, <1>8, <3>1, <3>2 DEF Linked
  <2>3. ASSUME NEW w \in Linked, w # v
        PROVE  w \in Linked'
    <3>1. CASE w = RootV
      BY <1>5, <1>7, <3>1, LinkedThen
    <3>2. CASE w # RootV
      <4>1. w \in Alive
        BY <1>7
      <4>2. PICK x \in Alive, m \in Names : node[x].entries[m] = node[w].id
        BY <3>2 DEF Linked
      <4>3. ~(x = d /\ m = n)
        BY <1>3, <1>5, <2>3, <4>1, <4>2 DEF OneVnodePerNumber
      <4>4. node'[x].entries[m] = node'[w].id
        BY <1>7, <1>8, <4>1, <4>2, <4>3
      <4> QED
        BY <1>7, <4>1, <4>2, <4>4, LinkedThen
    <3> QED
      BY <3>1, <3>2
  <2> QED
    BY <2>1, <2>2, <2>3
<1>11. RootIn(t)' /\ OneVnodePerNumber'
  <2>1. Exists(RootPath)'
    BY <1>1, <1>5, DiskSame DEF RootIn, Exists, OnServer
  <2>2. \A w \in Alive', m \in Names : node'[w].entries[m] # 1
    BY <1>5, <1>7, <1>8 DEF RootIn, NoId
  <2>3. RootIn(t)'
    BY <1>5, <1>7, <1>8, <1>9, <2>1, <2>2 DEF RootIn
  <2>4. OneVnodePerNumber'
    BY <1>5, <1>7, <1>8 DEF OneVnodePerNumber
  <2> QED
    BY <2>3, <2>4
<1>12. OneEntry'
  <2>1. SUFFICES ASSUME NEW x \in Alive, NEW w \in Alive, NEW k \in Names, NEW m \in Names,
                        node'[x].entries[k] = node'[w].entries[m], node'[x].entries[k] # NoId
                 PROVE  x = w /\ k = m
    BY <1>7 DEF OneEntry
  <2>2. node[x].entries[k] = node[w].entries[m] /\ node[x].entries[k] # NoId
    BY <1>7, <1>8, <2>1
  <2> QED
    BY <1>5, <2>2 DEF OneEntry
<1>13. EntriesLead(t)'
  <2>1. SUFFICES ASSUME NEW x \in Alive', NEW m \in Names, node'[x].entries[m] # NoId
                 PROVE  /\ x \in Linked' /\ ~Nameless(t, x)' /\ node'[x].type = "dir"
                        /\ Remains(Append(node'[x].path, m))
                        /\ \A w \in Alive' : node'[w].id = node'[x].entries[m] =>
                             Nameless(t, w)' \/ node'[w].path = Append(node'[x].path, m)
    BY DEF EntriesLead, Exists, OnServer, Remains
  <2>2. /\ x \in Alive /\ node[x].entries[m] # NoId /\ ~(x = d /\ m = n)
        /\ node'[x].entries[m] = node[x].entries[m]
    BY <1>7, <1>8, <2>1
  <2>3. /\ x \in Linked /\ x # v /\ node[x].type = "dir" /\ Exists(Append(node[x].path, m))
        /\ \A w \in Alive : node[w].id = node[x].entries[m] => node[w].path = Append(node[x].path, m)
    BY <1>4, <1>5, <1>9, <2>2 DEF EntriesLead, Leaving, d, n
  <2>4. Remains(Append(node[x].path, m))
    BY <1>1, <2>3, DiskSame DEF Exists, OnServer, Remains
  <2> QED
    BY <1>7, <1>8, <1>9, <1>10, <2>2, <2>3, <2>4
<1>14. PathsDiffer(t)'
  BY <1>5, <1>7, <1>8, <1>9, <1>10 DEF PathsDiffer
<1>15. ASSUME NEW w
       PROVE  /\ Mine(t, w)' = Mine(t, w) + Has(w = v)
              /\ References(w) = Mine(t, w) /\ References(w)' = Mine(t, w)' /\ Mine(t, w) \in Nat
  <2>1. Mine(t, w) = Has(dir[t] = w) + Has(res[t] = w) + Has(v = w)
    BY <1>1, MineIs DEF Held, Releasing, Has, v
  <2>2. Mine(t, w)' = Has(dir[t] = w) + Has(res[t] = w) + (Has(v = w) + Has(v = w))
    BY <1>1, <1>2, InTwo
  <2>3. Mine(t, w)' = Mine(t, w) + Has(w = v)
    BY <2>1, <2>2 DEF Has
  <2> QED
    BY <2>3, RefsAreMine
<1>16. RefsInv(t)'
  <2>1. ASSUME NEW w \in Alive
        PROVE  node'[w].count = References(w)' + Has(w \in Linked' \/ Maker(t, w)')
    <3>1. node[w].count = References(w) + Has(w \in Linked \/ Maker(t, w))
      BY DEF SoloAt, RefsInv, OwnedWhenLinked
    <3>2. Has(w \in Linked \/ Maker(t, w)) = Has(w = v) + Has(w \in Linked' \/ Maker(t, w)')
      BY <1>3, <1>9, <1>10 DEF Has
    <3>3. node'[w].count = node[w].count
      BY <1>7, <1>8
    <3> DEFINE a == Has(w \in Linked \/ Maker(t, w))
               b == Has(w \in Linked' \/ Maker(t, w)')
               c == Has(w = v)
    <3>4. a = c + b /\ b \in Nat /\ c \in Nat
      BY <3>2 DEF Has
    <3>5. node[w].count = References(w) + a /\ References(w)' = References(w) + c /\ References(w) \in Nat
      BY <1>15, <3>1
    <3> HIDE DEF a, b, c
    <3>6. node'[w].count = References(w)' + b
      BY <3>3, <3>4, <3>5
    <3> QED
      BY <3>6 DEF b
  <2>2. OwnedWhenLinked(t)'
    BY <1>7, <2>1 DEF OwnedWhenLinked
  <2>3. NoneLost'
    BY <1>3, <1>7, <1>15 DEF SoloAt, RefsInv, NoneLost, Has
  <2> QED
    BY <2>2, <2>3 DEF RefsInv
<1>17. Standing(t)'
  <2>1. /\ op[t].call # "createExcl" /\ res[t] \in Vnodes \cup {NoVnode}
        /\ res[t] # NoVnode /\ node[res[t]].type = "dir" => res[t] \in Linked
    BY DEF SoloAt, Standing, TypeInv, HandsTyped
  <2>2. res[t] # NoVnode /\ node'[res[t]].type = "dir" => res[t] \in Linked'
    BY <1>4, <1>8, <1>10, <2>1
  <2>3. dir'[t] \in Linked' /\ node'[dir'[t]].type = "dir" /\ ~Maker(t, dir[t])'
    BY <1>1, <1>3, <1>6, <1>8, <1>9, <1>10 DEF d, Maker
  <2> QED
    BY <1>1, <1>2, <2>1, <2>2, <2>3 DEF Standing, Making, Searching, Fresh, Held
<1>18. Knowing(t)'
  BY <1>2, KnowsNothing
<1> QED
  BY <1>11, <1>12, <1>13, <1>14, <1>16, <1>17, <1>18 DEF SoloAt, LinksInv

-----------------------------------------------------------------------------
(***************************************************************************)
(* A vnode nobody refers to is freed.                                      *)
(***************************************************************************)
LEMMA FreeSolo ==
  ASSUME NEW t \in Threads, Alone(t), TypeInv, TypeInv', SoloAt(t),
         pc[t] \in Releasing, ReleaseDone(t),
         NEW v \in Alive, v = Head(todo[t]), node[v].count = 1,
         list' = RemoveAt(list, Position(v)), node' = [node EXCEPT ![v] = NoNode],
         UNCHANGED <<disk, dir, res, vp>>
  PROVE  SoloAt(t)' /\ Linked' = Linked /\ v \notin Linked
<1>1. /\ pc'[t] \in {"idle", "rele"} /\ op'[t] \in {op[t], NoOp}
      /\ \A w : Mine(t, w) = Mine(t, w)' + Has(v = w) /\ Mine(t, w)' \in Nat
  BY ReleaseCounts
<1>2. /\ Alive' = Alive \ {v} /\ Alive \subseteq Vnodes /\ v \in Vnodes
      /\ \A w \in Vnodes \ {v} : node'[w] = node[w]
      /\ Linked \subseteq Alive
  BY Removed, AliveTyped, LinkedThen DEF TypeInv, StateTyped
<1>3. /\ RootIn(t) /\ OneVnodePerNumber /\ OneEntry /\ EntriesLead(t) /\ PathsDiffer(t)
      /\ RootV \in Alive
  BY DEF SoloAt, LinksInv, RootIn
<1>4. \A w : ~Maker(t, w) /\ ~Maker(t, w)' /\ ~Nameless(t, w) /\ ~Nameless(t, w)'
  BY <1>1 DEF Maker, Nameless, Fresh, Releasing
<1>5. ASSUME NEW w
      PROVE  /\ References(w) = Mine(t, w) /\ References(w)' = Mine(t, w)'
             /\ Mine(t, w) \in Nat /\ Mine(t, w)' \in Nat
  BY RefsAreMine
<1>6. v \notin Linked /\ Mine(t, v) = 1 /\ Mine(t, v)' = 0
  <2> DEFINE a == Has(v \in Linked \/ Maker(t, v))
             k == node[v].count
  <2>1. k = References(v) + a /\ a \in Nat /\ k = 1
    BY DEF SoloAt, RefsInv, OwnedWhenLinked, Has
  <2>2. Mine(t, v) = Mine(t, v)' + 1
    BY <1>1 DEF Has
  <2> HIDE DEF a, k
  <2>3. Mine(t, v) = 1 /\ Mine(t, v)' = 0 /\ a = 0
    BY <1>5, <2>1, <2>2
  <2> QED
    BY <2>3 DEF a, Has
<1>7. /\ v # RootV /\ v # dir[t] /\ v # res[t]
      /\ \A n \in Names : node[v].entries[n] = NoId
  <2>1. v # RootV
    BY <1>3, <1>6 DEF Linked
  <2>2. v # dir[t] /\ v # res[t]
    <3>1. /\ Mine(t, v)' = Has(dir[t] = v) + Has(res[t] = v)
                           + (IF pc'[t] \in Held THEN Has(vp'[t] = v) ELSE 0) + InSeq(todo'[t], v)
      BY MineWillBe
    <3>2. pc'[t] \notin Held /\ InSeq(todo'[t], v) \in Nat
      BY <1>1 DEF Held, InSeq, Has
    <3> QED
      BY <1>6, <3>1, <3>2 DEF Has
  <2>3. \A n \in Names : node[v].entries[n] = NoId
    BY <1>3, <1>6 DEF EntriesLead
  <2> QED
    BY <2>1, <2>2, <2>3
<1>8. Linked' = Linked
  <2>1. ASSUME NEW w
        PROVE  w \in Linked' <=> w \in Linked
    <3>1. CASE w = v
      BY <1>2, <1>6, <3>1, LinkedThen
    <3>2. CASE w \in Alive /\ w # v
      <4>1. node'[w] = node[w] /\ node[w].id # NoId
        BY <1>2, <3>2, Numbers
      <4>2. (\E d \in Alive', n \in Names : node'[d].entries[n] = node'[w].id)
              <=> (\E d \in Alive, n \in Names : node[d].entries[n] = node[w].id)
        BY <1>2, <1>7, <4>1
      <4> QED
        BY <1>2, <3>2, <4>2, LinkedThen DEF Linked
    <3>3. CASE w \notin Alive
      BY <1>2, <3>3, LinkedThen
    <3> QED
      BY <3>1, <3>2, <3>3
  <2> QED
    BY <2>1
<1>9. \A w \in Alive' : w \in Alive /\ w # v /\ node'[w] = node[w]
  BY <1>2
<1>10. RootIn(t)' /\ OneVnodePerNumber' /\ OneEntry'
  <2>1. RootIn(t)'
    BY <1>2, <1>3, <1>4, <1>7, <1>9, DiskSame DEF RootIn, Exists, OnServer
  <2>2. OneVnodePerNumber'
    BY <1>3, <1>9 DEF OneVnodePerNumber
  <2>3. OneEntry'
    BY <1>3, <1>9 DEF OneEntry
  <2> QED
    BY <2>1, <2>2, <2>3
<1>11. EntriesLead(t)'
  <2>1. SUFFICES ASSUME NEW x \in Alive', NEW m \in Names, node'[x].entries[m] # NoId
                 PROVE  /\ x \in Linked' /\ ~Nameless(t, x)' /\ node'[x].type = "dir"
                        /\ Remains(Append(node'[x].path, m))
                        /\ \A w \in Alive' : node'[w].id = node'[x].entries[m] =>
                             Nameless(t, w)' \/ node'[w].path = Append(node'[x].path, m)
    BY DEF EntriesLead, Exists, OnServer, Remains
  <2>2. /\ x \in Alive /\ node'[x] = node[x] /\ node[x].entries[m] # NoId
    BY <1>9, <2>1
  <2>3. /\ x \in Linked /\ node[x].type = "dir" /\ Exists(Append(node[x].path, m))
        /\ \A w \in Alive : node[w].id = node[x].entries[m] => node[w].path = Append(node[x].path, m)
    BY <1>3, <1>4, <2>2 DEF EntriesLead, Leaving, Releasing
  <2>4. Remains(Append(node[x].path, m))
    BY <2>3, DiskSame DEF Exists, OnServer, Remains
  <2> QED
    BY <1>4, <1>8, <1>9, <2>2, <2>3, <2>4
<1>12. PathsDiffer(t)'
  BY <1>2, <1>3, <1>4, <1>6, <1>8 DEF PathsDiffer
<1>13. RefsInv(t)'
  <2>1. ASSUME NEW w \in Alive'
        PROVE  node'[w].count = References(w)' + Has(w \in Linked' \/ Maker(t, w)')
    <3>1. node[w].count = References(w) + Has(w \in Linked \/ Maker(t, w))
      BY <1>9 DEF SoloAt, RefsInv, OwnedWhenLinked
    <3>2. References(w)' = References(w)
      BY <1>1, <1>5, <1>9 DEF Has
    <3>3. Has(w \in Linked \/ Maker(t, w)) = Has(w \in Linked' \/ Maker(t, w)')
      BY <1>4, <1>8
    <3> QED
      BY <1>9, <3>1, <3>2, <3>3
  <2>2. ASSUME NEW w \in Vnodes, w \notin Alive'
        PROVE  References(w)' = 0
    <3>1. CASE w = v
      BY <1>5, <1>6, <3>1
    <3>2. CASE w # v
      <4>1. w \notin Alive /\ References(w) = 0
        BY <1>2, <2>2, <3>2 DEF SoloAt, RefsInv, NoneLost
      <4> QED
        BY <1>1, <1>5, <3>2, <4>1 DEF Has
    <3> QED
      BY <3>1, <3>2
  <2> QED
    BY <2>1, <2>2 DEF RefsInv, OwnedWhenLinked, NoneLost
<1>14. Standing(t)'
  <2>1. /\ Standing(t) /\ dir[t] \in Vnodes \cup {NoVnode} /\ res[t] \in Vnodes \cup {NoVnode}
    BY DEF SoloAt, TypeInv, HandsTyped
  <2>2. dir[t] # NoVnode => dir[t] \in Linked /\ node'[dir[t]].type = "dir"
    BY <1>2, <1>7, <2>1 DEF Standing
  <2>3. res[t] # NoVnode /\ node'[res[t]].type = "dir" => res[t] \in Linked
    BY <1>2, <1>7, <2>1 DEF Standing
  <2>4. op'[t].call # "createExcl" /\ vp'[t] = NoVnode
    BY <1>1, <2>1 DEF Standing, NoOp, Releasing, Held, Fresh
  <2> QED
    BY <1>1, <1>4, <1>8, <2>2, <2>3, <2>4 DEF Standing, Making, Searching, Fresh, Held
<1>15. Knowing(t)'
  BY <1>1, KnowsNothing
<1> QED
  BY <1>6, <1>8, <1>10, <1>11, <1>12, <1>13, <1>14, <1>15 DEF SoloAt, LinksInv

LEMMA InactiveSolo ==
  ASSUME NEW t \in Threads, Alone(t), TypeInv, TypeInv', SoloAt(t), iumfs_inactive(t)
  PROVE  SoloAt(t)'
<1> DEFINE v == Head(todo[t])
<1>1. /\ pc[t] = "inactive" /\ ReleaseDone(t) /\ UNCHANGED <<disk, dir, res, vp>>
      /\ Touched(t) \subseteq Alive /\ pc[t] \in Releasing
  BY DEF iumfs_inactive, At, Releasing
<1>2. v \in Alive
  BY <1>1, HeadListed
<1>3. iumfs_free_node(v)
  BY DEF iumfs_inactive, SoloAt, LinksInv, RootIn
<1> HIDE DEF v
<1>4. CASE Drop(v) /\ UNCHANGED list
  BY <1>1, <1>2, <1>4, DropsSolo DEF v
<1>5. CASE /\ node[v].count = 1 /\ list' = RemoveAt(list, Position(v))
           /\ node' = [node EXCEPT ![v] = NoNode]
  BY <1>1, <1>2, <1>5, FreeSolo DEF v
<1> QED
  BY <1>3, <1>4, <1>5 DEF iumfs_free_node

-----------------------------------------------------------------------------
(***************************************************************************)
(* Every step, and what follows.                                           *)
(***************************************************************************)
LEMMA SoloThreadStep ==
  ASSUME NEW t \in Threads, Alone(t), TypeInv, TypeInv', SoloAt(t),
         Root(t) \/ Chdir(t) \/ Close(t) \/ Leave(t) \/ Call(t) \/ Step(t)
  PROVE  SoloAt(t)'
<1>1. CASE Root(t) \/ Chdir(t) \/ Close(t) \/ Leave(t) \/ Call(t)
  BY <1>1, RootSolo, ChdirSolo, CloseSolo, LeaveSolo, CallSolo
<1>2. CASE Step(t)
  <2>1. CASE iumfs_find_nodeid_by_name(t) \/ iumfs_find_vnode_by_nodeid(t) \/ NotCached(t)
             \/ AskLookup(t)
    BY <2>1, FindSolo, GetSolo, NotCachedSolo, AskLookupSolo
  <2>2. CASE AllocFile(t) \/ AllocNew(t) \/ iumfs_make_directory(t)
    BY <2>2, AllocsSolo
  <2>3. CASE AddDots(t) \/ SetName(t) \/ Link(t) \/ Ref(t)
    BY <2>3, AddDotsSolo, SetNameSolo, LinkSolo, RefSolo
  <2>4. CASE AskCreate(t) \/ AskMkdir(t) \/ AskRemove(t) \/ AskRmdir(t)
    BY <2>4, AskMakeSolo, AskRemoveSolo
  <2>5. CASE iumfs_dir_is_empty(t) \/ GiveUp(t) \/ iumfs_remove_entry_from_dir(t)
    BY <2>5, EmptySolo, GiveUpSolo, UnlinkSolo
  <2>6. CASE iumfs_request_readdir(t) \/ AddListed(t)
    BY <2>6, ListSolo, AddSolo
  <2>7. CASE VN_RELE(t) \/ iumfs_inactive(t)
    BY <2>7, ReleSolo, InactiveSolo
  <2>8. ~AllocFails(t) /\ ~Stray(t)
    BY NothingFails
  <2> QED
    BY <1>2, <2>1, <2>2, <2>3, <2>4, <2>5, <2>6, <2>7, <2>8 DEF Step
<1> QED
  BY <1>1, <1>2

\* The walk of iumfs_unmount changes nothing of it.
LEMMA SoloStands ==
  ASSUME NEW t \in Threads, SoloAt(t), UNCHANGED <<disk, list, node, pc, op, dir, res, vp, todo>>
  PROVE  SoloAt(t)'
<1>1. Alive' = Alive
  BY DEF Alive
<1>2. Linked' = Linked
  BY <1>1 DEF Linked
<1>3. LinksInv(t)'
  BY <1>1, <1>2, DiskSame DEF SoloAt, LinksInv, RootIn, OneVnodePerNumber, OneEntry, EntriesLead, PathsDiffer,
     Maker, Nameless, Leaving, Exists, OnServer
<1>4. \A v : References(v)' = References(v)
  BY DEF References
<1>5. RefsInv(t)'
  BY <1>1, <1>2, <1>4 DEF SoloAt, RefsInv, OwnedWhenLinked, NoneLost, Maker
<1>6. Standing(t)'
  BY <1>1, <1>2 DEF SoloAt, Standing, Maker
<1>7. Knowing(t)'
  BY <1>1, <1>2, DiskSame
  DEF SoloAt, Knowing, KnowsEntry, KnowsServer, KnowsNew, KnowsHeld, Entry, Target, Exists, OnServer
<1> QED
  BY <1>3, <1>5, <1>6, <1>7 DEF SoloAt

\* Every request is answered, so none is executed late.
LEMMA NoneLate ==
  ASSUME Faults = {}, late = {}, [Next]_vars
  PROVE  late' = {} /\ ~LateExecution
<1>1. ~LateExecution
  BY DEF LateExecution
<1>2. ASSUME NEW t \in Threads, AskCreate(t) \/ AskMkdir(t) \/ AskRemove(t) \/ AskRmdir(t)
      PROVE  UNCHANGED late
  BY <1>2, AskAlone DEF AskCreate, AskMkdir, AskRemove, AskRmdir
<1>3. ASSUME NEW t \in Threads, Root(t) \/ Chdir(t) \/ Close(t) \/ Leave(t) \/ Call(t)
      PROVE  UNCHANGED disk
  BY <1>3 DEF Root, Chdir, Close, Leave, Call, Start
<1>4. ASSUME NEW t \in Threads, Step(t),
             ~(AskCreate(t) \/ AskMkdir(t) \/ AskRemove(t) \/ AskRmdir(t))
      PROVE  UNCHANGED disk
  <2>1. CASE \/ iumfs_find_nodeid_by_name(t) \/ iumfs_find_vnode_by_nodeid(t) \/ NotCached(t)
             \/ AskLookup(t) \/ AllocFile(t) \/ AllocNew(t) \/ AllocFails(t)
             \/ iumfs_make_directory(t) \/ AddDots(t) \/ SetName(t)
    BY <2>1 DEF iumfs_find_nodeid_by_name, iumfs_find_vnode_by_nodeid, NotCached, AskLookup,
                AllocFile, AllocNew, AllocFails, iumfs_make_directory, AddDots, SetName
  <2>2. CASE \/ Link(t) \/ Ref(t) \/ iumfs_dir_is_empty(t) \/ GiveUp(t)
             \/ iumfs_remove_entry_from_dir(t) \/ iumfs_request_readdir(t) \/ AddListed(t)
             \/ VN_RELE(t) \/ iumfs_inactive(t) \/ Stray(t)
    BY <2>2 DEF Link, Ref, iumfs_dir_is_empty, GiveUp, iumfs_remove_entry_from_dir,
                iumfs_request_readdir, AddListed, VN_RELE, iumfs_inactive, Stray
  <2> QED
    BY <1>4, <2>1, <2>2 DEF Step
<1>5. ASSUME Unmount \/ UnmountNext \/ UnmountCheck \/ iumfs_free_all_node \/ UnmountStray
      PROVE  UNCHANGED disk
  BY <1>5 DEF Unmount, UnmountNext, UnmountCheck, iumfs_free_all_node, UnmountStray
<1>6. UNCHANGED vars => UNCHANGED late
  BY DEF vars
<1> QED
  BY <1>1, <1>2, <1>3, <1>4, <1>5, <1>6, DiskSame DEF Next

LEMMA SoloStep ==
  ASSUME Solo, TypeInv, SoloInv, [Next]_vars
  PROVE  SoloInv'
<1>1. PICK t : Alone(t)
  BY DEF Solo
<1>2. t \in Threads /\ Threads = {t}
  BY <1>1 DEF Alone
<1>3. TypeInv'
  BY TypeStep
<1>4. late' = {} /\ ~LateExecution
  BY <1>1, NoneLate DEF Alone, SoloInv
<1>5. CASE Root(t) \/ Chdir(t) \/ Close(t) \/ Leave(t) \/ Call(t) \/ Step(t)
  <2>1. mount' = mount
    BY <1>5, ThreadsDoNotUnmount DEF umount
  <2>2. Mounted => SoloAt(t)'
    BY <1>1, <1>2, <1>3, <1>5, SoloThreadStep DEF SoloInv
  <2> QED
    BY <1>2, <1>4, <2>1, <2>2 DEF SoloInv, Mounted
<1>6. CASE Unmount \/ UnmountNext \/ UnmountCheck \/ UNCHANGED vars
  <2>1. /\ Mounted' => Mounted
        /\ UNCHANGED <<disk, list, node, pc, op, dir, res, vp, todo>>
    BY <1>6 DEF Unmount, UnmountNext, UnmountCheck, vars, Mounted, disk, fs, hands
  <2>2. Mounted => SoloAt(t)'
    BY <1>2, <2>1, SoloStands DEF SoloInv
  <2> QED
    BY <1>2, <1>4, <2>1, <2>2 DEF SoloInv
<1>7. CASE iumfs_free_all_node \/ UnmountStray
  BY <1>4, <1>7 DEF iumfs_free_all_node, UnmountStray, SoloInv, Mounted
<1> QED
  BY <1>2, <1>4, <1>5, <1>6, <1>7 DEF Next

LEMMA SoloInit ==
  ASSUME Solo, Init
  PROVE  SoloInv
<1>1. PICK t : Alone(t)
  BY DEF Solo
<1>2. t \in Threads /\ Threads = {t}
  BY <1>1 DEF Alone
<1>3. RootV \in Vnodes /\ Alive = {RootV}
  <2>1. RootV \in Vnodes
    BY NodesAssumption DEF RootV, Vnodes
  <2>2. DOMAIN list = {1} /\ list[1] = RootV
    BY DEF Init
  <2> QED
    BY <2>1, <2>2 DEF Alive
<1>4. /\ pc[t] = "idle" /\ op[t] = NoOp /\ dir[t] = NoVnode /\ res[t] = NoVnode
      /\ vp[t] = NoVnode /\ todo[t] = <<>>
  BY <1>2 DEF Init
<1>5. /\ node[RootV].id = 1 /\ node[RootV].type = "dir" /\ node[RootV].path = RootPath
      /\ node[RootV].count = 1
      /\ \A n \in Names : node[RootV].entries[n] = NoId
  <2>1. node[RootV] = [NewNode("dir", 1) EXCEPT !.entries[".."] = MountedOn]
    BY <1>3 DEF Init
  <2>2. node[RootV].entries = [NoEntries EXCEPT ![".."] = MountedOn]
    BY <2>1 DEF NewNode
  <2>3. \A n \in Names : node[RootV].entries[n] = NoId
    BY <2>2, NodesAssumption DEF NoEntries, Entries
  <2> QED
    BY <2>1, <2>3 DEF NewNode
<1>6. Exists(RootPath)
  <2>1. RootPath \in Paths
    BY RootIsPath
  <2> QED
    BY <2>1 DEF Init, Exists, OnServer
<1>7. \A v : ~Maker(t, v) /\ ~Nameless(t, v)
  BY <1>4 DEF Maker, Nameless, Fresh
<1>8. Linked = {RootV}
  BY <1>3 DEF Linked
<1>9. LinksInv(t)
  <2>1. RootIn(t)
    BY <1>3, <1>5, <1>6, <1>7 DEF RootIn, NoId
  <2> QED
    BY <1>3, <1>5, <1>8, <2>1 DEF LinksInv, OneVnodePerNumber, OneEntry, EntriesLead, PathsDiffer
<1>10. ASSUME NEW v \in Vnodes
       PROVE  References(v) = 0
  <2>1. TypeInv
    BY InitTyped
  <2>2. Mine(t, v) = Has(NoVnode = v) + Has(NoVnode = v) + 0 + InSeq(<<>>, v)
    BY <1>2, <1>4, <2>1, MineIs DEF Held
  <2>3. Has(NoVnode = v) = 0
    BY DEF Has, Vnodes, NoVnode
  <2> QED
    BY <1>1, <1>2, <2>2, <2>3, InNone, RefsAreMine
<1>11. RefsInv(t)
  <2>1. Has(RootV \in Linked \/ Maker(t, RootV)) = 1
    BY <1>8 DEF Has
  <2> QED
    BY <1>3, <1>5, <1>10, <2>1 DEF RefsInv, OwnedWhenLinked, NoneLost
<1>12. Standing(t)
  BY <1>4 DEF Standing, NoOp, Making, Searching, Fresh, Held
<1>13. Knowing(t)
  BY <1>4 DEF Knowing, KnowsEntry, KnowsServer, KnowsNew, KnowsHeld, Held
<1> QED
  BY <1>2, <1>9, <1>11, <1>12, <1>13 DEF Init, SoloInv, SoloAt

LEMMA SoloInvariant ==
  ASSUME Solo
  PROVE  Spec => [](TypeInv /\ SoloInv)
<1>1. Init => TypeInv /\ SoloInv
  BY InitTyped, SoloInit
<1>2. TypeInv /\ SoloInv /\ [Next]_vars => (TypeInv /\ SoloInv)'
  BY TypeStep, SoloStep
<1> QED
  BY <1>1, <1>2, PTL DEF Spec

\* Without other threads and faults, every entry of a directory is there on the server
\* whenever no operation is under way: iumfs_create and iumfs_mkdir enter what the server
\* has made, iumfs_remove and iumfs_rmdir take out what it has removed.
THEOREM EntriesStand == Solo => (Spec => []EntriesExist)
<1>1. SUFFICES ASSUME Solo
               PROVE  Spec => []EntriesExist
  OBVIOUS
<1>2. TypeInv /\ SoloInv => EntriesExist
  <2>1. SUFFICES ASSUME SoloInv, Quiet, NEW v \in Linked, NEW n \in Names,
                        node[v].entries[n] # NoId
                 PROVE  Exists(Append(node[v].path, n))
    BY DEF EntriesExist
  <2>2. PICK t : t \in Threads /\ Alone(t)
    BY <1>1 DEF Solo, Alone
  <2>3. SoloAt(t) /\ pc[t] = "idle"
    BY <2>1, <2>2 DEF SoloInv, Quiet, Mounted
  <2> QED
    BY <2>1, <2>3, LinkedThen DEF SoloAt, LinksInv, EntriesLead, Leaving
<1> QED
  BY <1>1, <1>2, SoloInvariant, PTL

\* And no vnode stays in the list that neither an entry nor the thread leads to:
\* every reference a vnode was allocated with is given back with its entry.
THEOREM NothingLeaks == Solo => (Spec => []NoLeak)
<1>1. SUFFICES ASSUME Solo
               PROVE  Spec => []NoLeak
  OBVIOUS
<1>2. TypeInv /\ SoloInv => NoLeak
  <2>1. SUFFICES ASSUME TypeInv, SoloInv, Quiet, NEW v \in Alive, v \notin Linked
                 PROVE  References(v) > 0
    BY DEF NoLeak
  <2>2. PICK t : t \in Threads /\ Alone(t)
    BY <1>1 DEF Solo, Alone
  <2>3. SoloAt(t) /\ ~Maker(t, v)
    BY <2>1, <2>2 DEF SoloInv, Quiet, Mounted, Maker, Fresh
  <2>4. Mine(t, v) > 0
    BY <2>1, <2>2, <2>3, UnlinkedReferred
  <2> QED
    BY <2>2, <2>4, RefsAreMine
<1> QED
  BY <1>1, <1>2, SoloInvariant, PTL

-----------------------------------------------------------------------------
(***************************************************************************)
(* What else holds for one thread, whatever it makes and removes in turn,  *)
(* as long as the file system stays mounted.                               *)
(***************************************************************************)
Staying == Solo /\ "unmount" \notin Calls

SoloMounted == SoloInv /\ mount = "mounted"

LEMMA StaysMounted ==
  ASSUME Staying
  PROVE  Spec => [](TypeInv /\ SoloMounted)
<1>1. Init => TypeInv /\ SoloMounted
  BY InitTyped, SoloInit DEF SoloMounted, Staying, Init
<1>2. TypeInv /\ SoloMounted /\ [Next]_vars => (TypeInv /\ SoloMounted)'
  <2>1. SUFFICES ASSUME TypeInv, SoloMounted, [Next]_vars
                 PROVE  TypeInv' /\ SoloMounted'
    OBVIOUS
  <2>2. mount = "mounted" /\ SoloInv
    BY <2>1 DEF SoloMounted
  <2>3. ASSUME NEW t \in Threads, Root(t) \/ Chdir(t) \/ Close(t) \/ Leave(t) \/ Call(t) \/ Step(t)
        PROVE  mount' = mount
    BY <2>3, ThreadsDoNotUnmount DEF umount
  <2>4. ~(Unmount \/ UnmountNext \/ UnmountCheck \/ iumfs_free_all_node \/ UnmountStray)
        /\ ~LateExecution
    BY <2>2 DEF Staying, SoloInv, Unmount, UnmountNext, UnmountCheck, iumfs_free_all_node,
                UnmountStray, LateExecution
  <2>5. UNCHANGED vars => mount' = mount
    BY DEF vars
  <2>6. mount' = "mounted"
    BY <2>1, <2>2, <2>3, <2>4, <2>5 DEF Next
  <2>7. TypeInv' /\ SoloInv'
    BY <2>1, <2>2, TypeStep, SoloStep DEF Staying
  <2> QED
    BY <2>6, <2>7 DEF SoloMounted
<1> QED
  BY <1>1, <1>2, PTL DEF Spec

\* The thread, and that it is in order.
LEMMA StandsAlone ==
  ASSUME Staying, SoloMounted
  PROVE  \E t \in Threads : Alone(t) /\ SoloAt(t)
  BY DEF Staying, Solo, Alone, SoloMounted, SoloInv, Mounted

\* v_count is the number of references, and one as long as the vnode has its entry:
\* iumfs_remove and iumfs_rmdir give back no more and no less than was taken.
THEOREM CountsExactAlone == Staying => (Spec => []CountIsExact)
<1>1. SUFFICES ASSUME Staying
               PROVE  Spec => []CountIsExact
  OBVIOUS
<1>2. TypeInv /\ SoloMounted => CountIsExact
  <2>1. SUFFICES ASSUME TypeInv, SoloMounted, NEW v \in Alive
                 PROVE  node[v].count - References(v) \in {0, 1}
    BY DEF CountIsExact
  <2>2. PICK t \in Threads : Alone(t) /\ SoloAt(t)
    BY <1>1, <2>1, StandsAlone
  <2> DEFINE a == Has(v \in Linked \/ Maker(t, v))
  <2>3. node[v].count = References(v) + a /\ a \in {0, 1} /\ References(v) \in Nat
    BY <2>2, RefsAreMine DEF SoloAt, RefsInv, OwnedWhenLinked, Has
  <2> HIDE DEF a
  <2> QED
    BY <2>3
<1> QED
  BY <1>1, <1>2, StaysMounted, PTL
=============================================================================
