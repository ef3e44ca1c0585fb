------------------------- MODULE IumfsCounts_proofs -------------------------
(***************************************************************************)
(* The reference counts of IumfsNodes are exact, and no vnode is freed     *)
(* while somebody refers to it, for any threads, names and servers, as     *)
(* long as a vnode's own reference is given back once (OnceGivenBack).     *)
(*                                                                         *)
(* That is so when nothing is removed; and when nothing is made, because   *)
(* then a request to remove a path succeeds once at most.  An exclusive    *)
(* create gives back the reference of a vnode it has not removed, and is   *)
(* left out.  iumfs_unmount gives back that of every vnode in the end;     *)
(* until it begins to, the invariant holds beside it too (CountStep).      *)
(*                                                                         *)
(* A further section uses the same facts about paths for another property: *)
(* what rmdir takes out of the tree is empty, if nobody makes directories. *)
(* The last one is about the numbers of the vnodes and what the entries    *)
(* lead to (Plain).                                                        *)
(***************************************************************************)
EXTENDS IumfsNodes_proofs

OwnGivenOnce ==
  /\ "createExcl" \notin Calls
  /\ {"create", "mkdir"} \cap Calls = {} \/ {"remove", "rmdir"} \cap Calls = {}

OnceGivenBack == OwnGivenOnce /\ "unmount" \notin Calls

\* The walk of iumfs_unmount may be under way, but nothing is freed yet.
Mounted == mount \in {"mounted", "checking"}

\* The reference that v was allocated with is still there.
Owned(v) == node[v].count = References(v) + 1

\* Nobody refers to a freed vnode.
NoneLost == \A v \in Vnodes \ Alive : References(v) = 0

\* The root keeps its reference and its number, so no operation on a name finds it.
RootStays ==
  /\ RootV \in Alive /\ Owned(RootV)
  /\ node[RootV].id = 1
  /\ \A v \in Alive : node[v].id = 1 => v = RootV
  /\ \A v \in Vnodes, n \in Names : node[v].entries[n] # 1
  /\ \A t \in Threads : op[t].name \in Names => op[t].found # 1
  /\ \A t \in Threads : pc[t] \in Held \cup Fresh => vp[t] # RootV

\* A new vnode has one maker.
OneMaker ==
  \A s, t \in Threads : pc[s] \in Fresh /\ pc[t] \in Fresh /\ vp[s] = vp[t] => s = t

\* Only what is called is done.
Permitted(l) ==
  /\ l \in {"askCreate", "allocNew"} => "create" \in Calls
  /\ l = "askMkdir" => "mkdir" \in Calls
  /\ l \in {"askRemove", "askRmdir", "empty", "unlink"} => {"remove", "rmdir"} \cap Calls # {}

Called(t) ==
  /\ op[t].call \in Calls \cup {"new", "none"}
  /\ op[t].call = "new" => "create" \in Calls
  /\ Permitted(pc[t])

\* Who looks for a vnode or makes one has none to return yet.
EmptyHanded(t) ==
  /\ pc[t] \in Making \cup {"ref"} => res[t] = NoVnode
  /\ pc[t] \in Searching /\ op[t].call \notin {"remove", "rmdir"} => res[t] = NoVnode

\* What exists on the server hangs together.
Tree ==
  \A p \in Paths : server[p] # "none" =>
    \A k \in 0 .. Len(p) - 1 : server[SubSeq(p, 1, k)] = "dir"

\* Somebody has given the reference of v back, or is about to.
Begun(v) == ~Owned(v) \/ \E t \in Threads : pc[t] = "unlink" /\ vp[t] = v

\* Where nothing is made, what was removed is not there, and is removed once.
Unmade ==
  {"create", "mkdir"} \cap Calls = {} =>
    /\ Tree
    /\ \A v \in Alive : Begun(v) => OnServer(node[v].path) = "none"
    /\ \A t \in Threads : pc[t] = "unlink" => Owned(vp[t])
    /\ \A s, t \in Threads : pc[s] = "unlink" /\ pc[t] = "unlink" /\ vp[s] = vp[t] => s = t
    /\ \A t \in Threads :
         pc[t] \in {"dots", "name"} /\ vp[t] \in Alive => node[vp[t]].path = RootPath

\* Nothing will be made late either.
LateRemoves ==
  {"create", "mkdir"} \cap Calls = {} => \A r \in late : r.kind \in {"remove", "rmdir"}

\* Where nothing is removed, only the maker of a vnode can give its reference back.
Made ==
  {"remove", "rmdir"} \cap Calls = {} =>
    \A t \in Threads : pc[t] \in {"dots", "name", "link"} /\ op[t].call \in {"new", "mkdir"} =>
      vp[t] \in Alive /\ Owned(vp[t])

CountInv ==
  /\ CountIsExact /\ NoneLost /\ RootStays /\ OneMaker
  /\ \A t \in Threads : Called(t) /\ EmptyHanded(t)
  /\ Mounted
  /\ Unmade /\ LateRemoves /\ Made

-----------------------------------------------------------------------------
(***************************************************************************)
(* Counting references, one thread at a time.                              *)
(***************************************************************************)
Has(b) == IF b THEN 1 ELSE 0

InDir(v)  == {t \in Threads : dir[t] = v}
InRes(v)  == {t \in Threads : res[t] = v}
InVp(v)   == {t \in Threads : vp[t] = v /\ pc[t] \in Held}
InTodo(v) == {x \in Threads \X {1, 2} : x[2] \in DOMAIN todo[x[1]] /\ todo[x[1]][x[2]] = v}

\* The first two members of s that are v.
InSeq(s, v) == Has(1 \in DOMAIN s /\ s[1] = v) + Has(2 \in DOMAIN s /\ s[2] = v)

\* The releases of t that are of v, and all references of t to v.
Todo(t, v) == InSeq(todo[t], v)
Mine(t, v) ==
  Has(dir[t] = v) + Has(res[t] = v) + Has(vp[t] = v /\ pc[t] \in Held) + Todo(t, v)

\* Two sets that differ in one element.
LEMMA OneElement ==
  ASSUME NEW A, NEW B, NEW x, IsFiniteSet(A), A \ {x} = B \ {x}
  PROVE  /\ IsFiniteSet(B) /\ Cardinality(A) \in Nat /\ Cardinality(B) \in Nat
         /\ Cardinality(B) = Cardinality(A) - Has(x \in A) + Has(x \in B)
         /\ Cardinality(A) >= Has(x \in A)
<1> DEFINE C == A \ {x}
<1>1. IsFiniteSet(C) /\ Cardinality(C) \in Nat /\ x \notin C
  BY FS_Subset, FS_CardinalityType
<1> HIDE DEF C
<1>2. IsFiniteSet(C \cup {x}) /\ Cardinality(C \cup {x}) = Cardinality(C) + 1
  BY <1>1, FS_AddElement
<1>3. A = IF x \in A THEN C \cup {x} ELSE C
  BY DEF C
<1>4. B = IF x \in B THEN C \cup {x} ELSE C
  BY DEF C
<1>5. Cardinality(A) = Cardinality(C) + Has(x \in A)
  BY <1>1, <1>2, <1>3 DEF Has
<1>6. Cardinality(B) = Cardinality(C) + Has(x \in B) /\ IsFiniteSet(B)
  BY <1>1, <1>2, <1>4 DEF Has
<1>7. Has(x \in A) \in {0, 1} /\ Has(x \in B) \in {0, 1}
  BY DEF Has
<1> QED
  BY <1>1, <1>5, <1>6, <1>7

\* And in two.
LEMMA TwoElements ==
  ASSUME NEW A, NEW B, NEW x, NEW y, x # y, IsFiniteSet(A), A \ {x, y} = B \ {x, y}
  PROVE  /\ Cardinality(A) \in Nat /\ Cardinality(B) \in Nat
         /\ Cardinality(B) =
              Cardinality(A) - (Has(x \in A) + Has(y \in A)) + (Has(x \in B) + Has(y \in B))
         /\ Cardinality(A) >= Has(x \in A) + Has(y \in A)
<1> DEFINE C == (A \ {x}) \cup (B \cap {x})
<1>1. A \ {x} = C \ {x} /\ C \ {y} = B \ {y} /\ (x \in C <=> x \in B) /\ (y \in C <=> y \in A)
  OBVIOUS
<1> HIDE DEF C
<1>2. /\ IsFiniteSet(C) /\ Cardinality(A) \in Nat /\ Cardinality(C) \in Nat
      /\ Cardinality(C) = Cardinality(A) - Has(x \in A) + Has(x \in C)
  BY <1>1, OneElement
<1>3. /\ Cardinality(B) \in Nat
      /\ Cardinality(B) = Cardinality(C) - Has(y \in C) + Has(y \in B)
  BY <1>1, <1>2, OneElement
<1> DEFINE D == A \ {x}
<1>4. IsFiniteSet(D) /\ Cardinality(D) >= Has(y \in D) /\ Cardinality(D) \in Nat
      /\ Cardinality(D) = Cardinality(A) - Has(x \in A) + Has(x \in D)
  <2>1. A \ {x} = D \ {x}
    OBVIOUS
  <2> HIDE DEF D
  <2>2. IsFiniteSet(D) /\ Cardinality(D) \in Nat
        /\ Cardinality(D) = Cardinality(A) - Has(x \in A) + Has(x \in D)
    BY <2>1, OneElement
  <2>3. Cardinality(D) >= Has(y \in D)
    BY <2>2, OneElement
  <2> QED
    BY <2>2, <2>3
<1>5. /\ Has(x \in D) = 0 /\ Has(y \in D) = Has(y \in A)
      /\ Has(x \in C) = Has(x \in B) /\ Has(y \in C) = Has(y \in A)
  BY <1>1 DEF Has
<1>6. /\ Has(x \in A) \in {0, 1} /\ Has(y \in A) \in {0, 1}
      /\ Has(x \in B) \in {0, 1} /\ Has(y \in B) \in {0, 1}
  BY DEF Has
<1> HIDE DEF D
<1> QED
  BY <1>2, <1>3, <1>4, <1>5, <1>6

\* The sets that References counts are finite.
LEMMA RefsFinite ==
  ASSUME NEW v
  PROVE  IsFiniteSet(InDir(v)) /\ IsFiniteSet(InRes(v)) /\ IsFiniteSet(InVp(v)) /\ IsFiniteSet(InTodo(v))
<1>1. IsFiniteSet(Threads) /\ IsFiniteSet({1, 2})
  <2>1. IsFiniteSet({1}) /\ {1, 2} = {1} \cup {2}
    BY FS_Singleton
  <2> QED
    BY <2>1, FS_AddElement, NodesAssumption
<1>2. IsFiniteSet(Threads \X {1, 2})
  BY <1>1, FS_Product
<1> QED
  BY <1>1, <1>2, FS_Subset DEF InDir, InRes, InVp, InTodo

LEMMA RefsAre ==
  ASSUME NEW v
  PROVE  References(v) = Cardinality(InDir(v)) + Cardinality(InRes(v)) + Cardinality(InVp(v))
                         + Cardinality(InTodo(v))
  BY DEF References, InDir, InRes, InVp, InTodo

\* A step of t changes the references by what it changes of its own.
LEMMA RefsStep ==
  ASSUME NEW t \in Threads, Others(t), NEW v
  PROVE  /\ References(v) \in Nat /\ References(v)' \in Nat
         /\ Mine(t, v) \in Nat /\ Mine(t, v)' \in Nat
         /\ References(v)' = References(v) - Mine(t, v) + Mine(t, v)'
<1> DEFINE D == InDir(v)
           E == InDir(v)'
           R == InRes(v)
           S == InRes(v)'
           V == InVp(v)
           W == InVp(v)'
           X == InTodo(v)
           Y == InTodo(v)'
           x == <<t, 1>>
           y == <<t, 2>>
<1>1. IsFiniteSet(D) /\ IsFiniteSet(R) /\ IsFiniteSet(V) /\ IsFiniteSet(X)
  BY RefsFinite
<1>2. D \ {t} = E \ {t} /\ R \ {t} = S \ {t} /\ V \ {t} = W \ {t}
  BY DEF InDir, InRes, InVp, Others
<1>3. X \ {x, y} = Y \ {x, y}
  <2>1. ASSUME NEW z \in Threads \X {1, 2}, z # x, z # y
        PROVE  z \in X <=> z \in Y
    <3>1. z[1] \in Threads /\ z[1] # t
      BY <2>1
    <3> QED
      BY <3>1 DEF InTodo, Others
  <2> QED
    BY <2>1 DEF InTodo
<1>4. /\ t \in D <=> dir[t] = v
      /\ t \in E <=> dir'[t] = v
      /\ t \in R <=> res[t] = v
      /\ t \in S <=> res'[t] = v
      /\ t \in V <=> vp[t] = v /\ pc[t] \in Held
      /\ t \in W <=> vp'[t] = v /\ pc'[t] \in Held
      /\ x \in X <=> 1 \in DOMAIN todo[t] /\ todo[t][1] = v
      /\ x \in Y <=> 1 \in DOMAIN todo'[t] /\ todo'[t][1] = v
      /\ y \in X <=> 2 \in DOMAIN todo[t] /\ todo[t][2] = v
      /\ y \in Y <=> 2 \in DOMAIN todo'[t] /\ todo'[t][2] = v
      /\ x # y
  BY DEF InDir, InRes, InVp, InTodo
<1>5. /\ References(v) = Cardinality(D) + Cardinality(R) + Cardinality(V) + Cardinality(X)
      /\ References(v)' = Cardinality(E) + Cardinality(S) + Cardinality(W) + Cardinality(Y)
  BY DEF References, InDir, InRes, InVp, InTodo
<1>6. /\ Mine(t, v) = Has(t \in D) + Has(t \in R) + Has(t \in V) + (Has(x \in X) + Has(y \in X))
      /\ Mine(t, v)' = Has(t \in E) + Has(t \in S) + Has(t \in W) + (Has(x \in Y) + Has(y \in Y))
  BY <1>4 DEF Mine, Todo, InSeq, Has
<1> HIDE DEF D, E, R, S, V, W, X, Y, x, y
<1>7. /\ Cardinality(D) \in Nat /\ Cardinality(E) \in Nat
      /\ Cardinality(E) = Cardinality(D) - Has(t \in D) + Has(t \in E)
  BY <1>1, <1>2, OneElement
<1>8. /\ Cardinality(R) \in Nat /\ Cardinality(S) \in Nat
      /\ Cardinality(S) = Cardinality(R) - Has(t \in R) + Has(t \in S)
  BY <1>1, <1>2, OneElement
<1>9. /\ Cardinality(V) \in Nat /\ Cardinality(W) \in Nat
      /\ Cardinality(W) = Cardinality(V) - Has(t \in V) + Has(t \in W)
  BY <1>1, <1>2, OneElement
<1>10. /\ Cardinality(X) \in Nat /\ Cardinality(Y) \in Nat
       /\ Cardinality(Y) =
            Cardinality(X) - (Has(x \in X) + Has(y \in X)) + (Has(x \in Y) + Has(y \in Y))
  BY <1>1, <1>3, <1>4, TwoElements
<1>11. /\ Has(t \in D) \in Nat /\ Has(t \in E) \in Nat /\ Has(t \in R) \in Nat
       /\ Has(t \in S) \in Nat /\ Has(t \in V) \in Nat /\ Has(t \in W) \in Nat
       /\ Has(x \in X) \in Nat /\ Has(y \in X) \in Nat
       /\ Has(x \in Y) \in Nat /\ Has(y \in Y) \in Nat
  BY DEF Has
<1>12. References(v) \in Nat /\ References(v)' \in Nat
  BY <1>5, <1>7, <1>8, <1>9, <1>10
<1>13. Mine(t, v) \in Nat /\ Mine(t, v)' \in Nat
  BY <1>6, <1>11
<1>14. References(v)' = References(v) - Mine(t, v) + Mine(t, v)'
  BY <1>5, <1>6, <1>7, <1>8, <1>9, <1>10, <1>11
<1> QED
  BY <1>12, <1>13, <1>14

\* The references of a thread are among all references.
LEMMA RefsCountMine ==
  ASSUME NEW t \in Threads, NEW v
  PROVE  References(v) \in Nat /\ Mine(t, v) \in Nat /\ References(v) >= Mine(t, v)
<1> DEFINE D == InDir(v)
           R == InRes(v)
           V == InVp(v)
           X == InTodo(v)
           x == <<t, 1>>
           y == <<t, 2>>
<1>1. IsFiniteSet(D) /\ IsFiniteSet(R) /\ IsFiniteSet(V) /\ IsFiniteSet(X)
  BY RefsFinite
<1>2. /\ t \in D <=> dir[t] = v
      /\ t \in R <=> res[t] = v
      /\ t \in V <=> vp[t] = v /\ pc[t] \in Held
      /\ x \in X <=> 1 \in DOMAIN todo[t] /\ todo[t][1] = v
      /\ y \in X <=> 2 \in DOMAIN todo[t] /\ todo[t][2] = v
      /\ x # y
  BY DEF InDir, InRes, InVp, InTodo
<1>3. Mine(t, v) = Has(t \in D) + Has(t \in R) + Has(t \in V) + (Has(x \in X) + Has(y \in X))
  BY <1>2 DEF Mine, Todo, InSeq, Has
<1>4. References(v) = Cardinality(D) + Cardinality(R) + Cardinality(V) + Cardinality(X)
  BY RefsAre
<1> HIDE DEF D, R, V, X, x, y
<1>5. /\ Cardinality(D) \in Nat /\ Cardinality(D) >= Has(t \in D)
      /\ Cardinality(R) \in Nat /\ Cardinality(R) >= Has(t \in R)
      /\ Cardinality(V) \in Nat /\ Cardinality(V) >= Has(t \in V)
  BY <1>1, OneElement
<1>6. Cardinality(X) \in Nat /\ Cardinality(X) >= Has(x \in X) + Has(y \in X)
  BY <1>1, <1>2, TwoElements
<1>7. /\ Has(t \in D) \in Nat /\ Has(t \in R) \in Nat /\ Has(t \in V) \in Nat
      /\ Has(x \in X) \in Nat /\ Has(y \in X) \in Nat
  BY DEF Has
<1> QED
  BY <1>3, <1>4, <1>5, <1>6, <1>7


\* What the releases of a thread count.
LEMMA InNone ==
  ASSUME NEW v
  PROVE  InSeq(<<>>, v) = 0
  BY DEF InSeq, Has

LEMMA InOne ==
  ASSUME NEW a, NEW v
  PROVE  InSeq(<<a>>, v) = Has(a = v)
<1>1. 1 \in DOMAIN <<a>> /\ <<a>>[1] = a /\ 2 \notin DOMAIN <<a>>
  OBVIOUS
<1> QED
  BY <1>1 DEF InSeq, Has

LEMMA InTwo ==
  ASSUME NEW a, NEW b, NEW v
  PROVE  InSeq(<<a, b>>, v) = Has(a = v) + Has(b = v)
<1>1. 1 \in DOMAIN <<a, b>> /\ <<a, b>>[1] = a /\ 2 \in DOMAIN <<a, b>> /\ <<a, b>>[2] = b
  OBVIOUS
<1> QED
  BY <1>1 DEF InSeq, Has

LEMMA HeadIsFirst ==
  ASSUME NEW s \in Seq(Vnodes), s # <<>>
  PROVE  Head(s) = s[1]
  OBVIOUS

LEMMA InTail ==
  ASSUME NEW s \in Seq(Vnodes), s # <<>>, Len(s) =< 2, NEW v
  PROVE  /\ InSeq(Tail(s), v) \in Nat
         /\ InSeq(s, v) = Has(Head(s) = v) + InSeq(Tail(s), v)
<1> DEFINE r == Tail(s)
<1>1. Len(s) \in {1, 2} /\ DOMAIN s = 1 .. Len(s) /\ Head(s) = s[1]
  <2>1. Len(s) \in Nat /\ Len(s) # 0 /\ DOMAIN s = 1 .. Len(s)
    BY EmptySeq
  <2> QED
    BY <2>1, HeadIsFirst
<1>2. r \in Seq(Vnodes) /\ Len(r) = Len(s) - 1 /\ DOMAIN r = 1 .. Len(r)
  BY <1>1, HeadTailProperties
<1>3. \A i \in 1 .. Len(r) : r[i] = s[i + 1]
  BY <1>1, HeadTailProperties
<1> HIDE DEF r
<1>4. /\ 1 \in DOMAIN s /\ (2 \in DOMAIN s <=> Len(s) = 2)
      /\ (1 \in DOMAIN r <=> Len(s) = 2) /\ 2 \notin DOMAIN r
      /\ Len(s) = 2 => r[1] = s[2]
  BY <1>1, <1>2, <1>3
<1>5. InSeq(r, v) = Has(2 \in DOMAIN s /\ s[2] = v)
  BY <1>4 DEF InSeq, Has
<1>6. InSeq(s, v) = Has(Head(s) = v) + Has(2 \in DOMAIN s /\ s[2] = v)
  BY <1>1, <1>4 DEF InSeq, Has
<1> QED
  BY <1>5, <1>6 DEF Has, r

\* The vnodes a thread refers to are in the list.
LEMMA ReferredListed ==
  ASSUME TypeInv, NoneLost, NEW t \in Threads
  PROVE  /\ dir[t] # NoVnode => dir[t] \in Alive
         /\ res[t] # NoVnode => res[t] \in Alive
         /\ pc[t] \in Held => vp[t] \in Alive
         /\ \A i \in DOMAIN todo[t] : todo[t][i] \in Alive
<1>1. ASSUME NEW v \in Vnodes, Mine(t, v) > 0
      PROVE  v \in Alive
  <2>1. References(v) \in Nat /\ Mine(t, v) \in Nat /\ References(v) >= Mine(t, v)
    BY RefsCountMine
  <2>2. References(v) # 0
    BY <1>1, <2>1
  <2> QED
    BY <2>2 DEF NoneLost
<1>2. ASSUME NEW v \in Vnodes
      PROVE  /\ Mine(t, v) \in Nat
             /\ dir[t] = v => Mine(t, v) > 0
             /\ res[t] = v => Mine(t, v) > 0
             /\ vp[t] = v /\ pc[t] \in Held => Mine(t, v) > 0
             /\ 1 \in DOMAIN todo[t] /\ todo[t][1] = v => Mine(t, v) > 0
             /\ 2 \in DOMAIN todo[t] /\ todo[t][2] = v => Mine(t, v) > 0
  BY DEF Mine, Todo, InSeq, Has
<1>3. /\ dir[t] \in Vnodes \cup {NoVnode} /\ res[t] \in Vnodes \cup {NoVnode}
      /\ todo[t] \in Seq(Vnodes) /\ Len(todo[t]) =< 2 /\ (pc[t] \in Held => vp[t] \in Vnodes)
  BY DEF TypeInv, HandsTyped, AtWork
<1>4. ASSUME NEW i \in DOMAIN todo[t]
      PROVE  todo[t][i] \in Alive
  <2>1. i \in {1, 2} /\ todo[t][i] \in Vnodes
    BY <1>3
  <2> QED
    BY <1>1, <1>2, <2>1
<1> QED
  BY <1>1, <1>2, <1>3, <1>4

LEMMA ReferredAlive ==
  ASSUME TypeInv, CountInv, NEW t \in Threads
  PROVE  /\ dir[t] # NoVnode => dir[t] \in Alive
         /\ res[t] # NoVnode => res[t] \in Alive
         /\ pc[t] \in Held => vp[t] \in Alive
         /\ \A i \in DOMAIN todo[t] : todo[t][i] \in Alive
  BY ReferredListed DEF CountInv

-----------------------------------------------------------------------------
(***************************************************************************)
(* Steps after which every count still stands where it stood.              *)
(***************************************************************************)
\* t changes its references and the counts alike, and begins nothing that the
\* invariant is about.
Steady(t) ==
  /\ Others(t) /\ UNCHANGED <<list, mount>>
  /\ \A v \in Vnodes :
       /\ node'[v].id = node[v].id
       /\ \A n \in Names : node'[v].entries[n] = node[v].entries[n] \/ node'[v].entries[n] # 1
       /\ node'[v].count + Mine(t, v) = node[v].count + Mine(t, v)'
       /\ v \notin Alive => Mine(t, v)' = Mine(t, v)
  /\ pc'[t] \in Fresh => pc[t] \in Fresh /\ vp'[t] = vp[t]
  /\ pc'[t] \in {"dots", "name", "link"} => pc[t] \in {"dots", "name", "link"} /\ op'[t].call = op[t].call
  /\ pc'[t] \in Held \cup Fresh => vp'[t] # RootV
  /\ op'[t].name \in Names => op'[t].found # 1
  /\ Called(t)' /\ EmptyHanded(t)'

\* Of the requests that nobody waits for any longer, none makes anything.
NoneMadeLate == \A r \in late' \ late : r.kind \in {"remove", "rmdir"}

\* And nothing is removed or named.
Calm(t) ==
  /\ Steady(t)
  /\ \A v \in Vnodes : node'[v].path = node[v].path
  /\ pc'[t] # "unlink"
  /\ pc'[t] \in {"dots", "name"} => pc[t] = "dots" /\ vp'[t] = vp[t]
  /\ {"create", "mkdir"} \cap Calls = {} => UNCHANGED server /\ NoneMadeLate

CountInvButUnmade ==
  /\ CountIsExact /\ NoneLost /\ RootStays /\ OneMaker
  /\ \A t \in Threads : Called(t) /\ EmptyHanded(t)
  /\ Mounted
  /\ Made

LEMMA DiskSame ==
  ASSUME UNCHANGED disk
  PROVE  server' = server /\ late' = late /\ NoneMadeLate
  BY DEF disk, NoneMadeLate

LEMMA LateStays ==
  ASSUME CountInv, {"create", "mkdir"} \cap Calls = {} => NoneMadeLate
  PROVE  LateRemoves'
  BY DEF CountInv, LateRemoves, NoneMadeLate

LEMMA SteadyCounts ==
  ASSUME TypeInv, TypeInv', NEW t \in Threads, Steady(t), NEW v \in Vnodes
  PROVE  /\ node'[v].count - References(v)' = node[v].count - References(v)
         /\ Owned(v)' <=> Owned(v)
         /\ v \notin Alive => References(v)' = References(v)
<1>1. /\ References(v) \in Nat /\ References(v)' \in Nat
      /\ Mine(t, v) \in Nat /\ Mine(t, v)' \in Nat
      /\ References(v)' = References(v) - Mine(t, v) + Mine(t, v)'
  BY RefsStep DEF Steady
<1>2. node[v].count \in Nat /\ node'[v].count \in Nat
  BY NodeTyped DEF TypeInv, StateTyped
<1>3. node'[v].count + Mine(t, v) = node[v].count + Mine(t, v)'
  BY DEF Steady
<1>4. v \notin Alive => Mine(t, v)' = Mine(t, v)
  BY DEF Steady
<1>5. node'[v].count - References(v)' = node[v].count - References(v)
  BY <1>1, <1>2, <1>3
<1>6. v \notin Alive => References(v)' = References(v)
  BY <1>1, <1>4
<1>7. Owned(v)' <=> Owned(v)
  BY <1>1, <1>2, <1>5 DEF Owned
<1> QED
  BY <1>5, <1>6, <1>7

LEMMA SteadyKeeps ==
  ASSUME TypeInv, TypeInv', CountInv, NEW t \in Threads, Steady(t)
  PROVE  CountInvButUnmade'
<1>1. Alive' = Alive /\ Alive \subseteq Vnodes /\ RootV \in Vnodes
  BY AliveTyped, NodesAssumption DEF Steady, Alive, TypeInv, StateTyped, RootV, Vnodes
<1>2. \A v \in Vnodes : /\ node'[v].count - References(v)' = node[v].count - References(v)
                        /\ Owned(v)' <=> Owned(v)
                        /\ v \notin Alive => References(v)' = References(v)
  BY SteadyCounts
<1>3. \A s \in Threads : s # t =>
        pc'[s] = pc[s] /\ op'[s] = op[s] /\ vp'[s] = vp[s] /\ res'[s] = res[s]
  BY DEF Steady, Others
<1>4. CountIsExact' /\ NoneLost'
  BY <1>1, <1>2 DEF CountInv, CountIsExact, NoneLost
<1>5. RootStays'
  <2>1. RootV \in Alive' /\ Owned(RootV)' /\ node'[RootV].id = 1
    BY <1>1, <1>2 DEF CountInv, RootStays, Steady
  <2>2. \A v \in Alive' : node'[v].id = 1 => v = RootV
    BY <1>1 DEF CountInv, RootStays, Steady
  <2>3. \A v \in Vnodes, n \in Names : node'[v].entries[n] # 1
    BY DEF CountInv, RootStays, Steady
  <2>4. \A s \in Threads : op'[s].name \in Names => op'[s].found # 1
    BY <1>3 DEF CountInv, RootStays, Steady
  <2>5. \A s \in Threads : pc'[s] \in Held \cup Fresh => vp'[s] # RootV
    BY <1>3 DEF CountInv, RootStays, Steady
  <2> QED
    BY <2>1, <2>2, <2>3, <2>4, <2>5 DEF RootStays
<1>6. OneMaker'
  <2>1. \A s \in Threads : pc'[s] \in Fresh => pc[s] \in Fresh /\ vp'[s] = vp[s]
    BY <1>3 DEF Steady
  <2> QED
    BY <2>1 DEF CountInv, OneMaker
<1>7. \A s \in Threads : Called(s)' /\ EmptyHanded(s)'
  <2>1. ASSUME NEW s \in Threads, s # t
        PROVE  Called(s)' /\ EmptyHanded(s)'
    BY <1>3, <2>1 DEF CountInv, Called, EmptyHanded
  <2> QED
    BY <2>1 DEF Steady
<1>8. Made'
  <2>1. \A s \in Threads : pc'[s] \in {"dots", "name", "link"} =>
          pc[s] \in {"dots", "name", "link"} /\ op'[s].call = op[s].call /\ vp'[s] = vp[s]
    BY <1>3 DEF Steady, Fresh
  <2> QED
    BY <1>1, <1>2, <2>1 DEF CountInv, Made
<1> QED
  BY <1>4, <1>5, <1>6, <1>7, <1>8 DEF CountInvButUnmade, CountInv, Steady, Mounted

LEMMA CalmKeeps ==
  ASSUME TypeInv, TypeInv', CountInv, NEW t \in Threads, Calm(t)
  PROVE  CountInv'
<1>1. CountInvButUnmade'
  BY SteadyKeeps DEF Calm
<1>2. Alive' = Alive /\ Alive \subseteq Vnodes
  BY AliveTyped DEF Calm, Steady, Alive, TypeInv, StateTyped
<1>3. \A v \in Vnodes : Owned(v)' <=> Owned(v)
  BY SteadyCounts DEF Calm
<1>4. \A s \in Threads : s # t => pc'[s] = pc[s] /\ vp'[s] = vp[s]
  BY DEF Calm, Steady, Others
<1>5. \A s \in Threads :
        /\ pc'[s] = "unlink" => pc[s] = "unlink" /\ vp'[s] = vp[s]
        /\ pc'[s] \in {"dots", "name"} => pc[s] \in {"dots", "name"} /\ vp'[s] = vp[s]
  BY <1>4 DEF Calm
<1>6. ASSUME {"create", "mkdir"} \cap Calls = {}
      PROVE  /\ Tree'
             /\ \A v \in Alive' : Begun(v)' => OnServer(node[v].path)' = "none"
             /\ \A s \in Threads : pc'[s] = "unlink" => Owned(vp[s])'
             /\ \A r, s \in Threads :
                  pc'[r] = "unlink" /\ pc'[s] = "unlink" /\ vp'[r] = vp'[s] => r = s
             /\ \A s \in Threads :
                  pc'[s] \in {"dots", "name"} /\ vp'[s] \in Alive' => node'[vp'[s]].path = RootPath
  <2>1. server' = server /\ Unmade
    BY <1>6 DEF Calm, CountInv
  <2>2. Tree'
    BY <1>6, <2>1 DEF Unmade, Tree
  <2>3. ASSUME NEW v \in Alive', Begun(v)'
        PROVE  OnServer(node[v].path)' = "none"
    <3>1. Begun(v)
      BY <1>2, <1>3, <1>5, <2>3 DEF Begun
    <3>2. node'[v].path = node[v].path /\ OnServer(node[v].path) = "none"
      BY <1>2, <1>6, <2>1, <3>1 DEF Calm, Unmade
    <3> QED
      BY <2>1, <3>2 DEF OnServer
  <2>4. ASSUME NEW s \in Threads, pc'[s] = "unlink"
        PROVE  Owned(vp[s])'
    <3>1. pc[s] = "unlink" /\ vp'[s] = vp[s] /\ Owned(vp[s])
      BY <1>5, <1>6, <2>1, <2>4 DEF Unmade
    <3>2. vp[s] \in Vnodes
      BY <3>1 DEF TypeInv, AtWork, Held
    <3> QED
      BY <1>3, <3>1, <3>2 DEF Owned
  <2>5. \A r, s \in Threads :
          pc'[r] = "unlink" /\ pc'[s] = "unlink" /\ vp'[r] = vp'[s] => r = s
    BY <1>5, <1>6, <2>1 DEF Unmade
  <2>6. ASSUME NEW s \in Threads, pc'[s] \in {"dots", "name"}, vp'[s] \in Alive'
        PROVE  node'[vp'[s]].path = RootPath
    BY <1>2, <1>5, <1>6, <2>1, <2>6 DEF Unmade, Calm
  <2> QED
    BY <2>2, <2>3, <2>4, <2>5, <2>6
<1>7. Unmade'
  BY <1>6 DEF Unmade
<1>8. LateRemoves'
  BY LateStays DEF Calm
<1> QED
  BY <1>1, <1>7, <1>8 DEF CountInv, CountInvButUnmade

\* What the references of a thread are, before a step and after it.
LEMMA MineIs ==
  ASSUME TypeInv, NEW t \in Threads, NEW v
  PROVE  /\ InSeq(todo[t], v) \in Nat
         /\ Mine(t, v) = Has(dir[t] = v) + Has(res[t] = v)
                         + (IF pc[t] \in Held THEN Has(vp[t] = v) ELSE 0) + InSeq(todo[t], v)
         /\ pc[t] \notin Releasing \cup {"wild"} => InSeq(todo[t], v) = 0
<1>1. InSeq(todo[t], v) \in Nat
  BY DEF InSeq, Has
<1>2. pc[t] \notin Releasing \cup {"wild"} => InSeq(todo[t], v) = 0
  BY InNone DEF TypeInv, AtWork
<1>3. Has(vp[t] = v /\ pc[t] \in Held) = IF pc[t] \in Held THEN Has(vp[t] = v) ELSE 0
  BY DEF Has
<1> QED
  BY <1>1, <1>2, <1>3 DEF Mine, Todo

LEMMA MineWillBe ==
  ASSUME TypeInv', NEW t \in Threads, NEW v
  PROVE  /\ InSeq(todo[t], v)' = InSeq(todo'[t], v)
         /\ Mine(t, v)' = Has(dir'[t] = v) + Has(res'[t] = v)
                          + (IF pc'[t] \in Held THEN Has(vp'[t] = v) ELSE 0) + InSeq(todo'[t], v)
<1>1. Has(vp[t] = v /\ pc[t] \in Held)' = IF pc'[t] \in Held THEN Has(vp'[t] = v) ELSE 0
  BY DEF Has
<1>2. /\ InSeq(todo[t], v)' = InSeq(todo'[t], v)
      /\ Has(dir[t] = v)' = Has(dir'[t] = v) /\ Has(res[t] = v)' = Has(res'[t] = v)
  BY DEF InSeq, Has
<1> QED
  BY <1>1, <1>2 DEF Mine, Todo

\* Of a vnode, only the count changes.
Same(w) ==
  /\ node'[w].id = node[w].id /\ node'[w].path = node[w].path
  /\ \A n \in Names : node'[w].entries[n] = node[w].entries[n]

LEMMA HoldCounts ==
  ASSUME TypeInv, NEW v \in Vnodes, VN_HOLD(v)
  PROVE  \A w \in Vnodes : Same(w) /\ node'[w].count = node[w].count + Has(w = v)
<1>1. ASSUME NEW w \in Vnodes
      PROVE  node[w] \in NodeRecords /\ node[w].count \in Nat
  BY NodeTyped DEF TypeInv, StateTyped
<1>2. \A w \in Vnodes : node'[w] = IF w = v THEN [node[w] EXCEPT !.count = @ + 1] ELSE node[w]
  BY DEF VN_HOLD, TypeInv, StateTyped
<1>3. ASSUME NEW w \in Vnodes
      PROVE  Same(w)
  BY <1>1, <1>2 DEF Same, NodeRecords
<1>4. ASSUME NEW w \in Vnodes
      PROVE  node'[w].count = node[w].count + Has(w = v)
  <2>1. node[w] \in NodeRecords /\ node[w].count \in Nat
    BY <1>1
  <2>2. node'[w].count = IF w = v THEN node[w].count + 1 ELSE node[w].count
    BY <1>2, <2>1 DEF NodeRecords
  <2> QED
    BY <2>1, <2>2 DEF Has
<1> QED
  BY <1>3, <1>4

LEMMA DropCounts ==
  ASSUME TypeInv, NEW v \in Vnodes, Drop(v)
  PROVE  \A w \in Vnodes : Same(w) /\ node'[w].count + Has(w = v) = node[w].count
<1>1. ASSUME NEW w \in Vnodes
      PROVE  node[w] \in NodeRecords /\ node[w].count \in Nat
  BY NodeTyped DEF TypeInv, StateTyped
<1>2. \A w \in Vnodes : node'[w] = IF w = v THEN [node[w] EXCEPT !.count = @ - 1] ELSE node[w]
  BY DEF Drop, TypeInv, StateTyped
<1>3. ASSUME NEW w \in Vnodes
      PROVE  Same(w)
  BY <1>1, <1>2 DEF Same, NodeRecords
<1>4. ASSUME NEW w \in Vnodes
      PROVE  node'[w].count + Has(w = v) = node[w].count
  <2>1. node[w] \in NodeRecords /\ node[w].count \in Nat
    BY <1>1
  <2>2. node'[w].count = IF w = v THEN node[w].count - 1 ELSE node[w].count
    BY <1>2, <2>1 DEF NodeRecords
  <2> QED
    BY <2>1, <2>2 DEF Has
<1> QED
  BY <1>3, <1>4

LEMMA NodeSame ==
  ASSUME node' = node
  PROVE  \A w \in Vnodes : Same(w) /\ node'[w].count = node[w].count
  BY DEF Same

\* A step that ends an operation, or a part of the end, is calm.
Ending(t) ==
  /\ Others(t) /\ UNCHANGED <<disk, list, mount>>
  /\ pc'[t] \in {"idle", "wild"} \cup Releasing /\ op'[t] \in {op[t], NoOp}

LEMMA EndsCalmly ==
  ASSUME TypeInv, CountInv, NEW t \in Threads, Ending(t),
         \A v \in Vnodes : /\ Same(v)
                           /\ node'[v].count + Mine(t, v) = node[v].count + Mine(t, v)'
                           /\ v \notin Alive => Mine(t, v)' = Mine(t, v)
  PROVE  Calm(t)
<1>1. op'[t].name \in Names => op'[t].found # 1
  BY NodesAssumption DEF Ending, CountInv, RootStays, NoOp
<1>2. Called(t)' /\ EmptyHanded(t)'
  BY DEF Ending, CountInv, Called, Permitted, EmptyHanded, NoOp, Releasing, Making, Searching
<1>3. Steady(t)
  BY <1>1, <1>2 DEF Ending, Steady, Same, Releasing, Fresh, Held
<1> QED
  BY <1>3, DiskSame DEF Ending, Calm, Same, Releasing

\* A step from one part of an operation to another is steady, and calm unless
\* something is removed.
Going(t, l) ==
  /\ Goto(t, l) /\ UNCHANGED <<list, node, mount, dir, res, todo>>
  /\ \A s \in Threads : s # t => vp'[s] = vp[s]
  /\ l \in Held => vp'[t] = vp[t]
  /\ l \in Held <=> pc[t] \in Held
  /\ l \notin Fresh
  /\ Permitted(l)
  /\ l \in Making => res[t] = NoVnode
  /\ l \in Searching => pc[t] \in Searching

Passing(t, l) ==
  /\ Going(t, l) /\ l # "unlink"
  /\ {"create", "mkdir"} \cap Calls = {} => UNCHANGED disk

LEMMA GoesSteadily ==
  ASSUME TypeInv, TypeInv', CountInv, NEW t \in Threads, NEW l \in Pcs, Going(t, l)
  PROVE  Steady(t) /\ pc'[t] = l
<1>1. /\ pc'[t] = l /\ op'[t] = IF l = "idle" THEN NoOp ELSE op[t]
      /\ \A s \in Threads : s # t => pc'[s] = pc[s] /\ op'[s] = op[s]
  BY GotoMoves DEF Going, TypeInv
<1>2. Others(t)
  BY <1>1 DEF Others, Going
<1>3. op'[t].name \in Names => op'[t].found # 1
  BY <1>1, NodesAssumption DEF CountInv, RootStays, NoOp
<1>4. Called(t)'
  BY <1>1 DEF Going, CountInv, Called, NoOp
<1>5. EmptyHanded(t)'
  BY <1>1 DEF Going, CountInv, EmptyHanded, Fresh, Searching
<1>6. ASSUME NEW v \in Vnodes
      PROVE  Mine(t, v)' = Mine(t, v)
  <2>1. Mine(t, v)' = Has(dir'[t] = v) + Has(res'[t] = v)
                      + (IF pc'[t] \in Held THEN Has(vp'[t] = v) ELSE 0) + InSeq(todo'[t], v)
    BY MineWillBe
  <2>2. Mine(t, v) = Has(dir[t] = v) + Has(res[t] = v)
                     + (IF pc[t] \in Held THEN Has(vp[t] = v) ELSE 0) + InSeq(todo[t], v)
    BY MineIs
  <2>3. /\ dir' = dir /\ res' = res /\ todo' = todo /\ (pc'[t] \in Held <=> pc[t] \in Held)
        /\ pc'[t] \in Held => vp'[t] = vp[t]
    BY <1>1 DEF Going
  <2> QED
    BY <2>1, <2>2, <2>3
<1>7. pc'[t] \in Held => vp'[t] # RootV
  BY <1>1 DEF Going, CountInv, RootStays
<1> QED
  BY <1>1, <1>2, <1>3, <1>4, <1>5, <1>6, <1>7 DEF Steady, Going, Fresh

LEMMA PassesCalmly ==
  ASSUME TypeInv, TypeInv', CountInv, NEW t \in Threads, NEW l \in Pcs, Passing(t, l)
  PROVE  Calm(t)
  BY GoesSteadily, DiskSame DEF Calm, Passing, Going, Fresh

LEMMA ReturnAfterEnds ==
  ASSUME TypeInv, TypeInv', NEW t \in Threads, NEW s, ReturnAfter(t, s),
         \A r \in Threads : r # t => res'[r] = res[r] /\ dir'[r] = dir[r],
         UNCHANGED <<disk, list, mount>>
  PROVE  /\ Ending(t)
         /\ \A v : Mine(t, v)' = Has(dir'[t] = v) + Has(res'[t] = v) + InSeq(s, v)
<1>1. HandsTyped /\ "rele" \in Pcs /\ Goto(t, "rele")
  BY DEF TypeInv, Pcs, ReturnAfter
<1>2. /\ pc'[t] = "rele" /\ op'[t] = op[t]
      /\ \A r \in Threads : r # t => pc'[r] = pc[r] /\ op'[r] = op[r]
  BY <1>1, GotoMoves
<1>3. /\ todo'[t] = s
      /\ \A r \in Threads : r # t => todo'[r] = todo[r] /\ vp'[r] = vp[r]
  BY <1>1 DEF ReturnAfter, HandsTyped
<1>4. Ending(t)
  BY <1>2, <1>3 DEF Ending, Others, Releasing
<1>5. ASSUME NEW v
      PROVE  Mine(t, v)' = Has(dir'[t] = v) + Has(res'[t] = v) + InSeq(s, v)
  BY <1>2, <1>3, MineWillBe DEF Has, Held
<1> QED
  BY <1>4, <1>5

LEMMA RootCalm ==
  ASSUME TypeInv, TypeInv', CountInv, NEW t \in Threads, Root(t)
  PROVE  Calm(t)
<1>1. /\ pc[t] = "idle" /\ dir[t] = NoVnode /\ VN_HOLD(RootV) /\ dir'[t] = RootV
      /\ \A r \in Threads : r # t => dir'[r] = dir[r]
      /\ UNCHANGED <<disk, list, mount, pc, op, res, vp, todo>>
      /\ RootV \in Vnodes /\ RootV \in Alive
  BY NodesAssumption DEF Root, TypeInv, HandsTyped, umount, RootV, Vnodes
<1>2. Ending(t)
  BY <1>1 DEF Ending, Others
<1>3. ASSUME NEW v \in Vnodes
      PROVE  /\ Same(v)
             /\ node'[v].count + Mine(t, v) = node[v].count + Mine(t, v)'
             /\ v \notin Alive => Mine(t, v)' = Mine(t, v)
  <2> DEFINE d == Has(v = RootV)
  <2>1. Same(v) /\ node'[v].count = node[v].count + d /\ node[v].count \in Nat
    <3>1. \A w \in Vnodes : Same(w) /\ node'[w].count = node[w].count + Has(w = RootV)
      BY <1>1, HoldCounts
    <3>2. node[v] \in NodeRecords
      BY DEF TypeInv, StateTyped
    <3> QED
      BY <3>1, <3>2, NodeTyped
  <2>2. /\ Mine(t, v) = Has(dir[t] = v) + Has(res[t] = v) + InSeq(todo[t], v)
        /\ InSeq(todo[t], v) \in Nat
    BY <1>1, MineIs DEF Has, Held
  <2>3. Mine(t, v)' = Has(dir'[t] = v) + Has(res[t] = v) + InSeq(todo[t], v)
    BY <1>1, <2>2, MineWillBe DEF Has, Held
  <2>4. Has(dir[t] = v) = 0 /\ Has(dir'[t] = v) = Has(v = RootV) /\ Has(v = RootV) \in Nat
        /\ (v \notin Alive => Has(v = RootV) = 0) /\ Has(res[t] = v) \in Nat
    BY <1>1 DEF Has, Vnodes, NoVnode
  <2>5. Mine(t, v)' = Mine(t, v) + Has(v = RootV)
    BY <2>2, <2>3, <2>4
  <2>6. Mine(t, v) \in Nat
    BY <2>2, <2>4
  <2> QED
    BY <2>1, <2>4, <2>5, <2>6
<1> QED
  BY <1>2, <1>3, EndsCalmly

\* Nothing is referred to less or more.
LEMMA EndsEven ==
  ASSUME TypeInv, TypeInv', CountInv, NEW t \in Threads, Ending(t), node' = node,
         \A v \in Vnodes : Mine(t, v)' = Mine(t, v)
  PROVE  Calm(t)
  BY NodeSame, EndsCalmly

LEMMA ChdirCalm ==
  ASSUME TypeInv, TypeInv', CountInv, NEW t \in Threads, Chdir(t)
  PROVE  Calm(t)
<1>1. /\ pc[t] = "idle" /\ ReturnAfter(t, <<dir[t]>>) /\ dir'[t] = res[t] /\ res'[t] = NoVnode
      /\ \A r \in Threads : r # t => res'[r] = res[r] /\ dir'[r] = dir[r]
      /\ UNCHANGED <<disk, list, mount, node>>
  BY DEF Chdir, At, TypeInv, HandsTyped, umount, fs
<1>2. /\ Ending(t)
      /\ \A v : Mine(t, v)' = Has(dir'[t] = v) + Has(res'[t] = v) + InSeq(<<dir[t]>>, v)
  BY <1>1, ReturnAfterEnds
<1>3. ASSUME NEW v \in Vnodes
      PROVE  Mine(t, v)' = Mine(t, v)
  <2>1. Mine(t, v) = Has(dir[t] = v) + Has(res[t] = v)
    BY <1>1, MineIs DEF Has, Held, Releasing
  <2>2. Mine(t, v)' = Has(res[t] = v) + Has(NoVnode = v) + Has(dir[t] = v)
    BY <1>1, <1>2, InOne
  <2>3. Has(NoVnode = v) = 0
    BY DEF Has, Vnodes, NoVnode
  <2> QED
    BY <2>1, <2>2, <2>3 DEF Has
<1> QED
  BY <1>1, <1>2, <1>3, EndsEven

LEMMA CloseCalm ==
  ASSUME TypeInv, TypeInv', CountInv, NEW t \in Threads, Close(t)
  PROVE  Calm(t)
<1>1. /\ pc[t] = "idle" /\ ReturnAfter(t, <<res[t]>>) /\ dir' = dir /\ res'[t] = NoVnode
      /\ \A r \in Threads : r # t => res'[r] = res[r] /\ dir'[r] = dir[r]
      /\ UNCHANGED <<disk, list, mount, node>>
  BY DEF Close, TypeInv, HandsTyped, umount, fs
<1>2. /\ Ending(t)
      /\ \A v : Mine(t, v)' = Has(dir'[t] = v) + Has(res'[t] = v) + InSeq(<<res[t]>>, v)
  BY <1>1, ReturnAfterEnds
<1>3. ASSUME NEW v \in Vnodes
      PROVE  Mine(t, v)' = Mine(t, v)
  <2>1. Mine(t, v) = Has(dir[t] = v) + Has(res[t] = v)
    BY <1>1, MineIs DEF Has, Held, Releasing
  <2>2. Mine(t, v)' = Has(dir[t] = v) + Has(NoVnode = v) + Has(res[t] = v)
    BY <1>1, <1>2, InOne
  <2>3. Has(NoVnode = v) = 0
    BY DEF Has, Vnodes, NoVnode
  <2> QED
    BY <2>1, <2>2, <2>3 DEF Has
<1> QED
  BY <1>1, <1>2, <1>3, EndsEven

LEMMA LeaveCalm ==
  ASSUME TypeInv, TypeInv', CountInv, NEW t \in Threads, Leave(t)
  PROVE  Calm(t)
<1>1. /\ pc[t] = "idle" /\ ReturnAfter(t, <<dir[t]>>) /\ res' = res /\ dir'[t] = NoVnode
      /\ \A r \in Threads : r # t => res'[r] = res[r] /\ dir'[r] = dir[r]
      /\ UNCHANGED <<disk, list, mount, node>>
  BY DEF Leave, TypeInv, HandsTyped, umount, fs
<1>2. /\ Ending(t)
      /\ \A v : Mine(t, v)' = Has(dir'[t] = v) + Has(res'[t] = v) + InSeq(<<dir[t]>>, v)
  BY <1>1, ReturnAfterEnds
<1>3. ASSUME NEW v \in Vnodes
      PROVE  Mine(t, v)' = Mine(t, v)
  <2>1. Mine(t, v) = Has(dir[t] = v) + Has(res[t] = v)
    BY <1>1, MineIs DEF Has, Held, Releasing
  <2>2. Mine(t, v)' = Has(NoVnode = v) + Has(res[t] = v) + Has(dir[t] = v)
    BY <1>1, <1>2, InOne
  <2>3. Has(NoVnode = v) = 0
    BY DEF Has, Vnodes, NoVnode
  <2> QED
    BY <2>1, <2>2, <2>3 DEF Has
<1> QED
  BY <1>1, <1>2, <1>3, EndsEven

\* remove and rmdir give up.
LEMMA GiveUpCalm ==
  ASSUME TypeInv, TypeInv', CountInv, NEW t \in Threads, GiveUp(t)
  PROVE  Calm(t)
<1>1. /\ pc[t] = "giveUp" /\ ReturnAfter(t, <<vp[t]>>) /\ res' = res /\ dir' = dir
      /\ UNCHANGED <<disk, list, mount, node>>
  BY DEF GiveUp, At, umount, fs
<1>2. /\ Ending(t)
      /\ \A v : Mine(t, v)' = Has(dir'[t] = v) + Has(res'[t] = v) + InSeq(<<vp[t]>>, v)
  BY <1>1, ReturnAfterEnds
<1>3. ASSUME NEW v \in Vnodes
      PROVE  Mine(t, v)' = Mine(t, v)
  <2>1. Mine(t, v) = Has(dir[t] = v) + Has(res[t] = v) + Has(vp[t] = v)
    BY <1>1, MineIs DEF Has, Held, Releasing
  <2>2. Mine(t, v)' = Has(dir[t] = v) + Has(res[t] = v) + Has(vp[t] = v)
    BY <1>1, <1>2, InOne
  <2> QED
    BY <2>1, <2>2
<1> QED
  BY <1>1, <1>2, <1>3, EndsEven

\* Nothing a thread holds has been freed, so only one that holds no vnode strays.
LEMMA StrayCalm ==
  ASSUME TypeInv, TypeInv', CountInv, NEW t \in Threads, Stray(t)
  PROVE  Calm(t)
<1>1. /\ ~(Touched(t) \subseteq Alive) /\ Goto(t, "wild") /\ "wild" \in Pcs
      /\ UNCHANGED <<disk, list, node, mount, dir, res, vp, todo>>
  BY DEF Stray, fs, umount, hands, Pcs
<1>2. pc[t] \notin Held
  BY <1>1, ReferredAlive DEF Touched
<1>3. Passing(t, "wild")
  BY <1>1, <1>2 DEF Passing, Going, Held, Fresh, Permitted, Making, Searching
<1> QED
  BY <1>1, <1>3, PassesCalmly

-----------------------------------------------------------------------------
(***************************************************************************)
(* The searches and what they lead to.                                     *)
(***************************************************************************)
LEMMA StartCalm ==
  ASSUME TypeInv, TypeInv', CountInv, NEW t \in Threads, NEW c \in AllCalls \ {"unmount"}, NEW n,
         Start(t, c, n)
  PROVE  Calm(t)
<1> DEFINE l == CASE c = "mkdir" -> "askMkdir" [] c = "readdir" -> "list" [] OTHER -> "find"
           o == [NoOp EXCEPT !.call = c, !.name = n]
<1>1. /\ pc[t] = "idle" /\ c \in Calls /\ Go(t, l, o)
      /\ c \notin {"remove", "rmdir", "readdir"} => res[t] = NoVnode
      /\ UNCHANGED <<disk, list, mount, node, dir, res, vp, todo>>
  BY DEF Start, At, hands, umount, fs
<1>2. /\ l \in {"askMkdir", "list", "find"} /\ (l = "askMkdir" => c = "mkdir")
      /\ (l = "find" => c \notin {"mkdir", "readdir"})
  OBVIOUS
<1>3. o.call = c /\ o.found = NoId
  BY DEF NoOp
<1>4. /\ pc'[t] = l /\ op'[t] = o
      /\ \A s \in Threads : s # t => pc'[s] = pc[s] /\ op'[s] = op[s]
  BY <1>1 DEF Go, TypeInv, HandsTyped
<1> HIDE DEF l, o
<1>5. Others(t)
  BY <1>1, <1>4 DEF Others
<1>6. Called(t)' /\ EmptyHanded(t)'
  BY <1>1, <1>2, <1>3, <1>4 DEF Called, Permitted, EmptyHanded, Making, Searching, AllCalls
<1>7. ASSUME NEW v \in Vnodes
      PROVE  Mine(t, v)' = Mine(t, v)
  <2>1. Mine(t, v) = Has(dir[t] = v) + Has(res[t] = v) + 0 + InSeq(todo[t], v)
    BY <1>1, MineIs DEF Held
  <2>2. Mine(t, v)' = Has(dir[t] = v) + Has(res[t] = v) + 0 + InSeq(todo[t], v)
    BY <1>1, <1>2, <1>4, MineWillBe DEF Held
  <2> QED
    BY <2>1, <2>2
<1>8. Steady(t)
  BY <1>1, <1>2, <1>3, <1>4, <1>5, <1>6, <1>7 DEF Steady, Fresh, Held, NoId
<1> QED
  BY <1>1, <1>2, <1>4, <1>8, DiskSame DEF Calm

LEMMA CallCalm ==
  ASSUME TypeInv, TypeInv', CountInv, NEW t \in Threads, Call(t)
  PROVE  Calm(t)
  BY StartCalm DEF Call, AllCalls

LEMMA FindCalm ==
  ASSUME TypeInv, TypeInv', CountInv, NEW t \in Threads, iumfs_find_nodeid_by_name(t)
  PROVE  Calm(t)
<1> DEFINE id == node[dir[t]].entries[op[t].name]
           l == IF id = NoId THEN "noent" ELSE "get"
           o == [op[t] EXCEPT !.found = id]
<1>1. /\ pc[t] = "find" /\ Go(t, l, o) /\ l \in {"noent", "get"}
      /\ UNCHANGED <<disk, list, mount, node, dir, res, vp, todo>>
  BY DEF iumfs_find_nodeid_by_name, At, hands, umount, fs
<1>2. dir[t] \in Vnodes /\ op[t] \in Operation
  BY <1>1 DEF TypeInv, AtWork, HandsTyped, Releasing
<1>3. o.call = op[t].call /\ o.name = op[t].name /\ o.found = id
  BY <1>2 DEF Operation
<1>4. op[t].name \in Names => id # 1
  BY <1>2 DEF CountInv, RootStays
<1>5. /\ pc'[t] = l /\ op'[t] = o
      /\ \A s \in Threads : s # t => pc'[s] = pc[s] /\ op'[s] = op[s]
  BY <1>1 DEF Go, TypeInv, HandsTyped
<1> HIDE DEF id, l, o
<1>6. Others(t)
  BY <1>1, <1>5 DEF Others
<1>7. Called(t)' /\ EmptyHanded(t)'
  BY <1>1, <1>3, <1>5 DEF CountInv, Called, Permitted, EmptyHanded, Making, Searching
<1>8. ASSUME NEW v \in Vnodes
      PROVE  Mine(t, v)' = Mine(t, v)
  <2>1. Mine(t, v) = Has(dir[t] = v) + Has(res[t] = v) + 0 + InSeq(todo[t], v)
    BY <1>1, MineIs DEF Held
  <2>2. Mine(t, v)' = Has(dir[t] = v) + Has(res[t] = v) + 0 + InSeq(todo[t], v)
    BY <1>1, <1>5, MineWillBe DEF Held
  <2> QED
    BY <2>1, <2>2
<1>9. Steady(t)
  BY <1>1, <1>3, <1>4, <1>5, <1>6, <1>7, <1>8 DEF Steady, Fresh, Held
<1> QED
  BY <1>1, <1>5, <1>9, DiskSame DEF Calm

\* An operation ends with a vnode that is held for the caller.
LEMMA ReturnsCalmly ==
  ASSUME TypeInv, TypeInv', CountInv, NEW t \in Threads, NEW v \in Alive,
         VN_HOLD(v), Return(t, v), pc[t] \notin Held \cup Releasing \cup {"wild"},
         res[t] = NoVnode, UNCHANGED <<disk, list, mount, dir, todo>>
  PROVE  Calm(t)
<1>1. HandsTyped /\ "idle" \in Pcs /\ Goto(t, "idle") /\ v \in Vnodes
  BY AliveTyped DEF TypeInv, StateTyped, Pcs, Return
<1>2. /\ pc'[t] = "idle" /\ op'[t] = NoOp
      /\ \A s \in Threads : s # t => pc'[s] = pc[s] /\ op'[s] = op[s]
  BY <1>1, GotoMoves
<1>3. /\ res'[t] = v
      /\ \A s \in Threads : s # t => res'[s] = res[s] /\ vp'[s] = vp[s]
  BY <1>1 DEF Return, HandsTyped
<1>4. Ending(t)
  BY <1>2, <1>3 DEF Ending, Others
<1>5. /\ \A w \in Vnodes : Same(w) /\ node'[w].count = node[w].count + Has(w = v)
      /\ \A w \in Vnodes : node[w].count \in Nat
  BY <1>1, HoldCounts, NodeTyped DEF TypeInv, StateTyped
<1>6. ASSUME NEW w \in Vnodes
      PROVE  Mine(t, w)' = Mine(t, w) + Has(w = v) /\ Mine(t, w) \in Nat
  <2>1. Mine(t, w) = Has(dir[t] = w) + Has(res[t] = w) + 0 + InSeq(todo[t], w)
    BY MineIs
  <2>2. Mine(t, w)' = Has(dir[t] = w) + Has(v = w) + 0 + InSeq(todo[t], w)
    BY <1>2, <1>3, MineWillBe DEF Held
  <2>3. InSeq(todo[t], w) = 0
    BY MineIs
  <2>4. Has(res[t] = w) = 0
    BY DEF Has, Vnodes, NoVnode
  <2> QED
    BY <2>1, <2>2, <2>3, <2>4 DEF Has
<1>7. ASSUME NEW w \in Vnodes
      PROVE  /\ Same(w)
             /\ node'[w].count + Mine(t, w) = node[w].count + Mine(t, w)'
             /\ w \notin Alive => Mine(t, w)' = Mine(t, w)
  BY <1>5, <1>6 DEF Has
<1> QED
  BY <1>4, <1>7, EndsCalmly

LEMMA GetCalm ==
  ASSUME OwnGivenOnce, TypeInv, TypeInv', CountInv, NEW t \in Threads,
         iumfs_find_vnode_by_nodeid(t)
  PROVE  Calm(t)
<1>1. /\ pc[t] = "get" /\ UNCHANGED <<disk, list, mount, dir>>
      /\ \/ Goto(t, "noent") /\ UNCHANGED <<node, res, vp, todo>>
         \/ Found(t) \in Alive /\ node[Found(t)].id = op[t].found /\ Taken(t, Found(t))
  BY Takes DEF umount
<1>2. /\ HandsTyped /\ Asking(t) /\ Called(t) /\ EmptyHanded(t)
      /\ {"noent", "idle", "askRemove", "empty", "giveUp"} \subseteq Pcs
  BY DEF TypeInv, CountInv, Pcs
<1>3. CASE Goto(t, "noent") /\ UNCHANGED <<node, res, vp, todo>>
  <2>1. Passing(t, "noent")
    BY <1>1, <1>3 DEF Passing, Going, Held, Fresh, Permitted, Making, Searching
  <2> QED
    BY <1>2, <2>1, PassesCalmly
<1>4. ASSUME NEW v \in Alive, node[v].id = op[t].found, Taken(t, v)
      PROVE  Calm(t)
  <2>1. v \in Vnodes
    BY AliveTyped DEF TypeInv, StateTyped
  <2>2. /\ \A w \in Vnodes : Same(w) /\ node'[w].count = node[w].count + Has(w = v)
        /\ \A w \in Vnodes : node[w].count \in Nat
    <3>1. VN_HOLD(v)
      BY <1>4 DEF Taken
    <3> QED
      BY <2>1, <3>1, HoldCounts, NodeTyped DEF TypeInv, StateTyped
  <2>3. \A w : Mine(t, w) = Has(dir[t] = w) + Has(res[t] = w) + 0 + 0
    BY <1>1, MineIs DEF Held, Releasing
  <2>4. CASE Return(t, v) /\ UNCHANGED todo /\ op[t].call \in {"lookup", "dotdot", "create"}
    <3>1. res[t] = NoVnode
      BY <1>1, <1>2, <2>4 DEF EmptyHanded, Searching
    <3>2. VN_HOLD(v)
      BY <1>4 DEF Taken
    <3> QED
      BY <1>1, <2>4, <3>1, <3>2, ReturnsCalmly DEF Held, Releasing
  <2>5. CASE ReturnAfter(t, <<v, v>>) /\ UNCHANGED res /\ op[t].call = "createExcl"
    BY <1>2, <2>5 DEF Called, OwnGivenOnce
  <2>6. ASSUME NEW l \in {"askRemove", "empty", "giveUp"}, Goto(t, l),
               vp' = [vp EXCEPT ![t] = v], UNCHANGED <<res, todo>>,
               op[t].call \in {"remove", "rmdir"}
        PROVE  Calm(t)
    <3>1. /\ pc'[t] = l /\ op'[t] = op[t]
          /\ \A s \in Threads : s # t => pc'[s] = pc[s] /\ op'[s] = op[s]
      BY <1>2, <2>6, GotoMoves
    <3>2. vp'[t] = v /\ \A s \in Threads : s # t => vp'[s] = vp[s]
      BY <1>2, <2>6 DEF HandsTyped
    <3>3. Others(t)
      BY <1>1, <2>6, <3>1, <3>2 DEF Others
    <3>4. Called(t)' /\ EmptyHanded(t)'
      BY <1>2, <2>6, <3>1 DEF Called, Permitted, EmptyHanded, Making, Searching
    <3>5. ASSUME NEW w \in Vnodes
          PROVE  Mine(t, w)' = Mine(t, w) + Has(w = v)
      <4>1. Mine(t, w)' = Has(dir[t] = w) + Has(res[t] = w) + Has(v = w) + InSeq(todo[t], w)
        BY <1>1, <2>6, <3>1, <3>2, MineWillBe DEF Held
      <4>2. InSeq(todo[t], w) = 0
        BY <1>1, MineIs DEF Releasing
      <4> QED
        BY <2>3, <4>1, <4>2 DEF Has
    <3>6. ASSUME NEW w \in Vnodes
          PROVE  /\ node'[w].count + Mine(t, w) = node[w].count + Mine(t, w)'
                 /\ w \notin Alive => Mine(t, w)' = Mine(t, w)
      <4>1. Mine(t, w) \in Nat
        BY <2>3 DEF Has
      <4> QED
        BY <1>4, <2>2, <3>5, <4>1 DEF Has
    <3>7. v # RootV
      <4>1. op[t].name \in Names
        BY <1>2, <2>6 DEF Asking
      <4> QED
        BY <1>4, <4>1 DEF CountInv, RootStays
    <3>8. op'[t].name \in Names => op'[t].found # 1
      BY <3>1 DEF CountInv, RootStays
    <3>9. Steady(t)
      BY <1>1, <2>2, <3>1, <3>2, <3>3, <3>4, <3>6, <3>7, <3>8 DEF Steady, Same, Fresh, Held
    <3> QED
      BY <1>1, <2>2, <3>1, <3>9, DiskSame DEF Calm, Same
  <2> QED
    BY <1>4, <2>4, <2>5, <2>6 DEF Taken
<1> QED
  BY <1>1, <1>3, <1>4

LEMMA NotCachedCalm ==
  ASSUME TypeInv, TypeInv', CountInv, NEW t \in Threads, NotCached(t)
  PROVE  Calm(t)
<1>1. /\ pc[t] = "noent" /\ UNCHANGED <<disk, list, node, mount, dir, res, vp, todo>>
      /\ EmptyHanded(t) /\ {"askLookup", "idle"} \subseteq Pcs
  BY DEF NotCached, At, fs, umount, hands, CountInv, Pcs
<1>2. ASSUME NEW l \in {"askLookup", "idle"}, Goto(t, l),
             l = "askLookup" => op[t].call \in {"lookup", "create", "createExcl"}
      PROVE  Calm(t)
  <2>1. Passing(t, l)
    BY <1>1, <1>2 DEF Passing, Going, EmptyHanded, Held, Fresh, Permitted, Making, Searching
  <2> QED
    BY <1>1, <2>1, PassesCalmly
<1> QED
  BY <1>2 DEF NotCached

\* A lookup fails; create goes on.
LEMMA FailsCalmly ==
  ASSUME OwnGivenOnce, TypeInv, TypeInv', CountInv, NEW t \in Threads,
         pc[t] \in {"askLookup", "allocFile", "allocDir", "link"}, Goto(t, LookupFailed(t)),
         UNCHANGED <<disk, list, node, mount, dir, res, todo>>,
         \A s \in Threads : s # t => vp'[s] = vp[s]
  PROVE  Calm(t)
<1>1. Called(t) /\ EmptyHanded(t)
  BY DEF CountInv
<1>2. LookupFailed(t) \in {"idle", "askCreate"} /\ Permitted(LookupFailed(t))
  BY <1>1 DEF LookupFailed, Permitted, Called, OwnGivenOnce
<1>3. Passing(t, LookupFailed(t)) /\ LookupFailed(t) \in Pcs
  BY <1>1, <1>2 DEF Passing, Going, EmptyHanded, Held, Fresh, Making, Searching, Pcs
<1> QED
  BY <1>3, PassesCalmly

LEMMA AskLookupCalm ==
  ASSUME OwnGivenOnce, TypeInv, TypeInv', CountInv, NEW t \in Threads, AskLookup(t)
  PROVE  Calm(t)
<1>1. /\ pc[t] = "askLookup" /\ UNCHANGED <<disk, list, node, mount, dir, res, vp, todo>>
      /\ EmptyHanded(t) /\ {"allocDir", "allocFile"} \subseteq Pcs
  BY DEF AskLookup, At, fs, umount, hands, CountInv, Pcs
<1>2. ASSUME NEW l \in {"allocDir", "allocFile"}, Goto(t, l)
      PROVE  Calm(t)
  <2>1. Passing(t, l)
    BY <1>1, <1>2 DEF Passing, Going, EmptyHanded, Held, Fresh, Permitted, Making, Searching
  <2> QED
    BY <1>1, <2>1, PassesCalmly
<1> QED
  BY <1>1, <1>2, FailsCalmly DEF AskLookup

LEMMA AllocFailsCalm ==
  ASSUME OwnGivenOnce, TypeInv, TypeInv', CountInv, NEW t \in Threads, AllocFails(t)
  PROVE  Calm(t)
<1>1. /\ UNCHANGED <<disk, list, node, mount, dir, res, vp, todo>>
      /\ EmptyHanded(t) /\ "idle" \in Pcs
  BY DEF AllocFails, fs, umount, hands, CountInv, Pcs
<1>2. ASSUME At(t, "allocFile"), Goto(t, LookupFailed(t))
      PROVE  Calm(t)
  BY <1>1, <1>2, FailsCalmly DEF At
<1>3. ASSUME At(t, "allocNew"), Goto(t, "idle")
      PROVE  Calm(t)
  <2>1. Passing(t, "idle")
    BY <1>1, <1>3 DEF Passing, Going, At, Held, Fresh, Permitted, Making, Searching
  <2> QED
    BY <1>1, <2>1, PassesCalmly
<1> QED
  BY <1>2, <1>3 DEF AllocFails

LEMMA EmptyCalm ==
  ASSUME TypeInv, TypeInv', CountInv, NEW t \in Threads, iumfs_dir_is_empty(t)
  PROVE  Calm(t)
<1>1. /\ pc[t] = "empty" /\ UNCHANGED <<disk, list, node, mount, dir, res, vp, todo>>
      /\ Called(t) /\ {"askRmdir", "giveUp"} \subseteq Pcs
  BY DEF iumfs_dir_is_empty, At, fs, umount, hands, CountInv, Pcs
<1>2. ASSUME NEW l \in {"askRmdir", "giveUp"}, Goto(t, l)
      PROVE  Calm(t)
  <2>1. Passing(t, l)
    BY <1>1, <1>2 DEF Passing, Going, Called, Held, Fresh, Permitted, Making, Searching
  <2> QED
    BY <1>1, <2>1, PassesCalmly
<1> QED
  BY <1>2 DEF iumfs_dir_is_empty

-----------------------------------------------------------------------------
(***************************************************************************)
(* Naming, listing and releasing.                                          *)
(***************************************************************************)
\* An entry of a directory changes, or not.
LEMMA EntryCounts ==
  ASSUME TypeInv, NEW v \in Vnodes, NEW n \in Entries, NEW i, i # 1 \/ n = "..",
         \/ node' = node
         \/ node' = [node EXCEPT ![v].entries[n] = i]
  PROVE  \A w \in Vnodes :
           /\ node'[w].id = node[w].id /\ node'[w].path = node[w].path
           /\ node'[w].count = node[w].count
           /\ \A m \in Names : node'[w].entries[m] = node[w].entries[m] \/ node'[w].entries[m] # 1
<1>1. CASE node' = node
  BY <1>1
<1>2. CASE node' = [node EXCEPT ![v].entries[n] = i]
  <2>1. ASSUME NEW w \in Vnodes, NEW m \in Names
        PROVE  /\ node'[w].id = node[w].id /\ node'[w].path = node[w].path
               /\ node'[w].count = node[w].count
               /\ node'[w].entries[m] = node[w].entries[m] \/ node'[w].entries[m] # 1
    <3>1. node[w] \in NodeRecords /\ node \in [Vnodes -> NodeRecords]
      BY DEF TypeInv, StateTyped
    <3>2. node'[w] = IF w = v THEN [node[w] EXCEPT !.entries[n] = i] ELSE node[w]
      BY <1>2, <3>1
    <3>3. node[w].entries \in [Entries -> Nat]
      BY <3>1, NodeTyped
    <3> QED
      BY <3>1, <3>2, <3>3, NodesAssumption DEF NodeRecords, Entries
  <2>2. ASSUME NEW w \in Vnodes
        PROVE  /\ node'[w].id = node[w].id /\ node'[w].path = node[w].path
               /\ node'[w].count = node[w].count
    <3>1. node[w] \in NodeRecords /\ node \in [Vnodes -> NodeRecords]
      BY DEF TypeInv, StateTyped
    <3>2. node'[w] = IF w = v THEN [node[w] EXCEPT !.entries[n] = i] ELSE node[w]
      BY <1>2, <3>1
    <3> QED
      BY <3>1, <3>2 DEF NodeRecords
  <2> QED
    BY <2>1, <2>2
<1> QED
  BY <1>1, <1>2

\* The number iumfs_last_nodeid comes to is not the root's.
LEMMA FreshNotRoot ==
  ASSUME CountInv, FreshId # {}
  PROVE  Min(FreshId) \in NodeIds /\ Min(FreshId) # 1
<1>1. Min(FreshId) \in FreshId
  BY MinOfNat DEF FreshId, NodeIds
<1> QED
  BY <1>1 DEF FreshId, CountInv, RootStays

\* An operation goes on, and an entry may change.
Writing(t, l, o) ==
  /\ Go(t, l, o) /\ UNCHANGED <<disk, list, mount, dir, res, vp, todo>>
  /\ o.call = op[t].call /\ o.name = op[t].name /\ o.found = op[t].found
  /\ pc[t] \notin Held
  /\ \/ l = "add"
     \/ l = "ref" /\ pc[t] = "link"
     \/ l = "name" /\ pc[t] = "dots"

LEMMA WritesCalmly ==
  ASSUME TypeInv, TypeInv', CountInv, NEW t \in Threads, NEW l \in Pcs, NEW o, Writing(t, l, o),
         NEW v \in Vnodes, NEW n \in Entries, NEW i, i # 1 \/ n = "..",
         \/ node' = node
         \/ node' = [node EXCEPT ![v].entries[n] = i]
  PROVE  Calm(t)
<1>1. /\ pc'[t] = l /\ op'[t] = o
      /\ \A s \in Threads : s # t => pc'[s] = pc[s] /\ op'[s] = op[s]
  BY DEF Writing, Go, TypeInv, HandsTyped
<1>2. Others(t) /\ l \in {"add", "ref", "name"}
  BY <1>1 DEF Others, Writing
<1>3. Called(t)' /\ EmptyHanded(t)'
  BY <1>1, <1>2 DEF Writing, CountInv, Called, Permitted, EmptyHanded, Making, Searching
<1>4. ASSUME NEW w \in Vnodes
      PROVE  Mine(t, w)' = Mine(t, w)
  <2>1. Mine(t, w) = Has(dir[t] = w) + Has(res[t] = w) + 0 + InSeq(todo[t], w)
    BY MineIs DEF Writing
  <2>2. Mine(t, w)' = Has(dir[t] = w) + Has(res[t] = w) + 0 + InSeq(todo[t], w)
    BY <1>1, <1>2, MineWillBe DEF Held, Writing
  <2> QED
    BY <2>1, <2>2
<1>5. \A w \in Vnodes :
        /\ node'[w].id = node[w].id /\ node'[w].path = node[w].path
        /\ node'[w].count = node[w].count
        /\ \A m \in Names : node'[w].entries[m] = node[w].entries[m] \/ node'[w].entries[m] # 1
  BY EntryCounts
<1>6. op'[t].name \in Names => op'[t].found # 1
  BY <1>1 DEF Writing, CountInv, RootStays
<1>7. pc'[t] \in Fresh => pc[t] \in Fresh /\ vp[t] # RootV
  BY <1>1, <1>2 DEF Writing, CountInv, RootStays, Fresh
<1>8. Steady(t)
  BY <1>1, <1>2, <1>3, <1>4, <1>5, <1>6, <1>7 DEF Steady, Writing, Fresh, Held
<1> QED
  BY <1>1, <1>2, <1>5, <1>8, DiskSame DEF Calm, Writing

\* The entry is there, or is made.
LEMMA LinkedCalm ==
  ASSUME TypeInv, TypeInv', CountInv, NEW t \in Threads, At(t, "link"),
         node' = iumfs_add_entry_to_dir(dir[t], op[t].name, node[vp[t]].id),
         Goto(t, "ref"), UNCHANGED <<disk, list, mount, dir, res, vp, todo>>
  PROVE  Calm(t)
<1>1. /\ pc[t] = "link" /\ dir[t] \in Vnodes /\ vp[t] \in Vnodes /\ op[t].name \in Entries
      /\ "ref" \in Pcs
  BY DEF At, TypeInv, AtWork, HandsTyped, Operation, Releasing, Fresh, Pcs
<1>2. vp[t] \in Alive /\ vp[t] # RootV
  BY <1>1 DEF At, Touched, CountInv, RootStays, Fresh, Vnodes, NoVnode
<1>3. node[vp[t]].id # 1
  BY <1>2 DEF CountInv, RootStays
<1>4. Writing(t, "ref", op[t])
  BY <1>1 DEF Writing, Goto, Held
<1>5. \/ node' = node
      \/ node' = [node EXCEPT ![dir[t]].entries[op[t].name] = node[vp[t]].id]
  BY DEF iumfs_add_entry_to_dir
<1>6. node[vp[t]].id # 1 \/ op[t].name = ".."
  BY <1>3
<1> QED
  BY <1>1, <1>4, <1>5, <1>6, WritesCalmly

\* A new directory gets its "..", or its maker goes wild.
LEMMA AddDotsCalm ==
  ASSUME TypeInv, TypeInv', CountInv, NEW t \in Threads, AddDots(t)
  PROVE  Calm(t)
<1>1. /\ pc[t] = "dots" /\ vp[t] \in Vnodes /\ dir[t] \in Vnodes /\ ".." \in Entries
      /\ {"name", "wild"} \subseteq Pcs /\ UNCHANGED <<disk, list, mount, dir, res, vp, todo>>
  BY DEF AddDots, At, TypeInv, AtWork, HandsTyped, Releasing, Fresh, Pcs, Entries, umount, hands
<1>2. CASE /\ node' = iumfs_add_entry_to_dir(vp[t], "..", node[dir[t]].id)
           /\ Goto(t, "name")
  <2>1. Writing(t, "name", op[t])
    BY <1>1, <1>2 DEF Writing, Goto, Held
  <2>2. \/ node' = node
        \/ node' = [node EXCEPT ![vp[t]].entries[".."] = node[dir[t]].id]
    BY <1>2 DEF iumfs_add_entry_to_dir
  <2> QED
    BY <1>1, <2>1, <2>2, WritesCalmly
<1>3. CASE Goto(t, "wild") /\ UNCHANGED node
  <2>1. Passing(t, "wild")
    BY <1>1, <1>3 DEF Passing, Going, Held, Fresh, Permitted, Making, Searching
  <2> QED
    BY <1>1, <2>1, PassesCalmly
<1> QED
  BY <1>2, <1>3 DEF AddDots

LEMMA RefCalm ==
  ASSUME OwnGivenOnce, TypeInv, TypeInv', CountInv, NEW t \in Threads, Ref(t)
  PROVE  Calm(t)
<1>1. /\ pc[t] = "ref" /\ vp[t] \in Vnodes /\ VN_HOLD(vp[t]) /\ Called(t) /\ res[t] = NoVnode
      /\ UNCHANGED <<disk, list, mount, dir>>
  BY DEF Ref, At, TypeInv, AtWork, Fresh, umount, CountInv, EmptyHanded
<1>2. vp[t] \in Alive
  BY <1>1 DEF Ref, At, Touched, Vnodes, NoVnode
<1>3. Return(t, vp[t]) /\ UNCHANGED todo
  BY <1>1 DEF Ref, Called, OwnGivenOnce
<1> QED
  BY <1>1, <1>2, <1>3, ReturnsCalmly DEF Held, Releasing

LEMMA ListCalm ==
  ASSUME TypeInv, TypeInv', CountInv, NEW t \in Threads, iumfs_request_readdir(t)
  PROVE  Calm(t)
<1>1. /\ pc[t] = "list" /\ UNCHANGED <<disk, list, node, mount, dir, res, vp, todo>>
      /\ op[t] \in Operation /\ {"add", "idle"} \subseteq Pcs
  BY DEF iumfs_request_readdir, At, fs, umount, hands, TypeInv, HandsTyped, Pcs
<1>2. CASE Go(t, "add", [op[t] EXCEPT !.listed = Children(node[dir[t]].path)])
  <2> DEFINE o == [op[t] EXCEPT !.listed = Children(node[dir[t]].path)]
  <2>1. o.call = op[t].call /\ o.name = op[t].name /\ o.found = op[t].found
    BY <1>1 DEF Operation
  <2>2. Writing(t, "add", o)
    BY <1>1, <1>2, <2>1 DEF Writing, Held
  <2>3. RootV \in Vnodes /\ ".." \in Entries
    BY NodesAssumption DEF RootV, Vnodes, Entries
  <2> HIDE DEF o
  <2> QED
    BY <1>1, <2>2, <2>3, WritesCalmly
<1>3. CASE Goto(t, "idle")
  <2>1. Passing(t, "idle")
    BY <1>1, <1>3 DEF Passing, Going, Held, Fresh, Permitted, Making, Searching
  <2> QED
    BY <1>1, <2>1, PassesCalmly
<1> QED
  BY <1>2, <1>3 DEF iumfs_request_readdir

LEMMA AddCalm ==
  ASSUME TypeInv, TypeInv', CountInv, NEW t \in Threads, AddListed(t)
  PROVE  Calm(t)
<1>1. /\ pc[t] = "add" /\ UNCHANGED <<disk, list, mount, dir, res, vp, todo>>
      /\ op[t] \in Operation /\ {"add", "idle"} \subseteq Pcs /\ dir[t] \in Vnodes
  BY DEF AddListed, At, umount, hands, TypeInv, HandsTyped, AtWork, Releasing, Pcs
<1>2. ASSUME NEW n \in op[t].listed,
             \/ FreshId # {} /\ node' = iumfs_add_entry_to_dir(dir[t], n, Min(FreshId))
             \/ UNCHANGED node,
             Go(t, "add", [op[t] EXCEPT !.listed = @ \ {n}])
      PROVE  Calm(t)
  <2> DEFINE o == [op[t] EXCEPT !.listed = @ \ {n}]
  <2>1. /\ o.call = op[t].call /\ o.name = op[t].name /\ o.found = op[t].found
        /\ n \in Entries
    BY <1>1 DEF Operation, Entries
  <2>2. Writing(t, "add", o)
    BY <1>1, <1>2, <2>1 DEF Writing, Held
  <2> HIDE DEF o
  <2>3. CASE FreshId # {} /\ node' = iumfs_add_entry_to_dir(dir[t], n, Min(FreshId))
    <3>1. Min(FreshId) # 1
      BY <2>3, FreshNotRoot
    <3>2. \/ node' = node
          \/ node' = [node EXCEPT ![dir[t]].entries[n] = Min(FreshId)]
      BY <2>3 DEF iumfs_add_entry_to_dir
    <3> QED
      BY <1>1, <2>1, <2>2, <3>1, <3>2, WritesCalmly
  <2>4. CASE UNCHANGED node
    BY <1>1, <2>1, <2>2, <2>4, WritesCalmly, 0 # 1
  <2> QED
    BY <1>2, <2>3, <2>4
<1>3. CASE Goto(t, "idle") /\ UNCHANGED node
  <2>1. Passing(t, "idle")
    BY <1>1, <1>3 DEF Passing, Going, Held, Fresh, Permitted, Making, Searching
  <2> QED
    BY <1>1, <2>1, PassesCalmly
<1> QED
  BY <1>2, <1>3 DEF AddListed

\* One release is done.
LEMMA ReleaseCounts ==
  ASSUME TypeInv, TypeInv', NEW t \in Threads, pc[t] \in Releasing, ReleaseDone(t),
         UNCHANGED <<dir, res, vp>>
  PROVE  /\ Others(t) /\ pc'[t] \in {"idle", "rele"} /\ op'[t] \in {op[t], NoOp}
         /\ \A w : Mine(t, w) = Mine(t, w)' + Has(Head(todo[t]) = w) /\ Mine(t, w)' \in Nat
<1>1. HandsTyped /\ {"idle", "rele"} \subseteq Pcs
  BY DEF TypeInv, Pcs
<1>2. ASSUME NEW l \in {"idle", "rele"}, Goto(t, l)
      PROVE  /\ pc'[t] \in {"idle", "rele"} /\ op'[t] \in {op[t], NoOp}
             /\ \A s \in Threads : s # t => pc'[s] = pc[s] /\ op'[s] = op[s]
  BY <1>1, <1>2, GotoMoves
<1>3. /\ pc'[t] \in {"idle", "rele"} /\ op'[t] \in {op[t], NoOp}
      /\ \A s \in Threads : s # t => pc'[s] = pc[s] /\ op'[s] = op[s]
  BY <1>2 DEF ReleaseDone
<1>4. /\ todo'[t] = Tail(todo[t]) /\ todo[t] \in Seq(Vnodes) /\ todo[t] # <<>>
      /\ Len(todo[t]) =< 2
      /\ \A s \in Threads : s # t => todo'[s] = todo[s]
  BY <1>1 DEF ReleaseDone, HandsTyped, TypeInv, AtWork
<1>5. Others(t)
  BY <1>3, <1>4 DEF Others
<1>6. ASSUME NEW w
      PROVE  Mine(t, w) = Mine(t, w)' + Has(Head(todo[t]) = w) /\ Mine(t, w)' \in Nat
  <2>1. Mine(t, w) = Has(dir[t] = w) + Has(res[t] = w) + 0 + InSeq(todo[t], w)
    BY MineIs DEF Held, Releasing
  <2>2. Mine(t, w)' = Has(dir[t] = w) + Has(res[t] = w) + 0 + InSeq(Tail(todo[t]), w)
    BY <1>3, <1>4, MineWillBe DEF Held
  <2>3. /\ InSeq(Tail(todo[t]), w) \in Nat
        /\ InSeq(todo[t], w) = Has(Head(todo[t]) = w) + InSeq(Tail(todo[t]), w)
    BY <1>4, InTail
  <2> QED
    BY <2>1, <2>2, <2>3 DEF Has
<1> QED
  BY <1>3, <1>5, <1>6

\* One of several references goes.
LEMMA DropsCalmly ==
  ASSUME TypeInv, TypeInv', CountInv, NEW t \in Threads, pc[t] \in Releasing, ReleaseDone(t),
         Drop(Head(todo[t])), UNCHANGED <<disk, list, mount, dir, res, vp>>
  PROVE  Calm(t)
<1> DEFINE v == Head(todo[t])
<1>1. /\ Others(t) /\ pc'[t] \in {"idle", "rele"} /\ op'[t] \in {op[t], NoOp}
      /\ \A w : Mine(t, w) = Mine(t, w)' + Has(v = w) /\ Mine(t, w)' \in Nat
  BY ReleaseCounts
<1>2. v \in Vnodes /\ v \in Alive
  <2>1. todo[t] \in Seq(Vnodes) /\ todo[t] # <<>>
    BY DEF TypeInv, HandsTyped, AtWork
  <2>2. v = todo[t][1] /\ 1 \in DOMAIN todo[t]
    BY <2>1, HeadIsFirst, EmptySeq
  <2> QED
    BY <2>1, <2>2, ReferredAlive
<1>3. Drop(v)
  OBVIOUS
<1> HIDE DEF v
<1>4. /\ \A w \in Vnodes : Same(w) /\ node'[w].count + Has(w = v) = node[w].count
      /\ \A w \in Vnodes : node'[w].count \in Nat
  BY <1>2, <1>3, DropCounts, NodeTyped DEF TypeInv, StateTyped
<1>5. Ending(t)
  BY <1>1 DEF Ending, Releasing
<1>6. ASSUME NEW w \in Vnodes
      PROVE  /\ Same(w)
             /\ node'[w].count + Mine(t, w) = node[w].count + Mine(t, w)'
             /\ w \notin Alive => Mine(t, w)' = Mine(t, w)
  BY <1>1, <1>2, <1>4 DEF Has
<1> QED
  BY <1>5, <1>6, EndsCalmly

LEMMA ReleCalm ==
  ASSUME TypeInv, TypeInv', CountInv, NEW t \in Threads, VN_RELE(t)
  PROVE  Calm(t)
<1>1. /\ pc[t] = "rele" /\ UNCHANGED <<disk, list, mount, dir, res, vp>> /\ "inactive" \in Pcs
  BY DEF VN_RELE, At, umount, Pcs
<1>2. CASE Drop(Head(todo[t])) /\ ReleaseDone(t)
  BY <1>1, <1>2, DropsCalmly DEF Releasing
<1>3. CASE Goto(t, "inactive") /\ UNCHANGED <<node, todo>>
  <2>1. Passing(t, "inactive")
    BY <1>1, <1>3 DEF Passing, Going, Held, Fresh, Permitted, Making, Searching
  <2> QED
    BY <1>1, <2>1, PassesCalmly
<1> QED
  BY <1>2, <1>3 DEF VN_RELE

\* The server makes a file or a directory, where that is allowed.
LEMMA AskMakeCalm ==
  ASSUME TypeInv, TypeInv', CountInv, NEW t \in Threads, AskCreate(t) \/ AskMkdir(t)
  PROVE  Calm(t)
<1>1. /\ pc[t] \in {"askCreate", "askMkdir"} /\ Called(t) /\ EmptyHanded(t)
      /\ UNCHANGED <<list, node, mount, dir, res, vp, todo>>
      /\ {"allocNew", "allocDir", "idle", "askCreate", "askMkdir"} \subseteq Pcs
  BY DEF AskCreate, AskMkdir, At, fs, umount, hands, CountInv, Pcs
<1>2. {"create", "mkdir"} \cap Calls # {}
  BY <1>1 DEF Called, Permitted
<1>3. ASSUME NEW l \in {pc[t], "idle"} \cup
                       (IF pc[t] = "askCreate" THEN {"allocNew"} ELSE {"allocDir"}), Goto(t, l)
      PROVE  Calm(t)
  <2>1. Passing(t, l)
    BY <1>1, <1>2, <1>3 DEF Passing, Going, Called, EmptyHanded, Held, Fresh, Permitted, Making, Searching
  <2> QED
    BY <1>1, <1>3, <2>1, PassesCalmly
<1>4. UNCHANGED <<pc, op>> => Goto(t, pc[t])
  BY <1>1 DEF Goto, Go, TypeInv, HandsTyped
<1>5. CASE AskCreate(t)
  BY <1>1, <1>3, <1>4, <1>5 DEF AskCreate, Ask, At
<1>6. CASE AskMkdir(t)
  BY <1>1, <1>3, <1>4, <1>6 DEF AskMkdir, Ask, At
<1> QED
  BY <1>5, <1>6

-----------------------------------------------------------------------------
(***************************************************************************)
(* Paths, and what the server removes.                                     *)
(***************************************************************************)
LEMMA PathIs ==
  ASSUME NEW p \in Paths
  PROVE  p \in Seq(Names) /\ Len(p) \in 0 .. MaxDepth
<1>1. PICK k \in 0 .. MaxDepth : p \in [1 .. k -> Names]
  BY DEF Paths
<1>2. k \in Nat
  BY NodesAssumption
<1> QED
  BY <1>1, <1>2

LEMMA PathsAre ==
  ASSUME NEW p \in Seq(Names), Len(p) =< MaxDepth
  PROVE  p \in Paths
<1>1. Len(p) \in 0 .. MaxDepth /\ p \in [1 .. Len(p) -> Names]
  BY NodesAssumption
<1> QED
  BY <1>1 DEF Paths

\* The beginning of a path.
LEMMA PathBegins ==
  ASSUME NEW p \in Paths, NEW k \in 0 .. Len(p)
  PROVE  /\ SubSeq(p, 1, k) \in Paths /\ Len(SubSeq(p, 1, k)) = k
         /\ k < Len(p) => SubSeq(p, 1, k + 1) = Append(SubSeq(p, 1, k), p[k + 1])
         /\ k < Len(p) => p[k + 1] \in Names
         /\ SubSeq(p, 1, Len(p)) = p /\ SubSeq(p, 1, 0) = RootPath
<1>1. p \in Seq(Names) /\ Len(p) \in 0 .. MaxDepth
  BY PathIs
<1>2. SubSeq(p, 1, k) \in Seq(Names) /\ Len(SubSeq(p, 1, k)) = k
  BY <1>1
<1>3. SubSeq(p, 1, k) \in Paths
  <2>1. k =< MaxDepth
    BY <1>1, NodesAssumption
  <2> QED
    BY <1>2, <2>1, PathsAre
<1>4. SubSeq(p, 1, Len(p)) = p
  BY <1>1
<1>5. SubSeq(p, 1, 0) = RootPath
  BY <1>1 DEF RootPath
<1>6. ASSUME k < Len(p)
      PROVE  SubSeq(p, 1, k + 1) = Append(SubSeq(p, 1, k), p[k + 1]) /\ p[k + 1] \in Names
  BY <1>1, <1>6
<1> QED
  BY <1>2, <1>3, <1>4, <1>5, <1>6

LEMMA RootIsPath == RootPath \in Paths
<1>1. <<>> \in Seq(Names) /\ Len(<<>>) =< MaxDepth
  BY NodesAssumption
<1> QED
  BY <1>1, PathsAre DEF RootPath

\* Without its root a server has nothing.
LEMMA NothingWithoutRoot ==
  ASSUME Tree, OnServer(RootPath) = "none", NEW p
  PROVE  OnServer(p) = "none"
<1>1. CASE p \in Paths /\ server[p] # "none"
  <2>1. p \in Seq(Names) /\ Len(p) \in 0 .. MaxDepth
    BY <1>1, PathIs
  <2>2. CASE Len(p) = 0
    BY <1>1, <2>1, <2>2 DEF RootPath
  <2>3. CASE Len(p) > 0
    <3>1. 0 \in 0 .. Len(p) - 1 /\ 0 \in 0 .. Len(p)
      BY <2>1, <2>3
    <3>2. server[SubSeq(p, 1, 0)] = "dir"
      BY <1>1, <3>1 DEF Tree
    <3>3. SubSeq(p, 1, 0) = RootPath
      BY <1>1, <3>1, PathBegins
    <3> QED
      BY <3>2, <3>3, RootIsPath DEF OnServer
  <2> QED
    BY <1>1, <2>1, <2>2, <2>3, RootIsPath DEF OnServer
<1> QED
  BY <1>1 DEF OnServer

\* What is removed is a file, or a directory with nothing in it.
Removes(p) ==
  /\ p \in Paths /\ server[p] # "none"
  /\ server[p] = "dir" => Children(p) = {}
  /\ server' = [server EXCEPT ![p] = "none"]

LEMMA TreeShrinks ==
  ASSUME TypeInv, Tree, NEW p, Removes(p)
  PROVE  /\ Tree' /\ OnServer(p)' = "none"
         /\ \A q : OnServer(q) = "none" => OnServer(q)' = "none"
<1>1. \A q \in Paths : server'[q] = IF q = p THEN "none" ELSE server[q]
  BY DEF Removes, TypeInv, StateTyped
<1>2. ASSUME NEW q \in Paths, server'[q] # "none", NEW k \in 0 .. Len(q) - 1
      PROVE  server'[SubSeq(q, 1, k)] = "dir"
  <2> DEFINE b == SubSeq(q, 1, k)
  <2>1. q # p /\ server[q] # "none"
    BY <1>1, <1>2
  <2>2. q \in Seq(Names) /\ Len(q) \in Nat
    BY PathIs
  <2>3. k \in 0 .. Len(q) /\ k < Len(q) /\ k + 1 \in 0 .. Len(q)
    BY <2>2
  <2>4. /\ b \in Paths /\ q[k + 1] \in Names /\ SubSeq(q, 1, k + 1) \in Paths
        /\ SubSeq(q, 1, k + 1) = Append(b, q[k + 1]) /\ SubSeq(q, 1, Len(q)) = q
    BY <2>3, PathBegins
  <2>5. server[b] = "dir"
    BY <2>1 DEF Tree
  <2>6. server[SubSeq(q, 1, k + 1)] # "none"
    <3>1. CASE k + 1 = Len(q)
      BY <2>1, <2>4, <3>1
    <3>2. CASE k + 1 # Len(q)
      <4>1. k + 1 \in 0 .. Len(q) - 1
        BY <2>2, <2>3, <3>2
      <4> QED
        BY <2>1, <4>1 DEF Tree
    <3> QED
      BY <3>1, <3>2
  <2> HIDE DEF b
  <2>7. q[k + 1] \in Children(b)
    BY <2>4, <2>6 DEF Children, Exists, OnServer
  <2>8. b # p
    BY <2>5, <2>7 DEF Removes
  <2> QED
    BY <1>1, <2>4, <2>5, <2>8 DEF b
<1>3. Tree'
  BY <1>2 DEF Tree
<1>4. OnServer(p)' = "none" /\ \A q : OnServer(q) = "none" => OnServer(q)' = "none"
  BY <1>1 DEF OnServer, Removes
<1> QED
  BY <1>3, <1>4

\* A remove or rmdir request.
Removing(t, l) ==
  /\ pc[t] \in {"askRemove", "askRmdir"} /\ l \in {pc[t], "unlink", "giveUp"}
  /\ Goto(t, l) /\ UNCHANGED <<list, node, mount, dir, res, vp, todo>>
  /\ \/ UNCHANGED server /\ l # "unlink"
     \/ Removes(node[vp[t]].path)
  /\ NoneMadeLate

LEMMA RemovalExecuted ==
  ASSUME NEW p, NEW kind \in {"remove", "rmdir"}, NEW r, r = [kind |-> kind, path |-> p],
         Execute(r)
  PROVE  IF Process(r).refused THEN UNCHANGED server ELSE Removes(p)
<1>1. CASE Process(r).refused
  BY <1>1 DEF Execute
<1>2. CASE ~Process(r).refused
  <2>1. server' = Process(r).done
    BY <1>2 DEF Execute
  <2>2. CASE kind = "remove"
    <3>1. Process(r) = process_remove_request(p)
      BY <2>2, Processed
    <3>2. ~process_remove_request(p).refused /\ server' = process_remove_request(p).done
      BY <1>2, <2>1, <3>1
    <3>3. Removes(p)
      BY <3>2 DEF process_remove_request, OnServer, Removes
    <3> QED
      BY <1>2, <3>3
  <2>3. CASE kind = "rmdir"
    <3>1. Process(r) = process_rmdir_request(p)
      BY <2>3, Processed
    <3>2. ~process_rmdir_request(p).refused /\ server' = process_rmdir_request(p).done
      BY <1>2, <2>1, <3>1
    <3>3. Removes(p)
      BY <3>2 DEF process_rmdir_request, OnServer, Removes
    <3> QED
      BY <1>2, <3>3
  <2> QED
    BY <2>2, <2>3
<1> QED
  BY <1>1, <1>2

LEMMA AskRemoves ==
  ASSUME TypeInv, NEW t \in Threads, AskRemove(t) \/ AskRmdir(t)
  PROVE  \E l \in Pcs : Removing(t, l)
<1>1. /\ pc[t] \in {"askRemove", "askRmdir"} /\ vp[t] \in Vnodes /\ pc[t] \in Pcs
      /\ UNCHANGED <<list, node, mount, dir, res, vp, todo>>
      /\ {"unlink", "giveUp"} \subseteq Pcs
  BY DEF AskRemove, AskRmdir, At, fs, umount, hands, TypeInv, AtWork, Held, HandsTyped, Pcs
<1> DEFINE p == node[vp[t]].path
<1>2. UNCHANGED <<pc, op>> => Goto(t, pc[t])
  BY <1>1 DEF Goto, Go, TypeInv, HandsTyped
<1>3. PICK kind \in {"remove", "rmdir"} : Ask(t, kind, p, "unlink", "giveUp")
  BY DEF AskRemove, AskRmdir
<1> DEFINE r == [kind |-> kind, path |-> p]
<1>4. r.kind \in {"remove", "rmdir"}
  OBVIOUS
<1>5. Execute(r) => IF Process(r).refused THEN UNCHANGED server ELSE Removes(p)
  BY RemovalExecuted
<1>6. \/ /\ Execute(r) /\ UNCHANGED late
         /\ Goto(t, IF Process(r).refused THEN "giveUp" ELSE "unlink")
      \/ /\ Unanswered(r) \/ UNCHANGED disk
         /\ UNCHANGED <<pc, op>> \/ Goto(t, "giveUp")
  BY <1>3 DEF Ask
<1> HIDE DEF r, p
<1>7. CASE /\ Execute(r) /\ UNCHANGED late
           /\ Goto(t, IF Process(r).refused THEN "giveUp" ELSE "unlink")
  BY <1>1, <1>5, <1>7 DEF Removing, NoneMadeLate, p
<1>8. CASE /\ Unanswered(r) \/ UNCHANGED disk
           /\ UNCHANGED <<pc, op>> \/ Goto(t, "giveUp")
  <2>1. (UNCHANGED server \/ Removes(p)) /\ NoneMadeLate
    BY <1>4, <1>5, <1>8 DEF Unanswered, NoneMadeLate, disk
  <2> QED
    BY <1>1, <1>2, <1>8, <2>1 DEF Removing, p
<1> QED
  BY <1>6, <1>7, <1>8

LEMMA RemovingKeeps ==
  ASSUME TypeInv, TypeInv', CountInv, NEW t \in Threads, NEW l \in Pcs, Removing(t, l)
  PROVE  CountInv'
<1> DEFINE v == vp[t]
<1>1. Called(t) /\ v \in Alive /\ Alive' = Alive /\ Alive \subseteq Vnodes
  BY ReferredAlive, AliveTyped DEF CountInv, Removing, Held, Alive, TypeInv, StateTyped
<1>2. Steady(t) /\ pc'[t] = l
  <2>1. Going(t, l)
    BY <1>1 DEF Removing, Going, Called, Permitted, Held, Fresh, Making, Searching
  <2> QED
    BY <2>1, GoesSteadily
<1>3. CountInvButUnmade'
  BY <1>2, SteadyKeeps
<1>4. \A w \in Vnodes : Owned(w)' <=> Owned(w)
  BY <1>2, SteadyCounts
<1>5. UNCHANGED <<node, vp>> /\ \A s \in Threads : s # t => pc'[s] = pc[s]
  BY <1>2 DEF Removing, Steady, Others
<1>6. ASSUME {"create", "mkdir"} \cap Calls = {}
      PROVE  /\ Tree'
             /\ \A w \in Alive' : Begun(w)' => OnServer(node[w].path)' = "none"
             /\ \A s \in Threads : pc'[s] = "unlink" => Owned(vp[s])'
             /\ \A r, s \in Threads :
                  pc'[r] = "unlink" /\ pc'[s] = "unlink" /\ vp'[r] = vp'[s] => r = s
             /\ \A s \in Threads :
                  pc'[s] \in {"dots", "name"} /\ vp'[s] \in Alive' => node'[vp'[s]].path = RootPath
  <2>1. /\ Tree
        /\ \A w \in Alive : Begun(w) => OnServer(node[w].path) = "none"
        /\ \A s \in Threads : pc[s] = "unlink" => Owned(vp[s])
        /\ \A r, s \in Threads : pc[r] = "unlink" /\ pc[s] = "unlink" /\ vp[r] = vp[s] => r = s
        /\ \A s \in Threads : pc[s] \in {"dots", "name"} /\ vp[s] \in Alive => node[vp[s]].path = RootPath
    BY <1>6 DEF CountInv, Unmade
  <2>2. CASE Removes(node[v].path)
    <3>1. /\ Tree' /\ server'[node[v].path] = "none" /\ node[v].path \in Paths
          /\ \A q : OnServer(q) = "none" => OnServer(q)' = "none"
      <4>1. /\ Tree' /\ server' = [server EXCEPT ![node[v].path] = "none"]
            /\ node[v].path \in Paths
            /\ \A q : OnServer(q) = "none" => OnServer(q)' = "none"
        BY <2>1, <2>2, TreeShrinks DEF Removes
      <4>2. server'[node[v].path] = "none"
        BY <4>1 DEF TypeInv, StateTyped
      <4> QED
        BY <4>1, <4>2
    <3>2. ~Begun(v)
      BY <1>1, <2>1, <2>2 DEF Removes, OnServer
    <3>3. Owned(v) /\ \A s \in Threads : pc[s] = "unlink" => vp[s] # v
      BY <3>2 DEF Begun
    <3>4. ASSUME NEW w \in Alive', Begun(w)'
          PROVE  OnServer(node[w].path)' = "none"
      <4>1. w = v \/ Begun(w)
        BY <1>1, <1>4, <1>5, <3>4 DEF Begun
      <4>2. CASE Begun(w)
        <5>1. OnServer(node[w].path) = "none"
          BY <1>1, <2>1, <4>2
        <5>2. server'[node[w].path] = "none" \/ node[w].path \notin Paths
          BY <3>1, <5>1 DEF OnServer
        <5> QED
          BY <1>5, <5>2 DEF OnServer
      <4>3. CASE w = v
        <5>1. server'[node'[w].path] = "none" /\ node'[w].path \in Paths
          BY <1>5, <3>1, <4>3
        <5> QED
          BY <5>1 DEF OnServer
      <4> QED
        BY <4>1, <4>2, <4>3
    <3>5. ASSUME NEW s \in Threads, pc'[s] = "unlink"
          PROVE  Owned(vp[s])'
      <4>1. Owned(vp[s]) /\ vp[s] \in Vnodes /\ vp'[s] = vp[s]
        BY <1>1, <1>5, <2>1, <3>3, <3>5 DEF TypeInv, AtWork, Held
      <4> QED
        BY <1>4, <4>1 DEF Owned
    <3>6. \A r, s \in Threads :
            pc'[r] = "unlink" /\ pc'[s] = "unlink" /\ vp'[r] = vp'[s] => r = s
      BY <1>5, <2>1, <3>3
    <3>7. \A s \in Threads :
            pc'[s] \in {"dots", "name"} /\ vp'[s] \in Alive' => node'[vp'[s]].path = RootPath
      BY <1>1, <1>2, <1>5, <2>1 DEF Removing
    <3> QED
      BY <3>1, <3>4, <3>5, <3>6, <3>7
  <2>3. CASE UNCHANGED server /\ l # "unlink"
    <3>1. Calm(t)
      BY <1>2, <1>5, <2>3 DEF Calm, Removing
    <3>2. Unmade'
      BY <3>1, CalmKeeps DEF CountInv
    <3> QED
      BY <1>6, <3>2 DEF Unmade
  <2> QED
    BY <2>2, <2>3 DEF Removing
<1>7. Unmade'
  BY <1>6 DEF Unmade
<1>8. LateRemoves'
  BY LateStays DEF Removing
<1> QED
  BY <1>3, <1>7, <1>8 DEF CountInv, CountInvButUnmade

-----------------------------------------------------------------------------
(***************************************************************************)
(* A new vnode gets its path.                                              *)
(***************************************************************************)
Named(t) ==
  /\ pc[t] = "name" /\ vp[t] \in Vnodes /\ vp[t] # RootV /\ vp[t] \in Alive
  /\ UNCHANGED <<disk, list, mount, dir, res, vp, todo>>
  /\ Alive' = Alive /\ Alive \subseteq Vnodes
  /\ pc'[t] \in {"link", "ref"} /\ op'[t] = op[t] /\ Others(t) /\ Steady(t)
  /\ \A w \in Vnodes : /\ node'[w].id = node[w].id /\ node'[w].count = node[w].count
                       /\ w # vp[t] => node'[w].path = node[w].path
                       /\ \A n \in Names : node'[w].entries[n] = node[w].entries[n]
  /\ node'[vp[t]].path = Target(t)

LEMMA SetNameSteady ==
  ASSUME TypeInv, TypeInv', CountInv, NEW t \in Threads, SetName(t)
  PROVE  Named(t)
<1> DEFINE v == vp[t]
<1>1. /\ pc[t] = "name" /\ v \in Vnodes /\ v # RootV /\ v \in Alive
      /\ UNCHANGED <<disk, list, mount, dir, res, vp, todo>>
      /\ {"link", "ref"} \subseteq Pcs /\ Called(t) /\ EmptyHanded(t)
      /\ Alive' = Alive /\ Alive \subseteq Vnodes
  <2>1. /\ pc[t] = "name" /\ Touched(t) \subseteq Alive
        /\ UNCHANGED <<disk, list, mount, dir, res, vp, todo>>
    BY DEF SetName, At, hands, umount
  <2>2. v \in Vnodes /\ v # RootV
    BY <2>1 DEF TypeInv, AtWork, Fresh, CountInv, RootStays
  <2>3. v \in Alive
    BY <2>1, <2>2 DEF Touched, Vnodes, NoVnode
  <2>4. Alive' = Alive /\ Alive \subseteq Vnodes
    BY <2>1, AliveTyped DEF Alive, TypeInv, StateTyped
  <2> QED
    BY <2>1, <2>2, <2>3, <2>4 DEF CountInv, Pcs
<1>2. /\ pc'[t] \in {"link", "ref"} /\ op'[t] = op[t]
      /\ \A s \in Threads : s # t => pc'[s] = pc[s] /\ op'[s] = op[s]
  <2>1. ASSUME NEW l \in {"link", "ref"}, Goto(t, l)
        PROVE  /\ pc'[t] \in {"link", "ref"} /\ op'[t] = op[t]
               /\ \A s \in Threads : s # t => pc'[s] = pc[s] /\ op'[s] = op[s]
    BY <1>1, <2>1, GotoMoves DEF TypeInv
  <2> QED
    BY <2>1 DEF SetName
<1>3. \A w \in Vnodes : /\ node'[w].id = node[w].id /\ node'[w].count = node[w].count
                        /\ node'[w].path = IF w = v THEN Target(t) ELSE node[w].path
                        /\ \A n \in Names : node'[w].entries[n] = node[w].entries[n]
  <2> DEFINE p == Target(t)
  <2>1. node' = [node EXCEPT ![v] = [node[v] EXCEPT !.path = p]]
    BY DEF SetName
  <2> HIDE DEF p, v
  <2>2. ASSUME NEW w \in Vnodes
        PROVE  node[w] \in NodeRecords
    BY NodeTyped DEF TypeInv, StateTyped
  <2>3. \A w \in Vnodes : node'[w] = IF w = v THEN [node[w] EXCEPT !.path = p] ELSE node[w]
    BY <1>1, <2>1 DEF TypeInv, StateTyped
  <2> QED
    BY <2>2, <2>3 DEF NodeRecords, p
<1>4. Others(t)
  BY <1>1, <1>2 DEF Others
<1>5. Called(t)' /\ EmptyHanded(t)'
  BY <1>1, <1>2 DEF Called, Permitted, EmptyHanded, Making, Searching
<1>6. ASSUME NEW w \in Vnodes
      PROVE  Mine(t, w)' = Mine(t, w)
  <2>1. Mine(t, w) = Has(dir[t] = w) + Has(res[t] = w) + 0 + InSeq(todo[t], w)
    BY <1>1, MineIs DEF Held
  <2>2. Mine(t, w)' = Has(dir[t] = w) + Has(res[t] = w) + 0 + InSeq(todo[t], w)
    BY <1>1, <1>2, MineWillBe DEF Held
  <2> QED
    BY <2>1, <2>2
<1>7. op'[t].name \in Names => op'[t].found # 1
  BY <1>2 DEF CountInv, RootStays
<1>8. Steady(t)
  BY <1>1, <1>2, <1>3, <1>4, <1>5, <1>6, <1>7 DEF Steady, Fresh, Held
<1>9. \A w \in Vnodes : /\ node'[w].id = node[w].id /\ node'[w].count = node[w].count
                        /\ w # v => node'[w].path = node[w].path
                        /\ \A n \in Names : node'[w].entries[n] = node[w].entries[n]
  BY <1>3
<1>10. node'[v].path = Target(t)
  BY <1>1, <1>3
<1> QED
  BY <1>1, <1>2, <1>4, <1>8, <1>9, <1>10, Zenon DEF Named

LEMMA SetNameKeeps ==
  ASSUME TypeInv, TypeInv', CountInv, NEW t \in Threads, SetName(t)
  PROVE  CountInv'
<1> DEFINE v == vp[t]
<1>1. Named(t)
  BY SetNameSteady
<1>2. /\ pc[t] = "name" /\ v \in Vnodes /\ v \in Alive
      /\ UNCHANGED <<disk, list, mount, dir, res, vp, todo>>
      /\ Alive' = Alive /\ Alive \subseteq Vnodes
      /\ Others(t) /\ Steady(t)
  BY <1>1 DEF Named
<1>3. /\ pc'[t] \in {"link", "ref"} /\ op'[t] = op[t]
      /\ \A s \in Threads : s # t => pc'[s] = pc[s] /\ op'[s] = op[s]
  BY <1>1 DEF Named, Others
<1>4. \A w \in Vnodes : w # v => node'[w].path = node[w].path
  BY <1>1, Zenon DEF Named
<1>5. CountInvButUnmade'
  BY <1>2, SteadyKeeps
<1>6. \A w \in Vnodes : Owned(w)' <=> Owned(w)
  BY <1>2, SteadyCounts
<1>7. ASSUME {"create", "mkdir"} \cap Calls = {}
       PROVE  /\ Tree'
              /\ \A w \in Alive' : Begun(w)' => OnServer(node[w].path)' = "none"
              /\ \A s \in Threads : pc'[s] = "unlink" => Owned(vp[s])'
              /\ \A r, s \in Threads :
                   pc'[r] = "unlink" /\ pc'[s] = "unlink" /\ vp'[r] = vp'[s] => r = s
              /\ \A s \in Threads :
                   pc'[s] \in {"dots", "name"} /\ vp'[s] \in Alive' => node'[vp'[s]].path = RootPath
  <2>1. /\ Tree
        /\ \A w \in Alive : Begun(w) => OnServer(node[w].path) = "none"
        /\ \A s \in Threads : pc[s] = "unlink" => Owned(vp[s])
        /\ \A r, s \in Threads : pc[r] = "unlink" /\ pc[s] = "unlink" /\ vp[r] = vp[s] => r = s
        /\ \A s \in Threads : pc[s] \in {"dots", "name"} /\ vp[s] \in Alive => node[vp[s]].path = RootPath
    BY <1>7 DEF CountInv, Unmade
  <2>2. Tree'
    BY <1>2, <2>1, DiskSame DEF Tree
  <2>3. ASSUME NEW w \in Alive', Begun(w)'
        PROVE  OnServer(node[w].path)' = "none"
    <3>1. w \in Alive /\ w \in Vnodes /\ Begun(w)
      BY <1>2, <1>3, <1>6, <2>3 DEF Begun, Others
    <3>2. OnServer(node[w].path) = "none"
      BY <2>1, <3>1
    <3>3. OnServer(node'[w].path) = "none"
      <4>1. CASE w = v
        <5>1. OnServer(RootPath) = "none"
          BY <1>2, <2>1, <3>1, <3>2, <4>1
        <5> QED
          BY <2>1, <5>1, NothingWithoutRoot
      <4>2. CASE w # v
        BY <1>4, <3>1, <3>2, <4>2
      <4> QED
        BY <4>1, <4>2
    <3> QED
      BY <1>2, <3>3, DiskSame DEF OnServer
  <2>4. ASSUME NEW s \in Threads, pc'[s] = "unlink"
        PROVE  Owned(vp[s])'
    <3>1. Owned(vp[s]) /\ vp[s] \in Vnodes /\ vp'[s] = vp[s]
      BY <1>2, <1>3, <2>1, <2>4 DEF TypeInv, AtWork, Held
    <3> QED
      BY <1>6, <3>1 DEF Owned
  <2>5. \A r, s \in Threads :
          pc'[r] = "unlink" /\ pc'[s] = "unlink" /\ vp'[r] = vp'[s] => r = s
    BY <1>2, <1>3, <2>1
  <2>6. ASSUME NEW s \in Threads, pc'[s] \in {"dots", "name"}, vp'[s] \in Alive'
        PROVE  node'[vp'[s]].path = RootPath
    <3>1. s # t /\ pc[s] \in {"dots", "name"} /\ vp[s] \in Alive /\ vp'[s] = vp[s]
      BY <1>2, <1>3, <2>6
    <3>2. vp[s] # v
      BY <1>2, <3>1 DEF CountInv, OneMaker, Fresh
    <3> QED
      BY <1>2, <1>4, <2>1, <3>1, <3>2
  <2> QED
    BY <2>2, <2>3, <2>4, <2>5, <2>6
<1>8. Unmade'
  BY <1>7 DEF Unmade
<1>9. LateRemoves'
  BY <1>2, DiskSame, LateStays
<1> QED
  BY <1>5, <1>8, <1>9 DEF CountInv, CountInvButUnmade

-----------------------------------------------------------------------------
(***************************************************************************)
(* A new vnode.                                                            *)
(***************************************************************************)
LEMMA AllocKeeps ==
  ASSUME OwnGivenOnce, TypeInv, TypeInv', CountInv, NEW t \in Threads,
         pc[t] \in {"allocFile", "allocNew", "allocDir"},
         NEW type \in {"file", "dir"}, NEW id \in {NoId, op[t].found}, Alloc(t, type, id),
         NEW l \in {"dots", "name"},
         \/ Goto(t, l) /\ id = op[t].found
         \/ Go(t, "name", [op[t] EXCEPT !.call = "new", !.found = NoId]) /\ pc[t] = "allocNew",
         UNCHANGED <<disk, mount, dir, res, todo>>
  PROVE  CountInv'
<1> DEFINE o == [op[t] EXCEPT !.call = "new", !.found = NoId]
<1>1. /\ HandsTyped /\ Asking(t) /\ Called(t) /\ EmptyHanded(t) /\ op[t] \in Operation
      /\ op[t].name \in Names /\ op[t].found # 1 /\ id \in 0 .. MaxNodeId /\ {"dots", "name"} \subseteq Pcs
  BY NodesAssumption DEF TypeInv, HandsTyped, Asking, Making, CountInv, RootStays, NoId, Pcs
<1>2. PICK v \in Unused, i \in NodeIds :
        /\ node' = [node EXCEPT ![v] = NewNode(type, i)] /\ list' = Append(list, v)
        /\ vp' = [vp EXCEPT ![t] = v]
        /\ i = id \/ (id = NoId /\ i \in FreshId)
  BY <1>1, Allocates
<1>3. /\ v \in Vnodes /\ v # RootV /\ v \notin Alive
      /\ \A s \in Threads : vp[s] # v
  <2>1. v \in Vnodes /\ v # RootV /\ v \notin Alive /\ \A s \in Threads : v \notin Touched(s)
    BY DEF Unused
  <2>2. v # NoVnode
    BY <2>1 DEF Vnodes, NoVnode
  <2> QED
    BY <2>1, <2>2 DEF Touched
<1>4. i # 1
  <2>1. NoId # 1 /\ (\A j \in FreshId : j # 1)
    BY DEF NoId, FreshId, CountInv, RootStays
  <2> QED
    BY <1>1, <1>2, <2>1
<1>5. /\ Alive' = Alive \cup {v} /\ Alive \subseteq Vnodes
      /\ \A w \in Vnodes : w # v => node'[w] = node[w]
      /\ node'[v] = NewNode(type, i)
  BY <1>2, <1>3, Listed, AliveTyped DEF TypeInv, StateTyped
<1>6. /\ node'[v].id = i /\ node'[v].path = RootPath /\ node'[v].count = 1
      /\ \A n \in Names : node'[v].entries[n] = NoId
  BY <1>5, NewNodeTyped DEF NewNode
<1>7. /\ pc'[t] \in {"dots", "name"} /\ (op'[t] = op[t] \/ (op'[t] = o /\ pc[t] = "allocNew"))
      /\ \A s \in Threads : s # t => pc'[s] = pc[s] /\ op'[s] = op[s]
  <2>1. CASE Goto(t, l)
    BY <1>1, <2>1, GotoMoves
  <2>2. CASE Go(t, "name", o) /\ pc[t] = "allocNew"
    BY <1>1, <2>2 DEF Go, HandsTyped
  <2> QED
    BY <2>1, <2>2
<1>8. o.call = "new" /\ o.found = NoId /\ o.name = op[t].name
  BY <1>1 DEF Operation
<1> HIDE DEF o
<1>9. /\ vp'[t] = v /\ Others(t)
      /\ \A s \in Threads : s # t => pc'[s] = pc[s] /\ op'[s] = op[s] /\ vp'[s] = vp[s]
  BY <1>1, <1>2, <1>7 DEF HandsTyped, Others
<1>10. \A w \in Vnodes : References(w)' = References(w) /\ References(w) \in Nat
  <2>1. ASSUME NEW w \in Vnodes
        PROVE  References(w)' = References(w) /\ References(w) \in Nat
    <3>1. Mine(t, w) = Has(dir[t] = w) + Has(res[t] = w) + 0 + InSeq(todo[t], w)
      BY MineIs DEF Held
    <3>2. Mine(t, w)' = Has(dir[t] = w) + Has(res[t] = w) + 0 + InSeq(todo[t], w)
      BY <1>7, MineWillBe DEF Held
    <3>3. /\ References(w) \in Nat /\ Mine(t, w) \in Nat
          /\ References(w)' = References(w) - Mine(t, w) + Mine(t, w)'
      BY <1>9, RefsStep
    <3> QED
      BY <3>1, <3>2, <3>3
  <2> QED
    BY <2>1
<1>11. References(v)' = 0 /\ Owned(v)'
  <2>1. References(v)' = 0
    BY <1>3, <1>10 DEF CountInv, NoneLost
  <2> QED
    BY <1>6, <2>1 DEF Owned
<1>12. \A w \in Vnodes : w # v => (Owned(w)' <=> Owned(w))
  BY <1>5, <1>10 DEF Owned
<1>13. CountIsExact'
  <2>1. \A w \in Alive : node'[w].count - References(w)' \in {0, 1}
    BY <1>3, <1>5, <1>10 DEF CountInv, CountIsExact
  <2>2. node'[v].count - References(v)' \in {0, 1}
    BY <1>6, <1>11
  <2> QED
    BY <1>5, <2>1, <2>2 DEF CountIsExact
<1>14. NoneLost'
  BY <1>5, <1>10 DEF CountInv, NoneLost
<1>15. RootStays'
  <2>1. RootV \in Alive /\ RootV \in Vnodes
    BY <1>5 DEF CountInv, RootStays
  <2>2. RootV \in Alive' /\ Owned(RootV)' /\ node'[RootV].id = 1
    BY <1>3, <1>5, <1>12, <2>1 DEF CountInv, RootStays
  <2>3. \A w \in Alive' : node'[w].id = 1 => w = RootV
    BY <1>3, <1>4, <1>5, <1>6 DEF CountInv, RootStays
  <2>4. \A w \in Vnodes, n \in Names : node'[w].entries[n] # 1
    BY <1>5, <1>6 DEF CountInv, RootStays, NoId
  <2>5. \A s \in Threads : op'[s].name \in Names => op'[s].found # 1
    BY <1>7, <1>8, <1>9 DEF CountInv, RootStays, NoId
  <2>6. \A s \in Threads : pc'[s] \in Held \cup Fresh => vp'[s] # RootV
    BY <1>3, <1>9 DEF CountInv, RootStays
  <2> QED
    BY <2>2, <2>3, <2>4, <2>5, <2>6 DEF RootStays
<1>16. OneMaker'
  BY <1>3, <1>9 DEF CountInv, OneMaker
<1>17. \A s \in Threads : Called(s)' /\ EmptyHanded(s)'
  <2>1. ASSUME NEW s \in Threads, s # t
        PROVE  Called(s)' /\ EmptyHanded(s)'
    BY <1>9, <2>1 DEF CountInv, Called, EmptyHanded
  <2>2. Called(t)'
    BY <1>1, <1>7, <1>8 DEF Called, Permitted
  <2>3. EmptyHanded(t)'
    BY <1>1, <1>7 DEF EmptyHanded, Making, Searching
  <2> QED
    BY <2>1, <2>2, <2>3
<1>18. Made'
  <2>1. ASSUME {"remove", "rmdir"} \cap Calls = {}, NEW s \in Threads,
               pc'[s] \in {"dots", "name", "link"}, op'[s].call \in {"new", "mkdir"}
        PROVE  vp'[s] \in Alive' /\ Owned(vp[s])'
    <3>1. CASE s = t
      BY <1>5, <1>9, <1>11, <3>1 DEF Owned
    <3>2. CASE s # t
      <4>1. vp[s] \in Alive /\ Owned(vp[s]) /\ vp'[s] = vp[s]
        BY <1>9, <2>1, <3>2 DEF CountInv, Made
      <4> QED
        BY <1>3, <1>5, <1>12, <4>1 DEF Owned
    <3> QED
      BY <3>1, <3>2
  <2> QED
    BY <2>1 DEF Made
<1>19. ASSUME {"create", "mkdir"} \cap Calls = {}
       PROVE  /\ Tree'
              /\ \A w \in Alive' : Begun(w)' => OnServer(node[w].path)' = "none"
              /\ \A s \in Threads : pc'[s] = "unlink" => Owned(vp[s])'
              /\ \A r, s \in Threads :
                   pc'[r] = "unlink" /\ pc'[s] = "unlink" /\ vp'[r] = vp'[s] => r = s
              /\ \A s \in Threads :
                   pc'[s] \in {"dots", "name"} /\ vp'[s] \in Alive' => node'[vp'[s]].path = RootPath
  <2>1. /\ Tree
        /\ \A w \in Alive : Begun(w) => OnServer(node[w].path) = "none"
        /\ \A s \in Threads : pc[s] = "unlink" => Owned(vp[s])
        /\ \A r, s \in Threads : pc[r] = "unlink" /\ pc[s] = "unlink" /\ vp[r] = vp[s] => r = s
        /\ \A s \in Threads : pc[s] \in {"dots", "name"} /\ vp[s] \in Alive => node[vp[s]].path = RootPath
    BY <1>19 DEF CountInv, Unmade
  <2>2. server' = server /\ Tree'
    BY <2>1, DiskSame DEF Tree
  <2>3. \A s \in Threads : pc'[s] = "unlink" => s # t /\ pc[s] = "unlink" /\ vp'[s] = vp[s]
    BY <1>7, <1>9
  <2>4. ASSUME NEW w \in Alive', Begun(w)'
        PROVE  OnServer(node[w].path)' = "none"
    <3>1. w # v
      BY <1>3, <1>11, <2>3, <2>4 DEF Begun
    <3>2. w \in Alive /\ w \in Vnodes /\ Begun(w)
      BY <1>5, <1>12, <2>3, <2>4, <3>1 DEF Begun
    <3>3. OnServer(node[w].path) = "none" /\ node'[w].path = node[w].path
      BY <1>5, <2>1, <3>1, <3>2
    <3> QED
      BY <2>2, <3>3 DEF OnServer
  <2>5. ASSUME NEW s \in Threads, pc'[s] = "unlink"
        PROVE  Owned(vp[s])'
    <3>1. Owned(vp[s]) /\ vp[s] \in Vnodes /\ vp'[s] = vp[s] /\ vp[s] # v
      BY <1>3, <2>1, <2>3, <2>5 DEF TypeInv, AtWork, Held
    <3> QED
      BY <1>12, <3>1 DEF Owned
  <2>6. \A r, s \in Threads :
          pc'[r] = "unlink" /\ pc'[s] = "unlink" /\ vp'[r] = vp'[s] => r = s
    BY <2>1, <2>3
  <2>7. ASSUME NEW s \in Threads, pc'[s] \in {"dots", "name"}, vp'[s] \in Alive'
        PROVE  node'[vp'[s]].path = RootPath
    <3>1. CASE vp'[s] = v
      BY <1>6, <3>1
    <3>2. CASE vp'[s] # v
      BY <1>3, <1>5, <1>9, <2>1, <2>7, <3>2
    <3> QED
      BY <3>1, <3>2
  <2> QED
    BY <2>2, <2>4, <2>5, <2>6, <2>7
<1>20. Unmade'
  BY <1>19 DEF Unmade
<1>21. LateRemoves'
  BY DiskSame, LateStays
<1> QED
  BY <1>13, <1>14, <1>15, <1>16, <1>17, <1>18, <1>20, <1>21 DEF CountInv, Mounted

-----------------------------------------------------------------------------
(***************************************************************************)
(* The reference of a vnode's own is given back, and the vnode freed.      *)
(***************************************************************************)
\* t begins to give back the reference of v.
GivingBack(t, v) ==
  /\ v \in Alive /\ v # RootV /\ Owned(v)
  /\ Others(t) /\ UNCHANGED <<disk, list, mount>>
  /\ pc'[t] = "rele" /\ op'[t] = op[t]
  /\ \A w \in Vnodes :
       /\ node'[w].id = node[w].id /\ node'[w].path = node[w].path
       /\ node'[w].count = node[w].count
       /\ \A n \in Names : node'[w].entries[n] = node[w].entries[n] \/ node'[w].entries[n] # 1
       /\ Mine(t, w)' = Mine(t, w) + Has(w = v)
  /\ {"create", "mkdir"} \cap Calls = {} =>
       /\ OnServer(node[v].path) = "none"
       /\ \A s \in Threads \ {t} : pc[s] = "unlink" => vp[s] # v
  /\ {"remove", "rmdir"} \cap Calls = {} =>
       \A s \in Threads \ {t} : pc[s] \in {"dots", "name", "link"} => vp[s] # v

LEMMA GivingBackKeeps ==
  ASSUME TypeInv, TypeInv', CountInv, NEW t \in Threads, NEW v, GivingBack(t, v)
  PROVE  CountInv'
<1>1. /\ Alive' = Alive /\ Alive \subseteq Vnodes /\ v \in Vnodes /\ v \in Alive
      /\ RootV \in Alive /\ v # RootV
      /\ \A w \in Vnodes : node[w].count \in Nat /\ node'[w].count = node[w].count
  <2>1. Alive' = Alive /\ Alive \subseteq Vnodes
    BY AliveTyped DEF GivingBack, Alive, TypeInv, StateTyped
  <2>2. \A w \in Vnodes : node[w].count \in Nat /\ node'[w].count = node[w].count
    BY NodeTyped DEF GivingBack, TypeInv, StateTyped
  <2> QED
    BY <2>1, <2>2 DEF GivingBack, CountInv, RootStays
<1>2. /\ pc'[t] = "rele" /\ op'[t] = op[t]
      /\ \A s \in Threads : s # t =>
           pc'[s] = pc[s] /\ op'[s] = op[s] /\ vp'[s] = vp[s] /\ res'[s] = res[s]
  BY DEF GivingBack, Others
<1>3. ASSUME NEW w \in Vnodes
      PROVE  References(w)' = References(w) + Has(w = v) /\ References(w) \in Nat
  <2>1. /\ References(w) \in Nat /\ Mine(t, w) \in Nat
        /\ References(w)' = References(w) - Mine(t, w) + Mine(t, w)'
    BY RefsStep DEF GivingBack
  <2>2. Mine(t, w)' = Mine(t, w) + Has(w = v)
    BY DEF GivingBack
  <2> QED
    BY <2>1, <2>2 DEF Has
<1>4. \A w \in Vnodes : w # v => (Owned(w)' <=> Owned(w)) /\ References(w)' = References(w)
  BY <1>1, <1>3 DEF Owned, Has
<1>5. CountIsExact'
  <2>1. References(v)' = References(v) + 1
    BY <1>1, <1>3 DEF Has
  <2>2. node[v].count = References(v) + 1
    BY DEF GivingBack, Owned
  <2>3. node'[v].count - References(v)' = 0
    BY <1>1, <1>3, <2>1, <2>2
  <2> QED
    BY <1>1, <1>4, <2>3 DEF CountInv, CountIsExact
<1>6. NoneLost'
  BY <1>1, <1>4 DEF CountInv, NoneLost
<1>7. RootStays'
  <2>1. RootV \in Alive' /\ Owned(RootV)' /\ node'[RootV].id = 1
    BY <1>1, <1>4 DEF CountInv, RootStays, GivingBack
  <2>2. \A w \in Alive' : node'[w].id = 1 => w = RootV
    BY <1>1 DEF CountInv, RootStays, GivingBack
  <2>3. \A w \in Vnodes, n \in Names : node'[w].entries[n] # 1
    BY DEF CountInv, RootStays, GivingBack
  <2>4. \A s \in Threads : op'[s].name \in Names => op'[s].found # 1
    BY <1>2 DEF CountInv, RootStays
  <2>5. \A s \in Threads : pc'[s] \in Held \cup Fresh => vp'[s] # RootV
    BY <1>2 DEF CountInv, RootStays, Held, Fresh
  <2> QED
    BY <2>1, <2>2, <2>3, <2>4, <2>5 DEF RootStays
<1>8. OneMaker'
  BY <1>2 DEF CountInv, OneMaker, Fresh
<1>9. \A s \in Threads : Called(s)' /\ EmptyHanded(s)'
  <2>1. ASSUME NEW s \in Threads, s # t
        PROVE  Called(s)' /\ EmptyHanded(s)'
    BY <1>2, <2>1 DEF CountInv, Called, EmptyHanded
  <2>2. Called(t)' /\ EmptyHanded(t)'
    BY <1>2 DEF CountInv, Called, Permitted, EmptyHanded, Making, Searching
  <2> QED
    BY <2>1, <2>2
<1>10. Made'
  <2>1. ASSUME {"remove", "rmdir"} \cap Calls = {}, NEW s \in Threads,
               pc'[s] \in {"dots", "name", "link"}, op'[s].call \in {"new", "mkdir"}
        PROVE  vp'[s] \in Alive' /\ Owned(vp[s])'
    <3>1. s # t /\ pc[s] \in {"dots", "name", "link"} /\ op[s].call \in {"new", "mkdir"} /\ vp'[s] = vp[s]
      BY <1>2, <2>1
    <3>2. vp[s] \in Alive /\ Owned(vp[s]) /\ vp[s] # v
      BY <2>1, <3>1 DEF CountInv, Made, GivingBack
    <3> QED
      BY <1>1, <1>4, <3>1, <3>2 DEF Owned
  <2> QED
    BY <2>1 DEF Made
<1>11. ASSUME {"create", "mkdir"} \cap Calls = {}
       PROVE  /\ Tree'
              /\ \A w \in Alive' : Begun(w)' => OnServer(node[w].path)' = "none"
              /\ \A s \in Threads : pc'[s] = "unlink" => Owned(vp[s])'
              /\ \A r, s \in Threads :
                   pc'[r] = "unlink" /\ pc'[s] = "unlink" /\ vp'[r] = vp'[s] => r = s
              /\ \A s \in Threads :
                   pc'[s] \in {"dots", "name"} /\ vp'[s] \in Alive' => node'[vp'[s]].path = RootPath
  <2>1. /\ Tree
        /\ \A w \in Alive : Begun(w) => OnServer(node[w].path) = "none"
        /\ \A s \in Threads : pc[s] = "unlink" => Owned(vp[s])
        /\ \A r, s \in Threads : pc[r] = "unlink" /\ pc[s] = "unlink" /\ vp[r] = vp[s] => r = s
        /\ \A s \in Threads : pc[s] \in {"dots", "name"} /\ vp[s] \in Alive => node[vp[s]].path = RootPath
    BY <1>11 DEF CountInv, Unmade
  <2>2. server' = server /\ Tree'
    BY <2>1, DiskSame DEF Tree, GivingBack
  <2>3. \A s \in Threads : pc'[s] \in {"unlink", "dots", "name"} => s # t /\ pc'[s] = pc[s] /\ vp'[s] = vp[s]
    BY <1>2
  <2>4. ASSUME NEW w \in Alive', Begun(w)'
        PROVE  OnServer(node[w].path)' = "none"
    <3>1. w \in Vnodes /\ w \in Alive /\ node'[w].path = node[w].path
      BY <1>1 DEF GivingBack
    <3>2. w = v \/ Begun(w)
      BY <1>4, <2>3, <2>4, <3>1 DEF Begun
    <3>3. OnServer(node[w].path) = "none"
      BY <1>11, <2>1, <3>1, <3>2 DEF GivingBack
    <3> QED
      BY <2>2, <3>1, <3>3 DEF OnServer
  <2>5. ASSUME NEW s \in Threads, pc'[s] = "unlink"
        PROVE  Owned(vp[s])'
    <3>1. Owned(vp[s]) /\ vp[s] \in Vnodes /\ vp'[s] = vp[s] /\ vp[s] # v
      BY <1>11, <2>1, <2>3, <2>5 DEF TypeInv, AtWork, Held, GivingBack
    <3> QED
      BY <1>4, <3>1 DEF Owned
  <2>6. \A r, s \in Threads :
          pc'[r] = "unlink" /\ pc'[s] = "unlink" /\ vp'[r] = vp'[s] => r = s
    BY <2>1, <2>3
  <2>7. ASSUME NEW s \in Threads, pc'[s] \in {"dots", "name"}, vp'[s] \in Alive'
        PROVE  node'[vp'[s]].path = RootPath
    BY <1>1, <2>1, <2>3, <2>7 DEF GivingBack
  <2> QED
    BY <2>2, <2>4, <2>5, <2>6, <2>7
<1>12. Unmade'
  BY <1>11 DEF Unmade
<1>13. LateRemoves'
  BY DiskSame, LateStays DEF GivingBack
<1> QED
  BY <1>5, <1>6, <1>7, <1>8, <1>9, <1>10, <1>12, <1>13 DEF CountInv, Mounted, GivingBack

\* remove and rmdir, after the entry has gone.
LEMMA UnlinkKeeps ==
  ASSUME OwnGivenOnce, TypeInv, TypeInv', CountInv, NEW t \in Threads,
         iumfs_remove_entry_from_dir(t)
  PROVE  CountInv'
<1> DEFINE v == vp[t]
<1>1. /\ pc[t] = "unlink" /\ ReturnAfter(t, <<v, v>>) /\ Called(t)
      /\ UNCHANGED <<disk, list, mount, dir, res>>
      /\ v \in Alive /\ v # RootV /\ dir[t] \in Vnodes /\ op[t].name \in Entries
      /\ \/ node' = node
         \/ node' = [node EXCEPT ![dir[t]].entries[op[t].name] = NoId]
  BY ReferredAlive DEF iumfs_remove_entry_from_dir, At, Released, umount, CountInv, RootStays, Held,
     TypeInv, AtWork, Releasing, HandsTyped, Operation
<1>2. {"create", "mkdir"} \cap Calls = {} /\ {"remove", "rmdir"} \cap Calls # {}
  BY <1>1 DEF Called, Permitted, OwnGivenOnce
<1>3. /\ Ending(t) /\ "rele" \in Pcs /\ Goto(t, "rele")
      /\ \A w : Mine(t, w)' = Has(dir'[t] = w) + Has(res'[t] = w) + InSeq(<<v, v>>, w)
  <2>1. "rele" \in Pcs /\ Goto(t, "rele")
    BY <1>1 DEF ReturnAfter, Pcs
  <2> QED
    BY <1>1, <2>1, ReturnAfterEnds
<1>4. pc'[t] = "rele" /\ op'[t] = op[t]
  BY <1>3, GotoMoves DEF TypeInv
<1>5. ASSUME NEW w \in Vnodes
      PROVE  Mine(t, w)' = Mine(t, w) + Has(w = v)
  <2>1. Mine(t, w) = Has(dir[t] = w) + Has(res[t] = w) + Has(v = w)
    BY <1>1, MineIs DEF Held, Releasing, Has
  <2>2. Mine(t, w)' = Has(dir[t] = w) + Has(res[t] = w) + (Has(v = w) + Has(v = w))
    BY <1>1, <1>3, InTwo
  <2> QED
    BY <2>1, <2>2 DEF Has
<1>6. \A w \in Vnodes :
        /\ node'[w].id = node[w].id /\ node'[w].path = node[w].path
        /\ node'[w].count = node[w].count
        /\ \A n \in Names : node'[w].entries[n] = node[w].entries[n] \/ node'[w].entries[n] # 1
  <2>1. NoId # 1
    BY DEF NoId
  <2>2. CASE node' = node
    BY <2>2
  <2>3. CASE node' = [node EXCEPT ![dir[t]].entries[op[t].name] = NoId]
    BY <1>1, <2>1, <2>3, EntryCounts
  <2> QED
    BY <1>1, <2>2, <2>3
<1>7. /\ Owned(v) /\ OnServer(node[v].path) = "none"
      /\ \A s \in Threads \ {t} : pc[s] = "unlink" => vp[s] # v
  <2>1. Begun(v)
    BY <1>1 DEF Begun
  <2> QED
    BY <1>1, <1>2, <2>1 DEF CountInv, Unmade
<1>8. GivingBack(t, v)
  BY <1>1, <1>2, <1>3, <1>4, <1>5, <1>6, <1>7 DEF GivingBack, Ending
<1> QED
  BY <1>8, GivingBackKeeps

\* create and mkdir, when there is no memory for the entry.
LEMMA LinkGivesBack ==
  ASSUME OwnGivenOnce, TypeInv, TypeInv', CountInv, NEW t \in Threads, At(t, "link"),
         op[t].call \in {"new", "mkdir"}, ReturnAfter(t, <<vp[t]>>),
         UNCHANGED <<disk, list, node, mount, dir, res>>
  PROVE  GivingBack(t, vp[t])
<1> DEFINE v == vp[t]
<1>1. pc[t] = "link" /\ Called(t)
  BY DEF At, CountInv
<1>2. {"remove", "rmdir"} \cap Calls = {} /\ {"create", "mkdir"} \cap Calls # {}
  BY <1>1 DEF Called, OwnGivenOnce
<1>3. v \in Alive /\ Owned(v) /\ v # RootV
  BY <1>1, <1>2 DEF CountInv, Made, RootStays, Fresh
<1>4. /\ Ending(t) /\ "rele" \in Pcs /\ Goto(t, "rele")
      /\ \A w : Mine(t, w)' = Has(dir'[t] = w) + Has(res'[t] = w) + InSeq(<<v>>, w)
  <2>1. "rele" \in Pcs /\ Goto(t, "rele")
    BY DEF ReturnAfter, Pcs
  <2> QED
    BY <2>1, ReturnAfterEnds
<1>5. pc'[t] = "rele" /\ op'[t] = op[t]
  BY <1>4, GotoMoves DEF TypeInv
<1>6. ASSUME NEW w \in Vnodes
      PROVE  Mine(t, w)' = Mine(t, w) + Has(w = v)
  <2>1. Mine(t, w) = Has(dir[t] = w) + Has(res[t] = w)
    BY <1>1, MineIs DEF Held, Releasing, Has
  <2>2. Mine(t, w)' = Has(dir[t] = w) + Has(res[t] = w) + Has(v = w)
    BY <1>4, InOne
  <2> QED
    BY <2>1, <2>2 DEF Has
<1>7. \A s \in Threads \ {t} : pc[s] \in {"dots", "name", "link"} => vp[s] # v
  BY <1>1 DEF CountInv, OneMaker, Fresh
<1> QED
  BY <1>2, <1>3, <1>4, <1>5, <1>6, <1>7 DEF GivingBack, Ending

\* Whoever gives back the last reference was the only one to refer to the vnode,
\* and its own reference had gone before.
LEMMA FreeKeeps ==
  ASSUME TypeInv, TypeInv', CountInv, NEW t \in Threads, pc[t] \in Releasing, ReleaseDone(t),
         NEW v \in Alive, v = Head(todo[t]), node[v].count = 1,
         list' = RemoveAt(list, Position(v)), node' = [node EXCEPT ![v] = NoNode],
         UNCHANGED <<disk, mount, dir, res, vp>>
  PROVE  CountInv'
<1>1. /\ Others(t) /\ pc'[t] \in {"idle", "rele"} /\ op'[t] \in {op[t], NoOp}
      /\ \A w : Mine(t, w) = Mine(t, w)' + Has(v = w) /\ Mine(t, w)' \in Nat
  BY ReleaseCounts
<1>2. /\ \A s \in Threads : s # t =>
           pc'[s] = pc[s] /\ op'[s] = op[s] /\ vp'[s] = vp[s] /\ res'[s] = res[s]
  BY <1>1 DEF Others
<1>3. /\ Alive' = Alive \ {v} /\ Alive \subseteq Vnodes /\ v \in Vnodes
      /\ \A w \in Vnodes : w # v => node'[w] = node[w]
      /\ node'[v] = NoNode
  BY Removed, AliveTyped DEF TypeInv, StateTyped
<1>4. ASSUME NEW w \in Vnodes
      PROVE  /\ References(w) \in Nat /\ References(w)' \in Nat
             /\ References(w) = References(w)' + Has(v = w)
  <2>1. /\ References(w) \in Nat /\ Mine(t, w) \in Nat /\ References(w)' \in Nat
        /\ References(w)' = References(w) - Mine(t, w) + Mine(t, w)'
    BY <1>1, RefsStep
  <2>2. Mine(t, w) = Mine(t, w)' + Has(v = w) /\ Mine(t, w)' \in Nat
    BY <1>1
  <2> QED
    BY <2>1, <2>2 DEF Has
<1>5. References(v)' = 0 /\ ~Owned(v)
  <2>1. References(v) = References(v)' + 1 /\ References(v)' \in Nat
    BY <1>3, <1>4 DEF Has
  <2>2. 1 - References(v) \in {0, 1}
    BY DEF CountInv, CountIsExact
  <2> QED
    BY <2>1, <2>2 DEF Owned
<1>6. \A w \in Vnodes : w # v => (Owned(w)' <=> Owned(w)) /\ References(w)' = References(w)
  BY <1>3, <1>4 DEF Owned, Has
<1>7. v # RootV
  BY <1>5 DEF CountInv, RootStays
<1>8. CountIsExact' /\ NoneLost'
  <2>1. CountIsExact'
    BY <1>3, <1>6 DEF CountInv, CountIsExact
  <2>2. NoneLost'
    BY <1>3, <1>5, <1>6 DEF CountInv, NoneLost
  <2> QED
    BY <2>1, <2>2
<1>9. RootStays'
  <2>1. RootV \in Alive' /\ Owned(RootV)' /\ node'[RootV].id = 1
    BY <1>3, <1>6, <1>7 DEF CountInv, RootStays
  <2>2. \A w \in Alive' : node'[w].id = 1 => w = RootV
    BY <1>3 DEF CountInv, RootStays
  <2>3. \A n \in Names : NoNode.entries[n] = NoId
    <3>1. 1 \in NodeIds
      BY NodesAssumption DEF NodeIds
    <3> QED
      BY <3>1, NewNodeTyped DEF NoNode
  <2>4. \A w \in Vnodes, n \in Names : node'[w].entries[n] # 1
    BY <1>3, <2>3 DEF CountInv, RootStays, NoId
  <2>5. \A s \in Threads : op'[s].name \in Names => op'[s].found # 1
    BY <1>1, <1>2, NodesAssumption DEF CountInv, RootStays, NoOp
  <2>6. \A s \in Threads : pc'[s] \in Held \cup Fresh => vp'[s] # RootV
    BY <1>1, <1>2 DEF CountInv, RootStays, Held, Fresh
  <2> QED
    BY <2>1, <2>2, <2>4, <2>5, <2>6 DEF RootStays
<1>10. OneMaker'
  BY <1>1, <1>2 DEF CountInv, OneMaker, Fresh
<1>11. \A s \in Threads : Called(s)' /\ EmptyHanded(s)'
  <2>1. ASSUME NEW s \in Threads, s # t
        PROVE  Called(s)' /\ EmptyHanded(s)'
    BY <1>2, <2>1 DEF CountInv, Called, EmptyHanded
  <2>2. Called(t)' /\ EmptyHanded(t)'
    BY <1>1 DEF CountInv, Called, Permitted, EmptyHanded, Making, Searching, NoOp
  <2> QED
    BY <2>1, <2>2
<1>12. Made'
  <2>1. ASSUME {"remove", "rmdir"} \cap Calls = {}, NEW s \in Threads,
               pc'[s] \in {"dots", "name", "link"}, op'[s].call \in {"new", "mkdir"}
        PROVE  vp'[s] \in Alive' /\ Owned(vp[s])'
    <3>1. s # t /\ pc[s] \in {"dots", "name", "link"} /\ op[s].call \in {"new", "mkdir"} /\ vp'[s] = vp[s]
      BY <1>1, <1>2, <2>1
    <3>2. vp[s] \in Alive /\ Owned(vp[s])
      BY <2>1, <3>1 DEF CountInv, Made
    <3>3. vp[s] # v
      BY <1>5, <3>2
    <3> QED
      BY <1>3, <1>6, <3>1, <3>2, <3>3 DEF Owned
  <2> QED
    BY <2>1 DEF Made
<1>13. ASSUME {"create", "mkdir"} \cap Calls = {}
       PROVE  /\ Tree'
              /\ \A w \in Alive' : Begun(w)' => OnServer(node[w].path)' = "none"
              /\ \A s \in Threads : pc'[s] = "unlink" => Owned(vp[s])'
              /\ \A r, s \in Threads :
                   pc'[r] = "unlink" /\ pc'[s] = "unlink" /\ vp'[r] = vp'[s] => r = s
              /\ \A s \in Threads :
                   pc'[s] \in {"dots", "name"} /\ vp'[s] \in Alive' => node'[vp'[s]].path = RootPath
  <2>1. /\ Tree
        /\ \A w \in Alive : Begun(w) => OnServer(node[w].path) = "none"
        /\ \A s \in Threads : pc[s] = "unlink" => Owned(vp[s])
        /\ \A r, s \in Threads : pc[r] = "unlink" /\ pc[s] = "unlink" /\ vp[r] = vp[s] => r = s
        /\ \A s \in Threads : pc[s] \in {"dots", "name"} /\ vp[s] \in Alive => node[vp[s]].path = RootPath
    BY <1>13 DEF CountInv, Unmade
  <2>2. server' = server /\ Tree'
    BY <2>1, DiskSame DEF Tree
  <2>3. \A s \in Threads : pc'[s] \in {"unlink", "dots", "name"} => s # t /\ pc'[s] = pc[s] /\ vp'[s] = vp[s]
    BY <1>1, <1>2
  <2>4. ASSUME NEW w \in Alive', Begun(w)'
        PROVE  OnServer(node[w].path)' = "none"
    <3>1. w \in Vnodes /\ w \in Alive /\ w # v /\ node'[w].path = node[w].path
      BY <1>3
    <3>2. Begun(w)
      BY <1>6, <2>3, <2>4, <3>1 DEF Begun
    <3>3. OnServer(node[w].path) = "none"
      BY <2>1, <3>1, <3>2
    <3> QED
      BY <2>2, <3>1, <3>3 DEF OnServer
  <2>5. ASSUME NEW s \in Threads, pc'[s] = "unlink"
        PROVE  Owned(vp[s])'
    <3>1. Owned(vp[s]) /\ vp[s] \in Vnodes /\ vp'[s] = vp[s] /\ vp[s] # v
      BY <1>5, <2>1, <2>3, <2>5 DEF TypeInv, AtWork, Held
    <3> QED
      BY <1>6, <3>1 DEF Owned
  <2>6. \A r, s \in Threads :
          pc'[r] = "unlink" /\ pc'[s] = "unlink" /\ vp'[r] = vp'[s] => r = s
    BY <2>1, <2>3
  <2>7. ASSUME NEW s \in Threads, pc'[s] \in {"dots", "name"}, vp'[s] \in Alive'
        PROVE  node'[vp'[s]].path = RootPath
    BY <1>3, <2>1, <2>3, <2>7
  <2> QED
    BY <2>2, <2>4, <2>5, <2>6, <2>7
<1>14. Unmade'
  BY <1>13 DEF Unmade
<1>15. LateRemoves'
  BY DiskSame, LateStays
<1> QED
  BY <1>8, <1>9, <1>10, <1>11, <1>12, <1>14, <1>15 DEF CountInv, Mounted

LEMMA InactiveKeeps ==
  ASSUME TypeInv, TypeInv', CountInv, NEW t \in Threads, iumfs_inactive(t)
  PROVE  CountInv'
<1> DEFINE v == Head(todo[t])
<1>1. /\ pc[t] \in Releasing /\ ReleaseDone(t) /\ UNCHANGED <<disk, mount, dir, res, vp>>
      /\ RootV \in Alive
  BY DEF iumfs_inactive, At, umount, CountInv, RootStays, Releasing
<1>2. v \in Alive
  <2>1. todo[t] \in Seq(Vnodes) /\ todo[t] # <<>>
    BY <1>1 DEF TypeInv, HandsTyped, AtWork
  <2>2. v = todo[t][1] /\ 1 \in DOMAIN todo[t]
    BY <2>1, HeadIsFirst, EmptySeq
  <2> QED
    BY <2>1, <2>2, ReferredAlive
<1>3. iumfs_free_node(v)
  BY <1>1 DEF iumfs_inactive
<1>4. CASE Drop(v) /\ UNCHANGED list
  BY <1>1, <1>4, DropsCalmly, CalmKeeps
<1>5. CASE node[v].count = 1 /\ list' = RemoveAt(list, Position(v))
           /\ node' = [node EXCEPT ![v] = NoNode]
  BY <1>1, <1>2, <1>5, FreeKeeps
<1> QED
  BY <1>3, <1>4, <1>5 DEF iumfs_free_node

-----------------------------------------------------------------------------
(***************************************************************************)
(* Every step keeps the counts.                                            *)
(***************************************************************************)
LEMMA LinkKeeps ==
  ASSUME OwnGivenOnce, TypeInv, TypeInv', CountInv, NEW t \in Threads, Link(t)
  PROVE  CountInv'
<1>1. At(t, "link") /\ UNCHANGED <<disk, list, mount, dir, res>>
  BY DEF Link, umount
<1>2. CASE /\ node' = iumfs_add_entry_to_dir(dir[t], op[t].name, node[vp[t]].id)
           /\ Goto(t, "ref") /\ UNCHANGED <<vp, todo>>
  BY <1>1, <1>2, LinkedCalm, CalmKeeps
<1>3. CASE /\ UNCHANGED node /\ op[t].call \in {"new", "mkdir"}
           /\ ReturnAfter(t, <<vp[t]>>)
  BY <1>1, <1>3, LinkGivesBack, GivingBackKeeps
<1>4. CASE /\ UNCHANGED node /\ Goto(t, LookupFailed(t))
           /\ vp' = [vp EXCEPT ![t] = NoVnode] /\ UNCHANGED todo
  <2>1. \A s \in Threads : s # t => vp'[s] = vp[s]
    BY <1>4 DEF TypeInv, HandsTyped
  <2> QED
    BY <1>1, <1>4, <2>1, FailsCalmly, CalmKeeps DEF At
<1> QED
  BY <1>2, <1>3, <1>4 DEF Link

LEMMA AllocsKeep ==
  ASSUME OwnGivenOnce, TypeInv, TypeInv', CountInv, NEW t \in Threads,
         AllocFile(t) \/ AllocNew(t) \/ iumfs_make_directory(t)
  PROVE  CountInv'
<1>1. CASE AllocFile(t)
  BY <1>1, AllocKeeps DEF AllocFile, At, umount
<1>2. CASE AllocNew(t)
  BY <1>2, AllocKeeps DEF AllocNew, At, umount
<1>3. CASE iumfs_make_directory(t)
  <2>1. pc[t] = "allocDir" /\ UNCHANGED <<disk, mount, dir, res, todo>>
    BY <1>3 DEF iumfs_make_directory, At, umount
  <2>2. CASE Alloc(t, "dir", op[t].found) /\ Goto(t, "dots")
    BY <2>1, <2>2, AllocKeeps
  <2>3. CASE Goto(t, LookupFailed(t)) /\ UNCHANGED <<fs, vp>>
    BY <2>1, <2>3, FailsCalmly, CalmKeeps DEF fs
  <2> QED
    BY <1>3, <2>2, <2>3 DEF iumfs_make_directory
<1> QED
  BY <1>1, <1>2, <1>3

LEMMA AskRemovesKeeps ==
  ASSUME TypeInv, TypeInv', CountInv, NEW t \in Threads, AskRemove(t) \/ AskRmdir(t)
  PROVE  CountInv'
  BY AskRemoves, RemovingKeeps

\* A thread leaves the walk of iumfs_unmount alone.
LEMMA ThreadsDoNotUnmount ==
  ASSUME NEW t, Root(t) \/ Chdir(t) \/ Close(t) \/ Leave(t) \/ Call(t) \/ Step(t)
  PROVE  UNCHANGED umount
  BY DEF Root, Chdir, Close, Leave, Call, Start, Step, iumfs_find_nodeid_by_name,
     iumfs_find_vnode_by_nodeid, NotCached, AskLookup, AllocFile, AllocNew, AllocFails,
     iumfs_make_directory, AddDots, SetName, Link, Ref, AskCreate, AskMkdir, AskRemove, AskRmdir,
     iumfs_dir_is_empty, GiveUp, iumfs_remove_entry_from_dir, iumfs_request_readdir, AddListed,
     VN_RELE, iumfs_inactive, Stray

\* What the threads hold and what they have in hand is all that counts.
LEMMA StillCounts ==
  ASSUME CountInv, Mounted', UNCHANGED <<list, node, pc, op, dir, res, vp, todo>>
  PROVE  /\ CountInvButUnmade' /\ Alive' = Alive
         /\ \A v : (Owned(v)' <=> Owned(v)) /\ (Begun(v)' <=> Begun(v))
<1>1. \A v : References(v)' = References(v)
  BY DEF References
<1>2. \A v : Owned(v)' <=> Owned(v)
  BY <1>1 DEF Owned
<1>3. Alive' = Alive
  BY DEF Alive
<1>4. CountIsExact' /\ NoneLost'
  BY <1>1, <1>3 DEF CountInv, CountIsExact, NoneLost
<1>5. RootStays' /\ OneMaker'
  BY <1>2, <1>3 DEF CountInv, RootStays, OneMaker
<1>6. \A t \in Threads : Called(t)' /\ EmptyHanded(t)'
  BY DEF CountInv, Called, EmptyHanded
<1>7. \A t \in Threads : Owned(vp[t])' <=> Owned(vp[t])
  BY <1>1 DEF Owned
<1>8. Made'
  BY <1>3, <1>7 DEF CountInv, Made
<1>9. \A v : Begun(v)' <=> Begun(v)
  BY <1>2 DEF Begun
<1> QED
  BY <1>2, <1>3, <1>4, <1>5, <1>6, <1>8, <1>9 DEF CountInvButUnmade

\* What is removed late was not there, or is not there any more.
LEMMA LateKeeps ==
  ASSUME TypeInv, CountInv, LateExecution
  PROVE  CountInv'
<1>1. PICK r \in late : Execute(r) /\ late' = late \ {r}
  BY DEF LateExecution
<1>2. UNCHANGED <<list, node, mount, pc, op, dir, res, vp, todo>>
  BY DEF LateExecution, fs, umount, hands
<1>3. CountInvButUnmade' /\ Alive' = Alive /\ \A v : (Owned(v)' <=> Owned(v)) /\ (Begun(v)' <=> Begun(v))
  BY <1>2, StillCounts DEF CountInv, Mounted
<1>4. \A t \in Threads : Owned(vp[t])' <=> Owned(vp[t])
  <2>1. \A t : References(vp[t])' = References(vp[t])
    BY <1>2 DEF References
  <2> QED
    BY <1>2, <2>1 DEF Owned
<1>5. LateRemoves'
  BY <1>1, LateStays DEF NoneMadeLate
<1>6. ASSUME {"create", "mkdir"} \cap Calls = {}
      PROVE  /\ Tree'
             /\ \A v \in Alive' : Begun(v)' => OnServer(node[v].path)' = "none"
  <2>1. Tree /\ \A v \in Alive : Begun(v) => OnServer(node[v].path) = "none"
    BY <1>6 DEF CountInv, Unmade
  <2>2. r.kind \in {"remove", "rmdir"} /\ r = [kind |-> r.kind, path |-> r.path]
    BY <1>6 DEF CountInv, LateRemoves, TypeInv, StateTyped, Requests
  <2>3. UNCHANGED server \/ Removes(r.path)
    BY <1>1, <2>2, RemovalExecuted
  <2>4. Tree' /\ \A q : OnServer(q) = "none" => OnServer(q)' = "none"
    BY <2>1, <2>3, TreeShrinks DEF Tree, OnServer
  <2>5. ASSUME NEW v \in Alive', Begun(v)'
        PROVE  OnServer(node[v].path)' = "none"
    <3>1. OnServer(node[v].path) = "none"
      BY <1>3, <2>1, <2>5
    <3>2. \A q : OnServer(q)' = "none" <=> (q \in Paths => server'[q] = "none")
      BY DEF OnServer
    <3>3. node[v].path \in Paths => server'[node[v].path] = "none"
      BY <2>4, <3>1, <3>2
    <3> QED
      BY <1>2, <3>3 DEF OnServer
  <2> QED
    BY <2>4, <2>5
<1>7. Unmade'
  BY <1>2, <1>3, <1>4, <1>6 DEF CountInv, Unmade
<1> QED
  BY <1>3, <1>5, <1>7 DEF CountInv, CountInvButUnmade

\* Until unmount begins to free.
LEMMA CountStep ==
  ASSUME OwnGivenOnce, TypeInv, CountInv, [Next]_vars, Mounted'
  PROVE  CountInv'
<1>1. TypeInv'
  BY TypeStep
<1>2. ASSUME NEW t \in Threads, Root(t) \/ Chdir(t) \/ Close(t) \/ Leave(t) \/ Call(t)
      PROVE  CountInv'
  BY <1>1, <1>2, RootCalm, ChdirCalm, CloseCalm, LeaveCalm, CallCalm, CalmKeeps
<1>3. ASSUME NEW t \in Threads, Step(t)
      PROVE  CountInv'
  <2>1. CASE iumfs_find_nodeid_by_name(t) \/ iumfs_find_vnode_by_nodeid(t) \/ NotCached(t)
             \/ AskLookup(t) \/ AllocFails(t) \/ Ref(t)
    BY <1>1, <2>1, FindCalm, GetCalm, NotCachedCalm, AskLookupCalm, AllocFailsCalm, RefCalm,
       CalmKeeps
  <2>2. CASE AskCreate(t) \/ AskMkdir(t) \/ iumfs_dir_is_empty(t) \/ GiveUp(t)
             \/ iumfs_request_readdir(t) \/ AddListed(t) \/ VN_RELE(t) \/ Stray(t)
    BY <1>1, <2>2, AskMakeCalm, EmptyCalm, GiveUpCalm, ListCalm, AddCalm, ReleCalm, StrayCalm,
       CalmKeeps
  <2>3. CASE AllocFile(t) \/ AllocNew(t) \/ iumfs_make_directory(t)
    BY <1>1, <2>3, AllocsKeep
  <2>4. CASE AddDots(t) \/ SetName(t) \/ Link(t)
    BY <1>1, <2>4, AddDotsCalm, CalmKeeps, SetNameKeeps, LinkKeeps
  <2>5. CASE AskRemove(t) \/ AskRmdir(t)
    BY <1>1, <2>5, AskRemovesKeeps
  <2>6. CASE iumfs_remove_entry_from_dir(t) \/ iumfs_inactive(t)
    BY <1>1, <2>6, UnlinkKeeps, InactiveKeeps
  <2> QED
    BY <1>3, <2>1, <2>2, <2>3, <2>4, <2>5, <2>6 DEF Step
<1>4. CASE \/ Unmount \/ UnmountNext \/ UnmountCheck \/ iumfs_free_all_node \/ UnmountStray
           \/ UNCHANGED vars
  <2>1. UNCHANGED <<disk, list, node, pc, op, dir, res, vp, todo>>
    BY <1>4 DEF CountInv, Mounted, Unmount, UnmountNext, UnmountCheck, iumfs_free_all_node,
                UnmountStray, vars, disk, fs, hands
  <2>2. /\ CountInvButUnmade' /\ Alive' = Alive
        /\ \A v : (Owned(v)' <=> Owned(v)) /\ (Begun(v)' <=> Begun(v))
    BY <2>1, StillCounts
  <2>3. \A t \in Threads : Owned(vp[t])' <=> Owned(vp[t])
    <3>1. \A t : References(vp[t])' = References(vp[t])
      BY <2>1 DEF References
    <3> QED
      BY <2>1, <3>1 DEF Owned
  <2>4. /\ Tree' <=> Tree
        /\ \A v : OnServer(node[v].path)' = OnServer(node[v].path)
    BY <2>1, DiskSame DEF OnServer, Tree
  <2>5. Unmade'
    BY <2>1, <2>2, <2>3, <2>4 DEF CountInv, Unmade
  <2>6. LateRemoves'
    BY <2>1, DiskSame, LateStays
  <2> QED
    BY <2>2, <2>5, <2>6 DEF CountInv, CountInvButUnmade
<1>5. CASE LateExecution
  BY <1>5, LateKeeps
<1> QED
  BY <1>2, <1>3, <1>4, <1>5 DEF Next

\* At the start the server has whole paths.
LEMMA TreeInit ==
  ASSUME Init
  PROVE  Tree
<1>1. ASSUME NEW p \in Paths, server[p] # "none", NEW k \in 0 .. Len(p) - 1
      PROVE  server[SubSeq(p, 1, k)] = "dir"
  <2>1. p \in Seq(Names) /\ Len(p) \in Nat
    BY PathIs
  <2>2. k \in 0 .. Len(p) /\ p # RootPath
    BY <2>1 DEF RootPath
  <2>3. p \in DOMAIN Disk
    BY <1>1, <2>2 DEF Init
  <2>4. SubSeq(p, 1, k) \in Paths /\ SubSeq(p, 1, 0) = RootPath
    BY <2>2, PathBegins
  <2>5. CASE k = 0
    BY <2>4, <2>5 DEF Init
  <2>6. CASE k # 0
    <3>1. k \in 1 .. Len(p) - 1
      BY <2>1, <2>6
    <3>2. SubSeq(p, 1, k) \in DOMAIN Disk /\ Disk[SubSeq(p, 1, k)] = "dir"
      BY <2>3, <3>1, NodesAssumption
    <3>3. SubSeq(p, 1, k) # RootPath
      BY <3>2, NodesAssumption
    <3> QED
      BY <2>4, <3>2, <3>3 DEF Init
  <2> QED
    BY <2>5, <2>6
<1> QED
  BY <1>1 DEF Tree

LEMMA CountInit ==
  ASSUME Init
  PROVE  CountInv
<1>1. RootV \in Vnodes /\ Alive = {RootV}
  <2>1. RootV \in Vnodes
    BY NodesAssumption DEF RootV, Vnodes
  <2>2. DOMAIN list = {1} /\ list[1] = RootV
    BY DEF Init
  <2> QED
    BY <2>1, <2>2 DEF Alive
<1>2. ASSUME NEW v \in Vnodes
      PROVE  References(v) = 0
  <2>1. v # NoVnode
    BY DEF Vnodes, NoVnode
  <2>2. InDir(v) = {} /\ InRes(v) = {} /\ InVp(v) = {}
    BY <2>1 DEF Init, InDir, InRes, InVp
  <2>3. InTodo(v) = {}
    <3>1. \A t \in Threads : todo[t] = <<>>
      BY DEF Init
    <3>2. ASSUME NEW x \in Threads \X {1, 2}, x[2] \in DOMAIN todo[x[1]]
          PROVE  FALSE
      <4>1. todo[x[1]] = <<>>
        BY <3>1
      <4> QED
        BY <3>2, <4>1
    <3> QED
      BY <3>2 DEF InTodo
  <2> QED
    BY <2>2, <2>3, RefsAre, FS_EmptySet
<1>3. node[RootV].count = 1 /\ node[RootV].id = 1
  BY <1>1 DEF Init, NewNode
<1>4. \A v \in Vnodes, n \in Names : node[v].entries[n] # 1
  <2>1. ASSUME NEW v \in Vnodes, NEW n \in Names
        PROVE  node[v].entries[n] = NoId
    <3>1. n # ".." /\ n \in Entries
      BY NodesAssumption DEF Entries
    <3>2. CASE v = RootV
      <4>1. node[v].entries = [NoEntries EXCEPT ![".."] = MountedOn]
        BY <1>1, <3>2 DEF Init, NewNode
      <4> QED
        BY <3>1, <4>1 DEF NoEntries
    <3>3. CASE v # RootV
      BY <3>1, <3>3 DEF Init, NoNode, NewNode, NoEntries
    <3> QED
      BY <3>2, <3>3
  <2> QED
    BY <2>1 DEF NoId
<1>5. Owned(RootV) /\ CountIsExact /\ NoneLost
  BY <1>1, <1>2, <1>3 DEF Owned, CountIsExact, NoneLost
<1>6. \A t \in Threads : pc[t] = "idle" /\ op[t] = NoOp
  BY DEF Init
<1>7. RootStays
  BY <1>1, <1>3, <1>4, <1>5, <1>6, NodesAssumption DEF RootStays, NoOp, Held, Fresh
<1>8. OneMaker /\ \A t \in Threads : Called(t) /\ EmptyHanded(t)
  BY <1>6 DEF OneMaker, Called, Permitted, EmptyHanded, Fresh, Making, Searching, NoOp
<1>9. Tree
  BY TreeInit
<1>10. Unmade /\ LateRemoves /\ Made
  <2>1. \A v \in Alive : ~Begun(v)
    BY <1>1, <1>5, <1>6 DEF Begun
  <2> QED
    BY <1>6, <1>9, <2>1 DEF Unmade, LateRemoves, Made, Init
<1> QED
  BY <1>5, <1>7, <1>8, <1>10 DEF CountInv, Init, Mounted

\* Without unmount.
CountMounted == CountInv /\ mount = "mounted"

LEMMA MountedStep ==
  ASSUME OnceGivenBack, TypeInv, CountMounted, [Next]_vars
  PROVE  CountMounted'
<1>1. mount' = "mounted"
  <2>1. ASSUME NEW t \in Threads, Root(t) \/ Chdir(t) \/ Close(t) \/ Leave(t) \/ Call(t) \/ Step(t)
        PROVE  UNCHANGED mount
    BY <2>1, ThreadsDoNotUnmount DEF umount
  <2> QED
    BY <2>1 DEF OnceGivenBack, CountMounted, Next, LateExecution, umount, Unmount, UnmountNext,
                UnmountCheck, iumfs_free_all_node, UnmountStray, vars
<1> QED
  BY <1>1, CountStep DEF OnceGivenBack, CountMounted, Mounted

LEMMA CountInvariant ==
  ASSUME OnceGivenBack
  PROVE  Spec => [](TypeInv /\ CountMounted)
<1>1. Init => TypeInv /\ CountMounted
  BY InitTyped, CountInit DEF CountMounted, Init
<1>2. TypeInv /\ CountMounted /\ [Next]_vars => (TypeInv /\ CountMounted)'
  BY TypeStep, MountedStep
<1> QED
  BY <1>1, <1>2, PTL DEF Spec

\* v_count counts the references to a vnode and its own, exactly, whatever the
\* threads look up and release, whatever fails, as long as nothing is made while
\* something is removed.
THEOREM CountsExact == OnceGivenBack => (Spec => []CountIsExact)
<1>1. SUFFICES ASSUME OnceGivenBack
               PROVE  Spec => []CountIsExact
  OBVIOUS
<1>2. TypeInv /\ CountMounted => CountIsExact
  BY DEF CountMounted, CountInv
<1> QED
  BY <1>1, <1>2, CountInvariant, PTL

\* Under the same condition iumfs_free_node frees only vnodes that no thread refers
\* to any more.
THEOREM FreedUnreferenced == OnceGivenBack => (Spec => FreedOnlyUnreferenced)
<1>1. SUFFICES ASSUME OnceGivenBack
               PROVE  Spec => FreedOnlyUnreferenced
  OBVIOUS
<1>2. (TypeInv /\ CountMounted) /\ (TypeInv /\ CountMounted)' =>
        [\A v \in Alive \ {list'[i] : i \in DOMAIN list'} : References(v)' = 0]_vars
  <2>1. SUFFICES ASSUME TypeInv, TypeInv', CountMounted',
                        NEW v \in Alive \ {list'[i] : i \in DOMAIN list'}
                 PROVE  References(v)' = 0
    OBVIOUS
  <2>2. v \in Vnodes /\ v \notin Alive'
    BY <2>1, AliveTyped DEF TypeInv, StateTyped, Alive
  <2> QED
    BY <2>1, <2>2 DEF CountMounted, CountInv, NoneLost
<1>3. Spec => [](TypeInv /\ CountMounted)
  BY <1>1, CountInvariant
<1> QED
  BY <1>2, <1>3, PTL DEF FreedOnlyUnreferenced

-----------------------------------------------------------------------------
(***************************************************************************)
(* What rmdir takes out of the tree.  A directory that the server has      *)
(* removed comes back only by mkdir; where nobody calls that, nothing can  *)
(* exist below it while rmdir takes its entry away.                        *)
(***************************************************************************)
\* A vnode is named by one thread, and has no path until then.
OneNamer ==
  \A s, t \in Threads :
    pc[s] \in {"dots", "name"} /\ pc[t] \in {"dots", "name"} /\ vp[s] = vp[t] => s = t
Unnamed == \A t \in Threads : pc[t] \in {"dots", "name"} => node[vp[t]].path = RootPath

\* What is being unlinked is no directory on the server any more.
TakenAway ==
  \A t \in Threads : pc[t] = "unlink" /\ vp[t] \in Alive => OnServer(node[vp[t]].path) # "dir"

LossInv ==
  /\ Tree /\ OneNamer /\ Unnamed /\ TakenAway
  /\ \A t \in Threads : pc[t] # "askMkdir"
  /\ \A r \in late : r.kind # "mkdir"

Naming == {"dots", "name", "unlink", "askMkdir"}

\* No thread comes to a step that LossInv is about.
NobodyArrives ==
  \A s \in Threads : pc'[s] \in Naming =>
    vp'[s] = vp[s] /\ (pc'[s] = pc[s] \/ (pc[s] = "dots" /\ pc'[s] = "name"))

\* No vnode gets a path, or comes to the list.
PathsStay ==
  /\ Alive' \subseteq Alive
  /\ \A v \in Vnodes : \/ node'[v].path = node[v].path
                       \/ v \notin Alive' /\ node'[v].path = RootPath

LEMMA LossKept ==
  ASSUME TypeInv, LossInv, UNCHANGED disk, PathsStay, NobodyArrives
  PROVE  LossInv'
<1>1. Tree' /\ \A p : OnServer(p)' = OnServer(p)
  BY DiskSame DEF LossInv, Tree, OnServer
<1>2. OneNamer' /\ \A t \in Threads : pc'[t] # "askMkdir"
  BY DEF LossInv, OneNamer, NobodyArrives, Naming
<1>3. ASSUME NEW t \in Threads, pc'[t] \in {"dots", "name"}
      PROVE  node'[vp'[t]].path = RootPath
  BY <1>3 DEF LossInv, Unnamed, NobodyArrives, Naming, PathsStay, TypeInv, AtWork, Fresh
<1>4. ASSUME NEW t \in Threads, pc'[t] = "unlink", vp'[t] \in Alive'
      PROVE  OnServer(node[vp[t]].path)' # "dir"
  <2>1. /\ pc[t] = "unlink" /\ vp'[t] = vp[t] /\ vp[t] \in Alive /\ vp[t] \in Vnodes
        /\ node'[vp[t]].path = node[vp[t]].path
    BY <1>4 DEF NobodyArrives, Naming, PathsStay, TypeInv, AtWork, Held
  <2>2. OnServer(node[vp[t]].path) # "dir"
    BY <2>1 DEF LossInv, TakenAway
  <2> QED
    BY <2>1, <2>2, DiskSame DEF OnServer
<1> QED
  BY <1>1, <1>2, <1>3, <1>4, DiskSame DEF LossInv, Unnamed, TakenAway

\* A thread goes to another step.
LEMMA Elsewhere ==
  ASSUME TypeInv, NEW t \in Threads, NEW l \in Pcs \ Naming, Goto(t, l),
         \A s \in Threads : s # t => vp'[s] = vp[s]
  PROVE  NobodyArrives
<1>1. pc'[t] = l /\ \A s \in Threads : s # t => pc'[s] = pc[s]
  BY GotoMoves DEF TypeInv
<1> QED
  BY <1>1 DEF NobodyArrives

LEMMA Returning ==
  ASSUME TypeInv, NEW t \in Threads, (\E v : Return(t, v)) \/ (\E s : ReturnAfter(t, s))
  PROVE  NobodyArrives
<1>1. \A s \in Threads : s # t => vp'[s] = vp[s]
  BY DEF Return, ReturnAfter, TypeInv, HandsTyped
<1>2. \E l \in Pcs \ Naming : Goto(t, l)
  BY DEF Return, ReturnAfter, Pcs, Naming
<1> QED
  BY <1>1, <1>2, Elsewhere

LEMMA PathsStaySame ==
  ASSUME UNCHANGED fs
  PROVE  PathsStay
  BY DEF fs, PathsStay, Alive

\* Counts and entries change, not paths.
LEMMA PathsStayBeside ==
  ASSUME TypeInv, UNCHANGED list, NEW v \in Vnodes,
         \/ \E c : node' = [node EXCEPT ![v].count = c]
         \/ \E n, i : node' = [node EXCEPT ![v].entries[n] = i]
  PROVE  PathsStay
<1>1. \A w \in Vnodes : node'[w].path = node[w].path
  <2>1. node \in [Vnodes -> NodeRecords]
    BY DEF TypeInv, StateTyped
  <2>2. CASE \E c : node' = [node EXCEPT ![v].count = c]
    BY <2>1, <2>2 DEF NodeRecords
  <2>3. CASE \E n, i : node' = [node EXCEPT ![v].entries[n] = i]
    BY <2>1, <2>3 DEF NodeRecords
  <2> QED
    BY <2>2, <2>3
<1> QED
  BY <1>1 DEF PathsStay, Alive

\* iumfs_free_node takes a vnode from the list.
LEMMA FreeLosesNothing ==
  ASSUME TypeInv, NEW v \in Alive, iumfs_free_node(v)
  PROVE  PathsStay
<1>1. v \in Vnodes /\ list \in Seq(Vnodes) /\ Once
  BY AliveTyped DEF TypeInv, StateTyped
<1>2. CASE Drop(v) /\ UNCHANGED list
  BY <1>1, <1>2, PathsStayBeside DEF Drop
<1>3. CASE list' = RemoveAt(list, Position(v)) /\ node' = [node EXCEPT ![v] = NoNode]
  <2>1. Alive' = Alive \ {v}
    BY <1>1, <1>3, Removed
  <2>2. \A w \in Vnodes : node'[w] = IF w = v THEN NoNode ELSE node[w]
    BY <1>3 DEF TypeInv, StateTyped
  <2>3. NoNode.path = RootPath
    BY DEF NoNode, NewNode
  <2> QED
    BY <2>1, <2>2, <2>3 DEF PathsStay
<1> QED
  BY <1>2, <1>3 DEF iumfs_free_node

LEMMA GoesBetween ==
  ASSUME TypeInv, NEW t \in Threads,
         Root(t) \/ Chdir(t) \/ Close(t) \/ Leave(t)
  PROVE  PathsStay /\ NobodyArrives /\ UNCHANGED disk
<1>1. CASE Root(t)
  <2>1. PathsStay
    <3>1. RootV \in Vnodes
      BY NodesAssumption DEF RootV, Vnodes
    <3> QED
      BY <1>1, <3>1, PathsStayBeside DEF Root, VN_HOLD
  <2> QED
    BY <1>1, <2>1 DEF Root, NobodyArrives
<1>2. CASE Chdir(t) \/ Close(t) \/ Leave(t)
  BY <1>2, PathsStaySame, Returning DEF Chdir, Close, Leave
<1> QED
  BY <1>1, <1>2

LEMMA StartLosesNothing ==
  ASSUME TypeInv, "mkdir" \notin Calls, NEW t \in Threads, Call(t)
  PROVE  PathsStay /\ NobodyArrives /\ UNCHANGED disk
<1>1. PICK c \in AllCalls, n \in Entries : Start(t, c, n)
  BY DEF Call, AllCalls, Entries
<1>2. PICK o : Go(t, CASE c = "mkdir" -> "askMkdir" [] c = "readdir" -> "list" [] OTHER -> "find", o)
  BY <1>1 DEF Start
<1>3. c # "mkdir" /\ UNCHANGED <<disk, fs, vp>>
  BY <1>1 DEF Start, hands
<1>4. pc' = [pc EXCEPT ![t] = IF c = "readdir" THEN "list" ELSE "find"]
  BY <1>2, <1>3 DEF Go
<1>5. NobodyArrives
  BY <1>3, <1>4 DEF NobodyArrives, Naming, TypeInv, HandsTyped
<1> QED
  BY <1>3, <1>5, PathsStaySame


\* A step that only goes to another one.
LEMMA GoingLosesNothing ==
  ASSUME TypeInv, NEW t \in Threads, NEW l \in Pcs \ Naming, Goto(t, l),
         UNCHANGED <<disk, fs, vp>>
  PROVE  PathsStay /\ NobodyArrives /\ UNCHANGED disk
  BY Elsewhere, PathsStaySame

LEMMA SearchLosesNothing ==
  ASSUME TypeInv, NEW t \in Threads,
         iumfs_find_nodeid_by_name(t) \/ iumfs_find_vnode_by_nodeid(t)
  PROVE  PathsStay /\ NobodyArrives /\ UNCHANGED disk
<1>1. CASE iumfs_find_nodeid_by_name(t)
  <2>1. PICK l \in {"noent", "get"} : \E o : Go(t, l, o)
    BY <1>1 DEF iumfs_find_nodeid_by_name
  <2>2. UNCHANGED <<disk, fs, vp>>
    BY <1>1 DEF iumfs_find_nodeid_by_name, hands
  <2>3. NobodyArrives
    BY <2>1, <2>2 DEF Go, NobodyArrives, Naming, TypeInv, HandsTyped
  <2> QED
    BY <2>2, <2>3, PathsStaySame
<1>2. CASE iumfs_find_vnode_by_nodeid(t)
  <2>1. UNCHANGED <<disk, list>>
    BY <1>2, Takes
  <2>2. CASE Goto(t, "noent") /\ UNCHANGED <<node, res, vp, todo>>
    <3>1. "noent" \in Pcs \ Naming
      BY DEF Pcs, Naming
    <3> QED
      BY <2>1, <2>2, <3>1, GoingLosesNothing DEF fs
  <2>3. ASSUME NEW v \in Alive, Taken(t, v)
        PROVE  PathsStay /\ NobodyArrives
    <3>1. v \in Vnodes
      BY AliveTyped DEF TypeInv, StateTyped
    <3>2. PathsStay
      BY <2>1, <2>3, <3>1, PathsStayBeside DEF Taken, VN_HOLD
    <3>3. CASE \E l \in {"askRemove", "empty", "giveUp"} : Goto(t, l) /\ vp' = [vp EXCEPT ![t] = v]
      <4>1. {"askRemove", "empty", "giveUp"} \subseteq Pcs \ Naming
        BY DEF Pcs, Naming
      <4>2. \A s \in Threads : s # t => vp'[s] = vp[s]
        BY <3>3 DEF TypeInv, HandsTyped
      <4> QED
        BY <3>2, <3>3, <4>1, <4>2, Elsewhere
    <3> QED
      BY <2>3, <3>2, <3>3, Returning DEF Taken
  <2> QED
    BY <1>2, <2>1, <2>2, <2>3, Takes
<1> QED
  BY <1>1, <1>2

\* The requests that change nothing, and what follows them.
LEMMA AskingLosesNothing ==
  ASSUME TypeInv, NEW t \in Threads,
         \/ NotCached(t) \/ AskLookup(t) \/ AllocFails(t) \/ iumfs_dir_is_empty(t)
         \/ Stray(t)
  PROVE  PathsStay /\ NobodyArrives /\ UNCHANGED disk
<1>1. {"idle", "askLookup", "askCreate", "allocDir", "allocFile", "askRmdir", "giveUp", "wild"}
        \subseteq Pcs \ Naming
  BY DEF Pcs, Naming
<1>2. UNCHANGED <<disk, fs, vp>>
  BY DEF NotCached, AskLookup, AllocFails, iumfs_dir_is_empty, Stray, hands
<1>3. LookupFailed(t) \in {"idle", "askCreate"}
  BY DEF LookupFailed
<1>4. \E l \in {"idle", "askLookup", "askCreate", "allocDir", "allocFile", "askRmdir", "giveUp",
               "wild"} : Goto(t, l)
  <2>1. CASE NotCached(t) \/ iumfs_dir_is_empty(t) \/ Stray(t)
    BY <2>1 DEF NotCached, iumfs_dir_is_empty, Stray
  <2>2. CASE AskLookup(t)
    BY <1>3, <2>2 DEF AskLookup
  <2>3. CASE AllocFails(t)
    BY <1>3, <2>3 DEF AllocFails
  <2> QED
    BY <2>1, <2>2, <2>3
<1> QED
  BY <1>1, <1>2, <1>4, GoingLosesNothing

\* The last steps of making a vnode.
LEMMA LinkLosesNothing ==
  ASSUME TypeInv, NEW t \in Threads, Link(t) \/ Ref(t)
  PROVE  PathsStay /\ NobodyArrives /\ UNCHANGED disk
<1>1. /\ dir[t] \in Vnodes /\ vp[t] \in Vnodes /\ UNCHANGED <<disk, list>>
      /\ {"idle", "askCreate", "ref"} \subseteq Pcs \ Naming
  BY DEF TypeInv, Link, Ref, At, AtWork, Fresh, Releasing, Pcs, Naming
<1>2. CASE Ref(t)
  <2>1. PathsStay
    BY <1>1, <1>2, PathsStayBeside DEF Ref, VN_HOLD
  <2> QED
    BY <1>1, <1>2, <2>1, Returning DEF Ref
<1>3. CASE Link(t)
  <2>1. CASE /\ node' = iumfs_add_entry_to_dir(dir[t], op[t].name, node[vp[t]].id)
             /\ Goto(t, "ref") /\ UNCHANGED vp
    <3>1. PathsStay
      BY <1>1, <2>1, PathsStayBeside, PathsStaySame DEF iumfs_add_entry_to_dir, fs
    <3> QED
      BY <1>1, <2>1, <3>1, Elsewhere
  <2>2. CASE UNCHANGED node /\ ReturnAfter(t, <<vp[t]>>)
    BY <1>1, <2>2, Returning, PathsStaySame DEF fs
  <2>3. CASE UNCHANGED node /\ Goto(t, LookupFailed(t)) /\ vp' = [vp EXCEPT ![t] = NoVnode]
    <3>1. LookupFailed(t) \in Pcs \ Naming
      BY <1>1 DEF LookupFailed
    <3>2. \A s \in Threads : s # t => vp'[s] = vp[s]
      BY <2>3 DEF TypeInv, HandsTyped
    <3> QED
      BY <1>1, <2>3, <3>1, <3>2, Elsewhere, PathsStaySame DEF fs
  <2> QED
    BY <1>3, <2>1, <2>2, <2>3 DEF Link
<1> QED
  BY <1>2, <1>3

LEMMA DotsLoseNothing ==
  ASSUME TypeInv, NEW t \in Threads, AddDots(t)
  PROVE  PathsStay /\ NobodyArrives /\ UNCHANGED disk
<1>1. /\ pc[t] = "dots" /\ vp[t] \in Vnodes /\ UNCHANGED <<disk, list, vp>>
      /\ {"name", "wild"} \subseteq Pcs
  BY DEF TypeInv, AddDots, At, AtWork, Fresh, Pcs, hands
<1>2. PathsStay
  BY <1>1, PathsStayBeside, PathsStaySame DEF AddDots, iumfs_add_entry_to_dir, fs
<1>3. pc'[t] \in {"name", "wild"} /\ \A s \in Threads : s # t => pc'[s] = pc[s]
  BY <1>1, GotoMoves DEF AddDots, TypeInv
<1> QED
  BY <1>1, <1>2, <1>3 DEF NobodyArrives, Naming

LEMMA UnlinkLosesNothing ==
  ASSUME TypeInv, NEW t \in Threads, GiveUp(t) \/ iumfs_remove_entry_from_dir(t)
  PROVE  PathsStay /\ NobodyArrives /\ UNCHANGED disk
<1>1. dir[t] \in Vnodes /\ UNCHANGED <<disk, list>>
  BY DEF TypeInv, GiveUp, iumfs_remove_entry_from_dir, At, AtWork, Releasing, fs
<1>2. CASE GiveUp(t)
  BY <1>2, Returning, PathsStaySame DEF GiveUp
<1>3. CASE iumfs_remove_entry_from_dir(t)
  <2>1. PathsStay
    BY <1>1, <1>3, PathsStayBeside, PathsStaySame DEF iumfs_remove_entry_from_dir, fs
  <2> QED
    BY <1>1, <1>3, <2>1, Returning DEF iumfs_remove_entry_from_dir
<1> QED
  BY <1>2, <1>3

LEMMA ReaddirLosesNothing ==
  ASSUME TypeInv, NEW t \in Threads, iumfs_request_readdir(t) \/ AddListed(t)
  PROVE  PathsStay /\ NobodyArrives /\ UNCHANGED disk
<1>1. /\ dir[t] \in Vnodes /\ UNCHANGED <<disk, list, vp>>
      /\ {"idle", "add"} \subseteq Pcs \ Naming
  BY DEF TypeInv, iumfs_request_readdir, AddListed, At, AtWork, Releasing, fs, hands, Pcs, Naming
<1>2. ASSUME NEW o, Go(t, "add", o)
      PROVE  NobodyArrives
  BY <1>1, <1>2 DEF Go, NobodyArrives, Naming, TypeInv, HandsTyped
<1>3. CASE iumfs_request_readdir(t)
  BY <1>1, <1>2, <1>3, Elsewhere, PathsStaySame DEF iumfs_request_readdir
<1>4. CASE AddListed(t)
  <2>1. PathsStay
    BY <1>1, <1>4, PathsStayBeside, PathsStaySame DEF AddListed, iumfs_add_entry_to_dir, fs
  <2> QED
    BY <1>1, <1>2, <1>4, <2>1, Elsewhere DEF AddListed
<1> QED
  BY <1>3, <1>4

\* The releases.
LEMMA ReleaseLosesNothing ==
  ASSUME TypeInv, NEW t \in Threads, VN_RELE(t) \/ iumfs_inactive(t)
  PROVE  PathsStay /\ NobodyArrives /\ UNCHANGED disk
<1>1. /\ UNCHANGED <<disk, vp>> /\ {"idle", "rele", "inactive"} \subseteq Pcs \ Naming
      /\ pc[t] \in Releasing /\ Touched(t) \subseteq Alive
  BY DEF VN_RELE, iumfs_inactive, At, Releasing, Pcs, Naming
<1>2. NobodyArrives
  <2>1. ReleaseDone(t) \/ Goto(t, "inactive")
    BY DEF VN_RELE, iumfs_inactive
  <2> QED
    BY <1>1, <2>1, Elsewhere DEF ReleaseDone
<1>3. Head(todo[t]) \in Alive /\ Head(todo[t]) \in Vnodes
  <2>1. todo[t] \in Seq(Vnodes) /\ todo[t] # <<>>
    BY <1>1 DEF TypeInv, HandsTyped, AtWork
  <2>2. 1 \in DOMAIN todo[t] /\ Head(todo[t]) = todo[t][1] /\ todo[t][1] \in Vnodes
    BY <2>1
  <2>3. todo[t][1] # NoVnode
    BY <2>2 DEF NoVnode, Vnodes
  <2> QED
    BY <1>1, <2>2, <2>3 DEF Touched
<1>4. PathsStay
  <2>1. CASE VN_RELE(t)
    BY <1>3, <2>1, PathsStayBeside, PathsStaySame DEF VN_RELE, Drop, fs
  <2>2. CASE iumfs_inactive(t)
    BY <1>3, <2>2, FreeLosesNothing, PathsStaySame DEF iumfs_inactive
  <2> QED
    BY <2>1, <2>2
<1> QED
  BY <1>1, <1>2, <1>4

\* Unmount.
LEMMA UnmountLosesNothing ==
  ASSUME TypeInv, Unmount \/ UnmountNext \/ UnmountCheck \/ iumfs_free_all_node \/ UnmountStray
  PROVE  PathsStay /\ NobodyArrives /\ UNCHANGED disk
<1>1. UNCHANGED <<disk, pc, vp>>
  BY DEF Unmount, UnmountNext, UnmountCheck, iumfs_free_all_node, UnmountStray, hands
<1>2. CASE UNCHANGED fs
  BY <1>1, <1>2, PathsStaySame DEF NobodyArrives
<1>3. CASE list # <<>> /\ iumfs_free_node(Head(list))
  <2>1. list \in Seq(Vnodes)
    BY DEF TypeInv, StateTyped
  <2>2. 1 \in DOMAIN list /\ Head(list) = list[1]
    BY <1>3, <2>1
  <2> QED
    BY <1>1, <1>3, <2>2, FreeLosesNothing DEF NobodyArrives, Alive
<1> QED
  BY <1>2, <1>3 DEF Unmount, UnmountNext, UnmountCheck, iumfs_free_all_node, UnmountStray

-----------------------------------------------------------------------------
(***************************************************************************)
(* The steps that LossInv is about.                                        *)
(***************************************************************************)
\* A file is made in a directory.
LEMMA TreeGrows ==
  ASSUME TypeInv, Tree, NEW p \in Paths, p # RootPath, server[p] # "dir",
         OnServer(Parent(p)) = "dir", server' = [server EXCEPT ![p] = "file"]
  PROVE  Tree' /\ \A q : OnServer(q)' = "dir" => OnServer(q) = "dir"
<1>1. \A q \in Paths : server'[q] = IF q = p THEN "file" ELSE server[q]
  BY DEF TypeInv, StateTyped
<1>2. p \in Seq(Names) /\ Len(p) \in Nat \ {0}
  BY PathIs DEF RootPath
<1>3. Parent(p) \in Paths /\ Len(Parent(p)) = Len(p) - 1 /\ server[Parent(p)] = "dir"
  <2>1. Len(p) - 1 \in 0 .. Len(p)
    BY <1>2
  <2> QED
    BY <2>1, PathBegins DEF Parent, OnServer
<1>4. ASSUME NEW q \in Paths, server'[q] # "none", NEW k \in 0 .. Len(q) - 1
      PROVE  server'[SubSeq(q, 1, k)] = "dir"
  <2> DEFINE b == SubSeq(q, 1, k)
  <2>1. q \in Seq(Names) /\ Len(q) \in Nat
    BY PathIs
  <2>2. b \in Paths /\ Len(b) = k
    <3>1. k \in 0 .. Len(q)
      BY <2>1
    <3> QED
      BY <3>1, PathBegins
  <2>3. b # p /\ server[b] = "dir"
    <3>1. CASE q # p
      <4>1. server[q] # "none"
        BY <1>1, <1>4, <3>1
      <4> QED
        BY <4>1 DEF Tree
    <3>2. CASE q = p /\ k = Len(p) - 1
      BY <1>2, <1>3, <2>2, <3>2 DEF Parent
    <3>3. CASE q = p /\ k # Len(p) - 1
      <4>1. k \in 0 .. Len(Parent(p)) - 1
        BY <1>2, <1>3, <3>3
      <4>2. server[SubSeq(Parent(p), 1, k)] = "dir"
        BY <1>3, <4>1 DEF Tree
      <4>3. SubSeq(Parent(p), 1, k) = SubSeq(p, 1, k)
        BY <1>2, <3>3, <4>1 DEF Parent
      <4> QED
        BY <1>2, <2>2, <3>3, <4>2, <4>3
    <3> QED
      BY <3>1, <3>2, <3>3
  <2> HIDE DEF b
  <2> QED
    BY <1>1, <2>2, <2>3 DEF b
<1>5. Tree'
  BY <1>4 DEF Tree
<1> QED
  BY <1>1, <1>5 DEF OnServer

\* The server changes, and no path becomes a directory.
LEMMA ServerLosesNothing ==
  ASSUME TypeInv, LossInv, Tree', UNCHANGED <<fs, vp>>,
         \A q : OnServer(q)' = "dir" => OnServer(q) = "dir",
         \A s \in Threads :
           \/ pc'[s] = pc[s]
           \/ /\ pc'[s] \notin {"dots", "name", "askMkdir"}
              /\ pc'[s] = "unlink" => OnServer(node[vp[s]].path)' # "dir",
         \A r \in late' : r.kind # "mkdir"
  PROVE  LossInv'
<1>1. Alive' = Alive /\ UNCHANGED node
  BY DEF fs, Alive
<1>2. OneNamer' /\ Unnamed' /\ \A s \in Threads : pc'[s] # "askMkdir"
  BY <1>1 DEF LossInv, OneNamer, Unnamed
<1>3. ASSUME NEW s \in Threads, pc'[s] = "unlink", vp'[s] \in Alive'
      PROVE  OnServer(node[vp[s]].path)' # "dir"
  <2>1. CASE pc[s] # "unlink"
    BY <1>3, <2>1
  <2>2. CASE pc[s] = "unlink"
    <3>1. OnServer(node[vp[s]].path) # "dir"
      BY <1>1, <1>3, <2>2 DEF LossInv, TakenAway
    <3>2. OnServer(node[vp[s]].path)' # "dir"
      BY <1>1, <3>1 DEF OnServer
    <3> QED
      BY <3>2
  <2> QED
    BY <2>1, <2>2
<1> QED
  BY <1>2, <1>3 DEF LossInv, TakenAway

\* Creating a file makes no directory, nor does removing anything.
LEMMA ExecutedLosesNothing ==
  ASSUME TypeInv, Tree, NEW r \in Requests, r.kind # "mkdir", Execute(r)
  PROVE  /\ Tree' /\ \A q : OnServer(q)' = "dir" => OnServer(q) = "dir"
         /\ r.kind # "create" => server' = server \/ Removes(r.path)
<1>1. r = [kind |-> r.kind, path |-> r.path] /\ r.kind \in {"create", "remove", "rmdir"}
      /\ r.path \in Seq(Names)
  BY DEF Requests
<1>2. CASE server' = server
  BY <1>2 DEF Tree, OnServer
<1>3. CASE server' # server
  <2>1. ~Process(r).refused /\ server' = Process(r).done
    BY <1>3 DEF Execute
  <2>2. CASE r.kind = "create"
    <3>1. Process(r) = process_create_request(r.path)
      BY <1>1, <2>2, Processed
    <3>2. ~process_create_request(r.path).refused /\ server' = process_create_request(r.path).done
      BY <2>1, <3>1
    <3>3. /\ r.path \in Paths /\ server[r.path] # "dir" /\ OnServer(Parent(r.path)) = "dir"
          /\ server' = [server EXCEPT ![r.path] = "file"]
      BY <3>2 DEF process_create_request, OnServer
    <3>4. r.path # RootPath
      <4>1. Parent(RootPath) = RootPath
        BY DEF Parent, RootPath
      <4> QED
        BY <3>3, <4>1 DEF OnServer
    <3> QED
      BY <2>2, <3>3, <3>4, TreeGrows
  <2>3. CASE r.kind # "create"
    <3>1. server' = server \/ Removes(r.path)
      BY <1>1, <2>3, RemovalExecuted
    <3>2. Tree' /\ server' = [server EXCEPT ![r.path] = "none"] /\ r.path \in Paths
      BY <1>3, <3>1, TreeShrinks DEF Removes
    <3>3. \A q : OnServer(q)' = "dir" => OnServer(q) = "dir"
      BY <3>2 DEF OnServer, TypeInv, StateTyped
    <3> QED
      BY <3>1, <3>2, <3>3
  <2> QED
    BY <2>2, <2>3
<1> QED
  BY <1>2, <1>3

LEMMA CreateLosesNothing ==
  ASSUME TypeInv, LossInv, NEW t \in Threads, AskCreate(t)
  PROVE  LossInv'
<1> DEFINE p == Target(t)
           r == [kind |-> "create", path |-> p]
<1>1. /\ pc[t] = "askCreate" /\ UNCHANGED <<fs, vp>>
      /\ Ask(t, "create", p, "allocNew", "idle")
      /\ {"allocNew", "idle", "askCreate"} \subseteq Pcs
  BY DEF AskCreate, At, hands, Pcs
<1>2. r \in Requests /\ r.kind = "create"
  <2>1. p \in Seq(Names)
    BY <1>1, NodesAssumption, TargetTyped DEF TypeInv, AtWork, Asking, Making, Releasing
  <2> QED
    BY <2>1 DEF Requests
<1>3. /\ \/ (Execute(r) /\ UNCHANGED late) \/ Unanswered(r) \/ UNCHANGED disk
      /\ \/ \E l \in {"allocNew", "idle"} : Goto(t, l)
         \/ UNCHANGED pc
  BY <1>1 DEF Ask
<1> HIDE DEF r, p
<1>4. pc'[t] \in {"allocNew", "idle", "askCreate"} /\ \A s \in Threads : s # t => pc'[s] = pc[s]
  BY <1>1, <1>3, GotoMoves DEF TypeInv
<1>5. Tree' /\ \A q : OnServer(q)' = "dir" => OnServer(q) = "dir"
  <2>1. CASE Execute(r)
    BY <1>2, <2>1, ExecutedLosesNothing DEF LossInv
  <2>2. CASE UNCHANGED server
    BY <2>2 DEF LossInv, Tree, OnServer
  <2> QED
    BY <1>3, <2>1, <2>2 DEF Unanswered, disk
<1>6. \A q \in late' : q.kind # "mkdir"
  BY <1>2, <1>3 DEF LossInv, Unanswered, disk
<1> QED
  BY <1>1, <1>4, <1>5, <1>6, ServerLosesNothing

LEMMA RemoveLosesNothing ==
  ASSUME TypeInv, LossInv, NEW t \in Threads, AskRemove(t) \/ AskRmdir(t)
  PROVE  LossInv'
<1>1. PICK l \in Pcs : Removing(t, l)
  BY AskRemoves
<1>2. pc'[t] = l /\ \A s \in Threads : s # t => pc'[s] = pc[s]
  BY <1>1, GotoMoves DEF Removing, TypeInv
<1>3. /\ UNCHANGED <<fs, vp>> /\ l \notin {"dots", "name", "askMkdir"}
      /\ \A r \in late' : r.kind # "mkdir"
  BY <1>1 DEF Removing, fs, NoneMadeLate, LossInv
<1>4. CASE UNCHANGED server /\ l # "unlink"
  <2>1. Tree' /\ \A q : OnServer(q)' = OnServer(q)
    BY <1>4 DEF LossInv, Tree, OnServer
  <2> QED
    BY <1>2, <1>3, <1>4, <2>1, ServerLosesNothing
<1>5. CASE Removes(node[vp[t]].path)
  <2>1. /\ Tree' /\ server' = [server EXCEPT ![node[vp[t]].path] = "none"]
        /\ node[vp[t]].path \in Paths
    BY <1>5, TreeShrinks DEF LossInv, Removes
  <2>2. \A q : OnServer(q)' = "dir" => OnServer(q) = "dir"
    BY <2>1 DEF OnServer, TypeInv, StateTyped
  <2>3. OnServer(node[vp[t]].path)' # "dir"
    BY <1>3, <2>1 DEF OnServer, TypeInv, StateTyped, fs
  <2> QED
    BY <1>2, <1>3, <2>1, <2>2, <2>3, ServerLosesNothing
<1> QED
  BY <1>1, <1>4, <1>5 DEF Removing

LEMMA LateLosesNothing ==
  ASSUME TypeInv, LossInv, LateExecution
  PROVE  LossInv'
<1>1. PICK r \in late : Execute(r) /\ late' = late \ {r}
  BY DEF LateExecution
<1>2. UNCHANGED <<fs, vp>> /\ pc' = pc
  BY DEF LateExecution, hands
<1>3. r \in Requests /\ r.kind # "mkdir"
  BY DEF TypeInv, StateTyped, LossInv
<1>4. Tree' /\ \A q : OnServer(q)' = "dir" => OnServer(q) = "dir"
  BY <1>1, <1>3, ExecutedLosesNothing DEF LossInv
<1>5. \A q \in late' : q.kind # "mkdir"
  BY <1>1 DEF LossInv
<1> QED
  BY <1>2, <1>4, <1>5, ServerLosesNothing

\* A new vnode is nobody's, and has no path.
LEMMA AllocLosesNothing ==
  ASSUME TypeInv, LossInv, NEW t \in Threads,
         AllocFile(t) \/ AllocNew(t) \/ iumfs_make_directory(t)
  PROVE  LossInv'
<1>1. pc[t] \in {"allocFile", "allocNew", "allocDir"} /\ UNCHANGED disk
      /\ {"dots", "name"} \subseteq Pcs
  BY DEF AllocFile, AllocNew, iumfs_make_directory, At, Pcs
<1>2. ASSUME NEW type \in {"file", "dir"}, NEW id \in 0 .. MaxNodeId, Alloc(t, type, id),
             NEW l \in {"dots", "name"}, NEW o, Go(t, l, o)
      PROVE  LossInv'
  <2>1. PICK v \in Unused, i \in NodeIds :
           /\ node' = [node EXCEPT ![v] = NewNode(type, i)] /\ list' = Append(list, v)
           /\ vp' = [vp EXCEPT ![t] = v]
    BY <1>2, Allocates
  <2>2. v \in Vnodes /\ \A s \in Threads : vp[s] # v
    <3>1. v \in Vnodes /\ \A s \in Threads : v \notin Touched(s)
      BY DEF Unused
    <3>2. v # NoVnode
      BY <3>1 DEF Vnodes, NoVnode
    <3> QED
      BY <3>1, <3>2 DEF Touched
  <2>3. /\ pc'[t] = l /\ vp'[t] = v
        /\ \A s \in Threads : s # t => pc'[s] = pc[s] /\ vp'[s] = vp[s]
    BY <1>2, <2>1 DEF Go, TypeInv, HandsTyped
  <2>4. /\ Alive' = Alive \cup {v}
        /\ \A w \in Vnodes : w # v => node'[w] = node[w]
        /\ node'[v].path = RootPath
    <3>1. v \in Vnodes \ Alive
      BY DEF Unused
    <3> QED
      BY <2>1, <3>1, Listed DEF TypeInv, StateTyped, NewNode
  <2>5. Tree' /\ (\A q : OnServer(q)' = OnServer(q))
    BY <1>1, DiskSame DEF LossInv, Tree, OnServer
  <2>6. OneNamer'
    BY <2>2, <2>3 DEF LossInv, OneNamer
  <2>7. ASSUME NEW s \in Threads, pc'[s] \in {"dots", "name"}
        PROVE  node'[vp'[s]].path = RootPath
    <3>1. CASE s = t
      BY <2>3, <2>4, <3>1
    <3>2. CASE s # t
      BY <2>2, <2>3, <2>4, <2>7, <3>2 DEF LossInv, Unnamed, TypeInv, AtWork, Fresh
    <3> QED
      BY <3>1, <3>2
  <2>8. ASSUME NEW s \in Threads, pc'[s] = "unlink", vp'[s] \in Alive'
        PROVE  OnServer(node[vp[s]].path)' # "dir"
    <3>1. /\ s # t /\ pc[s] = "unlink" /\ vp'[s] = vp[s] /\ vp[s] \in Alive
          /\ node'[vp[s]] = node[vp[s]]
      BY <2>2, <2>3, <2>4, <2>8 DEF TypeInv, AtWork, Held
    <3>2. OnServer(node[vp[s]].path) # "dir"
      BY <3>1 DEF LossInv, TakenAway
    <3> QED
      BY <1>1, <3>1, <3>2, DiskSame DEF OnServer
  <2>9. \A s \in Threads : pc'[s] # "askMkdir"
    BY <2>3 DEF LossInv
  <2> QED
    BY <1>1, <2>5, <2>6, <2>7, <2>8, <2>9, DiskSame DEF LossInv, Unnamed, TakenAway
<1>3. op[t].found \in 0 .. MaxNodeId /\ NoId \in 0 .. MaxNodeId
  BY <1>1, NodesAssumption DEF TypeInv, Asking, Making, NoId
<1>4. CASE AllocFile(t)
  BY <1>2, <1>3, <1>4 DEF AllocFile, Goto
<1>5. CASE AllocNew(t)
  BY <1>2, <1>3, <1>5 DEF AllocNew
<1>6. CASE iumfs_make_directory(t)
  <2>1. CASE Alloc(t, "dir", op[t].found) /\ Goto(t, "dots")
    BY <1>2, <1>3, <2>1 DEF Goto
  <2>2. CASE Goto(t, LookupFailed(t)) /\ UNCHANGED <<fs, vp>>
    <3>1. LookupFailed(t) \in Pcs \ Naming
      BY DEF LookupFailed, Pcs, Naming
    <3> QED
      BY <1>1, <2>2, <3>1, GoingLosesNothing, LossKept
  <2> QED
    BY <1>6, <2>1, <2>2 DEF iumfs_make_directory
<1> QED
  BY <1>4, <1>5, <1>6

\* Where the root is no directory nothing is one.
LEMMA RootNotDirNothing ==
  ASSUME Tree, OnServer(RootPath) # "dir", NEW p
  PROVE  OnServer(p) # "dir"
<1>1. CASE p \in Paths /\ server[p] = "dir"
  <2>1. p \in Seq(Names) /\ Len(p) \in 0 .. MaxDepth
    BY <1>1, PathIs
  <2>2. CASE Len(p) = 0
    BY <1>1, <2>1, <2>2 DEF RootPath, OnServer
  <2>3. CASE Len(p) > 0
    <3>1. 0 \in 0 .. Len(p) - 1 /\ 0 \in 0 .. Len(p)
      BY <2>1, <2>3
    <3>2. server[SubSeq(p, 1, 0)] = "dir"
      BY <1>1, <3>1 DEF Tree
    <3>3. SubSeq(p, 1, 0) = RootPath
      BY <1>1, <3>1, PathBegins
    <3> QED
      BY <3>2, <3>3, RootIsPath DEF OnServer
  <2> QED
    BY <2>1, <2>2, <2>3
<1> QED
  BY <1>1 DEF OnServer

\* A vnode is named: when somebody is unlinking it, it had no path, so the root was
\* removed from the server, and nothing is there.
LEMMA SetNameLosesNothing ==
  ASSUME TypeInv, LossInv, NEW t \in Threads, SetName(t)
  PROVE  LossInv'
<1> DEFINE v == vp[t]
<1>1. pc[t] = "name" /\ v \in Vnodes /\ UNCHANGED <<disk, list, vp>>
  BY DEF TypeInv, SetName, At, AtWork, Fresh, hands
<1>2. pc'[t] \in {"link", "ref"} /\ \A s \in Threads : s # t => pc'[s] = pc[s]
  <2>1. ASSUME NEW l \in {"link", "ref"}, Goto(t, l)
        PROVE  pc'[t] \in {"link", "ref"} /\ \A s \in Threads : s # t => pc'[s] = pc[s]
    <3>1. l \in Pcs
      BY DEF Pcs
    <3> QED
      BY <2>1, <3>1, GotoMoves DEF TypeInv
  <2> QED
    BY <2>1 DEF SetName
<1>3. \A w \in Vnodes : w # v => node'[w] = node[w]
  BY <1>1 DEF SetName, TypeInv, StateTyped
<1>4. Tree' /\ (\A q : OnServer(q)' = OnServer(q)) /\ Alive' = Alive
  BY <1>1, DiskSame DEF LossInv, Tree, OnServer, Alive
<1>5. OneNamer' /\ \A s \in Threads : pc'[s] # "askMkdir"
  BY <1>1, <1>2 DEF LossInv, OneNamer
<1>6. ASSUME NEW s \in Threads, pc'[s] \in {"dots", "name"}
      PROVE  node'[vp'[s]].path = RootPath
  <2>1. s # t /\ pc[s] \in {"dots", "name"} /\ vp'[s] = vp[s] /\ vp[s] # v /\ vp[s] \in Vnodes
    BY <1>1, <1>2, <1>6 DEF LossInv, OneNamer, TypeInv, AtWork, Fresh
  <2> QED
    BY <1>3, <2>1 DEF LossInv, Unnamed
<1>7. ASSUME NEW s \in Threads, pc'[s] = "unlink", vp'[s] \in Alive'
      PROVE  OnServer(node[vp[s]].path)' # "dir"
  <2>1. pc[s] = "unlink" /\ vp'[s] = vp[s] /\ vp[s] \in Alive /\ vp[s] \in Vnodes
    BY <1>1, <1>2, <1>4, <1>7 DEF TypeInv, AtWork, Held
  <2>2. OnServer(node[vp[s]].path) # "dir"
    BY <2>1 DEF LossInv, TakenAway
  <2>3. OnServer(node'[vp[s]].path) # "dir"
    <3>1. CASE vp[s] = v
      <4>1. OnServer(RootPath) # "dir"
        BY <1>1, <2>2, <3>1 DEF LossInv, Unnamed
      <4> QED
        BY <4>1, RootNotDirNothing DEF LossInv
    <3>2. CASE vp[s] # v
      BY <1>3, <2>1, <2>2, <3>2
    <3> QED
      BY <3>1, <3>2
  <2> QED
    BY <1>1, <2>1, <2>3, DiskSame DEF OnServer
<1> QED
  BY <1>1, <1>4, <1>5, <1>6, <1>7, DiskSame DEF LossInv, Unnamed, TakenAway

LEMMA LossStep ==
  ASSUME "mkdir" \notin Calls, TypeInv, LossInv, [Next]_vars
  PROVE  LossInv'
<1>1. ASSUME NEW t \in Threads, Root(t) \/ Chdir(t) \/ Close(t) \/ Leave(t) \/ Call(t)
      PROVE  LossInv'
  BY <1>1, GoesBetween, StartLosesNothing, LossKept
<1>2. ASSUME NEW t \in Threads, Step(t)
      PROVE  LossInv'
  <2>1. CASE iumfs_find_nodeid_by_name(t) \/ iumfs_find_vnode_by_nodeid(t)
    BY <2>1, SearchLosesNothing, LossKept
  <2>2. CASE NotCached(t) \/ AskLookup(t) \/ AllocFails(t) \/ iumfs_dir_is_empty(t) \/ Stray(t)
    BY <2>2, AskingLosesNothing, LossKept
  <2>3. CASE AddDots(t) \/ Link(t) \/ Ref(t)
    BY <2>3, DotsLoseNothing, LinkLosesNothing, LossKept
  <2>4. CASE GiveUp(t) \/ iumfs_remove_entry_from_dir(t)
    BY <2>4, UnlinkLosesNothing, LossKept
  <2>5. CASE iumfs_request_readdir(t) \/ AddListed(t)
    BY <2>5, ReaddirLosesNothing, LossKept
  <2>6. CASE VN_RELE(t) \/ iumfs_inactive(t)
    BY <2>6, ReleaseLosesNothing, LossKept
  <2>7. CASE AllocFile(t) \/ AllocNew(t) \/ iumfs_make_directory(t)
    BY <2>7, AllocLosesNothing
  <2>8. CASE SetName(t) \/ AskCreate(t) \/ AskRemove(t) \/ AskRmdir(t)
    BY <2>8, SetNameLosesNothing, CreateLosesNothing, RemoveLosesNothing
  <2>9. ~AskMkdir(t)
    BY DEF AskMkdir, At, LossInv
  <2> QED
    BY <1>2, <2>1, <2>2, <2>3, <2>4, <2>5, <2>6, <2>7, <2>8, <2>9 DEF Step
<1>3. CASE UNCHANGED vars
  <2>1. PathsStay /\ NobodyArrives /\ UNCHANGED disk
    BY <1>3, PathsStaySame DEF vars, disk, fs, NobodyArrives
  <2> QED
    BY <2>1, LossKept
<1> QED
  BY <1>1, <1>2, <1>3, UnmountLosesNothing, LateLosesNothing, LossKept DEF Next

\* Where nobody makes directories, what rmdir takes out of the tree has nothing in it
\* that exists on the server: any number of threads, files made through the vnode in the
\* meantime, requests repeated or given up, an unmount.
THEOREM NothingLost == "mkdir" \notin Calls => (Spec => []RmdirLosesNothing)
<1>1. SUFFICES ASSUME "mkdir" \notin Calls
               PROVE  Spec => []RmdirLosesNothing
  OBVIOUS
<1>2. Init => TypeInv /\ LossInv
  <2>1. Init => TypeInv
    BY InitTyped
  <2>2. Init => Tree
    BY TreeInit
  <2> QED
    BY <2>1, <2>2 DEF Init, LossInv, OneNamer, Unnamed, TakenAway
<1>3. TypeInv /\ LossInv /\ [Next]_vars => (TypeInv /\ LossInv)'
  BY <1>1, TypeStep, LossStep
<1>4. TypeInv /\ LossInv => RmdirLosesNothing
  <2>1. SUFFICES ASSUME TypeInv, LossInv, NEW t \in Threads, At(t, "unlink"),
                        NEW n \in Names, Exists(Append(node[vp[t]].path, n))
                 PROVE  FALSE
    BY DEF RmdirLosesNothing
  <2> DEFINE p == node[vp[t]].path
             q == Append(p, n)
  <2>2. vp[t] \in Vnodes /\ vp[t] \in Alive
    <3>1. vp[t] \in Vnodes /\ vp[t] # NoVnode
      BY <2>1 DEF At, TypeInv, AtWork, Held, Vnodes, NoVnode
    <3> QED
      BY <2>1, <3>1 DEF At, Touched
  <2>3. p \in Seq(Names)
    <3>1. node[vp[t]] \in NodeRecords
      BY <2>1, <2>2 DEF TypeInv, StateTyped
    <3> QED
      BY <3>1 DEF NodeRecords
  <2>4. OnServer(p) # "dir"
    BY <2>1, <2>2 DEF At, LossInv, TakenAway
  <2> HIDE DEF p
  <2>5. Len(q) = Len(p) + 1 /\ Len(p) \in Nat /\ SubSeq(q, 1, Len(p)) = p
    BY <2>3
  <2>6. q \in Paths /\ server[q] # "none"
    BY <2>1 DEF Exists, OnServer, p
  <2> HIDE DEF q
  <2>7. Len(p) \in 0 .. Len(q) - 1 /\ Len(p) \in 0 .. Len(q)
    BY <2>5
  <2>8. server[p] = "dir" /\ p \in Paths
    <3>1. server[SubSeq(q, 1, Len(p))] = "dir"
      BY <2>1, <2>6, <2>7 DEF LossInv, Tree
    <3>2. SubSeq(q, 1, Len(p)) \in Paths
      BY <2>6, <2>7, PathBegins
    <3> QED
      BY <2>5, <3>1, <3>2
  <2> QED
    BY <2>4, <2>8 DEF OnServer
<1> QED
  BY <1>2, <1>3, <1>4, PTL DEF Spec

-----------------------------------------------------------------------------
(***************************************************************************)
(* Numbers and paths.  A vnode has a number of its own, and the entries    *)
(* lead to the vnode whose path they name, as long as nobody lists a       *)
(* directory (readdir enters numbers that have no vnode yet) or looks for  *)
(* ".." (the number of another file system's node).                        *)
(***************************************************************************)
Plain == OnceGivenBack /\ {"readdir", "dotdot"} \cap Calls = {}

NothingRemoved == {"remove", "rmdir"} \cap Calls = {}

\* The vnode is made, but in no directory yet.
Unlinked(v) == \E s \in Threads : pc[s] \in {"dots", "name", "link"} /\ vp[s] = v

\* Whoever has the number has the path; and when nobody has it, nothing is there.
Stands(id, p) ==
  /\ \A v \in Alive : node[v].id = id => node[v].path = p /\ ~Unlinked(v)
  /\ \/ \E v \in Alive : node[v].id = id
     \/ ~NothingRemoved /\ ~Exists(p)

Entered ==
  \A v \in Alive, n \in Names :
    node[v].entries[n] # NoId => Stands(node[v].entries[n], Append(node[v].path, n))

\* What a thread has found still stands, and a vnode it makes gets a new number.
Sought(t) ==
  /\ pc[t] \notin {"list", "add"}
  /\ pc[t] = "get" => op[t].found # NoId /\ Stands(op[t].found, Target(t))
  /\ pc[t] \in {"noent", "askLookup"} /\ op[t].found # NoId =>
       ~NothingRemoved /\ ~Exists(Target(t))
  /\ pc[t] \in {"askMkdir", "allocFile", "allocDir", "dots", "name", "link"} => op[t].found = NoId
  /\ pc[t] = "link" /\ vp[t] \in Alive => node[vp[t]].path = Target(t)
  /\ pc[t] \in {"empty", "askRemove", "askRmdir"} => node[vp[t]].path = Target(t)

\* Nobody but its maker has a vnode that is not linked, and it is empty.
Private(s) ==
  pc[s] \in {"dots", "name", "link"} =>
    /\ \A t \in Threads : /\ dir[t] # vp[s] /\ res[t] # vp[s]
                          /\ pc[t] \in Held => vp[t] # vp[s]
    /\ vp[s] \in Alive => \A n \in Names : node[vp[s]].entries[n] = NoId

\* A vnode that has lost its own reference without being removed leaves no trace.
Discarded ==
  NothingRemoved => \A v \in Alive : ~Owned(v) =>
    /\ \A w \in Alive, n \in Names : node[w].entries[n] # node[v].id
    /\ \A t \in Threads : pc[t] = "get" => op[t].found # node[v].id
    /\ ~Unlinked(v)

NamesInv == OneVnodePerNumber /\ Entered /\ Discarded /\ \A t \in Threads : Sought(t) /\ Private(t)

\* Nobody else is making v.
Untaken(t, v) == \A s \in Threads \ {t} : pc[s] \in {"dots", "name", "link"} => vp[s] # v

\* A step of t that gives no vnode a number, a path or an entry.
KeepsNames(t) ==
  /\ Others(t)
  /\ pc'[t] # "link"
  /\ pc'[t] \in {"dots", "name"} => pc[t] = "dots" /\ UNCHANGED <<dir, res, vp>>
  /\ pc'[t] = "get" => \E w \in Alive, n \in Names : op'[t].found = node[w].entries[n]
  /\ Alive' \subseteq Alive
  /\ \A v \in Alive' : /\ node'[v].id = node[v].id /\ node'[v].path = node[v].path
                       /\ \A n \in Names : node'[v].entries[n] \in {node[v].entries[n], NoId}
  /\ \A v \in Alive \ Alive' : ~Owned(v)
  /\ NothingRemoved \/ \A p \in Paths : server'[p] # "none" => server[p] # "none"
  /\ NothingRemoved => \A v \in Alive' : Owned(v) =>
       Owned(v)' \/ (pc[t] \in {"dots", "name", "link"} /\ vp[t] = v
                    /\ pc'[t] \notin {"dots", "name"})
  /\ Untaken(t, dir'[t]) /\ Untaken(t, res'[t]) /\ (pc'[t] \in Held => Untaken(t, vp'[t]))

\* Stands, one step later, for a number and a path that stay.
StandsThen(id, p) ==
  /\ \A v \in Alive' : node'[v].id = id => node'[v].path = p /\ ~Unlinked(v)'
  /\ \/ \E v \in Alive' : node'[v].id = id
     \/ ~NothingRemoved /\ ~(p \in Paths /\ server'[p] # "none")

TargetThen(s) == Append(node'[dir'[s]].path, op'[s].name)

LEMMA AliveThen == (TypeInv /\ CountInv =>
  \A t \in Threads : (dir[t] # NoVnode => dir[t] \in Alive) /\ (pc[t] \in Held => vp[t] \in Alive))'
<1>1. TypeInv /\ CountInv =>
        \A t \in Threads : (dir[t] # NoVnode => dir[t] \in Alive) /\ (pc[t] \in Held => vp[t] \in Alive)
  BY ReferredAlive
<1> QED
  BY <1>1, PTL

LEMMA StandsLater ==
  /\ \A s \in Threads : Stands(op[s].found, Target(s))' <=> StandsThen(op'[s].found, TargetThen(s))
  /\ \A v \in Alive', n \in Names :
       Stands(node[v].entries[n], Append(node[v].path, n))'
         <=> StandsThen(node'[v].entries[n], Append(node'[v].path, n))
  BY DEF Stands, StandsThen, Exists, OnServer, Target, TargetThen

LEMMA NamesKept ==
  ASSUME Plain, TypeInv, TypeInv', CountInv, CountInv', NamesInv, NEW t \in Threads,
         KeepsNames(t), Sought(t)'
  PROVE  NamesInv'
<1>1. /\ Alive \subseteq Vnodes /\ Alive' \subseteq Alive
      /\ \A s \in Threads : s # t => /\ pc'[s] = pc[s] /\ op'[s] = op[s] /\ dir'[s] = dir[s]
                                     /\ res'[s] = res[s] /\ vp'[s] = vp[s]
      /\ pc'[t] # "link"
      /\ pc'[t] \in {"dots", "name"} => pc[t] = "dots" /\ UNCHANGED <<dir, res, vp>>
  BY AliveTyped DEF KeepsNames, Others, TypeInv, StateTyped
<1>2. \A v : Unlinked(v)' => Unlinked(v)
  BY <1>1 DEF Unlinked
<1>3. OneVnodePerNumber'
  BY <1>1 DEF KeepsNames, NamesInv, OneVnodePerNumber
<1>4. ASSUME NEW id, NEW p, Stands(id, p),
             \/ \E w \in Alive, n \in Names : node[w].entries[n] = id
             \/ \E s \in Threads : pc[s] = "get" /\ op[s].found = id
      PROVE  StandsThen(id, p)
  <2>1. \A v \in Alive' : node'[v].id = id => node'[v].path = p /\ ~Unlinked(v)'
    BY <1>1, <1>2, <1>4 DEF Stands, KeepsNames
  <2>2. ASSUME ~NothingRemoved, ~Exists(p)
        PROVE  ~(p \in Paths /\ server'[p] # "none")
    BY <2>2 DEF KeepsNames, Exists, OnServer
  <2>3. ASSUME NEW v \in Alive, node[v].id = id, v \notin Alive'
        PROVE  ~NothingRemoved /\ ~Exists(p)
    <3>1. ~Owned(v) /\ node[v].path = p
      BY <1>4, <2>3 DEF KeepsNames, Stands
    <3>2. ~NothingRemoved
      BY <1>4, <2>3, <3>1 DEF NamesInv, Discarded
    <3>3. {"create", "mkdir"} \cap Calls = {} /\ Begun(v)
      BY <3>1, <3>2 DEF Plain, OnceGivenBack, OwnGivenOnce, NothingRemoved, Begun
    <3>4. OnServer(node[v].path) = "none"
      BY <3>3 DEF CountInv, Unmade
    <3> QED
      BY <3>1, <3>2, <3>4 DEF Exists
  <2>4. CASE \E v \in Alive' : node'[v].id = id
    BY <2>1, <2>4 DEF StandsThen
  <2>5. CASE ~\E v \in Alive' : node'[v].id = id
    <3>1. ~NothingRemoved /\ ~Exists(p)
      BY <1>1, <1>4, <2>3, <2>5 DEF Stands, KeepsNames
    <3> QED
      BY <2>1, <2>2, <3>1 DEF StandsThen
  <2> QED
    BY <2>4, <2>5
<1>5. Entered'
  <2>1. ASSUME NEW v \in Alive', NEW n \in Names, node'[v].entries[n] # NoId
        PROVE  StandsThen(node'[v].entries[n], Append(node'[v].path, n))
    <3>1. v \in Alive /\ node'[v].entries[n] = node[v].entries[n] /\ node'[v].path = node[v].path
      BY <1>1, <2>1 DEF KeepsNames
    <3>2. Stands(node[v].entries[n], Append(node[v].path, n))
      BY <2>1, <3>1 DEF NamesInv, Entered
    <3> QED
      BY <1>4, <3>1, <3>2
  <2> QED
    BY <2>1, StandsLater DEF Entered
<1>6. ASSUME NEW s \in Threads, s # t
      PROVE  Sought(s)'
  <2>1. Sought(s) /\ pc'[s] = pc[s] /\ op'[s] = op[s] /\ vp'[s] = vp[s]
    BY <1>1, <1>6 DEF NamesInv
  <2>2. pc[s] \notin {"idle", "wild"} \cup Releasing => TargetThen(s) = Target(s)
    <3>1. SUFFICES ASSUME pc[s] \notin {"idle", "wild"} \cup Releasing
                   PROVE  TargetThen(s) = Target(s)
      OBVIOUS
    <3>2. dir[s] \in Vnodes /\ dir[s] # NoVnode
      BY <3>1 DEF TypeInv, AtWork, Vnodes, NoVnode
    <3>3. dir[s] \in Alive' /\ dir'[s] = dir[s]
      BY <1>1, <1>6, <3>2, AliveThen
    <3> QED
      BY <2>1, <3>3 DEF KeepsNames, Target, TargetThen
  <2>3. pc[s] = "get" => op'[s].found # NoId /\ StandsThen(op'[s].found, TargetThen(s))
    BY <1>4, <2>1, <2>2 DEF Sought, Releasing
  <2>4. pc[s] = "get" => Stands(op[s].found, Target(s))'
    BY <2>3, StandsLater
  <2>5. ASSUME ~NothingRemoved, NEW p, ~Exists(p)
        PROVE  ~(p \in Paths /\ server'[p] # "none")
    BY <2>5 DEF KeepsNames, Exists, OnServer
  <2>6. pc[s] \in {"noent", "askLookup"} /\ op[s].found # NoId =>
          ~NothingRemoved /\ ~(TargetThen(s) \in Paths /\ server'[TargetThen(s)] # "none")
    BY <2>1, <2>2, <2>5 DEF Sought, Releasing
  <2>7. pc[s] \in {"noent", "askLookup"} /\ op[s].found # NoId =>
          ~NothingRemoved /\ ~Exists(Target(s))'
    BY <2>6 DEF Exists, OnServer, Target, TargetThen
  <2>8. pc[s] = "link" /\ vp[s] \in Alive' => node'[vp[s]].path = TargetThen(s)
    BY <1>1, <2>1, <2>2 DEF Sought, Releasing, KeepsNames
  <2>9. pc[s] \in {"empty", "askRemove", "askRmdir"} => node'[vp[s]].path = TargetThen(s)
    <3>1. pc[s] \in Held => vp[s] \in Alive'
      BY <2>1, AliveThen
    <3> QED
      BY <2>1, <2>2, <3>1 DEF Sought, Releasing, KeepsNames, Held
  <2> QED
    BY <2>1, <2>3, <2>4, <2>7, <2>8, <2>9 DEF Sought, Target, TargetThen
<1>7. ASSUME NEW s \in Threads
      PROVE  Private(s)'
  <2>1. SUFFICES ASSUME pc'[s] \in {"dots", "name", "link"}
                 PROVE  /\ \A r \in Threads : /\ dir'[r] # vp'[s] /\ res'[r] # vp'[s]
                                              /\ pc'[r] \in Held => vp'[r] # vp'[s]
                        /\ vp'[s] \in Alive' => \A n \in Names : node'[vp'[s]].entries[n] = NoId
    BY DEF Private
  <2>2. /\ pc[s] \in {"dots", "name", "link"} /\ vp'[s] = vp[s] /\ Private(s)
        /\ s = t => UNCHANGED <<dir, res, vp>> /\ pc'[t] \notin Held
    BY <1>1, <2>1 DEF NamesInv, Held
  <2>3. ASSUME NEW r \in Threads
        PROVE  /\ dir'[r] # vp'[s] /\ res'[r] # vp'[s]
               /\ pc'[r] \in Held => vp'[r] # vp'[s]
    <3>1. CASE r = t /\ s # t
      BY <2>2, <3>1 DEF KeepsNames, Untaken
    <3>2. CASE r # t \/ s = t
      BY <1>1, <2>2, <3>2 DEF Private
    <3> QED
      BY <3>1, <3>2
  <2>4. ASSUME vp'[s] \in Alive', NEW n \in Names
        PROVE  node'[vp'[s]].entries[n] = NoId
    BY <1>1, <2>2, <2>4 DEF Private, KeepsNames
  <2> QED
    BY <2>3, <2>4
<1>8. Discarded'
  <2>1. SUFFICES ASSUME NothingRemoved, NEW v \in Alive', ~Owned(v)'
                 PROVE  /\ \A w \in Alive', n \in Names : node'[w].entries[n] # node'[v].id
                        /\ \A s \in Threads : pc'[s] = "get" => op'[s].found # node'[v].id
                        /\ ~Unlinked(v)'
    BY DEF Discarded
  <2>2. v \in Alive /\ v \in Vnodes /\ node'[v].id = node[v].id /\ node[v].id # NoId
    <3>1. v \in Alive /\ v \in Vnodes /\ node[v] \in NodeRecords
      BY <1>1 DEF TypeInv, StateTyped
    <3> QED
      BY <3>1 DEF KeepsNames, NodeRecords, NodeIds, NoId
  <2>3. /\ \A w \in Alive, n \in Names : node[w].entries[n] # node[v].id
        /\ \A s \in Threads : pc[s] = "get" => op[s].found # node[v].id
        /\ ~Unlinked(v)'
    <3>1. CASE ~Owned(v)
      BY <1>2, <2>1, <2>2, <3>1 DEF NamesInv, Discarded
    <3>2. CASE Owned(v)
      <4>1. /\ pc[t] \in {"dots", "name", "link"} /\ vp[t] = v /\ Unlinked(v)
            /\ pc'[t] \notin {"dots", "name"}
        BY <2>1, <2>2, <3>2 DEF KeepsNames, Unlinked
      <4>2. ASSUME NEW s \in Threads, pc[s] = "get"
            PROVE  op[s].found # node[v].id
        BY <2>2, <4>1, <4>2 DEF NamesInv, Sought, Stands
      <4>3. ASSUME NEW w \in Alive, NEW n \in Names
            PROVE  node[w].entries[n] # node[v].id
        BY <2>2, <4>1, <4>3 DEF NamesInv, Entered, Stands
      <4>4. ~Unlinked(v)'
        BY <1>1, <4>1 DEF Unlinked, CountInv, OneMaker, Fresh
      <4> QED
        BY <4>2, <4>3, <4>4
    <3> QED
      BY <3>1, <3>2
  <2>4. ASSUME NEW w \in Alive', NEW n \in Names
        PROVE  node'[w].entries[n] # node'[v].id
    BY <1>1, <2>2, <2>3 DEF KeepsNames
  <2>5. ASSUME NEW s \in Threads, pc'[s] = "get"
        PROVE  op'[s].found # node'[v].id
    BY <1>1, <2>2, <2>3, <2>5 DEF KeepsNames
  <2> QED
    BY <2>3, <2>4, <2>5
<1> QED
  BY <1>3, <1>5, <1>6, <1>7, <1>8 DEF NamesInv

\* The steps that a thread's findings are about.
Watched == {"list", "add", "get", "noent", "askLookup", "askMkdir", "allocFile", "allocDir",
            "dots", "name", "link", "empty", "askRemove", "askRmdir"}

LEMMA Unwatched ==
  ASSUME NEW t \in Threads, pc'[t] \notin Watched
  PROVE  Sought(t)'
  BY DEF Sought, Watched

\* What t has, nobody else is making.
LEMMA NobodyElse ==
  ASSUME TypeInv, CountInv, NamesInv, NEW t \in Threads
  PROVE  /\ Untaken(t, NoVnode) /\ Untaken(t, RootV)
         /\ Untaken(t, dir[t]) /\ Untaken(t, res[t])
         /\ pc[t] \in Held \cup Fresh => Untaken(t, vp[t])
<1>1. ASSUME NEW s \in Threads \ {t}, pc[s] \in {"dots", "name", "link"}
      PROVE  /\ vp[s] # NoVnode /\ vp[s] # RootV /\ vp[s] # dir[t] /\ vp[s] # res[t]
             /\ pc[t] \in Held \cup Fresh => vp[s] # vp[t]
  <2>1. vp[s] \in Vnodes /\ vp[s] # RootV
    BY <1>1 DEF TypeInv, AtWork, Fresh, CountInv, RootStays
  <2>2. vp[s] # NoVnode
    BY <2>1 DEF Vnodes, NoVnode
  <2>3. vp[s] # dir[t] /\ vp[s] # res[t] /\ (pc[t] \in Held => vp[s] # vp[t])
    BY <1>1 DEF NamesInv, Private
  <2>4. pc[t] \in Fresh => vp[s] # vp[t]
    BY <1>1 DEF CountInv, OneMaker, Fresh
  <2> QED
    BY <2>1, <2>2, <2>3, <2>4
<1> QED
  BY <1>1 DEF Untaken

\* A vnode that is found is linked.
LEMMA FoundLinked ==
  ASSUME NamesInv, NEW t \in Threads, pc[t] = "get", NEW v \in Alive, node[v].id = op[t].found
  PROVE  Untaken(t, v) /\ node[v].path = Target(t)
  BY DEF NamesInv, Sought, Stands, Unlinked, Untaken

LEMMA CalmKeepsNames ==
  ASSUME Plain, TypeInv, TypeInv', CountInv, NamesInv, NEW t \in Threads, Calm(t),
         pc'[t] # "link", pc'[t] \in {"dots", "name"} => UNCHANGED <<dir, res, vp>>,
         pc'[t] = "get" => \E w \in Alive, n \in Names : op'[t].found = node[w].entries[n],
         \A w \in Vnodes, n \in Names : node'[w].entries[n] \in {node[w].entries[n], NoId},
         Untaken(t, dir'[t]), Untaken(t, res'[t]), pc'[t] \in Held => Untaken(t, vp'[t])
  PROVE  KeepsNames(t)
<1>1. Alive' = Alive /\ Alive \subseteq Vnodes /\ Others(t)
  BY AliveTyped DEF Calm, Steady, Alive, TypeInv, StateTyped
<1>2. \A v \in Vnodes : Owned(v)' <=> Owned(v)
  BY SteadyCounts DEF Calm
<1>3. NothingRemoved \/ UNCHANGED server
  BY DEF Plain, OnceGivenBack, OwnGivenOnce, NothingRemoved, Calm
<1> QED
  BY <1>1, <1>2, <1>3 DEF KeepsNames, Calm, Steady

\* A step that goes elsewhere and leaves the nodes and the server as they are.
LEMMA GoesOn ==
  ASSUME Plain, TypeInv, TypeInv', CountInv, NamesInv, NEW t \in Threads, Calm(t),
         UNCHANGED node, pc'[t] \notin {"dots", "name", "link", "get"},
         dir'[t] \in {dir[t], res[t], NoVnode}, res'[t] \in {res[t], NoVnode},
         pc'[t] \in Held => pc[t] \in Held /\ vp'[t] = vp[t]
  PROVE  KeepsNames(t)
<1>1. Untaken(t, dir'[t]) /\ Untaken(t, res'[t]) /\ (pc'[t] \in Held => Untaken(t, vp'[t]))
  BY NobodyElse
<1> QED
  BY <1>1, CalmKeepsNames

LEMMA BetweenNames ==
  ASSUME Plain, TypeInv, TypeInv', CountInv, CountInv', NamesInv, NEW t \in Threads,
         Root(t) \/ Chdir(t) \/ Close(t) \/ Leave(t) \/ GiveUp(t)
  PROVE  NamesInv'
<1>1. Calm(t)
  BY RootCalm, ChdirCalm, CloseCalm, LeaveCalm, GiveUpCalm
<1>2. CASE Root(t)
  <2>1. pc[t] = "idle" /\ UNCHANGED <<pc, res, vp>> /\ dir'[t] = RootV /\ VN_HOLD(RootV)
    BY <1>2 DEF Root, TypeInv, HandsTyped
  <2>2. \A w \in Vnodes, n \in Names : node'[w].entries[n] = node[w].entries[n]
    <3>1. RootV \in Vnodes
      BY NodesAssumption DEF RootV, Vnodes
    <3> QED
      BY <2>1, <3>1, HoldCounts DEF Same
  <2>3. KeepsNames(t)
    BY <1>1, <2>1, <2>2, CalmKeepsNames, NobodyElse DEF Held
  <2> QED
    BY <2>1, <2>3, Unwatched, NamesKept DEF Watched
<1>3. CASE Chdir(t) \/ Close(t) \/ Leave(t) \/ GiveUp(t)
  <2>1. /\ \E s : ReturnAfter(t, s)
        /\ UNCHANGED node
        /\ dir'[t] \in {dir[t], res[t], NoVnode} /\ res'[t] \in {res[t], NoVnode}
    BY <1>3 DEF Chdir, Close, Leave, GiveUp, fs, TypeInv, HandsTyped
  <2>2. pc'[t] = "rele"
    BY <2>1 DEF ReturnAfter, Goto, Go, TypeInv, HandsTyped
  <2>3. KeepsNames(t)
    BY <1>1, <2>1, <2>2, GoesOn DEF Held
  <2> QED
    BY <2>2, <2>3, Unwatched, NamesKept DEF Watched
<1> QED
  BY <1>2, <1>3

\* An operation begins.
LEMMA CallNames ==
  ASSUME Plain, TypeInv, TypeInv', CountInv, CountInv', NamesInv, NEW t \in Threads, Call(t)
  PROVE  NamesInv'
<1>1. Calm(t)
  BY CallCalm
<1>2. PICK c \in AllCalls, n \in Entries : Start(t, c, n)
  BY DEF Call, AllCalls, Entries
<1>3. c # "readdir" /\ UNCHANGED <<node, dir, res, vp>> /\ HandsTyped
  BY <1>2 DEF Start, Plain, fs, hands, TypeInv
<1>4. /\ pc'[t] = IF c = "mkdir" THEN "askMkdir" ELSE "find"
      /\ op'[t].found = NoId
  BY <1>2, <1>3 DEF Start, Go, HandsTyped, NoOp
<1>5. KeepsNames(t)
  BY <1>1, <1>3, <1>4, GoesOn DEF Held
<1>6. Sought(t)'
  BY <1>4 DEF Sought
<1> QED
  BY <1>5, <1>6, NamesKept

\* The entry for the name is read.
LEMMA FindNames ==
  ASSUME Plain, TypeInv, TypeInv', CountInv, CountInv', NamesInv, NEW t \in Threads,
         iumfs_find_nodeid_by_name(t)
  PROVE  NamesInv'
<1> DEFINE id == node[dir[t]].entries[op[t].name]
<1>1. /\ Calm(t) /\ pc[t] = "find" /\ UNCHANGED <<disk, node, list, dir, res, vp>> /\ HandsTyped
  BY FindCalm DEF iumfs_find_nodeid_by_name, At, fs, hands, TypeInv
<1>2. dir[t] \in Alive /\ op[t].name \in Names
  <2>1. dir[t] \in Vnodes /\ dir[t] # NoVnode
    BY <1>1 DEF TypeInv, AtWork, Releasing, Vnodes, NoVnode
  <2>2. op[t].call \in {"lookup", "dotdot", "create", "createExcl", "remove", "rmdir"}
    BY <1>1 DEF TypeInv, Asking, Searching
  <2>3. op[t].call # "dotdot"
    BY DEF Plain, CountInv, Called
  <2> QED
    BY <2>1, <2>2, <2>3, ReferredAlive DEF TypeInv, Asking
<1>3. /\ pc'[t] = IF id = NoId THEN "noent" ELSE "get"
      /\ op'[t].found = id /\ op'[t].name = op[t].name
  <2>1. op[t] \in Operation
    BY <1>1 DEF HandsTyped
  <2>2. op'[t] = [op[t] EXCEPT !.found = id] /\ pc'[t] = IF id = NoId THEN "noent" ELSE "get"
    BY <1>1, Zenon DEF iumfs_find_nodeid_by_name, Go, HandsTyped
  <2> QED
    BY <2>1, <2>2 DEF Operation
<1>4. KeepsNames(t)
  BY <1>1, <1>2, <1>3, CalmKeepsNames, NobodyElse DEF Held
<1>5. ASSUME id # NoId
      PROVE  StandsThen(op'[t].found, TargetThen(t))
  <2>1. Stands(id, Append(node[dir[t]].path, op[t].name))
    BY <1>2, <1>5 DEF NamesInv, Entered
  <2>2. TargetThen(t) = Append(node[dir[t]].path, op[t].name)
    BY <1>1, <1>3 DEF TargetThen
  <2>3. Alive' = Alive /\ \A v : Unlinked(v)' => Unlinked(v)
    BY <1>1, <1>3, <1>4 DEF Alive, Unlinked, KeepsNames, Others
  <2> QED
    BY <1>1, <1>3, <2>1, <2>2, <2>3, DiskSame DEF Stands, StandsThen, Exists, OnServer
<1>6. Sought(t)'
  BY <1>3, <1>5, StandsLater DEF Sought
<1> QED
  BY <1>4, <1>6, NamesKept

\* The vnode with the number is held, or there is none.
LEMMA GetNames ==
  ASSUME Plain, TypeInv, TypeInv', CountInv, CountInv', NamesInv, NEW t \in Threads,
         iumfs_find_vnode_by_nodeid(t)
  PROVE  NamesInv'
<1>1. /\ Calm(t) /\ pc[t] = "get" /\ UNCHANGED <<disk, list, dir>> /\ HandsTyped
      /\ op[t].found # NoId /\ Stands(op[t].found, Target(t))
      /\ \/ Goto(t, "noent") /\ UNCHANGED <<node, res, vp, todo>>
         \/ Found(t) \in Alive /\ node[Found(t)].id = op[t].found /\ Taken(t, Found(t))
  BY GetCalm, Takes DEF Plain, OnceGivenBack, TypeInv, NamesInv, Sought
<1>2. ASSUME Goto(t, "noent"), UNCHANGED <<node, res, vp>>, ~\E v \in Alive : node[v].id = op[t].found
      PROVE  NamesInv'
  <2>1. "noent" \in Pcs
    BY DEF Pcs
  <2>2. pc'[t] = "noent" /\ op'[t] = op[t]
    BY <1>1, <1>2, <2>1, GotoMoves
  <2>3. KeepsNames(t)
    BY <1>1, <1>2, <2>2, GoesOn DEF Held
  <2>4. ~NothingRemoved /\ ~Exists(Target(t))
    BY <1>1, <1>2 DEF Stands
  <2>5. ~Exists(Target(t))'
    BY <1>1, <1>2, <2>2, <2>4, DiskSame DEF Exists, OnServer, Target
  <2>6. Sought(t)'
    BY <2>2, <2>4, <2>5 DEF Sought
  <2> QED
    BY <2>3, <2>6, NamesKept
<1>3. ASSUME NEW v \in Alive, node[v].id = op[t].found, Taken(t, v)
      PROVE  NamesInv'
  <2>1. v \in Vnodes /\ Untaken(t, v) /\ node[v].path = Target(t)
    BY <1>1, <1>3, AliveTyped, FoundLinked DEF TypeInv, StateTyped
  <2>2. \A w \in Vnodes : Same(w)
    BY <1>3, <2>1, HoldCounts DEF Taken
  <2>3. {"idle", "rele", "askRemove", "empty", "giveUp"} \subseteq Pcs
    BY DEF Pcs
  <2>4. CASE Return(t, v) \/ (ReturnAfter(t, <<v, v>>) /\ UNCHANGED res)
    <3>1. pc'[t] \in {"idle", "rele"} /\ res'[t] \in {res[t], v}
      BY <1>1, <2>3, <2>4, GotoMoves DEF Return, ReturnAfter, HandsTyped
    <3>2. KeepsNames(t)
      BY <1>1, <2>1, <2>2, <3>1, CalmKeepsNames, NobodyElse DEF Held, Same
    <3> QED
      BY <3>1, <3>2, Unwatched, NamesKept DEF Watched
  <2>5. ASSUME NEW l \in {"askRemove", "empty", "giveUp"}, Goto(t, l), vp' = [vp EXCEPT ![t] = v],
               UNCHANGED res
        PROVE  NamesInv'
    <3>1. pc'[t] = l /\ op'[t] = op[t] /\ vp'[t] = v
      BY <1>1, <2>3, <2>5, GotoMoves DEF HandsTyped
    <3>2. KeepsNames(t)
      BY <1>1, <2>1, <2>2, <2>5, <3>1, CalmKeepsNames, NobodyElse DEF Same
    <3>3. node'[v].path = TargetThen(t)
      <4>1. dir[t] \in Vnodes
        BY <1>1 DEF TypeInv, AtWork, Releasing
      <4> QED
        BY <1>1, <2>1, <2>2, <3>1, <4>1 DEF Same, Target, TargetThen
    <3>4. Sought(t)'
      BY <3>1, <3>3 DEF Sought, Target, TargetThen
    <3> QED
      BY <3>2, <3>4, NamesKept
  <2> QED
    BY <1>3, <2>4, <2>5 DEF Taken
<1>4. CASE Found(t) \in Alive /\ node[Found(t)].id = op[t].found /\ Taken(t, Found(t))
  BY <1>3, <1>4
<1>5. CASE \E v \in Alive : node[v].id = op[t].found
  <2>1. {i \in DOMAIN list : node[list[i]].id = op[t].found} # {}
    BY <1>5 DEF Alive
  <2>2. Found(t) \in Alive /\ node[Found(t)].id = op[t].found
    BY <2>1, FoundTyped
  <2>3. VN_HOLD(Found(t))
    BY <2>1, Zenon DEF iumfs_find_vnode_by_nodeid, Found
  <2>4. node' # node
    <3>1. Found(t) \in Vnodes
      BY <2>2, AliveTyped DEF TypeInv, StateTyped
    <3>2. node'[Found(t)].count = node[Found(t)].count + 1
      BY <2>3, <3>1, HoldCounts DEF Has
    <3>3. node[Found(t)].count \in Nat
      BY <3>1, NodeTyped DEF TypeInv, StateTyped
    <3> QED
      BY <3>2, <3>3
  <2> QED
    BY <1>1, <1>4, <2>4
<1> QED
  BY <1>1, <1>2, <1>4, <1>5

\* A step that keeps every node and goes on.
LEMMA NextNames ==
  ASSUME Plain, TypeInv, TypeInv', CountInv, CountInv', NamesInv, NEW t \in Threads, Calm(t),
         UNCHANGED <<node, dir, res, vp>>, NEW l \in Pcs, Goto(t, l), l \notin {"link", "get"},
         l \in Held => pc[t] \in Held,
         l \in {"noent", "askLookup"} => pc[t] \in {"noent", "askLookup"} /\ UNCHANGED disk,
         l \in {"askMkdir", "allocFile", "allocDir"} => op[t].found = NoId,
         l \in {"empty", "askRemove", "askRmdir"} => pc[t] \in {"empty", "askRemove", "askRmdir"},
         l \notin {"list", "add", "dots", "name"}
  PROVE  NamesInv'
<1>1. pc'[t] = l /\ op'[t] = IF l = "idle" THEN NoOp ELSE op[t]
  BY GotoMoves DEF TypeInv
<1>2. KeepsNames(t)
  BY <1>1, GoesOn
<1>3. l # "idle" => Target(t)' = Target(t)
  BY <1>1 DEF Target
<1>4. Sought(t)
  BY DEF NamesInv
<1>5. l \in {"noent", "askLookup"} => (Exists(Target(t))' <=> Exists(Target(t)))
  BY <1>1, DiskSame DEF Target, Exists, OnServer
<1>6. Sought(t)'
  BY <1>1, <1>3, <1>4, <1>5 DEF Sought
<1> QED
  BY <1>2, <1>6, NamesKept

\* Where a request leads.
LEMMA Asked ==
  ASSUME NEW t, NEW kind, NEW p, NEW ok, NEW failed, Ask(t, kind, p, ok, failed)
  PROVE  Goto(t, ok) \/ Goto(t, failed) \/ UNCHANGED <<pc, op>>
  BY DEF Ask

LEMMA WaysNames ==
  ASSUME Plain, TypeInv, TypeInv', CountInv, CountInv', NamesInv, NEW t \in Threads,
         NotCached(t) \/ AskLookup(t) \/ AllocFails(t) \/ AskCreate(t) \/ AskMkdir(t)
         \/ iumfs_dir_is_empty(t) \/ Stray(t)
  PROVE  NamesInv'
<1>1. Calm(t) /\ UNCHANGED <<node, dir, res, vp>>
  BY NotCachedCalm, AskLookupCalm, AllocFailsCalm, AskMakeCalm, EmptyCalm, StrayCalm
  DEF Plain, OnceGivenBack, NotCached, AskLookup, AllocFails, AskCreate, AskMkdir, iumfs_dir_is_empty, Stray, fs, hands
<1>2. /\ {"idle", "askLookup", "allocDir", "allocFile", "askCreate", "allocNew", "askRmdir",
          "giveUp", "wild"} \subseteq Pcs
      /\ LookupFailed(t) \in {"idle", "askCreate"}
  BY DEF Pcs, LookupFailed
<1>3. CASE NotCached(t)
  <2>1. pc[t] = "noent" /\ UNCHANGED disk /\ (Goto(t, "askLookup") \/ Goto(t, "idle"))
    BY <1>3 DEF NotCached, At
  <2> QED
    BY <1>1, <1>2, <2>1, NextNames DEF Held
<1>4. CASE AskLookup(t)
  <2>1. /\ pc[t] = "askLookup"
        /\ \/ Exists(Target(t)) /\ (Goto(t, "allocDir") \/ Goto(t, "allocFile"))
           \/ Goto(t, LookupFailed(t))
    BY <1>4 DEF AskLookup, At
  <2>2. Exists(Target(t)) => op[t].found = NoId
    BY <2>1 DEF NamesInv, Sought
  <2> QED
    BY <1>1, <1>2, <2>1, <2>2, NextNames DEF Held
<1>5. CASE AllocFails(t)
  <2>1. Goto(t, LookupFailed(t)) \/ Goto(t, "idle")
    BY <1>5 DEF AllocFails
  <2> QED
    BY <1>1, <1>2, <2>1, NextNames DEF Held
<1>6. CASE AskCreate(t)
  <2>1. \E l \in {"allocNew", "idle", "askCreate"} : Goto(t, l)
    <3>1. /\ pc[t] = "askCreate" /\ HandsTyped
          /\ Goto(t, "allocNew") \/ Goto(t, "idle") \/ UNCHANGED <<pc, op>>
      BY <1>6, Asked DEF AskCreate, At, TypeInv
    <3>2. UNCHANGED <<pc, op>> => Goto(t, "askCreate")
      BY <3>1 DEF Goto, Go, HandsTyped
    <3> QED
      BY <3>1, <3>2
  <2> QED
    BY <1>1, <1>2, <2>1, NextNames DEF Held
<1>7. CASE AskMkdir(t)
  <2>1. /\ pc[t] = "askMkdir" /\ HandsTyped /\ "askMkdir" \in Pcs
        /\ Goto(t, "allocDir") \/ Goto(t, "idle") \/ UNCHANGED <<pc, op>>
    BY <1>7, Asked DEF AskMkdir, At, TypeInv, Pcs
  <2>2. UNCHANGED <<pc, op>> => Goto(t, "askMkdir")
    BY <2>1 DEF Goto, Go, HandsTyped
  <2>3. op[t].found = NoId
    BY <2>1 DEF NamesInv, Sought
  <2> QED
    BY <1>1, <1>2, <2>1, <2>2, <2>3, NextNames DEF Held
<1>8. CASE iumfs_dir_is_empty(t)
  <2>1. pc[t] = "empty" /\ (Goto(t, "askRmdir") \/ Goto(t, "giveUp"))
    BY <1>8 DEF iumfs_dir_is_empty, At
  <2> QED
    BY <1>1, <1>2, <2>1, NextNames DEF Held
<1>9. CASE Stray(t)
  <2>1. Goto(t, "wild")
    BY <1>9 DEF Stray
  <2> QED
    BY <1>1, <1>2, <2>1, NextNames DEF Held
<1> QED
  BY <1>3, <1>4, <1>5, <1>6, <1>7, <1>8, <1>9

\* The caller gets the vnode.
LEMMA RefNames ==
  ASSUME Plain, TypeInv, TypeInv', CountInv, CountInv', NamesInv, NEW t \in Threads, Ref(t)
  PROVE  NamesInv'
<1>1. Calm(t) /\ pc[t] = "ref" /\ vp[t] \in Vnodes /\ dir' = dir /\ VN_HOLD(vp[t]) /\ HandsTyped
  BY RefCalm DEF Plain, OnceGivenBack, Ref, At, TypeInv, AtWork, Fresh
<1>2. \A w \in Vnodes : Same(w)
  BY <1>1, HoldCounts
<1>3. {"idle", "rele"} \subseteq Pcs
  BY DEF Pcs
<1>4. pc'[t] \in {"idle", "rele"} /\ res'[t] \in {res[t], vp[t]}
  <2>1. \/ ReturnAfter(t, <<vp[t], vp[t]>>) /\ UNCHANGED res
        \/ Return(t, vp[t])
    BY DEF Ref
  <2> QED
    BY <1>1, <1>3, <2>1, GotoMoves DEF Return, ReturnAfter, HandsTyped
<1>5. KeepsNames(t)
  BY <1>1, <1>2, <1>4, CalmKeepsNames, NobodyElse DEF Held, Fresh, Same
<1> QED
  BY <1>4, <1>5, Unwatched, NamesKept DEF Watched

\* A release, also one of which iumfs_inactive makes no more than that.
LEMMA ReleaseNames ==
  ASSUME Plain, TypeInv, TypeInv', CountInv, CountInv', NamesInv, NEW t \in Threads,
         Calm(t), pc[t] \in Releasing, Head(todo[t]) \in Vnodes,
         (Drop(Head(todo[t])) /\ ReleaseDone(t)) \/ (Goto(t, "inactive") /\ UNCHANGED node),
         UNCHANGED <<dir, res, vp>>
  PROVE  NamesInv'
<1>1. pc'[t] \in {"idle", "rele", "inactive"}
  <2>1. "inactive" \in Pcs
    BY DEF Pcs
  <2> QED
    BY <2>1, GotoMoves, ReleaseCounts DEF TypeInv
<1>2. \A w \in Vnodes : Same(w)
  BY DropCounts, NodeSame
<1>3. KeepsNames(t)
  BY <1>1, <1>2, CalmKeepsNames, NobodyElse DEF Held, Same
<1> QED
  BY <1>1, <1>3, Unwatched, NamesKept DEF Watched

\* What is released is a vnode in the list.
LEMMA HeadAlive ==
  ASSUME TypeInv, CountInv, NEW t \in Threads, pc[t] \in Releasing
  PROVE  Head(todo[t]) \in Alive /\ Head(todo[t]) \in Vnodes
<1>1. todo[t] \in Seq(Vnodes) /\ todo[t] # <<>>
  BY DEF TypeInv, HandsTyped, AtWork
<1>2. Head(todo[t]) = todo[t][1] /\ 1 \in DOMAIN todo[t]
  BY <1>1, HeadIsFirst, EmptySeq
<1> QED
  BY <1>1, <1>2, ReferredAlive

\* A vnode is freed.
LEMMA FreeNames ==
  ASSUME Plain, TypeInv, TypeInv', CountInv, CountInv', NamesInv, NEW t \in Threads,
         pc[t] \in Releasing, ReleaseDone(t),
         NEW v \in Alive, v = Head(todo[t]), node[v].count = 1,
         list' = RemoveAt(list, Position(v)), node' = [node EXCEPT ![v] = NoNode],
         UNCHANGED <<disk, dir, res, vp>>
  PROVE  NamesInv'
<1>1. /\ Others(t) /\ pc'[t] \in {"idle", "rele"}
      /\ \A w : Mine(t, w) = Mine(t, w)' + Has(v = w) /\ Mine(t, w)' \in Nat
  BY ReleaseCounts
<1>2. /\ Alive' = Alive \ {v} /\ Alive \subseteq Vnodes /\ v \in Vnodes
      /\ \A w \in Vnodes : w # v => node'[w] = node[w]
  BY Removed, AliveTyped DEF TypeInv, StateTyped
<1>3. ASSUME NEW w \in Vnodes
      PROVE  /\ References(w) \in Nat /\ References(w)' \in Nat
             /\ References(w) = References(w)' + Has(v = w)
  <2>1. /\ References(w) \in Nat /\ Mine(t, w) \in Nat /\ References(w)' \in Nat
        /\ References(w)' = References(w) - Mine(t, w) + Mine(t, w)'
    BY <1>1, RefsStep
  <2>2. Mine(t, w) = Mine(t, w)' + Has(v = w) /\ Mine(t, w)' \in Nat
    BY <1>1
  <2> QED
    BY <2>1, <2>2 DEF Has
<1>4. ~Owned(v)
  <2>1. References(v) = References(v)' + 1 /\ References(v)' \in Nat
    BY <1>2, <1>3 DEF Has
  <2> QED
    BY <2>1 DEF Owned
<1>5. \A w \in Vnodes : w # v => (Owned(w)' <=> Owned(w))
  BY <1>2, <1>3 DEF Owned, Has
<1>6. KeepsNames(t)
  <2>1. Untaken(t, dir'[t]) /\ Untaken(t, res'[t])
    BY NobodyElse
  <2> QED
    BY <1>1, <1>2, <1>4, <1>5, <2>1, DiskSame DEF KeepsNames, Held
<1> QED
  BY <1>1, <1>6, Unwatched, NamesKept DEF Watched

LEMMA InactiveNames ==
  ASSUME Plain, TypeInv, TypeInv', CountInv, CountInv', NamesInv, NEW t \in Threads,
         VN_RELE(t) \/ iumfs_inactive(t)
  PROVE  NamesInv'
<1> DEFINE v == Head(todo[t])
<1>1. /\ pc[t] \in Releasing /\ UNCHANGED <<disk, mount, dir, res, vp>> /\ RootV \in Alive
  BY DEF VN_RELE, iumfs_inactive, At, umount, CountInv, RootStays, Releasing
<1>2. v \in Alive /\ v \in Vnodes
  BY <1>1, HeadAlive
<1>3. CASE VN_RELE(t)
  <2>1. \/ Drop(v) /\ ReleaseDone(t)
        \/ Goto(t, "inactive") /\ UNCHANGED node
    BY <1>3 DEF VN_RELE
  <2> QED
    BY <1>1, <1>2, <1>3, <2>1, ReleCalm, ReleaseNames
<1>4. CASE iumfs_inactive(t)
  <2>1. iumfs_free_node(v) /\ ReleaseDone(t)
    BY <1>1, <1>4 DEF iumfs_inactive
  <2>2. CASE Drop(v) /\ UNCHANGED list
    BY <1>1, <1>2, <2>1, <2>2, DropsCalmly, ReleaseNames
  <2>3. CASE node[v].count = 1 /\ list' = RemoveAt(list, Position(v))
             /\ node' = [node EXCEPT ![v] = NoNode]
    BY <1>1, <1>2, <2>1, <2>3, FreeNames
  <2> QED
    BY <2>1, <2>2, <2>3 DEF iumfs_free_node
<1> QED
  BY <1>3, <1>4

\* The server removes what the vnode's path names.
LEMMA RemoveNames ==
  ASSUME Plain, TypeInv, TypeInv', CountInv, CountInv', NamesInv, NEW t \in Threads,
         AskRemove(t) \/ AskRmdir(t)
  PROVE  NamesInv'
<1>1. PICK l \in Pcs : Removing(t, l)
  BY AskRemoves
<1>2. /\ pc[t] \in {"askRemove", "askRmdir"} /\ l \in {pc[t], "unlink", "giveUp"}
      /\ Goto(t, l) /\ UNCHANGED <<list, node, mount, dir, res, vp, todo>>
      /\ \A p \in Paths : server'[p] # "none" => server[p] # "none"
  <2>1. UNCHANGED server \/ Removes(node[vp[t]].path)
    BY <1>1 DEF Removing
  <2>2. \A p \in Paths : server'[p] # "none" => server[p] # "none"
    BY <2>1 DEF Removes, TypeInv, StateTyped
  <2> QED
    BY <1>1, <2>2 DEF Removing
<1>3. ~NothingRemoved
  BY <1>2 DEF CountInv, Called, Permitted, NothingRemoved
<1>4. /\ pc'[t] = l /\ op'[t] = op[t] /\ Others(t)
  BY <1>2, GotoMoves DEF TypeInv, Others
<1>5. Alive' = Alive /\ Alive \subseteq Vnodes
  BY <1>2, AliveTyped DEF Alive, TypeInv, StateTyped
<1>6. KeepsNames(t)
  BY <1>2, <1>3, <1>4, <1>5, NobodyElse DEF KeepsNames, Held
<1>7. Target(t)' = Target(t)
  BY <1>2, <1>4 DEF Target
<1>8. Sought(t)'
  BY <1>2, <1>4, <1>7 DEF NamesInv, Sought
<1> QED
  BY <1>6, <1>8, NamesKept

\* The entry goes.
LEMMA UnlinkNames ==
  ASSUME Plain, TypeInv, TypeInv', CountInv, CountInv', NamesInv, NEW t \in Threads,
         iumfs_remove_entry_from_dir(t)
  PROVE  NamesInv'
<1>1. /\ pc[t] = "unlink" /\ ReturnAfter(t, Released(vp[t]))
      /\ UNCHANGED <<disk, list, dir, res>>
      /\ dir[t] \in Vnodes /\ op[t].name \in Entries /\ HandsTyped /\ "rele" \in Pcs
      /\ node' = node \/ node' = [node EXCEPT ![dir[t]].entries[op[t].name] = NoId]
  BY DEF iumfs_remove_entry_from_dir, At, TypeInv, AtWork, Releasing, HandsTyped, Operation, Pcs
<1>2. ~NothingRemoved
  BY <1>1 DEF CountInv, Called, Permitted, NothingRemoved
<1>3. pc'[t] = "rele" /\ Others(t)
  BY <1>1, GotoMoves DEF ReturnAfter, HandsTyped, Others
<1>4. Alive' = Alive /\ Alive \subseteq Vnodes
  BY <1>1, AliveTyped DEF Alive, TypeInv, StateTyped
<1>5. ASSUME NEW w \in Vnodes
      PROVE  /\ node'[w].id = node[w].id /\ node'[w].path = node[w].path
             /\ \A n \in Names : node'[w].entries[n] \in {node[w].entries[n], NoId}
  <2>1. node[w] \in NodeRecords /\ node[w].entries \in [Entries -> Nat]
    BY DEF TypeInv, StateTyped, NodeRecords
  <2>2. CASE node' = node
    BY <2>2
  <2>3. CASE node' = [node EXCEPT ![dir[t]].entries[op[t].name] = NoId]
    <3>1. node'[w] = IF w = dir[t] THEN [node[w] EXCEPT !.entries[op[t].name] = NoId] ELSE node[w]
      BY <1>1, <2>3 DEF TypeInv, StateTyped
    <3>2. /\ node'[w].id = node[w].id /\ node'[w].path = node[w].path
          /\ node'[w].entries = IF w = dir[t] THEN [node[w].entries EXCEPT ![op[t].name] = NoId]
                                ELSE node[w].entries
      BY <2>1, <3>1 DEF NodeRecords
    <3> QED
      BY <2>1, <3>2 DEF Entries
  <2> QED
    BY <1>1, <2>2, <2>3
<1>6. KeepsNames(t)
  BY <1>1, <1>2, <1>3, <1>4, <1>5, NobodyElse, DiskSame DEF KeepsNames, Held
<1> QED
  BY <1>3, <1>6, Unwatched, NamesKept DEF Watched

\* What another thread has found stays good, if what it works with keeps its path.
LEMMA SoughtKept ==
  ASSUME Plain, TypeInv, CountInv, NamesInv, NEW t \in Threads, Others(t), UNCHANGED disk,
         NEW s \in Threads, s # t,
         dir[s] \in Vnodes => node'[dir[s]].path = node[dir[s]].path,
         pc[s] \in Held => node'[vp[s]].path = node[vp[s]].path,
         pc[s] = "link" /\ vp[s] \in Alive' =>
           vp[s] \in Alive /\ node'[vp[s]].path = node[vp[s]].path,
         pc[s] = "get" => StandsThen(op[s].found, Target(s))
  PROVE  Sought(s)'
<1>1. /\ Sought(s) /\ pc'[s] = pc[s] /\ op'[s] = op[s] /\ vp'[s] = vp[s] /\ dir'[s] = dir[s]
  BY DEF NamesInv, Others
<1>2. pc[s] \notin {"idle", "wild"} \cup Releasing => TargetThen(s) = Target(s)
  BY <1>1 DEF TypeInv, AtWork, Target, TargetThen
<1>3. pc[s] = "get" => Stands(op[s].found, Target(s))'
  BY <1>1, <1>2, StandsLater DEF Releasing
<1>4. pc[s] \in {"noent", "askLookup"} => (Exists(Target(s))' <=> Exists(Target(s)))
  BY <1>1, <1>2, DiskSame DEF Exists, OnServer, Target, TargetThen, Releasing
<1>5. pc[s] = "link" /\ vp[s] \in Alive' => node'[vp[s]].path = TargetThen(s)
  BY <1>1, <1>2 DEF Sought, Releasing
<1>6. pc[s] \in {"empty", "askRemove", "askRmdir"} => node'[vp[s]].path = TargetThen(s)
  BY <1>1, <1>2 DEF Sought, Releasing, Held
<1> QED
  BY <1>1, <1>3, <1>4, <1>5, <1>6 DEF Sought, Target, TargetThen

\* The number stands, and stays so, when no vnode gets it and none that has it is renamed.
LEMMA StandsOn ==
  ASSUME NEW id, NEW p, Stands(id, p), UNCHANGED disk, Alive \subseteq Alive',
         \A v \in Alive : node'[v].id = node[v].id,
         \A v \in Alive' \ Alive : node'[v].id # id,
         \A v \in Alive : node[v].id = id => node'[v].path = node[v].path /\ ~Unlinked(v)'
  PROVE  StandsThen(id, p)
<1>1. \A v \in Alive' : node'[v].id = id => node'[v].path = p /\ ~Unlinked(v)'
  BY DEF Stands
<1>2. \/ \E v \in Alive' : node'[v].id = id
      \/ ~NothingRemoved /\ ~(p \in Paths /\ server'[p] # "none")
  BY DiskSame DEF Stands, Exists, OnServer
<1> QED
  BY <1>1, <1>2 DEF StandsThen

\* A vnode is made, with a number that nobody has seen.
LEMMA AllocNames ==
  ASSUME Plain, TypeInv, TypeInv', CountInv, CountInv', NamesInv, NEW t \in Threads,
         pc[t] \in {"allocFile", "allocNew", "allocDir"},
         NEW type \in {"file", "dir"}, Alloc(t, type, NoId), NEW l \in {"dots", "name"},
         \/ Goto(t, l) /\ op[t].found = NoId
         \/ Go(t, l, [op[t] EXCEPT !.call = "new", !.found = NoId]),
         UNCHANGED <<disk, dir, res, todo>>
  PROVE  NamesInv'
<1>1. /\ HandsTyped /\ op[t] \in Operation /\ op[t].name \in Names /\ NoId \in 0 .. MaxNodeId
      /\ l \in Pcs
  BY NodesAssumption DEF TypeInv, HandsTyped, Asking, Making, NoId, Pcs
<1>2. PICK v \in Unused, i \in NodeIds :
        /\ node' = [node EXCEPT ![v] = NewNode(type, i)] /\ list' = Append(list, v)
        /\ vp' = [vp EXCEPT ![t] = v]
        /\ i = NoId \/ (NoId = NoId /\ i \in FreshId)
  BY <1>1, Allocates
<1>3. i # NoId /\ i \in FreshId
  BY <1>2 DEF NodeIds, NoId
<1>4. /\ v \in Vnodes /\ v \notin Alive /\ v # NoVnode
      /\ \A s \in Threads : vp[s] # v /\ dir[s] # v /\ res[s] # v
  <2>1. v \in Vnodes /\ v \notin Alive /\ \A s \in Threads : v \notin Touched(s) \cup {res[s]}
    BY DEF Unused
  <2>2. v # NoVnode
    BY <2>1 DEF Vnodes, NoVnode
  <2> QED
    BY <2>1, <2>2 DEF Touched
<1>5. /\ Alive' = Alive \cup {v} /\ Alive \subseteq Vnodes
      /\ \A w \in Vnodes : w # v => node'[w] = node[w]
      /\ node'[v].id = i /\ \A n \in Names : node'[v].entries[n] = NoId
  <2>1. Alive' = Alive \cup {v} /\ Alive \subseteq Vnodes
    BY <1>2, <1>4, Listed, AliveTyped DEF TypeInv, StateTyped
  <2>2. node'[v] = NewNode(type, i) /\ \A w \in Vnodes : w # v => node'[w] = node[w]
    BY <1>2, <1>4 DEF TypeInv, StateTyped
  <2> QED
    BY <2>1, <2>2, NewNodeTyped DEF NewNode
<1>6. pc'[t] = l /\ op'[t].found = NoId /\ vp'[t] = v /\ Others(t)
  <2>1. /\ pc'[t] = l /\ op'[t].found = NoId
        /\ \A s \in Threads : s # t => pc'[s] = pc[s] /\ op'[s] = op[s]
    <3>1. CASE Goto(t, l) /\ op[t].found = NoId
      BY <1>1, <3>1, GotoMoves
    <3>2. CASE Go(t, l, [op[t] EXCEPT !.call = "new", !.found = NoId])
      BY <1>1, <3>2 DEF Go, HandsTyped, Operation
    <3> QED
      BY <3>1, <3>2
  <2> QED
    BY <1>1, <1>2, <2>1 DEF HandsTyped, Others
<1>7. \A w \in Alive : Unlinked(w)' => Unlinked(w)
  BY <1>4, <1>6 DEF Unlinked, Others
<1>8. \A w \in Vnodes : w # v => (Owned(w)' <=> Owned(w))
  <2>1. ASSUME NEW w \in Vnodes
        PROVE  References(w)' = References(w)
    <3>1. Mine(t, w) = Has(dir[t] = w) + Has(res[t] = w) + 0 + InSeq(todo[t], w)
      BY MineIs DEF Held
    <3>2. Mine(t, w)' = Has(dir[t] = w) + Has(res[t] = w) + 0 + InSeq(todo[t], w)
      BY <1>6, MineWillBe DEF Held
    <3>3. /\ References(w) \in Nat /\ Mine(t, w) \in Nat
          /\ References(w)' = References(w) - Mine(t, w) + Mine(t, w)'
      BY <1>6, RefsStep
    <3> QED
      BY <3>1, <3>2, <3>3
  <2> QED
    BY <1>5, <2>1 DEF Owned
<1>9. Owned(v)'
  <2>1. v \in Vnodes /\ References(v) = 0
    BY <1>4 DEF CountInv, NoneLost
  <2>2. Mine(t, v) = Has(dir[t] = v) + Has(res[t] = v) + 0 + InSeq(todo[t], v)
    BY MineIs DEF Held
  <2>3. Mine(t, v)' = Has(dir[t] = v) + Has(res[t] = v) + 0 + InSeq(todo[t], v)
    BY <1>6, MineWillBe DEF Held
  <2>4. /\ References(v) \in Nat /\ Mine(t, v) \in Nat
        /\ References(v)' = References(v) - Mine(t, v) + Mine(t, v)'
    BY <1>6, RefsStep
  <2>5. References(v)' = 0
    BY <2>1, <2>2, <2>3, <2>4
  <2>6. node'[v] = NewNode(type, i)
    BY <1>2, <1>4 DEF TypeInv, StateTyped
  <2> QED
    BY <2>5, <2>6 DEF Owned, NewNode
<1>10. ASSUME NEW id, NEW p, Stands(id, p), i # id
       PROVE  StandsThen(id, p)
  BY <1>4, <1>5, <1>7, <1>10, StandsOn DEF Stands
<1>11. OneVnodePerNumber'
  BY <1>3, <1>4, <1>5 DEF NamesInv, OneVnodePerNumber, FreshId
<1>12. Entered'
  <2>1. ASSUME NEW w \in Alive', NEW n \in Names, node'[w].entries[n] # NoId
        PROVE  StandsThen(node'[w].entries[n], Append(node'[w].path, n))
    <3>1. w \in Alive /\ node'[w] = node[w]
      BY <1>5, <2>1
    <3>2. Stands(node[w].entries[n], Append(node[w].path, n)) /\ i # node[w].entries[n]
      BY <1>3, <2>1, <3>1 DEF NamesInv, Entered, FreshId
    <3> QED
      BY <1>10, <3>1, <3>2
  <2> QED
    BY <2>1, StandsLater DEF Entered
<1>13. ASSUME NEW s \in Threads
       PROVE  Sought(s)'
  <2>1. CASE s = t
    BY <1>6, <2>1 DEF Sought
  <2>2. CASE s # t
    <3>1. dir[s] \in Vnodes => node'[dir[s]].path = node[dir[s]].path
      BY <1>4, <1>5
    <3>2. pc[s] \in Held \cup Fresh => vp[s] \in Vnodes /\ vp[s] # v
      BY <1>4 DEF TypeInv, AtWork
    <3>3. pc[s] = "get" => StandsThen(op[s].found, Target(s))
      BY <1>3, <1>10 DEF NamesInv, Sought, FreshId
    <3> QED
      BY <1>5, <1>6, <2>2, <3>1, <3>2, <3>3, SoughtKept DEF Fresh
  <2> QED
    BY <2>1, <2>2
<1>14. ASSUME NEW s \in Threads
       PROVE  Private(s)'
  <2>1. SUFFICES ASSUME pc'[s] \in {"dots", "name", "link"}
                 PROVE  /\ \A r \in Threads : /\ dir[r] # vp'[s] /\ res[r] # vp'[s]
                                              /\ pc'[r] \in Held => vp'[r] # vp'[s]
                        /\ vp'[s] \in Alive' => \A n \in Names : node'[vp'[s]].entries[n] = NoId
    BY DEF Private
  <2>2. CASE s = t
    BY <1>4, <1>5, <1>6, <2>2 DEF Others, Held
  <2>3. CASE s # t
    <3>1. Private(s) /\ pc[s] \in {"dots", "name", "link"} /\ vp'[s] = vp[s] /\ vp[s] # v
      BY <1>4, <1>6, <2>1, <2>3 DEF NamesInv, Others
    <3> QED
      BY <1>4, <1>5, <1>6, <3>1 DEF Private, Others, Held
  <2> QED
    BY <2>2, <2>3
<1>15. Discarded'
  <2>1. SUFFICES ASSUME NothingRemoved, NEW u \in Alive', ~Owned(u)'
                 PROVE  /\ \A w \in Alive', n \in Names : node'[w].entries[n] # node'[u].id
                        /\ \A s \in Threads : pc'[s] = "get" => op'[s].found # node'[u].id
                        /\ ~Unlinked(u)'
    BY DEF Discarded
  <2>2. u \in Alive /\ u \in Vnodes /\ u # v /\ ~Owned(u) /\ node'[u] = node[u]
    BY <1>5, <1>8, <1>9, <2>1
  <2>3. node[u].id # NoId
    <3>1. node[u].id \in NodeIds
      BY <2>2 DEF TypeInv, StateTyped, NodeRecords
    <3> QED
      BY <3>1 DEF NodeIds, NoId
  <2>4. \A s \in Threads : pc'[s] = "get" => op'[s].found # node[u].id
    BY <1>6, <2>1, <2>2 DEF NamesInv, Discarded, Others
  <2>5. \A w \in Alive', n \in Names : node'[w].entries[n] # node[u].id
    BY <1>5, <2>1, <2>2, <2>3 DEF NamesInv, Discarded
  <2>6. ~Unlinked(u)'
    BY <1>7, <2>1, <2>2 DEF NamesInv, Discarded
  <2> QED
    BY <2>2, <2>4, <2>5, <2>6
<1> QED
  BY <1>11, <1>12, <1>13, <1>14, <1>15 DEF NamesInv

LEMMA AllocsNames ==
  ASSUME Plain, TypeInv, TypeInv', CountInv, CountInv', NamesInv, NEW t \in Threads,
         AllocFile(t) \/ AllocNew(t) \/ iumfs_make_directory(t)
  PROVE  NamesInv'
<1>1. pc[t] \in {"allocFile", "allocDir"} => op[t].found = NoId
  BY DEF NamesInv, Sought
<1>2. CASE AllocFile(t)
  BY <1>1, <1>2, AllocNames DEF AllocFile, At
<1>3. CASE AllocNew(t)
  BY <1>3, AllocNames DEF AllocNew, At
<1>4. CASE iumfs_make_directory(t)
  <2>1. pc[t] = "allocDir" /\ UNCHANGED <<disk, mount, dir, res, todo>>
    BY <1>4 DEF iumfs_make_directory, At, umount
  <2>2. CASE Alloc(t, "dir", op[t].found) /\ Goto(t, "dots")
    BY <1>1, <2>1, <2>2, AllocNames
  <2>3. CASE Goto(t, LookupFailed(t)) /\ UNCHANGED <<fs, vp>>
    <3>1. UNCHANGED <<list, node, vp>>
      BY <2>3 DEF fs
    <3>2. Calm(t)
      BY <2>1, <2>3, <3>1, FailsCalmly DEF Plain, OnceGivenBack
    <3>3. LookupFailed(t) \in Pcs \cap {"idle", "askCreate"}
      BY DEF LookupFailed, Pcs
    <3> QED
      BY <2>1, <2>3, <3>1, <3>2, <3>3, NextNames DEF Held
  <2> QED
    BY <1>4, <2>2, <2>3 DEF iumfs_make_directory
<1> QED
  BY <1>2, <1>3, <1>4

\* The vnode gets its "..", which is no name.
LEMMA AddDotsNames ==
  ASSUME Plain, TypeInv, TypeInv', CountInv, CountInv', NamesInv, NEW t \in Threads, AddDots(t)
  PROVE  NamesInv'
<1>1. /\ Calm(t) /\ pc[t] = "dots" /\ UNCHANGED <<dir, res, vp>>
      /\ pc'[t] \in {"name", "wild"} /\ op'[t] = op[t]
      /\ \A w \in Vnodes, n \in Names : node'[w].entries[n] = node[w].entries[n]
  BY AddDotsCalm, AddDotsIs
<1>2. KeepsNames(t)
  BY <1>1, CalmKeepsNames, NobodyElse DEF Held
<1>3. Sought(t)'
  BY <1>1 DEF NamesInv, Sought
<1> QED
  BY <1>2, <1>3, NamesKept

\* The vnode gets the path of what its maker looks for.
LEMMA SetNameNames ==
  ASSUME Plain, TypeInv, TypeInv', CountInv, CountInv', NamesInv, NEW t \in Threads, SetName(t)
  PROVE  NamesInv'
<1> DEFINE v == vp[t]
<1>1. Named(t)
  BY SetNameSteady
<1>2. /\ pc[t] = "name" /\ v \in Vnodes /\ v \in Alive
      /\ UNCHANGED <<disk, list, dir, res, vp>>
      /\ Alive' = Alive /\ Alive \subseteq Vnodes
      /\ op'[t] = op[t] /\ op[t].found = NoId /\ Others(t) /\ Steady(t)
      /\ Private(t) /\ node'[v].path = Target(t)
  BY <1>1 DEF Named, NamesInv, Sought
<1>3. /\ \A w \in Vnodes : node'[w].id = node[w].id
      /\ \A w \in Vnodes : w # v => node'[w].path = node[w].path
      /\ \A w \in Vnodes, n \in Names : node'[w].entries[n] = node[w].entries[n]
  BY <1>1, Zenon DEF Named
<1>4. pc'[t] = "link"
  <2>1. Goto(t, "link")
    BY <1>2 DEF SetName
  <2> QED
    BY <2>1 DEF Goto, Go, TypeInv, HandsTyped
<1>5. \A w : Unlinked(w)' => Unlinked(w)
  BY <1>2, <1>4 DEF Unlinked, Others
<1>6. dir[t] \in Vnodes /\ dir[t] # v
  BY <1>2 DEF Private, TypeInv, AtWork, Releasing
<1>7. ASSUME NEW id, NEW p, Stands(id, p)
      PROVE  StandsThen(id, p)
  <2>1. ASSUME NEW w \in Alive, node[w].id = id
        PROVE  node'[w].path = node[w].path /\ ~Unlinked(w)'
    <3>1. ~Unlinked(w)
      BY <1>7, <2>1 DEF Stands
    <3>2. w # v
      BY <1>2, <3>1 DEF Unlinked
    <3> QED
      BY <1>2, <1>3, <1>5, <3>1, <3>2
  <2> QED
    BY <1>2, <1>3, <1>7, <2>1, StandsOn
<1>8. OneVnodePerNumber'
  BY <1>2, <1>3 DEF NamesInv, OneVnodePerNumber
<1>9. Entered'
  <2>1. ASSUME NEW w \in Alive, NEW n \in Names, node'[w].entries[n] # NoId
        PROVE  StandsThen(node'[w].entries[n], Append(node'[w].path, n))
    <3>1. w # v /\ w \in Vnodes
      BY <1>2, <1>3, <2>1 DEF Private
    <3>2. Stands(node[w].entries[n], Append(node[w].path, n))
      BY <1>2, <1>3, <2>1 DEF NamesInv, Entered
    <3> QED
      BY <1>3, <1>7, <3>1, <3>2
  <2> QED
    BY <1>2, <2>1, StandsLater DEF Entered
<1>10. ASSUME NEW s \in Threads
       PROVE  Sought(s)'
  <2>1. CASE s = t
    BY <1>2, <1>3, <1>4, <1>6, <2>1 DEF Sought, Target
  <2>2. CASE s # t
    <3>1. dir[s] # v /\ (pc[s] \in Held => vp[s] # v)
      BY <1>2 DEF Private
    <3>2. pc[s] = "link" => vp[s] # v
      BY <1>2, <2>2 DEF CountInv, OneMaker, Fresh
    <3>3. pc[s] \in Held \cup Fresh => vp[s] \in Vnodes
      BY DEF TypeInv, AtWork
    <3>4. pc[s] = "get" => StandsThen(op[s].found, Target(s))
      BY <1>7 DEF NamesInv, Sought
    <3> QED
      BY <1>2, <1>3, <2>2, <3>1, <3>2, <3>3, <3>4, SoughtKept DEF Fresh
  <2> QED
    BY <2>1, <2>2
<1>11. ASSUME NEW s \in Threads
       PROVE  Private(s)'
  <2>1. pc'[s] \in {"dots", "name", "link"} => pc[s] \in {"dots", "name", "link"} /\ vp'[s] = vp[s]
    BY <1>2, <1>4 DEF Others
  <2>2. \A r \in Threads : pc'[r] \in Held => pc[r] \in Held
    BY <1>2, <1>4 DEF Others, Held
  <2> QED
    BY <1>2, <1>3, <2>1, <2>2 DEF NamesInv, Private
<1>12. Discarded'
  <2>1. \A w \in Alive : Owned(w)' <=> Owned(w)
    BY <1>2, SteadyCounts
  <2>2. \A s \in Threads : pc'[s] = "get" => pc[s] = "get" /\ op'[s] = op[s]
    BY <1>2, <1>4 DEF Others
  <2>3. SUFFICES ASSUME NothingRemoved, NEW u \in Alive', ~Owned(u)'
                 PROVE  /\ \A w \in Alive', n \in Names : node'[w].entries[n] # node'[u].id
                        /\ \A s \in Threads : pc'[s] = "get" => op'[s].found # node'[u].id
                        /\ ~Unlinked(u)'
    BY DEF Discarded
  <2>4. u \in Alive /\ u \in Vnodes /\ ~Owned(u) /\ node'[u].id = node[u].id
    BY <1>2, <1>3, <2>1, <2>3
  <2> QED
    BY <1>2, <1>3, <1>5, <2>2, <2>3, <2>4 DEF NamesInv, Discarded
<1> QED
  BY <1>8, <1>9, <1>10, <1>11, <1>12 DEF NamesInv

\* The entry is made, or there is one already.
LEMMA LinkedNames ==
  ASSUME Plain, TypeInv, TypeInv', CountInv, CountInv', NamesInv, NEW t \in Threads,
         At(t, "link"),
         node' = iumfs_add_entry_to_dir(dir[t], op[t].name, node[vp[t]].id),
         Goto(t, "ref"), UNCHANGED <<disk, list, mount, dir, res, vp, todo>>
  PROVE  NamesInv'
<1> DEFINE v == vp[t]
<1>1. Calm(t) /\ pc[t] = "link" /\ Private(t) /\ Sought(t)
  BY LinkedCalm DEF At, NamesInv
<1>2. /\ v \in Vnodes /\ v \in Alive /\ dir[t] \in Vnodes /\ dir[t] \in Alive /\ dir[t] # v
      /\ op[t].name \in Names /\ node[v].path = Target(t)
  <2>1. v \in Vnodes /\ dir[t] \in Vnodes /\ op[t].name \in Names
    BY <1>1 DEF TypeInv, AtWork, Asking, Making, Fresh, Releasing
  <2>2. v \in Alive /\ dir[t] \in Alive
    BY <2>1 DEF At, Touched, Vnodes, NoVnode
  <2> QED
    BY <1>1, <2>1, <2>2 DEF Private, Sought
<1>3. pc'[t] = "ref" /\ Others(t)
  <2>1. "ref" \in Pcs
    BY DEF Pcs
  <2> QED
    BY <1>1, <2>1, GotoMoves DEF TypeInv, Calm, Steady
<1>4. Alive' = Alive /\ Alive \subseteq Vnodes
  BY AliveTyped DEF Alive, TypeInv, StateTyped
<1>5. ASSUME NEW w \in Vnodes, NEW n \in Names
      PROVE  \/ node'[w].entries[n] = node[w].entries[n]
             \/ w = dir[t] /\ n = op[t].name /\ node'[w].entries[n] = node[v].id
  <2>1. CASE node' = node
    BY <2>1
  <2>2. CASE node' = [node EXCEPT ![dir[t]].entries[op[t].name] = node[v].id]
    <3>1. node[w] \in NodeRecords /\ node \in [Vnodes -> NodeRecords]
      BY DEF TypeInv, StateTyped
    <3>2. node'[w] = IF w = dir[t] THEN [node[w] EXCEPT !.entries[op[t].name] = node[v].id]
                     ELSE node[w]
      BY <2>2, <3>1
    <3>3. node[w].entries \in [Entries -> Nat]
      BY <3>1 DEF NodeRecords
    <3> QED
      BY <3>1, <3>2, <3>3 DEF NodeRecords, Entries
  <2> QED
    BY <2>1, <2>2 DEF iumfs_add_entry_to_dir
<1>6. \A w \in Vnodes : node'[w].id = node[w].id /\ node'[w].path = node[w].path
  BY <1>1 DEF Calm, Steady
<1>7. \A w : Unlinked(w)' => Unlinked(w) /\ w # v
  BY <1>1, <1>3 DEF Unlinked, Others, CountInv, OneMaker, Fresh
<1>8. ASSUME NEW id, NEW p, Stands(id, p)
      PROVE  StandsThen(id, p)
  <2>1. \A w \in Alive : node[w].id = id => node'[w].path = node[w].path /\ ~Unlinked(w)'
    BY <1>4, <1>6, <1>7, <1>8 DEF Stands
  <2> QED
    BY <1>4, <1>6, <1>8, <2>1, StandsOn
<1>9. StandsThen(node[v].id, Target(t))
  <2>1. \A w \in Alive : node[w].id = node[v].id => w = v
    BY <1>2 DEF NamesInv, OneVnodePerNumber
  <2>2. \A w \in Alive' : node'[w].id = node[v].id => w = v
    BY <1>4, <1>6, <2>1
  <2>3. \E w \in Alive' : node'[w].id = node[v].id
    BY <1>2, <1>4, <1>6
  <2> QED
    BY <1>2, <1>6, <1>7, <2>2, <2>3 DEF StandsThen
<1>10. OneVnodePerNumber'
  BY <1>4, <1>6 DEF NamesInv, OneVnodePerNumber
<1>11. Entered'
  <2>1. ASSUME NEW w \in Alive, NEW n \in Names, node'[w].entries[n] # NoId
        PROVE  StandsThen(node'[w].entries[n], Append(node'[w].path, n))
    <3>1. node'[w].path = node[w].path /\ w \in Vnodes
      BY <1>4, <1>6
    <3>2. CASE node'[w].entries[n] = node[w].entries[n]
      <4>1. Stands(node[w].entries[n], Append(node[w].path, n))
        BY <2>1, <3>2 DEF NamesInv, Entered
      <4> QED
        BY <1>8, <3>1, <3>2, <4>1
    <3>3. CASE w = dir[t] /\ n = op[t].name /\ node'[w].entries[n] = node[v].id
      <4>1. Append(node'[w].path, n) = Target(t)
        BY <3>1, <3>3 DEF Target
      <4> QED
        BY <1>9, <3>3, <4>1
    <3> QED
      BY <1>5, <3>1, <3>2, <3>3
  <2> QED
    BY <1>4, <2>1, StandsLater DEF Entered
<1>12. ASSUME NEW s \in Threads
       PROVE  Sought(s)'
  <2>1. CASE s = t
    BY <1>3, <2>1, Unwatched DEF Watched
  <2>2. CASE s # t
    <3>1. pc[s] \in Held \cup Fresh => vp[s] \in Vnodes
      BY DEF TypeInv, AtWork
    <3>2. pc[s] = "get" => StandsThen(op[s].found, Target(s))
      BY <1>8 DEF NamesInv, Sought
    <3> QED
      BY <1>3, <1>4, <1>6, <2>2, <3>1, <3>2, SoughtKept DEF Fresh
  <2> QED
    BY <2>1, <2>2
<1>13. ASSUME NEW s \in Threads
       PROVE  Private(s)'
  <2>1. SUFFICES ASSUME pc'[s] \in {"dots", "name", "link"}
                 PROVE  /\ \A r \in Threads : /\ dir[r] # vp[s] /\ res[r] # vp[s]
                                              /\ pc'[r] \in Held => vp[r] # vp[s]
                        /\ vp[s] \in Alive => \A n \in Names : node'[vp[s]].entries[n] = NoId
    BY <1>4 DEF Private
  <2>2. s # t /\ pc[s] \in {"dots", "name", "link"} /\ Private(s)
    BY <1>3, <2>1 DEF NamesInv, Others
  <2>3. \A r \in Threads : pc'[r] \in Held => pc[r] \in Held
    BY <1>3 DEF Others, Held
  <2>4. dir[t] # vp[s]
    BY <2>2 DEF Private
  <2>5. vp[s] \in Alive => \A n \in Names : node'[vp[s]].entries[n] = NoId
    BY <1>4, <1>5, <2>2, <2>4 DEF Private
  <2> QED
    BY <2>2, <2>3, <2>5 DEF Private
<1>14. Discarded'
  <2>1. SUFFICES ASSUME NothingRemoved, NEW u \in Alive', ~Owned(u)'
                 PROVE  /\ \A w \in Alive', n \in Names : node'[w].entries[n] # node'[u].id
                        /\ \A s \in Threads : pc'[s] = "get" => op'[s].found # node'[u].id
                        /\ ~Unlinked(u)'
    BY DEF Discarded
  <2>2. u \in Alive /\ u \in Vnodes /\ ~Owned(u) /\ node'[u].id = node[u].id
    BY <1>1, <1>4, <1>6, <2>1, SteadyCounts DEF Calm
  <2>3. u # v
    BY <1>1, <2>1, <2>2 DEF NamesInv, Discarded, Unlinked
  <2>4. node[v].id # node[u].id
    BY <1>2, <2>2, <2>3 DEF NamesInv, OneVnodePerNumber
  <2>5. \A w \in Alive', n \in Names : node'[w].entries[n] # node[u].id
    BY <1>4, <1>5, <2>1, <2>2, <2>4 DEF NamesInv, Discarded
  <2>6. \A s \in Threads : pc'[s] = "get" => op'[s].found # node[u].id
    BY <1>3, <2>1, <2>2 DEF NamesInv, Discarded, Others
  <2>7. ~Unlinked(u)'
    BY <1>7, <2>1, <2>2 DEF NamesInv, Discarded
  <2> QED
    BY <2>2, <2>5, <2>6, <2>7
<1> QED
  BY <1>10, <1>11, <1>12, <1>13, <1>14 DEF NamesInv

LEMMA LinkNames ==
  ASSUME Plain, TypeInv, TypeInv', CountInv, CountInv', NamesInv, NEW t \in Threads, Link(t)
  PROVE  NamesInv'
<1>1. At(t, "link") /\ pc[t] = "link" /\ UNCHANGED <<disk, list, mount, dir, res>>
  BY DEF Link, At, umount
<1>2. CASE /\ node' = iumfs_add_entry_to_dir(dir[t], op[t].name, node[vp[t]].id)
           /\ Goto(t, "ref") /\ UNCHANGED <<vp, todo>>
  BY <1>1, <1>2, LinkedNames
<1>3. CASE /\ UNCHANGED node /\ op[t].call \in {"new", "mkdir"}
           /\ ReturnAfter(t, <<vp[t]>>)
  <2>1. GivingBack(t, vp[t])
    BY <1>1, <1>3, LinkGivesBack DEF Plain, OnceGivenBack
  <2>2. Others(t) /\ pc'[t] = "rele" /\ vp[t] \in Alive
    BY <2>1 DEF GivingBack
  <2>3. ASSUME NEW w \in Vnodes, w # vp[t]
        PROVE  Owned(w)' <=> Owned(w)
    <3>1. Mine(t, w)' = Mine(t, w)
      <4>1. Mine(t, w)' = Mine(t, w) + Has(w = vp[t]) /\ Mine(t, w) \in Nat
        BY <2>1, <2>2, RefsStep DEF GivingBack
      <4> QED
        BY <2>3, <4>1 DEF Has
    <3>2. References(w)' = References(w)
      <4>1. /\ References(w) \in Nat /\ Mine(t, w) \in Nat
            /\ References(w)' = References(w) - Mine(t, w) + Mine(t, w)'
        BY <2>2, RefsStep
      <4> QED
        BY <3>1, <4>1
    <3> QED
      BY <1>3, <3>2 DEF Owned
  <2>4. Alive' = Alive /\ Alive \subseteq Vnodes
    BY <1>1, AliveTyped DEF Alive, TypeInv, StateTyped
  <2>5. KeepsNames(t)
    BY <1>1, <1>3, <2>2, <2>3, <2>4, NobodyElse, DiskSame DEF KeepsNames, Held
  <2> QED
    BY <2>2, <2>5, Unwatched, NamesKept DEF Watched
<1>4. CASE /\ UNCHANGED node /\ Goto(t, LookupFailed(t))
           /\ vp' = [vp EXCEPT ![t] = NoVnode] /\ UNCHANGED todo
  <2>1. \A s \in Threads : s # t => vp'[s] = vp[s]
    BY <1>4 DEF TypeInv, HandsTyped
  <2>2. Calm(t)
    BY <1>1, <1>4, <2>1, FailsCalmly DEF Plain, OnceGivenBack
  <2>3. pc'[t] \in {"idle", "askCreate"}
    <3>1. LookupFailed(t) \in Pcs \cap {"idle", "askCreate"}
      BY DEF LookupFailed, Pcs
    <3> QED
      BY <1>4, <3>1, GotoMoves DEF TypeInv
  <2>4. KeepsNames(t)
    BY <1>1, <1>4, <2>2, <2>3, GoesOn DEF Held
  <2> QED
    BY <2>3, <2>4, Unwatched, NamesKept DEF Watched
<1> QED
  BY <1>2, <1>3, <1>4 DEF Link

\* Where something can be removed, a request executed late makes nothing.
LEMMA LateMakesNothing ==
  ASSUME Plain, TypeInv, CountInv, LateExecution
  PROVE  NothingRemoved \/ \A p : Exists(p)' => Exists(p)
<1>1. SUFFICES ASSUME ~NothingRemoved, NEW p, Exists(p)'
               PROVE  Exists(p)
  OBVIOUS
<1>2. PICK r \in late : Execute(r)
  BY DEF LateExecution
<1>3. {"create", "mkdir"} \cap Calls = {}
  BY <1>1 DEF Plain, OnceGivenBack, OwnGivenOnce, NothingRemoved
<1>4. r.kind \in {"remove", "rmdir"} /\ r = [kind |-> r.kind, path |-> r.path]
  BY <1>3 DEF CountInv, LateRemoves, TypeInv, StateTyped, Requests
<1>5. UNCHANGED server \/ Removes(r.path)
  BY <1>2, <1>4, RemovalExecuted
<1>6. \A q \in Paths : server'[q] # "none" => server[q] # "none"
  BY <1>5 DEF Removes, TypeInv, StateTyped
<1> QED
  BY <1>1, <1>6 DEF Exists, OnServer

\* Only the server changes.
LEMMA NamesStill ==
  ASSUME NamesInv, UNCHANGED <<list, node, pc, op, dir, res, vp, todo>>,
         NothingRemoved \/ \A p : Exists(p)' => Exists(p)
  PROVE  NamesInv'
<1>1. Alive' = Alive /\ (\A v : Unlinked(v)' <=> Unlinked(v)) /\ (\A v : Owned(v)' <=> Owned(v))
  BY DEF Alive, Unlinked, Owned, References
<1>2. \A id, p : Stands(id, p) => StandsThen(id, p)
  <2>1. \A p : Exists(p)' <=> p \in Paths /\ server'[p] # "none"
    BY DEF Exists, OnServer
  <2> QED
    BY <1>1, <2>1 DEF Stands, StandsThen
<1>3. OneVnodePerNumber' /\ Discarded'
  BY <1>1 DEF NamesInv, OneVnodePerNumber, Discarded
<1>4. Entered'
  BY <1>1, <1>2, StandsLater DEF NamesInv, Entered
<1>5. ASSUME NEW s \in Threads
      PROVE  Sought(s)' /\ Private(s)'
  <2>1. Stands(op[s].found, Target(s)) => Stands(op[s].found, Target(s))'
    BY <1>2, StandsLater DEF Target, TargetThen
  <2>2. NothingRemoved \/ (Exists(Target(s))' => Exists(Target(s)))
    <3>1. Target(s)' = Target(s)
      BY DEF Target
    <3>2. \A p : Exists(p)' <=> p \in Paths /\ server'[p] # "none"
      BY DEF Exists, OnServer
    <3>3. Exists(Target(s))' <=> Target(s) \in Paths /\ server'[Target(s)] # "none"
      BY <3>1 DEF Exists, OnServer
    <3> QED
      BY <3>2, <3>3
  <2>3. Sought(s)'
    BY <1>1, <2>1, <2>2 DEF NamesInv, Sought, Target
  <2> QED
    BY <1>1, <2>3 DEF NamesInv, Private
<1> QED
  BY <1>3, <1>4, <1>5 DEF NamesInv

LEMMA NamesStep ==
  ASSUME Plain, TypeInv, CountMounted, NamesInv, [Next]_vars
  PROVE  NamesInv'
<1>1. TypeInv' /\ CountInv /\ CountInv'
  BY TypeStep, MountedStep DEF Plain, CountMounted
<1>2. ASSUME NEW t \in Threads, Root(t) \/ Chdir(t) \/ Close(t) \/ Leave(t) \/ Call(t)
      PROVE  NamesInv'
  BY <1>1, <1>2, BetweenNames, CallNames
<1>3. ASSUME NEW t \in Threads, Step(t)
      PROVE  NamesInv'
  <2>1. CASE iumfs_find_nodeid_by_name(t) \/ iumfs_find_vnode_by_nodeid(t) \/ Ref(t)
    BY <1>1, <2>1, FindNames, GetNames, RefNames
  <2>2. CASE NotCached(t) \/ AskLookup(t) \/ AllocFails(t) \/ AskCreate(t) \/ AskMkdir(t)
             \/ iumfs_dir_is_empty(t) \/ Stray(t)
    BY <1>1, <2>2, WaysNames
  <2>3. CASE AllocFile(t) \/ AllocNew(t) \/ iumfs_make_directory(t)
    BY <1>1, <2>3, AllocsNames
  <2>4. CASE AddDots(t) \/ SetName(t) \/ Link(t)
    BY <1>1, <2>4, AddDotsNames, SetNameNames, LinkNames
  <2>5. CASE AskRemove(t) \/ AskRmdir(t)
    BY <1>1, <2>5, RemoveNames
  <2>6. CASE iumfs_remove_entry_from_dir(t) \/ VN_RELE(t) \/ iumfs_inactive(t) \/ GiveUp(t)
    BY <1>1, <2>6, UnlinkNames, InactiveNames, BetweenNames
  <2>7. ~(iumfs_request_readdir(t) \/ AddListed(t))
    BY DEF iumfs_request_readdir, AddListed, At, NamesInv, Sought
  <2> QED
    BY <1>3, <2>1, <2>2, <2>3, <2>4, <2>5, <2>6, <2>7 DEF Step
<1>4. ~(Unmount \/ UnmountNext \/ UnmountCheck \/ iumfs_free_all_node \/ UnmountStray)
  BY DEF Plain, OnceGivenBack, CountMounted, Unmount, UnmountNext, UnmountCheck,
         iumfs_free_all_node, UnmountStray
<1>5. CASE LateExecution
  <2>1. UNCHANGED <<list, node, pc, op, dir, res, vp, todo>>
    BY <1>5 DEF LateExecution, fs, hands
  <2> QED
    BY <1>1, <1>5, <2>1, LateMakesNothing, NamesStill
<1>6. CASE UNCHANGED vars
  <2>1. UNCHANGED <<list, node, pc, op, dir, res, vp, todo>> /\ UNCHANGED server
    BY <1>6 DEF vars
  <2>2. \A p : Exists(p)' => Exists(p)
    BY <2>1 DEF Exists, OnServer
  <2> QED
    BY <2>1, <2>2, NamesStill
<1> QED
  BY <1>2, <1>3, <1>4, <1>5, <1>6 DEF Next

LEMMA NamesInit ==
  ASSUME Init
  PROVE  NamesInv
<1>1. RootV \in Vnodes /\ Alive = {RootV}
  <2>1. RootV \in Vnodes
    BY NodesAssumption DEF RootV, Vnodes
  <2>2. DOMAIN list = {1} /\ list[1] = RootV
    BY DEF Init
  <2> QED
    BY <2>1, <2>2 DEF Alive
<1>2. \A t \in Threads : pc[t] = "idle"
  BY DEF Init
<1>3. \A n \in Names : node[RootV].entries[n] = NoId
  <2>1. node[RootV].entries = [NoEntries EXCEPT ![".."] = MountedOn]
    BY <1>1 DEF Init, NewNode
  <2> QED
    BY <2>1, NodesAssumption DEF NoEntries, Entries
<1>4. Owned(RootV)
  BY CountInit DEF CountInv, RootStays
<1> QED
  BY <1>1, <1>2, <1>3, <1>4
  DEF NamesInv, OneVnodePerNumber, Entered, Discarded, Sought, Private

LEMMA NamesInvariant ==
  ASSUME Plain
  PROVE  Spec => [](TypeInv /\ CountMounted /\ NamesInv)
<1>1. Init => TypeInv /\ CountMounted /\ NamesInv
  BY InitTyped, CountInit, NamesInit DEF CountMounted, Init
<1>2. TypeInv /\ CountMounted /\ NamesInv /\ [Next]_vars => (TypeInv /\ CountMounted /\ NamesInv)'
  BY TypeStep, MountedStep, NamesStep DEF Plain
<1> QED
  BY <1>1, <1>2, PTL DEF Spec

\* No two vnodes have the same node number, whatever the threads look up, make and
\* release at the same time, as long as no number is entered before its vnode is
\* made (readdir) or comes from another file system (the ".." of the mount point).
THEOREM NumbersUnique == Plain => (Spec => []OneVnodePerNumber)
<1>1. SUFFICES ASSUME Plain
               PROVE  Spec => []OneVnodePerNumber
  OBVIOUS
<1>2. TypeInv /\ CountMounted /\ NamesInv => OneVnodePerNumber
  BY DEF NamesInv
<1> QED
  BY <1>1, <1>2, NamesInvariant, PTL

\* Under the same condition the path that iumfs_remove and iumfs_rmdir send to the
\* server, which is the vnode's, is the path of the name they were called with.
THEOREM RequestsNameTheTarget == Plain => (Spec => []RequestNamesItsTarget)
<1>1. SUFFICES ASSUME Plain
               PROVE  Spec => []RequestNamesItsTarget
  OBVIOUS
<1>2. TypeInv /\ CountMounted /\ NamesInv => RequestNamesItsTarget
  BY DEF NamesInv, Sought, RequestNamesItsTarget, At
<1> QED
  BY <1>1, <1>2, NamesInvariant, PTL
=============================================================================
