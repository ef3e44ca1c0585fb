----------------------- MODULE IumfsDirectory_proofs -----------------------
(***************************************************************************)
(* Proofs about IumfsDirectory, for any names, programs and buffers.  No   *)
(* name gets a second record, whatever rules the environment keeps to.  A  *)
(* listing returns no name twice while nothing is removed that it has      *)
(* passed; if its requests are answered and any record fits, it misses no  *)
(* name that was there all the time.                                       *)
(***************************************************************************)
EXTENDS IumfsDirectory, FiniteSetTheorems, SequenceTheorems, TLAPS

ServerOK == server \subseteq Names
DataOK   == data \in Seq(DirNames) /\ NamesUnique
DirInv   == ServerOK /\ DataOK

\* The answer of the daemon, worked in: names of s, each once.
LEMMA AnswerIsASequence ==
  ASSUME NEW s, IsFiniteSet(s), NEW answer \in SetToSeqs(s)
  PROVE  /\ answer \in Seq(s)
         /\ \A i, j \in DOMAIN answer : answer[i] = answer[j] => i = j
<1> DEFINE n == Cardinality(s)
<1>1. n \in Nat
  BY FS_CardinalityType
<1>2. answer \in [1 .. n -> s] /\ \A i, j \in 1 .. n : i # j => answer[i] # answer[j]
  BY DEF SetToSeqs
<1>3. answer \in Seq(s) /\ DOMAIN answer = 1 .. n
  BY <1>1, <1>2
<1> QED
  BY <1>2, <1>3

\* A name goes behind the others unless it has a record already.
LEMMA AddKeeps ==
  ASSUME DataOK, NEW n \in DirNames
  PROVE  /\ WithEntry(data, n) \in Seq(DirNames)
         /\ \A i, j \in DOMAIN WithEntry(data, n) :
              WithEntry(data, n)[i] = WithEntry(data, n)[j] => i = j
  BY DEF DataOK, NamesUnique, WithEntry

\* The records in front of record i and those behind it.
LEMMA PartsOfRecords ==
  ASSUME NEW S, NEW s \in Seq(S), NEW i \in 1 .. Len(s)
  PROVE  /\ SubSeq(s, 1, i - 1) \in Seq(S) /\ Len(SubSeq(s, 1, i - 1)) = i - 1
         /\ \A m \in 1 .. i - 1 : SubSeq(s, 1, i - 1)[m] = s[m]
         /\ SubSeq(s, i + 1, Len(s)) \in Seq(S) /\ Len(SubSeq(s, i + 1, Len(s))) = Len(s) - i
         /\ \A m \in 1 .. Len(s) - i : SubSeq(s, i + 1, Len(s))[m] = s[m + i]
<1>1. Len(s) \in Nat /\ i \in Nat
  OBVIOUS
<1>2. /\ SubSeq(s, 1, i - 1) \in Seq(S) /\ Len(SubSeq(s, 1, i - 1)) = i - 1
      /\ \A m \in 1 .. i - 1 : SubSeq(s, 1, i - 1)[m] = s[m]
  BY <1>1
<1>3. SubSeq(s, i + 1, Len(s)) \in Seq(S) /\ Len(SubSeq(s, i + 1, Len(s))) = Len(s) - i
  BY <1>1
<1>4. \A m \in 1 .. Len(s) - i : SubSeq(s, i + 1, Len(s))[m] = s[m + i]
  BY <1>1
<1> QED
  BY <1>2, <1>3, <1>4

\* Records in front of the one removed and those behind it keep their order.
LEMMA RemoveKeeps ==
  ASSUME DataOK, NEW k \in DOMAIN data,
         NEW d, d = SubSeq(data, 1, k - 1) \o SubSeq(data, k + 1, Len(data))
  PROVE  /\ d \in Seq(DirNames)
         /\ \A i, j \in DOMAIN d : d[i] = d[j] => i = j
<1> DEFINE front == SubSeq(data, 1, k - 1)
           back  == SubSeq(data, k + 1, Len(data))
           From(i) == IF i < k THEN i ELSE i + 1
<1>1. data \in Seq(DirNames) /\ Len(data) \in Nat /\ k \in 1 .. Len(data)
  BY DEF DataOK
<1>2. front \in Seq(DirNames) /\ Len(front) = k - 1 /\ \A i \in 1 .. k - 1 : front[i] = data[i]
  BY <1>1
<1>3. /\ back \in Seq(DirNames) /\ Len(back) = Len(data) - k
      /\ \A i \in 1 .. Len(data) - k : back[i] = data[i + k]
  BY <1>1
<1>a. d = front \o back
  OBVIOUS
<1> HIDE DEF front, back
<1>4. d \in Seq(DirNames) /\ Len(d) = Len(data) - 1
  <2>1. front \o back \in Seq(DirNames) /\ Len(front \o back) = Len(front) + Len(back)
    BY <1>2, <1>3, ConcatProperties
  <2>2. Len(front) + Len(back) = Len(data) - 1
    BY <1>1, <1>2, <1>3
  <2> QED
    BY <1>a, <2>1, <2>2
<1>5. \A i \in 1 .. Len(d) : d[i] = IF i <= k - 1 THEN front[i] ELSE back[i - (k - 1)]
  <2>1. \A i \in 1 .. Len(front) + Len(back) :
          (front \o back)[i] = IF i <= Len(front) THEN front[i] ELSE back[i - Len(front)]
    BY <1>2, <1>3, ConcatProperties
  <2>2. Len(front) + Len(back) = Len(d)
    BY <1>1, <1>2, <1>3, <1>4
  <2> QED
    BY <1>2, <1>a, <2>1, <2>2
<1>6. ASSUME NEW i \in 1 .. Len(d)
      PROVE  From(i) \in 1 .. Len(data) /\ d[i] = data[From(i)]
  <2>1. i \in Int /\ 1 <= i /\ i <= Len(data) - 1 /\ k \in Int /\ 1 <= k /\ k <= Len(data)
    BY <1>1, <1>4
  <2>2. CASE i < k
    <3>1. i <= k - 1 /\ i \in 1 .. k - 1 /\ From(i) = i
      BY <2>1, <2>2
    <3>2. d[i] = front[i]
      BY <1>5, <3>1
    <3> QED
      BY <1>1, <1>2, <2>1, <3>1, <3>2
  <2>3. CASE ~(i < k)
    <3>1. i - (k - 1) \in 1 .. Len(data) - k /\ ~(i <= k - 1)
      <4> Len(data) \in Int
        BY <1>1
      <4> HIDE DEF From
      <4> QED
        BY <2>1, <2>3
    <3>5. (i - (k - 1)) + k = i + 1
      BY <2>1
    <3>6. From(i) = i + 1
      BY <2>3
    <3>2. d[i] = back[i - (k - 1)]
      BY <1>5, <3>1
    <3>3. back[i - (k - 1)] = data[i + 1]
      BY <1>3, <3>1, <3>5
    <3>4. i + 1 \in 1 .. Len(data)
      BY <1>1, <2>1
    <3> QED
      BY <3>2, <3>3, <3>4, <3>6
  <2> QED
    BY <2>2, <2>3
<1>7. ASSUME NEW i \in 1 .. Len(d), NEW j \in 1 .. Len(d), From(i) = From(j)
      PROVE  i = j
  <2>1. i \in Int /\ j \in Int /\ k \in Int
    BY <1>1, <1>4
  <2>2. CASE i < k /\ j < k
    BY <1>7, <2>2
  <2>3. CASE i < k /\ ~(j < k)
    <3>1. From(i) = i /\ From(j) = j + 1
      BY <2>3
    <3> QED
      BY <1>7, <2>1, <2>3, <3>1
  <2>4. CASE ~(i < k) /\ j < k
    <3>1. From(i) = i + 1 /\ From(j) = j
      BY <2>4
    <3> QED
      BY <1>7, <2>1, <2>4, <3>1
  <2>5. CASE ~(i < k) /\ ~(j < k)
    <3>1. From(i) = i + 1 /\ From(j) = j + 1
      BY <2>5
    <3>2. i + 1 = j + 1
      BY <1>7, <3>1
    <3> HIDE DEF From
    <3> QED
      BY <2>1, <3>2
  <2> QED
    BY <2>2, <2>3, <2>4, <2>5
<1>8. DOMAIN data = 1 .. Len(data) /\ DOMAIN d = 1 .. Len(d)
  BY <1>1, <1>4
<1> HIDE DEF From
<1>9. ASSUME NEW i \in 1 .. Len(d), NEW j \in 1 .. Len(d), d[i] = d[j]
      PROVE  i = j
  <2>1. data[From(i)] = data[From(j)]
    BY <1>6, <1>9
  <2>2. From(i) \in DOMAIN data /\ From(j) \in DOMAIN data
    BY <1>6, <1>8
  <2>3. From(i) = From(j)
    BY <2>1, <2>2 DEF DataOK, NamesUnique
  <2> QED
    BY <1>7, <2>3
<1> QED
  BY <1>4, <1>8, <1>9

\* An answer adds only names that have no record.
LEMMA ReaddirKeeps ==
  ASSUME DirectoryAssumption, DirInv, NEW d \in iumfs_request_readdir
  PROVE  /\ d \in Seq(DirNames)
         /\ \A i, j \in DOMAIN d : d[i] = d[j] => i = j
<1>0. PICK s \in SUBSET (server \ Cached) : \E a \in SetToSeqs(s) : d = data \o a
  BY DEF iumfs_request_readdir, process_readdir_request
<1>1. PICK answer \in SetToSeqs(s) : d = data \o answer
  BY <1>0
<1>2. IsFiniteSet(s) /\ s \subseteq DirNames
  BY <1>1, FS_Subset DEF DirectoryAssumption, DirInv, ServerOK, DirNames
<1>3. /\ answer \in Seq(s)
      /\ \A i, j \in DOMAIN answer : answer[i] = answer[j] => i = j
  BY <1>1, <1>2, AnswerIsASequence
<1>4. answer \in Seq(DirNames) /\ \A i \in DOMAIN answer : answer[i] \notin Cached
  BY <1>1, <1>2, <1>3
<1>5. data \in Seq(DirNames) /\ d \in Seq(DirNames) /\ Len(d) = Len(data) + Len(answer)
  BY <1>1, <1>4 DEF DirInv, DataOK
<1>6. ASSUME NEW i \in 1 .. Len(data)
      PROVE  d[i] = data[i] /\ d[i] \in Cached
  BY <1>1, <1>4, <1>5 DEF Cached
<1>7. ASSUME NEW i \in 1 .. Len(d), i > Len(data)
      PROVE  i - Len(data) \in DOMAIN answer /\ d[i] = answer[i - Len(data)]
  BY <1>1, <1>4, <1>5, <1>7
<1>8. ASSUME NEW i \in 1 .. Len(d), NEW j \in 1 .. Len(d), d[i] = d[j]
      PROVE  i = j
  <2>1. CASE i <= Len(data) /\ j <= Len(data)
    BY <1>5, <1>6, <1>8, <2>1 DEF DirInv, DataOK, NamesUnique
  <2>2. CASE i > Len(data) /\ j > Len(data)
    BY <1>3, <1>5, <1>7, <1>8, <2>2
  <2>3. CASE (i <= Len(data)) # (j <= Len(data))
    BY <1>4, <1>5, <1>6, <1>7, <1>8, <2>3
  <2> QED
    BY <1>5, <2>1, <2>2, <2>3
<1> QED
  BY <1>5, <1>8

LEMMA DirInvInit == ASSUME Init PROVE DirInv
<1>1. data = <<".", "..">> /\ server \subseteq Names
  BY DEF Init
<1> QED
  BY <1>1 DEF DirInv, ServerOK, DataOK, NamesUnique, DirNames, Dots

LEMMA DirInvStep ==
  ASSUME DirectoryAssumption, DirInv, [Next]_vars
  PROVE  DirInv'
<1>1. ServerOK'
  BY DEF DirInv, ServerOK, Next, vars, iumfs_add_entry_to_dir, iumfs_remove_entry_from_dir,
         ServerAdds, ServerRemoves, iumfs_readdir, StartListing
<1>2. ASSUME NEW n \in Names, iumfs_add_entry_to_dir(n)
      PROVE  DataOK'
  <2>1. data' = WithEntry(data, n) /\ n \in DirNames
    BY <1>2 DEF iumfs_add_entry_to_dir, DirNames
  <2> QED
    BY <2>1, AddKeeps DEF DirInv, DataOK, NamesUnique
<1>3. ASSUME NEW n \in Names, iumfs_remove_entry_from_dir(n)
      PROVE  DataOK'
  <2>1. PICK k \in DOMAIN data : data' = SubSeq(data, 1, k - 1) \o SubSeq(data, k + 1, Len(data))
    BY <1>3 DEF iumfs_remove_entry_from_dir
  <2> QED
    BY <2>1, RemoveKeeps DEF DirInv, DataOK, NamesUnique
<1>4. ASSUME NEW u \in Users, iumfs_readdir(u)
      PROVE  DataOK'
  <2>1. data' \in iumfs_request_readdir
    BY <1>4 DEF iumfs_readdir
  <2> QED
    BY <2>1, ReaddirKeeps DEF DataOK, NamesUnique
<1>5. ASSUME UNCHANGED data
      PROVE  DataOK'
  BY <1>5 DEF DirInv, DataOK, NamesUnique
<1>6. \/ \E n \in Names : iumfs_add_entry_to_dir(n) \/ iumfs_remove_entry_from_dir(n)
      \/ \E u \in Users : iumfs_readdir(u)
      \/ UNCHANGED data
  BY DEF Next, vars, ServerAdds, ServerRemoves, StartListing
<1>7. DataOK'
  BY <1>2, <1>3, <1>4, <1>5, <1>6
<1> QED
  BY <1>1, <1>7 DEF DirInv

\* Every name has at most one record in its directory: lookup, create, mkdir and the
\* answers of readdir all look for it before they add one.
THEOREM UniqueNames == Spec => []NamesUnique
<1>1. Init => DirInv
  BY DirInvInit
<1>2. DirInv /\ [Next]_vars => DirInv'
  BY DirInvStep, DirectoryAssumption
<1>3. DirInv => NamesUnique
  BY DEF DirInv, DataOK
<1> QED
  BY <1>1, <1>2, <1>3, PTL DEF Spec

-----------------------------------------------------------------------------
(***************************************************************************)
(* Lengths of records.                                                     *)
(***************************************************************************)
LongAt(s) == {i \in DOMAIN s : s[i] \in LongNames}

\* A record has a length of one to three units.
LEMMA SizeBounds ==
  ASSUME NEW s \in Seq(DirNames)
  PROVE  /\ IsFiniteSet(LongAt(s)) /\ Cardinality(LongAt(s)) \in Nat
         /\ Size(s) = Len(s) + 2 * Cardinality(LongAt(s))
         /\ Size(s) \in Nat /\ Len(s) <= Size(s) /\ Size(s) <= 3 * Len(s)
<1>1. Len(s) \in Nat /\ DOMAIN s = 1 .. Len(s)
  BY LenProperties
<1>2. IsFiniteSet(1 .. Len(s)) /\ Cardinality(1 .. Len(s)) = Len(s)
  <2>1. 1 \in Int /\ Len(s) \in Int
    BY <1>1
  <2>2. (IF 1 > Len(s) THEN 0 ELSE Len(s) - 1 + 1) = Len(s)
    BY <1>1
  <2> QED
    BY <2>1, <2>2, FS_Interval
<1>3. LongAt(s) \in SUBSET (1 .. Len(s))
  BY <1>1 DEF LongAt
<1>4. IsFiniteSet(LongAt(s)) /\ Cardinality(LongAt(s)) <= Len(s)
  BY <1>2, <1>3, FS_Subset
<1>5. Cardinality(LongAt(s)) \in Nat
  BY <1>4, FS_CardinalityType
<1>6. Size(s) = Len(s) + 2 * Cardinality(LongAt(s))
  BY DEF Size, LongAt
<1> QED
  BY <1>1, <1>4, <1>5, <1>6

\* The lengths of two runs of records add up.
LEMMA SizeConcat ==
  ASSUME NEW s \in Seq(DirNames), NEW t \in Seq(DirNames)
  PROVE  Size(s \o t) = Size(s) + Size(t)
<1> DEFINE st == s \o t
           n  == Len(s)
           f  == [i \in LongAt(t) |-> i + n]
           B  == {i \in LongAt(st) : i > n}
<1>1. /\ st \in Seq(DirNames) /\ Len(st) = n + Len(t)
      /\ \A i \in 1 .. n + Len(t) : st[i] = IF i <= n THEN s[i] ELSE t[i - n]
  BY ConcatProperties
<1>2. /\ n \in Nat /\ Len(t) \in Nat
      /\ DOMAIN s = 1 .. n /\ DOMAIN t = 1 .. Len(t) /\ DOMAIN st = 1 .. n + Len(t)
  BY <1>1, LenProperties
<1> HIDE DEF st, n
<1>3. LongAt(st) = LongAt(s) \cup B /\ LongAt(s) \cap B = {}
  <2>1. ASSUME NEW i \in 1 .. n
        PROVE  i \in LongAt(st) <=> i \in LongAt(s)
    BY <1>1, <1>2 DEF LongAt
  <2>2. LongAt(s) \subseteq 1 .. n /\ LongAt(st) \subseteq Nat \ {0}
    BY <1>2 DEF LongAt
  <2> QED
    BY <1>2, <2>1, <2>2
<1>4. f \in Bijection(LongAt(t), B)
  <2>1. ASSUME NEW i \in LongAt(t)
        PROVE  i \in Nat /\ i + n \in B
    BY <1>1, <1>2 DEF LongAt
  <2>2. ASSUME NEW j \in B
        PROVE  j - n \in LongAt(t) /\ j = (j - n) + n
    BY <1>1, <1>2 DEF LongAt
  <2>3. f \in [LongAt(t) -> B]
    BY <2>1
  <2>4. \A i, j \in LongAt(t) : f[i] = f[j] => i = j
    BY <1>2, <2>1
  <2>5. \A j \in B : \E i \in LongAt(t) : f[i] = j
    BY <2>2
  <2> QED
    BY <2>3, <2>4, <2>5, Zenon DEF Bijection, Injection, Surjection, IsInjective
<1> HIDE DEF f, B
<1>5. IsFiniteSet(B) /\ Cardinality(B) = Cardinality(LongAt(t))
  BY <1>4, SizeBounds, FS_Bijection DEF ExistsBijection
<1>6. Cardinality(LongAt(st)) = Cardinality(LongAt(s)) + Cardinality(LongAt(t))
  <2>1. Cardinality(LongAt(s) \cap B) = 0
    BY <1>3, FS_EmptySet
  <2>2. Cardinality(LongAt(s)) \in Nat /\ Cardinality(B) \in Nat
    BY <1>5, SizeBounds
  <2>3. Cardinality(LongAt(s) \cup B)
          = Cardinality(LongAt(s)) + Cardinality(B) - Cardinality(LongAt(s) \cap B)
    BY <1>5, SizeBounds, FS_Union
  <2> QED
    BY <1>3, <1>5, <2>1, <2>2, <2>3
<1>7. Size(st) = Size(s) + Size(t)
  <2>1. Size(st) = Len(st) + 2 * Cardinality(LongAt(st))
    BY <1>1, SizeBounds
  <2>2. Size(s) = n + 2 * Cardinality(LongAt(s)) /\ Cardinality(LongAt(s)) \in Nat
    BY SizeBounds DEF n
  <2>3. Size(t) = Len(t) + 2 * Cardinality(LongAt(t)) /\ Cardinality(LongAt(t)) \in Nat
    BY SizeBounds
  <2> QED
    BY <1>1, <1>2, <1>6, <2>1, <2>2, <2>3
<1> QED
  BY <1>7 DEF st

\* The first k records.
FrontOf(s, k) == SubSeq(s, 1, k)

LEMMA FrontTyped ==
  ASSUME NEW s \in Seq(DirNames), NEW k \in 0 .. Len(s)
  PROVE  /\ FrontOf(s, k) \in Seq(DirNames) /\ Len(FrontOf(s, k)) = k
         /\ \A i \in 1 .. k : FrontOf(s, k)[i] = s[i]
         /\ Size(FrontOf(s, k)) \in Nat
<1>1. Len(s) \in Nat /\ \A i \in 1 .. k : s[i] \in DirNames
  BY ElementOfSeq, LenProperties
<1>2. /\ FrontOf(s, k) \in Seq(DirNames)
      /\ Len(FrontOf(s, k)) = k
      /\ \A i \in 1 .. k : FrontOf(s, k)[i] = s[i]
  BY <1>1 DEF FrontOf
<1> QED
  BY <1>2, SizeBounds

\* More records are longer, by the length of those that have been added.
LEMMA FrontGrows ==
  ASSUME NEW s \in Seq(DirNames), NEW i \in 1 .. Len(s) + 1, NEW j \in i - 1 .. Len(s)
  PROVE  /\ Size(FrontOf(s, j)) = Size(FrontOf(s, i - 1)) + Size(SubSeq(s, i, j))
         /\ Size(SubSeq(s, i, j)) \in Nat
         /\ j - i + 1 <= Size(SubSeq(s, i, j)) /\ Size(SubSeq(s, i, j)) <= 3 * (j - i + 1)
<1>1. Len(s) \in Nat /\ i \in Int /\ j \in Int /\ i - 1 \in 0 .. Len(s) /\ j \in i - 1 .. Len(s)
  BY LenProperties
<1>2. SubSeq(s, 1, i - 1) \o SubSeq(s, (i - 1) + 1, j) = SubSeq(s, 1, j)
  <2>1. 1 \in 1 .. Len(s) + 1 /\ i - 1 \in 1 - 1 .. Len(s)
    BY <1>1
  <2> QED
    BY <1>1, <2>1, ConcatAdjacentSubSeq
<1>3. SubSeq(s, i, j) \in Seq(DirNames) /\ Len(SubSeq(s, i, j)) = j - i + 1
  <2>1. \A m \in i .. j : s[m] \in DirNames
    BY <1>1, ElementOfSeq
  <2> QED
    BY <1>1, <2>1, SubSeqProperties
<1>4. SubSeq(s, 1, i - 1) \in Seq(DirNames)
  BY <1>1, FrontTyped DEF FrontOf
<1>5. (i - 1) + 1 = i
  BY <1>1
<1>6. Size(SubSeq(s, 1, i - 1) \o SubSeq(s, i, j))
        = Size(SubSeq(s, 1, i - 1)) + Size(SubSeq(s, i, j))
  BY <1>3, <1>4, SizeConcat
<1> QED
  BY <1>2, <1>3, <1>5, <1>6, SizeBounds DEF FrontOf

\* Sequences that begin alike have the same fronts.
LEMMA SameFront ==
  ASSUME NEW s \in Seq(DirNames), NEW t \in Seq(DirNames), NEW k \in 0 .. Len(s), k <= Len(t),
         \A i \in 1 .. k : s[i] = t[i]
  PROVE  FrontOf(s, k) = FrontOf(t, k)
<1>1. k \in 0 .. Len(t)
  BY LenProperties
<1>2. /\ FrontOf(s, k) \in Seq(DirNames) /\ Len(FrontOf(s, k)) = k
      /\ \A i \in 1 .. k : FrontOf(s, k)[i] = s[i]
  BY FrontTyped
<1>3. /\ FrontOf(t, k) \in Seq(DirNames) /\ Len(FrontOf(t, k)) = k
      /\ \A i \in 1 .. k : FrontOf(t, k)[i] = t[i]
  BY <1>1, FrontTyped
<1>4. \A i \in 1 .. k : FrontOf(s, k)[i] = FrontOf(t, k)[i]
  BY <1>2, <1>3
<1> QED
  BY <1>2, <1>3, <1>4, SeqEqual

\* At an offset that is the end of the k-th record, readdir goes on with the next.
LEMMA GoesOn ==
  ASSUME NEW s \in Seq(DirNames), NEW k \in 0 .. Len(s), NEW i \in 1 .. Len(s) + 1,
         Starts(s, Size(FrontOf(s, k)), i)
  PROVE  i = k + 1
<1>1. Len(s) \in Nat /\ i \in Int /\ k \in Int
  BY LenProperties
<1>2. ~(k + 1 < i)
  <2>1. SUFFICES ASSUME k + 1 < i
                 PROVE  FALSE
    OBVIOUS
  <2>2. k + 1 \in 1 .. i - 1 /\ (k + 1) - 1 = k
    BY <1>1, <2>1
  <2>3. Size(SubSeq(s, 1, k)) < Size(FrontOf(s, k))
    BY <2>2 DEF Starts
  <2> QED
    BY <2>3, FrontTyped DEF FrontOf
<1>3. ~(i < k + 1)
  <2>1. SUFFICES ASSUME i < k + 1
                 PROVE  FALSE
    OBVIOUS
  <2>2. i \in 1 .. Len(s) + 1 /\ k \in i - 1 .. Len(s) /\ i <= Len(s) /\ i - 1 \in 0 .. Len(s)
    BY <1>1, <2>1
  <2>3. /\ Size(FrontOf(s, k)) = Size(FrontOf(s, i - 1)) + Size(SubSeq(s, i, k))
        /\ Size(SubSeq(s, i, k)) \in Nat /\ k - i + 1 <= Size(SubSeq(s, i, k))
    BY <2>2, FrontGrows
  <2>4. Size(FrontOf(s, i - 1)) >= Size(FrontOf(s, k))
    BY <2>2 DEF Starts, FrontOf
  <2>5. Size(FrontOf(s, i - 1)) \in Nat
    BY <2>2, FrontTyped
  <2> QED
    BY <1>1, <2>1, <2>3, <2>4, <2>5
<1> QED
  BY <1>1, <1>2, <1>3

-----------------------------------------------------------------------------
(***************************************************************************)
(* Listings.                                                               *)
(***************************************************************************)
Passed(k) == {data[i] : i \in 1 .. k}

\* A listing stands behind the k-th record and has returned the records up to there.
StandsBehind(u, k) ==
  uoff[u] = Size(FrontOf(data, k)) /\ seen[u] = Passed(k)

Listing(u) ==
  /\ again[u] = {}
  /\ listing[u] => \E k \in 0 .. Len(data) : StandsBehind(u, k)

HistoryTyped ==
  /\ uoff \in [Users -> Nat] /\ listing \in [Users -> BOOLEAN]
  /\ \A h \in {stays, seen, again} : h \in [Users -> SUBSET DirNames]

ListInv == DirInv /\ HistoryTyped /\ \A u \in Users : Listing(u)

\* What a step that leaves the listing u alone must keep of the records.
LEMMA ListingKept ==
  ASSUME DataOK, DataOK', NEW u \in Users, Listing(u),
         UNCHANGED <<uoff[u], listing[u], seen[u], again[u]>>,
         NEW k \in 0 .. Len(data), k <= Len(data'),
         listing[u] => StandsBehind(u, k),
         \A i \in 1 .. k : data'[i] = data[i]
  PROVE  Listing(u)'
<1>1. FrontOf(data', k) = FrontOf(data, k)
  BY SameFront DEF DataOK
<1>2. Passed(k)' = Passed(k)
  BY DEF Passed
<1>3. k \in 0 .. Len(data')
  BY LenProperties DEF DataOK
<1>4. listing'[u] => StandsBehind(u, k)'
  BY <1>1, <1>2 DEF StandsBehind
<1> QED
  BY <1>3, <1>4 DEF Listing

\* New records go behind all the others.
LEMMA ListingsKeptByAdding ==
  ASSUME ListInv, DataOK', NEW a \in Seq(DirNames), data' = data \o a,
         NEW u \in Users, UNCHANGED <<uoff[u], listing[u], seen[u], again[u]>>
  PROVE  Listing(u)'
<1>1. /\ Len(data) \in Nat /\ Len(a) \in Nat /\ Len(data') = Len(data) + Len(a)
      /\ \A i \in 1 .. Len(data) : data'[i] = data[i]
  BY ConcatProperties, LenProperties DEF ListInv, DirInv, DataOK
<1>2. PICK k \in 0 .. Len(data) : listing[u] => StandsBehind(u, k)
  BY <1>1 DEF ListInv, Listing
<1>3. DataOK /\ Listing(u) /\ k <= Len(data') /\ \A i \in 1 .. k : data'[i] = data[i]
  BY <1>1 DEF ListInv, DirInv
<1> QED
  BY <1>2, <1>3, ListingKept

\* A removal behind the records a listing has passed does not move them.
LEMMA ListingsKeptByRemoval ==
  ASSUME ListInv, DataOK', "notBehind" \in Rules,
         NEW n \in Names, iumfs_remove_entry_from_dir(n), NEW u \in Users
  PROVE  Listing(u)'
<1>1. PICK i \in DOMAIN data :
        /\ listing[u] => uoff[u] <= Offset(i)
        /\ data' = SubSeq(data, 1, i - 1) \o SubSeq(data, i + 1, Len(data))
  BY DEF iumfs_remove_entry_from_dir
<1>2. /\ data \in Seq(DirNames) /\ Len(data) \in Nat /\ i \in 1 .. Len(data)
      /\ DataOK /\ Listing(u)
  BY LenProperties DEF ListInv, DirInv, DataOK
<1>3. /\ SubSeq(data, 1, i - 1) \in Seq(DirNames) /\ Len(SubSeq(data, 1, i - 1)) = i - 1
      /\ \A m \in 1 .. i - 1 : SubSeq(data, 1, i - 1)[m] = data[m]
      /\ SubSeq(data, i + 1, Len(data)) \in Seq(DirNames)
      /\ Len(SubSeq(data, i + 1, Len(data))) = Len(data) - i
  BY <1>2
<1>4. Len(data') = Len(data) - 1 /\ \A m \in 1 .. i - 1 : data'[m] = data[m]
  <2> DEFINE front == SubSeq(data, 1, i - 1)
             back  == SubSeq(data, i + 1, Len(data))
  <2>1. /\ Len(front \o back) = Len(front) + Len(back)
        /\ \A m \in 1 .. Len(front) + Len(back) :
             (front \o back)[m] = IF m <= Len(front) THEN front[m] ELSE back[m - Len(front)]
    BY <1>3, ConcatProperties
  <2>2. data' = front \o back /\ Len(front) = i - 1 /\ Len(back) = Len(data) - i
        /\ \A m \in 1 .. i - 1 : front[m] = data[m]
    BY <1>1, <1>3
  <2> HIDE DEF front, back
  <2>3. Len(front) + Len(back) = Len(data) - 1
    BY <1>2, <2>2
  <2>4. ASSUME NEW m \in 1 .. i - 1
        PROVE  data'[m] = data[m]
    <3>1. m \in 1 .. Len(front) + Len(back) /\ m <= Len(front)
      BY <1>2, <2>2, <2>3
    <3> QED
      BY <2>1, <2>2, <3>1
  <2> QED
    BY <2>1, <2>2, <2>3, <2>4
<1>5. PICK k \in 0 .. Len(data) : listing[u] => StandsBehind(u, k)
  BY <1>2 DEF Listing
<1>6. listing[u] => k <= i - 1
  <2>1. SUFFICES ASSUME listing[u], ~(k <= i - 1)
                 PROVE  FALSE
    OBVIOUS
  <2>2. i - 1 \in 0 .. Len(data) /\ i \in 1 .. Len(data) + 1 /\ k \in i - 1 .. Len(data)
        /\ k - i + 1 >= 1
    BY <1>2, <2>1
  <2>3. Size(FrontOf(data, k)) = Size(FrontOf(data, i - 1)) + Size(SubSeq(data, i, k))
        /\ Size(SubSeq(data, i, k)) \in Nat /\ k - i + 1 <= Size(SubSeq(data, i, k))
    BY <1>2, <2>2, FrontGrows
  <2>4. Size(FrontOf(data, k)) <= Size(FrontOf(data, i - 1))
    BY <1>1, <1>5, <2>1 DEF StandsBehind, Offset, FrontOf
  <2>5. Size(FrontOf(data, i - 1)) \in Nat
    BY <1>2, <2>2, FrontTyped
  <2> QED
    BY <1>2, <2>2, <2>3, <2>4, <2>5
<1>7. UNCHANGED <<uoff, listing, seen, again>>
  BY DEF iumfs_remove_entry_from_dir
<1>8. CASE listing[u]
  <2>1. k <= Len(data') /\ \A m \in 1 .. k : data'[m] = data[m]
    BY <1>2, <1>4, <1>6, <1>8
  <2> QED
    BY <1>2, <1>5, <1>7, <2>1, ListingKept
<1>9. CASE ~listing[u]
  BY <1>2, <1>7, <1>9 DEF Listing
<1> QED
  BY <1>8, <1>9

\* One call of readdir by u that returns the records from the i-th to the j-th of d.
Returned(d, i, j) == {d[m] : m \in i .. j}
Reads(u, d, resid, i, j) ==
  /\ Starts(d, uoff[u], i) /\ Fits(d, resid, i, j)
  /\ data' = d
  /\ uoff' = [uoff EXCEPT ![u] = Advance(@, SubSeq(d, i, j))]
  /\ listing' = [listing EXCEPT ![u] = Returned(d, i, j) # {}]
  /\ seen' = [seen EXCEPT ![u] = @ \cup Returned(d, i, j)]
  /\ again' = [again EXCEPT ![u] = @ \cup (Returned(d, i, j) \cap seen[u] \cap stays[u])]

LEMMA ReaddirIsReads ==
  ASSUME NEW u \in Users, iumfs_readdir(u)
  PROVE  /\ listing[u] /\ UNCHANGED <<server, stays>>
         /\ \E d \in iumfs_request_readdir, resid \in Buffers :
            \E i \in 1 .. Len(d) + 1 : \E j \in i - 1 .. Len(d) : Reads(u, d, resid, i, j)
  BY DEF iumfs_readdir, Reads, Returned

\* It goes on behind the last record it has returned.
LEMMA ReadsOn ==
  ASSUME ListInv, NEW a \in Seq(DirNames), NEW d \in Seq(DirNames), d = data \o a,
         \A m, n \in DOMAIN d : d[m] = d[n] => m = n,
         NEW u \in Users, listing[u], NEW resid, NEW i \in 1 .. Len(d) + 1,
         NEW j \in i - 1 .. Len(d), Reads(u, d, resid, i, j)
  PROVE  /\ StandsBehind(u, j)'
         /\ again'[u] = {}
         /\ uoff'[u] \in Nat
<1>1. /\ data \in Seq(DirNames) /\ Len(data) \in Nat /\ Len(d) \in Nat /\ DOMAIN d = 1 .. Len(d)
      /\ Len(d) = Len(data) + Len(a) /\ Len(a) \in Nat
      /\ \A m \in 1 .. Len(data) : d[m] = data[m]
  BY ConcatProperties, LenProperties DEF ListInv, DirInv, DataOK
<1>2. PICK k \in 0 .. Len(data) : StandsBehind(u, k)
  BY DEF ListInv, Listing
<1>3. FrontOf(d, k) = FrontOf(data, k) /\ Passed(k) = {d[m] : m \in 1 .. k}
  <2>1. k \in 0 .. Len(data) /\ k <= Len(d) /\ \A m \in 1 .. k : data[m] = d[m]
    BY <1>1
  <2>2. FrontOf(data, k) = FrontOf(d, k)
    BY <1>1, <2>1, SameFront
  <2> QED
    BY <2>1, <2>2 DEF Passed
<1>4. i = k + 1
  <2>1. Starts(d, Size(FrontOf(d, k)), i) /\ k \in 0 .. Len(d)
    BY <1>1, <1>2, <1>3 DEF Reads, StandsBehind
  <2> QED
    BY <2>1, GoesOn
<1>5. uoff'[u] = Size(FrontOf(d, j)) /\ uoff'[u] \in Nat
  <2>1. /\ Size(FrontOf(d, j)) = Size(FrontOf(d, i - 1)) + Size(SubSeq(d, i, j))
        /\ Size(FrontOf(d, i - 1)) \in Nat /\ Size(SubSeq(d, i, j)) \in Nat
    <3>1. i - 1 \in 0 .. Len(d)
      BY <1>1
    <3>2. Size(FrontOf(d, i - 1)) \in Nat
      BY <3>1, FrontTyped
    <3> QED
      BY <3>2, FrontGrows
  <2>2. uoff'[u] = uoff[u] + Size(SubSeq(d, i, j))
    BY DEF Reads, Advance, ListInv, HistoryTyped
  <2>3. i - 1 = k
    BY <1>4
  <2> QED
    BY <1>2, <1>3, <2>1, <2>2, <2>3 DEF StandsBehind
<1>6. seen'[u] = {d[m] : m \in 1 .. j}
  <2>1. seen'[u] = {d[m] : m \in 1 .. k} \cup {d[m] : m \in k + 1 .. j}
    BY <1>2, <1>3, <1>4 DEF Reads, Returned, StandsBehind, ListInv, HistoryTyped
  <2>2. j \in k .. Len(d)
    BY <1>1, <1>4
  <2> QED
    BY <1>1, <2>1, <2>2
<1>7. again'[u] = {}
  <2>1. {d[m] : m \in 1 .. k} \cap {d[m] : m \in k + 1 .. j} = {}
    <3>1. ASSUME NEW m \in 1 .. k, NEW n \in k + 1 .. j
          PROVE  d[m] # d[n]
      <4>1. m \in DOMAIN d /\ n \in DOMAIN d /\ m # n
        BY <1>1, <1>4
      <4> QED
        BY <4>1
    <3> QED
      BY <3>1
  <2>2. Returned(d, i, j) \cap seen[u] = {}
    BY <1>2, <1>3, <1>4, <2>1 DEF Returned, StandsBehind
  <2> QED
    BY <2>2 DEF Reads, ListInv, HistoryTyped, Listing
<1>8. data' = d
  BY DEF Reads
<1> QED
  BY <1>5, <1>6, <1>7, <1>8 DEF StandsBehind, Passed

\* An answer adds records of names that had none, of all of them if it is complete.
LEMMA AnswerAdds ==
  ASSUME DirectoryAssumption, DirInv, NEW d \in iumfs_request_readdir
  PROVE  /\ \E a \in Seq(DirNames) : d = data \o a
         /\ d \in Seq(DirNames) /\ \A i, j \in DOMAIN d : d[i] = d[j] => i = j
         /\ "answered" \in Rules => Cached \cup server \subseteq {d[i] : i \in DOMAIN d}
<1>1. PICK s \in SUBSET (server \ Cached) :
        /\ \E a \in SetToSeqs(s) : d = data \o a
        /\ "answered" \in Rules => s = server \ Cached
  BY DEF iumfs_request_readdir, process_readdir_request
<1>2. PICK a \in SetToSeqs(s) : d = data \o a
  BY <1>1
<1>3. IsFiniteSet(s) /\ s \subseteq DirNames
  BY FS_Subset DEF DirectoryAssumption, DirInv, ServerOK, DirNames
<1>4. a \in Seq(s) /\ a \in Seq(DirNames) /\ Len(a) \in Nat /\ DOMAIN a = 1 .. Len(a)
  BY <1>3, AnswerIsASequence, SeqMonotonic, LenProperties
<1>5. \A x \in s : \E i \in 1 .. Len(a) : a[i] = x
  <2> DEFINE n == Cardinality(s)
  <2>1. n \in Nat /\ IsFiniteSet(1 .. n) /\ Cardinality(1 .. n) = n
    <3>1. n \in Nat
      BY <1>3, FS_CardinalityType
    <3> HIDE DEF n
    <3>2. IsFiniteSet(1 .. n) /\ Cardinality(1 .. n) = IF 1 > n THEN 0 ELSE n - 1 + 1
      BY <3>1, FS_Interval
    <3> QED
      BY <3>1, <3>2
  <2>2. a \in [1 .. n -> s] /\ \A i, j \in 1 .. n : i # j => a[i] # a[j]
    BY DEF SetToSeqs
  <2>3. a \in Injection(1 .. n, s)
    BY <2>2 DEF Injection, IsInjective
  <2>4. a \in Surjection(1 .. n, s)
    BY <1>3, <2>1, <2>3, FS_Injection
  <2>5. 1 .. n = 1 .. Len(a)
    BY <1>4, <2>2
  <2> QED
    BY <2>4, <2>5 DEF Surjection
<1>6. /\ data \in Seq(DirNames) /\ Len(data) \in Nat /\ DOMAIN data = 1 .. Len(data)
      /\ d \in Seq(DirNames) /\ DOMAIN d = 1 .. Len(data) + Len(a)
      /\ \A i \in 1 .. Len(data) + Len(a) :
           d[i] = IF i <= Len(data) THEN data[i] ELSE a[i - Len(data)]
  <2>1. data \in Seq(DirNames)
    BY DEF DirInv, DataOK
  <2> QED
    BY <1>2, <1>4, <2>1, ConcatProperties, LenProperties
<1>7. ASSUME "answered" \in Rules, NEW x \in Cached \cup server
      PROVE  \E i \in DOMAIN d : d[i] = x
  <2>1. CASE x \in Cached
    <3>1. PICK i \in 1 .. Len(data) : data[i] = x
      BY <1>6, <2>1 DEF Cached
    <3>2. i \in DOMAIN d /\ d[i] = x
      BY <1>4, <1>6, <3>1
    <3> QED
      BY <3>2
  <2>2. CASE x \notin Cached
    <3>1. PICK i \in 1 .. Len(a) : a[i] = x
      BY <1>1, <1>5, <1>7, <2>2
    <3> DEFINE m == i + Len(data)
    <3>2. m \in 1 .. Len(data) + Len(a) /\ ~(m <= Len(data)) /\ m - Len(data) = i
      BY <1>4, <1>6
    <3>3. m \in DOMAIN d /\ d[m] = a[m - Len(data)]
      BY <1>6, <3>2
    <3> QED
      BY <3>1, <3>2, <3>3
  <2> QED
    BY <2>1, <2>2
<1>8. \A i, j \in DOMAIN d : d[i] = d[j] => i = j
  BY ReaddirKeeps
<1>9. \E b \in Seq(DirNames) : d = data \o b
  BY <1>2, <1>4
<1>a. "answered" \in Rules => Cached \cup server \subseteq {d[i] : i \in DOMAIN d}
  BY <1>7
<1>b. d \in Seq(DirNames)
  BY <1>6
<1> QED
  BY <1>8, <1>9, <1>a, <1>b, Zenon

-----------------------------------------------------------------------------
(***************************************************************************)
(* The steps.                                                              *)
(***************************************************************************)
LEMMA AnswerKeepsListings ==
  ASSUME DirectoryAssumption, ListInv, DataOK', NEW u \in Users, iumfs_readdir(u)
  PROVE  \A w \in Users : Listing(w)'
<1>1. /\ listing[u] /\ DirInv
      /\ \E d \in iumfs_request_readdir, resid \in Buffers :
         \E i \in 1 .. Len(d) + 1 : \E j \in i - 1 .. Len(d) : Reads(u, d, resid, i, j)
  BY ReaddirIsReads DEF ListInv
<1>2. PICK d \in iumfs_request_readdir, resid \in Buffers :
        \E i \in 1 .. Len(d) + 1 : \E j \in i - 1 .. Len(d) : Reads(u, d, resid, i, j)
  BY <1>1
<1>3. PICK i \in 1 .. Len(d) + 1 : \E j \in i - 1 .. Len(d) : Reads(u, d, resid, i, j)
  BY <1>2
<1>4. PICK j \in i - 1 .. Len(d) : Reads(u, d, resid, i, j)
  BY <1>3
<1>5. PICK a \in Seq(DirNames) : d = data \o a
  BY <1>1, AnswerAdds
<1>6. /\ d \in Seq(DirNames) /\ \A m, n \in DOMAIN d : d[m] = d[n] => m = n
      /\ Len(d) \in Nat /\ data' = d
  BY <1>1, <1>4, AnswerAdds, LenProperties DEF Reads
<1>7. Listing(u)'
  <2>1. j \in 0 .. Len(d)
    BY <1>6
  <2>2. StandsBehind(u, j)' /\ again'[u] = {}
    BY <1>1, <1>4, <1>5, <1>6, ReadsOn
  <2> QED
    BY <1>6, <2>1, <2>2 DEF Listing
<1>8. ASSUME NEW w \in Users, w # u
      PROVE  Listing(w)'
  <2>1. UNCHANGED <<uoff[w], listing[w], seen[w], again[w]>>
    BY <1>4, <1>8 DEF Reads, ListInv, HistoryTyped
  <2> QED
    BY <1>5, <1>6, <2>1, ListingsKeptByAdding
<1> QED
  BY <1>7, <1>8

\* The variables of the listings keep their types.
LEMMA HistoryTypedStep ==
  ASSUME DirectoryAssumption, ListInv, [Next]_vars
  PROVE  HistoryTyped'
<1> USE DEF HistoryTyped
<1>0. HistoryTyped /\ DirInv /\ \A n \in Names : n \in DirNames
  BY DEF ListInv, DirNames
<1>1. ASSUME NEW u \in Users, iumfs_readdir(u)
      PROVE  HistoryTyped'
  <2>1. UNCHANGED stays
    BY <1>1, ReaddirIsReads
  <2>2. PICK d \in iumfs_request_readdir, resid \in Buffers :
          \E i \in 1 .. Len(d) + 1 : \E j \in i - 1 .. Len(d) : Reads(u, d, resid, i, j)
    BY <1>1, ReaddirIsReads
  <2>3. PICK i \in 1 .. Len(d) + 1 : \E j \in i - 1 .. Len(d) : Reads(u, d, resid, i, j)
    BY <2>2
  <2>4. PICK j \in i - 1 .. Len(d) : Reads(u, d, resid, i, j)
    BY <2>3
  <2>5. d \in Seq(DirNames) /\ Len(d) \in Nat
    BY <1>0, AnswerAdds, LenProperties
  <2>6. Returned(d, i, j) \subseteq DirNames
    <3>1. \A m \in i .. j : m \in 1 .. Len(d)
      BY <2>5
    <3> QED
      BY <2>5, <3>1, ElementOfSeq DEF Returned
  <2>7. Size(SubSeq(d, i, j)) \in Nat
    BY <2>5, FrontGrows
  <2>8. uoff' \in [Users -> Nat]
    BY <1>0, <2>4, <2>7 DEF Reads, Advance
  <2>9. listing' \in [Users -> BOOLEAN]
    BY <1>0, <2>4 DEF Reads
  <2>10. seen' \in [Users -> SUBSET DirNames] /\ again' \in [Users -> SUBSET DirNames]
    BY <1>0, <2>4, <2>6 DEF Reads
  <2> QED
    BY <1>0, <2>1, <2>8, <2>9, <2>10
<1>2. ASSUME NEW u \in Users, StartListing(u)
      PROVE  HistoryTyped'
  <2>1. Cached \cup server \subseteq DirNames
    BY <1>0 DEF DirInv, DataOK, ServerOK, Cached, DirNames
  <2> QED
    BY <1>0, <1>2, <2>1 DEF StartListing
<1>3. ASSUME NEW n \in Names, Gone(n), UNCHANGED <<uoff, listing, seen, again>>
      PROVE  HistoryTyped'
  BY <1>0, <1>3 DEF Gone
<1>4. ASSUME UNCHANGED <<uoff, listing, stays, seen, again>>
      PROVE  HistoryTyped'
  BY <1>0, <1>4
<1>5. \/ \E u \in Users : iumfs_readdir(u) \/ StartListing(u)
      \/ \E n \in Names : Gone(n) /\ UNCHANGED <<uoff, listing, seen, again>>
      \/ UNCHANGED <<uoff, listing, stays, seen, again>>
  BY DEF Next, vars, history, iumfs_add_entry_to_dir, iumfs_remove_entry_from_dir,
         ServerAdds, ServerRemoves
<1> QED
  BY <1>1, <1>2, <1>3, <1>4, <1>5

\* A listing begins in front of the first record.
LEMMA StartsInFront ==
  ASSUME ListInv, NEW u \in Users, StartListing(u)
  PROVE  Listing(u)'
<1>1. data \in Seq(DirNames) /\ Len(data) \in Nat /\ data' = data
  BY LenProperties DEF ListInv, DirInv, DataOK, StartListing
<1>2. Size(FrontOf(data, 0)) = 0
  <2>1. FrontOf(data, 0) \in Seq(DirNames) /\ Len(FrontOf(data, 0)) = 0
    BY <1>1, FrontTyped
  <2> QED
    BY <2>1, SizeBounds
<1>3. uoff'[u] = 0 /\ seen'[u] = {} /\ again'[u] = {}
  BY DEF StartListing, ListInv, HistoryTyped
<1>4. StandsBehind(u, 0)'
  BY <1>1, <1>2, <1>3 DEF StandsBehind, Passed
<1> QED
  BY <1>1, <1>3, <1>4 DEF Listing

LEMMA ListInvStep ==
  ASSUME DirectoryAssumption, "notBehind" \in Rules, ListInv, [Next]_vars
  PROVE  ListInv'
<1>1. DirInv' /\ DataOK' /\ HistoryTyped'
  BY DirInvStep, HistoryTypedStep DEF ListInv, DirInv
<1>2. ASSUME NEW n \in Names, iumfs_add_entry_to_dir(n), NEW w \in Users
      PROVE  Listing(w)'
  <2>1. UNCHANGED <<uoff[w], listing[w], seen[w], again[w]>>
    BY <1>2 DEF iumfs_add_entry_to_dir, history
  <2>2. data \in Seq(DirNames) /\ n \in DirNames
    BY DEF ListInv, DirInv, DataOK, DirNames
  <2>3. CASE data' = data
    <3>1. data' = data \o <<>> /\ <<>> \in Seq(DirNames)
      BY <2>2, <2>3, ConcatEmptySeq
    <3> QED
      BY <1>1, <2>1, <3>1, ListingsKeptByAdding
  <2>4. CASE data' = Append(data, n)
    <3>1. data' = data \o <<n>> /\ <<n>> \in Seq(DirNames)
      BY <2>2, <2>4, AppendIsConcat
    <3> QED
      BY <1>1, <2>1, <3>1, ListingsKeptByAdding
  <2> QED
    BY <1>2, <2>3, <2>4 DEF iumfs_add_entry_to_dir, WithEntry
<1>3. ASSUME NEW n \in Names, iumfs_remove_entry_from_dir(n), NEW w \in Users
      PROVE  Listing(w)'
  BY <1>1, <1>3, ListingsKeptByRemoval
<1>4. ASSUME NEW u \in Users, iumfs_readdir(u), NEW w \in Users
      PROVE  Listing(w)'
  BY <1>1, <1>4, AnswerKeepsListings
<1>5. ASSUME NEW u \in Users, StartListing(u), NEW w \in Users
      PROVE  Listing(w)'
  <2>1. CASE w = u
    BY <1>5, <2>1, StartsInFront
  <2>2. CASE w # u
    <3>1. UNCHANGED <<data, uoff[w], listing[w], seen[w], again[w]>>
      BY <1>5, <2>2 DEF StartListing, ListInv, HistoryTyped
    <3> QED
      BY <3>1 DEF ListInv, Listing, StandsBehind, Passed
  <2> QED
    BY <2>1, <2>2
<1>6. ASSUME UNCHANGED <<data, uoff, listing, seen, again>>, NEW w \in Users
      PROVE  Listing(w)'
  BY <1>6 DEF ListInv, Listing, StandsBehind, Passed
<1>7. \A w \in Users : Listing(w)'
  BY <1>2, <1>3, <1>4, <1>5, <1>6 DEF Next, vars, history, ServerAdds, ServerRemoves
<1> QED
  BY <1>1, <1>7 DEF ListInv

LEMMA ListInvInit == ASSUME Init PROVE ListInv
<1>1. DirInv
  BY DirInvInit
<1> QED
  BY <1>1 DEF Init, ListInv, HistoryTyped, Listing

-----------------------------------------------------------------------------
(***************************************************************************)
(* Completeness: what was there all the time is still to come, or seen.    *)
(***************************************************************************)
StaysOK(u) ==
  /\ listing[u] => stays[u] \subseteq Cached \cup server
  /\ ~listing[u] => stays[u] \subseteq seen[u]

\* A call that returns nothing has nothing left to return.
LEMMA NothingLeft ==
  ASSUME DirectoryAssumption, "roomy" \in Rules, NEW d \in Seq(DirNames),
         NEW resid \in Buffers, NEW i \in 1 .. Len(d) + 1, NEW j \in i - 1 .. Len(d),
         Fits(d, resid, i, j), Returned(d, i, j) = {}
  PROVE  j = Len(d)
<1>1. Len(d) \in Nat /\ i \in Int /\ j \in Int /\ resid \in Nat /\ resid >= 3
  BY LenProperties DEF DirectoryAssumption
<1>2. j = i - 1
  <2>1. ~(i <= j)
    <3>1. i <= j => i \in i .. j
      BY <1>1
    <3> QED
      BY <3>1 DEF Returned
  <2> QED
    BY <1>1, <2>1
<1>3. ~(j < Len(d))
  <2>1. SUFFICES ASSUME j < Len(d)
                 PROVE  FALSE
    OBVIOUS
  <2>2. i \in 1 .. Len(d) + 1 /\ i \in i - 1 .. Len(d) /\ j + 1 = i /\ 3 * (i - i + 1) = 3
    BY <1>1, <1>2, <2>1
  <2>3. Size(SubSeq(d, i, i)) \in Nat /\ Size(SubSeq(d, i, i)) <= 3
    BY <2>2, FrontGrows
  <2>4. Size(SubSeq(d, i, j + 1)) > resid
    BY <2>1 DEF Fits
  <2> QED
    BY <1>1, <2>2, <2>3, <2>4
<1> QED
  BY <1>1, <1>3

LEMMA StaysKeptByReaddir ==
  ASSUME DirectoryAssumption, {"notBehind", "roomy", "answered"} \subseteq Rules,
         ListInv, NEW u \in Users, iumfs_readdir(u), NEW w \in Users, StaysOK(w)
  PROVE  StaysOK(w)'
<1>1. listing[u] /\ UNCHANGED <<server, stays>> /\ DirInv
  BY ReaddirIsReads DEF ListInv
<1>2. PICK d \in iumfs_request_readdir, resid \in Buffers :
        \E i \in 1 .. Len(d) + 1 : \E j \in i - 1 .. Len(d) : Reads(u, d, resid, i, j)
  BY ReaddirIsReads
<1>3. PICK i \in 1 .. Len(d) + 1 : \E j \in i - 1 .. Len(d) : Reads(u, d, resid, i, j)
  BY <1>2
<1>4. PICK j \in i - 1 .. Len(d) : Reads(u, d, resid, i, j)
  BY <1>3
<1>5. PICK a \in Seq(DirNames) : d = data \o a
  BY <1>1, AnswerAdds
<1>6. /\ d \in Seq(DirNames) /\ \A m, n \in DOMAIN d : d[m] = d[n] => m = n
      /\ DOMAIN d = 1 .. Len(d) /\ data' = d
      /\ Cached \cup server \subseteq {d[m] : m \in DOMAIN d}
  BY <1>1, <1>4, AnswerAdds, LenProperties DEF Reads
<1>7. Cached' = {d[m] : m \in DOMAIN d}
  BY <1>6 DEF Cached
<1>8. CASE w = u /\ ~listing'[u]
  <2>1. Returned(d, i, j) = {}
    BY <1>4, <1>8 DEF Reads, ListInv, HistoryTyped
  <2>2. j = Len(d)
    BY <1>4, <1>6, <2>1, NothingLeft DEF Reads
  <2>3. seen'[u] = {d[m] : m \in 1 .. j}
    <3>1. StandsBehind(u, j)'
      BY <1>1, <1>4, <1>5, <1>6, ReadsOn
    <3> QED
      BY <1>6, <3>1 DEF StandsBehind, Passed
  <2>4. stays[u] \subseteq Cached \cup server
    BY <1>1, <1>8 DEF StaysOK
  <2> QED
    BY <1>1, <1>6, <1>8, <2>2, <2>3, <2>4 DEF StaysOK
<1>9. CASE w = u /\ listing'[u]
  BY <1>1, <1>6, <1>7, <1>9 DEF StaysOK
<1>10. CASE w # u
  <2>1. UNCHANGED <<listing[w], seen[w]>>
    BY <1>4, <1>10 DEF Reads, ListInv, HistoryTyped
  <2> QED
    BY <1>1, <1>6, <1>7, <2>1 DEF StaysOK
<1> QED
  BY <1>8, <1>9, <1>10

LEMMA StaysOKStep ==
  ASSUME DirectoryAssumption, {"notBehind", "roomy", "answered"} \subseteq Rules,
         ListInv, [Next]_vars, NEW w \in Users, StaysOK(w)
  PROVE  StaysOK(w)'
<1>0. HistoryTyped /\ data \in Seq(DirNames) /\ Len(data) \in Nat /\ DOMAIN data = 1 .. Len(data)
  BY LenProperties DEF ListInv, DirInv, DataOK
<1>1. ASSUME NEW n \in Names, iumfs_add_entry_to_dir(n)
      PROVE  StaysOK(w)'
  <2>1. Cached \subseteq Cached'
    <3>1. ASSUME NEW m \in DOMAIN data
          PROVE  m \in DOMAIN data' /\ data'[m] = data[m]
      <4>1. CASE data' = data
        BY <4>1
      <4>2. CASE data' = Append(data, n)
        <5>1. n \in DirNames
          BY DEF DirNames
        <5> QED
          BY <1>0, <4>2, <5>1
      <4> QED
        BY <1>1, <4>1, <4>2 DEF iumfs_add_entry_to_dir, WithEntry
    <3> QED
      BY <3>1 DEF Cached
  <2> QED
    BY <1>1, <2>1 DEF iumfs_add_entry_to_dir, history, StaysOK
<1>2. ASSUME NEW n \in Names, iumfs_remove_entry_from_dir(n)
      PROVE  StaysOK(w)'
  <2>1. PICK i \in DOMAIN data :
          data[i] = n /\ data' = SubSeq(data, 1, i - 1) \o SubSeq(data, i + 1, Len(data))
    BY <1>2 DEF iumfs_remove_entry_from_dir
  <2>2. Cached \ {n} \subseteq Cached'
    <3> DEFINE front == SubSeq(data, 1, i - 1)
               back  == SubSeq(data, i + 1, Len(data))
    <3>0. data \in Seq(DirNames) /\ i \in 1 .. Len(data)
      BY <1>0
    <3>1. /\ front \in Seq(DirNames) /\ Len(front) = i - 1
          /\ \A m \in 1 .. i - 1 : front[m] = data[m]
          /\ back \in Seq(DirNames) /\ Len(back) = Len(data) - i
          /\ \A m \in 1 .. Len(data) - i : back[m] = data[m + i]
      BY <3>0, PartsOfRecords, Zenon
    <3>a. data' = front \o back
      BY <2>1
    <3> HIDE DEF front, back
    <3>2. /\ DOMAIN (front \o back) = 1 .. Len(front) + Len(back)
          /\ \A m \in 1 .. Len(front) + Len(back) :
               (front \o back)[m] = IF m <= Len(front) THEN front[m] ELSE back[m - Len(front)]
      <4>1. /\ front \o back \in Seq(DirNames) /\ Len(front \o back) = Len(front) + Len(back)
            /\ \A m \in 1 .. Len(front) + Len(back) :
                 (front \o back)[m] = IF m <= Len(front) THEN front[m] ELSE back[m - Len(front)]
        BY <3>1, ConcatProperties
      <4>2. DOMAIN (front \o back) = 1 .. Len(front \o back)
        BY <4>1, LenProperties
      <4> QED
        BY <4>1, <4>2
    <3>3. ASSUME NEW m \in DOMAIN data, m # i
          PROVE  \E k \in DOMAIN data' : data'[k] = data[m]
      <4>1. CASE m < i
        <5>1. m \in 1 .. Len(front) + Len(back) /\ m <= Len(front) /\ m \in 1 .. i - 1
          BY <1>0, <3>1, <4>1
        <5>2. data'[m] = data[m]
          BY <3>1, <3>2, <3>a, <5>1
        <5> QED
          BY <3>2, <3>a, <5>1, <5>2
      <4>2. CASE m > i
        <5> DEFINE k == m - 1
        <5>1. /\ k \in 1 .. Len(front) + Len(back) /\ ~(k <= Len(front))
              /\ k - Len(front) = m - i /\ m - i \in 1 .. Len(data) - i /\ (m - i) + i = m
          <6>1. /\ m \in Int /\ i \in Int /\ Len(data) \in Int /\ 1 <= i /\ i < m
                /\ m <= Len(data) /\ Len(front) = i - 1 /\ Len(back) = Len(data) - i
            BY <1>0, <3>1, <4>2
          <6>2. k \in 1 .. Len(front) + Len(back) /\ ~(k <= Len(front))
            BY <6>1
          <6>3. k - Len(front) = m - i
            BY <6>1
          <6>4. m - i \in 1 .. Len(data) - i /\ (m - i) + i = m
            BY <6>1
          <6> QED
            BY <6>2, <6>3, <6>4
        <5>2. data'[k] = back[m - i] /\ back[m - i] = data[(m - i) + i]
          BY <3>1, <3>2, <3>a, <5>1
        <5> QED
          BY <3>2, <3>a, <5>1, <5>2
      <4> QED
        BY <1>0, <3>3, <4>1, <4>2
    <3>4. \A x \in Cached \ {n} : \E m \in DOMAIN data : m # i /\ data[m] = x
      BY <2>1 DEF Cached
    <3> QED
      BY <3>3, <3>4 DEF Cached
  <2>3. stays'[w] = stays[w] \ {n}
    BY <1>2 DEF iumfs_remove_entry_from_dir, Gone
  <2>4. UNCHANGED <<server, listing, seen>>
    BY <1>2 DEF iumfs_remove_entry_from_dir
  <2> QED
    BY <2>2, <2>3, <2>4 DEF StaysOK
<1>3. ASSUME NEW n \in Names, ServerRemoves(n)
      PROVE  StaysOK(w)'
  BY <1>3 DEF ServerRemoves, Gone, Cached, StaysOK
<1>4. ASSUME NEW n \in Names, ServerAdds(n)
      PROVE  StaysOK(w)'
  BY <1>4 DEF ServerAdds, history, Cached, StaysOK
<1>5. ASSUME NEW u \in Users, iumfs_readdir(u)
      PROVE  StaysOK(w)'
  BY <1>5, StaysKeptByReaddir
<1>6. ASSUME NEW u \in Users, StartListing(u)
      PROVE  StaysOK(w)'
  BY <1>0, <1>6 DEF StartListing, Cached, StaysOK, HistoryTyped
<1>7. ASSUME UNCHANGED vars
      PROVE  StaysOK(w)'
  BY <1>7 DEF vars, Cached, StaysOK
<1> QED
  BY <1>1, <1>2, <1>3, <1>4, <1>5, <1>6, <1>7 DEF Next

-----------------------------------------------------------------------------
\* A listing returns no entry twice that has been there all the time, for any
\* number of programs and any buffers, if nothing is removed that a listing has
\* passed: between two calls its offset stays the end of the last record returned,
\* because records are added behind all others only.
THEOREM NeverTwice == "notBehind" \in Rules => (Spec => []NothingTwice)
<1>1. SUFFICES ASSUME "notBehind" \in Rules
               PROVE  Spec => []NothingTwice
  OBVIOUS
<1>2. Init => ListInv
  BY ListInvInit
<1>3. ListInv /\ [Next]_vars => ListInv'
  BY <1>1, ListInvStep, DirectoryAssumption
<1>4. ListInv => NothingTwice
  BY DEF ListInv, Listing, NothingTwice
<1> QED
  BY <1>2, <1>3, <1>4, PTL DEF Spec

\* When readdir has said that there is no more, it has returned every entry that was
\* there all the time, on the server or in the cache, if also each request is
\* answered in full and a buffer holds any record.
THEOREM NeverMissed ==
  {"notBehind", "roomy", "answered"} \subseteq Rules => (Spec => []NothingMissed)
<1> DEFINE Inv == ListInv /\ \A u \in Users : StaysOK(u)
<1>1. SUFFICES ASSUME {"notBehind", "roomy", "answered"} \subseteq Rules
               PROVE  Spec => []NothingMissed
  OBVIOUS
<1>2. Init => Inv
  <2>1. Init => \A u \in Users : StaysOK(u)
    BY DEF Init, StaysOK
  <2> QED
    BY <2>1, ListInvInit
<1>3. Inv /\ [Next]_vars => Inv'
  BY <1>1, ListInvStep, StaysOKStep, DirectoryAssumption
<1>4. Inv => NothingMissed
  BY DEF StaysOK, NothingMissed
<1> QED
  BY <1>2, <1>3, <1>4, PTL DEF Spec
=============================================================================
