-------------------------- MODULE IumfsData_proofs --------------------------
(***************************************************************************)
(* Proofs about IumfsData, for any threads, sizes, reads, writes and       *)
(* faults: types, that what was written is kept, that fsync is complete,   *)
(* that nothing else is stored, and that a read sees what was written.     *)
(* The descriptors of the daemon and the runs of pages that putapage puts  *)
(* are lemmas on the way, in the environment of those theorems.            *)
(*                                                                         *)
(* The types need a strengthening, TypeInv: a write, the run of pages that *)
(* is being put, and the request that the daemon still holds all end       *)
(* within the largest file.                                                *)
(***************************************************************************)
EXTENDS IumfsData, FiniteSetTheorems, WellFoundedInduction, TLAPS

-----------------------------------------------------------------------------
(***************************************************************************)
(* Numbers and sets of pages.                                              *)
(***************************************************************************)
\* The least element of a set of numbers is one of it.
LEMMA MinOfNat ==
  ASSUME NEW S \in SUBSET Nat, S # {}
  PROVE  Min(S) \in S
<1>1. PICK x \in S : \A y \in S : <<y, x>> \notin OpToRel(<, Nat)
  BY NatLessThanWellFounded, WFMin, Zenon
<1>2. ASSUME NEW y \in S
      PROVE  x =< y
  <2>1. ~(y < x)
    BY <1>1, Zenon DEF OpToRel
  <2> QED
    BY <2>1
<1> QED
  BY <1>2 DEF Min

\* The pages of a file are finitely many.
LEMMA PagesFinite ==
  Pages \in SUBSET Nat /\ IsFiniteSet(Pages)
  BY FS_Interval, ServerAssumption, DataAssumption DEF Pages

\* A run of pages has a first page and a length.
LEMMA RunTyped ==
  ASSUME NEW ps \in SUBSET Pages, ps # {}
  PROVE  /\ Cardinality(ps) \in Nat \ {0}
         /\ Run(ps) \in Runs /\ Run(ps).len \in Nat \ {0}
<1>1. Cardinality(ps) \in Nat /\ Cardinality(ps) # 0
  BY PagesFinite, FS_Subset, FS_CardinalityType, FS_EmptySet
<1>2. Min(ps) \in Nat
  BY MinOfNat, PagesFinite
<1>3. Min(ps) * PageSize \in Nat /\ Cardinality(ps) * PageSize \in Nat \ {0}
  BY <1>1, <1>2, DataAssumption
<1> QED
  BY <1>1, <1>3 DEF Run, Runs

\* pvn_write_kluster collects at least the page it starts from.
LEMMA KlusterIsARun ==
  ASSUME TypeOK, NEW p \in Dirty \ Busy
  PROVE  Kluster(p) \in SUBSET Pages /\ Kluster(p) # {}
<1>1. p \in Pages /\ \A r \in Pages : r \in p .. p => r = p
  BY PagesFinite DEF Dirty
<1>2. p \in Kluster(p)
  BY <1>1 DEF Kluster
<1> QED
  BY <1>2 DEF Kluster, Dirty

\* Every unit of a page is a unit of the file.
LEMMA UnitOfPage ==
  ASSUME NEW u \in Nat, PageOf(u) \in Pages
  PROVE  u \in Units
<1>1. MaxSize \in Nat \ {0} /\ PageSize \in Nat \ {0} /\ MaxSize % PageSize = 0
  BY ServerAssumption, DataAssumption
<1> DEFINE q == u \div PageSize
           k == MaxSize \div PageSize
           l == (MaxSize - 1) \div PageSize
<1>2. q \in Nat /\ u < PageSize * (q + 1) /\ l \in Nat /\ PageSize * l =< MaxSize - 1
  BY <1>1
<1>3. k \in Nat /\ MaxSize = PageSize * k
  BY <1>1
<1>4. q =< l
  BY <1>1 DEF PageOf, Pages
<1> HIDE DEF q, k, l
<1>5. l < k
  BY <1>1, <1>2, <1>3
<1>6. PageSize * (q + 1) =< PageSize * k
  BY <1>1, <1>2, <1>3, <1>4, <1>5
<1>7. PageSize * (q + 1) \in Int /\ PageSize * k \in Int
  BY <1>1, <1>2, <1>3
<1>8. u < PageSize * k
  BY <1>2, <1>6, <1>7
<1> QED
  BY <1>1, <1>3, <1>8 DEF Units

\* A part of an operation is no longer than the rest of it.
LEMMA PartTyped ==
  ASSUME NEW t \in Threads, op[t].off \in Nat, op[t].len \in Nat
  PROVE  PartLen(t) \in 0 .. op[t].len
<1> DEFINE a == PageSize - InPage(op[t].off)
           S == {a, op[t].len}
<1>1. a \in Nat
  BY DataAssumption DEF InPage
<1>2. \E x \in S : \A y \in S : x =< y
  <2>1. CASE a =< op[t].len
    BY <1>1, <2>1
  <2>2. CASE op[t].len =< a
    BY <1>1, <2>2
  <2> QED
    BY <1>1, <2>1, <2>2
<1>3. Min(S) \in S /\ \A y \in S : Min(S) =< y
  BY <1>2 DEF Min
<1> QED
  BY <1>1, <1>3 DEF PartLen

-----------------------------------------------------------------------------
(***************************************************************************)
(* The records keep their types.                                           *)
(***************************************************************************)
\* A write stays within the largest file, if it begins and ends there.
LEMMA FileWritten ==
  ASSUME NEW f \in FileRecords, NEW off \in Nat, NEW data \in Seq(Values),
         off + Len(data) =< MaxSize, now \in 0 .. MaxTime
  PROVE  pwrite(f, off, data) \in FileRecords
  BY ServerAssumption DEF FileRecords, pwrite, Units

\* The buffer of a write is as long as announced.
LEMMA DataTyped ==
  ASSUME TypeOK, NEW r \in Runs, r.len \in Nat
  PROVE  DataOf(r) \in Seq(Values) /\ Len(DataOf(r)) = r.len
<1>1. ASSUME NEW i \in 1 .. r.len
      PROVE  DataOf(r)[i] \in Values
  <2> DEFINE u == r.from + i - 1
  <2>1. u \in Nat
    BY DEF Runs
  <2>2. CASE PageOf(u) \in r.pages
    <3>1. u \in Units
      BY <2>1, <2>2, UnitOfPage DEF Runs
    <3> QED
      BY <3>1, <2>2 DEF DataOf, TypeOK, VnodeRecords
  <2>3. CASE PageOf(u) \notin r.pages
    BY <2>3 DEF DataOf, Values
  <2> QED
    BY <2>2, <2>3
<1>2. DataOf(r) \in [1 .. r.len -> Values]
  BY <1>1 DEF DataOf
<1> QED
  BY <1>2

\* Whatever is done to a vnode leaves one.
LEMMA VnodeTyped ==
  ASSUME TypeOK, NEW ps
  PROVE  /\ Without(ps) \in VnodeRecords
         /\ Marked(ps, "clean") \in VnodeRecords /\ Marked(ps, "dirty") \in VnodeRecords
         /\ NoVnode \in VnodeRecords /\ NewVnode \in VnodeRecords
         /\ \A s \in 0 .. MaxSize : [vnode EXCEPT !.fsize = s] \in VnodeRecords
         /\ \A i \in Inodes :
              [vnode EXCEPT !.fsize = inode[i].size, !.mtime = inode[i].mtime] \in VnodeRecords
<1>1. vnode \in VnodeRecords /\ now \in 0 .. MaxTime /\ inode \in [Inodes -> FileRecords]
  BY DEF TypeOK, ServerTypeOK
<1>2. Without(ps) \in VnodeRecords
  BY <1>1 DEF VnodeRecords, Without, Marked, Values
<1>3. Marked(ps, "clean") \in VnodeRecords /\ Marked(ps, "dirty") \in VnodeRecords
  BY <1>1 DEF VnodeRecords, Marked
<1>4. NoVnode \in VnodeRecords
  BY ServerAssumption DEF VnodeRecords, NoVnode, Zeros, Values
<1>5. NewVnode \in VnodeRecords
  BY <1>1, <1>4 DEF VnodeRecords, NewVnode
<1>6. \A s \in 0 .. MaxSize : [vnode EXCEPT !.fsize = s] \in VnodeRecords
  BY <1>1 DEF VnodeRecords
<1>7. ASSUME NEW i \in Inodes
      PROVE  [vnode EXCEPT !.fsize = inode[i].size, !.mtime = inode[i].mtime] \in VnodeRecords
  BY <1>1 DEF VnodeRecords, FileRecords
<1> QED
  BY <1>2, <1>3, <1>4, <1>5, <1>6, <1>7

\* Operations as they begin.
LEMMA OperationsTyped ==
  ASSUME TypeOK
  PROVE  /\ NoOp \in Operations
         /\ [NoOp EXCEPT !.call = "create", !.todo = Present] \in Operations
         /\ [NoOp EXCEPT !.call = "sync", !.todo = Present] \in Operations
         /\ [NoOp EXCEPT !.call = "getattr"] \in Operations
         /\ \A off \in 0 .. MaxSize, len \in Int :
              [NoOp EXCEPT !.call = "write", !.off = off, !.len = len] \in Operations
         /\ \A off \in 0 .. MaxSize, len \in Int :
              [NoOp EXCEPT !.call = "read", !.off = off, !.len = len, !.began = want] \in Operations
<1>1. NoOp \in Operations
  BY ServerAssumption DEF NoOp, Operations
<1>2. Present \in SUBSET Pages
  BY DEF Present
<1>3. want \in Marks
  BY DEF TypeOK
<1> HIDE DEF NoOp
<1>4. /\ [NoOp EXCEPT !.call = "create", !.todo = Present] \in Operations
      /\ [NoOp EXCEPT !.call = "sync", !.todo = Present] \in Operations
      /\ [NoOp EXCEPT !.call = "getattr"] \in Operations
  BY <1>1, <1>2 DEF Operations
<1>5. ASSUME NEW off \in 0 .. MaxSize, NEW len \in Int
      PROVE  [NoOp EXCEPT !.call = "write", !.off = off, !.len = len] \in Operations
  BY <1>1 DEF Operations
<1>6. ASSUME NEW off \in 0 .. MaxSize, NEW len \in Int
      PROVE  [NoOp EXCEPT !.call = "read", !.off = off, !.len = len, !.began = want] \in Operations
  BY <1>1, <1>3 DEF Operations
<1> QED
  BY <1>1, <1>4, <1>5, <1>6

-----------------------------------------------------------------------------
(***************************************************************************)
(* The invariant of types.                                                 *)
(***************************************************************************)
\* The types of the kernel's variables.
Kernel ==
  /\ vnode \in VnodeRecords
  /\ i_dlock \in Threads \cup {NoOne}
  /\ pc \in [Threads -> {"idle", "verify", "flush", "put", "write", "size", "read"}]
  /\ op \in [Threads -> Operations]
  /\ put \in [Putters -> Runs]
  /\ want \in Marks
  /\ foreign \in 0 .. MaxTime

\* What is being put or written ends within the largest file.
Bounded ==
  /\ \A x \in Putters : put[x].step = "send" => put[x].off + put[x].len =< MaxSize
  /\ \A t \in Threads : pc[t] \in {"write", "size"} =>
       op[t].len \in Nat /\ op[t].off + op[t].len =< MaxSize

\* A request that is held ends within the file, too.
HeldOK(h) ==
  /\ h \in [Daemons -> HeldRecords]
  /\ \A d \in Daemons : h[d].off + Len(h[d].data) =< MaxSize

ServerInv == ServerTypeOK /\ HeldOK(held)

TypeInv == ServerInv /\ Kernel /\ Bounded

\* The invariant implies the types of IumfsData.
LEMMA TypeInvTypes == TypeInv => TypeOK
  BY DEF TypeInv, TypeOK, Kernel, ServerInv

\* path2fd opens the file that the path names, if there is one.
LEMMA ReadTyped ==
  ASSUME ServerInv, NEW d \in Daemons, process_read_request(d)
  PROVE  ServerInv' /\ path2fd(d) \in Inodes
  BY DEF process_read_request, ServerInv, ServerTypeOK, Reopened, path2fd, Inodes, NoFile

\* A write request that ends within the largest file.
LEMMA WriteTyped ==
  ASSUME ServerInv, NEW d \in Daemons, NEW off \in Nat, NEW data \in Seq(Values),
         off + Len(data) =< MaxSize, process_write_request(d, off, data),
         HeldOK(held')
  PROVE  ServerInv'
<1> DEFINE i == path2fd(d)
<1>1. i \in Inodes
  BY DEF process_write_request, ServerInv, ServerTypeOK, path2fd, Inodes, NoFile
<1>2. pwrite(inode[i], off, data) \in FileRecords
  BY <1>1, FileWritten DEF ServerInv, ServerTypeOK
<1>3. inode' = [inode EXCEPT ![i] = pwrite(inode[i], off, data)]
  BY DEF process_write_request
<1>4. inode' \in [Inodes -> FileRecords]
  BY <1>1, <1>2, <1>3 DEF ServerInv, ServerTypeOK
<1> QED
  BY <1>1, <1>4 DEF process_write_request, Reopened, ServerInv, ServerTypeOK, HeldOK

\* A create request makes an empty file.
LEMMA CreateTyped ==
  ASSUME ServerInv, NEW d \in Daemons, process_create_request(d)
  PROVE  ServerInv'
<1>1. PICK i \in Inodes : link' = i /\ inode' = [inode EXCEPT ![i] = Empty]
  BY DEF process_create_request, FreshInode, ServerInv, ServerTypeOK, NoFile
<1>2. Empty \in FileRecords
  BY ServerAssumption DEF Empty, FileRecords, Zeros, Values, ServerInv, ServerTypeOK
<1> QED
  BY <1>1, <1>2 DEF process_create_request, ServerInv, ServerTypeOK

\* The end of a put.
LEMMA FinishTyped ==
  ASSUME TypeInv, NEW x \in Putters, NEW ok \in BOOLEAN, Finish(x, ok)
  PROVE  Kernel' /\ Bounded'
<1>1. vnode' \in VnodeRecords
  BY VnodeTyped, TypeInvTypes DEF Finish, PutDone
<1>2. put' = [put EXCEPT ![x] = NoRun] /\ NoRun \in Runs
  BY DEF Finish, NoRun, Runs
<1>3. UNCHANGED <<i_dlock, want, foreign>>
  BY DEF Finish, ghost
<1>4. /\ pc' \in [Threads -> {"idle", "verify", "flush", "put", "write", "size", "read"}]
      /\ op' \in [Threads -> Operations]
      /\ \A t \in Threads : pc'[t] \in {"write", "size"} => pc'[t] = pc[t] /\ op'[t] = op[t]
  <2>1. CASE x = Pageout
    BY <2>1 DEF Finish, TypeInv, Kernel
  <2>2. CASE x # Pageout
    <3>1. x \in Threads
      BY <2>2 DEF Putters
    <3>2. [op[x] EXCEPT !.err = @ \/ ~ok] \in Operations
      BY <3>1 DEF TypeInv, Kernel, Operations
    <3> QED
      BY <2>2, <3>1, <3>2 DEF Finish, Goto, TypeInv, Kernel
  <2> QED
    BY <2>1, <2>2
<1>5. Kernel'
  BY <1>1, <1>2, <1>3, <1>4 DEF TypeInv, Kernel
<1>6. \A y \in Putters : put'[y].step = "send" => put'[y] = put[y]
  BY <1>2 DEF NoRun, TypeInv, Kernel
<1> QED
  BY <1>4, <1>5, <1>6 DEF TypeInv, Bounded

\* The beginning of an operation.
LEMMA EnterTyped ==
  ASSUME TypeInv, NEW t \in Threads, NEW o \in Operations,
         NEW l \in {"verify", "flush", "write"}, Enter(t, l, o),
         l = "write" => o.len \in Nat /\ o.off + o.len =< MaxSize
  PROVE  TypeInv'
<1>1. pc' = [pc EXCEPT ![t] = l] /\ op' = [op EXCEPT ![t] = o] /\ i_dlock' = t
  BY DEF Enter, Goto
<1>2. UNCHANGED <<server, vnode, put, want, foreign>>
  BY DEF Enter, ghost
<1>3. ServerInv'
  BY <1>2 DEF server, ServerInv, ServerTypeOK, TypeInv
<1>4. Kernel'
  BY <1>1, <1>2 DEF TypeInv, Kernel
<1>5. Bounded'
  BY <1>1, <1>2 DEF TypeInv, Kernel, Bounded
<1> QED
  BY <1>3, <1>4, <1>5 DEF TypeInv

\* A step of a thread that puts nothing: on to label l with operation o.
LEMMA MovedTyped ==
  ASSUME TypeInv, NEW t \in Threads, NEW o \in Operations,
         NEW l \in {"idle", "verify", "flush", "put", "write", "size", "read"},
         pc' = [pc EXCEPT ![t] = l], op' = [op EXCEPT ![t] = o],
         l \in {"write", "size"} => o.len \in Nat /\ o.off + o.len =< MaxSize,
         ServerInv', vnode' \in VnodeRecords, i_dlock' \in Threads \cup {NoOne},
         put' = put, want' \in Marks, foreign' \in 0 .. MaxTime
  PROVE  TypeInv'
<1>1. Kernel'
  BY DEF TypeInv, Kernel
<1>2. Bounded'
  BY DEF TypeInv, Kernel, Bounded
<1> QED
  BY <1>1, <1>2 DEF TypeInv

\* A step that leaves every thread where it is.
LEMMA StayedTyped ==
  ASSUME TypeInv, pc' = pc, op' = op, i_dlock' = i_dlock,
         ServerInv', vnode' \in VnodeRecords, put' \in [Putters -> Runs],
         \A x \in Putters : put'[x].step = "send" /\ put'[x] # put[x] =>
           put'[x].off + put'[x].len =< MaxSize,
         want' \in Marks, foreign' \in 0 .. MaxTime
  PROVE  TypeInv'
  BY DEF TypeInv, Kernel, Bounded

\* The steps of putapage change a run.
LEMMA RunChanged ==
  ASSUME NEW r \in Runs, NEW st \in {"none", "over", "below", "base", "length", "send"},
         NEW n \in Nat, NEW k \in Int
  PROVE  /\ [r EXCEPT !.step = st] \in Runs
         /\ [r EXCEPT !.step = st, !.off = n] \in Runs
         /\ [r EXCEPT !.step = st, !.len = k] \in Runs
<1>1. [r EXCEPT !.step = st] \in Runs
  BY DEF Runs
<1>2. [r EXCEPT !.step = st, !.off = n] \in Runs
  BY DEF Runs
<1>3. [r EXCEPT !.step = st, !.len = k] \in Runs
  BY DEF Runs
<1> QED
  BY <1>1, <1>2, <1>3

\* With i_dlock held the tests of putapage see one size.
LEMMA ClippedTyped ==
  ASSUME NEW r \in Runs, vnode.fsize \in 0 .. MaxSize
  PROVE  Clipped(r) \in Runs /\ Clipped(r).off + Clipped(r).len =< MaxSize
<1>1. CASE r.off + r.len =< vnode.fsize
  BY <1>1, ServerAssumption DEF Clipped, Runs
<1>2. CASE ~(r.off + r.len =< vnode.fsize)
  <2> DEFINE off == IF vnode.fsize < r.off THEN vnode.fsize ELSE r.off
  <2>1. off \in Nat /\ vnode.fsize - off \in Int /\ off + (vnode.fsize - off) =< MaxSize
    BY ServerAssumption DEF Runs
  <2> HIDE DEF off
  <2>2. Clipped(r) = [r EXCEPT !.step = "send", !.off = off, !.len = vnode.fsize - off]
    BY <1>2 DEF Clipped, off
  <2> QED
    BY <2>1, <2>2 DEF Runs
<1> QED
  BY <1>1, <1>2

\* putpage: one page of the list.
LEMMA PutpageTyped ==
  ASSUME TypeInv, NEW t \in Threads, iumfs_putpage(t)
  PROVE  TypeInv'
<1> DEFINE p == Min(op[t].todo)
           r == Clipped(Run(Kluster(p)))
           o == [op[t] EXCEPT !.todo = @ \ {p}]
<1>1. TypeOK
  BY TypeInvTypes
<1>2. pc[t] = "flush" /\ op' = [op EXCEPT ![t] = o] /\ o \in Operations
  BY <1>1 DEF iumfs_putpage, TypeOK, Operations
<1>3. ServerInv' /\ i_dlock' = i_dlock /\ want' = want /\ foreign' = foreign
  BY DEF iumfs_putpage, server, ghost, ServerInv, ServerTypeOK, TypeInv
<1>4. i_dlock' \in Threads \cup {NoOne} /\ want' \in Marks /\ foreign' \in 0 .. MaxTime
  BY <1>3 DEF TypeInv, Kernel
<1>5. vnode' \in VnodeRecords
  BY <1>1, VnodeTyped DEF iumfs_putpage
<1>6. CASE UNCHANGED <<put, pc>>
  <2>1. pc' = [pc EXCEPT ![t] = "flush"] /\ put' = put
    BY <1>2, <1>6 DEF TypeInv, Kernel
  <2> QED
    BY <1>2, <1>3, <1>4, <1>5, <2>1, MovedTyped
<1>7. CASE p \in Dirty /\ r.len # 0 /\ put' = [put EXCEPT ![t] = r] /\ Goto(t, "put")
  <2>1. Kluster(p) \in SUBSET Pages /\ Kluster(p) # {}
    BY <1>1, <1>7, KlusterIsARun DEF iumfs_putpage
  <2>2. Run(Kluster(p)) \in Runs
    BY <2>1, RunTyped
  <2>3. vnode.fsize \in 0 .. MaxSize
    BY <1>1 DEF TypeOK, VnodeRecords
  <2>4. r \in Runs /\ r.off + r.len =< MaxSize
    BY <2>2, <2>3, ClippedTyped
  <2>5. Kernel'
    BY <1>2, <1>3, <1>4, <1>5, <1>7, <2>4 DEF TypeInv, Kernel, Goto
  <2>6. Bounded'
    BY <1>2, <1>7, <2>4 DEF TypeInv, Kernel, Bounded, Goto, Putters
  <2> QED
    BY <1>3, <2>5, <2>6 DEF TypeInv
<1> QED
  BY <1>6, <1>7 DEF iumfs_putpage

\* The daemon keeps a write request.
LEMMA WithheldTyped ==
  ASSUME TypeInv, NEW x \in Putters, put[x].step = "send", put[x].len > 0, Withheld(x)
  PROVE  ServerInv'
<1>1. /\ put[x] \in Runs /\ put[x].len \in Nat \ {0} /\ put[x].off \in Nat
      /\ put[x].off + put[x].len =< MaxSize
  BY DEF TypeInv, Kernel, Bounded, Runs
<1> DEFINE h == [off |-> put[x].off, data |-> DataOf(put[x])]
<1>2. h \in HeldRecords /\ h.off + Len(h.data) =< MaxSize
  BY <1>1, DataTyped, TypeInvTypes, ServerAssumption DEF HeldRecords, Units
<1> HIDE DEF h
<1>3. PICK d \in Daemons : held' = [held EXCEPT ![d] = h]
  BY DEF Withheld, h
<1>4. HeldOK(held')
  BY <1>2, <1>3 DEF TypeInv, ServerInv, HeldOK
<1> QED
  BY <1>4 DEF Withheld, TypeInv, ServerInv, HeldOK, ServerTypeOK

\* The write request is answered or fails.
LEMMA RequestWriteTyped ==
  ASSUME TypeInv, NEW x \in Putters, iumfs_request_write(x)
  PROVE  TypeInv'
<1>1. ServerInv'
  <2>1. CASE UNCHANGED <<inode, link, now, fd, held>>
    BY <2>1 DEF ServerInv, ServerTypeOK, TypeInv
  <2>2. ASSUME NEW d \in Daemons, process_write_request(d, put[x].off, DataOf(put[x])),
               held' = held
        PROVE  ServerInv'
    <3>1. /\ put[x] \in Runs /\ put[x].len \in Nat /\ put[x].off \in Nat
          /\ put[x].off + put[x].len =< MaxSize
      BY DEF TypeInv, Kernel, Bounded, Runs, iumfs_request_write
    <3>2. DataOf(put[x]) \in Seq(Values) /\ Len(DataOf(put[x])) = put[x].len
      BY <3>1, DataTyped, TypeInvTypes
    <3>3. HeldOK(held') /\ ServerInv
      BY <2>2 DEF TypeInv, ServerInv
    <3> QED
      BY <2>2, <3>1, <3>2, <3>3, WriteTyped
  <2>3. CASE Withheld(x)
    BY <2>3, WithheldTyped DEF iumfs_request_write
  <2> QED
    BY <2>1, <2>2, <2>3 DEF iumfs_request_write, server
<1>2. PICK ok \in BOOLEAN : Finish(x, ok)
  BY DEF iumfs_request_write
<1> QED
  BY <1>1, <1>2, FinishTyped DEF TypeInv

\* The write request is given up and the daemon keeps it.
LEMMA TimeoutWriteTyped ==
  ASSUME TypeInv, NEW x \in Putters, TimeoutWrite(x)
  PROVE  TypeInv'
<1>1. ServerInv'
  BY WithheldTyped DEF TimeoutWrite
<1> QED
  BY <1>1, StayedTyped DEF TimeoutWrite, ghost, TypeInv, Kernel

\* The daemon goes on with what it held.
LEMMA LateWriteTyped ==
  ASSUME TypeInv, NEW d \in Daemons, LateWrite(d)
  PROVE  TypeInv'
<1>1. NoData \in HeldRecords /\ NoData.off + Len(NoData.data) =< MaxSize
  BY ServerAssumption DEF NoData, HeldRecords, Units
<1>2. HeldOK(held')
  BY <1>1 DEF LateWrite, TypeInv, ServerInv, HeldOK
<1>3. /\ held[d].off \in Nat /\ held[d].data \in Seq(Values)
      /\ held[d].off + Len(held[d].data) =< MaxSize
  BY DEF TypeInv, ServerInv, HeldOK, HeldRecords, Units
<1>4. ServerInv'
  <2>1. CASE process_write_request(d, held[d].off, held[d].data)
    BY <1>2, <1>3, <2>1, WriteTyped DEF TypeInv
  <2>2. CASE UNCHANGED <<inode, link, now, fd>>
    BY <1>2, <2>2 DEF TypeInv, ServerInv, ServerTypeOK, HeldOK
  <2> QED
    BY <2>1, <2>2 DEF LateWrite
<1> QED
  BY <1>4, StayedTyped DEF LateWrite, ghost, TypeInv, Kernel

\* pageout collects a run,
LEMMA PageoutStartTyped ==
  ASSUME TypeInv, PageoutStart
  PROVE  TypeInv'
<1>1. TypeOK
  BY TypeInvTypes
<1>2. PICK p \in Present \ Busy :
        IF p \in Dirty
        THEN put' = [put EXCEPT ![Pageout] = Run(Kluster(p))] /\ vnode' = Marked(Kluster(p), "clean")
        ELSE UNCHANGED put /\ vnode' = Without({p})
  BY DEF PageoutStart
<1>3. vnode' \in VnodeRecords
  BY <1>1, <1>2, VnodeTyped
<1>4. ServerInv' /\ pc' = pc /\ op' = op /\ i_dlock' = i_dlock /\ want' = want /\ foreign' = foreign
  BY DEF PageoutStart, server, ghost, ServerInv, ServerTypeOK, TypeInv
<1>5. /\ put' \in [Putters -> Runs]
      /\ \A x \in Putters : put'[x].step = "send" /\ put'[x] # put[x] =>
           put'[x].off + put'[x].len =< MaxSize
  <2>1. CASE p \in Dirty
    <3>1. Run(Kluster(p)) \in Runs /\ Run(Kluster(p)).step = "over"
      BY <1>1, <1>2, <2>1, KlusterIsARun, RunTyped DEF Run
    <3> QED
      BY <1>2, <2>1, <3>1 DEF TypeInv, Kernel
  <2>2. CASE p \notin Dirty
    BY <1>2, <2>2 DEF TypeInv, Kernel
  <2> QED
    BY <2>1, <2>2
<1> QED
  BY <1>3, <1>4, <1>5, StayedTyped DEF TypeInv, Kernel

\* reads the size and trims the run,
LEMMA PageoutSizeTyped ==
  ASSUME TypeInv, PageoutSize
  PROVE  TypeInv'
<1> DEFINE r == put[Pageout]
<1>1. r \in Runs /\ vnode.fsize \in 0 .. MaxSize /\ Pageout \in Putters
  BY DEF TypeInv, Kernel, VnodeRecords, Putters
<1>2. PICK s \in Runs : /\ put' = [put EXCEPT ![Pageout] = s]
                        /\ s.step = "send" => s.off + s.len =< MaxSize
  <2> DEFINE Chosen(s) == /\ put' = [put EXCEPT ![Pageout] = s]
                          /\ s.step = "send" => s.off + s.len =< MaxSize
  <2>1. CASE r.step = "over"
    <3>1. CASE r.off + r.len > vnode.fsize
      <4> DEFINE s == [r EXCEPT !.step = "below"]
      <4>1. s \in Runs /\ Chosen(s)
        BY <1>1, <2>1, <3>1 DEF PageoutSize, Runs
      <4> QED
        BY <4>1
    <3>2. CASE ~(r.off + r.len > vnode.fsize)
      <4> DEFINE s == [r EXCEPT !.step = "send"]
      <4>1. s \in Runs /\ Chosen(s)
        BY <1>1, <2>1, <3>2, ServerAssumption DEF PageoutSize, Runs
      <4> QED
        BY <4>1
    <3> QED
      BY <3>1, <3>2
  <2>2. CASE r.step = "below"
    <3> DEFINE s == [r EXCEPT !.step = IF vnode.fsize < r.off THEN "base" ELSE "length"]
    <3>1. s \in Runs /\ Chosen(s)
      BY <1>1, <2>2 DEF PageoutSize, Runs
    <3> QED
      BY <3>1
  <2>3. CASE r.step = "base"
    <3> DEFINE off == vnode.fsize
               s == [r EXCEPT !.step = "length", !.off = off]
    <3>1. off \in Nat
      BY <1>1, ServerAssumption
    <3>2. put' = [put EXCEPT ![Pageout] = s]
      BY <2>3 DEF PageoutSize
    <3> HIDE DEF off, r
    <3>3. s \in Runs
      BY <1>1, <3>1 DEF Runs
    <3>4. s.step = "length"
      BY <1>1 DEF Runs
    <3> QED
      BY <3>2, <3>3, <3>4 DEF r
  <2>4. CASE r.step = "length"
    <3> DEFINE s == [r EXCEPT !.step = "send", !.len = vnode.fsize - r.off]
    <3>1. vnode.fsize - r.off \in Int /\ r.off + (vnode.fsize - r.off) =< MaxSize
      BY <1>1, ServerAssumption DEF Runs
    <3>3. s \in Runs
      BY <1>1, <3>1, RunChanged
    <3>4. s.off = r.off /\ s.len = vnode.fsize - r.off
      BY <1>1 DEF Runs
    <3>5. s.off + s.len =< MaxSize
      BY <3>1, <3>4
    <3>2. put' = [put EXCEPT ![Pageout] = s]
      BY <2>4 DEF PageoutSize
    <3> QED
      BY <3>2, <3>3, <3>5
  <2> QED
    BY <2>1, <2>2, <2>3, <2>4 DEF PageoutSize
<1>3. ServerInv'
  BY DEF PageoutSize, server, ServerInv, ServerTypeOK, TypeInv
<1> QED
  BY <1>1, <1>2, <1>3, StayedTyped DEF PageoutSize, ghost, TypeInv, Kernel

\* or finds nothing to put.
LEMMA PageoutNothingTyped ==
  ASSUME TypeInv, PageoutNothing
  PROVE  TypeInv'
<1>1. ServerInv' /\ Pageout \in Putters
  BY DEF PageoutNothing, server, ServerInv, ServerTypeOK, TypeInv, Putters
<1> QED
  BY <1>1, FinishTyped DEF PageoutNothing, TypeInv

-----------------------------------------------------------------------------
(***************************************************************************)
(* The other operations.                                                   *)
(***************************************************************************)
\* A step that leaves the server alone.
LEMMA ServerKept ==
  ASSUME TypeInv, UNCHANGED server
  PROVE  ServerInv'
  BY DEF server, ServerInv, ServerTypeOK, HeldOK, TypeInv

\* The end of an operation.
LEMMA ExitTyped ==
  ASSUME TypeInv, NEW t \in Threads, Exit(t),
         ServerInv', vnode' \in VnodeRecords,
         put' = put, want' \in Marks, foreign' \in 0 .. MaxTime
  PROVE  TypeInv'
<1>1. /\ pc' = [pc EXCEPT ![t] = "idle"] /\ op' = [op EXCEPT ![t] = NoOp]
      /\ i_dlock' \in Threads \cup {NoOne}
  BY DEF Exit, Goto
<1>2. NoOp \in Operations
  BY OperationsTyped, TypeInvTypes
<1> QED
  BY <1>1, <1>2, MovedTyped

\* A step to another label.
LEMMA GoTyped ==
  ASSUME TypeInv, NEW t \in Threads, NEW o \in Operations,
         NEW l \in {"idle", "verify", "flush", "put", "write", "size", "read"}, Go(t, l, o),
         l \in {"write", "size"} => o.len \in Nat /\ o.off + o.len =< MaxSize,
         ServerInv', vnode' \in VnodeRecords,
         put' = put, want' \in Marks, foreign' \in 0 .. MaxTime
  PROVE  TypeInv'
<1>1. /\ pc' = [pc EXCEPT ![t] = l] /\ op' = [op EXCEPT ![t] = o]
      /\ i_dlock' \in Threads \cup {NoOne}
  BY DEF Go, Goto, TypeInv, Kernel
<1> QED
  BY <1>1, MovedTyped

\* An operation that goes on to flush all pages.
LEMMA FlushTyped ==
  ASSUME TypeInv, NEW t \in Threads, NEW o \in Operations, FlushAll(t, o),
         ServerInv', vnode' \in VnodeRecords,
         put' = put, want' \in Marks, foreign' \in 0 .. MaxTime
  PROVE  TypeInv'
<1> DEFINE f == [o EXCEPT !.todo = Present]
<1>1. f \in Operations
  BY DEF Operations, Present
<1>2. Go(t, "flush", f)
  BY DEF FlushAll
<1> HIDE DEF f
<1> QED
  BY <1>1, <1>2, GoTyped

\* lookup makes a vnode.
LEMMA LookupTyped ==
  ASSUME TypeInv, NEW t \in Threads, iumfs_lookup(t)
  PROVE  TypeInv'
<1>1. ServerInv'
  BY ServerKept DEF iumfs_lookup
<1>2. vnode' \in VnodeRecords
  BY VnodeTyped, TypeInvTypes DEF iumfs_lookup
<1> QED
  BY <1>1, <1>2, StayedTyped DEF iumfs_lookup, ghost, TypeInv, Kernel

\* create truncates or makes a file.
LEMMA CreatesTyped ==
  ASSUME TypeInv, NEW t \in Threads, iumfs_create(t)
  PROVE  TypeInv'
<1> DEFINE o == [NoOp EXCEPT !.call = "create", !.todo = Present]
<1>1. CASE Enter(t, "flush", o)
  <2>1. o \in Operations
    BY OperationsTyped, TypeInvTypes
  <2> HIDE DEF o
  <2> QED
    BY <1>1, <2>1, EnterTyped
<1>2. ASSUME NEW d \in Daemons, process_create_request(d), vnode' = NewVnode,
             UNCHANGED <<i_dlock, pc, op, put, ghost>>
      PROVE  TypeInv'
  <2>1. ServerInv'
    BY <1>2, CreateTyped DEF TypeInv
  <2>2. vnode' \in VnodeRecords
    BY <1>2, VnodeTyped, TypeInvTypes
  <2> QED
    BY <1>2, <2>1, <2>2, StayedTyped DEF ghost, TypeInv, Kernel
<1> QED
  BY <1>1, <1>2 DEF iumfs_create

\* remove takes the name away.
LEMMA RemoveTyped ==
  ASSUME TypeInv, NEW t \in Threads, iumfs_remove(t)
  PROVE  TypeInv'
<1>1. ServerInv'
  BY DEF iumfs_remove, process_remove_request, TypeInv, ServerInv, ServerTypeOK, HeldOK
<1>2. vnode' \in VnodeRecords
  BY VnodeTyped, TypeInvTypes DEF iumfs_remove
<1>3. want' \in Marks
  BY DEF iumfs_remove, Marks
<1> QED
  BY <1>1, <1>2, <1>3, StayedTyped DEF iumfs_remove, TypeInv, Kernel

\* getattr begins,
LEMMA GetattrTyped ==
  ASSUME TypeInv, NEW t \in Threads, iumfs_getattr(t)
  PROVE  TypeInv'
<1> DEFINE o == [NoOp EXCEPT !.call = "getattr"]
<1>1. o \in Operations
  BY OperationsTyped, TypeInvTypes
<1>2. Enter(t, "verify", o)
  BY DEF iumfs_getattr
<1> HIDE DEF o
<1> QED
  BY <1>1, <1>2, EnterTyped

\* and takes size and time from the answer.
LEMMA VerifyTyped ==
  ASSUME TypeInv, NEW t \in Threads, iumfs_getattr_verify(t)
  PROVE  TypeInv'
<1>1. put' = put /\ want' \in Marks /\ foreign' \in 0 .. MaxTime /\ op[t] \in Operations
  BY DEF iumfs_getattr_verify, ghost, TypeInv, Kernel
<1>2. ASSUME NEW d \in Daemons, process_getattr_request(d),
             vnode' = [vnode EXCEPT !.fsize = File.size, !.mtime = File.mtime],
             FlushAll(t, op[t]) \/ Verified(t)
      PROVE  TypeInv'
  <2>1. ServerInv' /\ link \in Inodes
    BY <1>2, ServerKept DEF process_getattr_request, TypeInv, ServerInv, ServerTypeOK
  <2>2. vnode' \in VnodeRecords
    BY <1>2, <2>1, VnodeTyped, TypeInvTypes DEF File
  <2>3. CASE FlushAll(t, op[t])
    BY <1>1, <2>1, <2>2, <2>3, FlushTyped
  <2>4. CASE Go(t, "read", op[t])
    BY <1>1, <2>1, <2>2, <2>4, GoTyped
  <2>5. CASE Exit(t)
    BY <1>1, <2>1, <2>2, <2>5, ExitTyped
  <2> QED
    BY <1>2, <2>3, <2>4, <2>5 DEF Verified
<1>3. ASSUME Exit(t), UNCHANGED <<server, vnode>>
      PROVE  TypeInv'
  <2>1. ServerInv' /\ vnode' \in VnodeRecords
    BY <1>3, ServerKept DEF TypeInv, Kernel
  <2> QED
    BY <1>1, <1>3, <2>1, ExitTyped
<1> QED
  BY <1>2, <1>3 DEF iumfs_getattr_verify

\* What follows a flush.
LEMMA AfterFlushTyped ==
  ASSUME TypeInv, NEW t \in Threads, AfterFlush(t)
  PROVE  TypeInv'
<1>1. put' = put /\ foreign' \in 0 .. MaxTime /\ op[t] \in Operations /\ UNCHANGED server
  BY DEF AfterFlush, TypeInv, Kernel
<1>2. ServerInv'
  BY <1>1, ServerKept
<1>3. vnode' \in VnodeRecords
  <2>1. 0 \in 0 .. MaxSize /\ vnode \in VnodeRecords
    BY ServerAssumption DEF TypeInv, Kernel
  <2> QED
    BY <2>1, VnodeTyped, TypeInvTypes DEF AfterFlush
<1>4. want' \in Marks
  BY DEF AfterFlush, TypeInv, Kernel, Marks
<1>5. CASE Go(t, "read", op[t])
  BY <1>1, <1>2, <1>3, <1>4, <1>5, GoTyped
<1>6. CASE Exit(t)
  BY <1>1, <1>2, <1>3, <1>4, <1>6, ExitTyped
<1> QED
  BY <1>5, <1>6 DEF AfterFlush

\* fsync and close begin.
LEMMA SyncTyped ==
  ASSUME TypeInv, NEW t \in Threads, iumfs_fsync(t) \/ iumfs_close(t)
  PROVE  TypeInv'
<1> DEFINE o == [NoOp EXCEPT !.call = "sync", !.todo = Present]
<1>1. o \in Operations
  BY OperationsTyped, TypeInvTypes
<1>2. Enter(t, "flush", o)
  BY DEF iumfs_fsync, iumfs_close
<1> HIDE DEF o
<1> QED
  BY <1>1, <1>2, EnterTyped

\* A write begins within the largest file.
LEMMA StartWriteTyped ==
  ASSUME TypeInv, NEW t \in Threads, NEW off \in 0 .. MaxSize, NEW len \in Nat,
         StartWrite(t, off, len)
  PROVE  TypeInv'
<1> DEFINE o == [NoOp EXCEPT !.call = "write", !.off = off, !.len = len]
<1>1. len \in Int
  OBVIOUS
<1>2. o \in Operations
  BY <1>1, OperationsTyped, TypeInvTypes
<1>3. o.off = off /\ o.len = len
  BY DEF NoOp
<1>4. Enter(t, "write", o) /\ off + len =< MaxSize
  BY DEF StartWrite
<1> HIDE DEF o
<1> QED
  BY <1>2, <1>3, <1>4, EnterTyped

\* write and append begin.
LEMMA WritesTyped ==
  ASSUME TypeInv, NEW t \in Threads, iumfs_write(t) \/ iumfs_append(t)
  PROVE  TypeInv'
<1>1. \A w \in Writes : w[1] \in 0 .. MaxSize /\ w[2] \in Nat
  BY DataAssumption, ServerAssumption DEF Units
<1>2. vnode.fsize \in 0 .. MaxSize
  BY DEF TypeInv, Kernel, VnodeRecords
<1> QED
  BY <1>1, <1>2, StartWriteTyped DEF iumfs_write, iumfs_append

\* A read begins.
LEMMA ReadsTyped ==
  ASSUME TypeInv, NEW t \in Threads, iumfs_read(t)
  PROVE  TypeInv'
<1>1. PICK r \in Reads :
        Enter(t, "verify", [NoOp EXCEPT !.call = "read", !.off = r[1], !.len = r[2], !.began = want])
  BY DEF iumfs_read
<1>2. r[1] \in 0 .. MaxSize /\ r[2] \in Int
  BY DataAssumption, ServerAssumption DEF Units
<1> DEFINE o == [NoOp EXCEPT !.call = "read", !.off = r[1], !.len = r[2], !.began = want]
<1>3. o \in Operations
  BY <1>2, OperationsTyped, TypeInvTypes
<1>4. Enter(t, "verify", o)
  BY <1>1
<1> HIDE DEF o
<1> QED
  BY <1>3, <1>4, EnterTyped

\* The page that an operation is at.
LEMMA PageTyped ==
  ASSUME NEW t \in Threads, op[t] \in Operations, op[t].off < MaxSize
  PROVE  PageOf(op[t].off) \in Pages
<1>1. op[t].off \in Nat /\ op[t].off =< MaxSize - 1 /\ MaxSize \in Nat \ {0} /\ PageSize \in Nat \ {0}
  BY ServerAssumption, DataAssumption DEF Operations
<1> HIDE DEF Operations
<1> QED
  BY <1>1 DEF PageOf, Pages

\* A page is read, or that fails.
LEMMA GetapageTyped ==
  ASSUME TypeInv, NEW t \in Threads, iumfs_getapage(t)
  PROVE  TypeInv'
<1> DEFINE p == PageOf(op[t].off)
<1>1. /\ put' = put /\ want' \in Marks /\ foreign' \in 0 .. MaxTime
      /\ op[t] \in Operations /\ vnode \in VnodeRecords
  BY DEF iumfs_getapage, ghost, TypeInv, Kernel
<1>2. ASSUME NEW d \in Daemons, process_read_request(d),
             LET file == inode[path2fd(d)] IN
             vnode' = [vnode EXCEPT !.page[p] = "clean",
                         !.val = [u \in Units |->
                                    IF u \notin UnitsOf(p) THEN @[u]
                                    ELSE IF u < file.size THEN file.val[u] ELSE "junk"]],
             UNCHANGED <<i_dlock, pc, op>>
      PROVE  TypeInv'
  <2>1. ServerInv' /\ path2fd(d) \in Inodes
    BY <1>2, ReadTyped DEF TypeInv
  <2>2. inode[path2fd(d)] \in FileRecords
    BY <2>1 DEF TypeInv, ServerInv, ServerTypeOK
  <2> DEFINE file == inode[path2fd(d)]
             val == [u \in Units |-> IF u \notin UnitsOf(p) THEN vnode.val[u]
                                     ELSE IF u < file.size THEN file.val[u] ELSE "junk"]
  <2>3. val \in [Units -> Values]
    BY <1>1, <2>2 DEF VnodeRecords, FileRecords, Values
  <2>4. vnode' = [vnode EXCEPT !.page[p] = "clean", !.val = val]
    BY <1>2
  <2> HIDE DEF val, p
  <2>5. vnode' \in VnodeRecords
    BY <1>1, <2>3, <2>4 DEF VnodeRecords
  <2> QED
    BY <1>1, <1>2, <2>1, <2>5, StayedTyped DEF TypeInv, Kernel
<1>3. ASSUME IF pc[t] = "write" THEN FlushAll(t, [op[t] EXCEPT !.err = TRUE]) ELSE Exit(t),
             UNCHANGED <<server, vnode>>
      PROVE  TypeInv'
  <2>1. ServerInv' /\ vnode' \in VnodeRecords
    BY <1>1, <1>3, ServerKept
  <2> DEFINE o == [op[t] EXCEPT !.err = TRUE]
  <2>2. o \in Operations
    BY <1>1 DEF Operations
  <2> HIDE DEF o
  <2>3. CASE FlushAll(t, o)
    BY <1>1, <2>1, <2>2, <2>3, FlushTyped
  <2>4. CASE Exit(t)
    BY <1>1, <2>1, <2>4, ExitTyped
  <2> QED
    BY <1>3, <2>3, <2>4 DEF o
<1> QED
  BY <1>2, <1>3 DEF iumfs_getapage

\* A write fills its page.
LEMMA CopyInTyped ==
  ASSUME TypeInv, NEW t \in Threads, CopyIn(t)
  PROVE  TypeInv'
<1> DEFINE p == PageOf(op[t].off)
           end == op[t].off + PartLen(t)
           val == [u \in Units |->
                     IF u \notin UnitsOf(p) THEN vnode.val[u]
                     ELSE IF u \in op[t].off .. end - 1 THEN t
                     ELSE IF IsCreated(t) /\ u >= end THEN "zero"
                     ELSE IF p \in Present THEN vnode.val[u] ELSE "junk"]
<1>1. /\ pc[t] = "write" /\ op[t] \in Operations /\ op[t].len \in Nat
      /\ op[t].off + op[t].len =< MaxSize /\ vnode \in VnodeRecords
  BY DEF CopyIn, TypeInv, Kernel, Bounded
<1>2. val \in [Units -> Values]
  BY <1>1 DEF VnodeRecords, Values
<1>3. vnode' = [vnode EXCEPT !.page[p] = "dirty", !.val = val]
  BY DEF CopyIn
<1> HIDE DEF val
<1>4. vnode' \in VnodeRecords
  BY <1>1, <1>2, <1>3 DEF VnodeRecords
<1>5. want' \in Marks
  BY DEF CopyIn, Marks, TypeInv, Kernel, Values
<1>6. pc' = [pc EXCEPT ![t] = "size"] /\ op' = [op EXCEPT ![t] = op[t]]
  BY DEF CopyIn, Goto, TypeInv, Kernel
<1>7. ServerInv' /\ put' = put /\ i_dlock' \in Threads \cup {NoOne} /\ foreign' \in 0 .. MaxTime
  BY ServerKept DEF CopyIn, TypeInv, Kernel
<1> QED
  BY <1>1, <1>4, <1>5, <1>6, <1>7, MovedTyped

\* A write goes on to its next page, still within the largest file.
LEMMA SetSizeTyped ==
  ASSUME TypeInv, NEW t \in Threads, SetSize(t)
  PROVE  TypeInv'
<1> DEFINE end == op[t].off + PartLen(t)
           left == op[t].len - PartLen(t)
           o == [op[t] EXCEPT !.off = end, !.len = left]
<1>1. /\ op[t] \in Operations /\ op[t].off \in Nat /\ op[t].len \in Nat
      /\ op[t].off + op[t].len =< MaxSize /\ vnode \in VnodeRecords
  BY DEF SetSize, TypeInv, Kernel, Bounded, Operations
<1>2. end \in 0 .. MaxSize /\ left \in Nat /\ end + left =< MaxSize
  BY <1>1, PartTyped, ServerAssumption
<1>3. vnode' \in VnodeRecords
  <2>1. vnode' = [vnode EXCEPT !.fsize = IF end > vnode.fsize THEN end ELSE vnode.fsize]
    BY DEF SetSize
  <2> HIDE DEF end
  <2> QED
    BY <1>1, <1>2, <2>1 DEF VnodeRecords
<1>4. ServerInv' /\ put' = put /\ want' \in Marks /\ foreign' \in 0 .. MaxTime
  BY ServerKept DEF SetSize, ghost, TypeInv, Kernel
<1>5. CASE Exit(t)
  BY <1>3, <1>4, <1>5, ExitTyped
<1>6. CASE Go(t, "write", o)
  <2> HIDE DEF end, left
  <2>1. left \in Int
    BY <1>2
  <2>2. o \in Operations /\ o.off = end /\ o.len = left
    BY <1>1, <1>2, <2>1 DEF Operations
  <2> HIDE DEF o
  <2> QED
    BY <1>2, <1>3, <1>4, <1>6, <2>2, GoTyped
<1> QED
  BY <1>5, <1>6 DEF SetSize

\* A read goes on, never beyond the largest file.
LEMMA CopyOutTyped ==
  ASSUME TypeInv, NEW t \in Threads, CopyOut(t)
  PROVE  TypeInv'
<1> DEFINE n == Cardinality(Readable(t))
           o == [op[t] EXCEPT !.off = @ + n, !.len = @ - n]
<1>1. op[t] \in Operations /\ op[t].off \in 0 .. MaxSize
  BY DEF TypeInv, Kernel, Operations
<1>2. n \in 0 .. MaxSize - op[t].off
  <2>1. MaxSize - 1 \in Int /\ op[t].off \in Int
    BY <1>1, ServerAssumption
  <2> DEFINE S == op[t].off .. MaxSize - 1
  <2>2. IsFiniteSet(S) /\ Cardinality(S) =< MaxSize - op[t].off
    <3> DEFINE a == op[t].off
               b == MaxSize - 1
    <3>1. a \in Int /\ b \in Int /\ (a > b => MaxSize - a = 0) /\ b - a + 1 = MaxSize - a
          /\ MaxSize - a \in Nat
      BY <1>1, <2>1, ServerAssumption
    <3>2. IsFiniteSet(a .. b) /\ Cardinality(a .. b) = IF a > b THEN 0 ELSE b - a + 1
      <4> HIDE DEF a, b
      <4> QED
        BY <3>1, FS_Interval
    <3> QED
      BY <3>1, <3>2
  <2>3. Readable(t) \subseteq S
    BY <1>1, ServerAssumption DEF Readable, UnitsOf, Units
  <2> HIDE DEF S
  <2>4. Cardinality(S) \in Nat /\ n \in Nat /\ n =< Cardinality(S)
    BY <2>2, <2>3, FS_Subset, FS_CardinalityType
  <2> HIDE DEF n
  <2> QED
    BY <1>1, <2>1, <2>2, <2>4, ServerAssumption
<1>3. /\ ServerInv' /\ vnode' \in VnodeRecords /\ put' = put /\ want' \in Marks
      /\ foreign' \in 0 .. MaxTime
  BY ServerKept DEF CopyOut, ghost, TypeInv, Kernel
<1>4. CASE Exit(t)
  BY <1>3, <1>4, ExitTyped
<1>5. CASE Go(t, "read", o)
  <2> HIDE DEF n
  <2>1. op[t].off + n \in 0 .. MaxSize /\ op[t].len - n \in Int
    BY <1>1, <1>2, ServerAssumption DEF Operations
  <2>2. o \in Operations
    BY <1>1, <2>1 DEF Operations
  <2> HIDE DEF o
  <2> QED
    BY <1>3, <1>5, <2>2, GoTyped
<1> QED
  BY <1>4, <1>5 DEF CopyOut

\* The clock goes on.
LEMMA TickTyped ==
  ASSUME TypeInv, Tick
  PROVE  TypeInv'
<1>1. ServerInv'
  BY ServerAssumption DEF Tick, TypeInv, ServerInv, ServerTypeOK, HeldOK
<1> QED
  BY <1>1, StayedTyped DEF Tick, ghost, TypeInv, Kernel

\* The daemon serves another path.
LEMMA ServeOtherTyped ==
  ASSUME TypeInv, NEW d \in Daemons, ServeOther(d), UNCHANGED <<vnode, i_dlock, pc, op, put, ghost>>
  PROVE  TypeInv'
<1>1. ServerInv'
  BY DEF ServeOther, TypeInv, ServerInv, ServerTypeOK, HeldOK
<1> QED
  BY <1>1, StayedTyped DEF ghost, TypeInv, Kernel

\* Another client writes.
LEMMA OtherWritesTyped ==
  ASSUME TypeInv, OtherWrites
  PROVE  TypeInv'
<1>1. link \in Inodes /\ inode \in [Inodes -> FileRecords] /\ now \in 0 .. MaxTime
  BY DEF OtherWrites, TypeInv, ServerInv, ServerTypeOK
<1>2. PICK u \in 0 .. File.size - 1 :
        /\ inode' = [inode EXCEPT ![link].val[u] = "other", ![link].mtime = now]
        /\ want' = [want EXCEPT ![u] = "other"]
  BY DEF OtherWrites
<1>3. want' \in Marks
  BY <1>2 DEF TypeInv, Kernel, Marks, Values
<1> DEFINE f == inode[link]
           g == [f EXCEPT !.val[u] = "other", !.mtime = now]
<1>4. f \in FileRecords
  BY <1>1
<1>5. g \in FileRecords
  <2> HIDE DEF f
  <2> QED
    BY <1>1, <1>4 DEF FileRecords, Values
<1>6. inode' = [inode EXCEPT ![link] = g]
  BY <1>1, <1>2, <1>4 DEF FileRecords
<1> HIDE DEF g
<1>7. inode' \in [Inodes -> FileRecords]
  BY <1>1, <1>5, <1>6
<1>8. ServerInv'
  BY <1>7 DEF OtherWrites, TypeInv, ServerInv, ServerTypeOK, HeldOK
<1> QED
  BY <1>1, <1>3, <1>8, StayedTyped DEF OtherWrites, TypeInv, Kernel

\* The invariant holds at the start.
LEMMA InitTyped ==
  ASSUME Init
  PROVE  TypeInv
<1>1. ServerInv
  BY ServerAssumption DEF Init, ServerInit, ServerInv, ServerTypeOK, HeldOK, FileRecords, HeldRecords,
     Inodes, NoFile, Zeros, Values, NoData, Units
<1>2. vnode \in VnodeRecords /\ 0 \in 0 .. MaxTime
  BY ServerAssumption DEF Init, NoVnode, VnodeRecords, Zeros, Values
<1>3. op \in [Threads -> Operations]
  BY ServerAssumption DEF Init, NoOp, Operations
<1>4. put \in [Putters -> Runs]
  BY DEF Init, NoRun, Runs
<1>5. want \in Marks
  BY DEF Init, Marks, Values
<1>6. Kernel
  BY <1>2, <1>3, <1>4, <1>5 DEF Init, Kernel
<1>7. Bounded
  BY DEF Init, Bounded, NoRun
<1> QED
  BY <1>1, <1>6, <1>7 DEF TypeInv

\* Every step keeps the invariant.
LEMMA TypeStep ==
  ASSUME TypeInv, [Next]_vars
  PROVE  TypeInv'
<1>1. CASE UNCHANGED vars
  <2>1. ServerInv'
    BY <1>1, ServerKept DEF vars
  <2> QED
    BY <1>1, <2>1, StayedTyped DEF vars, TypeInv, Kernel
<1>2. ASSUME NEW t \in Threads, Call(t)
      PROVE  TypeInv'
  BY <1>2, LookupTyped, CreatesTyped, RemoveTyped, WritesTyped, ReadsTyped, GetattrTyped, SyncTyped DEF Call
<1>3. ASSUME NEW t \in Threads, Step(t)
      PROVE  TypeInv'
  BY <1>3, VerifyTyped, PutpageTyped, AfterFlushTyped, GetapageTyped, CopyInTyped, SetSizeTyped, CopyOutTyped DEF Step
<1>4. ASSUME NEW x \in Putters, iumfs_request_write(x) \/ TimeoutWrite(x)
      PROVE  TypeInv'
  BY <1>4, RequestWriteTyped, TimeoutWriteTyped
<1>5. CASE PageoutStart \/ PageoutSize \/ PageoutNothing
  BY <1>5, PageoutStartTyped, PageoutSizeTyped, PageoutNothingTyped
<1>6. ASSUME NEW d \in Daemons,
             LateWrite(d) \/ (ServeOther(d) /\ UNCHANGED <<vnode, i_dlock, pc, op, put, ghost>>)
      PROVE  TypeInv'
  BY <1>6, LateWriteTyped, ServeOtherTyped
<1>7. CASE Tick \/ OtherWrites
  BY <1>7, TickTyped, OtherWritesTyped
<1> QED
  BY <1>1, <1>2, <1>3, <1>4, <1>5, <1>6, <1>7 DEF Next

\* The types of IumfsData and of its server hold: no size, offset or held request
\* leaves the largest file (iumfs_write, iumfs_putapage, process_write_request).
THEOREM TypeCorrect == Spec => []TypeOK
<1>1. Init => TypeInv
  BY InitTyped
<1>2. TypeInv /\ [Next]_vars => TypeInv'
  BY TypeStep
<1>3. TypeInv => TypeOK
  BY TypeInvTypes
<1> QED
  BY <1>1, <1>2, <1>3, PTL DEF Spec

-----------------------------------------------------------------------------
(***************************************************************************)
(* The descriptors of the daemon.                                          *)
(***************************************************************************)
OneDaemonOrNoRemove == (\E d \in Daemons : Daemons = {d}) \/ "remove" \notin Calls

DescriptorInv == DescriptorIsCurrent /\ ("remove" \notin Calls => link # NoFile)

\* A step that keeps the name, and opens or drops a descriptor at most.
Served ==
  /\ link' = link
  /\ \/ fd' = fd
     \/ \E d \in Daemons : Reopened(d) \/ fd' = [fd EXCEPT ![d] = NoFile]

\* Such a step keeps the descriptors right.
LEMMA ServedKeeps ==
  ASSUME TypeInv, DescriptorInv, Served
  PROVE  DescriptorInv'
<1>1. fd \in [Daemons -> Inodes \cup {NoFile}]
  BY DEF TypeInv, ServerInv, ServerTypeOK
<1>2. ASSUME link # NoFile, NEW d \in Daemons
      PROVE  fd'[d] \in {NoFile, link}
  <2>1. \A e \in Daemons : fd[e] \in {NoFile, link}
    BY <1>2 DEF DescriptorInv, DescriptorIsCurrent
  <2> QED
    BY <1>1, <1>2, <2>1 DEF Served, Reopened, path2fd
<1> QED
  BY <1>2 DEF DescriptorInv, DescriptorIsCurrent, Served

\* All steps are of that kind but create and remove.
LEMMA MostlyServed ==
  ASSUME Next
  PROVE  \/ Served
         \/ \E d \in Daemons : process_create_request(d)
         \/ "remove" \in Calls /\ link' = NoFile
<1>1. ASSUME NEW t \in Threads, Call(t)
      PROVE  \/ link' = link /\ fd' = fd
             \/ \E d \in Daemons : process_create_request(d)
             \/ "remove" \in Calls /\ link' = NoFile
  BY <1>1 DEF Call, iumfs_lookup, iumfs_create, iumfs_remove, process_remove_request, iumfs_write,
     iumfs_append, StartWrite, iumfs_read, iumfs_getattr, iumfs_fsync, iumfs_close, Enter, server
<1>2. ASSUME NEW t \in Threads, Step(t)
      PROVE  Served
  <2>1. CASE iumfs_getattr_verify(t)
    BY <2>1 DEF iumfs_getattr_verify, process_getattr_request, server, Served
  <2>2. CASE iumfs_getapage(t)
    BY <2>2 DEF iumfs_getapage, process_read_request, server, Served
  <2> QED
    BY <1>2, <2>1, <2>2 DEF Step, iumfs_putpage, AfterFlush, CopyIn, SetSize, CopyOut, server, Served
<1>3. ASSUME NEW x \in Putters, iumfs_request_write(x) \/ TimeoutWrite(x)
      PROVE  Served
  BY <1>3 DEF iumfs_request_write, process_write_request, TimeoutWrite, Withheld, server, Served
<1>4. CASE PageoutStart \/ PageoutSize \/ PageoutNothing \/ Tick \/ OtherWrites
  BY <1>4 DEF PageoutStart, PageoutSize, PageoutNothing, Tick, OtherWrites, server, Served
<1>5. ASSUME NEW d \in Daemons, LateWrite(d) \/ ServeOther(d)
      PROVE  Served
  BY <1>5 DEF LateWrite, process_write_request, ServeOther, Served
<1> QED
  BY <1>1, <1>2, <1>3, <1>4, <1>5 DEF Next, Served

\* Every step keeps the descriptors right.
LEMMA DescriptorStep ==
  ASSUME OneDaemonOrNoRemove, TypeInv, DescriptorInv, [Next]_vars
  PROVE  DescriptorInv'
<1>1. CASE Served
  BY <1>1, ServedKeeps
<1>2. ASSUME NEW d \in Daemons, process_create_request(d)
      PROVE  DescriptorInv'
  <2>1. fd' = [fd EXCEPT ![d] = NoFile] /\ fd \in [Daemons -> Inodes \cup {NoFile}]
    BY <1>2 DEF process_create_request, TypeInv, ServerInv, ServerTypeOK
  <2>2. link' \in Inodes /\ (link # NoFile => link' = link)
    BY <1>2 DEF process_create_request, FreshInode, TypeInv, ServerInv, ServerTypeOK
  <2>3. CASE link # NoFile
    BY <2>1, <2>2, <2>3 DEF DescriptorInv, DescriptorIsCurrent
  <2>4. CASE link = NoFile
    <3>1. Daemons = {d}
      BY <2>4 DEF OneDaemonOrNoRemove, DescriptorInv
    <3> QED
      BY <2>1, <2>2, <3>1 DEF DescriptorInv, DescriptorIsCurrent, Inodes, NoFile
  <2> QED
    BY <2>3, <2>4
<1>3. CASE "remove" \in Calls /\ link' = NoFile
  BY <1>3 DEF DescriptorInv, DescriptorIsCurrent
<1>4. CASE UNCHANGED vars
  BY <1>4 DEF vars, server, DescriptorInv, DescriptorIsCurrent
<1> QED
  BY <1>1, <1>2, <1>3, <1>4, MostlyServed

-----------------------------------------------------------------------------
(***************************************************************************)
(* The runs of pages in putapage.                                          *)
(***************************************************************************)
\* A run as it was collected.
Whole(r) == r.off = r.from /\ r.len = Cardinality(r.pages) * PageSize

\* What the tests made so far say of a run and a size.
Tested(r, size) ==
  /\ r.step = "none" => r = NoRun
  /\ r.step # "none" => r.pages # {}
  /\ r.step \in {"over", "below", "base"} => Whole(r)
  /\ r.step = "below" => r.off + r.len > size
  /\ r.step = "base" => size < r.off
  /\ r.step = "length" => \/ r.off = size
                          \/ Whole(r) /\ r.off =< size /\ r.off + r.len > size

InBounds(r) ==
  r.step = "send" =>
    \/ r.len = 0
    \/ r.off = r.from /\ r.len \in 1 .. Cardinality(r.pages) * PageSize

\* Nobody is at work on a vnode that is not there.
AtRest ==
  /\ vnode = NoVnode
  /\ \A x \in Putters : put[x] = NoRun
  /\ \A t \in Threads : pc[t] = "idle"

RunInv ==
  /\ ~vnode.known => AtRest
  /\ \A x \in Putters : Tested(put[x], vnode.fsize) /\ InBounds(put[x])
  /\ \A t \in Threads : put[t].step \in {"none", "send"}

\* A putter that puts nothing breaks no bound.
LEMMA NoRunFine ==
  ASSUME NEW size
  PROVE  Tested(NoRun, size) /\ InBounds(NoRun) /\ NoRun.step = "none"
  BY DEF Tested, InBounds, NoRun

\* Marking or dropping pages leaves the size alone.
LEMMA MarkedKept ==
  ASSUME TypeOK, NEW ps, NEW m
  PROVE  /\ Marked(ps, m).known = vnode.known /\ Marked(ps, m).fsize = vnode.fsize
         /\ Without(ps).known = vnode.known /\ Without(ps).fsize = vnode.fsize
  BY DEF TypeOK, VnodeRecords, Marked, Without

\* A step that leaves the runs and the size alone.
LEMMA RunsKept ==
  ASSUME RunInv, put' = put, vnode'.fsize = vnode.fsize, vnode'.known = vnode.known,
         vnode.known \/ (vnode' = vnode /\ pc' = pc)
  PROVE  RunInv'
  BY DEF RunInv, AtRest, Tested, InBounds, Whole

\* A step that changes the size of a vnode that is there.
LEMMA SizeChanged ==
  ASSUME RunInv, "window" \in Rules, SizeMayChange, put' = put, vnode.known, vnode'.known
  PROVE  RunInv'
<1>1. ASSUME NEW x \in Putters
      PROVE  Tested(put[x], vnode'.fsize)
  <2>1. put[x].step \notin {"below", "base", "length"}
    BY DEF RunInv, SizeMayChange, Putters
  <2> QED
    BY <2>1 DEF RunInv, Tested
<1> QED
  BY <1>1 DEF RunInv

\* A step of one putter.
LEMMA RunChanges ==
  ASSUME RunInv, TypeOK, NEW x \in Putters, NEW r, put' = [put EXCEPT ![x] = r],
         vnode'.fsize = vnode.fsize, vnode.known, vnode'.known,
         Tested(r, vnode.fsize), InBounds(r), x # Pageout => r.step \in {"none", "send"}
  PROVE  RunInv'
<1>1. put \in [Putters -> Runs] /\ Threads \subseteq Putters /\ \A t \in Threads : t # Pageout
  BY DataAssumption DEF TypeOK, Putters
<1>2. \A y \in Putters : put'[y] = IF y = x THEN r ELSE put[y]
  BY <1>1
<1> QED
  BY <1>1, <1>2 DEF RunInv

\* Whoever is at work has a vnode.
LEMMA Known ==
  ASSUME RunInv
  PROVE  /\ \A t \in Threads : pc[t] # "idle" => vnode.known
         /\ \A x \in Putters : put[x].step # "none" => vnode.known
         /\ Present # {} => vnode.known
  BY NoRunFine DEF RunInv, AtRest, Present, NoVnode

\* A run as iumfs_putpage and pageout collect it.
LEMMA RunBegins ==
  ASSUME TypeOK, NEW p \in Dirty \ Busy
  PROVE  /\ Run(Kluster(p)) \in Runs /\ Run(Kluster(p)).step = "over"
         /\ Whole(Run(Kluster(p))) /\ Run(Kluster(p)).pages # {}
         /\ Run(Kluster(p)).len \in Nat \ {0}
  BY KlusterIsARun, RunTyped DEF Run, Whole

\* A run that is tested under i_dlock is within its bounds.
LEMMA ClippedFine ==
  ASSUME NEW r \in Runs, Whole(r), r.pages # {}, r.len \in Nat \ {0}, vnode.fsize \in Nat
  PROVE  /\ Clipped(r).step = "send" /\ Tested(Clipped(r), vnode.fsize)
         /\ InBounds(Clipped(r))
<1> DEFINE size == vnode.fsize
<1>1. size \in Nat /\ r.off \in Nat /\ r.len \in Nat \ {0} /\ r.from = r.off
      /\ r.len = Cardinality(r.pages) * PageSize
  BY DEF Runs, Whole
<1>2. CASE r.off + r.len =< size
  <2> DEFINE s == [r EXCEPT !.step = "send"]
  <2>1. Clipped(r) = s
    BY <1>2 DEF Clipped
  <2>2. s.step = "send" /\ s.pages = r.pages /\ s.off = r.off /\ s.len = r.len /\ s.from = r.from
    BY DEF Runs
  <2> HIDE DEF s
  <2>3. s.len \in 1 .. Cardinality(s.pages) * PageSize
    BY <1>1, <2>2
  <2> QED
    BY <1>1, <2>1, <2>2, <2>3 DEF Tested, InBounds
<1>3. CASE ~(r.off + r.len =< size)
  <2> DEFINE off == IF size < r.off THEN size ELSE r.off
             len == size - off
             s == [r EXCEPT !.step = "send", !.off = off, !.len = len]
  <2>1. Clipped(r) = s
    BY <1>3 DEF Clipped
  <2>2. len = 0 \/ (off = r.off /\ len \in 1 .. r.len)
    <3> HIDE DEF size
    <3>1. CASE size < r.off
      <4>1. off = size
        BY <3>1
      <4> HIDE DEF off
      <4>2. len = 0
        BY <1>1, <4>1
      <4> QED
        BY <4>2
    <3>2. CASE ~(size < r.off)
      <4>1. off = r.off
        BY <3>2
      <4> HIDE DEF off
      <4>2. len \in Nat /\ len < r.len
        BY <1>1, <1>3, <3>2, <4>1
      <4> HIDE DEF len
      <4> QED
        BY <1>1, <4>1, <4>2
    <3> QED
      BY <3>1, <3>2
  <2> HIDE DEF off, len
  <2>3. s.step = "send" /\ s.pages = r.pages /\ s.off = off /\ s.len = len /\ s.from = r.from
    BY DEF Runs
  <2> HIDE DEF s
  <2> QED
    BY <1>1, <2>1, <2>2, <2>3 DEF Tested, InBounds
<1> QED
  BY <1>2, <1>3

\* putpage under i_dlock.
LEMMA PutpageInBounds ==
  ASSUME TypeOK, RunInv, NEW t \in Threads, iumfs_putpage(t)
  PROVE  RunInv'
<1> DEFINE p == Min(op[t].todo)
           r == Clipped(Run(Kluster(p)))
<1>1. vnode.known
  BY Known DEF iumfs_putpage
<1>2. vnode'.known = vnode.known /\ vnode'.fsize = vnode.fsize
  BY MarkedKept DEF iumfs_putpage
<1>3. CASE UNCHANGED <<put, pc>>
  BY <1>1, <1>2, <1>3, RunsKept
<1>4. CASE p \in Dirty /\ put' = [put EXCEPT ![t] = r]
  <2>1. p \in Dirty \ Busy /\ vnode.fsize \in Nat
    BY <1>4, ServerAssumption DEF iumfs_putpage, TypeOK, VnodeRecords
  <2>2. r.step = "send" /\ Tested(r, vnode.fsize) /\ InBounds(r)
    BY <2>1, RunBegins, ClippedFine
  <2> HIDE DEF r
  <2>3. t \in Putters
    BY DEF Putters
  <2> QED
    BY <1>1, <1>2, <1>4, <2>2, <2>3, RunChanges
<1> QED
  BY <1>3, <1>4 DEF iumfs_putpage

\* A put ends.
LEMMA FinishInBounds ==
  ASSUME TypeOK, RunInv, NEW x \in Putters, put[x].step = "send", NEW ok, Finish(x, ok)
  PROVE  RunInv'
<1>1. vnode.known
  BY Known
<1>2. vnode'.known = vnode.known /\ vnode'.fsize = vnode.fsize
  BY MarkedKept DEF Finish, PutDone
<1>3. put' = [put EXCEPT ![x] = NoRun]
  BY DEF Finish
<1> QED
  BY <1>1, <1>2, <1>3, NoRunFine, RunChanges

\* pageout collects a run.
LEMMA PageoutStartInBounds ==
  ASSUME TypeOK, RunInv, PageoutStart
  PROVE  RunInv'
<1>1. PICK p \in Present \ Busy :
        IF p \in Dirty
        THEN put' = [put EXCEPT ![Pageout] = Run(Kluster(p))] /\ vnode' = Marked(Kluster(p), "clean")
        ELSE UNCHANGED put /\ vnode' = Without({p})
  BY DEF PageoutStart
<1>2. vnode.known /\ vnode'.known = vnode.known /\ vnode'.fsize = vnode.fsize
  BY <1>1, Known, MarkedKept
<1>3. CASE p \in Dirty
  <2> DEFINE r == Run(Kluster(p))
  <2>1. r.step = "over" /\ Whole(r) /\ r.pages # {}
    BY <1>1, <1>3, RunBegins
  <2>2. put' = [put EXCEPT ![Pageout] = r]
    BY <1>1, <1>3
  <2> HIDE DEF r
  <2>3. Tested(r, vnode.fsize) /\ InBounds(r) /\ Pageout \in Putters
    BY <2>1 DEF Tested, InBounds, Putters
  <2> QED
    BY <1>2, <2>2, <2>3, RunChanges
<1>4. CASE p \notin Dirty
  BY <1>1, <1>2, <1>4, RunsKept
<1> QED
  BY <1>3, <1>4

\* pageout tests it with the size as it is at every step.
LEMMA PageoutSizeInBounds ==
  ASSUME TypeOK, RunInv, PageoutSize
  PROVE  RunInv'
<1> DEFINE r == put[Pageout]
           size == vnode.fsize
<1>1. /\ Pageout \in Putters /\ r \in Runs /\ size \in Nat
      /\ Tested(r, size) /\ vnode' = vnode
  BY ServerAssumption DEF PageoutSize, TypeOK, VnodeRecords, Putters, RunInv
<1>2. vnode.known
  BY <1>1, Known DEF PageoutSize
<1>3. r.off \in Nat /\ r.len \in Int /\ r.from \in Nat
  BY <1>1 DEF Runs
<1>4. r.pages # {} => Cardinality(r.pages) * PageSize \in Nat \ {0}
  <2>1. r.pages # {} => Cardinality(r.pages) \in Nat \ {0}
    BY <1>1, RunTyped DEF Runs
  <2> QED
    BY <2>1, DataAssumption
<1>5. SUFFICES \E s : /\ put' = [put EXCEPT ![Pageout] = s]
                      /\ Tested(s, size) /\ InBounds(s)
  BY <1>1, <1>2, RunChanges
<1>6. CASE r.step = "over"
  <2> DEFINE st == IF r.off + r.len > size THEN "below" ELSE "send"
             s == [r EXCEPT !.step = st]
  <2>1. put' = [put EXCEPT ![Pageout] = s]
    BY <1>6 DEF PageoutSize
  <2> HIDE DEF st
  <2>2. s.step = st /\ s.pages = r.pages /\ s.from = r.from /\ s.off = r.off /\ s.len = r.len
    BY <1>1 DEF Runs
  <2> HIDE DEF s, r, size
  <2>3. Whole(s) /\ s.pages # {}
    BY <1>1, <1>6, <2>2 DEF Tested, Whole
  <2>4. st \in {"below", "send"} /\ (st = "below" => s.off + s.len > size)
    BY <2>2 DEF st
  <2>5. Tested(s, size)
    BY <2>2, <2>3, <2>4 DEF Tested
  <2>6. InBounds(s)
    BY <1>3, <1>4, <2>2, <2>3 DEF InBounds, Whole
  <2> QED
    BY <2>1, <2>5, <2>6
<1>7. CASE r.step = "below"
  <2> DEFINE st == IF size < r.off THEN "base" ELSE "length"
             s == [r EXCEPT !.step = st]
  <2>1. put' = [put EXCEPT ![Pageout] = s]
    BY <1>7 DEF PageoutSize
  <2> HIDE DEF st
  <2>2. s.step = st /\ s.pages = r.pages /\ s.from = r.from /\ s.off = r.off /\ s.len = r.len
    BY <1>1 DEF Runs
  <2> HIDE DEF s, r, size
  <2>3. Whole(s) /\ s.pages # {} /\ s.off + s.len > size
    BY <1>1, <1>7, <2>2 DEF Tested, Whole
  <2>4. \/ st = "base" /\ size < s.off
        \/ st = "length" /\ s.off =< size
    BY <1>1, <1>3, <2>2 DEF st
  <2> QED
    BY <2>1, <2>2, <2>3, <2>4 DEF Tested, InBounds
<1>8. CASE r.step = "base"
  <2> DEFINE s == [r EXCEPT !.step = "length", !.off = size]
  <2>1. put' = [put EXCEPT ![Pageout] = s]
    BY <1>8 DEF PageoutSize
  <2> HIDE DEF size
  <2>2. s.step = "length" /\ s.pages = r.pages /\ s.off = size
    BY <1>1 DEF Runs
  <2> HIDE DEF s, r
  <2>3. s.pages # {}
    BY <1>1, <1>8, <2>2 DEF Tested
  <2> QED
    BY <2>1, <2>2, <2>3 DEF Tested, InBounds
<1>9. CASE r.step = "length"
  <2> DEFINE len == size - r.off
             s == [r EXCEPT !.step = "send", !.len = len]
  <2>1. put' = [put EXCEPT ![Pageout] = s]
    BY <1>9 DEF PageoutSize
  <2> HIDE DEF len
  <2>2. s.step = "send" /\ s.pages = r.pages /\ s.off = r.off /\ s.from = r.from /\ s.len = len
    BY <1>1 DEF Runs
  <2> HIDE DEF s, r, size
  <2>3. s.pages # {}
    BY <1>1, <1>9, <2>2 DEF Tested
  <2>4. len = 0 \/ (r.off = r.from /\ len \in 1 .. Cardinality(r.pages) * PageSize)
    <3> DEFINE n == Cardinality(r.pages) * PageSize
    <3>1. n \in Nat \ {0}
      BY <1>4, <2>2, <2>3
    <3>2. \/ r.off = size
          \/ r.off = r.from /\ r.len = n /\ r.off =< size /\ r.off + r.len > size
      BY <1>1, <1>9 DEF Tested, Whole
    <3> HIDE DEF n
    <3>3. CASE r.off = size
      <4>1. len = 0
        BY <1>1, <3>3 DEF len
      <4> QED
        BY <4>1
    <3>4. CASE r.off # size /\ r.off =< size /\ r.off + n > size /\ r.off = r.from
      <4>1. len \in Nat /\ len # 0 /\ len < n
        BY <1>1, <1>3, <3>1, <3>4 DEF len
      <4> QED
        BY <3>1, <3>4, <4>1 DEF n
    <3> QED
      BY <3>2, <3>3, <3>4
  <2> QED
    BY <2>1, <2>2, <2>3, <2>4 DEF Tested, InBounds
<1> QED
  BY <1>6, <1>7, <1>8, <1>9 DEF PageoutSize

\* What begins, and what needs no lock.
LEMMA CallInBounds ==
  ASSUME TypeOK, RunInv, NEW t \in Threads, Call(t)
  PROVE  RunInv'
<1>1. CASE UNCHANGED <<put, vnode>> /\ vnode.known
  BY <1>1, RunsKept
<1>2. CASE put' = put /\ ~vnode.known /\ vnode' = NewVnode
  <2>1. \A x \in Putters : put'[x] = NoRun
    BY <1>2 DEF RunInv, AtRest
  <2>2. vnode'.known
    BY <1>2 DEF NewVnode, NoVnode
  <2> QED
    BY <2>1, <2>2, NoRunFine DEF RunInv, Putters
<1>3. CASE iumfs_remove(t)
  <2>1. \A x \in Putters : put[x].pages = {}
    BY <1>3 DEF iumfs_remove, Busy
  <2>2. \A x \in Putters : put'[x] = NoRun
    <3>1. ASSUME NEW x \in Putters
          PROVE  put[x] = NoRun
      BY <2>1, <3>1 DEF RunInv, Tested
    <3> QED
      BY <1>3, <3>1 DEF iumfs_remove
  <2>3. vnode' = NoVnode /\ \A s \in Threads : pc'[s] = "idle"
    BY <1>3 DEF iumfs_remove
  <2> QED
    BY <2>2, <2>3, NoRunFine DEF RunInv, AtRest, Putters
<1> QED
  BY <1>1, <1>2, <1>3 DEF Call, iumfs_lookup, iumfs_create, iumfs_write,
     iumfs_append, StartWrite, iumfs_read, iumfs_getattr, iumfs_fsync, iumfs_close, Enter

\* What the operations do under i_dlock.
LEMMA StepInBounds ==
  ASSUME "window" \in Rules, TypeOK, RunInv, NEW t \in Threads, Step(t)
  PROVE  RunInv'
<1>1. ASSUME pc[t] # "idle"
      PROVE  vnode.known
  BY <1>1, Known
<1>2. CASE iumfs_getattr_verify(t)
  <2>1. vnode.known /\ put' = put
    BY <1>1, <1>2 DEF iumfs_getattr_verify
  <2>2. CASE vnode' = vnode
    BY <2>1, <2>2, RunsKept
  <2>3. CASE SizeMayChange /\ vnode' = [vnode EXCEPT !.fsize = File.size, !.mtime = File.mtime]
    <3>1. vnode'.known
      BY <2>1, <2>3 DEF TypeOK, VnodeRecords
    <3> QED
      BY <2>1, <2>3, <3>1, SizeChanged
  <2> QED
    BY <1>2, <2>2, <2>3 DEF iumfs_getattr_verify
<1>3. CASE iumfs_putpage(t)
  BY <1>3, PutpageInBounds
<1>4. CASE AfterFlush(t)
  <2>1. vnode.known /\ put' = put
    BY <1>1, <1>4 DEF AfterFlush
  <2>2. CASE vnode' = vnode
    BY <2>1, <2>2, RunsKept
  <2>3. CASE SizeMayChange /\ vnode' = [vnode EXCEPT !.fsize = 0]
    <3>1. vnode'.known
      BY <2>1, <2>3 DEF TypeOK, VnodeRecords
    <3> QED
      BY <2>1, <2>3, <3>1, SizeChanged
  <2> QED
    BY <1>4, <2>2, <2>3 DEF AfterFlush
<1>5. CASE iumfs_getapage(t)
  <2>1. vnode.known /\ put' = put
    BY <1>1, <1>5 DEF iumfs_getapage
  <2>2. vnode'.fsize = vnode.fsize /\ vnode'.known = vnode.known
    <3>1. CASE vnode' = vnode
      BY <3>1
    <3>2. ASSUME NEW q, NEW val, vnode' = [vnode EXCEPT !.page[q] = "clean", !.val = val]
          PROVE  vnode'.fsize = vnode.fsize /\ vnode'.known = vnode.known
      BY <3>2 DEF TypeOK, VnodeRecords
    <3> QED
      BY <1>5, <3>1, <3>2 DEF iumfs_getapage
  <2> QED
    BY <2>1, <2>2, RunsKept
<1>6. CASE CopyIn(t)
  <2>1. vnode.known /\ put' = put
    BY <1>1, <1>6 DEF CopyIn
  <2>2. vnode'.fsize = vnode.fsize /\ vnode'.known = vnode.known
    BY <1>6 DEF CopyIn, TypeOK, VnodeRecords
  <2> QED
    BY <2>1, <2>2, RunsKept
<1>7. CASE SetSize(t)
  <2>1. vnode.known /\ put' = put /\ SizeMayChange
    BY <1>1, <1>7 DEF SetSize
  <2>2. vnode'.known
    BY <1>7, <2>1 DEF SetSize, TypeOK, VnodeRecords
  <2> QED
    BY <2>1, <2>2, SizeChanged
<1>8. CASE CopyOut(t)
  BY <1>1, <1>8, RunsKept DEF CopyOut
<1> QED
  BY <1>2, <1>3, <1>4, <1>5, <1>6, <1>7, <1>8 DEF Step

\* Every step keeps the runs within their bounds.
LEMMA RunStep ==
  ASSUME "window" \in Rules, TypeOK, RunInv, [Next]_vars
  PROVE  RunInv'
<1>1. CASE UNCHANGED <<vnode, put, pc>>
  BY <1>1, RunsKept
<1>2. ASSUME NEW t \in Threads, Call(t) \/ Step(t)
      PROVE  RunInv'
  BY <1>2, CallInBounds, StepInBounds
<1>3. ASSUME NEW x \in Putters, iumfs_request_write(x)
      PROVE  RunInv'
  BY <1>3, FinishInBounds DEF iumfs_request_write
<1>4. CASE PageoutStart \/ PageoutSize
  BY <1>4, PageoutStartInBounds, PageoutSizeInBounds
<1>5. CASE PageoutNothing
  BY <1>5, FinishInBounds DEF PageoutNothing, Putters
<1> QED
  BY <1>1, <1>2, <1>3, <1>4, <1>5
     DEF Next, TimeoutWrite, LateWrite, Tick, OtherWrites, vars

-----------------------------------------------------------------------------
(***************************************************************************)
(* What was written is kept.                                               *)
(***************************************************************************)
\* The environment in which it is: the rules that matter here, no lookup that fails
\* for a file that is there, and a write request that its sender gave up is the only
\* one the daemon knows.
Careful ==
  /\ {"flushFirst", "statFirst", "window", "otherApart"} \subseteq Rules
  /\ "nomem" \notin Faults
  /\ (\E d \in Daemons : Daemons = {d}) \/ {"timeout", "signal", "remove"} \cap (Faults \cup Calls) = {}

\* Pages that are still going to be put.
Pending == Dirty \cup Busy

\* The units a run puts, and those it was collected from.
Extent(r) == r.off .. r.off + r.len - 1
Covers(r) ==
  \A u \in Units : PageOf(u) \in r.pages <=>
                     u \in r.from .. r.from + Cardinality(r.pages) * PageSize - 1

\* i_dlock is with the thread that is at work, and only putpage puts.
Alone ==
  \A t \in Threads : (pc[t] # "idle" => i_dlock = t) /\ (pc[t] # "put" => put[t] = NoRun)

\* No page is in two runs, a run is where its pages are, and it is never put from
\* behind where it begins.
Apart ==
  /\ \A x \in Putters : /\ put[x].pages \subseteq Present
                        /\ put[x].step # "none" => Covers(put[x])
                        /\ put[x].step \in {"length", "send"} => put[x].off =< put[x].from
  /\ \A x, y \in Putters : x # y => put[x].pages \cap put[y].pages = {}
  /\ \A t \in Threads : put[t].pages \cap Dirty = {}

\* A unit that will reach the server: its page is going to be put, and neither the
\* size nor a run that is already on its way leaves it out.
Due(u) ==
  \A x \in Putters :
    put[x].step = "send" /\ PageOf(u) \in put[x].pages \ Dirty => u \in Extent(put[x])
Kept(u) ==
  /\ vnode.val[u] = want[u]
  /\ PageOf(u) \in Pending
  /\ u < vnode.fsize \/ InWindow(PageOf(u))
Safe(u) == Kept(u) /\ Due(u)

Stored == \A u \in Units : Wanted(u) => OnServer(u) \/ Safe(u)

\* Nor does a late write destroy anything for good.
HeldUnits(d) == held[d].off .. held[d].off + Len(held[d].data) - 1
Harmless ==
  \A d \in Daemons, u \in Units :
    u \in HeldUnits(d) /\ Wanted(u) =>
      held[d].data[u - held[d].off + 1] = want[u] \/ Safe(u)
Answered == {"timeout", "signal"} \cap Faults = {} => \A d \in Daemons : Ready(d)

\* A vnode has a file.
Named == vnode.known => link # NoFile

\* A write knows size and time of the file, and has not passed the size by more
\* than the part it has just copied.
Flushing(t) == pc[t] \in {"flush", "put"}
EndOf(t) == op[t].off + PartLen(t)
Writing ==
  \A t \in Threads :
    /\ pc[t] \in {"write", "size"} => op[t].len > 0 /\ vnode.mtime >= foreign
    /\ pc[t] = "write" => ~Beyond(vnode.fsize)
    /\ pc[t] = "size" =>
         /\ PageOf(op[t].off) \in Dirty
         /\ \A u \in Units : Wanted(u) /\ u >= EndOf(t) => u < vnode.fsize

\* The file is as young as the last write of another client.
Dated == foreign =< now /\ (link # NoFile => foreign =< File.mtime)

\* A page that is not about to be destroyed for its age has what was written last.
Current(p) ==
  \/ p \in Pending
  \/ vnode.mtime >= foreign /\ \A t \in Threads : Flushing(t) => p \notin op[t].todo
Coherent ==
  \A u \in Units :
    Wanted(u) /\ PageOf(u) \in Present /\ Current(PageOf(u)) => vnode.val[u] = want[u]

\* The size that getattr is about to take from the server cuts nothing off.
Verifying == \A t \in Threads : pc[t] = "verify" /\ Pending # {} => File.size >= vnode.fsize

\* A flush without error gets at every page.
Flushed ==
  \A t \in Threads : Flushing(t) /\ ~op[t].err => Present \subseteq op[t].todo \cup put[t].pages

\* The parts in which the server has a share, and those in which it has none.
Remote == Stored /\ Harmless /\ Answered /\ Named /\ Dated /\ Verifying
Local  == Alone /\ Apart /\ Writing /\ Coherent /\ Flushed
Types  == TypeInv /\ RunInv /\ DescriptorInv
DataInv == Types /\ Remote /\ Local

\* What the variables hold, as the proofs below need it.
LEMMA DataTypes ==
  ASSUME Types
  PROVE  /\ TypeOK /\ vnode \in VnodeRecords /\ put \in [Putters -> Runs]
         /\ pc \in [Threads -> {"idle", "verify", "flush", "put", "write", "size", "read"}]
         /\ op \in [Threads -> Operations] /\ want \in Marks /\ foreign \in 0 .. MaxTime
         /\ inode \in [Inodes -> FileRecords] /\ link \in Inodes \cup {NoFile} /\ now \in 0 .. MaxTime
         /\ \A t \in Threads : t \in Putters /\ t # Pageout /\ t # NoOne
         /\ \A d \in Daemons : held[d] \in HeldRecords
         /\ \A p \in Present : vnode.known
         /\ link # NoFile => File \in FileRecords
         /\ MaxSize \in Nat /\ MaxTime \in Nat /\ PageSize \in Nat \ {0}
  BY TypeInvTypes, Known, DataAssumption, ServerAssumption
     DEF Types, TypeInv, Kernel, Putters, ServerInv, HeldOK, ServerTypeOK, File

\* A page that is being put is in somebody's run.
LEMMA BusyPages == \A q : q \in Busy <=> \E x \in Putters : q \in put[x].pages
  BY DEF Busy

\* Pages that are marked clean,
LEMMA MarkedClean ==
  ASSUME Types, NEW ps \in SUBSET Pages, vnode' = Marked(ps, "clean")
  PROVE  /\ Dirty' = Dirty \ ps /\ Present' = Present \cup ps
         /\ vnode'.val = vnode.val /\ vnode'.fsize = vnode.fsize
         /\ vnode'.mtime = vnode.mtime /\ vnode'.known = vnode.known
  BY DataTypes DEF Marked, Dirty, Present, VnodeRecords

\* dirty,
LEMMA MarkedDirty ==
  ASSUME Types, NEW ps \in SUBSET Pages, vnode' = Marked(ps, "dirty")
  PROVE  /\ Dirty' = Dirty \cup ps /\ Present' = Present \cup ps
         /\ vnode'.val = vnode.val /\ vnode'.fsize = vnode.fsize
         /\ vnode'.mtime = vnode.mtime /\ vnode'.known = vnode.known
  BY DataTypes DEF Marked, Dirty, Present, VnodeRecords

\* and pages that go.
LEMMA WithoutPages ==
  ASSUME Types, NEW ps \in SUBSET Pages, vnode' = Without(ps)
  PROVE  /\ Dirty' = Dirty \ ps /\ Present' = Present \ ps
         /\ \A u \in Units : PageOf(u) \notin ps => vnode'.val[u] = vnode.val[u]
         /\ vnode'.fsize = vnode.fsize
         /\ vnode'.mtime = vnode.mtime /\ vnode'.known = vnode.known
  BY DataTypes DEF Without, Marked, Dirty, Present, VnodeRecords

\* One daemon thread that can be asked means that none holds an old request.
LEMMA NoneHeld ==
  ASSUME Careful, Answered, NEW d \in Daemons, Ready(d)
  PROVE  \A e \in Daemons : Ready(e)
  BY DEF Careful, Answered

\* It has nothing then that could reach the file.
LEMMA HeldNothing ==
  ASSUME NEW d \in Daemons, Ready(d)
  PROVE  HeldUnits(d) = {}
<1>1. held[d].off = 0 /\ Len(held[d].data) = 0
  BY DEF Ready, NoData
<1> QED
  BY <1>1 DEF HeldUnits

\* A step that leaves the server alone loses nothing if it keeps safe what was safe,
\* and what it has written itself.
LEMMA SafeIsEnough ==
  ASSUME Types, Stored, Harmless, Answered, UNCHANGED <<inode, link, held>>,
         \A u \in Units : Wanted(u)' =>
           \/ Wanted(u) /\ want'[u] = want[u] /\ (Safe(u) => Safe(u)')
           \/ Safe(u)'
  PROVE  Stored' /\ Harmless' /\ Answered'
<1>1. ASSUME NEW u \in Units, Wanted(u)'
      PROVE  (OnServer(u) \/ Safe(u))'
  <2>1. CASE Safe(u)'
    BY <2>1
  <2>2. CASE Wanted(u) /\ want'[u] = want[u] /\ (Safe(u) => Safe(u)')
    <3>1. OnServer(u) \/ Safe(u)
      BY <2>2 DEF Stored
    <3>2. OnServer(u) => OnServer(u)'
      BY <2>2 DEF OnServer, File
    <3> QED
      BY <2>2, <3>1, <3>2
  <2> QED
    BY <1>1, <2>1, <2>2
<1>2. ASSUME NEW d \in Daemons, NEW u \in Units, (u \in HeldUnits(d) /\ Wanted(u))'
      PROVE  (held[d].data[u - held[d].off + 1] = want[u] \/ Safe(u))'
  <2>1. CASE Safe(u)'
    BY <2>1
  <2>2. CASE Wanted(u) /\ want'[u] = want[u] /\ (Safe(u) => Safe(u)')
    <3>1. u \in HeldUnits(d)
      BY <1>2 DEF HeldUnits
    <3>2. held[d].data[u - held[d].off + 1] = want[u] \/ Safe(u)
      BY <2>2, <3>1 DEF Harmless
    <3> QED
      BY <2>2, <3>2
  <2> QED
    BY <1>2, <2>1, <2>2
<1>3. Answered'
  BY DEF Answered, Ready
<1> QED
  BY <1>1, <1>2, <1>3 DEF Stored, Harmless

-----------------------------------------------------------------------------
(***************************************************************************)
(* The server's steps.                                                     *)
(***************************************************************************)
\* A step of the server alone leaves to the kernel what it had.
LEMMA LocalKept ==
  ASSUME Local, UNCHANGED <<vnode, i_dlock, pc, op, put, want, foreign>>
  PROVE  /\ Local' /\ (Pending # {})' = (Pending # {})
         /\ \A u \in Units : Safe(u)' = Safe(u) /\ Wanted(u)' = Wanted(u)
<1>1. Present' = Present /\ Dirty' = Dirty /\ Busy' = Busy /\ Pending' = Pending
  BY DEF Present, Dirty, Busy, Pending
<1>2. \A u \in Units : Safe(u)' = Safe(u) /\ Wanted(u)' = Wanted(u)
  BY <1>1 DEF Safe, Kept, Due, InWindow, Wanted
<1>3. Alone' /\ Apart' /\ Flushed'
  BY <1>1 DEF Local, Alone, Apart, Covers, Flushed, Flushing
<1>4. Writing'
  BY <1>1 DEF Local, Writing, Beyond, Wanted, EndOf, PartLen
<1>5. Coherent'
  BY <1>1 DEF Local, Coherent, Current, Wanted, Flushing
<1> QED
  BY <1>1, <1>2, <1>3, <1>4, <1>5 DEF Local

\* The descriptor a daemon thread would use is that of the file.
LEMMA PathIsLink ==
  ASSUME Types, link # NoFile, NEW d \in Daemons
  PROVE  path2fd(d) = link
  BY DEF Types, DescriptorInv, DescriptorIsCurrent, path2fd

\* What a write request does to the file.
LEMMA WriteReaches ==
  ASSUME Types, link # NoFile, NEW d \in Daemons, NEW off \in Nat, NEW data \in Seq(Values),
         process_write_request(d, off, data)
  PROVE  /\ link' = link /\ now' = now /\ File.size \in Nat /\ File'.size \in Nat
         /\ File'.size >= File.size /\ File'.mtime = now
         /\ \A u \in Units :
              IF u \in off .. off + Len(data) - 1
              THEN u < File'.size /\ File'.val[u] = data[u - off + 1]
              ELSE File'.val[u] = File.val[u]
<1> DEFINE f == inode[link]
           g == pwrite(f, off, data)
<1>1. link' = link /\ now' = now /\ inode' = [inode EXCEPT ![link] = g]
  BY PathIsLink DEF process_write_request
<1>2. f \in FileRecords /\ link \in Inodes
  BY DataTypes DEF File
<1>3. File' = g
  BY <1>1, <1>2, DataTypes DEF File
<1>4. f.size \in Nat /\ Len(data) \in Nat
  BY <1>2, DataTypes DEF FileRecords
<1>5. g.size >= f.size /\ g.size >= off + Len(data) /\ g.size \in Nat
  BY <1>4 DEF pwrite
<1>6. ASSUME NEW u \in Units
      PROVE  g.val[u] = IF u \in off .. off + Len(data) - 1 THEN data[u - off + 1] ELSE f.val[u]
  BY <1>6 DEF pwrite
<1>7. g.mtime = now
  BY DEF pwrite
<1>8. ASSUME NEW u \in Units, u \in off .. off + Len(data) - 1
      PROVE  u < g.size
  BY <1>4, <1>5, <1>8
<1> QED
  BY <1>1, <1>3, <1>4, <1>5, <1>6, <1>7, <1>8 DEF File

\* What remains of the server's share once Stored is dealt with.
LEMMA FileStays ==
  ASSUME Types, Remote, link' = link, now \in Nat, now' \in Nat, now' >= now,
         link # NoFile => File.size \in Nat /\ File'.size \in Nat /\ File'.size >= File.size
                          /\ File'.mtime \in {File.mtime, now},
         vnode'.known = vnode.known, vnode'.fsize = vnode.fsize, foreign' = foreign,
         Pending' # {} => Pending # {},
         \A t \in Threads : pc'[t] = "verify" => pc[t] = "verify"
  PROVE  Named' /\ Dated' /\ Verifying'
<1>1. Named' /\ Dated'
  BY DataTypes DEF Remote, Named, Dated
<1>2. ASSUME NEW t \in Threads, pc[t] = "verify", Pending # {}
      PROVE  (File.size >= vnode.fsize)'
  <2>1. vnode.known
    BY <1>2, Known DEF Types
  <2>2. link # NoFile /\ File.size >= vnode.fsize /\ vnode.fsize \in Nat
    BY <1>2, <2>1, DataTypes DEF Remote, Named, Verifying, VnodeRecords
  <2> QED
    BY <2>2
<1> QED
  BY <1>1, <1>2 DEF Verifying

\* The same where the kernel does nothing.
LEMMA FileGrows ==
  ASSUME Types, Remote, link' = link, now \in Nat, now' \in Nat, now' >= now,
         link # NoFile => File.size \in Nat /\ File'.size \in Nat /\ File'.size >= File.size
                          /\ File'.mtime \in {File.mtime, now},
         UNCHANGED <<vnode, pc, put, foreign>>
  PROVE  Named' /\ Dated' /\ Verifying'
<1>1. Pending' = Pending
  BY DEF Pending, Dirty, Busy
<1> QED
  BY <1>1, FileStays

\* The clock, another path, and a step that does nothing.
LEMMA QuietKeeps ==
  ASSUME DataInv,
         \/ Tick
         \/ \E d \in Daemons : ServeOther(d) /\ UNCHANGED <<vnode, i_dlock, pc, op, put, ghost>>
         \/ UNCHANGED vars
  PROVE  Remote' /\ Local'
<1>1. /\ UNCHANGED <<inode, link, held, vnode, i_dlock, pc, op, put, want, foreign>>
      /\ now' \in {now, now + 1}
  BY DEF Tick, ServeOther, vars, ghost, server
<1>2. Types /\ Remote /\ Local
  BY DEF DataInv
<1>3. Local' /\ \A u \in Units : Safe(u)' = Safe(u) /\ Wanted(u)' = Wanted(u)
  BY <1>1, <1>2, LocalKept
<1>4. Stored' /\ Harmless' /\ Answered'
  BY <1>1, <1>2, <1>3, SafeIsEnough DEF Remote
<1>5. link # NoFile => File.size \in Nat /\ File' = File
  BY <1>1, <1>2, DataTypes DEF File, FileRecords
<1>6. now \in Nat /\ now' \in Nat /\ now' >= now
  BY <1>1, <1>2, DataTypes
<1>7. Named' /\ Dated' /\ Verifying'
  <2>1. link # NoFile => File'.size >= File.size
    BY <1>5
  <2> QED
    BY <1>1, <1>2, <1>5, <1>6, <2>1, FileGrows
<1> QED
  BY <1>3, <1>4, <1>7 DEF Remote

\* What is sent is what was written last.
LEMMA SentIsWanted ==
  ASSUME Types, Local, NEW x \in Putters, put[x].step = "send", put[x].len # 0,
         NEW u \in Units, u \in Extent(put[x])
  PROVE  /\ PageOf(u) \in put[x].pages /\ PageOf(u) \in Pending /\ PageOf(u) \in Present
         /\ DataOf(put[x])[u - put[x].off + 1] = vnode.val[u]
         /\ Wanted(u) => vnode.val[u] = want[u]
<1> DEFINE r == put[x]
           n == Cardinality(r.pages) * PageSize
           i == u - r.off + 1
<1>1. r \in Runs /\ r.off = r.from /\ r.len \in 1 .. n /\ Covers(r) /\ r.pages \subseteq Present
  BY DataTypes DEF Types, RunInv, InBounds, Local, Apart
<1>2. n \in Nat
  <2>1. r.pages \in SUBSET Pages
    BY <1>1 DEF Runs
  <2>2. Cardinality(r.pages) \in Nat
    BY <2>1, PagesFinite, FS_Subset, FS_CardinalityType
  <2> QED
    BY <2>2, DataTypes
<1>3. r.off \in Nat /\ r.len \in Nat /\ r.from \in Nat /\ u \in Nat
  BY <1>1, <1>2, DataTypes DEF Runs, Units
<1>4. u >= r.off /\ u =< r.off + r.len - 1
  BY <1>3 DEF Extent
<1> HIDE DEF n
<1>5. u \in r.from .. r.from + n - 1
  BY <1>1, <1>2, <1>3, <1>4
<1>6. PageOf(u) \in r.pages
  BY <1>1, <1>5 DEF Covers, n
<1>7. PageOf(u) \in Pending /\ PageOf(u) \in Present
  BY <1>1, <1>6, BusyPages DEF Pending
<1>8. i \in 1 .. r.len /\ r.from + i - 1 = u
  BY <1>1, <1>3, <1>4
<1> HIDE DEF i
<1>9. DataOf(r)[i] = vnode.val[u]
  BY <1>6, <1>8 DEF DataOf
<1>10. Wanted(u) => vnode.val[u] = want[u]
  BY <1>7 DEF Local, Coherent, Current
<1> QED
  BY <1>6, <1>7, <1>9, <1>10 DEF i

\* A write request that its sender gives up stays with the daemon.
LEMMA WithheldIsWanted ==
  ASSUME DataInv, NEW x \in Putters, put[x].step = "send", put[x].len > 0, Withheld(x),
         {"timeout", "signal"} \cap Faults # {}, want' = want,
         \A u \in Units : Safe(u) => Safe(u)'
  PROVE  Stored' /\ Harmless' /\ Answered'
<1>1. PICK d \in Daemons :
        held' = [held EXCEPT ![d] = [off |-> put[x].off, data |-> DataOf(put[x])]]
  BY DEF Withheld
<1>2. UNCHANGED <<inode, link, now>> /\ put[x].len \in Nat \ {0} /\ put[x] \in Runs
  BY DataTypes DEF Withheld, DataInv, Runs
<1>3. Types /\ Remote /\ Local
  BY DEF DataInv
<1>4. \A u \in Units : Wanted(u)' = Wanted(u)
  BY DEF Wanted
<1>5. ASSUME NEW u \in Units, Wanted(u)'
      PROVE  (OnServer(u) \/ Safe(u))'
  BY <1>2, <1>3, <1>4, <1>5 DEF Remote, Stored, OnServer, File
<1>6. ASSUME NEW e \in Daemons, NEW u \in Units, (u \in HeldUnits(e) /\ Wanted(u))'
      PROVE  (held[e].data[u - held[e].off + 1] = want[u] \/ Safe(u))'
  <2>1. CASE e # d
    <3>1. held'[e] = held[e]
      BY <1>1, <2>1 DEF DataInv, Types, TypeInv, ServerInv, HeldOK
    <3>2. u \in HeldUnits(e) /\ Wanted(u)
      BY <1>4, <1>6, <3>1 DEF HeldUnits
    <3>3. held[e].data[u - held[e].off + 1] = want[u] \/ Safe(u)
      BY <1>3, <3>2 DEF Remote, Harmless
    <3> QED
      BY <1>2, <1>4, <3>1, <3>3
  <2>2. CASE e = d
    <3>1. held'[e].off = put[x].off /\ held'[e].data = DataOf(put[x])
      BY <1>1, <2>2 DEF DataInv, Types, TypeInv, ServerInv, HeldOK
    <3>2. Len(DataOf(put[x])) = put[x].len
      BY <1>2, <1>3, DataTypes, DataTyped
    <3>3. u \in Extent(put[x]) /\ Wanted(u)
      BY <1>4, <1>6, <3>1, <3>2 DEF HeldUnits, Extent
    <3>4. DataOf(put[x])[u - put[x].off + 1] = want[u]
      BY <1>2, <1>3, <3>3, SentIsWanted
    <3> QED
      BY <1>2, <3>1, <3>4
  <2> QED
    BY <2>1, <2>2
<1> QED
  BY <1>5, <1>6 DEF Stored, Harmless, Answered

\* One that times out is sent again.
LEMMA TimeoutKeeps ==
  ASSUME DataInv, NEW x \in Putters, TimeoutWrite(x)
  PROVE  Remote' /\ Local'
<1>1. /\ UNCHANGED <<inode, link, now, vnode, i_dlock, pc, op, put, want, foreign>>
      /\ "timeout" \in Faults /\ put[x].step = "send" /\ put[x].len > 0 /\ Withheld(x)
  BY DEF TimeoutWrite, Withheld, ghost
<1>2. Types /\ Remote /\ Local
  BY DEF DataInv
<1>3. Local' /\ \A u \in Units : Safe(u)' = Safe(u) /\ Wanted(u)' = Wanted(u)
  BY <1>1, <1>2, LocalKept
<1>4. Stored' /\ Harmless' /\ Answered'
  BY <1>1, <1>3, WithheldIsWanted
<1>5. link # NoFile => File.size \in Nat /\ File' = File /\ File'.size >= File.size
  BY <1>1, <1>2, DataTypes DEF File, FileRecords
<1>6. Named' /\ Dated' /\ Verifying'
  BY <1>1, <1>2, <1>5, FileGrows, DataTypes
<1> QED
  BY <1>3, <1>4, <1>6 DEF Remote

\* A write request that comes late.
LEMMA LateWriteKeeps ==
  ASSUME Careful, DataInv, NEW d \in Daemons, LateWrite(d)
  PROVE  Remote' /\ Local'
<1> DEFINE off == held[d].off
           data == held[d].data
<1>1. /\ UNCHANGED <<link, now, vnode, i_dlock, pc, op, put, want, foreign>>
      /\ held' = [held EXCEPT ![d] = NoData] /\ ~Ready(d)
      /\ process_write_request(d, off, data) \/ inode' = inode
  BY DEF LateWrite, ghost, process_write_request
<1>2. Types /\ Remote /\ Local
  BY DEF DataInv
<1>3. Local' /\ \A u \in Units : Safe(u)' = Safe(u) /\ Wanted(u)' = Wanted(u)
  BY <1>1, <1>2, LocalKept
<1>4. off \in Nat /\ data \in Seq(Values)
  BY <1>2, DataTypes DEF HeldRecords, Units
<1>5. Daemons = {d}
  BY <1>1, <1>2 DEF Careful, Remote, Answered
<1>6. Ready(d)'
  BY <1>1 DEF Ready, DataInv, Types, TypeInv, ServerInv, HeldOK
<1>7. ASSUME NEW u \in Units, Wanted(u)'
      PROVE  (OnServer(u) \/ Safe(u))'
  <2>1. Wanted(u) /\ want'[u] = want[u] /\ Safe(u)' = Safe(u) /\ (OnServer(u) \/ Safe(u))
    BY <1>1, <1>2, <1>3, <1>7 DEF Remote, Stored
  <2>2. CASE OnServer(u) /\ ~Safe(u)
    <3>1. link # NoFile /\ u < File.size /\ File.val[u] = want[u]
      BY <2>2 DEF OnServer
    <3>2. CASE inode' = inode
      BY <1>1, <2>1, <3>1, <3>2 DEF OnServer, File
    <3>3. CASE process_write_request(d, off, data)
      <4>1. u \in HeldUnits(d) => data[u - off + 1] = want[u]
        BY <1>2, <2>1, <2>2 DEF Remote, Harmless
      <4>2. /\ File'.size >= File.size /\ File.size \in Nat
            /\ IF u \in HeldUnits(d) THEN u < File'.size /\ File'.val[u] = data[u - off + 1]
               ELSE File'.val[u] = File.val[u]
        <5> HIDE DEF off, data
        <5>1. /\ File'.size >= File.size /\ File.size \in Nat
              /\ IF u \in off .. off + Len(data) - 1
                 THEN u < File'.size /\ File'.val[u] = data[u - off + 1]
                 ELSE File'.val[u] = File.val[u]
          BY <1>2, <1>4, <3>1, <3>3, WriteReaches
        <5> QED
          BY <5>1 DEF HeldUnits, off, data
      <4>3. File' \in FileRecords
        BY <1>1, <1>2, <3>1, WriteReaches, LateWriteTyped, DataTypes
           DEF File, Types, TypeInv, ServerInv, ServerTypeOK
      <4>4. u < File'.size
        BY <3>1, <4>2, <4>3, DataTypes DEF Units, FileRecords
      <4> QED
        BY <1>1, <2>1, <3>1, <4>1, <4>2, <4>4 DEF OnServer
    <3> QED
      BY <1>1, <3>2, <3>3
  <2> QED
    BY <2>1, <2>2
<1>8. Harmless' /\ Answered'
  <2>1. \A e \in Daemons : held'[e] = NoData
    BY <1>5, <1>6 DEF Ready
  <2>2. \A e \in Daemons : Len(held'[e].data) = 0 /\ held'[e].off = 0
    BY <2>1 DEF NoData
  <2>3. \A e \in Daemons : HeldUnits(e)' = {}
    BY <2>2 DEF HeldUnits
  <2> QED
    BY <2>1, <2>3 DEF Harmless, Answered, Ready
<1>9. ASSUME link # NoFile
      PROVE  File.size \in Nat /\ File'.size \in Nat /\ File'.size >= File.size
             /\ File'.mtime \in {File.mtime, now}
  <2>1. CASE inode' = inode
    BY <1>1, <1>2, <1>9, <2>1, DataTypes DEF File, FileRecords
  <2>2. CASE process_write_request(d, off, data)
    <3>1. File.size \in Nat /\ File'.size >= File.size /\ File'.mtime = now
      BY <1>2, <1>4, <1>9, <2>2, WriteReaches
    <3>2. File'.size \in Nat
      BY <1>1, <1>2, <1>9, LateWriteTyped, DataTypes
         DEF File, Types, TypeInv, ServerInv, ServerTypeOK, FileRecords
    <3> QED
      BY <3>1, <3>2
  <2> QED
    BY <1>1, <2>1, <2>2
<1>10. Named' /\ Dated' /\ Verifying'
  BY <1>1, <1>2, <1>9, FileGrows, DataTypes
<1> QED
  BY <1>3, <1>7, <1>8, <1>10 DEF Remote, Stored

\* Another client writes when nothing is under way.
LEMMA OtherWritesKeeps ==
  ASSUME Careful, DataInv, OtherWrites
  PROVE  Remote' /\ Local'
<1>1. Types /\ Remote /\ Local
  BY DEF DataInv
<1>2. /\ UNCHANGED <<link, now, fd, held, vnode, i_dlock, pc, op, put>>
      /\ foreign' = now /\ link # NoFile
      /\ (vnode.known => now > vnode.mtime) /\ Pending = {} /\ (\A d \in Daemons : Ready(d))
      /\ \A t \in Threads : pc[t] \notin {"write", "size"}
  BY DEF OtherWrites, Careful, Pending
<1>3. PICK w \in 0 .. File.size - 1 :
        /\ inode' = [inode EXCEPT ![link].val[w] = "other", ![link].mtime = now]
        /\ want' = [want EXCEPT ![w] = "other"]
  BY DEF OtherWrites
<1>4. File \in FileRecords /\ link \in Inodes /\ File.size \in 0 .. MaxSize
  BY <1>1, <1>2, DataTypes DEF FileRecords
<1>5. File' = [File EXCEPT !.val[w] = "other", !.mtime = now]
  BY <1>1, <1>2, <1>3, <1>4, DataTypes DEF File, FileRecords
<1>6. w \in Units /\ w < File.size
  BY <1>1, <1>3, <1>4, DataTypes DEF Units
<1>7. File'.size = File.size /\ File'.mtime = now /\ File'.val = [File.val EXCEPT ![w] = "other"]
  BY <1>4, <1>5 DEF FileRecords
<1>8. want'[w] = "other" /\ \A u \in Units : u # w => want'[u] = want[u]
  BY <1>1, <1>3, <1>6, DataTypes DEF Marks
<1>9. Present' = Present /\ Dirty' = Dirty /\ Busy' = Busy /\ Pending' = {}
  BY <1>2 DEF Present, Dirty, Busy, Pending
<1>10. Stored'
  <2>1. ASSUME NEW u \in Units, Wanted(u)'
        PROVE  OnServer(u)'
    <3>1. CASE u = w
      BY <1>2, <1>4, <1>6, <1>7, <1>8, <3>1 DEF OnServer, FileRecords
    <3>2. CASE u # w
      <4>1. Wanted(u)
        BY <1>8, <2>1, <3>2 DEF Wanted
      <4>2. OnServer(u)
        BY <1>1, <1>2, <4>1 DEF Remote, Stored, Safe, Kept
      <4> QED
        BY <1>2, <1>4, <1>7, <1>8, <3>2, <4>2 DEF OnServer, FileRecords
    <3> QED
      BY <3>1, <3>2
  <2> QED
    BY <2>1 DEF Stored
<1>11. Harmless' /\ Answered'
  <2>1. \A d \in Daemons : Ready(d)'
    BY <1>2 DEF Ready
  <2>2. ASSUME NEW d \in Daemons
        PROVE  HeldUnits(d)' = {}
    <3>1. held'[d] = NoData
      BY <2>1 DEF Ready
    <3>2. held'[d].off = 0 /\ Len(held'[d].data) = 0
      BY <3>1 DEF NoData
    <3> QED
      BY <3>2 DEF HeldUnits
  <2> QED
    BY <2>1, <2>2 DEF Harmless, Answered
<1>12. Named' /\ Dated' /\ Verifying'
  BY <1>1, <1>2, <1>7, <1>9, DataTypes DEF Remote, Named, Dated, Verifying
<1>13. Alone' /\ Apart' /\ Flushed' /\ Writing'
  BY <1>1, <1>2, <1>9 DEF Local, Alone, Apart, Covers, Flushed, Flushing, Writing
<1>14. Coherent'
  <2>1. ASSUME NEW p \in Present
        PROVE  ~Current(p)'
    <3>1. vnode.known
      BY <1>1, <2>1, DataTypes
    <3>2. vnode'.mtime < foreign' /\ vnode.mtime \in Nat
      BY <1>1, <1>2, <3>1, DataTypes DEF VnodeRecords
    <3> QED
      BY <1>1, <1>2, <1>9, <3>2, DataTypes DEF Current
  <2> QED
    BY <1>9, <2>1 DEF Coherent
<1> QED
  BY <1>10, <1>11, <1>12, <1>13, <1>14 DEF Remote, Local

-----------------------------------------------------------------------------
(***************************************************************************)
(* The vnode appears and disappears; operations begin.                     *)
(***************************************************************************)
\* A vnode without pages that nobody works on.
LEMMA RestIsLocal ==
  ASSUME Types, \A p \in Pages : vnode'.page[p] = "none",
         \A x \in Putters : put'[x] = NoRun, \A t \in Threads : pc'[t] = "idle"
  PROVE  Local' /\ Pending' = {}
<1>1. Present' = {} /\ Dirty' = {}
  BY DEF Present, Dirty
<1>2. \A x \in Putters : put'[x].pages = {} /\ put'[x].step = "none"
  BY DEF NoRun
<1>3. Busy' = {}
  BY <1>2 DEF Busy
<1>4. Alone'
  BY DEF Alone, Putters
<1>5. Apart'
  BY <1>1, <1>2, DataTypes DEF Apart
<1>6. Writing' /\ Flushed' /\ Coherent'
  BY <1>1 DEF Writing, Flushed, Flushing, Coherent
<1> QED
  BY <1>1, <1>3, <1>4, <1>5, <1>6 DEF Local, Pending

\* What a file without vnode holds is all there is.
LEMMA AllOnServer ==
  ASSUME Types, Remote, ~vnode.known
  PROVE  /\ \A u \in Units : ~Safe(u) /\ (Wanted(u) => OnServer(u))
         /\ \A x \in Putters : put[x] = NoRun
         /\ \A t \in Threads : pc[t] = "idle"
<1>1. AtRest
  BY DEF Types, RunInv
<1>2. Dirty = {}
  BY <1>1 DEF AtRest, NoVnode, Dirty
<1>3. Busy = {}
  BY <1>1, BusyPages DEF AtRest, NoRun
<1>4. \A u \in Units : ~Safe(u)
  BY <1>2, <1>3 DEF Safe, Kept, Pending
<1> QED
  BY <1>1, <1>4 DEF AtRest, Remote, Stored

\* lookup.
LEMMA LookupKeeps ==
  ASSUME DataInv, NEW t \in Threads, iumfs_lookup(t)
  PROVE  Remote' /\ Local'
<1>1. Types /\ Remote /\ Local
  BY DEF DataInv
<1>2. /\ UNCHANGED <<inode, link, now, fd, held, i_dlock, pc, op, put, want, foreign>>
      /\ ~vnode.known /\ vnode' = NewVnode /\ link # NoFile
  BY DEF iumfs_lookup, server, ghost
<1>3. \A p \in Pages : vnode'.page[p] = "none"
  BY <1>2 DEF NewVnode, NoVnode
<1>4. /\ \A u \in Units : ~Safe(u)
      /\ \A x \in Putters : put[x] = NoRun
      /\ \A s \in Threads : pc[s] = "idle"
  BY <1>1, <1>2, AllOnServer
<1>5. Local'
  BY <1>1, <1>2, <1>3, <1>4, RestIsLocal
<1>6. Stored' /\ Harmless' /\ Answered'
  BY <1>1, <1>2, <1>4, SafeIsEnough DEF Remote, Wanted
<1>7. Named' /\ Dated' /\ Verifying'
  BY <1>1, <1>2, <1>4 DEF Remote, Named, Dated, Verifying, File
<1> QED
  BY <1>5, <1>6, <1>7 DEF Remote

\* create makes a file: there was none, and so nothing to lose.
LEMMA MakeKeeps ==
  ASSUME Careful, DataInv, NEW t \in Threads,
         ~vnode.known, link = NoFile \/ "nomem" \in Faults,
         \E d \in Daemons : process_create_request(d),
         vnode' = NewVnode, UNCHANGED <<i_dlock, pc, op, put, ghost>>
  PROVE  Remote' /\ Local'
<1>1. Types /\ Remote /\ Local
  BY DEF DataInv
<1>2. link = NoFile /\ UNCHANGED <<now, held, i_dlock, pc, op, put, want, foreign>>
  BY DEF Careful, process_create_request, ghost
<1>3. PICK i \in Inodes : link' = i /\ inode' = [inode EXCEPT ![i] = Empty]
  BY <1>2 DEF process_create_request, FreshInode
<1>4. \A p \in Pages : vnode'.page[p] = "none"
  BY DEF NewVnode, NoVnode
<1>5. /\ \A u \in Units : ~Safe(u) /\ (Wanted(u) => OnServer(u))
      /\ \A x \in Putters : put[x] = NoRun
      /\ \A s \in Threads : pc[s] = "idle"
  BY <1>1, AllOnServer
<1>6. Local'
  BY <1>1, <1>2, <1>4, <1>5, RestIsLocal
<1>7. \A u \in Units : ~Wanted(u)'
  BY <1>2, <1>5 DEF OnServer, Wanted
<1>8. File' = Empty /\ link' # NoFile
  BY <1>1, <1>3, DataTypes DEF File, Inodes, NoFile
<1>9. Stored' /\ Harmless' /\ Answered' /\ Named' /\ Verifying'
  BY <1>1, <1>2, <1>5, <1>7, <1>8
     DEF Remote, Stored, Harmless, Answered, Ready, Named, Verifying
<1>10. Dated'
  BY <1>1, <1>2, <1>8 DEF Remote, Dated, Empty
<1> QED
  BY <1>6, <1>9, <1>10 DEF Remote

\* remove.
LEMMA RemoveKeeps ==
  ASSUME DataInv, NEW t \in Threads, iumfs_remove(t)
  PROVE  Remote' /\ Local'
<1>1. Types /\ Remote /\ Local
  BY DEF DataInv
<1>2. /\ UNCHANGED <<now, held, i_dlock, pc, op, put, foreign>>
      /\ link' = NoFile /\ vnode' = NoVnode /\ want' = [u \in Units |-> Nothing]
      /\ Dirty \cup Busy = {} /\ \A s \in Threads : pc[s] = "idle"
  BY DEF iumfs_remove, process_remove_request
<1>3. ~vnode'.known /\ \A p \in Pages : vnode'.page[p] = "none"
  BY <1>2 DEF NoVnode
<1>4. ASSUME NEW x \in Putters
      PROVE  put[x] = NoRun
  <2>1. put[x].pages = {}
    BY <1>2, BusyPages
  <2> QED
    BY <1>1, <2>1 DEF Types, RunInv, Tested
<1>5. Local'
  BY <1>1, <1>2, <1>3, <1>4, RestIsLocal
<1>6. \A u \in Units : ~Wanted(u)'
  BY <1>2 DEF Wanted
<1>7. Stored' /\ Harmless' /\ Answered' /\ Named' /\ Verifying' /\ Dated'
  BY <1>1, <1>2, <1>3, <1>6
     DEF Remote, Stored, Harmless, Answered, Ready, Named, Verifying, Dated
<1> QED
  BY <1>5, <1>7 DEF Remote

\* An operation begins.
LEMMA EnterKeeps ==
  ASSUME DataInv, NEW t \in Threads, NEW o, NEW l \in {"verify", "flush", "write"}, Enter(t, l, o),
         l = "verify" => SizeIsFlushed,
         l = "write" => o.len \in Nat \ {0} /\ SizeIsKnown,
         l = "flush" => o.todo = Present
  PROVE  Remote' /\ Local'
<1>1. Types /\ Remote /\ Local
  BY DEF DataInv
<1>2. /\ UNCHANGED <<inode, link, now, held, vnode, put, want, foreign>>
      /\ i_dlock = NoOne /\ i_dlock' = t /\ vnode.known
      /\ pc' = [pc EXCEPT ![t] = l] /\ op' = [op EXCEPT ![t] = o]
  BY DEF Enter, Goto, server, ghost
<1>3. \A s \in Threads : pc[s] = "idle"
  BY <1>1, <1>2, DataTypes DEF Local, Alone
<1>4. /\ pc'[t] = l /\ op'[t] = o
      /\ \A s \in Threads : s # t => pc'[s] = "idle"
  BY <1>1, <1>2, <1>3, DataTypes
<1>5. Present' = Present /\ Dirty' = Dirty /\ Busy' = Busy /\ Pending' = Pending
  BY <1>2 DEF Present, Dirty, Busy, Pending
<1>6. \A p : ~InWindow(p) /\ ~InWindow(p)'
  BY <1>3, <1>4 DEF InWindow
<1>7. \A u \in Units : Wanted(u)' = Wanted(u) /\ Safe(u)' = Safe(u)
  <2>1. \A u \in Units : Due(u)' = Due(u)
    BY <1>2, <1>5 DEF Due
  <2>2. \A u \in Units : Kept(u)' = Kept(u)
    BY <1>2, <1>5, <1>6 DEF Kept
  <2> QED
    BY <1>2, <2>1, <2>2 DEF Wanted, Safe
<1>8. Stored' /\ Harmless' /\ Answered'
  BY <1>1, <1>2, <1>7, SafeIsEnough DEF Remote
<1>9. Named' /\ Dated'
  BY <1>1, <1>2 DEF Remote, Named, Dated, File
<1>10. Verifying'
  <2>1. CASE l = "verify"
    <3>1. Pending # {} => File.size = vnode.fsize /\ vnode.fsize \in Nat
      BY <1>1, <1>2, <2>1, DataTypes DEF SizeIsFlushed, Pending, Remote, Named, VnodeRecords
    <3>2. File' = File
      BY <1>2 DEF File
    <3> QED
      BY <1>2, <1>4, <1>5, <3>1, <3>2 DEF Verifying
  <2>2. CASE l # "verify"
    BY <1>4, <2>2 DEF Verifying
  <2> QED
    BY <2>1, <2>2
<1>11. Alone' /\ Apart'
  BY <1>1, <1>2, <1>3, <1>4, <1>5 DEF Local, Alone, Apart, Covers
<1>12. Writing'
  BY <1>1, <1>2, <1>4, <1>7 DEF Writing, SizeIsKnown, Beyond
<1>13. Coherent'
  <2>1. \A p : Current(p)' => Current(p)
    BY <1>2, <1>3, <1>5 DEF Current, Flushing
  <2> QED
    BY <1>1, <1>2, <1>5, <1>7, <2>1 DEF Local, Coherent
<1>14. Flushed'
  BY <1>4, <1>5 DEF Flushed, Flushing
<1> QED
  BY <1>8, <1>9, <1>10, <1>11, <1>12, <1>13, <1>14 DEF Remote, Local

\* Every call.
LEMMA CallKeeps ==
  ASSUME Careful, DataInv, NEW t \in Threads, Call(t)
  PROVE  Remote' /\ Local'
<1>1. CASE iumfs_lookup(t)
  BY <1>1, LookupKeeps
<1>2. CASE iumfs_remove(t)
  BY <1>2, RemoveKeeps
<1>3. CASE iumfs_create(t)
  <2> DEFINE o == [NoOp EXCEPT !.call = "create", !.todo = Present]
  <2>1. CASE Enter(t, "flush", o)
    <3>1. o.todo = Present
      BY DEF NoOp
    <3> HIDE DEF o
    <3> QED
      BY <2>1, <3>1, EnterKeeps
  <2>2. CASE ~Enter(t, "flush", o)
    BY <1>3, <2>2, MakeKeeps DEF iumfs_create
  <2> QED
    BY <2>1, <2>2
<1>4. ASSUME NEW off, NEW len \in Nat \ {0}, StartWrite(t, off, len)
      PROVE  Remote' /\ Local'
  <2> DEFINE o == [NoOp EXCEPT !.call = "write", !.off = off, !.len = len]
  <2>1. o.len = len
    BY DEF NoOp
  <2>2. SizeIsKnown /\ Enter(t, "write", o)
    BY <1>4 DEF StartWrite, Careful
  <2> HIDE DEF o
  <2> QED
    BY <1>4, <2>1, <2>2, EnterKeeps
<1>5. CASE iumfs_write(t) \/ iumfs_append(t)
  <2>1. \A w \in Writes : w[2] \in Nat \ {0}
    BY DataAssumption, ServerAssumption
  <2> QED
    BY <1>4, <1>5, <2>1 DEF iumfs_write, iumfs_append
<1>6. CASE iumfs_read(t)
  <2>1. SizeIsFlushed /\ \E o : Enter(t, "verify", o)
    BY <1>6 DEF iumfs_read, Careful
  <2> QED
    BY <2>1, EnterKeeps
<1>7. CASE iumfs_getattr(t)
  <2>1. SizeIsFlushed /\ \E o : Enter(t, "verify", o)
    BY <1>7 DEF iumfs_getattr, Careful
  <2> QED
    BY <2>1, EnterKeeps
<1>8. CASE iumfs_fsync(t) \/ iumfs_close(t)
  <2> DEFINE o == [NoOp EXCEPT !.call = "sync", !.todo = Present]
  <2>1. o.todo = Present
    BY DEF NoOp
  <2>2. Enter(t, "flush", o)
    BY <1>8 DEF iumfs_fsync, iumfs_close
  <2> HIDE DEF o
  <2> QED
    BY <2>1, <2>2, EnterKeeps
<1> QED
  BY <1>1, <1>2, <1>3, <1>5, <1>6, <1>7, <1>8 DEF Call

-----------------------------------------------------------------------------
(***************************************************************************)
(* A put ends.                                                             *)
(***************************************************************************)
\* What Finish does to the pages: those that were put and not written to meanwhile go,
\* or all of them are dirty again.
LEMMA FinishPages ==
  ASSUME Types, Local, NEW x \in Putters, NEW ok \in BOOLEAN, Finish(x, ok)
  PROVE  LET gone == IF ok THEN put[x].pages \ Dirty ELSE {} IN
         /\ Present' = Present \ gone /\ Pending' = Pending \ gone
         /\ Dirty' = IF ok THEN Dirty ELSE Dirty \cup put[x].pages
         /\ \A u \in Units : PageOf(u) \notin gone => vnode'.val[u] = vnode.val[u]
         /\ vnode'.fsize = vnode.fsize /\ vnode'.mtime = vnode.mtime /\ vnode'.known = vnode.known
<1> DEFINE ps == put[x].pages
           gone == IF ok THEN ps \ Dirty ELSE {}
<1>1. ps \in SUBSET Pages /\ ps \subseteq Present /\ gone \in SUBSET Pages
  BY DataTypes DEF Local, Apart, Runs
<1>2. put' = [put EXCEPT ![x] = NoRun]
  BY DEF Finish
<1>3. \A q : q \in Busy' <=> q \in Busy /\ q \notin ps
  <2>1. \A y \in Putters : put'[y].pages = IF y = x THEN {} ELSE put[y].pages
    BY <1>2, DataTypes DEF NoRun
  <2>2. \A y \in Putters : y # x => put[y].pages \cap ps = {}
    BY DEF Local, Apart
  <2>3. \A q : q \in Busy' <=> \E y \in Putters : q \in put'[y].pages
    BY DEF Busy
  <2> QED
    BY <2>1, <2>2, <2>3, BusyPages
<1>4. ps \subseteq Busy
  BY BusyPages
<1>5. CASE ok
  <2>1. vnode' = Without(gone)
    BY <1>5 DEF Finish, PutDone
  <2>2. /\ Dirty' = Dirty \ gone /\ Present' = Present \ gone
        /\ \A u \in Units : PageOf(u) \notin gone => vnode'.val[u] = vnode.val[u]
        /\ vnode'.fsize = vnode.fsize
        /\ vnode'.mtime = vnode.mtime /\ vnode'.known = vnode.known
    BY <1>1, <2>1, WithoutPages
  <2>3. Dirty' = Dirty
    BY <1>5, <2>2
  <2>4. Pending' = Pending \ gone
    BY <1>3, <1>5, <2>3 DEF Pending
  <2> QED
    BY <1>5, <2>2, <2>3, <2>4
<1>6. CASE ~ok
  <2>1. vnode' = Marked(ps, "dirty")
    BY <1>6 DEF Finish, PutDone
  <2>2. /\ Dirty' = Dirty \cup ps /\ Present' = Present \cup ps
        /\ vnode'.val = vnode.val /\ vnode'.fsize = vnode.fsize
        /\ vnode'.mtime = vnode.mtime /\ vnode'.known = vnode.known
    BY <1>1, <2>1, MarkedDirty
  <2>3. Pending' = Pending
    BY <1>3, <1>4, <2>2 DEF Pending
  <2> QED
    BY <1>1, <1>6, <2>2, <2>3
<1> QED
  BY <1>5, <1>6

\* What it does to the threads.
LEMMA FinishThreads ==
  ASSUME Types, Local, NEW x \in Putters, NEW ok \in BOOLEAN, Finish(x, ok), put[x].step = "send"
  PROVE  /\ UNCHANGED <<i_dlock, want, foreign>>
         /\ put'[x] = NoRun /\ \A y \in Putters : y # x => put'[y] = put[y]
         /\ x \in Threads => pc[x] = "put" /\ pc'[x] = "flush"
         /\ \A t \in Threads : /\ t # x => pc'[t] = pc[t] /\ op'[t] = op[t]
                               /\ op'[t].todo = op[t].todo
                               /\ Flushing(t)' = Flushing(t)
                               /\ op'[t].err = (op[t].err \/ (t = x /\ ~ok))
         /\ \A p : InWindow(p)' = InWindow(p)
         /\ \A t \in Threads : x \in Threads => pc[t] \notin {"verify", "write", "size"}
<1>1. put' = [put EXCEPT ![x] = NoRun] /\ UNCHANGED <<i_dlock, want, foreign>>
  BY DEF Finish, ghost
<1>2. put'[x] = NoRun /\ \A y \in Putters : y # x => put'[y] = put[y]
  BY <1>1, DataTypes
<1>3. ASSUME x \in Threads
      PROVE  pc[x] = "put" /\ i_dlock = x /\ \A t \in Threads : t # x => pc[t] = "idle"
  <2>1. put[x] # NoRun
    BY DEF NoRun
  <2> QED
    BY <1>3, <2>1 DEF Local, Alone
<1>4. CASE x = Pageout
  <2>1. UNCHANGED <<pc, op>> /\ \A t \in Threads : t # x
    BY <1>4, DataTypes DEF Finish
  <2>2. \A t \in Threads : op[t].err \in BOOLEAN
    BY DataTypes DEF Operations
  <2> QED
    BY <1>1, <1>2, <1>4, <2>1, <2>2 DEF InWindow, Flushing, Putters
<1>5. CASE x \in Threads
  <2>1. x # Pageout
    BY <1>5, DataTypes
  <2>2. pc' = [pc EXCEPT ![x] = "flush"] /\ op' = [op EXCEPT ![x].err = @ \/ ~ok]
    BY <2>1 DEF Finish, Goto
  <2>3. \A t \in Threads : op[t] \in Operations /\ op[t].err \in BOOLEAN
    BY DataTypes DEF Operations
  <2>4. \A t \in Threads : t # x => pc'[t] = pc[t] /\ op'[t] = op[t]
    BY <1>5, <2>2, DataTypes
  <2>5. /\ pc'[x] = "flush" /\ op'[x] = [op[x] EXCEPT !.err = @ \/ ~ok]
    BY <1>5, <2>2, DataTypes
  <2>6. op'[x].todo = op[x].todo /\ op'[x].err = (op[x].err \/ ~ok)
    BY <1>5, <2>3, <2>5 DEF Operations
  <2>7. \A t \in Threads : op'[t].todo = op[t].todo /\ op'[t].err = (op[t].err \/ (t = x /\ ~ok))
    BY <2>3, <2>4, <2>6
  <2>8. \A t \in Threads : Flushing(t)' = Flushing(t)
    BY <1>3, <1>5, <2>4, <2>5 DEF Flushing
  <2>9. \A p : InWindow(p)' = InWindow(p)
    BY <1>3, <1>5, <2>4, <2>5 DEF InWindow
  <2>10. \A t \in Threads : pc[t] \notin {"verify", "write", "size"}
    BY <1>3, <1>5
  <2> QED
    BY <1>1, <1>2, <1>3, <1>5, <2>4, <2>5, <2>7, <2>8, <2>9, <2>10
<1> QED
  BY <1>4, <1>5 DEF Putters

\* The kernel's part of what a put leaves behind.
LEMMA FinishLocal ==
  ASSUME Types, Local, NEW x \in Putters, NEW ok \in BOOLEAN, Finish(x, ok), put[x].step = "send"
  PROVE  Local'
<1> DEFINE gone == IF ok THEN put[x].pages \ Dirty ELSE {}
<1>1. /\ Present' = Present \ gone /\ Pending' = Pending \ gone
      /\ Dirty' = IF ok THEN Dirty ELSE Dirty \cup put[x].pages
      /\ \A u \in Units : PageOf(u) \notin gone => vnode'.val[u] = vnode.val[u]
      /\ vnode'.fsize = vnode.fsize /\ vnode'.mtime = vnode.mtime
  BY FinishPages
<1>2. gone \subseteq put[x].pages \ Dirty /\ (ok => gone = put[x].pages \ Dirty)
  OBVIOUS
<1> HIDE DEF gone
<1>3. /\ UNCHANGED <<i_dlock, want, foreign>>
      /\ put'[x] = NoRun /\ \A y \in Putters : y # x => put'[y] = put[y]
      /\ x \in Threads => pc[x] = "put" /\ pc'[x] = "flush"
      /\ \A t \in Threads : /\ t # x => pc'[t] = pc[t] /\ op'[t] = op[t]
                            /\ op'[t].todo = op[t].todo
                            /\ Flushing(t)' = Flushing(t)
                            /\ op'[t].err = (op[t].err \/ (t = x /\ ~ok))
  BY FinishThreads
<1>4. \A t \in Threads : t \in Putters
  BY DataTypes
<1>5. Alone'
  BY <1>3, <1>4 DEF Local, Alone
<1>6. Apart'
  <2>1. put'[x].pages = {} /\ put'[x].step = "none"
    BY <1>3 DEF NoRun
  <2>2. \A y \in Putters : y # x => put[y].pages \cap put[x].pages = {}
    BY DEF Local, Apart
  <2>3. ASSUME NEW y \in Putters
        PROVE  /\ put'[y].pages \subseteq Present'
               /\ put'[y].step # "none" => Covers(put[y])'
               /\ put'[y].step \in {"length", "send"} => put'[y].off =< put'[y].from
    <3>1. CASE y = x
      BY <2>1, <3>1
    <3>2. CASE y # x
      <4>1. put'[y] = put[y]
        BY <1>3, <3>2
      <4>2. Covers(put[y])' = Covers(put[y])
        BY <4>1 DEF Covers
      <4> QED
        BY <1>1, <1>2, <2>2, <3>2, <4>1, <4>2 DEF Local, Apart
    <3> QED
      BY <3>1, <3>2
  <2>4. \A y, z \in Putters : y # z => put'[y].pages \cap put'[z].pages = {}
    BY <1>3, <2>1 DEF Local, Apart
  <2>5. ASSUME NEW t \in Threads
        PROVE  put'[t].pages \cap Dirty' = {}
    <3>1. CASE t = x
      BY <2>1, <3>1
    <3>2. CASE t # x
      BY <1>1, <1>3, <1>4, <2>2, <3>2 DEF Local, Apart
    <3> QED
      BY <3>1, <3>2
  <2> QED
    BY <2>3, <2>4, <2>5 DEF Apart
<1>7. Writing'
  <2>1. ASSUME NEW t \in Threads, pc'[t] \in {"write", "size"}
        PROVE  pc'[t] = pc[t] /\ op'[t] = op[t] /\ EndOf(t)' = EndOf(t)
    <3>1. t # x
      BY <1>3, <2>1
    <3> QED
      BY <1>3, <3>1 DEF EndOf, PartLen
  <2>2. Beyond(vnode.fsize)' = Beyond(vnode.fsize) /\ \A u \in Units : Wanted(u)' = Wanted(u)
    BY <1>1, <1>3 DEF Beyond, Wanted
  <2>3. Dirty \subseteq Dirty'
    BY <1>1
  <2> QED
    BY <1>1, <1>3, <2>1, <2>2, <2>3 DEF Local, Writing
<1>8. Coherent'
  <2>1. ASSUME NEW p, Current(p)'
        PROVE  Current(p)
    BY <1>1, <1>3, <2>1 DEF Current
  <2>2. ASSUME NEW u \in Units, (Wanted(u) /\ PageOf(u) \in Present /\ Current(PageOf(u)))'
        PROVE  (vnode.val[u] = want[u])'
    <3>1. Wanted(u) /\ PageOf(u) \in Present /\ PageOf(u) \notin gone /\ Current(PageOf(u))
      BY <1>1, <1>3, <2>1, <2>2 DEF Wanted
    <3>2. vnode.val[u] = want[u]
      BY <3>1 DEF Local, Coherent
    <3> QED
      BY <1>1, <1>3, <3>1, <3>2
  <2> QED
    BY <2>2 DEF Coherent
<1>9. Flushed'
  <2>1. ASSUME NEW t \in Threads, Flushing(t)', ~op'[t].err
        PROVE  Present' \subseteq op'[t].todo \cup put'[t].pages
    <3>1. Flushing(t) /\ ~op[t].err /\ op'[t].todo = op[t].todo /\ (t = x => ok)
      BY <1>3, <2>1
    <3>2. Present \subseteq op[t].todo \cup put[t].pages
      BY <3>1 DEF Local, Flushed
    <3>3. CASE t # x
      BY <1>1, <1>3, <1>4, <3>1, <3>2, <3>3
    <3>4. CASE t = x
      <4>1. put[x].pages \cap Dirty = {}
        BY <3>4 DEF Local, Apart
      <4> QED
        BY <1>1, <1>2, <3>1, <3>2, <3>4, <4>1
    <3> QED
      BY <3>3, <3>4
  <2> QED
    BY <2>1 DEF Flushed
<1> QED
  BY <1>5, <1>6, <1>7, <1>8, <1>9 DEF Local

\* What is safe stays so, unless its page goes.
LEMMA FinishSafe ==
  ASSUME Types, Local, NEW x \in Putters, NEW ok \in BOOLEAN, Finish(x, ok), put[x].step = "send",
         NEW u \in Units, Safe(u), ok => PageOf(u) \notin put[x].pages \ Dirty
  PROVE  Safe(u)'
<1> DEFINE gone == IF ok THEN put[x].pages \ Dirty ELSE {}
<1>1. /\ Pending' = Pending \ gone /\ Dirty \subseteq Dirty'
      /\ PageOf(u) \notin gone => vnode'.val[u] = vnode.val[u]
      /\ vnode'.fsize = vnode.fsize
  BY FinishPages
<1>2. PageOf(u) \notin gone
  OBVIOUS
<1> HIDE DEF gone
<1>3. /\ want' = want /\ InWindow(PageOf(u))' = InWindow(PageOf(u))
      /\ put'[x] = NoRun /\ \A y \in Putters : y # x => put'[y] = put[y]
  BY FinishThreads
<1>4. Kept(u)'
  BY <1>1, <1>2, <1>3 DEF Safe, Kept
<1>5. Due(u)'
  <2>1. put'[x].step = "none"
    BY <1>3 DEF NoRun
  <2>2. ASSUME NEW y \in Putters, (put[y].step = "send" /\ PageOf(u) \in put[y].pages \ Dirty)'
        PROVE  (u \in Extent(put[y]))'
    <3>1. put'[y] = put[y]
      BY <1>3, <2>1, <2>2
    <3>2. u \in Extent(put[y])
      BY <1>1, <2>2, <3>1 DEF Safe, Due
    <3> QED
      BY <3>1, <3>2 DEF Extent
  <2> QED
    BY <2>2 DEF Due
<1> QED
  BY <1>4, <1>5 DEF Safe

\* A put that ends keeps what remains of the server's share.
LEMMA FinishStays ==
  ASSUME Types, Remote, Local, NEW x \in Putters, NEW ok \in BOOLEAN, Finish(x, ok),
         put[x].step = "send", link' = link, now' = now,
         link # NoFile => File'.size \in Nat /\ File'.size >= File.size
                          /\ File'.mtime \in {File.mtime, now}
  PROVE  Named' /\ Dated' /\ Verifying'
<1>1. /\ vnode'.known = vnode.known /\ vnode'.fsize = vnode.fsize /\ Pending' \subseteq Pending
  BY FinishPages
<1>2. foreign' = foreign /\ \A t \in Threads : pc'[t] = "verify" => pc[t] = "verify"
  BY FinishThreads
<1>3. now \in Nat /\ now' \in Nat /\ now' >= now
  BY DataTypes
<1>4. link # NoFile => File.size \in Nat
  BY DataTypes DEF FileRecords
<1> QED
  BY <1>1, <1>2, <1>3, <1>4, FileStays

\* A write request that is answered.
LEMMA WriteKeeps ==
  ASSUME Careful, DataInv, NEW x \in Putters, NEW d \in Daemons, Ready(d), held' = held,
         put[x].step = "send", put[x].len > 0,
         process_write_request(d, put[x].off, DataOf(put[x])), Finish(x, TRUE)
  PROVE  Remote'
<1>1. Types /\ Remote /\ Local
  BY DEF DataInv
<1>2. put[x] \in Runs /\ put[x].off \in Nat /\ put[x].len \in Nat /\ put[x].len # 0
  BY <1>1, DataTypes DEF Runs
<1>3. DataOf(put[x]) \in Seq(Values) /\ Len(DataOf(put[x])) = put[x].len
  BY <1>1, <1>2, DataTypes, DataTyped
<1>4. link # NoFile
  BY <1>1, Known DEF Types, Remote, Named
<1>5. /\ link' = link /\ now' = now /\ File.size \in Nat /\ File'.size \in Nat
      /\ File'.size >= File.size /\ File'.mtime = now
      /\ \A u \in Units :
           IF u \in Extent(put[x])
           THEN u < File'.size /\ File'.val[u] = DataOf(put[x])[u - put[x].off + 1]
           ELSE File'.val[u] = File.val[u]
  <2> DEFINE off == put[x].off
             data == DataOf(put[x])
  <2>1. off \in Nat /\ data \in Seq(Values) /\ process_write_request(d, off, data)
        /\ Extent(put[x]) = off .. off + Len(data) - 1
    BY <1>2, <1>3 DEF Extent
  <2> HIDE DEF off, data
  <2>2. /\ link' = link /\ now' = now /\ File.size \in Nat /\ File'.size \in Nat
        /\ File'.size >= File.size /\ File'.mtime = now
        /\ \A u \in Units :
             IF u \in off .. off + Len(data) - 1
             THEN u < File'.size /\ File'.val[u] = data[u - off + 1]
             ELSE File'.val[u] = File.val[u]
    BY <1>1, <1>4, <2>1, WriteReaches
  <2> QED
    BY <2>1, <2>2 DEF off, data
<1>6. want' = want
  BY <1>1, FinishThreads
<1>7. ASSUME NEW u \in Units, Wanted(u)'
      PROVE  (OnServer(u) \/ Safe(u))'
  <2>1. Wanted(u)
    BY <1>6, <1>7 DEF Wanted
  <2>2. CASE u \in Extent(put[x])
    <3>1. DataOf(put[x])[u - put[x].off + 1] = want[u]
      BY <1>1, <1>2, <2>1, <2>2, SentIsWanted
    <3> QED
      BY <1>4, <1>5, <1>6, <2>2, <3>1 DEF OnServer
  <2>3. CASE u \notin Extent(put[x]) /\ OnServer(u)
    <3>1. u < File'.size
      BY <1>5, <2>3 DEF OnServer, Units
    <3> QED
      BY <1>5, <1>6, <2>3, <3>1 DEF OnServer
  <2>4. CASE u \notin Extent(put[x]) /\ Safe(u)
    <3>1. PageOf(u) \notin put[x].pages \ Dirty
      BY <2>4 DEF Safe, Due
    <3> QED
      BY <1>1, <2>4, <3>1, FinishSafe
  <2> QED
    BY <1>1, <2>1, <2>2, <2>3, <2>4 DEF Remote, Stored
<1>8. \A e \in Daemons : Ready(e)
  BY <1>1, NoneHeld DEF Remote
<1>9. \A e \in Daemons : HeldUnits(e)' = {} /\ Ready(e)'
  BY <1>8, HeldNothing DEF HeldUnits, Ready
<1>10. Named' /\ Dated' /\ Verifying'
  BY <1>1, <1>5, FinishStays
<1> QED
  BY <1>7, <1>9, <1>10 DEF Remote, Stored, Harmless, Answered

\* A put that ends without the server.
LEMMA NoWriteKeeps ==
  ASSUME DataInv, NEW x \in Putters, NEW ok \in BOOLEAN, Finish(x, ok), put[x].step = "send",
         UNCHANGED <<inode, link, now, held>>,
         ok => Extent(put[x]) = {}
  PROVE  Remote'
<1>1. Types /\ Remote /\ Local
  BY DEF DataInv
<1>2. want' = want
  BY <1>1, FinishThreads
<1>3. ASSUME NEW u \in Units, Safe(u)
      PROVE  Safe(u)'
  <2>1. ok => PageOf(u) \notin put[x].pages \ Dirty
    BY <1>3 DEF Safe, Due
  <2> QED
    BY <1>1, <1>3, <2>1, FinishSafe
<1>4. \A u \in Units : Wanted(u)' = Wanted(u)
  BY <1>2 DEF Wanted
<1>5. Stored' /\ Harmless' /\ Answered'
  BY <1>1, <1>2, <1>3, <1>4, SafeIsEnough DEF Remote
<1>6. link # NoFile => File.size \in Nat /\ File' = File
  BY <1>1, DataTypes DEF File, FileRecords
<1>7. Named' /\ Dated' /\ Verifying'
  <2>1. link # NoFile => File'.size \in Nat /\ File'.size >= File.size
    BY <1>6
  <2> QED
    BY <1>1, <1>6, <2>1, FinishStays
<1> QED
  BY <1>5, <1>7 DEF Remote

\* A write request, and a put of which nothing is left to send.
LEMMA PutKeeps ==
  ASSUME Careful, DataInv, NEW x \in Putters,
         iumfs_request_write(x) \/ (x = Pageout /\ PageoutNothing)
  PROVE  Remote' /\ Local'
<1>1. Types /\ Remote /\ Local
  BY DEF DataInv
<1>2. ASSUME NEW ok \in BOOLEAN, Finish(x, ok), put[x].step = "send", Remote'
      PROVE  Remote' /\ Local'
  BY <1>1, <1>2, FinishLocal
<1>3. CASE iumfs_request_write(x)
  <2>1. put[x].step = "send" /\ put[x].len > 0
    BY <1>3 DEF iumfs_request_write
  <2>2. ASSUME NEW d \in Daemons, Ready(d), held' = held,
               process_write_request(d, put[x].off, DataOf(put[x])), Finish(x, TRUE)
        PROVE  Remote' /\ Local'
    BY <1>2, <2>1, <2>2, WriteKeeps
  <2>3. CASE UNCHANGED <<inode, link, now, held>> /\ Finish(x, FALSE)
    BY <1>2, <2>1, <2>3, NoWriteKeeps
  <2>4. CASE Interrupted /\ Withheld(x) /\ Finish(x, FALSE)
    <3>1. want' = want
      BY <1>1, <2>1, <2>4, FinishThreads
    <3>2. \A u \in Units : Safe(u) => Safe(u)'
      BY <1>1, <2>1, <2>4, FinishSafe
    <3>3. Stored' /\ Harmless' /\ Answered'
      BY <2>1, <2>4, <3>1, <3>2, WithheldIsWanted DEF Interrupted
    <3>4. UNCHANGED <<inode, link, now>>
      BY <2>4 DEF Withheld
    <3>5. link # NoFile => File.size \in Nat /\ File' = File
      BY <1>1, <3>4, DataTypes DEF File, FileRecords
    <3>6. link # NoFile => File'.size \in Nat /\ File'.size >= File.size
      BY <3>5
    <3>7. Named' /\ Dated' /\ Verifying'
      BY <1>1, <2>1, <2>4, <3>4, <3>5, <3>6, FinishStays
    <3> QED
      BY <1>2, <2>1, <2>4, <3>3, <3>7 DEF Remote
  <2> QED
    BY <1>3, <2>2, <2>3, <2>4 DEF iumfs_request_write, server
<1>4. CASE x = Pageout /\ PageoutNothing
  <2>1. put[x].step = "send" /\ put[x].len = 0 /\ Finish(x, TRUE) /\ UNCHANGED server
    BY <1>4 DEF PageoutNothing
  <2>2. Extent(put[x]) = {}
    BY <1>1, <2>1, DataTypes DEF Extent, Runs
  <2> QED
    BY <1>2, <2>1, <2>2, NoWriteKeeps DEF server
<1> QED
  BY <1>3, <1>4

-----------------------------------------------------------------------------
(***************************************************************************)
(* A put begins.                                                           *)
(***************************************************************************)
\* A page begins and ends where it should.
LEMMA PageBounds ==
  ASSUME NEW u \in Nat
  PROVE  /\ PageOf(u) \in Nat
         /\ PageSize * PageOf(u) =< u /\ u < PageSize * (PageOf(u) + 1)
  BY DataAssumption DEF PageOf

\* Multiples of the size of a page are in the order of their pages.
LEMMA TimesPageSize ==
  ASSUME NEW m \in Nat, NEW n \in Nat
  PROVE  /\ PageSize * m \in Nat
         /\ m =< n => PageSize * m =< PageSize * n
         /\ m < n => PageSize * m + PageSize =< PageSize * n
<1>1. PageSize \in Nat \ {0}
  BY DataAssumption
<1>2. ASSUME NEW k \in Nat, NEW i \in Nat
      PROVE  PageSize * (k + i) = PageSize * k + PageSize * i
             /\ PageSize * i \in Nat /\ PageSize * k \in Nat /\ PageSize * (k + i) \in Nat
  BY <1>1
<1>3. ASSUME m =< n
      PROVE  PageSize * m =< PageSize * n
  <2>1. PICK i \in Nat : n = m + i
    <3>1. n - m \in Nat /\ n = m + (n - m)
      BY <1>3
    <3> QED
      BY <3>1
  <2>2. PageSize * n = PageSize * m + PageSize * i /\ PageSize * i \in Nat /\ PageSize * m \in Nat
    BY <1>2, <2>1
  <2> QED
    BY <2>2
<1>4. ASSUME m < n
      PROVE  PageSize * m + PageSize =< PageSize * n
  <2>1. PICK i \in Nat : n = (m + 1) + i
    <3>1. n - m - 1 \in Nat /\ n = (m + 1) + (n - m - 1)
      BY <1>4
    <3> QED
      BY <3>1
  <2>2. PageSize * n = PageSize * (m + 1) + PageSize * i /\ PageSize * i \in Nat
    BY <1>2, <2>1
  <2>3. PageSize * (m + 1) = PageSize * m + PageSize * 1 /\ PageSize * m \in Nat
    BY <1>2
  <2>4. PageSize * 1 = PageSize
    BY <1>1
  <2> QED
    BY <1>1, <2>2, <2>3, <2>4
<1>5. PageSize * m \in Nat
  BY <1>1
<1> QED
  BY <1>3, <1>4, <1>5

\* A unit is in an interval of pages if it lies between its ends.
LEMMA UnitInPages ==
  ASSUME NEW u \in Nat, NEW a \in Nat, NEW b \in Nat, a =< b
  PROVE  PageOf(u) \in a .. b <=> u \in a * PageSize .. a * PageSize + (b - a + 1) * PageSize - 1
<1> DEFINE p == PageOf(u)
           at == PageSize * p
           lo == PageSize * a
           hi == PageSize * (b + 1)
           from == a * PageSize
           len == (b - a + 1) * PageSize
<1>1. PageSize \in Nat \ {0} /\ p \in Nat /\ b - a + 1 \in Nat
  BY DataAssumption, PageBounds
<1>2. from = lo /\ from + len = hi /\ from \in Nat /\ len \in Int
  BY <1>1
<1>3. at =< u /\ u < at + PageSize /\ at \in Nat
  <2>1. PageSize * (p + 1) = at + PageSize
    BY <1>1
  <2> QED
    BY <1>1, <2>1, PageBounds, TimesPageSize
<1>4. /\ lo \in Nat /\ hi \in Nat
      /\ a =< p => lo =< at
      /\ p < a => at + PageSize =< lo
      /\ p < b + 1 => at + PageSize =< hi
      /\ b + 1 =< p => hi =< at
  BY <1>1, TimesPageSize
<1> HIDE DEF p, at, lo, hi, from, len
<1>5. p \in a .. b <=> u \in lo .. hi - 1
  BY <1>1, <1>3, <1>4
<1>6. PageOf(u) \in a .. b <=> u \in lo .. hi - 1
  BY <1>5 DEF p
<1>7. PageOf(u) \in a .. b <=> u \in from .. from + len - 1
  BY <1>2, <1>4, <1>6
<1> QED
  BY <1>7 DEF from, len

\* The dirty pages that pvn_write_kluster collects follow one another.
LEMMA KlusterIsAnInterval ==
  ASSUME NEW p \in Dirty \ Busy
  PROVE  \E a, b \in Pages : a =< b /\ Kluster(p) = a .. b
<1> DEFINE K == Kluster(p)
<1>1. p \in Pages /\ Pages \in SUBSET Nat /\ p \in K /\ K \subseteq Pages
  <2>1. p \in Pages /\ Pages \in SUBSET Nat
    BY PagesFinite DEF Dirty
  <2>2. \A r \in Pages : r \in p .. p => r = p
    BY <2>1
  <2> QED
    BY <2>1, <2>2 DEF Kluster, Dirty
<1>2. PICK a \in K : \A q \in K : a =< q
  <2>1. PICK a \in K : \A q \in K : <<q, a>> \notin OpToRel(<, Nat)
    <3>1. K \subseteq Nat /\ K # {}
      BY <1>1
    <3> HIDE DEF K
    <3> QED
      BY <3>1, NatLessThanWellFounded, WFMin, Zenon
  <2>2. ASSUME NEW q \in K
        PROVE  ~(q < a)
    BY <1>1, <2>1, <2>2, Zenon DEF OpToRel
  <2>3. ASSUME NEW q \in K
        PROVE  a =< q
    <3>1. q \in Nat /\ a \in Nat
      BY <1>1
    <3> QED
      BY <2>2, <3>1
  <2> QED
    BY <2>3
<1>3. PICK N \in Nat : Pages = 0 .. N
  <2>1. (MaxSize - 1) \div PageSize \in Nat
    BY DataAssumption, ServerAssumption
  <2> QED
    BY <2>1 DEF Pages
<1>4. PICK b \in K : \A q \in K : q =< b
  <2> DEFINE S == {N - q : q \in K}
  <2>1. S \subseteq Nat /\ S # {}
    BY <1>1, <1>3
  <2>2. PICK m \in S : \A n \in S : <<n, m>> \notin OpToRel(<, Nat)
    <3> HIDE DEF S
    <3> QED
      BY <2>1, NatLessThanWellFounded, WFMin, Zenon
  <2>3. ASSUME NEW n \in S
        PROVE  ~(n < m)
    <3> HIDE DEF S
    <3>1. n \in Nat /\ m \in Nat
      BY <2>1
    <3> QED
      BY <3>1, <2>2, <2>3, Zenon DEF OpToRel
  <2>4. PICK b \in K : m = N - b
    <3>1. m \in S
      BY <2>2, Zenon
    <3> QED
      BY ONLY <3>1
  <2>5. ASSUME NEW q \in K
        PROVE  q =< b
    <3>1. N - q \in S
      OBVIOUS
    <3>2. ~(N - q < N - b)
      BY <2>3, <2>4, <3>1
    <3>3. q \in Nat /\ b \in Nat
      BY <1>1
    <3> QED
      BY <3>2, <3>3
  <2> QED
    BY <2>5
<1>5. a \in Nat /\ b \in Nat /\ a =< p /\ p =< b /\ a =< b /\ a \in Pages /\ b \in Pages /\ p \in Nat
  BY <1>1, <1>2, <1>4
<1>6. ASSUME NEW r \in a .. b
      PROVE  r \in K
  <2>1. r \in Pages /\ r \in Nat
    BY <1>3, <1>5
  <2>2. r \in a .. p \/ r \in p .. b
    BY <1>5, <2>1
  <2>3. \A s \in Pages : s \in a .. p \/ s \in p .. b => s \in Dirty \ Busy
    <3>1. \A s \in Pages : s \in a .. p => s \in Dirty \ Busy
      BY <1>2 DEF Kluster
    <3>2. \A s \in Pages : s \in p .. b => s \in Dirty \ Busy
      BY <1>4 DEF Kluster
    <3> QED
      BY <3>1, <3>2
  <2>4. \A s \in Pages : s \in p .. r \/ s \in r .. p => s \in a .. p \/ s \in p .. b
    BY <1>1, <1>5, <2>1
  <2> QED
    BY <2>1, <2>2, <2>3, <2>4 DEF Kluster
<1>7. ASSUME NEW r \in K
      PROVE  r \in a .. b
  BY <1>1, <1>2, <1>4, <1>5
<1>8. K = a .. b
  BY <1>6, <1>7
<1> HIDE DEF K
<1> QED
  BY <1>5, <1>8 DEF K

\* A run is where its pages are.
LEMMA KlusterCovers ==
  ASSUME TypeOK, NEW p \in Dirty \ Busy
  PROVE  Covers(Run(Kluster(p)))
<1>1. PICK a \in Pages : \E b \in Pages : a =< b /\ Kluster(p) = a .. b
  BY KlusterIsAnInterval
<1>2. PICK b \in Pages : a =< b /\ Kluster(p) = a .. b
  BY <1>1
<1>3. a \in Nat /\ b \in Nat
  BY PagesFinite
<1>4. Min(a .. b) = a
  <2>1. a \in a .. b /\ \A x \in a .. b : a =< x
    BY <1>2, <1>3
  <2>2. \A y \in a .. b : (\A x \in a .. b : y =< x) => y = a
    BY <1>2, <1>3
  <2> QED
    BY <2>1, <2>2 DEF Min
<1>5. Cardinality(a .. b) = b - a + 1
  BY <1>2, <1>3, FS_Interval
<1>6. Run(a .. b).pages = a .. b /\ Run(a .. b).from = a * PageSize
  BY <1>4 DEF Run
<1>7. \A u \in Units : u \in Nat
  BY ServerAssumption DEF Units
<1> QED
  BY <1>2, <1>3, <1>5, <1>6, <1>7, UnitInPages DEF Covers

\* Pages go that nobody is putting and that keep nothing.
LEMMA DropKeeps ==
  ASSUME Types, Remote, Local, NEW ps \in SUBSET Pages, vnode' = Without(ps), ps \cap Busy = {},
         UNCHANGED <<inode, link, now, held, i_dlock, pc, put, want, foreign>>,
         \A u \in Units : PageOf(u) \in ps => ~Kept(u),
         \A q \in ps : ~InWindow(q),
         \A t \in Threads : /\ op'[t].off = op[t].off /\ op'[t].len = op[t].len
                            /\ op'[t].err = op[t].err
                            /\ op'[t].todo \subseteq op[t].todo /\ op[t].todo \ op'[t].todo \subseteq ps
  PROVE  Remote' /\ Local'
<1>1. /\ Dirty' = Dirty \ ps /\ Present' = Present \ ps
      /\ \A u \in Units : PageOf(u) \notin ps => vnode'.val[u] = vnode.val[u]
      /\ vnode'.fsize = vnode.fsize /\ vnode'.mtime = vnode.mtime /\ vnode'.known = vnode.known
  BY WithoutPages
<1>2. Busy' = Busy /\ Pending' = Pending \ ps
  <2>1. Busy' = Busy
    BY DEF Busy
  <2> QED
    BY <1>1, <2>1 DEF Pending
<1>3. \A x \in Putters : put[x].pages \cap ps = {}
  BY BusyPages
<1>4. \A q : InWindow(q)' = InWindow(q)
  BY DEF InWindow
<1>5. ASSUME NEW u \in Units, Safe(u)
      PROVE  Safe(u)'
  <2>1. PageOf(u) \notin ps
    BY <1>5 DEF Safe
  <2>2. Kept(u)'
    BY <1>1, <1>2, <1>4, <1>5, <2>1 DEF Safe, Kept
  <2>3. Due(u)'
    BY <1>1, <1>3, <1>5 DEF Safe, Due, Extent
  <2> QED
    BY <2>2, <2>3 DEF Safe
<1>6. \A u \in Units : Wanted(u)' = Wanted(u)
  BY DEF Wanted
<1>7. Stored' /\ Harmless' /\ Answered'
  BY <1>5, <1>6, SafeIsEnough DEF Remote
<1>8. Named' /\ Dated' /\ Verifying'
  <2>1. link # NoFile => File.size \in Nat /\ File' = File
    BY DataTypes DEF File, FileRecords
  <2>2. link # NoFile => File'.size \in Nat /\ File'.size >= File.size
    BY <2>1
  <2>3. now \in Nat /\ now' >= now
    BY DataTypes
  <2> QED
    BY <1>1, <1>2, <2>1, <2>2, <2>3, FileStays
<1>9. Alone'
  BY DEF Local, Alone
<1>10. Apart'
  <2>1. \A x \in Putters : put'[x].pages \subseteq Present'
    BY <1>1, <1>3 DEF Local, Apart
  <2>2. \A x \in Putters : Covers(put[x])' = Covers(put[x])
    BY DEF Covers
  <2> QED
    BY <1>1, <2>1, <2>2 DEF Local, Apart
<1>11. Writing'
  <2>1. \A t \in Threads : EndOf(t)' = EndOf(t)
    BY DEF EndOf, PartLen
  <2>2. Beyond(vnode.fsize)' = Beyond(vnode.fsize)
    BY <1>1 DEF Beyond, Wanted
  <2>3. \A t \in Threads : pc[t] = "size" => PageOf(op[t].off) \in Dirty'
    BY <1>1 DEF Local, Writing, InWindow
  <2> QED
    BY <1>1, <1>6, <2>1, <2>2, <2>3 DEF Local, Writing
<1>12. Coherent'
  <2>1. ASSUME NEW p \in Present', Current(p)'
        PROVE  Current(p)
    BY <1>1, <1>2, <2>1 DEF Current, Flushing
  <2>2. ASSUME NEW u \in Units, (Wanted(u) /\ PageOf(u) \in Present /\ Current(PageOf(u)))'
        PROVE  (vnode.val[u] = want[u])'
    <3>1. Wanted(u) /\ PageOf(u) \in Present /\ PageOf(u) \notin ps /\ Current(PageOf(u))
      BY <1>1, <1>6, <2>1, <2>2
    <3> QED
      BY <1>1, <3>1 DEF Local, Coherent
  <2> QED
    BY <2>2 DEF Coherent
<1>13. Flushed'
  BY <1>1 DEF Local, Flushed, Flushing
<1> QED
  BY <1>7, <1>8, <1>9, <1>10, <1>11, <1>12, <1>13 DEF Remote, Local

\* A run begins that leaves nothing out.
LEMMA RunKeeps ==
  ASSUME Types, Remote, Local, NEW x \in Putters, NEW r, put[x] = NoRun,
         put' = [put EXCEPT ![x] = r], vnode' = Marked(r.pages, "clean"),
         UNCHANGED <<inode, link, now, held, i_dlock, want, foreign>>,
         r.pages \subseteq Dirty \ Busy, Covers(r), r.step \in {"over", "send"},
         r.step = "send" => /\ r.off =< r.from
                            /\ \A u \in Units : Kept(u) /\ PageOf(u) \in r.pages => u \in Extent(r),
         \A q \in r.pages : ~InWindow(q),
         \A t \in Threads : IF t = x THEN pc[t] = "flush" /\ pc'[t] = "put"
                            ELSE pc'[t] = pc[t] /\ op'[t] = op[t],
         \A t \in Threads : /\ op'[t].err = op[t].err
                            /\ op'[t].todo \subseteq op[t].todo
                            /\ op[t].todo \ op'[t].todo \subseteq r.pages
  PROVE  Remote' /\ Local'
<1> DEFINE ps == r.pages
<1>1. ps \in SUBSET Pages /\ ps \subseteq Present /\ ps \subseteq Dirty
  BY DEF Dirty, Present
<1>2. /\ Dirty' = Dirty \ ps /\ Present' = Present
      /\ vnode'.val = vnode.val
      /\ vnode'.fsize = vnode.fsize /\ vnode'.mtime = vnode.mtime /\ vnode'.known = vnode.known
  <2>1. /\ Dirty' = Dirty \ ps /\ Present' = Present \cup ps
        /\ vnode'.val = vnode.val /\ vnode'.fsize = vnode.fsize
        /\ vnode'.mtime = vnode.mtime /\ vnode'.known = vnode.known
    <3> HIDE DEF ps
    <3>1. vnode' = Marked(ps, "clean")
      BY DEF ps
    <3> QED
      BY <1>1, <3>1, MarkedClean
  <2> QED
    BY <1>1, <2>1
<1>3. put'[x] = r /\ \A y \in Putters : y # x => put'[y] = put[y]
  BY DataTypes
<1>4. \A q : q \in Busy' <=> q \in Busy \/ q \in ps
  <2>1. \A q : q \in Busy' <=> \E y \in Putters : q \in put'[y].pages
    BY DEF Busy
  <2>2. put[x].pages = {}
    BY DEF NoRun
  <2> QED
    BY <1>3, <2>1, <2>2, BusyPages
<1>5. Pending' = Pending
  BY <1>1, <1>2, <1>4 DEF Pending
<1>6. \A y \in Putters : put[y].pages \cap ps = {}
  BY BusyPages
<1>7. \A q : InWindow(q)' = InWindow(q)
  BY DEF InWindow
<1>8. ASSUME NEW u \in Units, Safe(u)
      PROVE  Safe(u)'
  <2>1. Kept(u) /\ Kept(u)'
    BY <1>2, <1>5, <1>7, <1>8 DEF Safe, Kept
  <2>2. ASSUME NEW y \in Putters, (put[y].step = "send" /\ PageOf(u) \in put[y].pages \ Dirty)'
        PROVE  (u \in Extent(put[y]))'
    <3>1. CASE y = x
      BY <1>3, <2>1, <2>2, <3>1 DEF Extent
    <3>2. CASE y # x
      BY <1>2, <1>3, <1>6, <1>8, <2>2, <3>2 DEF Safe, Due, Extent
    <3> QED
      BY <3>1, <3>2
  <2> QED
    BY <2>1, <2>2 DEF Safe, Due
<1>9. \A u \in Units : Wanted(u)' = Wanted(u)
  BY DEF Wanted
<1>10. Stored' /\ Harmless' /\ Answered'
  BY <1>8, <1>9, SafeIsEnough DEF Remote
<1>11. Named' /\ Dated' /\ Verifying'
  <2>1. link # NoFile => File.size \in Nat /\ File' = File
    BY DataTypes DEF File, FileRecords
  <2>2. link # NoFile => File'.size \in Nat /\ File'.size >= File.size
    BY <2>1
  <2>3. now \in Nat /\ now' >= now
    BY DataTypes
  <2>4. \A t \in Threads : pc'[t] = "verify" => pc[t] = "verify"
    OBVIOUS
  <2> QED
    BY <1>2, <1>5, <2>1, <2>2, <2>3, <2>4, FileStays
<1>12. Alone'
  BY <1>3, DataTypes DEF Local, Alone
<1>13. Apart'
  <2>1. ASSUME NEW y \in Putters
        PROVE  /\ put'[y].pages \subseteq Present' /\ (put'[y].step # "none" => Covers(put[y])')
               /\ (put'[y].step \in {"length", "send"} => put'[y].off =< put'[y].from)
    <3>1. Covers(put[y])' = Covers(put'[y])
      BY DEF Covers
    <3>2. CASE y = x
      BY <1>1, <1>2, <1>3, <3>1, <3>2
    <3>3. CASE y # x
      BY <1>2, <1>3, <3>1, <3>3 DEF Local, Apart
    <3> QED
      BY <3>2, <3>3
  <2>2. \A y, z \in Putters : y # z => put'[y].pages \cap put'[z].pages = {}
    BY <1>3, <1>6 DEF Local, Apart
  <2>3. \A t \in Threads : put'[t].pages \cap Dirty' = {}
    BY <1>2, <1>3, DataTypes DEF Local, Apart
  <2> QED
    BY <2>1, <2>2, <2>3 DEF Apart
<1>14. Writing'
  <2>1. ASSUME NEW t \in Threads, pc'[t] \in {"write", "size"}
        PROVE  pc'[t] = pc[t] /\ op'[t] = op[t] /\ EndOf(t)' = EndOf(t)
    BY <2>1 DEF EndOf, PartLen
  <2>2. Beyond(vnode.fsize)' = Beyond(vnode.fsize)
    BY <1>2 DEF Beyond, Wanted
  <2>3. \A t \in Threads : pc'[t] = "size" => PageOf(op[t].off) \in Dirty'
    BY <1>2, <2>1 DEF Local, Writing, InWindow
  <2> QED
    BY <1>2, <1>9, <2>1, <2>2, <2>3 DEF Local, Writing
<1>15. Coherent'
  <2>1. ASSUME NEW p \in Present', Current(p)'
        PROVE  Current(p)
    <3>1. CASE p \in Pending
      BY <3>1 DEF Current
    <3>2. CASE p \notin Pending
      <4>1. vnode.mtime >= foreign /\ p \notin ps
        BY <1>1, <1>2, <1>5, <2>1, <3>2 DEF Current, Pending
      <4>2. \A t \in Threads : Flushing(t)' = Flushing(t)
        BY DEF Flushing
      <4> QED
        BY <1>5, <2>1, <3>2, <4>1, <4>2 DEF Current
    <3> QED
      BY <3>1, <3>2
  <2> QED
    BY <1>2, <1>9, <2>1 DEF Local, Coherent
<1>16. Flushed'
  <2>1. ASSUME NEW t \in Threads, Flushing(t)', ~op'[t].err
        PROVE  Present' \subseteq op'[t].todo \cup put'[t].pages
    <3>1. Flushing(t) /\ ~op[t].err
      BY <2>1 DEF Flushing
    <3>2. Present \subseteq op[t].todo \cup put[t].pages
      BY <3>1 DEF Local, Flushed
    <3>3. CASE t = x
      <4>1. put[t].pages = {} /\ put'[t].pages = ps
        BY <1>3, <3>3 DEF NoRun
      <4> QED
        BY <1>2, <3>2, <4>1
    <3>4. CASE t # x
      BY <1>2, <1>3, <3>2, <3>4, DataTypes
    <3> QED
      BY <3>3, <3>4
  <2> QED
    BY <2>1 DEF Flushed
<1> QED
  BY <1>10, <1>11, <1>12, <1>13, <1>14, <1>15, <1>16 DEF Remote, Local

\* The tests under i_dlock leave nothing out that lies below the size.
LEMMA ClippedCovers ==
  ASSUME NEW r \in Runs, Whole(r), Covers(r), vnode.fsize \in Nat
  PROVE  /\ Clipped(r).step = "send" /\ Clipped(r).pages = r.pages
         /\ Covers(Clipped(r)) /\ Clipped(r).off =< Clipped(r).from
         /\ \A u \in Units : PageOf(u) \in r.pages /\ u < vnode.fsize => u \in Extent(Clipped(r))
<1> DEFINE size == vnode.fsize
           c == Clipped(r)
           n == Cardinality(r.pages) * PageSize
<1>1. size \in Nat /\ r.off \in Nat /\ r.from = r.off /\ r.len = n /\ r.len \in Int
  BY DEF Runs, Whole
<1>2. /\ c.step = "send" /\ c.pages = r.pages /\ c.from = r.from
      /\ \/ c.off = r.off /\ c.len = r.len
         \/ size < r.off /\ c.off = size
         \/ ~(size < r.off) /\ c.off = r.off /\ c.len = size - r.off
  BY DEF Clipped, Runs
<1>3. Covers(c)
  BY <1>2 DEF Covers
<1>4. ASSUME NEW u \in Units, PageOf(u) \in r.pages, u < size
      PROVE  u \in Extent(c)
  <2>1. u \in Nat /\ u \in r.from .. r.from + n - 1
    BY <1>4, ServerAssumption DEF Covers, Units
  <2> HIDE DEF n, c, size
  <2> QED
    BY <1>1, <1>2, <1>4, <2>1 DEF Extent
<1>5. c.off =< c.from
  <2> HIDE DEF n, c, size
  <2> QED
    BY <1>1, <1>2
<1> QED
  BY <1>2, <1>3, <1>4, <1>5

\* A run as it is collected.
LEMMA RunCollected ==
  ASSUME TypeOK, NEW p \in Dirty \ Busy
  PROVE  LET r == Run(Kluster(p)) IN
         /\ r \in Runs /\ Whole(r) /\ Covers(r) /\ r.step = "over" /\ r.pages = Kluster(p)
         /\ p \in Kluster(p) /\ Kluster(p) \subseteq Dirty \ Busy /\ Kluster(p) \in SUBSET Pages
<1>1. p \in Kluster(p)
  <2>1. p \in Pages /\ \A r \in Pages : r \in p .. p => r = p
    BY PagesFinite DEF Dirty
  <2> QED
    BY <2>1 DEF Kluster
<1>2. Kluster(p) \subseteq Dirty \ Busy /\ Kluster(p) \in SUBSET Pages
  BY DEF Kluster, Dirty
<1>3. Run(Kluster(p)).pages = Kluster(p)
  BY DEF Run
<1> QED
  BY <1>1, <1>2, <1>3, RunBegins, KlusterCovers

\* pageout takes pages.
LEMMA PageoutStartKeeps ==
  ASSUME Careful, DataInv, PageoutStart
  PROVE  Remote' /\ Local'
<1>1. Types /\ Remote /\ Local /\ TypeOK
  BY DataTypes DEF DataInv
<1>2. /\ UNCHANGED <<inode, link, now, held, i_dlock, pc, op, want, foreign>>
      /\ put[Pageout] = NoRun
  BY DEF PageoutStart, server, ghost
<1>3. PICK p \in Present \ Busy :
        IF p \in Dirty
        THEN /\ \A q \in Kluster(p) : ~InWindow(q)
             /\ put' = [put EXCEPT ![Pageout] = Run(Kluster(p))]
             /\ vnode' = Marked(Kluster(p), "clean")
        ELSE UNCHANGED put /\ vnode' = Without({p})
  BY DEF PageoutStart, Careful
<1>4. CASE p \in Dirty
  <2> DEFINE r == Run(Kluster(p))
  <2>1. r.step = "over" /\ Covers(r) /\ r.pages = Kluster(p) /\ Kluster(p) \subseteq Dirty \ Busy
    BY <1>1, <1>3, <1>4, RunCollected
  <2>2. /\ put' = [put EXCEPT ![Pageout] = r] /\ vnode' = Marked(r.pages, "clean")
        /\ \A q \in r.pages : ~InWindow(q)
    BY <1>3, <1>4, <2>1
  <2> HIDE DEF r
  <2>3. Pageout \in Putters /\ \A t \in Threads : t # Pageout
    BY DataAssumption DEF Putters
  <2> QED
    BY <1>1, <1>2, <2>1, <2>2, <2>3, RunKeeps
<1>5. CASE p \notin Dirty
  <2>1. p \in Pages /\ p \notin Pending /\ put' = put /\ vnode' = Without({p})
    BY <1>3, <1>5 DEF Pending, Present
  <2>2. \A u \in Units : PageOf(u) \in {p} => ~Kept(u)
    BY <2>1 DEF Kept
  <2>3. \A q \in {p} : ~InWindow(q)
    BY <1>1, <1>5 DEF Local, Writing, InWindow
  <2> QED
    BY <1>1, <1>2, <1>3, <2>1, <2>2, <2>3, DropKeeps
<1> QED
  BY <1>4, <1>5

\* putpage comes to a page.
LEMMA PutpageKeeps ==
  ASSUME DataInv, NEW t \in Threads, iumfs_putpage(t)
  PROVE  Remote' /\ Local'
<1> DEFINE p == Min(op[t].todo)
           run == Run(Kluster(p))
           r == Clipped(run)
<1>1. Types /\ Remote /\ Local /\ TypeOK
  BY DataTypes DEF DataInv
<1>2. /\ UNCHANGED <<inode, link, now, held, i_dlock, want, foreign>>
      /\ pc[t] = "flush" /\ op[t].todo # {} /\ p \notin Busy
      /\ op' = [op EXCEPT ![t].todo = @ \ {p}]
  BY DEF iumfs_putpage, server, ghost
<1>3. /\ op[t] \in Operations /\ t \in Putters
      /\ vnode.fsize \in Nat /\ vnode.fsize \in 0 .. MaxSize
  BY <1>1, DataTypes DEF Operations, VnodeRecords
<1>4. p \in op[t].todo /\ p \in Pages
  <2>1. op[t].todo \in SUBSET Nat /\ op[t].todo \subseteq Pages
    BY <1>3, PagesFinite DEF Operations
  <2> QED
    BY <1>2, <2>1, MinOfNat
<1>5. put[t] = NoRun /\ \A q : ~InWindow(q)
  BY <1>1, <1>2 DEF Local, Alone, InWindow
<1>6. /\ op'[t].off = op[t].off /\ op'[t].len = op[t].len /\ op'[t].err = op[t].err
      /\ op'[t].todo = op[t].todo \ {p}
      /\ \A s \in Threads : s # t => op'[s] = op[s]
  <2> HIDE DEF p
  <2>1. op'[t] = [op[t] EXCEPT !.todo = @ \ {p}] /\ \A s \in Threads : s # t => op'[s] = op[s]
    BY <1>1, <1>2, DataTypes
  <2> QED
    BY <1>3, <2>1 DEF Operations
<1> HIDE DEF p
<1>7. CASE p \notin Dirty /\ vnode' = Without({p}) /\ UNCHANGED <<put, pc>>
  <2>1. \A u \in Units : PageOf(u) \in {p} => ~Kept(u)
    BY <1>2, <1>7 DEF Kept, Pending
  <2> QED
    BY <1>1, <1>2, <1>4, <1>5, <1>6, <1>7, <2>1, DropKeeps
<1>8. ASSUME p \in Dirty
      PROVE  /\ r.step = "send" /\ r.pages = Kluster(p) /\ Covers(r) /\ r.off =< r.from
             /\ \A u \in Units : PageOf(u) \in r.pages /\ u < vnode.fsize => u \in Extent(r)
             /\ p \in r.pages /\ r.pages \subseteq Dirty \ Busy /\ r.pages \in SUBSET Pages
             /\ r \in Runs
  <2>1. p \in Dirty \ Busy
    BY <1>2, <1>8
  <2>2. /\ run \in Runs /\ Whole(run) /\ Covers(run) /\ run.pages = Kluster(p)
        /\ p \in Kluster(p) /\ Kluster(p) \subseteq Dirty \ Busy /\ Kluster(p) \in SUBSET Pages
    BY <1>1, <2>1, RunCollected
  <2>3. run.len \in Nat \ {0}
    BY <1>1, <2>1, RunBegins
  <2> HIDE DEF run
  <2>4. r \in Runs
    BY <1>3, <2>2, <2>3, ClippedTyped
  <2> QED
    BY <1>3, <2>2, <2>4, ClippedCovers
<1>9. ASSUME p \in Dirty, NEW u \in Units, Kept(u), PageOf(u) \in r.pages
      PROVE  u \in Extent(r)
  BY <1>5, <1>8, <1>9 DEF Kept
<1>10. CASE p \in Dirty /\ r.len = 0 /\ vnode' = Without(r.pages) /\ UNCHANGED <<put, pc>>
  <2>1. Extent(r) = {}
    <3>1. r.off \in Nat
      BY <1>8, <1>10 DEF Runs
    <3> HIDE DEF r
    <3> QED
      BY <1>10, <3>1 DEF Extent
  <2>2. \A u \in Units : PageOf(u) \in r.pages => ~Kept(u)
    BY <1>9, <1>10, <2>1
  <2> HIDE DEF r
  <2> QED
    BY <1>1, <1>2, <1>5, <1>6, <1>8, <1>10, <2>2, DropKeeps
<1>11. CASE /\ p \in Dirty /\ vnode' = Marked(r.pages, "clean") /\ put' = [put EXCEPT ![t] = r]
            /\ Goto(t, "put")
  <2>1. pc' = [pc EXCEPT ![t] = "put"] /\ pc'[t] = "put" /\ \A s \in Threads : s # t => pc'[s] = pc[s]
    BY <1>1, <1>11, DataTypes DEF Goto
  <2> HIDE DEF r
  <2>2. /\ \A s \in Threads : IF s = t THEN pc[s] = "flush" /\ pc'[s] = "put"
                              ELSE pc'[s] = pc[s] /\ op'[s] = op[s]
        /\ \A s \in Threads : /\ op'[s].err = op[s].err
                              /\ op'[s].todo \subseteq op[s].todo
                              /\ op[s].todo \ op'[s].todo \subseteq r.pages
    BY <1>2, <1>6, <1>8, <1>11, <2>1
  <2>3. \A u \in Units : Kept(u) /\ PageOf(u) \in r.pages => u \in Extent(r)
    BY <1>9, <1>11
  <2>4. put' = [put EXCEPT ![t] = r] /\ vnode' = Marked(r.pages, "clean")
    BY <1>11
  <2>5. r.pages \subseteq Dirty \ Busy /\ Covers(r) /\ r.step = "send" /\ r.off =< r.from
    BY <1>8, <1>11
  <2>6. \A q \in r.pages : ~InWindow(q)
    BY <1>5
  <2> QED
    BY <1>1, <1>2, <1>3, <1>5, <2>2, <2>3, <2>4, <2>5, <2>6, RunKeeps
<1> QED
  BY <1>2, <1>7, <1>10, <1>11 DEF iumfs_putpage, p

\* pageout tests its run with the size as it is now.
LEMMA TestKeeps ==
  ASSUME Types, Remote, Local, NEW s, put' = [put EXCEPT ![Pageout] = s],
         UNCHANGED <<inode, link, now, held, vnode, i_dlock, pc, op, want, foreign>>,
         s.pages = put[Pageout].pages, Covers(s),
         s.step \in {"length", "send"} => s.off =< s.from,
         s.step = "send" =>
           \A u \in Units : PageOf(u) \in s.pages /\ u < vnode.fsize => u \in Extent(s)
  PROVE  Remote' /\ Local'
<1>1. put'[Pageout] = s /\ \A y \in Putters : y # Pageout => put'[y] = put[y]
  BY DataTypes DEF Putters
<1>2. /\ \A y \in Putters : put'[y].pages = put[y].pages
      /\ \A t \in Threads : put'[t] = put[t]
  BY <1>1, DataTypes
<1>3. Present' = Present /\ Dirty' = Dirty /\ Busy' = Busy /\ Pending' = Pending
  <2>1. Present' = Present /\ Dirty' = Dirty
    BY DEF Present, Dirty
  <2>2. \A q : q \in Busy' <=> \E y \in Putters : q \in put'[y].pages
    BY DEF Busy
  <2>3. Busy' = Busy
    BY <1>2, <2>2, BusyPages
  <2> QED
    BY <2>1, <2>3 DEF Pending
<1>4. \A q : InWindow(q)' = InWindow(q)
  BY DEF InWindow
<1>5. ASSUME NEW u \in Units, Safe(u)
      PROVE  Safe(u)'
  <2>1. Kept(u) /\ Kept(u)'
    BY <1>3, <1>4, <1>5 DEF Safe, Kept
  <2>2. ASSUME NEW y \in Putters, (put[y].step = "send" /\ PageOf(u) \in put[y].pages \ Dirty)'
        PROVE  (u \in Extent(put[y]))'
    <3>1. CASE y = Pageout
      <4>1. ~InWindow(PageOf(u))
        BY <1>3, <2>2 DEF Local, Writing, InWindow
      <4>2. u < vnode.fsize
        BY <2>1, <4>1 DEF Kept
      <4> QED
        BY <1>1, <2>2, <3>1, <4>2 DEF Extent
    <3>2. CASE y # Pageout
      BY <1>1, <1>3, <1>5, <2>2, <3>2 DEF Safe, Due, Extent
    <3> QED
      BY <3>1, <3>2
  <2> QED
    BY <2>1, <2>2 DEF Safe, Due
<1>6. \A u \in Units : Wanted(u)' = Wanted(u)
  BY DEF Wanted
<1>7. Stored' /\ Harmless' /\ Answered'
  BY <1>5, <1>6, SafeIsEnough DEF Remote
<1>8. Named' /\ Dated' /\ Verifying'
  BY <1>3 DEF Remote, Named, Dated, Verifying, File
<1>9. Alone' /\ Flushed'
  BY <1>2, <1>3 DEF Local, Alone, Flushed, Flushing
<1>10. Apart'
  <2>1. ASSUME NEW y \in Putters
        PROVE  /\ put'[y].pages \subseteq Present' /\ (put'[y].step # "none" => Covers(put[y])')
               /\ (put'[y].step \in {"length", "send"} => put'[y].off =< put'[y].from)
    <3>1. Covers(put[y])' = Covers(put'[y])
      BY DEF Covers
    <3>2. CASE y = Pageout
      BY <1>1, <1>2, <1>3, <3>1, <3>2 DEF Local, Apart
    <3>3. CASE y # Pageout
      BY <1>1, <1>3, <3>1, <3>3 DEF Local, Apart
    <3> QED
      BY <3>2, <3>3
  <2>2. \A y, z \in Putters : y # z => put'[y].pages \cap put'[z].pages = {}
    BY <1>2 DEF Local, Apart
  <2>3. \A t \in Threads : put'[t].pages \cap Dirty' = {}
    BY <1>2, <1>3 DEF Local, Apart
  <2> QED
    BY <2>1, <2>2, <2>3 DEF Apart
<1>11. Writing'
  BY <1>3, <1>6 DEF Local, Writing, EndOf, PartLen, Beyond
<1>12. Coherent'
  BY <1>3, <1>6 DEF Local, Coherent, Current, Flushing
<1> QED
  BY <1>7, <1>8, <1>9, <1>10, <1>11, <1>12 DEF Remote, Local

\* Each of its tests.
LEMMA PageoutSizeKeeps ==
  ASSUME DataInv, PageoutSize
  PROVE  Remote' /\ Local'
<1> DEFINE r == put[Pageout]
           size == vnode.fsize
           n == Cardinality(r.pages) * PageSize
<1>1. Types /\ Remote /\ Local
  BY DEF DataInv
<1>2. UNCHANGED <<inode, link, now, held, vnode, i_dlock, pc, op, want, foreign>>
  BY DEF PageoutSize, server, ghost
<1>3. Pageout \in Putters /\ r \in Runs /\ size \in Nat
  BY <1>1, DataTypes DEF Putters, VnodeRecords
<1>4. r.off \in Nat /\ r.from \in Nat /\ r.len \in Int
  BY <1>3 DEF Runs
<1>5. r.step # "none" => Covers(r)
  BY <1>1, <1>3 DEF Local, Apart
<1>6. /\ r.step \in {"over", "below", "base"} => r.off = r.from /\ r.len = n
      /\ r.step = "base" => size < r.off
      /\ r.step = "length" => r.off =< r.from
  BY <1>1, <1>3 DEF Types, RunInv, Tested, Whole, Local, Apart
<1>7. \A u \in Units : u \in Nat
  BY ServerAssumption DEF Units
<1>8. ASSUME NEW s, put' = [put EXCEPT ![Pageout] = s], r.step # "none",
             s.pages = r.pages, s.from = r.from,
             s.step \in {"length", "send"} => s.off =< r.from,
             s.step = "send" => \A u \in Units : u \in r.from .. r.from + n - 1 /\ u < size => u \in Extent(s)
      PROVE  Remote' /\ Local'
  <2>1. Covers(s)
    BY <1>5, <1>8 DEF Covers
  <2>2. s.step = "send" => \A u \in Units : PageOf(u) \in s.pages /\ u < size => u \in Extent(s)
    BY <1>5, <1>8 DEF Covers
  <2> QED
    BY <1>1, <1>2, <1>8, <2>1, <2>2, TestKeeps
<1>9. CASE r.step = "over"
  <2> DEFINE s == [r EXCEPT !.step = IF r.off + r.len > size THEN "below" ELSE "send"]
  <2>1. /\ s.pages = r.pages /\ s.from = r.from /\ s.off = r.off /\ s.len = r.len
        /\ s.step = IF r.off + r.len > size THEN "below" ELSE "send"
    BY <1>3 DEF Runs
  <2>2. put' = [put EXCEPT ![Pageout] = s]
    BY <1>9 DEF PageoutSize
  <2> HIDE DEF s, n, size
  <2>3. s.step \in {"length", "send"} => s.off =< r.from
    BY <1>4, <1>6, <1>9, <2>1
  <2>4. \A u \in Units : u \in r.from .. r.from + n - 1 /\ u < size => u \in Extent(s)
    BY <1>6, <1>9, <2>1 DEF Extent
  <2> QED
    BY <1>8, <1>9, <2>1, <2>2, <2>3, <2>4
<1>10. CASE r.step = "below"
  <2> DEFINE s == [r EXCEPT !.step = IF size < r.off THEN "base" ELSE "length"]
  <2>1. /\ s.pages = r.pages /\ s.from = r.from /\ s.off = r.off /\ s.step \in {"base", "length"}
    BY <1>3 DEF Runs
  <2>2. put' = [put EXCEPT ![Pageout] = s]
    BY <1>10 DEF PageoutSize
  <2> HIDE DEF s, n, size
  <2>3. s.off =< r.from /\ s.step # "send"
    BY <1>4, <1>6, <1>10, <2>1
  <2> QED
    BY <1>8, <1>10, <2>1, <2>2, <2>3
<1>11. CASE r.step = "base"
  <2> DEFINE s == [r EXCEPT !.step = "length", !.off = size]
  <2>1. /\ s.pages = r.pages /\ s.from = r.from /\ s.off = size /\ s.step = "length"
    BY <1>3 DEF Runs
  <2>2. put' = [put EXCEPT ![Pageout] = s]
    BY <1>11 DEF PageoutSize
  <2> HIDE DEF s, n, size
  <2>3. s.off =< r.from
    BY <1>3, <1>4, <1>6, <1>11, <2>1
  <2> QED
    BY <1>8, <1>11, <2>1, <2>2, <2>3
<1>12. CASE r.step = "length"
  <2> DEFINE s == [r EXCEPT !.step = "send", !.len = size - r.off]
  <2>1. /\ s.pages = r.pages /\ s.from = r.from /\ s.off = r.off /\ s.len = size - r.off
    BY <1>3 DEF Runs
  <2>2. put' = [put EXCEPT ![Pageout] = s]
    BY <1>12 DEF PageoutSize
  <2>3. n \in Int
    <3>1. Cardinality(r.pages) \in Nat
      BY <1>3, PagesFinite, FS_Subset, FS_CardinalityType DEF Runs
    <3> QED
      BY <3>1, DataAssumption
  <2> HIDE DEF s, n, size
  <2>4. ASSUME NEW u \in Units, u \in r.from .. r.from + n - 1, u < size
        PROVE  u \in Extent(s)
    BY <1>3, <1>4, <1>6, <1>7, <1>12, <2>1, <2>3, <2>4 DEF Extent
  <2> QED
    BY <1>6, <1>8, <1>12, <2>1, <2>2, <2>4
<1> QED
  BY <1>9, <1>10, <1>11, <1>12 DEF PageoutSize

-----------------------------------------------------------------------------
(***************************************************************************)
(* A thread goes on in its operation, or ends it.                          *)
(***************************************************************************)
\* It may change size and time on its way, if the size cuts off no page that is going
\* to be put, and a new time is followed by a flush.
LEMMA MoveKeeps ==
  ASSUME Types, Remote, Local, NEW t \in Threads, pc[t] \in {"verify", "flush", "write", "read"},
         UNCHANGED <<inode, link, now, held, put, foreign>>,
         vnode'.fsize \in Nat, vnode'.page = vnode.page, vnode'.val = vnode.val, vnode'.known = vnode.known,
         \A u \in Units : Wanted(u)' => /\ Wanted(u) /\ want'[u] = want[u]
                                        /\ Pending # {} => vnode'.fsize >= vnode.fsize,
         \A s \in Threads : s # t => pc'[s] = pc[s] /\ op'[s] = op[s],
         pc'[t] # "idle" => i_dlock' = i_dlock,
         \/ pc'[t] \in {"idle", "read"} /\ vnode'.mtime = vnode.mtime
         \/ pc'[t] = "flush" /\ op'[t].todo = Present,
         pc[t] = "flush" => op[t].todo = {}
  PROVE  Remote' /\ Local'
<1>1. /\ i_dlock = t /\ put[t] = NoRun
      /\ \A s \in Threads : s # t => pc[s] = "idle" /\ pc'[s] = "idle" /\ put[s] = NoRun
  BY DataTypes DEF Local, Alone
<1>2. Present' = Present /\ Dirty' = Dirty /\ Busy' = Busy /\ Pending' = Pending
  BY DEF Present, Dirty, Busy, Pending
<1>3. \A q : ~InWindow(q) /\ ~InWindow(q)'
  BY <1>1 DEF InWindow
<1>4. ASSUME NEW u \in Units, Wanted(u)', Safe(u)
      PROVE  Safe(u)'
  <2>1. Kept(u)'
    <3>1. PageOf(u) \in Pending /\ u < vnode.fsize /\ vnode'.fsize >= vnode.fsize
          /\ want'[u] = want[u] /\ vnode.val[u] = want[u]
      BY <1>3, <1>4 DEF Safe, Kept
    <3>2. u < vnode'.fsize
      <4>1. u \in Nat /\ vnode.fsize \in Nat /\ vnode'.fsize \in Nat
        BY DataTypes, ServerAssumption DEF VnodeRecords, Units
      <4> QED
        BY <3>1, <4>1
    <3> QED
      BY <1>2, <3>1, <3>2 DEF Kept
  <2>2. Due(u)'
    BY <1>2, <1>4 DEF Safe, Due, Extent
  <2> QED
    BY <2>1, <2>2 DEF Safe
<1>5. Stored' /\ Harmless' /\ Answered'
  BY <1>4, SafeIsEnough DEF Remote
<1>6. Named' /\ Dated' /\ Verifying'
  BY <1>1, <1>2 DEF Remote, Named, Dated, Verifying, File
<1>7. Alone'
  BY <1>1 DEF Alone
<1>8. Apart'
  BY <1>2 DEF Local, Apart, Covers
<1>9. Writing'
  BY <1>1 DEF Writing
<1>10. Coherent'
  <2>1. ASSUME NEW p \in Present, Current(p)'
        PROVE  Current(p)
    <3>1. CASE p \in Pending
      BY <3>1 DEF Current
    <3>2. CASE p \notin Pending
      <4>1. vnode'.mtime >= foreign /\ ~(pc'[t] = "flush" /\ op'[t].todo = Present)
        BY <1>2, <2>1, <3>2 DEF Current, Flushing
      <4>2. vnode.mtime >= foreign
        BY <4>1
      <4>3. \A s \in Threads : Flushing(s) => p \notin op[s].todo
        BY <1>1 DEF Flushing
      <4> QED
        BY <4>2, <4>3 DEF Current
    <3> QED
      BY <3>1, <3>2
  <2> QED
    BY <1>2, <2>1 DEF Local, Coherent
<1>11. Flushed'
  BY <1>1, <1>2 DEF Flushed, Flushing
<1> QED
  BY <1>5, <1>6, <1>7, <1>8, <1>9, <1>10, <1>11 DEF Remote, Local

\* A thread and its operation change, the others' do not.
LEMMA OpAfter ==
  ASSUME Types, NEW t \in Threads, NEW l, NEW o
  PROVE  /\ Goto(t, l) => pc'[t] = l /\ \A s \in Threads : s # t => pc'[s] = pc[s]
         /\ op' = [op EXCEPT ![t] = o] => op'[t] = o /\ \A s \in Threads : s # t => op'[s] = op[s]
  BY DataTypes DEF Goto

\* The operation ends,
LEMMA Exits ==
  ASSUME Types, NEW t \in Threads, Exit(t)
  PROVE  pc'[t] = "idle" /\ \A s \in Threads : s # t => pc'[s] = pc[s] /\ op'[s] = op[s]
  BY OpAfter DEF Exit

\* goes on,
LEMMA Goes ==
  ASSUME Types, NEW t \in Threads, NEW l, NEW o, Go(t, l, o)
  PROVE  /\ pc'[t] = l /\ op'[t] = o /\ i_dlock' = i_dlock
         /\ \A s \in Threads : s # t => pc'[s] = pc[s] /\ op'[s] = op[s]
  BY OpAfter DEF Go

\* or comes to a flush.
LEMMA Flushes ==
  ASSUME Types, NEW t \in Threads, NEW o \in Operations, FlushAll(t, o)
  PROVE  /\ pc'[t] = "flush" /\ op'[t].todo = Present /\ i_dlock' = i_dlock
         /\ \A s \in Threads : s # t => pc'[s] = pc[s] /\ op'[s] = op[s]
  BY Goes DEF FlushAll, Operations

\* The answer to getattr.
LEMMA VerifyKeeps ==
  ASSUME DataInv, NEW t \in Threads, iumfs_getattr_verify(t)
  PROVE  Remote' /\ Local'
<1>1. Types /\ Remote /\ Local /\ op[t] \in Operations
  BY DataTypes DEF DataInv
<1>2. pc[t] = "verify" /\ UNCHANGED <<inode, link, now, held, put, want, foreign>>
  BY DEF iumfs_getattr_verify, process_getattr_request, server, ghost
<1>3. \A u \in Units : Wanted(u)' => Wanted(u) /\ want'[u] = want[u]
  BY <1>2 DEF Wanted
<1>4. CASE /\ link # NoFile /\ vnode' = [vnode EXCEPT !.fsize = File.size, !.mtime = File.mtime]
           /\ IF File.mtime # vnode.mtime THEN FlushAll(t, op[t]) ELSE Verified(t)
  <2>1. /\ vnode'.fsize = File.size /\ vnode'.mtime = File.mtime
        /\ vnode'.page = vnode.page /\ vnode'.val = vnode.val /\ vnode'.known = vnode.known
    BY <1>1, <1>4, DataTypes DEF VnodeRecords
  <2>2. File.size \in Nat
    BY <1>1, <1>4, DataTypes DEF FileRecords
  <2>3. Pending # {} => vnode'.fsize >= vnode.fsize
    BY <1>1, <1>2, <2>1 DEF Remote, Verifying
  <2>4. CASE File.mtime # vnode.mtime
    <3>1. FlushAll(t, op[t])
      BY <1>4, <2>4
    <3>2. /\ pc'[t] = "flush" /\ op'[t].todo = Present /\ i_dlock' = i_dlock
          /\ \A s \in Threads : s # t => pc'[s] = pc[s] /\ op'[s] = op[s]
      BY <1>1, <3>1, Flushes
    <3> QED
      BY <1>1, <1>2, <1>3, <2>1, <2>2, <2>3, <3>2, MoveKeeps
  <2>5. CASE File.mtime = vnode.mtime
    <3>1. Go(t, "read", op[t]) \/ Exit(t)
      BY <1>4, <2>5 DEF Verified
    <3>2. /\ pc'[t] \in {"idle", "read"} /\ (pc'[t] # "idle" => i_dlock' = i_dlock)
          /\ \A s \in Threads : s # t => pc'[s] = pc[s] /\ op'[s] = op[s]
      BY <1>1, <3>1, Goes, Exits
    <3> QED
      BY <1>1, <1>2, <1>3, <2>1, <2>2, <2>3, <2>5, <3>2, MoveKeeps
  <2> QED
    BY <2>4, <2>5
<1>5. CASE Exit(t) /\ UNCHANGED vnode
  <2>1. pc'[t] = "idle" /\ \A s \in Threads : s # t => pc'[s] = pc[s] /\ op'[s] = op[s]
    BY <1>1, <1>5, Exits
  <2>2. vnode'.fsize \in Nat /\ vnode'.fsize >= vnode.fsize
    BY <1>1, <1>5, DataTypes DEF VnodeRecords
  <2> QED
    BY <1>1, <1>2, <1>3, <1>5, <2>1, <2>2, MoveKeeps
<1> QED
  BY <1>4, <1>5 DEF iumfs_getattr_verify, process_getattr_request

\* The end of a flush.
LEMMA AfterFlushKeeps ==
  ASSUME DataInv, NEW t \in Threads, AfterFlush(t)
  PROVE  Remote' /\ Local'
<1>1. Types /\ Remote /\ Local
  BY DEF DataInv
<1>2. /\ pc[t] = "flush" /\ op[t].todo = {}
      /\ UNCHANGED <<inode, link, now, held, put, foreign>>
      /\ Go(t, "read", op[t]) \/ Exit(t)
  BY DEF AfterFlush, server
<1>3. /\ pc'[t] \in {"idle", "read"} /\ (pc'[t] # "idle" => i_dlock' = i_dlock)
      /\ \A s \in Threads : s # t => pc'[s] = pc[s] /\ op'[s] = op[s]
  BY <1>1, <1>2, Goes, Exits
<1>4. CASE /\ vnode' = [vnode EXCEPT !.fsize = 0]
           /\ want' = [u \in Units |-> IF Wanted(u) THEN Truncated ELSE want[u]]
  <2>1. /\ vnode'.fsize = 0 /\ vnode'.mtime = vnode.mtime
        /\ vnode'.page = vnode.page /\ vnode'.val = vnode.val /\ vnode'.known = vnode.known
    BY <1>1, <1>4, DataTypes DEF VnodeRecords
  <2>2. \A u \in Units : ~Wanted(u)'
    BY <1>4 DEF Wanted
  <2> QED
    BY <1>1, <1>2, <1>3, <2>1, <2>2, MoveKeeps
<1>5. CASE UNCHANGED <<vnode, want>>
  <2>1. vnode'.fsize \in Nat /\ vnode'.fsize >= vnode.fsize
    BY <1>1, <1>5, DataTypes DEF VnodeRecords
  <2>2. \A u \in Units : Wanted(u)' = Wanted(u)
    BY <1>5 DEF Wanted
  <2> QED
    BY <1>1, <1>2, <1>3, <1>5, <2>1, <2>2, MoveKeeps
<1> QED
  BY <1>4, <1>5 DEF AfterFlush

\* A page is copied to the reader.
LEMMA CopyOutKeeps ==
  ASSUME DataInv, NEW t \in Threads, CopyOut(t)
  PROVE  Remote' /\ Local'
<1>1. Types /\ Remote /\ Local
  BY DEF DataInv
<1>2. /\ pc[t] = "read" /\ UNCHANGED <<inode, link, now, held, vnode, put, want, foreign>>
      /\ Exit(t) \/ \E o : Go(t, "read", o)
  BY DEF CopyOut, server, ghost
<1>3. /\ pc'[t] \in {"idle", "read"} /\ (pc'[t] # "idle" => i_dlock' = i_dlock)
      /\ \A s \in Threads : s # t => pc'[s] = pc[s] /\ op'[s] = op[s]
  BY <1>1, <1>2, Goes, Exits
<1>4. vnode'.fsize \in Nat /\ vnode'.fsize >= vnode.fsize
  BY <1>1, <1>2, DataTypes DEF VnodeRecords
<1>5. \A u \in Units : Wanted(u)' = Wanted(u)
  BY <1>2 DEF Wanted
<1> QED
  BY <1>1, <1>2, <1>3, <1>4, <1>5, MoveKeeps

-----------------------------------------------------------------------------
(***************************************************************************)
(* A page is read, written, and counted in.                                *)
(***************************************************************************)
\* Where a page begins.
LEMMA PageBegins ==
  ASSUME NEW v \in Nat
  PROVE  /\ InPage(v) \in Nat /\ InPage(v) < PageSize /\ PageOf(v) \in Nat
         /\ v - InPage(v) = PageSize * PageOf(v)
  BY DataAssumption DEF InPage, PageOf

\* The units of the page of another.
LEMMA SamePage ==
  ASSUME NEW u \in Nat, NEW v \in Nat
  PROVE  PageOf(u) = PageOf(v) <=> v - InPage(v) =< u /\ u < v - InPage(v) + PageSize
<1> DEFINE q == PageOf(v)
           p == PageOf(u)
           lo == PageSize * q
           at == PageSize * p
<1>1. /\ p \in Nat /\ q \in Nat /\ lo \in Nat /\ at \in Nat /\ PageSize \in Nat \ {0}
      /\ v - InPage(v) = lo
  BY PageBegins, PageBounds, TimesPageSize, DataAssumption
<1>2. at =< u /\ u < at + PageSize
  <2>1. PageSize * (p + 1) = at + PageSize
    BY <1>1
  <2> QED
    BY <2>1, PageBounds
<1>3. (p < q => at + PageSize =< lo) /\ (q < p => lo + PageSize =< at)
  BY <1>1, TimesPageSize
<1>4. p = q => at = lo
  OBVIOUS
<1> HIDE DEF p, q, lo, at
<1>5. p = q <=> lo =< u /\ u < lo + PageSize
  BY <1>1, <1>2, <1>3, <1>4
<1> QED
  BY <1>1, <1>5 DEF p, q

\* A part of a write is not empty and stays in its page, and the file has the page.
LEMMA PartOfPage ==
  ASSUME Types, Local, NEW t \in Threads, pc[t] \in {"write", "size"}
  PROVE  /\ op[t].off \in Nat /\ op[t].len \in Nat \ {0} /\ op[t].off + op[t].len =< MaxSize
         /\ PartLen(t) \in 1 .. op[t].len /\ PartLen(t) =< PageSize - InPage(op[t].off)
         /\ EndOf(t) = op[t].off + PartLen(t)
         /\ PageOf(op[t].off) \in Pages
         /\ \A u \in op[t].off .. EndOf(t) - 1 : u \in Units /\ PageOf(u) = PageOf(op[t].off)
<1> DEFINE off == op[t].off
           len == op[t].len
           a == PageSize - InPage(off)
           S == {a, len}
<1>1. /\ op[t] \in Operations /\ off \in Nat /\ len \in Nat /\ off + len =< MaxSize
  BY DataTypes DEF Types, TypeInv, Bounded, Operations
<1>2. len \in Nat \ {0} /\ PageSize \in Nat \ {0} /\ MaxSize \in Nat
  BY <1>1, DataTypes DEF Local, Writing
<1>3. a \in Nat \ {0} /\ InPage(off) \in Nat
  <2>1. InPage(off) \in Nat /\ InPage(off) < PageSize
    BY <1>1, PageBegins
  <2> QED
    BY <1>2, <2>1
<1>4. Min(S) \in S /\ \A y \in S : Min(S) =< y
  <2> HIDE DEF a, len
  <2>1. \E x \in S : \A y \in S : x =< y
    <3>1. CASE a =< len
      BY <1>2, <1>3, <3>1
    <3>2. CASE len =< a
      BY <1>2, <1>3, <3>2
    <3> QED
      BY <1>2, <1>3, <3>1, <3>2
  <2> QED
    BY <2>1 DEF Min
<1>5. PartLen(t) = Min(S)
  BY DEF PartLen
<1> HIDE DEF a, len, off
<1>6. PartLen(t) \in 1 .. len /\ PartLen(t) =< a
  BY <1>2, <1>3, <1>4, <1>5
<1>7. off < MaxSize
  BY <1>1, <1>2
<1>8. PageOf(off) \in Pages
  BY <1>1, <1>7, PageTyped DEF off
<1>9. EndOf(t) = off + PartLen(t)
  BY DEF EndOf, off
<1>10. ASSUME NEW u \in off .. EndOf(t) - 1
       PROVE  u \in Units /\ PageOf(u) = PageOf(off)
  <2>1. u \in Nat /\ off =< u /\ u < off + a /\ u < MaxSize
    BY <1>1, <1>2, <1>3, <1>6, <1>9
  <2>2. u \in Units
    BY <1>2, <2>1 DEF Units
  <2>3. off - InPage(off) =< u /\ u < off - InPage(off) + PageSize
    BY <1>1, <1>2, <1>3, <2>1 DEF a
  <2> QED
    BY <1>1, <2>1, <2>2, <2>3, SamePage
<1> QED
  BY <1>1, <1>2, <1>6, <1>8, <1>9, <1>10 DEF off, len, a

\* A page that iumfs_write creates rather than reads holds nothing else.
LEMMA CreatedHoldsNothing ==
  ASSUME Types, Local, NEW t \in Threads, pc[t] = "write", IsCreated(t),
         NEW u \in Units, Wanted(u), PageOf(u) = PageOf(op[t].off)
  PROVE  u \in op[t].off .. EndOf(t) - 1
<1> DEFINE off == op[t].off
           pre == InPage(off)
           size == vnode.fsize
           l == PartLen(t)
<1>1. off \in Nat /\ l \in Nat /\ EndOf(t) = off + l /\ u \in Nat /\ size \in Nat
      /\ PageSize \in Nat /\ pre \in Nat
  <2>1. /\ off \in Nat /\ op[t].len \in Nat /\ l \in 1 .. op[t].len
        /\ EndOf(t) = off + l
    BY PartOfPage
  <2>2. l \in Nat
    <3> HIDE DEF l
    <3> QED
      BY <2>1
  <2>3. pre \in Nat
    BY <2>1, PageBegins
  <2>4. u \in Nat /\ size \in Nat /\ PageSize \in Nat
    BY DataTypes DEF Units, VnodeRecords
  <2> QED
    BY <2>1, <2>2, <2>3, <2>4
<1>2. u < size
  BY <1>1 DEF Local, Writing, Beyond
<1>3. off - pre =< u /\ u < off - pre + PageSize
  BY <1>1, SamePage
<1>4. \/ size = 0
      \/ off - pre > size
      \/ pre = 0 /\ (l = PageSize \/ off + l > size)
  BY DEF IsCreated
<1> HIDE DEF off, pre, size, l
<1>5. u \in off .. off + l - 1
  BY <1>1, <1>2, <1>3, <1>4
<1> QED
  BY <1>1, <1>5 DEF off

\* A page is read from the file, or that fails.
LEMMA GetapageKeeps ==
  ASSUME DataInv, NEW t \in Threads, iumfs_getapage(t)
  PROVE  Remote' /\ Local'
<1> DEFINE p == PageOf(op[t].off)
<1>1. Types /\ Remote /\ Local /\ op[t] \in Operations
  BY DataTypes DEF DataInv
<1>2. /\ pc[t] \in {"write", "read"} /\ p \notin Present
      /\ UNCHANGED <<inode, link, now, held, put, want, foreign>>
  <2>1. pc[t] \in {"write", "read"} /\ p \notin Present /\ UNCHANGED <<put, ghost>>
    BY Zenon DEF iumfs_getapage
  <2>2. UNCHANGED server \/ \E d \in Daemons : process_read_request(d)
    BY Zenon DEF iumfs_getapage
  <2> QED
    BY <2>1, <2>2 DEF process_read_request, server, ghost
<1>3. \A u \in Units : Wanted(u)' = Wanted(u)
  BY <1>2 DEF Wanted
<1>4. ASSUME IF pc[t] = "write" THEN FlushAll(t, [op[t] EXCEPT !.err = TRUE]) ELSE Exit(t),
             UNCHANGED vnode
      PROVE  Remote' /\ Local'
  <2> DEFINE o == [op[t] EXCEPT !.err = TRUE]
  <2>1. o \in Operations
    BY <1>1 DEF Operations
  <2> HIDE DEF o
  <2>2. FlushAll(t, o) \/ Exit(t)
    BY <1>4 DEF o
  <2>3. /\ pc'[t] = "idle" \/ (pc'[t] = "flush" /\ op'[t].todo = Present)
        /\ pc'[t] # "idle" => i_dlock' = i_dlock
        /\ \A s \in Threads : s # t => pc'[s] = pc[s] /\ op'[s] = op[s]
    BY <1>1, <2>1, <2>2, Flushes, Exits
  <2>4. vnode'.fsize \in Nat /\ vnode'.fsize >= vnode.fsize
    BY <1>1, <1>4, DataTypes DEF VnodeRecords
  <2> QED
    BY <1>1, <1>2, <1>3, <1>4, <2>3, <2>4, MoveKeeps
<1>5. ASSUME NEW d \in Daemons, process_read_request(d),
             LET file == inode[path2fd(d)] IN
             vnode' = [vnode EXCEPT !.page[p] = "clean",
                         !.val = [u \in Units |->
                                    IF u \notin UnitsOf(p) THEN @[u]
                                    ELSE IF u < file.size THEN file.val[u] ELSE "junk"]],
             UNCHANGED <<i_dlock, pc, op>>
      PROVE  Remote' /\ Local'
  <2>1. link # NoFile /\ path2fd(d) = link
    BY <1>1, <1>2, Known, PathIsLink DEF Types, Remote, Named
  <2>2. /\ vnode'.fsize = vnode.fsize /\ vnode'.mtime = vnode.mtime /\ vnode'.known = vnode.known
        /\ vnode'.page = [vnode.page EXCEPT ![p] = "clean"]
        /\ vnode'.val = [u \in Units |->
                           IF u \notin UnitsOf(p) THEN vnode.val[u]
                           ELSE IF u < File.size THEN File.val[u] ELSE "junk"]
    BY <1>1, <1>5, <2>1, DataTypes DEF VnodeRecords, File
  <2>3. /\ \A q \in Pages : q # p => vnode'.page[q] = vnode.page[q]
        /\ \A q \in Pages : q = p => vnode'.page[q] = "clean" /\ vnode.page[q] = "none"
    BY <1>1, <1>2, <2>2, DataTypes DEF VnodeRecords, Present
  <2>4. Present \subseteq Present' /\ Present' \subseteq Present \cup {p} /\ Dirty' = Dirty
    BY <2>3 DEF Present, Dirty
  <2>5. Busy' = Busy /\ Pending' = Pending
    BY <1>2, <2>4 DEF Busy, Pending
  <2>6. p \notin Pending
    <3>1. Dirty \subseteq Present
      BY DEF Dirty, Present
    <3>2. Busy \subseteq Present
      BY <1>1, BusyPages DEF Local, Apart
    <3> QED
      BY <1>2, <3>1, <3>2 DEF Pending
  <2>7. /\ \A u \in Units : PageOf(u) # p => vnode'.val[u] = vnode.val[u]
        /\ \A u \in Units : PageOf(u) = p /\ u < File.size => vnode'.val[u] = File.val[u]
    BY <2>2 DEF UnitsOf
  <2>8. \A q : InWindow(q)' = InWindow(q)
    BY <1>5 DEF InWindow
  <2>9. ASSUME NEW u \in Units, Safe(u)
        PROVE  Safe(u)'
    <3>1. Kept(u)'
      BY <1>2, <2>2, <2>5, <2>6, <2>7, <2>8, <2>9 DEF Safe, Kept
    <3>2. Due(u)'
      BY <1>2, <2>4, <2>9 DEF Safe, Due, Extent
    <3> QED
      BY <3>1, <3>2 DEF Safe
  <2>10. Stored' /\ Harmless' /\ Answered'
    BY <1>1, <1>2, <1>3, <2>9, SafeIsEnough DEF Remote
  <2>11. Named' /\ Dated' /\ Verifying'
    BY <1>1, <1>2, <1>5, <2>2, <2>5 DEF Remote, Named, Dated, Verifying, File
  <2>12. Alone'
    BY <1>1, <1>2, <1>5 DEF Local, Alone
  <2>13. Apart'
    BY <1>1, <1>2, <2>4 DEF Local, Apart, Covers
  <2>14. Writing'
    BY <1>1, <1>2, <1>3, <1>5, <2>2, <2>4 DEF Local, Writing, EndOf, PartLen, Beyond
  <2>15. Coherent'
    <3>1. ASSUME NEW u \in Units, (Wanted(u) /\ PageOf(u) \in Present /\ Current(PageOf(u)))'
          PROVE  (vnode.val[u] = want[u])'
      <4>1. CASE PageOf(u) = p
        <5>1. OnServer(u)
          BY <1>1, <1>3, <2>6, <3>1, <4>1 DEF Remote, Stored, Safe, Kept
        <5> QED
          BY <1>2, <2>7, <4>1, <5>1 DEF OnServer
      <4>2. CASE PageOf(u) # p
        <5>1. PageOf(u) \in Present /\ Current(PageOf(u))
          BY <1>2, <1>5, <2>2, <2>4, <2>5, <3>1, <4>2 DEF Current, Flushing
        <5> QED
          BY <1>1, <1>2, <1>3, <2>7, <3>1, <4>2, <5>1 DEF Local, Coherent
      <4> QED
        BY <4>1, <4>2
    <3> QED
      BY <3>1 DEF Coherent
  <2>16. Flushed'
    <3>1. \A s \in Threads : pc'[s] \notin {"flush", "put"}
      BY <1>1, <1>2, <1>5, DataTypes DEF Local, Alone
    <3> QED
      BY <3>1 DEF Flushed, Flushing
  <2> QED
    BY <2>10, <2>11, <2>12, <2>13, <2>14, <2>15, <2>16 DEF Remote, Local
<1> QED
  BY <1>4, <1>5, Zenon DEF iumfs_getapage

\* A write fills its page.
LEMMA CopyInKeeps ==
  ASSUME DataInv, NEW t \in Threads, CopyIn(t)
  PROVE  Remote' /\ Local'
<1> DEFINE p == PageOf(op[t].off)
           part == op[t].off .. EndOf(t) - 1
<1>1. Types /\ Remote /\ Local
  BY DEF DataInv
<1>2. /\ pc[t] = "write"
      /\ IsCreated(t) \/ p \in Present
      /\ UNCHANGED <<inode, link, now, held, i_dlock, op, put, foreign>>
      /\ want' = [u \in Units |-> IF u \in part THEN t ELSE want[u]]
      /\ pc' = [pc EXCEPT ![t] = "size"]
  BY DEF CopyIn, Goto, server, EndOf
<1>3. /\ i_dlock = t /\ pc'[t] = "size"
      /\ \A s \in Threads : s # t => pc[s] = "idle" /\ pc'[s] = "idle"
      /\ \A s \in Threads : put[s] = NoRun /\ s \in Putters
  BY <1>1, <1>2, DataTypes DEF Local, Alone
<1>4. /\ op[t].len > 0 /\ vnode.mtime >= foreign /\ ~Beyond(vnode.fsize)
      /\ p \in Pages /\ \A u \in part : u \in Units /\ PageOf(u) = p
      /\ EndOf(t) \in Nat
  <2>1. op[t].len > 0 /\ vnode.mtime >= foreign /\ ~Beyond(vnode.fsize)
    BY <1>1, <1>2 DEF Local, Writing
  <2>2. p \in Pages /\ \A u \in part : u \in Units /\ PageOf(u) = p
    BY <1>1, <1>2, PartOfPage
  <2>3. EndOf(t) \in Nat
    <3>1. op[t].off \in Nat /\ op[t].len \in Nat /\ PartLen(t) \in 1 .. op[t].len /\ EndOf(t) = op[t].off + PartLen(t)
      BY <1>1, <1>2, PartOfPage
    <3> QED
      BY <3>1
  <2> QED
    BY <2>1, <2>2, <2>3
<1>5. /\ vnode'.fsize = vnode.fsize /\ vnode'.mtime = vnode.mtime /\ vnode'.known = vnode.known
      /\ vnode'.page = [vnode.page EXCEPT ![p] = "dirty"]
      /\ vnode'.val = [u \in Units |->
                         IF u \notin UnitsOf(p) THEN vnode.val[u]
                         ELSE IF u \in part THEN t
                         ELSE IF IsCreated(t) /\ u >= EndOf(t) THEN "zero"
                         ELSE IF p \in Present THEN vnode.val[u] ELSE "junk"]
  BY <1>1, DataTypes DEF CopyIn, VnodeRecords, EndOf
<1>6. Present' = Present \cup {p} /\ Dirty' = Dirty \cup {p}
  BY <1>1, <1>4, <1>5, DataTypes DEF Present, Dirty, VnodeRecords
<1>7. Busy' = Busy /\ Pending' = Pending \cup {p}
  BY <1>2, <1>6 DEF Busy, Pending
<1>8. \A q : ~InWindow(q) /\ (q = p => InWindow(q)')
  BY <1>2, <1>3 DEF InWindow
<1>9. ASSUME NEW u \in part
      PROVE  u \in Units /\ vnode'.val[u] = t /\ want'[u] = t
  BY <1>2, <1>4, <1>5 DEF UnitsOf
<1>10. ASSUME NEW u \in Units, u \notin part
       PROVE  /\ want'[u] = want[u] /\ Wanted(u)' = Wanted(u)
              /\ PageOf(u) # p => vnode'.val[u] = vnode.val[u]
              /\ Wanted(u) /\ PageOf(u) = p => p \in Present /\ vnode'.val[u] = vnode.val[u]
  <2>1. want'[u] = want[u] /\ Wanted(u)' = Wanted(u)
    BY <1>2, <1>10 DEF Wanted
  <2>2. Wanted(u) /\ PageOf(u) = p => ~IsCreated(t)
    BY <1>1, <1>2, <1>10, CreatedHoldsNothing
  <2> QED
    BY <1>2, <1>5, <1>10, <2>1, <2>2 DEF UnitsOf
<1>11. ASSUME NEW u \in Units, PageOf(u) = p
       PROVE  Due(u)'
  BY <1>6, <1>11 DEF Due
<1>12. ASSUME NEW u \in part
       PROVE  Safe(u)'
  <2>1. u \in Units /\ PageOf(u) = p /\ vnode'.val[u] = want'[u]
    BY <1>4, <1>9, <1>12
  <2>2. PageOf(u) \in Pending' /\ InWindow(PageOf(u))'
    BY <1>7, <1>8, <2>1
  <2> HIDE DEF p, part
  <2> QED
    BY <1>11, <2>1, <2>2 DEF Safe, Kept
<1>13. ASSUME NEW u \in Units, u \notin part, Wanted(u), Safe(u)
       PROVE  Safe(u)'
  <2>1. want'[u] = want[u] /\ vnode'.val[u] = vnode.val[u]
    BY <1>10, <1>13
  <2>2. Kept(u)'
    BY <1>5, <1>7, <1>8, <1>13, <2>1 DEF Safe, Kept
  <2>3. Due(u)'
    BY <1>2, <1>6, <1>13 DEF Safe, Due, Extent
  <2> QED
    BY <2>2, <2>3 DEF Safe
<1>14. Stored' /\ Harmless' /\ Answered'
  <2>1. ASSUME NEW u \in Units, Wanted(u)'
        PROVE  \/ Wanted(u) /\ want'[u] = want[u] /\ (Safe(u) => Safe(u)')
               \/ Safe(u)'
    BY <1>10, <1>12, <1>13, <2>1
  <2> HIDE DEF part
  <2> QED
    BY <1>1, <1>2, <2>1, SafeIsEnough DEF Remote
<1>15. Named' /\ Dated' /\ Verifying'
  BY <1>1, <1>2, <1>3, <1>5 DEF Remote, Named, Dated, Verifying, File
<1>16. Alone'
  BY <1>1, <1>2, <1>3 DEF Alone
<1>17. Apart'
  <2>1. \A s \in Threads : put[s].pages = {}
    BY <1>3 DEF NoRun
  <2>2. \A x \in Putters : put'[x].pages \subseteq Present' /\ Covers(put[x])' = Covers(put[x])
    BY <1>1, <1>2, <1>6 DEF Local, Apart, Covers
  <2> QED
    BY <1>1, <1>2, <2>1, <2>2 DEF Local, Apart
<1>18. Writing'
  <2>1. EndOf(t)' = EndOf(t) /\ op'[t] = op[t]
    BY <1>2 DEF EndOf, PartLen
  <2>2. ASSUME NEW u \in Units, Wanted(u)', u >= EndOf(t)
        PROVE  u < vnode'.fsize
    <3>1. u \notin part /\ u \in Nat
      BY <1>4, <2>2 DEF part, Units
    <3>2. Wanted(u)
      BY <1>10, <2>2, <3>1
    <3>3. vnode.fsize \in Nat
      BY <1>1, DataTypes DEF VnodeRecords
    <3> HIDE DEF part
    <3> QED
      BY <1>4, <1>5, <3>1, <3>2, <3>3 DEF Beyond
  <2> QED
    BY <1>2, <1>3, <1>4, <1>5, <1>6, <2>1, <2>2 DEF Writing
<1>19. Coherent'
  <2>1. \A s \in Threads : ~Flushing(s)
    BY <1>2, <1>3 DEF Flushing
  <2>2. \A q : Current(q)
    BY <1>4, <2>1 DEF Current
  <2>3. ASSUME NEW u \in Units, Wanted(u)', PageOf(u) \in Present'
        PROVE  vnode'.val[u] = want'[u]
    <3>1. CASE u \in part
      BY <1>9, <3>1
    <3>2. CASE u \notin part
      <4>1. /\ Wanted(u) /\ PageOf(u) \in Present
            /\ vnode'.val[u] = vnode.val[u] /\ want'[u] = want[u]
        BY <1>6, <1>10, <2>3, <3>2
      <4> QED
        BY <1>1, <2>2, <4>1 DEF Local, Coherent
    <3> QED
      BY <3>1, <3>2
  <2> QED
    BY <2>3 DEF Coherent
<1>20. Flushed'
  BY <1>3 DEF Flushed, Flushing
<1> QED
  BY <1>14, <1>15, <1>16, <1>17, <1>18, <1>19, <1>20 DEF Remote, Local

\* The size follows.
LEMMA SetSizeKeeps ==
  ASSUME DataInv, NEW t \in Threads, SetSize(t)
  PROVE  Remote' /\ Local'
<1> DEFINE end == EndOf(t)
           o == [op[t] EXCEPT !.off = end, !.len = @ - PartLen(t)]
<1>1. Types /\ Remote /\ Local /\ op[t] \in Operations
  BY DataTypes DEF DataInv
<1>2. /\ pc[t] = "size" /\ UNCHANGED <<inode, link, now, held, put, want, foreign>>
      /\ vnode' = [vnode EXCEPT !.fsize = IF end > @ THEN end ELSE @]
      /\ IF op[t].len = PartLen(t) THEN Exit(t) ELSE Go(t, "write", o)
  BY DEF SetSize, server, ghost, EndOf
<1>3. /\ op[t].off \in Nat /\ op[t].len \in Nat \ {0} /\ end \in Nat
      /\ PartLen(t) \in 1 .. op[t].len
  <2>1. /\ op[t].off \in Nat /\ op[t].len \in Nat \ {0} /\ PartLen(t) \in 1 .. op[t].len
        /\ end = op[t].off + PartLen(t)
    BY <1>1, <1>2, PartOfPage
  <2> HIDE DEF end
  <2>2. end \in Nat
    BY <2>1
  <2> QED
    BY <2>1, <2>2
<1>4. /\ i_dlock = t /\ put[t] = NoRun
      /\ \A s \in Threads : s # t => pc[s] = "idle" /\ put[s] = NoRun
  BY <1>1, <1>2, DataTypes DEF Local, Alone
<1>5. /\ vnode.mtime >= foreign
      /\ \A u \in Units : Wanted(u) /\ u >= end => u < vnode.fsize
      /\ vnode.fsize \in Nat
  BY <1>1, <1>2, DataTypes DEF Local, Writing, VnodeRecords
<1> HIDE DEF end
<1>6. /\ vnode'.page = vnode.page /\ vnode'.val = vnode.val
      /\ vnode'.mtime = vnode.mtime /\ vnode'.known = vnode.known
      /\ vnode'.fsize = IF end > vnode.fsize THEN end ELSE vnode.fsize
  BY <1>1, <1>2, DataTypes DEF VnodeRecords
<1>7. \A u \in Units : Wanted(u)' = Wanted(u)
  BY <1>2 DEF Wanted
<1>8. ASSUME NEW u \in Units, Wanted(u)
      PROVE  u < vnode'.fsize
  <2>1. u \in Nat
    BY ServerAssumption DEF Units
  <2> QED
    BY <1>3, <1>5, <1>6, <1>8, <2>1
<1>9. /\ pc'[t] = "idle" \/ (pc'[t] = "write" /\ i_dlock' = t /\ op'[t].len \in Nat \ {0})
      /\ \A s \in Threads : s # t => pc'[s] = "idle"
  <2>1. CASE op[t].len = PartLen(t)
    BY <1>1, <1>2, <1>4, <2>1, Exits
  <2>2. CASE op[t].len # PartLen(t)
    <3>1. pc'[t] = "write" /\ i_dlock' = i_dlock /\ op'[t] = o
          /\ \A s \in Threads : s # t => pc'[s] = pc[s]
      BY <1>1, <1>2, <2>2, Goes
    <3>2. o.len = op[t].len - PartLen(t)
      BY <1>1 DEF Operations
    <3>3. op[t].len - PartLen(t) \in Nat \ {0}
      BY <1>3, <2>2
    <3> QED
      BY <1>4, <3>1, <3>2, <3>3
  <2> QED
    BY <2>1, <2>2
<1>10. Present' = Present /\ Dirty' = Dirty /\ Busy' = Busy /\ Pending' = Pending
  BY <1>2, <1>6 DEF Present, Dirty, Busy, Pending
<1>11. ASSUME NEW u \in Units, Wanted(u), Safe(u)
       PROVE  Safe(u)'
  <2>1. Kept(u)'
    BY <1>2, <1>6, <1>8, <1>10, <1>11 DEF Safe, Kept
  <2>2. Due(u)'
    BY <1>2, <1>10, <1>11 DEF Safe, Due, Extent
  <2> QED
    BY <2>1, <2>2 DEF Safe
<1>12. Stored' /\ Harmless' /\ Answered'
  BY <1>1, <1>2, <1>7, <1>11, SafeIsEnough DEF Remote
<1>13. Named' /\ Dated' /\ Verifying'
  BY <1>1, <1>2, <1>6, <1>9 DEF Remote, Named, Dated, Verifying, File
<1>14. Alone'
  BY <1>2, <1>4, <1>9 DEF Alone
<1>15. Apart'
  BY <1>1, <1>2, <1>10 DEF Local, Apart, Covers
<1>16. Writing'
  <2>1. ~Beyond(vnode.fsize)'
    <3>1. ASSUME NEW u \in Units, Wanted(u)'
          PROVE  ~(u >= vnode'.fsize)
      <4>1. u \in Nat /\ vnode'.fsize \in Nat
        BY <1>3, <1>5, <1>6, ServerAssumption DEF Units
      <4> QED
        BY <1>7, <1>8, <3>1, <4>1
    <3> QED
      BY <3>1 DEF Beyond
  <2> QED
    BY <1>2, <1>5, <1>6, <1>9, <2>1 DEF Writing
<1>17. Coherent'
  <2>1. \A q : Current(q)
    BY <1>2, <1>4, <1>5 DEF Current, Flushing
  <2> QED
    BY <1>1, <1>2, <1>6, <1>7, <1>10, <2>1 DEF Local, Coherent
<1>18. Flushed'
  BY <1>9 DEF Flushed, Flushing
<1> QED
  BY <1>12, <1>13, <1>14, <1>15, <1>16, <1>17, <1>18 DEF Remote, Local

-----------------------------------------------------------------------------
(***************************************************************************)
(* The invariant, and what it says.                                        *)
(***************************************************************************)
\* Every step.
LEMMA DataStep ==
  ASSUME Careful, DataInv, [Next]_vars
  PROVE  DataInv'
<1>1. Types'
  <2>1. TypeInv /\ TypeOK /\ RunInv /\ DescriptorInv
    BY DataTypes DEF DataInv, Types
  <2>2. OneDaemonOrNoRemove /\ "window" \in Rules
    BY DEF Careful, OneDaemonOrNoRemove
  <2>3. TypeInv'
    BY <2>1, TypeStep
  <2>4. RunInv'
    BY <2>1, <2>2, RunStep
  <2>5. DescriptorInv'
    BY <2>1, <2>2, DescriptorStep
  <2> QED
    BY <2>3, <2>4, <2>5 DEF Types
<1>2. ASSUME NEW t \in Threads, Step(t)
      PROVE  Remote' /\ Local'
  BY <1>2, VerifyKeeps, PutpageKeeps, AfterFlushKeeps, GetapageKeeps, CopyInKeeps, SetSizeKeeps,
     CopyOutKeeps DEF Step
<1>3. ASSUME PageoutNothing
      PROVE  Remote' /\ Local'
  BY <1>3, PutKeeps DEF Putters
<1>4. ASSUME Tick \/ UNCHANGED vars
      PROVE  Remote' /\ Local'
  BY <1>4, QuietKeeps
<1>5. ASSUME NEW d \in Daemons, ServeOther(d), UNCHANGED <<vnode, i_dlock, pc, op, put, ghost>>
      PROVE  Remote' /\ Local'
  BY <1>5, QuietKeeps
<1>6. Remote' /\ Local'
  BY <1>2, <1>3, <1>4, <1>5, CallKeeps, PutKeeps, TimeoutKeeps, PageoutStartKeeps, PageoutSizeKeeps,
     LateWriteKeeps, OtherWritesKeeps DEF Next
<1> QED
  BY <1>1, <1>6 DEF DataInv

\* The beginning.
LEMMA DataInit ==
  ASSUME Init
  PROVE  DataInv
<1>1. /\ vnode = NoVnode /\ foreign = 0 /\ now = 0 /\ link = 1
      /\ \A x \in Putters : put[x] = NoRun
      /\ \A t \in Threads : pc[t] = "idle"
      /\ \A d \in Daemons : held[d] = NoData
      /\ want = [u \in Units |-> IF u < DiskSize THEN "old" ELSE Nothing]
  BY DEF Init, ServerInit
<1>2. Types
  <2>1. TypeInv /\ DescriptorInv
    BY InitTyped DEF Init, ServerInit, DescriptorInv, DescriptorIsCurrent, NoFile
  <2>2. RunInv
    BY <1>1, NoRunFine, DataTypes DEF RunInv, AtRest, Putters
  <2> QED
    BY <2>1, <2>2 DEF Types
<1>3. File = [size |-> DiskSize, mtime |-> 0,
              val |-> [u \in Units |-> IF u < DiskSize THEN "old" ELSE "zero"]]
  BY ServerAssumption DEF File, Init, ServerInit, Inodes
<1>4. \A u \in Units : Wanted(u) => OnServer(u)
  BY <1>1, <1>3 DEF Wanted, OnServer, NoFile
<1>5. \A d \in Daemons : Ready(d) /\ HeldUnits(d) = {}
  BY <1>1, HeldNothing DEF Ready
<1>6. Remote
  BY <1>1, <1>3, <1>4, <1>5
     DEF Remote, Stored, Harmless, Answered, Named, Dated, Verifying, NoFile
<1>7. Local
  <2>1. Present = {} /\ Dirty = {}
    BY <1>1 DEF Present, Dirty, NoVnode
  <2>2. Alone
    BY <1>1 DEF Alone, Putters
  <2>3. Apart
    BY <1>1, DataAssumption DEF Apart, NoRun, Putters
  <2>4. Writing /\ Flushed /\ Coherent
    BY <1>1, <2>1 DEF Writing, Flushed, Flushing, Coherent
  <2> QED
    BY <2>2, <2>3, <2>4 DEF Local
<1> QED
  BY <1>2, <1>6, <1>7 DEF DataInv

\* What was written last is on the server or still going to be put, with the size to
\* let it through (iumfs_write, iumfs_putapage, pageout): for any threads, sizes,
\* timeouts, signals and writes of other clients, in the environment of Careful.
THEOREM DataKept ==
  ASSUME Careful
  PROVE  Spec => []WrittenIsKept
<1>1. Init => DataInv
  BY DataInit
<1>2. DataInv /\ [Next]_vars => DataInv'
  BY DataStep
<1>3. DataInv => WrittenIsKept
  BY DEF DataInv, Remote, Stored, Safe, Kept, Pending, WrittenIsKept
<1> QED
  BY <1>1, <1>2, <1>3, PTL DEF Spec

\* A flush ends when it has come to every page.
LEMMA FlushEnds ==
  ASSUME DataInv, Next, NEW t \in Threads, pc[t] = "flush", pc'[t] = "idle"
  PROVE  op[t].todo = {}
<1>1. pc \in [Threads -> {"idle", "verify", "flush", "put", "write", "size", "read"}]
  BY DataTypes DEF DataInv
<1>2. ASSUME NEW s \in Threads, Call(s)
      PROVE  pc'[t] # "idle"
  <2>1. pc' = pc \/ \E l \in {"verify", "flush", "write"} : Goto(s, l)
    <3>1. \A l, o : Enter(s, l, o) => Goto(s, l)
      BY DEF Enter
    <3>2. iumfs_lookup(s) \/ iumfs_remove(s) => pc' = pc
      BY DEF iumfs_lookup, iumfs_remove
    <3>3. iumfs_create(s) => pc' = pc \/ Goto(s, "flush")
      BY <3>1, Zenon DEF iumfs_create
    <3>4. iumfs_write(s) \/ iumfs_append(s) => Goto(s, "write")
      BY <3>1, Zenon DEF iumfs_write, iumfs_append, StartWrite
    <3>5. iumfs_read(s) \/ iumfs_getattr(s) => Goto(s, "verify")
      BY <3>1, Zenon DEF iumfs_read, iumfs_getattr
    <3>6. iumfs_fsync(s) \/ iumfs_close(s) => Goto(s, "flush")
      BY <3>1, Zenon DEF iumfs_fsync, iumfs_close
    <3> QED
      BY <1>2, <3>2, <3>3, <3>4, <3>5, <3>6 DEF Call
  <2> QED
    BY <1>1, <2>1 DEF Goto
<1>3. ASSUME NEW s \in Threads, Step(s)
      PROVE  op[t].todo = {}
  <2>1. CASE s = t
    <3>1. \/ iumfs_putpage(t) /\ (pc' = pc \/ Goto(t, "put"))
          \/ AfterFlush(t)
      <4>1. ~iumfs_getattr_verify(t) /\ ~iumfs_getapage(t)
        BY Zenon DEF iumfs_getattr_verify, iumfs_getapage
      <4>2. ~CopyIn(t) /\ ~SetSize(t) /\ ~CopyOut(t)
        BY Zenon DEF CopyIn, SetSize, CopyOut
      <4>3. iumfs_putpage(t) => pc' = pc \/ Goto(t, "put")
        BY DEF iumfs_putpage
      <4> QED
        BY <1>3, <2>1, <4>1, <4>2, <4>3 DEF Step
    <3>2. ~(pc' = pc \/ Goto(t, "put"))
      <4>1. pc' # pc
        OBVIOUS
      <4> QED
        BY <1>1, <4>1 DEF Goto
    <3> QED
      BY <3>1, <3>2 DEF AfterFlush
  <2>2. CASE s # t
    <3>1. pc' = pc \/ \E l : Goto(s, l)
      <4>1. CASE iumfs_getattr_verify(s) \/ AfterFlush(s) \/ SetSize(s) \/ CopyOut(s)
        BY <4>1 DEF iumfs_getattr_verify, AfterFlush, SetSize, CopyOut, Verified, FlushAll, Go, Exit
      <4>2. CASE iumfs_putpage(s)
        BY <4>2 DEF iumfs_putpage
      <4>3. CASE iumfs_getapage(s)
        <5>1. \/ UNCHANGED <<i_dlock, pc, op>>
              \/ IF pc[s] = "write" THEN FlushAll(s, [op[s] EXCEPT !.err = TRUE]) ELSE Exit(s)
          BY <4>3, Zenon DEF iumfs_getapage
        <5> QED
          BY <5>1 DEF FlushAll, Go, Exit
      <4>4. CASE CopyIn(s)
        BY <4>4, Zenon DEF CopyIn
      <4> QED
        BY <1>3, <4>1, <4>2, <4>3, <4>4 DEF Step
    <3> QED
      BY <1>1, <2>2, <3>1 DEF Goto
  <2> QED
    BY <2>1, <2>2
<1>4. ASSUME NEW x \in Putters, NEW ok, Finish(x, ok)
      PROVE  pc'[t] # "idle"
  <2>1. pc' = pc \/ Goto(x, "flush")
    BY <1>4 DEF Finish
  <2> QED
    BY <1>1, <2>1 DEF Goto
<1>5. ASSUME NEW x \in Putters, iumfs_request_write(x) \/ TimeoutWrite(x)
      PROVE  pc'[t] # "idle"
  BY <1>4, <1>5 DEF iumfs_request_write, TimeoutWrite
<1>6. ASSUME \/ PageoutStart \/ PageoutSize \/ PageoutNothing \/ Tick \/ OtherWrites
             \/ \E d \in Daemons : \/ LateWrite(d)
                                   \/ ServeOther(d) /\ UNCHANGED <<vnode, i_dlock, pc, op, put, ghost>>
      PROVE  pc'[t] # "idle"
  BY <1>4, <1>6 DEF PageoutStart, PageoutSize, PageoutNothing, Tick, OtherWrites, LateWrite, Putters
<1> QED
  BY <1>2, <1>3, <1>5, <1>6 DEF Next

\* fsync and close that report success leave everything on the server.
THEOREM SyncIsComplete ==
  ASSUME Careful
  PROVE  Spec => SyncStores
<1> DEFINE Sync ==
      \A t \in Threads :
        pc[t] = "flush" /\ pc'[t] = "idle" /\ op[t].call = "sync" /\ ~op[t].err =>
          \A u \in Units : Wanted(u) => OnServer(u)
<1>1. Init => DataInv
  BY DataInit
<1>2. DataInv /\ [Next]_vars => DataInv'
  BY DataStep
<1>3. DataInv /\ [Next]_vars => [Sync]_vars
  <2>0. SUFFICES ASSUME DataInv, Next, NEW t \in Threads, NEW u \in Units,
                      pc[t] = "flush", pc'[t] = "idle", ~op[t].err, Wanted(u)
                PROVE  OnServer(u)
    OBVIOUS
  <2>1. Types /\ Remote /\ Local
    BY <2>0 DEF DataInv
  <2>2. op[t].todo = {} /\ put[t] = NoRun /\ Flushing(t)
    BY <2>0, <2>1, FlushEnds DEF Local, Alone, Flushing
  <2>3. Present = {}
    BY <2>0, <2>1, <2>2 DEF Local, Flushed, NoRun
  <2>4. Dirty = {} /\ Busy = {}
    <3>1. Dirty \subseteq Present
      BY DEF Dirty, Present
    <3>2. Busy \subseteq Present
      BY <2>1, BusyPages DEF Local, Apart
    <3> QED
      BY <2>3, <3>1, <3>2
  <2>5. ~Safe(u)
    BY <2>4 DEF Safe, Kept, Pending
  <2> QED
    BY <2>0, <2>1, <2>5 DEF Remote, Stored
<1> QED
  BY <1>1, <1>2, <1>3, PTL DEF Spec, SyncStores

-----------------------------------------------------------------------------
(***************************************************************************)
(* Nothing but what was written is stored.                                 *)
(***************************************************************************)
\* Besides, nobody writes beyond the end of the file.
Tidy == Careful /\ "noHoles" \in Rules

\* A unit that somebody has written, and one of which a page holds nothing but what
\* the memory held before.
Meant(u) == want[u] # Nothing
Junk(u)  == PageOf(u) \in Present /\ vnode.val[u] = "junk"

\* A run on its way, and where it and a held request end.
Sending(x) == put[x].step = "send" /\ put[x].len # 0
RunEnd(r)  == r.off + r.len
HeldEnd(d) == held[d].off + Len(held[d].data)

\* The cached size counts what was written and waits, or is on the server.
SizeMeant ==
  vnode.known => \A u \in Units : u < vnode.fsize => Meant(u) /\ (Wanted(u) \/ u < File.size)

FileMeant ==
  link # NoFile => \A u \in Units : (u < File.size => Meant(u)) /\ File.val[u] # "junk"

\* A write begins within the size and has written what it is about to count in.
WriteMeant ==
  \A t \in Threads :
    /\ pc[t] \in {"write", "size"} => op[t].off =< vnode.fsize
    /\ pc[t] = "size" => \A u \in Units : u >= op[t].off /\ u < EndOf(t) => Wanted(u)

\* The rest of a page lies behind every size and every request that there is.
JunkBeyond ==
  \A u \in Units : Junk(u) =>
    /\ u >= vnode.fsize /\ u >= File.size
    /\ \A t \in Threads : pc[t] = "size" => u >= EndOf(t)
    /\ \A x \in Putters : Sending(x) => u >= RunEnd(put[x])
    /\ \A d \in Daemons : u >= HeldEnd(d)

\* Where pageout is about to write beyond the end of the file, what lies between is
\* still going to be put, or was truncated while its page was here; a flush that
\* destroys that page has the pages of pageout yet to come to, and waits for them.
NoGap ==
  Sending(Pageout) =>
    \A u \in Units : u < put[Pageout].off /\ u >= File.size =>
      \/ Wanted(u)
      \/ /\ PageOf(u) \in Present \/ \E t \in Threads : Flushing(t)
         /\ \A t \in Threads : Flushing(t) => put[Pageout].pages \subseteq op[t].todo

\* What is on its way was written, as far as it reaches.
SentMeant ==
  \A x \in Putters : Sending(x) => \A u \in Units : u < RunEnd(put[x]) => Meant(u)
HeldMeant ==
  \A d \in Daemons :
    /\ \A u \in Units : u < HeldEnd(d) => Meant(u)
    /\ \A i \in 1 .. Len(held[d].data) : held[d].data[i] # "junk"

Clean ==
  SizeMeant /\ FileMeant /\ WriteMeant /\ JunkBeyond /\ NoGap /\ SentMeant /\ HeldMeant

\* The numbers in it.
Numbers ==
  /\ vnode.fsize \in Nat /\ (link # NoFile => File.size \in Nat)
  /\ \A x \in Putters : put[x].off \in Nat /\ put[x].len \in Int
  /\ \A d \in Daemons : HeldEnd(d) \in Nat
  /\ \A u \in Units : u \in Nat

LEMMA CleanNumbers == Types => Numbers
<1> SUFFICES ASSUME Types
             PROVE  Numbers
  OBVIOUS
<1>1. \A u \in Units : u \in Nat
  BY DataTypes DEF Units
<1>2. vnode.fsize \in Nat /\ (link # NoFile => File.size \in Nat)
  BY DataTypes DEF VnodeRecords, FileRecords
<1>3. \A x \in Putters : put[x].off \in Nat /\ put[x].len \in Int
  BY DataTypes DEF Runs
<1>4. \A d \in Daemons : HeldEnd(d) \in Nat
  BY <1>1, DataTypes DEF HeldRecords, HeldEnd
<1> QED
  BY <1>1, <1>2, <1>3, <1>4 DEF Numbers

\* The same after a step.
LEMMA CleanNumbersAfter == Types' => Numbers'
  BY CleanNumbers, PTL

\* A run on its way is not empty and ends behind where it begins.
LEMMA SendingRuns ==
  ASSUME Types, NEW x \in Putters, Sending(x)
  PROVE  /\ vnode.known /\ put[x].pages # {} /\ put[x].len \in Nat \ {0}
         /\ x \in Threads => (Local => pc[x] = "put")
<1>1. vnode.known /\ put[x].pages # {}
  BY Known DEF Types, RunInv, Tested, Sending
<1>2. put[x].len \in Nat \ {0}
  <2> DEFINE n == Cardinality(put[x].pages) * PageSize
  <2>1. put[x].len \in 1 .. n
    BY DEF Types, RunInv, InBounds, Sending
  <2> HIDE DEF n
  <2> QED
    BY <2>1
<1>3. x \in Threads => (Local => pc[x] = "put")
  BY DEF Local, Alone, Sending, NoRun
<1> QED
  BY <1>1, <1>2, <1>3

\* A unit that is wanted and not on the server has its page here.
LEMMA WaitingIsPresent ==
  ASSUME DataInv, NEW u \in Units, Wanted(u), link # NoFile => u >= File.size
  PROVE  PageOf(u) \in Present /\ PageOf(u) \in Pending
<1>1. ~OnServer(u)
  BY CleanNumbers DEF DataInv, OnServer, Numbers
<1>2. PageOf(u) \in Pending
  BY <1>1 DEF DataInv, Remote, Stored, Safe, Kept
<1>3. Dirty \subseteq Present
  BY DEF Dirty, Present
<1>4. Busy \subseteq Present
  BY BusyPages DEF DataInv, Local, Apart
<1> QED
  BY <1>2, <1>3, <1>4 DEF Pending

-----------------------------------------------------------------------------
\* A step that goes on with the runs there are, or with one that ends within the size.
RunsGoOn ==
  \A x \in Putters : Sending(x)' =>
    \/ Sending(x) /\ put'[x] = put[x]
    \/ vnode.known /\ RunEnd(put'[x]) =< vnode.fsize

\* Such a step sends what was written,
LEMMA SentKept ==
  ASSUME Types, Types', SizeMeant, SentMeant, \A u \in Units : Meant(u) => Meant(u)', RunsGoOn
  PROVE  SentMeant'
<1>1. ASSUME NEW x \in Putters, Sending(x)', NEW u \in Units, u < RunEnd(put'[x])
      PROVE  Meant(u)
  <2>1. CASE Sending(x) /\ put'[x] = put[x]
    BY <1>1, <2>1 DEF SentMeant
  <2>2. CASE vnode.known /\ RunEnd(put'[x]) =< vnode.fsize
    <3>1. u < vnode.fsize
      BY <1>1, <2>2, CleanNumbers, CleanNumbersAfter DEF RunEnd, Numbers
    <3> QED
      BY <2>2, <3>1 DEF SizeMeant
  <2> QED
    BY <1>1, <2>1, <2>2 DEF RunsGoOn
<1> QED
  BY <1>1 DEF SentMeant

\* and stays in front of the rests of pages, if they do not grow
LEMMA JunkKept ==
  ASSUME Types, Types', JunkBeyond, RunsGoOn,
         \A u \in Units : Junk(u)' =>
           /\ Junk(u) /\ u >= vnode'.fsize /\ u >= File'.size
           /\ \A t \in Threads : pc'[t] = "size" => u >= EndOf(t)'
           /\ \A d \in Daemons : u >= HeldEnd(d)'
  PROVE  JunkBeyond'
<1>1. ASSUME NEW u \in Units, Junk(u), NEW x \in Putters, Sending(x)'
      PROVE  u >= RunEnd(put'[x])
  <2>1. CASE Sending(x) /\ put'[x] = put[x]
    BY <1>1, <2>1 DEF JunkBeyond
  <2>2. CASE vnode.known /\ RunEnd(put'[x]) =< vnode.fsize
    <3>1. u >= vnode.fsize
      BY <1>1 DEF JunkBeyond
    <3> QED
      BY <1>1, <2>2, <3>1, CleanNumbers, CleanNumbersAfter DEF RunEnd, Numbers
  <2> QED
    BY <1>1, <2>1, <2>2 DEF RunsGoOn
<1> QED
  BY <1>1 DEF JunkBeyond

\* and leaves no gap, unless it destroys pages or starts a flush that pageout would
\* not outlast.
LEMMA GapKept ==
  ASSUME DataInv, Types', SizeMeant, NoGap, RunsGoOn, link' = link,
         link # NoFile => File'.size >= File.size,
         \A u \in Units : Wanted(u) => Wanted(u)',
         Sending(Pageout)' => \/ Present \subseteq Present'
                              \/ \E t \in Threads : Flushing(t)',
         \A t \in Threads : Flushing(t) => Flushing(t)',
         \A t \in Threads : Flushing(t)' =>
           Flushing(t) /\ op[t].todo \ op'[t].todo \subseteq Pages \ Busy
  PROVE  NoGap'
<1> DEFINE r == put[Pageout]
<1>1. Types /\ Remote /\ Local /\ Pageout \in Putters
  BY DEF DataInv, Putters
<1>2. ASSUME Sending(Pageout)', NEW u \in Units, u < put'[Pageout].off, u >= File'.size
      PROVE  \/ Wanted(u)'
             \/ /\ (PageOf(u) \in Present \/ \E t \in Threads : Flushing(t))'
                /\ \A t \in Threads : Flushing(t)' => put'[Pageout].pages \subseteq op'[t].todo
  <2>1. CASE Sending(Pageout) /\ put'[Pageout] = r
    <3>1. vnode.known /\ link # NoFile
      BY <1>1, <2>1, SendingRuns DEF Remote, Named
    <3>2. u >= File.size
      BY <1>1, <1>2, <3>1, CleanNumbers, CleanNumbersAfter DEF Numbers
    <3>3. CASE Wanted(u)
      BY <3>3
    <3>4. CASE /\ PageOf(u) \in Present \/ \E t \in Threads : Flushing(t)
               /\ \A t \in Threads : Flushing(t) => r.pages \subseteq op[t].todo
      <4>1. r.pages \subseteq Busy
        BY <1>1, BusyPages
      <4>2. \A t \in Threads : Flushing(t)' => r.pages \subseteq op'[t].todo
        BY <3>4, <4>1
      <4>3. (PageOf(u) \in Present \/ \E t \in Threads : Flushing(t))'
        BY <1>2, <3>4
      <4> QED
        BY <2>1, <4>2, <4>3
    <3> QED
      BY <1>2, <2>1, <3>2, <3>3, <3>4 DEF NoGap
  <2>2. CASE vnode.known /\ RunEnd(put'[Pageout]) =< vnode.fsize
    <3>1. put'[Pageout].len \in Nat /\ put'[Pageout].off \in Nat
      <4> DEFINE s == put'[Pageout]
                 n == Cardinality(s.pages) * PageSize
      <4>1. s.len \in 1 .. n /\ s.off \in Nat
        BY <1>1, <1>2, CleanNumbersAfter DEF Types, RunInv, InBounds, Sending, Numbers
      <4> HIDE DEF n
      <4> QED
        BY <4>1
    <3>2. u < vnode.fsize
      BY <1>1, <1>2, <2>2, <3>1, CleanNumbers DEF RunEnd, Numbers
    <3>3. link # NoFile /\ u >= File.size
      <4>1. link # NoFile
        BY <1>1, <2>2 DEF Remote, Named
      <4> QED
        BY <1>1, <1>2, <4>1, CleanNumbers, CleanNumbersAfter DEF Numbers
    <3>4. Wanted(u)
      BY <1>1, <2>2, <3>2, <3>3, CleanNumbers DEF SizeMeant, Numbers
    <3> QED
      BY <3>4
  <2> QED
    BY <1>1, <1>2, <2>1, <2>2 DEF RunsGoOn
<1> QED
  BY <1>2 DEF NoGap

\* Where a write request ends.
LEMMA WriteEnds ==
  ASSUME Types, link # NoFile, NEW d \in Daemons, NEW off \in Nat, NEW data \in Seq(Values),
         process_write_request(d, off, data)
  PROVE  File'.size \in {File.size, off + Len(data)}
<1> DEFINE g == pwrite(inode[link], off, data)
<1>1. link' = link /\ inode' = [inode EXCEPT ![link] = g]
  BY PathIsLink DEF process_write_request
<1>2. File' = g
  BY <1>1, DataTypes DEF File
<1>3. g.size \in {inode[link].size, off + Len(data)}
  BY DEF pwrite
<1> QED
  BY <1>2, <1>3 DEF File

\* A write request leaves in the file what it finds there, or brings what was written.
LEMMA FileMeantKept ==
  ASSUME Types, FileMeant, link # NoFile, NEW d \in Daemons,
         NEW off \in Nat, NEW data \in Seq(Values), process_write_request(d, off, data),
         \A u \in Units : Meant(u) => Meant(u)',
         \A u \in Units : u < off + Len(data) => Meant(u),
         \A u \in off .. off + Len(data) - 1 : data[u - off + 1] # "junk"
  PROVE  FileMeant'
<1>1. /\ link' = link
      /\ \A u \in Units :
           IF u \in off .. off + Len(data) - 1
           THEN File'.val[u] = data[u - off + 1]
           ELSE File'.val[u] = File.val[u]
  BY WriteReaches
<1>2. File'.size \in {File.size, off + Len(data)}
  BY WriteEnds
<1>3. ASSUME NEW u \in Units
      PROVE  (u < File'.size => Meant(u)') /\ File'.val[u] # "junk"
  BY <1>1, <1>2, <1>3 DEF FileMeant
<1> QED
  BY <1>3 DEF FileMeant

\* A step of the server alone.
LEMMA KernelStill ==
  ASSUME DataInv, Types', Clean, UNCHANGED <<vnode, pc, op, put>>, link' = link,
         link # NoFile => File'.size >= File.size,
         \A u \in Units : (Wanted(u) => Wanted(u)') /\ (Meant(u) => Meant(u)'),
         FileMeant', HeldMeant',
         \A u \in Units : Junk(u) => u >= File'.size /\ \A d \in Daemons : u >= HeldEnd(d)'
  PROVE  Clean'
<1>1. Types /\ Remote
  BY DEF DataInv
<1>2. Present' = Present /\ Busy' = Busy /\ (\A u : Junk(u)' = Junk(u))
  BY DEF Present, Busy, Junk
<1>3. RunsGoOn
  BY DEF RunsGoOn, Sending
<1>4. \A t \in Threads : EndOf(t)' = EndOf(t) /\ Flushing(t)' = Flushing(t)
  BY DEF EndOf, PartLen, Flushing
<1>5. SizeMeant'
  <2>1. vnode.known => link # NoFile
    BY <1>1 DEF Remote, Named
  <2>2. \A u \in Units : vnode.known /\ u < File.size => u < File'.size
    BY <1>1, <2>1, CleanNumbers, CleanNumbersAfter DEF Numbers
  <2> QED
    BY <2>2 DEF Clean, SizeMeant
<1>6. WriteMeant'
  BY <1>4 DEF Clean, WriteMeant
<1>7. SentMeant'
  BY <1>1, <1>3, SentKept DEF Clean
<1>8. JunkBeyond'
  <2>1. \A u \in Units : Junk(u)' =>
           /\ Junk(u) /\ u >= vnode'.fsize /\ u >= File'.size
           /\ \A t \in Threads : pc'[t] = "size" => u >= EndOf(t)'
           /\ \A d \in Daemons : u >= HeldEnd(d)'
    BY <1>2, <1>4 DEF Clean, JunkBeyond
  <2> QED
    BY <1>1, <1>3, <2>1, JunkKept DEF Clean
<1>9. NoGap'
  <2>1. \A t \in Threads : Flushing(t)' => Flushing(t) /\ op[t].todo \ op'[t].todo \subseteq Pages \ Busy
    BY <1>4
  <2> QED
    BY <1>2, <1>3, <1>4, <2>1, GapKept DEF Clean
<1> QED
  BY <1>5, <1>6, <1>7, <1>8, <1>9 DEF Clean

\* What a run on its way sends was written.
LEMMA SentIsClean ==
  ASSUME DataInv, Clean, NEW x \in Putters, Sending(x)
  PROVE  /\ put[x].off \in Nat /\ DataOf(put[x]) \in Seq(Values)
         /\ Len(DataOf(put[x])) = put[x].len
         /\ put[x].off + Len(DataOf(put[x])) = RunEnd(put[x])
         /\ \A u \in Units : u < RunEnd(put[x]) => Meant(u)
         /\ \A i \in 1 .. put[x].len : DataOf(put[x])[i] # "junk"
<1> DEFINE r == put[x]
<1>1. Types /\ Local /\ r \in Runs /\ r.off \in Nat
  BY DataTypes DEF DataInv, Runs
<1>2. r.len \in Nat \ {0} /\ r.step = "send"
  BY <1>1, SendingRuns DEF Sending
<1>3. DataOf(r) \in Seq(Values) /\ Len(DataOf(r)) = r.len
  BY <1>1, <1>2, DataTypes, DataTyped
<1>4. \A u \in Units : u < RunEnd(r) => Meant(u)
  BY DEF Clean, SentMeant
<1>5. ASSUME NEW i \in 1 .. r.len
      PROVE  DataOf(r)[i] # "junk"
  <2> DEFINE u == r.off + i - 1
  <2>1. u \in Nat /\ u \in Extent(r) /\ u - r.off + 1 = i /\ u < RunEnd(r)
    BY <1>1, <1>2, <1>5 DEF Extent, RunEnd
  <2>2. u \in Units
    <3>1. RunEnd(r) =< MaxSize /\ MaxSize \in Nat
      BY <1>1, <1>2, DataTypes DEF Types, TypeInv, Bounded, RunEnd
    <3>2. RunEnd(r) \in Nat
      BY <1>1, <1>2 DEF RunEnd
    <3> HIDE DEF u
    <3> QED
      BY <2>1, <3>1, <3>2 DEF Units
  <2> HIDE DEF u
  <2>3. PageOf(u) \in Present /\ DataOf(r)[i] = vnode.val[u]
    BY <1>1, <1>2, <2>1, <2>2, SentIsWanted
  <2>4. ~Junk(u)
    BY <1>1, <1>2, <2>1, <2>2, CleanNumbers DEF Clean, JunkBeyond, Numbers, RunEnd
  <2> QED
    BY <2>3, <2>4 DEF Junk
<1>6. r.off + r.len = RunEnd(r)
  BY DEF RunEnd
<1> QED
  BY <1>1, <1>3, <1>4, <1>5, <1>6

\* A request that its sender gives up: what it holds was to be sent.
LEMMA WithheldClean ==
  ASSUME DataInv, Clean, NEW x \in Putters, put[x].step = "send", put[x].len > 0,
         Withheld(x), want' = want
  PROVE  /\ HeldMeant' /\ FileMeant' /\ File' = File /\ (link # NoFile => File'.size >= File.size)
         /\ \A u \in Units : Junk(u) => u >= File'.size /\ \A e \in Daemons : u >= HeldEnd(e)'
<1> DEFINE data == DataOf(put[x])
<1>1. PICK d \in Daemons : held' = [held EXCEPT ![d] = [off |-> put[x].off, data |-> data]]
  BY DEF Withheld
<1>2. UNCHANGED <<inode, link>>
  BY DEF Withheld
<1>3. Types /\ Sending(x)
  BY <1>2 DEF DataInv, Sending
<1>4. /\ Len(data) = put[x].len /\ put[x].off + Len(data) = RunEnd(put[x])
      /\ \A u \in Units : u < RunEnd(put[x]) => Meant(u)
      /\ \A i \in 1 .. put[x].len : data[i] # "junk"
  BY <1>3, SentIsClean
<1>5. \A u \in Units : Meant(u)' = Meant(u) /\ Wanted(u)' = Wanted(u)
  BY <1>2 DEF Meant, Wanted
<1> HIDE DEF data
<1>6. \A e \in Daemons : IF e = d THEN held'[e] = [off |-> put[x].off, data |-> data]
                         ELSE held'[e] = held[e]
  BY <1>1, <1>3 DEF Types, TypeInv, ServerInv, HeldOK
<1>7. \A e \in Daemons : HeldEnd(e)' \in {HeldEnd(e), RunEnd(put[x])}
  BY <1>4, <1>6 DEF HeldEnd
<1>8. HeldMeant'
  <2>1. ASSUME NEW e \in Daemons, e # d
        PROVE  /\ \A u \in Units : u < HeldEnd(e)' => Meant(u)'
               /\ \A i \in 1 .. Len(held'[e].data) : held'[e].data[i] # "junk"
    <3>1. held'[e] = held[e] /\ HeldEnd(e)' = HeldEnd(e)
      BY <1>6, <2>1 DEF HeldEnd
    <3> QED
      BY <1>5, <3>1 DEF Clean, HeldMeant
  <2>2. /\ \A u \in Units : u < HeldEnd(d)' => Meant(u)'
        /\ \A i \in 1 .. Len(held'[d].data) : held'[d].data[i] # "junk"
    <3>1. held'[d].data = data /\ HeldEnd(d)' = RunEnd(put[x])
      BY <1>4, <1>6 DEF HeldEnd
    <3> QED
      BY <1>4, <1>5, <3>1
  <2> QED
    BY <2>1, <2>2 DEF HeldMeant
<1>9. FileMeant' /\ (link # NoFile => File'.size >= File.size) /\ File' = File
  BY <1>2, <1>3, <1>5, CleanNumbers DEF Clean, FileMeant, File, Numbers
<1>10. \A u \in Units : Junk(u) => u >= File'.size /\ \A e \in Daemons : u >= HeldEnd(e)'
  BY <1>3, <1>7, <1>9 DEF Clean, JunkBeyond
<1> QED
  BY <1>8, <1>9, <1>10

\* One that times out.
LEMMA TimeoutClean ==
  ASSUME DataInv, Types', Clean, NEW x \in Putters, TimeoutWrite(x)
  PROVE  Clean'
<1>1. /\ UNCHANGED <<link, vnode, pc, op, put, want>> /\ Withheld(x)
      /\ put[x].step = "send" /\ put[x].len > 0
  BY DEF TimeoutWrite, Withheld, ghost
<1>2. \A u \in Units : Meant(u)' = Meant(u) /\ Wanted(u)' = Wanted(u)
  BY <1>1 DEF Meant, Wanted
<1> QED
  BY <1>1, <1>2, WithheldClean, KernelStill

\* A request that comes late.
LEMMA LateWriteClean ==
  ASSUME DataInv, Types', Clean, NEW d \in Daemons, LateWrite(d)
  PROVE  Clean'
<1> DEFINE off == held[d].off
           data == held[d].data
<1>1. /\ UNCHANGED <<link, vnode, pc, op, put, want>>
      /\ held' = [held EXCEPT ![d] = NoData] /\ ~Ready(d)
      /\ process_write_request(d, off, data) \/ inode' = inode
  BY DEF LateWrite, ghost, process_write_request
<1>2. Types /\ Remote
  BY DEF DataInv
<1>3. off \in Nat /\ data \in Seq(Values)
  BY <1>2, DataTypes DEF HeldRecords, Units
<1>4. \A u \in Units : Meant(u)' = Meant(u) /\ Wanted(u)' = Wanted(u)
  BY <1>1 DEF Meant, Wanted
<1>5. \A e \in Daemons : held'[e] = IF e = d THEN NoData ELSE held[e]
  BY <1>1, <1>2 DEF Types, TypeInv, ServerInv, HeldOK
<1>6. held'[d].off = 0 /\ Len(held'[d].data) = 0 /\ HeldEnd(d)' = 0
  BY <1>5 DEF NoData, HeldEnd
<1>7. HeldMeant'
  <2>1. ASSUME NEW e \in Daemons, e # d
        PROVE  /\ \A u \in Units : u < HeldEnd(e)' => Meant(u)'
               /\ \A i \in 1 .. Len(held'[e].data) : held'[e].data[i] # "junk"
    <3>1. held'[e] = held[e] /\ HeldEnd(e)' = HeldEnd(e)
      BY <1>5, <2>1 DEF HeldEnd
    <3> QED
      BY <1>4, <3>1 DEF Clean, HeldMeant
  <2>2. /\ \A u \in Units : u < HeldEnd(d)' => Meant(u)'
        /\ \A i \in 1 .. Len(held'[d].data) : held'[d].data[i] # "junk"
    BY <1>2, <1>6, CleanNumbers DEF Numbers
  <2> QED
    BY <2>1, <2>2 DEF HeldMeant
<1>8. \A u \in Units : Junk(u) => \A e \in Daemons : u >= HeldEnd(e) /\ u >= HeldEnd(e)'
  <2>1. \A e \in Daemons : HeldEnd(e)' \in {HeldEnd(e), 0}
    BY <1>5, <1>6 DEF HeldEnd
  <2> QED
    BY <1>2, <2>1, CleanNumbers DEF Clean, JunkBeyond, Numbers
<1>9. HeldEnd(d) = off + Len(data)
  BY DEF HeldEnd
<1> HIDE DEF off, data
<1>10. CASE link = NoFile \/ inode' = inode
  <2>1. FileMeant' /\ (link # NoFile => File' = File)
    BY <1>1, <1>4, <1>10 DEF Clean, FileMeant, File
  <2>2. link # NoFile => File'.size >= File.size
    BY <1>2, <2>1, CleanNumbers DEF Numbers
  <2>3. \A u \in Units : Junk(u) => link # NoFile
    BY <1>2, DataTypes DEF Junk, Remote, Named
  <2>4. \A u \in Units : Junk(u) => u >= File'.size
    BY <2>1, <2>3 DEF Clean, JunkBeyond
  <2> QED
    BY <1>1, <1>4, <1>7, <1>8, <2>1, <2>2, <2>4, KernelStill
<1>11. CASE link # NoFile /\ process_write_request(d, off, data)
  <2>1. \A u \in off .. off + Len(data) - 1 : data[u - off + 1] # "junk"
    <3>1. \A i \in 1 .. Len(data) : data[i] # "junk"
      BY DEF Clean, HeldMeant, data
    <3>2. \A u \in off .. off + Len(data) - 1 : u - off + 1 \in 1 .. Len(data)
      BY <1>3
    <3> QED
      BY <3>1, <3>2
  <2>2. \A u \in Units : u < off + Len(data) => Meant(u)
    BY <1>9 DEF Clean, HeldMeant
  <2>3. FileMeant'
    BY <1>2, <1>3, <1>4, <1>11, <2>1, <2>2, FileMeantKept DEF Clean
  <2>4. File'.size \in {File.size, off + Len(data)} /\ File'.size >= File.size
    BY <1>2, <1>3, <1>11, WriteEnds, WriteReaches
  <2>5. \A u \in Units : Junk(u) => u >= File'.size
    BY <1>8, <1>9, <2>4 DEF Clean, JunkBeyond
  <2> QED
    BY <1>1, <1>4, <1>7, <1>8, <2>3, <2>4, <2>5, KernelStill
<1> QED
  BY <1>1, <1>10, <1>11

\* Another client overwrites what is there.
LEMMA OtherWritesClean ==
  ASSUME DataInv, Types', Clean, OtherWrites
  PROVE  Clean'
<1>1. Types
  BY DEF DataInv
<1>2. UNCHANGED <<link, held, vnode, pc, op, put>> /\ link # NoFile
  BY DEF OtherWrites
<1>3. PICK w \in 0 .. File.size - 1 :
        /\ inode' = [inode EXCEPT ![link].val[w] = "other", ![link].mtime = now]
        /\ want' = [want EXCEPT ![w] = "other"]
  BY DEF OtherWrites
<1>4. File \in FileRecords /\ link \in Inodes
  BY <1>1, <1>2, DataTypes
<1>5. File' = [File EXCEPT !.val[w] = "other", !.mtime = now]
  BY <1>1, <1>2, <1>3, <1>4, DataTypes DEF File, FileRecords
<1>6. File'.size = File.size /\ File'.val = [File.val EXCEPT ![w] = "other"]
  BY <1>4, <1>5 DEF FileRecords
<1>7. \A u \in Units : want'[u] = IF u = w THEN "other" ELSE want[u]
  BY <1>1, <1>3, DataTypes DEF Marks
<1>8. \A u \in Units : (Wanted(u) => Wanted(u)') /\ (Meant(u) => Meant(u)')
  BY <1>7 DEF Wanted, Meant, Nothing, Truncated
<1>9. FileMeant'
  BY <1>2, <1>4, <1>6, <1>8 DEF Clean, FileMeant, FileRecords
<1>10. \A d \in Daemons : HeldEnd(d)' = HeldEnd(d)
  BY <1>2 DEF HeldEnd
<1>11. HeldMeant'
  BY <1>2, <1>8, <1>10 DEF Clean, HeldMeant
<1>12. File'.size >= File.size
  BY <1>1, <1>2, <1>6, CleanNumbers DEF Numbers
<1>13. \A u \in Units : Junk(u) => u >= File'.size /\ \A d \in Daemons : u >= HeldEnd(d)'
  BY <1>6, <1>10 DEF Clean, JunkBeyond
<1> QED
  BY <1>2, <1>8, <1>9, <1>11, <1>12, <1>13, KernelStill

\* The clock, another path, and a step that does nothing.
LEMMA QuietClean ==
  ASSUME DataInv, Types', Clean,
         UNCHANGED <<inode, link, held, vnode, pc, op, put, want>>
  PROVE  Clean'
<1>1. File' = File /\ \A d \in Daemons : HeldEnd(d)' = HeldEnd(d)
  BY DEF File, HeldEnd
<1>2. \A u \in Units : Wanted(u)' = Wanted(u) /\ Meant(u)' = Meant(u)
  BY DEF Wanted, Meant
<1>3. link # NoFile => File'.size >= File.size
  BY <1>1, CleanNumbers DEF DataInv, Numbers
<1>4. FileMeant' /\ HeldMeant'
  BY <1>1, <1>2 DEF Clean, FileMeant, HeldMeant
<1>5. \A u \in Units : Junk(u) => u >= File'.size /\ \A d \in Daemons : u >= HeldEnd(d)'
  BY <1>1 DEF Clean, JunkBeyond
<1> QED
  BY <1>1, <1>2, <1>3, <1>4, <1>5, KernelStill

-----------------------------------------------------------------------------
\* A step that puts pages, or ends a put.
LEMMA PutClean ==
  ASSUME DataInv, Types', Clean, UNCHANGED <<link, want>>, held' = held \/ HeldMeant',
         FileMeant', link # NoFile => File'.size >= File.size,
         \A u \in Units : Junk(u) =>
           u >= File'.size /\ (held' = held \/ \A d \in Daemons : u >= HeldEnd(d)'),
         vnode'.known = vnode.known, vnode'.fsize = vnode.fsize, Present' \subseteq Present,
         \A u \in Units : PageOf(u) \in Present' => vnode'.val[u] = vnode.val[u],
         RunsGoOn,
         Sending(Pageout)' => Present \subseteq Present' \/ \E t \in Threads : Flushing(t)',
         \A t \in Threads :
           /\ pc'[t] \in {"write", "size"} =>
                pc'[t] = pc[t] /\ op'[t].off = op[t].off /\ op'[t].len = op[t].len
           /\ Flushing(t)' = Flushing(t) /\ op[t].todo \ op'[t].todo \subseteq Pages \ Busy
  PROVE  Clean'
<1>1. Types /\ Remote
  BY DEF DataInv
<1>2. \A u \in Units : Junk(u)' => Junk(u)
  BY DEF Junk
<1>3. \A u \in Units : Wanted(u)' = Wanted(u) /\ Meant(u)' = Meant(u)
  BY DEF Wanted, Meant
<1>4. \A t \in Threads : pc'[t] = "size" => pc[t] = "size" /\ EndOf(t)' = EndOf(t)
  BY DEF EndOf, PartLen
<1>5. SizeMeant'
  <2>1. vnode.known => link # NoFile
    BY <1>1 DEF Remote, Named
  <2>2. \A u \in Units : vnode.known /\ u < File.size => u < File'.size
    BY <1>1, <2>1, CleanNumbers, CleanNumbersAfter DEF Numbers
  <2> QED
    BY <1>3, <2>2 DEF Clean, SizeMeant
<1>6. WriteMeant'
  BY <1>3, <1>4 DEF Clean, WriteMeant
<1>7. SentMeant'
  BY <1>1, <1>3, SentKept DEF Clean
<1>8. \A u \in Units : Junk(u) => \A d \in Daemons : u >= HeldEnd(d)'
  BY DEF Clean, JunkBeyond, HeldEnd
<1>9. HeldMeant'
  BY <1>3 DEF Clean, HeldMeant, HeldEnd
<1>10. JunkBeyond'
  <2>1. \A u \in Units : Junk(u)' =>
           /\ Junk(u) /\ u >= vnode'.fsize /\ u >= File'.size
           /\ \A t \in Threads : pc'[t] = "size" => u >= EndOf(t)'
           /\ \A d \in Daemons : u >= HeldEnd(d)'
    BY <1>2, <1>4, <1>8 DEF Clean, JunkBeyond
  <2> QED
    BY <1>1, <2>1, JunkKept DEF Clean
<1>11. NoGap'
  BY <1>3, GapKept DEF Clean
<1> QED
  BY <1>5, <1>6, <1>7, <1>9, <1>10, <1>11 DEF Clean

\* A put that ends.
LEMMA FinishClean ==
  ASSUME DataInv, Types', Clean, NEW x \in Putters, NEW ok \in BOOLEAN, Finish(x, ok),
         put[x].step = "send", link' = link, held' = held \/ HeldMeant',
         FileMeant', link # NoFile => File'.size >= File.size,
         \A u \in Units : Junk(u) =>
           u >= File'.size /\ (held' = held \/ \A d \in Daemons : u >= HeldEnd(d)')
  PROVE  Clean'
<1> DEFINE gone == IF ok THEN put[x].pages \ Dirty ELSE {}
<1>1. Types /\ Local
  BY DEF DataInv
<1>2. /\ Present' = Present \ gone
      /\ \A u \in Units : PageOf(u) \notin gone => vnode'.val[u] = vnode.val[u]
      /\ vnode'.fsize = vnode.fsize /\ vnode'.known = vnode.known
  BY <1>1, FinishPages
<1>3. /\ want' = want /\ put'[x] = NoRun /\ \A y \in Putters : y # x => put'[y] = put[y]
      /\ x \in Threads => pc'[x] = "flush"
      /\ \A t \in Threads : /\ t # x => pc'[t] = pc[t] /\ op'[t] = op[t]
                            /\ op'[t].todo = op[t].todo /\ Flushing(t)' = Flushing(t)
  BY <1>1, FinishThreads
<1> HIDE DEF gone
<1>4. ~Sending(x)'
  BY <1>3 DEF Sending, NoRun
<1>5. RunsGoOn
  BY <1>3, <1>4 DEF RunsGoOn, Sending
<1>6. Sending(Pageout)' => \E t \in Threads : Flushing(t)'
  <2>1. Sending(Pageout)' => x \in Threads
    BY <1>4 DEF Putters
  <2> QED
    BY <1>3, <2>1 DEF Flushing
<1>7. \A t \in Threads :
        /\ pc'[t] \in {"write", "size"} =>
             pc'[t] = pc[t] /\ op'[t].off = op[t].off /\ op'[t].len = op[t].len
        /\ Flushing(t)' = Flushing(t) /\ op[t].todo \ op'[t].todo \subseteq Pages \ Busy
  BY <1>3
<1>8. \A u \in Units : PageOf(u) \in Present' => vnode'.val[u] = vnode.val[u]
  BY <1>2
<1>9. Present' \subseteq Present
  BY <1>2
<1> QED
  BY <1>2, <1>3, <1>5, <1>6, <1>7, <1>8, <1>9, PutClean

\* A write request, and a put of which nothing is left to send.
LEMMA RequestClean ==
  ASSUME DataInv, Types', Clean, NEW x \in Putters,
         iumfs_request_write(x) \/ (x = Pageout /\ PageoutNothing)
  PROVE  Clean'
<1>1. Types /\ Remote
  BY DEF DataInv
<1>2. \A ok \in BOOLEAN : Finish(x, ok) => want' = want
  BY DEF Finish, ghost
<1>3. ASSUME NEW ok \in BOOLEAN, Finish(x, ok), put[x].step = "send",
             UNCHANGED <<inode, link, held>>
      PROVE  Clean'
  <2>1. File' = File /\ (link # NoFile => File'.size >= File.size)
    BY <1>1, <1>3, CleanNumbers DEF File, Numbers
  <2>2. FileMeant'
    BY <1>2, <1>3, <2>1 DEF Clean, FileMeant, Meant
  <2>3. \A u \in Units : Junk(u) => u >= File'.size
    BY <2>1 DEF Clean, JunkBeyond
  <2> QED
    BY <1>3, <2>1, <2>2, <2>3, FinishClean
<1>4. CASE iumfs_request_write(x)
  <2>1. put[x].step = "send" /\ put[x].len > 0
    BY <1>4 DEF iumfs_request_write
  <2>2. Sending(x)
    BY <2>1 DEF Sending
  <2>3. ASSUME NEW d \in Daemons, held' = held,
               process_write_request(d, put[x].off, DataOf(put[x])), Finish(x, TRUE)
        PROVE  Clean'
    <3> DEFINE off == put[x].off
               data == DataOf(put[x])
    <3>1. vnode.known /\ link # NoFile
      BY <1>1, <2>2, SendingRuns DEF Remote, Named
    <3>2. /\ off \in Nat /\ data \in Seq(Values) /\ off + Len(data) = RunEnd(put[x])
          /\ \A u \in Units : u < RunEnd(put[x]) => Meant(u)
          /\ \A i \in 1 .. Len(data) : data[i] # "junk"
      BY <2>2, SentIsClean
    <3>3. process_write_request(d, off, data)
      BY <2>3
    <3> HIDE DEF off, data
    <3>4. \A u \in off .. off + Len(data) - 1 : data[u - off + 1] # "junk"
      <4>1. \A u \in off .. off + Len(data) - 1 : u - off + 1 \in 1 .. Len(data)
        BY <3>2
      <4> QED
        BY <3>2, <4>1
    <3>5. \A u \in Units : Meant(u) => Meant(u)'
      BY <1>2, <2>3 DEF Meant
    <3>6. FileMeant'
      BY <1>1, <3>1, <3>2, <3>3, <3>4, <3>5, FileMeantKept DEF Clean
    <3>7. File'.size \in {File.size, RunEnd(put[x])} /\ File'.size >= File.size /\ link' = link
      BY <1>1, <3>1, <3>2, <3>3, WriteEnds, WriteReaches
    <3>8. \A u \in Units : Junk(u) => u >= File'.size
      BY <2>2, <3>7 DEF Clean, JunkBeyond
    <3> QED
      BY <2>1, <2>3, <3>6, <3>7, <3>8, FinishClean
  <2>4. CASE UNCHANGED <<inode, link, held>> /\ Finish(x, FALSE)
    BY <1>3, <2>1, <2>4
  <2>5. CASE Withheld(x) /\ Finish(x, FALSE)
    <3>1. want' = want /\ link' = link
      BY <1>2, <2>5 DEF Withheld
    <3>2. /\ HeldMeant' /\ FileMeant' /\ (link # NoFile => File'.size >= File.size)
          /\ \A u \in Units : Junk(u) => u >= File'.size /\ \A e \in Daemons : u >= HeldEnd(e)'
      BY <2>1, <2>5, <3>1, WithheldClean
    <3> QED
      BY <2>1, <2>5, <3>1, <3>2, FinishClean
  <2> QED
    BY <1>4, <2>3, <2>4, <2>5 DEF iumfs_request_write, server
<1>5. CASE x = Pageout /\ PageoutNothing
  BY <1>3, <1>5 DEF PageoutNothing, server
<1> QED
  BY <1>4, <1>5

\* pageout takes pages,
LEMMA PageoutStartClean ==
  ASSUME DataInv, Types', Clean, PageoutStart
  PROVE  Clean'
<1>1. Types /\ TypeOK
  BY DataTypes DEF DataInv
<1>2. UNCHANGED <<inode, link, held, pc, op, want>> /\ put[Pageout] = NoRun
  BY DEF PageoutStart, server, ghost
<1>3. PICK p \in Present \ Busy :
        IF p \in Dirty
        THEN /\ put' = [put EXCEPT ![Pageout] = Run(Kluster(p))]
             /\ vnode' = Marked(Kluster(p), "clean")
        ELSE UNCHANGED put /\ vnode' = Without({p})
  BY DEF PageoutStart
<1>4. /\ vnode'.known = vnode.known /\ vnode'.fsize = vnode.fsize /\ Present' \subseteq Present
      /\ \A u \in Units : PageOf(u) \in Present' => vnode'.val[u] = vnode.val[u]
  <2>1. CASE p \in Dirty
    <3>1. Kluster(p) \in SUBSET Pages /\ Kluster(p) \subseteq Present
      BY DEF Kluster, Dirty, Present
    <3> QED
      BY <1>1, <1>3, <2>1, <3>1, MarkedClean
  <2>2. CASE p \notin Dirty
    <3>1. {p} \in SUBSET Pages /\ vnode' = Without({p})
      BY <1>3, <2>2 DEF Present
    <3> QED
      BY <1>1, <3>1, WithoutPages
  <2> QED
    BY <2>1, <2>2
<1>5. ~Sending(Pageout)' /\ RunsGoOn
  <2>1. CASE p \in Dirty
    <3>1. Run(Kluster(p)).step = "over"
      BY DEF Run
    <3>2. \A x \in Putters : put'[x] = IF x = Pageout THEN Run(Kluster(p)) ELSE put[x]
      BY <1>1, <1>3, <2>1 DEF TypeOK
    <3> QED
      BY <3>1, <3>2 DEF Sending, RunsGoOn, Putters
  <2>2. CASE p \notin Dirty
    BY <1>2, <1>3, <2>2 DEF Sending, RunsGoOn, NoRun
  <2> QED
    BY <2>1, <2>2
<1>6. File' = File /\ (link # NoFile => File'.size >= File.size)
  BY <1>1, <1>2, CleanNumbers DEF File, Numbers
<1>7. FileMeant' /\ \A u \in Units : Junk(u) => u >= File'.size
  BY <1>2, <1>6 DEF Clean, FileMeant, Meant, JunkBeyond
<1>8. \A t \in Threads : Flushing(t)' = Flushing(t)
  BY <1>2 DEF Flushing
<1> QED
  BY <1>2, <1>4, <1>5, <1>6, <1>7, <1>8, PutClean

\* and tests its run with the size as it is now.
LEMMA PageoutSizeClean ==
  ASSUME DataInv, Types', Clean, PageoutSize
  PROVE  Clean'
<1> DEFINE r == put[Pageout]
           size == vnode.fsize
<1>1. Types /\ Pageout \in Putters /\ r \in Runs
  BY DataTypes DEF DataInv, Putters
<1>2. UNCHANGED <<inode, link, held, vnode, pc, op, want>>
  BY DEF PageoutSize, server, ghost
<1>3. size \in Nat /\ r.off \in Nat /\ r.len \in Int
  BY <1>1, CleanNumbers DEF Numbers
<1>4. ASSUME NEW s, put' = [put EXCEPT ![Pageout] = s], r.step # "none",
             s.step = "send" => RunEnd(s) =< size
      PROVE  RunsGoOn
  <2>1. \A x \in Putters : put'[x] = IF x = Pageout THEN s ELSE put[x]
    BY <1>1, <1>4, DataTypes
  <2>2. vnode.known
    BY <1>1, <1>4, Known DEF Types
  <2> QED
    BY <1>4, <2>1, <2>2 DEF RunsGoOn, Sending
<1>5. RunsGoOn
  <2>1. CASE r.step = "over"
    <3> DEFINE s == [r EXCEPT !.step = IF r.off + r.len > size THEN "below" ELSE "send"]
    <3>1. /\ RunEnd(s) = r.off + r.len
          /\ s.step = IF r.off + r.len > size THEN "below" ELSE "send"
      BY <1>1 DEF Runs, RunEnd
    <3>2. put' = [put EXCEPT ![Pageout] = s]
      BY <2>1 DEF PageoutSize
    <3> HIDE DEF s, size
    <3>3. s.step = "send" => RunEnd(s) =< size
      BY <1>3, <3>1
    <3> QED
      BY <1>4, <2>1, <3>2, <3>3
  <2>2. CASE r.step \in {"below", "base"}
    <3>1. \E s : s.step # "send" /\ put' = [put EXCEPT ![Pageout] = s]
      <4>1. /\ [r EXCEPT !.step = IF size < r.off THEN "base" ELSE "length"].step # "send"
            /\ [r EXCEPT !.step = "length", !.off = size].step # "send"
        BY <1>1 DEF Runs
      <4> QED
        BY <2>2, <4>1 DEF PageoutSize
    <3> QED
      BY <1>4, <2>2, <3>1
  <2>3. CASE r.step = "length"
    <3> DEFINE s == [r EXCEPT !.step = "send", !.len = size - r.off]
    <3>1. s.off = r.off /\ s.len = size - r.off
      BY <1>1 DEF Runs
    <3>2. put' = [put EXCEPT ![Pageout] = s]
      BY <2>3 DEF PageoutSize
    <3> HIDE DEF s, size
    <3>3. RunEnd(s) =< size
      BY <1>3, <3>1 DEF RunEnd
    <3> QED
      BY <1>4, <2>3, <3>2, <3>3
  <2> QED
    BY <2>1, <2>2, <2>3 DEF PageoutSize
<1>6. File' = File /\ (link # NoFile => File'.size >= File.size)
  BY <1>1, <1>2, CleanNumbers DEF File, Numbers
<1>7. FileMeant' /\ \A u \in Units : Junk(u) => u >= File'.size
  BY <1>2, <1>6 DEF Clean, FileMeant, Meant, JunkBeyond
<1>8. Present' = Present /\ \A t \in Threads : Flushing(t)' = Flushing(t)
  BY <1>2 DEF Flushing, Present
<1> QED
  BY <1>2, <1>5, <1>6, <1>7, <1>8, PutClean

\* putpage comes to a page.
LEMMA PutpageClean ==
  ASSUME DataInv, Types', Clean, NEW t \in Threads, iumfs_putpage(t)
  PROVE  Clean'
<1> DEFINE p == Min(op[t].todo)
           r == Clipped(Run(Kluster(p)))
<1>1. Types /\ Local /\ TypeOK /\ op[t] \in Operations
  BY DataTypes DEF DataInv
<1>2. /\ UNCHANGED <<inode, link, held, want>>
      /\ pc[t] = "flush" /\ op[t].todo # {} /\ p \notin Busy
      /\ op' = [op EXCEPT ![t].todo = @ \ {p}]
  BY DEF iumfs_putpage, server, ghost
<1>3. p \in Pages
  <2>1. op[t].todo \in SUBSET Nat /\ op[t].todo \subseteq Pages
    BY <1>1, PagesFinite DEF Operations
  <2> QED
    BY <1>2, <2>1, MinOfNat
<1> HIDE DEF p
<1>4. \A s \in Threads : op'[s] = IF s = t THEN [op[t] EXCEPT !.todo = @ \ {p}] ELSE op[s]
  BY <1>1, <1>2, DataTypes
<1>5. /\ op'[t].todo = op[t].todo \ {p}
      /\ \A s \in Threads : s # t => op'[s] = op[s]
  BY <1>1, <1>4 DEF Operations
<1>6. ASSUME p \in Dirty
      PROVE  /\ r.step = "send" /\ r.pages \in SUBSET Pages /\ r.pages \subseteq Present
             /\ vnode.known /\ RunEnd(r) =< vnode.fsize
  <2> DEFINE run == Run(Kluster(p))
  <2>1. p \in Dirty \ Busy
    BY <1>2, <1>6
  <2>2. /\ run \in Runs /\ Whole(run) /\ Covers(run) /\ run.pages = Kluster(p)
        /\ Kluster(p) \subseteq Dirty \ Busy /\ Kluster(p) \in SUBSET Pages
    BY <1>1, <2>1, RunCollected
  <2>3. vnode.fsize \in Nat /\ run.off \in Nat /\ run.len \in Int
    BY <1>1, <2>2, CleanNumbers DEF Numbers, Runs
  <2> HIDE DEF run
  <2>4. Clipped(run).step = "send" /\ Clipped(run).pages = run.pages
    BY <2>2, <2>3, ClippedCovers
  <2>5. RunEnd(Clipped(run)) =< vnode.fsize
    <3>1. CASE run.off + run.len =< vnode.fsize
      <4>1. Clipped(run) = [run EXCEPT !.step = "send"]
        BY <3>1 DEF Clipped
      <4>2. Clipped(run).off = run.off /\ Clipped(run).len = run.len
        BY <2>2, <4>1 DEF Runs
      <4> QED
        BY <3>1, <4>2 DEF RunEnd
    <3>2. CASE ~(run.off + run.len =< vnode.fsize)
      <4> DEFINE off == IF vnode.fsize < run.off THEN vnode.fsize ELSE run.off
      <4>1. Clipped(run) = [run EXCEPT !.step = "send", !.off = off, !.len = vnode.fsize - off]
        BY <3>2 DEF Clipped
      <4>2. off \in Nat
        BY <2>3
      <4> HIDE DEF off
      <4>3. Clipped(run).off = off /\ Clipped(run).len = vnode.fsize - off
        BY <2>2, <4>1 DEF Runs
      <4> QED
        BY <2>3, <4>2, <4>3 DEF RunEnd
    <3> QED
      BY <3>1, <3>2
  <2>6. vnode.known /\ Kluster(p) \subseteq Present
    BY <1>1, <1>2, <2>2, Known DEF Types, Dirty, Present
  <2> QED
    BY <2>2, <2>4, <2>5, <2>6 DEF run
<1>7. /\ vnode'.known = vnode.known /\ vnode'.fsize = vnode.fsize /\ Present' \subseteq Present
      /\ \A u \in Units : PageOf(u) \in Present' => vnode'.val[u] = vnode.val[u]
  <2>1. \/ vnode' = Without({p})
        \/ p \in Dirty /\ (vnode' = Without(r.pages) \/ vnode' = Marked(r.pages, "clean"))
    BY DEF iumfs_putpage, p
  <2> HIDE DEF r
  <2>2. \E ps \in SUBSET Pages : \/ vnode' = Without(ps)
                                 \/ ps \subseteq Present /\ vnode' = Marked(ps, "clean")
    BY <1>3, <1>6, <2>1
  <2> QED
    BY <1>1, <2>2, MarkedClean, WithoutPages
<1>8. /\ RunsGoOn
      /\ pc'[t] \in {"flush", "put"} /\ \A s \in Threads : s # t => pc'[s] = pc[s]
  <2>1. CASE UNCHANGED <<put, pc>>
    BY <1>2, <2>1 DEF RunsGoOn, Sending
  <2>2. CASE p \in Dirty /\ put' = [put EXCEPT ![t] = r] /\ Goto(t, "put")
    <3> HIDE DEF r
    <3>1. \A x \in Putters : put'[x] = IF x = t THEN r ELSE put[x]
      BY <1>1, <2>2, DataTypes
    <3>2. pc'[t] = "put" /\ \A s \in Threads : s # t => pc'[s] = pc[s]
      BY <1>1, <2>2, OpAfter
    <3> QED
      BY <1>6, <2>2, <3>1, <3>2 DEF RunsGoOn, Sending
  <2> QED
    BY <2>1, <2>2 DEF iumfs_putpage, p
<1>9. \A s \in Threads : Flushing(s)' = Flushing(s)
  BY <1>2, <1>8 DEF Flushing
<1>10. \A s \in Threads :
         /\ pc'[s] \in {"write", "size"} =>
              pc'[s] = pc[s] /\ op'[s].off = op[s].off /\ op'[s].len = op[s].len
         /\ Flushing(s)' = Flushing(s) /\ op[s].todo \ op'[s].todo \subseteq Pages \ Busy
  BY <1>2, <1>3, <1>5, <1>8, <1>9
<1>11. \E s \in Threads : Flushing(s)'
  BY <1>8 DEF Flushing
<1>12. File' = File /\ (link # NoFile => File'.size >= File.size)
  BY <1>1, <1>2, CleanNumbers DEF File, Numbers
<1>13. FileMeant' /\ \A u \in Units : Junk(u) => u >= File'.size
  BY <1>2, <1>12 DEF Clean, FileMeant, Meant, JunkBeyond
<1> QED
  BY <1>2, <1>7, <1>8, <1>10, <1>11, <1>12, <1>13, PutClean

-----------------------------------------------------------------------------
\* A vnode without pages that nobody works on.
LEMMA RestIsClean ==
  ASSUME \A p \in Pages : vnode'.page[p] = "none", \A u \in Units : ~(u < vnode'.fsize),
         \A x \in Putters : put'[x] = NoRun, \A t \in Threads : pc'[t] = "idle",
         FileMeant', HeldMeant'
  PROVE  Clean'
<1>1. \A u : ~Junk(u)'
  BY DEF Junk, Present
<1>2. \A x \in Putters : ~Sending(x)'
  BY DEF Sending, NoRun
<1>3. Pageout \in Putters
  BY DEF Putters
<1> QED
  BY <1>1, <1>2, <1>3 DEF Clean, SizeMeant, WriteMeant, JunkBeyond, NoGap, SentMeant

\* lookup, create and remove.
LEMMA LookupClean ==
  ASSUME DataInv, Clean, NEW t \in Threads, iumfs_lookup(t)
  PROVE  Clean'
<1>1. Types /\ Remote
  BY DEF DataInv
<1>2. UNCHANGED <<inode, link, held, pc, put, want>> /\ ~vnode.known /\ vnode' = NewVnode
  BY DEF iumfs_lookup, server, ghost
<1>3. /\ vnode'.fsize = 0 /\ \A p \in Pages : vnode'.page[p] = "none"
  BY <1>2 DEF NewVnode, NoVnode
<1>4. \A u \in Units : ~(u < vnode'.fsize)
  BY <1>1, <1>3, CleanNumbers DEF Numbers
<1>5. (\A x \in Putters : put[x] = NoRun) /\ (\A s \in Threads : pc[s] = "idle")
  BY <1>1, <1>2, AllOnServer
<1>6. FileMeant' /\ HeldMeant'
  BY <1>2 DEF Clean, FileMeant, HeldMeant, Meant, File, HeldEnd
<1> QED
  BY <1>2, <1>3, <1>4, <1>5, <1>6, RestIsClean

LEMMA MakeClean ==
  ASSUME Careful, DataInv, Clean,
         ~vnode.known, link = NoFile \/ "nomem" \in Faults,
         \E d \in Daemons : process_create_request(d),
         vnode' = NewVnode, UNCHANGED <<i_dlock, pc, op, put, ghost>>
  PROVE  Clean'
<1>1. Types /\ Remote
  BY DEF DataInv
<1>2. link = NoFile /\ UNCHANGED <<held, pc, put, want>>
  BY DEF Careful, process_create_request, ghost
<1>3. PICK i \in Inodes : link' = i /\ inode' = [inode EXCEPT ![i] = Empty]
  BY <1>2 DEF process_create_request, FreshInode
<1>4. File' = Empty
  BY <1>1, <1>3, DataTypes DEF File
<1>5. File'.size = 0 /\ \A u \in Units : File'.val[u] = "zero"
  BY <1>4 DEF Empty, Zeros
<1>6. vnode'.fsize = 0 /\ \A p \in Pages : vnode'.page[p] = "none"
  BY DEF NewVnode, NoVnode
<1>7. \A u \in Units : ~(u < 0)
  BY <1>1, CleanNumbers DEF Numbers
<1>8. (\A x \in Putters : put[x] = NoRun) /\ (\A s \in Threads : pc[s] = "idle")
  BY <1>1, AllOnServer
<1>9. FileMeant'
  BY <1>5, <1>7 DEF FileMeant
<1>10. HeldMeant'
  BY <1>2 DEF Clean, HeldMeant, Meant, HeldEnd
<1> QED
  BY <1>2, <1>6, <1>7, <1>8, <1>9, <1>10, RestIsClean

LEMMA RemoveClean ==
  ASSUME Careful, DataInv, Clean, NEW t \in Threads, iumfs_remove(t)
  PROVE  Clean'
<1>1. Types /\ Remote
  BY DEF DataInv
<1>2. /\ UNCHANGED <<held, pc, put>> /\ link' = NoFile /\ vnode' = NoVnode
      /\ Dirty \cup Busy = {} /\ \A s \in Threads : pc[s] = "idle"
      /\ \E d \in Daemons : Ready(d)
  BY DEF iumfs_remove, process_remove_request
<1>3. vnode'.fsize = 0 /\ \A p \in Pages : vnode'.page[p] = "none"
  BY <1>2 DEF NoVnode
<1>4. \A u \in Units : ~(u < 0)
  BY <1>1, CleanNumbers DEF Numbers
<1>5. ASSUME NEW x \in Putters
      PROVE  put[x] = NoRun
  <2>1. put[x].pages = {}
    BY <1>2, BusyPages
  <2> QED
    BY <1>1, <2>1 DEF Types, RunInv, Tested
<1>6. HeldMeant'
  <2>1. \A d \in Daemons : held'[d] = NoData
    BY <1>1, <1>2, NoneHeld DEF Remote, Ready
  <2>2. \A d \in Daemons : HeldEnd(d)' = 0 /\ Len(held'[d].data) = 0
    BY <2>1 DEF HeldEnd, NoData
  <2> QED
    BY <1>4, <2>2 DEF HeldMeant
<1>7. FileMeant'
  BY <1>2 DEF FileMeant
<1> QED
  BY <1>2, <1>3, <1>4, <1>5, <1>6, <1>7, RestIsClean

\* A step of a thread that puts nothing and destroys no page.  A flush that it starts
\* has everything yet to come to.
LEMMA MoveClean ==
  ASSUME DataInv, Types', Clean, UNCHANGED <<inode, link, held, put>>,
         \A u \in Units : Meant(u) => Meant(u)',
         SizeMeant', WriteMeant', JunkBeyond', Present \subseteq Present',
         \A t \in Threads : /\ Flushing(t)' => op'[t].todo = Present
                            /\ Flushing(t) => op[t].todo = {}
  PROVE  Clean'
<1>1. Types /\ Remote /\ Local /\ Pageout \in Putters
  BY DEF DataInv, Putters
<1>2. File' = File /\ \A d \in Daemons : HeldEnd(d)' = HeldEnd(d)
  BY DEF File, HeldEnd
<1>3. FileMeant' /\ HeldMeant'
  BY <1>2 DEF Clean, FileMeant, HeldMeant
<1>4. SentMeant'
  BY DEF Clean, SentMeant, Sending
<1>5. ASSUME Sending(Pageout), NEW u \in Units, u < put[Pageout].off, u >= File.size
      PROVE  /\ PageOf(u) \in Present'
             /\ \A t \in Threads : Flushing(t)' => put[Pageout].pages \subseteq op'[t].todo
  <2>1. put[Pageout].pages # {} /\ put[Pageout].pages \subseteq Present
    BY <1>1, <1>5, SendingRuns DEF Local, Apart
  <2>2. PageOf(u) \in Present
    <3>1. CASE Wanted(u)
      BY <1>5, <3>1, WaitingIsPresent
    <3>2. CASE /\ PageOf(u) \in Present \/ \E t \in Threads : Flushing(t)
               /\ \A t \in Threads : Flushing(t) => put[Pageout].pages \subseteq op[t].todo
      BY <2>1, <3>2
    <3> QED
      BY <1>5, <3>1, <3>2 DEF Clean, NoGap
  <2> QED
    BY <2>1, <2>2
<1>6. NoGap'
  BY <1>2, <1>5 DEF NoGap, Sending
<1> QED
  BY <1>3, <1>4, <1>6 DEF Clean

\* Such a step often reads no page and counts nothing in.
LEMMA EasyMove ==
  ASSUME DataInv, Types', Clean, UNCHANGED <<inode, link, held, put>>, NEW t \in Threads,
         \A u \in Units : Meant(u) => Meant(u)',
         vnode'.page = vnode.page, vnode'.val = vnode.val, vnode'.known = vnode.known,
         \/ vnode'.fsize = vnode.fsize /\ want' = want
         \/ vnode'.fsize \in {0, File.size} /\ vnode.known /\ pc'[t] # "write",
         pc[t] = "flush" => op[t].todo = {},
         pc'[t] \in {"idle", "verify", "read", "write", "flush"},
         pc'[t] = "write" => op'[t].off =< vnode'.fsize,
         pc'[t] = "flush" => op'[t].todo = Present,
         \A s \in Threads : s # t => pc[s] = "idle" /\ pc'[s] = "idle",
         pc[t] # "put"
  PROVE  Clean'
<1>1. Types /\ Remote
  BY DEF DataInv
<1>2. File' = File /\ (\A d \in Daemons : HeldEnd(d)' = HeldEnd(d)) /\ Present' = Present
  BY DEF File, HeldEnd, Present
<1>3. \A u \in Units : Junk(u)' = Junk(u)
  BY <1>2 DEF Junk
<1>4. vnode.known => link # NoFile
  BY <1>1 DEF Remote, Named
<1>5. SizeMeant'
  <2>1. CASE vnode'.fsize = vnode.fsize /\ want' = want
    BY <1>2, <2>1 DEF Clean, SizeMeant, Meant, Wanted
  <2>2. CASE vnode'.fsize = 0
    <3>1. \A u \in Units : ~(u < vnode'.fsize)
      BY <1>1, <2>2, CleanNumbers DEF Numbers
    <3> QED
      BY <3>1 DEF SizeMeant
  <2>3. CASE vnode'.fsize = File.size /\ vnode.known
    BY <1>2, <1>4, <2>3 DEF Clean, FileMeant, SizeMeant
  <2> QED
    BY <2>1, <2>2, <2>3
<1>6. WriteMeant'
  BY DEF WriteMeant
<1>7. JunkBeyond'
  <2>1. RunsGoOn
    BY DEF RunsGoOn, Sending
  <2>2. \A u \in Units : Junk(u) => u >= vnode'.fsize
    BY <1>1, CleanNumbers DEF Clean, JunkBeyond, Numbers
  <2>3. \A s \in Threads : pc'[s] # "size"
    OBVIOUS
  <2>4. \A u \in Units : Junk(u)' =>
          /\ Junk(u) /\ u >= vnode'.fsize /\ u >= File'.size
          /\ \A s \in Threads : pc'[s] = "size" => u >= EndOf(s)'
          /\ \A d \in Daemons : u >= HeldEnd(d)'
    BY <1>2, <1>3, <2>2, <2>3 DEF Clean, JunkBeyond
  <2> QED
    BY <1>1, <2>1, <2>4, JunkKept DEF Clean
<1>8. \A s \in Threads : /\ Flushing(s)' => op'[s].todo = Present
                         /\ Flushing(s) => op[s].todo = {}
  BY DEF Flushing
<1> QED
  BY <1>2, <1>5, <1>6, <1>7, <1>8, MoveClean

\* An operation begins.
LEMMA EnterClean ==
  ASSUME DataInv, Types', Clean, NEW t \in Threads, NEW o, NEW l \in {"verify", "flush", "write"},
         Enter(t, l, o),
         l = "write" => o.off =< vnode.fsize,
         l = "flush" => o.todo = Present
  PROVE  Clean'
<1>1. Types /\ Local
  BY DEF DataInv
<1>2. /\ UNCHANGED <<inode, link, held, vnode, put, want>> /\ i_dlock = NoOne
      /\ pc' = [pc EXCEPT ![t] = l] /\ op' = [op EXCEPT ![t] = o]
  BY DEF Enter, Goto, server, ghost
<1>3. \A s \in Threads : pc[s] = "idle"
  BY <1>1, <1>2, DataTypes DEF Local, Alone
<1>4. pc'[t] = l /\ op'[t] = o /\ \A s \in Threads : s # t => pc'[s] = "idle"
  BY <1>1, <1>2, <1>3, DataTypes
<1>5. \A u \in Units : Meant(u) => Meant(u)'
  BY <1>2 DEF Meant
<1>6. pc[t] = "idle"
  BY <1>3
<1> QED
  BY <1>2, <1>3, <1>4, <1>5, <1>6, EasyMove

\* Every call.
LEMMA CallClean ==
  ASSUME Tidy, DataInv, Types', Clean, NEW t \in Threads, Call(t)
  PROVE  Clean'
<1>1. CASE iumfs_lookup(t)
  BY <1>1, LookupClean
<1>2. CASE iumfs_remove(t)
  BY <1>2, RemoveClean DEF Tidy
<1>3. CASE iumfs_create(t)
  <2> DEFINE o == [NoOp EXCEPT !.call = "create", !.todo = Present]
  <2>1. CASE Enter(t, "flush", o)
    <3>1. o.todo = Present
      BY DEF NoOp
    <3> HIDE DEF o
    <3> QED
      BY <2>1, <3>1, EnterClean
  <2>2. CASE ~Enter(t, "flush", o)
    BY <1>3, <2>2, MakeClean DEF iumfs_create, Tidy
  <2> QED
    BY <2>1, <2>2
<1>4. ASSUME NEW off, NEW len, StartWrite(t, off, len)
      PROVE  Clean'
  <2> DEFINE o == [NoOp EXCEPT !.call = "write", !.off = off, !.len = len]
  <2>1. o.off = off
    BY DEF NoOp
  <2>2. off =< vnode.fsize /\ Enter(t, "write", o)
    BY <1>4 DEF StartWrite, Tidy
  <2> HIDE DEF o
  <2> QED
    BY <2>1, <2>2, EnterClean
<1>5. CASE iumfs_write(t) \/ iumfs_append(t)
  BY <1>4, <1>5 DEF iumfs_write, iumfs_append
<1>6. CASE iumfs_read(t) \/ iumfs_getattr(t)
  <2>1. \E o : Enter(t, "verify", o)
    BY <1>6 DEF iumfs_read, iumfs_getattr
  <2> QED
    BY <2>1, EnterClean
<1>7. CASE iumfs_fsync(t) \/ iumfs_close(t)
  <2> DEFINE o == [NoOp EXCEPT !.call = "sync", !.todo = Present]
  <2>1. o.todo = Present
    BY DEF NoOp
  <2>2. Enter(t, "flush", o)
    BY <1>7 DEF iumfs_fsync, iumfs_close
  <2> HIDE DEF o
  <2> QED
    BY <2>1, <2>2, EnterClean
<1> QED
  BY <1>1, <1>2, <1>3, <1>5, <1>6, <1>7 DEF Call

\* A thread at work has i_dlock, and the others are idle.
LEMMA OthersIdle ==
  ASSUME DataInv, NEW t \in Threads, pc[t] # "idle"
  PROVE  \A s \in Threads : s # t => pc[s] = "idle"
  BY DEF DataInv, Local, Alone

\* The answer to getattr.
LEMMA VerifyClean ==
  ASSUME DataInv, Types', Clean, NEW t \in Threads, iumfs_getattr_verify(t)
  PROVE  Clean'
<1>1. Types /\ op[t] \in Operations
  BY DataTypes DEF DataInv
<1>2. /\ pc[t] = "verify" /\ UNCHANGED <<inode, link, held, put, want>>
      /\ \A s \in Threads : s # t => pc[s] = "idle"
  BY OthersIdle DEF iumfs_getattr_verify, process_getattr_request, server, ghost
<1>3. vnode.known
  BY <1>1, <1>2, Known DEF Types
<1>4. \A u \in Units : Meant(u) => Meant(u)'
  BY <1>2 DEF Meant
<1>5. /\ vnode'.page = vnode.page /\ vnode'.val = vnode.val /\ vnode'.known = vnode.known
      /\ vnode'.fsize \in {vnode.fsize, File.size}
  BY <1>1, DataTypes DEF iumfs_getattr_verify, VnodeRecords
<1>6. FlushAll(t, op[t]) \/ Go(t, "read", op[t]) \/ Exit(t)
  BY DEF iumfs_getattr_verify, Verified
<1>7. /\ pc'[t] \in {"idle", "read"} \/ (pc'[t] = "flush" /\ op'[t].todo = Present)
      /\ \A s \in Threads : s # t => pc'[s] = pc[s]
  <2>1. CASE FlushAll(t, op[t])
    BY <1>1, <2>1, Flushes
  <2>2. CASE Go(t, "read", op[t]) \/ Exit(t)
    BY <1>1, <2>2, Goes, Exits
  <2> QED
    BY <1>6, <2>1, <2>2
<1>8. /\ pc'[t] \in {"idle", "verify", "read", "write", "flush"}
      /\ pc'[t] # "write" /\ (pc'[t] = "flush" => op'[t].todo = Present)
  BY <1>7
<1> QED
  BY <1>2, <1>3, <1>4, <1>5, <1>7, <1>8, EasyMove

\* The end of a flush.
LEMMA AfterFlushClean ==
  ASSUME DataInv, Types', Clean, NEW t \in Threads, AfterFlush(t)
  PROVE  Clean'
<1>1. Types
  BY DEF DataInv
<1>2. /\ pc[t] = "flush" /\ op[t].todo = {} /\ UNCHANGED <<inode, link, held, put>>
      /\ Go(t, "read", op[t]) \/ Exit(t)
      /\ \A s \in Threads : s # t => pc[s] = "idle"
  BY OthersIdle DEF AfterFlush, server
<1>3. vnode.known
  BY <1>1, <1>2, Known DEF Types
<1>4. pc'[t] \in {"idle", "read"} /\ \A s \in Threads : s # t => pc'[s] = pc[s]
  BY <1>1, <1>2, Goes, Exits
<1>5. /\ vnode'.page = vnode.page /\ vnode'.val = vnode.val /\ vnode'.known = vnode.known
      /\ vnode'.fsize = 0 \/ (vnode'.fsize = vnode.fsize /\ want' = want)
  BY <1>1, DataTypes DEF AfterFlush, VnodeRecords
<1>6. \A u \in Units : Meant(u) => Meant(u)'
  <2>1. want' = want \/ want' = [u \in Units |-> IF Wanted(u) THEN Truncated ELSE want[u]]
    BY DEF AfterFlush
  <2> QED
    BY <2>1 DEF Meant, Nothing, Truncated
<1>7. /\ pc'[t] \in {"idle", "verify", "read", "write", "flush"}
      /\ pc'[t] # "write" /\ pc'[t] # "flush"
  BY <1>4
<1> QED
  BY <1>2, <1>3, <1>4, <1>5, <1>6, <1>7, EasyMove

\* A page is copied to the reader.
LEMMA CopyOutClean ==
  ASSUME DataInv, Types', Clean, NEW t \in Threads, CopyOut(t)
  PROVE  Clean'
<1>1. Types
  BY DEF DataInv
<1>2. /\ pc[t] = "read" /\ UNCHANGED <<inode, link, held, vnode, put, want>>
      /\ Exit(t) \/ \E o : Go(t, "read", o)
      /\ \A s \in Threads : s # t => pc[s] = "idle"
  BY OthersIdle DEF CopyOut, server, ghost
<1>3. pc'[t] \in {"idle", "read"} /\ \A s \in Threads : s # t => pc'[s] = pc[s]
  BY <1>1, <1>2, Goes, Exits
<1>4. \A u \in Units : Meant(u) => Meant(u)'
  BY <1>2 DEF Meant
<1>5. /\ pc'[t] \in {"idle", "verify", "read", "write", "flush"}
      /\ pc'[t] # "write" /\ pc'[t] # "flush"
  BY <1>3
<1> QED
  BY <1>2, <1>3, <1>4, <1>5, EasyMove

\* A page that iumfs_write creates has nothing of what the memory held, as the write
\* begins within the size.
LEMMA CreatedFromTheStart ==
  ASSUME Types, Local, NEW t \in Threads, pc[t] = "write", IsCreated(t), op[t].off =< vnode.fsize,
         NEW u \in Units, PageOf(u) = PageOf(op[t].off)
  PROVE  u >= op[t].off
<1> DEFINE off == op[t].off
           pre == InPage(off)
           size == vnode.fsize
<1>1. off \in Nat /\ u \in Nat /\ size \in Nat
  BY PartOfPage, CleanNumbers DEF Numbers
<1>2. pre \in Nat /\ off - pre =< u
  BY <1>1, PageBegins, SamePage
<1>3. size = 0 \/ off - pre > size \/ pre = 0
  BY DEF IsCreated
<1>4. off =< size
  OBVIOUS
<1> HIDE DEF off, pre, size
<1>5. u >= off
  BY <1>1, <1>2, <1>3, <1>4
<1> QED
  BY <1>5 DEF off

\* A page is read from the file, or that fails.  What the file does not fill lies
\* behind the size: below it everything is in the file, or in a page that is here.
LEMMA GetapageClean ==
  ASSUME Careful, DataInv, Types', Clean, NEW t \in Threads, iumfs_getapage(t)
  PROVE  Clean'
<1> DEFINE p == PageOf(op[t].off)
<1>1. Types /\ Remote /\ Local /\ op[t] \in Operations
  BY DataTypes DEF DataInv
<1>2. /\ pc[t] \in {"write", "read"} /\ p \notin Present
      /\ UNCHANGED <<inode, link, held, put, want>>
  <2>1. pc[t] \in {"write", "read"} /\ p \notin Present /\ UNCHANGED <<put, ghost>>
    BY Zenon DEF iumfs_getapage
  <2>2. UNCHANGED server \/ \E d \in Daemons : process_read_request(d)
    BY Zenon DEF iumfs_getapage
  <2> QED
    BY <2>1, <2>2 DEF process_read_request, server, ghost
<1>3. \A s \in Threads : s # t => pc[s] = "idle"
  BY <1>2, OthersIdle
<1>4. vnode.known /\ link # NoFile
  BY <1>1, <1>2, Known DEF Types, Remote, Named
<1>5. \A u \in Units : Meant(u)' = Meant(u) /\ Wanted(u)' = Wanted(u)
  BY <1>2 DEF Meant, Wanted
<1>6. ASSUME IF pc[t] = "write" THEN FlushAll(t, [op[t] EXCEPT !.err = TRUE]) ELSE Exit(t),
             UNCHANGED vnode
      PROVE  Clean'
  <2> DEFINE o == [op[t] EXCEPT !.err = TRUE]
  <2>1. o \in Operations
    BY <1>1 DEF Operations
  <2> HIDE DEF o
  <2>2. FlushAll(t, o) \/ Exit(t)
    BY <1>6 DEF o
  <2>3. /\ pc'[t] = "idle" \/ (pc'[t] = "flush" /\ op'[t].todo = Present)
        /\ \A s \in Threads : s # t => pc'[s] = pc[s]
    BY <1>1, <2>1, <2>2, Flushes, Exits
  <2>4. /\ pc'[t] \in {"idle", "verify", "read", "write", "flush"}
        /\ pc'[t] # "write" /\ (pc'[t] = "flush" => op'[t].todo = Present)
    BY <2>3
  <2>5. pc[t] # "flush" /\ pc[t] # "put"
    BY <1>2
  <2> QED
    BY <1>2, <1>3, <1>5, <1>6, <2>3, <2>4, <2>5, EasyMove
<1>7. CASE \E d \in Daemons :
             /\ process_read_request(d)
             /\ LET file == inode[path2fd(d)] IN
                vnode' = [vnode EXCEPT !.page[p] = "clean",
                            !.val = [u \in Units |->
                                       IF u \notin UnitsOf(p) THEN @[u]
                                       ELSE IF u < file.size THEN file.val[u] ELSE "junk"]]
             /\ UNCHANGED <<i_dlock, pc, op>>
  <2>1. PICK d \in Daemons :
          /\ process_read_request(d) /\ UNCHANGED <<i_dlock, pc, op>>
          /\ LET file == inode[path2fd(d)] IN
             vnode' = [vnode EXCEPT !.page[p] = "clean",
                         !.val = [u \in Units |->
                                    IF u \notin UnitsOf(p) THEN @[u]
                                    ELSE IF u < file.size THEN file.val[u] ELSE "junk"]]
    BY <1>7
  <2>2. inode[path2fd(d)] = File
    BY <1>1, <1>4, PathIsLink DEF File
  <2>3. /\ vnode'.page = [vnode.page EXCEPT ![p] = "clean"] /\ vnode'.fsize = vnode.fsize
        /\ vnode'.known = vnode.known
        /\ vnode'.val = [u \in Units |-> IF u \notin UnitsOf(p) THEN vnode.val[u]
                                         ELSE IF u < File.size THEN File.val[u] ELSE "junk"]
    BY <1>1, <2>1, <2>2, DataTypes DEF VnodeRecords
  <2>4. \A q \in Pages : q # p => vnode'.page[q] = vnode.page[q]
    BY <2>3
  <2>5. Present \subseteq Present' /\ Present' \subseteq Present \cup {p}
    BY <1>2, <2>4 DEF Present
  <2>6. ASSUME NEW u \in Units, Junk(u)', ~Junk(u)
        PROVE  PageOf(u) = p /\ u >= File.size /\ PageOf(u) \notin Present
    <3>1. PageOf(u) = p
      BY <2>3, <2>5, <2>6 DEF Junk, UnitsOf
    <3>2. vnode'.val[u] = IF u < File.size THEN File.val[u] ELSE "junk"
      BY <2>3, <3>1 DEF UnitsOf
    <3>3. ~(u < File.size)
      BY <1>4, <2>6, <3>2 DEF Junk, Clean, FileMeant
    <3> QED
      BY <1>1, <1>2, <1>4, <3>1, <3>3, CleanNumbers DEF Numbers
  <2>7. \A e \in Daemons : HeldEnd(e) = 0
    <3>1. \A e \in Daemons : held[e] = NoData
      BY <1>1, <2>1, NoneHeld DEF Remote, process_read_request, Ready
    <3> QED
      BY <3>1 DEF HeldEnd, NoData
  <2>8. ASSUME NEW u \in Units, PageOf(u) \notin Present, u >= File.size
        PROVE  /\ u >= vnode.fsize
               /\ \A x \in Putters : Sending(x) => u >= RunEnd(put[x])
    <3>1. ~Wanted(u)
      BY <2>8, WaitingIsPresent
    <3>2. ~(u < File.size) /\ u \in Nat
      BY <1>1, <1>4, <2>8, CleanNumbers DEF Numbers
    <3>3. u >= vnode.fsize
      BY <1>1, <1>4, <3>1, <3>2, CleanNumbers DEF Clean, SizeMeant, Numbers
    <3>4. ASSUME NEW x \in Putters, Sending(x)
          PROVE  u >= RunEnd(put[x])
      <4>1. x = Pageout
        <5>1. x \notin Threads
          BY <1>1, <1>2, <1>3, <3>4, SendingRuns
        <5> QED
          BY <5>1 DEF Putters
      <4>2. put[x].off \in Nat /\ put[x].len \in Nat \ {0}
        BY <1>1, <3>4, CleanNumbers, SendingRuns DEF Numbers
      <4>3. u \notin Extent(put[x])
        BY <1>1, <2>8, <3>4, SentIsWanted DEF Sending
      <4>4. ~(u < put[x].off)
        <5>1. \A s \in Threads : ~Flushing(s)
          BY <1>2, <1>3 DEF Flushing
        <5> QED
          BY <2>8, <3>1, <3>4, <4>1, <5>1 DEF Clean, NoGap
      <4> QED
        BY <3>2, <4>2, <4>3, <4>4 DEF Extent, RunEnd
    <3> QED
      BY <3>3, <3>4
  <2>9. \A s \in Threads : pc'[s] = pc[s] /\ pc'[s] # "size"
    BY <1>2, <1>3, <2>1
  <2>10. JunkBeyond'
    <3>1. File' = File /\ (\A e \in Daemons : HeldEnd(e)' = HeldEnd(e))
      BY <1>2 DEF File, HeldEnd
    <3>2. ASSUME NEW u \in Units, Junk(u)'
          PROVE  /\ u >= vnode'.fsize /\ u >= File'.size
                 /\ \A x \in Putters : Sending(x)' => u >= RunEnd(put'[x])
                 /\ \A e \in Daemons : u >= HeldEnd(e)'
      <4>1. CASE Junk(u)
        BY <1>2, <2>3, <3>1, <4>1 DEF Clean, JunkBeyond, Sending
      <4>2. CASE ~Junk(u)
        <5>1. u >= File.size /\ PageOf(u) \notin Present
          BY <2>6, <3>2, <4>2
        <5>2. \A e \in Daemons : u >= HeldEnd(e)
          BY <1>1, <2>7, CleanNumbers DEF Numbers
        <5> QED
          BY <1>2, <2>3, <2>8, <3>1, <5>1, <5>2 DEF Sending
      <4> QED
        BY <4>1, <4>2
    <3> QED
      BY <2>9, <3>2 DEF JunkBeyond
  <2>11. SizeMeant'
    BY <1>2, <1>5, <2>3 DEF Clean, SizeMeant, File
  <2>12. WriteMeant'
    BY <2>1, <2>3, <2>9 DEF Clean, WriteMeant
  <2>13. \A s \in Threads : ~Flushing(s) /\ ~Flushing(s)'
    BY <1>2, <1>3, <2>9 DEF Flushing
  <2> QED
    BY <1>2, <1>5, <2>5, <2>10, <2>11, <2>12, <2>13, MoveClean
<1> QED
  BY <1>6, <1>7, Zenon DEF iumfs_getapage

\* A write fills its page.
LEMMA CopyInClean ==
  ASSUME DataInv, Types', Clean, NEW t \in Threads, CopyIn(t)
  PROVE  Clean'
<1> DEFINE p == PageOf(op[t].off)
           part == op[t].off .. EndOf(t) - 1
<1>1. Types /\ Remote /\ Local
  BY DEF DataInv
<1>2. /\ pc[t] = "write"
      /\ IsCreated(t) \/ p \in Present
      /\ UNCHANGED <<inode, link, held, op, put>>
      /\ want' = [u \in Units |-> IF u \in part THEN t ELSE want[u]]
      /\ pc' = [pc EXCEPT ![t] = "size"]
  BY DEF CopyIn, Goto, server, EndOf
<1>3. /\ pc'[t] = "size"
      /\ \A s \in Threads : s # t => pc[s] = "idle" /\ pc'[s] = "idle"
  BY <1>1, <1>2, OthersIdle, DataTypes
<1>4. /\ op[t].off \in Nat /\ EndOf(t) \in Nat /\ p \in Pages
      /\ \A u \in part : u \in Units /\ PageOf(u) = p
      /\ op[t].off =< vnode.fsize
  <2>1. op[t].off \in Nat /\ p \in Pages /\ \A u \in part : u \in Units /\ PageOf(u) = p
    BY <1>1, <1>2, PartOfPage
  <2>2. EndOf(t) \in Nat
    <3>1. op[t].len \in Nat /\ PartLen(t) \in 1 .. op[t].len /\ EndOf(t) = op[t].off + PartLen(t)
      BY <1>1, <1>2, PartOfPage
    <3> QED
      BY <2>1, <3>1
  <2>3. op[t].off =< vnode.fsize
    BY <1>2 DEF Clean, WriteMeant
  <2> QED
    BY <2>1, <2>2, <2>3
<1>5. /\ vnode'.fsize = vnode.fsize /\ vnode'.known = vnode.known
      /\ vnode'.page = [vnode.page EXCEPT ![p] = "dirty"]
      /\ vnode'.val = [u \in Units |->
                         IF u \notin UnitsOf(p) THEN vnode.val[u]
                         ELSE IF u \in part THEN t
                         ELSE IF IsCreated(t) /\ u >= EndOf(t) THEN "zero"
                         ELSE IF p \in Present THEN vnode.val[u] ELSE "junk"]
  BY <1>1, DataTypes DEF CopyIn, VnodeRecords, EndOf
<1>6. Present' = Present \cup {p}
  BY <1>1, <1>4, <1>5, DataTypes DEF Present, VnodeRecords
<1>7. t # "junk" /\ t # Nothing /\ t # Truncated
  BY ServerAssumption, DataAssumption
<1>8. \A u \in Units : want'[u] = IF u \in part THEN t ELSE want[u]
  BY <1>2
<1>9. /\ \A u \in Units : (Meant(u) => Meant(u)') /\ (Wanted(u) => Wanted(u)')
      /\ \A u \in Units : u \in part => Wanted(u)'
  BY <1>7, <1>8 DEF Meant, Wanted
<1>10. \A u \in Units : u \in part <=> u >= op[t].off /\ u < EndOf(t)
  BY <1>1, <1>4, CleanNumbers DEF Numbers
<1>11. ASSUME NEW u \in Units, Junk(u)'
       PROVE  Junk(u) /\ u \notin part
  <2>1. CASE PageOf(u) # p
    BY <1>4, <1>5, <1>6, <1>11, <2>1 DEF Junk, UnitsOf
  <2>2. CASE PageOf(u) = p
    <3>1. u \notin part
      BY <1>5, <1>7, <1>11, <2>2 DEF Junk, UnitsOf
    <3>2. ~(IsCreated(t) /\ u >= EndOf(t))
      BY <1>5, <1>11, <2>2, <3>1 DEF Junk, UnitsOf
    <3>3. p \in Present
      <4>1. SUFFICES ASSUME IsCreated(t)
                     PROVE  FALSE
        BY <1>2
      <4>2. u >= op[t].off
        BY <1>1, <1>2, <1>4, <2>2, <4>1, CreatedFromTheStart
      <4> QED
        BY <1>1, <1>4, <1>10, <3>1, <3>2, <4>1, <4>2, CleanNumbers DEF Numbers
    <3>4. vnode'.val[u] = vnode.val[u]
      BY <1>5, <2>2, <3>1, <3>2, <3>3 DEF UnitsOf
    <3> QED
      BY <1>11, <2>2, <3>1, <3>3, <3>4 DEF Junk
  <2> QED
    BY <2>1, <2>2
<1>12. EndOf(t)' = EndOf(t)
  BY <1>2 DEF EndOf, PartLen
<1> HIDE DEF part
<1>13. SizeMeant'
  <2>1. File' = File
    BY <1>2 DEF File
  <2> QED
    BY <1>5, <1>9, <2>1 DEF Clean, SizeMeant
<1>14. WriteMeant'
  BY <1>2, <1>3, <1>4, <1>5, <1>9, <1>10, <1>12 DEF WriteMeant
<1>15. JunkBeyond'
  <2>1. RunsGoOn
    BY <1>2 DEF RunsGoOn, Sending
  <2>2. File' = File /\ (\A d \in Daemons : HeldEnd(d)' = HeldEnd(d))
    BY <1>2 DEF File, HeldEnd
  <2>3. ASSUME NEW u \in Units, Junk(u)'
        PROVE  u >= EndOf(t)
    <3>1. u >= vnode.fsize /\ u \notin part
      BY <1>11, <2>3 DEF Clean, JunkBeyond
    <3> QED
      BY <1>1, <1>4, <1>10, <3>1, CleanNumbers DEF Numbers
  <2>4. \A u \in Units : Junk(u)' =>
          /\ Junk(u) /\ u >= vnode'.fsize /\ u >= File'.size
          /\ \A s \in Threads : pc'[s] = "size" => u >= EndOf(s)'
          /\ \A d \in Daemons : u >= HeldEnd(d)'
    BY <1>3, <1>5, <1>11, <1>12, <2>2, <2>3 DEF Clean, JunkBeyond
  <2> QED
    BY <1>1, <2>1, <2>4, JunkKept DEF Clean
<1>16. \A s \in Threads : ~Flushing(s) /\ ~Flushing(s)'
  BY <1>2, <1>3 DEF Flushing
<1> QED
  BY <1>2, <1>6, <1>9, <1>13, <1>14, <1>15, <1>16, MoveClean

\* The size follows.
LEMMA SetSizeClean ==
  ASSUME DataInv, Types', Clean, NEW t \in Threads, SetSize(t)
  PROVE  Clean'
<1> DEFINE end == EndOf(t)
           o == [op[t] EXCEPT !.off = end, !.len = @ - PartLen(t)]
<1>1. Types /\ Remote /\ Local /\ op[t] \in Operations
  BY DataTypes DEF DataInv
<1>2. /\ pc[t] = "size" /\ UNCHANGED <<inode, link, held, put, want>>
      /\ vnode' = [vnode EXCEPT !.fsize = IF end > @ THEN end ELSE @]
      /\ IF op[t].len = PartLen(t) THEN Exit(t) ELSE Go(t, "write", o)
  BY DEF SetSize, server, ghost, EndOf
<1>3. op[t].off \in Nat /\ end \in Nat /\ vnode.fsize \in Nat
  <2>1. /\ op[t].off \in Nat /\ op[t].len \in Nat /\ PartLen(t) \in 1 .. op[t].len
        /\ end = op[t].off + PartLen(t)
    BY <1>1, <1>2, PartOfPage
  <2>2. vnode.fsize \in Nat
    BY <1>1, CleanNumbers DEF Numbers
  <2> HIDE DEF end
  <2> QED
    BY <2>1, <2>2
<1>4. \A s \in Threads : s # t => pc[s] = "idle"
  BY <1>2, OthersIdle
<1>5. op[t].off =< vnode.fsize /\ \A u \in Units : u >= op[t].off /\ u < end => Wanted(u)
  BY <1>2 DEF Clean, WriteMeant
<1>6. \A u \in Units : Junk(u) => u >= vnode.fsize /\ u >= end
  BY <1>2 DEF Clean, JunkBeyond
<1> HIDE DEF end
<1>7. /\ vnode'.page = vnode.page /\ vnode'.val = vnode.val /\ vnode'.known = vnode.known
      /\ vnode'.fsize = IF end > vnode.fsize THEN end ELSE vnode.fsize
  BY <1>1, <1>2, DataTypes DEF VnodeRecords
<1>8. Present' = Present /\ (\A u \in Units : Junk(u)' = Junk(u)) /\ File' = File
      /\ \A u \in Units : Meant(u)' = Meant(u) /\ Wanted(u)' = Wanted(u)
  BY <1>2, <1>7 DEF Present, Junk, File, Meant, Wanted
<1>9. /\ pc'[t] = "idle" \/ (pc'[t] = "write" /\ op'[t].off = end)
      /\ \A s \in Threads : s # t => pc'[s] = pc[s]
  <2>1. CASE op[t].len = PartLen(t)
    BY <1>1, <1>2, <2>1, Exits
  <2>2. CASE op[t].len # PartLen(t)
    <3>1. pc'[t] = "write" /\ op'[t] = o /\ \A s \in Threads : s # t => pc'[s] = pc[s]
      BY <1>1, <1>2, <2>2, Goes
    <3>2. o.off = end
      BY <1>1 DEF Operations
    <3> QED
      BY <3>1, <3>2
  <2> QED
    BY <2>1, <2>2
<1>10. SizeMeant'
  <2>1. ASSUME vnode.known, NEW u \in Units, u < vnode'.fsize
        PROVE  Meant(u) /\ (Wanted(u) \/ u < File.size)
    <3>1. u < vnode.fsize \/ (u >= op[t].off /\ u < end)
      BY <1>1, <1>3, <1>5, <1>7, <2>1, CleanNumbers DEF Numbers
    <3>2. Wanted(u) => Meant(u)
      BY DEF Wanted, Meant
    <3> QED
      BY <1>5, <2>1, <3>1, <3>2 DEF Clean, SizeMeant
  <2> QED
    BY <1>7, <1>8, <2>1 DEF SizeMeant
<1>11. WriteMeant'
  <2>1. end =< vnode'.fsize
    BY <1>3, <1>7
  <2> QED
    BY <1>4, <1>9, <2>1 DEF WriteMeant
<1>12. JunkBeyond'
  <2>1. RunsGoOn
    BY <1>2 DEF RunsGoOn, Sending
  <2>2. \A d \in Daemons : HeldEnd(d)' = HeldEnd(d)
    BY <1>2 DEF HeldEnd
  <2>3. \A s \in Threads : pc'[s] # "size"
    BY <1>4, <1>9
  <2>4. \A u \in Units : Junk(u)' =>
          /\ Junk(u) /\ u >= vnode'.fsize /\ u >= File'.size
          /\ \A s \in Threads : pc'[s] = "size" => u >= EndOf(s)'
          /\ \A d \in Daemons : u >= HeldEnd(d)'
    BY <1>6, <1>7, <1>8, <2>2, <2>3 DEF Clean, JunkBeyond
  <2> QED
    BY <1>1, <2>1, <2>4, JunkKept DEF Clean
<1>13. \A s \in Threads : ~Flushing(s) /\ ~Flushing(s)'
  BY <1>2, <1>4, <1>9 DEF Flushing
<1> QED
  BY <1>2, <1>8, <1>10, <1>11, <1>12, <1>13, MoveClean

-----------------------------------------------------------------------------
\* Every step.
LEMMA CleanStep ==
  ASSUME Tidy, DataInv, Clean, [Next]_vars
  PROVE  Clean'
<1>1. Types' /\ Careful
  BY DataStep DEF DataInv, Tidy
<1>2. ASSUME NEW t \in Threads, Step(t)
      PROVE  Clean'
  BY <1>1, <1>2, VerifyClean, PutpageClean, AfterFlushClean, GetapageClean, CopyInClean,
     SetSizeClean, CopyOutClean DEF Step
<1>3. ASSUME \/ Tick
             \/ \E d \in Daemons : ServeOther(d) /\ UNCHANGED <<vnode, i_dlock, pc, op, put, ghost>>
             \/ UNCHANGED vars
      PROVE  Clean'
  <2>1. UNCHANGED <<inode, link, held, vnode, pc, op, put, want>>
    BY <1>3 DEF Tick, ServeOther, vars, ghost, server
  <2> QED
    BY <1>1, <2>1, QuietClean
<1>4. ASSUME PageoutNothing
      PROVE  Clean'
  BY <1>1, <1>4, RequestClean DEF Putters
<1> QED
  BY <1>1, <1>2, <1>3, <1>4, CallClean, RequestClean, TimeoutClean, PageoutStartClean,
     PageoutSizeClean, LateWriteClean, OtherWritesClean DEF Next

\* The beginning.
LEMMA CleanInit ==
  ASSUME Init
  PROVE  Clean
<1>1. /\ vnode = NoVnode /\ link = 1
      /\ \A x \in Putters : put[x] = NoRun
      /\ \A t \in Threads : pc[t] = "idle"
      /\ \A d \in Daemons : held[d] = NoData
      /\ want = [u \in Units |-> IF u < DiskSize THEN "old" ELSE Nothing]
  BY DEF Init, ServerInit
<1>2. File = [size |-> DiskSize, mtime |-> 0,
              val |-> [u \in Units |-> IF u < DiskSize THEN "old" ELSE "zero"]]
  BY ServerAssumption DEF File, Init, ServerInit, Inodes
<1>3. ~vnode.known /\ Present = {}
  BY <1>1 DEF NoVnode, Present
<1>4. \A x \in Putters : ~Sending(x)
  BY <1>1 DEF Sending, NoRun
<1>5. SizeMeant /\ WriteMeant /\ JunkBeyond /\ NoGap /\ SentMeant
  BY <1>1, <1>3, <1>4 DEF SizeMeant, WriteMeant, JunkBeyond, NoGap, SentMeant, Junk, Putters
<1>6. FileMeant
  BY <1>1, <1>2 DEF FileMeant, Meant, Nothing
<1>7. HeldMeant
  <2>1. \A d \in Daemons : HeldEnd(d) = 0 /\ Len(held[d].data) = 0
    BY <1>1 DEF HeldEnd, NoData
  <2>2. \A u \in Units : ~(u < 0)
    BY ServerAssumption DEF Units
  <2> QED
    BY <2>1, <2>2 DEF HeldMeant
<1> QED
  BY <1>5, <1>6, <1>7 DEF Clean

\* No rest of a page reaches the server, and no unit that nobody has written: for any
\* threads, sizes, timeouts and signals, where nobody writes beyond the end of the
\* file (iumfs_write zeroes what it creates, putapage cuts off what lies behind the
\* size).
THEOREM NothingStoredByChance ==
  ASSUME Tidy
  PROVE  Spec => []NoJunkStored
<1>1. Init => DataInv /\ Clean
  BY DataInit, CleanInit
<1>2. DataInv /\ Clean /\ [Next]_vars => (DataInv /\ Clean)'
  BY DataStep, CleanStep DEF Tidy
<1>3. DataInv /\ Clean => NoJunkStored
  <2> SUFFICES ASSUME DataInv, Clean, link # NoFile, NEW u \in 0 .. File.size - 1
               PROVE  want[u] # Nothing /\ File.val[u] # "junk"
    BY DEF NoJunkStored
  <2>1. Types /\ File \in FileRecords
    BY DataTypes DEF DataInv
  <2>2. u \in Units /\ u < File.size
    BY <2>1, DataTypes DEF FileRecords, Units
  <2> QED
    BY <2>2 DEF Clean, FileMeant, Meant
<1> QED
  BY <1>1, <1>2, <1>3, PTL DEF Spec

-----------------------------------------------------------------------------
(***************************************************************************)
(* A read sees what was written.                                           *)
(***************************************************************************)
\* From a read's beginning on nobody but another client writes, and the pages it copies
\* hold what was there when it began or since.
ReadSound(t) ==
  /\ pc[t] = "read" => op[t].call = "read"
  /\ op[t].call = "read" => /\ pc[t] \in {"verify", "flush", "put", "read"}
                            /\ \A u \in Units : want[u] \in {op[t].began[u], "other"}
  /\ pc[t] = "read" => \A u \in Units : Wanted(u) /\ PageOf(u) \in Present =>
                         op[t].began[u] = Truncated \/ vnode.val[u] \in {op[t].began[u], want[u]}

ReadInv == \A t \in Threads : ReadSound(t)

\* A thread that is not reading.
LEMMA NotReading ==
  ASSUME NEW t \in Threads, pc'[t] # "read", op'[t].call # "read"
  PROVE  ReadSound(t)'
  BY DEF ReadSound

\* A step of a thread that holds i_dlock concerns its own read only.
LEMMA OthersRead ==
  ASSUME DataInv, ReadInv, NEW t \in Threads, pc[t] # "idle",
         \A s \in Threads : s # t => pc'[s] = pc[s] /\ op'[s] = op[s],
         ReadSound(t)'
  PROVE  ReadInv'
<1>1. ASSUME NEW s \in Threads, s # t
      PROVE  ReadSound(s)'
  <2>1. pc[s] = "idle"
    BY <1>1, OthersIdle
  <2>2. pc'[s] # "read" /\ op'[s].call # "read"
    BY <1>1, <2>1 DEF ReadInv, ReadSound
  <2> QED
    BY <2>2, NotReading
<1> QED
  BY <1>1 DEF ReadInv

\* A step that changes no page but by destroying it, and lets the threads be.
LEMMA ReadsGoOn ==
  ASSUME ReadInv, UNCHANGED <<pc, op, want>>, Present' \subseteq Present,
         \A u \in Units : PageOf(u) \in Present' => vnode'.val[u] = vnode.val[u]
  PROVE  ReadInv'
  BY DEF ReadInv, ReadSound, Wanted

\* An operation begins.
LEMMA EnterRead ==
  ASSUME DataInv, ReadInv, NEW t \in Threads, NEW l \in {"verify", "flush", "write"}, NEW o,
         Enter(t, l, o), o.call = "read" => l = "verify" /\ o.began = want
  PROVE  ReadInv'
<1>1. /\ pc'[t] = l /\ op'[t] = o /\ UNCHANGED <<vnode, want>>
      /\ \A s \in Threads : s # t => pc'[s] = pc[s] /\ op'[s] = op[s]
  BY OpAfter, DataTypes DEF DataInv, Enter, ghost
<1>2. ReadSound(t)'
  BY <1>1 DEF ReadSound
<1>3. ASSUME NEW s \in Threads, s # t
      PROVE  ReadSound(s)'
  BY <1>1, <1>3 DEF ReadInv, ReadSound, Wanted, Present
<1> QED
  BY <1>2, <1>3 DEF ReadInv

\* A vnode that has just been made has no pages.
LEMMA NewIsRead ==
  ASSUME ReadInv, vnode' = NewVnode, UNCHANGED <<pc, op, want>>
  PROVE  ReadInv'
<1>1. Present' = {}
  BY DEF NewVnode, NoVnode, Present
<1>2. \A u \in Units : PageOf(u) \notin Present'
  BY <1>1
<1> QED
  BY <1>1, <1>2, ReadsGoOn

\* Every call.
LEMMA CallRead ==
  ASSUME DataInv, ReadInv, NEW t \in Threads, Call(t)
  PROVE  ReadInv'
<1>1. NoOp.call = "none"
  BY DEF NoOp
<1>2. ASSUME NEW w, NEW off, StartWrite(t, off, w)
      PROVE  ReadInv'
  <2> DEFINE o == [NoOp EXCEPT !.call = "write", !.off = off, !.len = w]
  <2>1. Enter(t, "write", o) /\ o.call # "read"
    BY <1>2 DEF StartWrite, NoOp
  <2> QED
    BY <2>1, EnterRead
<1>3. CASE iumfs_lookup(t)
  BY <1>3, NewIsRead DEF iumfs_lookup, ghost
<1>4. CASE iumfs_create(t)
  <2> DEFINE o == [NoOp EXCEPT !.call = "create", !.todo = Present]
  <2>1. CASE Enter(t, "flush", o)
    <3>1. o.call # "read"
      BY DEF NoOp
    <3> HIDE DEF o
    <3> QED
      BY <2>1, <3>1, EnterRead
  <2>2. CASE vnode' = NewVnode /\ UNCHANGED <<i_dlock, pc, op, put, ghost>>
    BY <2>2, NewIsRead DEF ghost
  <2> QED
    BY <1>4, <2>1, <2>2 DEF iumfs_create
<1>5. CASE iumfs_remove(t)
  <2>1. \A s \in Threads : pc'[s] = "idle" /\ pc[s] = "idle" /\ op'[s] = op[s]
    BY <1>5 DEF iumfs_remove
  <2>2. ASSUME NEW s \in Threads
        PROVE  ReadSound(s)'
    BY <2>1 DEF ReadInv, ReadSound
  <2> QED
    BY <2>2 DEF ReadInv
<1>6. CASE iumfs_write(t) \/ iumfs_append(t)
  BY <1>2, <1>6 DEF iumfs_write, iumfs_append
<1>7. CASE iumfs_read(t)
  <2>1. PICK r \in Reads :
          Enter(t, "verify", [NoOp EXCEPT !.call = "read", !.off = r[1], !.len = r[2], !.began = want])
    BY <1>7 DEF iumfs_read
  <2> DEFINE o == [NoOp EXCEPT !.call = "read", !.off = r[1], !.len = r[2], !.began = want]
  <2>2. o.began = want
    BY DEF NoOp
  <2> HIDE DEF o
  <2> QED
    BY <2>1, <2>2, EnterRead DEF o
<1>8. CASE iumfs_getattr(t)
  <2> DEFINE o == [NoOp EXCEPT !.call = "getattr"]
  <2>1. Enter(t, "verify", o) /\ o.call # "read"
    BY <1>8 DEF iumfs_getattr, NoOp
  <2> QED
    BY <2>1, EnterRead
<1>9. CASE iumfs_fsync(t) \/ iumfs_close(t)
  <2> DEFINE o == [NoOp EXCEPT !.call = "sync", !.todo = Present]
  <2>1. Enter(t, "flush", o) /\ o.call # "read"
    BY <1>9 DEF iumfs_fsync, iumfs_close, NoOp
  <2> QED
    BY <2>1, EnterRead
<1> QED
  BY <1>3, <1>4, <1>5, <1>6, <1>7, <1>8, <1>9 DEF Call

\* What a step of a thread under i_dlock leaves to see: it has not come to the copying,
\* or ended.
LEMMA NotYetRead ==
  ASSUME ReadInv, NEW t \in Threads, pc'[t] # "read",
         op'[t].call = "read" => /\ op[t].call = "read" /\ op'[t].began = op[t].began
                                 /\ pc'[t] \in {"verify", "flush", "put"} /\ want' = want
  PROVE  ReadSound(t)'
  BY DEF ReadInv, ReadSound

\* After Exit nothing is read.
LEMMA ExitRead ==
  ASSUME DataInv, ReadInv, NEW t \in Threads, pc[t] # "idle", Exit(t)
  PROVE  ReadInv'
<1>1. /\ pc'[t] = "idle" /\ op'[t] = NoOp
      /\ \A s \in Threads : s # t => pc'[s] = pc[s] /\ op'[s] = op[s]
  BY OpAfter, DataTypes DEF DataInv, Exit
<1>2. ReadSound(t)'
  BY <1>1, NotReading DEF NoOp
<1> QED
  BY <1>1, <1>2, OthersRead

\* A read that comes to the copying with pages that are all right.
LEMMA BeginsToCopy ==
  ASSUME DataInv, ReadInv, NEW t \in Threads, pc[t] # "idle", op[t].call = "read",
         Go(t, "read", op[t]), want' = want,
         \A u \in Units : Wanted(u)' /\ PageOf(u) \in Present' => vnode'.val[u] = want'[u]
  PROVE  ReadInv'
<1>1. /\ pc'[t] = "read" /\ op'[t] = op[t]
      /\ \A s \in Threads : s # t => pc'[s] = pc[s] /\ op'[s] = op[s]
  BY Goes DEF DataInv
<1>2. ReadSound(t)'
  BY <1>1 DEF ReadInv, ReadSound
<1> QED
  BY <1>1, <1>2, OthersRead

\* FlushAll keeps what the read has seen.
LEMMA FlushRead ==
  ASSUME DataInv, ReadInv, NEW t \in Threads, pc[t] # "idle", NEW o \in Operations,
         FlushAll(t, o), o.call = op[t].call, o.began = op[t].began, want' = want
  PROVE  ReadInv'
<1> DEFINE f == [o EXCEPT !.todo = Present]
<1>1. f.call = o.call /\ f.began = o.began /\ Go(t, "flush", f)
  BY DEF Operations, FlushAll
<1> HIDE DEF f
<1>2. /\ pc'[t] = "flush" /\ op'[t].call = op[t].call /\ op'[t].began = op[t].began
      /\ \A s \in Threads : s # t => pc'[s] = pc[s] /\ op'[s] = op[s]
  BY <1>1, Goes DEF DataInv
<1>3. ReadSound(t)'
  BY <1>2, NotYetRead
<1> QED
  BY <1>2, <1>3, OthersRead

\* getattr finds that the file has not changed since the pages were read: they hold
\* what was written last, by another client, too.
LEMMA VerifyRead ==
  ASSUME Careful, DataInv, ReadInv, NEW t \in Threads, iumfs_getattr_verify(t)
  PROVE  ReadInv'
<1>1. Types /\ Remote /\ Local /\ op[t] \in Operations
  BY DataTypes DEF DataInv
<1>2. pc[t] = "verify" /\ UNCHANGED <<inode, link, want, foreign>>
  BY DEF iumfs_getattr_verify, process_getattr_request, server, ghost
<1>3. DataInv'
  <2>1. Next
    BY DEF Next, Step
  <2> QED
    BY <2>1, DataStep
<1>4. CASE /\ link # NoFile /\ vnode' = [vnode EXCEPT !.fsize = File.size, !.mtime = File.mtime]
           /\ IF File.mtime # vnode.mtime THEN FlushAll(t, op[t]) ELSE Verified(t)
  <2>1. CASE FlushAll(t, op[t])
    BY <1>1, <1>2, <2>1, FlushRead
  <2>2. CASE Exit(t)
    BY <1>2, <2>2, ExitRead
  <2>3. CASE op[t].call = "read" /\ Go(t, "read", op[t])
    <3>1. vnode'.mtime = File.mtime
      BY <1>1, <1>4, DataTypes DEF VnodeRecords
    <3>2. vnode'.mtime >= foreign'
      BY <1>1, <1>2, <1>4, <3>1, DataTypes DEF Remote, Dated, FileRecords
    <3>3. \A s \in Threads : ~Flushing(s)'
      <4>1. pc'[t] = "read" /\ \A s \in Threads : s # t => pc'[s] = pc[s]
        BY <1>1, <2>3, Goes
      <4> QED
        BY <1>2, <4>1, OthersIdle DEF Flushing
    <3>4. \A p : Current(p)'
      BY <3>2, <3>3 DEF Current
    <3>5. \A u \in Units : Wanted(u)' /\ PageOf(u) \in Present' => vnode'.val[u] = want'[u]
      BY <1>3, <3>4 DEF DataInv, Local, Coherent
    <3> QED
      BY <1>2, <2>3, <3>5, BeginsToCopy
  <2> QED
    BY <1>4, <2>1, <2>2, <2>3 DEF Verified
<1>5. CASE Exit(t)
  BY <1>2, <1>5, ExitRead
<1> QED
  BY <1>4, <1>5 DEF iumfs_getattr_verify, process_getattr_request

\* A flush without error has left no page.
LEMMA AfterFlushRead ==
  ASSUME DataInv, ReadInv, NEW t \in Threads, AfterFlush(t)
  PROVE  ReadInv'
<1>1. Types /\ Local /\ pc[t] = "flush" /\ op[t].todo = {}
  BY DEF DataInv, AfterFlush
<1>2. CASE Exit(t)
  BY <1>1, <1>2, ExitRead
<1>3. CASE op[t].call = "read" /\ ~op[t].err /\ Go(t, "read", op[t])
  <2>1. UNCHANGED <<vnode, want>>
    BY <1>3 DEF AfterFlush
  <2>2. put[t] = NoRun
    BY <1>1 DEF Local, Alone
  <2>3. Present = {}
    BY <1>1, <1>3, <2>2 DEF Local, Flushed, Flushing, NoRun
  <2>4. \A u \in Units : PageOf(u) \notin Present'
    BY <2>1, <2>3 DEF Present
  <2> QED
    BY <1>1, <1>3, <2>1, <2>4, BeginsToCopy
<1> QED
  BY <1>2, <1>3 DEF AfterFlush

\* putpage comes to a page.
LEMMA PutpageRead ==
  ASSUME DataInv, ReadInv, NEW t \in Threads, iumfs_putpage(t)
  PROVE  ReadInv'
<1>1. Types /\ op[t] \in Operations
  BY DataTypes DEF DataInv
<1>2. /\ pc[t] = "flush" /\ want' = want
      /\ \E p : op' = [op EXCEPT ![t].todo = @ \ {p}]
      /\ pc' = pc \/ Goto(t, "put")
  BY DEF iumfs_putpage, ghost
<1>3. /\ op'[t].call = op[t].call /\ op'[t].began = op[t].began
      /\ \A s \in Threads : s # t => op'[s] = op[s]
  BY <1>1, <1>2, DataTypes DEF Operations
<1>4. pc'[t] \in {"flush", "put"} /\ \A s \in Threads : s # t => pc'[s] = pc[s]
  BY <1>1, <1>2, OpAfter
<1>5. ReadSound(t)'
  BY <1>2, <1>3, <1>4, NotYetRead
<1> QED
  BY <1>2, <1>3, <1>4, <1>5, OthersRead

\* A page is read: it has what the file has, and that is what was written last.
LEMMA GetapageRead ==
  ASSUME DataInv, ReadInv, NEW t \in Threads, iumfs_getapage(t)
  PROVE  ReadInv'
<1> DEFINE p == PageOf(op[t].off)
<1>1. Types /\ Remote /\ Local /\ op[t] \in Operations
  BY DataTypes DEF DataInv
<1>2. /\ pc[t] \in {"write", "read"} /\ p \notin Present
      /\ UNCHANGED <<inode, link, want>>
  <2>1. pc[t] \in {"write", "read"} /\ p \notin Present /\ UNCHANGED ghost
    BY Zenon DEF iumfs_getapage
  <2>2. UNCHANGED server \/ \E d \in Daemons : process_read_request(d)
    BY Zenon DEF iumfs_getapage
  <2> QED
    BY <2>1, <2>2 DEF process_read_request, server, ghost
<1>3. ASSUME IF pc[t] = "write" THEN FlushAll(t, [op[t] EXCEPT !.err = TRUE]) ELSE Exit(t)
      PROVE  ReadInv'
  <2> DEFINE o == [op[t] EXCEPT !.err = TRUE]
  <2>1. o \in Operations /\ o.call = op[t].call /\ o.began = op[t].began
    BY <1>1 DEF Operations
  <2> HIDE DEF o
  <2>2. FlushAll(t, o) \/ Exit(t)
    BY <1>3 DEF o
  <2> QED
    BY <1>2, <2>1, <2>2, FlushRead, ExitRead
<1>4. ASSUME NEW d \in Daemons, process_read_request(d),
             LET file == inode[path2fd(d)] IN
             vnode' = [vnode EXCEPT !.page[p] = "clean",
                         !.val = [u \in Units |->
                                    IF u \notin UnitsOf(p) THEN @[u]
                                    ELSE IF u < file.size THEN file.val[u] ELSE "junk"]],
             UNCHANGED <<i_dlock, pc, op>>
      PROVE  ReadInv'
  <2>1. link # NoFile /\ path2fd(d) = link
    BY <1>1, <1>2, Known, PathIsLink DEF Types, Remote, Named
  <2>2. /\ vnode'.page = [vnode.page EXCEPT ![p] = "clean"]
        /\ vnode'.val = [u \in Units |->
                           IF u \notin UnitsOf(p) THEN vnode.val[u]
                           ELSE IF u < File.size THEN File.val[u] ELSE "junk"]
    BY <1>1, <1>4, <2>1, DataTypes DEF VnodeRecords, File
  <2>3. Present' \subseteq Present \cup {p}
    BY <1>1, <2>2, DataTypes DEF VnodeRecords, Present
  <2>4. /\ \A u \in Units : PageOf(u) # p => vnode'.val[u] = vnode.val[u]
        /\ \A u \in Units : PageOf(u) = p /\ u < File.size => vnode'.val[u] = File.val[u]
    BY <2>2 DEF UnitsOf
  <2>5. p \notin Pending
    <3>1. Dirty \subseteq Present
      BY DEF Dirty, Present
    <3>2. Busy \subseteq Present
      BY <1>1, BusyPages DEF Local, Apart
    <3> QED
      BY <1>2, <3>1, <3>2 DEF Pending
  <2>6. ASSUME NEW u \in Units, Wanted(u), PageOf(u) = p
        PROVE  vnode'.val[u] = want[u]
    <3>1. OnServer(u)
      BY <1>1, <2>5, <2>6 DEF Remote, Stored, Safe, Kept
    <3> QED
      BY <2>4, <2>6, <3>1 DEF OnServer
  <2>7. ASSUME pc'[t] = "read", NEW u \in Units, Wanted(u)', PageOf(u) \in Present'
        PROVE  op'[t].began[u] = Truncated \/ vnode'.val[u] \in {op'[t].began[u], want'[u]}
    <3>1. pc[t] = "read" /\ op'[t] = op[t] /\ want' = want /\ Wanted(u)
      BY <1>2, <1>4, <2>7 DEF Wanted
    <3>2. CASE PageOf(u) = p
      BY <2>6, <3>1, <3>2
    <3>3. CASE PageOf(u) # p
      BY <2>3, <2>4, <2>7, <3>1, <3>3 DEF ReadInv, ReadSound
    <3> QED
      BY <3>2, <3>3
  <2>8. ReadSound(t)'
    BY <1>2, <1>4, <2>7 DEF ReadInv, ReadSound
  <2> QED
    BY <1>2, <1>4, <2>8, OthersRead
<1> QED
  BY <1>3, <1>4, Zenon DEF iumfs_getapage

\* A write is not a read.
LEMMA WriteRead ==
  ASSUME DataInv, ReadInv, NEW t \in Threads, CopyIn(t) \/ SetSize(t)
  PROVE  ReadInv'
<1>1. Types /\ pc[t] \in {"write", "size"} /\ op[t].call # "read" /\ op[t] \in Operations
  BY DataTypes DEF DataInv, CopyIn, SetSize, ReadInv, ReadSound
<1>2. CASE Exit(t)
  BY <1>1, <1>2, ExitRead
<1>3. ASSUME NEW l \in {"size", "write"}, NEW o, Goto(t, l), op' = [op EXCEPT ![t] = o],
             o.call = op[t].call
      PROVE  ReadInv'
  <2>1. /\ pc'[t] = l /\ op'[t] = o
        /\ \A s \in Threads : s # t => pc'[s] = pc[s] /\ op'[s] = op[s]
    BY <1>1, <1>3, OpAfter
  <2>2. ReadSound(t)'
    BY <1>1, <1>3, <2>1, NotReading
  <2> QED
    BY <1>1, <2>1, <2>2, OthersRead
<1>4. CASE CopyIn(t)
  <2>1. Goto(t, "size") /\ op' = op
    BY <1>4 DEF CopyIn
  <2>2. op' = [op EXCEPT ![t] = op[t]]
    BY <1>1, <2>1, DataTypes
  <2> QED
    BY <1>3, <2>1, <2>2
<1>5. CASE SetSize(t) /\ ~Exit(t)
  <2> DEFINE o == [op[t] EXCEPT !.off = EndOf(t), !.len = @ - PartLen(t)]
  <2>1. Go(t, "write", o)
    BY <1>5 DEF SetSize, EndOf
  <2>2. o.call = op[t].call
    BY <1>1 DEF Operations
  <2> HIDE DEF o
  <2> QED
    BY <1>3, <2>1, <2>2 DEF Go
<1> QED
  BY <1>2, <1>4, <1>5

\* A page has been copied to the reader.
LEMMA CopyOutRead ==
  ASSUME DataInv, ReadInv, NEW t \in Threads, CopyOut(t)
  PROVE  ReadInv'
<1>1. Types /\ op[t] \in Operations /\ pc[t] = "read" /\ UNCHANGED <<vnode, want>>
  BY DataTypes DEF DataInv, CopyOut, ghost
<1>2. CASE Exit(t)
  BY <1>1, <1>2, ExitRead
<1>3. CASE ~Exit(t)
  <2> DEFINE n == Cardinality(Readable(t))
             o == [op[t] EXCEPT !.off = @ + n, !.len = @ - n]
  <2>1. Go(t, "read", o)
    BY <1>3 DEF CopyOut
  <2>2. o.call = op[t].call /\ o.began = op[t].began
    BY <1>1 DEF Operations
  <2> HIDE DEF o
  <2>3. /\ pc'[t] = "read" /\ op'[t].call = op[t].call /\ op'[t].began = op[t].began
        /\ \A s \in Threads : s # t => pc'[s] = pc[s] /\ op'[s] = op[s]
    BY <1>1, <2>1, <2>2, Goes
  <2>4. ReadSound(t)'
    BY <1>1, <2>3 DEF ReadInv, ReadSound, Wanted, Present
  <2> QED
    BY <1>1, <2>3, <2>4, OthersRead
<1> QED
  BY <1>2, <1>3

\* A put ends: its pages go, or stay as they are.
LEMMA RequestRead ==
  ASSUME DataInv, ReadInv, NEW x \in Putters,
         iumfs_request_write(x) \/ (x = Pageout /\ PageoutNothing)
  PROVE  ReadInv'
<1>1. Types /\ Local
  BY DEF DataInv
<1>2. PICK ok \in BOOLEAN : Finish(x, ok)
  BY DEF iumfs_request_write, PageoutNothing
<1>3. put[x].step = "send"
  BY DEF iumfs_request_write, PageoutNothing
<1>4. want' = want
  BY <1>2 DEF Finish, ghost
<1>5. CASE x = Pageout
  <2>1. UNCHANGED <<pc, op>>
    BY <1>2, <1>5 DEF Finish
  <2>2. /\ Present' \subseteq Present
        /\ \A u \in Units : PageOf(u) \in Present' => vnode'.val[u] = vnode.val[u]
    BY <1>1, <1>2, FinishPages
  <2> QED
    BY <1>4, <2>1, <2>2, ReadsGoOn
<1>6. CASE x \in Threads
  <2>1. /\ pc[x] = "put" /\ pc'[x] = "flush"
        /\ \A s \in Threads : s # x => pc'[s] = pc[s] /\ op'[s] = op[s]
    BY <1>1, <1>2, <1>3, <1>6, FinishThreads
  <2>2. x # Pageout /\ op[x] \in Operations
    BY <1>1, <1>6, DataTypes
  <2>3. op' = [op EXCEPT ![x].err = @ \/ ~ok]
    BY <1>2, <2>2 DEF Finish
  <2>4. op'[x].call = op[x].call /\ op'[x].began = op[x].began
    BY <1>1, <1>6, <2>2, <2>3, DataTypes DEF Operations
  <2>5. ReadSound(x)'
    BY <1>4, <1>6, <2>1, <2>4, NotYetRead
  <2> QED
    BY <1>6, <2>1, <2>5, OthersRead
<1> QED
  BY <1>5, <1>6 DEF Putters

\* pageout takes pages: nothing changes in those that stay.
LEMMA PageoutRead ==
  ASSUME DataInv, ReadInv, PageoutStart \/ PageoutSize
  PROVE  ReadInv'
<1>1. Types /\ UNCHANGED <<pc, op, want>>
  BY DEF DataInv, PageoutStart, PageoutSize, ghost
<1>2. CASE UNCHANGED vnode
  BY <1>1, <1>2, ReadsGoOn DEF Present
<1>3. ASSUME NEW p \in Present, vnode' = Without({p})
      PROVE  ReadInv'
  <2>1. {p} \in SUBSET Pages
    BY DEF Present
  <2>2. /\ Present' = Present \ {p}
        /\ \A u \in Units : PageOf(u) \notin {p} => vnode'.val[u] = vnode.val[u]
    BY <1>1, <1>3, <2>1, WithoutPages
  <2> QED
    BY <1>1, <2>2, ReadsGoOn
<1>4. ASSUME NEW p \in Dirty, vnode' = Marked(Kluster(p), "clean")
      PROVE  ReadInv'
  <2>1. Kluster(p) \in SUBSET Pages /\ Kluster(p) \subseteq Present
    BY DEF Kluster, Dirty, Present
  <2>2. Present' = Present /\ vnode'.val = vnode.val
    BY <1>1, <1>4, <2>1, MarkedClean
  <2> QED
    BY <1>1, <2>2, ReadsGoOn
<1> QED
  BY <1>2, <1>3, <1>4 DEF PageoutStart, PageoutSize

\* What the server does alone touches neither the pages nor what is wanted.
LEMMA ServerRead ==
  ASSUME ReadInv, UNCHANGED <<vnode, pc, op, want>>
  PROVE  ReadInv'
  BY ReadsGoOn DEF Present

\* Another client overwrites what somebody has written.
LEMMA OtherWritesRead ==
  ASSUME DataInv, Clean, ReadInv, OtherWrites
  PROVE  ReadInv'
<1>1. Types /\ UNCHANGED <<vnode, pc, op>> /\ link # NoFile
  BY DEF DataInv, OtherWrites
<1>2. PICK v \in 0 .. File.size - 1 : want' = [want EXCEPT ![v] = "other"]
  BY DEF OtherWrites
<1>3. v \in Units /\ want[v] # Nothing /\ want \in [Units -> Values \cup {Nothing, Truncated}]
  <2>1. v \in Units /\ v < File.size
    BY <1>1, <1>2, DataTypes DEF FileRecords, Units
  <2> QED
    BY <1>1, <2>1, DataTypes DEF Clean, FileMeant, Meant, Marks
<1>4. ASSUME NEW t \in Threads
      PROVE  ReadSound(t)'
  <2>1. pc'[t] = pc[t] /\ op'[t] = op[t] /\ Present' = Present
    BY <1>1 DEF Present
  <2>2. \A u \in Units : want'[u] = IF u = v THEN "other" ELSE want[u]
    BY <1>2, <1>3
  <2>3. ASSUME pc[t] = "read", NEW u \in Units, Wanted(u)', PageOf(u) \in Present
        PROVE  op[t].began[u] = Truncated \/ vnode.val[u] \in {op[t].began[u], want'[u]}
    <3>1. /\ want[u] \in {op[t].began[u], "other"}
          /\ Wanted(u) => op[t].began[u] = Truncated \/ vnode.val[u] \in {op[t].began[u], want[u]}
      BY <2>3 DEF ReadInv, ReadSound
    <3>2. CASE u # v
      <4>1. want'[u] = want[u] /\ Wanted(u)
        BY <2>2, <2>3, <3>2 DEF Wanted
      <4> QED
        BY <3>1, <4>1
    <3>3. CASE u = v
      BY <1>3, <2>2, <3>1, <3>3 DEF Wanted, Nothing, Truncated
    <3> QED
      BY <3>2, <3>3
  <2>4. op[t].call = "read" => \A u \in Units : want'[u] \in {op[t].began[u], "other"}
    BY <2>2 DEF ReadInv, ReadSound
  <2> QED
    BY <1>1, <2>1, <2>3, <2>4 DEF ReadInv, ReadSound
<1> QED
  BY <1>4 DEF ReadInv

\* Every step.
LEMMA ReadStep ==
  ASSUME Tidy, DataInv, Clean, ReadInv, [Next]_vars
  PROVE  ReadInv'
<1>1. Careful
  BY DEF Tidy
<1>2. ASSUME NEW t \in Threads, Step(t)
      PROVE  ReadInv'
  BY <1>1, <1>2, VerifyRead, PutpageRead, AfterFlushRead, GetapageRead, WriteRead, CopyOutRead
     DEF Step
<1>3. ASSUME \/ \E x \in Putters : TimeoutWrite(x)
             \/ \E d \in Daemons : LateWrite(d)
             \/ \E d \in Daemons : ServeOther(d) /\ UNCHANGED <<vnode, i_dlock, pc, op, put, ghost>>
             \/ Tick
             \/ UNCHANGED vars
      PROVE  ReadInv'
  <2>1. UNCHANGED <<vnode, pc, op, want>>
    BY <1>3 DEF TimeoutWrite, LateWrite, Tick, vars, ghost
  <2> QED
    BY <2>1, ServerRead
<1>4. ASSUME PageoutNothing
      PROVE  ReadInv'
  BY <1>4, RequestRead DEF Putters
<1> QED
  BY <1>2, <1>3, <1>4, CallRead, RequestRead, PageoutRead, OtherWritesRead DEF Next

\* A read returns what was last written, by whomever, when it began or since: for any
\* threads, sizes, timeouts and signals, where the other client keeps out of the second
\* that is cached and nobody writes beyond the end of the file (the comparison of
\* times in iumfs_getattr_verify, i_dlock in iumfs_read).
THEOREM ReadsSeeWrites ==
  ASSUME Tidy
  PROVE  Spec => ReadSeesWrites
<1> DEFINE Inv  == DataInv /\ Clean /\ ReadInv
           Sees ==
             \A t \in Threads :
               pc[t] = "read" /\ op[t].off < vnode.fsize /\ op'[t] # op[t]
               /\ PageOf(op[t].off) \in Present =>
                 \A u \in Readable(t) :
                   Truncated \in {op[t].began[u], want[u]}
                   \/ vnode.val[u] \in {op[t].began[u], want[u]}
<1>1. Init => Inv
  <2>1. ASSUME Init, NEW t \in Threads
        PROVE  ReadSound(t)
    BY <2>1 DEF Init, ReadSound, NoOp
  <2> QED
    BY <2>1, DataInit, CleanInit DEF ReadInv
<1>2. Inv /\ [Next]_vars => Inv'
  BY DataStep, CleanStep, ReadStep DEF Tidy
<1>3. Inv => Sees
  <2> SUFFICES ASSUME Inv, NEW t \in Threads, pc[t] = "read", PageOf(op[t].off) \in Present,
                      NEW u \in Readable(t)
               PROVE  Truncated \in {op[t].began[u], want[u]}
                      \/ vnode.val[u] \in {op[t].began[u], want[u]}
    OBVIOUS
  <2>1. u \in Units /\ u < vnode.fsize /\ PageOf(u) \in Present
    BY DEF Readable, UnitsOf
  <2>2. vnode.known
    BY Known DEF DataInv, Types
  <2>3. want[u] # Nothing
    BY <2>1, <2>2 DEF Clean, SizeMeant, Meant
  <2>4. CASE want[u] = Truncated
    BY <2>4
  <2>5. CASE Wanted(u)
    BY <2>1, <2>5 DEF ReadInv, ReadSound
  <2> QED
    BY <2>3, <2>4, <2>5 DEF Wanted
<1>4. Inv /\ [Next]_vars => [Sees]_vars
  BY <1>3
<1> QED
  BY <1>1, <1>2, <1>4, PTL DEF Spec, ReadSeesWrites
=============================================================================
