----------------------------- MODULE IumfsData -----------------------------
(***************************************************************************)
(* The data of one file of iumfs: the size and the time that its vnode     *)
(* caches, its pages, and the vnode operations that read, write and put    *)
(* them while the kernel's pageout does the same.                          *)
(*                                                                         *)
(* read, write, getattr, fsync, close and the truncation in create hold    *)
(* i_dlock from beginning to end; the pageout daemon calls putpage without *)
(* it.  A step of a thread under i_dlock is one request to the daemon, one *)
(* page copied, or one change of the size, because those are what pageout  *)
(* can tell apart.  pageout reads the size up to four times, a step each.  *)
(* The locks of single pages are not modelled: a page that is being put    *)
(* may be read and written, but not put once more or destroyed.            *)
(***************************************************************************)
EXTENDS IumfsServer, Integers, FiniteSets, FiniteSetsExt

CONSTANTS
  PageSize,   \* units to a page
  NoOne,      \* holds no lock
  Writes,     \* <<offset, length>> of the writes
  Reads,      \* and of the reads
  Calls,      \* operations the threads call: a subset of AllCalls
  Faults,     \* a subset of AllFaults
  Rules       \* what the users and the machine keep to: a subset of AllRules

AllCalls  == {"lookup", "create", "remove", "write", "append", "read", "getattr", "fsync",
              "close"}
AllFaults == {"timeout", "signal", "pageout", "other", "tick", "nomem"}
AllRules  == {"flushFirst", "statFirst", "noHoles", "window", "otherApart"}

Pages     == 0 .. (MaxSize - 1) \div PageSize
PageOf(u) == u \div PageSize
InPage(u) == u % PageSize
UnitsOf(p) == {u \in Units : PageOf(u) = p}

\* Who puts pages: a thread in an operation, and pageout.
Pageout == "pageout"
Putters == Threads \cup {Pageout}

\* What want knows of a unit: nothing, or nothing any more, or a value.
Nothing   == "nothing"
Truncated == "truncated"

ASSUME DataAssumption ==
  /\ PageSize \in Nat \ {0} /\ MaxSize % PageSize = 0
  /\ NoOne \notin Threads /\ Pageout \notin Threads
  /\ Threads \cap {Nothing, Truncated} = {}
  /\ Writes \cup Reads \subseteq Units \X (1 .. MaxSize)
  /\ Calls \subseteq AllCalls /\ Faults \subseteq AllFaults /\ Rules \subseteq AllRules

VARIABLES
  vnode,    \* in the list or not; fsize, mtime and the pages
  i_dlock,  \* its owner, or NoOne
  pc,       \* thread -> where it is
  op,       \* thread -> its operation
  put,      \* putter -> the run of pages in its iumfs_putapage
  want,     \* history: unit -> the value last written, see Wanted
  foreign   \* history: when another client last wrote

vars  == <<server, vnode, i_dlock, pc, op, put, want, foreign>>
ghost == <<want, foreign>>

\* The units for which want has a value.
Wanted(u) == want[u] \notin {Nothing, Truncated}

NoRun == [step |-> "none", pages |-> {}, from |-> 0, off |-> 0, len |-> 0]
NoOp  == [call |-> "none", off |-> 0, len |-> 0, todo |-> {}, err |-> FALSE, began |-> <<>>]
NoVnode == [known |-> FALSE, fsize |-> 0, mtime |-> 0,
            page |-> [p \in Pages |-> "none"], val |-> Zeros]

VnodeRecords == [known : BOOLEAN, fsize : 0 .. MaxSize, mtime : 0 .. MaxTime,
                 page : [Pages -> {"none", "clean", "dirty"}], val : [Units -> Values]]
Marks        == [Units -> Values \cup {Nothing, Truncated}]
Operations   == [call : {"none", "write", "read", "getattr", "sync", "create"},
                 off : 0 .. MaxSize, len : Int, todo : SUBSET Pages, err : BOOLEAN,
                 began : {<<>>} \cup Marks]
Runs         == [step : {"none", "over", "below", "base", "length", "send"},
                 pages : SUBSET Pages, from : Nat, off : Nat, len : Int]

TypeOK ==
  /\ ServerTypeOK
  /\ vnode \in VnodeRecords
  /\ i_dlock \in Threads \cup {NoOne}
  /\ pc \in [Threads -> {"idle", "verify", "flush", "put", "write", "size", "read"}]
  /\ op \in [Threads -> Operations]
  /\ put \in [Putters -> Runs]
  /\ want \in Marks
  /\ foreign \in 0 .. MaxTime

Init ==
  /\ ServerInit
  /\ vnode = NoVnode
  /\ i_dlock = NoOne
  /\ pc = [t \in Threads |-> "idle"]
  /\ op = [t \in Threads |-> NoOp]
  /\ put = [x \in Putters |-> NoRun]
  /\ want = [u \in Units |-> IF u < DiskSize THEN "old" ELSE Nothing]
  /\ foreign = 0

-----------------------------------------------------------------------------
(***************************************************************************)
(* Helpers                                                                 *)
(***************************************************************************)
Present == {p \in Pages : vnode.page[p] # "none"}
Dirty   == {p \in Pages : vnode.page[p] = "dirty"}
Busy    == UNION {put[x].pages : x \in Putters}

\* The vnode with its pages ps marked, and with them gone.
Marked(ps, mark) ==
  [vnode EXCEPT !.page = [p \in Pages |-> IF p \in ps THEN mark ELSE @[p]]]
Without(ps) ==
  [Marked(ps, "none") EXCEPT !.val = [u \in Units |-> IF PageOf(u) \in ps THEN "zero" ELSE @[u]]]

\* A written unit beyond a size.
Beyond(size) == \E u \in Units : u >= size /\ Wanted(u)

Goto(t, l) == pc' = [pc EXCEPT ![t] = l]

\* mutex_enter(&i_dlock), then the operation.
Enter(t, l, o) ==
  /\ pc[t] = "idle" /\ vnode.known /\ i_dlock = NoOne
  /\ i_dlock' = t /\ Goto(t, l)
  /\ op' = [op EXCEPT ![t] = o]
  /\ UNCHANGED <<server, vnode, put, ghost>>

Exit(t) ==
  /\ i_dlock' = NoOne /\ Goto(t, "idle")
  /\ op' = [op EXCEPT ![t] = NoOp]

\* On to label l, with the operation as in o and the lock kept.
Go(t, l, o) == Goto(t, l) /\ op' = [op EXCEPT ![t] = o] /\ UNCHANGED i_dlock

\* iumfs_putpage(vp, 0, 0, B_INVAL): all pages, dirty or not.
FlushAll(t, o) == Go(t, "flush", [o EXCEPT !.todo = Present])

\* The request of a thread ends on a signal: before a daemon thread has seen it, or
\* while one works on it, see Withheld.  pageout gets none.
Interrupted == "signal" \in Faults

-----------------------------------------------------------------------------
(***************************************************************************)
(* putpage: dirty pages go to the server, as far as the size reaches.      *)
(***************************************************************************)
\* pvn_write_kluster: the dirty pages that adjoin p and that nobody is putting.
Kluster(p) ==
  {q \in Dirty \ Busy : \A r \in Pages : (r \in p .. q \/ r \in q .. p) => r \in Dirty \ Busy}

Run(ps) == [step |-> "over", pages |-> ps, from |-> Min(ps) * PageSize,
            off |-> Min(ps) * PageSize, len |-> Cardinality(ps) * PageSize]

Clipped_NoBase(r) ==      \* slip: a run that begins beyond the size keeps its offset
  IF r.off + r.len <= vnode.fsize THEN [r EXCEPT !.step = "send"]
  ELSE [r EXCEPT !.step = "send", !.len = vnode.fsize - r.off]

\* The tests of iumfs_putapage, read with i_dlock held.
Clipped(r) ==
  LET off == IF vnode.fsize < r.off THEN vnode.fsize ELSE r.off
  IN IF r.off + r.len <= vnode.fsize THEN [r EXCEPT !.step = "send"]
     ELSE [r EXCEPT !.step = "send", !.off = off, !.len = vnode.fsize - off]

\* What goes into the buffer: the mapped run from its beginning.
DataOf(r) ==
  [i \in 1 .. r.len |-> IF PageOf(r.from + i - 1) \in r.pages THEN vnode.val[r.from + i - 1]
                        ELSE "junk"]

PutDone_Cleans(x, ok) ==      \* slip: pvn_write_done without B_ERROR
  vnode' = Without(put[x].pages)

\* pvn_write_done.  After an error the pages are dirty again; else they go away,
\* unless somebody has written to them meanwhile.
PutDone(x, ok) ==
  vnode' = IF ok THEN Without(put[x].pages \ Dirty) ELSE Marked(put[x].pages, "dirty")

Finish_NoError(x, ok) ==      \* slip: the error of a put is not passed on
  /\ put' = [put EXCEPT ![x] = NoRun]
  /\ PutDone(x, ok)
  /\ IF x = Pageout THEN UNCHANGED <<pc, op>> ELSE Goto(x, "flush") /\ UNCHANGED op
  /\ UNCHANGED <<i_dlock, ghost>>

Finish(x, ok) ==
  /\ put' = [put EXCEPT ![x] = NoRun]
  /\ PutDone(x, ok)
  /\ IF x = Pageout THEN UNCHANGED <<pc, op>>
     ELSE /\ Goto(x, "flush")
          /\ op' = [op EXCEPT ![x].err = @ \/ ~ok]
  /\ UNCHANGED <<i_dlock, ghost>>

\* One page of the list of pvn_vplist_dirty: destroyed, at once if it is clean or
\* all of it lies beyond the size, else after it has been put.
iumfs_putpage(t) ==
  /\ pc[t] = "flush" /\ op[t].todo # {}
  /\ LET p == Min(op[t].todo)
         r == Clipped(Run(Kluster(p))) IN
     /\ p \notin Busy
     /\ op' = [op EXCEPT ![t].todo = @ \ {p}]
     /\ \/ /\ p \notin Dirty
           /\ vnode' = Without({p})
           /\ UNCHANGED <<put, pc>>
        \/ /\ p \in Dirty /\ r.len = 0
           /\ vnode' = Without(r.pages)
           /\ UNCHANGED <<put, pc>>
        \/ /\ p \in Dirty /\ r.len # 0
           /\ vnode' = Marked(r.pages, "clean")
           /\ put' = [put EXCEPT ![t] = r]
           /\ Goto(t, "put")
  /\ UNCHANGED <<server, i_dlock, ghost>>

\* A daemon thread works on a write request whose sender will not wait for it.
Withheld(x) ==
  /\ \E d \in Daemons :
       Ready(d) /\ held' = [held EXCEPT ![d] = [off |-> put[x].off, data |-> DataOf(put[x])]]
  /\ UNCHANGED <<inode, link, now, fd>>

\* iumfs_request_write is answered, or fails.
iumfs_request_write(x) ==
  /\ put[x].step = "send" /\ put[x].len > 0
  /\ \/ \E d \in Daemons :
          /\ Ready(d) /\ UNCHANGED held
          /\ \/ process_write_request(d, put[x].off, DataOf(put[x])) /\ Finish(x, TRUE)
             \/ path2fd(d) = NoFile /\ UNCHANGED <<inode, link, now, fd>> /\ Finish(x, FALSE)
     \/ /\ x # Pageout /\ Interrupted
        /\ UNCHANGED server \/ Withheld(x)
        /\ Finish(x, FALSE)

\* It is not answered in time and will be sent again; the daemon works on.
TimeoutWrite(x) ==
  /\ "timeout" \in Faults
  /\ put[x].step = "send" /\ put[x].len > 0
  /\ Withheld(x)
  /\ UNCHANGED <<vnode, i_dlock, pc, op, put, ghost>>

LateWrite(d) ==
  /\ ~Ready(d)
  /\ held' = [held EXCEPT ![d] = NoData]
  /\ \/ process_write_request(d, held[d].off, held[d].data)
     \/ path2fd(d) = NoFile /\ UNCHANGED <<inode, link, now, fd>>
  /\ UNCHANGED <<vnode, i_dlock, pc, op, put, ghost>>

(***************************************************************************)
(* pageout calls putpage for a page, to free it.                           *)
(***************************************************************************)
InWindow(p) == \E t \in Threads : pc[t] = "size" /\ PageOf(op[t].off) = p

\* pageout is not about to use a size it has read.
SizeMayChange == "window" \in Rules => put[Pageout].step \notin {"below", "base", "length"}

PageoutStart ==
  /\ "pageout" \in Faults /\ put[Pageout] = NoRun
  /\ \E p \in Present \ Busy :
       IF p \in Dirty
       THEN /\ "window" \in Rules => \A q \in Kluster(p) : ~InWindow(q)
            /\ put' = [put EXCEPT ![Pageout] = Run(Kluster(p))]
            /\ vnode' = Marked(Kluster(p), "clean")
       ELSE /\ UNCHANGED put
            /\ vnode' = Without({p})
  /\ UNCHANGED <<server, i_dlock, pc, op, ghost>>

\* iumfs_putapage reads the size once to see whether the run ends beyond it, once
\* to see whether it begins beyond it, then for the offset and for the length.
PageoutSize ==
  LET r == put[Pageout]
      Next(s) == put' = [put EXCEPT ![Pageout] = s] IN
  /\ \/ /\ r.step = "over"
        /\ Next([r EXCEPT !.step = IF r.off + r.len > vnode.fsize THEN "below" ELSE "send"])
     \/ /\ r.step = "below"
        /\ Next([r EXCEPT !.step = IF vnode.fsize < r.off THEN "base" ELSE "length"])
     \/ /\ r.step = "base"
        /\ Next([r EXCEPT !.step = "length", !.off = vnode.fsize])
     \/ /\ r.step = "length"
        /\ Next([r EXCEPT !.step = "send", !.len = vnode.fsize - r.off])
  /\ UNCHANGED <<server, vnode, i_dlock, pc, op, ghost>>

\* Nothing of the run lies below the size.
PageoutNothing ==
  /\ put[Pageout].step = "send" /\ put[Pageout].len = 0
  /\ Finish(Pageout, TRUE)
  /\ UNCHANGED server

-----------------------------------------------------------------------------
(***************************************************************************)
(* The vnode appears, is truncated, disappears.                            *)
(***************************************************************************)
NewVnode == [NoVnode EXCEPT !.known = TRUE, !.mtime = now]

\* A vnode made by lookup knows neither size nor time of its file.
iumfs_lookup(t) ==
  /\ pc[t] = "idle" /\ ~vnode.known /\ link # NoFile
  /\ \E d \in Daemons : Ready(d)
  /\ vnode' = NewVnode
  /\ UNCHANGED <<server, i_dlock, pc, op, put, ghost>>

\* open(2) with O_CREAT and O_TRUNC: a file that lookup finds is put to the server
\* and its cached size set to 0, nothing more.  If lookup fails, be it for lack of
\* memory, the server is asked to create the file.
iumfs_create(t) ==
  \/ Enter(t, "flush", [NoOp EXCEPT !.call = "create", !.todo = Present])
  \/ /\ pc[t] = "idle" /\ ~vnode.known
     /\ link = NoFile \/ "nomem" \in Faults
     /\ \E d \in Daemons : process_create_request(d)
     /\ vnode' = NewVnode
     /\ UNCHANGED <<i_dlock, pc, op, put, ghost>>

\* Removal of a file that nobody uses, with iumfs_free_node.
iumfs_remove(t) ==
  /\ vnode.known /\ \A s \in Threads : pc[s] = "idle"
  /\ Dirty \cup Busy = {}
  /\ \E d \in Daemons : process_remove_request(d)
  /\ vnode' = NoVnode
  /\ want' = [u \in Units |-> Nothing]
  /\ UNCHANGED <<i_dlock, pc, op, put, foreign>>

-----------------------------------------------------------------------------
(***************************************************************************)
(* Attributes.                                                             *)
(***************************************************************************)
SizeIsFlushed ==
  Dirty \cup Busy # {} /\ link # NoFile => File.size = vnode.fsize

iumfs_getattr(t) ==
  /\ "flushFirst" \in Rules => SizeIsFlushed
  /\ Enter(t, "verify", [NoOp EXCEPT !.call = "getattr"])

\* After a successful iumfs_getattr_verify.
Verified(t) == IF op[t].call = "read" THEN Go(t, "read", op[t]) ELSE Exit(t)

iumfs_getattr_verify_Keeps(t) ==      \* slip: pages outlive a change of the file
  /\ pc[t] = "verify"
  /\ \E d \in Daemons : process_getattr_request(d)
  /\ vnode' = [vnode EXCEPT !.fsize = File.size, !.mtime = File.mtime]
  /\ Verified(t)
  /\ UNCHANGED <<put, ghost>>

\* The answer replaces size and time; if the second has changed, all pages are put
\* and destroyed, up to the size that has just arrived.
iumfs_getattr_verify(t) ==
  /\ pc[t] = "verify"
  /\ \/ /\ \E d \in Daemons : process_getattr_request(d)
        /\ SizeMayChange
        /\ vnode' = [vnode EXCEPT !.fsize = File.size, !.mtime = File.mtime]
        /\ IF File.mtime # vnode.mtime THEN FlushAll(t, op[t]) ELSE Verified(t)
     \/ /\ Interrupted \/ (link = NoFile /\ \E d \in Daemons : Ready(d))
        /\ Exit(t)
        /\ UNCHANGED <<server, vnode>>
  /\ UNCHANGED <<put, ghost>>

\* What follows a flush; an error of putpage has not stopped it.
AfterFlush(t) ==
  /\ pc[t] = "flush" /\ op[t].todo = {}
  /\ IF op[t].call = "read" /\ ~op[t].err THEN Go(t, "read", op[t]) ELSE Exit(t)
  /\ IF op[t].call = "create"
     THEN /\ SizeMayChange
          /\ vnode' = [vnode EXCEPT !.fsize = 0]
          /\ want' = [u \in Units |-> IF Wanted(u) THEN Truncated ELSE want[u]]
     ELSE UNCHANGED <<vnode, want>>
  /\ UNCHANGED <<server, put, foreign>>

iumfs_fsync(t) == Enter(t, "flush", [NoOp EXCEPT !.call = "sync", !.todo = Present])
iumfs_close(t) == Enter(t, "flush", [NoOp EXCEPT !.call = "sync", !.todo = Present])

-----------------------------------------------------------------------------
(***************************************************************************)
(* read and write: one page after the other is brought in and copied.      *)
(***************************************************************************)
SizeIsKnown == ~Beyond(vnode.fsize) /\ vnode.mtime >= foreign

StartWrite(t, off, len) ==
  /\ "statFirst" \in Rules => SizeIsKnown
  /\ "noHoles" \in Rules => off <= vnode.fsize
  /\ off + len <= MaxSize
  /\ Enter(t, "write", [NoOp EXCEPT !.call = "write", !.off = off, !.len = len])

iumfs_write(t)  == \E w \in Writes : StartWrite(t, w[1], w[2])
iumfs_append(t) == \E w \in Writes : StartWrite(t, vnode.fsize, w[2])     \* FAPPEND

iumfs_read(t) ==
  /\ "flushFirst" \in Rules => SizeIsFlushed
  /\ \E r \in Reads :
       Enter(t, "verify", [NoOp EXCEPT !.call = "read", !.off = r[1], !.len = r[2],
                                       !.began = want])

PartLen_Page(t) == PageSize - InPage(op[t].off)     \* slip: not limited to what is left

\* The part of the operation that lies in its first page.
PartLen(t) == Min({PageSize - InPage(op[t].off), op[t].len})

IsCreated_Greedy(t) ==      \* slip: the page is created for every whole or last part
  \/ vnode.fsize = 0
  \/ op[t].off + PartLen(t) > vnode.fsize

\* iumfs_write creates the page instead of reading it.
IsCreated(t) ==
  LET pre == InPage(op[t].off) IN
  \/ vnode.fsize = 0
  \/ op[t].off - pre > vnode.fsize
  \/ pre = 0 /\ (PartLen(t) = PageSize \/ op[t].off + PartLen(t) > vnode.fsize)

\* iumfs_getapage: the page is read; what the file does not fill stays as it was.
\* If that fails a write puts and destroys the pages of its slot, which are all here.
iumfs_getapage(t) ==
  /\ \/ pc[t] = "write" /\ ~IsCreated(t)
     \/ pc[t] = "read" /\ op[t].len > 0 /\ op[t].off < vnode.fsize
  /\ PageOf(op[t].off) \notin Present
  /\ \/ \E d \in Daemons :
          /\ process_read_request(d)
          /\ LET file == inode[path2fd(d)] IN
             vnode' = [vnode EXCEPT !.page[PageOf(op[t].off)] = "clean",
                         !.val = [u \in Units |->
                                    IF u \notin UnitsOf(PageOf(op[t].off)) THEN @[u]
                                    ELSE IF u < file.size THEN file.val[u] ELSE "junk"]]
          /\ UNCHANGED <<i_dlock, pc, op>>
     \/ /\ Interrupted \/ \E d \in Daemons : Ready(d) /\ path2fd(d) = NoFile
        /\ IF pc[t] = "write" THEN FlushAll(t, [op[t] EXCEPT !.err = TRUE]) ELSE Exit(t)
        /\ UNCHANGED <<server, vnode>>
  /\ UNCHANGED <<put, ghost>>

\* uiomove into the page, and zeros behind it if the page was created.
CopyIn(t) ==
  LET p   == PageOf(op[t].off)
      end == op[t].off + PartLen(t) IN
  /\ pc[t] = "write"
  /\ IsCreated(t) \/ p \in Present
  /\ vnode' = [vnode EXCEPT !.page[p] = "dirty",
                 !.val = [u \in Units |->
                            IF u \notin UnitsOf(p) THEN @[u]
                            ELSE IF u \in op[t].off .. end - 1 THEN t
                            ELSE IF IsCreated(t) /\ u >= end THEN "zero"
                            ELSE IF p \in Present THEN @[u] ELSE "junk"]]
  /\ want' = [u \in Units |-> IF u \in op[t].off .. end - 1 THEN t ELSE want[u]]
  /\ Goto(t, "size")
  /\ UNCHANGED <<server, i_dlock, op, put, foreign>>

\* Only now does the size grow.
SetSize(t) ==
  LET end == op[t].off + PartLen(t) IN
  /\ pc[t] = "size"
  /\ SizeMayChange
  /\ vnode' = [vnode EXCEPT !.fsize = IF end > @ THEN end ELSE @]
  /\ IF op[t].len = PartLen(t) THEN Exit(t)
     ELSE Go(t, "write", [op[t] EXCEPT !.off = end, !.len = @ - PartLen(t)])
  /\ UNCHANGED <<server, put, ghost>>

\* The units the next step of a read copies.
Readable(t) == {u \in UnitsOf(PageOf(op[t].off)) :
                  u \in op[t].off .. op[t].off + op[t].len - 1 /\ u < vnode.fsize}

CopyOut(t) ==
  /\ pc[t] = "read"
  /\ Readable(t) = {} \/ PageOf(op[t].off) \in Present
  /\ LET n == Cardinality(Readable(t)) IN
     IF n = 0 \/ n = op[t].len THEN Exit(t)
     ELSE Go(t, "read", [op[t] EXCEPT !.off = @ + n, !.len = @ - n])
  /\ UNCHANGED <<server, vnode, put, ghost>>

-----------------------------------------------------------------------------
(***************************************************************************)
(* The rest of the world.                                                  *)
(***************************************************************************)
Tick ==
  /\ "tick" \in Faults /\ now < MaxTime
  /\ now' = now + 1
  /\ UNCHANGED <<inode, link, fd, held, vnode, i_dlock, pc, op, put, ghost>>

\* Another client of the server overwrites a unit.
OtherWrites ==
  /\ "other" \in Faults /\ link # NoFile
  /\ "otherApart" \in Rules =>
       /\ vnode.known => now > vnode.mtime
       /\ Dirty \cup Busy = {} /\ \A d \in Daemons : Ready(d)
       /\ \A t \in Threads : pc[t] \notin {"write", "size"}
  /\ \E u \in 0 .. File.size - 1 :
       /\ inode' = [inode EXCEPT ![link].val[u] = "other", ![link].mtime = now]
       /\ want' = [want EXCEPT ![u] = "other"]
  /\ foreign' = now
  /\ UNCHANGED <<link, now, fd, held, vnode, i_dlock, pc, op, put>>

Call(t) ==
  \/ "lookup" \in Calls /\ iumfs_lookup(t)
  \/ "create" \in Calls /\ iumfs_create(t)
  \/ "remove" \in Calls /\ iumfs_remove(t)
  \/ "write" \in Calls /\ iumfs_write(t)
  \/ "append" \in Calls /\ iumfs_append(t)
  \/ "read" \in Calls /\ iumfs_read(t)
  \/ "getattr" \in Calls /\ iumfs_getattr(t)
  \/ "fsync" \in Calls /\ iumfs_fsync(t)
  \/ "close" \in Calls /\ iumfs_close(t)

Step(t) ==
  \/ iumfs_getattr_verify(t) \/ iumfs_putpage(t) \/ AfterFlush(t)
  \/ iumfs_getapage(t) \/ CopyIn(t) \/ SetSize(t) \/ CopyOut(t)

Next ==
  \/ \E t \in Threads : Call(t) \/ Step(t)
  \/ \E x \in Putters : iumfs_request_write(x) \/ TimeoutWrite(x)
  \/ PageoutStart \/ PageoutSize \/ PageoutNothing
  \/ \E d \in Daemons : LateWrite(d) \/ (ServeOther(d) /\ UNCHANGED <<vnode, i_dlock, pc, op, put, ghost>>)
  \/ Tick \/ OtherWrites

Spec == Init /\ [][Next]_vars

-----------------------------------------------------------------------------
(***************************************************************************)
(* Properties                                                              *)
(***************************************************************************)
OnServer(u) == link # NoFile /\ u < File.size /\ File.val[u] = want[u]

\* Whatever was written last to a unit is on the server, or in a page that is still
\* going to be put and that the size will not cut off (iumfs_write, iumfs_putapage,
\* pageout).
WrittenIsKept ==
  \A u \in Units : Wanted(u) =>
    \/ OnServer(u)
    \/ /\ vnode.val[u] = want[u]
       /\ PageOf(u) \in Dirty \cup Busy
       /\ u < vnode.fsize \/ InWindow(PageOf(u))

\* Nothing reaches the server but what was written: no rest of a page, which may be
\* left over from another file (the zeroing in iumfs_write, the cut in putapage).
NoJunkStored ==
  link # NoFile => \A u \in 0 .. File.size - 1 : want[u] # Nothing /\ File.val[u] # "junk"

\* The descriptor a daemon thread would use again is that of the file the path names
\* (path2fd).  The code keeps it so with one daemon thread only.
DescriptorIsCurrent ==
  link # NoFile => \A d \in Daemons : fd[d] \in {NoFile, link}

\* iumfs_putapage sends the pages it has collected to where they belong: the length
\* it computes neither wraps round below zero nor reaches past them.
PutInBounds ==
  \A x \in Putters : put[x].step = "send" =>
    \/ put[x].len = 0
    \/ put[x].off = put[x].from /\ put[x].len \in 1 .. Cardinality(put[x].pages) * PageSize

\* fsync or close that reports success leaves everything written on the server, also
\* what pageout had failed to put.
SyncStores ==
  [][\A t \in Threads :
       pc[t] = "flush" /\ pc'[t] = "idle" /\ op[t].call = "sync" /\ ~op[t].err =>
         \A u \in Units : Wanted(u) => OnServer(u)]_vars

\* A read returns what was last written, by whomever, when it began or since
\* (the comparison of times in iumfs_getattr_verify).
ReadSeesWrites ==
  [][\A t \in Threads :
       pc[t] = "read" /\ op[t].off < vnode.fsize /\ op'[t] # op[t] /\ PageOf(op[t].off) \in Present =>
         \A u \in Readable(t) :
           Truncated \in {op[t].began[u], want[u]}
           \/ vnode.val[u] \in {op[t].began[u], want[u]}]_vars
=============================================================================
