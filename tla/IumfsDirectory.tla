--------------------------- MODULE IumfsDirectory ---------------------------
(***************************************************************************)
(* The records of one directory of iumfs and the programs that list it.    *)
(*                                                                         *)
(* The entries are dirent64_t records one behind the other in one piece of *)
(* memory, guarded by i_dlock: every routine below is one step, readdir    *)
(* with its request to the daemon included.  A record is its name; lengths *)
(* are counted in units, 1 for most and 3 for LongNames.  A program lists  *)
(* the directory by calling readdir until it returns nothing; only the     *)
(* offset of its file descriptor connects one call with the next.          *)
(***************************************************************************)
EXTENDS Naturals, FiniteSets, Sequences, SequencesExt

CONSTANTS
  Names,     \* of files
  LongNames, \* those with longer records
  Users,     \* programs that list the directory
  Buffers,   \* sizes of the buffers they offer
  Rules      \* a subset of AllRules

\* What the environment keeps to.  "notBehind": no entry is removed that a listing
\* has passed.  "roomy": a buffer holds any record.  "answered": the daemon answers
\* in full and there is memory for what it answers.
AllRules == {"notBehind", "roomy", "answered"}

Dots      == {".", ".."}
DirNames  == Names \cup Dots

ASSUME DirectoryAssumption ==
  /\ IsFiniteSet(Names) /\ Names \cap Dots = {} /\ LongNames \subseteq Names
  /\ Buffers \subseteq Nat \ {0}
  /\ "roomy" \in Rules => \A b \in Buffers : b >= 3
  /\ Rules \subseteq AllRules

VARIABLES
  server,   \* names in the directory on the server
  data,     \* dirinp->data, in order
  uoff,     \* user -> uio_loffset
  listing,  \* user -> is between the first call of readdir and the last
  stays,    \* history: names that have been there since the user's listing began
  seen,     \* history: names that it has returned
  again     \* history: names of stays that it has returned twice

vars    == <<server, data, uoff, listing, stays, seen, again>>
history == <<stays, seen, again>>

Cached  == {data[i] : i \in DOMAIN data}
Size(s) == Len(s) + 2 * Cardinality({i \in DOMAIN s : s[i] \in LongNames})
dlen    == Size(data)

\* The offset of the i-th record.
Offset(i) == Size(SubSeq(data, 1, i - 1))

TypeOK ==
  /\ server \subseteq Names
  /\ data \in Seq(DirNames)
  /\ uoff \in [Users -> Nat]
  /\ listing \in [Users -> BOOLEAN]
  /\ \A h \in {stays, seen, again} : h \in [Users -> SUBSET DirNames]

\* iumfs_make_directory enters the dots.
Init ==
  /\ server \in SUBSET Names
  /\ data = <<".", "..">>
  /\ uoff = [u \in Users |-> 0]
  /\ listing = [u \in Users |-> FALSE]
  /\ stays = [u \in Users |-> {}] /\ seen = stays /\ again = stays

-----------------------------------------------------------------------------
WithEntry_Again(d, n) == Append(d, n)      \* slip: without looking for it first

WithEntry_InFront(d, n) == IF \E i \in DOMAIN d : d[i] = n THEN d ELSE <<n>> \o d      \* slip

\* The records with one for n behind them, unless it is there.
WithEntry(d, n) == IF \E i \in DOMAIN d : d[i] = n THEN d ELSE Append(d, n)

\* lookup, create and mkdir enter a name; without memory they do not.
iumfs_add_entry_to_dir(n) ==
  /\ data' = WithEntry(data, n)
  /\ UNCHANGED <<server, uoff, listing, history>>

Gone(n) == stays' = [u \in Users |-> stays[u] \ {n}]

\* remove and rmdir take a name out: the records behind it move up.
iumfs_remove_entry_from_dir(n) ==
  \E i \in DOMAIN data :
    /\ data[i] = n
    /\ "notBehind" \in Rules => \A u \in Users : listing[u] => uoff[u] <= Offset(i)
    /\ data' = SubSeq(data, 1, i - 1) \o SubSeq(data, i + 1, Len(data))
    /\ Gone(n)
    /\ UNCHANGED <<server, uoff, listing, seen, again>>

-----------------------------------------------------------------------------
\* Names of the answer that get a record: those that have none, in any order; fewer
\* if the request fails or memory does.
process_readdir_request ==
  LET missing == server \ Cached IN
  UNION {SetToSeqs(s) : s \in IF "answered" \in Rules THEN {missing} ELSE SUBSET missing}

\* The data with that answer worked in.
iumfs_request_readdir == {data \o answer : answer \in process_readdir_request}

\* Slip: the record at the offset is passed over.
Starts_Behind(d, off, i) ==
  /\ i <= Len(d) /\ off > 0 => Size(SubSeq(d, 1, i - 1)) > off
  /\ \A k \in 1 .. i - 1 : off > 0 /\ Size(SubSeq(d, 1, k - 1)) <= off

\* The i-th record is the first that does not begin before off.
Starts(d, off, i) ==
  /\ i <= Len(d) => Size(SubSeq(d, 1, i - 1)) >= off
  /\ \A k \in 1 .. i - 1 : Size(SubSeq(d, 1, k - 1)) < off

\* From the i-th on, those to the j-th fit into the buffer, and no more.
Fits(d, resid, i, j) ==
  /\ Size(SubSeq(d, i, j)) <= resid
  /\ j < Len(d) => Size(SubSeq(d, i, j + 1)) > resid

Advance_Never(off, s) == off      \* slip

\* uiomove moves the user's offset by what it has copied.
Advance(off, s) == off + Size(s)

\* The user learns only what was copied: nothing means the end.
iumfs_readdir(u) ==
  /\ listing[u]
  /\ \E d \in iumfs_request_readdir, resid \in Buffers :
     \E i \in 1 .. Len(d) + 1 : \E j \in i - 1 .. Len(d) :
       LET names == {d[k] : k \in i .. j} IN
       /\ Starts(d, uoff[u], i) /\ Fits(d, resid, i, j)
       /\ data' = d
       /\ uoff' = [uoff EXCEPT ![u] = Advance(@, SubSeq(d, i, j))]
       /\ listing' = [listing EXCEPT ![u] = names # {}]
       /\ seen' = [seen EXCEPT ![u] = @ \cup names]
       /\ again' = [again EXCEPT ![u] = @ \cup (names \cap seen[u] \cap stays[u])]
  /\ UNCHANGED <<server, stays>>

-----------------------------------------------------------------------------
\* opendir, or rewinddir.
StartListing(u) ==
  /\ ~listing[u]
  /\ listing' = [listing EXCEPT ![u] = TRUE]
  /\ uoff' = [uoff EXCEPT ![u] = 0]
  /\ stays' = [stays EXCEPT ![u] = Cached \cup server]
  /\ seen' = [seen EXCEPT ![u] = {}]
  /\ again' = [again EXCEPT ![u] = {}]
  /\ UNCHANGED <<server, data>>

\* Requests of this client and of others change the directory on the server.
ServerAdds(n) ==
  /\ server' = server \cup {n}
  /\ UNCHANGED <<data, uoff, listing, history>>

ServerRemoves(n) ==
  /\ server' = server \ {n}
  /\ Gone(n)
  /\ UNCHANGED <<data, uoff, listing, seen, again>>

Next ==
  \/ \E n \in Names :
       \/ iumfs_add_entry_to_dir(n) \/ iumfs_remove_entry_from_dir(n)
       \/ ServerAdds(n) \/ ServerRemoves(n)
  \/ \E u \in Users : iumfs_readdir(u) \/ StartListing(u)

Spec == Init /\ [][Next]_vars

\* A program that lists goes on calling readdir.
FairSpec == Spec /\ \A u \in Users : WF_vars(iumfs_readdir(u))

-----------------------------------------------------------------------------
(***************************************************************************)
(* Properties                                                              *)
(***************************************************************************)
\* No name has two records, whoever enters it (iumfs_add_entry_to_dir and readdir).
NamesUnique == \A i, j \in DOMAIN data : data[i] = data[j] => i = j

\* A listing returns nothing twice that was there all the time (the offset that
\* iumfs_readdir leaves in the uio).
NothingTwice == \A u \in Users : again[u] = {}

\* When readdir has returned nothing, it has returned everything that was there all
\* the time, on the server or in the cache.
NothingMissed ==
  \A u \in Users : ~listing[u] => stays[u] \subseteq seen[u]

\* A listing comes to its end, although entries come and go meanwhile.
ListingEnds == \A u \in Users : listing[u] ~> ~listing[u]
=============================================================================
