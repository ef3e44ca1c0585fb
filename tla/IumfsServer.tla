---------------------------- MODULE IumfsServer ----------------------------
(***************************************************************************)
(* One path on the server, and what the daemon localfsd does to the file   *)
(* behind it.  The path names an inode or nothing; every daemon thread     *)
(* keeps the descriptor of the file it opened last (filefd) and uses it    *)
(* again as long as it is asked for the same path (path2fd).               *)
(*                                                                         *)
(* A file is a size and a value for every unit below MaxSize.  Times are   *)
(* whole seconds, as parse_attributes passes them on.                      *)
(***************************************************************************)
EXTENDS Naturals, Sequences, SequencesExt

CONSTANTS
  Threads,    \* kernel threads, each writes a value of its own
  Daemons,    \* threads of the daemon
  MaxSize,    \* size of the largest file
  MaxInode,   \* inodes that exist at a time
  MaxTime,    \* last second of the clock
  DiskSize    \* size of the file at the start

Units  == 0 .. MaxSize - 1
Inodes == 1 .. MaxInode
NoFile == 0

\* "zero": nobody has written the unit.  "junk": what the memory of a page held
\* before.  "old": the file at the start.  "other": another client's write.
Values == Threads \cup {"zero", "junk", "old", "other"}

ASSUME ServerAssumption ==
  /\ MaxSize \in Nat \ {0} /\ MaxInode \in Nat \ {0} /\ MaxTime \in Nat \ {0}
  /\ DiskSize \in 0 .. MaxSize
  /\ Threads \cap {"zero", "junk", "old", "other"} = {}

VARIABLES
  inode,   \* inode -> size, contents and time of modification
  link,    \* the inode that the path names, or NoFile
  now,     \* the clock
  fd,      \* daemon thread -> inode of the descriptor it would use again
  held     \* daemon thread -> write request it still works on after its sender gave up

server == <<inode, link, now, fd, held>>

Zeros  == [u \in Units |-> "zero"]
NoData == [off |-> 0, data |-> <<>>]
Empty  == [size |-> 0, val |-> Zeros, mtime |-> now]

FileRecords == [size : 0 .. MaxSize, val : [Units -> Values], mtime : 0 .. MaxTime]
HeldRecords == [off : Units, data : Seq(Values)]

ServerTypeOK ==
  /\ inode \in [Inodes -> FileRecords]
  /\ link \in Inodes \cup {NoFile}
  /\ now \in 0 .. MaxTime
  /\ fd \in [Daemons -> Inodes \cup {NoFile}]
  /\ held \in [Daemons -> HeldRecords]

ServerInit ==
  /\ inode = [i \in Inodes |->
                IF i = 1 THEN [size  |-> DiskSize, mtime |-> 0,
                               val   |-> [u \in Units |-> IF u < DiskSize THEN "old" ELSE "zero"]]
                ELSE [size |-> 0, val |-> Zeros, mtime |-> 0]]
  /\ link = 1
  /\ now = 0
  /\ fd = [d \in Daemons |-> NoFile]
  /\ held = [d \in Daemons |-> NoData]

\* A daemon thread that is not busy with a request its sender gave up.
Ready(d) == held[d] = NoData

\* The file that the path names, and inodes that neither it nor a descriptor reaches.
File       == inode[link]
FreshInode == {i \in Inodes : i # link /\ \A d \in Daemons : fd[d] # i}

-----------------------------------------------------------------------------
(***************************************************************************)
(* The requests, each served as one step by a thread d that is ready.      *)
(***************************************************************************)
\* NoFile: open(2) failed, and the request fails with it.
path2fd(d) == IF fd[d] # NoFile THEN fd[d] ELSE link

Reopened(d) == fd' = [fd EXCEPT ![d] = path2fd(d)]

process_getattr_request(d) == Ready(d) /\ link # NoFile /\ UNCHANGED server

process_read_request(d) ==
  /\ Ready(d) /\ path2fd(d) # NoFile
  /\ Reopened(d)
  /\ UNCHANGED <<inode, link, now, held>>

\* pwrite(2) of as many units as there are.
pwrite(file, off, data) ==
  LET end == off + Len(data) IN
  [size  |-> IF end > file.size THEN end ELSE file.size,
   val   |-> [u \in Units |-> IF u \in off .. end - 1 THEN data[u - off + 1] ELSE file.val[u]],
   mtime |-> now]

process_write_request(d, off, data) ==
  /\ path2fd(d) # NoFile
  /\ Reopened(d)
  /\ inode' = [inode EXCEPT ![path2fd(d)] = pwrite(@, off, data)]
  /\ UNCHANGED <<link, now>>

\* creat(2) truncates a file that exists.  The descriptor it returns is kept under
\* an oflag that no later request asks for.
process_create_request(d) ==
  /\ Ready(d)
  /\ \E i \in IF link = NoFile THEN FreshInode ELSE {link} :
       link' = i /\ inode' = [inode EXCEPT ![i] = Empty]
  /\ fd' = [fd EXCEPT ![d] = NoFile]
  /\ UNCHANGED <<now, held>>

process_remove_request(d) ==
  /\ Ready(d) /\ link # NoFile
  /\ link' = NoFile
  /\ UNCHANGED <<inode, now, fd, held>>

\* A request about another path takes the descriptor.
ServeOther(d) ==
  /\ Ready(d) /\ fd[d] # NoFile
  /\ fd' = [fd EXCEPT ![d] = NoFile]
  /\ UNCHANGED <<inode, link, now, held>>
=============================================================================
