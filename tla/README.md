# iumfs in TLA+

iumfs is a Solaris file system whose files live behind a user-mode daemon. The
kernel module keeps the vnodes and the cached directory entries of a mounted
file system and turns every operation that needs the server into a *request*,
which it hands to the daemon through a character device, `iumfscntl`. The
repository's README says of it: "This program is not tested well. It might cause
system panic or hang." This directory holds models of its parts, from the locks
and flags of the request channel to the pages of a file, the runs that check them
and proofs about them.

## Inventory

| Component | Source | State it keeps | Operations | Modelled in |
|---|---|---|---|---|
| request channel | `iumfs_request.c` | claims and request contents, kept in the device's instances | `iumfs_daemon_request_enter`, `_start`, `_exit`; nine `iumfs_request_*` routines | `IumfsRequest`, promise in `RequestGate` |
| control device | `iumfs_cntl_device.c` | per instance: flags `state`, `error`, the shared buffer, a condition variable, two locks | open, close, read, write, poll; attach, detach (devmap, ioctl) | `IumfsRequest`; attach and detach in `IumfsLifecycle` |
| daemon | `localfsd.c` | per thread: request and response buffer, cached descriptor; one static `fd_set` for all | `request_loop`, `process_*_request`, `path2fd` | `IumfsRequest` (loop), `IumfsNodes` (tree), `IumfsServer` (one file and its descriptors), `IumfsDirectory` (readdir) |
| nodes | `iumfs_node.c` | list of vnodes, `v_count`, node numbers | allocate, find, name, remove, free | `IumfsNodes` |
| directory entries | `iumfs_node.c` | `dirent64_t` records, one behind the other | look for, add, remove | `IumfsNodes` (as a map), `IumfsDirectory` (records, offsets) |
| vnode operations on names | `iumfs_vnops.c` | nothing of its own | lookup, create, remove, mkdir, rmdir, readdir, inactive | `IumfsNodes`, `IumfsDirectory` (readdir) |
| file data | `iumfs_vnops.c` | size and time in the vnode, pages in the kernel's cache | read, write, getattr, fsync, close, getpage, putpage; map | `IumfsData` |
| file systems, module | `iumfs_vfsops.c` | `rootvnode`, last node number, last device number, the global lock | mount, unmount, root; `_init`, `_fini` | `IumfsNodes` (root, unmount), `IumfsLifecycle` |
| mount command, tests, build | `iumfs_mount.c`, `iumfs-test/*` | none | | not modelled |

How they interact. A vnode operation calls a request routine; that claims an
instance, fills its buffer, sets two flags and sleeps on the instance's condition
variable with a timer of 10 s (`DAEMON_TIMEOUT`). A daemon thread sleeps in `select` or in `read`, is
woken by `pollwakeup` or `cv_broadcast`, copies the buffer out, works on its own
file system, and writes the answer into the same buffer. The operation then
changes the list of nodes and the entries of the directory under their own locks.
Nothing holds a lock over a whole operation; `iumfs_readdir` is the exception, it
keeps the `i_dlock` of its directory while it waits for the daemon.

What is hard: five waiting loops share one condition variable; requests time
out, are interrupted, and are retried while the daemon may still answer the first
one; the daemon may die at any moment and a new one opens the same instance; the
buffer is written under different locks or none; vnodes are found, held, released and
freed by several threads, each step under another lock; unmount races with all of
that; dirty pages are put by pageout without the lock that guards the size they are
clipped to, while the server's size and time replace the cached ones; a listing of a
directory is held together by an offset into records that move; detach gives up half
way with its locks held.

What makes each part correct:

- *channel*: one owner per instance; no lost wakeup; no orphan request; a reply is
  the reply to one's own request; whoever claims an instance gives it back;
- *device*: one daemon thread per instance; open and close leave no waiting thread behind;
- *daemon*: a thread watches its own device; it reads only when it can;
- *nodes*: reference counts are exact; a vnode in use is not freed; no two vnodes
  share a number; nothing leaks; entries exist on the server;
- *directory entries*: one record per name; a listing returns everything once, and ends;
- *file data*: what was written is kept until it is on the server; nothing else gets
  there; fsync and close tell the truth; a read returns what was written last;
- *descriptors*: data goes to the file that the path names now (with the four threads of `localfsd` it may not);
- *unmount, module*: only what nobody uses is freed, all of it is, and every lock is given back.

`PROJECT.json` lists the hazards line by line with the properties aimed at each.

## Modules

| Module | What it is |
|---|---|
| `RequestGate` | abstract: between enter and exit a thread has an instance to itself, and goes through enter, start, return, exit in that order |
| `IumfsRequest` | the request routines, the device's entry points and the daemon's loop; refines `RequestGate` |
| `IumfsRequest_proofs` | theorems about `IumfsRequest`: types, claims and the gate, flags and sleepers, contents of the buffer |
| `IumfsNodes` | vnodes, entries, reference counts, the operations on names, unmount |
| `IumfsNodes_proofs`, `IumfsCounts_proofs`, `IumfsSolo_proofs`, `IumfsUnmount_proofs` | theorems about `IumfsNodes`: types; reference counts, rmdir, numbers and paths for many threads; entries and leaks for one; unmount for one and for many |
| `IumfsServer` | one path on the server, what the daemon's requests do to the file, and the descriptor each daemon thread keeps |
| `IumfsData` | size, time and pages of that file in the kernel; extends `IumfsServer`, so the two are one state machine |
| `IumfsDirectory` | the records of one directory and the programs that list it |
| `IumfsDirectory_proofs` | theorems about `IumfsDirectory`: one record per name, what a listing returns |
| `IumfsLifecycle` | `_init`, `_fini`, attach, detach, mount, unmount and the requests in between |
| `IumfsData_proofs` | theorems about `IumfsData` and `IumfsServer`: types, no written data is lost, fsync is complete, nothing else is stored, a read sees what was written |
| `IumfsLifecycle_proofs` | theorems about `IumfsLifecycle`: nothing is left behind, device numbers differ |
| `MCIumfs*` | symmetry, initial server trees, sets of reads and writes for TLC |

`IumfsRequest`, `IumfsNodes`, `IumfsDirectory` and `IumfsData` are joined by
abstraction and not composed: to the last three a request is one step at the server
whose answer may be lost (retried or given up); in `IumfsNodes`, and for writes in `IumfsData`,
a daemon thread may also execute it later, after its sender has gone on. That is what
`IumfsRequest` allows when no late answer is mixed up with another request. That mixing is shown in
`IumfsRequest` alone. `IumfsLifecycle` keeps of the channel only the claim, the
buffer and `DAEMON_INPROGRESS`, and of the walk of unmount that it goes through.

### IumfsRequest

| Variable | Code |
|---|---|
| `state` | `cntlsoft->state`, the flags of `iumfs.h` by name |
| `error`, `buf`, `used` | `cntlsoft->error`, what `bufaddr` holds, how long `bufusedsize` says it is (`Lengths`) |
| `pc`, `at`, `op` | where a thread is, the instance it works on, the routine it runs |
| `asleep` | the processes blocked in `cv_wait_sig` or `cv_timedwait_sig` on their instance |
| `got`, `fds`, `watch` | a daemon thread's request buffer; the static `fd_set`; the set its `select` was given |
| `stale`, `late` | history variables: a daemon thread holds a request that nobody waits for any more; such a thread has touched the instance since it was claimed |

Grain. Everything done between `mutex_enter(&s_lock)` and the next `cv_wait` or
`mutex_exit` is one step. `Fill` and `CopyReply` are under `d_lock`; `CopyIn`,
the `uiomove` of `iumfscntl_write`, is under no lock, so the buffer is garbage when
two of those overlap. `mutex_tryenter` fails only if another process is awake at that
instance (`Contended`). A timed wait that ends is two steps (`Expire`, then
`Cancel`) because the thread must take `s_lock` again and an answer can come first.
The reads of a `response_t` in a buffer that holds a `request_t` follow the layout
of the structures: `result` overlaps the request's size field (`ResultField`,
`AttributeCheck`). A daemon thread that reads a response back drops it if it is shorter than a
`request_t`, and serves it if it is not, as those of read and readdir may be (`ReadFetch`). The two sizes compared in `request_loop` are a `size_t`, which
makes -1 a large number: `ReadInterrupted` and `SelectInterrupted` go on as if the
call had succeeded.

Faults the environment may inject, by run: `timeout`, `signal` (to a thread in the
kernel), `daemonSignal` (to a daemon thread in read or select), `crash` (the
daemon's descriptor is closed), `writeEFAULT` (the copy of the answer fails). A
thread that closes and opens again stands for one of a restarted daemon. Such a
process would have an `fd_set` of its own; that it shares one here only adds behaviours.

Fairness (`FairSpec`): weak fairness of the steps of each thread that is inside a
request, the timer included, and of the steps of each daemon thread that has the
device open. The scheduler and the clock justify the first, the daemon's loop the
second. Nobody has to call, open, send a signal or crash. There is none for open: no
property depends on a daemon that is restarted. `Contended` can make a scan
fail for ever only if somebody else keeps moving.

### IumfsNodes

| Variable | Code |
|---|---|
| `server` | the daemon's file system, path -> nothing, file or directory |
| `late` | requests nobody waits for any more that a daemon thread has and will execute |
| `list`, `node` | `node_list_head` in order; per vnode its type, `va_nodeid`, `pathname`, `v_count` and entries |
| `mount`, `cursor`, `ahead` | progress of `iumfs_unmount`, the node whose `i_dlock` its walk holds, the `next` it has read and waits for |
| `pc`, `op`, `vp`, `todo` | a thread's place in an operation, its locals, and the `VN_RELE`s it still owes |
| `dir`, `res` | the vnodes the caller holds: the directory it works in, and its open file or looked-up vnode (also the current directory that `rmdir` compares) |

Grain: one step per section under one lock, per request, and per `VN_HOLD` or
`VN_RELE`. Node numbers, vnodes and depth are bounded by `MaxNodeId`, `MaxVnodes`
and `MaxDepth`; at the bound an allocation waits, except for the fault `nomem`,
which lets it fail as the code handles it. Memory and numbers may be used again when no thread
points to them. An unset `pathname` is the empty string, which the daemon appends to
the base path, so it is the path of the root. The error path of
`iumfs_create` that calls `iumfs_free_node` is one more release; `iumfs_access` failing
there takes the same path as `EXCL`. "." needs no number and is left out. `iumfs_make_directory` is two
sections, the vnode and its entries (`AddDots`); when "." or ".." cannot be entered it returns success without a
vnode and its caller dereferences NULL. A thread that does this, or is about to touch a freed vnode, goes `wild` and
does nothing more; what would happen is not described. The walk of unmount goes `wild` when
the node it holds or the one it waits for has been freed (`UnmountStray`). The VFS framework admits nobody to the
mount point while unmount runs.

A request whose sender stops waiting, because the timer has run out or a signal has come, has been executed,
has not been fetched (signals only: after the timer it is sent again), or is in the hands of a daemon thread that
executes it at any later time (`LateExecution`), beside the retry or whatever the sender does then. `localfsd` has
four threads, and one that is late cannot serve, so up to three may be; `MaxLate` bounds them, and is 1 in the
runs, which is enough for one request to come after any other. The proofs are for every `MaxLate`.

### IumfsServer and IumfsData

| Variable | Code |
|---|---|
| `inode`, `link`, `now` | the files of the server (size, a value per unit, time in seconds), the one the path names, the clock |
| `fd` | `filefd` of each daemon thread, when it is cached for this path and for reading and writing |
| `held` | a write request a daemon thread still works on after its sender gave up |
| `vnode` | in the list or not; `fsize`, `va_mtime`, the pages (none, clean, dirty) and their contents |
| `i_dlock`, `pc`, `op` | the lock, a thread's place, the offsets and counts of its loop |
| `put` | for each thread and for pageout, the pages in its `iumfs_putapage`, and how far its tests have got |
| `want`, `foreign` | history: what was last written to a unit, when another client last wrote |

A unit stands for half a page, so that a page can be partly written, a file can end
in the middle of one, and a write can cross from one into the next. Every thread
writes a value of its own; "junk" is what memory held before.

Grain. read, write, getattr, fsync, close and the truncation in create hold `i_dlock`
from beginning to end, so their steps are those that pageout, the daemon and other
clients can tell apart: one request, one page copied, one change of the size. pageout
calls `iumfs_putpage` without `i_dlock`, and `iumfs_putapage` reads the size up to four
times, a step each (`PageoutSize`). After an error a page is dirty again; after
success it goes, unless somebody wrote to it meanwhile (`PutDone`). The kernel's part (what
`pvn_write_kluster` collects, when pages are put) is modelled from its use. `iumfs_create` reaches
the error branch of `iumfs_free_node` only with a vnode that is held, which that branch leaves alone. Of the
requests that are executed after their sender has given up, only writes are modelled here: a late create truncates
what has been written since, a late remove deletes it, and no property of data would survive that.

`Faults`: `timeout` (a write is sent again while the daemon works on the first),
`signal` (the request is given up, and a write may be executed late), `pageout`, `other` (another client writes), `tick` (the clock), `nomem` (lookup fails).
`Rules` name what a run asks of users and machine, each of them needed:

| Rule | Asks that |
|---|---|
| `flushFirst` | getattr and read start while the server has the cached size, or nothing is dirty |
| `statFirst` | a write starts when the vnode knows the size and the time of the file |
| `noHoles` | a write starts within the file |
| `window` | pageout neither puts a page whose size has not been set yet nor is between two reads of a size that changes |
| `otherApart` | another client writes in a later second than the cached one, and when nothing is dirty or under way |

### IumfsDirectory

| Variable | Code |
|---|---|
| `server` | names in the directory on the server |
| `data` | the records of `dirinp->data` in order; a record is its name, `Size` gives its length |
| `uoff`, `listing` | a program's `uio_loffset`, and whether it is between its first and last call |
| `stays`, `seen`, `again` | history: names there all the time since the listing began, returned, returned twice |

Every routine runs under `i_dlock`, readdir with its request, so each is one step. One
listing program is enough: another could only add entries that an answer adds anyway. `d_off`
is left out, because nothing reads it in the kernel. Rules: `notBehind` (nothing is removed that a
listing has passed), `roomy` (a buffer holds any record), `answered` (the request succeeds and
memory suffices; readdir ignores the result). Fairness (`FairSpec`): a program that lists goes on
calling readdir.

### IumfsLifecycle

| Variable | Code |
|---|---|
| `module`, `attached` | the kernel's view: `mod_install` called, `_init` returned; the device attached |
| `glock` | owner of `iumfs_global_lock` |
| `inst` | `cntlsoft_list`: memory and locks, `OPENED`, `DAEMON_INPROGRESS`, claim, an `s_lock` that is kept |
| `last`, `fs` | `iumfs_last_minor`; of each file system its `iumfs_t` and its nodes, mounted or not, device number |
| `pc`, `at`, `on` | where a process is, the instance and the file system it works on |
| `unseen` | threads in an operation whose vnode does not show in any count: the walk of unmount overlooks them |

Locks taken and given back within one step are not shown. Processes are the loader
(`_init`, `_fini`), the framework that attaches and detaches, and threads. Faults: `timeout`, `nomem`, `daemonDies`.
A mount is the number, the `iumfs_t`, the root directory and, after an error, the clean-up, a step each; the
root directory may be half made and lost, as in `AddDots`, and then the mount ends in a NULL dereference (`lost`). An
unmount is the walk, `iumfs_free_all_node` and the release of the `iumfs_t`. The walk is one step here, which goes through when
it sees no user (`InUse`); whether it sees every user is the question of `IumfsNodes`, whose answer is no: a removed
file that is open and a vnode reached by ".." escape it. So threads may be `unseen`, unless rule `usersSeen` forbids it.
The locks that unmount forgets to destroy (`node_list_head.i_dlock`) are not counted.

`Rules` are what a run asks of the kernel and of administrators. Some of them nothing in the code or in the
frameworks promises, and the table below shows what happens without each:

| Rule | Asks that | Who promises it |
|---|---|---|
| `loadFirst` | nothing is called before `_init` has returned | nobody; mod_install makes it possible |
| `deviceFirst` | a file system is mounted while the device is attached, which stays so | the administrator |
| `closedFirst` | a device that is open is not detached | the device framework |
| `served` | the timer of a request runs out only while a daemon has the instance open | nobody |
| `wholeAttach` | attach has memory | nobody |
| `detachOnly` | detach is called with no other command | a machine that is not suspended |
| `usersSeen` | the walk of unmount sees every user | nobody (`IumfsNodes`) |

## Runs

Passing:

| Run | Instance | Shows |
|---|---|---|
| `request_faults` | 2 threads, 2 daemon threads, 1 instance, getattr, all faults | claims, flags, wakeups and answers, and the refinement of the gate |
| `request_quiet` | 2 threads, 1 daemon thread, 2 instances, lookup and readdir, a failing copy of an answer, fair | every answer is one's own and arrives without the timer; read never blocks after select |
| `request_fair` | 2, 1, 1, read, timeout and crash, fair | claims are released, sleepers woken, the fair gate implemented |
| `nodes_counts` | 2 threads, a directory with a file; look up, list, remove; all faults, one late request | `CountIsExact`, `FreedOnlyUnreferenced` |
| `nodes_single` | 1 thread, 2 names, all operations but exclusive creation, unmount | `EntriesExist`, `NoLeak` |
| `nodes_tree` | 3 threads, a directory with a file; lookup, remove, rmdir | `RequestNamesItsTarget`, `OneVnodePerNumber` |
| `nodes_umount` | 2 threads, an empty directory; lookup, create, rmdir, unmount; lack of memory | `CountIsExact`, `RmdirLosesNothing`, `UnmountSparesUsed` |
| `data_pages` | 2 threads, 1 daemon thread, 2 pages; create, write by pieces, read, fsync; pageout, signals with writes that are executed late | `WrittenIsKept`, `NoJunkStored`, `PutInBounds`, `SyncStores` |
| `data_clients` | 1 thread, 1 daemon thread, 2 inodes, 2 seconds; also append, remove, getattr, close; another client, timeouts | `ReadSeesWrites` |
| `dirents` | 3 names, one of them long, 1 program, buffers of 3 and 4 units, fair | `NamesUnique`, `NothingTwice`, `NothingMissed`, `ListingEnds` |
| `life` | 2 threads, 2 mounts, 2 instances, 3 device numbers, all faults | `LocksAreReturned`, `NothingIsLeft`, `DevicesDiffer` |

Two contenders are enough for the claims of a lock, three sleepers on a condition
variable (two threads and a daemon thread) for its wakeups; two instances make a
scan move on and wrap; a directory with one file below it, there from the start or made, has every kind of vnode
(root, inner directory, leaf), and two threads every pair of operations on one
name. Two pages of two units have a first, a last and a partly filled page, and a
run of one or both of them; two writers of different values show whose data
is lost. Buffers of three and four units hold one record to four, so a listing of five takes
several calls. `data_pages` and `data_clients` have one daemon thread where `localfsd` has four: with two of them both
`ReadSeesWrites` and `DescriptorIsCurrent` fail (table below), so what these runs show is the kernel's part. Each mount needs one device number; the third is for one that failed.
The proofs lift the bounds for the theorems below.

One violation run, against what a comment of the code says (`PROJECT.json` quotes it):
in `request_late_answer` an answer that comes after the timeout is taken for the answer to
the next request.

Only the request channel and listings have liveness properties. No run checks deadlock:
the system may stop, every thread idle and every daemon thread waiting for a request; with
no daemon open a request may wait for ever; and histories end where a bound is reached
(seconds, inodes, vnodes, node and device numbers).

### What the runs leave out

Most passing runs are narrower than the model, because the code breaks the
property on a wider instance. To see it, change the named constant of the run
("drop" means from `Rules`):

| Run and property | Change | What TLC then finds |
|---|---|---|
| `request_quiet`, `ReadableAfterSelect` | `Faults = {"timeout"}` | the request is withdrawn between select and read (`localfsd.c:236`) |
| `nodes_counts`, `CountIsExact` | `Calls = {"create", "remove"}`, `Disk <- OneFile` | two removals of one file, with a creation between their requests, give the vnode's own reference back twice (`iumfs_vnops.c:1901`) |
| `nodes_counts`, `MakerHasItsVnode` | the property | a lookup has made a vnode and entered its number; before it takes its reference another thread finds and removes the file, and the vnode is freed (`iumfs_vnops.c:716`) |
| `nodes_counts`, `FreedOnlyUnreferenced` | `Calls = {"lookup", "create", "remove"}`, `Disk <- EmptyDir` | the entry of a removed file stays for lack of memory, a late request creates the file again, and a second remove gives back the vnode's own reference once more, under a thread that has it open (`iumfs_vnops.c:1892`) |
| `nodes_counts`, `FreedOnlyUnreferenced` | add `"unmount"` to `Calls` | unmount takes a removed file that is open for unused (`iumfs_vfsops.c:467`); without removals, it does so with a vnode that a thread has gone up to by ".." behind the walk (`iumfs_vfsops.c:463`) |
| `nodes_single`, `EntriesExist` | `Faults = {"timeout"}` | a remove that was executed but answered too late is sent again and fails, and its entry stays (`iumfs_vnops.c:1883`) |
| `nodes_single`, `NoLeak` | add `"createExcl"` to `Calls` | the vnode of a directory is freed and what was below it is never reached again |
| `nodes_tree`, `RequestNamesItsTarget` | add `"readdir"` to `Calls` | readdir enters numbers without vnodes; a lookup lists the vnode for one before it sets its path, and a remove that finds it sends the path of the mount point (`iumfs_vnops.c:699`) |
| `nodes_tree`, `RequestNamesItsTarget`, `OneVnodePerNumber` | add `"create"` or `"mkdir"` to `Calls` | a name that is made again gets its number, or its vnode, while a third thread still works with the old one (`iumfs_vnops.c:699`, `716`) |
| `nodes_umount`, `RmdirLosesNothing` | add `"mkdir"` to `Calls`, a third thread | a directory is made again, and filled, at the path whose removal is about to be entered (`iumfs_vnops.c:2067`, the TODO there) |
| `nodes_umount`, `UnmountSparesUsed` | add `"dotdot"` to `Calls` | the walk passes a directory that is not in use, a thread goes up to it by ".." and leaves the one below, and everything is freed under it (`iumfs_vfsops.c:477`, against the comment at 483) |
| `nodes_umount`, `UnmountSparesUsed` | `Calls = {"lookup", "rmdir", "unmount"}`, no faults, one more vnode and number, a directory in the directory on the server | a directory is removed while a lookup in it has its answer and no vnode yet: its own reference is gone, the walk passes it, and the vnode is made, entered and referred to behind the walk (`iumfs_vfsops.c:477`) |
| `nodes_counts`, no property | `MountedOn = 2` | a lookup of ".." in the mount point, whose number is of another file system, finds a vnode of this one (`iumfs_vnops.c:644`) |
| `request_quiet`, `AnswerArrives` | `Daemons = {d1, d2}` | two daemon threads prepare the same static `fd_set`; one selects on a set the other has emptied, and waits for ever (`localfsd.c:171`) |
| `request_faults`, `OpenWaitHonoured` | the property | with no instance open the third pass of enter claims instance 0 at once, and it waits for it while it is open (`iumfs_request.c:417`, against the comment at 424) |
| `nodes_single`, `FreedOnlyUnreferenced` | `Threads = {t1, t2}`, `Names = {a}`, `Disk <- OneFile`, `Calls = {"lookup", "createExcl"}`, the property | exclusive creation of a file that exists frees its vnode, although another may hold it (`iumfs_vnops.c:1823`, against `iumfs_node.c:201`) |
| `data_pages`, `WrittenIsKept` | drop `flushFirst` | after a write that extends the file, getattr sets the size back to the server's, and the dirty page is cut off (`iumfs_vnops.c:513`: the comment counts on synchronous writes, which line 1653 has switched off) |
| `data_pages`, `WrittenIsKept` | drop `window` | pageout puts a new page before the size covers it and takes it for stored (`iumfs_vnops.c:1641`) |
| `data_pages`, `PutInBounds` | drop `window` | the size changes between two tests of putapage, and the length wraps round or reaches beyond the pages (`iumfs_vnops.c:1328`) |
| `data_pages`, `NoJunkStored` | drop `noHoles` | a write beyond the end leaves pages or parts of pages that nobody filled below the new size |
| `data_pages`, `WrittenIsKept` | add `"nomem"` to `Faults` | a lookup that fails for lack of memory makes create truncate a file that exists (`iumfs_vnops.c:1716`) |
| `data_clients`, `ReadSeesWrites` | drop `statFirst`, `noHoles` or `otherApart` | a write into a file of unknown size takes its pages for new; a hole is read as what was in memory; a write of another client in the cached second is never seen (`iumfs_vnops.c:2219`) |
| `data_clients`, `DescriptorIsCurrent`, `ReadSeesWrites` | `Daemons = {d1, d2}` | the second thread keeps the descriptor of a file that was removed and created again, and writes to it (`localfsd.c:932`); an older write that is late comes last |
| `dirents`, `NothingMissed` | drop `notBehind` | records move up past the offset of a listing (`iumfs_vnops.c:794`); also `NothingTwice`, when the removed name comes back |
| `dirents`, `NothingMissed` | drop `roomy` (with `Buffers = {2}`) or `answered` | a record too long for the buffer, or a request that failed, looks like the end (`iumfs_vnops.c:764`) |
| `life`, `DevicesDiffer` | drop `loadFirst` | `_init` initialises the global lock while a mount holds it, and two mounts take one number (`iumfs_vfsops.c:227`) |
| `life`, `LocksAreReturned` | drop `closedFirst`, `served`, `deviceFirst` or `usersSeen` | a request that timed out, or whose device or file system is taken away, leaves `DAEMON_INPROGRESS`, and detach returns with `s_lock` and the global lock held (`iumfs_cntl_device.c:225`) |
| `life`, `LocksAreReturned` | drop `detachOnly` | detach with another command keeps the global lock (`iumfs_cntl_device.c:208`) |
| `life`, `NothingIsLeft` | drop `wholeAttach` | an attach that runs out of memory leaves the instances made before (`iumfs_cntl_device.c:164`) |

## Proofs

For every set of threads, daemon threads, names and file systems, every number of
instances, pages and inodes, every set of routines and faults, and under the `Rules`
that a theorem names.

`IumfsRequest_proofs`:

- `TypeCorrect`: `Spec => []TypeOK`;
- `Exclusive`: `Spec => []OneOwner`. `TypeOK /\ OneOwner` is inductive: `OneOwner` says
  in both directions that the flag is set exactly where an owner is, so the claim's
  guard excludes every owner, and exit removes the only one. Every other step keeps
  who owns what (`OwnershipKept`); `ThreadStepKinds` sorts a thread's steps into claims, exits
  and the rest, `DaemonKeeps` shows that no step of the daemon matters;
- `Implements`: `Spec => ImplementsGate`, from the same sorting, step by step.

In its second section, each inductive together with `TypeOK`:

- `DeviceExclusive`: `Spec => []OneDaemon`. A daemon thread opens what nobody has open,
  closes its own, or changes no OPENED flag (`DaemonOpenKinds`);
- `NoOrphans`: `Spec => []NoOrphanRequest`. Only post and cancel make a request
  visible, where their thread stays; only exit leads away, and it clears the flags;
- `NoWakeupLost`: `Spec => []NoLostWakeup`. Every step is `Considerate`: it puts to sleep
  nobody but its own process, and that for a reason, and when it takes a reason to
  sleep away it wakes everyone at that instance. The one step that clears a flag
  without a broadcast, close with no request pending, clears nothing that is waited for.

In its third section:

- `OwnAnswer`: `Spec => []AnswerIsOwnUnlessLate`, and `ServesOwner`: `Spec => []ServesTheOwner`.
  Neither is inductive: that the buffer is right when start returns depends on what it
  held when it was posted, fetched and answered. `AnswerInv` adds that history. A
  daemon thread that is not stale works for a thread that has posted (`Employed`); and until
  the instance is `late`, a request is `Faithful`: from post to fetch the buffer holds it,
  or the remains of an older answer that is about to make the instance late (`Sent`);
  from fetch to publish one daemon thread has it, alone, and `error` cannot be taken for
  a success (`Unanswered`); after that the buffer holds its answer. A close in between
  leaves an error, also when the next daemon fetches the same request again. The
  proof rests on all the theorems above (`ChannelInv`); `UntouchedKeeps` deals with
  every step at another instance. TLC finds `AnswerInv` invariant on the instance of
  `request_faults`.

Assumed: `RequestAssumption` (threads and daemon threads are different things, there is an
instance, the routines and faults are known ones).

- `OwnAnswerWhenPatient`: `Faults \subseteq {"writeEFAULT"} => (Spec => []AnswerIsOwn)`, and
  `SelectedIsReadable`: the same with one daemon thread for `ReadableAfterSelect`. Without timeouts, signals
  and crashes no daemon thread is ever stale, no instance late, and no request is withdrawn between select
  and read; a copy that fails is reported as an error and is no answer. `request_late_answer` and the table
  above show that the conditions are needed.

With these every safety property of the passing `request_*` runs is a theorem.

`IumfsNodes_proofs`:

- `TypeCorrect`: `Spec => []TypeOK`. What a thread's variables may be depends on its place: `TypeInv` adds
  that whoever works on a vnode or its directory has one (`HandsTyped`, `AtWork`, `Asking`), that the list
  holds a vnode once (`Once`), and that its node numbers are in range (`Numbered`).

`IumfsCounts_proofs`, under `OnceGivenBack`:

- `CountsExact`: `OnceGivenBack => (Spec => []CountIsExact)`, and `FreedUnreferenced`:
  `OnceGivenBack => (Spec => FreedOnlyUnreferenced)`. A vnode has one reference of its own besides those that
  are held. remove and rmdir give it back, and nothing in the code marks that it is given back: what keeps a
  second thread from doing it again is only that the server removes a path once. `OnceGivenBack`
  is when that is enough: nothing is made while something is removed (a path made again can be removed again,
  with the old vnode; see the table above), no exclusive create (it gives back the reference of a vnode it has
  not removed), no unmount (it frees what it takes for unused). The run `nodes_counts` satisfies it.
  `CountInv` is the inductive invariant: counts exact and freed vnodes unreferenced (`NoneLost`); the root
  keeps its reference, since no operation on a name finds it (`RootStays`); a new vnode has one maker
  (`OneMaker`); a path whose vnode has lost its own reference is gone from the server (`Unmade`, `Made`,
  with `Tree`). A step is `Steady` or `Calm` when it changes one thread's references and the counts
  alike (`SteadyCounts`, `CalmKeeps`); the rest have a lemma each: `RemovingKeeps`, `SetNameKeeps`,
  `AllocKeeps`, `GivingBackKeeps`, `FreeKeeps` (a count of 1 with a reference left cannot include the
  vnode's own). TLC finds `TypeInv` and `CountInv` invariant on instances with two threads and faults.

- `NothingLost`: `"mkdir" \notin Calls => (Spec => []RmdirLosesNothing)`, with unmount and every fault.
  `LossInv`: what is being unlinked is no directory on the server any more (`TakenAway`), so that nothing exists
  below it (`Tree`); and the path cannot change meanwhile, because a vnode gets its path once, from one thread
  (`OneNamer`, `Unnamed`).
- `NumbersUnique`: `Plain => (Spec => []OneVnodePerNumber)`, and `RequestsNameTheTarget`:
  `Plain => (Spec => []RequestNamesItsTarget)`. `Plain` is `OnceGivenBack` without readdir and without lookups
  of "..": readdir enters numbers that have no vnode yet, so that two lookups may each make one; the ".." of the
  root is a number of another file system, and looking it up may find a vnode that has no path yet. Nothing else
  keeps a thread from using a number after its directory has let go of it. `NamesInv` says why that does no
  harm. A number that an entry or a thread has found `Stands`: whoever has it has the path that was looked
  for and is linked; and if nobody has it, things are being removed and the path is gone, so that
  the lookup that follows makes no vnode for an old number (`Sought`). A vnode on its way into a directory is
  known to its maker only and has no entries (`Private`); one that lost its reference because there was no
  memory for its entry has left its number nowhere (`Discarded`). A step that gives no vnode a
  number, a path or an entry keeps all this (`KeepsNames`, `NamesKept`); the three that do have lemmas of
  their own: `AllocNames`, `SetNameNames`, `LinkedNames`. TLC finds `NamesInv` invariant on instances with two
  and three threads and all faults, where nothing is made and where nothing is removed; `nodes_tree` satisfies `Plain`.

`IumfsSolo_proofs`, for one thread and no faults (`Solo`): the run `nodes_single`, with any names, tree on the
server, operations and bounds. Exclusive creation is left out, because it breaks `NoLeak` on its own, and so
are faults: a remove whose answer comes too late leaves its entry, and the next mkdir of that name makes a vnode
that nothing leads to.

- `EntriesStand`: `Solo => (Spec => []EntriesExist)`, and `NothingLeaks`: `Solo => (Spec => []NoLeak)`. Both
  speak of the moments between operations, so the invariant, `SoloInv`, has to say what holds at every
  step in between. `LinksInv` is about the tree: a number is in one entry and on one vnode; an entry leads to
  something that exists, unless it is the one about to be taken out (`EntriesLead`); whoever has the number of
  an entry has its path, and two linked vnodes have different paths (`PathsDiffer`). `RefsInv` is about the counts: a vnode has its
  own reference exactly as long as it is linked or being made (`OwnedWhenLinked`). This is what
  remove and rmdir keep when they take out the entry and give back the reference, and it is why nothing leaks:
  a vnode that is not linked has a count of 1 or more, and all of it is the thread's. `Standing` says that the directories
  a thread has are linked, which rests on rmdir refusing the current directory; `Knowing`, what
  it has found out: the entry it has read is still there, the server still has, or has not, what it was asked for,
  the vnode in hand is the one the entry names and, before `unlink`, has no entries. A step that changes references
  and counts alike keeps the tree (`QuietKeeps`); the rest have lemmas of their own: making a vnode
  (`MakesLinks`), naming it (`SetNameSolo`), entering it (`EntersLinks`), unlinking (`UnlinkSolo`), freeing (`FreeSolo`).
  `Stray` cannot happen (`NothingFails`). TLC finds `SoloInv` invariant on the instance of `nodes_single`.
- `CountsExactAlone`: `CountIsExact`, which `IumfsCounts_proofs` has for many threads under `OnceGivenBack`, holds
  for one thread that makes and removes in turn, without that condition, while nothing is unmounted (`Staying`).

What takes a second thread to go wrong, freeing under a user, two vnodes with one number, a request with another's path, a
directory that is filled before it goes, is not stated for one thread: it is proved for many, in `IumfsCounts_proofs`.

`IumfsUnmount_proofs`:

- `UnmountSparesAlone`: `Downwards => (Spec => UnmountSparesUsed)`. `Downwards` is `Solo` without lookups of "..",
  with which it is false (table above). The walk looks at one vnode at a time, and reads which comes next before it waits
  for its lock; the list may change in between, but what it waits for stays the next one, or is freed (`Adjoining`). What it has passed
  must not come into use again. `WalkInv` says why it does not: a directory is in the list before what it has
  entries for (`Ordered`), and the walk has the vnodes in use still in front of it. A thread takes a reference only to
  what its directory has an entry for, and that directory is itself in use. A vnode that is made meanwhile
  comes last. Removal keeps the order of the rest (`OrderStays`). At the end of the list nothing of the tree is in use.
  TLC finds `WalkInv` invariant on the instance of `nodes_single` without "..".
- `UnmountSparesMany`: `Downhill => (Spec => UnmountSparesUsed)`, for many threads and with every fault. `Downhill` is
  `OnceGivenBack` with unmount let in, without rmdir and without lookups of "..": threads look up and create or
  make directories, or look up, list and remove files, while the walk goes on. Nothing in the code couples the
  walk, which holds one `i_dlock` at a time, to the references threads take. The inductive invariant, `CountInv /\ DownInv`, says
  why it need not be coupled. A directory is in the list before what it has entries for (`Ordered`). The directory a thread
  works in keeps its own reference besides the thread's (`OwnKept`, `Descends`), so its count is 2 or more and the walk, which
  stops at such a vnode, has it still in front (`Ahead`). What the thread finds there comes later in the list, what
  it makes comes last, and until it is entered, or after memory has run out, only its maker knows it (`KeepsSecret`). A removed
  file is the exception the property makes: it has lost its own reference, its count is 1 with a user, and
  unmount frees it. Neither ".." nor rmdir can be let in: with them TLC finds the walk outflanked (table above).
- `CountsExactUnmounting`: `Downhill /\ "remove" \notin Calls => (Spec => []CountIsExact)`, and `FreedUnreferencedUnmounting`:
  the same for `FreedOnlyUnreferenced`. `CountsExact` excludes unmount, because it gives back references and frees vnodes that are
  not its own. Where no file is removed, the walk that goes through has seen each vnode with a count of 1, its own reference, so
  that when `iumfs_free_all_node` begins nobody has anything left (`AtRest`), and it stays so to the end. Nor is the vnode freed that the walk waits for (`Waits`): what is
  freed meanwhile was discarded by a thread whose directory the walk has still in front of it, and that directory comes first (`FreedBehind`).

The run `nodes_umount` has rmdir and is no instance of `Downhill`. Its directory goes only while it is empty, and what is
once made in it stays. So when it goes, no lookup in it has an answer to work with, and the server refuses to create
anything there afterwards: a thread that still has the directory makes no vnode behind the walk.

Assumed: `NodesAssumption` (finitely many threads, the server's tree closed under parents, bounds of at least one).

`IumfsDirectory_proofs`:

- `UniqueNames`: `Spec => []NamesUnique`. Inductive once the names of `server` and `data` are
  known to be names (`DirInv`). `iumfs_add_entry` is called only after the look for the
  name has failed (`AddKeeps`); removal moves records without doubling one
  (`RemoveKeeps`); readdir adds the names of an answer one after the other, each after a
  look (`ReaddirKeeps`). Assumed: `DirectoryAssumption`; no rule;
- `NeverTwice`: `"notBehind" \in Rules => (Spec => []NothingTwice)`. What has been returned lies below the
  offset of the listing, and nothing that lies there moves while nothing in front of it is removed;
- `NeverMissed`: `{"notBehind", "roomy", "answered"} \subseteq Rules => (Spec => []NothingMissed)`. A name
  that was there all the time is a record as soon as an answer has come, and what lies below the offset has been
  returned, so that a listing whose offset has reached the end has returned it.

`IumfsData_proofs`:

- `TypeCorrect`: `Spec => []TypeOK`, for `IumfsData` and the server it extends. `TypeOK` alone is
  not inductive: that a write stays below `MaxSize` depends on its offset and length
  together, and so do the request that is sent and the one a daemon thread
  still holds. `TypeInv` adds these (`ServerInv`, `Kernel`, `Bounded`);
- `DataKept`: `Careful => (Spec => []WrittenIsKept)`, and `SyncIsComplete`: `Careful => (Spec => SyncStores)`.
  `Careful` takes the four rules without which data is lost (`flushFirst`, `statFirst`, `window`,
  `otherApart`), no lookup that fails for a file that is there, and one daemon thread, or neither timeouts, signals
  nor removals: with two, a request that was given up may be served by one after a newer one by
  the other. The table above shows data lost without `flushFirst`, `window` or the condition on lookups.
  `data_pages` satisfies `Careful`. Timeouts, writes executed late,
  signals and other clients are allowed, and files may have holes.
  The inductive invariant is `DataInv`. Its centre is `Stored`: a unit that somebody wrote is on the server, or
  `Safe`. `Safe` says more than the property: the page will be put, the
  size lets it through, and no run that is already on its way leaves it out (`Due`), which is what makes the page
  clean later. Around it: a late write brings what is wanted or what will be put again (`Harmless`); the size that
  getattr is about to take cuts off no pending page (`Verifying`); a page that will not be
  destroyed for its age holds what was written last (`Coherent`), so that a write to a part of it
  leaves the rest right; no page is in two runs, and a run is where its pages are (`Apart`,
  `Covers`); and a flush without error has every page before it or behind it (`Flushed`), which is why fsync's
  success means that all is stored.
- `NothingStoredByChance`: `Tidy => (Spec => []NoJunkStored)`. `Tidy` is `Careful` and the rule `noHoles`; the
  table above shows that the rule is needed, and `data_pages` satisfies both. The inductive
  invariant is `Clean`, on top of `DataInv`. What nobody filled lies behind every size and behind every
  request (`JunkBeyond`). The cached size counts only what was written and either waits or is on the
  server (`SizeMeant`), so a page that is read from the server misses nothing below the size,
  and a write has filled what it is about to count in (`WriteMeant`). Runs and the requests the daemon holds reach only
  what was written (`SentMeant`, `HeldMeant`). The hard part is `NoGap`: requests are not
  executed in the order of their offsets, so pageout may be about to write beyond the end of the file. What lies
  between is then still going to be put, or was truncated while its page was here; and a flush that
  destroys that page has the pages of pageout yet to come to, and waits for them. TLC finds `Clean` invariant on
  instances like that of `data_pages`. There is one lemma for each action (`...Clean`), over frame lemmas for
  the steps that leave the pages alone or put them (`KernelStill`, `PutClean`, `MoveClean`).
- `ReadsSeeWrites`: `Tidy => (Spec => ReadSeesWrites)`; `data_clients` satisfies `Tidy`. `ReadInv`, on top of `DataInv` and
  `Clean`, follows a read from its beginning: i_dlock keeps all writers of this machine out, so what is wanted of a
  unit is what it was then, or another client's; and once the read copies, a page that is
  here has one of the two. That is so when it comes to the copying because the file is then as old as the
  pages (`Coherent`), or because the flush that the new time brought about has left no page (`Flushed`); a page read
  later has what the server has (`Stored`); and what lies below the size has been written by somebody
  (`SizeMeant`), which is where `noHoles` is needed. TLC finds `ReadInv` invariant on `data_clients`.

Assumed: `ServerAssumption`, `DataAssumption` (pages divide the largest file; pageout is not a thread; the
threads, which mark what they wrote, are none of the other marks, `"zero"`, `"junk"` and so on).

`IumfsLifecycle_proofs`:

- `NothingLeft`: `{"loadFirst", "wholeAttach"} \subseteq Rules => (Spec => []NothingIsLeft)`, whatever the other rules
  are: users that unmount overlooks, detach with anything open, and any step of any mount that fails. The
  invariant says how far attach, detach, each mount and each unmount have come, by what they have in memory;
- `NumbersDiffer`: `"loadFirst" \in Rules => (Spec => []DevicesDiffer)`. The global lock is with whoever is at
  a step that holds it, and numbers are given out in order.

`LocksAreReturned` is left to the run: it needs `served`, and no framework promises that.

Assumed: `LifecycleAssumption` (the processes are different things, there are instances).

Only model-checked: of `IumfsNodes`, counts, numbers and paths for several threads outside the conditions above
(`CountIsExact` and `UnmountSparesUsed` where unmount and rmdir meet, in `nodes_umount`; `EntriesExist` and `NoLeak` are
about one thread, in the run too);
and liveness (fairness and ENABLED are outside what the prover does).

## Where it stands

Every part of the kernel module and of the daemon that keeps state has a module.
What is left to prove is unmount beside rmdir: that needs what keeps the run
right, that no lookup succeeds in a directory that is about to be removed, as part of the invariant.

Not modelled:

- `iumfscntl_devmap` and `iumfscntl_ioctl`: the daemon uses neither, and ioctl refuses all;
- `iumfs_map`, `addmap`, `delmap`, `rwlock`, `seek`: they check their arguments and leave the pages to the
  kernel; a page that a program has mapped and changed is dirtied like one that is written;
- in read and write, a failing `uiomove` and the locks of single pages, which belong to the kernel;
- `iumfs_access` and `iumfs_setattr`, which say yes to everything and do nothing, and
  `iumfs_rename`, which says no;
- errors of the server's disk: the daemon passes them on, and the callers treat them
  like the failures that are modelled;
- `iumfs_mount.c`, the test programs, build and DTrace scripts: sequential, without state
  of their own.
