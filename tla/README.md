# S3ClFS in TLA+

S3ClFS mounts an S3 bucket as a file system on several hosts at once. Each host
runs one process (`src/src/core`), keeps a local LMDB database of inodes and a
cache of data blocks, uploads whole inodes as S3 objects named by a revision,
and hears from the others through SQS messages and listings of the bucket.
Nothing locks anything. These modules model that protocol and the machinery
under it, check it with TLC on small clusters and prove its central invariants
with TLAPS for clusters of any size.

Sources are named relative to `src/src/core` below.

## The system

| Component | State it keeps | Operations | Talks to |
|---|---|---|---|
| `QtFuse`, `S3Fuse`, `QtFuseRequest`, `QtFuseCallback` | the fuse session, one object per kernel request (answered or not) | one callback per fuse operation on the fuse thread, posted as an event to the main loop; `trigger`, `error`, one reply | kernel, `S3FS` |
| `S3FS` | `is_ready`, `is_overloaded`, `last_inode` | `fuse_*` handlers, `storeIsReady`, `format`, `makeInode`, `setOverload` | `S3FS_Store`; a request that has to wait is handed over as a callback and its handler is run again from the start |
| `S3FS_Store` | LMDB (`\x01` inode data, `\x03` latest revision, `\x12` block access, `\xff` list fetched), `inodes_cache`, `blocks_cache`, `inodes_to_update`, the two lists of callbacks that wait for downloads, `last_inode_rev`, `delete_ok_stamp` | `learnFile`, `storeInode`, `set/remove/clearInodeMeta`, `updateInodes`, `callbackOnInodeCached`, `receivedInode`, `destroyInode`, the block operations, `lastaccess_*` | `S3FS_Aws_S3`, `S3FS_Aws_SQS`, doctor |
| `S3FS_Store_InodeDoctor` | list of revisions still to try | list, download from the last one down, `success`, `failed` | store |
| `S3FS_Aws` | `http_running`, `http_queue`, `http_slow_queue`, `overload_status`, credentials | `httpV4`, `httpSlowV4`, `replyDestroyed`, `runQueue`, `receiveAwsCredentials` | Qt network |
| `S3FS_Aws_S3`, `S3FS_Aws_SQS` | the request, its reply, its body | `getFile`, `putFile`, `listFiles`, `deleteFile`, `requestFinished`, `retry`; `readReply`, `handleMessage` | `S3FS_Aws` |
| `S3FS_fsck` | the three passes and their work lists | `process_0..2`, `destroyInode` on orphans | store |
| `Keyval`, `KeyvalIterator`, `S3FS_Store_MetaIterator` | an LMDB environment; per iterator a read transaction, a cursor in it and where the iterator stands seen from the cursor | `insert`, `remove`, `value`; `hasNext`, `next`, `hasPrevious`, `previous`, `find`, `isValid`, `key` | LMDB |
| `S3FS_Obj`, `S3FS_Config`, `S3FS_Control*`, `main` | attributes of an inode; options; a local command socket | encoding, parsing, start of fsck | |

Everything but the fuse callbacks runs on the one Qt main loop of a process, so
a handler is atomic with respect to the other handlers of its node. What makes
the behaviour hard is what happens between handlers: a request waits for a
download and is run again from its first line; answers, listings and messages
arrive late, twice and in any order; other nodes edit the same inode; the
process dies with uploads queued in memory; clocks disagree and are the source
of every number. `PROJECT.json` lists these hazards at their lines.

What makes each part correct:

* numbering: no two nodes share a number, a process never goes back;
* request queue: slots are bounded, no request is lost or sent twice at a
  time, the queue never sleeps with work in it, overload ends;
* inode store: an edit reaches S3, an object on S3 never changes, a copy is one
  whole revision, the revision a node knows exists, every waiter is answered,
  in the end all nodes know the highest revision;
* file contents: a file behaves as an array of bytes although handlers wait for
  blocks and run again, no block it refers to is out of reach, nobody asks S3
  for a block that is still to be uploaded;
* requests: each is answered, once; none is triggered after its object was
  deleted, none waits anywhere after its answer, none that waits is forgotten;
* directory operations: after every write what was created can still be reached,
  names point to inodes that exist, a directory has one name;
* directory listing: a listing is the directory of one moment, each entry once;
* fsck: it takes for an orphan only what has no name, loses nothing that has content, and
  ends (the first fails, see *What the checks found*);
* cache: what is not used is removed, and nothing else (its loop never runs, see
  *Proofs*).

## Modules

| Module | What it is |
|---|---|
| `NodeStamps` | the numbering formula shared by `makeInodeRev` and `makeInode` |
| `NumberProofs` | lemmas about numbers: what `NodeStamps` promises (they grow and end like the id of their node), and the least and greatest element of a set, by which the other proofs do induction |
| `RevisionClock` | numbering on several nodes, with arbitrary clocks and restarts |
| `RevisionClockProofs` | theorems about it |
| `AwsQueue` | `S3FS_Aws` with the requests of `S3FS_Aws_S3` and the acknowledgements of `S3FS_Aws_SQS` |
| `AwsQueueProofs` | theorems about it |
| `InodeStore` | `S3FS_Store` and the doctor on every node, the bucket, SNS/SQS |
| `StoreMerge` | `InodeStore` with a history of what was added to a directory |
| `InodeStoreProofs` | theorems about `InodeStore`; its second half is about copies and revisions where nobody crashes |
| `ByteFile` | what the kernel may expect of a file: an array of bytes |
| `BlockFile` | `fuse_read`, `fuse_write`, the size, and the block store under them; implements `ByteFile` |
| `BlockFileProofs` | theorems about `BlockFile`, that it implements `ByteFile` included |
| `FuseRequests` | `QtFuse`, `QtFuseRequest`, `S3Fuse` and the handlers' `WAIT_READY` and `GET_INODE`: a request from the kernel to its deletion |
| `FuseRequestsProofs` | theorems about it |
| `KvIterator` | `KeyvalIterator` as operators on a record |
| `DirStream` | what a program may expect of `opendir` and `readdir` |
| `DirListing` | `fuse_opendir`, `fuse_readdir`, `fuse_releasedir` over the iterator while the directory changes; implements `DirStream` |
| `DirListingProofs` | theorems about `KvIterator` and `DirListing`, the refinement included |
| `Namespace` | the directory operations of `S3FS`, one LMDB transaction at a time |
| `Fsck` | `S3FS_fsck`, composed with `Namespace` |
| `FsckInvariant` | its inductive invariant, and two that rest on it, apart from the proofs so that they can be read by themselves |
| `FsckProofs` | theorems about `Fsck` and the directory operations under it |
| `MCRevisionClock`, `MCInodeStore`, `MCBlockFile`, `MCFsck`, `MCFuseRequests`, `MCDirListing` | constants for TLC |

Definitions whose comment begins with *Slip* (`ReuseWhenEqual`, `OneTooMany`,
`NeverPending`, ...) are not part of the specifications: they are the plausible
mistakes that the properties are known to notice when they take the place of
the definition that follows them.

### NodeStamps, RevisionClock

A number is `ms * 1000 + node id`, or the last one plus 100 when that is not
greater. `clock` is what `currentMSecsSinceEpoch` returns on each node and moves
freely within its bound, backwards too. `revs`/`inodes` are what the current
process issued, `oldRevs`/`oldInodes` what earlier ones did. `Restart` resets
`last_inode_rev` to 0, as the constructor of the store does, and `last_inode` to
any member of `Garbage`, since nothing initialises it. One assumption:
node ids differ modulo 100 (README.md:36 allows 1-100 nodes with unique ids).

### AwsQueue

`http_running` holds reply objects, not requests: a retry abandons its reply
with `deleteLater`, which keeps the slot until the main loop deletes it, so
`<<r, "old">>` and `<<r, "live">>` can be there together. `httpV4`,
`httpSlowV4`, `runQueue` and `replyDestroyed` are operators with the names of the
functions; the actions are the moments the code calls them: `Issue`/`IssuePut`,
`Finish`, `Fail`, `Retry`, `Destroy`, `DestroyOld`, `Credentials`. A
redirection or a wrong region is a `Fail` too: all three wait a second and retry.
Not modelled: the signing, and `http()`, which fetches credentials outside the
queue.

### InodeStore

`kv01` is the copy a node has of an inode (`NotLocal` or a set of entries; the
attributes travel with the entries and are left out), `kv03` the revision it
knows, `list_ready` the key `\xff`; these three survive `Crash`. `waiting` is
`inode_download_callback`, `inodes_to_update` has its own name. What is on the
wire is `gets`, `doctors`, `puts`, `deletes`, `notes` (SQS), `listing`; `objects`
is the bucket.

| Action | Code |
|---|---|
| `ListAnswer`, `ListReceive` | a page of the listing read by S3; `receivedInodeList` with `learnFile` on each name |
| `Notify` | `gotNewFile`; with `again` the message stays and is delivered once more |
| `NeedInode` | `callbackOnInodeCached` for a request |
| `ReceiveInode`, `ReceiveNothing` | `receivedInode` with and without data |
| `DoctorList`, `DoctorHeals`, `DoctorRetries` | the doctor; `DoctorFails` is its end |
| `StoreReady` | `storeIsReady` and `format`; it is a step of its own because the format file is asked for apart from the list |
| `EditInode`, `EditMeta`, `CreateInode` | what the file operations do to the store: with `storeInode`, without it, with a new inode |
| `DestroyInode` | `destroyInode`, called by fsck |
| `UpdateInodes` | `updateInodes` and `sendInodeToAws`, in any order of the hash set |
| `PutDone`, `DeleteDone` | S3 executes the request; SNS tells the subscribers |
| `Crash` | the process dies between two handlers and starts again |

Abstractions: a GET reads S3 in the step that handles its answer (objects never
change while they exist, which `RevisionsImmutable` checks, so only
existence could differ); two downloads of one revision by one node count
as one; all objects decode; the listing is handled name by name in ascending
order, which `Learned` computes at once. Crashes within a handler, between two
LMDB transactions, are not modelled.

### ByteFile and BlockFile

`ByteFile` is the abstract specification: the bytes of a file and its requests.
A write may land in part, from its start, before it is answered; when it
succeeds all of it is there; a read returns the bytes of one moment; failing
and getting lost change nothing. Making a file shorter only hides its end: the bytes
beyond the size show again when the file grows, unless a write or O_TRUNC has
removed them (POSIX has zeros there). `BlockFile` implements it (`IsAFile`) with
`content` read off the size and the blocks, and a request that waits for a
block still `asked`.

`size` and `meta` are the inode in the database; a block is its own hash.
`memory` is `blocks_cache`, `disk` the data directory, `puts` and `stored` the
uploads under way and the bucket, `callbacks` is `block_download_callback` and its
domain the downloads under way.

| Action | Code |
|---|---|
| `Ask` | the kernel, which holds the inode's lock around everything but reads, posts an event through `S3Fuse` |
| `Begin` | the event: `fuse_read`, `fuse_write`, `fuse_setattr`, `fuse_open` from the first line to an answer or a `callbackOnBlockCached` |
| `ReceiveBlock`, `Resume` | `receivedBlock`: the block is cached, then each waiting handler runs again, one after the other, before anything else |
| `ReceiveNothing` | `receivedBlock` without data: EIO to all who wait |
| `PutDone` | S3 takes an upload |
| `Evict` | `blocks_cache` drops a block |
| `Crash` | the process dies between two handlers and starts again |

`fuse_write` works on a record (`Current`, `PutBlock`, `RealWrite`, `Written`)
because it may change several blocks and then wait. `writeBlock` may fail on a
full disk, which is left out. `storeInode` and attributes other than the size
are `InodeStore`'s matter.

### FuseRequests

`stage` is where the object of a request is: not made, its event posted, open,
answered with its deletion in the queue, deleted. Three things hold a request
that waits: a connection to `ready` (`ready_conns`), one to `loadReduced`
(`load_conns`), an entry in `inode_download_callback` (`waits`); each is a count,
because a handler that runs again may connect or append again. `running` counts
how often the signal or the loop over a list that the main loop is in has still
to trigger each request, and `Busy` keeps everything else away meanwhile.

| Action | Code |
|---|---|
| `Issue` | the fuse thread makes a `QtFuseRequest` and posts the event |
| `IssueDirect`, `ReplyDirect` | the fuse thread answers itself: the deletion is posted by `CHECK_ANSWER`, then the reply is sent |
| `Begin` | `customEvent`: the main loop takes the event |
| `Trigger` | `trigger`: the handler from its first line (`Run`) |
| `Delete` | `deleteLater` after the timer of 0 ms: the connections go with the object, entries of lists do not |
| `StoreIsReady`, `Prefetch` | `storeIsReady`: `ready()` triggers all who are connected, then the root is asked for |
| `Overload`, `LoadReduced` | `setOverload` |
| `ReceivedInode`, `DoctorFailed` | `receivedInode` and the end of the doctor: the list is taken; all of it triggered, or answered EIO |
| `DropCopy` | `learnFile` drops a copy |

`exposed` belongs to the properties: the requests that were connected to
`loadReduced` when an inode they need vanished or failed to download. *Met while
modelling* tells what happens to these; the properties about dangling callbacks and
late waits except them. `Run` does not tell answers apart: the ENOENT of `GET_INODE` is
one of them. `Instant` are flush and release, which run without waiting; the instances have
none, the theorems hold for any. What a handler does with its inodes is `Namespace`'s and
`BlockFile`'s matter.

### KvIterator, DirStream, DirListing

`KvIterator` has the cursor, the number of keys its transaction sees and
`location`, which says whether the cursor was left at the iterator's key, one ahead or
one behind. `hasNext`, `next`, `hasPrevious`, `previous` and `isValid` are the
functions of the code, cases that fall through included; the keys are their
positions.

`DirStream` is the abstract specification: `Open` takes the directory as it is
and puts it in some order; `Read` returns a piece from the front of what is left,
an empty one only at the end; nothing that happens to the directory matters.
`DirListing` implements it with what is left read off the iterator.

| Action | Code |
|---|---|
| `Ask` | the kernel: `opendir` first, then one request at a time for each handle |
| `Opendir`, `Releasedir` | `fuse_opendir`, `fuse_releasedir` past `WAIT_READY` and `GET_INODE` |
| `Readdir` | the first lines of `fuse_readdir`; `PrepareBuffer` |
| `DirAdd`, `SendWhenFull`, `SendAtEnd` | one round of its loop |
| `Edit` | `setInodeMeta` and `removeInodeMeta` by other operations |
| `DropCopy`, `ReceiveCopy` | `learnFile` drops the copy; `receivedInode` brings another revision |

The order of the names and how many fit in a buffer are left open. The kernel
reads on where the last reply ended, and the directory keeps existing.

### Namespace and Fsck

Every `Keyval::insert` and `remove` is a transaction of its own, so a handler is
atomic for other handlers but not for a crash. A handler decides on the state it
finds and leaves its writes in `todo`, in the order of the code; `Write` makes
one of them; `Crash` may come before any. Nothing else runs while `todo` is not
empty. The code reads nothing back that it wrote in the same handler, which is
why the decision can be made at once; only `process_2` sees what it destroyed a
moment before, and `Connected` accounts for that.

`kind` is the inode's own key (its type, which entries repeat), `known` the
inodes with a revision (`hasInode`), `meta` the other keys: names of a
directory, one block of a file, the target of a link. `owed` belongs to the
properties: the inodes the user was told of and has not removed, nor replaced, nor
left below a directory that was (`Without`). So do `moved`, the inodes that were given a
name or arrived since fsck began, and `doubled`, the directories fsck connected although they
had a name. Timestamps of parents (`touch`, `storeInode` of the parent) are left out; all
inodes are local. An inode of another node arrives once. An upload that is still due
when fsck destroys its inode is left out; it would record a revision of it again.

| Action | Code |
|---|---|
| `Lookup`, `Create`, `Mkdir`, `Symlink`, `Link`, `Unlink`, `Rmdir`, `Rename` | the `fuse_*` handlers, for calls that reach past the kernel's own checks; the two branches of `Create` are a new file and `O_TRUNC` |
| `FirstWrite` | the first `setInodeMeta` of `real_write`, which makes an empty file a non-empty one |
| `RemoteEntry`, `RemoteInode` | another node's new file: its directory's revision, then its own |
| `Process0` | the constructor of `S3FS_fsck` and `process_0` |
| `Process1` | `process_1`, one inode per turn of the main loop; the queue is in the order of the database's keys, which `NameOrder` fixes |
| `Process2` | `process_2`, all inodes in one turn; `Dropped` are destroyed, `Connected` get a name |
| `Process3` | `process_2` as pass 4 and the end: the iterator is exhausted, so it does nothing |
| `Crash` | also ends fsck, which keeps everything in memory |

`rename` reads the types of both entries as 64 bits from fields of 32, gets
zero, and so never answers EISDIR or ENOTDIR; the kernel makes these checks, and sees to it
that no directory is moved below itself or over one it is in. A directory that is not empty is
replaced like any other (TODO at S3FS.cpp:396): what it holds goes out of the tree with it.

Nothing keeps requests and arrivals away from a walk of fsck, which takes one turn of the
main loop per directory; `FsckNext` lets them all come between any two turns.

Two assumptions say which trees and names the code starts from. `TreeAssumption`:
all that is known in the beginning hangs on the root, entries lead to inodes that
exist, a directory has one name, and the numbers of other nodes' inodes are below one that
is there already, so that this node does not give them too (ids differ, see `NodeStamps`).
`NamesAssumption`: `NameOrder` lists the keys of all directories, `orphan_...` names
are fsck's own and differ from inode to inode, and users do not ask for
`lost+found` nor for dots.

## Runs

| Run | Instance | Question |
|---|---|---|
| `revision_clock` | 2 nodes with ids 7 and 8, clocks of 2 values, 2 numbers per life, 1 restart, `Garbage` = {0, 1042} | can numbers collide or go back? No, for revisions. |
| `inode_collision` | the same | can inode numbers of two nodes collide? Yes (finding). |
| `aws_queue` | 2 GETs, 2 PUTs, 1 acknowledgement, 2 slots, overload above 1 queued, 2 failures | is the queue safe and live? Yes. |
| `store_crash` | 2 nodes, 1 inode created by one of them, 2 edits, 1 crash or fsck deletion, n2 subscribed | do edits stay uploadable, waiters served, objects immutable? Yes. |
| `store_converge` | 2 nodes whose clocks may be 1 ms apart, 1 inode on the bucket, 2 edits, both list, n2 subscribed, no faults | do copies and known revisions match the bucket, do all converge? Yes. |
| `store_merge` | as `store_converge`, two entries | are concurrent additions merged? No (finding). |
| `block_file` | 2 requests on a file of 1 or 3 bytes in blocks of 2, up to 3 blocks; writes of 1 or 2 bytes at 0..3, a read across all blocks, growth, shrinking to 1 byte, O_TRUNC; 1 eviction, 1 crash | is it a file, are blocks reachable, requests answered? Yes. |
| `fsck` | a root, a directory and an empty file; 8 inodes, 2 names, 2 requests or entries of another node, 1 inode of that node, 1 crash, 1 fsck | is anything with content lost, does a directory get a second name but from fsck, does the walk miss what was not moved, does it end? No, no, no, yes. |
| `fsck_behind` | the same without the other node | does fsck take what has a name for an orphan? Yes (finding). |
| `fuse_requests` | a request that needs the root and a file, one that needs the file, and a getxattr; every choice of inodes that are local or broken; 2 overloads, 1 vanishing copy | is every request triggered, answered and deleted in the right order? Yes, but for those that lose an inode while connected to `loadReduced`. |
| `fuse_thread` | the same without overloads and vanishing copies | is a request that the fuse thread answers still there? No (finding). |
| `dir_listing` | 1 open directory of up to 4 names, buffers of 1 to 3 names, 3 changes | is a listing the directory of one moment, does it end? Yes. |

Why these bounds are enough to be interesting: two nodes are the least that can
disagree, and the code never distinguishes a third; two edits are the least
that conflict (one per node) or follow each other on one node; one clock tick is
the least that reorders numbers. Two slots with five requests fill both slots
and both queues, and `High = Low = 1` makes overload begin and end. Two failures
let one request fail twice or two fail once. `Garbage` holds one value
above and one below every number of the clock. Time is scaled so that `Hour` is 1 and
`Epoch` 100; only comparisons of these matter. Two requests on a file suffice because
the refinement compares the whole content after every step, not only what a
later read returns; the writes meet every case of `real_write`: a full block, the
end of the file, before, inside and after old bytes, a hole, across two blocks.
`max_write` is one block (S3Fuse.cpp:31), so a write has at most two pieces. A file of
3 bytes that shrinks to 1 and is then written or grown meets what the old blocks
still hold. Two requests
make every orphan fsck knows: an unlinked file or link, a removed directory, a
directory that another replaced (`Mkdir`, then `Rename` over it); the crash makes
the half-made ones. Two requests during the walk move a directory behind it and make
something in it, or move two; with one of them the arrival of an entry, another node's empty
file is in a directory already passed. A request with
two inodes to wait for, after the store and the load, and one that shares the
second with it are the least that fill a list twice and make a request meet its
old connections; two overloads are the least that trigger an old connection
again. Buffers of 1 to 3 names over up to 4 names meet a directory that ends
with the buffer, before it and after it; three changes are a removal, an addition
and a dropped copy within one listing. `CHECK_DEADLOCK FALSE` because
every bounded run ends: requests are served, edits used up, nothing is left to do.

The first mount of an empty bucket, where each node that finds no root makes one
(the branch of `StoreReady` that formats), is in `InodeStore` and so in the
proofs; no run has the root among its inodes, because two nodes that create it
and edit it take TLC far longer than the other runs.

Bounds: `MaxClock`, `MaxIssued`, `MaxRestarts` (RevisionClock), `MaxFails`
(AwsQueue), `MaxClock`, `MaxEdits`, `MaxFaults` (InodeStore), `Blocks`, `MaxEvictions`,
`MaxCrashes` (BlockFile), `MaxOverloads`, `MaxDrops` (FuseRequests), `MaxRoom`,
`MaxChanges` (DirListing), `MaxInode`, `MaxRequests`, `MaxCrashes` (Namespace),
`MaxFscks` (Fsck). None appears in a
theorem other than as a natural number, but for the assumptions of three
theorems of `InodeStoreProofs` (see *Proofs*).

Fairness. `AwsQueue`: the main loop gets to every timer and deferred deletion, a
request on the wire is answered or fails (the network library times out),
credentials are asked for until they arrive; failures are finitely many.
`InodeStore`: the timers of updates and listings fire (the main loop runs and
single-shot timers are restarted in the handler), S3 answers what was asked of
it (which `AwsQueue` shows for the client's side), SQS delivers each message and
stops redelivering once it is acknowledged, time passes. `BlockFile`: posted events are handled, the loop of `receivedBlock`
goes on, S3 answers every GET; uploads need no fairness. `Fsck`: a handler gets
through its writes and the timer of fsck, started with 0 ms, fires. That fsck ends
depends on `MaxRequests` too: who makes directories faster than it walks keeps it
walking. `FuseRequests`: the main loop gets to every
event and goes on with what it is in the middle of, the store becomes ready,
downloads end, the load is reduced again (the last two are what `InodeStore` and
`AwsQueue` show). `DirListing`: the download of the directory ends, and the handlers are
strongly fair: a request that waited for the directory is triggered by
`receivedInode` itself, before another message can drop the copy again, so it is
not passed over for ever. No user action is fair:
nobody has to edit, look at or create anything.

## What the checks found

* `InodesCollisionFree`: `last_inode` is never initialised (S3FS.hpp, S3FS.cpp:33-43).
  With garbage above the clock the first inode number is garbage plus 100,
  without the node id in it.
* `NothingAddedIsLost`: two nodes add an entry to one directory; `learnFile` drops
  the copy that has the lower revision. README.md:84 and doc/storage.md:30 describe a merge
  which the code does not contain ("TODO store log of inode", S3FS_Store.cpp:302).
* `OrphansHaveNoName`: what is renamed, linked or received while fsck walks may have its
  name in a directory the walk has left behind (S3FS.cpp:341-442, `learnFile`). `process_2`
  calls it an orphan (S3FS_fsck.cpp:262): an empty file is destroyed (line 275), its revision on
  S3 included, and its name left; a directory or a link gets a second name in
  `lost+found` (lines 318-320). In TLC's trace the empty file `a/a` is
  renamed to `/b` when the walk has passed the root and not yet come to `a`. `OrphansWereMoved`, which holds, says that nothing else is mistaken:
  not what is made, written or removed during the walk, nor what has been where it is.
* `RepliesFromLiveRequest`: the fuse thread answers getxattr and whatever
  `S3Fuse` does not implement by itself. The object belongs to the main thread
  (QtFuseRequest.cpp:26) and its deletion is posted before the reply reads the
  request's handle from it (QtFuseRequest.cpp:22); README.md:167 promises
  "thread-safe FUSE integration".

### Met while modelling

Not checked by runs of their own; the modules contain or exclude them as said.

* `fuse_setattr` changes the size and keeps the blocks ("TODO drop data that
  shouldn't be there anymore", S3FS.cpp:145): old bytes come back when the file
  grows again. `ByteFile` says so.
* `delete_ok_stamp` is in milliseconds (S3FS_Store.cpp:286), revisions are in microseconds;
  the comparison at line 182 never succeeds, and old revisions stay in the bucket for ever,
  while doc/storage.md:27-28 says that "the previous one is discarded". TLAPS proves that nothing is
  (`NothingIsDiscarded`).
* A request that met an overload stays connected to `loadReduced`, and its handler
  runs again to its end when that comes next, answered or not. If meanwhile an
  inode it needs has vanished, or fails to download, it enters the list of that inode
  after its answer and is deleted while the list points to it. With
  `Exposed(i) == {}` TLC finds `AnsweredWaitsNowhere` and `NoDanglingCallback` violated. What the
  process does once it calls a deleted object is not modelled, and so
  `EveryRequestAnswered` ends there.
* `fuse_rename` leaves the `..` of a directory it moves as it was, and fsck judges by it
  whether an orphan has a parent in the tree.
* `lookup` removes an entry whose inode is not known yet (S3FS.cpp:113), which
  another node's directory revision brings about before the inode's own. `Lookup`
  does it.
* Pass 3 of fsck is meant to scan again but goes on with the last inode of pass 1, which it
  scans once more, with whatever is below it; pass 4 finds its iterator at the end. Neither
  finds what pass 2 connected. A crash in `rename` leaves a
  directory with two names, which is why `DirectoriesHaveOneName` speaks of runs without one.
* `fuse_readdir` ignores the offset: after `rewinddir` it goes on where it stood.
  The kernel of `DirListing` does not rewind.
* `fuse_releasedir` that finds the store not to know the inode answers ENOENT and
  keeps the iterator, and with it one of LMDB's readers. The directories of
  `DirListing` keep existing.
* `lastaccess_clean` (S3FS_Store.cpp:628) asks `isValid` of a fresh iterator, which
  `FreshIteratorIsInvalid` proves to be false: nothing is ever cleaned.
* More than ten revisions within a millisecond, each 100 above the last, run ahead of the clock;
  a restart within the time they are ahead could repeat one. `RevisionClock`
  restarts freely and therefore promises nothing across restarts.

## Proofs

All proofs are from the specification's safety part, for any constants that
satisfy the named assumptions.

* `RevisionsNeverCollide`: two numbers of different nodes differ modulo 100. The
  inductive invariant is that every number issued by node n, and
  `last_inode_rev[n]` unless it is 0, is congruent to `NodeId[n]` modulo 100:
  1000 and 100 are multiples of 100. Uses `NodeIdAssumption`. It does not hold of
  inode numbers, whose counter may start as garbage, and the proof fails exactly there.
* `ClockTypeCorrect`, `NumbersIncrease`: the last element of each sequence is the counter, and
  a stamp is greater than the counter it starts from.
* `QueueTypeCorrect`, `RunningStaysBounded`, `QueueNeverStalls`: one inductive
  invariant, `QueueInv`. The interesting part is the last: a request enters a queue
  only when the slots are full or the queue is not ready, and a dying reply either
  leaves another alive, starts one, or finds the queues empty, in which case
  the overload ends with it.
* `RequestsInOnePlace`: the inductive invariant `Places` says of the sequences what the
  property says of numbers: each queue has a request once, no request is in both, and
  just those in phase "queued" are in one.
* `SlotsAreNeverIdle`: with credentials from the file, a queue that is not ready
  does not exist and each reply that dies hands its slot on (`FullInv`).
* `StoreTypeCorrect`, `EditsStayUploadable`, `NobodyWaitsInVain`: `PendingIsLocal`
  is inductive with `TypeOK`, because `Learn` leaves inodes alone that are
  marked; this is the early return at S3FS_Store.cpp:163. `WaitersHaveFetch`
  is inductive with `TypeOK`: a download or a doctor ends only by removing
  its inode from `waiting` or by starting a successor for the same inode.
* `RevisionsNeverRewritten`, `KnownRevisionsExist`, `CopiesAreRevisions` (InodeStoreProofs), for
  any nodes, inodes, clocks within `MaxClock`, edits and messages, under three assumptions.
  `DistinctIds`: ids differ modulo 100. `NoFaults` (`MaxFaults = 0`): no crash and no deletion by
  fsck, so what `StoreCrash.cfg` adds is only model-checked. `NothingIsOld` (the last two):
  what `learnFile` calls old is a time in milliseconds, below every revision, which is in
  microseconds; that is so for any clock of this century, and means that nothing is
  ever deleted as old. Each invariant stands on the one before:
  1. `IssuedInv`: a revision is from before the nodes started, or ends like the id of a
     node and is at most its `last_inode_rev`; hence one `updateInodes` makes up is new and
     the body of a revision is never rewritten. A crash would break it: a node
     that issues more than ten revisions within a millisecond is ahead of
     its clock, and forgets that when it restarts.
  2. `NamesInv`: what is announced or listed is an object of the bucket, and
     no delete is under way. So is the revision in `\x03`, unless an edit or the node's own
     upload stands behind it.
  3. `CopyInv`: a node asks for an inode once at a time and only while it has no copy,
     and what it has and is not about to upload is one whole revision. That
     revisions are bounded (`RevsBounded`) is what makes "the latest in the listing" exist; its
     maximum comes from the library's `WFMin`. The root's download at start-up,
     which nothing registers, is beyond it; so is it of the property.
* `BlocksStayReachable`, `NoBlockEverMissing`: the inductive invariant `BlockInv`
  says of the caches, unless a crash took blocks that were only in memory: what
  is in memory is also on disk, on S3 or on its way; and with the cache on disk,
  what was made or fetched here is on disk and only what is on S3 is asked for.
  The proof follows `fuse_write` operator by operator, since a run may write one
  block and wait for the next. Uses that writes stay within `Blocks`.
* `FileTypeCorrect`, `BlocksAreAFile`: `BlockFile` implements `ByteFile`, for any block
  size, requests and data. In the order of the proof:
  1. A read: one `ReadPiece` returns the bytes at its positions (what the block has,
     zeros beyond it or where there is no block), and so does `ReadBuf`. `ReadBuf` is a
     recursive function; the induction is done by hand, on the position
     farthest from the end at which it would differ (`LeastNatural`).
  2. A write: `Merged`, in each of its three cases, is the old block with the data in
     place (`MergedBytes`), so `real_write` patches the file or waits and changes
     nothing (`RealWritePatches`), and the pieces of `fuse_write` compose
     (`PatchesCompose`): when it waits, what it wrote is a prefix of the data.
     `real_write`'s shortcut, where a write at the start of a block that reaches the
     end of the file replaces the whole block, is why ByteFile lets bytes beyond the
     size become zeros.
  3. The invariant `FileInv`: the size lies within `Blocks`, and `OnceInLine`: who waits is
     in one line of `block_download_callback` or among the woken, once, with status
     waiting. Without it `receivedBlock` could answer EIO to, or run, a request
     that has already been answered.
  4. Each handler's run is a `Succeed`, a `Land` or a stutter, and so on for every
     action (`NextRefines`).

  The assumptions on the constants say that `Blocks` covers what the kernel may reach; they
  hold for any queries when `Blocks` is `Nat`.

* `RequestsTypeCorrect`, `CallbacksNeverDangle`, `AnswersComeLast`,
  `RequestsNotForgotten`: one inductive invariant, `FuseInv`. Beside the properties
  it says that requests of the fuse thread are held nowhere, and of those that are not
  `exposed` that who is held is live, that who is in a list is open, and what one that was
  answered and is still connected to `loadReduced` finds when it runs again: all its
  inodes are there, so it is answered again at once.
* `IteratorWalksTheKeys`, `FreshIteratorIsInvalid`: `Position` is what the iterator
  stands for; each operation of the code does to it what its name says, in each of the
  places where the cursor may have been left.
* `ListingTypeCorrect`, `ListingIsAStream`: a step of `DirListing` is a step of
  `DirStream` or changes nothing it sees. The invariant `ListingInv` says that the
  iterator of an open directory is at its cursor and within the keys of its
  transaction, so that what is left is a suffix of the names at `opendir`.

* `FsckTypeCorrect`: the directory operations and fsck, for any tree, names and number of
  requests, crashes and fscks. The inductive invariant is `TypeInv`: what each write in `todo`
  relies on is there or is written by one before it (`Typed`): an entry leads to an inode that
  is stored, `..` belongs to a directory. This is the order of writes in `fuse_mkdir`,
  `fuse_create`, `process_0`.

* `NothingLost`: for any such tree and numbers, whatever is moved, linked or received while
  fsck walks. `NothingIsLost` speaks of what has been written; the inductive invariant
  `FsckInv` has to speak of what is still to be written:
  1. `TreeInv`: what is owed and known can be reached, and what is not known has no keys.
     So a name that leads to an unknown inode may go (`lookup`, `process_1`): nothing is
     below it.
  2. The running handler only adds names where there are none (`Growing`); or only removes
     names without which all that is owed can be reached (`Removing`); or moves one
     (`Moving`, `fuse_rename`: the new name, then the old one). A crash may leave it anywhere
     in the middle, and what is owed can be reached in each of these places. For `Moving`
     that is the lemma `ReachMoved`: as the new place is not below what moves, which
     the kernel checks, it can be reached without the old name.
  3. `SoundTodo`: nothing is named that is not recorded before it (`set`), nobody is
     answered before the name is there (`grant`), and what is to be destroyed has no key
     and nothing else is written to it. That is where `process_2` asks for `DOMAIN meta[i]`
     to be empty, and why what it takes for an orphan by mistake loses nothing but its
     being there.
  4. `WalkInv`: fsck's directory is above the inodes it judges, and has no orphan's name in
     it yet, so that `process_2` replaces nothing.

  What can be reached is, in the proofs, the least set that contains the root and
  is closed under names (`Reach`). That `Below`, which adds children until there are no
  more, computes it is `ClosureIsReach`, an induction done by hand on the number of inodes
  not yet reached. The other lemmas on graphs say what a new edge to a leaf, the loss of
  an edge, or a set that nothing leads into does to `Reach`.

* `OrphansMoved`: what the walk may be wrong about. The invariant `WalkedInv` says that what
  the walk has left behind leads, among what is old and known, only to what it has come to
  and to what was moved, linked or received since; that what is new leads only to what
  is new or moved; and that no other name is still to be written. A request
  that moves nothing keeps it because the one inode it names is new (`PlainWrites`), and
  `process_1` because it puts the directories among the children into the queue.
  In the end these inodes and what is below the moved ones are closed under names.

* `OneNameEach`: `OneNameInv` says of the names that stay when the running handler is done
  that a directory has one, and of a name still to be written that its inode will
  have no other. `fuse_rename` keeps it by the old name that goes, `process_2` by `doubled`: it
  names what it takes for an orphan, and remembers in `doubled` (which is not in the code)
  which of those had a name. A crash between the two writes of a rename breaks it,
  so it is stated, as the property is, for runs without one.

Only model-checked: all liveness (`AllServed`, `OverloadEnds`, `AllKnowLatest`,
`WaitersAnswered`, `RequestsAnswered`, `EveryRequestAnswered`, `ListingEnds`,
`FsckEnds`), which is beyond TLAPS, and `RevisionsImmutable` where nodes crash
(store_crash).

## What is left

* `Namespace` on two nodes over `InodeStore`, to say what other nodes lose when
  `lookup` removes an entry, and `BlockFile` over `InodeStore`, to say what another
  node sees of a file: the products are beyond TLC with the instances that make
  them interesting.
* A full disk and errors of LMDB: the handlers ignore them and every property fails
  at once.
* The tearing down of the session (QtFuse.cpp:664): what libfuse and
  `QThread::terminate` do to a thread in the middle of a call is outside the source.
* The long-poll loop of SQS, which has no state besides its one request, and the
  format file, written once and read into a map of options.
* Proofs about revisions across crashes: the copy of a node that restarts within the
  millisecond of its last revision is a case the theorems exclude.

Not to be modelled: `S3FS_Obj` and `S3FS_Config` (data), the control
socket (no state), signing and XML (formatting), the extraction script,
packaging, vendored code.
