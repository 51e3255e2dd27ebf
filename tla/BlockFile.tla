------------------------------ MODULE BlockFile ------------------------------
(***************************************************************************)
(* A regular file as S3FS and S3FS_Store keep it: a size and a map from    *)
(* block numbers to blocks, each block a file of its own in a local cache  *)
(* and an object on S3, named by its hash.                                 *)
(*                                                                         *)
(* A handler (fuse_read, fuse_write, ...) that needs a block which is not  *)
(* local asks S3 for it and returns; when the block is there the handler   *)
(* runs again from its first line.  receivedBlock runs the handlers that   *)
(* wait one after the other before anything else happens (`woken').        *)
(*                                                                         *)
(* A hash stands for its block (SHA3-256 has no collisions).  The size and *)
(* the map are in the local database, which survives a crash.  Uploads of  *)
(* the inode, and other nodes, are in InodeStore.  Disk errors of the      *)
(* cache are left out; no attribute but the size is kept.                  *)
(***************************************************************************)
EXTENDS Integers, Sequences

CONSTANTS Requests,    \* requests of the kernel, each issued once
          Bytes, Zero,
          Queries,     \* what the kernel may ask
          Contents,    \* what the file may contain in the beginning
          BlockSize,   \* S3FUSE_BLOCK_SIZE, 65536
          Blocks,      \* bound: numbers of the blocks the kernel may reach, 0..n
                       \* or all naturals
          NoBlock,     \* stands for "no such key"
          MaxEvictions, MaxCrashes   \* bounds

ASSUME BlockFileAssumption ==
    /\ Zero \in Bytes
    /\ BlockSize \in Nat \ {0}
    /\ Queries \subseteq [op : {"read", "write", "setattr", "open"}, off : Nat, len : Nat,
                          data : Seq(Bytes)]
    /\ \A q \in Queries : q.op = "write" => Len(q.data) \in 1 .. BlockSize
    /\ Contents \subseteq Seq(Bytes)
    /\ Blocks \subseteq Nat /\ \A b \in Blocks : 0 .. b \subseteq Blocks
    /\ \A q \in Queries : q.op = "write" =>
          \A i \in q.off .. q.off + Len(q.data) - 1 : i \div BlockSize \in Blocks
    /\ \A q \in Queries : q.op = "setattr" =>
          \A i \in 0 .. q.len - 1 : i \div BlockSize \in Blocks
    /\ \A s \in Contents : \A i \in 0 .. Len(s) - 1 : i \div BlockSize \in Blocks
    /\ NoBlock \notin Seq(Bytes)
    /\ MaxEvictions \in Nat /\ MaxCrashes \in Nat

VARIABLES cache_data,   \* cfg->cacheData()
          size, meta,   \* the inode: its size, its block per block number
          memory,       \* blocks_cache
          disk,         \* blocks in the data directory
          stored, puts, \* blocks on S3, and on their way there
          callbacks,    \* block_download_callback: the requests that wait, in
                        \* order, for each block that is being downloaded
          woken,        \* requests receivedBlock has still to trigger
          asked, status, got,
          evictions, crashes   \* how many so far

fileVars == <<size, meta>>
blockVars == <<memory, disk, puts>>
faultVars == <<evictions, crashes>>
vars == <<cache_data, fileVars, blockVars, stored, callbacks, woken, asked, status, got, faultVars>>

\* The downloads under way.
gets == DOMAIN callbacks

Data == {b \in Seq(Bytes) : Len(b) \in 1 .. BlockSize}
NoQuery == [op |-> "none", off |-> 0, len |-> 0, data |-> <<>>]

TypeOK ==
    /\ cache_data \in BOOLEAN
    /\ size \in Nat
    /\ DOMAIN meta = Blocks
    /\ \A b \in Blocks : meta[b] # NoBlock => meta[b] \in Data
    /\ \A h \in memory \cup disk \cup stored \cup puts \cup gets : h \in Data
    /\ callbacks \in [gets -> Seq(Requests)]
    /\ woken \in Seq(Requests)
    /\ asked \in [Requests -> Queries \cup {NoQuery}]
    /\ status \in [Requests -> {"idle", "asked", "waiting", "ok", "EIO", "lost"}]
    /\ got \in [Requests -> Seq(Bytes)]
    /\ evictions \in Nat /\ crashes \in Nat

\* Block b of a file with the bytes s.
BlockOf(s, b) == SubSeq(s, b * BlockSize + 1,
                        IF Len(s) < (b + 1) * BlockSize THEN Len(s) ELSE (b + 1) * BlockSize)

\* A file that came from S3: none of its blocks is local.
Init ==
    /\ cache_data \in BOOLEAN
    /\ \E s \in Contents :
          /\ size = Len(s)
          /\ meta = [b \in Blocks |-> IF b * BlockSize < Len(s) THEN BlockOf(s, b) ELSE NoBlock]
    /\ memory = {} /\ disk = {} /\ puts = {}
    /\ stored = {meta[b] : b \in {c \in Blocks : meta[c] # NoBlock}}
    /\ callbacks = <<>> /\ woken = <<>>
    /\ asked = [r \in Requests |-> NoQuery]
    /\ status = [r \in Requests |-> "idle"]
    /\ got = [r \in Requests |-> <<>>]
    /\ evictions = 0 /\ crashes = 0

-----------------------------------------------------------------------------

Zeros(n) == [i \in 1 .. n |-> Zero]

\* hasBlockLocally
Local(h) == h \in memory \cup disk

(***************************************************************************)
(* fuse_read, from position pos to final: block by block, what is there of *)
(* the block filled up with zeros, or zeros for a missing block.           *)
(***************************************************************************)
ReadPiece(pos, final) ==
    LET b == pos \div BlockSize
        from == pos % BlockSize
        there == IF meta[b] = NoBlock THEN <<>> ELSE SubSeq(meta[b], from + 1, Len(meta[b]))
        piece == there \o Zeros(BlockSize - from - Len(there))
    IN  IF Len(piece) > final - pos THEN SubSeq(piece, 1, final - pos) ELSE piece

ReadBuf(offset, final) ==
    LET NextPos(p) == (p \div BlockSize + 1) * BlockSize
        buf[pos \in offset .. final + BlockSize] ==
            IF pos < final THEN ReadPiece(pos, final) \o buf[NextPos(pos)] ELSE <<>>
    IN  buf[offset]

\* The blocks the read needs that are not local, in the order it comes to them.
Missing(offset, final) ==
    {b \in Blocks : /\ b * BlockSize < final /\ offset < (b + 1) * BlockSize
                    /\ meta[b] # NoBlock /\ ~Local(meta[b])}

-----------------------------------------------------------------------------

(***************************************************************************)
(* fuse_write works on a state f of the file and the cache; f.wait is the  *)
(* block it has to wait for.                                               *)
(***************************************************************************)
Current == [size |-> size, meta |-> meta, memory |-> memory, disk |-> disk, puts |-> puts,
            wait |-> NoBlock]

\* Slips: the block is only kept here; it is not written to the disk.
KeptLocally(f, b, data) == [f EXCEPT !.meta[b] = data, !.memory = @ \cup {data}]
NotOnDisk(f, b, data) ==
    [f EXCEPT !.meta[b] = data, !.memory = @ \cup {data}, !.puts = @ \cup {data}]

\* writeBlock, and setInodeMeta with the hash it returns.  A block that is
\* in the local cache is not uploaded.
PutBlock(f, b, data) ==
    IF data \in f.memory \cup f.disk
    THEN [f EXCEPT !.meta[b] = data, !.memory = @ \cup {data}]
    ELSE [f EXCEPT !.meta[b] = data, !.memory = @ \cup {data},
                   !.disk = IF cache_data THEN @ \cup {data} ELSE @,
                   !.puts = @ \cup {data}]

Larger(a, b) == IF a < b THEN b ELSE a

\* Slips: new data is always appended; what followed it in the block is lost.
Appended(old, at, buf) == old \o Zeros(at - Len(old)) \o buf
TailLost(old, at, buf) ==
    IF Len(old) <= at THEN old \o Zeros(at - Len(old)) \o buf
    ELSE SubSeq(old, 1, at) \o buf

\* The block old with buf written at offset at, three cases of lengths.
Merged(old, at, buf) ==
    IF Len(old) <= at THEN old \o Zeros(at - Len(old)) \o buf
    ELSE IF Len(old) > at + Len(buf)
    THEN SubSeq(old, 1, at) \o buf \o SubSeq(old, at + Len(buf) + 1, Len(old))
    ELSE SubSeq(old, 1, at) \o buf

\* real_write: buf lies within one block.
RealWrite(f, offset, buf) ==
    LET b == offset \div BlockSize
        at == offset % BlockSize
        end == offset + Len(buf)
    IN  IF at = 0 /\ Len(buf) = BlockSize
        THEN [PutBlock(f, b, buf) EXCEPT !.size = Larger(@, end)]
        ELSE IF at = 0 /\ end >= f.size
        THEN [PutBlock(f, b, buf) EXCEPT !.size = end]
        ELSE IF f.meta[b] # NoBlock /\ f.meta[b] \notin f.memory \cup f.disk
        THEN [f EXCEPT !.wait = f.meta[b]]
        ELSE IF f.meta[b] # NoBlock
        THEN [PutBlock(f, b, Merged(f.meta[b], at, buf)) EXCEPT !.size = Larger(@, end)]
        ELSE [PutBlock(f, b, Zeros(at) \o buf) EXCEPT !.size = Larger(@, end)]

\* The pieces fuse_write cuts its data into: to the end of the first block,
\* and the rest (the kernel sends at most a block at a time).
FirstLen(offset, len) ==
    IF offset % BlockSize # 0 /\ len >= BlockSize - (offset % BlockSize)
    THEN BlockSize - (offset % BlockSize) ELSE len

Written(offset, data) ==
    LET n == FirstLen(offset, Len(data))
        f == RealWrite(Current, offset, SubSeq(data, 1, n))
    IN  IF f.wait # NoBlock \/ n = Len(data) THEN f
        ELSE RealWrite(f, offset + n, SubSeq(data, n + 1, Len(data)))

-----------------------------------------------------------------------------

Answer(r, what) == status' = [status EXCEPT ![r] = what]

\* Slip: a request for a block under way is not registered.
StartsOnly(r, h) ==
    [x \in gets \cup {h} |-> IF x \in gets THEN callbacks[x] ELSE <<r>>]

Registered(r, h) ==
    [x \in gets \cup {h} |-> IF x # h THEN callbacks[x]
                             ELSE IF x \in gets THEN Append(callbacks[x], r) ELSE <<r>>]

\* callbackOnBlockCached: one download per block.
WaitFor(r, h) ==
    /\ callbacks' = Registered(r, h)
    /\ Answer(r, "waiting")
    /\ UNCHANGED got

RunRead(r, q) ==
    LET final == IF q.off + q.len > size THEN size ELSE q.off + q.len
    IN  /\ IF q.off >= size
           THEN /\ Answer(r, "ok") /\ got' = [got EXCEPT ![r] = <<>>]
                /\ UNCHANGED callbacks
           ELSE IF Missing(q.off, final) # {}
           THEN \E b \in Missing(q.off, final) :
                   /\ \A c \in Missing(q.off, final) : b <= c
                   /\ WaitFor(r, meta[b])
           ELSE /\ Answer(r, "ok") /\ got' = [got EXCEPT ![r] = ReadBuf(q.off, final)]
                /\ UNCHANGED callbacks
        /\ UNCHANGED <<fileVars, blockVars>>

\* What a write that has to wait has written already stays.
RunWrite(r, q) ==
    LET f == Written(q.off, q.data)
    IN  /\ size' = f.size /\ meta' = f.meta
        /\ memory' = f.memory /\ disk' = f.disk /\ puts' = f.puts
        /\ IF f.wait # NoBlock THEN WaitFor(r, f.wait)
           ELSE Answer(r, "ok") /\ UNCHANGED <<callbacks, got>>

\* fuse_setattr, the size: the blocks stay.
RunSetattr(r, q) ==
    /\ size' = q.len
    /\ Answer(r, "ok")
    /\ UNCHANGED <<meta, blockVars, callbacks, got>>

\* fuse_open with O_TRUNC: clearInodeMeta and size 0.
RunOpen(r) ==
    /\ size' = 0
    /\ meta' = [b \in Blocks |-> NoBlock]
    /\ Answer(r, "ok")
    /\ UNCHANGED <<blockVars, callbacks, got>>

Run(r, q) ==
    \/ q.op = "read" /\ RunRead(r, q)
    \/ q.op = "write" /\ RunWrite(r, q)
    \/ q.op = "setattr" /\ RunSetattr(r, q)
    \/ q.op = "open" /\ RunOpen(r)

Pending(r) == status[r] \in {"asked", "waiting"}

\* The kernel issues a request.  It holds the lock of the inode around
\* everything but reads.
Ask(r, q) ==
    /\ status[r] = "idle"
    /\ q.op # "read" =>
          \A s \in Requests : Pending(s) => asked[s].op = "read"
    /\ status' = [status EXCEPT ![r] = "asked"]
    /\ asked' = [asked EXCEPT ![r] = q]
    /\ UNCHANGED <<cache_data, fileVars, blockVars, stored, callbacks, woken, got, faultVars>>

\* The event the fuse thread posted.
Begin(r) ==
    /\ woken = <<>>
    /\ status[r] = "asked"
    /\ Run(r, asked[r])
    /\ UNCHANGED <<cache_data, stored, woken, asked, faultVars>>

\* receivedBlock triggers the next request that waited.
Resume ==
    /\ woken # <<>>
    /\ Run(Head(woken), asked[Head(woken)])
    /\ woken' = Tail(woken)
    /\ UNCHANGED <<cache_data, stored, asked, faultVars>>

\* Slip: the list of those who wait is read and not taken.
StillThere(h) == callbacks

OthersThan(h) == [x \in gets \ {h} |-> callbacks[x]]

\* receivedBlock, with data.
ReceiveBlock(h) ==
    /\ woken = <<>>
    /\ h \in gets /\ h \in stored
    /\ memory' = memory \cup {h}
    /\ disk' = IF cache_data THEN disk \cup {h} ELSE disk
    /\ woken' = callbacks[h]
    /\ callbacks' = OthersThan(h)
    /\ UNCHANGED <<cache_data, fileVars, puts, stored, asked, status, got, faultVars>>

\* receivedBlock, S3 has no such block (yet).
ReceiveNothing(h) ==
    /\ woken = <<>>
    /\ h \in gets /\ h \notin stored
    /\ status' = [r \in Requests |-> 
                      IF \E i \in DOMAIN callbacks[h] : callbacks[h][i] = r
                      THEN "EIO" ELSE status[r]]
    /\ callbacks' = OthersThan(h)
    /\ UNCHANGED <<cache_data, fileVars, blockVars, stored, woken, asked, got, faultVars>>

PutDone(h) ==
    /\ h \in puts
    /\ puts' = puts \ {h}
    /\ stored' = stored \cup {h}
    /\ UNCHANGED <<cache_data, fileVars, memory, disk, callbacks, woken, asked, status, got, faultVars>>

\* blocks_cache is full.
Evict(h) ==
    /\ woken = <<>>
    /\ h \in memory
    /\ evictions < MaxEvictions
    /\ evictions' = evictions + 1
    /\ memory' = memory \ {h}
    /\ UNCHANGED <<cache_data, fileVars, disk, puts, stored, callbacks, woken, asked, status, got, crashes>>

\* The process dies between two handlers and starts again.
Crash ==
    /\ woken = <<>>
    /\ crashes < MaxCrashes
    /\ crashes' = crashes + 1
    /\ memory' = {} /\ puts' = {} /\ callbacks' = <<>>
    /\ status' = [r \in Requests |-> IF Pending(r) THEN "lost" ELSE status[r]]
    /\ UNCHANGED <<cache_data, fileVars, disk, stored, woken, asked, got, evictions>>

Next ==
    \/ \E r \in Requests : Begin(r) \/ \E q \in Queries : Ask(r, q)
    \/ Resume
    \/ \E h \in gets : ReceiveBlock(h) \/ ReceiveNothing(h)
    \/ \E h \in puts : PutDone(h)
    \/ \E h \in memory : Evict(h)
    \/ Crash

(***************************************************************************)
(* The main loop runs, S3 answers and takes uploads.  Nobody has to ask.   *)
(***************************************************************************)
Fairness ==
    /\ \A r \in Requests : WF_vars(Begin(r))
    /\ WF_vars(Resume)
    /\ WF_vars(\E h \in gets : ReceiveBlock(h) \/ ReceiveNothing(h))

Spec == Init /\ [][Next]_vars /\ Fairness

-----------------------------------------------------------------------------

\* The byte at position i of the file, from 0.
ByteAt(i) ==
    LET block == meta[i \div BlockSize]
        at == i % BlockSize
    IN  IF block # NoBlock /\ at < Len(block) THEN block[at + 1] ELSE Zero

FilePositions == UNION {b * BlockSize .. (b + 1) * BlockSize - 1 : b \in Blocks}

File == INSTANCE ByteFile WITH
            Positions <- FilePositions,
            bytes <- [i \in FilePositions |-> ByteAt(i)],
            status <- [r \in Requests |-> IF Pending(r) THEN "asked" ELSE status[r]]

(***************************************************************************)
(* The blocks behave as an array of bytes: a write that succeeds has put   *)
(* all its bytes in place and changed no other, in spite of waiting and    *)
(* running again; a read returns the bytes of one moment; a hole reads as  *)
(* zeros; failures and crashes change nothing.  A file made shorter keeps  *)
(* what is beyond its end.                                                 *)
(***************************************************************************)
IsAFile == File!Spec

(***************************************************************************)
(* Every block the file refers to can be had: it is in the local cache, on *)
(* S3 or on its way there.  (Without the cache on disk a crash takes the   *)
(* blocks in memory along.)                                                *)
(***************************************************************************)
BlocksReachable ==
    cache_data \/ crashes = 0 =>
        \A b \in Blocks : meta[b] # NoBlock => Local(meta[b]) \/ meta[b] \in stored \cup puts

(***************************************************************************)
(* With the cache on disk no request fails, however late the uploads and   *)
(* however small the cache in memory: nobody asks S3 for a block that is   *)
(* not there yet.                                                          *)
(***************************************************************************)
NoBlockMissing == cache_data => \A r \in Requests : status[r] # "EIO"

\* Every request is answered.
RequestsAnswered == \A r \in Requests : Pending(r) ~> ~Pending(r)
===============================================================================
