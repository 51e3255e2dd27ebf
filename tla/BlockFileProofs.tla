--------------------------- MODULE BlockFileProofs ---------------------------
(***************************************************************************)
(* Theorems about BlockFile for any requests, contents, number and size of *)
(* blocks: every block of the file can be had, with the cache on disk      *)
(* nobody is answered EIO because of an upload that is not done, and the   *)
(* blocks behave as the array of bytes of ByteFile.                        *)
(***************************************************************************)
EXTENDS BlockFile, SequenceTheorems, NumberProofs, TLAPS

-----------------------------------------------------------------------------

(***************************************************************************)
(* The inductive invariant.  Cached(f) is about the file and the caches in *)
(* the form fuse_write changes them.                                       *)
(***************************************************************************)
Safe == cache_data \/ crashes = 0

Fields == {"size", "meta", "memory", "disk", "puts", "wait"}

\* What is in memory is also somewhere it does not vanish from.
Backed(f) == Safe => f.memory \subseteq f.disk \cup stored \cup f.puts

Reachable(f) ==
    Safe => \A b \in Blocks : f.meta[b] # NoBlock =>
                f.meta[b] \in f.memory \cup f.disk \cup stored \cup f.puts

\* With the cache on disk everything this node has made or fetched is there.
OnDisk(f) == cache_data => f.memory \cup f.puts \subseteq f.disk

\* What a write waits for is on S3.
WaitsForStored(f) == cache_data /\ f.wait # NoBlock => f.wait \in stored

Cached(f) ==
    /\ DOMAIN f = Fields
    /\ DOMAIN f.meta = Blocks
    /\ Backed(f) /\ Reachable(f) /\ OnDisk(f) /\ WaitsForStored(f)

RequestsOK ==
    /\ asked \in [Requests -> Queries \cup {NoQuery}]
    /\ status \in [Requests -> {"idle", "asked", "waiting", "ok", "EIO", "lost"}]
    /\ woken \in Seq(Requests)
    /\ \A h \in gets : callbacks[h] \in Seq(Requests)

\* With the cache on disk only blocks that are on S3 are asked for.
AsksForStored == cache_data => gets \subseteq stored

BlockInv ==
    /\ cache_data \in BOOLEAN
    /\ crashes \in Nat
    /\ RequestsOK
    /\ Cached(Current)
    /\ AsksForStored
    /\ NoBlockMissing

-----------------------------------------------------------------------------

(***************************************************************************)
(* The operators of fuse_write keep the caches in order.                   *)
(***************************************************************************)

\* writeBlock leaves the new block in memory and on its way to S3, or finds
\* it in the cache.
LEMMA PutBlockCached ==
    ASSUME cache_data \in BOOLEAN,
           NEW f, Cached(f), NEW b \in Blocks, NEW data
    PROVE  /\ Cached(PutBlock(f, b, data))
           /\ PutBlock(f, b, data).wait = f.wait
<1> DEFINE g == PutBlock(f, b, data)
<1>1. /\ DOMAIN g = Fields
      /\ g.wait = f.wait
      /\ g.meta = [f.meta EXCEPT ![b] = data]
      /\ g.memory = f.memory \cup {data}
      /\ \/ g.disk = f.disk /\ g.puts = f.puts /\ data \in f.memory \cup f.disk
         \/ g.disk = f.disk /\ g.puts = f.puts \cup {data} /\ ~cache_data
         \/ g.disk = f.disk \cup {data} /\ g.puts = f.puts \cup {data}
  <2>1. CASE data \in f.memory \cup f.disk
    BY <2>1 DEF PutBlock, Cached, Fields
  <2>2. CASE data \notin f.memory \cup f.disk
    <3>1. CASE cache_data
      BY <2>2, <3>1 DEF PutBlock, Cached, Fields
    <3>2. CASE ~cache_data
      BY <2>2, <3>2 DEF PutBlock, Cached, Fields
    <3> QED BY <3>1, <3>2
  <2> QED BY <2>1, <2>2
<1> HIDE DEF g
<1>2. DOMAIN g.meta = Blocks
  BY <1>1 DEF Cached
<1>3. \A c \in Blocks : g.meta[c] = data \/ g.meta[c] = f.meta[c]
  BY <1>1 DEF Cached
<1>4. Backed(g) /\ OnDisk(g)
  BY <1>1 DEF Cached, Backed, OnDisk
<1>5. Reachable(g)
  BY <1>1, <1>3 DEF Cached, Reachable
<1>6. WaitsForStored(g)
  BY <1>1 DEF Cached, WaitsForStored
<1> QED BY <1>1, <1>2, <1>4, <1>5, <1>6 DEF Cached, g

\* The size of the file does not matter to the caches.
LEMMA SizeCached ==
    ASSUME NEW f, Cached(f), NEW n
    PROVE  /\ Cached([f EXCEPT !.size = n])
           /\ [f EXCEPT !.size = n].wait = f.wait
<1> DEFINE g == [f EXCEPT !.size = n]
<1>1. /\ DOMAIN g = Fields
      /\ g.meta = f.meta /\ g.memory = f.memory /\ g.disk = f.disk
      /\ g.puts = f.puts /\ g.wait = f.wait
  BY DEF Cached, Fields
<1> HIDE DEF g
<1>2. Cached(g)
  BY <1>1 DEF Cached, Backed, Reachable, OnDisk, WaitsForStored
<1> QED BY <1>1, <1>2 DEF g

\* A block that is not local is on S3 or on its way there, and with the cache
\* on disk it is on S3.
LEMMA WaitCached ==
    ASSUME NEW f, Cached(f), NEW b \in Blocks,
           f.meta[b] # NoBlock, f.meta[b] \notin f.memory \cup f.disk
    PROVE  Cached([f EXCEPT !.wait = f.meta[b]])
<1> DEFINE g == [f EXCEPT !.wait = f.meta[b]]
<1>1. /\ DOMAIN g = Fields
      /\ g.meta = f.meta /\ g.memory = f.memory /\ g.disk = f.disk
      /\ g.puts = f.puts /\ g.wait = f.meta[b]
  BY DEF Cached, Fields
<1>2. cache_data => f.meta[b] \in stored
  BY DEF Cached, Reachable, OnDisk, Safe
<1> HIDE DEF g
<1>3. Cached(g)
  BY <1>1, <1>2 DEF Cached, Backed, Reachable, OnDisk, WaitsForStored
<1> QED BY <1>3 DEF g

LEMMA RealWriteCached ==
    ASSUME cache_data \in BOOLEAN, NEW f, Cached(f), NEW offset, NEW buf,
           offset \div BlockSize \in Blocks
    PROVE  Cached(RealWrite(f, offset, buf))
<1> DEFINE b == offset \div BlockSize
           at == offset % BlockSize
           end == offset + Len(buf)
<1>1. \A data, n : Cached([PutBlock(f, b, data) EXCEPT !.size = n])
  BY PutBlockCached, SizeCached
<1>2. \A data : Cached([PutBlock(f, b, data) EXCEPT !.size = Larger(@, end)])
  BY <1>1
<1>3. f.meta[b] # NoBlock /\ f.meta[b] \notin f.memory \cup f.disk
      => Cached([f EXCEPT !.wait = f.meta[b]])
  BY WaitCached
<1> HIDE DEF b, at, end
<1>4. \/ \E data, n : RealWrite(f, offset, buf) = [PutBlock(f, b, data) EXCEPT !.size = n]
      \/ /\ f.meta[b] # NoBlock /\ f.meta[b] \notin f.memory \cup f.disk
         /\ RealWrite(f, offset, buf) = [f EXCEPT !.wait = f.meta[b]]
  <2>1. \/ RealWrite(f, offset, buf)
             = [PutBlock(f, b, buf) EXCEPT !.size = Larger(PutBlock(f, b, buf).size, end)]
        \/ RealWrite(f, offset, buf) = [PutBlock(f, b, buf) EXCEPT !.size = end]
        \/ /\ f.meta[b] # NoBlock /\ f.meta[b] \notin f.memory \cup f.disk
           /\ RealWrite(f, offset, buf) = [f EXCEPT !.wait = f.meta[b]]
        \/ RealWrite(f, offset, buf)
             = [PutBlock(f, b, Merged(f.meta[b], at, buf)) EXCEPT
                   !.size = Larger(PutBlock(f, b, Merged(f.meta[b], at, buf)).size, end)]
        \/ RealWrite(f, offset, buf)
             = [PutBlock(f, b, Zeros(at) \o buf) EXCEPT
                   !.size = Larger(PutBlock(f, b, Zeros(at) \o buf).size, end)]
    BY DEF RealWrite, b, at, end
  <2> QED BY <2>1
<1> QED BY <1>1, <1>3, <1>4

\* The first piece of a write is not empty and no longer than the write.
LEMMA FirstLenInRange ==
    ASSUME NEW offset \in Nat, NEW len \in 1 .. BlockSize
    PROVE  FirstLen(offset, len) \in 1 .. len
<1> DEFINE at == offset % BlockSize
<1>1. at \in 0 .. BlockSize - 1
  BY BlockFileAssumption
<1> HIDE DEF at
<1>2. FirstLen(offset, len)
        = IF at # 0 /\ len >= BlockSize - at THEN BlockSize - at ELSE len
  BY DEF FirstLen, at
<1> QED BY <1>1, <1>2, BlockFileAssumption

LEMMA WrittenCached ==
    ASSUME cache_data \in BOOLEAN, Cached(Current),
           NEW q \in Queries, q.op = "write"
    PROVE  Cached(Written(q.off, q.data))
<1> DEFINE len == Len(q.data)
           n == FirstLen(q.off, len)
           f == RealWrite(Current, q.off, SubSeq(q.data, 1, n))
<1>1. q.off \in Nat /\ len \in 1 .. BlockSize
  BY BlockFileAssumption
<1>2. \A i \in q.off .. q.off + len - 1 : i \div BlockSize \in Blocks
  BY BlockFileAssumption
<1> HIDE DEF len
<1>3. n \in 1 .. len
  BY <1>1, FirstLenInRange
<1> HIDE DEF n
<1>4. Cached(f)
  <2>1. q.off \in q.off .. q.off + len - 1
    BY <1>1
  <2> QED BY <1>2, <2>1, RealWriteCached
<1>5. n # len => Cached(RealWrite(f, q.off + n, SubSeq(q.data, n + 1, len)))
  <2>1. n # len => q.off + n \in q.off .. q.off + len - 1
    BY <1>1, <1>3
  <2> QED BY <1>2, <1>4, <2>1, RealWriteCached
<1>6. Written(q.off, q.data) =
        IF f.wait # NoBlock \/ n = len THEN f
        ELSE RealWrite(f, q.off + n, SubSeq(q.data, n + 1, len))
  BY DEF Written, n, len
<1> QED BY <1>4, <1>5, <1>6

-----------------------------------------------------------------------------

(***************************************************************************)
(* The handlers keep the invariant.                                        *)
(***************************************************************************)

\* What Current is in the next state.
LEMMA CurrentNext ==
    ASSUME NEW m, NEW me, NEW d, NEW p,
           DOMAIN m = Blocks,
           Safe => me \subseteq d \cup stored \cup p,
           Safe => \A b \in Blocks : m[b] # NoBlock => m[b] \in me \cup d \cup stored \cup p,
           cache_data => me \cup p \subseteq d,
           meta' = m, memory' = me, disk' = d, puts' = p,
           UNCHANGED <<cache_data, crashes, stored>>
    PROVE  Cached(Current)'
BY DEF Cached, Current, Fields, Backed, Reachable, OnDisk, WaitsForStored, Safe

LEMMA CachedUnchanged ==
    ASSUME Cached(Current), UNCHANGED <<cache_data, meta, blockVars, crashes>>,
           stored \subseteq stored'
    PROVE  Cached(Current)'
BY DEF Cached, Current, Fields, Backed, Reachable, OnDisk, WaitsForStored, Safe, blockVars

\* A request is answered with success.
LEMMA Answered ==
    ASSUME BlockInv, NEW r \in Requests, Answer(r, "ok"),
           UNCHANGED <<cache_data, asked, callbacks>>
    PROVE  /\ status' \in [Requests -> {"idle", "asked", "waiting", "ok", "EIO", "lost"}]
           /\ NoBlockMissing'
           /\ \A h \in gets' : callbacks'[h] \in Seq(Requests)
BY DEF BlockInv, RequestsOK, Answer, NoBlockMissing, gets

\* A request is added to those who wait for the block h.
LEMMA Waiting ==
    ASSUME BlockInv, NEW r \in Requests, NEW h, WaitFor(r, h),
           UNCHANGED <<cache_data, asked>>
    PROVE  /\ status' \in [Requests -> {"idle", "asked", "waiting", "ok", "EIO", "lost"}]
           /\ NoBlockMissing'
           /\ \A x \in gets' : callbacks'[x] \in Seq(Requests)
           /\ gets' = gets \cup {h}
<1>1. \A x \in gets : Append(callbacks[x], r) \in Seq(Requests)
  BY DEF BlockInv, RequestsOK
<1>2. <<r>> \in Seq(Requests)
  OBVIOUS
<1>3. gets' = gets \cup {h}
  BY DEF WaitFor, Registered, gets
<1>4. \A x \in gets' : callbacks'[x] \in Seq(Requests)
  BY <1>1, <1>2, <1>3 DEF WaitFor, Registered, BlockInv, RequestsOK
<1> QED BY <1>3, <1>4 DEF BlockInv, RequestsOK, WaitFor, Answer, NoBlockMissing

\* What a run of a handler leaves alone, and Begin and Resume do too.
RunKeeps == UNCHANGED <<cache_data, stored, asked, faultVars>>

\* A run keeps the invariant but for `woken', which its caller changes.
RunInv ==
    /\ status' \in [Requests -> {"idle", "asked", "waiting", "ok", "EIO", "lost"}]
    /\ NoBlockMissing'
    /\ \A h \in gets' : callbacks'[h] \in Seq(Requests)
    /\ Cached(Current)'
    /\ AsksForStored'

LEMMA RunReadKeeps ==
    ASSUME BlockInv, NEW r \in Requests, NEW q, RunRead(r, q), RunKeeps
    PROVE  RunInv
<1> DEFINE final == IF q.off + q.len > size THEN size ELSE q.off + q.len
<1>1. Cached(Current)'
  BY CachedUnchanged DEF BlockInv, RunRead, RunKeeps, fileVars, faultVars
<1>2. CASE Answer(r, "ok") /\ UNCHANGED callbacks
  <2>1. AsksForStored'
    BY <1>2 DEF BlockInv, AsksForStored, RunKeeps, gets
  <2> QED BY <1>1, <1>2, <2>1, Answered DEF RunInv, RunKeeps
<1>3. ASSUME NEW b \in Missing(q.off, final), WaitFor(r, meta[b])
      PROVE  RunInv
  <2>1. b \in Blocks /\ meta[b] # NoBlock /\ meta[b] \notin memory \cup disk
    BY <1>3 DEF Missing, Local
  <2>2. cache_data => meta[b] \in stored
    BY <2>1 DEF BlockInv, Cached, Current, Reachable, OnDisk, Safe
  <2>3. AsksForStored'
    BY <1>3, <2>2, Waiting DEF BlockInv, AsksForStored, RunKeeps
  <2> QED BY <1>1, <1>3, <2>3, Waiting DEF RunInv, RunKeeps
<1>4. \/ Answer(r, "ok") /\ UNCHANGED callbacks
      \/ \E b \in Missing(q.off, final) : WaitFor(r, meta[b])
  BY DEF RunRead
<1> QED BY <1>2, <1>3, <1>4

LEMMA RunWriteKeeps ==
    ASSUME BlockInv, NEW r \in Requests, NEW q \in Queries, q.op = "write",
           RunWrite(r, q), RunKeeps
    PROVE  RunInv
<1> DEFINE f == Written(q.off, q.data)
<1>1. Cached(f)
  BY WrittenCached DEF BlockInv
<1>2. /\ meta' = f.meta /\ memory' = f.memory /\ disk' = f.disk /\ puts' = f.puts
      /\ IF f.wait # NoBlock THEN WaitFor(r, f.wait)
         ELSE Answer(r, "ok") /\ UNCHANGED <<callbacks, got>>
  BY DEF RunWrite
<1> HIDE DEF f
<1>3. Cached(Current)'
  BY <1>1, <1>2, CurrentNext DEF Cached, Backed, Reachable, OnDisk, RunKeeps, faultVars
<1>4. CASE f.wait # NoBlock
  <2>1. cache_data => f.wait \in stored
    BY <1>1, <1>4 DEF Cached, WaitsForStored
  <2>2. AsksForStored'
    BY <1>2, <1>4, <2>1, Waiting DEF BlockInv, AsksForStored, RunKeeps
  <2> QED BY <1>2, <1>3, <1>4, <2>2, Waiting DEF RunInv, RunKeeps
<1>5. CASE f.wait = NoBlock
  <2>1. AsksForStored'
    BY <1>2, <1>5 DEF BlockInv, AsksForStored, RunKeeps, gets
  <2> QED BY <1>2, <1>3, <1>5, <2>1, Answered DEF RunInv, RunKeeps
<1> QED BY <1>4, <1>5

LEMMA RunSetattrKeeps ==
    ASSUME BlockInv, NEW r \in Requests, NEW q, RunSetattr(r, q), RunKeeps
    PROVE  RunInv
<1>1. Cached(Current)'
  BY CachedUnchanged DEF BlockInv, RunSetattr, RunKeeps, faultVars
<1>2. AsksForStored'
  BY DEF BlockInv, AsksForStored, RunSetattr, RunKeeps, gets
<1> QED BY <1>1, <1>2, Answered DEF RunInv, RunSetattr, RunKeeps

LEMMA RunOpenKeeps ==
    ASSUME BlockInv, NEW r \in Requests, RunOpen(r), RunKeeps
    PROVE  RunInv
<1>1. Cached(Current)'
  BY DEF BlockInv, RunOpen, RunKeeps, faultVars, blockVars,
         Cached, Current, Fields, Backed, Reachable, OnDisk, WaitsForStored, Safe
<1>2. AsksForStored'
  BY DEF BlockInv, AsksForStored, RunOpen, RunKeeps, gets
<1> QED BY <1>1, <1>2, Answered DEF RunInv, RunOpen, RunKeeps

LEMMA RunKeepsInv ==
    ASSUME BlockInv, NEW r \in Requests, Run(r, asked[r]), RunKeeps
    PROVE  RunInv
<1> DEFINE q == asked[r]
<1>1. q \in Queries \cup {NoQuery}
  BY DEF BlockInv, RequestsOK
<1>2. CASE q.op = "read" /\ RunRead(r, q)
  BY <1>2, RunReadKeeps
<1>3. CASE q.op = "write" /\ RunWrite(r, q)
  <2>1. q # NoQuery
    BY <1>3 DEF NoQuery
  <2> QED BY <1>1, <1>3, <2>1, RunWriteKeeps
<1>4. CASE q.op = "setattr" /\ RunSetattr(r, q)
  BY <1>4, RunSetattrKeeps
<1>5. CASE q.op = "open" /\ RunOpen(r)
  BY <1>5, RunOpenKeeps
<1> QED BY <1>2, <1>3, <1>4, <1>5 DEF Run

-----------------------------------------------------------------------------

LEMMA InitInv == Init => BlockInv
<1> SUFFICES ASSUME Init PROVE BlockInv
  OBVIOUS
<1>1. \A r \in Requests : status[r] # "EIO"
  BY DEF Init
<1>2. gets = {}
  BY DEF Init, gets
<1>3. PICK s \in Contents :
        meta = [b \in Blocks |-> IF b * BlockSize < Len(s) THEN BlockOf(s, b) ELSE NoBlock]
  BY DEF Init
<1>4. RequestsOK
  BY <1>2 DEF Init, RequestsOK
<1>5. Cached(Current)
  <2>1. DOMAIN meta = Blocks
    BY <1>3
  <2>2. \A b \in Blocks : meta[b] # NoBlock => meta[b] \in stored
    BY DEF Init
  <2> QED BY <2>1, <2>2 DEF Init, Cached, Current, Fields, Backed, Reachable, OnDisk,
                            WaitsForStored
<1> QED BY <1>1, <1>2, <1>4, <1>5 DEF Init, BlockInv, AsksForStored, NoBlockMissing

LEMMA NextInv == BlockInv /\ [Next]_vars => BlockInv'
<1> SUFFICES ASSUME BlockInv, [Next]_vars PROVE BlockInv'
  OBVIOUS
<1>1. ASSUME NEW r \in Requests, Begin(r) PROVE BlockInv'
  <2>1. RunInv
    BY <1>1, RunKeepsInv DEF Begin, RunKeeps
  <2> QED BY <1>1, <2>1 DEF Begin, BlockInv, RunInv, RequestsOK, faultVars
<1>2. ASSUME NEW r \in Requests, NEW q \in Queries, Ask(r, q) PROVE BlockInv'
  <2>1. RequestsOK' /\ NoBlockMissing' /\ AsksForStored'
    BY <1>2 DEF Ask, BlockInv, RequestsOK, NoBlockMissing, AsksForStored, gets
  <2>2. Cached(Current)'
    BY <1>2, CachedUnchanged DEF Ask, BlockInv, fileVars, faultVars
  <2> QED BY <1>2, <2>1, <2>2 DEF Ask, BlockInv, faultVars
<1>3. CASE Resume
  <2>1. Head(woken) \in Requests /\ Tail(woken) \in Seq(Requests)
    BY <1>3 DEF Resume, BlockInv, RequestsOK
  <2>2. RunInv
    BY <1>3, <2>1, RunKeepsInv DEF Resume, RunKeeps
  <2> QED BY <1>3, <2>1, <2>2 DEF Resume, BlockInv, RunInv, RequestsOK, faultVars
<1>4. ASSUME NEW h \in gets, ReceiveBlock(h) PROVE BlockInv'
  <2>1. gets' \subseteq gets /\ \A x \in gets' : callbacks'[x] = callbacks[x]
    BY <1>4 DEF ReceiveBlock, OthersThan, gets
  <2>2. RequestsOK' /\ NoBlockMissing' /\ AsksForStored'
    BY <1>4, <2>1
    DEF ReceiveBlock, BlockInv, RequestsOK, NoBlockMissing, AsksForStored
  <2>3. Cached(Current)'
    BY <1>4 DEF ReceiveBlock, BlockInv, fileVars, faultVars,
                Cached, Current, Fields, Backed, Reachable, OnDisk, WaitsForStored, Safe
  <2> QED BY <1>4, <2>2, <2>3 DEF ReceiveBlock, BlockInv, faultVars
<1>5. ASSUME NEW h \in gets, ReceiveNothing(h) PROVE BlockInv'
  <2>1. gets' \subseteq gets /\ \A x \in gets' : callbacks'[x] = callbacks[x]
    BY <1>5 DEF ReceiveNothing, OthersThan, gets
  <2>2. ~cache_data
    BY <1>5 DEF ReceiveNothing, BlockInv, AsksForStored
  <2>3. RequestsOK' /\ NoBlockMissing' /\ AsksForStored'
    BY <1>5, <2>1, <2>2
    DEF ReceiveNothing, BlockInv, RequestsOK, NoBlockMissing, AsksForStored
  <2>4. Cached(Current)'
    BY <1>5, CachedUnchanged DEF ReceiveNothing, BlockInv, fileVars, faultVars
  <2> QED BY <1>5, <2>3, <2>4 DEF ReceiveNothing, BlockInv, faultVars
<1>6. ASSUME NEW h \in puts, PutDone(h) PROVE BlockInv'
  <2>1. RequestsOK' /\ NoBlockMissing' /\ AsksForStored'
    BY <1>6 DEF PutDone, BlockInv, RequestsOK, NoBlockMissing, AsksForStored, gets
  <2>2. Cached(Current)'
    BY <1>6 DEF PutDone, BlockInv, fileVars, faultVars,
                Cached, Current, Fields, Backed, Reachable, OnDisk, WaitsForStored, Safe
  <2> QED BY <1>6, <2>1, <2>2 DEF PutDone, BlockInv, faultVars
<1>7. ASSUME NEW h \in memory, Evict(h) PROVE BlockInv'
  <2>1. RequestsOK' /\ NoBlockMissing' /\ AsksForStored'
    BY <1>7 DEF Evict, BlockInv, RequestsOK, NoBlockMissing, AsksForStored, gets
  <2>2. Cached(Current)'
    BY <1>7 DEF Evict, BlockInv, fileVars,
                Cached, Current, Fields, Backed, Reachable, OnDisk, WaitsForStored, Safe
  <2> QED BY <1>7, <2>1, <2>2 DEF Evict, BlockInv
<1>8. CASE Crash
  <2>1. gets' = {}
    BY <1>8 DEF Crash, gets
  <2>2. RequestsOK' /\ NoBlockMissing' /\ AsksForStored'
    BY <1>8, <2>1 DEF Crash, BlockInv, RequestsOK, NoBlockMissing, AsksForStored
  <2>3. crashes' \in Nat /\ crashes' # 0
    BY <1>8 DEF Crash, BlockInv
  <2>4. Safe' => cache_data
    BY <1>8, <2>3 DEF Crash, Safe
  <2>5. Cached(Current)'
    BY <1>8, <2>4 DEF Crash, BlockInv, fileVars,
                Cached, Current, Fields, Backed, Reachable, OnDisk, WaitsForStored, Safe
  <2> QED BY <1>8, <2>2, <2>3, <2>5 DEF Crash, BlockInv
<1>9. CASE UNCHANGED vars
  <2>1. RequestsOK' /\ NoBlockMissing' /\ AsksForStored'
    BY <1>9 DEF vars, BlockInv, RequestsOK, NoBlockMissing, AsksForStored, gets
  <2>2. Cached(Current)'
    BY <1>9, CachedUnchanged DEF vars, BlockInv, fileVars, faultVars
  <2> QED BY <1>9, <2>1, <2>2 DEF vars, BlockInv, faultVars
<1> QED BY <1>1, <1>2, <1>3, <1>4, <1>5, <1>6, <1>7, <1>8, <1>9 DEF Next

LEMMA Invariance == Spec => []BlockInv
BY InitInv, NextInv, PTL DEF Spec

(***************************************************************************)
(* Every block a file refers to is in the local cache, on S3 or on its way *)
(* there, whatever is written, evicted, lost or late (writeBlock).         *)
(***************************************************************************)
THEOREM BlocksStayReachable == Spec => []BlocksReachable
<1>1. BlockInv => BlocksReachable
  BY DEF BlockInv, Cached, Current, Reachable, Safe, BlocksReachable, Local
<1> QED BY <1>1, Invariance, PTL

(***************************************************************************)
(* With the cache on disk receivedBlock never answers EIO for a block that *)
(* is not on S3 yet: callbackOnBlockCached asks only for what is there.    *)
(***************************************************************************)
THEOREM NoBlockEverMissing == Spec => []NoBlockMissing
<1>1. BlockInv => NoBlockMissing
  BY DEF BlockInv
<1> QED BY <1>1, Invariance, PTL

-----------------------------------------------------------------------------

\* A position is a block and an offset in it.
(***************************************************************************)
(* Positions and blocks.  BlockSize is a parameter, and the provers know   *)
(* nothing of products of two variables but what these lemmas say.         *)
(***************************************************************************)

LEMMA DivMod ==
    ASSUME NEW p \in Nat
    PROVE  /\ p \div BlockSize \in Nat /\ p % BlockSize \in 0 .. BlockSize - 1
           /\ p = BlockSize * (p \div BlockSize) + (p % BlockSize)
  BY BlockFileAssumption

LEMMA DivUnique ==
    ASSUME NEW b \in Nat, NEW k \in 0 .. BlockSize - 1
    PROVE  /\ (BlockSize * b + k) \div BlockSize = b
           /\ (BlockSize * b + k) % BlockSize = k
  BY BlockFileAssumption

LEMMA SameBlock ==
    ASSUME NEW p \in Nat, NEW d \in Int, 0 <= (p % BlockSize) + d, (p % BlockSize) + d < BlockSize
    PROVE  /\ p + d \in Nat
           /\ (p + d) \div BlockSize = p \div BlockSize
           /\ (p + d) % BlockSize = (p % BlockSize) + d
<1> DEFINE b == p \div BlockSize
           k == (p % BlockSize) + d
<1>1. /\ b \in Nat /\ p % BlockSize \in 0 .. BlockSize - 1
      /\ p = BlockSize * b + (p % BlockSize)
  BY DivMod
<1>2. k \in 0 .. BlockSize - 1 /\ BlockSize * b \in Nat
  BY <1>1, BlockFileAssumption
<1>3. p + d = BlockSize * b + k
  BY <1>1, <1>2
<1> HIDE DEF b, k
<1> QED
  BY <1>1, <1>2, <1>3, DivUnique DEF b, k

LEMMA NextBlock ==
    ASSUME NEW p \in Nat
    PROVE  (p \div BlockSize + 1) * BlockSize = p + (BlockSize - (p % BlockSize))
<1> DEFINE b == p \div BlockSize
<1>1. b \in Nat /\ p = BlockSize * b + (p % BlockSize) /\ p % BlockSize \in Nat
  BY DivMod
<1> HIDE DEF b
<1>2. (b + 1) * BlockSize = BlockSize * b + BlockSize /\ BlockSize * b \in Nat
  BY <1>1, BlockFileAssumption
<1>3. (b + 1) * BlockSize = p + (BlockSize - (p % BlockSize))
  BY <1>1, <1>2, BlockFileAssumption
<1> QED
  BY <1>3 DEF b

\* A function on 1..n is a sequence.
LEMMA IsSequence ==
    ASSUME NEW n \in Nat, NEW f \in [1 .. n -> Bytes]
    PROVE  f \in Seq(Bytes) /\ Len(f) = n
  BY SeqDef

LEMMA ZerosAreBytes ==
    ASSUME NEW n \in Nat
    PROVE  /\ Zeros(n) \in Seq(Bytes) /\ Len(Zeros(n)) = n
           /\ \A i \in 1 .. n : Zeros(n)[i] = Zero
  BY IsSequence, BlockFileAssumption DEF Zeros

-----------------------------------------------------------------------------

\* The byte at offset k of a block that may be missing or short.
ByteOf(block, k) == IF block # NoBlock /\ k < Len(block) THEN block[k + 1] ELSE Zero

\* The byte at position i of a file with the blocks m.
ByteIn(m, i) == ByteOf(m[i \div BlockSize], i % BlockSize)

MaybeData == Data \cup {NoBlock}

LEMMA ByteAtIn == \A i : ByteAt(i) = ByteIn(meta, i)
  BY DEF ByteAt, ByteIn, ByteOf

LEMMA DataFacts ==
    ASSUME NEW h \in Data
    PROVE  h \in Seq(Bytes) /\ Len(h) \in 1 .. BlockSize /\ h # NoBlock
  BY BlockFileAssumption DEF Data

LEMMA ByteType ==
    ASSUME NEW block \in MaybeData, NEW k \in Nat
    PROVE  ByteOf(block, k) \in Bytes
<1>1. CASE block \in Data /\ k < Len(block)
  <2>1. k + 1 \in 1 .. Len(block)
    BY <1>1, DataFacts
  <2> QED
    BY <1>1, <2>1, DataFacts, ElementOfSeq DEF ByteOf
<1>2. CASE ~(block \in Data /\ k < Len(block))
  BY <1>2, BlockFileAssumption DEF ByteOf, MaybeData
<1> QED
  BY <1>1, <1>2

Smaller(a, b) == IF a > b THEN b ELSE a

\* fuse_read, one block: what is there of it, filled up with zeros.
LEMMA ReadPieceBytes ==
    ASSUME meta \in [Blocks -> MaybeData],
           NEW pos \in Nat, NEW final \in Nat, pos < final, pos \div BlockSize \in Blocks
    PROVE  LET n == Smaller(BlockSize - (pos % BlockSize), final - pos)
           IN  /\ n \in 1 .. final - pos
               /\ ReadPiece(pos, final) = [i \in 1 .. n |-> ByteIn(meta, pos + i - 1)]
               /\ ReadPiece(pos, final) \in Seq(Bytes) /\ Len(ReadPiece(pos, final)) = n
<1> DEFINE b == pos \div BlockSize
           from == pos % BlockSize
           block == meta[b]
           there == IF meta[b] = NoBlock THEN <<>> ELSE SubSeq(meta[b], from + 1, Len(meta[b]))
           piece == there \o Zeros(BlockSize - from - Len(there))
           room == BlockSize - from
           n == Smaller(room, final - pos)
<1>1. from \in 0 .. BlockSize - 1 /\ room \in 1 .. BlockSize /\ BlockSize \in Nat
  <2>1. from \in 0 .. BlockSize - 1
    BY DivMod
  <2>2. BlockSize \in Nat
    BY BlockFileAssumption
  <2> HIDE DEF from
  <2> QED
    BY <2>1, <2>2
<1>2. block \in MaybeData
  OBVIOUS
<1> HIDE DEF from
<1>3. n \in 1 .. final - pos /\ n <= room
  BY <1>1 DEF Smaller
<1>4. ReadPiece(pos, final) = IF Len(piece) > final - pos THEN SubSeq(piece, 1, final - pos) ELSE piece
  BY DEF ReadPiece, from
<1>5. /\ there \in Seq(Bytes) /\ Len(there) \in 0 .. room
      /\ \A i \in 1 .. room :
            ByteOf(block, from + i - 1) = IF i <= Len(there) THEN there[i] ELSE Zero
  <2>1. CASE block = NoBlock
    BY <1>1, <2>1 DEF ByteOf
  <2>2. CASE block # NoBlock
    <3>1. block \in Seq(Bytes) /\ Len(block) \in 1 .. BlockSize
      BY <1>2, <2>2, DataFacts DEF MaybeData
    <3> HIDE DEF block
    <3>2. there = SubSeq(block, from + 1, Len(block))
      BY <2>2 DEF block
    <3>3. \A i \in from + 1 .. Len(block) : block[i] \in Bytes
      BY <1>1, <3>1, ElementOfSeq
    <3>4. /\ there \in Seq(Bytes)
          /\ Len(there) = IF from + 1 <= Len(block) THEN Len(block) - from ELSE 0
          /\ \A i \in 1 .. Len(block) - from : there[i] = block[from + i]
      BY <1>1, <3>1, <3>2, <3>3, SubSeqProperties
    <3>5. Len(there) \in 0 .. room
      BY <1>1, <3>1, <3>4
    <3> HIDE DEF there
    <3>6. ASSUME NEW i \in 1 .. room
          PROVE  ByteOf(block, from + i - 1) = IF i <= Len(there) THEN there[i] ELSE Zero
      <4>1. CASE i <= Len(there)
        <5>1. i \in 1 .. Len(block) - from /\ from + i - 1 < Len(block) /\ (from + i - 1) + 1 = from + i
          BY <1>1, <3>1, <3>4, <4>1
        <5> QED
          BY <2>2, <3>4, <4>1, <5>1 DEF ByteOf
      <4>2. CASE ~(i <= Len(there))
        <5>1. ~(from + i - 1 < Len(block))
          BY <1>1, <3>1, <3>4, <4>2
        <5> QED
          BY <4>2, <5>1 DEF ByteOf
      <4> QED
        BY <4>1, <4>2
    <3> QED
      BY <3>4, <3>5, <3>6
  <2> QED
    BY <2>1, <2>2
<1> HIDE DEF there, block
<1>6. /\ piece \in Seq(Bytes) /\ Len(piece) = room
      /\ \A i \in 1 .. room : piece[i] = IF i <= Len(there) THEN there[i] ELSE Zero
  <2> DEFINE fill == Zeros(room - Len(there))
  <2>1. room - Len(there) \in Nat
    BY <1>1, <1>5
  <2>2. /\ fill \in Seq(Bytes) /\ Len(fill) = room - Len(there)
        /\ \A i \in 1 .. room - Len(there) : fill[i] = Zero
    BY <2>1, ZerosAreBytes
  <2>3. piece = there \o fill
    OBVIOUS
  <2> HIDE DEF fill, piece, room
  <2>4. /\ piece \in Seq(Bytes) /\ Len(piece) = Len(there) + Len(fill)
        /\ \A i \in 1 .. Len(there) + Len(fill) :
              piece[i] = IF i <= Len(there) THEN there[i] ELSE fill[i - Len(there)]
    BY <1>5, <2>2, <2>3, ConcatProperties
  <2>5. Len(there) + Len(fill) = room
    BY <1>1, <1>5, <2>2
  <2>6. \A i \in 1 .. room : ~(i <= Len(there)) => i - Len(there) \in 1 .. room - Len(there)
    BY <1>1, <1>5
  <2> QED
    BY <2>2, <2>4, <2>5, <2>6
<1> HIDE DEF piece
<1>7. \A i \in 1 .. room : piece[i] = ByteIn(meta, pos + i - 1)
  <2> SUFFICES ASSUME NEW i \in 1 .. room
               PROVE  piece[i] = ByteIn(meta, pos + i - 1)
    OBVIOUS
  <2>1. i - 1 \in Int /\ 0 <= from + (i - 1) /\ from + (i - 1) < BlockSize
    BY <1>1
  <2>2. (pos + (i - 1)) \div BlockSize = b /\ (pos + (i - 1)) % BlockSize = from + (i - 1)
    BY <2>1, SameBlock DEF from
  <2>3. pos + i - 1 = pos + (i - 1) /\ from + i - 1 = from + (i - 1)
    BY <1>1
  <2>4. ByteIn(meta, pos + i - 1) = ByteOf(block, from + i - 1)
    BY <2>2, <2>3 DEF ByteIn, block
  <2> QED
    BY <1>5, <1>6, <2>4
<1> HIDE DEF n
<1>8. /\ ReadPiece(pos, final) \in Seq(Bytes) /\ Len(ReadPiece(pos, final)) = n
      /\ \A i \in 1 .. n : ReadPiece(pos, final)[i] = piece[i]
  <2>1. CASE room > final - pos
    <3>1. n = final - pos
      BY <2>1 DEF n, Smaller
    <3>2. ReadPiece(pos, final) = SubSeq(piece, 1, final - pos)
      BY <1>4, <1>6, <2>1
    <3>3. \A i \in 1 .. final - pos : piece[i] \in Bytes
      BY <1>6, <2>1, <1>1, ElementOfSeq
    <3>4. 1 \in Int /\ final - pos \in Int /\ 1 <= final - pos /\ (final - pos) - 1 + 1 = final - pos
      OBVIOUS
    <3>5. \A i \in 1 .. final - pos : 1 + i - 1 = i
      OBVIOUS
    <3> QED
      BY <3>1, <3>2, <3>3, <3>4, <3>5, SubSeqProperties
  <2>2. CASE ~(room > final - pos)
    BY <1>1, <1>4, <1>6, <2>2 DEF n, Smaller
  <2> QED
    BY <2>1, <2>2
<1>9. ReadPiece(pos, final) = [i \in 1 .. n |-> ByteIn(meta, pos + i - 1)]
  <2>1. ReadPiece(pos, final) = [i \in 1 .. n |-> ReadPiece(pos, final)[i]]
    BY <1>3, <1>8, LenProperties
  <2>2. \A i \in 1 .. n : ReadPiece(pos, final)[i] = ByteIn(meta, pos + i - 1)
    BY <1>1, <1>3, <1>7, <1>8
  <2> QED
    BY <2>1, <2>2
<1> QED
  BY <1>3, <1>8, <1>9 DEF n, from

-----------------------------------------------------------------------------

(***************************************************************************)
(* A read.  ReadBuf is a recursive function.  That it returns the bytes of *)
(* the file is shown by the last position at which it would not.           *)
(***************************************************************************)

\* What fuse_read returns for the positions from p on.
FileBytes(p, final) == [i \in 1 .. final - p |-> ByteIn(meta, p + i - 1)]

LEMMA BytesSplit ==
    ASSUME meta \in [Blocks -> MaybeData], NEW final \in Nat,
           NEW p \in Nat, p < final, \A i \in p .. final - 1 : i \div BlockSize \in Blocks
    PROVE  LET next == (p \div BlockSize + 1) * BlockSize
           IN  /\ next \in Nat /\ p < next /\ next < final + BlockSize
               /\ ReadPiece(p, final) \o FileBytes(next, final) = FileBytes(p, final)
<1> DEFINE next == (p \div BlockSize + 1) * BlockSize
           room == BlockSize - (p % BlockSize)
           n == Smaller(room, final - p)
           piece == ReadPiece(p, final)
           rest == FileBytes(next, final)
<1>1. room \in 1 .. BlockSize /\ BlockSize \in Nat
  <2>1. p % BlockSize \in 0 .. BlockSize - 1
    BY DivMod
  <2>2. BlockSize \in Nat
    BY BlockFileAssumption
  <2> QED
    BY <2>1, <2>2
<1>2. next = p + room
  BY NextBlock
<1>3. /\ n \in 1 .. final - p
      /\ piece = [i \in 1 .. n |-> ByteIn(meta, p + i - 1)]
      /\ piece \in Seq(Bytes) /\ Len(piece) = n
  <2>1. p \div BlockSize \in Blocks
    OBVIOUS
  <2> QED
    BY <2>1, ReadPieceBytes
<1>4. \A i \in p .. final - 1 : ByteIn(meta, i) \in Bytes
  <2> SUFFICES ASSUME NEW i \in p .. final - 1
               PROVE  ByteIn(meta, i) \in Bytes
    OBVIOUS
  <2>1. i \in Nat /\ i % BlockSize \in Nat
    BY DivMod
  <2>2. meta[i \div BlockSize] \in MaybeData
    OBVIOUS
  <2> QED
    BY <2>1, <2>2, ByteType DEF ByteIn
<1> HIDE DEF room, piece, next
<1>5. next \in Nat /\ p < next /\ next < final + BlockSize
  BY <1>1, <1>2
<1>6. piece \o rest = FileBytes(p, final)
  <2>1. CASE room >= final - p
    <3>1. n = final - p
      BY <1>1, <2>1 DEF Smaller
    <3>2. piece = FileBytes(p, final)
      BY <1>3, <3>1 DEF FileBytes
    <3>3. 1 .. final - next = {}
      BY <1>1, <1>2, <2>1
    <3>4. rest \in [1 .. 0 -> Bytes]
      BY <3>3 DEF FileBytes
    <3>5. rest \in Seq(Bytes) /\ Len(rest) = 0
      BY <3>4, IsSequence
    <3>6. rest = <<>>
      BY <3>5, EmptySeq, SeqEqual
    <3> QED
      BY <1>3, <3>2, <3>6, ConcatEmptySeq
  <2>2. CASE room < final - p
    <3>1. n = room
      BY <1>1, <2>2 DEF Smaller
    <3>2. final - next \in Nat /\ final - next = (final - p) - room
      BY <1>1, <1>2, <2>2
    <3>3. rest \in [1 .. final - next -> Bytes]
      <4>1. \A i \in 1 .. final - next : next + i - 1 \in p .. final - 1
        BY <1>2, <1>5, <3>2
      <4> QED
        BY <1>4, <4>1 DEF FileBytes
    <3>4. rest \in Seq(Bytes) /\ Len(rest) = final - next
      BY <3>2, <3>3, IsSequence
    <3>5. FileBytes(p, final) \in Seq(Bytes) /\ Len(FileBytes(p, final)) = final - p
      <4>1. \A i \in 1 .. final - p : p + i - 1 \in p .. final - 1
        OBVIOUS
      <4>2. FileBytes(p, final) \in [1 .. final - p -> Bytes]
        BY <1>4, <4>1 DEF FileBytes
      <4> QED
        BY <4>2, IsSequence
    <3>6. /\ piece \o rest \in Seq(Bytes)
          /\ Len(piece \o rest) = room + (final - next)
          /\ \A i \in 1 .. room + (final - next) :
                (piece \o rest)[i] = IF i <= room THEN piece[i] ELSE rest[i - room]
      BY <1>3, <3>1, <3>4, ConcatProperties
    <3>7. room + (final - next) = final - p
      BY <1>1, <1>2
    <3>8. ASSUME NEW i \in 1 .. final - p
          PROVE  (piece \o rest)[i] = FileBytes(p, final)[i]
      <4>1. FileBytes(p, final)[i] = ByteIn(meta, p + i - 1)
        BY DEF FileBytes
      <4>2. CASE i <= room
        <5>1. i \in 1 .. room
          BY <1>1, <4>2
        <5>2. piece[i] = ByteIn(meta, p + i - 1)
          BY <1>3, <3>1, <5>1
        <5> QED
          BY <3>6, <3>7, <4>1, <4>2, <5>2
      <4>3. CASE ~(i <= room)
        <5>1. i - room \in 1 .. final - next /\ next + (i - room) - 1 = p + i - 1
          BY <1>1, <1>2, <1>5, <4>3
        <5>2. rest[i - room] = ByteIn(meta, p + i - 1)
          BY <5>1 DEF FileBytes
        <5> QED
          BY <3>6, <3>7, <4>1, <4>3, <5>2
      <4> QED
        BY <4>2, <4>3
    <3> QED
      BY <3>5, <3>6, <3>7, <3>8, SeqEqual
  <2> QED
    BY <1>1, <2>1, <2>2
<1> QED
  BY <1>5, <1>6 DEF next, piece

(***************************************************************************)
(* fuse_read puts its pieces together to the bytes from offset to final:   *)
(* the recursion has that solution, and by induction on what is left to    *)
(* read no other.                                                          *)
(***************************************************************************)
LEMMA ReadBufBytes ==
    ASSUME meta \in [Blocks -> MaybeData], NEW final \in Nat,
           NEW offset \in Nat, offset <= final,
           \A i \in offset .. final - 1 : i \div BlockSize \in Blocks
    PROVE  ReadBuf(offset, final) = FileBytes(offset, final)
<1> DEFINE dom == offset .. final + BlockSize
           next(p) == (p \div BlockSize + 1) * BlockSize
           Is(g) == g = [p \in dom |-> IF p < final THEN ReadPiece(p, final) \o g[next(p)] ELSE <<>>]
           want == [p \in dom |-> FileBytes(p, final)]
<1>1. ReadBuf(offset, final) = (CHOOSE g : Is(g))[offset]
  BY DEF ReadBuf
<1>2. ASSUME NEW p \in dom
      PROVE  /\ p < final => /\ next(p) \in dom /\ p < next(p)
                             /\ ReadPiece(p, final) \o FileBytes(next(p), final) = FileBytes(p, final)
             /\ ~(p < final) => FileBytes(p, final) = <<>>
  <2>1. p \in Nat /\ BlockSize \in Nat
    BY BlockFileAssumption
  <2>2. ASSUME p < final
        PROVE  /\ next(p) \in dom /\ p < next(p)
               /\ ReadPiece(p, final) \o FileBytes(next(p), final) = FileBytes(p, final)
    <3>1. \A i \in p .. final - 1 : i \div BlockSize \in Blocks
      BY <2>1
    <3>2. /\ next(p) \in Nat /\ p < next(p) /\ next(p) < final + BlockSize
          /\ ReadPiece(p, final) \o FileBytes(next(p), final) = FileBytes(p, final)
      BY <2>1, <2>2, <3>1, BytesSplit
    <3> HIDE DEF next
    <3> QED
      BY <2>1, <3>2
  <2>3. ASSUME ~(p < final)
        PROVE  FileBytes(p, final) = <<>>
    <3>1. 1 .. final - p = {}
      BY <2>1, <2>3
    <3>2. FileBytes(p, final) \in [1 .. 0 -> Bytes]
      BY <3>1 DEF FileBytes
    <3>3. FileBytes(p, final) \in Seq(Bytes) /\ Len(FileBytes(p, final)) = 0
      BY <3>2, IsSequence
    <3> QED
      BY <3>3, EmptySeq, SeqEqual
  <2> QED
    BY <2>2, <2>3
<1> HIDE DEF next
<1>3. Is(want)
  <2>1. \A p \in dom : FileBytes(p, final) = IF p < final THEN ReadPiece(p, final) \o want[next(p)] ELSE <<>>
    BY <1>2
  <2> QED
    BY <2>1
<1>4. BlockSize \in Nat /\ \A x \in dom : x \in Nat /\ x <= final + BlockSize
  BY BlockFileAssumption
<1>5. ASSUME NEW g, Is(g)
      PROVE  \A p \in dom : g[p] = FileBytes(p, final)
  <2> DEFINE bad == {k \in Nat : \E p \in dom : k = (final + BlockSize) - p /\ g[p] # FileBytes(p, final)}
  <2> SUFFICES ASSUME bad # {}
               PROVE  FALSE
    <3>1. \A p \in dom : (final + BlockSize) - p \in Nat
      BY BlockFileAssumption
    <3> QED
      BY <3>1
  <2>1. PICK k \in bad : \A m \in bad : k <= m
    <3>1. bad \in SUBSET Nat
      OBVIOUS
    <3> HIDE DEF bad
    <3> QED
      BY <3>1, LeastNatural
  <2>2. PICK p \in dom : k = (final + BlockSize) - p /\ g[p] # FileBytes(p, final)
    OBVIOUS
  <2>3. g[p] = IF p < final THEN ReadPiece(p, final) \o g[next(p)] ELSE <<>>
    BY <1>5
  <2>4. p < final /\ g[next(p)] # FileBytes(next(p), final)
    BY <1>2, <2>2, <2>3
  <2>5. next(p) \in dom /\ p < next(p)
    BY <1>2, <2>4
  <2>6. (final + BlockSize) - next(p) \in bad /\ (final + BlockSize) - next(p) < k
    <3>1. next(p) \in Nat /\ BlockSize \in Nat /\ p \in Nat /\ next(p) <= final + BlockSize
      BY <1>4, <2>5
    <3>2. (final + BlockSize) - next(p) \in Nat /\ (final + BlockSize) - next(p) < (final + BlockSize) - p
      BY <2>5, <3>1
    <3> QED
      BY <2>2, <2>4, <2>5, <3>2
  <2> HIDE DEF bad
  <2> QED
    <3>1. k <= (final + BlockSize) - next(p)
      BY <2>1, <2>6
    <3>2. k \in Int /\ (final + BlockSize) - next(p) \in Int
      <4>1. next(p) \in Nat /\ BlockSize \in Nat /\ p \in Nat
        BY <1>4, <2>5
      <4> QED
        BY <2>2, <4>1
    <3> QED
      BY <2>6, <3>1, <3>2
<1>6. Is(CHOOSE g : Is(g))
  <2> HIDE DEF Is
  <2> QED
    BY <1>3
<1>7. offset \in dom
  BY BlockFileAssumption
<1> HIDE DEF Is
<1> QED
  BY <1>1, <1>5, <1>6, <1>7

-----------------------------------------------------------------------------

\* The bytes of sequences put together, of parts of sequences, and of zeros.
LEMMA JoinedBytes ==
    ASSUME NEW s \in Seq(Bytes), NEW t \in Seq(Bytes)
    PROVE  /\ s \o t \in Seq(Bytes) /\ Len(s \o t) = Len(s) + Len(t)
           /\ \A k \in Nat : ByteOf(s \o t, k) = IF k < Len(s) THEN ByteOf(s, k)
                                                ELSE ByteOf(t, k - Len(s))
<1>1. /\ s \o t \in Seq(Bytes) /\ Len(s \o t) = Len(s) + Len(t)
      /\ \A i \in 1 .. Len(s) + Len(t) :
            (s \o t)[i] = IF i <= Len(s) THEN s[i] ELSE t[i - Len(s)]
  BY ConcatProperties
<1>2. s \o t # NoBlock /\ s # NoBlock /\ t # NoBlock
  BY <1>1, BlockFileAssumption
<1>3. Len(s) \in Nat /\ Len(t) \in Nat
  OBVIOUS
<1>4. ASSUME NEW k \in Nat
      PROVE  ByteOf(s \o t, k) = IF k < Len(s) THEN ByteOf(s, k) ELSE ByteOf(t, k - Len(s))
  <2>1. CASE k < Len(s)
    <3>1. k + 1 \in 1 .. Len(s) + Len(t) /\ k + 1 <= Len(s) /\ k < Len(s \o t)
      BY <1>1, <1>3, <2>1
    <3>2. (s \o t)[k + 1] = s[k + 1]
      BY <1>1, <3>1
    <3> QED
      BY <1>2, <2>1, <3>1, <3>2 DEF ByteOf
  <2>2. CASE ~(k < Len(s)) /\ k < Len(s) + Len(t)
    <3>1. /\ k + 1 \in 1 .. Len(s) + Len(t) /\ ~(k + 1 <= Len(s)) /\ k < Len(s \o t)
          /\ k - Len(s) < Len(t) /\ (k + 1) - Len(s) = (k - Len(s)) + 1
      BY <1>1, <1>3, <2>2
    <3>2. (s \o t)[k + 1] = t[(k - Len(s)) + 1]
      BY <1>1, <3>1
    <3> QED
      BY <1>2, <2>2, <3>1, <3>2 DEF ByteOf
  <2>3. CASE ~(k < Len(s) + Len(t))
    <3>1. ~(k < Len(s)) /\ ~(k < Len(s \o t)) /\ ~(k - Len(s) < Len(t))
      BY <1>1, <1>3, <2>3
    <3> QED
      BY <3>1 DEF ByteOf
  <2> QED
    BY <1>3, <2>1, <2>2, <2>3
<1> QED
  BY <1>1, <1>4

LEMMA PartBytes ==
    ASSUME NEW s \in Seq(Bytes), NEW a \in Nat, NEW c \in Nat, a <= c, c <= Len(s)
    PROVE  /\ SubSeq(s, a + 1, c) \in Seq(Bytes) /\ Len(SubSeq(s, a + 1, c)) = c - a
           /\ \A k \in Nat : k < c - a => ByteOf(SubSeq(s, a + 1, c), k) = ByteOf(s, a + k)
<1> DEFINE part == SubSeq(s, a + 1, c)
<1>1. a + 1 \in Int /\ c \in Int /\ \A i \in a + 1 .. c : s[i] \in Bytes
  BY ElementOfSeq
<1>2. /\ part \in Seq(Bytes) /\ Len(part) = IF a + 1 <= c THEN c - (a + 1) + 1 ELSE 0
      /\ \A i \in 1 .. c - (a + 1) + 1 : part[i] = s[(a + 1) + i - 1]
  BY <1>1, SubSeqProperties
<1> HIDE DEF part
<1>3. Len(part) = c - a
  BY <1>2
<1>4. part # NoBlock /\ s # NoBlock
  BY <1>2, BlockFileAssumption
<1>5. ASSUME NEW k \in Nat, k < c - a
      PROVE  ByteOf(part, k) = ByteOf(s, a + k)
  <2>1. k + 1 \in 1 .. c - (a + 1) + 1 /\ (a + 1) + (k + 1) - 1 = (a + k) + 1 /\ a + k < Len(s)
    BY <1>5
  <2>2. part[k + 1] = s[(a + k) + 1]
    BY <1>2, <2>1
  <2> QED
    BY <1>3, <1>4, <1>5, <2>1, <2>2 DEF ByteOf
<1> QED
  BY <1>2, <1>3, <1>5 DEF part

LEMMA ZeroBytes ==
    ASSUME NEW n \in Nat, NEW k \in Nat
    PROVE  ByteOf(Zeros(n), k) = Zero
<1>1. Len(Zeros(n)) = n /\ \A i \in 1 .. n : Zeros(n)[i] = Zero
  BY ZerosAreBytes
<1> QED
  BY <1>1 DEF ByteOf

\* A new block: its bytes are buf from offset at, and else those of the old one.
Overwritten(old, new, at, buf) ==
    /\ new \in Data
    /\ \A k \in 0 .. BlockSize - 1 :
          ByteOf(new, k) = IF at <= k /\ k < at + Len(buf) THEN ByteOf(buf, k - at)
                           ELSE ByteOf(old, k)

\* real_write merges what it has into the old block, whatever their lengths.
LEMMA MergedBytes ==
    ASSUME NEW old \in Data, NEW at \in 0 .. BlockSize - 1, NEW buf \in Seq(Bytes),
           1 <= Len(buf), at + Len(buf) <= BlockSize
    PROVE  Overwritten(old, Merged(old, at, buf), at, buf)
<1> DEFINE new == Merged(old, at, buf)
<1>1. /\ old \in Seq(Bytes) /\ Len(old) \in 1 .. BlockSize
      /\ BlockSize \in Nat /\ Len(buf) \in Nat /\ at \in Nat
  BY DataFacts, BlockFileAssumption
<1>2. CASE Len(old) <= at
  <2> DEFINE z == Zeros(at - Len(old))
             s == old \o z
  <2>1. at - Len(old) \in Nat
    BY <1>1, <1>2
  <2>2. z \in Seq(Bytes) /\ Len(z) = at - Len(old) /\ \A k \in Nat : ByteOf(z, k) = Zero
    BY <2>1, ZerosAreBytes, ZeroBytes
  <2>3. new = s \o buf
    BY <1>2 DEF Merged
  <2> HIDE DEF z, new
  <2>4. /\ s \in Seq(Bytes) /\ Len(s) = at
        /\ \A k \in Nat : ByteOf(s, k) = IF k < Len(old) THEN ByteOf(old, k) ELSE ByteOf(z, k - Len(old))
    BY <1>1, <2>2, JoinedBytes
  <2> HIDE DEF s
  <2>5. /\ new \in Seq(Bytes) /\ Len(new) = at + Len(buf)
        /\ \A k \in Nat : ByteOf(new, k) = IF k < at THEN ByteOf(s, k) ELSE ByteOf(buf, k - at)
    BY <2>3, <2>4, JoinedBytes
  <2>6. ASSUME NEW k \in 0 .. BlockSize - 1
        PROVE  ByteOf(new, k) = IF at <= k /\ k < at + Len(buf) THEN ByteOf(buf, k - at)
                                ELSE ByteOf(old, k)
    <3>1. k \in Nat
      OBVIOUS
    <3>2. CASE k < Len(old)
      BY <1>1, <1>2, <2>4, <2>5, <3>1, <3>2
    <3>3. CASE ~(k < Len(old)) /\ k < at
      <4>1. k - Len(old) \in Nat
        BY <1>1, <3>3
      <4>2. ByteOf(old, k) = Zero
        BY <3>3 DEF ByteOf
      <4> QED
        BY <1>1, <2>2, <2>4, <2>5, <3>1, <3>3, <4>1, <4>2
    <3>4. CASE at <= k /\ k < at + Len(buf)
      BY <1>1, <2>5, <3>1, <3>4
    <3>5. CASE ~(k < at + Len(buf))
      <4>1. ByteOf(new, k) = Zero
        BY <2>5, <3>5 DEF ByteOf
      <4>2. ~(k < Len(old))
        BY <1>1, <1>2, <3>5
      <4>3. ByteOf(old, k) = Zero
        BY <4>2 DEF ByteOf
      <4> QED
        BY <3>5, <4>1, <4>3
    <3> QED
      BY <1>1, <3>2, <3>3, <3>4, <3>5
  <2>7. new \in Data
    BY <1>1, <2>5 DEF Data
  <2> QED
    BY <2>6, <2>7 DEF Overwritten, new
<1>3. CASE ~(Len(old) <= at)
  <2> DEFINE s == SubSeq(old, 1, at)
             t == s \o buf
             end == at + Len(buf)
             rest == SubSeq(old, end + 1, Len(old))
  <2>1. /\ s \in Seq(Bytes) /\ Len(s) = at
        /\ \A k \in Nat : k < at => ByteOf(s, k) = ByteOf(old, k)
    <3>1. old \in Seq(Bytes) /\ 0 \in Nat /\ at \in Nat /\ 0 <= at /\ at <= Len(old)
      BY <1>1, <1>3
    <3>2. /\ SubSeq(old, 0 + 1, at) \in Seq(Bytes) /\ Len(SubSeq(old, 0 + 1, at)) = at - 0
          /\ \A k \in Nat : k < at - 0 => ByteOf(SubSeq(old, 0 + 1, at), k) = ByteOf(old, 0 + k)
      BY <3>1, PartBytes
    <3>3. 0 + 1 = 1 /\ at - 0 = at /\ \A k \in Nat : 0 + k = k
      OBVIOUS
    <3> QED
      BY <3>2, <3>3
  <2> HIDE DEF s
  <2>2. /\ t \in Seq(Bytes) /\ Len(t) = end
        /\ \A k \in Nat : ByteOf(t, k) = IF k < at THEN ByteOf(s, k) ELSE ByteOf(buf, k - at)
    BY <1>1, <2>1, JoinedBytes
  <2>3. CASE Len(old) > end
    <3>1. new = t \o rest
      BY <1>3, <2>3 DEF Merged, s
    <3>2. /\ rest \in Seq(Bytes) /\ Len(rest) = Len(old) - end
          /\ \A k \in Nat : k < Len(old) - end => ByteOf(rest, k) = ByteOf(old, end + k)
      <4>1. end \in Nat /\ Len(old) \in Nat /\ end <= Len(old) /\ Len(old) <= Len(old)
        BY <1>1, <2>3
      <4> HIDE DEF end
      <4> QED
        BY <1>1, <4>1, PartBytes
    <3> HIDE DEF t, rest, new
    <3>3. /\ new \in Seq(Bytes) /\ Len(new) = Len(t) + Len(rest)
          /\ \A k \in Nat : ByteOf(new, k) = IF k < Len(t) THEN ByteOf(t, k)
                                            ELSE ByteOf(rest, k - Len(t))
      BY <2>2, <3>1, <3>2, JoinedBytes
    <3>4. Len(t) = end /\ end \in Nat /\ Len(new) = Len(old)
      <4>1. end \in Nat
        BY <1>1 DEF end
      <4> QED
        BY <1>1, <2>2, <3>2, <3>3, <4>1
    <3>5. ASSUME NEW k \in 0 .. BlockSize - 1
          PROVE  ByteOf(new, k) = IF at <= k /\ k < at + Len(buf) THEN ByteOf(buf, k - at)
                                  ELSE ByteOf(old, k)
      <4>1. k \in Nat /\ end \in Nat
        BY <3>4
      <4>2. CASE k < end
        BY <1>1, <2>1, <2>2, <3>3, <3>4, <4>1, <4>2 DEF end
      <4>3. CASE ~(k < end) /\ k < Len(old)
        <5>1. k - end \in Nat /\ k - end < Len(old) - end /\ end + (k - end) = k
          BY <1>1, <4>1, <4>3
        <5>2. ByteOf(new, k) = ByteOf(old, k)
          BY <3>2, <3>3, <3>4, <4>1, <4>3, <5>1
        <5> QED
          BY <4>3, <5>2 DEF end
      <4>4. CASE ~(k < end) /\ ~(k < Len(old))
        BY <3>4, <4>4 DEF ByteOf, end
      <4> QED
        BY <4>2, <4>3, <4>4
    <3>6. new \in Data
      BY <1>1, <3>3, <3>4 DEF Data
    <3> QED
      BY <3>5, <3>6 DEF Overwritten, new
  <2>4. CASE ~(Len(old) > end)
    <3>1. new = t
      BY <1>3, <2>4 DEF Merged, s
    <3>2. ASSUME NEW k \in 0 .. BlockSize - 1
          PROVE  ByteOf(new, k) = IF at <= k /\ k < at + Len(buf) THEN ByteOf(buf, k - at)
                                  ELSE ByteOf(old, k)
      <4>1. k \in Nat /\ end \in Nat
        BY <1>1
      <4> HIDE DEF t, new
      <4>2. CASE k < end
        BY <1>1, <2>1, <2>2, <3>1, <4>1, <4>2
      <4>3. CASE ~(k < end)
        <5>1. ~(k < Len(t)) /\ ~(k < Len(old))
          BY <1>1, <2>2, <2>4, <4>1, <4>3
        <5> QED
          BY <3>1, <4>3, <5>1 DEF ByteOf
      <4> QED
        BY <4>2, <4>3
    <3>3. new \in Data
      <4> HIDE DEF t, new
      <4> QED
        BY <1>1, <2>2, <3>1 DEF Data
    <3> QED
      BY <3>2, <3>3 DEF Overwritten, new
  <2> QED
    BY <2>3, <2>4
<1> QED
  BY <1>2, <1>3

\* A block that was not there before begins with zeros.
LEMMA NewBlockBytes ==
    ASSUME NEW at \in 0 .. BlockSize - 1, NEW buf \in Seq(Bytes),
           1 <= Len(buf), at + Len(buf) <= BlockSize
    PROVE  Overwritten(NoBlock, Zeros(at) \o buf, at, buf)
<1> DEFINE new == Zeros(at) \o buf
<1>1. at \in Nat /\ BlockSize \in Nat /\ Len(buf) \in Nat
  BY BlockFileAssumption
<1>2. Zeros(at) \in Seq(Bytes) /\ Len(Zeros(at)) = at /\ \A k \in Nat : ByteOf(Zeros(at), k) = Zero
  BY <1>1, ZerosAreBytes, ZeroBytes
<1>3. /\ new \in Seq(Bytes) /\ Len(new) = at + Len(buf)
      /\ \A k \in Nat : ByteOf(new, k) = IF k < at THEN ByteOf(Zeros(at), k) ELSE ByteOf(buf, k - at)
  <2>1. /\ new \in Seq(Bytes) /\ Len(new) = Len(Zeros(at)) + Len(buf)
        /\ \A k \in Nat : ByteOf(new, k) = IF k < Len(Zeros(at)) THEN ByteOf(Zeros(at), k)
                                          ELSE ByteOf(buf, k - Len(Zeros(at)))
    <3>1. Zeros(at) \in Seq(Bytes)
      BY <1>2
    <3> QED
      BY <3>1, JoinedBytes
  <2> QED
    BY <1>2, <2>1
<1> HIDE DEF new
<1>4. \A k : ByteOf(NoBlock, k) = Zero
  BY DEF ByteOf
<1>5. ASSUME NEW k \in 0 .. BlockSize - 1
      PROVE  ByteOf(new, k) = IF at <= k /\ k < at + Len(buf) THEN ByteOf(buf, k - at)
                              ELSE ByteOf(NoBlock, k)
  <2>1. k \in Nat
    OBVIOUS
  <2>2. CASE k < at + Len(buf)
    BY <1>1, <1>2, <1>3, <1>4, <2>1, <2>2
  <2>3. CASE ~(k < at + Len(buf))
    BY <1>3, <1>4, <2>3 DEF ByteOf
  <2> QED
    BY <2>2, <2>3
<1>6. new \in Data
  BY <1>1, <1>3 DEF Data
<1> QED
  BY <1>5, <1>6 DEF Overwritten, new

-----------------------------------------------------------------------------

\* The positions of the file are those of its blocks.
LEMMA PositionsAreBlocks ==
    \A i : i \in FilePositions <=> i \in Nat /\ i \div BlockSize \in Blocks
<1>1. ASSUME NEW i \in FilePositions
      PROVE  i \in Nat /\ i \div BlockSize \in Blocks
  <2>1. PICK b \in Blocks : i \in b * BlockSize .. (b + 1) * BlockSize - 1
    BY DEF FilePositions
  <2>2. b \in Nat /\ BlockSize \in Nat /\ (b + 1) * BlockSize = BlockSize * b + BlockSize
        /\ b * BlockSize = BlockSize * b /\ BlockSize * b \in Nat
    BY BlockFileAssumption
  <2>3. i - BlockSize * b \in 0 .. BlockSize - 1 /\ i = BlockSize * b + (i - BlockSize * b)
    BY <2>1, <2>2
  <2>4. i \div BlockSize = b
    BY <2>2, <2>3, DivUnique
  <2> QED
    BY <2>1, <2>2, <2>4
<1>2. ASSUME NEW i \in Nat, i \div BlockSize \in Blocks
      PROVE  i \in FilePositions
  <2> DEFINE b == i \div BlockSize
             k == i % BlockSize
  <2>1. b \in Nat /\ k \in 0 .. BlockSize - 1 /\ i = BlockSize * b + k
    BY DivMod
  <2>2. b \in Blocks
    BY <1>2
  <2> HIDE DEF b, k
  <2>3. /\ BlockSize \in Nat /\ (b + 1) * BlockSize = BlockSize * b + BlockSize
        /\ b * BlockSize = BlockSize * b /\ BlockSize * b \in Nat
    BY <2>1, BlockFileAssumption
  <2>4. i \in b * BlockSize .. (b + 1) * BlockSize - 1
    BY <2>1, <2>3
  <2> QED
    BY <2>2, <2>4 DEF FilePositions
<1> QED
  BY <1>1, <1>2

-----------------------------------------------------------------------------

FileOK(f) ==
    /\ DOMAIN f = Fields
    /\ f.size \in Nat
    /\ f.meta \in [Blocks -> MaybeData]
    /\ f.memory \subseteq Data /\ f.disk \subseteq Data /\ f.puts \subseteq Data
    /\ f.wait \in MaybeData

(***************************************************************************)
(* The file g is f with data written at offset off; beyond its end there   *)
(* may be zeros instead of what was there (ByteFile's Patch).              *)
(***************************************************************************)
Patched(f, g, off, data) ==
    /\ g.size = Larger(f.size, off + Len(data))
    /\ \A i \in FilePositions :
          IF off <= i /\ i < off + Len(data) THEN ByteIn(g.meta, i) = data[i - off + 1]
          ELSE \/ ByteIn(g.meta, i) = ByteIn(f.meta, i)
               \/ i >= g.size /\ ByteIn(g.meta, i) = Zero

LEMMA PutBlockFields ==
    ASSUME NEW f, FileOK(f), NEW b \in Blocks, NEW data \in Data
    PROVE  LET p == PutBlock(f, b, data)
           IN  /\ DOMAIN p = Fields
               /\ p.size = f.size /\ p.wait = f.wait
               /\ p.meta = [f.meta EXCEPT ![b] = data]
               /\ p.memory = f.memory \cup {data}
               /\ p.disk \subseteq f.disk \cup {data}
               /\ p.puts \subseteq f.puts \cup {data}
<1>1. CASE data \in f.memory \cup f.disk
  BY <1>1 DEF PutBlock, FileOK, Fields
<1>2. CASE data \notin f.memory \cup f.disk
  <2>1. CASE cache_data
    BY <1>2, <2>1 DEF PutBlock, FileOK, Fields
  <2>2. CASE ~cache_data
    BY <1>2, <2>2 DEF PutBlock, FileOK, Fields
  <2> QED
    BY <2>1, <2>2
<1> QED
  BY <1>1, <1>2

LEMMA PutBlockOK ==
    ASSUME NEW f, FileOK(f), NEW b \in Blocks, NEW data \in Data, NEW n \in Nat
    PROVE  LET g == [PutBlock(f, b, data) EXCEPT !.size = n]
           IN  /\ FileOK(g) /\ g.size = n /\ g.wait = f.wait
               /\ g.meta = [f.meta EXCEPT ![b] = data]
<1> DEFINE p == PutBlock(f, b, data)
           g == [p EXCEPT !.size = n]
<1>1. /\ DOMAIN p = Fields
      /\ p.size = f.size /\ p.wait = f.wait
      /\ p.meta = [f.meta EXCEPT ![b] = data]
      /\ p.memory = f.memory \cup {data}
      /\ p.disk \subseteq f.disk \cup {data}
      /\ p.puts \subseteq f.puts \cup {data}
  BY PutBlockFields
<1> HIDE DEF p
<1>2. /\ DOMAIN g = Fields
      /\ g.size = n /\ g.wait = p.wait /\ g.meta = p.meta
      /\ g.memory = p.memory /\ g.disk = p.disk /\ g.puts = p.puts
  BY <1>1 DEF Fields
<1> HIDE DEF g
<1>3. g.meta \in [Blocks -> MaybeData]
  BY <1>1, <1>2 DEF FileOK, MaybeData
<1>4. FileOK(g)
  BY <1>1, <1>2, <1>3 DEF FileOK
<1> QED
  BY <1>1, <1>2, <1>4 DEF g, p

\* Writing into one block patches the file.
LEMMA BlockPatches ==
    ASSUME NEW f, FileOK(f), NEW g, NEW off \in Nat, NEW buf \in Seq(Bytes), NEW new,
           off \div BlockSize \in Blocks, (off % BlockSize) + Len(buf) <= BlockSize,
           g.meta = [f.meta EXCEPT ![off \div BlockSize] = new],
           g.size = Larger(f.size, off + Len(buf)),
           \A k \in 0 .. BlockSize - 1 :
              IF off % BlockSize <= k /\ k < (off % BlockSize) + Len(buf)
              THEN ByteOf(new, k) = ByteOf(buf, k - (off % BlockSize))
              ELSE \/ ByteOf(new, k) = ByteOf(f.meta[off \div BlockSize], k)
                   \/ /\ BlockSize * (off \div BlockSize) + k >= g.size
                      /\ ByteOf(new, k) = Zero
    PROVE  Patched(f, g, off, buf)
<1> DEFINE b == off \div BlockSize
           at == off % BlockSize
<1>1. b \in Nat /\ at \in 0 .. BlockSize - 1 /\ off = BlockSize * b + at /\ BlockSize * b \in Nat
  <2>1. b \in Nat /\ at \in 0 .. BlockSize - 1 /\ off = BlockSize * b + at
    BY DivMod
  <2> HIDE DEF b, at
  <2> QED
    BY <2>1, BlockFileAssumption
<1>2. BlockSize \in Nat /\ Len(buf) \in Nat /\ at + Len(buf) <= BlockSize
  BY BlockFileAssumption
<1>3. g.meta = [f.meta EXCEPT ![b] = new] /\ f.meta \in [Blocks -> MaybeData] /\ b \in Blocks
  BY DEF FileOK
<1>4. \A k \in 0 .. BlockSize - 1 :
         IF at <= k /\ k < at + Len(buf) THEN ByteOf(new, k) = ByteOf(buf, k - at)
         ELSE \/ ByteOf(new, k) = ByteOf(f.meta[b], k)
              \/ BlockSize * b + k >= g.size /\ ByteOf(new, k) = Zero
  OBVIOUS
<1>5. \A i \in Nat : off <= i /\ i < off + Len(buf) => i \div BlockSize = b /\ i % BlockSize = at + (i - off)
  <2> SUFFICES ASSUME NEW i \in Nat, off <= i, i < off + Len(buf)
               PROVE  i \div BlockSize = b /\ i % BlockSize = at + (i - off)
    OBVIOUS
  <2> HIDE DEF b, at
  <2>1. i - off \in Int /\ 0 <= at + (i - off) /\ at + (i - off) < BlockSize /\ off + (i - off) = i
    BY <1>1, <1>2
  <2> QED
    BY <2>1, SameBlock DEF b, at
<1> HIDE DEF b, at
<1>6. ASSUME NEW i \in FilePositions
      PROVE  IF off <= i /\ i < off + Len(buf) THEN ByteIn(g.meta, i) = buf[i - off + 1]
             ELSE \/ ByteIn(g.meta, i) = ByteIn(f.meta, i)
                  \/ i >= g.size /\ ByteIn(g.meta, i) = Zero
  <2> DEFINE c == i \div BlockSize
             k == i % BlockSize
  <2>1. c \in Blocks /\ i \in Nat /\ k \in 0 .. BlockSize - 1 /\ i = BlockSize * c + k
    BY PositionsAreBlocks, DivMod
  <2>2. ByteIn(g.meta, i) = ByteOf(g.meta[c], k) /\ ByteIn(f.meta, i) = ByteOf(f.meta[c], k)
    BY DEF ByteIn
  <2>3. off <= i /\ i < off + Len(buf) => c = b /\ k = at + (i - off)
    BY <1>5, <2>1
  <2> HIDE DEF c, k
  <2>4. CASE c # b
    BY <1>3, <2>1, <2>2, <2>3, <2>4
  <2>5. CASE c = b
    <3>1. g.meta[c] = new
      BY <1>3, <2>5
    <3>2. off <= i /\ i < off + Len(buf) <=> at <= k /\ k < at + Len(buf)
      BY <1>1, <1>2, <2>1, <2>5
    <3>3. CASE off <= i /\ i < off + Len(buf)
      <4>1. k - at = i - off /\ i - off < Len(buf)
        BY <1>1, <1>2, <2>1, <2>5, <3>3
      <4>2. ByteOf(new, k) = ByteOf(buf, i - off)
        BY <1>4, <2>1, <3>2, <3>3, <4>1
      <4>3. ByteOf(buf, i - off) = buf[i - off + 1]
        BY <4>1, BlockFileAssumption DEF ByteOf
      <4> QED
        BY <2>2, <3>1, <3>3, <4>2, <4>3
    <3>4. CASE ~(off <= i /\ i < off + Len(buf))
      <4>1. \/ ByteOf(new, k) = ByteOf(f.meta[b], k)
            \/ BlockSize * b + k >= g.size /\ ByteOf(new, k) = Zero
        BY <1>4, <2>1, <3>2, <3>4
      <4> QED
        BY <2>1, <2>2, <2>5, <3>1, <3>4, <4>1
    <3> QED
      BY <3>3, <3>4
  <2> QED
    BY <2>4, <2>5
<1> QED
  BY <1>6 DEF Patched

\* real_write patches the file, or changes nothing and waits.
LEMMA RealWritePatches ==
    ASSUME NEW f, FileOK(f), f.wait = NoBlock, NEW off \in Nat, NEW buf \in Seq(Bytes),
           1 <= Len(buf), (off % BlockSize) + Len(buf) <= BlockSize, off \div BlockSize \in Blocks
    PROVE  LET g == RealWrite(f, off, buf)
           IN  /\ FileOK(g)
               /\ \/ g.wait = NoBlock /\ Patched(f, g, off, buf)
                  \/ g.wait # NoBlock /\ g.size = f.size /\ g.meta = f.meta
<1> DEFINE b == off \div BlockSize
           at == off % BlockSize
           end == off + Len(buf)
           g == RealWrite(f, off, buf)
           old == f.meta[b]
           Put(new) == [PutBlock(f, b, new) EXCEPT !.size = Larger(f.size, end)]
           Result == /\ FileOK(g)
                     /\ \/ g.wait = NoBlock /\ Patched(f, g, off, buf)
                        \/ g.wait # NoBlock /\ g.size = f.size /\ g.meta = f.meta
<1> SUFFICES Result
  OBVIOUS
<1>1. at \in 0 .. BlockSize - 1 /\ b \in Blocks /\ off = BlockSize * b + at /\ b \in Nat
  BY DivMod
<1>2. BlockSize \in Nat /\ Len(buf) \in Nat /\ at + Len(buf) <= BlockSize
  BY BlockFileAssumption
<1>3. f.meta \in [Blocks -> MaybeData] /\ f.size \in Nat /\ old \in MaybeData
  BY <1>1 DEF FileOK
<1>4. ASSUME NEW new \in Data, g = Put(new),
             \A k \in 0 .. BlockSize - 1 :
                IF at <= k /\ k < at + Len(buf) THEN ByteOf(new, k) = ByteOf(buf, k - at)
                ELSE \/ ByteOf(new, k) = ByteOf(old, k)
                     \/ BlockSize * b + k >= Larger(f.size, end) /\ ByteOf(new, k) = Zero
      PROVE  Result
  <2>1. Larger(f.size, end) \in Nat
    BY <1>2, <1>3 DEF Larger
  <2>2. /\ FileOK(g) /\ g.size = Larger(f.size, end) /\ g.wait = f.wait
        /\ g.meta = [f.meta EXCEPT ![b] = new]
    <3> HIDE DEF g, b, end
    <3> QED
      BY <1>1, <1>4, <2>1, PutBlockOK
  <2> HIDE DEF g
  <2>3. Patched(f, g, off, buf)
    <3>1. /\ g.meta = [f.meta EXCEPT ![off \div BlockSize] = new]
          /\ g.size = Larger(f.size, off + Len(buf))
      BY <2>2
    <3>2. off \div BlockSize \in Blocks /\ (off % BlockSize) + Len(buf) <= BlockSize
      BY <1>1
    <3>3. \A k \in 0 .. BlockSize - 1 :
              IF off % BlockSize <= k /\ k < (off % BlockSize) + Len(buf)
              THEN ByteOf(new, k) = ByteOf(buf, k - (off % BlockSize))
              ELSE \/ ByteOf(new, k) = ByteOf(f.meta[off \div BlockSize], k)
                   \/ /\ BlockSize * (off \div BlockSize) + k >= g.size
                      /\ ByteOf(new, k) = Zero
      BY <1>4, <3>1
    <3> QED
      BY <3>1, <3>2, <3>3, BlockPatches
  <2> QED
    BY <2>2, <2>3
<1>5. ASSUME NEW new, Overwritten(old, new, at, buf),
             g = Put(new)
      PROVE  Result
  <2>1. new \in Data
    BY <1>5 DEF Overwritten
  <2>2. ASSUME NEW k \in 0 .. BlockSize - 1
        PROVE  IF at <= k /\ k < at + Len(buf) THEN ByteOf(new, k) = ByteOf(buf, k - at)
               ELSE \/ ByteOf(new, k) = ByteOf(old, k)
                    \/ BlockSize * b + k >= Larger(f.size, end) /\ ByteOf(new, k) = Zero
    <3> HIDE DEF at, b, old, end
    <3> QED
      BY <1>5 DEF Overwritten
  <2> QED
    BY <1>4, <1>5, <2>1, <2>2
<1>6. ASSUME NEW new \in Data
      PROVE  PutBlock(f, b, new).size = f.size
  <2> DEFINE p == PutBlock(f, b, new)
  <2>1. /\ DOMAIN p = Fields
        /\ p.size = f.size /\ p.wait = f.wait
        /\ p.meta = [f.meta EXCEPT ![b] = new]
        /\ p.memory = f.memory \cup {new}
        /\ p.disk \subseteq f.disk \cup {new}
        /\ p.puts \subseteq f.puts \cup {new}
    <3> HIDE DEF b
    <3> QED
      BY <1>1, PutBlockFields
  <2> QED
    BY <2>1
<1>7. buf \in Data
  BY <1>1, <1>2 DEF Data
<1>8. CASE at = 0 /\ Len(buf) = BlockSize
  <2>1. g = Put(buf)
    BY <1>6, <1>7, <1>8 DEF RealWrite
  <2>2. ASSUME NEW k \in 0 .. BlockSize - 1
        PROVE  at <= k /\ k < at + Len(buf) /\ ByteOf(buf, k) = ByteOf(buf, k - at)
    <3>1. at <= k /\ k < at + Len(buf) /\ k - at = k
      BY <1>8
    <3> QED
      BY <3>1
  <2> HIDE DEF Result, g, at, b, old, end, Put
  <2> QED
    BY <1>4, <1>7, <2>1, <2>2
<1>9. CASE at = 0 /\ Len(buf) # BlockSize /\ end >= f.size
  <2>1. end = Larger(f.size, end) /\ end = BlockSize * b + Len(buf)
    <3>1. at = 0 /\ end >= f.size /\ BlockSize * b \in Nat /\ end = off + Len(buf)
      <4> HIDE DEF at, b
      <4> QED
        BY <1>1, <1>2, <1>9
    <3>2. off = BlockSize * b
      <4> HIDE DEF at, b
      <4> QED
        BY <1>1, <3>1
    <3>3. end \in Nat
      BY <1>2
    <3> HIDE DEF at, b, end
    <3> QED
      BY <1>3, <3>1, <3>2, <3>3 DEF Larger
  <2>2. g = Put(buf)
    <3>1. g = [PutBlock(f, b, buf) EXCEPT !.size = end]
      BY <1>9 DEF RealWrite
    <3> HIDE DEF g, end
    <3> QED
      BY <2>1, <3>1
  <2>3. ASSUME NEW k \in 0 .. BlockSize - 1
        PROVE  IF at <= k /\ k < at + Len(buf) THEN ByteOf(buf, k) = ByteOf(buf, k - at)
               ELSE BlockSize * b + k >= Larger(f.size, end) /\ ByteOf(buf, k) = Zero
    <3> HIDE DEF at, b, end
    <3>1. k - at = k /\ at <= k /\ at + Len(buf) = Len(buf) /\ k \in Nat
      BY <1>2, <1>9
    <3>2. CASE k < Len(buf)
      BY <3>1, <3>2
    <3>3. CASE ~(k < Len(buf))
      <4>1. ByteOf(buf, k) = Zero
        BY <3>3 DEF ByteOf
      <4>2. BlockSize * b \in Nat
        BY <1>1, <1>2
      <4>3. BlockSize * b + k >= end
        BY <1>2, <2>1, <3>1, <3>3, <4>2
      <4> QED
        BY <2>1, <3>1, <3>3, <4>1, <4>3
    <3> QED
      BY <3>2, <3>3
  <2> HIDE DEF Result, g, at, b, old, end, Put
  <2> QED
    BY <1>4, <1>7, <2>2, <2>3
<1>10. ASSUME ~(at = 0 /\ Len(buf) = BlockSize), ~(at = 0 /\ end >= f.size)
       PROVE  Result
  <2>1. CASE old # NoBlock /\ old \notin f.memory \cup f.disk
    <3>1. g = [f EXCEPT !.wait = old]
      BY <1>10, <2>1 DEF RealWrite
    <3> HIDE DEF g, old
    <3>2. /\ DOMAIN g = Fields
          /\ g.size = f.size /\ g.meta = f.meta /\ g.memory = f.memory
          /\ g.disk = f.disk /\ g.puts = f.puts /\ g.wait = old
      BY <3>1 DEF FileOK, Fields
    <3> QED
      BY <1>3, <2>1, <3>2 DEF FileOK
  <2>2. CASE old # NoBlock /\ old \in f.memory \cup f.disk
    <3>1. Overwritten(old, Merged(old, at, buf), at, buf)
      <4>1. old \in Data
        BY <1>3, <2>2 DEF MaybeData
      <4> HIDE DEF old, at
      <4> QED
        BY <1>1, <1>2, <4>1, MergedBytes
    <3>2. Merged(old, at, buf) \in Data
      BY <3>1 DEF Overwritten
    <3>3. g = [PutBlock(f, b, Merged(old, at, buf)) EXCEPT
                  !.size = Larger(PutBlock(f, b, Merged(old, at, buf)).size, end)]
      BY <1>10, <2>2 DEF RealWrite
    <3>4. g = Put(Merged(old, at, buf))
      <4> HIDE DEF g, old, at, b, end
      <4> QED
        BY <1>6, <3>2, <3>3
    <3> HIDE DEF Result, g, old, at, b, end, Put
    <3> QED
      BY <1>5, <3>1, <3>4
  <2>3. CASE old = NoBlock
    <3>1. Overwritten(old, Zeros(at) \o buf, at, buf)
      <4>1. Overwritten(NoBlock, Zeros(at) \o buf, at, buf)
        <5> HIDE DEF at
        <5> QED
          BY <1>1, <1>2, NewBlockBytes
      <4> QED
        BY <2>3, <4>1
    <3>2. Zeros(at) \o buf \in Data
      BY <3>1 DEF Overwritten
    <3>3. g = [PutBlock(f, b, Zeros(at) \o buf) EXCEPT
                  !.size = Larger(PutBlock(f, b, Zeros(at) \o buf).size, end)]
      BY <1>10, <2>3 DEF RealWrite
    <3>4. g = Put(Zeros(at) \o buf)
      <4> HIDE DEF g, old, at, b, end
      <4> QED
        BY <1>6, <3>2, <3>3
    <3> HIDE DEF Result, g, old, at, b, end, Put
    <3> QED
      BY <1>5, <3>1, <3>4
  <2> QED
    BY <2>1, <2>2, <2>3
<1> HIDE DEF Result, at, end, g, b, old, Put
<1> QED
  BY <1>8, <1>9, <1>10

-----------------------------------------------------------------------------

\* Two patches, one after the other, are one.
LEMMA PatchesCompose ==
    ASSUME NEW f, NEW g, NEW h, f.size \in Nat, NEW off \in Nat,
           NEW s \in Seq(Bytes), NEW t \in Seq(Bytes),
           Patched(f, g, off, s), Patched(g, h, off + Len(s), t)
    PROVE  Patched(f, h, off, s \o t)
<1> DEFINE n == Len(s)
           m == Len(t)
<1>1. n \in Nat /\ m \in Nat /\ Len(s \o t) = n + m
  BY ConcatProperties
<1>2. \A k \in 1 .. n + m : (s \o t)[k] = IF k <= n THEN s[k] ELSE t[k - n]
  BY ConcatProperties
<1>3. g.size = Larger(f.size, off + n) /\ h.size = Larger(g.size, (off + n) + m)
  BY DEF Patched
<1>4. ASSUME NEW i \in FilePositions
      PROVE  /\ IF off <= i /\ i < off + n THEN ByteIn(g.meta, i) = s[i - off + 1]
                ELSE \/ ByteIn(g.meta, i) = ByteIn(f.meta, i)
                     \/ i >= g.size /\ ByteIn(g.meta, i) = Zero
             /\ IF off + n <= i /\ i < (off + n) + m
                THEN ByteIn(h.meta, i) = t[i - (off + n) + 1]
                ELSE \/ ByteIn(h.meta, i) = ByteIn(g.meta, i)
                     \/ i >= h.size /\ ByteIn(h.meta, i) = Zero
  BY DEF Patched
<1> HIDE DEF n, m
<1>5. /\ g.size \in Nat /\ h.size \in Nat
      /\ off + n <= g.size /\ off + (n + m) <= h.size /\ g.size <= h.size
      /\ h.size = Larger(f.size, off + (n + m))
      /\ \A i \in Nat : i >= g.size /\ off + (n + m) <= i => i >= h.size
  BY <1>1, <1>3 DEF Larger
<1>6. ASSUME NEW i \in FilePositions
      PROVE  IF off <= i /\ i < off + (n + m) THEN ByteIn(h.meta, i) = (s \o t)[i - off + 1]
             ELSE \/ ByteIn(h.meta, i) = ByteIn(f.meta, i)
                  \/ i >= h.size /\ ByteIn(h.meta, i) = Zero
  <2>1. i \in Nat
    BY PositionsAreBlocks
  <2>2. CASE off <= i /\ i < off + n
    <3>1. /\ ByteIn(h.meta, i) = ByteIn(g.meta, i)
          /\ ByteIn(g.meta, i) = s[i - off + 1]
      BY <1>1, <1>4, <1>5, <2>1, <2>2
    <3>2. i - off + 1 \in 1 .. n + m /\ i - off + 1 <= n /\ i < off + (n + m)
      BY <1>1, <2>1, <2>2
    <3> QED
      BY <1>2, <2>2, <3>1, <3>2
  <2>3. CASE off + n <= i /\ i < off + (n + m)
    <3>1. ByteIn(h.meta, i) = t[i - (off + n) + 1]
      BY <1>1, <1>4, <2>1, <2>3
    <3>2. /\ i - off + 1 \in 1 .. n + m /\ ~(i - off + 1 <= n) /\ off <= i
          /\ i - (off + n) + 1 = (i - off + 1) - n
      BY <1>1, <2>1, <2>3
    <3> QED
      BY <1>2, <2>3, <3>1, <3>2
  <2>4. CASE ~(off <= i /\ i < off + (n + m))
    <3>1. ~(off <= i /\ i < off + n) /\ ~(off + n <= i /\ i < (off + n) + m)
      BY <1>1, <2>1, <2>4
    <3>2. i >= g.size => i >= h.size
      BY <1>1, <1>5, <2>1, <2>4
    <3>3. /\ \/ ByteIn(g.meta, i) = ByteIn(f.meta, i)
             \/ i >= g.size /\ ByteIn(g.meta, i) = Zero
          /\ \/ ByteIn(h.meta, i) = ByteIn(g.meta, i)
             \/ i >= h.size /\ ByteIn(h.meta, i) = Zero
      BY <1>4, <3>1
    <3> QED
      BY <2>4, <3>2, <3>3
  <2> QED
    BY <1>1, <2>1, <2>2, <2>3, <2>4
<1> QED
  BY <1>1, <1>5, <1>6 DEF Patched

\* The pieces of a write lie within one block each.
LEMMA PiecesInBlocks ==
    ASSUME NEW off \in Nat, NEW len \in 1 .. BlockSize
    PROVE  LET n == FirstLen(off, len)
           IN  /\ n \in 1 .. len
               /\ (off % BlockSize) + n <= BlockSize
               /\ n # len => ((off + n) % BlockSize) + (len - n) <= BlockSize
<1> DEFINE n == FirstLen(off, len)
           at == off % BlockSize
           b == off \div BlockSize
<1>1. b \in Nat /\ at \in 0 .. BlockSize - 1 /\ off = BlockSize * b + at
  BY DivMod
<1>2. n = IF at # 0 /\ len >= BlockSize - at THEN BlockSize - at ELSE len
  BY DEF FirstLen
<1>3. n \in 1 .. len
  BY FirstLenInRange
<1> HIDE DEF n, at, b
<1>4. BlockSize \in Nat \ {0} /\ BlockSize * b \in Nat
      /\ BlockSize * (b + 1) = BlockSize * b + BlockSize
  BY <1>1, BlockFileAssumption
<1>5. at + n <= BlockSize
  BY <1>1, <1>2, <1>4
<1>6. ASSUME n # len
      PROVE  ((off + n) % BlockSize) + (len - n) <= BlockSize
  <2>1. off + n = BlockSize * (b + 1) + 0
    BY <1>1, <1>2, <1>4, <1>6
  <2>2. 0 \in 0 .. BlockSize - 1 /\ b + 1 \in Nat
    BY <1>1, <1>4
  <2>3. (off + n) % BlockSize = 0
    BY <2>1, <2>2, DivUnique
  <2> QED
    BY <1>3, <1>4, <2>3
<1> QED
  BY <1>3, <1>5, <1>6 DEF n, at

\* What fuse_write has written when it returns, to wait or to answer.
WrittenSoFar(f, q) ==
    \/ f.wait # NoBlock /\ f.size = size /\ f.meta = meta
    \/ \E k \in 1 .. Len(q.data) :
          /\ Patched(Current, f, q.off, SubSeq(q.data, 1, k))
          /\ f.wait = NoBlock => k = Len(q.data)

LEMMA WrittenPatches ==
    ASSUME FileOK(Current), NEW q \in Queries, q.op = "write"
    PROVE  /\ FileOK(Written(q.off, q.data))
           /\ WrittenSoFar(Written(q.off, q.data), q)
<1> DEFINE off == q.off
           data == q.data
           len == Len(data)
           n == FirstLen(off, len)
           first == SubSeq(data, 1, n)
           rest == SubSeq(data, n + 1, len)
           f == RealWrite(Current, off, first)
           g == RealWrite(f, off + n, rest)
           w == Written(off, data)
<1>1. off \in Nat /\ data \in Seq(Bytes) /\ len \in 1 .. BlockSize
  BY BlockFileAssumption
<1>2. \A i \in off .. off + len - 1 : i \div BlockSize \in Blocks
  BY BlockFileAssumption
<1>3. w = IF f.wait # NoBlock \/ n = len THEN f ELSE g
  BY DEF Written
<1>4. Current.wait = NoBlock /\ Current.size = size /\ Current.meta = meta
  BY DEF Current
<1> HIDE DEF off, data, f, g, w
<1>5. /\ n \in 1 .. len /\ (off % BlockSize) + n <= BlockSize
      /\ n # len => ((off + n) % BlockSize) + (len - n) <= BlockSize
  <2> HIDE DEF len
  <2> QED
    BY <1>1, PiecesInBlocks
<1> HIDE DEF n
<1>6. len = Len(data) /\ len \in Nat
  BY <1>1, BlockFileAssumption
<1>7. /\ first \in Seq(Bytes) /\ Len(first) = n
      /\ rest \in Seq(Bytes) /\ Len(rest) = len - n
      /\ first \o rest = data
  <2> HIDE DEF len
  <2>1. \A i \in 1 .. len : data[i] \in Bytes
    BY <1>1, <1>6
  <2>2. \A i \in 1 .. n : data[i] \in Bytes
    BY <1>5, <1>6, <2>1
  <2>3. \A i \in n + 1 .. len : data[i] \in Bytes
    BY <1>5, <1>6, <2>1
  <2>4. 1 \in Int /\ n \in Int /\ n + 1 \in Int /\ len \in Int
    BY <1>5, <1>6
  <2>5. first \in Seq(Bytes) /\ Len(first) = IF 1 <= n THEN n - 1 + 1 ELSE 0
    BY <2>2, <2>4, SubSeqProperties
  <2>6. rest \in Seq(Bytes) /\ Len(rest) = IF n + 1 <= len THEN len - (n + 1) + 1 ELSE 0
    BY <2>3, <2>4, SubSeqProperties
  <2>7. first \o rest = SubSeq(data, 1, len)
    <3>1. 1 \in 1 .. Len(data) + 1 /\ n \in 1 - 1 .. Len(data) /\ len \in n .. Len(data)
      BY <1>5, <1>6
    <3> QED
      BY <1>1, <3>1, ConcatAdjacentSubSeq
  <2>8. SubSeq(data, 1, len) = data
    BY <1>1, <1>6, SubSeqFull
  <2> QED
    BY <1>5, <1>6, <2>5, <2>6, <2>7, <2>8
<1> HIDE DEF first, rest, len
<1>8. /\ FileOK(f)
      /\ \/ f.wait = NoBlock /\ Patched(Current, f, off, first)
         \/ f.wait # NoBlock /\ f.size = size /\ f.meta = meta
  <2>1. off \div BlockSize \in Blocks
    <3>1. off \in off .. off + len - 1
      BY <1>1
    <3> QED
      BY <1>2, <3>1
  <2>2. 1 <= Len(first) /\ (off % BlockSize) + Len(first) <= BlockSize
    BY <1>5, <1>6, <1>7
  <2>3. /\ FileOK(f)
        /\ \/ f.wait = NoBlock /\ Patched(Current, f, off, first)
           \/ f.wait # NoBlock /\ f.size = Current.size /\ f.meta = Current.meta
    BY <1>1, <1>4, <1>7, <2>1, <2>2, RealWritePatches DEF f
  <2> QED
    BY <1>4, <2>3
<1>9. n \in 1 .. len /\ len \in 1 .. len /\ first = SubSeq(data, 1, n)
      /\ SubSeq(data, 1, len) = data
  BY <1>1, <1>5, <1>6, SubSeqFull DEF first
<1>10. CASE f.wait # NoBlock
  <2>1. w = f
    BY <1>3, <1>10
  <2> QED
    BY <1>8, <1>10, <2>1 DEF WrittenSoFar, w, off, data
<1>11. CASE f.wait = NoBlock /\ n = len
  <2>1. w = f /\ Patched(Current, f, off, first)
    BY <1>3, <1>8, <1>11
  <2>2. WrittenSoFar(w, q)
    BY <1>6, <1>9, <1>11, <2>1 DEF WrittenSoFar, off, data
  <2> QED
    BY <1>8, <2>1, <2>2 DEF w, off, data
<1>12. CASE f.wait = NoBlock /\ n # len
  <2>1. w = g /\ Patched(Current, f, off, first)
    BY <1>3, <1>8, <1>12
  <2>2. (off + n) \div BlockSize \in Blocks /\ off + n \in Nat
    <3>1. off + n \in off .. off + len - 1 /\ off + n \in Nat
      BY <1>1, <1>5, <1>12
    <3> QED
      BY <1>2, <3>1
  <2>3. 1 <= Len(rest) /\ ((off + n) % BlockSize) + Len(rest) <= BlockSize
    BY <1>5, <1>6, <1>7, <1>12
  <2>4. /\ FileOK(g)
        /\ \/ g.wait = NoBlock /\ Patched(f, g, off + n, rest)
           \/ g.wait # NoBlock /\ g.size = f.size /\ g.meta = f.meta
    BY <1>7, <1>8, <1>12, <2>2, <2>3, RealWritePatches DEF g
  <2>5. CASE g.wait = NoBlock /\ Patched(f, g, off + n, rest)
    <3>1. Current.size \in Nat /\ Patched(f, g, off + Len(first), rest)
      BY <1>7, <2>5 DEF FileOK
    <3>2. Patched(Current, g, off, data)
      BY <1>1, <1>7, <2>1, <3>1, PatchesCompose
    <3>3. WrittenSoFar(w, q)
      BY <1>6, <1>9, <2>1, <3>2 DEF WrittenSoFar, off, data
    <3> QED
      BY <2>1, <2>4, <3>3 DEF w, off, data
  <2>6. CASE g.wait # NoBlock /\ g.size = f.size /\ g.meta = f.meta
    <3>1. Patched(Current, g, off, first)
      BY <2>1, <2>6 DEF Patched
    <3>2. WrittenSoFar(w, q)
      BY <1>6, <1>9, <2>1, <2>6, <3>1 DEF WrittenSoFar, off, data
    <3> QED
      BY <2>1, <2>4, <3>2 DEF w, off, data
  <2> QED
    BY <2>4, <2>5, <2>6
<1> QED
  BY <1>10, <1>11, <1>12

-----------------------------------------------------------------------------

(***************************************************************************)
(* The rest of the inductive invariant.  The file lies within the blocks,  *)
(* and who waits is in line once, at one place.                            *)
(***************************************************************************)
SizeInBlocks == \A i \in 0 .. size - 1 : i \div BlockSize \in Blocks

OnceInLine ==
    /\ \A i \in 1 .. Len(woken) : status[woken[i]] = "waiting"
    /\ \A i, j \in 1 .. Len(woken) : woken[i] = woken[j] => i = j
    /\ \A h \in gets : \A i \in 1 .. Len(callbacks[h]) :
          /\ status[callbacks[h][i]] = "waiting"
          /\ \A j \in 1 .. Len(woken) : woken[j] # callbacks[h][i]
          /\ \A x \in gets : \A j \in 1 .. Len(callbacks[x]) :
                callbacks[h][i] = callbacks[x][j] => h = x /\ i = j

FileInv ==
    /\ FileOK(Current)
    /\ stored \subseteq Data /\ gets \subseteq Data
    /\ callbacks = [h \in gets |-> callbacks[h]]
    /\ got \in [Requests -> Seq(Bytes)]
    /\ evictions \in Nat
    /\ SizeInBlocks
    /\ OnceInLine

\* A position before one of the file's is one of the file's.
LEMMA EarlierPosition ==
    ASSUME NEW i \in Nat, NEW j \in Nat, i <= j, j \div BlockSize \in Blocks
    PROVE  i \div BlockSize \in Blocks
<1> DEFINE b == i \div BlockSize
           k == i % BlockSize
           c == j \div BlockSize
           l == j % BlockSize
<1>1. b \in Nat /\ k \in 0 .. BlockSize - 1 /\ i = BlockSize * b + k
  BY DivMod
<1>2. c \in Nat /\ l \in 0 .. BlockSize - 1 /\ j = BlockSize * c + l
  BY DivMod
<1>3. c \in Blocks
  OBVIOUS
<1> HIDE DEF b, c, k, l
<1>4. b <= c
  <2> SUFFICES ASSUME ~(b <= c)
               PROVE  FALSE
    OBVIOUS
  <2> DEFINE d == b - c - 1
  <2>1. d \in Nat /\ b = c + 1 + d
    BY <1>1, <1>2
  <2> HIDE DEF d
  <2>2. BlockSize * b = BlockSize * c + BlockSize + BlockSize * d
    BY <1>2, <2>1, BlockFileAssumption
  <2>3. BlockSize * d \in Nat /\ BlockSize * c \in Nat /\ BlockSize \in Nat /\ BlockSize * b \in Nat
    BY <1>1, <1>2, <2>1, BlockFileAssumption
  <2> HIDE DEF d
  <2> QED
    BY <1>1, <1>2, <2>2, <2>3
<1>5. b \in 0 .. c
  BY <1>1, <1>2, <1>4
<1> QED
  BY <1>3, <1>5, BlockFileAssumption DEF b

LEMMA SizeAfterWrite ==
    ASSUME SizeInBlocks, size \in Nat, NEW q \in Queries, q.op = "write",
           NEW k \in 1 .. Len(q.data), size' = Larger(size, q.off + k)
    PROVE  SizeInBlocks'
<1>1. q.off \in Nat /\ Len(q.data) \in Nat
  BY BlockFileAssumption
<1>2. \A i \in q.off .. q.off + Len(q.data) - 1 : i \div BlockSize \in Blocks
  BY BlockFileAssumption
<1>3. (q.off + k) - 1 \in q.off .. q.off + Len(q.data) - 1 /\ (q.off + k) - 1 \in Nat
  BY <1>1
<1>4. ((q.off + k) - 1) \div BlockSize \in Blocks
  BY <1>2, <1>3
<1>5. ASSUME NEW i \in 0 .. size' - 1
      PROVE  i \div BlockSize \in Blocks
  <2>1. CASE i < size
    BY <2>1 DEF SizeInBlocks
  <2>2. CASE ~(i < size)
    <3>1. i \in Nat /\ i <= (q.off + k) - 1
      BY <1>1, <2>2 DEF Larger
    <3> QED
      BY <1>3, <1>4, <3>1, EarlierPosition
  <2> QED
    BY <2>1, <2>2
<1> QED
  BY <1>5 DEF SizeInBlocks

-----------------------------------------------------------------------------

(***************************************************************************)
(* A run of a handler, seen from ByteFile.                                 *)
(***************************************************************************)
LEMMA ByteAtNext == \A i : ByteAt(i)' = ByteIn(meta', i)
  BY DEF ByteAt, ByteIn, ByteOf

LEMMA SameBytes ==
    ASSUME meta' = meta
    PROVE  [i \in FilePositions |-> ByteAt(i)]' = [i \in FilePositions |-> ByteAt(i)]
  BY DEF ByteAt, FilePositions

\* What a run does to the file and what it answers.
Answers(r, q) ==
    /\ Answer(r, "ok") /\ UNCHANGED callbacks
    /\ File!Execute(q)
    /\ got' = IF q.op = "read" THEN [got EXCEPT ![r] = File!Slice(q.off, q.len)] ELSE got

Waits(r, q) ==
    /\ \E h \in Data : WaitFor(r, h)
    /\ \/ UNCHANGED <<size, meta>>
       \/ /\ q.op = "write"
          /\ \E k \in 1 .. Len(q.data) : File!Patch(q.off, SubSeq(q.data, 1, k))

RunEffect(r, q) ==
    /\ FileOK(Current)' /\ SizeInBlocks'
    /\ got' \in [Requests -> Seq(Bytes)]
    /\ Answers(r, q) \/ Waits(r, q)

LEMMA PatchStep ==
    ASSUME NEW f, f.size = size', f.meta = meta', NEW off, NEW data, Patched(Current, f, off, data)
    PROVE  File!Patch(off, data)
<1>1. Current.size = size /\ Current.meta = meta
  BY DEF Current
<1>2. size' = File!Larger(size, off + Len(data))
  BY <1>1 DEF Patched, Larger, File!Larger
<1> DEFINE bytes == [i \in FilePositions |-> ByteAt(i)]
<1>3. DOMAIN bytes' = FilePositions
  BY DEF FilePositions
<1>4. \A i \in FilePositions : bytes'[i] = ByteIn(meta', i) /\ bytes[i] = ByteIn(meta, i)
  BY ByteAtNext, ByteAtIn DEF FilePositions
<1>5. \A i \in FilePositions :
         IF off <= i /\ i < off + Len(data) THEN ByteIn(meta', i) = data[i - off + 1]
         ELSE \/ ByteIn(meta', i) = ByteIn(meta, i)
              \/ i >= size' /\ ByteIn(meta', i) = Zero
  BY <1>1 DEF Patched
<1> HIDE DEF bytes
<1>6. \A i \in FilePositions :
         IF off <= i /\ i < off + Len(data) THEN bytes'[i] = data[i - off + 1]
         ELSE bytes'[i] = bytes[i] \/ (i >= size' /\ bytes'[i] = Zero)
  BY <1>4, <1>5
<1> QED
  BY <1>2, <1>3, <1>6 DEF File!Patch, bytes

LEMMA ReadSlice ==
    ASSUME FileOK(Current), SizeInBlocks, NEW off \in Nat, NEW len \in Nat
    PROVE  LET final == IF off + len > size THEN size ELSE off + len
           IN  /\ off >= size => File!Slice(off, len) = <<>>
               /\ off < size => File!Slice(off, len) = ReadBuf(off, final)
               /\ File!Slice(off, len) \in Seq(Bytes)
<1> DEFINE final == IF off + len > size THEN size ELSE off + len
           last == IF off + len < size THEN off + len ELSE size
           bytes == [i \in FilePositions |-> ByteAt(i)]
           slice == File!Slice(off, len)
<1>1. size \in Nat /\ meta \in [Blocks -> MaybeData]
  BY DEF FileOK, Current
<1>2. last = final /\ final \in Nat /\ final <= size
  BY <1>1
<1>3. slice = [i \in 1 .. last - off |->
                  IF off + i - 1 \in FilePositions THEN bytes[off + i - 1] ELSE Zero]
  BY DEF File!Slice
<1> HIDE DEF slice
<1>4. CASE off >= size
  <2>1. 1 .. last - off = 1 .. 0
    BY <1>1, <1>2, <1>4
  <2>2. slice = <<>>
    <3>1. slice \in [1 .. 0 -> Bytes]
      BY <1>3, <2>1
    <3>2. 0 \in Nat
      OBVIOUS
    <3>3. slice \in Seq(Bytes) /\ Len(slice) = 0
      BY <3>1, <3>2, IsSequence
    <3> QED
      BY <3>3
  <2> QED
    BY <1>1, <1>4, <2>2 DEF slice
<1>5. CASE off < size
  <2>1. off <= final
    BY <1>1, <1>5
  <2>2. \A i \in off .. final - 1 : i \div BlockSize \in Blocks
    <3>1. \A i \in off .. final - 1 : i \in 0 .. size - 1
      <4> HIDE DEF final
      <4> QED
        BY <1>1, <1>2
    <3> QED
      BY <3>1 DEF SizeInBlocks
  <2> HIDE DEF final, last, bytes
  <2>3. ASSUME NEW i \in 1 .. last - off
        PROVE  /\ (IF off + i - 1 \in FilePositions THEN bytes[off + i - 1] ELSE Zero)
                      = ByteIn(meta, off + i - 1)
               /\ ByteIn(meta, off + i - 1) \in Bytes
    <3>1. off + i - 1 \in Nat /\ off + i - 1 \in off .. final - 1
      BY <1>2
    <3>2. (off + i - 1) \div BlockSize \in Blocks
      BY <2>2, <3>1
    <3>3. off + i - 1 \in FilePositions
      BY <3>1, <3>2, PositionsAreBlocks
    <3>4. bytes[off + i - 1] = ByteIn(meta, off + i - 1)
      BY <3>3, ByteAtIn DEF bytes
    <3>5. ByteIn(meta, off + i - 1) \in Bytes
      <4>1. (off + i - 1) % BlockSize \in Nat
        BY <3>1, DivMod
      <4>2. meta[(off + i - 1) \div BlockSize] \in MaybeData
        BY <1>1, <3>2
      <4> QED
        BY <4>1, <4>2, ByteType DEF ByteIn
    <3> QED
      BY <3>3, <3>4, <3>5
  <2>4. slice = [i \in 1 .. final - off |-> ByteIn(meta, off + i - 1)]
    BY <1>2, <1>3, <2>3
  <2>5. slice = FileBytes(off, final)
    BY <2>4 DEF FileBytes
  <2>6. FileBytes(off, final) = ReadBuf(off, final)
    BY <1>1, <1>2, <2>1, <2>2, ReadBufBytes
  <2>7. slice \in [1 .. final - off -> Bytes]
    BY <1>2, <2>3, <2>4
  <2>8. final - off \in Nat
    BY <1>2, <2>1
  <2>9. slice \in Seq(Bytes)
    BY <2>7, <2>8, IsSequence
  <2> QED
    BY <1>1, <1>5, <2>5, <2>6, <2>9 DEF slice, final
<1> QED
  BY <1>1, <1>4, <1>5

-----------------------------------------------------------------------------

\* FileOK in the terms of the variables.
LEMMA CurrentOK ==
    FileOK(Current) <=> /\ size \in Nat /\ meta \in [Blocks -> MaybeData]
                        /\ memory \subseteq Data /\ disk \subseteq Data /\ puts \subseteq Data
  BY DEF FileOK, Current, Fields, MaybeData

LEMMA ReadHasEffect ==
    ASSUME FileInv, NEW r \in Requests, NEW q \in Queries, q.op = "read", RunRead(r, q)
    PROVE  RunEffect(r, q)
<1> DEFINE final == IF q.off + q.len > size THEN size ELSE q.off + q.len
           slice == File!Slice(q.off, q.len)
<1>1. q.off \in Nat /\ q.len \in Nat
  BY BlockFileAssumption
<1>2. size \in Nat /\ meta \in [Blocks -> MaybeData]
  BY CurrentOK DEF FileInv
<1>3. /\ q.off >= size => slice = <<>>
      /\ q.off < size => slice = ReadBuf(q.off, final)
      /\ slice \in Seq(Bytes)
  BY <1>1, ReadSlice DEF FileInv
<1>4. UNCHANGED <<size, meta, memory, disk, puts>>
  BY DEF RunRead, fileVars, blockVars
<1>5. FileOK(Current)' /\ SizeInBlocks'
  BY <1>4, CurrentOK DEF FileInv, SizeInBlocks, FileOK, Current
<1>6. \/ Answer(r, "ok") /\ UNCHANGED callbacks /\ got' = [got EXCEPT ![r] = slice]
      \/ \E b \in Missing(q.off, final) : WaitFor(r, meta[b])
  <2>1. CASE q.off >= size
    BY <1>3, <2>1 DEF RunRead
  <2>2. CASE q.off < size
    <3>1. ~(q.off >= size)
      BY <1>1, <1>2, <2>2
    <3> QED
      BY <1>3, <2>2, <3>1 DEF RunRead
  <2> QED
    BY <1>1, <1>2, <2>1, <2>2
<1> HIDE DEF slice
<1>7. CASE Answer(r, "ok") /\ UNCHANGED callbacks /\ got' = [got EXCEPT ![r] = slice]
  <2>1. got' \in [Requests -> Seq(Bytes)]
    BY <1>3, <1>7 DEF FileInv
  <2>2. File!Execute(q)
    BY <1>4, SameBytes DEF File!Execute
  <2>3. Answers(r, q)
    BY <1>7, <2>2 DEF Answers, slice
  <2> QED
    BY <1>5, <2>1, <2>3 DEF RunEffect
<1>8. CASE \E b \in Missing(q.off, final) : WaitFor(r, meta[b])
  <2>1. PICK b \in Blocks : meta[b] # NoBlock /\ WaitFor(r, meta[b])
    BY <1>8 DEF Missing
  <2>2. meta[b] \in Data
    BY <1>2, <2>1 DEF MaybeData
  <2>3. got' \in [Requests -> Seq(Bytes)]
    BY <2>1 DEF WaitFor, FileInv
  <2>4. Waits(r, q)
    BY <1>4, <2>1, <2>2 DEF Waits
  <2> QED
    BY <1>5, <2>3, <2>4 DEF RunEffect
<1> QED
  BY <1>6, <1>7, <1>8

LEMMA WriteHasEffect ==
    ASSUME FileInv, NEW r \in Requests, NEW q \in Queries, q.op = "write", RunWrite(r, q)
    PROVE  RunEffect(r, q)
<1> DEFINE f == Written(q.off, q.data)
<1>1. FileOK(f) /\ WrittenSoFar(f, q)
  BY WrittenPatches DEF FileInv
<1>2. /\ size' = f.size /\ meta' = f.meta
      /\ memory' = f.memory /\ disk' = f.disk /\ puts' = f.puts
      /\ IF f.wait # NoBlock THEN WaitFor(r, f.wait)
         ELSE Answer(r, "ok") /\ UNCHANGED <<callbacks, got>>
  BY DEF RunWrite
<1> HIDE DEF f
<1>3. FileOK(Current)'
  BY <1>1, <1>2 DEF FileOK, Current, Fields, MaybeData
<1>4. got' = got /\ got' \in [Requests -> Seq(Bytes)]
  BY <1>2 DEF WaitFor, FileInv
<1>5. size \in Nat /\ SizeInBlocks
  BY CurrentOK DEF FileInv
<1>6. CASE f.wait # NoBlock /\ f.size = size /\ f.meta = meta
  <2>1. f.wait \in Data
    BY <1>1, <1>6 DEF FileOK, MaybeData
  <2>2. SizeInBlocks'
    BY <1>2, <1>5, <1>6 DEF SizeInBlocks
  <2>3. Waits(r, q)
    BY <1>2, <1>6, <2>1 DEF Waits
  <2> QED
    BY <1>3, <1>4, <2>2, <2>3 DEF RunEffect
<1>7. ASSUME NEW k \in 1 .. Len(q.data),
             Patched(Current, f, q.off, SubSeq(q.data, 1, k)),
             f.wait = NoBlock => k = Len(q.data)
      PROVE  RunEffect(r, q)
  <2> DEFINE part == SubSeq(q.data, 1, k)
  <2>1. q.data \in Seq(Bytes) /\ Len(q.data) \in Nat /\ Len(part) = k
    <3>1. q.data \in Seq(Bytes)
      BY BlockFileAssumption
    <3>2. \A i \in 1 .. k : q.data[i] \in Bytes
      BY <3>1
    <3>3. 1 \in Int /\ k \in Int
      OBVIOUS
    <3>4. Len(part) = IF 1 <= k THEN k - 1 + 1 ELSE 0
      BY <3>2, <3>3, SubSeqProperties
    <3> QED
      BY <3>1, <3>4
  <2>2. File!Patch(q.off, part)
    BY <1>2, <1>7, PatchStep
  <2>3. size' = Larger(size, q.off + k)
    BY <1>2, <1>7, <2>1 DEF Patched, Current
  <2>4. SizeInBlocks'
    BY <1>5, <2>3, SizeAfterWrite
  <2>5. CASE f.wait # NoBlock
    <3>1. f.wait \in Data
      BY <1>1, <2>5 DEF FileOK, MaybeData
    <3>2. Waits(r, q)
      BY <1>2, <2>2, <2>5, <3>1 DEF Waits
    <3> QED
      BY <1>3, <1>4, <2>4, <3>2 DEF RunEffect
  <2>6. CASE f.wait = NoBlock
    <3>1. part = q.data
      BY <1>7, <2>1, <2>6, SubSeqFull
    <3>2. File!Execute(q)
      BY <2>2, <3>1 DEF File!Execute
    <3>3. Answers(r, q)
      BY <1>2, <1>4, <2>6, <3>2 DEF Answers
    <3> QED
      BY <1>3, <1>4, <2>4, <3>3 DEF RunEffect
  <2> QED
    BY <2>5, <2>6
<1> QED
  BY <1>1, <1>6, <1>7 DEF WrittenSoFar

LEMMA SetattrHasEffect ==
    ASSUME FileInv, NEW r \in Requests, NEW q \in Queries, q.op = "setattr", RunSetattr(r, q)
    PROVE  RunEffect(r, q)
<1>1. /\ size' = q.len /\ Answer(r, "ok")
      /\ UNCHANGED <<meta, memory, disk, puts, callbacks, got>>
  BY DEF RunSetattr, blockVars
<1>2. q.len \in Nat /\ \A i \in 0 .. q.len - 1 : i \div BlockSize \in Blocks
  BY BlockFileAssumption
<1>3. SizeInBlocks'
  BY <1>1, <1>2 DEF SizeInBlocks
<1>4. FileOK(Current)'
  BY <1>1, <1>2, CurrentOK DEF FileInv, FileOK, Current, Fields, MaybeData
<1>5. File!Execute(q)
  BY <1>1, SameBytes DEF File!Execute
<1>6. Answers(r, q)
  BY <1>1, <1>5 DEF Answers
<1> QED
  BY <1>1, <1>3, <1>4, <1>6 DEF RunEffect, FileInv

LEMMA OpenHasEffect ==
    ASSUME FileInv, NEW r \in Requests, NEW q \in Queries, q.op = "open", RunOpen(r)
    PROVE  RunEffect(r, q)
<1>1. /\ size' = 0 /\ meta' = [b \in Blocks |-> NoBlock] /\ Answer(r, "ok")
      /\ UNCHANGED <<memory, disk, puts, callbacks, got>>
  BY DEF RunOpen, blockVars
<1>2. SizeInBlocks'
  BY <1>1 DEF SizeInBlocks
<1>3. FileOK(Current)'
  BY <1>1, CurrentOK DEF FileInv, FileOK, Current, Fields, MaybeData
<1>4. [i \in FilePositions |-> ByteAt(i)]' = File!Filled(<<>>)
  <2>1. \A i \in FilePositions : ByteAt(i)' = Zero
    BY <1>1, PositionsAreBlocks, ByteAtNext DEF ByteIn, ByteOf
  <2>2. File!Filled(<<>>) = [i \in FilePositions |-> Zero]
    <3>1. \A i \in FilePositions : ~(i < Len(<<>>))
      BY PositionsAreBlocks
    <3> QED
      BY <3>1 DEF File!Filled
  <2>3. [i \in FilePositions |-> ByteAt(i)]' = [i \in FilePositions |-> Zero]
    BY <2>1 DEF FilePositions
  <2> QED
    BY <2>2, <2>3
<1>5. File!Execute(q)
  BY <1>1, <1>4 DEF File!Execute
<1>6. Answers(r, q)
  BY <1>1, <1>5 DEF Answers
<1> QED
  BY <1>1, <1>2, <1>3, <1>6 DEF RunEffect, FileInv

LEMMA RunHasEffect ==
    ASSUME BlockInv, FileInv, NEW r \in Requests, Run(r, asked[r])
    PROVE  asked[r] \in Queries /\ RunEffect(r, asked[r])
<1> DEFINE q == asked[r]
<1>1. q \in Queries \cup {NoQuery}
  BY DEF BlockInv, RequestsOK
<1>2. q.op \in {"read", "write", "setattr", "open"}
  BY DEF Run
<1>3. q \in Queries
  BY <1>1, <1>2 DEF NoQuery
<1> HIDE DEF q
<1>4. \/ q.op = "read" /\ RunRead(r, q)
      \/ q.op = "write" /\ RunWrite(r, q)
      \/ q.op = "setattr" /\ RunSetattr(r, q)
      \/ q.op = "open" /\ RunOpen(r)
  BY DEF Run, q
<1>5. RunEffect(r, q)
  BY <1>3, <1>4, ReadHasEffect, WriteHasEffect, SetattrHasEffect, OpenHasEffect
<1> QED
  BY <1>3, <1>5 DEF q

-----------------------------------------------------------------------------

\* A request that waits is put at the end of one line; nothing else moves.
LEMMA RegisteredLines ==
    ASSUME BlockInv, FileInv, NEW r \in Requests, NEW h \in Data, WaitFor(r, h)
    PROVE  /\ gets' = gets \cup {h}
           /\ callbacks' = [x \in gets' |-> callbacks'[x]]
           /\ \A x \in gets' : \A i \in 1 .. Len(callbacks'[x]) :
                 \/ x \in gets /\ i \in 1 .. Len(callbacks[x]) /\ callbacks'[x][i] = callbacks[x][i]
                 \/ x = h /\ i = Len(callbacks'[h]) /\ callbacks'[h][i] = r
<1>1. callbacks' = [x \in gets \cup {h} |-> IF x # h THEN callbacks[x]
                                            ELSE IF x \in gets THEN Append(callbacks[x], r)
                                            ELSE <<r>>]
  BY DEF WaitFor, Registered
<1>2. gets' = gets \cup {h}
  BY <1>1 DEF gets
<1>3. callbacks' = [x \in gets' |-> callbacks'[x]]
  BY <1>1, <1>2
<1>4. ASSUME NEW x \in gets', NEW i \in 1 .. Len(callbacks'[x])
      PROVE  \/ x \in gets /\ i \in 1 .. Len(callbacks[x]) /\ callbacks'[x][i] = callbacks[x][i]
             \/ x = h /\ i = Len(callbacks'[h]) /\ callbacks'[h][i] = r
  <2>1. CASE x # h
    BY <1>1, <1>2, <2>1
  <2>2. CASE x = h /\ x \in gets
    <3> DEFINE line == callbacks[h]
    <3>1. callbacks'[h] = Append(line, r)
      BY <1>1, <2>2
    <3>2. line \in Seq(Requests)
      BY <2>2 DEF BlockInv, RequestsOK
    <3> HIDE DEF line
    <3>3. /\ Len(Append(line, r)) = Len(line) + 1 /\ Len(line) \in Nat
          /\ \A j \in 1 .. Len(line) : Append(line, r)[j] = line[j]
          /\ Append(line, r)[Len(line) + 1] = r
      BY <3>2, AppendProperties
    <3>4. CASE i \in 1 .. Len(line)
      BY <2>2, <3>1, <3>3, <3>4 DEF line
    <3>5. CASE i = Len(line) + 1
      BY <2>2, <3>1, <3>3, <3>5
    <3> QED
      BY <2>2, <3>1, <3>3, <3>4, <3>5
  <2>3. CASE x = h /\ x \notin gets
    <3>1. callbacks'[h] = <<r>>
      BY <1>1, <2>3
    <3> QED
      BY <2>3, <3>1
  <2> QED
    BY <2>1, <2>2, <2>3
<1> QED
  BY <1>2, <1>3, <1>4

(***************************************************************************)
(* A run of r keeps everyone else in line once, when r itself is in no     *)
(* line and those still woken are some of those who were.                  *)
(***************************************************************************)
LEMMA RunKeepsLines ==
    ASSUME BlockInv, FileInv, NEW r \in Requests,
           \/ Answer(r, "ok") /\ UNCHANGED callbacks
           \/ \E h \in Data : WaitFor(r, h),
           \A h \in gets : \A i \in 1 .. Len(callbacks[h]) : callbacks[h][i] # r,
           NEW n \in Nat, Len(woken') + n = Len(woken), Len(woken') \in Nat,
           \A i \in 1 .. Len(woken') : woken'[i] = woken[i + n] /\ woken'[i] # r
    PROVE  OnceInLine' /\ gets' \subseteq Data /\ callbacks' = [x \in gets' |-> callbacks'[x]]
<1>1. OnceInLine /\ gets \subseteq Data /\ callbacks = [h \in gets |-> callbacks[h]]
  BY DEF FileInv
<1>2. /\ woken \in Seq(Requests) /\ \A h \in gets : callbacks[h] \in Seq(Requests)
      /\ status \in [Requests -> {"idle", "asked", "waiting", "ok", "EIO", "lost"}]
  BY DEF BlockInv, RequestsOK
<1>3. \A i \in 1 .. Len(woken') : i + n \in 1 .. Len(woken)
  BY <1>2
<1>4. \A s \in Requests : s # r => status'[s] = status[s]
  BY <1>2 DEF Answer, WaitFor
<1>5. /\ \A i \in 1 .. Len(woken') : status'[woken'[i]] = "waiting"
      /\ \A i, j \in 1 .. Len(woken') : woken'[i] = woken'[j] => i = j
  <2>1. \A i \in 1 .. Len(woken') : woken[i + n] \in Requests /\ status[woken[i + n]] = "waiting"
    BY <1>1, <1>2, <1>3 DEF OnceInLine
  <2>2. \A i, j \in 1 .. Len(woken') : woken'[i] = woken'[j] => i + n = j + n
    BY <1>1, <1>3 DEF OnceInLine
  <2>3. \A i \in 1 .. Len(woken') : status'[woken'[i]] = "waiting"
    BY <1>4, <2>1
  <2>4. \A i, j \in 1 .. Len(woken') : i + n = j + n => i = j
    OBVIOUS
  <2> QED
    BY <2>2, <2>3, <2>4
<1>6. \A h \in gets : \A i \in 1 .. Len(callbacks[h]) :
         /\ callbacks[h][i] \in Requests
         /\ status'[callbacks[h][i]] = "waiting"
         /\ \A j \in 1 .. Len(woken') : woken'[j] # callbacks[h][i]
  <2> SUFFICES ASSUME NEW h \in gets, NEW i \in 1 .. Len(callbacks[h])
               PROVE  /\ callbacks[h][i] \in Requests
                      /\ status'[callbacks[h][i]] = "waiting"
                      /\ \A j \in 1 .. Len(woken') : woken'[j] # callbacks[h][i]
    OBVIOUS
  <2>1. callbacks[h][i] \in Requests
    BY <1>2, ElementOfSeq
  <2>2. status[callbacks[h][i]] = "waiting" /\ \A j \in 1 .. Len(woken) : woken[j] # callbacks[h][i]
    BY <1>1 DEF OnceInLine
  <2> QED
    BY <1>3, <1>4, <2>1, <2>2
<1>7. CASE Answer(r, "ok") /\ UNCHANGED callbacks
  <2>1. gets' = gets
    BY <1>7 DEF gets
  <2>2. \A h \in gets : \A i \in 1 .. Len(callbacks[h]) :
           \A x \in gets : \A j \in 1 .. Len(callbacks[x]) :
                callbacks[h][i] = callbacks[x][j] => h = x /\ i = j
    BY <1>1 DEF OnceInLine
  <2>3. OnceInLine'
    BY <1>5, <1>6, <1>7, <2>1, <2>2 DEF OnceInLine
  <2> QED
    BY <1>1, <1>7, <2>1, <2>3
<1>8. ASSUME NEW h \in Data, WaitFor(r, h)
      PROVE  OnceInLine' /\ gets' \subseteq Data /\ callbacks' = [x \in gets' |-> callbacks'[x]]
  <2>1. /\ gets' = gets \cup {h}
        /\ callbacks' = [x \in gets' |-> callbacks'[x]]
    BY <1>8, RegisteredLines
  <2>2. \A x \in gets' : \A i \in 1 .. Len(callbacks'[x]) :
           \/ x \in gets /\ i \in 1 .. Len(callbacks[x]) /\ callbacks'[x][i] = callbacks[x][i]
           \/ x = h /\ i = Len(callbacks'[h]) /\ callbacks'[h][i] = r
    BY <1>8, RegisteredLines
  <2>3. status'[r] = "waiting"
    BY <1>2, <1>8 DEF WaitFor, Answer
  <2>4. ASSUME NEW x \in gets', NEW i \in 1 .. Len(callbacks'[x])
        PROVE  /\ status'[callbacks'[x][i]] = "waiting"
               /\ \A j \in 1 .. Len(woken') : woken'[j] # callbacks'[x][i]
               /\ \A y \in gets' : \A j \in 1 .. Len(callbacks'[y]) :
                     callbacks'[x][i] = callbacks'[y][j] => x = y /\ i = j
    <3>1. CASE x \in gets /\ i \in 1 .. Len(callbacks[x]) /\ callbacks'[x][i] = callbacks[x][i]
      <4>1. callbacks[x][i] # r
        BY <3>1
      <4>2. \A y \in gets : \A j \in 1 .. Len(callbacks[y]) :
                callbacks[x][i] = callbacks[y][j] => x = y /\ i = j
        BY <1>1, <3>1 DEF OnceInLine
      <4>3. \A y \in gets' : \A j \in 1 .. Len(callbacks'[y]) :
                callbacks'[x][i] = callbacks'[y][j] => x = y /\ i = j
        BY <2>2, <3>1, <4>1, <4>2
      <4> QED
        BY <1>6, <3>1, <4>3
    <3>2. CASE x = h /\ i = Len(callbacks'[h]) /\ callbacks'[h][i] = r
      <4>1. \A y \in gets' : \A j \in 1 .. Len(callbacks'[y]) :
                callbacks'[y][j] = r => y = h /\ j = Len(callbacks'[h])
        BY <2>2
      <4> QED
        BY <2>3, <3>2, <4>1
    <3> QED
      BY <2>2, <3>1, <3>2
  <2>5. OnceInLine'
    BY <1>5, <2>4 DEF OnceInLine
  <2> QED
    BY <1>1, <2>1, <2>5
<1> QED
  BY <1>7, <1>8

LEMMA InitFileInv == Init => FileInv
<1> SUFFICES ASSUME Init
             PROVE  FileInv
  OBVIOUS
<1>1. PICK s \in Contents :
          /\ size = Len(s)
          /\ meta = [b \in Blocks |-> IF b * BlockSize < Len(s) THEN BlockOf(s, b) ELSE NoBlock]
  BY DEF Init
<1>2. s \in Seq(Bytes) /\ Len(s) \in Nat /\ BlockSize \in Nat \ {0}
  BY BlockFileAssumption
<1>3. ASSUME NEW b \in Blocks, b * BlockSize < Len(s)
      PROVE  BlockOf(s, b) \in Data
  <2> DEFINE from == b * BlockSize
             to == IF Len(s) < (b + 1) * BlockSize THEN Len(s) ELSE (b + 1) * BlockSize
  <2>1. b \in Nat /\ from \in Nat /\ (b + 1) * BlockSize = from + BlockSize
    BY <1>2, BlockFileAssumption
  <2>2. BlockOf(s, b) = SubSeq(s, from + 1, to)
    BY DEF BlockOf
  <2>3. from < Len(s)
    BY <1>3
  <2> HIDE DEF from
  <2>4. to \in Nat /\ from < to /\ to <= Len(s) /\ to - from <= BlockSize
    BY <1>2, <2>1, <2>3
  <2> HIDE DEF to
  <2>5. SubSeq(s, from + 1, to) \in Seq(Bytes) /\ Len(SubSeq(s, from + 1, to)) = to - from
    BY <1>2, <2>1, <2>4, PartBytes
  <2> QED
    BY <2>1, <2>2, <2>4, <2>5 DEF Data
<1>4. meta \in [Blocks -> MaybeData]
  BY <1>1, <1>3 DEF MaybeData
<1>5. FileOK(Current)
  BY <1>1, <1>2, <1>4, CurrentOK DEF Init
<1>6. stored \subseteq Data
  BY <1>4 DEF Init, MaybeData
<1>7. callbacks = <<>> /\ gets = {} /\ callbacks = [h \in gets |-> callbacks[h]]
  BY DEF Init, gets
<1>8. got \in [Requests -> Seq(Bytes)] /\ evictions \in Nat
  BY DEF Init
<1>9. SizeInBlocks
  BY <1>1, BlockFileAssumption DEF SizeInBlocks
<1>10. OnceInLine
  BY <1>7 DEF Init, OnceInLine
<1> QED
  BY <1>5, <1>6, <1>7, <1>8, <1>9, <1>10 DEF FileInv

-----------------------------------------------------------------------------

\* Whoever begins or goes on is in no line.
LEMMA BeginLines ==
    ASSUME BlockInv, FileInv, NEW r \in Requests, woken = <<>>, status[r] = "asked",
           UNCHANGED woken
    PROVE  /\ \A h \in gets : \A i \in 1 .. Len(callbacks[h]) : callbacks[h][i] # r
           /\ Len(woken') + 0 = Len(woken) /\ Len(woken') \in Nat
           /\ \A i \in 1 .. Len(woken') : woken'[i] = woken[i + 0] /\ woken'[i] # r
  BY DEF FileInv, OnceInLine

LEMMA ResumeLines ==
    ASSUME BlockInv, FileInv, woken # <<>>, woken' = Tail(woken)
    PROVE  /\ Head(woken) \in Requests /\ status[Head(woken)] = "waiting"
           /\ \A h \in gets : \A i \in 1 .. Len(callbacks[h]) : callbacks[h][i] # Head(woken)
           /\ Len(woken') + 1 = Len(woken) /\ Len(woken') \in Nat
           /\ \A i \in 1 .. Len(woken') : woken'[i] = woken[i + 1] /\ woken'[i] # Head(woken)
<1>1. woken \in Seq(Requests) /\ OnceInLine
  BY DEF BlockInv, RequestsOK, FileInv
<1>2. /\ Head(woken) = woken[1] /\ Head(woken) \in Requests
      /\ woken' \in Seq(Requests) /\ Len(woken') = Len(woken) - 1
      /\ \A i \in 1 .. Len(woken') : woken'[i] = woken[i + 1]
      /\ Len(woken) \in Nat \ {0}
  BY <1>1, HeadTailProperties, EmptySeq
<1>3. 1 \in 1 .. Len(woken)
  BY <1>2
<1>4. \A i \in 1 .. Len(woken') : i + 1 \in 1 .. Len(woken) /\ i + 1 # 1
  BY <1>2
<1>5. \A i \in 1 .. Len(woken') : woken[i + 1] # woken[1]
  BY <1>1, <1>3, <1>4 DEF OnceInLine
<1>6. status[woken[1]] = "waiting"
  BY <1>1, <1>3 DEF OnceInLine
<1>7. \A h \in gets : \A i \in 1 .. Len(callbacks[h]) : callbacks[h][i] # woken[1]
  BY <1>1, <1>3 DEF OnceInLine
<1>8. Len(woken') + 1 = Len(woken) /\ Len(woken') \in Nat
  BY <1>2
<1> QED
  BY <1>2, <1>5, <1>6, <1>7, <1>8

LEMMA RunKeepsFileInv ==
    ASSUME BlockInv, FileInv, NEW r \in Requests, Run(r, asked[r]), RunKeeps,
           \A h \in gets : \A i \in 1 .. Len(callbacks[h]) : callbacks[h][i] # r,
           NEW n \in Nat, Len(woken') + n = Len(woken), Len(woken') \in Nat,
           \A i \in 1 .. Len(woken') : woken'[i] = woken[i + n] /\ woken'[i] # r
    PROVE  FileInv'
<1>1. RunEffect(r, asked[r])
  BY RunHasEffect
<1>2. \/ Answer(r, "ok") /\ UNCHANGED callbacks
      \/ \E h \in Data : WaitFor(r, h)
  BY <1>1 DEF RunEffect, Answers, Waits
<1>3. OnceInLine' /\ gets' \subseteq Data /\ callbacks' = [x \in gets' |-> callbacks'[x]]
  BY <1>2, RunKeepsLines
<1>4. stored' \subseteq Data /\ evictions' \in Nat
  BY DEF FileInv, RunKeeps, faultVars
<1>5. (callbacks = [h \in gets |-> callbacks[h]])'
  BY <1>3 DEF gets
<1> QED
  BY <1>1, <1>3, <1>4, <1>5 DEF FileInv, RunEffect

\* The lines that remain when one is taken.
LEMMA OtherLines ==
    ASSUME BlockInv, FileInv, NEW h \in gets, callbacks' = OthersThan(h)
    PROVE  /\ gets' = gets \ {h} /\ gets' \subseteq Data
           /\ callbacks' = [x \in gets' |-> callbacks'[x]]
           /\ \A x \in gets' : callbacks'[x] = callbacks[x]
  BY DEF OthersThan, gets, FileInv

LEMMA NextFileInv == BlockInv /\ FileInv /\ [Next]_vars => FileInv'
<1> SUFFICES ASSUME BlockInv, FileInv, [Next]_vars
             PROVE  FileInv'
  OBVIOUS
<1>0. /\ size \in Nat /\ meta \in [Blocks -> MaybeData]
      /\ memory \subseteq Data /\ disk \subseteq Data /\ puts \subseteq Data
  BY CurrentOK DEF FileInv
<1>1. ASSUME NEW r \in Requests, Begin(r)
      PROVE  FileInv'
  <2>1. /\ \A h \in gets : \A i \in 1 .. Len(callbacks[h]) : callbacks[h][i] # r
        /\ Len(woken') + 0 = Len(woken) /\ Len(woken') \in Nat
        /\ \A i \in 1 .. Len(woken') : woken'[i] = woken[i + 0] /\ woken'[i] # r
    BY <1>1, BeginLines DEF Begin
  <2>2. Run(r, asked[r]) /\ RunKeeps /\ 0 \in Nat
    BY <1>1 DEF Begin, RunKeeps
  <2> QED
    BY <2>1, <2>2, RunKeepsFileInv
<1>2. ASSUME NEW r \in Requests, NEW q \in Queries, Ask(r, q)
      PROVE  FileInv'
  <2>1. OnceInLine'
    <3>1. UNCHANGED <<woken, callbacks>> /\ gets' = gets
      BY <1>2 DEF Ask, gets
    <3>2. \A s \in Requests : status[s] = "waiting" => status'[s] = "waiting"
      BY <1>2 DEF Ask, BlockInv, RequestsOK
    <3>3. /\ \A i \in 1 .. Len(woken) : woken[i] \in Requests
          /\ \A h \in gets : \A i \in 1 .. Len(callbacks[h]) : callbacks[h][i] \in Requests
      BY ElementOfSeq DEF BlockInv, RequestsOK
    <3>4. OnceInLine
      BY DEF FileInv
    <3>5. /\ \A i \in 1 .. Len(woken) : status'[woken[i]] = "waiting"
          /\ \A i, j \in 1 .. Len(woken) : woken[i] = woken[j] => i = j
      BY <3>2, <3>3, <3>4 DEF OnceInLine
    <3>6. \A h \in gets : \A i \in 1 .. Len(callbacks[h]) :
             /\ status'[callbacks[h][i]] = "waiting"
             /\ \A j \in 1 .. Len(woken) : woken[j] # callbacks[h][i]
             /\ \A x \in gets : \A j \in 1 .. Len(callbacks[x]) :
                   callbacks[h][i] = callbacks[x][j] => h = x /\ i = j
      BY <3>2, <3>3, <3>4 DEF OnceInLine
    <3> QED
      BY <3>1, <3>5, <3>6 DEF OnceInLine
  <2> QED
    BY <1>0, <1>2, <2>1, CurrentOK
    DEF Ask, FileInv, FileOK, Current, SizeInBlocks, fileVars, blockVars, faultVars, gets
<1>3. CASE Resume
  <2>1. /\ Head(woken) \in Requests
        /\ \A h \in gets : \A i \in 1 .. Len(callbacks[h]) : callbacks[h][i] # Head(woken)
        /\ Len(woken') + 1 = Len(woken) /\ Len(woken') \in Nat
        /\ \A i \in 1 .. Len(woken') : woken'[i] = woken[i + 1] /\ woken'[i] # Head(woken)
    BY <1>3, ResumeLines DEF Resume
  <2>2. Run(Head(woken), asked[Head(woken)]) /\ RunKeeps /\ 1 \in Nat
    BY <1>3 DEF Resume, RunKeeps
  <2> QED
    BY <2>1, <2>2, RunKeepsFileInv
<1>4. ASSUME NEW h \in gets, ReceiveBlock(h)
      PROVE  FileInv'
  <2>1. /\ gets' = gets \ {h} /\ gets' \subseteq Data
        /\ callbacks' = [x \in gets' |-> callbacks'[x]]
        /\ \A x \in gets' : callbacks'[x] = callbacks[x]
    BY <1>4, OtherLines DEF ReceiveBlock
  <2>2. OnceInLine'
    BY <1>4, <2>1 DEF ReceiveBlock, FileInv, OnceInLine
  <2>3. memory' \subseteq Data /\ disk' \subseteq Data
    BY <1>0, <1>4 DEF ReceiveBlock, FileInv
  <2>4. FileOK(Current)'
    BY <1>0, <1>4, <2>3 DEF ReceiveBlock, FileOK, Current, Fields, MaybeData, fileVars
  <2> QED
    BY <1>4, <2>1, <2>2, <2>4
    DEF ReceiveBlock, FileInv, SizeInBlocks, fileVars, faultVars, gets
<1>5. ASSUME NEW h \in gets, ReceiveNothing(h)
      PROVE  FileInv'
  <2>1. /\ gets' = gets \ {h} /\ gets' \subseteq Data
        /\ callbacks' = [x \in gets' |-> callbacks'[x]]
        /\ \A x \in gets' : callbacks'[x] = callbacks[x]
    BY <1>5, OtherLines DEF ReceiveNothing
  <2>2. woken = <<>> /\ woken' = <<>>
    BY <1>5 DEF ReceiveNothing
  <2>3. ASSUME NEW x \in gets', NEW i \in 1 .. Len(callbacks[x])
        PROVE  status'[callbacks[x][i]] = "waiting"
    <3>1. callbacks[x][i] \in Requests /\ status[callbacks[x][i]] = "waiting"
      BY <2>1, ElementOfSeq DEF BlockInv, RequestsOK, FileInv, OnceInLine
    <3>2. \A j \in 1 .. Len(callbacks[h]) : callbacks[h][j] # callbacks[x][i]
      BY <2>1 DEF FileInv, OnceInLine
    <3>3. callbacks[h] \in Seq(Requests)
      BY DEF BlockInv, RequestsOK
    <3>4. DOMAIN callbacks[h] = 1 .. Len(callbacks[h])
      BY <3>3
    <3> QED
      BY <1>5, <3>1, <3>2, <3>4 DEF ReceiveNothing
  <2>4. \A x, y \in gets' : \A i \in 1 .. Len(callbacks[x]) : \A j \in 1 .. Len(callbacks[y]) :
            callbacks[x][i] = callbacks[y][j] => x = y /\ i = j
    BY <2>1 DEF FileInv, OnceInLine
  <2>5. OnceInLine'
    BY <2>1, <2>2, <2>3, <2>4 DEF OnceInLine
  <2> QED
    BY <1>0, <1>5, <2>1, <2>5
    DEF ReceiveNothing, FileInv, FileOK, Current, SizeInBlocks, fileVars, blockVars, faultVars, gets
<1>6. ASSUME NEW h \in puts, PutDone(h)
      PROVE  FileInv'
  <2>1. puts' \subseteq Data /\ stored' \subseteq Data
    BY <1>0, <1>6 DEF PutDone, FileInv
  <2>2. OnceInLine'
    BY <1>6 DEF PutDone, FileInv, OnceInLine, gets
  <2>3. FileOK(Current)'
    BY <1>0, <1>6, <2>1 DEF PutDone, FileOK, Current, Fields, MaybeData, fileVars
  <2> QED
    BY <1>6, <2>1, <2>2, <2>3
    DEF PutDone, FileInv, SizeInBlocks, fileVars, faultVars, gets
<1>7. ASSUME NEW h \in memory, Evict(h)
      PROVE  FileInv'
  <2>1. memory' \subseteq Data /\ evictions' \in Nat
    BY <1>0, <1>7 DEF Evict, FileInv
  <2>2. OnceInLine'
    BY <1>7 DEF Evict, FileInv, OnceInLine, gets
  <2>3. FileOK(Current)'
    BY <1>0, <1>7, <2>1 DEF Evict, FileOK, Current, Fields, MaybeData, fileVars
  <2> QED
    BY <1>7, <2>1, <2>2, <2>3 DEF Evict, FileInv, SizeInBlocks, fileVars, gets
<1>8. CASE Crash
  <2>1. woken' = <<>> /\ gets' = {} /\ callbacks' = <<>>
    BY <1>8 DEF Crash, gets
  <2>2. OnceInLine'
    BY <2>1 DEF OnceInLine
  <2>3. FileOK(Current)'
    BY <1>0, <1>8 DEF Crash, FileOK, Current, Fields, MaybeData, fileVars
  <2>4. (callbacks = [h \in gets |-> callbacks[h]])'
    BY <2>1
  <2> QED
    BY <1>8, <2>1, <2>2, <2>3, <2>4 DEF Crash, FileInv, SizeInBlocks, fileVars
<1>9. CASE UNCHANGED vars
  <2>1. OnceInLine'
    BY <1>9 DEF vars, FileInv, OnceInLine, gets
  <2> QED
    BY <1>0, <1>9, <2>1
    DEF vars, FileInv, FileOK, Current, SizeInBlocks, fileVars, blockVars, faultVars, gets
<1> QED
  BY <1>1, <1>2, <1>3, <1>4, <1>5, <1>6, <1>7, <1>8, <1>9 DEF Next

LEMMA FileInvariance == Spec => [](BlockInv /\ FileInv)
<1>1. Init => BlockInv /\ FileInv
  BY InitInv, InitFileInv
<1>2. BlockInv /\ FileInv /\ [Next]_vars => (BlockInv /\ FileInv)'
  BY NextInv, NextFileInv
<1> QED
  BY <1>1, <1>2, PTL DEF Spec

(***************************************************************************)
(* The types of the file, its blocks and its requests.                     *)
(***************************************************************************)
THEOREM FileTypeCorrect == Spec => []TypeOK
<1>1. BlockInv /\ FileInv => TypeOK
  <2> SUFFICES ASSUME BlockInv, FileInv
               PROVE  TypeOK
    OBVIOUS
  <2>1. /\ size \in Nat /\ meta \in [Blocks -> MaybeData]
        /\ memory \subseteq Data /\ disk \subseteq Data /\ puts \subseteq Data
    BY CurrentOK DEF FileInv
  <2>2. \A b \in Blocks : meta[b] # NoBlock => meta[b] \in Data
    BY <2>1 DEF MaybeData
  <2>3. callbacks \in [gets -> Seq(Requests)]
    BY DEF BlockInv, RequestsOK, FileInv
  <2> QED
    BY <2>1, <2>2, <2>3 DEF TypeOK, BlockInv, RequestsOK, FileInv
<1> QED
  BY <1>1, FileInvariance, PTL

-----------------------------------------------------------------------------

(***************************************************************************)
(* The refinement of ByteFile.                                             *)
(***************************************************************************)
AskedOr == [r \in Requests |-> IF Pending(r) THEN "asked" ELSE status[r]]

LEMMA InitRefines == Init => File!Init
<1> SUFFICES ASSUME Init
             PROVE  File!Init
  OBVIOUS
<1>1. PICK s \in Contents :
          /\ size = Len(s)
          /\ meta = [b \in Blocks |-> IF b * BlockSize < Len(s) THEN BlockOf(s, b) ELSE NoBlock]
  BY DEF Init
<1>2. s \in Seq(Bytes) /\ Len(s) \in Nat /\ BlockSize \in Nat \ {0}
  BY BlockFileAssumption
<1>3. ASSUME NEW i \in FilePositions
      PROVE  ByteAt(i) = IF i < Len(s) THEN s[i + 1] ELSE Zero
  <2> DEFINE b == i \div BlockSize
             k == i % BlockSize
             from == b * BlockSize
             to == IF Len(s) < (b + 1) * BlockSize THEN Len(s) ELSE (b + 1) * BlockSize
  <2>1. i \in Nat /\ b \in Blocks /\ b \in Nat /\ k \in 0 .. BlockSize - 1 /\ i = BlockSize * b + k
    BY PositionsAreBlocks, DivMod
  <2>2. ByteAt(i) = ByteOf(meta[b], k)
    BY ByteAtIn DEF ByteIn
  <2>3. meta[b] = IF from < Len(s) THEN SubSeq(s, from + 1, to) ELSE NoBlock
    BY <1>1, <2>1 DEF BlockOf
  <2> HIDE DEF b, k
  <2>4. from \in Nat /\ from = BlockSize * b /\ (b + 1) * BlockSize = from + BlockSize
    BY <1>2, <2>1
  <2> HIDE DEF from
  <2>5. i = from + k /\ k \in Nat /\ k < BlockSize
    <3>1. k \in Nat /\ k < BlockSize
      BY <1>2, <2>1
    <3> QED
      BY <2>1, <2>4, <3>1
  <2>6. CASE from < Len(s)
    <3>0. to = IF Len(s) < from + BlockSize THEN Len(s) ELSE from + BlockSize
      BY <2>4
    <3> HIDE DEF to
    <3>1. to \in Nat /\ from <= to /\ to <= Len(s) /\ (i < Len(s) <=> k < to - from)
      <4>1. from \in Nat
        BY <2>4
      <4> QED
        BY <1>2, <2>5, <2>6, <3>0, <4>1
    <3> DEFINE part == SubSeq(s, from + 1, to)
    <3>2. /\ part \in Seq(Bytes) /\ Len(part) = to - from
          /\ \A j \in Nat : j < to - from => ByteOf(part, j) = ByteOf(s, from + j)
      BY <1>2, <2>4, <3>1, PartBytes
    <3>3. meta[b] = part
      BY <2>3, <2>6
    <3> HIDE DEF part
    <3>4. CASE k < to - from
      BY <1>2, <2>2, <2>4, <2>5, <3>1, <3>2, <3>3, <3>4, BlockFileAssumption DEF ByteOf
    <3>5. CASE ~(k < to - from)
      BY <2>2, <3>1, <3>2, <3>3, <3>5 DEF ByteOf
    <3> QED
      BY <3>4, <3>5
  <2>7. CASE ~(from < Len(s))
    <3>1. ~(i < Len(s))
      BY <1>2, <2>4, <2>5, <2>7
    <3>2. meta[b] = NoBlock
      BY <2>3, <2>7
    <3> QED
      BY <2>2, <3>1, <3>2 DEF ByteOf
  <2> QED
    BY <2>6, <2>7
<1>4. [i \in FilePositions |-> ByteAt(i)] = File!Filled(s)
  BY <1>3 DEF File!Filled
<1>5. AskedOr = [r \in Requests |-> "idle"]
  BY DEF Init, AskedOr, Pending
<1>6. asked = [r \in Requests |-> File!NoQuery] /\ got = [r \in Requests |-> <<>>]
  BY DEF Init, NoQuery, File!NoQuery
<1> QED
  BY <1>1, <1>4, <1>5, <1>6 DEF File!Init, AskedOr

\* A run of a handler answers the request, or a part of a write is there.
LEMMA RunRefines ==
    ASSUME BlockInv, FileInv, NEW r \in Requests, Pending(r), Run(r, asked[r]), RunKeeps
    PROVE  File!Succeed(r) \/ File!Land(r) \/ UNCHANGED File!vars
<1> DEFINE q == asked[r]
<1>1. q \in Queries /\ RunEffect(r, q)
  BY RunHasEffect
<1>2. asked' = asked /\ AskedOr[r] = "asked"
  BY DEF RunKeeps, AskedOr
<1>3. status \in [Requests -> {"idle", "asked", "waiting", "ok", "EIO", "lost"}]
  BY DEF BlockInv, RequestsOK
<1>4. CASE Answers(r, q)
  <2>1. AskedOr' = [AskedOr EXCEPT ![r] = "ok"]
    BY <1>3, <1>4 DEF Answers, Answer, AskedOr, Pending
  <2>2. File!Execute(q)
    BY <1>4 DEF Answers
  <2>3. got' = IF q.op = "read" THEN [got EXCEPT ![r] = File!Slice(q.off, q.len)] ELSE got
    BY <1>4 DEF Answers
  <2>4. File!Succeed(r)
    BY <1>2, <2>1, <2>2, <2>3 DEF File!Succeed, AskedOr
  <2> QED
    BY <2>4
<1>5. CASE Waits(r, q)
  <2>1. status' = [status EXCEPT ![r] = "waiting"] /\ got' = got
    BY <1>5 DEF Waits, WaitFor, Answer
  <2>2. AskedOr' = AskedOr
    BY <1>3, <2>1 DEF AskedOr, Pending
  <2>3. CASE UNCHANGED <<size, meta>>
    <3>1. [i \in FilePositions |-> ByteAt(i)]' = [i \in FilePositions |-> ByteAt(i)]
      BY <2>3, SameBytes
    <3> QED
      BY <1>2, <2>1, <2>2, <2>3, <3>1 DEF File!vars, AskedOr
  <2>4. ASSUME q.op = "write", NEW k \in 1 .. Len(q.data),
               File!Patch(q.off, SubSeq(q.data, 1, k))
        PROVE  File!Land(r)
    BY <1>2, <2>1, <2>2, <2>4 DEF File!Land, AskedOr
  <2> QED
    BY <1>5, <2>3, <2>4 DEF Waits
<1> QED
  BY <1>1, <1>4, <1>5 DEF RunEffect

\* Neither the bytes nor who has asked.
LEMMA StutterRefines ==
    ASSUME UNCHANGED <<size, meta, asked, status, got>>
    PROVE  UNCHANGED File!vars
<1>1. [i \in FilePositions |-> ByteAt(i)]' = [i \in FilePositions |-> ByteAt(i)]
  BY SameBytes
<1>2. AskedOr' = AskedOr
  BY DEF AskedOr, Pending
<1> QED
  BY <1>1, <1>2 DEF File!vars, AskedOr

FailedWith(R, e) == [r \in Requests |-> IF r \in R THEN e ELSE status[r]]

\* Requests that are pending, if any, are answered with an error.
LEMMA FailRefines ==
    ASSUME BlockInv, NEW R \in SUBSET Requests, \A r \in R : Pending(r),
           NEW e \in {"EIO", "lost"}, status' = FailedWith(R, e),
           UNCHANGED <<size, meta, asked, got>>
    PROVE  File!Fail(R) \/ UNCHANGED File!vars
<1>1. status \in [Requests -> {"idle", "asked", "waiting", "ok", "EIO", "lost"}]
  BY DEF BlockInv, RequestsOK
<1>2. [i \in FilePositions |-> ByteAt(i)]' = [i \in FilePositions |-> ByteAt(i)]
  BY SameBytes
<1>3. AskedOr' = [r \in Requests |-> IF r \in R THEN e ELSE AskedOr[r]]
  BY <1>1 DEF AskedOr, Pending, FailedWith
<1>4. \A r \in R : AskedOr[r] = "asked"
  BY DEF AskedOr
<1>5. CASE R # {}
  BY <1>2, <1>3, <1>4, <1>5 DEF File!Fail, AskedOr
<1>6. CASE R = {}
  <2>1. status' = status
    BY <1>1, <1>6 DEF FailedWith
  <2> QED
    BY <2>1, StutterRefines
<1> QED
  BY <1>5, <1>6

LEMMA NextRefines == BlockInv /\ FileInv /\ [Next]_vars => [File!Next]_(File!vars)
<1> SUFFICES ASSUME BlockInv, FileInv, [Next]_vars
             PROVE  File!Next \/ UNCHANGED File!vars
  OBVIOUS
<1>1. ASSUME NEW r \in Requests, Begin(r)
      PROVE  File!Next \/ UNCHANGED File!vars
  <2>1. Pending(r) /\ Run(r, asked[r]) /\ RunKeeps
    BY <1>1 DEF Begin, Pending, RunKeeps
  <2> QED
    BY <2>1, RunRefines DEF File!Next
<1>2. ASSUME NEW r \in Requests, NEW q \in Queries, Ask(r, q)
      PROVE  File!Next
  <2>1. status \in [Requests -> {"idle", "asked", "waiting", "ok", "EIO", "lost"}]
    BY DEF BlockInv, RequestsOK
  <2>2. AskedOr[r] = "idle" /\ AskedOr' = [AskedOr EXCEPT ![r] = "asked"]
    BY <1>2, <2>1 DEF Ask, AskedOr, Pending
  <2>3. [i \in FilePositions |-> ByteAt(i)]' = [i \in FilePositions |-> ByteAt(i)]
    BY <1>2, SameBytes DEF Ask, fileVars
  <2>4. File!Ask(r)
    BY <1>2, <2>2, <2>3 DEF Ask, File!Ask, AskedOr, fileVars
  <2> QED
    BY <2>4 DEF File!Next
<1>3. CASE Resume
  <2>1. Head(woken) \in Requests /\ status[Head(woken)] = "waiting"
    BY <1>3, ResumeLines DEF Resume
  <2>2. Pending(Head(woken)) /\ Run(Head(woken), asked[Head(woken)]) /\ RunKeeps
    BY <1>3, <2>1 DEF Resume, Pending, RunKeeps
  <2> QED
    BY <2>1, <2>2, RunRefines DEF File!Next
<1>4. ASSUME NEW h \in gets, ReceiveBlock(h)
      PROVE  UNCHANGED File!vars
  BY <1>4, StutterRefines DEF ReceiveBlock, fileVars
<1>5. ASSUME NEW h \in gets, ReceiveNothing(h)
      PROVE  File!Next \/ UNCHANGED File!vars
  <2>0. PICK R \in SUBSET Requests :
               R = {r \in Requests : \E i \in DOMAIN callbacks[h] : callbacks[h][i] = r}
    OBVIOUS
  <2>1. callbacks[h] \in Seq(Requests)
    BY DEF BlockInv, RequestsOK
  <2>2. DOMAIN callbacks[h] = 1 .. Len(callbacks[h])
    BY <2>1
  <2>3. \A r \in R : Pending(r)
    BY <2>0, <2>2 DEF FileInv, OnceInLine, Pending
  <2>4. status' = FailedWith(R, "EIO")
    BY <1>5, <2>0 DEF ReceiveNothing, FailedWith
  <2>5. UNCHANGED <<size, meta, asked, got>>
    BY <1>5 DEF ReceiveNothing, fileVars
  <2>6. File!Fail(R) \/ UNCHANGED File!vars
    BY <2>3, <2>4, <2>5, FailRefines
  <2> QED
    BY <2>6 DEF File!Next
<1>6. ASSUME NEW h \in puts, PutDone(h)
      PROVE  UNCHANGED File!vars
  BY <1>6, StutterRefines DEF PutDone, fileVars
<1>7. ASSUME NEW h \in memory, Evict(h)
      PROVE  UNCHANGED File!vars
  BY <1>7, StutterRefines DEF Evict, fileVars
<1>8. CASE Crash
  <2>0. PICK R \in SUBSET Requests : R = {r \in Requests : Pending(r)}
    OBVIOUS
  <2>1. status' = FailedWith(R, "lost")
    BY <1>8, <2>0 DEF Crash, FailedWith
  <2>2. (\A r \in R : Pending(r)) /\ UNCHANGED <<size, meta, asked, got>>
    BY <1>8, <2>0 DEF Crash, fileVars
  <2>3. File!Fail(R) \/ UNCHANGED File!vars
    BY <2>1, <2>2, FailRefines
  <2> QED
    BY <2>3 DEF File!Next
<1>9. CASE UNCHANGED vars
  BY <1>9, StutterRefines DEF vars, fileVars
<1> QED
  BY <1>1, <1>2, <1>3, <1>4, <1>5, <1>6, <1>7, <1>8, <1>9 DEF Next

(***************************************************************************)
(* fuse_read, fuse_write, fuse_setattr and fuse_open over blocks that come *)
(* and go are an array of bytes: real_write's merging, reading across      *)
(* blocks and holes, waiting for a block and running again from the first  *)
(* line, failures and crashes, for any block size and number of requests.  *)
(***************************************************************************)
THEOREM BlocksAreAFile == Spec => IsAFile
  BY InitRefines, NextRefines, FileInvariance, PTL DEF Spec, IsAFile, File!Spec
===============================================================================
