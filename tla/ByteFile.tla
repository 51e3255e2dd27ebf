------------------------------- MODULE ByteFile -------------------------------
(***************************************************************************)
(* What the kernel may expect of a regular file: an array of bytes with a  *)
(* size.  A request is issued once and answered at most once.  A write may *)
(* reach the file in part before it is answered; when it succeeds, all of  *)
(* it is there at that moment.  A read returns the bytes of one moment.    *)
(* Where nothing was written there are zeros.                              *)
(*                                                                         *)
(* Making a file shorter hides its end and does not remove it: what is     *)
(* beyond the size shows again when the file grows, unless a write or an   *)
(* open with O_TRUNC has removed it.  (POSIX wants zeros there.)           *)
(***************************************************************************)
EXTENDS Integers, Sequences

CONSTANTS Requests,
          Bytes, Zero,
          Positions,   \* positions of a file, from 0, that may have been written
          Queries,     \* what may be asked: [op, off, len, data], op one of
                       \* "read", "write", "setattr", "open"
          Contents     \* what the file may contain in the beginning

VARIABLES size,
          bytes,     \* the byte at each position, beyond the size too
          asked,     \* what each request asks
          status,    \* where each request is
          got        \* the bytes a read returned

vars == <<size, bytes, asked, status, got>>

NoQuery == [op |-> "none", off |-> 0, len |-> 0, data |-> <<>>]

Statuses == {"idle", "asked", "ok", "EIO", "lost"}

TypeOK ==
    /\ size \in Nat
    /\ bytes \in [Positions -> Bytes]
    /\ asked \in [Requests -> Queries \cup {NoQuery}]
    /\ status \in [Requests -> Statuses]
    /\ got \in [Requests -> Seq(Bytes)]

Larger(a, b) == IF a < b THEN b ELSE a

Filled(s) == [i \in Positions |-> IF i < Len(s) THEN s[i + 1] ELSE Zero]

\* The n bytes from offset off, fewer at the end.
Slice(off, n) ==
    LET last == IF off + n < size THEN off + n ELSE size
    IN  [i \in 1 .. last - off |-> IF off + i - 1 \in Positions THEN bytes[off + i - 1] ELSE Zero]

\* The file after data was written at offset off; what is beyond its end may
\* be removed.
Patch(off, data) ==
    /\ size' = Larger(size, off + Len(data))
    /\ DOMAIN bytes' = Positions
    /\ \A i \in Positions :
          IF off <= i /\ i < off + Len(data) THEN bytes'[i] = data[i - off + 1]
          ELSE bytes'[i] = bytes[i] \/ (i >= size' /\ bytes'[i] = Zero)

\* What the request q does to the file.
Execute(q) ==
    \/ q.op = "write" /\ Patch(q.off, q.data)
    \/ q.op = "setattr" /\ size' = q.len /\ UNCHANGED bytes
    \/ q.op = "open" /\ size' = 0 /\ bytes' = Filled(<<>>)
    \/ q.op = "read" /\ UNCHANGED <<size, bytes>>

Init ==
    /\ \E s \in Contents : size = Len(s) /\ bytes = Filled(s)
    /\ asked = [r \in Requests |-> NoQuery]
    /\ status = [r \in Requests |-> "idle"]
    /\ got = [r \in Requests |-> <<>>]

Ask(r) ==
    /\ status[r] = "idle"
    /\ status' = [status EXCEPT ![r] = "asked"]
    /\ \E q \in Queries : asked' = [asked EXCEPT ![r] = q]
    /\ UNCHANGED <<size, bytes, got>>

\* The first k bytes of a write reach the file.
Land(r) ==
    /\ status[r] = "asked" /\ asked[r].op = "write"
    /\ \E k \in 1 .. Len(asked[r].data) : Patch(asked[r].off, SubSeq(asked[r].data, 1, k))
    /\ UNCHANGED <<asked, status, got>>

Succeed(r) ==
    /\ status[r] = "asked"
    /\ status' = [status EXCEPT ![r] = "ok"]
    /\ Execute(asked[r])
    /\ got' = IF asked[r].op = "read"
              THEN [got EXCEPT ![r] = Slice(asked[r].off, asked[r].len)] ELSE got
    /\ UNCHANGED asked

Fail(R) ==
    /\ R # {} /\ \A r \in R : status[r] = "asked"
    /\ \E e \in {"EIO", "lost"} :
          status' = [r \in Requests |-> IF r \in R THEN e ELSE status[r]]
    /\ UNCHANGED <<size, bytes, asked, got>>

Next ==
    \/ \E r \in Requests : Ask(r) \/ Land(r) \/ Succeed(r)
    \/ \E R \in SUBSET Requests : Fail(R)

Spec == Init /\ [][Next]_vars
===============================================================================
