------------------------------ MODULE KvIterator ------------------------------
(***************************************************************************)
(* KeyvalIterator: a Java-style iterator (hasNext before next) over the    *)
(* keys of the database, made of an LMDB cursor, which cannot stand before *)
(* the first key or after the last.  `location' says where the cursor      *)
(* stands seen from the iterator: at its key (0), one key ahead because    *)
(* somebody peeked (1), or one key behind (-1).                            *)
(*                                                                         *)
(* The keys are numbered 1..len in the order of the database, as its       *)
(* read transaction saw it; the database is never empty.  An LMDB call     *)
(* that fails leaves the cursor where it is.                               *)
(***************************************************************************)
EXTENDS Integers

Iterators == {it \in [len : Nat, cursor : Nat, location : {-1, 0, 1}] : it.cursor \in 1 .. it.len}

\* The iterator with its cursor moved and the new location.
Moved(it, by, location) == [len |-> it.len, cursor |-> it.cursor + by, location |-> location]

\* Whether MDB_NEXT and MDB_PREV succeed.
CanNext(it) == it.cursor < it.len
CanPrev(it) == it.cursor > 1

\* A new iterator, and toFront.
AtFront(n) == [len |-> n, cursor |-> 1, location |-> 1]

AtBack(n) == [len |-> n, cursor |-> n, location |-> -1]

\* find, when the key or a greater one is there, at position k.
Found(n, k) == [len |-> n, cursor |-> k, location |-> 0]

\* The iterator after hasNext(); the case -1 goes on into the case 0.
Ahead(it) == IF CanNext(it) THEN Moved(it, 1, 1) ELSE it

Peeked(it) ==
    IF it.location = 1 THEN it
    ELSE IF it.location = 0 THEN Ahead(it)
    ELSE IF CanNext(it) THEN Ahead(Moved(it, 1, 0))
    ELSE it

hasNext(it) == Peeked(it).location = 1

\* The iterator after next().
next(it) == IF hasNext(it) THEN Moved(Peeked(it), 0, 0) ELSE Peeked(it)

\* The same backwards.
Behind(it) == IF CanPrev(it) THEN Moved(it, -1, -1) ELSE it

PeekedBack(it) ==
    IF it.location = -1 THEN it
    ELSE IF it.location = 0 THEN Behind(it)
    ELSE IF CanPrev(it) THEN Behind(Moved(it, -1, 0))
    ELSE it

hasPrevious(it) == PeekedBack(it).location = -1

previous(it) == IF hasPrevious(it) THEN Moved(PeekedBack(it), 0, 0) ELSE PeekedBack(it)

\* The iterator after isValid(), key() or value(): the cursor is brought to
\* the iterator's key when there is one.
Settled(it) ==
    IF it.location = 1 /\ CanPrev(it) THEN Moved(it, -1, 0)
    ELSE IF it.location = -1 /\ CanNext(it) THEN Moved(it, 1, 0)
    ELSE it

isValid(it) == Settled(it).location = 0

-----------------------------------------------------------------------------

\* Where the iterator stands: 0 before all keys, len + 1 after them.
Position(it) == it.cursor - it.location
===============================================================================
