--------------------------- MODULE DirListingProofs ---------------------------
(***************************************************************************)
(* The iterator is a position in a list of keys, whichever way its cursor  *)
(* stands; and the directory listing implements DirStream.                 *)
(***************************************************************************)
EXTENDS DirListing, FiniteSetTheorems, SequenceTheorems, TLAPS

LEMMA IteratorFacts ==
    ASSUME NEW it \in Iterators
    PROVE  /\ it.len \in Nat /\ it.cursor \in Nat /\ 1 <= it.cursor /\ it.cursor <= it.len
           /\ it.location \in {-1, 0, 1}
  BY DEF Iterators

LEMMA MovedFacts ==
    ASSUME NEW it \in Iterators, NEW by \in {-1, 0, 1}, NEW l \in {-1, 0, 1},
           1 <= it.cursor + by, it.cursor + by <= it.len
    PROVE  /\ Moved(it, by, l) \in Iterators
           /\ Moved(it, by, l).len = it.len
           /\ Moved(it, by, l).cursor = it.cursor + by
           /\ Moved(it, by, l).location = l
           /\ Position(Moved(it, by, l)) = it.cursor + by - l
<1>1. /\ Moved(it, by, l).len = it.len
      /\ Moved(it, by, l).cursor = it.cursor + by
      /\ Moved(it, by, l).location = l
  BY DEF Moved
<1>2. it.cursor + by \in Nat
  BY IteratorFacts
<1>3. Moved(it, by, l) \in Iterators
  BY <1>2, IteratorFacts DEF Moved, Iterators
<1>4. Position(Moved(it, by, l)) = Moved(it, by, l).cursor - Moved(it, by, l).location
  BY DEF Position
<1>5. QED
  BY <1>1, <1>2, <1>3, <1>4, IteratorFacts

\* One key on, when the cursor stands at the iterator's key.
LEMMA AheadFacts ==
    ASSUME NEW it \in Iterators, it.location = 0
    PROVE  /\ Ahead(it) \in Iterators
           /\ Ahead(it).len = it.len /\ Position(Ahead(it)) = Position(it)
           /\ Ahead(it).location = 1 <=> Position(it) < it.len
<1> USE IteratorFacts DEF CanNext, Ahead
<1>1. Position(it) = it.cursor
  BY DEF Position
<1>2. CASE it.cursor < it.len
  <2>1. /\ Moved(it, 1, 1) \in Iterators /\ Moved(it, 1, 1).len = it.len
        /\ Moved(it, 1, 1).location = 1 /\ Position(Moved(it, 1, 1)) = it.cursor + 1 - 1
    BY <1>2, MovedFacts
  <2>2. QED
    BY <1>1, <1>2, <2>1
<1>3. CASE ~(it.cursor < it.len)
  BY <1>1, <1>3
<1>4. QED
  BY <1>2, <1>3

LEMMA HasNextIsExact ==
    ASSUME NEW it \in Iterators
    PROVE  /\ hasNext(it) <=> Position(it) < it.len
           /\ Peeked(it) \in Iterators
           /\ Position(Peeked(it)) = Position(it) /\ Peeked(it).len = it.len
<1> USE IteratorFacts DEF hasNext, Peeked, CanNext
<1>1. CASE it.location = 1
  BY <1>1 DEF Position
<1>2. CASE it.location = 0
  BY <1>2, AheadFacts
<1>3. CASE it.location = -1 /\ it.cursor < it.len
  <2>1. /\ Moved(it, 1, 0) \in Iterators /\ Moved(it, 1, 0).len = it.len
        /\ Moved(it, 1, 0).location = 0 /\ Position(Moved(it, 1, 0)) = it.cursor + 1 - 0
    BY <1>3, MovedFacts
  <2>2. Position(it) = it.cursor + 1
    BY <1>3 DEF Position
  <2>3. Peeked(it) = Ahead(Moved(it, 1, 0))
    BY <1>3
  <2>4. QED
    BY <2>1, <2>2, <2>3, AheadFacts
<1>4. CASE it.location = -1 /\ ~(it.cursor < it.len)
  BY <1>4 DEF Position
<1>5. QED
  BY <1>1, <1>2, <1>3, <1>4

LEMMA NextFacts ==
    ASSUME NEW it \in Iterators
    PROVE  /\ next(it) \in Iterators /\ next(it).len = it.len
           /\ hasNext(it) => /\ Position(next(it)) = Position(it) + 1
                             /\ next(it).location = 0
           /\ ~hasNext(it) => Position(next(it)) = Position(it)
<1>1. CASE hasNext(it)
  <2>1. Peeked(it) \in Iterators /\ Peeked(it).len = it.len /\ Peeked(it).location = 1
        /\ Position(Peeked(it)) = Position(it)
    BY <1>1, HasNextIsExact DEF hasNext
  <2>2. Position(Peeked(it)) = Peeked(it).cursor - 1
    BY <2>1 DEF Position
  <2>3. /\ Moved(Peeked(it), 0, 0) \in Iterators
        /\ Moved(Peeked(it), 0, 0).len = it.len
        /\ Moved(Peeked(it), 0, 0).location = 0
        /\ Position(Moved(Peeked(it), 0, 0)) = Peeked(it).cursor + 0 - 0
    BY <2>1, MovedFacts, IteratorFacts
  <2>4. QED
    BY <1>1, <2>1, <2>2, <2>3, IteratorFacts DEF next
<1>2. CASE ~hasNext(it)
  BY <1>2, HasNextIsExact DEF next
<1>3. QED
  BY <1>1, <1>2

LEMMA BehindFacts ==
    ASSUME NEW it \in Iterators, it.location = 0
    PROVE  /\ Behind(it) \in Iterators
           /\ Behind(it).len = it.len /\ Position(Behind(it)) = Position(it)
           /\ Behind(it).location = -1 <=> 1 < Position(it)
<1> USE IteratorFacts DEF CanPrev, Behind
<1>1. Position(it) = it.cursor
  BY DEF Position
<1>2. CASE it.cursor > 1
  <2>1. /\ Moved(it, -1, -1) \in Iterators /\ Moved(it, -1, -1).len = it.len
        /\ Moved(it, -1, -1).location = -1
        /\ Position(Moved(it, -1, -1)) = it.cursor + (-1) - (-1)
    BY <1>2, MovedFacts
  <2>2. QED
    BY <1>1, <1>2, <2>1
<1>3. CASE ~(it.cursor > 1)
  BY <1>1, <1>3
<1>4. QED
  BY <1>2, <1>3

LEMMA HasPreviousIsExact ==
    ASSUME NEW it \in Iterators
    PROVE  /\ hasPrevious(it) <=> 1 < Position(it)
           /\ PeekedBack(it) \in Iterators
           /\ Position(PeekedBack(it)) = Position(it) /\ PeekedBack(it).len = it.len
<1> USE IteratorFacts DEF hasPrevious, PeekedBack, CanPrev
<1>1. CASE it.location = -1
  BY <1>1 DEF Position
<1>2. CASE it.location = 0
  BY <1>2, BehindFacts
<1>3. CASE it.location = 1 /\ it.cursor > 1
  <2>1. /\ Moved(it, -1, 0) \in Iterators /\ Moved(it, -1, 0).len = it.len
        /\ Moved(it, -1, 0).location = 0
        /\ Position(Moved(it, -1, 0)) = it.cursor + (-1) - 0
    BY <1>3, MovedFacts
  <2>2. Position(it) = it.cursor - 1
    BY <1>3 DEF Position
  <2>3. PeekedBack(it) = Behind(Moved(it, -1, 0))
    BY <1>3
  <2>4. QED
    BY <2>1, <2>2, <2>3, BehindFacts
<1>4. CASE it.location = 1 /\ ~(it.cursor > 1)
  BY <1>4 DEF Position
<1>5. QED
  BY <1>1, <1>2, <1>3, <1>4

LEMMA PreviousFacts ==
    ASSUME NEW it \in Iterators
    PROVE  /\ previous(it) \in Iterators /\ previous(it).len = it.len
           /\ hasPrevious(it) => Position(previous(it)) = Position(it) - 1
           /\ ~hasPrevious(it) => Position(previous(it)) = Position(it)
<1>1. CASE hasPrevious(it)
  <2>1. PeekedBack(it) \in Iterators /\ PeekedBack(it).len = it.len
        /\ PeekedBack(it).location = -1 /\ Position(PeekedBack(it)) = Position(it)
    BY <1>1, HasPreviousIsExact DEF hasPrevious
  <2>2. Position(PeekedBack(it)) = PeekedBack(it).cursor + 1
    BY <2>1, IteratorFacts DEF Position
  <2>3. /\ Moved(PeekedBack(it), 0, 0) \in Iterators
        /\ Moved(PeekedBack(it), 0, 0).len = it.len
        /\ Position(Moved(PeekedBack(it), 0, 0)) = PeekedBack(it).cursor + 0 - 0
    BY <2>1, MovedFacts, IteratorFacts
  <2>4. QED
    BY <1>1, <2>1, <2>2, <2>3, IteratorFacts DEF previous
<1>2. CASE ~hasPrevious(it)
  BY <1>2, HasPreviousIsExact DEF previous
<1>3. QED
  BY <1>1, <1>2

\* isValid() tells whether the iterator stands at a key, and key() is that key.
LEMMA SettledFacts ==
    ASSUME NEW it \in Iterators
    PROVE  /\ isValid(it) <=> Position(it) \in 1 .. it.len
           /\ isValid(it) => Settled(it).cursor = Position(it)
           /\ Position(Settled(it)) = Position(it)
<1> USE IteratorFacts DEF isValid, Settled, CanNext, CanPrev
<1>1. CASE it.location = 0
  BY <1>1 DEF Position
<1>2. CASE it.location = 1 /\ it.cursor > 1
  <2>1. /\ Moved(it, -1, 0).location = 0 /\ Moved(it, -1, 0).cursor = it.cursor + (-1)
        /\ Position(Moved(it, -1, 0)) = it.cursor + (-1) - 0
    BY <1>2, MovedFacts
  <2>2. Position(it) = it.cursor - 1
    BY <1>2 DEF Position
  <2>3. Settled(it) = Moved(it, -1, 0)
    BY <1>2
  <2>4. QED
    BY <1>2, <2>1, <2>2, <2>3
<1>3. CASE it.location = -1 /\ it.cursor < it.len
  <2>1. /\ Moved(it, 1, 0).location = 0 /\ Moved(it, 1, 0).cursor = it.cursor + 1
        /\ Position(Moved(it, 1, 0)) = it.cursor + 1 - 0
    BY <1>3, MovedFacts
  <2>2. Position(it) = it.cursor + 1
    BY <1>3 DEF Position
  <2>3. Settled(it) = Moved(it, 1, 0)
    BY <1>3
  <2>4. QED
    BY <1>3, <2>1, <2>2, <2>3
<1>4. CASE (it.location = 1 /\ ~(it.cursor > 1)) \/ (it.location = -1 /\ ~(it.cursor < it.len))
  BY <1>4 DEF Position
<1>5. QED
  BY <1>1, <1>2, <1>3, <1>4

\* The iterator is a position in the list of the keys, for a database of any
\* size and wherever its cursor stands: hasNext and hasPrevious are exact and
\* only look, next and previous move by one key, isValid and key show the
\* key it stands at.
THEOREM IteratorWalksTheKeys ==
    \A it \in Iterators :
        /\ hasNext(it) <=> Position(it) < it.len
        /\ hasPrevious(it) <=> 1 < Position(it)
        /\ Position(Peeked(it)) = Position(it) /\ Position(PeekedBack(it)) = Position(it)
        /\ Position(next(it)) = IF hasNext(it) THEN Position(it) + 1 ELSE Position(it)
        /\ Position(previous(it)) = IF hasPrevious(it) THEN Position(it) - 1 ELSE Position(it)
        /\ isValid(it) <=> Position(it) \in 1 .. it.len
        /\ isValid(it) => Settled(it).cursor = Position(it)
<1> SUFFICES ASSUME NEW it \in Iterators
             PROVE  /\ hasNext(it) <=> Position(it) < it.len
                    /\ hasPrevious(it) <=> 1 < Position(it)
                    /\ Position(Peeked(it)) = Position(it)
                    /\ Position(PeekedBack(it)) = Position(it)
                    /\ Position(next(it)) = IF hasNext(it) THEN Position(it) + 1 ELSE Position(it)
                    /\ Position(previous(it)) =
                          IF hasPrevious(it) THEN Position(it) - 1 ELSE Position(it)
                    /\ isValid(it) <=> Position(it) \in 1 .. it.len
                    /\ isValid(it) => Settled(it).cursor = Position(it)
  OBVIOUS
<1>1. QED
  BY HasNextIsExact, NextFacts, HasPreviousIsExact, PreviousFacts, SettledFacts

\* An iterator that was just made, or sent to the front, is before the first
\* key: it is not valid, and a loop that asks isValid() first does nothing.
THEOREM FreshIteratorIsInvalid ==
    \A n \in Nat \ {0} : AtFront(n) \in Iterators /\ ~isValid(AtFront(n)) /\ hasNext(AtFront(n))
<1> SUFFICES ASSUME NEW n \in Nat \ {0}
             PROVE  AtFront(n) \in Iterators /\ ~isValid(AtFront(n)) /\ hasNext(AtFront(n))
  OBVIOUS
<1>1. AtFront(n) \in Iterators /\ AtFront(n).len = n
  BY DEF AtFront, Iterators
<1>2. Position(AtFront(n)) = 0
  BY DEF AtFront, Position
<1>3. QED
  BY <1>1, <1>2, SettledFacts, HasNextIsExact

-----------------------------------------------------------------------------

\* readdir's loop, whose iterator stands at its cursor, in the order of the names.
AtCursor(it, names) == it \in Iterators /\ it.location = 0 /\ it.len = Len(names) + 2

LEMMA LoopFacts ==
    ASSUME NEW names \in Seq(Names), NEW it, AtCursor(it, names)
    PROVE  /\ AtOwnKey(it) <=> it.cursor = 1
           /\ MetaValid(it, names) <=> it.cursor <= Len(names) + 1
           /\ it.cursor <= Len(names) + 1 =>
                 next(it) = [len |-> it.len, cursor |-> it.cursor + 1, location |-> 0]
           /\ MetaNext(it, names) <=> it.cursor <= Len(names)
           /\ Key(it, names) = names[it.cursor - 1]
<1> USE IteratorFacts, LenProperties DEF AtCursor
<1>1. Settled(it) = it /\ isValid(it)
  BY DEF Settled, isValid
<1>2. MetaValid(it, names) <=> it.cursor <= Len(names) + 1
  BY <1>1 DEF MetaValid
<1>3. ASSUME it.cursor <= Len(names) + 1
      PROVE  /\ next(it) = [len |-> it.len, cursor |-> it.cursor + 1, location |-> 0]
             /\ hasNext(it)
  <2>1. Peeked(it) = [len |-> it.len, cursor |-> it.cursor + 1, location |-> 1]
    BY <1>3 DEF Peeked, Ahead, CanNext, Moved
  <2>2. QED
    BY <2>1 DEF hasNext, next, Moved
<1>4. ~(it.cursor <= Len(names) + 1) => ~hasNext(it)
  BY DEF hasNext, Peeked, Ahead, CanNext
<1>5. MetaNext(it, names) <=> it.cursor <= Len(names)
  <2>1. CASE it.cursor <= Len(names) + 1
    <3>1. Settled(next(it)) = next(it) /\ isValid(next(it)) /\ next(it).cursor = it.cursor + 1
      BY <1>3, <2>1 DEF Settled, isValid
    <3>2. QED
      BY <1>3, <2>1, <3>1 DEF MetaNext, MetaValid
  <2>2. CASE ~(it.cursor <= Len(names) + 1)
    BY <1>4, <2>2 DEF MetaNext
  <2>3. QED
    BY <2>1, <2>2
<1>6. QED
  BY <1>1, <1>2, <1>3, <1>5 DEF AtOwnKey, Key

LEMMA EnteredFacts ==
    ASSUME NEW names \in Seq(Names), NEW it, AtCursor(it, names)
    PROVE  /\ AtCursor(Entered(it), names)
           /\ From(Entered(it)) = From(it)
           /\ Entered(it).cursor = From(it) + 1
           /\ From(it) \in Nat /\ 1 <= From(it)
           /\ AtEnd(it, names) <=> Len(names) < From(it)
<1> USE IteratorFacts, LenProperties DEF AtCursor
<1>1. CASE it.cursor = 1
  <2>1. Entered(it) = [len |-> it.len, cursor |-> 2, location |-> 0]
    BY <1>1, LoopFacts DEF Entered
  <2>2. Entered(it) \in Iterators
    BY <2>1 DEF Iterators
  <2>3. AtEnd(it, names) <=> Len(names) < 1
    BY <1>1, LoopFacts DEF AtEnd
  <2>4. QED
    BY <1>1, <2>1, <2>2, <2>3 DEF From
<1>2. CASE it.cursor # 1
  <2>1. Entered(it) = it
    BY <1>2, LoopFacts DEF Entered
  <2>2. AtEnd(it, names) <=> ~(it.cursor <= Len(names) + 1)
    BY <1>2, LoopFacts DEF AtEnd
  <2>3. QED
    BY <1>2, <2>1, <2>2 DEF From
<1>3. QED
  BY <1>1, <1>2

\* One name taken.
LEMMA TakenFacts ==
    ASSUME NEW names \in Seq(Names), NEW it, AtCursor(it, names), ~AtEnd(it, names)
    PROVE  /\ AtCursor(next(Entered(it)), names)
           /\ From(next(Entered(it))) = From(it) + 1
           /\ Key(Entered(it), names) = names[From(it)]
           /\ From(it) \in 1 .. Len(names)
           /\ MetaNext(Entered(it), names) <=> From(it) < Len(names)
<1>1. /\ AtCursor(Entered(it), names) /\ Entered(it).cursor = From(it) + 1
      /\ From(it) \in 1 .. Len(names)
  BY EnteredFacts, LenProperties
<1>2. /\ next(Entered(it)) = [len |-> Entered(it).len, cursor |-> From(it) + 2, location |-> 0]
      /\ MetaNext(Entered(it), names) <=> From(it) + 1 <= Len(names)
      /\ Key(Entered(it), names) = names[From(it)]
  BY <1>1, LoopFacts, LenProperties
<1>3. next(Entered(it)) \in Iterators
  BY <1>1, <1>2, LenProperties DEF AtCursor, Iterators
<1>4. QED
  BY <1>1, <1>2, <1>3, LenProperties DEF AtCursor, From

LEMMA FoundFacts ==
    ASSUME NEW names \in Seq(Names)
    PROVE  AtCursor(Found(KeysOf(names), 1), names) /\ From(Found(KeysOf(names), 1)) = 1
  BY LenProperties DEF AtCursor, Found, KeysOf, Iterators, From

LEMMA OrdersAreSequences ==
    ASSUME NEW S \in SUBSET Names, NEW names \in SetToSeqs(S)
    PROVE  names \in Seq(Names)
<1>1. IsFiniteSet(S)
  BY ListingAssumption, FS_Subset
<1>2. Cardinality(S) \in Nat
  BY <1>1, FS_CardinalityType
<1>3. names \in [1 .. Cardinality(S) -> S]
  BY DEF SetToSeqs
<1>4. names \in [1 .. Cardinality(S) -> Names]
  BY <1>3
<1>5. QED
  BY <1>2, <1>4, SeqDef

-----------------------------------------------------------------------------

\* The requests go with whether the directory is open; the iterator of an open
\* one stands at its cursor; a reply under way has a name or room for one.
Shape(h) ==
    /\ IF IsOpen(h) THEN AtCursor(fh[h], snap[h]) ELSE snap[h] = <<>>
    /\ asked[h] = "opendir" => ~IsOpen(h)
    /\ asked[h] \in {"readdir", "releasedir"} => IsOpen(h)
    /\ filling = h => asked[h] = "readdir" /\ (room = 0 => Len(buffer) > 0)

ListingInv == TypeOK /\ \A h \in Handles : Shape(h)

\* What a handle's shape does not depend on.
LEMMA ShapeFrame ==
    ASSUME NEW h \in Handles, Shape(h),
           fh'[h] = fh[h], snap'[h] = snap[h], asked'[h] = asked[h], filling' # h
    PROVE  Shape(h)'
  BY DEF Shape, IsOpen, AtCursor

LEMMA InitListing == Init => ListingInv
<1> SUFFICES ASSUME Init PROVE ListingInv
  OBVIOUS
<1>1. TypeOK
  BY EmptySeq DEF Init, TypeOK
<1>2. ASSUME NEW h \in Handles PROVE Shape(h)
  BY ListingAssumption DEF Init, Shape, IsOpen
<1>3. QED
  BY <1>1, <1>2 DEF ListingInv

\* The directory that is read is open.
LEMMA FillingFacts ==
    ASSUME ListingInv, NEW h \in Handles, filling = h
    PROVE  /\ AtCursor(fh[h], snap[h]) /\ snap[h] \in Seq(Names)
           /\ asked[h] = "readdir" /\ (room = 0 => Len(buffer) > 0)
           /\ buffer \in Seq(Names)
           /\ \A other \in Handles : other # h => filling # other
  BY DEF ListingInv, Shape, TypeOK

LEMMA AskListing ==
    ASSUME ListingInv, NEW h \in Handles, Ask(h)
    PROVE  ListingInv'
<1>1. PICK op \in Requests : /\ op = "opendir" <=> ~IsOpen(h)
                             /\ asked' = [asked EXCEPT ![h] = op]
  BY DEF Ask
<1>2. TypeOK'
  BY <1>1 DEF ListingInv, TypeOK, Ask, directory, loop, Requests
<1>3. ASSUME NEW other \in Handles PROVE Shape(other)'
  <2>1. /\ UNCHANGED <<fh, snap, filling, room, buffer>>
        /\ asked[h] = "nothing"
    BY DEF Ask, loop
  <2>2. Shape(other) /\ asked \in [Handles -> Requests \cup {"nothing"}]
    BY DEF ListingInv, TypeOK
  <2>3. CASE other = h
    <3>1. asked'[h] = op
      BY <1>1, <2>2
    <3>2. QED
      BY <1>1, <2>1, <2>2, <2>3, <3>1 DEF Shape, IsOpen, AtCursor, Requests
  <2>4. CASE other # h
    <3>1. asked'[other] = asked[other]
      BY <1>1, <2>2, <2>4
    <3>2. QED
      BY <2>1, <2>2, <3>1 DEF Shape, IsOpen, AtCursor
  <2>5. QED
    BY <2>3, <2>4
<1>4. QED
  BY <1>2, <1>3 DEF ListingInv

LEMMA OpendirListing ==
    ASSUME ListingInv, NEW h \in Handles, Opendir(h)
    PROVE  ListingInv'
<1>1. PICK names \in SetToSeqs(entries) :
          /\ snap' = [snap EXCEPT ![h] = names]
          /\ fh' = [fh EXCEPT ![h] = Found(KeysOf(names), 1)]
  BY DEF Opendir
<1>2. names \in Seq(Names)
  BY OrdersAreSequences DEF ListingInv, TypeOK
<1>3. AtCursor(Found(KeysOf(names), 1), names)
  BY <1>2, FoundFacts
<1>4. fh' \in [Handles -> Iterators \cup {NoIterator}]
  BY <1>1, <1>3 DEF ListingInv, TypeOK, AtCursor
<1>5. asked' = [asked EXCEPT ![h] = "nothing"] /\ filling = Nobody /\ filling' = Nobody
  BY DEF Opendir, Runs, Answered, loop
<1>6. TypeOK'
  BY <1>1, <1>2, <1>4, <1>5 DEF ListingInv, TypeOK, Opendir, directory, loop
<1>7. ASSUME NEW other \in Handles PROVE Shape(other)'
  <2>1. Shape(other) /\ filling' # other
    BY <1>5, ListingAssumption DEF ListingInv
  <2>2. CASE other = h
    <3>1. /\ fh'[h] = Found(KeysOf(names), 1) /\ snap'[h] = names
          /\ asked'[h] = "nothing"
      BY <1>1, <1>5 DEF ListingInv, TypeOK
    <3>2. Found(KeysOf(names), 1) # NoIterator
      BY <1>3 DEF AtCursor, Iterators, NoIterator
    <3>3. QED
      BY <1>3, <2>1, <2>2, <3>1, <3>2 DEF Shape, IsOpen, AtCursor
  <2>3. CASE other # h
    <3>1. fh'[other] = fh[other] /\ snap'[other] = snap[other] /\ asked'[other] = asked[other]
      BY <1>1, <1>5, <2>3 DEF ListingInv, TypeOK
    <3>2. QED
      BY <2>1, <3>1, ShapeFrame
  <2>4. QED
    BY <2>2, <2>3
<1>8. QED
  BY <1>6, <1>7 DEF ListingInv

LEMMA ReaddirListing ==
    ASSUME ListingInv, NEW h \in Handles, Readdir(h)
    PROVE  ListingInv'
<1>1. /\ filling' = h /\ room' \in 1 .. MaxRoom /\ buffer' = <<>>
      /\ UNCHANGED <<fh, snap, asked>> /\ asked[h] = "readdir"
  BY DEF Readdir, PrepareBuffer, Runs
<1>2. room' \in Nat /\ room' # 0
  BY <1>1, ListingAssumption
<1>3. TypeOK'
  BY <1>1, <1>2, EmptySeq DEF ListingInv, TypeOK, Readdir, directory
<1>4. ASSUME NEW other \in Handles PROVE Shape(other)'
  <2>1. Shape(other)
    BY DEF ListingInv
  <2>2. QED
    BY <1>1, <1>2, <2>1 DEF Shape, IsOpen, AtCursor
<1>5. QED
  BY <1>3, <1>4 DEF ListingInv

\* The end of readdir: the iterator is where it was or further on.
LEMMA SendListing ==
    ASSUME ListingInv, NEW h \in Handles, filling = h, NEW it, NEW names \in Seq(Names),
           AtCursor(it, snap[h]), fh' = [fh EXCEPT ![h] = it], Send(h, names),
           UNCHANGED <<directory, snap>>
    PROVE  ListingInv'
<1>1. /\ asked' = [asked EXCEPT ![h] = "nothing"]
      /\ reply' = [reply EXCEPT ![h] = names]
      /\ filling' = Nobody /\ room' = 0 /\ buffer' = <<>>
  BY DEF Send, Answered
<1>2. fh' \in [Handles -> Iterators \cup {NoIterator}]
  BY DEF ListingInv, TypeOK, AtCursor
<1>3. TypeOK'
  BY <1>1, <1>2, EmptySeq DEF ListingInv, TypeOK, directory
<1>4. ASSUME NEW other \in Handles PROVE Shape(other)'
  <2>1. Shape(other) /\ filling' # other
    BY <1>1, ListingAssumption DEF ListingInv
  <2>2. CASE other = h
    <3>1. fh'[h] = it /\ snap'[h] = snap[h] /\ asked'[h] = "nothing"
      BY <1>1 DEF ListingInv, TypeOK
    <3>2. it # NoIterator
      BY DEF AtCursor, Iterators, NoIterator
    <3>3. QED
      BY <2>1, <2>2, <3>1, <3>2 DEF Shape, IsOpen, AtCursor
  <2>3. CASE other # h
    <3>1. fh'[other] = fh[other] /\ snap'[other] = snap[other] /\ asked'[other] = asked[other]
      BY <1>1, <2>3 DEF ListingInv, TypeOK
    <3>2. QED
      BY <2>1, <3>1, ShapeFrame
  <2>4. QED
    BY <2>2, <2>3
<1>5. QED
  BY <1>3, <1>4 DEF ListingInv

LEMMA SendAtEndListing ==
    ASSUME ListingInv, NEW h \in Handles, SendAtEnd(h)
    PROVE  ListingInv'
<1>1. /\ filling = h /\ fh' = [fh EXCEPT ![h] = Entered(fh[h])] /\ Send(h, buffer)
      /\ UNCHANGED <<directory, snap>>
  BY DEF SendAtEnd
<1>2. AtCursor(Entered(fh[h]), snap[h]) /\ buffer \in Seq(Names)
  BY <1>1, FillingFacts, EnteredFacts
<1>3. QED
  BY <1>1, <1>2, SendListing

LEMMA SendWhenFullListing ==
    ASSUME ListingInv, NEW h \in Handles, SendWhenFull(h)
    PROVE  ListingInv'
<1>1. /\ filling = h /\ fh' = [fh EXCEPT ![h] = Entered(fh[h])] /\ Send(h, buffer)
      /\ UNCHANGED <<directory, snap>>
  BY DEF SendWhenFull, Kept
<1>2. AtCursor(Entered(fh[h]), snap[h]) /\ buffer \in Seq(Names)
  BY <1>1, FillingFacts, EnteredFacts
<1>3. QED
  BY <1>1, <1>2, SendListing

\* What DirAdd adds, and the iterator it leaves.
LEMMA DirAddFacts ==
    ASSUME ListingInv, NEW h \in Handles, DirAdd(h)
    PROVE  /\ From(fh[h]) \in 1 .. Len(snap[h])
           /\ Append(buffer, snap[h][From(fh[h])]) \in Seq(Names)
           /\ fh' = [fh EXCEPT ![h] = next(Entered(fh[h]))]
           /\ AtCursor(next(Entered(fh[h])), snap[h])
           /\ From(next(Entered(fh[h]))) = From(fh[h]) + 1
           /\ IF From(fh[h]) < Len(snap[h])
              THEN /\ buffer' = Append(buffer, snap[h][From(fh[h])]) /\ room' = room - 1
                   /\ UNCHANGED <<filling, asked, reply>>
              ELSE Send(h, Append(buffer, snap[h][From(fh[h])]))
<1>1. filling = h /\ ~AtEnd(fh[h], snap[h])
  BY DEF DirAdd
<1>2. /\ AtCursor(fh[h], snap[h]) /\ snap[h] \in Seq(Names) /\ buffer \in Seq(Names)
  BY <1>1, FillingFacts
<1>3. /\ AtCursor(next(Entered(fh[h])), snap[h])
      /\ From(next(Entered(fh[h]))) = From(fh[h]) + 1
      /\ Key(Entered(fh[h]), snap[h]) = snap[h][From(fh[h])]
      /\ From(fh[h]) \in 1 .. Len(snap[h])
      /\ MetaNext(Entered(fh[h]), snap[h]) <=> From(fh[h]) < Len(snap[h])
  BY <1>1, <1>2, TakenFacts
<1>4. snap[h][From(fh[h])] \in Names
  BY <1>2, <1>3, ElementOfSeq
<1>5. Append(buffer, snap[h][From(fh[h])]) \in Seq(Names)
  BY <1>2, <1>4, AppendProperties
<1>6. QED
  BY <1>3, <1>5 DEF DirAdd

LEMMA DirAddListing ==
    ASSUME ListingInv, NEW h \in Handles, DirAdd(h)
    PROVE  ListingInv'
<1> DEFINE it == next(Entered(fh[h]))
           names == Append(buffer, snap[h][From(fh[h])])
<1>1. /\ filling = h /\ room > 0 /\ UNCHANGED <<directory, snap>>
  BY DEF DirAdd, Fits
<1>2. /\ fh' = [fh EXCEPT ![h] = it] /\ AtCursor(it, snap[h]) /\ names \in Seq(Names)
  BY DirAddFacts
<1>3. CASE ~(From(fh[h]) < Len(snap[h]))
  <2>1. Send(h, names)
    BY <1>3, DirAddFacts
  <2> HIDE DEF it, names
  <2>2. QED
    BY <1>1, <1>2, <2>1, SendListing
<1>4. CASE From(fh[h]) < Len(snap[h])
  <2>1. buffer' = names /\ room' = room - 1 /\ UNCHANGED <<filling, asked, reply>>
    BY <1>4, DirAddFacts
  <2>2. Len(names) > 0
    BY <1>1, FillingFacts, LenProperties, DirAddFacts
  <2> HIDE DEF it, names
  <2>3. fh' \in [Handles -> Iterators \cup {NoIterator}]
    BY <1>2 DEF ListingInv, TypeOK, AtCursor
  <2>4. room' \in Nat
    BY <1>1, <2>1 DEF ListingInv, TypeOK
  <2>5. TypeOK'
    BY <1>1, <1>2, <2>1, <2>3, <2>4 DEF ListingInv, TypeOK, directory
  <2>6. ASSUME NEW other \in Handles PROVE Shape(other)'
    <3>1. Shape(other) /\ snap' = snap /\ asked' = asked /\ filling' = h
      BY <1>1, <2>1 DEF ListingInv
    <3>2. CASE other = h
      <4>1. fh'[h] = it
        BY <1>2 DEF ListingInv, TypeOK
      <4>2. it # NoIterator
        BY <1>2 DEF AtCursor, Iterators, NoIterator
      <4>3. QED
        BY <1>1, <1>2, <2>1, <2>2, <3>1, <3>2, <4>1, <4>2 DEF Shape, IsOpen, AtCursor
    <3>3. CASE other # h
      <4>1. fh'[other] = fh[other]
        BY <1>2, <3>3 DEF ListingInv, TypeOK
      <4>2. QED
        BY <3>1, <3>3, <4>1, ShapeFrame
    <3>4. QED
      BY <3>2, <3>3
  <2>7. QED
    BY <2>5, <2>6 DEF ListingInv
<1>5. QED
  BY <1>3, <1>4

LEMMA ReleasedirListing ==
    ASSUME ListingInv, NEW h \in Handles, Releasedir(h)
    PROVE  ListingInv'
<1>1. /\ asked' = [asked EXCEPT ![h] = "nothing"]
      /\ fh' = [fh EXCEPT ![h] = NoIterator] /\ snap' = [snap EXCEPT ![h] = <<>>]
      /\ filling = Nobody /\ filling' = Nobody
  BY DEF Releasedir, Runs, Answered, loop
<1>2. TypeOK'
  BY <1>1, EmptySeq DEF ListingInv, TypeOK, Releasedir, directory, loop
<1>3. ASSUME NEW other \in Handles PROVE Shape(other)'
  <2>1. Shape(other) /\ filling' # other
    BY <1>1, ListingAssumption DEF ListingInv
  <2>2. CASE other = h
    <3>1. fh'[h] = NoIterator /\ snap'[h] = <<>> /\ asked'[h] = "nothing"
      BY <1>1 DEF ListingInv, TypeOK
    <3>2. QED
      BY <2>1, <2>2, <3>1 DEF Shape, IsOpen
  <2>3. CASE other # h
    <3>1. fh'[other] = fh[other] /\ snap'[other] = snap[other] /\ asked'[other] = asked[other]
      BY <1>1, <2>3 DEF ListingInv, TypeOK
    <3>2. QED
      BY <2>1, <3>1, ShapeFrame
  <2>4. QED
    BY <2>2, <2>3
<1>4. QED
  BY <1>2, <1>3 DEF ListingInv

\* The directory changes under the listings, none of which sees it.
DirectoryStep == (\E n \in Names : Edit(n)) \/ DropCopy \/ ReceiveCopy

LEMMA DirectoryStepFacts ==
    ASSUME ListingInv, DirectoryStep
    PROVE  /\ entries' \subseteq Names /\ is_local' \in BOOLEAN /\ changes' \in Nat
           /\ UNCHANGED <<asked, reply, snap, fh, loop>>
<1>1. ASSUME NEW n \in Names, Edit(n)
      PROVE  /\ entries' \subseteq Names /\ is_local' \in BOOLEAN /\ changes' \in Nat
             /\ UNCHANGED <<asked, reply, snap, fh, loop>>
  BY <1>1 DEF Edit, MayChange, ListingInv, TypeOK
<1>2. CASE DropCopy
  <2>1. changes' \in Nat
    BY <1>2 DEF DropCopy, MayChange, ListingInv, TypeOK
  <2>2. entries' \subseteq Names /\ is_local' \in BOOLEAN
    BY <1>2 DEF DropCopy, ListingInv, TypeOK
  <2>3. UNCHANGED <<asked, reply, snap, fh, loop>>
    BY <1>2 DEF DropCopy
  <2>4. QED
    BY <2>1, <2>2, <2>3
<1>3. CASE ReceiveCopy
  BY <1>3 DEF ReceiveCopy, ListingInv, TypeOK
<1>4. QED
  BY <1>1, <1>2, <1>3 DEF DirectoryStep

LEMMA DirectoryStepListing ==
    ASSUME ListingInv, DirectoryStep
    PROVE  ListingInv'
<1>1. /\ entries' \subseteq Names /\ is_local' \in BOOLEAN /\ changes' \in Nat
      /\ UNCHANGED <<asked, reply, snap, fh, loop>>
  BY DirectoryStepFacts
<1>2. TypeOK'
  BY <1>1 DEF ListingInv, TypeOK, loop
<1>3. ASSUME NEW h \in Handles PROVE Shape(h)'
  BY <1>1 DEF ListingInv, Shape, IsOpen, AtCursor, loop
<1>4. QED
  BY <1>2, <1>3 DEF ListingInv

LEMMA NextListing == ListingInv /\ [Next]_vars => ListingInv'
<1> SUFFICES ASSUME ListingInv, [Next]_vars PROVE ListingInv'
  OBVIOUS
<1>1. ASSUME NEW h \in Handles, Ask(h) \/ Handler(h) PROVE ListingInv'
  BY <1>1, AskListing, OpendirListing, ReaddirListing, ReleasedirListing, SendAtEndListing,
     SendWhenFullListing, DirAddListing DEF Handler
<1>2. CASE DirectoryStep
  BY <1>2, DirectoryStepListing
<1>3. CASE UNCHANGED vars
  BY <1>3 DEF vars, directory, loop, ListingInv, TypeOK, Shape, IsOpen, AtCursor
<1>4. QED
  BY <1>1, <1>2, <1>3 DEF Next, DirectoryStep

LEMMA ListingInvAlways == Spec => []ListingInv
  BY InitListing, NextListing, PTL DEF Spec

\* The iterators of the open directories never leave the keys their
\* transaction sees, whatever is read, closed or changed, in directories of
\* any size.
THEOREM ListingTypeCorrect == Spec => []TypeOK
<1>1. ListingInv => TypeOK
  BY DEF ListingInv
<1>2. QED
  BY <1>1, ListingInvAlways, PTL

-----------------------------------------------------------------------------

\* What is still to be read: with the names of the reply under way.
Left(h) == IF filling = h THEN buffer \o Rest(h) ELSE Rest(h)
left == [h \in Handles |-> Left(h)]

LEMMA CutFacts ==
    ASSUME NEW s \in Seq(Names), NEW t \in Seq(Names)
    PROVE  /\ Len(s) \in 0 .. Len(s \o t)
           /\ SubSeq(s \o t, 1, Len(s)) = s
           /\ SubSeq(s \o t, Len(s) + 1, Len(s \o t)) = t
<1> DEFINE st == s \o t
<1>1. /\ st \in Seq(Names) /\ Len(st) = Len(s) + Len(t)
      /\ \A i \in 1 .. Len(s) + Len(t) : st[i] = IF i <= Len(s) THEN s[i] ELSE t[i - Len(s)]
  BY ConcatProperties
<1>2. Len(s) \in Nat /\ Len(t) \in Nat
  BY LenProperties
<1> HIDE DEF st
<1>3. \A i \in 1 .. Len(st) : st[i] \in Names
  BY <1>1, ElementOfSeq
<1>4. SubSeq(st, 1, Len(s)) = s
  <2>1. /\ SubSeq(st, 1, Len(s)) \in Seq(Names)
        /\ Len(SubSeq(st, 1, Len(s))) = Len(s)
        /\ \A i \in 1 .. Len(s) : SubSeq(st, 1, Len(s))[i] = st[i]
    BY <1>1, <1>2, <1>3, SubSeqProperties
  <2>2. \A i \in 1 .. Len(s) : st[i] = s[i]
    BY <1>1, <1>2
  <2>3. QED
    BY <2>1, <2>2, SeqEqual
<1>5. SubSeq(st, Len(s) + 1, Len(st)) = t
  <2>1. /\ SubSeq(st, Len(s) + 1, Len(st)) \in Seq(Names)
        /\ Len(SubSeq(st, Len(s) + 1, Len(st))) = Len(t)
        /\ \A i \in 1 .. Len(t) : SubSeq(st, Len(s) + 1, Len(st))[i] = st[Len(s) + i]
    BY <1>1, <1>2, <1>3, SubSeqProperties
  <2>2. \A i \in 1 .. Len(t) : st[Len(s) + i] = t[i]
    BY <1>1, <1>2
  <2>3. QED
    BY <2>1, <2>2, SeqEqual
<1>6. QED
  BY <1>1, <1>2, <1>4, <1>5 DEF st

\* The rest of the names of an open directory, and of one that is not.
LEMMA RestFacts ==
    ASSUME ListingInv, NEW h \in Handles
    PROVE  /\ Rest(h) \in Seq(Names)
           /\ IsOpen(h) /\ Len(snap[h]) < From(fh[h]) => Rest(h) = <<>>
<1>1. snap[h] \in Seq(Names) /\ Len(snap[h]) \in Nat
  BY LenProperties DEF ListingInv, TypeOK
<1>2. From(fh[h]) \in Nat /\ 1 <= From(fh[h])
  <2>1. CASE fh[h] \in Iterators
    BY <2>1, IteratorFacts DEF From
  <2>2. CASE fh[h] = NoIterator
    BY <2>2 DEF From, NoIterator
  <2>3. QED
    BY <2>1, <2>2 DEF ListingInv, TypeOK
<1>3. \A i \in From(fh[h]) .. Len(snap[h]) : snap[h][i] \in Names
  BY <1>1, <1>2, ElementOfSeq
<1>4. Rest(h) \in Seq(Names)
  BY <1>1, <1>2, <1>3, SubSeqProperties DEF Rest
<1>5. Len(snap[h]) < From(fh[h]) => Rest(h) = <<>>
  BY <1>1, <1>2, SubSeqEmpty DEF Rest
<1>6. QED
  BY <1>4, <1>5

LEMMA AskIsAsk ==
    ASSUME ListingInv, NEW h \in Handles, Ask(h)
    PROVE  Stream!Next
<1>1. left' = left
  BY DEF Ask, loop, left, Left, Rest
<1>2. Stream!Ask(h)
  BY <1>1 DEF Ask, Stream!Ask, Requests, directory, left, Left
<1>3. QED
  BY <1>2 DEF Stream!Next

LEMMA OpendirIsOpen ==
    ASSUME ListingInv, NEW h \in Handles, Opendir(h)
    PROVE  Stream!Next
<1>1. PICK names \in SetToSeqs(entries) :
          /\ snap' = [snap EXCEPT ![h] = names]
          /\ fh' = [fh EXCEPT ![h] = Found(KeysOf(names), 1)]
  BY DEF Opendir
<1>2. names \in Seq(Names)
  BY OrdersAreSequences DEF ListingInv, TypeOK
<1>3. filling = Nobody /\ filling' = Nobody /\ Nobody \notin Handles
  BY ListingAssumption DEF Opendir, Runs, loop
<1>4. Left(h)' = names
  <2>1. fh'[h] = Found(KeysOf(names), 1) /\ snap'[h] = names
    BY <1>1 DEF ListingInv, TypeOK
  <2>2. SubSeq(names, 1, Len(names)) = names
    BY <1>2, SubSeqFull
  <2>3. QED
    BY <1>2, <1>3, <2>1, <2>2, FoundFacts DEF Left, Rest
<1>5. \A other \in Handles : other # h => Left(other)' = Left(other)
  BY <1>1, <1>3 DEF ListingInv, TypeOK, Left, Rest
<1>6. left' = [left EXCEPT ![h] = names]
  BY <1>4, <1>5 DEF left
<1>7. Stream!Open(h)
  <2>1. Stream!Answer(h, "opendir") /\ reply' = [reply EXCEPT ![h] = Unread]
    BY DEF Opendir, Runs, Answered, directory, Stream!Answer
  <2>2. \E order \in SetToSeqs(entries) : left' = [left EXCEPT ![h] = order]
    BY <1>6
  <2>3. SetToSeqs(entries) = Stream!SetToSeqs(entries)
    BY DEF SetToSeqs, Stream!SetToSeqs, Cardinality, Stream!Cardinality
  <2>4. \E order \in Stream!SetToSeqs(entries) : left' = [left EXCEPT ![h] = order]
    BY <2>2, <2>3
  <2>5. QED
    BY <2>1, <2>4, Zenon DEF Stream!Open, left, Left
<1>8. QED
  BY <1>7 DEF Stream!Next

\* Nothing is read yet.
LEMMA ReaddirIsSilent ==
    ASSUME ListingInv, NEW h \in Handles, Readdir(h)
    PROVE  UNCHANGED Stream!vars
<1>1. /\ filling = Nobody /\ filling' = h /\ buffer' = <<>> /\ UNCHANGED <<fh, snap>>
      /\ Nobody \notin Handles
  BY ListingAssumption DEF Readdir, PrepareBuffer, Runs
<1>2. Rest(h) \in Seq(Names)
  BY RestFacts
<1>3. \A other \in Handles : Rest(other)' = Rest(other)
  BY <1>1 DEF Rest
<1>4. Left(h)' = Left(h)
  BY <1>1, <1>2, <1>3, ConcatEmptySeq DEF Left
<1>5. \A other \in Handles : other # h => Left(other)' = Left(other)
  BY <1>1, <1>3 DEF Left
<1>6. left' = left
  BY <1>4, <1>5 DEF left
<1>7. QED
  BY <1>6 DEF Readdir, directory, Stream!vars, left, Left

\* A reply: the first of what was to be read, all of it or at least something.
LEMMA SendIsRead ==
    ASSUME ListingInv, NEW h \in Handles, filling = h,
           NEW names \in Seq(Names), NEW rest \in Seq(Names),
           Left(h) = names \o rest, Rest(h)' = rest, names = <<>> => rest = <<>>,
           \A other \in Handles : other # h => Rest(other)' = Rest(other),
           Send(h, names), UNCHANGED directory
    PROVE  Stream!Next
<1>1. filling' = Nobody /\ Nobody \notin Handles /\ asked[h] = "readdir"
  BY ListingAssumption, FillingFacts DEF Send
<1>2. left[h] = names \o rest
  BY DEF left
<1>3. left' = [left EXCEPT ![h] = rest]
  <2>1. Left(h)' = rest
    BY <1>1 DEF Left
  <2>2. \A other \in Handles : other # h => Left(other)' = Left(other)
    BY <1>1 DEF Left
  <2>3. QED
    BY <2>1, <2>2 DEF left
<1>4. PICK n \in 0 .. Len(left[h]) : /\ n = Len(names)
                                     /\ SubSeq(left[h], 1, n) = names
                                     /\ SubSeq(left[h], n + 1, Len(left[h])) = rest
  BY <1>2, CutFacts
<1>5. n = 0 => left[h] = <<>>
  <2>1. n = 0 => names = <<>>
    BY <1>4, EmptySeq
  <2>2. QED
    BY <1>2, <2>1, ConcatEmptySeq
<1>6. reply' = [reply EXCEPT ![h] = SubSeq(left[h], 1, n)]
  BY <1>4 DEF Send
<1>7. left' = [left EXCEPT ![h] = SubSeq(left[h], n + 1, Len(left[h]))]
  BY <1>3, <1>4
<1>8. Stream!Answer(h, "readdir")
  BY <1>1 DEF Send, Answered, directory, Stream!Answer
<1>9. \E k \in 0 .. Len(left[h]) :
          /\ k = 0 => left[h] = <<>>
          /\ reply' = [reply EXCEPT ![h] = SubSeq(left[h], 1, k)]
          /\ left' = [left EXCEPT ![h] = SubSeq(left[h], k + 1, Len(left[h]))]
  BY <1>5, <1>6, <1>7
<1>10. Stream!Read(h)
  BY <1>8, <1>9, Zenon DEF Stream!Read, left, Left
<1>11. QED
  BY <1>10 DEF Stream!Next

\* The iterator of one handle moves; the others have the same to read.
LEMMA MovedRest ==
    ASSUME ListingInv, NEW h \in Handles, NEW it, fh' = [fh EXCEPT ![h] = it], snap' = snap
    PROVE  /\ Rest(h)' = SubSeq(snap[h], From(it), Len(snap[h]))
           /\ \A other \in Handles : other # h => Rest(other)' = Rest(other)
  BY DEF ListingInv, TypeOK, Rest

LEMMA SendAtEndIsRead ==
    ASSUME ListingInv, NEW h \in Handles, SendAtEnd(h)
    PROVE  Stream!Next
<1>1. /\ filling = h /\ AtEnd(fh[h], snap[h]) /\ fh' = [fh EXCEPT ![h] = Entered(fh[h])]
      /\ Send(h, buffer) /\ UNCHANGED <<directory, snap>>
  BY DEF SendAtEnd
<1>2. AtCursor(fh[h], snap[h]) /\ snap[h] \in Seq(Names) /\ buffer \in Seq(Names)
  BY <1>1, FillingFacts
<1>3. From(Entered(fh[h])) = From(fh[h]) /\ Len(snap[h]) < From(fh[h])
  BY <1>1, <1>2, EnteredFacts
<1>4. Rest(h) = <<>>
  BY <1>2, <1>3, RestFacts DEF AtCursor, IsOpen, NoIterator, Iterators
<1>5. /\ Rest(h)' = <<>>
      /\ \A other \in Handles : other # h => Rest(other)' = Rest(other)
  BY <1>1, <1>3, <1>4, MovedRest DEF Rest
<1>6. Left(h) = buffer \o <<>> /\ <<>> \in Seq(Names)
  BY <1>1, <1>4, EmptySeq DEF Left
<1>7. QED
  BY <1>1, <1>2, <1>5, <1>6, SendIsRead

LEMMA SendWhenFullIsRead ==
    ASSUME ListingInv, NEW h \in Handles, SendWhenFull(h)
    PROVE  Stream!Next
<1>1. /\ filling = h /\ room = 0 /\ fh' = [fh EXCEPT ![h] = Entered(fh[h])]
      /\ Send(h, buffer) /\ UNCHANGED <<directory, snap>>
  BY DEF SendWhenFull, Kept, Fits, ListingInv, TypeOK
<1>2. /\ AtCursor(fh[h], snap[h]) /\ snap[h] \in Seq(Names) /\ buffer \in Seq(Names)
      /\ Len(buffer) > 0
  BY <1>1, FillingFacts
<1>3. From(Entered(fh[h])) = From(fh[h])
  BY <1>2, EnteredFacts
<1>4. /\ Rest(h)' = Rest(h)
      /\ \A other \in Handles : other # h => Rest(other)' = Rest(other)
  BY <1>1, <1>3, MovedRest DEF Rest
<1>5. Left(h) = buffer \o Rest(h) /\ Rest(h) \in Seq(Names) /\ buffer # <<>>
  BY <1>1, <1>2, RestFacts, EmptySeq DEF Left
<1>6. QED
  BY <1>1, <1>2, <1>4, <1>5, SendIsRead

\* The next name goes from what is to be read to the reply under way.
LEMMA DirAddIsReadOrSilent ==
    ASSUME ListingInv, NEW h \in Handles, DirAdd(h)
    PROVE  Stream!Next \/ UNCHANGED Stream!vars
<1> DEFINE from == From(fh[h])
           key == snap[h][from]
           rest == SubSeq(snap[h], from + 1, Len(snap[h]))
<1>1. filling = h /\ UNCHANGED <<directory, snap>> /\ Nobody \notin Handles
  BY ListingAssumption DEF DirAdd
<1>2. snap[h] \in Seq(Names) /\ buffer \in Seq(Names) /\ Len(snap[h]) \in Nat
  BY <1>1, FillingFacts, LenProperties
<1>3. /\ from \in 1 .. Len(snap[h]) /\ fh' = [fh EXCEPT ![h] = next(Entered(fh[h]))]
      /\ From(next(Entered(fh[h]))) = from + 1 /\ Append(buffer, key) \in Seq(Names)
  BY DirAddFacts
<1>4. /\ Rest(h)' = rest
      /\ \A other \in Handles : other # h => Rest(other)' = Rest(other)
  BY <1>1, <1>3, MovedRest
<1>5. key \in Names
  BY <1>2, <1>3, ElementOfSeq
<1>6. rest \in Seq(Names)
  <2>1. \A i \in from + 1 .. Len(snap[h]) : snap[h][i] \in Names
    BY <1>2, <1>3, ElementOfSeq
  <2>2. QED
    BY <1>2, <1>3, <2>1, SubSeqProperties
<1>7. Left(h) = Append(buffer, key) \o rest
  <2>1. Rest(h) = <<key>> \o rest
    <3>1. Len(snap[h]) \in from .. Len(snap[h])
      BY <1>2, <1>3
    <3>2. SubSeq(snap[h], from, Len(snap[h])) = <<key>> \o rest
      BY ONLY <1>2, <1>3, <3>1, SubSeqRecursiveFirst
    <3>3. QED
      BY <3>2 DEF Rest
  <2>2. Left(h) = buffer \o (<<key>> \o rest)
    BY <1>1, <2>1 DEF Left
  <2>3. <<key>> \in Seq(Names)
    BY <1>5
  <2> HIDE DEF key, rest
  <2>4. buffer \o (<<key>> \o rest) = (buffer \o <<key>>) \o rest
    BY <1>2, <1>6, <2>3, ConcatAssociative
  <2>5. Append(buffer, key) = buffer \o <<key>>
    BY <1>2, <1>5, AppendIsConcat
  <2>6. QED
    BY <2>2, <2>4, <2>5
<1>8. CASE from < Len(snap[h])
  <2>1. buffer' = Append(buffer, key) /\ UNCHANGED <<filling, asked, reply>>
    BY <1>8, DirAddFacts
  <2> HIDE DEF from, key, rest
  <2>2. Left(h)' = Left(h)
    BY <1>1, <1>4, <1>7, <2>1 DEF Left
  <2>3. \A other \in Handles : other # h => Left(other)' = Left(other)
    BY <1>1, <1>4, <2>1 DEF Left
  <2>4. left' = left
    BY <2>2, <2>3 DEF left
  <2>5. QED
    BY <1>1, <2>1, <2>4 DEF directory, Stream!vars, left, Left
<1>9. CASE ~(from < Len(snap[h]))
  <2>1. Send(h, Append(buffer, key))
    BY <1>9, DirAddFacts
  <2>2. Append(buffer, key) # <<>>
    BY <1>2, <1>5, AppendProperties
  <2> HIDE DEF from, key, rest
  <2>3. QED
    BY <1>1, <1>3, <1>4, <1>6, <1>7, <2>1, <2>2, SendIsRead
<1>10. QED
  BY <1>8, <1>9

LEMMA ReleasedirIsRelease ==
    ASSUME ListingInv, NEW h \in Handles, Releasedir(h)
    PROVE  Stream!Next
<1>1. /\ fh' = [fh EXCEPT ![h] = NoIterator] /\ snap' = [snap EXCEPT ![h] = <<>>]
      /\ filling = Nobody /\ filling' = Nobody /\ Nobody \notin Handles
  BY ListingAssumption DEF Releasedir, Runs, loop
<1>2. Left(h)' = <<>>
  <2>1. snap'[h] = <<>> /\ fh'[h] = NoIterator
    BY <1>1 DEF ListingInv, TypeOK
  <2>2. From(NoIterator) = 1 /\ Len(<<>>) = 0
    BY DEF From, NoIterator
  <2>3. SubSeq(<<>>, 1, 0) = <<>>
    BY SubSeqEmpty
  <2>4. QED
    BY <1>1, <2>1, <2>2, <2>3 DEF Left, Rest
<1>3. \A other \in Handles : other # h => Left(other)' = Left(other)
  BY <1>1 DEF ListingInv, TypeOK, Left, Rest
<1>4. left' = [left EXCEPT ![h] = <<>>]
  BY <1>2, <1>3 DEF left
<1>5. Stream!Release(h)
  BY <1>4 DEF Releasedir, Runs, Answered, directory, Stream!Release, Stream!Answer, left, Left
<1>6. QED
  BY <1>5 DEF Stream!Next

LEMMA DirectoryStepIsChange ==
    ASSUME ListingInv, DirectoryStep
    PROVE  Stream!Next
<1>1. entries' \subseteq Names /\ UNCHANGED <<asked, reply, snap, fh, loop>>
  BY DirectoryStepFacts
<1>2. left' = left
  BY <1>1 DEF loop, left, Left, Rest
<1>3. Stream!Change
  BY <1>1, <1>2 DEF Stream!Change, left, Left
<1>4. QED
  BY <1>3 DEF Stream!Next

LEMMA InitIsInit == Init => Stream!Init
<1> SUFFICES ASSUME Init PROVE Stream!Init
  OBVIOUS
<1>1. ASSUME NEW h \in Handles PROVE Left(h) = <<>>
  <2>1. snap[h] = <<>> /\ fh[h] = NoIterator /\ filling # h
    BY ListingAssumption DEF Init
  <2>2. From(NoIterator) = 1 /\ Len(<<>>) = 0
    BY DEF From, NoIterator
  <2>3. SubSeq(<<>>, 1, 0) = <<>>
    BY SubSeqEmpty
  <2>4. QED
    BY <2>1, <2>2, <2>3 DEF Left, Rest
<1>2. left = [h \in Handles |-> <<>>]
  BY <1>1 DEF left
<1>3. QED
  BY <1>2 DEF Init, Stream!Init, left, Left

LEMMA NextIsNext == ListingInv /\ [Next]_vars => [Stream!Next]_(Stream!vars)
<1> SUFFICES ASSUME ListingInv, [Next]_vars PROVE Stream!Next \/ UNCHANGED Stream!vars
  OBVIOUS
<1>1. ASSUME NEW h \in Handles, Ask(h) \/ Handler(h)
      PROVE  Stream!Next \/ UNCHANGED Stream!vars
  BY <1>1, AskIsAsk, OpendirIsOpen, ReaddirIsSilent, ReleasedirIsRelease, SendAtEndIsRead,
     SendWhenFullIsRead, DirAddIsReadOrSilent DEF Handler
<1>2. CASE DirectoryStep
  BY <1>2, DirectoryStepIsChange
<1>3. CASE UNCHANGED vars
  <2>1. left' = left
    BY <1>3 DEF vars, loop, left, Left, Rest
  <2>2. QED
    BY <1>3, <2>1 DEF vars, directory, Stream!vars, left, Left
<1>4. QED
  BY <1>1, <1>2, <1>3 DEF Next, DirectoryStep

\* The listing implements the stream: each entry of the directory as it was
\* at opendir once, in order, in pieces that are empty only at the end, for
\* any number of open directories of any size and buffers of any length.
THEOREM ListingIsAStream == Spec => IsAStream
  BY InitIsInit, NextIsNext, ListingInvAlways, PTL DEF Spec, IsAStream, Stream!Spec
===============================================================================
