----------------------------- MODULE FsckProofs -----------------------------
(***************************************************************************)
(* Proofs about Fsck, and so about Namespace, which it runs over: types,   *)
(* and that FsckInv is inductive.  First what is needed of sequences and   *)
(* of graphs; then types, one lemma per request and pass; then what every  *)
(* step does to the tree: a handler decides on writes that all only add,   *)
(* or only remove leaves, or move one name (Growing, Removing, Moving),    *)
(* and each write keeps that.  On FsckInv rest what fsck walks past        *)
(* (WalkedInv) and the names of directories (OneNameInv).                  *)
(***************************************************************************)
EXTENDS FsckInvariant, FiniteSetTheorems, SequenceTheorems, NumberProofs, TLAPS

-----------------------------------------------------------------------------
(***************************************************************************)
(* Sequences.                                                              *)
(***************************************************************************)
\* Appending adds one element.
LEMMA ElementsOfAppend ==
    ASSUME NEW A, NEW s \in Seq(A), NEW e \in A
    PROVE  Append(s, e) \in Seq(A) /\ Elements(Append(s, e)) = Elements(s) \cup {e}
<1> DEFINE t == Append(s, e)
<1>1. /\ t \in Seq(A) /\ Len(s) \in Nat /\ Len(t) = Len(s) + 1
      /\ \A j \in 1 .. Len(s) : t[j] = s[j]
      /\ t[Len(s) + 1] = e
  BY AppendProperties
<1>2. DOMAIN s = 1 .. Len(s) /\ DOMAIN t = 1 .. Len(s) + 1
  BY <1>1, LenProperties
<1> HIDE DEF t
<1>3. Elements(t) \subseteq Elements(s) \cup {e}
  <2> SUFFICES ASSUME NEW j \in DOMAIN t PROVE t[j] \in Elements(s) \cup {e}
    BY DEF Elements
  <2>1. CASE j = Len(s) + 1
    BY <2>1, <1>1
  <2>2. CASE j # Len(s) + 1
    <3>1. j \in DOMAIN s /\ t[j] = s[j]
      BY <2>2, <1>1, <1>2
    <3> QED
      BY <3>1 DEF Elements
  <2> QED
    BY <2>1, <2>2
<1>4. e \in Elements(t)
  <2>1. Len(s) + 1 \in DOMAIN t
    BY <1>1, <1>2
  <2> QED
    BY <2>1, <1>1 DEF Elements
<1>5. Elements(s) \subseteq Elements(t)
  <2> SUFFICES ASSUME NEW j \in DOMAIN s PROVE s[j] \in Elements(t)
    BY DEF Elements
  <2>1. j \in DOMAIN t /\ t[j] = s[j]
    BY <1>1, <1>2
  <2> QED
    BY <2>1 DEF Elements
<1> QED
  BY <1>1, <1>3, <1>4, <1>5 DEF t

\* The first elements of a sequence.
UpTo(s, k) == {s[j] : j \in 1 .. k}

\* One step of Only.
OnlyStep(s, T, f, k) ==
    IF k = 0 THEN <<>>
    ELSE IF s[k] \in T THEN Append(f[k - 1], s[k]) ELSE f[k - 1]

\* What Only selects are the elements of the sequence that are in the set.
LEMMA OnlyElements ==
    ASSUME NEW A, NEW s \in Seq(A), NEW T
    PROVE  Only(s, T) \in Seq(A) /\ Elements(Only(s, T)) = Elements(s) \cap T
<1> DEFINE n == Len(s)
           Recursive(f, m) == /\ f \in [0 .. m -> Seq(A)]
                              /\ \A k \in 0 .. m : f[k] = OnlyStep(s, T, f, k)
           Bad == {m \in Nat : m <= n /\ ~ \E f : Recursive(f, m)}
           taken == CHOOSE f : f = [k \in 0 .. n |-> OnlyStep(s, T, f, k)]
<1>0. n \in Nat /\ \A k \in 1 .. n : s[k] \in A
  BY LenProperties, ElementOfSeq
<1>1. Bad = {}
  <2> SUFFICES ASSUME Bad # {} PROVE FALSE
    OBVIOUS
  <2>1. PICK m \in Bad : \A y \in Bad : m <= y
    <3>1. Bad \in SUBSET Nat
      OBVIOUS
    <3> HIDE DEF Bad
    <3> QED
      BY <3>1, LeastNatural
  <2>2. CASE m = 0
    <3> DEFINE f == [k \in 0 .. 0 |-> <<>>]
    <3>1. <<>> \in Seq(A)
      BY EmptySeq
    <3>2. f \in [0 .. 0 -> Seq(A)]
      BY <3>1
    <3>3. \A k \in 0 .. 0 : f[k] = OnlyStep(s, T, f, k)
      BY DEF OnlyStep
    <3>4. Recursive(f, m)
      BY <2>2, <3>2, <3>3
    <3> QED
      BY <3>4
  <2>3. CASE m # 0
    <3>1. m \in Nat /\ m <= n /\ m - 1 \in Nat /\ m - 1 <= n /\ ~ (m <= m - 1)
      BY <2>3, <1>0
    <3>2. m - 1 \notin Bad
      BY <2>1, <3>1
    <3>3. \E f : Recursive(f, m - 1)
      BY <3>1, <3>2
    <3>4. PICK f : Recursive(f, m - 1)
      BY <3>3
    <3> DEFINE g == [k \in 0 .. m |-> IF k = m THEN OnlyStep(s, T, f, m) ELSE f[k]]
    <3>5. f[m - 1] \in Seq(A)
      BY <3>4, <3>1
    <3>6. OnlyStep(s, T, f, m) \in Seq(A)
      <4>1. s[m] \in A
        BY <1>0, <3>1, <2>3
      <4>2. Append(f[m - 1], s[m]) \in Seq(A)
        BY <3>5, <4>1, AppendProperties
      <4> QED
        BY <3>5, <4>2, <2>3 DEF OnlyStep
    <3>7. g \in [0 .. m -> Seq(A)]
      <4> SUFFICES ASSUME NEW k \in 0 .. m PROVE g[k] \in Seq(A)
        OBVIOUS
      <4>1. CASE k = m
        BY <3>6, <4>1
      <4>2. CASE k # m
        BY <4>2, <3>4, <3>1
      <4> QED
        BY <4>1, <4>2
    <3>8. ASSUME NEW k \in 0 .. m PROVE g[k] = OnlyStep(s, T, g, k)
      <4>1. k # 0 => g[k - 1] = f[k - 1]
        BY <3>1
      <4>2. OnlyStep(s, T, g, k) = OnlyStep(s, T, f, k)
        BY <4>1 DEF OnlyStep
      <4>3. CASE k = m
        BY <4>2, <4>3
      <4>4. CASE k # m
        <5>1. k \in 0 .. m - 1
          BY <4>4, <3>1
        <5>2. g[k] = f[k] /\ f[k] = OnlyStep(s, T, f, k)
          BY <4>4, <5>1, <3>4
        <5> QED
          BY <5>2, <4>2
      <4> QED
        BY <4>3, <4>4
    <3>9. Recursive(g, m)
      BY <3>7, <3>8
    <3> QED
      BY <3>9
  <2> QED
    BY <2>2, <2>3
<1>2. PICK f : Recursive(f, n)
  <2>1. n \in Nat /\ n <= n
    BY <1>0
  <2>2. \E f : Recursive(f, n)
    <3>1. n \notin Bad
      <4> HIDE DEF Bad
      <4> QED
        BY <1>1
    <3> QED
      BY <2>1, <3>1
  <2> QED
    BY <2>2
<1>3. f = [k \in 0 .. n |-> OnlyStep(s, T, f, k)]
  BY <1>2
<1>4. taken = [k \in 0 .. n |-> OnlyStep(s, T, taken, k)]
  BY <1>3
<1>5. Only(s, T) = taken[n]
  BY DEF Only, OnlyStep
<1> HIDE DEF taken
<1> DEFINE Right(k) == taken[k] \in Seq(A) /\ Elements(taken[k]) = UpTo(s, k) \cap T
           Wrong == {k \in Nat : k <= n /\ ~ Right(k)}
<1>6. Wrong = {}
  <2> SUFFICES ASSUME Wrong # {} PROVE FALSE
    OBVIOUS
  <2>1. PICK k \in Wrong : \A y \in Wrong : k <= y
    <3>1. Wrong \in SUBSET Nat
      OBVIOUS
    <3> HIDE DEF Wrong
    <3> QED
      BY <3>1, LeastNatural
  <2>2. k \in 0 .. n /\ taken[k] = OnlyStep(s, T, taken, k)
    BY <1>4, <1>0
  <2>3. CASE k = 0
    <3>1. taken[k] = <<>> /\ UpTo(s, k) = {} /\ Elements(<<>>) = {}
      BY <2>2, <2>3 DEF OnlyStep, UpTo, Elements
    <3>2. taken[k] \in Seq(A)
      BY <3>1, EmptySeq
    <3> QED
      BY <3>1, <3>2
  <2>4. CASE k # 0
    <3>1. k - 1 \in Nat /\ k - 1 <= n /\ ~ (k <= k - 1)
      BY <2>4, <2>2, <1>0
    <3>2. k - 1 \notin Wrong
      BY <2>1, <3>1
    <3>3. Right(k - 1)
      BY <3>1, <3>2
    <3>4. UpTo(s, k) = UpTo(s, k - 1) \cup {s[k]}
      BY <3>1, <2>2 DEF UpTo
    <3>5. s[k] \in A
      BY <1>0, <2>2, <2>4
    <3>6. CASE s[k] \in T
      <4>1. taken[k] = Append(taken[k - 1], s[k])
        BY <2>2, <2>4, <3>6 DEF OnlyStep
      <4>2. taken[k] \in Seq(A) /\ Elements(taken[k]) = Elements(taken[k - 1]) \cup {s[k]}
        BY <3>3, <3>5, <4>1, ElementsOfAppend
      <4> QED
        BY <3>3, <3>4, <3>6, <4>2
    <3>7. CASE s[k] \notin T
      <4>1. taken[k] = taken[k - 1]
        BY <2>2, <2>4, <3>7 DEF OnlyStep
      <4> QED
        BY <3>3, <3>4, <3>7, <4>1
    <3> QED
      BY <3>6, <3>7
  <2> QED
    BY <2>3, <2>4
<1>7. Right(n)
  BY <1>0, <1>6
<1>8. UpTo(s, n) = Elements(s)
  BY LenProperties DEF UpTo, Elements
<1> QED
  BY <1>5, <1>7, <1>8

-----------------------------------------------------------------------------
\* The same when all of D are before.
After(D, P) == {<<D \cup p[1], p[2]>> : p \in P}

\* What is placed in a sequence, and what is before it, are elements of it.
LEMMA PlacedAreElements ==
    ASSUME NEW S, NEW s \in Seq(S), NEW p \in Placed(s)
    PROVE  p[1] \subseteq Elements(s) /\ p[2] \in Elements(s)
<1>1. PICK j \in 1 .. Len(s) : p = <<Before(s, j), s[j]>>
  BY DEF Placed
<1>2. Len(s) \in Nat /\ DOMAIN s = 1 .. Len(s)
  BY LenProperties
<1>3. \A l \in 1 .. j - 1 : l \in DOMAIN s
  BY <1>2
<1>4. Before(s, j) \subseteq Elements(s)
  BY <1>3 DEF Before, Elements
<1>5. s[j] \in Elements(s)
  BY <1>2 DEF Elements
<1> QED
  BY <1>1, <1>4, <1>5

\* The empty sequence, and one element, place by place.
LEMMA NothingPlaced ==
    Placed(<<>>) = {} /\ Elements(<<>>) = {}
<1>1. 1 .. Len(<<>>) = {} /\ DOMAIN <<>> = {}
  OBVIOUS
<1> QED
  BY <1>1 DEF Placed, Elements

\* One element.
LEMMA OnePlaced ==
    ASSUME NEW a
    PROVE  /\ Placed(<<a>>) = {<<{}, a>>} /\ Elements(<<a>>) = {a}
<1>1. Len(<<a>>) = 1 /\ DOMAIN <<a>> = {1} /\ 1 .. 1 = {1} /\ 1 .. 1 - 1 = {} /\ <<a>>[1] = a
  OBVIOUS
<1>2. Before(<<a>>, 1) = {}
  BY <1>1 DEF Before
<1> QED
  BY <1>1, <1>2 DEF Placed, Elements

\* One sequence after another.
LEMMA PlacedConcat ==
    ASSUME NEW S, NEW s \in Seq(S), NEW t \in Seq(S)
    PROVE  /\ s \o t \in Seq(S)
           /\ Elements(s \o t) = Elements(s) \cup Elements(t)
           /\ Placed(s \o t) = Placed(s) \cup After(Elements(s), Placed(t))
<1> DEFINE u == s \o t
           k == Len(s)
           n == Len(t)
<1>1. /\ u \in Seq(S) /\ Len(u) = k + n /\ k \in Nat /\ n \in Nat
      /\ \A i \in 1 .. k + n : u[i] = IF i <= k THEN s[i] ELSE t[i - k]
  BY ConcatProperties, LenProperties
<1>2. DOMAIN u = 1 .. k + n /\ DOMAIN s = 1 .. k /\ DOMAIN t = 1 .. n
  BY <1>1, LenProperties
<1> HIDE DEF u, k, n
<1>3. \A i \in 1 .. k : i \in 1 .. k + n /\ u[i] = s[i]
  BY <1>1
<1>4. \A i \in 1 .. n : k + i \in 1 .. k + n /\ u[k + i] = t[i]
  <2> SUFFICES ASSUME NEW i \in 1 .. n PROVE k + i \in 1 .. k + n /\ u[k + i] = t[i]
    OBVIOUS
  <2>1. k + i \in 1 .. k + n /\ ~ (k + i <= k) /\ (k + i) - k = i
    BY <1>1
  <2> QED
    BY <1>1, <2>1
<1>5. \A i \in 1 .. k + n : i \in 1 .. k \/ \E j \in 1 .. n : i = k + j
  <2> SUFFICES ASSUME NEW i \in 1 .. k + n, i \notin 1 .. k PROVE \E j \in 1 .. n : i = k + j
    OBVIOUS
  <2>1. i - k \in 1 .. n /\ i = k + (i - k)
    BY <1>1
  <2> QED
    BY <2>1
<1>6. Elements(u) = Elements(s) \cup Elements(t)
  <2>1. ASSUME NEW i \in DOMAIN u PROVE u[i] \in Elements(s) \cup Elements(t)
    <3>1. CASE i \in 1 .. k
      BY <3>1, <1>2, <1>3 DEF Elements
    <3>2. CASE i \notin 1 .. k
      <4>1. PICK j \in 1 .. n : i = k + j
        BY <1>2, <1>5, <3>2
      <4>2. u[i] = t[j]
        BY <4>1, <1>4
      <4> QED
        BY <4>2, <1>2 DEF Elements
    <3> QED
      BY <3>1, <3>2
  <2>2. \A i \in DOMAIN s : s[i] \in Elements(u)
    BY <1>2, <1>3 DEF Elements
  <2>3. ASSUME NEW i \in DOMAIN t PROVE t[i] \in Elements(u)
    <3>1. k + i \in DOMAIN u /\ u[k + i] = t[i]
      BY <1>2, <1>4
    <3> QED
      BY <3>1 DEF Elements
  <2> QED
    BY <2>1, <2>2, <2>3 DEF Elements
<1>7. ASSUME NEW j \in 1 .. k PROVE Before(u, j) = Before(s, j) /\ u[j] = s[j]
  <2>1. \A l \in 1 .. j - 1 : l \in 1 .. k
    BY <1>1
  <2>2. \A l \in 1 .. j - 1 : u[l] = s[l]
    BY <2>1, <1>3
  <2> QED
    BY <2>2, <1>3 DEF Before
<1>8. ASSUME NEW j \in 1 .. n
      PROVE  Before(u, k + j) = Elements(s) \cup Before(t, j) /\ u[k + j] = t[j]
  <2>1. ASSUME NEW l \in 1 .. (k + j) - 1 PROVE u[l] \in Elements(s) \cup Before(t, j)
    <3>1. CASE l \in 1 .. k
      BY <3>1, <1>2, <1>3 DEF Elements
    <3>2. CASE l \notin 1 .. k
      <4>1. l - k \in 1 .. n /\ l - k \in 1 .. j - 1 /\ k + (l - k) = l
        BY <1>1, <3>2
      <4>2. u[l] = t[l - k]
        BY <1>4, <4>1
      <4> QED
        BY <4>1, <4>2 DEF Before
    <3> QED
      BY <3>1, <3>2
  <2>2. ASSUME NEW l \in 1 .. k PROVE s[l] \in Before(u, k + j)
    <3>1. l \in 1 .. (k + j) - 1 /\ u[l] = s[l]
      BY <1>1, <1>3
    <3> QED
      BY <3>1 DEF Before
  <2>3. ASSUME NEW l \in 1 .. j - 1 PROVE t[l] \in Before(u, k + j)
    <3>1. k + l \in 1 .. (k + j) - 1 /\ l \in 1 .. n
      BY <1>1
    <3>2. u[k + l] = t[l]
      BY <3>1, <1>4
    <3> QED
      BY <3>1, <3>2 DEF Before
  <2>4. \A e \in Elements(s) : e \in Before(u, k + j)
    BY <2>2, <1>2 DEF Elements
  <2>5. \A e \in Before(t, j) : e \in Before(u, k + j)
    BY <2>3 DEF Before
  <2>6. \A e \in Before(u, k + j) : e \in Elements(s) \cup Before(t, j)
    BY <2>1 DEF Before
  <2> QED
    BY <2>4, <2>5, <2>6, <1>4
<1>9. ASSUME NEW p \in Placed(u) PROVE p \in Placed(s) \cup After(Elements(s), Placed(t))
  <2>1. PICK i \in 1 .. k + n : p = <<Before(u, i), u[i]>>
    BY <1>1 DEF Placed
  <2>2. CASE i \in 1 .. k
    <3>1. p = <<Before(s, i), s[i]>>
      BY <2>1, <2>2, <1>7
    <3> QED
      BY <2>2, <3>1 DEF Placed, k
  <2>3. CASE i \notin 1 .. k
    <3>1. PICK j \in 1 .. n : i = k + j
      BY <1>5, <2>3
    <3>2. p = <<Elements(s) \cup Before(t, j), t[j]>>
      BY <2>1, <3>1, <1>8
    <3> DEFINE q == <<Before(t, j), t[j]>>
    <3>3. q \in Placed(t)
      BY DEF Placed, n
    <3>4. p = <<Elements(s) \cup q[1], q[2]>>
      BY <3>2
    <3> HIDE DEF q
    <3> QED
      BY <3>3, <3>4 DEF After
  <2> QED
    BY <2>2, <2>3
<1>10. ASSUME NEW p \in Placed(s) PROVE p \in Placed(u)
  <2>1. PICK j \in 1 .. k : p = <<Before(s, j), s[j]>>
    BY DEF Placed, k
  <2>2. p = <<Before(u, j), u[j]>> /\ j \in 1 .. Len(u)
    BY <2>1, <1>1, <1>3, <1>7
  <2> QED
    BY <2>2 DEF Placed
<1>11. ASSUME NEW p \in After(Elements(s), Placed(t)) PROVE p \in Placed(u)
  <2>1. PICK q \in Placed(t) : p = <<Elements(s) \cup q[1], q[2]>>
    BY DEF After
  <2>2. PICK j \in 1 .. n : q = <<Before(t, j), t[j]>>
    BY DEF Placed, n
  <2>3. p = <<Elements(s) \cup Before(t, j), t[j]>>
    BY <2>1, <2>2
  <2>4. p = <<Before(u, k + j), u[k + j]>> /\ k + j \in 1 .. Len(u)
    BY <2>3, <1>1, <1>4, <1>8
  <2> QED
    BY <2>4 DEF Placed
<1> QED
  BY <1>1, <1>6, <1>9, <1>10, <1>11 DEF u

\* What is left when the first element is gone.
LEMMA PlacedTail ==
    ASSUME NEW S, NEW s \in Seq(S), s # <<>>
    PROVE  /\ Head(s) \in S /\ Tail(s) \in Seq(S)
           /\ Elements(s) = {Head(s)} \cup Elements(Tail(s))
           /\ <<{}, Head(s)>> \in Placed(s)
           /\ \A p \in Placed(Tail(s)) : <<{Head(s)} \cup p[1], p[2]>> \in Placed(s)
<1>1. Head(s) \in S /\ Tail(s) \in Seq(S) /\ s = <<Head(s)>> \o Tail(s)
  <2>1. Head(s) \in S /\ Tail(s) \in Seq(S)
    BY HeadTailProperties
  <2>2. s = <<Head(s)>> \o Tail(s)
    BY HeadTailProperties
  <2> QED
    BY <2>1, <2>2
<1>2. <<Head(s)>> \in Seq(S)
  BY <1>1
<1>3. /\ Elements(s) = Elements(<<Head(s)>>) \cup Elements(Tail(s))
      /\ Placed(s) = Placed(<<Head(s)>>) \cup After(Elements(<<Head(s)>>), Placed(Tail(s)))
  <2> DEFINE h == <<Head(s)>>
             t == Tail(s)
  <2>1. h \in Seq(S) /\ t \in Seq(S) /\ s = h \o t
    BY <1>1, <1>2
  <2> HIDE DEF h, t
  <2>2. /\ Elements(h \o t) = Elements(h) \cup Elements(t)
        /\ Placed(h \o t) = Placed(h) \cup After(Elements(h), Placed(t))
    BY <2>1, PlacedConcat
  <2>3. /\ Elements(s) = Elements(h) \cup Elements(t)
        /\ Placed(s) = Placed(h) \cup After(Elements(h), Placed(t))
    BY <2>1, <2>2
  <2> QED
    BY <2>3 DEF h, t
<1>4. Elements(<<Head(s)>>) = {Head(s)} /\ Placed(<<Head(s)>>) = {<<{}, Head(s)>>}
  BY OnePlaced
<1> QED
  BY <1>1, <1>3, <1>4 DEF After

-----------------------------------------------------------------------------
(***************************************************************************)
(* Graphs: what can be reached from a set is the least closed set above it.*)
(***************************************************************************)
\* It lies in every closed set above the start ...
LEMMA ReachLeast ==
    ASSUME NEW g, NEW S, NEW T \in SUBSET Inodes, S \subseteq T, Closed(g, T)
    PROVE  Reach(g, S) \subseteq T
  BY DEF Reach

\* ... and is one.
LEMMA ReachClosed ==
    ASSUME NEW g \in Graphs, NEW S \in SUBSET Inodes
    PROVE  /\ Reach(g, S) \in SUBSET Inodes
           /\ S \subseteq Reach(g, S)
           /\ Closed(g, Reach(g, S))
<1>1. Reach(g, S) \in SUBSET Inodes /\ S \subseteq Reach(g, S)
  BY DEF Reach
<1>2. ASSUME NEW d \in Reach(g, S), NEW c \in g[d] PROVE c \in Reach(g, S)
  <2>1. d \in Inodes /\ c \in Inodes
    BY <1>1 DEF Graphs
  <2>2. ASSUME NEW T \in SUBSET Inodes, S \subseteq T, Closed(g, T) PROVE c \in T
    <3>1. d \in T
      BY <2>2, ReachLeast
    <3> QED
      BY <2>2, <3>1 DEF Closed
  <2> QED
    BY <2>1, <2>2 DEF Reach
<1> QED
  BY <1>1, <1>2 DEF Closed

\* A closed set is what it reaches.
LEMMA ReachOfClosed ==
    ASSUME NEW g \in Graphs, NEW S \in SUBSET Inodes, Closed(g, S)
    PROVE  Reach(g, S) = S
  BY ReachClosed, ReachLeast

\* A step from the start reaches nothing more.
LEMMA ReachOfFurther ==
    ASSUME NEW g \in Graphs, NEW S \in SUBSET Inodes, NEW F \in SUBSET Inodes,
           S \subseteq F, F \subseteq Reach(g, S)
    PROVE  Reach(g, F) = Reach(g, S)
<1>1. Reach(g, F) \subseteq Reach(g, S)
  BY ReachClosed, ReachLeast
<1>2. Reach(g, S) \subseteq Reach(g, F)
  <2>1. Reach(g, F) \in SUBSET Inodes /\ F \subseteq Reach(g, F) /\ Closed(g, Reach(g, F))
    BY ReachClosed
  <2>2. S \subseteq Reach(g, F)
    BY <2>1
  <2> QED
    BY <2>1, <2>2, ReachLeast
<1> QED
  BY <1>1, <1>2

\* When the new graph has all but some leaves, only they can be lost.
LEMMA LeavesLost ==
    ASSUME NEW g \in Graphs, NEW h \in Graphs, NEW X \in SUBSET Inodes,
           NEW S \in SUBSET Inodes,
           \A x \in X : g[x] = {},
           \A d \in Inodes : g[d] \subseteq h[d] \cup X
    PROVE  Reach(g, S) \subseteq Reach(h, S) \cup X
<1> DEFINE T == Reach(h, S) \cup X
<1>1. Reach(h, S) \in SUBSET Inodes /\ S \subseteq Reach(h, S) /\ Closed(h, Reach(h, S))
  BY ReachClosed
<1>2. Closed(g, T)
  BY <1>1 DEF Closed
<1>3. T \in SUBSET Inodes /\ S \subseteq T
  BY <1>1
<1> HIDE DEF T
<1>4. Reach(g, S) \subseteq T
  BY <1>2, <1>3, ReachLeast
<1> QED
  BY <1>4 DEF T

\* A graph with more reaches more.
LEMMA ReachGrows ==
    ASSUME NEW g \in Graphs, NEW h \in Graphs, NEW S \in SUBSET Inodes,
           \A d \in Inodes : g[d] \subseteq h[d]
    PROVE  Reach(g, S) \subseteq Reach(h, S)
<1>1. Reach(g, S) \subseteq Reach(h, S) \cup {}
  <2>1. {} \in SUBSET Inodes /\ \A x \in {} : g[x] = {}
    OBVIOUS
  <2>2. \A d \in Inodes : g[d] \subseteq h[d] \cup {}
    OBVIOUS
  <2> QED
    BY <2>1, <2>2, LeavesLost
<1> QED
  BY <1>1

\* Something moved under q, which is not below it, can be reached still, and
\* all else with it.
LEMMA ReachMoved ==
    ASSUME NEW g \in Graphs, NEW h \in Graphs, NEW i \in Inodes, NEW q \in Inodes,
           NEW S \in SUBSET Inodes,
           \A d \in Inodes : g[d] \subseteq h[d] \cup {i},
           i \in h[q], q \in Reach(g, S), q \notin Reach(g, {i})
    PROVE  Reach(g, S) \subseteq Reach(h, S)
<1> DEFINE From == Reach(h, S)
           B == Reach(g, {i})
<1>1. From \in SUBSET Inodes /\ S \subseteq From /\ Closed(h, From)
  BY ReachClosed
<1>2. B \in SUBSET Inodes /\ i \in B /\ Closed(g, B)
  BY ReachClosed
<1> HIDE DEF From, B
<1>3. i \in From
  <2> SUFFICES ASSUME i \notin From PROVE FALSE
    OBVIOUS
  <2>1. q \notin From
    BY <1>1 DEF Closed
  <2>2. From \cup B \in SUBSET Inodes /\ S \subseteq From \cup B
    BY <1>1, <1>2
  <2>3. Closed(g, From \cup B)
    BY <1>1, <1>2 DEF Closed
  <2>4. Reach(g, S) \subseteq From \cup B
    BY <2>2, <2>3, ReachLeast
  <2> QED
    BY <2>1, <2>4 DEF B
<1>4. Closed(g, From)
  BY <1>1, <1>3 DEF Closed
<1>5. Reach(g, S) \subseteq From
  BY <1>1, <1>4, ReachLeast
<1> QED
  BY <1>5 DEF From

\* Edges from places that cannot be reached do not matter.
LEMMA ReachElsewhere ==
    ASSUME NEW g \in Graphs, NEW h \in Graphs, NEW S \in SUBSET Inodes,
           \A d \in Reach(g, S) : h[d] = g[d]
    PROVE  Reach(h, S) = Reach(g, S)
<1> DEFINE From == Reach(g, S)
           Q == Reach(h, S)
<1>1. From \in SUBSET Inodes /\ S \subseteq From /\ Closed(g, From)
  BY ReachClosed
<1>2. Q \in SUBSET Inodes /\ S \subseteq Q /\ Closed(h, Q)
  BY ReachClosed
<1>3. Closed(h, From)
  BY <1>1 DEF Closed
<1>4. Q \subseteq From
  BY <1>1, <1>3, ReachLeast
<1>5. Closed(g, Q)
  BY <1>2, <1>4 DEF Closed
<1>6. From \subseteq Q
  BY <1>2, <1>5, ReachLeast
<1> QED
  BY <1>4, <1>6

-----------------------------------------------------------------------------
(***************************************************************************)
(* Closure is what can be reached.                                         *)
(***************************************************************************)
LEMMA ClosureIsReach ==
    ASSUME NEW g \in Graphs, NEW S \in SUBSET Inodes
    PROVE  Closure(g, S) = Reach(g, S)
<1> DEFINE Further(T) == T \cup UNION {g[d] : d \in T}
           Step(f) == [T \in SUBSET Inodes |-> IF Further(T) = T THEN T ELSE f[Further(T)]]
           From == [T \in SUBSET Inodes |-> Reach(g, T)]
           closure == CHOOSE f : f = Step(f)
<1>0. IsFiniteSet(Inodes)
  <2>1. 1 \in Int /\ MaxInode \in Int
    BY NamespaceAssumption
  <2> QED
    BY <2>1, FS_Interval DEF Inodes
<1>1. ASSUME NEW T \in SUBSET Inodes
      PROVE  /\ Further(T) \in SUBSET Inodes /\ T \subseteq Further(T)
             /\ Further(T) = T <=> Closed(g, T)
             /\ Further(T) \subseteq Reach(g, T)
  <2>1. \A d \in T : g[d] \subseteq Inodes
    BY DEF Graphs
  <2>2. Further(T) \in SUBSET Inodes /\ T \subseteq Further(T)
    BY <2>1
  <2>3. Further(T) = T <=> Closed(g, T)
    BY <2>1 DEF Closed
  <2>4. T \subseteq Reach(g, T) /\ Closed(g, Reach(g, T))
    BY ReachClosed
  <2>5. Further(T) \subseteq Reach(g, T)
    BY <2>1, <2>4 DEF Closed
  <2> QED
    BY <2>2, <2>3, <2>5
<1> HIDE DEF Further
<1>2. From = Step(From)
  <2> SUFFICES ASSUME NEW T \in SUBSET Inodes
               PROVE  Reach(g, T) = IF Further(T) = T THEN T ELSE From[Further(T)]
    OBVIOUS
  <2>1. CASE Further(T) = T
    BY <2>1, <1>1, ReachOfClosed
  <2>2. CASE Further(T) # T
    <3>1. Reach(g, Further(T)) = Reach(g, T)
      BY <1>1, ReachOfFurther
    <3>2. From[Further(T)] = Reach(g, Further(T))
      BY <1>1
    <3> QED
      BY <2>2, <3>1, <3>2
  <2> QED
    BY <2>1, <2>2
<1>3. closure = Step(closure)
  BY <1>2
<1>4. Closure(g, S) = closure[S]
  BY DEF Closure, Further
<1> HIDE DEF closure
<1>5. ASSUME NEW T \in SUBSET Inodes
      PROVE  closure[T] = IF Further(T) = T THEN T ELSE closure[Further(T)]
  BY <1>3
<1>6. \A T \in SUBSET Inodes : IsFiniteSet(Inodes \ T) /\ Cardinality(Inodes \ T) \in Nat
  BY <1>0, FS_Difference, FS_CardinalityType
<1> DEFINE Wrong == {n \in Nat : \E T \in SUBSET Inodes :
                        /\ n = Cardinality(Inodes \ T)
                        /\ closure[T] # Reach(g, T)}
<1>7. Wrong = {}
  <2> SUFFICES ASSUME Wrong # {} PROVE FALSE
    OBVIOUS
  <2>1. PICK n \in Wrong : \A y \in Wrong : n <= y
    <3>1. Wrong \in SUBSET Nat
      OBVIOUS
    <3> HIDE DEF Wrong
    <3> QED
      BY <3>1, LeastNatural
  <2>2. PICK T \in SUBSET Inodes : n = Cardinality(Inodes \ T) /\ closure[T] # Reach(g, T)
    BY <2>1
  <2>3. CASE Further(T) = T
    <3>1. closure[T] = T
      BY <1>5, <2>3
    <3>2. Reach(g, T) = T
      BY <1>1, <2>3, ReachOfClosed
    <3> QED
      BY <2>2, <3>1, <3>2
  <2>4. CASE Further(T) # T
    <3> DEFINE F == Further(T)
               m == Cardinality(Inodes \ F)
    <3>1. F \in SUBSET Inodes /\ T \subseteq F /\ F # T
      BY <1>1, <2>4
    <3>2. closure[F] # Reach(g, F)
      <4>1. closure[T] = closure[F]
        BY <1>5, <2>4
      <4>2. Reach(g, F) = Reach(g, T)
        BY <1>1, ReachOfFurther
      <4> QED
        BY <2>2, <4>1, <4>2
    <3>3. m \in Wrong
      BY <1>6, <3>1, <3>2
    <3>4. m < n
      <4>1. Inodes \ F \subseteq Inodes \ T /\ Inodes \ F # Inodes \ T
        BY <3>1
      <4>2. IsFiniteSet(Inodes \ T)
        BY <1>6
      <4> HIDE DEF F
      <4>3. Cardinality(Inodes \ F) <= Cardinality(Inodes \ T)
        BY <4>1, <4>2, FS_Subset
      <4>4. Cardinality(Inodes \ T) # Cardinality(Inodes \ F)
        BY <4>1, <4>2, FS_Subset
      <4>5. Cardinality(Inodes \ F) \in Nat /\ Cardinality(Inodes \ T) \in Nat
        BY <1>6, <3>1
      <4> QED
        BY <4>3, <4>4, <4>5, <2>2
    <3>5. m \in Nat /\ n \in Nat
      BY <1>6, <3>1
    <3> HIDE DEF m
    <3>6. ~ (n <= m)
      BY <3>4, <3>5
    <3> QED
      BY <2>1, <3>3, <3>6
  <2> QED
    BY <2>3, <2>4
<1>8. closure[S] = Reach(g, S)
  <2> SUFFICES ASSUME closure[S] # Reach(g, S) PROVE FALSE
    OBVIOUS
  <2>1. Cardinality(Inodes \ S) \in Wrong
    BY <1>6
  <2> HIDE DEF Wrong
  <2> QED
    BY <2>1, <1>7
<1> QED
  BY <1>4, <1>8

-----------------------------------------------------------------------------
(***************************************************************************)
(* Types: TypeInv is inductive.                                            *)
(***************************************************************************)
\* Inodes are positive numbers, and the root is one.
LEMMA InodesAreNumbers ==
    /\ MaxInode \in Nat \ {0} /\ Inodes \subseteq Nat \ {0}
    /\ Root \in Inodes /\ NoInode \notin Inodes
  BY NamespaceAssumption DEF Inodes, Root, NoInode

-----------------------------------------------------------------------------
(***************************************************************************)
(* The handlers' writes, in their order.                                   *)
(***************************************************************************)
LEMMA TwoPlaced ==
    ASSUME NEW S, NEW a \in S, NEW b \in S
    PROVE  /\ <<a, b>> \in Seq(S)
           /\ Placed(<<a, b>>) = {<<{}, a>>, <<{a}, b>>} /\ Elements(<<a, b>>) = {a, b}
<1> DEFINE s == <<a>>
           t == <<b>>
<1>1. s \in Seq(S) /\ t \in Seq(S) /\ <<a, b>> = s \o t
  <2>1. s \in Seq(S) /\ t \in Seq(S) /\ Len(s) = 1 /\ Len(t) = 1 /\ s[1] = a /\ t[1] = b
    OBVIOUS
  <2> HIDE DEF s, t
  <2>2. /\ s \o t \in Seq(S) /\ Len(s \o t) = 2
        /\ (s \o t)[1] = a /\ (s \o t)[2] = b
    BY <2>1, ConcatProperties
  <2>3. <<a, b>> \in Seq(S) /\ Len(<<a, b>>) = 2 /\ <<a, b>>[1] = a /\ <<a, b>>[2] = b
    OBVIOUS
  <2>4. <<a, b>> = s \o t
    <3> DEFINE u == <<a, b>>
               v == s \o t
    <3>1. /\ u \in Seq(S) /\ v \in Seq(S) /\ Len(u) = 2 /\ Len(v) = 2
          /\ u[1] = v[1] /\ u[2] = v[2]
      BY <2>2, <2>3
    <3> HIDE DEF u, v
    <3>2. \A k \in 1 .. 2 : u[k] = v[k]
      BY <3>1
    <3>3. u = v
      BY <3>1, <3>2, SeqEqual
    <3> QED
      BY <3>3 DEF u, v
  <2> QED
    BY <2>1, <2>4
<1>2. /\ Placed(s) = {<<{}, a>>} /\ Elements(s) = {a}
      /\ Placed(t) = {<<{}, b>>} /\ Elements(t) = {b}
  BY OnePlaced
<1> HIDE DEF s, t
<1>3. /\ s \o t \in Seq(S)
      /\ Elements(s \o t) = Elements(s) \cup Elements(t)
      /\ Placed(s \o t) = Placed(s) \cup After(Elements(s), Placed(t))
  BY <1>1, PlacedConcat
<1>4. After({a}, {<<{}, b>>}) = {<<{a}, b>>}
  BY DEF After
<1>5. Placed(s \o t) = {<<{}, a>>, <<{a}, b>>} /\ Elements(s \o t) = {a, b}
  BY <1>2, <1>3, <1>4
<1> QED
  BY <1>1, <1>3, <1>5

\* Three writes, each with those before it.
LEMMA ThreePlaced ==
    ASSUME NEW S, NEW a \in S, NEW b \in S, NEW c \in S
    PROVE  /\ <<a, b, c>> \in Seq(S)
           /\ Placed(<<a, b, c>>) = {<<{}, a>>, <<{a}, b>>, <<{a, b}, c>>}
           /\ Elements(<<a, b, c>>) = {a, b, c}
<1> DEFINE s == <<a, b>>
           t == <<c>>
<1>1. s \in Seq(S) /\ t \in Seq(S) /\ <<a, b, c>> = s \o t
  OBVIOUS
<1>2. /\ Placed(s) = {<<{}, a>>, <<{a}, b>>} /\ Elements(s) = {a, b}
      /\ Placed(t) = {<<{}, c>>} /\ Elements(t) = {c}
  BY OnePlaced, TwoPlaced
<1> HIDE DEF s, t
<1>3. /\ s \o t \in Seq(S)
      /\ Elements(s \o t) = Elements(s) \cup Elements(t)
      /\ Placed(s \o t) = Placed(s) \cup After(Elements(s), Placed(t))
  BY <1>1, PlacedConcat
<1>4. After({a, b}, {<<{}, c>>}) = {<<{a, b}, c>>}
  BY DEF After
<1>5. /\ Placed(s \o t) = {<<{}, a>>, <<{a}, b>>, <<{a, b}, c>>}
      /\ Elements(s \o t) = {a, b, c}
  BY <1>2, <1>3, <1>4
<1> QED
  BY <1>1, <1>3, <1>5

\* Four writes, each with those before it.
LEMMA FourPlaced ==
    ASSUME NEW S, NEW a \in S, NEW b \in S, NEW c \in S, NEW d \in S
    PROVE  /\ <<a, b, c, d>> \in Seq(S)
           /\ Placed(<<a, b, c, d>>) = {<<{}, a>>, <<{a}, b>>, <<{a, b}, c>>, <<{a, b, c}, d>>}
           /\ Elements(<<a, b, c, d>>) = {a, b, c, d}
<1> DEFINE s == <<a, b, c>>
           t == <<d>>
<1>1. s \in Seq(S) /\ t \in Seq(S) /\ <<a, b, c, d>> = s \o t
  OBVIOUS
<1>2. /\ Placed(s) = {<<{}, a>>, <<{a}, b>>, <<{a, b}, c>>} /\ Elements(s) = {a, b, c}
      /\ Placed(t) = {<<{}, d>>} /\ Elements(t) = {d}
  BY OnePlaced, ThreePlaced
<1> HIDE DEF s, t
<1>3. /\ s \o t \in Seq(S)
      /\ Elements(s \o t) = Elements(s) \cup Elements(t)
      /\ Placed(s \o t) = Placed(s) \cup After(Elements(s), Placed(t))
  BY <1>1, PlacedConcat
<1>4. After({a, b, c}, {<<{}, d>>}) = {<<{a, b, c}, d>>}
  BY DEF After
<1>5. /\ Placed(s \o t) = {<<{}, a>>, <<{a}, b>>, <<{a, b}, c>>, <<{a, b, c}, d>>}
      /\ Elements(s \o t) = {a, b, c, d}
  BY <1>2, <1>3, <1>4
<1> QED
  BY <1>1, <1>3, <1>5

\* What the writes look like.
LEMMA WritesAreTyped ==
    ASSUME NEW i \in Inodes, NEW j \in Inodes \cup {NoInode}, NEW k \in Kinds,
           NEW n \in WriteKeys
    PROVE  /\ DataOf(i, k) \in Writes /\ Rev(i) \in Writes /\ Grant(i) \in Writes
           /\ setInodeMeta(i, n, j) \in Writes /\ removeInodeMeta(i, n) \in Writes
           /\ destroyInode(i) \in Writes
  BY DEF Writes, WriteKeys, DataOf, Rev, Grant, setInodeMeta, removeInodeMeta, destroyInode,
         WriteOf

\* A handler that stores an inode first.
LEMMA StorePlaced ==
    ASSUME NEW i \in Inodes, NEW k \in Kinds, NEW v \in Seq(Writes)
    PROVE  /\ storeInode(i, k) \o v \in Seq(Writes)
           /\ Elements(storeInode(i, k) \o v) = {DataOf(i, k), Rev(i)} \cup Elements(v)
           /\ Placed(storeInode(i, k) \o v) =
                 {<<{}, DataOf(i, k)>>, <<{DataOf(i, k)}, Rev(i)>>}
                    \cup After({DataOf(i, k), Rev(i)}, Placed(v))
<1> DEFINE a == DataOf(i, k)
           b == Rev(i)
           s == storeInode(i, k)
<1>1. s = <<a, b>>
  BY DEF storeInode, DataOf, Rev
<1>2. a \in Writes /\ b \in Writes
  BY WritesAreTyped DEF WriteKeys
<1> HIDE DEF a, b, s
<1>3. s \in Seq(Writes) /\ Placed(s) = {<<{}, a>>, <<{a}, b>>} /\ Elements(s) = {a, b}
  BY <1>1, <1>2, TwoPlaced
<1>4. /\ s \o v \in Seq(Writes)
      /\ Elements(s \o v) = Elements(s) \cup Elements(v)
      /\ Placed(s \o v) = Placed(s) \cup After(Elements(s), Placed(v))
  <2> HIDE DEF Writes
  <2>1. s \in Seq(Writes) /\ v \in Seq(Writes)
    BY <1>3
  <2> QED
    BY <2>1, PlacedConcat
<1>5. /\ Elements(s \o v) = {a, b} \cup Elements(v)
      /\ Placed(s \o v) = {<<{}, a>>, <<{a}, b>>} \cup After({a, b}, Placed(v))
  BY <1>3, <1>4
<1> QED
  BY <1>4, <1>5 DEF a, b, s
-----------------------------------------------------------------------------
(***************************************************************************)
(* Types.                                                                  *)
(***************************************************************************)
FsckTyped ==
    /\ status \in 1 .. Idle
    /\ scan_inode \in Inodes /\ fsck_ino \in Inodes
    /\ scan_inode_queue \in Seq(Inodes)
    /\ known_inodes \subseteq Inodes
    /\ fsck_ino_max \in 0 .. MaxInode
    /\ fscks \in 0 .. MaxFscks

\* The tree in the beginning is typed.
LEMMA InitTyped == FsckInit => TypeInv
<1> SUFFICES ASSUME FsckInit PROVE TypeInv
  OBVIOUS
<1> USE DEF FsckInit, Init
<1>1. /\ kind \in [Inodes -> Kinds] /\ kind[Root] = "dir" /\ DOMAIN meta = Inodes
      /\ \A i \in Foreign : i \in Inodes /\ kind[i] = "none"
  BY NamespaceAssumption
<1>2. /\ known \subseteq Inodes /\ last_inode \in Inodes
      /\ \A i \in Inodes : i > last_inode => kind[i] = "none"
  <2>1. \A i \in Inodes : i \in Nat
    BY InodesAreNumbers
  <2>2. last_inode \in known /\ known \subseteq Inodes /\ \A i \in known : i <= last_inode
    OBVIOUS
  <2>3. ASSUME NEW i \in Inodes, i > last_inode, kind[i] # "none" PROVE FALSE
    <3>1. i \in known
      BY <2>3
    <3>2. i <= last_inode
      BY <2>2, <3>1
    <3> QED
      BY <2>1, <2>2, <2>3, <3>2
  <2> QED
    BY <2>2, <2>3
<1>3. \A i \in Inodes : \A k \in DOMAIN meta[i] :
          \/ kind[i] = "dir" /\ meta[i][k] \in Inodes /\ kind[meta[i][k]] # "none"
          \/ kind[i] \in {"file", "link"} /\ meta[i][k] = NoInode
  BY TreeAssumption
<1>4. TypeOK
  <2>1. \A i \in Inodes : \A k \in DOMAIN meta[i] :
          /\ kind[i] # "none"
          /\ meta[i][k] \in IF kind[i] = "dir" THEN Inodes ELSE {NoInode}
          /\ kind[i] = "dir" => kind[meta[i][k]] # "none" \/ meta[i][k] \in remote
    BY <1>3
  <2>2. DOMAIN todo = {}
    OBVIOUS
  <2>3. requests \in 0 .. MaxRequests /\ crashes \in 0 .. MaxCrashes
    BY NamespaceAssumption
  <2> QED
    BY <1>1, <1>2, <2>1, <2>2, <2>3 DEF TypeOK
<1>5. FsckTypes
  <2>1. fsck_ino_max \in 0 .. MaxInode /\ fscks \in 0 .. MaxFscks
    BY NamespaceAssumption, FsckAssumption
  <2>2. scan_inode \in Inodes /\ fsck_ino \in Inodes
    BY InodesAreNumbers
  <2>3. scan_inode_queue \in Seq(Inodes)
    BY EmptySeq
  <2> QED
    BY <1>4, <2>1, <2>2, <2>3 DEF FsckTypes, Idle
<1>6. todo \in Seq(Writes) /\ TypedTodo
  BY EmptySeq, NothingPlaced DEF TypedTodo
<1>7. ASSUME NEW f \in Foreign PROVE f <= last_inode /\ kind[f] \in {"none", "file"}
  <2>1. PICK i \in Inodes : f < i /\ InitKind[i] # "none"
    BY TreeAssumption
  <2>2. i \in known /\ i <= last_inode
    BY <2>1
  <2>3. f \in Nat /\ i \in Nat /\ last_inode \in Nat
    BY <1>1, <1>2, InodesAreNumbers
  <2> QED
    BY <1>1, <2>1, <2>2, <2>3
<1>8. LostFoundIsDir /\ DirKeys
  BY NamesAssumption DEF LostFoundIsDir, DirKeys
<1> QED
  BY <1>1, <1>2, <1>5, <1>6, <1>7, <1>8 DEF TypeInv

\* In typed states the names make a graph, and Reachable is what it reaches.
LEMMA KidsAreInodes == TypeInv => Kids \in Graphs /\ Reachable = R /\ R \subseteq Inodes
<1> SUFFICES ASSUME TypeInv PROVE Kids \in Graphs /\ Reachable = R /\ R \subseteq Inodes
  OBVIOUS
<1>1. \A d \in Inodes : \A n \in DOMAIN meta[d] : kind[d] = "dir" => meta[d][n] \in Inodes
  BY DEF TypeInv, FsckTypes, TypeOK
<1>2. Kids \in Graphs
  BY <1>1 DEF Kids, Graphs, NamesIn
<1>3. {Root} \in SUBSET Inodes
  BY InodesAreNumbers
<1>4. Below({Root}) = Reach(Kids, {Root})
  BY <1>2, <1>3, ClosureIsReach DEF Below
<1>5. Reach(Kids, {Root}) \in SUBSET Inodes
  BY <1>2, <1>3, ReachClosed
<1> QED
  BY <1>2, <1>4, <1>5 DEF Reachable, R

\* A handler has decided on its writes, and nothing else changed.
LEMMA HandledTyped ==
    ASSUME TypeInv, UNCHANGED <<kind, known, meta, remote, crashes>>,
           FsckTyped', todo' \in Seq(Writes), \A p \in Placed(todo') : Typed(p[1], p[2])',
           last_inode' \in Inodes, last_inode' >= last_inode,
           owed' \subseteq Inodes, requests' \in 0 .. MaxRequests,
           status' # Idle => kind[fsck_ino'] = "dir" \/ DataOf(fsck_ino', "dir") \in Elements(todo')
    PROVE  TypeInv'
<1>0. TypeOK /\ last_inode \in Inodes
  BY DEF TypeInv, FsckTypes, TypeOK
<1>1. \A j \in DOMAIN todo' : todo'[j].ino \in Inodes
  <2>1. \A w \in Writes : w.ino \in Inodes
    BY DEF Writes
  <2>2. \A j \in DOMAIN todo' : todo'[j] \in Writes
    BY LenProperties, ElementOfSeq
  <2> QED
    BY <2>1, <2>2
<1>2. TypeOK'
  BY <1>0, <1>1 DEF TypeOK
<1>3. FsckTypes'
  BY <1>2 DEF FsckTypes, FsckTyped
<1>4. TypedTodo'
  BY DEF TypedTodo
<1>5. /\ \A i \in Inodes : i > last_inode' => i > last_inode
      /\ \A i \in Inodes : i <= last_inode => i <= last_inode'
  <2>1. last_inode \in Nat /\ last_inode' \in Nat /\ \A i \in Inodes : i \in Nat
    BY <1>0, InodesAreNumbers
  <2> QED
    BY <2>1
<1>6. \A i \in Foreign : i \in Inodes
  BY NamespaceAssumption
<1>7. LostFoundIsDir' /\ DirKeys'
  BY DEF TypeInv, LostFoundIsDir, DirKeys
<1>8. (status # Idle)' => WillBe(Elements(todo), fsck_ino, "dir")'
  BY DEF WillBe
<1> QED
  BY <1>3, <1>4, <1>5, <1>6, <1>7, <1>8 DEF TypeInv

\* A new inode is stored before what is written to it.
LEMMA StoreTypedAfter ==
    ASSUME NEW i \in Inodes, NEW k \in Kinds \ {"none"}, NEW v \in Seq(Writes), NEW D,
           kind'[i] = "none", i \notin Foreign, i <= last_inode',
           \A w \in D : w.ino # i /\ w.to # i,
           \A q \in Placed(v) : Typed(D \cup {DataOf(i, k), Rev(i)} \cup q[1], q[2])'
    PROVE  /\ storeInode(i, k) \o v \in Seq(Writes)
           /\ \A p \in Placed(storeInode(i, k) \o v) : Typed(D \cup p[1], p[2])'
<1> DEFINE a == DataOf(i, k)
           b == Rev(i)
<1>1. /\ storeInode(i, k) \o v \in Seq(Writes)
      /\ Placed(storeInode(i, k) \o v) =
            {<<{}, a>>, <<{a}, b>>} \cup After({a, b}, Placed(v))
  BY StorePlaced
<1>2. Typed(D, a)'
  <2>1. a.what = "data" /\ a.ino = i /\ a.key = k /\ a = DataOf(a.ino, a.key)
    BY DEF DataOf, WriteOf
  <2> HIDE DEF a
  <2> QED
    BY <2>1 DEF Typed, TypedData
<1>3. Typed(D \cup {a}, b)'
  <2>1. b.what = "rev" /\ b.ino = i
    BY DEF Rev, WriteOf
  <2>2. WillBe(D \cup {a}, i, k)'
    BY DEF WillBe
  <2> HIDE DEF a, b
  <2> QED
    BY <2>1, <2>2 DEF Typed, WillExist
<1> HIDE DEF a, b
<1>4. ASSUME NEW p \in Placed(storeInode(i, k) \o v) PROVE Typed(D \cup p[1], p[2])'
  <2>1. CASE p = <<{}, a>>
    <3>1. D \cup p[1] = D /\ p[2] = a
      BY <2>1
    <3> QED
      BY <3>1, <1>2
  <2>2. CASE p = <<{a}, b>>
    <3>1. p[1] = {a} /\ p[2] = b
      BY <2>2
    <3> QED
      BY <3>1, <1>3
  <2>3. CASE p \in After({a, b}, Placed(v))
    <3>1. PICK q \in Placed(v) : p = <<{a, b} \cup q[1], q[2]>>
      BY <2>3 DEF After
    <3>2. Typed(D \cup {a, b} \cup q[1], q[2])'
      BY DEF a, b
    <3>3. D \cup p[1] = D \cup {a, b} \cup q[1] /\ p[2] = q[2]
      BY <3>1
    <3> QED
      BY <3>2, <3>3
  <2> QED
    BY <1>1, <2>1, <2>2, <2>3
<1> QED
  BY <1>1, <1>4

\* What follows storeInode may rely on the inode.
LEMMA StoreTyped ==
    ASSUME NEW i \in Inodes, NEW k \in Kinds \ {"none"}, NEW v \in Seq(Writes),
           kind'[i] = "none", i \notin Foreign, i <= last_inode',
           \A q \in Placed(v) : Typed({DataOf(i, k), Rev(i)} \cup q[1], q[2])'
    PROVE  /\ storeInode(i, k) \o v \in Seq(Writes)
           /\ \A p \in Placed(storeInode(i, k) \o v) : Typed(p[1], p[2])'
<1>1. \A w \in {} : w.ino # i /\ w.to # i
  OBVIOUS
<1>2. ASSUME NEW q \in Placed(v) PROVE Typed({} \cup {DataOf(i, k), Rev(i)} \cup q[1], q[2])'
  <2>1. {} \cup {DataOf(i, k), Rev(i)} \cup q[1] = {DataOf(i, k), Rev(i)} \cup q[1]
    OBVIOUS
  <2> QED
    BY <2>1
<1>3. /\ storeInode(i, k) \o v \in Seq(Writes)
      /\ \A p \in Placed(storeInode(i, k) \o v) : Typed({} \cup p[1], p[2])'
  BY <1>1, <1>2, StoreTypedAfter
<1>4. ASSUME NEW p \in Placed(storeInode(i, k) \o v) PROVE Typed(p[1], p[2])'
  <2>1. {} \cup p[1] = p[1]
    OBVIOUS
  <2> QED
    BY <1>3, <2>1
<1> QED
  BY <1>3, <1>4

\* An entry of a directory.
LEMMA EntryTyped ==
    ASSUME NEW D, NEW d \in Inodes, NEW n \in Keys, NEW i \in Inodes, NEW k \in Kinds \ {"none"},
           kind'[d] = "dir" \/ DataOf(d, "dir") \in D,
           kind'[i] = k \/ DataOf(i, k) \in D,
           n = "lost+found" => k = "dir"
    PROVE  Typed(D, setInodeMeta(d, n, i))'
<1> DEFINE w == setInodeMeta(d, n, i)
<1>1. w.what = "set" /\ w.ino = d /\ w.key = n /\ w.to = i
  BY DEF setInodeMeta, WriteOf
<1> HIDE DEF w
<1>2. WillBe(D, d, "dir")' /\ WillBe(D, i, k)'
  BY DEF WillBe
<1>3. WillExist(D, i)'
  BY <1>2 DEF WillExist
<1>4. TypedEntry(D, w)'
  BY <1>1, <1>2, <1>3 DEF TypedEntry
<1> QED
  BY <1>1, <1>4 DEF Typed, w

\* The block of a file, the target of a link.
LEMMA ContentTyped ==
    ASSUME NEW D, NEW i \in Inodes, NEW n, NEW k \in {"file", "link"},
           kind'[i] = k \/ DataOf(i, k) \in D
    PROVE  Typed(D, setInodeMeta(i, n, NoInode))'
<1> DEFINE w == setInodeMeta(i, n, NoInode)
<1>1. w.what = "set" /\ w.ino = i /\ w.key = n /\ w.to = NoInode
  BY DEF setInodeMeta, WriteOf
<1> HIDE DEF w
<1>2. WillBe(D, i, k)'
  BY DEF WillBe
<1>3. TypedContent(D, w)'
  BY <1>1, <1>2 DEF TypedContent
<1> QED
  BY <1>1, <1>3 DEF Typed, w

\* The other writes ask for nothing.
LEMMA OthersTyped ==
    ASSUME NEW D, NEW i, NEW n
    PROVE  /\ Typed(D, Grant(i))' /\ Typed(D, removeInodeMeta(i, n))'
           /\ Typed(D, destroyInode(i))'
<1>1. /\ Grant(i).what = "grant" /\ removeInodeMeta(i, n).what = "remove"
      /\ destroyInode(i).what = "destroy"
  BY DEF Grant, removeInodeMeta, destroyInode, WriteOf
<1> QED
  BY <1>1 DEF Typed

\* Nothing but removals.
LEMMA RemovalsTyped ==
    ASSUME NEW v \in Seq(Writes), \A w \in Elements(v) : w.what \in {"remove", "destroy", "grant"}
    PROVE  \A p \in Placed(v) : Typed(p[1], p[2])'
<1> SUFFICES ASSUME NEW p \in Placed(v) PROVE Typed(p[1], p[2])'
  OBVIOUS
<1>1. p[2] \in Elements(v)
  BY PlacedAreElements
<1>2. p[2].what \in {"remove", "destroy", "grant"}
  BY <1>1
<1> QED
  BY <1>2 DEF Typed

\* clearInodeMeta removes keys of its inode.
LEMMA ClearRemoves ==
    ASSUME NEW i \in Inodes
    PROVE  /\ clearInodeMeta(i) \in Seq(Writes)
           /\ \A w \in Elements(clearInodeMeta(i)) :
                 \E n \in {".", "..", "block"} : w = removeInodeMeta(i, n)
<1> DEFINE Clear(key) == IF key \in DOMAIN meta[i] THEN <<removeInodeMeta(i, key)>> ELSE <<>>
           Right(s) == /\ s \in Seq(Writes)
                       /\ \A w \in Elements(s) :
                             \E n \in {".", "..", "block"} : w = removeInodeMeta(i, n)
<1>1. ASSUME NEW n \in {".", "..", "block"} PROVE Right(Clear(n))
  <2>1. n \in WriteKeys
    BY NamesAssumption DEF WriteKeys, Dots
  <2>2. removeInodeMeta(i, n) \in Writes
    BY <2>1, WritesAreTyped DEF Kinds
  <2>3. <<removeInodeMeta(i, n)>> \in Seq(Writes) /\ <<>> \in Seq(Writes)
    BY <2>2, EmptySeq
  <2>4. Elements(<<removeInodeMeta(i, n)>>) = {removeInodeMeta(i, n)} /\ Elements(<<>>) = {}
    BY OnePlaced, NothingPlaced
  <2> QED
    BY <2>3, <2>4
<1>2. ASSUME NEW s, NEW t, Right(s), Right(t) PROVE Right(s \o t)
  <2>1. s \o t \in Seq(Writes) /\ Elements(s \o t) = Elements(s) \cup Elements(t)
    BY <1>2, PlacedConcat
  <2> QED
    BY <1>2, <2>1
<1>3. Right(Clear(".") \o Clear("..") \o Clear("block"))
  <2> HIDE DEF Clear, Right
  <2>1. Right(Clear(".")) /\ Right(Clear("..")) /\ Right(Clear("block"))
    BY <1>1
  <2>2. Right(Clear(".") \o Clear(".."))
    BY <1>2, <2>1
  <2> QED
    BY <1>2, <2>1, <2>2
<1>4. clearInodeMeta(i) = Clear(".") \o Clear("..") \o Clear("block")
  BY DEF clearInodeMeta
<1> HIDE DEF Clear
<1> QED
  BY <1>3, <1>4

-----------------------------------------------------------------------------
(***************************************************************************)
(* The requests keep types.                                                *)
(***************************************************************************)
\* The directories of requests are known and in the tree.
LEMMA DirsAreDirs ==
    ASSUME TypeInv, NEW p \in Dirs
    PROVE  p \in Inodes /\ p \in R /\ p \in known /\ kind[p] = "dir"
  BY KidsAreInodes DEF Dirs

\* The entry n of a directory leads to an inode.
LEMMA EntryLeads ==
    ASSUME TypeInv, NEW p \in Inodes, kind[p] = "dir", NEW n \in NamesIn(p)
    PROVE  meta[p][n] \in Inodes /\ n \in Keys /\ n \notin Dots
  BY DEF TypeInv, FsckTypes, TypeOK, NamesIn, DirKeys

\* Names and dots are among the keys.
LEMMA KeysAreWriteKeys == Keys \subseteq WriteKeys /\ Names \subseteq Keys /\ Dots \subseteq Keys
  BY NamesAssumption DEF WriteKeys

\* A request leaves fsck alone.
LEMMA RequestTyped ==
    ASSUME TypeInv, Ready, UNCHANGED fsckVars, NEW writes, NEW newly_owed,
           Handle(writes, newly_owed), newly_owed \subseteq Inodes,
           writes \in Seq(Writes), \A p \in Placed(writes) : Typed(p[1], p[2])',
           last_inode' = last_inode \/ NewInode
    PROVE  TypeInv'
<1>1. /\ UNCHANGED <<kind, known, meta, remote, crashes>> /\ todo' = writes
      /\ owed' = newly_owed /\ requests' = requests + 1
  BY DEF Handle
<1>2. /\ last_inode \in Inodes /\ requests \in Nat /\ requests < MaxRequests
      /\ requests' \in 0 .. MaxRequests /\ FsckTyped
  <2>1. requests \in 0 .. MaxRequests /\ requests < MaxRequests /\ MaxRequests \in Nat
    BY NamespaceAssumption DEF TypeInv, FsckTypes, TypeOK, Ready
  <2> QED
    BY <1>1, <2>1 DEF TypeInv, FsckTypes, TypeOK, FsckTyped
<1>3. FsckTyped'
  BY <1>2 DEF FsckTyped, fsckVars
<1>4. last_inode' \in Inodes /\ last_inode' >= last_inode
  <2>1. last_inode \in 1 .. MaxInode /\ MaxInode \in Nat
    BY <1>2, InodesAreNumbers DEF Inodes
  <2> QED
    BY <2>1 DEF NewInode, Inodes
<1>5. status' # Idle => kind[fsck_ino'] = "dir"
  <2>1. Elements(todo) = {}
    BY NothingPlaced DEF Ready
  <2> QED
    BY <2>1 DEF TypeInv, WillBe, fsckVars
<1> QED
  BY <1>1, <1>2, <1>3, <1>4, <1>5, HandledTyped

\* The new inode is nobody's.
LEMMA NewInodeFresh ==
    ASSUME TypeInv, NewInode, UNCHANGED kind
    PROVE  /\ last_inode' \in Inodes /\ kind[last_inode'] = "none" /\ kind'[last_inode'] = "none"
           /\ last_inode' \notin Foreign /\ last_inode' > last_inode /\ last_inode' <= last_inode'
<1>1. last_inode \in 1 .. MaxInode /\ MaxInode \in Nat
  BY InodesAreNumbers DEF TypeInv, FsckTypes, TypeOK, Inodes
<1>2. last_inode' \in Inodes /\ last_inode' > last_inode /\ last_inode' <= last_inode'
  BY <1>1 DEF NewInode, Inodes
<1>3. kind[last_inode'] = "none"
  BY <1>2 DEF TypeInv
<1>4. last_inode' \notin Foreign
  <2>1. \A i \in Foreign : i <= last_inode
    BY DEF TypeInv
  <2>2. ~ (last_inode' <= last_inode)
    BY <1>1 DEF NewInode
  <2> QED
    BY <2>1, <2>2
<1> QED
  BY <1>2, <1>3, <1>4

\* What is owed, and what is after a name went, are inodes.
LEMMA OwedAreInodes ==
    TypeInv => owed \subseteq Inodes /\ \A p, n : Without(p, n) \subseteq Inodes
  BY DEF TypeInv, FsckTypes, TypeOK, Without

\* create and O_TRUNC: the new inode is stored before its name.
LEMMA CreateTyped ==
    ASSUME TypeInv, Ready, UNCHANGED fsckVars, NEW p \in Dirs, NEW n \in Names, Create(p, n)
    PROVE  TypeInv'
<1>0. p \in Inodes /\ kind[p] = "dir" /\ n \in Keys /\ n \in WriteKeys /\ n # "lost+found"
      /\ owed \subseteq Inodes
  BY DirsAreDirs, KeysAreWriteKeys, NamesAssumption, OwedAreInodes
<1>1. CASE n \notin DOMAIN meta[p]
  <2>0. PICK i : i = last_inode'
    OBVIOUS
  <2> DEFINE v == <<setInodeMeta(p, n, i), Grant(i)>>
             writes == storeInode(i, "file") \o v
  <2>1. NewInode /\ Handle(writes, owed) /\ UNCHANGED kind
    BY <1>1, <2>0 DEF Create, Handle
  <2>2. /\ i \in Inodes /\ kind'[i] = "none" /\ i \notin Foreign /\ i <= last_inode'
    BY <2>0, <2>1, NewInodeFresh
  <2>3. setInodeMeta(p, n, i) \in Writes /\ Grant(i) \in Writes
    BY <1>0, <2>2, WritesAreTyped DEF Kinds
  <2>4. /\ v \in Seq(Writes)
        /\ Placed(v) = {<<{}, setInodeMeta(p, n, i)>>, <<{setInodeMeta(p, n, i)}, Grant(i)>>}
    BY <2>3, TwoPlaced
  <2>5. ASSUME NEW q \in Placed(v)
        PROVE  Typed({DataOf(i, "file"), Rev(i)} \cup q[1], q[2])'
    <3> DEFINE D == {DataOf(i, "file"), Rev(i)} \cup q[1]
    <3>1. kind'[p] = "dir" /\ DataOf(i, "file") \in D /\ "file" \in Kinds \ {"none"}
      BY <1>0, <2>1 DEF Kinds
    <3> HIDE DEF D
    <3>2. Typed(D, setInodeMeta(p, n, i))'
      BY <1>0, <2>2, <3>1, EntryTyped
    <3>3. Typed(D, Grant(i))'
      BY OthersTyped
    <3>4. q[2] = setInodeMeta(p, n, i) \/ q[2] = Grant(i)
      BY <2>4
    <3>5. Typed(D, q[2])'
      BY <3>2, <3>3, <3>4
    <3> QED
      BY <3>5 DEF D
  <2> HIDE DEF v
  <2>6. writes \in Seq(Writes) /\ \A q \in Placed(writes) : Typed(q[1], q[2])'
    BY <2>2, <2>4, <2>5, StoreTyped DEF Kinds
  <2> HIDE DEF writes
  <2> QED
    BY <1>0, <2>1, <2>6, RequestTyped
<1>2. CASE n \in DOMAIN meta[p]
  <2> DEFINE writes == clearInodeMeta(meta[p][n])
  <2>1. meta[p][n] \in known /\ Handle(writes, owed) /\ last_inode' = last_inode
    BY <1>2 DEF Create
  <2>2. meta[p][n] \in Inodes
    BY <2>1 DEF TypeInv, FsckTypes, TypeOK
  <2>3. writes \in Seq(Writes) /\ \A w \in Elements(writes) : w.what = "remove"
    BY <2>2, ClearRemoves DEF removeInodeMeta, WriteOf
  <2> HIDE DEF writes
  <2>4. \A q \in Placed(writes) : Typed(q[1], q[2])'
    BY <2>3, RemovalsTyped
  <2> QED
    BY <1>0, <2>1, <2>3, <2>4, RequestTyped
<1> QED
  BY <1>1, <1>2

\* mkdir: the new directory is stored before its dots and its name.
LEMMA MkdirTyped ==
    ASSUME TypeInv, Ready, UNCHANGED fsckVars, NEW p \in Dirs, NEW n \in Names, Mkdir(p, n)
    PROVE  TypeInv'
<1>0. /\ p \in Inodes /\ kind[p] = "dir" /\ n \in Keys /\ n \in WriteKeys /\ n # "lost+found"
      /\ owed \subseteq Inodes
      /\ "." \in Keys /\ ".." \in Keys /\ "." \in WriteKeys /\ ".." \in WriteKeys
  BY DirsAreDirs, KeysAreWriteKeys, NamesAssumption, OwedAreInodes DEF Dots
<1>i. PICK i : i = last_inode'
  OBVIOUS
<1> DEFINE a == setInodeMeta(i, ".", i)
           b == setInodeMeta(p, n, i)
           c == setInodeMeta(i, "..", p)
           d == Grant(i)
           v == <<a, b, c, d>>
           writes == storeInode(i, "dir") \o v
<1>1. NewInode /\ Handle(writes, owed) /\ UNCHANGED kind
  BY <1>i DEF Mkdir, Handle, MkdirWrites
<1>2. /\ i \in Inodes /\ kind'[i] = "none" /\ i \notin Foreign /\ i <= last_inode'
  BY <1>i, <1>1, NewInodeFresh
<1>3. a \in Writes /\ b \in Writes /\ c \in Writes /\ d \in Writes
  BY <1>0, <1>2, WritesAreTyped DEF Kinds
<1>4. /\ v \in Seq(Writes)
      /\ Placed(v) = {<<{}, a>>, <<{a}, b>>, <<{a, b}, c>>, <<{a, b, c}, d>>}
  <2> HIDE DEF a, b, c, d
  <2> QED
    BY <1>3, FourPlaced
<1>5. ASSUME NEW q \in Placed(v)
      PROVE  Typed({DataOf(i, "dir"), Rev(i)} \cup q[1], q[2])'
  <2> DEFINE D == {DataOf(i, "dir"), Rev(i)} \cup q[1]
  <2>1. kind'[p] = "dir" /\ DataOf(i, "dir") \in D /\ "dir" \in Kinds \ {"none"}
    BY <1>0, <1>1 DEF Kinds
  <2> HIDE DEF D
  <2>2. Typed(D, b)'
    BY <1>0, <1>2, <2>1, EntryTyped
  <2>3. Typed(D, d)'
    BY OthersTyped
  <2>4. Typed(D, a)'
    BY <1>0, <1>2, <2>1, EntryTyped
  <2>5. Typed(D, c)'
    BY <1>0, <1>2, <2>1, EntryTyped
  <2>6. q[2] = a \/ q[2] = b \/ q[2] = c \/ q[2] = d
    <3> HIDE DEF a, b, c, d, v
    <3> QED
      BY <1>4
  <2>7. Typed(D, q[2])'
    <3> HIDE DEF a, b, c, d
    <3> QED
      BY <2>2, <2>3, <2>4, <2>5, <2>6
  <2> QED
    BY <2>7 DEF D
<1> HIDE DEF v
<1>6. writes \in Seq(Writes) /\ \A q \in Placed(writes) : Typed(q[1], q[2])'
  BY <1>2, <1>4, <1>5, StoreTyped DEF Kinds
<1> HIDE DEF writes
<1> QED
  BY <1>0, <1>1, <1>6, RequestTyped

\* symlink.
LEMMA SymlinkTyped ==
    ASSUME TypeInv, Ready, UNCHANGED fsckVars, NEW p \in Dirs, NEW n \in Names, Symlink(p, n)
    PROVE  TypeInv'
<1>0. /\ p \in Inodes /\ kind[p] = "dir" /\ n \in Keys /\ n \in WriteKeys /\ n # "lost+found"
      /\ owed \subseteq Inodes /\ "target" \in WriteKeys
  BY DirsAreDirs, KeysAreWriteKeys, NamesAssumption, OwedAreInodes DEF WriteKeys
<1>i. PICK i : i = last_inode'
  OBVIOUS
<1> DEFINE a == setInodeMeta(i, "target", NoInode)
           b == setInodeMeta(p, n, i)
           c == Grant(i)
           v == <<a, b, c>>
           writes == storeInode(i, "link") \o v
<1>1. NewInode /\ Handle(writes, owed) /\ UNCHANGED kind
  BY <1>i DEF Symlink, Handle
<1>2. /\ i \in Inodes /\ kind'[i] = "none" /\ i \notin Foreign /\ i <= last_inode'
  BY <1>i, <1>1, NewInodeFresh
<1>3. a \in Writes /\ b \in Writes /\ c \in Writes
  BY <1>0, <1>2, WritesAreTyped DEF Kinds
<1>4. /\ v \in Seq(Writes)
      /\ Placed(v) = {<<{}, a>>, <<{a}, b>>, <<{a, b}, c>>}
  <2> HIDE DEF a, b, c
  <2> QED
    BY <1>3, ThreePlaced
<1>5. ASSUME NEW q \in Placed(v)
      PROVE  Typed({DataOf(i, "link"), Rev(i)} \cup q[1], q[2])'
  <2> DEFINE D == {DataOf(i, "link"), Rev(i)} \cup q[1]
  <2>1. kind'[p] = "dir" /\ DataOf(i, "link") \in D /\ "link" \in Kinds \ {"none"}
    BY <1>0, <1>1 DEF Kinds
  <2> HIDE DEF D
  <2>2. Typed(D, b)'
    BY <1>0, <1>2, <2>1, EntryTyped
  <2>3. Typed(D, c)'
    BY OthersTyped
  <2>4. Typed(D, a)'
    BY <1>2, <2>1, ContentTyped
  <2>6. q[2] = a \/ q[2] = b \/ q[2] = c
    <3> HIDE DEF a, b, c, v
    <3> QED
      BY <1>4
  <2>7. Typed(D, q[2])'
    <3> HIDE DEF a, b, c
    <3> QED
      BY <2>2, <2>3, <2>4, <2>6
  <2> QED
    BY <2>7 DEF D
<1> HIDE DEF v
<1>6. writes \in Seq(Writes) /\ \A q \in Placed(writes) : Typed(q[1], q[2])'
  BY <1>2, <1>4, <1>5, StoreTyped DEF Kinds
<1> HIDE DEF writes
<1> QED
  BY <1>0, <1>1, <1>6, RequestTyped

\* link.
LEMMA LinkTyped ==
    ASSUME TypeInv, Ready, UNCHANGED fsckVars, NEW i \in Reachable, NEW p \in Dirs,
           NEW n \in Names, Link(i, p, n)
    PROVE  TypeInv'
<1>0. /\ p \in Inodes /\ kind[p] = "dir" /\ n \in Keys /\ n \in WriteKeys /\ n # "lost+found"
      /\ owed \subseteq Inodes /\ i \in Inodes
  BY DirsAreDirs, KeysAreWriteKeys, NamesAssumption, OwedAreInodes, KidsAreInodes
<1> DEFINE a == setInodeMeta(p, n, i)
           writes == <<a>>
<1>1. kind[i] = "file" /\ Handle(writes, owed) /\ last_inode' = last_inode /\ UNCHANGED kind
  BY DEF Link, Handle
<1>2. a \in Writes
  BY <1>0, WritesAreTyped DEF Kinds
<1>3. writes \in Seq(Writes) /\ Placed(writes) = {<<{}, a>>}
  <2> HIDE DEF a
  <2> QED
    BY <1>2, OnePlaced
<1>4. Typed({}, a)'
  <2>1. kind'[p] = "dir" /\ kind'[i] = "file" /\ "file" \in Kinds \ {"none"}
    BY <1>0, <1>1 DEF Kinds
  <2> QED
    BY <1>0, <2>1, EntryTyped
<1> HIDE DEF a
<1>5. \A q \in Placed(writes) : Typed(q[1], q[2])'
  BY <1>3, <1>4
<1> HIDE DEF writes
<1> QED
  BY <1>0, <1>1, <1>3, <1>5, RequestTyped

\* The first block of a file.
LEMMA FirstWriteTyped ==
    ASSUME TypeInv, Ready, UNCHANGED fsckVars, NEW i \in Reachable, FirstWrite(i)
    PROVE  TypeInv'
<1>0. owed \subseteq Inodes /\ i \in Inodes /\ "block" \in WriteKeys
  BY OwedAreInodes, KidsAreInodes DEF WriteKeys
<1> DEFINE a == setInodeMeta(i, "block", NoInode)
           writes == <<a>>
<1>1. kind[i] = "file" /\ Handle(writes, owed) /\ last_inode' = last_inode /\ UNCHANGED kind
  BY DEF FirstWrite, Handle
<1>2. a \in Writes
  BY <1>0, WritesAreTyped DEF Kinds
<1>3. writes \in Seq(Writes) /\ Placed(writes) = {<<{}, a>>}
  <2> HIDE DEF a
  <2> QED
    BY <1>2, OnePlaced
<1>4. Typed({}, a)'
  <2>1. kind'[i] = "file"
    BY <1>1
  <2> QED
    BY <1>0, <2>1, ContentTyped
<1> HIDE DEF a
<1>5. \A q \in Placed(writes) : Typed(q[1], q[2])'
  BY <1>3, <1>4
<1> HIDE DEF writes
<1> QED
  BY <1>0, <1>1, <1>3, <1>5, RequestTyped

\* The requests that only remove keys.
LEMMA RemovalTyped ==
    ASSUME TypeInv, Ready, UNCHANGED fsckVars, NEW p \in Dirs, NEW n \in NamesIn(p),
           Lookup(p, n) \/ Unlink(p, n) \/ Rmdir(p, n)
    PROVE  TypeInv'
<1>0. /\ p \in Inodes /\ kind[p] = "dir"
  BY DirsAreDirs
<1>1. n \in WriteKeys /\ meta[p][n] \in Inodes
  BY <1>0, EntryLeads, KeysAreWriteKeys
<1> DEFINE a == removeInodeMeta(p, n)
           rest == clearInodeMeta(meta[p][n])
<1>2. a \in Writes /\ a.what = "remove"
  <2>1. a \in Writes
    BY <1>0, <1>1, WritesAreTyped DEF Kinds
  <2> QED
    BY <2>1 DEF removeInodeMeta, WriteOf
<1>3. <<a>> \in Seq(Writes) /\ Elements(<<a>>) = {a}
  <2> HIDE DEF a
  <2> QED
    BY <1>2, OnePlaced
<1>4. rest \in Seq(Writes) /\ \A w \in Elements(rest) : w.what = "remove"
  BY <1>1, ClearRemoves DEF removeInodeMeta, WriteOf
<1>5. PICK writes \in {<<a>>, <<a>> \o rest}, newly_owed \in {owed, Without(p, n)} :
         Handle(writes, newly_owed)
  BY DEF Lookup, Unlink, Rmdir
<1>6. last_inode' = last_inode /\ newly_owed \subseteq Inodes
  BY OwedAreInodes DEF Lookup, Unlink, Rmdir
<1>7. writes \in Seq(Writes) /\ \A w \in Elements(writes) : w.what = "remove"
  <2> DEFINE first == <<a>>
  <2>1. first \in Seq(Writes) /\ Elements(first) = {a} /\ rest \in Seq(Writes)
    BY <1>3, <1>4
  <2> HIDE DEF first, rest, a
  <2>2. first \o rest \in Seq(Writes) /\ Elements(first \o rest) = Elements(first) \cup Elements(rest)
    BY <2>1, PlacedConcat
  <2>3. CASE writes = <<a>>
    BY <1>2, <1>3, <2>3
  <2>4. CASE writes = first \o rest
    BY <1>2, <1>4, <2>1, <2>2, <2>4
  <2> QED
    BY <1>5, <2>3, <2>4 DEF first
<1>8. \A q \in Placed(writes) : Typed(q[1], q[2])'
  BY <1>7, RemovalsTyped
<1> QED
  BY <1>5, <1>6, <1>7, <1>8, RequestTyped

\* rename: the new name leads to what the old one does.
LEMMA RenameTyped ==
    ASSUME TypeInv, Ready, UNCHANGED fsckVars, NEW p \in Dirs, NEW q \in Dirs,
           NEW m \in Names, NEW n \in NamesIn(p), Rename(p, n, q, m)
    PROVE  TypeInv'
<1>0. /\ p \in Inodes /\ kind[p] = "dir" /\ q \in Inodes /\ kind[q] = "dir"
      /\ m \in Keys /\ m \in WriteKeys /\ m # "lost+found"
  BY DirsAreDirs, KeysAreWriteKeys, NamesAssumption
<1>1. n \in WriteKeys /\ meta[p][n] \in Inodes
  BY <1>0, EntryLeads, KeysAreWriteKeys
<1>2. PICK i : i = meta[p][n]
  OBVIOUS
<1> DEFINE a == setInodeMeta(q, m, i)
           b == removeInodeMeta(p, n)
           writes == <<a, b>>
<1>3. PICK newly_owed \in {owed, Without(q, m)} : Handle(writes, newly_owed)
  BY <1>2 DEF Rename, RenameWrites
<1>4. i \in known /\ last_inode' = last_inode /\ newly_owed \subseteq Inodes /\ UNCHANGED kind
  BY <1>2, OwedAreInodes DEF Rename, Handle
<1>5. kind[i] \in Kinds \ {"none"}
  BY <1>4 DEF TypeInv, FsckTypes, TypeOK
<1>6. a \in Writes /\ b \in Writes
  BY <1>0, <1>1, <1>2, WritesAreTyped DEF Kinds
<1>7. writes \in Seq(Writes) /\ Placed(writes) = {<<{}, a>>, <<{a}, b>>}
  <2> HIDE DEF a, b
  <2> QED
    BY <1>6, TwoPlaced
<1>8. Typed({}, a)'
  <2>1. PICK k \in Kinds \ {"none"} : k = kind[i]
    BY <1>5
  <2>2. kind'[q] = "dir" /\ kind'[i] = k
    BY <1>0, <1>4, <2>1
  <2> QED
    BY <1>0, <1>1, <1>2, <2>2, EntryTyped
<1>9. Typed({a}, b)'
  BY OthersTyped
<1> HIDE DEF a, b
<1>10. \A r \in Placed(writes) : Typed(r[1], r[2])'
  BY <1>7, <1>8, <1>9
<1> HIDE DEF writes
<1> QED
  BY <1>3, <1>4, <1>7, <1>10, RequestTyped

-----------------------------------------------------------------------------
(***************************************************************************)
(* The writes keep types.                                                  *)
(***************************************************************************)
\* What a write relied on before the first one is done, it finds afterwards.
LEMMA TypedStays ==
    ASSUME TypeInv, UNCHANGED last_inode, NEW w \in Writes, Typed({}, w),
           kind' = IF w.what = "data" THEN [kind EXCEPT ![w.ino] = w.key] ELSE kind,
           NEW D, NEW x \in Writes, Typed({w} \cup D, x)
    PROVE  Typed(D, x)'
<1>0. w.ino \in Inodes /\ kind \in [Inodes -> Kinds] /\ x.ino \in Inodes
  BY DEF Writes, TypeInv, FsckTypes, TypeOK
<1>1. ASSUME NEW i \in Inodes, NEW k \in Kinds \ {"none"}, WillBe({w} \cup D, i, k)
      PROVE  WillBe(D, i, k)'
  <2>1. CASE kind[i] = k
    <3>1. w.what = "data" => kind[w.ino] = "none"
      BY DEF Typed, TypedData
    <3>2. kind'[i] = k
      BY <1>0, <2>1, <3>1
    <3> QED
      BY <3>2 DEF WillBe
  <2>2. CASE w = DataOf(i, k)
    <3>1. w.what = "data" /\ w.ino = i /\ w.key = k
      BY <2>2 DEF DataOf, WriteOf
    <3>2. kind'[i] = k
      BY <1>0, <3>1
    <3> QED
      BY <3>2 DEF WillBe
  <2>3. CASE DataOf(i, k) \in D
    BY <2>3 DEF WillBe
  <2> QED
    BY <1>1, <2>1, <2>2, <2>3 DEF WillBe
<1>2. ASSUME NEW i \in Inodes, WillExist({w} \cup D, i) PROVE WillExist(D, i)'
  BY <1>1, <1>2 DEF WillExist
<1>3. x.what = "data" => TypedData(D, x)'
  <2> SUFFICES ASSUME x.what = "data" PROVE TypedData(D, x)'
    OBVIOUS
  <2>1. TypedData({w} \cup D, x)
    BY DEF Typed
  <2>2. w.ino # x.ino
    BY <2>1 DEF TypedData
  <2>3. kind'[x.ino] = kind[x.ino]
    BY <1>0, <2>2
  <2> QED
    BY <2>1, <2>3 DEF TypedData
<1>4. x.what = "rev" => WillExist(D, x.ino)'
  BY <1>0, <1>2 DEF Typed
<1>5. x.what = "set" => (TypedEntry(D, x) \/ TypedContent(D, x))'
  <2> SUFFICES ASSUME x.what = "set" PROVE (TypedEntry(D, x) \/ TypedContent(D, x))'
    OBVIOUS
  <2>0. "dir" \in Kinds \ {"none"} /\ "file" \in Kinds \ {"none"} /\ "link" \in Kinds \ {"none"}
    BY DEF Kinds
  <2>1. CASE TypedEntry({w} \cup D, x)
    BY <1>0, <1>1, <1>2, <2>0, <2>1 DEF TypedEntry
  <2>2. CASE TypedContent({w} \cup D, x)
    BY <1>0, <1>1, <2>0, <2>2 DEF TypedContent
  <2> QED
    BY <2>1, <2>2 DEF Typed
<1> QED
  BY <1>3, <1>4, <1>5 DEF Typed

\* The keys after a write.
AfterWrite(w, entries) ==
    IF w.what = "set"
    THEN [k \in DOMAIN entries \cup {w.key} |-> IF k = w.key THEN w.to ELSE entries[k]]
    ELSE IF w.what = "remove" THEN [k \in DOMAIN entries \ {w.key} |-> entries[k]]
    ELSE entries

\* A write, put simply.
LEMMA WriteDoes ==
    ASSUME TypeInv, Write
    PROVE  \E w \in Writes :
             /\ w = Head(todo) /\ todo \in Seq(Writes) /\ todo # <<>> /\ todo' = Tail(todo)
             /\ Typed({}, w)
             /\ kind' = IF w.what = "data" THEN [kind EXCEPT ![w.ino] = w.key] ELSE kind
             /\ known' = IF w.what = "rev" THEN known \cup {w.ino}
                         ELSE IF w.what = "destroy" THEN known \ {w.ino} ELSE known
             /\ DOMAIN meta' = Inodes
             /\ \A i \in Inodes : meta'[i] = IF i = w.ino THEN AfterWrite(w, meta[i]) ELSE meta[i]
             /\ owed' = IF w.what = "grant" THEN owed \cup {w.ino} ELSE owed
             /\ UNCHANGED <<last_inode, remote, requests, crashes>>
<1>1. todo \in Seq(Writes) /\ todo # <<>> /\ todo' = Tail(todo) /\ DOMAIN meta = Inodes
  BY DEF TypeInv, Write
<1>2. PICK w : w = Head(todo)
  OBVIOUS
<1>3. w \in Writes /\ <<{}, w>> \in Placed(todo)
  BY <1>1, <1>2, PlacedTail
<1>4. Typed({}, w)
  <2>1. \A p \in Placed(todo) : Typed(p[1], p[2])
    BY DEF TypeInv, TypedTodo
  <2>2. Typed(<<{}, w>>[1], <<{}, w>>[2])
    BY <1>3, <2>1
  <2> QED
    BY <2>2
<1>5. w.ino \in Inodes
  BY <1>3 DEF Writes
<1>6. /\ DOMAIN meta' = Inodes
      /\ \A i \in Inodes : meta'[i] = IF i = w.ino THEN AfterWrite(w, meta[i]) ELSE meta[i]
  <2>1. meta' =
          IF w.what = "set"
          THEN [meta EXCEPT ![w.ino] =
                  [k \in DOMAIN meta[w.ino] \cup {w.key} |->
                      IF k = w.key THEN w.to ELSE meta[w.ino][k]]]
          ELSE IF w.what = "remove"
          THEN [meta EXCEPT ![w.ino] =
                  [k \in DOMAIN meta[w.ino] \ {w.key} |-> meta[w.ino][k]]]
          ELSE meta
    BY <1>2 DEF Write
  <2>2. CASE w.what = "set"
    BY <1>1, <1>5, <2>1, <2>2 DEF AfterWrite
  <2>3. CASE w.what = "remove"
    BY <1>1, <1>5, <2>1, <2>3 DEF AfterWrite
  <2>4. CASE w.what # "set" /\ w.what # "remove"
    BY <1>1, <1>5, <2>1, <2>4 DEF AfterWrite
  <2> QED
    BY <2>2, <2>3, <2>4
<1>7. /\ kind' = IF w.what = "data" THEN [kind EXCEPT ![w.ino] = w.key] ELSE kind
      /\ known' = IF w.what = "rev" THEN known \cup {w.ino}
                  ELSE IF w.what = "destroy" THEN known \ {w.ino} ELSE known
      /\ owed' = IF w.what = "grant" THEN owed \cup {w.ino} ELSE owed
      /\ UNCHANGED <<last_inode, remote, requests, crashes>>
  BY <1>2 DEF Write
<1> QED
  BY <1>1, <1>2, <1>3, <1>4, <1>6, <1>7

\* One write of a handler: it was typed, and what remains is typed without it.
LEMMA WriteTyped ==
    ASSUME TypeInv, Write, UNCHANGED fsckVars
    PROVE  TypeInv'
<1>1. PICK w \in Writes :
             /\ w = Head(todo) /\ todo \in Seq(Writes) /\ todo # <<>> /\ todo' = Tail(todo)
             /\ Typed({}, w)
             /\ kind' = IF w.what = "data" THEN [kind EXCEPT ![w.ino] = w.key] ELSE kind
             /\ known' = IF w.what = "rev" THEN known \cup {w.ino}
                         ELSE IF w.what = "destroy" THEN known \ {w.ino} ELSE known
             /\ DOMAIN meta' = Inodes
             /\ \A i \in Inodes : meta'[i] = IF i = w.ino THEN AfterWrite(w, meta[i]) ELSE meta[i]
             /\ owed' = IF w.what = "grant" THEN owed \cup {w.ino} ELSE owed
             /\ UNCHANGED <<last_inode, remote, requests, crashes>>
  BY WriteDoes
<1>2. w.ino \in Inodes /\ FsckTypes /\ TypeOK
  BY <1>1 DEF Writes, TypeInv, FsckTypes
<1>k. ASSUME NEW i \in Inodes, NEW k \in DOMAIN meta'[i]
      PROVE  \/ k \in DOMAIN meta[i] /\ meta'[i][k] = meta[i][k]
             \/ i = w.ino /\ w.what = "set" /\ k = w.key /\ meta'[i][k] = w.to
  <2>1. CASE i = w.ino
    <3>0. PICK e : e = meta[i]
      OBVIOUS
    <3>1. meta'[i] = AfterWrite(w, e)
      BY <1>1, <2>1, <3>0
    <3>2. CASE w.what = "set"
      <4>1. meta'[i] = [x \in DOMAIN e \cup {w.key} |-> IF x = w.key THEN w.to ELSE e[x]]
        BY <3>1, <3>2 DEF AfterWrite
      <4>2. k \in DOMAIN e \cup {w.key} /\ meta'[i][k] = IF k = w.key THEN w.to ELSE e[k]
        BY <4>1
      <4> QED
        BY <2>1, <3>0, <3>2, <4>2
    <3>3. CASE w.what = "remove"
      <4>1. meta'[i] = [x \in DOMAIN e \ {w.key} |-> e[x]]
        BY <3>1, <3>3 DEF AfterWrite
      <4>2. k \in DOMAIN e /\ meta'[i][k] = e[k]
        BY <4>1
      <4> QED
        BY <3>0, <4>2
    <3>4. CASE w.what # "set" /\ w.what # "remove"
      <4>1. meta'[i] = e
        BY <3>1, <3>4 DEF AfterWrite
      <4> QED
        BY <3>0, <4>1
    <3> QED
      BY <3>2, <3>3, <3>4
  <2>2. CASE i # w.ino
    BY <1>1, <2>2
  <2> QED
    BY <2>1, <2>2
<1>3. /\ Elements(todo) = {w} \cup Elements(todo') /\ todo' \in Seq(Writes)
      /\ \A p \in Placed(todo') : <<{w} \cup p[1], p[2]>> \in Placed(todo)
  BY <1>1, PlacedTail
<1>4. /\ kind' \in [Inodes -> Kinds]
      /\ \A i \in Inodes : kind[i] # "none" => kind'[i] = kind[i]
      /\ \A i \in Inodes : kind'[i] # kind[i] =>
            kind[i] = "none" /\ i \notin Foreign /\ i <= last_inode /\ w.what = "data"
  <2>1. CASE w.what = "data"
    <3>1. w.key \in Kinds /\ kind[w.ino] = "none" /\ w.ino \notin Foreign /\ w.ino <= last_inode
      BY <1>1, <2>1 DEF Typed, TypedData
    <3> QED
      BY <1>1, <1>2, <2>1, <3>1 DEF TypeOK
  <2>2. CASE w.what # "data"
    BY <1>1, <1>2, <2>2 DEF TypeOK
  <2> QED
    BY <2>1, <2>2
<1>5. known' \subseteq {i \in Inodes : kind'[i] # "none"}
  <2>1. w.what = "rev" => kind[w.ino] # "none"
    <3> SUFFICES ASSUME w.what = "rev" PROVE kind[w.ino] # "none"
      OBVIOUS
    <3>1. WillExist({}, w.ino)
      BY <1>1 DEF Typed
    <3> QED
      BY <3>1 DEF WillExist, WillBe
  <2>2. \A i \in known' : i \in known \/ (w.what = "rev" /\ i = w.ino)
    BY <1>1
  <2>3. \A i \in known : i \in Inodes /\ kind[i] # "none"
    BY <1>2 DEF TypeOK
  <2> QED
    BY <1>2, <1>4, <2>1, <2>2, <2>3
<1>6. ASSUME NEW i \in Inodes, NEW k \in DOMAIN meta'[i]
      PROVE  /\ kind'[i] # "none"
             /\ meta'[i][k] \in IF kind'[i] = "dir" THEN Inodes ELSE {NoInode}
             /\ kind'[i] = "dir" => kind'[meta'[i][k]] # "none" \/ meta'[i][k] \in remote'
  <2>1. CASE k \in DOMAIN meta[i] /\ meta'[i][k] = meta[i][k]
    <3>1. /\ kind[i] # "none"
          /\ meta[i][k] \in IF kind[i] = "dir" THEN Inodes ELSE {NoInode}
          /\ kind[i] = "dir" => kind[meta[i][k]] # "none" \/ meta[i][k] \in remote
      BY <1>2, <2>1 DEF TypeOK
    <3>2. kind'[i] = kind[i]
      BY <1>4, <3>1
    <3>3. kind[i] = "dir" => kind'[meta[i][k]] # "none" \/ meta[i][k] \in remote'
      BY <1>1, <1>4, <3>1
    <3> QED
      BY <2>1, <3>1, <3>2, <3>3
  <2>2. CASE ~ (k \in DOMAIN meta[i] /\ meta'[i][k] = meta[i][k])
    <3>1. i = w.ino /\ w.what = "set" /\ k = w.key /\ meta'[i][k] = w.to
      BY <1>k, <2>2
    <3>2. kind' = kind
      BY <1>1, <3>1
    <3>3. CASE TypedEntry({}, w)
      <4>1. kind[i] = "dir" /\ w.to \in Inodes /\ kind[w.to] # "none"
        BY <3>1, <3>3 DEF TypedEntry, WillExist, WillBe
      <4> QED
        BY <3>1, <3>2, <4>1
    <3>4. CASE TypedContent({}, w)
      <4>1. kind[i] \in {"file", "link"} /\ w.to = NoInode
        BY <3>1, <3>4 DEF TypedContent, WillBe
      <4> QED
        BY <3>1, <3>2, <4>1
    <3> QED
      BY <1>1, <3>1, <3>3, <3>4 DEF Typed
  <2> QED
    BY <2>1, <2>2
<1>7. \A j \in DOMAIN todo' : todo'[j].ino \in Inodes
  <2>1. \A j \in DOMAIN todo' : todo'[j] \in Writes
    BY <1>3, LenProperties, ElementOfSeq
  <2> QED
    BY <2>1 DEF Writes
<1>8. TypeOK'
  <2>1. /\ last_inode' \in Inodes /\ remote' \subseteq Foreign /\ owed' \subseteq Inodes
        /\ requests' \in 0 .. MaxRequests /\ crashes' \in 0 .. MaxCrashes
    BY <1>1, <1>2 DEF TypeOK
  <2> QED
    BY <1>4, <1>5, <1>6, <1>7, <2>1 DEF TypeOK
<1>9. FsckTypes'
  BY <1>2, <1>8 DEF FsckTypes, fsckVars
<1>10. TypedTodo'
  <2> SUFFICES ASSUME NEW p \in Placed(todo)' PROVE Typed(p[1], p[2])'
    BY DEF TypedTodo
  <2>1. <<{w} \cup p[1], p[2]>> \in Placed(todo)
    BY <1>3
  <2>2. Typed(<<{w} \cup p[1], p[2]>>[1], <<{w} \cup p[1], p[2]>>[2])
    BY <2>1 DEF TypeInv, TypedTodo
  <2>3. Typed({w} \cup p[1], p[2])
    BY <2>2
  <2>4. p[2] \in Writes
    <3>1. p[2] \in Elements(todo')
      BY <1>3, PlacedAreElements
    <3> QED
      BY <3>1, <1>3, LenProperties, ElementOfSeq DEF Elements
  <2> QED
    BY <1>1, <2>3, <2>4, TypedStays
<1>11. /\ kind'[Root] = "dir"
       /\ \A i \in Inodes : i > last_inode' => kind'[i] = "none"
       /\ \A i \in Foreign : i <= last_inode' /\ kind'[i] \in {"none", "file"}
  <2>1. Root \in Inodes /\ \A i \in Foreign : i \in Inodes
    BY InodesAreNumbers, NamespaceAssumption
  <2>2. \A i \in Inodes : i \in Nat
    BY InodesAreNumbers
  <2>3. last_inode \in Nat /\ last_inode' = last_inode
    BY <1>1, <1>2, InodesAreNumbers DEF TypeOK
  <2>4. /\ kind[Root] = "dir" /\ \A i \in Inodes : i > last_inode => kind[i] = "none"
        /\ \A i \in Foreign : i <= last_inode /\ kind[i] \in {"none", "file"}
    BY DEF TypeInv
  <2>5. kind'[Root] = "dir"
    BY <1>4, <2>1, <2>4
  <2>6. ASSUME NEW i \in Inodes, i > last_inode PROVE kind'[i] = "none"
    <3>1. ~ (i <= last_inode)
      BY <2>2, <2>3, <2>6
    <3> QED
      BY <1>4, <2>4, <2>6, <3>1
  <2>7. \A i \in Foreign : kind'[i] \in {"none", "file"}
    BY <1>4, <2>1, <2>4
  <2> QED
    BY <2>3, <2>4, <2>5, <2>6, <2>7
<1>12. LostFoundIsDir'
  <2> SUFFICES ASSUME "lost+found" \in DOMAIN meta'[Root]
               PROVE  kind'[meta'[Root]["lost+found"]] = "dir"
    BY DEF LostFoundIsDir
  <2>1. Root \in Inodes /\ kind[Root] = "dir" /\ LostFoundIsDir
    BY InodesAreNumbers DEF TypeInv
  <2>2. CASE "lost+found" \in DOMAIN meta[Root] /\ meta'[Root]["lost+found"] = meta[Root]["lost+found"]
    <3>1. kind[meta[Root]["lost+found"]] = "dir" /\ meta[Root]["lost+found"] \in Inodes
      BY <1>2, <2>1, <2>2 DEF LostFoundIsDir, TypeOK
    <3> QED
      BY <1>4, <2>2, <3>1
  <2>3. CASE ~ ("lost+found" \in DOMAIN meta[Root] /\ meta'[Root]["lost+found"] = meta[Root]["lost+found"])
    <3>1. Root = w.ino /\ w.what = "set" /\ w.key = "lost+found" /\ meta'[Root]["lost+found"] = w.to
      BY <1>k, <2>1, <2>3
    <3>2. ~ TypedContent({}, w)
      BY <2>1, <3>1 DEF TypedContent, WillBe
    <3>3. kind[w.to] = "dir" /\ kind' = kind
      BY <1>1, <3>1, <3>2 DEF Typed, TypedEntry, WillBe
    <3> QED
      BY <3>1, <3>3
  <2> QED
    BY <2>2, <2>3
<1>13. DirKeys'
  <2> SUFFICES ASSUME NEW d \in Inodes, kind'[d] = "dir", NEW k \in DOMAIN meta'[d]
               PROVE  k \in Keys
    BY DEF DirKeys
  <2>1. CASE k \in DOMAIN meta[d]
    <3>1. kind[d] = "dir"
      BY <1>2, <1>4, <2>1 DEF TypeOK
    <3> QED
      BY <2>1, <3>1 DEF TypeInv, DirKeys
  <2>2. CASE k \notin DOMAIN meta[d]
    <3>1. d = w.ino /\ w.what = "set" /\ k = w.key
      BY <1>k, <2>2
    <3>2. kind' = kind
      BY <1>1, <3>1
    <3>3. ~ TypedContent({}, w)
      BY <3>1, <3>2 DEF TypedContent, WillBe
    <3> QED
      BY <1>1, <3>1, <3>3 DEF Typed, TypedEntry
  <2> QED
    BY <2>1, <2>2
<1>14. (status # Idle)' => WillBe(Elements(todo), fsck_ino, "dir")'
  <2> SUFFICES ASSUME status' # Idle PROVE WillBe(Elements(todo), fsck_ino, "dir")'
    OBVIOUS
  <2>1. WillBe(Elements(todo), fsck_ino, "dir") /\ fsck_ino' = fsck_ino /\ fsck_ino \in Inodes
    BY DEF TypeInv, FsckTypes, fsckVars
  <2>2. CASE kind[fsck_ino] = "dir"
    BY <1>4, <2>1, <2>2 DEF WillBe
  <2>3. CASE DataOf(fsck_ino, "dir") \in Elements(todo')
    BY <2>1, <2>3 DEF WillBe
  <2>4. CASE DataOf(fsck_ino, "dir") = w
    <3>1. w.what = "data" /\ w.ino = fsck_ino /\ w.key = "dir"
      BY <2>4 DEF DataOf, WriteOf
    <3>2. kind'[fsck_ino] = "dir"
      BY <1>1, <1>2, <2>1, <3>1 DEF TypeOK
    <3> QED
      BY <2>1, <3>2 DEF WillBe
  <2> QED
    BY <1>3, <2>1, <2>2, <2>3, <2>4 DEF WillBe
<1> QED
  BY <1>1, <1>3, <1>9, <1>10, <1>11, <1>12, <1>13, <1>14 DEF TypeInv

\* Revisions of other nodes arrive while no handler runs.
LEMMA ArrivalTyped ==
    ASSUME TypeInv, UNCHANGED fsckVars, Arrival
    PROVE  TypeInv'
<1>0. FsckTypes /\ TypeOK /\ DOMAIN meta = Inodes /\ (\A f \in Foreign : f \in Inodes)
  BY NamespaceAssumption DEF TypeInv, FsckTypes
<1>1. ASSUME NEW i \in Foreign, NEW p \in Dirs, NEW n \in Names, RemoteEntry(i, p, n)
      PROVE  TypeInv'
  <2>1. p \in Inodes /\ kind[p] = "dir" /\ n \in Keys /\ n # "lost+found" /\ i \in Inodes
    BY <1>0, DirsAreDirs, KeysAreWriteKeys, NamesAssumption
  <2>2. /\ UNCHANGED <<kind, known, todo, last_inode, owed, crashes>>
        /\ remote' = remote \cup {i} /\ DOMAIN meta' = Inodes /\ requests' = requests + 1
        /\ \A d \in Inodes \ {p} : meta'[d] = meta[d]
        /\ DOMAIN meta'[p] = DOMAIN meta[p] \cup {n}
        /\ meta'[p][n] = i
        /\ \A k \in DOMAIN meta[p] : k # n /\ meta'[p][k] = meta[p][k]
    BY <1>0, <1>1, <2>1 DEF RemoteEntry
  <2>3. ASSUME NEW d \in Inodes, NEW k \in DOMAIN meta'[d]
        PROVE  (k \in DOMAIN meta[d] /\ meta'[d][k] = meta[d][k]) \/ (d = p /\ k = n)
    BY <2>2
  <2>4. ASSUME NEW d \in Inodes, NEW k \in DOMAIN meta'[d]
        PROVE  /\ kind'[d] # "none"
               /\ meta'[d][k] \in IF kind'[d] = "dir" THEN Inodes ELSE {NoInode}
               /\ kind'[d] = "dir" => kind'[meta'[d][k]] # "none" \/ meta'[d][k] \in remote'
    <3>1. CASE d = p /\ k = n
      BY <2>1, <2>2, <3>1
    <3>2. CASE k \in DOMAIN meta[d] /\ meta'[d][k] = meta[d][k]
      <4>1. /\ kind[d] # "none"
            /\ meta[d][k] \in IF kind[d] = "dir" THEN Inodes ELSE {NoInode}
            /\ kind[d] = "dir" => kind[meta[d][k]] # "none" \/ meta[d][k] \in remote
        BY <1>0, <3>2 DEF TypeOK
      <4> QED
        BY <2>2, <3>2, <4>1
    <3> QED
      BY <2>3, <3>1, <3>2
  <2>5. TypeOK'
    <3>1. remote' \subseteq Foreign
      BY <1>0, <2>2 DEF TypeOK
    <3>2. requests' \in 0 .. MaxRequests
      <4>1. requests \in 0 .. MaxRequests /\ MaxRequests \in Nat /\ requests < MaxRequests
        BY <1>0, <1>1, NamespaceAssumption DEF TypeOK, RemoteEntry, Ready
      <4> QED
        BY <2>2, <4>1
    <3> QED
      BY <1>0, <2>2, <2>4, <3>1, <3>2 DEF TypeOK
  <2>6. FsckTypes'
    BY <1>0, <2>5 DEF FsckTypes, fsckVars
  <2>7. TypedTodo'
    <3> SUFFICES ASSUME NEW q \in Placed(todo) PROVE Typed(q[1], q[2])'
      BY <2>2 DEF TypedTodo
    <3>1. Placed(todo) = {}
      BY <1>1, NothingPlaced DEF RemoteEntry, Ready
    <3> QED
      BY <3>1
  <2>8. LostFoundIsDir' /\ DirKeys'
    <3>1. "lost+found" \in DOMAIN meta'[Root] =>
             "lost+found" \in DOMAIN meta[Root] /\ meta'[Root]["lost+found"] = meta[Root]["lost+found"]
      BY <2>1, <2>3, InodesAreNumbers
    <3>2. LostFoundIsDir'
      BY <2>2, <3>1 DEF TypeInv, LostFoundIsDir
    <3>3. \A d \in Inodes : kind[d] = "dir" => DOMAIN meta[d] \subseteq Keys
      BY DEF TypeInv, DirKeys
    <3>4. DirKeys'
      BY <2>1, <2>2, <2>3, <3>3 DEF DirKeys
    <3> QED
      BY <3>2, <3>4
  <2> QED
    BY <2>2, <2>6, <2>7, <2>8 DEF TypeInv, WillBe, fsckVars
<1>2. ASSUME NEW i \in remote, RemoteInode(i) PROVE TypeInv'
  <2>1. i \in Inodes /\ i \in Foreign /\ kind[i] \in {"none", "file"} /\ i <= last_inode
    BY <1>0 DEF TypeOK, TypeInv
  <2>2. /\ UNCHANGED <<meta, todo, last_inode, requests, crashes>>
        /\ remote' = remote \ {i} /\ known' = known \cup {i}
        /\ kind' = [kind EXCEPT ![i] = "file"]
        /\ owed' \subseteq owed \cup {i}
    BY <1>2 DEF RemoteInode
  <2>3. /\ kind' \in [Inodes -> Kinds] /\ kind'[i] = "file"
        /\ \A d \in Inodes \ {i} : kind'[d] = kind[d]
        /\ \A d \in Inodes : kind[d] # "none" => kind'[d] = kind[d]
    BY <1>0, <2>1, <2>2 DEF TypeOK, Kinds
  <2>4. ASSUME NEW d \in Inodes, NEW k \in DOMAIN meta'[d]
        PROVE  /\ kind'[d] # "none"
               /\ meta'[d][k] \in IF kind'[d] = "dir" THEN Inodes ELSE {NoInode}
               /\ kind'[d] = "dir" => kind'[meta'[d][k]] # "none" \/ meta'[d][k] \in remote'
    <3>1. /\ kind[d] # "none"
          /\ meta[d][k] \in IF kind[d] = "dir" THEN Inodes ELSE {NoInode}
          /\ kind[d] = "dir" => kind[meta[d][k]] # "none" \/ meta[d][k] \in remote
      BY <1>0, <2>2 DEF TypeOK
    <3>2. kind'[d] = kind[d]
      BY <2>3, <3>1
    <3>3. kind[d] = "dir" => kind'[meta[d][k]] # "none" \/ meta[d][k] \in remote'
      <4> SUFFICES ASSUME kind[d] = "dir" PROVE kind'[meta[d][k]] # "none" \/ meta[d][k] \in remote'
        OBVIOUS
      <4>1. CASE meta[d][k] = i
        BY <2>3, <4>1
      <4>2. CASE meta[d][k] # i
        BY <2>2, <2>3, <3>1, <4>2
      <4> QED
        BY <4>1, <4>2
    <3> QED
      BY <2>2, <3>1, <3>2, <3>3
  <2>5. TypeOK'
    <3>1. remote' \subseteq Foreign /\ owed' \subseteq Inodes
      BY <1>0, <2>1, <2>2 DEF TypeOK
    <3>2. known' \subseteq {d \in Inodes : kind'[d] # "none"}
      BY <1>0, <2>1, <2>2, <2>3 DEF TypeOK
    <3> QED
      BY <1>0, <2>2, <2>3, <2>4, <3>1, <3>2 DEF TypeOK
  <2>6. FsckTypes'
    BY <1>0, <2>5 DEF FsckTypes, fsckVars
  <2>7. TypedTodo'
    <3> SUFFICES ASSUME NEW q \in Placed(todo) PROVE Typed(q[1], q[2])'
      BY <2>2 DEF TypedTodo
    <3>1. Placed(todo) = {}
      BY <1>2, NothingPlaced DEF RemoteInode
    <3> QED
      BY <3>1
  <2>8. LostFoundIsDir'
    <3>1. "lost+found" \in DOMAIN meta[Root] =>
             kind[meta[Root]["lost+found"]] = "dir" /\ meta[Root]["lost+found"] \in Inodes
      BY <1>0, InodesAreNumbers DEF TypeInv, LostFoundIsDir, TypeOK
    <3> QED
      BY <2>2, <2>3, <3>1 DEF LostFoundIsDir
  <2>9. DirKeys'
    <3>1. \A d \in Inodes : kind'[d] = "dir" => kind[d] = "dir"
      BY <2>3
    <3> QED
      BY <2>2, <3>1 DEF TypeInv, DirKeys
  <2>10. /\ kind'[Root] = "dir"
         /\ \A d \in Inodes : d > last_inode' => kind'[d] = "none"
         /\ \A f \in Foreign : f <= last_inode' /\ kind'[f] \in {"none", "file"}
    <3>1. ASSUME NEW d \in Inodes, d > last_inode PROVE d # i
      <4>1. d \in Nat /\ i \in Nat /\ last_inode \in Nat
        BY <1>0, <2>1, InodesAreNumbers DEF TypeOK
      <4> QED
        BY <2>1, <3>1, <4>1
    <3> QED
      BY <1>0, <2>2, <2>3, <3>1, InodesAreNumbers DEF TypeInv
  <2>11. (status # Idle)' => WillBe(Elements(todo), fsck_ino, "dir")'
    <3>1. status # Idle => kind[fsck_ino] = "dir" /\ fsck_ino \in Inodes
      <4>1. Elements(todo) = {}
        BY <1>2, NothingPlaced DEF RemoteInode
      <4> QED
        BY <1>0, <4>1 DEF TypeInv, WillBe, FsckTypes
    <3> QED
      BY <2>3, <3>1 DEF WillBe, fsckVars
  <2> QED
    BY <1>0, <2>2, <2>6, <2>7, <2>8, <2>9, <2>10, <2>11 DEF TypeInv
<1> QED
  BY <1>1, <1>2 DEF Arrival

\* A crash forgets the writes that were still to be made.
LEMMA CrashTyped ==
    ASSUME TypeInv, Crash, Ended
    PROVE  TypeInv'
<1>1. FsckTypes /\ TypeOK
  BY DEF TypeInv, FsckTypes
<1>2. crashes' \in 0 .. MaxCrashes
  <2>1. crashes \in 0 .. MaxCrashes /\ crashes < MaxCrashes /\ MaxCrashes \in Nat
    BY <1>1, NamespaceAssumption DEF Crash, TypeOK
  <2> QED
    BY <2>1 DEF Crash
<1>3. TypeOK'
  <2>1. DOMAIN todo' = {}
    BY DEF Crash
  <2> QED
    BY <1>1, <1>2, <2>1 DEF TypeOK, Crash
<1>4. FsckTypes'
  <2>1. fsck_ino_max' \in 0 .. MaxInode
    BY NamespaceAssumption DEF Ended
  <2>2. scan_inode' \in Inodes /\ fsck_ino' \in Inodes /\ scan_inode_queue' \in Seq(Inodes)
    BY InodesAreNumbers, EmptySeq DEF Ended
  <2>3. status' \in 1 .. Idle /\ known_inodes' \subseteq Inodes /\ fscks' = fscks
    BY DEF Ended, Idle
  <2> QED
    BY <1>1, <1>3, <2>1, <2>2, <2>3 DEF FsckTypes
<1>5. todo' \in Seq(Writes) /\ TypedTodo'
  <2>1. todo' = <<>>
    BY DEF Crash
  <2> QED
    BY <2>1, EmptySeq, NothingPlaced DEF TypedTodo
<1> QED
  BY <1>4, <1>5 DEF TypeInv, LostFoundIsDir, DirKeys, WillBe, Crash, Ended

-----------------------------------------------------------------------------
(***************************************************************************)
(* fsck keeps types.                                                       *)
(***************************************************************************)
\* The writes that make a directory, wherever they stand.
LEMMA DirectoryPlaced ==
    ASSUME NEW i \in Inodes, NEW p \in Inodes, NEW n \in Keys
    PROVE  LET a == setInodeMeta(i, ".", i)
               b == setInodeMeta(p, n, i)
               c == setInodeMeta(i, "..", p)
               v == <<a, b, c>>
           IN  /\ DirectoryWrites(i, p, n) = storeInode(i, "dir") \o v
               /\ v \in Seq(Writes) /\ Elements(v) = {a, b, c}
               /\ Placed(v) = {<<{}, a>>, <<{a}, b>>, <<{a, b}, c>>}
               /\ DirectoryWrites(i, p, n) \in Seq(Writes)
               /\ Elements(DirectoryWrites(i, p, n)) = {DataOf(i, "dir"), Rev(i), a, b, c}
<1> DEFINE a == setInodeMeta(i, ".", i)
           b == setInodeMeta(p, n, i)
           c == setInodeMeta(i, "..", p)
           v == <<a, b, c>>
<1>1. a \in Writes /\ b \in Writes /\ c \in Writes
  <2>1. "." \in WriteKeys /\ ".." \in WriteKeys /\ n \in WriteKeys
    BY KeysAreWriteKeys DEF Dots
  <2> QED
    BY <2>1, WritesAreTyped DEF Kinds
<1>2. DirectoryWrites(i, p, n) = storeInode(i, "dir") \o v
  BY DEF DirectoryWrites
<1> HIDE DEF a, b, c
<1>3. /\ v \in Seq(Writes) /\ Elements(v) = {a, b, c}
      /\ Placed(v) = {<<{}, a>>, <<{a}, b>>, <<{a, b}, c>>}
  BY <1>1, ThreePlaced
<1> HIDE DEF v
<1>4. /\ storeInode(i, "dir") \o v \in Seq(Writes)
      /\ Elements(storeInode(i, "dir") \o v) = {DataOf(i, "dir"), Rev(i)} \cup Elements(v)
  <2>1. PICK k \in Kinds : k = "dir"
    BY DEF Kinds
  <2>2. PICK u \in Seq(Writes) : u = v
    BY <1>3
  <2>3. /\ storeInode(i, k) \o u \in Seq(Writes)
        /\ Elements(storeInode(i, k) \o u) = {DataOf(i, k), Rev(i)} \cup Elements(u)
        /\ Placed(storeInode(i, k) \o u) =
              {<<{}, DataOf(i, k)>>, <<{DataOf(i, k)}, Rev(i)>>}
                 \cup After({DataOf(i, k), Rev(i)}, Placed(u))
    BY StorePlaced
  <2>4. storeInode(i, k) = storeInode(i, "dir") /\ DataOf(i, k) = DataOf(i, "dir")
    BY <2>1
  <2> QED
    BY <2>2, <2>3, <2>4
<1>5. Elements(DirectoryWrites(i, p, n)) = {DataOf(i, "dir"), Rev(i), a, b, c}
  BY <1>2, <1>3, <1>4
<1> QED
  BY <1>2, <1>3, <1>4, <1>5 DEF a, b, c, v

\* The five writes for a directory of fsck, after those in D.
LEMMA DirectoryTyped ==
    ASSUME NEW i \in Inodes, NEW p \in Inodes, NEW n \in Keys, NEW D,
           kind'[i] = "none", i \notin Foreign, i <= last_inode',
           kind'[p] = "dir" \/ DataOf(p, "dir") \in D,
           \A w \in D : w.ino # i /\ w.to # i
    PROVE  \A q \in Placed(DirectoryWrites(i, p, n)) : Typed(D \cup q[1], q[2])'
<1> DEFINE a == setInodeMeta(i, ".", i)
           b == setInodeMeta(p, n, i)
           c == setInodeMeta(i, "..", p)
           v == <<a, b, c>>
<1>1. /\ DirectoryWrites(i, p, n) = storeInode(i, "dir") \o v /\ v \in Seq(Writes)
      /\ Placed(v) = {<<{}, a>>, <<{a}, b>>, <<{a, b}, c>>}
  BY DirectoryPlaced
<1>2. ASSUME NEW q \in Placed(v)
      PROVE  Typed(D \cup {DataOf(i, "dir"), Rev(i)} \cup q[1], q[2])'
  <2> DEFINE E == D \cup {DataOf(i, "dir"), Rev(i)} \cup q[1]
  <2>1. /\ DataOf(i, "dir") \in E /\ "dir" \in Kinds \ {"none"}
        /\ kind'[p] = "dir" \/ DataOf(p, "dir") \in E
        /\ "." \in Keys /\ ".." \in Keys /\ ".." # "lost+found" /\ "." # "lost+found"
    BY KeysAreWriteKeys DEF Kinds, Dots
  <2> HIDE DEF E
  <2>2. Typed(E, a)'
    BY <2>1, EntryTyped
  <2>3. Typed(E, b)'
    BY <2>1, EntryTyped
  <2>4. Typed(E, c)'
    BY <2>1, EntryTyped
  <2>5. q[2] = a \/ q[2] = b \/ q[2] = c
    <3> HIDE DEF a, b, c, v
    <3> QED
      BY <1>1
  <2>6. Typed(E, q[2])'
    <3> HIDE DEF a, b, c
    <3> QED
      BY <2>2, <2>3, <2>4, <2>5
  <2> QED
    BY <2>6 DEF E
<1> HIDE DEF v
<1>3. "dir" \in Kinds \ {"none"}
  BY DEF Kinds
<1>4. \A q \in Placed(storeInode(i, "dir") \o v) : Typed(D \cup q[1], q[2])'
  BY <1>1, <1>2, <1>3, StoreTypedAfter
<1> QED
  BY <1>1, <1>4

\* A turn of fsck changes only what it writes and its own state.
LEMMA TurnTyped ==
    ASSUME TypeInv, NEW writes, Turn(writes), FsckTyped',
           writes \in Seq(Writes), \A p \in Placed(writes) : Typed(p[1], p[2])',
           last_inode' \in Inodes, last_inode' >= last_inode,
           status' # Idle => kind[fsck_ino'] = "dir" \/ DataOf(fsck_ino', "dir") \in Elements(writes)
    PROVE  TypeInv'
<1>1. UNCHANGED <<kind, known, meta, remote, crashes, owed, requests>> /\ todo' = writes
  BY DEF Turn
<1>2. owed' \subseteq Inodes /\ requests' \in 0 .. MaxRequests
  BY <1>1 DEF TypeInv, FsckTypes, TypeOK
<1> QED
  BY <1>1, <1>2, HandledTyped

\* The numbers fsck starts with, f for what it finds, and l for where that goes.
LostFoundOf(l) ==
    l = IF "lost+found" \in DOMAIN meta[Root] THEN meta[Root]["lost+found"] ELSE last_inode + 2

\* What process_0 does: one or two new directories with numbers above
\* fsck_ino_max.
LEMMA Process0Does ==
    ASSUME TypeInv, Process0, NEW f, f = fsck_ino', NEW l, LostFoundOf(l)
    PROVE  /\ todo = <<>> /\ f \in Inodes /\ last_inode' = f /\ last_inode \in Nat
           /\ kind[f] = "none" /\ f \notin Foreign /\ f <= last_inode' /\ last_inode < f
           /\ fsck_ino_max' = last_inode + 1 /\ fsck_ino_max' < f
           /\ fsck_ino_max' \in 0 .. MaxInode
           /\ last_inode' >= last_inode /\ l \in Inodes /\ l # f
           /\ "lost+found" \in DOMAIN meta[Root] =>
                 /\ l = meta[Root]["lost+found"] /\ kind[l] = "dir"
                 /\ Turn(DirectoryWrites(f, l, OrphanName[f]))
           /\ "lost+found" \notin DOMAIN meta[Root] =>
                 /\ fsck_ino_max' < l /\ l <= last_inode' /\ l > last_inode
                 /\ kind[l] = "none" /\ l \notin Foreign
                 /\ Turn(DirectoryWrites(l, Root, "lost+found") \o DirectoryWrites(f, l, OrphanName[f]))
<1>0. /\ last_inode \in 1 .. MaxInode /\ MaxInode \in Nat
      /\ \A i \in Inodes : i > last_inode => kind[i] = "none"
      /\ \A i \in Foreign : i <= last_inode
  BY InodesAreNumbers DEF TypeInv, FsckTypes, TypeOK, Inodes
<1>1. /\ f \in Inodes /\ last_inode' = f /\ fsck_ino_max' = last_inode + 1
      /\ f = last_inode + 2 \/ f = last_inode + 3
  BY DEF Process0
<1>2. /\ f \in 1 .. MaxInode /\ last_inode < f /\ last_inode' >= last_inode
      /\ fsck_ino_max' < f /\ fsck_ino_max' \in 0 .. MaxInode /\ f <= last_inode'
  BY <1>0, <1>1 DEF Inodes
<1>3. \A i \in Inodes : i > last_inode => i \notin Foreign
  BY <1>0 DEF Inodes
<1>4. kind[f] = "none" /\ f \notin Foreign
  BY <1>0, <1>1, <1>2, <1>3
<1>5. todo = <<>>
  BY DEF Process0, Turn
<1>6. CASE "lost+found" \in DOMAIN meta[Root]
  <2>1. l = meta[Root]["lost+found"]
    BY <1>6 DEF LostFoundOf
  <2>2. l \in Inodes /\ kind[l] = "dir"
    BY <1>6, <2>1, InodesAreNumbers DEF TypeInv, LostFoundIsDir, FsckTypes, TypeOK
  <2>3. Turn(<<>> \o DirectoryWrites(f, l, OrphanName[f]))
    BY <1>6, <2>1 DEF Process0
  <2>4. DirectoryWrites(f, l, OrphanName[f]) \in Seq(Writes)
    <3>1. OrphanName[f] \in Keys
      BY <1>1, NamesAssumption
    <3> QED
      BY <1>1, <2>2, <3>1, DirectoryPlaced
  <2>5. <<>> \o DirectoryWrites(f, l, OrphanName[f]) = DirectoryWrites(f, l, OrphanName[f])
    BY <2>4, ConcatEmptySeq
  <2>6. Turn(DirectoryWrites(f, l, OrphanName[f]))
    BY <2>3, <2>5
  <2>7. l # f
    BY <1>4, <2>2
  <2> QED
    BY <1>0, <1>1, <1>2, <1>4, <1>5, <1>6, <2>1, <2>2, <2>6, <2>7
<1>7. CASE "lost+found" \notin DOMAIN meta[Root]
  <2>1. l = last_inode + 2 /\ f = last_inode + 3
    BY <1>7 DEF LostFoundOf, Process0
  <2>2. /\ l \in Inodes /\ fsck_ino_max' < l /\ l # f /\ l <= last_inode' /\ l > last_inode
    BY <1>0, <1>1, <1>2, <2>1 DEF Inodes
  <2>3. kind[l] = "none" /\ l \notin Foreign
    BY <1>0, <1>3, <2>2
  <2>4. Turn(DirectoryWrites(l, Root, "lost+found") \o DirectoryWrites(f, l, OrphanName[f]))
    BY <1>7, <2>1 DEF Process0
  <2> QED
    BY <1>0, <1>1, <1>2, <1>4, <1>5, <1>7, <2>2, <2>3, <2>4
<1> QED
  BY <1>6, <1>7

\* The five writes for a directory of fsck.
LEMMA DirectoryElements ==
    ASSUME NEW i \in Inodes, NEW p \in Inodes, NEW n \in Keys
    PROVE  /\ DirectoryWrites(i, p, n) \in Seq(Writes)
           /\ Elements(DirectoryWrites(i, p, n)) =
                {DataOf(i, "dir"), Rev(i), setInodeMeta(i, ".", i),
                 setInodeMeta(p, n, i), setInodeMeta(i, "..", p)}
BY DirectoryPlaced

\* The fields of each kind of write.
LEMMA WriteFields ==
    /\ \A i, k, x : LET w == setInodeMeta(i, k, x)
                   IN  w.what = "set" /\ w.ino = i /\ w.key = k /\ w.to = x
    /\ \A i, k : LET w == removeInodeMeta(i, k)
                IN  w.what = "remove" /\ w.ino = i /\ w.key = k /\ w.to = NoInode
    /\ \A i, k : LET w == DataOf(i, k)
                IN  w.what = "data" /\ w.ino = i /\ w.key = k /\ w.to = NoInode
    /\ \A i : LET w == Rev(i) IN w.what = "rev" /\ w.ino = i /\ w.to = NoInode
    /\ \A i : LET w == Grant(i) IN w.what = "grant" /\ w.ino = i /\ w.to = NoInode
    /\ \A i : LET w == destroyInode(i) IN w.what = "destroy" /\ w.ino = i /\ w.to = NoInode
BY DEF setInodeMeta, removeInodeMeta, DataOf, Rev, Grant, destroyInode, WriteOf

\* process_0 keeps types.
LEMMA Process0Typed ==
    ASSUME TypeInv, Process0
    PROVE  TypeInv'
<1>f. PICK f : f = fsck_ino'
  OBVIOUS
<1>l. PICK l : LostFoundOf(l)
  BY DEF LostFoundOf
<1>1. /\ f \in Inodes /\ last_inode' = f
      /\ kind[f] = "none" /\ f \notin Foreign /\ f <= last_inode'
      /\ fsck_ino_max' \in 0 .. MaxInode
      /\ last_inode' >= last_inode /\ l \in Inodes /\ l # f
  BY <1>f, <1>l, Process0Does
<1>2. OrphanName[f] \in Keys /\ "lost+found" \in Keys /\ Root \in Inodes /\ kind[Root] = "dir"
  BY <1>1, NamesAssumption, InodesAreNumbers DEF TypeInv
<1>3. FsckTyped'
  <2>1. fscks' \in 0 .. MaxFscks
    <3>1. fscks \in 0 .. MaxFscks /\ fscks < MaxFscks /\ fscks' = fscks + 1 /\ MaxFscks \in Nat
      BY FsckAssumption DEF Process0, TypeInv, FsckTypes
    <3> QED
      BY <3>1
  <2>2. /\ status' = 1 /\ scan_inode' = Root /\ scan_inode_queue' = <<>>
        /\ known_inodes' = {Root}
    BY DEF Process0
  <2>3. scan_inode_queue' \in Seq(Inodes) /\ status' \in 1 .. Idle
    BY <2>2, EmptySeq DEF Idle
  <2> QED
    BY <1>f, <1>1, <1>2, <2>1, <2>2, <2>3 DEF FsckTyped
<1> DEFINE t == DirectoryWrites(f, l, OrphanName[f])
           s == DirectoryWrites(l, Root, "lost+found")
<1>4. t \in Seq(Writes) /\ DataOf(f, "dir") \in Elements(t)
  <2>1. PICK k \in Keys : k = OrphanName[f]
    BY <1>2
  <2>2. /\ DirectoryWrites(f, l, k) \in Seq(Writes)
        /\ DataOf(f, "dir") \in Elements(DirectoryWrites(f, l, k))
    BY <1>1, DirectoryElements
  <2> QED
    BY <2>1, <2>2
<1>5. s \in Seq(Writes) /\ DataOf(l, "dir") \in Elements(s)
      /\ \A w \in Elements(s) : w.ino \in {l, Root} /\ w.to \in {l, Root, NoInode}
  <2>1. Elements(s) = {DataOf(l, "dir"), Rev(l), setInodeMeta(l, ".", l),
                       setInodeMeta(Root, "lost+found", l), setInodeMeta(l, "..", Root)}
    BY <1>1, <1>2, DirectoryElements
  <2>2. s \in Seq(Writes)
    BY <1>1, <1>2, DirectoryElements
  <2> HIDE DEF s
  <2>3. ASSUME NEW w \in Elements(s) PROVE w.ino \in {l, Root} /\ w.to \in {l, Root, NoInode}
    <3>1. \/ w = DataOf(l, "dir") \/ w = Rev(l) \/ w = setInodeMeta(l, ".", l)
          \/ w = setInodeMeta(Root, "lost+found", l) \/ w = setInodeMeta(l, "..", Root)
      BY <2>1
    <3> QED
      BY <3>1, WriteFields
  <2> QED
    BY <2>1, <2>2, <2>3
<1> HIDE DEF t, s
<1>6. CASE "lost+found" \in DOMAIN meta[Root]
  <2>1. kind[l] = "dir" /\ Turn(t)
    BY <1>f, <1>l, <1>6, Process0Does DEF t
  <2>2. kind'[f] = "none" /\ kind'[l] = "dir"
    BY <1>1, <2>1 DEF Turn
  <2>3. \A w \in {} : w.ino # f /\ w.to # f
    OBVIOUS
  <2>4. \A q \in Placed(t) : Typed({} \cup q[1], q[2])'
    BY <1>1, <1>2, <2>2, <2>3, DirectoryTyped DEF t
  <2>5. ASSUME NEW q \in Placed(t) PROVE Typed(q[1], q[2])'
    <3>1. {} \cup q[1] = q[1]
      OBVIOUS
    <3> QED
      BY <2>4, <3>1
  <2> QED
    BY <1>f, <1>1, <1>3, <1>4, <2>1, <2>5, TurnTyped
<1>7. CASE "lost+found" \notin DOMAIN meta[Root]
  <2>1. /\ kind[l] = "none" /\ l \notin Foreign /\ l <= last_inode' /\ Turn(s \o t)
    BY <1>f, <1>l, <1>7, Process0Does DEF s, t
  <2>2. kind'[f] = "none" /\ kind'[l] = "none" /\ kind'[Root] = "dir"
    BY <1>1, <1>2, <2>1 DEF Turn
  <2>3. /\ s \o t \in Seq(Writes) /\ Elements(s \o t) = Elements(s) \cup Elements(t)
        /\ Placed(s \o t) = Placed(s) \cup After(Elements(s), Placed(t))
    BY <1>4, <1>5, PlacedConcat
  <2>4. \A w \in {} : w.ino # l /\ w.to # l
    OBVIOUS
  <2>5. \A q \in Placed(s) : Typed({} \cup q[1], q[2])'
    BY <1>1, <1>2, <2>1, <2>2, <2>4, DirectoryTyped DEF s
  <2>6. \A w \in Elements(s) : w.ino # f /\ w.to # f
    BY <1>1, <1>2, <1>5, InodesAreNumbers
  <2>7. \A q \in Placed(t) : Typed(Elements(s) \cup q[1], q[2])'
    <3>1. PICK D : D = Elements(s)
      OBVIOUS
    <3>2. DataOf(l, "dir") \in D /\ \A w \in D : w.ino # f /\ w.to # f
      BY <1>5, <2>6, <3>1
    <3>3. \A q \in Placed(t) : Typed(D \cup q[1], q[2])'
      BY <1>1, <1>2, <2>2, <3>2, DirectoryTyped DEF t
    <3> QED
      BY <3>1, <3>3
  <2>8. ASSUME NEW q \in Placed(s \o t) PROVE Typed(q[1], q[2])'
    <3>1. CASE q \in Placed(s)
      <4>1. {} \cup q[1] = q[1]
        OBVIOUS
      <4> QED
        BY <2>5, <3>1, <4>1
    <3>2. CASE q \in After(Elements(s), Placed(t))
      <4>1. PICK r \in Placed(t) : q = <<Elements(s) \cup r[1], r[2]>>
        BY <3>2 DEF After
      <4>2. q[1] = Elements(s) \cup r[1] /\ q[2] = r[2]
        BY <4>1
      <4> QED
        BY <2>7, <4>2
    <3> QED
      BY <2>3, <3>1, <3>2
  <2>9. DataOf(f, "dir") \in Elements(s \o t)
    BY <1>4, <2>3
  <2> QED
    BY <1>f, <1>1, <1>3, <2>1, <2>3, <2>8, <2>9, TurnTyped
<1> QED
  BY <1>6, <1>7

\* The keys process_1 goes through.
ScanKeys == IF kind[scan_inode] = "dir" THEN DOMAIN meta[scan_inode] ELSE {}

Entries(K) == {meta[scan_inode][n] : n \in K}

\* What process_1 does with one inode: it removes names of inodes nobody knows,
\* and puts the directories among the children into the queue.
LEMMA Process1Does ==
    ASSUME TypeInv, Process1
    PROVE  /\ todo = <<>> /\ todo' \in Seq(Writes)
           /\ Elements(todo') =
                {removeInodeMeta(scan_inode, n) :
                    n \in {k \in ScanKeys : meta[scan_inode][k] \notin known}}
           /\ UNCHANGED <<kind, known, meta, remote, owed, requests, crashes>>
           /\ UNCHANGED <<last_inode, fsck_ino, fsck_ino_max, fscks>>
           /\ known_inodes' = known_inodes \cup (Entries(ScanKeys \ Dots) \cap known)
           /\ scan_inode' \in Inodes /\ scan_inode_queue' \in Seq(Inodes)
           /\ LET found == {i \in Entries(ScanKeys \ Dots) : i \in known /\ kind[i] = "dir"}
                  queue == Elements(scan_inode_queue) \cup found
              IN  \/ /\ status' = status
                     /\ {scan_inode'} \cup Elements(scan_inode_queue') = queue
                  \/ status' = status + 1 /\ queue = {}
<1> DEFINE entry(n) == meta[scan_inode][n]
           G == {n \in ScanKeys : entry(n) \notin known}
           N == {n \in ScanKeys \ Dots : entry(n) \in known}
           F == {n \in ScanKeys : kind[entry(n)] = "dir"}
           gone == Only(NameOrder, G)
           names == Only(NameOrder, N)
           dirs == Only(names, F)
           more == [j \in DOMAIN dirs |-> entry(dirs[j])]
           queue == scan_inode_queue \o more
           writes == [j \in DOMAIN gone |-> removeInodeMeta(scan_inode, gone[j])]
<1>0. /\ scan_inode \in Inodes /\ scan_inode_queue \in Seq(Inodes)
      /\ \A n \in ScanKeys : n \in Keys /\ entry(n) \in Inodes
      /\ NameOrder \in Seq(Keys) /\ Elements(NameOrder) = Keys
  <2>1. scan_inode \in Inodes /\ scan_inode_queue \in Seq(Inodes)
    BY DEF TypeInv, FsckTypes
  <2>2. \A n \in ScanKeys : n \in Keys /\ entry(n) \in Inodes
    BY <2>1 DEF TypeInv, FsckTypes, TypeOK, DirKeys, ScanKeys
  <2> QED
    BY <2>1, <2>2, NamesAssumption DEF Keys, Elements
<1>1. /\ Turn(writes)
      /\ known_inodes' = known_inodes \cup {entry(names[j]) : j \in DOMAIN names}
      /\ IF queue # <<>>
         THEN /\ scan_inode' = Head(queue) /\ scan_inode_queue' = TakenFirst(queue)
              /\ UNCHANGED status
         ELSE status' = status + 1 /\ UNCHANGED <<scan_inode, scan_inode_queue>>
      /\ UNCHANGED <<last_inode, fsck_ino, fsck_ino_max, fscks>>
  BY DEF Process1, ScanKeys
<1>2. gone \in Seq(Keys) /\ Elements(gone) = G
  <2>1. gone \in Seq(Keys) /\ Elements(gone) = Elements(NameOrder) \cap G
    BY <1>0, OnlyElements
  <2>2. G \subseteq Keys
    BY <1>0
  <2> QED
    BY <1>0, <2>1, <2>2
<1>3. names \in Seq(Keys) /\ Elements(names) = N
  <2>1. names \in Seq(Keys) /\ Elements(names) = Elements(NameOrder) \cap N
    BY <1>0, OnlyElements
  <2>2. N \subseteq Keys
    BY <1>0
  <2> QED
    BY <1>0, <2>1, <2>2
<1>4. dirs \in Seq(Keys) /\ Elements(dirs) = N \cap F
  <2> HIDE DEF names, F
  <2>1. dirs \in Seq(Keys) /\ Elements(dirs) = Elements(names) \cap F
    BY <1>3, OnlyElements
  <2> QED
    BY <1>3, <2>1
<1> HIDE DEF gone, names, dirs
<1>5. writes \in Seq(Writes) /\ Elements(writes) = {removeInodeMeta(scan_inode, n) : n \in G}
  <2>1. DOMAIN gone = 1 .. Len(gone) /\ Len(gone) \in Nat /\ \A j \in DOMAIN gone : gone[j] \in Keys
    BY <1>2, LenProperties, ElementOfSeq
  <2>2. \A n \in Keys : removeInodeMeta(scan_inode, n) \in Writes
    BY <1>0, KeysAreWriteKeys, WritesAreTyped DEF Kinds
  <2>3. writes \in [1 .. Len(gone) -> Writes]
    BY <2>1, <2>2
  <2>4. writes \in Seq(Writes)
    BY <2>1, <2>3
  <2>5. DOMAIN writes = DOMAIN gone /\ \A j \in DOMAIN gone : writes[j] = removeInodeMeta(scan_inode, gone[j])
    OBVIOUS
  <2> HIDE DEF writes
  <2>6. Elements(writes) = {removeInodeMeta(scan_inode, n) : n \in Elements(gone)}
    BY <2>5 DEF Elements
  <2> QED
    BY <1>2, <2>4, <2>6
<1>6. more \in Seq(Inodes) /\ Elements(more) = {entry(n) : n \in N \cap F}
  <2>1. DOMAIN dirs = 1 .. Len(dirs) /\ Len(dirs) \in Nat /\ \A j \in DOMAIN dirs : dirs[j] \in N \cap F
    <3>1. DOMAIN dirs = 1 .. Len(dirs) /\ Len(dirs) \in Nat
      BY <1>4, LenProperties
    <3>2. \A j \in DOMAIN dirs : dirs[j] \in Elements(dirs)
      BY DEF Elements
    <3> QED
      BY <1>4, <3>1, <3>2
  <2>2. \A j \in DOMAIN dirs : entry(dirs[j]) \in Inodes
    BY <1>0, <2>1
  <2>3. more \in [1 .. Len(dirs) -> Inodes]
    BY <2>1, <2>2
  <2>4. more \in Seq(Inodes)
    BY <2>1, <2>3
  <2>5. DOMAIN more = DOMAIN dirs /\ \A j \in DOMAIN dirs : more[j] = entry(dirs[j])
    OBVIOUS
  <2> HIDE DEF more
  <2>6. Elements(more) = {entry(n) : n \in Elements(dirs)}
    BY <2>5 DEF Elements
  <2> QED
    BY <1>4, <2>4, <2>6
<1> HIDE DEF more, writes
<1>7. queue \in Seq(Inodes) /\ Elements(queue) = Elements(scan_inode_queue) \cup {entry(n) : n \in N \cap F}
  <2>1. queue \in Seq(Inodes) /\ Elements(queue) = Elements(scan_inode_queue) \cup Elements(more)
    BY <1>0, <1>6, PlacedConcat
  <2> QED
    BY <1>6, <2>1
<1> HIDE DEF queue
<1>8. {entry(n) : n \in N \cap F} = {i \in Entries(ScanKeys \ Dots) : i \in known /\ kind[i] = "dir"}
  BY DEF Entries
<1>9. known_inodes' = known_inodes \cup (Entries(ScanKeys \ Dots) \cap known)
  <2>1. {entry(names[j]) : j \in DOMAIN names} = {entry(n) : n \in Elements(names)}
    BY DEF Elements
  <2>2. {entry(n) : n \in N} = Entries(ScanKeys \ Dots) \cap known
    BY DEF Entries
  <2> QED
    BY <1>1, <1>3, <2>1, <2>2
<1>10. CASE queue # <<>>
  <2>1. Head(queue) \in Inodes /\ Tail(queue) \in Seq(Inodes)
        /\ Elements(queue) = {Head(queue)} \cup Elements(Tail(queue))
    BY <1>7, <1>10, PlacedTail
  <2>2. scan_inode' = Head(queue) /\ scan_inode_queue' = Tail(queue) /\ status' = status
    BY <1>1, <1>10 DEF TakenFirst
  <2> QED
    BY <1>1, <1>5, <1>7, <1>8, <1>9, <2>1, <2>2 DEF Turn
<1>11. CASE queue = <<>>
  <2>1. Elements(queue) = {}
    BY <1>11, NothingPlaced
  <2>2. status' = status + 1 /\ scan_inode' = scan_inode /\ scan_inode_queue' = scan_inode_queue
    BY <1>1, <1>11
  <2> QED
    BY <1>0, <1>1, <1>5, <1>7, <1>8, <1>9, <2>1, <2>2 DEF Turn
<1> QED
  BY <1>10, <1>11

\* process_1 keeps types.
LEMMA Process1Typed ==
    ASSUME TypeInv, Process1
    PROVE  TypeInv'
<1>1. /\ todo = <<>> /\ todo' \in Seq(Writes)
      /\ Elements(todo') =
            {removeInodeMeta(scan_inode, n) :
                n \in {k \in ScanKeys : meta[scan_inode][k] \notin known}}
      /\ UNCHANGED <<kind, known, meta, remote, owed, requests, crashes>>
      /\ UNCHANGED <<last_inode, fsck_ino, fsck_ino_max, fscks>>
      /\ known_inodes' \subseteq known_inodes \cup known
      /\ scan_inode' \in Inodes /\ scan_inode_queue' \in Seq(Inodes)
      /\ status' = status \/ status' = status + 1
      /\ status \in {1, 3}
  BY Process1Does DEF Process1
<1>2. FsckTypes /\ TypeOK /\ FsckTyped
  BY DEF TypeInv, FsckTypes, FsckTyped
<1>3. FsckTyped'
  <2>1. status' \in 1 .. Idle /\ known_inodes' \subseteq Inodes
    BY <1>1, <1>2 DEF Idle, FsckTypes, TypeOK
  <2> QED
    BY <1>1, <1>2, <2>1 DEF FsckTyped
<1>4. \A p \in Placed(todo') : Typed(p[1], p[2])'
  <2>1. PICK v : v = todo'
    OBVIOUS
  <2>2. \A w \in Elements(v) : w.what \in {"remove", "destroy", "grant"}
    BY <1>1, <2>1, WriteFields
  <2>3. \A p \in Placed(v) : Typed(p[1], p[2])'
    BY <1>1, <2>1, <2>2, RemovalsTyped
  <2> QED
    BY <2>1, <2>3
<1>5. kind[fsck_ino'] = "dir"
  <2>1. status # Idle
    BY <1>1 DEF Idle
  <2>2. Elements(todo) = {}
    BY <1>1, NothingPlaced
  <2> QED
    BY <1>1, <2>1, <2>2 DEF TypeInv, WillBe
<1>6. /\ last_inode' \in Inodes /\ last_inode' >= last_inode
      /\ owed' \subseteq Inodes /\ requests' \in 0 .. MaxRequests
  BY <1>1, <1>2, InodesAreNumbers DEF TypeOK
<1> QED
  BY <1>1, <1>3, <1>4, <1>5, <1>6, HandledTyped

\* What process_2 found.
Found == Only([i \in Inodes |-> i], Dropped \cup Connected)

\* What process_2 does: it drops the empty orphans and gives a name to others.
LEMMA Process2Does ==
    ASSUME TypeInv, Process2
    PROVE  /\ todo = <<>> /\ todo' \in Seq(Writes)
           /\ Elements(todo') = {destroyInode(i) : i \in Dropped}
                \cup {setInodeMeta(fsck_ino, OrphanName[i], i) : i \in Connected}
           /\ UNCHANGED <<kind, known, meta, remote, owed, requests, crashes>>
           /\ UNCHANGED <<last_inode, scan_inode, scan_inode_queue, known_inodes,
                          fsck_ino, fsck_ino_max, fscks>>
           /\ status = 2 /\ status' = 3
<1> DEFINE D == Dropped
           C == Connected
           all == [i \in Inodes |-> i]
           found == Only(all, D \cup C)
           Does(i) == IF i \in D THEN destroyInode(i)
                      ELSE setInodeMeta(fsck_ino, OrphanName[i], i)
           writes == [j \in DOMAIN found |-> Does(found[j])]
<1>1. /\ Turn(writes)
      /\ UNCHANGED <<last_inode, scan_inode, scan_inode_queue, known_inodes,
                     fsck_ino, fsck_ino_max, fscks>>
      /\ status = 2 /\ status' = 3
  BY DEF Process2
<1>2. D \subseteq Inodes /\ C \subseteq Inodes /\ D \cap C = {}
  BY DEF Dropped, Connected
<1> HIDE DEF D, C
<1>3. all \in Seq(Inodes) /\ Elements(all) = Inodes
  BY InodesAreNumbers DEF Inodes, Elements
<1> HIDE DEF all
<1>4. found \in Seq(Inodes) /\ Elements(found) = D \cup C
  <2>1. found \in Seq(Inodes) /\ Elements(found) = Elements(all) \cap (D \cup C)
    BY <1>3, OnlyElements
  <2> QED
    BY <1>2, <1>3, <2>1
<1> HIDE DEF found
<1>5. ASSUME NEW i \in Inodes PROVE Does(i) \in Writes
  <2>1. PICK k \in Keys : k = OrphanName[i]
    BY NamesAssumption
  <2>2. fsck_ino \in Inodes /\ k \in WriteKeys /\ "" \in WriteKeys
    BY KeysAreWriteKeys DEF TypeInv, FsckTypes, WriteKeys
  <2>3. destroyInode(i) \in Writes
    BY <2>2, WritesAreTyped DEF Kinds
  <2>4. setInodeMeta(fsck_ino, k, i) \in Writes
    BY <2>2, WritesAreTyped DEF Kinds
  <2> QED
    BY <2>1, <2>3, <2>4
<1>6. Elements(writes) = {Does(i) : i \in Elements(found)}
  <2>1. DOMAIN writes = DOMAIN found /\ \A j \in DOMAIN found : writes[j] = Does(found[j])
    OBVIOUS
  <2> HIDE DEF writes, Does
  <2> QED
    BY <2>1 DEF Elements
<1>7. writes \in Seq(Writes)
  <2>1. DOMAIN found = 1 .. Len(found) /\ Len(found) \in Nat /\ \A j \in DOMAIN found : found[j] \in Inodes
    BY <1>4, LenProperties, ElementOfSeq
  <2> HIDE DEF Does
  <2>2. writes \in [1 .. Len(found) -> Writes]
    BY <1>5, <2>1
  <2> HIDE DEF writes
  <2> QED
    BY <2>1, <2>2
<1>8. {Does(i) : i \in D \cup C} = {destroyInode(i) : i \in D}
                \cup {setInodeMeta(fsck_ino, OrphanName[i], i) : i \in C}
  <2>1. \A i \in D : Does(i) = destroyInode(i)
    OBVIOUS
  <2>2. \A i \in C : Does(i) = setInodeMeta(fsck_ino, OrphanName[i], i)
    BY <1>2
  <2> HIDE DEF Does
  <2> QED
    BY <2>1, <2>2
<1>9. todo' = writes /\ todo = <<>>
      /\ UNCHANGED <<kind, known, meta, remote, owed, requests, crashes>>
  BY <1>1 DEF Turn
<1> HIDE DEF writes, Does
<1>10. Elements(todo') = {destroyInode(i) : i \in D}
                \cup {setInodeMeta(fsck_ino, OrphanName[i], i) : i \in C}
  BY <1>4, <1>6, <1>8, <1>9
<1> QED
  BY <1>1, <1>7, <1>9, <1>10 DEF D, C

\* process_2 keeps types.
LEMMA Process2Typed ==
    ASSUME TypeInv, Process2
    PROVE  TypeInv'
<1>1. /\ todo = <<>> /\ todo' \in Seq(Writes)
      /\ Elements(todo') = {destroyInode(i) : i \in Dropped}
           \cup {setInodeMeta(fsck_ino, OrphanName[i], i) : i \in Connected}
      /\ UNCHANGED <<kind, known, meta, remote, owed, requests, crashes>>
      /\ UNCHANGED <<last_inode, scan_inode, scan_inode_queue, known_inodes,
                     fsck_ino, fsck_ino_max, fscks>>
      /\ status = 2 /\ status' = 3
  BY Process2Does
<1>2. FsckTypes /\ TypeOK /\ FsckTyped
  BY DEF TypeInv, FsckTypes, FsckTyped
<1>3. FsckTyped'
  BY <1>1, <1>2 DEF FsckTyped, Idle
<1>4. kind[fsck_ino] = "dir" /\ kind'[fsck_ino] = "dir" /\ fsck_ino \in Inodes
  <2>1. status # Idle
    BY <1>1 DEF Idle
  <2>2. Elements(todo) = {}
    BY <1>1, NothingPlaced
  <2> QED
    BY <1>1, <1>2, <2>1, <2>2 DEF TypeInv, WillBe, FsckTyped
<1>5. PICK v : v = todo'
  OBVIOUS
<1>6. ASSUME NEW p \in Placed(v) PROVE Typed(p[1], p[2])'
  <2>1. p[2] \in Elements(v)
    BY <1>1, <1>5, PlacedAreElements
  <2>2. CASE \E i \in Dropped : p[2] = destroyInode(i)
    BY <2>2, OthersTyped
  <2>3. CASE \E i \in Connected : p[2] = setInodeMeta(fsck_ino, OrphanName[i], i)
    <3>1. PICK i \in Connected : p[2] = setInodeMeta(fsck_ino, OrphanName[i], i)
      BY <2>3
    <3>2. i \in Inodes /\ i \in known
      BY DEF Connected, Orphan
    <3>3. PICK n \in Keys : n = OrphanName[i] /\ n # "lost+found"
      BY <3>2, NamesAssumption
    <3>4. PICK k \in Kinds \ {"none"} : k = kind[i]
      BY <1>2, <3>2 DEF TypeOK
    <3>5. kind'[i] = k
      BY <1>1, <3>4
    <3>6. PICK d \in Inodes : d = fsck_ino
      BY <1>4
    <3>7. PICK E : E = p[1]
      OBVIOUS
    <3>8. kind'[d] = "dir"
      BY <1>4, <3>6
    <3>9. Typed(E, setInodeMeta(d, n, i))'
      BY <3>2, <3>3, <3>4, <3>5, <3>8, EntryTyped
    <3> QED
      BY <3>1, <3>3, <3>6, <3>7, <3>9
  <2> QED
    BY <1>1, <1>5, <2>1, <2>2, <2>3
<1>7. \A p \in Placed(todo') : Typed(p[1], p[2])'
  BY <1>5, <1>6
<1>8. /\ last_inode' \in Inodes /\ last_inode' >= last_inode
      /\ owed' \subseteq Inodes /\ requests' \in 0 .. MaxRequests
  BY <1>1, <1>2, InodesAreNumbers DEF TypeOK
<1> QED
  BY <1>1, <1>3, <1>4, <1>7, <1>8, HandledTyped

\* The end of fsck keeps types.
LEMMA Process3Typed ==
    ASSUME TypeInv, Process3
    PROVE  TypeInv'
<1>1. /\ UNCHANGED <<kind, known, meta, remote, crashes, owed, requests, last_inode>>
      /\ todo' = <<>> /\ status' = Idle
  BY DEF Process3, Turn, Ended
<1>2. FsckTyped'
  <2>1. fsck_ino_max' \in 0 .. MaxInode
    BY NamespaceAssumption DEF Process3, Ended
  <2>2. scan_inode' \in Inodes /\ fsck_ino' \in Inodes /\ scan_inode_queue' \in Seq(Inodes)
    BY InodesAreNumbers, EmptySeq DEF Process3, Ended
  <2>3. status' \in 1 .. Idle /\ known_inodes' \subseteq Inodes /\ fscks' = fscks
    BY DEF Process3, Ended, Idle
  <2>4. fscks \in 0 .. MaxFscks
    BY DEF TypeInv, FsckTypes
  <2> QED
    BY <2>1, <2>2, <2>3, <2>4 DEF FsckTyped
<1>3. todo' \in Seq(Writes) /\ \A p \in Placed(todo') : Typed(p[1], p[2])'
  BY <1>1, EmptySeq, NothingPlaced
<1>4. /\ last_inode' \in Inodes /\ last_inode' >= last_inode
      /\ owed' \subseteq Inodes /\ requests' \in 0 .. MaxRequests
  <2>1. last_inode \in Inodes /\ last_inode \in Nat /\ owed \subseteq Inodes
        /\ requests \in 0 .. MaxRequests
    BY InodesAreNumbers DEF TypeInv, FsckTypes, TypeOK
  <2> QED
    BY <1>1, <2>1
<1> QED
  BY <1>1, <1>2, <1>3, <1>4, HandledTyped

-----------------------------------------------------------------------------
\* Every step keeps types, whether or not names move while fsck walks.
LEMMA NextTyped == TypeInv /\ [FsckNext]_allVars => TypeInv'
<1> SUFFICES ASSUME TypeInv, [FsckNext]_allVars PROVE TypeInv'
  OBVIOUS
<1>1. CASE PlainRequest /\ UNCHANGED fsckVars
  BY <1>1, CreateTyped, MkdirTyped, SymlinkTyped, RemovalTyped, FirstWriteTyped DEF PlainRequest
<1>2. CASE Write /\ UNCHANGED fsckVars
  BY <1>2, WriteTyped
<1>3. CASE MovingRequest /\ UNCHANGED fsckVars
  BY <1>3, LinkTyped, RenameTyped DEF MovingRequest
<1>4. CASE Arrival /\ UNCHANGED fsckVars
  BY <1>4, ArrivalTyped
<1>5. CASE Process0 \/ Process1 \/ Process2 \/ Process3
  BY <1>5, Process0Typed, Process1Typed, Process2Typed, Process3Typed
<1>6. CASE Crash /\ Ended
  BY <1>6, CrashTyped
<1>7. CASE UNCHANGED allVars
  <2>1. /\ UNCHANGED <<kind, known, meta, remote, crashes, owed, requests, last_inode, todo>>
        /\ UNCHANGED fsckVars
    BY <1>7 DEF allVars, vars
  <2>2. FsckTyped' /\ todo' \in Seq(Writes)
    BY <2>1 DEF TypeInv, FsckTypes, FsckTyped, fsckVars
  <2>3. FsckTypes'
    BY <2>1, <2>2 DEF TypeInv, FsckTypes, TypeOK, FsckTyped
  <2>4. TypedTodo'
    BY <2>1 DEF TypeInv, TypedTodo, Typed, TypedData, TypedEntry, TypedContent, WillBe, WillExist
  <2> QED
    BY <2>1, <2>2, <2>3, <2>4
       DEF TypeInv, LostFoundIsDir, DirKeys, WillBe, fsckVars
<1> QED
  BY <1>1, <1>2, <1>3, <1>4, <1>5, <1>6, <1>7 DEF FsckNext

\* So does what is remembered for the properties.
HistoryTyped == moved \subseteq Inodes /\ doubled \subseteq Inodes

\* Only inodes are named or arrive.
LEMMA HistoryStaysTyped == TypeInv /\ HistoryTyped /\ [FsckNext]_allVars => HistoryTyped'
<1> SUFFICES ASSUME TypeInv, HistoryTyped, [FsckNext]_allVars PROVE HistoryTyped'
  OBVIOUS
<1> USE DEF HistoryTyped
<1>1. CASE (PlainRequest \/ Write) /\ UNCHANGED <<fsckVars, history>>
  BY <1>1 DEF history
<1>2. ASSUME MovingRequest \/ Arrival, UNCHANGED doubled,
             moved' = IF status = Idle THEN {} ELSE moved \cup Named \cup Arrived
      PROVE  HistoryTyped'
  <2>1. Named \subseteq Inodes
    <3>1. CASE MovingRequest
      <4>1. \E i \in Inodes : \E w, x : /\ todo' \in {<<w>>, <<w, x>>} /\ w.to = i
                                        /\ x.what = "remove"
        <5>1. CASE \E i \in Reachable, p \in Dirs, n \in Names : Link(i, p, n)
          <6>1. PICK i \in Reachable, p \in Dirs, n \in Names : Link(i, p, n)
            BY <5>1
          <6>2. i \in Inodes
            BY KidsAreInodes
          <6>3. todo' = <<setInodeMeta(p, n, i)>> /\ setInodeMeta(p, n, i).to = i
                /\ removeInodeMeta(p, n).what = "remove"
            BY <6>1, WriteFields DEF Link, Handle
          <6> QED
            BY <6>2, <6>3
        <5>2. CASE \E p, q \in Dirs, m \in Names : \E n \in NamesIn(p) : Rename(p, n, q, m)
          <6>0. PICK p \in Dirs, q \in Dirs, m \in Names : \E n \in NamesIn(p) : Rename(p, n, q, m)
            BY <5>2
          <6>1. PICK n \in NamesIn(p) : Rename(p, n, q, m)
            BY <6>0
          <6>2. meta[p][n] \in Inodes
            BY DirsAreDirs, EntryLeads
          <6>3. /\ todo' = <<setInodeMeta(q, m, meta[p][n]), removeInodeMeta(p, n)>>
                /\ setInodeMeta(q, m, meta[p][n]).to = meta[p][n]
                /\ removeInodeMeta(p, n).what = "remove"
            BY <6>1, WriteFields DEF Rename, RenameWrites, Handle
          <6> QED
            BY <6>2, <6>3
        <5> QED
          BY <3>1, <5>1, <5>2 DEF MovingRequest
      <4>2. PICK i \in Inodes : \E w, x : /\ todo' \in {<<w>>, <<w, x>>} /\ w.to = i
                                          /\ x.what = "remove"
        BY <4>1
      <4>3. PICK w, x : todo' \in {<<w>>, <<w, x>>} /\ w.to = i /\ x.what = "remove"
        BY <4>2
      <4>4. \A j \in DOMAIN todo' : todo'[j] = w \/ todo'[j] = x
        BY <4>3
      <4> QED
        BY <4>3, <4>4 DEF Named
    <3>2. CASE Arrival
      <4>1. todo' = <<>>
        BY <3>2 DEF Arrival, RemoteEntry, RemoteInode, Ready
      <4>2. DOMAIN todo' = {}
        BY <4>1
      <4> QED
        BY <4>2 DEF Named
    <3> QED
      BY <1>2, <3>1, <3>2
  <2>2. Arrived \subseteq Inodes
    <3>1. TypeInv'
      BY NextTyped
    <3>2. remote \subseteq Inodes /\ remote' \subseteq Inodes
      BY <3>1, NamespaceAssumption DEF TypeInv, FsckTypes, TypeOK
    <3> QED
      BY <3>2 DEF Arrived
  <2> QED
    BY <1>2, <2>1, <2>2
<1>3. CASE Process0 \/ Process1 \/ Process2 \/ Process3 \/ (Crash /\ Ended)
  <2>1. moved' \in {moved, {}} /\ doubled' \subseteq doubled \cup Connected
    BY <1>3 DEF Process0, Process1, Process2, Process3, Ended, history
  <2>2. Connected \subseteq Inodes
    BY DEF Connected
  <2> QED
    BY <2>1, <2>2
<1>4. CASE UNCHANGED allVars
  BY <1>4 DEF allVars, history
<1> QED
  BY <1>1, <1>2, <1>3, <1>4 DEF FsckNext

\* Types hold in every state, whatever moves while fsck walks: no entry leads to
\* an inode that is not stored yet, neither between handlers nor in one.
THEOREM FsckTypeCorrect == FsckSpec => []FsckTypeOK
<1>1. TypeInv /\ HistoryTyped => FsckTypeOK
  BY DEF TypeInv, HistoryTyped, FsckTypes, FsckTypeOK
<1>2. FsckInit => HistoryTyped
  BY DEF FsckInit, HistoryTyped
<1>3. FsckSpec => [](TypeInv /\ HistoryTyped)
  BY InitTyped, NextTyped, <1>2, HistoryStaysTyped, PTL DEF FsckSpec
<1> QED
  BY <1>1, <1>3, PTL

-----------------------------------------------------------------------------
(***************************************************************************)
(* The tree.  These facts hold in every typed state, so in the next one    *)
(* too.                                                                    *)
(***************************************************************************)
Tree ==
    /\ Kids \in Graphs /\ R \in SUBSET Inodes /\ Root \in R /\ Closed(Kids, R)
    /\ Reachable = R
    /\ \A d \in Inodes : \A n, i :
          Leads(d, n, i) => i \in Kids[d] /\ i \in Inodes /\ n \in Keys \ Dots
    /\ \A d \in Inodes : \A i \in Kids[d] : \E n \in Keys \ Dots : Leads(d, n, i)
    /\ \A d \in Inodes : DOMAIN meta[d] = {} => Kids[d] = {}
    /\ \A d \in Inodes : kind[d] = "none" => DOMAIN meta[d] = {}

\* In typed states the names make a tree of inodes.
LEMMA TypedTree == TypeInv => Tree
<1> SUFFICES ASSUME TypeInv PROVE Tree
  OBVIOUS
<1>1. Kids \in Graphs /\ Reachable = R /\ R \in SUBSET Inodes
  BY KidsAreInodes
<1>2. Root \in R /\ Closed(Kids, R)
  <2>1. {Root} \in SUBSET Inodes
    BY InodesAreNumbers
  <2> QED
    BY <1>1, <2>1, ReachClosed DEF R
<1>3. ASSUME NEW d \in Inodes, NEW n, NEW i, Leads(d, n, i)
      PROVE  i \in Kids[d] /\ i \in Inodes /\ n \in Keys \ Dots
  <2>1. kind[d] = "dir" /\ n \in NamesIn(d) /\ meta[d][n] = i
    BY <1>3 DEF Leads
  <2>2. i \in Inodes /\ n \in Keys /\ n \notin Dots
    BY <2>1, EntryLeads
  <2> QED
    BY <2>1, <2>2 DEF Kids
<1>4. ASSUME NEW d \in Inodes, NEW i \in Kids[d]
      PROVE  \E n \in Keys \ Dots : Leads(d, n, i)
  <2>1. kind[d] = "dir" /\ \E n \in NamesIn(d) : meta[d][n] = i
    BY DEF Kids
  <2>2. PICK n \in NamesIn(d) : meta[d][n] = i
    BY <2>1
  <2>3. n \in Keys \ Dots
    BY <2>1, EntryLeads
  <2> QED
    BY <2>1, <2>2, <2>3 DEF Leads
<1>5. \A d \in Inodes : DOMAIN meta[d] = {} => Kids[d] = {}
  BY DEF NamesIn, Kids
<1>6. \A d \in Inodes : kind[d] = "none" => DOMAIN meta[d] = {}
  BY DEF TypeInv, FsckTypes, TypeOK
<1> QED
  BY <1>1, <1>2, <1>3, <1>4, <1>5, <1>6 DEF Tree

\* Two typed states whose entries lead the same way have the same tree.
LEMMA SameLeads ==
    ASSUME TypeInv, TypeInv', \A d \in Inodes : \A n, i : Leads(d, n, i)' <=> Leads(d, n, i)
    PROVE  Kids' = Kids /\ R' = R
<1>0. Tree /\ Tree'
  BY TypedTree, PTL
<1>1. ASSUME NEW d \in Inodes PROVE Kids'[d] = Kids[d]
  <2>1. \A i : i \in Kids[d] <=> i \in Inodes /\ \E n \in Keys \ Dots : Leads(d, n, i)
    BY <1>0 DEF Tree
  <2>2. \A i : i \in Kids'[d] <=> i \in Inodes /\ \E n \in Keys \ Dots : Leads(d, n, i)'
    BY <1>0 DEF Tree
  <2> QED
    BY <2>1, <2>2
<1>2. Kids' = Kids
  BY <1>0, <1>1 DEF Tree, Graphs
<1> QED
  BY <1>2 DEF R

-----------------------------------------------------------------------------
(***************************************************************************)
(* One write w of a handler, with all that follows from its place.         *)
(***************************************************************************)
WriteStep(w) ==
    /\ w \in Elements(todo) /\ todo' \in Seq(Writes)
    /\ Elements(todo) = {w} \cup Elements(todo')
    /\ <<{}, w>> \in Placed(todo)
    /\ \A p \in Placed(todo') : <<{w} \cup p[1], p[2]>> \in Placed(todo)
    /\ Typed({}, w)
    /\ kind' = IF w.what = "data" THEN [kind EXCEPT ![w.ino] = w.key] ELSE kind
    /\ known' = IF w.what = "rev" THEN known \cup {w.ino}
                ELSE IF w.what = "destroy" THEN known \ {w.ino} ELSE known
    /\ DOMAIN meta' = Inodes
    /\ \A i \in Inodes : meta'[i] = IF i = w.ino THEN AfterWrite(w, meta[i]) ELSE meta[i]
    /\ owed' = IF w.what = "grant" THEN owed \cup {w.ino} ELSE owed
    /\ UNCHANGED <<last_inode, remote, requests, crashes>>

\* A write is one of the steps of WriteStep.
LEMMA WriteSteps ==
    ASSUME TypeInv, Write
    PROVE  \E w \in Writes : WriteStep(w) /\ w = Head(todo) /\ todo' = Tail(todo)
<1>1. PICK w \in Writes :
             /\ w = Head(todo) /\ todo \in Seq(Writes) /\ todo # <<>> /\ todo' = Tail(todo)
             /\ Typed({}, w)
             /\ kind' = IF w.what = "data" THEN [kind EXCEPT ![w.ino] = w.key] ELSE kind
             /\ known' = IF w.what = "rev" THEN known \cup {w.ino}
                         ELSE IF w.what = "destroy" THEN known \ {w.ino} ELSE known
             /\ DOMAIN meta' = Inodes
             /\ \A i \in Inodes : meta'[i] = IF i = w.ino THEN AfterWrite(w, meta[i]) ELSE meta[i]
             /\ owed' = IF w.what = "grant" THEN owed \cup {w.ino} ELSE owed
             /\ UNCHANGED <<last_inode, remote, requests, crashes>>
  BY WriteDoes
<1>2. /\ Elements(todo) = {w} \cup Elements(todo') /\ todo' \in Seq(Writes)
      /\ <<{}, w>> \in Placed(todo)
      /\ \A p \in Placed(todo') : <<{w} \cup p[1], p[2]>> \in Placed(todo)
  BY <1>1, PlacedTail
<1> QED
  BY <1>1, <1>2 DEF WriteStep

\* What is set was there, or it is what is set.
LEMMA KeysAfter ==
    ASSUME NEW w \in Writes, WriteStep(w), NEW d \in Inodes, NEW n \in DOMAIN meta'[d]
    PROVE  \/ w.what = "set" /\ d = w.ino /\ n = w.key /\ meta'[d][n] = w.to
           \/ n \in DOMAIN meta[d] /\ meta'[d][n] = meta[d][n] /\ ~ (w.what = "remove" /\ d = w.ino /\ n = w.key)
<1>1. meta'[d] = IF d = w.ino THEN AfterWrite(w, meta[d]) ELSE meta[d]
  BY DEF WriteStep
<1>2. CASE d = w.ino /\ w.what = "set"
  BY <1>1, <1>2 DEF AfterWrite
<1>3. CASE d = w.ino /\ w.what = "remove"
  BY <1>1, <1>3 DEF AfterWrite
<1>4. CASE d # w.ino \/ (w.what # "set" /\ w.what # "remove")
  BY <1>1, <1>4 DEF AfterWrite
<1> QED
  BY <1>2, <1>3, <1>4

\* The kinds of inodes that are there stay.
LEMMA KindsStay ==
    ASSUME TypeInv, NEW w \in Writes, WriteStep(w)
    PROVE  /\ w.ino \in Inodes /\ kind \in [Inodes -> Kinds]
           /\ \A i \in Inodes : kind[i] # "none" => kind'[i] = kind[i]
<1>0. w.ino \in Inodes /\ kind \in [Inodes -> Kinds]
  BY DEF Writes, TypeInv, FsckTypes, TypeOK
<1>1. w.what = "data" => kind[w.ino] = "none"
  BY DEF WriteStep, Typed, TypedData
<1> QED
  BY <1>0, <1>1 DEF WriteStep

\* Where no name is set and none removed, the tree is the same.
LEMMA UnnamedStep ==
    ASSUME TypeInv, TypeInv', NEW w \in Writes, WriteStep(w), w.what # "remove", ~ IsName(w)
    PROVE  /\ Kids' = Kids /\ R' = R
           /\ \A d \in Inodes : \A n, i : Leads(d, n, i)' <=> Leads(d, n, i)
<1>0. Tree /\ w.ino \in Inodes /\ kind \in [Inodes -> Kinds]
  BY TypedTree, KindsStay
<1>2. ASSUME NEW d \in Inodes, NEW n, NEW i PROVE Leads(d, n, i)' <=> Leads(d, n, i)
  <2>1. CASE d # w.ino
    <3>1. meta'[d] = meta[d] /\ kind'[d] = kind[d]
      BY <1>0, <2>1 DEF WriteStep
    <3> QED
      BY <3>1 DEF Leads, NamesIn
  <2>2. CASE d = w.ino /\ w.what = "data"
    <3>1. meta'[d] = meta[d] /\ kind[d] = "none"
      BY <2>2 DEF WriteStep, AfterWrite, Typed, TypedData
    <3>2. DOMAIN meta[d] = {}
      BY <1>0, <3>1 DEF Tree
    <3> QED
      BY <3>1, <3>2 DEF Leads, NamesIn
  <2>3. CASE d = w.ino /\ w.what # "data" /\ w.what # "set"
    <3>1. meta'[d] = meta[d] /\ kind' = kind
      BY <2>3 DEF WriteStep, AfterWrite
    <3> QED
      BY <3>1 DEF Leads, NamesIn
  <2>4. CASE d = w.ino /\ w.what = "set" /\ w.key \in Dots
    <3>1. kind' = kind /\ meta'[d] = AfterWrite(w, meta[d])
      BY <2>4 DEF WriteStep
    <3>2. NamesIn(d)' = NamesIn(d) /\ \A m \in NamesIn(d) : meta'[d][m] = meta[d][m]
      BY <2>4, <3>1 DEF AfterWrite, NamesIn
    <3> QED
      BY <3>1, <3>2 DEF Leads
  <2>5. CASE d = w.ino /\ w.what = "set" /\ w.key \notin Dots
    <3>1. w.to = NoInode
      BY <2>5 DEF IsName
    <3>2. TypedContent({}, w)
      BY <2>5, <3>1, InodesAreNumbers DEF WriteStep, Typed, TypedEntry
    <3>3. kind[d] # "dir" /\ kind' = kind
      BY <2>5, <3>2 DEF TypedContent, WillBe, WriteStep
    <3> QED
      BY <3>3 DEF Leads
  <2> QED
    BY <2>1, <2>2, <2>3, <2>4, <2>5
<1> QED
  BY <1>2, SameLeads

\* One name is set, whatever it led to.
LEMMA NamedStep ==
    ASSUME TypeInv, TypeInv', NEW w \in Writes, WriteStep(w), IsName(w)
    PROVE  /\ kind' = kind /\ known' = known /\ owed' = owed
           /\ kind[w.ino] = "dir" /\ w.to \in Inodes /\ w.ino \in Inodes
           /\ \A d \in Inodes : \A n, i :
                 Leads(d, n, i)' <=> \/ Leads(d, n, i) /\ ~ (d = w.ino /\ n = w.key)
                                     \/ d = w.ino /\ n = w.key /\ i = w.to
<1>0. w.ino \in Inodes
  BY KindsStay
<1>1. /\ w.what = "set" /\ w.key \notin Dots /\ w.to # NoInode
      /\ kind' = kind /\ known' = known /\ owed' = owed
  BY DEF IsName, WriteStep
<1>2. kind[w.ino] = "dir" /\ w.to \in Inodes
  BY <1>1 DEF WriteStep, Typed, TypedEntry, TypedContent, WillBe
<1>3. ASSUME NEW d \in Inodes, NEW n, NEW i
      PROVE  Leads(d, n, i)' <=> \/ Leads(d, n, i) /\ ~ (d = w.ino /\ n = w.key)
                                 \/ d = w.ino /\ n = w.key /\ i = w.to
  <2>1. CASE d # w.ino
    <3>1. meta'[d] = meta[d]
      BY <2>1 DEF WriteStep
    <3> QED
      BY <1>1, <2>1, <3>1 DEF Leads, NamesIn
  <2>2. CASE d = w.ino
    <3>1. meta'[d] = [k \in DOMAIN meta[d] \cup {w.key} |-> IF k = w.key THEN w.to ELSE meta[d][k]]
      BY <1>1, <2>2 DEF WriteStep, AfterWrite
    <3>2. /\ DOMAIN meta'[d] = DOMAIN meta[d] \cup {w.key} /\ meta'[d][w.key] = w.to
          /\ \A k \in DOMAIN meta[d] : k # w.key => meta'[d][k] = meta[d][k]
      BY <3>1
    <3>3. CASE n = w.key
      BY <1>1, <1>2, <2>2, <3>2, <3>3 DEF Leads, NamesIn
    <3>4. CASE n # w.key
      BY <1>1, <2>2, <3>2, <3>4 DEF Leads, NamesIn
    <3> QED
      BY <3>3, <3>4
  <2> QED
    BY <2>1, <2>2
<1> QED
  BY <1>0, <1>1, <1>2, <1>3

\* A key is removed.
LEMMA RemovedStep ==
    ASSUME TypeInv, NEW w \in Writes, WriteStep(w), w.what = "remove"
    PROVE  /\ kind' = kind /\ known' = known /\ owed' = owed /\ w.ino \in Inodes
           /\ \A d \in Inodes : \A n, i :
                 Leads(d, n, i)' <=> Leads(d, n, i) /\ ~ (d = w.ino /\ n = w.key)
<1>1. /\ kind' = kind /\ known' = known /\ owed' = owed /\ w.ino \in Inodes
      /\ \A d \in Inodes : meta'[d] = IF d = w.ino THEN [k \in DOMAIN meta[d] \ {w.key} |-> meta[d][k]]
                                      ELSE meta[d]
  BY KindsStay DEF WriteStep, AfterWrite
<1>2. ASSUME NEW d \in Inodes, NEW n, NEW i
      PROVE  Leads(d, n, i)' <=> Leads(d, n, i) /\ ~ (d = w.ino /\ n = w.key)
  <2>1. CASE d # w.ino
    <3>1. meta'[d] = meta[d]
      BY <1>1, <2>1
    <3> QED
      BY <1>1, <2>1, <3>1 DEF Leads, NamesIn
  <2>2. CASE d = w.ino
    <3>1. /\ DOMAIN meta'[d] = DOMAIN meta[d] \ {w.key}
          /\ \A k \in DOMAIN meta[d] \ {w.key} : meta'[d][k] = meta[d][k]
      BY <1>1, <2>2
    <3> QED
      BY <1>1, <2>2, <3>1 DEF Leads, NamesIn
  <2> QED
    BY <2>1, <2>2
<1> QED
  BY <1>1, <1>2

-----------------------------------------------------------------------------
(***************************************************************************)
(* What handlers do to the tree, write by write.                           *)
(***************************************************************************)
\* What stays is a part of the tree.
LEMMA LeftIsPart ==
    ASSUME TypeInv
    PROVE  /\ Left \in Graphs /\ \A d \in Inodes : Left[d] \subseteq Kids[d]
           /\ Reach(Left, {Root}) \subseteq R
<1>0. Tree /\ {Root} \in SUBSET Inodes
  BY TypedTree, InodesAreNumbers
<1>1. Left \in Graphs
  BY DEF Left, Graphs
<1>2. \A d \in Inodes : Left[d] \subseteq Kids[d]
  BY <1>0 DEF Left, Tree
<1>3. Reach(Left, {Root}) \subseteq R
  BY <1>0, <1>1, <1>2, ReachGrows DEF R, Tree
<1> QED
  BY <1>1, <1>2, <1>3

\* A handler that only adds: every entry stays, and every inode in the tree.
LEMMA GrowingStep ==
    ASSUME TypeInv, TypeInv', NEW w \in Writes, WriteStep(w), Growing
    PROVE  /\ Growing' /\ R \subseteq R'
           /\ \A d \in Inodes : \A n, i : Leads(d, n, i) => Leads(d, n, i)'
           /\ \A d \in Inodes : \A n, i :
                 Leads(d, n, i)' => \/ Leads(d, n, i)
                                    \/ IsName(w) /\ d = w.ino /\ n = w.key /\ i = w.to
<1>0. /\ w \in Elements(todo) /\ Elements(todo') \subseteq Elements(todo) /\ w.what # "remove"
      /\ \A b \in Elements(todo) : b \in Writes
  <2>1. \A b \in Elements(todo) : b \in Writes
    <3>1. PICK s \in Seq(Writes) : s = todo
      BY DEF TypeInv
    <3>2. \A j \in DOMAIN s : s[j] \in Writes
      BY <3>1, LenProperties, ElementOfSeq
    <3> QED
      BY <3>1, <3>2 DEF Elements
  <2> QED
    BY <2>1 DEF WriteStep, Growing
<1>1. /\ \A d \in Inodes : \A n, i : Leads(d, n, i) => Leads(d, n, i)'
      /\ \A d \in Inodes : \A n, i :
            Leads(d, n, i)' => \/ Leads(d, n, i)
                               \/ IsName(w) /\ d = w.ino /\ n = w.key /\ i = w.to
  <2>1. CASE ~ IsName(w)
    BY <1>0, <2>1, UnnamedStep
  <2>2. CASE IsName(w)
    <3>1. /\ w.ino \in Inodes
          /\ \A d \in Inodes : \A n, i :
                Leads(d, n, i)' <=> \/ Leads(d, n, i) /\ ~ (d = w.ino /\ n = w.key)
                                    \/ d = w.ino /\ n = w.key /\ i = w.to
      BY <2>2, NamedStep
    <3>2. \A i \in Inodes : Leads(w.ino, w.key, i) => i = w.to
      BY <1>0, <2>2 DEF Growing
    <3>3. \A i : Leads(w.ino, w.key, i) => i \in Inodes
      BY <3>1, TypedTree DEF Tree
    <3> QED
      BY <2>2, <3>1, <3>2, <3>3
  <2> QED
    BY <2>1, <2>2
<1>2. R \subseteq R'
  <2>0. Tree /\ Tree' /\ {Root} \in SUBSET Inodes
    <3>1. Tree /\ Tree'
      BY TypedTree, PTL
    <3> QED
      BY <3>1, InodesAreNumbers
  <2>1. ASSUME NEW d \in Inodes PROVE Kids[d] \subseteq Kids'[d]
    <3> SUFFICES ASSUME NEW c \in Kids[d] PROVE c \in Kids'[d]
      OBVIOUS
    <3>1. PICK n \in Keys \ Dots : Leads(d, n, c)
      BY <2>0 DEF Tree
    <3>2. Leads(d, n, c)'
      BY <1>1, <3>1
    <3> QED
      BY <2>0, <3>2 DEF Tree
  <2> QED
    BY <2>0, <2>1, ReachGrows DEF R, Tree
<1>3. Growing'
  <2> SUFFICES ASSUME NEW b \in Elements(todo')
               PROVE  /\ b.what # "remove"
                      /\ IsName(b) =>
                            /\ \A i \in Inodes : Leads(b.ino, b.key, i)' => i = b.to
                            /\ \A c \in Elements(todo') :
                                  IsName(c) /\ c.ino = b.ino /\ c.key = b.key => c.to = b.to
    BY DEF Growing
  <2>1. b \in Elements(todo) /\ b \in Writes
    BY <1>0
  <2>2. b.what # "remove"
    BY <2>1 DEF Growing
  <2>3. ASSUME IsName(b), NEW i \in Inodes, Leads(b.ino, b.key, i)' PROVE i = b.to
    <3>1. b.ino \in Inodes
      BY <2>1 DEF Writes
    <3>2. CASE Leads(b.ino, b.key, i)
      BY <2>1, <2>3, <3>2 DEF Growing
    <3>3. CASE IsName(w) /\ b.ino = w.ino /\ b.key = w.key /\ i = w.to
      BY <1>0, <2>1, <2>3, <3>3 DEF Growing
    <3> QED
      BY <1>1, <2>3, <3>1, <3>2, <3>3
  <2>4. ASSUME IsName(b), NEW c \in Elements(todo'), IsName(c), c.ino = b.ino, c.key = b.key
        PROVE  c.to = b.to
    <3>1. c \in Elements(todo)
      BY <1>0
    <3> QED
      BY <2>1, <2>4, <3>1 DEF Growing
  <2> QED
    BY <2>2, <2>3, <2>4
<1> QED
  BY <1>1, <1>2, <1>3

\* A handler that only removes: what is left in the end stays the same.
LEMMA RemovingStep ==
    ASSUME TypeInv, TypeInv', NEW w \in Writes, WriteStep(w), Removing
    PROVE  /\ Removing' /\ owed' \cap known' \subseteq R' /\ w.what = "remove"
<1>0. /\ Elements(todo) = {w} \cup Elements(todo')
      /\ w = removeInodeMeta(w.ino, w.key) /\ w.what = "remove" /\ w.ino \in Inodes
  <2>1. w = removeInodeMeta(w.ino, w.key) /\ Elements(todo) = {w} \cup Elements(todo')
    BY DEF WriteStep, Removing
  <2> QED
    BY <2>1, WriteFields, KindsStay
<1>1. /\ kind' = kind /\ known' = known /\ owed' = owed
      /\ \A d \in Inodes : \A n, i :
            Leads(d, n, i)' <=> Leads(d, n, i) /\ ~ (d = w.ino /\ n = w.key)
  BY <1>0, RemovedStep
<1>2. ASSUME NEW d \in Inodes, NEW n, NEW i
      PROVE  (Leads(d, n, i) /\ ~ Removes(d, n))' <=> Leads(d, n, i) /\ ~ Removes(d, n)
  <2>1. w = removeInodeMeta(d, n) <=> d = w.ino /\ n = w.key
    BY <1>0, WriteFields
  <2>2. Removes(d, n) <=> (d = w.ino /\ n = w.key) \/ Removes(d, n)'
    BY <1>0, <2>1 DEF Removes
  <2> QED
    BY <1>1, <2>2
<1>3. Left' = Left
  BY <1>2 DEF Left
<1>4. Removing' /\ owed' \cap known' \subseteq Reach(Left', {Root})
  BY <1>0, <1>1, <1>3 DEF Removing
<1>5. (Reach(Left, {Root}) \subseteq R)'
  BY LeftIsPart, PTL
<1>6. owed' \cap known' \subseteq R'
  BY <1>4, <1>5
<1> QED
  BY <1>0, <1>4, <1>6

\* A handler that moves a name: when the new one is there, the old one remains
\* to be removed.
LEMMA MovingStep ==
    ASSUME TypeInv, TypeInv', NEW w \in Writes, WriteStep(w), w = Head(todo), todo' = Tail(todo),
           Moving
    PROVE  /\ Removing' /\ owed' \cap known' \subseteq R' /\ IsName(w) /\ w.key \in Names
<1>1. PICK p \in Inodes, q \in Inodes, i \in Inodes :
             \E n \in Keys : \E m \in Names : Moves(p, n, q, m, i)
  BY DEF Moving
<1>2. PICK n \in Keys : \E m \in Names : Moves(p, n, q, m, i)
  BY <1>1
<1>3. PICK m \in Names : Moves(p, n, q, m, i)
  BY <1>2
<1>4. /\ todo = <<setInodeMeta(q, m, i), removeInodeMeta(p, n)>>
      /\ Leads(p, n, i) /\ kind[q] = "dir" /\ ~ (p = q /\ n = m)
      /\ owed \cap known \subseteq Reach(MovedGraph(p, n, q, m, i), {Root})
  BY <1>3 DEF Moves
<1>5. w = setInodeMeta(q, m, i) /\ todo' = <<removeInodeMeta(p, n)>>
  <2>1. PICK u : u = setInodeMeta(q, m, i)
    OBVIOUS
  <2>2. PICK v : v = removeInodeMeta(p, n)
    OBVIOUS
  <2>3. todo = <<u, v>>
    BY <1>4, <2>1, <2>2
  <2> QED
    BY <2>1, <2>2, <2>3
<1>6. w.what = "set" /\ w.ino = q /\ w.key = m /\ w.to = i
  BY <1>5, WriteFields
<1>7. IsName(w)
  BY <1>6, NamespaceAssumption, TreeAssumption, InodesAreNumbers DEF IsName
<1>8. /\ kind' = kind /\ known' = known /\ owed' = owed
      /\ \A d \in Inodes : \A k, c :
            Leads(d, k, c)' <=> \/ Leads(d, k, c) /\ ~ (d = q /\ k = m)
                                \/ d = q /\ k = m /\ c = i
  BY <1>6, <1>7, NamedStep
<1>9. Elements(todo') = {removeInodeMeta(p, n)}
  <2>1. PICK v : v = removeInodeMeta(p, n)
    OBVIOUS
  <2>2. Elements(<<v>>) = {v}
    BY OnePlaced
  <2> QED
    BY <1>5, <2>1, <2>2
<1>10. \A d, k : Removes(d, k)' <=> d = p /\ k = n
  BY <1>9, WriteFields DEF Removes
<1>11. m \in Keys
  BY KeysAreWriteKeys
<1>12. ASSUME NEW d \in Inodes, NEW c \in Inodes
       PROVE  (\E k \in Keys : Leads(d, k, c)' /\ ~ Removes(d, k)')
              <=> \/ d = q /\ c = i
                  \/ \E k \in Keys : /\ Leads(d, k, c)
                                     /\ ~ (d = p /\ k = n) /\ ~ (d = q /\ k = m)
  <2>1. ASSUME NEW k \in Keys, Leads(d, k, c)', ~ Removes(d, k)'
        PROVE  \/ d = q /\ c = i
               \/ Leads(d, k, c) /\ ~ (d = p /\ k = n) /\ ~ (d = q /\ k = m)
    BY <1>8, <1>10, <2>1
  <2>2. ASSUME NEW k \in Keys, Leads(d, k, c), ~ (d = p /\ k = n), ~ (d = q /\ k = m)
        PROVE  Leads(d, k, c)' /\ ~ Removes(d, k)'
    BY <1>8, <1>10, <2>2
  <2>3. ASSUME d = q, c = i PROVE Leads(d, m, c)' /\ ~ Removes(d, m)'
    BY <1>4, <1>8, <1>10, <2>3
  <2> QED
    BY <1>11, <2>1, <2>2, <2>3
<1>13. Left' = MovedGraph(p, n, q, m, i)
  BY <1>12 DEF Left, MovedGraph
<1>14. Removing'
  <2>1. removeInodeMeta(p, n) = removeInodeMeta(removeInodeMeta(p, n).ino, removeInodeMeta(p, n).key)
    BY WriteFields
  <2> QED
    BY <1>4, <1>8, <1>9, <1>13, <2>1 DEF Removing
<1>15. (Reach(Left, {Root}) \subseteq R)'
  BY LeftIsPart, PTL
<1>16. owed' \cap known' \subseteq Reach(Left', {Root})
  BY <1>14 DEF Removing
<1>17. owed' \cap known' \subseteq R'
  BY <1>15, <1>16
<1> QED
  BY <1>6, <1>7, <1>14, <1>17

-----------------------------------------------------------------------------
(***************************************************************************)
(* A write keeps the invariant.                                            *)
(***************************************************************************)
\* The first write is sound with nothing before it.
LEMMA HeadSound ==
    ASSUME SoundTodo, NEW w \in Writes, WriteStep(w)
    PROVE  Sound({}, w)
<1>1. \A p \in Placed(todo) : Sound(p[1], p[2])
  BY DEF SoundTodo
<1>2. Sound(<<{}, w>>[1], <<{}, w>>[2])
  BY <1>1 DEF WriteStep
<1> QED
  BY <1>2

\* What is known, or will be, is so after the write; and nothing owed is
\* unknown because of a grant.
LEMMA KnownStays ==
    ASSUME TypeInv, TypeInv', NEW w \in Writes, WriteStep(w), Sound({}, w),
           NEW x \in Elements(todo'), x.what # "destroy", NEW D
    PROVE  /\ WillBeKnown({w} \cup D, x.ino) => WillBeKnown(D, x.ino)'
           /\ x.ino \in known => x.ino \in known'
           /\ SoundRev(x) => SoundRev(x)'
<1>1. x \in Elements(todo)
  BY DEF WriteStep
<1>2. x.ino \in known => x.ino \in known'
  <2>1. CASE w.what = "destroy"
    <3>1. w = destroyInode(w.ino) /\ (x.ino = w.ino => x = w)
      BY <1>1, <2>1 DEF Sound, SoundDestroy
    <3>2. x.ino # w.ino
      BY <2>1, <3>1
    <3> QED
      BY <2>1, <3>2 DEF WriteStep
  <2>2. CASE w.what # "destroy"
    BY <2>2 DEF WriteStep
  <2> QED
    BY <2>1, <2>2
<1>3. ASSUME WillBeKnown({w} \cup D, x.ino) PROVE WillBeKnown(D, x.ino)'
  <2>1. CASE x.ino \in known
    BY <1>2, <2>1 DEF WillBeKnown
  <2>2. CASE Rev(x.ino) \in D
    BY <2>2 DEF WillBeKnown
  <2>3. CASE w = Rev(x.ino)
    <3>1. w.what = "rev" /\ w.ino = x.ino
      BY <2>3, WriteFields
    <3> QED
      BY <3>1 DEF WillBeKnown, WriteStep
  <2> QED
    BY <1>3, <2>1, <2>2, <2>3 DEF WillBeKnown
<1>4. ASSUME SoundRev(x) PROVE SoundRev(x)'
  <2> SUFFICES ASSUME x.ino \in owed' PROVE x.ino \in known'
    BY DEF SoundRev
  <2>1. CASE x.ino \in owed
    BY <1>2, <1>4, <2>1 DEF SoundRev
  <2>2. CASE x.ino \notin owed
    <3>1. w.what = "grant" /\ x.ino = w.ino
      BY <2>2 DEF WriteStep
    <3>2. WillBeKnown({}, w.ino)
      BY <3>1 DEF Sound, SoundGrant
    <3> QED
      BY <1>2, <3>1, <3>2 DEF WillBeKnown
  <2> QED
    BY <2>1, <2>2
<1> QED
  BY <1>2, <1>3, <1>4

\* What is promised to the user comes nearer with every write.
LEMMA GrantStays ==
    ASSUME TypeInv, TypeInv', Growing, NEW w \in Writes, WriteStep(w),
           NEW D, NEW i \in Inodes,
           i \in R \/ \E b \in {w} \cup D : GivesName(b, i)
    PROVE  i \in R' \/ \E b \in D : GivesName(b, i)'
<1>1. R \subseteq R'
  BY GrowingStep
<1>2. ASSUME NEW b, GivesName(b, i) PROVE b.ino \in R' /\ kind'[b.ino] = "dir"
  <2>1. b.ino \in Inodes
    BY <1>2, TypedTree DEF GivesName, Tree
  <2> QED
    BY <1>1, <1>2, <2>1, KindsStay DEF GivesName
<1>3. CASE i \in R
  BY <1>1, <1>3
<1>4. CASE GivesName(w, i)
  <2>1. IsName(w) /\ w.to = i /\ w.ino \in R'
    BY <1>2, <1>4 DEF GivesName
  <2>2. Leads(w.ino, w.key, i)' /\ w.ino \in Inodes
    BY <2>1, NamedStep
  <2>3. Tree'
    BY TypedTree, PTL
  <2>4. i \in Kids'[w.ino] /\ Closed(Kids, R)'
    BY <2>2, <2>3 DEF Tree
  <2> QED
    BY <2>1, <2>4 DEF Closed
<1>5. ASSUME NEW b \in D, GivesName(b, i) PROVE GivesName(b, i)'
  BY <1>2, <1>5 DEF GivesName, IsName
<1> QED
  BY <1>3, <1>4, <1>5

\* What is to be written stays sound.
LEMMA SoundStays ==
    ASSUME FsckInv, TypeInv', UNCHANGED fsckVars, NEW w \in Writes, WriteStep(w)
    PROVE  SoundTodo'
<1>0. TypeInv /\ SoundTodo /\ Sound({}, w) /\ last_inode' = last_inode /\ w.ino \in Inodes
  BY HeadSound, KindsStay DEF FsckInv, WriteStep
<1> SUFFICES ASSUME NEW p \in Placed(todo') PROVE Sound(p[1], p[2])'
  BY DEF SoundTodo
<1>1. PICK x, D : x = p[2] /\ D = p[1]
  OBVIOUS
<1>2. x \in Elements(todo') /\ x \in Elements(todo)
  <2>1. PICK s \in Seq(Writes) : s = todo'
    BY DEF WriteStep
  <2>2. p[2] \in Elements(s)
    BY <2>1, PlacedAreElements
  <2> QED
    BY <1>1, <2>1, <2>2 DEF WriteStep
<1>3. Sound({w} \cup D, x)
  <2>1. PICK r : r = <<{w} \cup p[1], p[2]>>
    OBVIOUS
  <2>2. r \in Placed(todo)
    BY <2>1 DEF WriteStep
  <2>3. Sound(r[1], r[2])
    BY <1>0, <2>2 DEF SoundTodo
  <2> QED
    BY <1>1, <2>1, <2>3
<1>4. x.what # "destroy" =>
         /\ WillBeKnown({w} \cup D, x.ino) => WillBeKnown(D, x.ino)'
         /\ SoundRev(x) => SoundRev(x)'
  BY <1>0, <1>2, KnownStays
<1>5. x \in Writes /\ x.ino \in Inodes
  <2>1. PICK s \in Seq(Writes) : s = todo'
    BY DEF WriteStep
  <2>2. \A j \in DOMAIN s : s[j] \in Writes
    BY LenProperties, ElementOfSeq
  <2>3. x \in Writes
    BY <1>2, <2>1, <2>2 DEF Elements
  <2> QED
    BY <2>3 DEF Writes
<1>6. x.what = "rev" => SoundRev(x)'
  BY <1>3, <1>4 DEF Sound
<1>7. ASSUME x.what = "set" PROVE SoundSet(D, x)'
  <2>1. SoundSet({w} \cup D, x)
    BY <1>3, <1>7 DEF Sound
  <2>2. WillBeKnown(D, x.ino)'
    BY <1>4, <1>7, <2>1 DEF SoundSet
  <2>3. (Walking' <=> Walking) /\ fsck_ino' = fsck_ino
    BY DEF Walking, fsckVars
  <2>4. IsName(x) => \A i \in Inodes : x.key = OrphanName[i] =>
                        i <= last_inode' /\ (Walking' => x.ino # fsck_ino')
    BY <1>0, <2>1, <2>3 DEF SoundSet, SoundName
  <2>5. IsName(x)' <=> IsName(x)
    BY DEF IsName
  <2> QED
    BY <2>2, <2>4, <2>5 DEF SoundSet, SoundName
<1>8. ASSUME x.what = "grant" PROVE SoundGrant(D, x)'
  <2>1. SoundGrant({w} \cup D, x)
    BY <1>3, <1>8 DEF Sound
  <2>2. WillBeKnown(D, x.ino)'
    BY <1>4, <1>8, <2>1 DEF SoundGrant
  <2>3. Growing
    <3>1. ~ Removing
      <4>1. ASSUME x = removeInodeMeta(x.ino, x.key) PROVE FALSE
        <5>1. x.what = "remove"
          BY <4>1, WriteFields
        <5> QED
          BY <1>8, <5>1
      <4> QED
        BY <1>2, <4>1 DEF Removing
    <3>2. ~ Moving
      <4> SUFFICES ASSUME NEW q \in Inodes, NEW e \in Inodes, NEW i \in Inodes, NEW n \in Keys,
                          NEW m \in Names, Moves(q, n, e, m, i)
                   PROVE  FALSE
        BY DEF Moving
      <4>1. PICK u, v : u = setInodeMeta(e, m, i) /\ v = removeInodeMeta(q, n)
        OBVIOUS
      <4>2. todo = <<u, v>>
        BY <4>1 DEF Moves
      <4>3. x = u \/ x = v
        BY <1>2, <4>2 DEF Elements
      <4> QED
        BY <1>8, <4>1, <4>3, WriteFields
    <3> QED
      BY <3>1, <3>2 DEF FsckInv
  <2>4. x.ino \in R \/ \E b \in {w} \cup D : GivesName(b, x.ino)
    BY <2>1 DEF SoundGrant
  <2>5. x.ino \in R' \/ \E b \in D : GivesName(b, x.ino)'
    BY <1>0, <1>5, <2>3, <2>4, GrantStays
  <2> QED
    BY <2>2, <2>5 DEF SoundGrant
<1>9. ASSUME x.what = "destroy" PROVE SoundDestroy(x)'
  <2>1. SoundDestroy(x)
    BY <1>3, <1>9 DEF Sound
  <2>2. w.what # "destroy" => w.ino # x.ino
    BY <1>9, <2>1 DEF SoundDestroy, WriteStep
  <2>3. meta'[x.ino] = meta[x.ino]
    BY <1>5, <2>2 DEF WriteStep, AfterWrite
  <2>4. \A b \in Elements(todo') : b.ino = x.ino => b = x
    BY <2>1 DEF SoundDestroy, WriteStep
  <2>5. ~ Walking' /\ fscks' > 0
    BY <2>1 DEF Walking, fsckVars, SoundDestroy
  <2> QED
    BY <2>1, <2>3, <2>4, <2>5 DEF SoundDestroy
<1>10. Sound(D, x)'
  BY <1>6, <1>7, <1>8, <1>9 DEF Sound
<1> QED
  BY <1>1, <1>10

-----------------------------------------------------------------------------
\* The write is of the handler's kind, and what is owed stays in the tree.
LEMMA ModeStays ==
    ASSUME FsckInv, TypeInv', NEW w \in Writes, WriteStep(w), w = Head(todo), todo' = Tail(todo)
    PROVE  /\ Growing' \/ Removing' \/ Moving'
           /\ owed' \cap known' \subseteq R'
<1>0. TypeInv /\ TreeInv /\ Sound({}, w) /\ w.ino \in Inodes
  BY HeadSound, KindsStay DEF FsckInv
<1>1. CASE Growing
  <2>1. Growing' /\ R \subseteq R'
    BY <1>0, <1>1, GrowingStep
  <2>2. ASSUME NEW i \in owed' \cap known' PROVE i \in R'
    <3>1. CASE i \in owed /\ i \in known
      BY <1>0, <2>1, <3>1 DEF TreeInv
    <3>2. CASE i \in owed /\ i \notin known
      <4>1. w.what = "rev" /\ i = w.ino
        BY <2>2, <3>2 DEF WriteStep
      <4> QED
        BY <1>0, <3>2, <4>1 DEF Sound, SoundRev
    <3>3. CASE i \notin owed
      <4>1. w.what = "grant" /\ i = w.ino
        BY <2>2, <3>3 DEF WriteStep
      <4>2. i \in R
        BY <1>0, <4>1 DEF Sound, SoundGrant
      <4> QED
        BY <2>1, <4>2
    <3> QED
      BY <3>1, <3>2, <3>3
  <2> QED
    BY <2>1, <2>2
<1>2. CASE Removing
  BY <1>0, <1>2, RemovingStep
<1>3. CASE Moving
  BY <1>0, <1>3, MovingStep
<1> QED
  BY <1>1, <1>2, <1>3 DEF FsckInv

\* What is not known has no keys after a write, and orphans have names as before.
LEMMA TreeStays ==
    ASSUME FsckInv, TypeInv', UNCHANGED fsckVars, NEW w \in Writes, WriteStep(w),
           owed' \cap known' \subseteq R'
    PROVE  TreeInv'
<1>0. /\ TypeInv /\ TreeInv /\ Sound({}, w) /\ w.ino \in Inodes /\ fscks' = fscks
      /\ \A i \in Inodes : kind[i] # "none" => kind'[i] = kind[i]
      /\ last_inode' = last_inode /\ remote' = remote /\ DOMAIN meta' = Inodes
  BY HeadSound, KindsStay DEF FsckInv, WriteStep, fsckVars
<1>1. /\ w.what = "set" => w.ino \in known
      /\ w.what = "grant" => w.ino \in known
      /\ w.what = "destroy" => w.ino # Root /\ DOMAIN meta[w.ino] = {} /\ fscks > 0
  BY <1>0 DEF Sound, SoundSet, SoundGrant, SoundDestroy, WillBeKnown
<1>2. Root \in known'
  BY <1>0, <1>1 DEF TreeInv, WriteStep
<1>3. ASSUME NEW i \in Inodes \ known' PROVE DOMAIN meta'[i] = {}
  <2>1. i \notin known \/ (w.what = "destroy" /\ i = w.ino)
    BY <1>3 DEF WriteStep
  <2>2. DOMAIN meta[i] = {}
    BY <1>0, <1>1, <2>1 DEF TreeInv
  <2>3. ~ (i = w.ino /\ w.what = "set")
    BY <1>1, <2>1
  <2> QED
    BY <2>2, <2>3, KeysAfter
<1>4. \A i \in owed' : kind'[i] # "none"
  <2> SUFFICES ASSUME NEW i \in owed' PROVE kind'[i] # "none"
    OBVIOUS
  <2>1. CASE i \in owed
    <3>1. i \in Inodes
      BY <1>0, <2>1 DEF TypeInv, FsckTypes, TypeOK
    <3> QED
      BY <1>0, <2>1, <3>1 DEF TreeInv
  <2>2. CASE i \notin owed
    <3>1. i = w.ino /\ w.what = "grant"
      BY <2>2 DEF WriteStep
    <3>2. i \in known /\ i \in Inodes
      BY <1>0, <1>1, <3>1
    <3>3. kind[i] # "none"
      BY <1>0, <3>2 DEF TypeInv, FsckTypes, TypeOK
    <3> QED
      BY <1>0, <3>2, <3>3
  <2> QED
    BY <2>1, <2>2
<1>5. \A i \in remote' : kind'[i] = "none"
  <2> SUFFICES ASSUME NEW i \in remote PROVE kind'[i] = "none"
    BY <1>0
  <2>1. i \in Foreign
    BY <1>0 DEF TypeInv, FsckTypes, TypeOK
  <2>2. w.what = "data" => w.ino # i
    BY <2>1 DEF WriteStep, Typed, TypedData
  <2>3. i \in Inodes /\ kind[i] = "none"
    BY <1>0, <2>1, NamespaceAssumption DEF TreeInv
  <2>4. kind \in [Inodes -> Kinds]
    BY <1>0, KindsStay
  <2> QED
    BY <2>2, <2>3, <2>4 DEF WriteStep
<1>6. owed' \ known' # {} => fscks' > 0
  <2> SUFFICES ASSUME NEW i \in owed', i \notin known' PROVE fscks > 0
    BY <1>0
  <2>1. CASE w.what = "destroy"
    BY <1>1, <2>1
  <2>2. CASE w.what # "destroy"
    <3>1. i \notin known
      BY <2>2 DEF WriteStep
    <3>2. i \in owed
      BY <1>1, <3>1 DEF WriteStep
    <3> QED
      BY <1>0, <3>1, <3>2 DEF TreeInv
  <2> QED
    BY <2>1, <2>2
<1>7. OrphanNamesGiven'
  <2> SUFFICES ASSUME NEW d \in Inodes, NEW i \in Inodes, kind'[d] = "dir",
                      OrphanName[i] \in DOMAIN meta'[d]
               PROVE  i <= last_inode
    BY <1>0 DEF OrphanNamesGiven
  <2>0. OrphanName[i] \notin Dots
    BY NamesAssumption
  <2>1. CASE w.what = "set" /\ d = w.ino /\ OrphanName[i] = w.key /\ meta'[d][OrphanName[i]] = w.to
    <3>1. w.to # NoInode
      <4>1. meta'[d][OrphanName[i]] \in Inodes
        BY DEF TypeInv, FsckTypes, TypeOK
      <4> QED
        BY <2>1, <4>1, InodesAreNumbers
    <3>2. IsName(w) /\ SoundSet({}, w)
      BY <1>0, <2>0, <2>1, <3>1 DEF IsName, Sound
    <3> QED
      BY <2>1, <3>2 DEF SoundSet, SoundName
  <2>2. CASE OrphanName[i] \in DOMAIN meta[d]
    <3>1. kind[d] # "none"
      BY <1>0, <2>2 DEF TypeInv, FsckTypes, TypeOK
    <3>2. kind[d] = "dir"
      BY <1>0, <3>1
    <3> QED
      BY <1>0, <2>2, <3>2 DEF TreeInv, OrphanNamesGiven
  <2> QED
    BY <2>1, <2>2, KeysAfter
<1> QED
  BY <1>2, <1>3, <1>4, <1>5, <1>6, <1>7 DEF TreeInv

\* The walk is where it was.
LEMMA WalkStays ==
    ASSUME FsckInv, TypeInv', UNCHANGED fsckVars, NEW w \in Writes, WriteStep(w), Walking'
    PROVE  WalkInv'
<1>0. /\ Walking /\ WalkInv /\ Sound({}, w) /\ TypeInv /\ last_inode' = last_inode
      /\ fsck_ino' = fsck_ino /\ fsck_ino_max' = fsck_ino_max /\ known_inodes' = known_inodes
      /\ fsck_ino \in Inodes
  <2>1. Walking /\ TypeInv
    BY DEF Walking, fsckVars, FsckInv
  <2> QED
    BY <2>1, HeadSound DEF FsckInv, fsckVars, WriteStep, TypeInv, FsckTypes
<1>1. fsck_ino \in known' \/ Rev(fsck_ino) \in Elements(todo')
  <2>1. CASE fsck_ino \in known
    <3>1. w.what # "destroy"
      BY <1>0 DEF Sound, SoundDestroy
    <3> QED
      BY <2>1, <3>1 DEF WriteStep
  <2>2. CASE w = Rev(fsck_ino)
    BY <2>2, WriteFields DEF WriteStep
  <2> QED
    BY <1>0, <2>1, <2>2 DEF WalkInv, WriteStep
<1>2. ASSUME NEW i \in Inodes, OrphanName[i] \in DOMAIN meta'[fsck_ino] PROVE FALSE
  <2>1. w.what = "set" /\ fsck_ino = w.ino /\ OrphanName[i] = w.key
    BY <1>0, <1>2, KeysAfter DEF WalkInv
  <2>2. SoundSet({}, w)
    BY <1>0, <2>1 DEF Sound
  <2>3. w.to = NoInode
    <3>1. OrphanName[i] \notin Dots
      BY NamesAssumption
    <3> QED
      BY <1>0, <2>1, <2>2, <3>1 DEF SoundSet, SoundName, IsName
  <2>4. TypedContent({}, w)
    BY <2>1, <2>3, InodesAreNumbers DEF WriteStep, Typed, TypedEntry
  <2>5. kind[fsck_ino] # "dir"
    BY <2>1, <2>4 DEF TypedContent, WillBe
  <2>6. DataOf(fsck_ino, "dir") \in Elements(todo)
    <3>1. status # Idle
      BY <1>0 DEF Walking, Idle
    <3> QED
      BY <1>0, <2>5, <3>1 DEF TypeInv, WillBe
  <2>7. kind[fsck_ino] = "none"
    <3>1. PICK p \in Placed(todo) : p[2] = DataOf(fsck_ino, "dir")
      <4>1. PICK s \in Seq(Writes) : s = todo
        BY <1>0 DEF TypeInv
      <4>2. PICK j \in 1 .. Len(s) : DataOf(fsck_ino, "dir") = s[j]
        BY <2>6, <4>1, LenProperties DEF Elements
      <4>3. PICK b : b = Before(s, j)
        OBVIOUS
      <4>4. <<b, DataOf(fsck_ino, "dir")>> \in Placed(s)
        BY <4>2, <4>3 DEF Placed
      <4> QED
        BY <4>1, <4>4
    <3>2. Typed(p[1], DataOf(fsck_ino, "dir"))
      BY <1>0, <3>1 DEF TypeInv, TypedTodo
    <3>3. DataOf(fsck_ino, "dir").what = "data" /\ DataOf(fsck_ino, "dir").ino = fsck_ino
      BY WriteFields
    <3> QED
      BY <3>2, <3>3 DEF Typed, TypedData
  <2>8. kind[fsck_ino] \in {"file", "link"}
    BY <2>1, <2>4 DEF TypedContent, WillBe
  <2> QED
    BY <2>7, <2>8
<1> QED
  BY <1>0, <1>1, <1>2 DEF WalkInv

\* A write keeps the invariant.
LEMMA WriteKeeps ==
    ASSUME FsckInv, TypeInv', UNCHANGED fsckVars, Write
    PROVE  FsckInv'
<1>0. TypeInv
  BY DEF FsckInv
<1>1. PICK w \in Writes : WriteStep(w) /\ w = Head(todo) /\ todo' = Tail(todo)
  BY <1>0, WriteSteps
<1>2. (Growing \/ Removing \/ Moving)' /\ owed' \cap known' \subseteq R'
  BY <1>1, ModeStays
<1>3. TreeInv'
  BY <1>1, <1>2, TreeStays
<1>4. (Walking => WalkInv)'
  BY <1>1, WalkStays
<1>5. SoundTodo'
  BY <1>1, SoundStays
<1>6. status' # Idle => fscks' > 0
  BY DEF FsckInv, fsckVars
<1> QED
  BY <1>2, <1>3, <1>4, <1>5, <1>6 DEF FsckInv

-----------------------------------------------------------------------------
(***************************************************************************)
(* A handler decides on its writes: the tree is as it was, and what is     *)
(* owed can only become less.                                              *)
(***************************************************************************)
LEMMA SameTree ==
    ASSUME TypeInv, TreeInv, TypeInv', UNCHANGED <<kind, known, meta, remote>>,
           owed' \subseteq owed, last_inode' >= last_inode, fscks' >= fscks
    PROVE  /\ TreeInv' /\ Kids' = Kids /\ R' = R
           /\ \A d, n, i : Leads(d, n, i)' <=> Leads(d, n, i)
<1>1. Kids' = Kids
  BY DEF Kids, NamesIn
<1>2. R' = R
  BY <1>1 DEF R
<1>3. \A d, n, i : Leads(d, n, i)' <=> Leads(d, n, i)
  BY DEF Leads, NamesIn
<1>4. /\ last_inode \in Nat /\ last_inode' \in Nat /\ fscks \in Nat /\ fscks' \in Nat
      /\ \A i \in Inodes : i \in Nat
  <2>1. fscks \in 0 .. MaxFscks /\ fscks' \in 0 .. MaxFscks /\ last_inode \in Inodes /\ last_inode' \in Inodes
    BY DEF TypeInv, FsckTypes, TypeOK
  <2> QED
    BY <2>1, InodesAreNumbers, FsckAssumption
<1>5. OrphanNamesGiven'
  <2>1. \A i \in Inodes : i <= last_inode => i <= last_inode'
    BY <1>4
  <2> QED
    BY <2>1 DEF TreeInv, OrphanNamesGiven
<1>6. owed' \ known' # {} => fscks' > 0
  <2>1. fscks > 0 => fscks' > 0
    BY <1>4
  <2> QED
    BY <2>1 DEF TreeInv
<1> QED
  BY <1>1, <1>2, <1>3, <1>5, <1>6 DEF TreeInv

\* A handler that decides on its writes leaves the walk where it is.
LEMMA SameWalk ==
    ASSUME TypeInv, TypeInv', todo = <<>>, UNCHANGED <<known, meta, fsck_ino, fsck_ino_max>>,
           last_inode' >= last_inode, known_inodes \subseteq known_inodes',
           Walking => WalkInv, Walking' => Walking
    PROVE  (Walking => WalkInv)'
<1> SUFFICES ASSUME Walking' PROVE WalkInv'
  OBVIOUS
<1>1. WalkInv /\ fsck_ino \in known
  BY NothingPlaced DEF WalkInv
<1>2. fsck_ino <= last_inode'
  <2>1. last_inode \in Nat /\ last_inode' \in Nat /\ fsck_ino \in Nat
    BY InodesAreNumbers DEF TypeInv, FsckTypes, TypeOK
  <2> QED
    BY <1>1, <2>1 DEF WalkInv
<1> QED
  BY <1>1, <1>2 DEF WalkInv

\* A request leaves the tree and the walk alone.
LEMMA RequestKeeps ==
    ASSUME FsckInv, TypeInv', Ready, UNCHANGED fsckVars, NEW writes, NEW newly_owed,
           Handle(writes, newly_owed), newly_owed \subseteq owed,
           last_inode' = last_inode \/ NewInode
    PROVE  /\ TreeInv' /\ (Walking => WalkInv)' /\ (status # Idle => fscks > 0)'
           /\ todo' = writes /\ owed' = newly_owed
           /\ UNCHANGED <<kind, known, meta, remote, crashes>>
           /\ Kids' = Kids /\ R' = R
           /\ \A d, n, i : Leads(d, n, i)' <=> Leads(d, n, i)
<1>1. /\ UNCHANGED <<kind, known, meta, remote, crashes>> /\ todo' = writes
      /\ owed' = newly_owed /\ todo = <<>>
  BY DEF Handle, Ready
<1>2. TypeInv /\ TreeInv /\ (Walking => WalkInv) /\ (Walking' => Walking)
      /\ (status # Idle => fscks > 0)'
  BY DEF FsckInv, Walking, fsckVars
<1>3. last_inode' >= last_inode /\ fscks' >= fscks
  <2>1. last_inode \in Nat /\ fscks \in Nat
    BY <1>2, InodesAreNumbers, FsckAssumption DEF TypeInv, FsckTypes, TypeOK
  <2> QED
    BY <2>1 DEF NewInode, fsckVars
<1>4. owed' \subseteq owed
  BY <1>1
<1>5. /\ TreeInv' /\ Kids' = Kids /\ R' = R
      /\ \A d, n, i : Leads(d, n, i)' <=> Leads(d, n, i)
  BY <1>1, <1>2, <1>3, <1>4, SameTree
<1>6. (Walking => WalkInv)'
  BY <1>1, <1>2, <1>3, SameWalk DEF fsckVars
<1> QED
  BY <1>1, <1>2, <1>5, <1>6

-----------------------------------------------------------------------------
(***************************************************************************)
(* The writes of handlers are sound, each after those in D.                *)
(***************************************************************************)
\* What is set in an inode that is known, or stored before.
LEMMA SetSound ==
    ASSUME NEW D, NEW d, NEW n, NEW i, WillBeKnown(D, d)',
           i # NoInode => \A j \in Inodes : n = OrphanName[j] =>
                             j <= last_inode' /\ (Walking' => d # fsck_ino')
    PROVE  Sound(D, setInodeMeta(d, n, i))'
<1>1. PICK w : w = setInodeMeta(d, n, i)
  OBVIOUS
<1>2. w.what = "set" /\ w.ino = d /\ w.key = n /\ w.to = i
  BY <1>1, WriteFields
<1>3. IsName(w)' => i # NoInode
  BY <1>2 DEF IsName
<1>4. IsName(w)' => SoundName(w)'
  BY <1>2, <1>3 DEF SoundName
<1>5. SoundSet(D, w)'
  BY <1>2, <1>4 DEF SoundSet
<1>6. Sound(D, w)'
  BY <1>2, <1>5 DEF Sound
<1> QED
  BY <1>1, <1>6

\* An answer about an inode that was stored and named before.
LEMMA GrantSound ==
    ASSUME NEW D, NEW i, NEW b \in D, WillBeKnown(D, i)', GivesName(b, i)'
    PROVE  Sound(D, Grant(i))'
<1>1. PICK w : w = Grant(i)
  OBVIOUS
<1>2. w.what = "grant" /\ w.ino = i
  BY <1>1, WriteFields
<1>3. SoundGrant(D, w)'
  BY <1>2 DEF SoundGrant
<1>4. Sound(D, w)'
  BY <1>2, <1>3 DEF Sound
<1> QED
  BY <1>1, <1>4

\* Removals ask for nothing.
LEMMA RemovalSound ==
    ASSUME NEW D, NEW w, w.what = "remove"
    PROVE  Sound(D, w)'
  BY DEF Sound

\* A new inode is stored before what follows.
LEMMA StoreSound ==
    ASSUME NEW i \in Inodes, NEW k \in Kinds, NEW v \in Seq(Writes), NEW D, i \notin owed',
           \A q \in Placed(v) : Sound(D \cup {DataOf(i, k), Rev(i)} \cup q[1], q[2])'
    PROVE  \A p \in Placed(storeInode(i, k) \o v) : Sound(D \cup p[1], p[2])'
<1> DEFINE a == DataOf(i, k)
           b == Rev(i)
<1>1. /\ storeInode(i, k) \o v \in Seq(Writes)
      /\ Placed(storeInode(i, k) \o v) =
            {<<{}, a>>, <<{a}, b>>} \cup After({a, b}, Placed(v))
  BY StorePlaced
<1>2. /\ a.what = "data" /\ b.what = "rev" /\ b.ino = i
  BY WriteFields
<1> HIDE DEF a, b
<1>3. ASSUME NEW p \in Placed(storeInode(i, k) \o v) PROVE Sound(D \cup p[1], p[2])'
  <2>1. CASE p = <<{}, a>>
    <3>1. p[2].what = "data"
      BY <1>2, <2>1
    <3> QED
      BY <3>1 DEF Sound
  <2>2. CASE p = <<{a}, b>>
    <3>1. p[2].what = "rev" /\ p[2].ino = i
      BY <1>2, <2>2
    <3> QED
      BY <3>1 DEF Sound, SoundRev
  <2>3. CASE p \in After({a, b}, Placed(v))
    <3>1. PICK q \in Placed(v) : p = <<{a, b} \cup q[1], q[2]>>
      BY <2>3 DEF After
    <3>2. Sound(D \cup {a, b} \cup q[1], q[2])'
      BY DEF a, b
    <3>3. D \cup p[1] = D \cup {a, b} \cup q[1] /\ p[2] = q[2]
      BY <3>1
    <3> QED
      BY <3>2, <3>3
  <2> QED
    BY <1>1, <2>1, <2>2, <2>3
<1> QED
  BY <1>3

\* ... when it is stored first of all.
LEMMA StoredSound ==
    ASSUME NEW i \in Inodes, NEW k \in Kinds, NEW v \in Seq(Writes), i \notin owed',
           todo' = storeInode(i, k) \o v,
           \A q \in Placed(v) : Sound({DataOf(i, k), Rev(i)} \cup q[1], q[2])'
    PROVE  SoundTodo' /\ Elements(todo') = {DataOf(i, k), Rev(i)} \cup Elements(v)
<1>1. ASSUME NEW q \in Placed(v) PROVE Sound({} \cup {DataOf(i, k), Rev(i)} \cup q[1], q[2])'
  <2>1. {} \cup {DataOf(i, k), Rev(i)} \cup q[1] = {DataOf(i, k), Rev(i)} \cup q[1]
    OBVIOUS
  <2> QED
    BY <2>1
<1>2. \A p \in Placed(storeInode(i, k) \o v) : Sound({} \cup p[1], p[2])'
  BY <1>1, StoreSound
<1>3. ASSUME NEW p \in Placed(todo') PROVE Sound(p[1], p[2])'
  <2>1. {} \cup p[1] = p[1]
    OBVIOUS
  <2> QED
    BY <1>2, <2>1
<1> QED
  BY <1>3, StorePlaced DEF SoundTodo

\* All writes but one name no inode, and that one a key that is not there.
LEMMA OneNameGrows ==
    ASSUME NEW p, NEW n, NEW i, n \notin DOMAIN meta'[p],
           \A b \in Elements(todo') :
              /\ b.what # "remove"
              /\ IsName(b) => b.ino = p /\ b.key = n /\ b.to = i
    PROVE  Growing'
<1>1. \A b \in Elements(todo') : IsName(b)' <=> IsName(b)
  BY DEF IsName
<1>2. \A j : ~ Leads(p, n, j)'
  BY DEF Leads, NamesIn
<1> QED
  BY <1>1, <1>2 DEF Growing

-----------------------------------------------------------------------------
(***************************************************************************)
(* Requests keep the invariant.                                            *)
(***************************************************************************)
\* A name that the user gives is no dot and none of fsck's.
LEMMA NamesOfUsers ==
    ASSUME NEW n \in Names
    PROVE  /\ n \in Keys /\ n \in WriteKeys /\ n \notin Dots
           /\ \A j \in Inodes : n # OrphanName[j]
  BY NamesAssumption, TreeAssumption, KeysAreWriteKeys

\* One write that is sound.
LEMMA OneSound ==
    ASSUME NEW w, Placed(todo') = {<<{}, w>>}, Sound({}, w)'
    PROVE  SoundTodo'
<1> SUFFICES ASSUME NEW p \in Placed(todo') PROVE Sound(p[1], p[2])'
  BY DEF SoundTodo
<1>1. p[1] = {} /\ p[2] = w
  OBVIOUS
<1> QED
  BY <1>1

\* link keeps the invariant: a name more.
LEMMA LinkKeeps ==
    ASSUME FsckInv, TypeInv', Ready, UNCHANGED fsckVars,
           NEW i \in Reachable, NEW p \in Dirs, NEW n \in Names, Link(i, p, n)
    PROVE  FsckInv'
<1>0. /\ TypeInv /\ p \in Inodes /\ kind[p] = "dir" /\ p \in known /\ owed \subseteq owed
      /\ i \in Inodes /\ n \notin Dots /\ (\A j \in Inodes : n # OrphanName[j])
  <2>1. TypeInv
    BY DEF FsckInv
  <2> QED
    BY <2>1, DirsAreDirs, KidsAreInodes, NamesOfUsers
<1> DEFINE a == setInodeMeta(p, n, i)
<1>1. n \notin DOMAIN meta[p] /\ Handle(<<a>>, owed) /\ last_inode' = last_inode
  BY DEF Link
<1>2. /\ TreeInv' /\ (Walking => WalkInv)' /\ (status # Idle => fscks > 0)' /\ todo' = <<a>>
      /\ UNCHANGED <<kind, known, meta, remote, crashes>>
  BY <1>0, <1>1, RequestKeeps
<1>3. Sound({}, a)'
  <2>1. WillBeKnown({}, p)'
    BY <1>0, <1>2 DEF WillBeKnown
  <2> QED
    BY <1>0, <2>1, SetSound
<1>4. a.what = "set" /\ a.ino = p /\ a.key = n /\ a.to = i
  BY WriteFields
<1> HIDE DEF a
<1>5. Placed(todo') = {<<{}, a>>} /\ Elements(todo') = {a}
  BY <1>2, OnePlaced
<1>6. SoundTodo'
  BY <1>3, <1>5, OneSound
<1>7. Growing'
  <2>1. n \notin DOMAIN meta'[p] /\ a.what # "remove"
    BY <1>1, <1>2, <1>4
  <2>2. \A b \in Elements(todo') :
           b.what # "remove" /\ (IsName(b) => b.ino = p /\ b.key = n /\ b.to = i)
    BY <1>4, <1>5, <2>1
  <2> QED
    BY <2>1, <2>2, OneNameGrows
<1> QED
  BY <1>2, <1>6, <1>7 DEF FsckInv

\* The first block of a file keeps it.
LEMMA FirstWriteKeeps ==
    ASSUME FsckInv, TypeInv', Ready, UNCHANGED fsckVars, NEW i \in Reachable, FirstWrite(i)
    PROVE  FsckInv'
<1> DEFINE a == setInodeMeta(i, "block", NoInode)
<1>1. Handle(<<a>>, owed) /\ last_inode' = last_inode /\ owed \subseteq owed /\ i \in known
  BY DEF FirstWrite
<1>2. /\ TreeInv' /\ (Walking => WalkInv)' /\ (status # Idle => fscks > 0)' /\ todo' = <<a>>
      /\ UNCHANGED <<kind, known, meta, remote, crashes>>
  BY <1>1, RequestKeeps
<1>3. Sound({}, a)'
  <2>1. WillBeKnown({}, i)'
    BY <1>1, <1>2 DEF WillBeKnown
  <2> QED
    BY <2>1, SetSound
<1>4. a.what = "set" /\ ~ IsName(a)
  BY WriteFields DEF IsName
<1> HIDE DEF a
<1>5. Placed(todo') = {<<{}, a>>} /\ Elements(todo') = {a}
  BY <1>2, OnePlaced
<1>6. SoundTodo'
  BY <1>3, <1>5, OneSound
<1>7. Growing'
  BY <1>4, <1>5 DEF Growing, IsName
<1> QED
  BY <1>2, <1>6, <1>7 DEF FsckInv

\* The number of a new inode: it is nowhere yet.
LEMMA NewInodeNowhere ==
    ASSUME FsckInv, TypeInv', TreeInv', NewInode, UNCHANGED <<kind, known, meta, remote>>,
           NEW i, i = last_inode'
    PROVE  i \in Inodes /\ i \notin owed' /\ kind'[i] = "none" /\ i \notin known'
<1>1. i \in Inodes /\ kind'[i] = "none"
  BY NewInodeFresh DEF FsckInv
<1> QED
  BY <1>1 DEF TreeInv, TypeInv, FsckTypes, TypeOK

\* The name of a new inode, and the answer.
LEMMA NewNameSound ==
    ASSUME TypeInv', NEW p \in Inodes, NEW n \in Names, NEW i \in Inodes, NEW D,
           p \in known', p \in R', kind'[p] = "dir", Rev(i) \in D
    PROVE  /\ Sound(D, setInodeMeta(p, n, i))'
           /\ setInodeMeta(p, n, i) \in D => Sound(D, Grant(i))'
<1>1. /\ n \notin Dots /\ (\A j \in Inodes : n # OrphanName[j]) /\ i # NoInode
  BY NamesOfUsers, InodesAreNumbers
<1>2. WillBeKnown(D, p)' /\ WillBeKnown(D, i)'
  BY DEF WillBeKnown
<1>3. Sound(D, setInodeMeta(p, n, i))'
  BY <1>1, <1>2, SetSound
<1>4. PICK b : b = setInodeMeta(p, n, i)
  OBVIOUS
<1>5. b.what = "set" /\ b.ino = p /\ b.key = n /\ b.to = i
  BY <1>4, WriteFields
<1>6. GivesName(b, i)'
  BY <1>1, <1>5 DEF GivesName, IsName
<1>7. b \in D => Sound(D, Grant(i))'
  BY <1>2, <1>6, GrantSound
<1> QED
  BY <1>3, <1>4, <1>7

\* create of a new file.
LEMMA CreateNewKeeps ==
    ASSUME FsckInv, TypeInv', Ready, UNCHANGED fsckVars, NEW p \in Dirs, NEW n \in Names,
           Create(p, n), n \notin DOMAIN meta[p]
    PROVE  FsckInv'
<1>0. /\ TypeInv /\ p \in Inodes /\ kind[p] = "dir" /\ p \in R /\ p \in known /\ owed \subseteq owed
      /\ n \in WriteKeys /\ n \notin Dots /\ (\A j \in Inodes : n # OrphanName[j])
  <2>1. TypeInv
    BY DEF FsckInv
  <2> QED
    BY <2>1, DirsAreDirs, NamesOfUsers
<1>i. PICK i : i = last_inode'
  OBVIOUS
<1> DEFINE a == setInodeMeta(p, n, i)
           g == Grant(i)
           v == <<a, g>>
           writes == storeInode(i, "file") \o v
<1>1. NewInode /\ Handle(writes, owed)
  BY <1>i DEF Create
<1> HIDE DEF writes
<1>2. /\ TreeInv' /\ (Walking => WalkInv)' /\ (status # Idle => fscks > 0)' /\ todo' = writes
      /\ UNCHANGED <<kind, known, meta, remote, crashes>> /\ R' = R
  BY <1>0, <1>1, RequestKeeps
<1>3. i \in Inodes /\ i \notin owed'
  BY <1>i, <1>1, <1>2, NewInodeNowhere
<1>4. a \in Writes /\ g \in Writes
  BY <1>0, <1>3, WritesAreTyped DEF Kinds
<1>5. v \in Seq(Writes) /\ Placed(v) = {<<{}, a>>, <<{a}, g>>} /\ Elements(v) = {a, g}
  BY <1>4, TwoPlaced
<1>6. ASSUME NEW q \in Placed(v)
      PROVE  Sound({DataOf(i, "file"), Rev(i)} \cup q[1], q[2])'
  <2>1. PICK D : D = {DataOf(i, "file"), Rev(i)} \cup q[1]
    OBVIOUS
  <2>2. Rev(i) \in D /\ p \in known' /\ p \in R' /\ kind'[p] = "dir"
    BY <1>0, <1>2, <2>1
  <2>3. Sound(D, a)' /\ (a \in D => Sound(D, g)')
    BY <1>0, <1>3, <2>2, NewNameSound
  <2> HIDE DEF a, g
  <2>4. q[2] = a \/ (q[2] = g /\ a \in D)
    BY <1>5, <2>1
  <2>5. Sound(D, q[2])'
    BY <2>3, <2>4
  <2> QED
    BY <2>1, <2>5
<1>7. a.what = "set" /\ a.ino = p /\ a.key = n /\ a.to = i /\ g.what = "grant"
  BY WriteFields
<1> HIDE DEF v, a, g
<1>8. SoundTodo' /\ Elements(todo') = {DataOf(i, "file"), Rev(i), a, g}
  <2>1. todo' = storeInode(i, "file") \o v
    BY <1>2 DEF writes
  <2>2. SoundTodo' /\ Elements(todo') = {DataOf(i, "file"), Rev(i)} \cup Elements(v)
    BY <1>3, <1>5, <1>6, <2>1, StoredSound DEF Kinds
  <2> QED
    BY <1>5, <2>2
<1>9. Growing'
  <2>1. DataOf(i, "file").what = "data" /\ Rev(i).what = "rev"
    BY WriteFields
  <2>2. n \notin DOMAIN meta'[p]
    BY <1>2
  <2>3. \A b \in Elements(todo') : /\ b.what # "remove"
                                   /\ IsName(b) => b.ino = p /\ b.key = n /\ b.to = i
    BY <1>7, <1>8, <2>1 DEF IsName
  <2> QED
    BY <2>2, <2>3, OneNameGrows
<1> QED
  BY <1>2, <1>8, <1>9 DEF FsckInv

\* mkdir.
LEMMA MkdirKeeps ==
    ASSUME FsckInv, TypeInv', Ready, UNCHANGED fsckVars, NEW p \in Dirs, NEW n \in Names,
           Mkdir(p, n)
    PROVE  FsckInv'
<1>0. /\ TypeInv /\ p \in Inodes /\ kind[p] = "dir" /\ p \in R /\ p \in known /\ owed \subseteq owed
      /\ n \in WriteKeys /\ n \notin Dots /\ (\A j \in Inodes : n # OrphanName[j])
      /\ "." \in WriteKeys /\ ".." \in WriteKeys
      /\ \A j \in Inodes : OrphanName[j] # "." /\ OrphanName[j] # ".."
  <2>1. TypeInv
    BY DEF FsckInv
  <2> QED
    BY <2>1, DirsAreDirs, NamesOfUsers, KeysAreWriteKeys, NamesAssumption DEF Dots
<1>i. PICK i : i = last_inode'
  OBVIOUS
<1> DEFINE a == setInodeMeta(i, ".", i)
           b == setInodeMeta(p, n, i)
           c == setInodeMeta(i, "..", p)
           g == Grant(i)
           v == <<a, b, c, g>>
           writes == storeInode(i, "dir") \o v
<1>1. NewInode /\ Handle(writes, owed) /\ n \notin DOMAIN meta[p]
  BY <1>i DEF Mkdir, MkdirWrites
<1> HIDE DEF writes
<1>2. /\ TreeInv' /\ (Walking => WalkInv)' /\ (status # Idle => fscks > 0)' /\ todo' = writes
      /\ UNCHANGED <<kind, known, meta, remote, crashes>> /\ R' = R
  BY <1>0, <1>1, RequestKeeps
<1>3. i \in Inodes /\ i \notin owed'
  BY <1>i, <1>1, <1>2, NewInodeNowhere
<1>4. a \in Writes /\ b \in Writes /\ c \in Writes /\ g \in Writes
  BY <1>0, <1>3, WritesAreTyped DEF Kinds
<1>5. /\ v \in Seq(Writes) /\ Elements(v) = {a, b, c, g}
      /\ Placed(v) = {<<{}, a>>, <<{a}, b>>, <<{a, b}, c>>, <<{a, b, c}, g>>}
  <2> HIDE DEF a, b, c, g
  <2> QED
    BY <1>4, FourPlaced
<1>6. ASSUME NEW q \in Placed(v)
      PROVE  Sound({DataOf(i, "dir"), Rev(i)} \cup q[1], q[2])'
  <2>1. PICK D : D = {DataOf(i, "dir"), Rev(i)} \cup q[1]
    OBVIOUS
  <2>2. Rev(i) \in D /\ p \in known' /\ p \in R' /\ kind'[p] = "dir"
    BY <1>0, <1>2, <2>1
  <2>3. Sound(D, b)' /\ (b \in D => Sound(D, g)')
    BY <1>0, <1>3, <2>2, NewNameSound
  <2>4. WillBeKnown(D, i)'
    BY <2>2 DEF WillBeKnown
  <2>5. Sound(D, a)' /\ Sound(D, c)'
    BY <1>0, <2>4, SetSound
  <2> HIDE DEF a, b, c, g
  <2>6. q[2] \in {a, b, c} \/ (q[2] = g /\ b \in D)
    BY <1>5, <2>1
  <2>7. Sound(D, q[2])'
    BY <2>3, <2>5, <2>6
  <2> QED
    BY <2>1, <2>7
<1>7. /\ b.what = "set" /\ b.ino = p /\ b.key = n /\ b.to = i /\ g.what = "grant"
      /\ a.what = "set" /\ c.what = "set" /\ a.key \in Dots /\ c.key \in Dots
  BY WriteFields DEF Dots
<1> HIDE DEF v, a, b, c, g
<1>8. SoundTodo' /\ Elements(todo') = {DataOf(i, "dir"), Rev(i), a, b, c, g}
  <2>1. todo' = storeInode(i, "dir") \o v
    BY <1>2 DEF writes
  <2>2. SoundTodo' /\ Elements(todo') = {DataOf(i, "dir"), Rev(i)} \cup Elements(v)
    BY <1>3, <1>5, <1>6, <2>1, StoredSound DEF Kinds
  <2> QED
    BY <1>5, <2>2
<1>9. Growing'
  <2>1. DataOf(i, "dir").what = "data" /\ Rev(i).what = "rev"
    BY WriteFields
  <2>2. n \notin DOMAIN meta'[p]
    BY <1>1, <1>2
  <2>3. \A w \in Elements(todo') : /\ w.what # "remove"
                                   /\ IsName(w) => w.ino = p /\ w.key = n /\ w.to = i
    BY <1>7, <1>8, <2>1 DEF IsName
  <2> QED
    BY <2>2, <2>3, OneNameGrows
<1> QED
  BY <1>2, <1>8, <1>9 DEF FsckInv

\* symlink.
LEMMA SymlinkKeeps ==
    ASSUME FsckInv, TypeInv', Ready, UNCHANGED fsckVars, NEW p \in Dirs, NEW n \in Names,
           Symlink(p, n)
    PROVE  FsckInv'
<1>0. /\ TypeInv /\ p \in Inodes /\ kind[p] = "dir" /\ p \in R /\ p \in known /\ owed \subseteq owed
      /\ n \in WriteKeys /\ n \notin Dots /\ (\A j \in Inodes : n # OrphanName[j])
      /\ "target" \in WriteKeys
  <2>1. TypeInv
    BY DEF FsckInv
  <2> QED
    BY <2>1, DirsAreDirs, NamesOfUsers DEF WriteKeys
<1>i. PICK i : i = last_inode'
  OBVIOUS
<1> DEFINE a == setInodeMeta(i, "target", NoInode)
           b == setInodeMeta(p, n, i)
           g == Grant(i)
           v == <<a, b, g>>
           writes == storeInode(i, "link") \o v
<1>1. NewInode /\ Handle(writes, owed) /\ n \notin DOMAIN meta[p]
  BY <1>i DEF Symlink
<1> HIDE DEF writes
<1>2. /\ TreeInv' /\ (Walking => WalkInv)' /\ (status # Idle => fscks > 0)' /\ todo' = writes
      /\ UNCHANGED <<kind, known, meta, remote, crashes>> /\ R' = R
  BY <1>0, <1>1, RequestKeeps
<1>3. i \in Inodes /\ i \notin owed'
  BY <1>i, <1>1, <1>2, NewInodeNowhere
<1>4. a \in Writes /\ b \in Writes /\ g \in Writes
  BY <1>0, <1>3, WritesAreTyped DEF Kinds
<1>5. /\ v \in Seq(Writes) /\ Elements(v) = {a, b, g}
      /\ Placed(v) = {<<{}, a>>, <<{a}, b>>, <<{a, b}, g>>}
  <2> HIDE DEF a, b, g
  <2> QED
    BY <1>4, ThreePlaced
<1>6. ASSUME NEW q \in Placed(v)
      PROVE  Sound({DataOf(i, "link"), Rev(i)} \cup q[1], q[2])'
  <2>1. PICK D : D = {DataOf(i, "link"), Rev(i)} \cup q[1]
    OBVIOUS
  <2>2. Rev(i) \in D /\ p \in known' /\ p \in R' /\ kind'[p] = "dir"
    BY <1>0, <1>2, <2>1
  <2>3. Sound(D, b)' /\ (b \in D => Sound(D, g)')
    BY <1>0, <1>3, <2>2, NewNameSound
  <2>4. WillBeKnown(D, i)'
    BY <2>2 DEF WillBeKnown
  <2>5. Sound(D, a)'
    BY <2>4, SetSound
  <2> HIDE DEF a, b, g
  <2>6. q[2] \in {a, b} \/ (q[2] = g /\ b \in D)
    BY <1>5, <2>1
  <2>7. Sound(D, q[2])'
    BY <2>3, <2>5, <2>6
  <2> QED
    BY <2>1, <2>7
<1>7. /\ b.what = "set" /\ b.ino = p /\ b.key = n /\ b.to = i /\ g.what = "grant"
      /\ a.what = "set" /\ a.to = NoInode
  BY WriteFields
<1> HIDE DEF v, a, b, g
<1>8. SoundTodo' /\ Elements(todo') = {DataOf(i, "link"), Rev(i), a, b, g}
  <2>1. todo' = storeInode(i, "link") \o v
    BY <1>2 DEF writes
  <2>2. SoundTodo' /\ Elements(todo') = {DataOf(i, "link"), Rev(i)} \cup Elements(v)
    BY <1>3, <1>5, <1>6, <2>1, StoredSound DEF Kinds
  <2> QED
    BY <1>5, <2>2
<1>9. Growing'
  <2>1. DataOf(i, "link").what = "data" /\ Rev(i).what = "rev"
    BY WriteFields
  <2>2. n \notin DOMAIN meta'[p]
    BY <1>1, <1>2
  <2>3. \A w \in Elements(todo') : /\ w.what # "remove"
                                   /\ IsName(w) => w.ino = p /\ w.key = n /\ w.to = i
    BY <1>7, <1>8, <2>1 DEF IsName
  <2> QED
    BY <2>2, <2>3, OneNameGrows
<1> QED
  BY <1>2, <1>8, <1>9 DEF FsckInv

-----------------------------------------------------------------------------
(***************************************************************************)
(* Handlers that only remove.  What nobody knows has nothing below it, so  *)
(* names of known inodes matter alone.                                     *)
(***************************************************************************)
LEMMA RemovalsKeep ==
    ASSUME TypeInv', TreeInv', NEW h \in Graphs, \A d \in Inodes : h[d] \subseteq Kids'[d],
           owed' \cap known' \subseteq Reach(h, {Root}),
           \A w \in Elements(todo') : w = removeInodeMeta(w.ino, w.key),
           \A d \in Inodes : \A c \in h[d] :
              c \in known' => \E k \in Keys : Leads(d, k, c)' /\ ~ Removes(d, k)'
    PROVE  SoundTodo' /\ Removing'
<1>1. SoundTodo'
  <2> SUFFICES ASSUME NEW p \in Placed(todo') PROVE Sound(p[1], p[2])'
    BY DEF SoundTodo
  <2>1. PICK s \in Seq(Writes) : s = todo'
    BY DEF TypeInv
  <2>2. p[2] \in Elements(todo')
    BY <2>1, PlacedAreElements
  <2>3. p[2].what = "remove"
    BY <2>2, WriteFields
  <2> QED
    BY <2>3, RemovalSound
<1>2. Tree' /\ Left' \in Graphs /\ {Root} \in SUBSET Inodes
  <2>1. Tree' /\ (Left \in Graphs)'
    BY TypedTree, LeftIsPart, PTL
  <2> QED
    BY <2>1, InodesAreNumbers
<1>3. PICK X : X = Inodes \ known'
  OBVIOUS
<1>4. \A x \in X : h[x] = {}
  BY <1>2, <1>3 DEF TreeInv, Tree
<1>5. \A d \in Inodes : h[d] \subseteq Left'[d] \cup X
  <2> SUFFICES ASSUME NEW d \in Inodes, NEW c \in h[d], c \notin X PROVE c \in Left'[d]
    OBVIOUS
  <2>1. c \in Inodes /\ c \in known'
    BY <1>3 DEF Graphs
  <2>2. \E k \in Keys : Leads(d, k, c)' /\ ~ Removes(d, k)'
    BY <2>1
  <2> QED
    BY <2>1, <2>2 DEF Left
<1>6. Reach(h, {Root}) \subseteq Reach(Left', {Root}) \cup X
  <2>1. X \in SUBSET Inodes
    BY <1>3
  <2> QED
    BY <1>2, <1>4, <1>5, <2>1, LeavesLost
<1>7. owed' \cap known' \subseteq Reach(Left', {Root})
  BY <1>3, <1>6
<1> QED
  BY <1>1, <1>7 DEF Removing

\* What is removed besides the name n of p leads nowhere.
LEMMA OneRemoved ==
    ASSUME NEW p, NEW n, NEW Z, Elements(todo') = {removeInodeMeta(p, n)} \cup Z,
           \A w \in Z : w = removeInodeMeta(w.ino, w.key) /\ \A y : ~ Leads(w.ino, w.key, y)'
    PROVE  /\ \A w \in Elements(todo') : w = removeInodeMeta(w.ino, w.key)
           /\ \A d, k, c : Leads(d, k, c)' /\ Removes(d, k)' => d = p /\ k = n
<1>1. removeInodeMeta(p, n).ino = p /\ removeInodeMeta(p, n).key = n
  BY WriteFields
<1>2. ASSUME NEW d, NEW k, NEW c, Leads(d, k, c)', Removes(d, k)' PROVE d = p /\ k = n
  <2>1. PICK w : w = removeInodeMeta(d, k)
    OBVIOUS
  <2>2. w.ino = d /\ w.key = k /\ w \in Elements(todo')
    BY <1>2, <2>1, WriteFields DEF Removes
  <2>3. w \notin Z
    BY <1>2, <2>2
  <2>4. w = removeInodeMeta(p, n)
    BY <2>2, <2>3
  <2> QED
    BY <1>1, <2>2, <2>4
<1>3. ASSUME NEW w \in Elements(todo') PROVE w = removeInodeMeta(w.ino, w.key)
  <2>1. CASE w = removeInodeMeta(p, n)
    BY <1>1, <2>1
  <2>2. CASE w \in Z
    BY <2>2
  <2> QED
    BY <2>1, <2>2
<1> QED
  BY <1>2, <1>3

\* open with O_TRUNC: the block of a file, which is no name.
LEMMA TruncateKeeps ==
    ASSUME FsckInv, TypeInv', Ready, UNCHANGED fsckVars, NEW p \in Dirs, NEW n \in Names,
           Create(p, n), n \in DOMAIN meta[p]
    PROVE  FsckInv'
<1>0. TypeInv /\ TreeInv /\ Tree /\ p \in Inodes /\ kind[p] = "dir" /\ owed \subseteq owed
  <2>1. TypeInv /\ TreeInv
    BY DEF FsckInv
  <2> QED
    BY <2>1, DirsAreDirs, TypedTree
<1>i. PICK i : i = meta[p][n]
  OBVIOUS
<1>1. i \in Inodes /\ kind[i] = "file" /\ Handle(clearInodeMeta(i), owed) /\ last_inode' = last_inode
  BY <1>0, <1>i DEF Create, TypeInv, FsckTypes, TypeOK
<1>2. /\ TreeInv' /\ (Walking => WalkInv)' /\ (status # Idle => fscks > 0)'
      /\ todo' = clearInodeMeta(i) /\ owed' = owed /\ Kids' = Kids
      /\ UNCHANGED <<kind, known, meta, remote, crashes>>
      /\ \A d, k, c : Leads(d, k, c)' <=> Leads(d, k, c)
  BY <1>0, <1>1, RequestKeeps
<1>3. \A w \in Elements(todo') : w = removeInodeMeta(w.ino, w.key) /\ w.ino = i
  BY <1>1, <1>2, ClearRemoves, WriteFields
<1>4. \A d, k, c : Leads(d, k, c)' => ~ Removes(d, k)'
  <2> SUFFICES ASSUME NEW d, NEW k, NEW c, Leads(d, k, c), Removes(d, k)' PROVE FALSE
    BY <1>2
  <2>1. removeInodeMeta(d, k).ino = i
    BY <1>3 DEF Removes
  <2>2. d = i
    BY <2>1, WriteFields
  <2> QED
    BY <1>1, <2>2 DEF Leads
<1>5. \A d \in Inodes : \A c \in Kids[d] :
         c \in known' => \E k \in Keys : Leads(d, k, c)' /\ ~ Removes(d, k)'
  BY <1>0, <1>2, <1>4 DEF Tree
<1>6. /\ Kids \in Graphs /\ \A d \in Inodes : Kids[d] \subseteq Kids'[d]
      /\ owed' \cap known' \subseteq Reach(Kids, {Root})
  BY <1>0, <1>2 DEF Tree, TreeInv, R
<1>7. SoundTodo' /\ Removing'
  BY <1>2, <1>3, <1>5, <1>6, RemovalsKeep
<1> QED
  BY <1>2, <1>7 DEF FsckInv

\* The lookup of an entry that leads to an inode nobody knows.
LEMMA LookupKeeps ==
    ASSUME FsckInv, TypeInv', Ready, UNCHANGED fsckVars, NEW p \in Dirs, NEW n \in NamesIn(p),
           Lookup(p, n)
    PROVE  FsckInv'
<1>0. /\ TypeInv /\ TreeInv /\ Tree /\ p \in Inodes /\ kind[p] = "dir" /\ owed \subseteq owed
      /\ n \in WriteKeys
  <2>1. TypeInv /\ TreeInv
    BY DEF FsckInv
  <2> QED
    BY <2>1, DirsAreDirs, TypedTree, EntryLeads, KeysAreWriteKeys
<1>1. /\ meta[p][n] \notin known /\ Handle(<<removeInodeMeta(p, n)>>, owed)
      /\ last_inode' = last_inode
  BY DEF Lookup
<1>2. /\ TreeInv' /\ (Walking => WalkInv)' /\ (status # Idle => fscks > 0)'
      /\ todo' = <<removeInodeMeta(p, n)>> /\ owed' = owed /\ Kids' = Kids
      /\ UNCHANGED <<kind, known, meta, remote, crashes>>
      /\ \A d, k, c : Leads(d, k, c)' <=> Leads(d, k, c)
  BY <1>0, <1>1, RequestKeeps
<1>3. Elements(todo') = {removeInodeMeta(p, n)} \cup {}
  BY <1>2, OnePlaced
<1>4. /\ \A w \in Elements(todo') : w = removeInodeMeta(w.ino, w.key)
      /\ \A d, k, c : Leads(d, k, c)' /\ Removes(d, k)' => d = p /\ k = n
  <2>1. PICK Z : Z = {}
    OBVIOUS
  <2>2. /\ Elements(todo') = {removeInodeMeta(p, n)} \cup Z
        /\ \A w \in Z : w = removeInodeMeta(w.ino, w.key) /\ \A y : ~ Leads(w.ino, w.key, y)'
    BY <1>3, <2>1
  <2> QED
    BY <2>2, OneRemoved
<1>5. ASSUME NEW d \in Inodes, NEW c \in Kids[d], c \in known'
      PROVE  \E k \in Keys : Leads(d, k, c)' /\ ~ Removes(d, k)'
  <2>1. PICK k \in Keys : Leads(d, k, c)
    BY <1>0 DEF Tree
  <2>2. ~ (d = p /\ k = n)
    BY <1>1, <1>2, <1>5, <2>1 DEF Leads
  <2> QED
    BY <1>2, <1>4, <2>1, <2>2
<1>6. /\ Kids \in Graphs /\ \A d \in Inodes : Kids[d] \subseteq Kids'[d]
      /\ owed' \cap known' \subseteq Reach(Kids, {Root})
  BY <1>0, <1>2 DEF Tree, TreeInv, R
<1>7. SoundTodo' /\ Removing'
  BY <1>2, <1>4, <1>5, <1>6, RemovalsKeep
<1> QED
  BY <1>2, <1>7 DEF FsckInv

\* The names without the name n of p, as a graph.
LEMMA WithoutName ==
    ASSUME TypeInv, NEW p \in Inodes, kind[p] = "dir", NEW n
    PROVE  /\ KidsBut(p, n) \in Graphs
           /\ \A d \in Inodes : KidsBut(p, n)[d] \subseteq Kids[d]
           /\ \A d, c : d \in Inodes /\ c \in KidsBut(p, n)[d] =>
                 \E k \in Keys : Leads(d, k, c) /\ ~ (d = p /\ k = n)
           /\ Without(p, n) = owed \cap Reach(KidsBut(p, n), {Root})
<1> DEFINE h == KidsBut(p, n)
<1>0. Tree /\ Kids \in [Inodes -> SUBSET Inodes]
  BY TypedTree DEF Tree, Graphs
<1>1. /\ \A d \in Inodes : d # p => h[d] = Kids[d]
      /\ \A c \in h[p] : \E k \in NamesIn(p) : c = meta[p][k] /\ k # n
  <2>1. h[p] = {meta[p][k] : k \in NamesIn(p) \ {n}} /\ \A d \in Inodes : d # p => h[d] = Kids[d]
    BY <1>0 DEF KidsBut
  <2> HIDE DEF h
  <2>2. ASSUME NEW c \in h[p] PROVE \E k \in NamesIn(p) : c = meta[p][k] /\ k # n
    BY <2>1
  <2> QED
    BY <2>1, <2>2
<1>2. \A k \in NamesIn(p) : k \in Keys /\ Leads(p, k, meta[p][k]) /\ meta[p][k] \in Kids[p]
  BY EntryLeads DEF Leads, Kids
<1>3. DOMAIN h = Inodes /\ h = [d \in Inodes |-> h[d]]
  BY <1>0 DEF KidsBut
<1> HIDE DEF h
<1>4. ASSUME NEW d \in Inodes, NEW c \in h[d] PROVE c \in Kids[d]
  <2>1. CASE d = p
    <3>1. PICK k \in NamesIn(p) : c = meta[p][k]
      BY <1>1, <2>1
    <3> QED
      BY <1>2, <2>1, <3>1
  <2> QED
    BY <1>1, <2>1
<1>5. h \in Graphs
  BY <1>0, <1>3, <1>4 DEF Graphs
<1>6. ASSUME NEW d \in Inodes, NEW c \in h[d]
      PROVE  \E k \in Keys : Leads(d, k, c) /\ ~ (d = p /\ k = n)
  <2>1. CASE d = p
    <3>1. PICK k \in NamesIn(p) : c = meta[p][k] /\ k # n
      BY <1>1, <2>1
    <3> QED
      BY <1>2, <2>1, <3>1
  <2>2. CASE d # p
    BY <1>0, <1>1, <1>6, <2>2 DEF Tree
  <2> QED
    BY <2>1, <2>2
<1>7. Without(p, n) = owed \cap Reach(h, {Root})
  <2>1. {Root} \in SUBSET Inodes
    BY InodesAreNumbers
  <2>2. Closure(h, {Root}) = Reach(h, {Root})
    BY <1>5, <2>1, ClosureIsReach
  <2> QED
    BY <2>2 DEF Without, h
<1> QED
  BY <1>4, <1>5, <1>6, <1>7 DEF h

\* The name n of p is removed, and what leads nowhere.
LEMMA NameRemoved ==
    ASSUME TypeInv, TypeInv', TreeInv', NEW p \in Inodes, kind[p] = "dir", NEW n, NEW Z,
           Kids' = Kids, \A d, k, c : Leads(d, k, c)' <=> Leads(d, k, c),
           owed' = Without(p, n),
           Elements(todo') = {removeInodeMeta(p, n)} \cup Z,
           \A w \in Z : w = removeInodeMeta(w.ino, w.key) /\ \A y : ~ Leads(w.ino, w.key, y)
    PROVE  SoundTodo' /\ Removing'
<1>1. \A w \in Z : w = removeInodeMeta(w.ino, w.key) /\ \A y : ~ Leads(w.ino, w.key, y)'
  OBVIOUS
<1>2. /\ \A w \in Elements(todo') : w = removeInodeMeta(w.ino, w.key)
      /\ \A d, k, c : Leads(d, k, c)' /\ Removes(d, k)' => d = p /\ k = n
  BY <1>1, OneRemoved
<1>3. PICK h : h = KidsBut(p, n)
  OBVIOUS
<1>4. /\ h \in Graphs /\ \A d \in Inodes : h[d] \subseteq Kids[d]
      /\ \A d, c : d \in Inodes /\ c \in h[d] =>
            \E k \in Keys : Leads(d, k, c) /\ ~ (d = p /\ k = n)
      /\ owed' = owed \cap Reach(h, {Root})
  <2>1. Without(p, n) = owed \cap Reach(h, {Root})
    BY <1>3, WithoutName
  <2> QED
    BY <1>3, <2>1, WithoutName
<1>5. ASSUME NEW d \in Inodes, NEW c \in h[d]
      PROVE  \E k \in Keys : Leads(d, k, c)' /\ ~ Removes(d, k)'
  <2>1. PICK k \in Keys : Leads(d, k, c) /\ ~ (d = p /\ k = n)
    BY <1>4
  <2> QED
    BY <1>2, <2>1
<1>6. \A d \in Inodes : h[d] \subseteq Kids'[d]
  BY <1>4
<1>7. owed' \cap known' \subseteq Reach(h, {Root})
  BY <1>4
<1> QED
  BY <1>2, <1>4, <1>5, <1>6, <1>7, RemovalsKeep

\* unlink and rmdir.
LEMMA RemovalKeeps ==
    ASSUME FsckInv, TypeInv', Ready, UNCHANGED fsckVars, NEW p \in Dirs, NEW n \in NamesIn(p),
           Unlink(p, n) \/ Rmdir(p, n)
    PROVE  FsckInv'
<1>0. /\ TypeInv /\ TreeInv /\ p \in Inodes /\ kind[p] = "dir" /\ Without(p, n) \subseteq owed
      /\ n \in WriteKeys /\ meta[p][n] \in Inodes
  <2>1. TypeInv /\ TreeInv
    BY DEF FsckInv
  <2> QED
    BY <2>1, DirsAreDirs, EntryLeads, KeysAreWriteKeys DEF Without
<1> DEFINE a == removeInodeMeta(p, n)
<1>a. a \in Writes
  BY <1>0, WritesAreTyped DEF Kinds
<1>1. CASE Unlink(p, n)
  <2>1. Handle(<<a>>, Without(p, n)) /\ last_inode' = last_inode
    BY <1>1 DEF Unlink
  <2> HIDE DEF a
  <2>2. /\ TreeInv' /\ (Walking => WalkInv)' /\ (status # Idle => fscks > 0)'
        /\ todo' = <<a>> /\ owed' = Without(p, n) /\ Kids' = Kids
        /\ \A d, k, c : Leads(d, k, c)' <=> Leads(d, k, c)
    BY <1>0, <2>1, RequestKeeps
  <2>3. PICK Z : Z = {}
    OBVIOUS
  <2>4. Elements(todo') = {a} \cup Z
    BY <2>2, <2>3, OnePlaced
  <2>5. \A w \in Z : w = removeInodeMeta(w.ino, w.key) /\ \A y : ~ Leads(w.ino, w.key, y)
    BY <2>3
  <2>6. SoundTodo' /\ Removing'
    BY <1>0, <2>2, <2>4, <2>5, NameRemoved DEF a
  <2> QED
    BY <2>2, <2>6 DEF FsckInv
<1>2. CASE Rmdir(p, n)
  <2>x. PICK x : x = meta[p][n]
    OBVIOUS
  <2> DEFINE rest == clearInodeMeta(x)
  <2>1. /\ Handle(<<a>> \o rest, Without(p, n)) /\ last_inode' = last_inode
        /\ NamesIn(x) = {} /\ x \in Inodes
    BY <1>0, <1>2, <2>x DEF Rmdir
  <2>2. /\ TreeInv' /\ (Walking => WalkInv)' /\ (status # Idle => fscks > 0)'
        /\ todo' = <<a>> \o rest /\ owed' = Without(p, n) /\ Kids' = Kids
        /\ \A d, k, c : Leads(d, k, c)' <=> Leads(d, k, c)
    BY <1>0, <2>1, RequestKeeps
  <2>3. /\ rest \in Seq(Writes)
        /\ \A w \in Elements(rest) : w = removeInodeMeta(w.ino, w.key) /\ w.ino = x
    BY <2>1, ClearRemoves, WriteFields
  <2>4. \A w \in Elements(rest) : \A y : ~ Leads(w.ino, w.key, y)
    BY <2>1, <2>3 DEF Leads
  <2> HIDE DEF a, rest
  <2>5. Elements(todo') = {a} \cup Elements(rest)
    <3>1. PICK s \in Seq(Writes) : s = <<a>>
      <4>1. <<a>> \in Seq(Writes)
        BY <1>a DEF a
      <4> QED
        BY <4>1
    <3>2. PICK r \in Seq(Writes) : r = rest
      BY <2>3
    <3>3. Elements(s \o r) = Elements(s) \cup Elements(r)
      BY PlacedConcat
    <3>4. Elements(s) = {a}
      BY <3>1, OnePlaced
    <3> QED
      BY <2>2, <3>1, <3>2, <3>3, <3>4
  <2>6. PICK Z : Z = Elements(rest)
    OBVIOUS
  <2>7. SoundTodo' /\ Removing'
    <3>1. Elements(todo') = {removeInodeMeta(p, n)} \cup Z
      BY <2>5, <2>6 DEF a
    <3>2. \A w \in Z : w = removeInodeMeta(w.ino, w.key) /\ \A y : ~ Leads(w.ino, w.key, y)
      BY <2>3, <2>4, <2>6
    <3> QED
      BY <1>0, <2>2, <3>1, <3>2, NameRemoved
  <2> QED
    BY <2>2, <2>7 DEF FsckInv
<1> QED
  BY <1>1, <1>2

-----------------------------------------------------------------------------
\* Where an edge from q more or less does not matter to whether q is reached.
LEMMA ReachItself ==
    ASSUME NEW g \in Graphs, NEW h \in Graphs, NEW q \in Inodes, NEW S \in SUBSET Inodes,
           \A d \in Inodes : d # q => g[d] \subseteq h[d], q \in Reach(g, S)
    PROVE  q \in Reach(h, S)
<1> SUFFICES ASSUME q \notin Reach(h, S) PROVE FALSE
  OBVIOUS
<1>1. Reach(h, S) \in SUBSET Inodes /\ S \subseteq Reach(h, S) /\ Closed(h, Reach(h, S))
  BY ReachClosed
<1>2. Closed(g, Reach(h, S))
  BY <1>1 DEF Closed
<1>3. Reach(g, S) \subseteq Reach(h, S)
  BY <1>1, <1>2, ReachLeast
<1> QED
  BY <1>3

\* When the name n of p, which leads to i, becomes the name m of q, all that is
\* reached without what the name m of q led to is reached.
LEMMA MoveReaches ==
    ASSUME TypeInv, NEW p \in Inodes, NEW q \in Inodes, NEW i \in Inodes, NEW n, NEW m,
           Leads(p, n, i), kind[q] = "dir", q \in R,
           q \notin Reach(Kids, {i}),
           NEW g \in Graphs, \A d \in Inodes : g[d] \subseteq Kids[d],
           \A d \in Inodes : d # q => Kids[d] \subseteq g[d],
           \A d, c : d \in Inodes /\ c \in g[d] => \E k \in Keys : Leads(d, k, c) /\ ~ (d = q /\ k = m)
    PROVE  Reach(g, {Root}) \subseteq Reach(MovedGraph(p, n, q, m, i), {Root})
<1>0. Tree /\ {Root} \in SUBSET Inodes /\ {i} \in SUBSET Inodes /\ Kids \in Graphs
  BY TypedTree, InodesAreNumbers DEF Tree
<1>1. PICK h : h = MovedGraph(p, n, q, m, i)
  OBVIOUS
<1>2. /\ h \in Graphs /\ i \in h[q]
      /\ \A d, c \in Inodes :
            c \in h[d] <=> \/ d = q /\ c = i
                           \/ \E k \in Keys : /\ Leads(d, k, c)
                                              /\ ~ (d = p /\ k = n) /\ ~ (d = q /\ k = m)
  BY <1>1 DEF MovedGraph, Graphs
<1>3. \A d \in Inodes : g[d] \subseteq h[d] \cup {i}
  <2> SUFFICES ASSUME NEW d \in Inodes, NEW c \in g[d], c # i PROVE c \in h[d]
    OBVIOUS
  <2>1. c \in Inodes
    BY DEF Graphs
  <2>2. PICK k \in Keys : Leads(d, k, c) /\ ~ (d = q /\ k = m)
    OBVIOUS
  <2>3. ~ (d = p /\ k = n)
    BY <2>2 DEF Leads
  <2> QED
    BY <1>2, <2>1, <2>2, <2>3
<1>4. q \in Reach(g, {Root})
  BY <1>0, ReachItself DEF R
<1>5. q \notin Reach(g, {i})
  BY <1>0, ReachGrows
<1> QED
  BY <1>0, <1>1, <1>2, <1>3, <1>4, <1>5, ReachMoved

\* rename keeps the invariant: what moves is not moved below itself.
LEMMA RenameKeeps ==
    ASSUME FsckInv, TypeInv', Ready, UNCHANGED fsckVars,
           NEW p \in Dirs, NEW q \in Dirs, NEW m \in Names, NEW n \in NamesIn(p),
           Rename(p, n, q, m)
    PROVE  FsckInv'
<1>0. /\ TypeInv /\ TreeInv /\ p \in Inodes /\ kind[p] = "dir"
      /\ q \in Inodes /\ kind[q] = "dir" /\ q \in R /\ q \in known
      /\ n \in Keys /\ n \in WriteKeys /\ m \in WriteKeys /\ m \notin Dots
      /\ \A j \in Inodes : m # OrphanName[j]
  <2>1. TypeInv /\ TreeInv
    BY DEF FsckInv
  <2> QED
    BY <2>1, DirsAreDirs, EntryLeads, KeysAreWriteKeys, NamesOfUsers
<1>1. Tree
  BY <1>0, TypedTree
<1>i. PICK i : i = meta[p][n]
  OBVIOUS
<1>2. i \in Inodes /\ Leads(p, n, i)
  BY <1>0, <1>i, EntryLeads DEF Leads
<1>o. PICK newly_owed : newly_owed = IF m \in DOMAIN meta[q] THEN Without(q, m) ELSE owed
  OBVIOUS
<1>3. /\ kind[i] = "dir" => q \notin Below({i})
      /\ m \in DOMAIN meta[q] => meta[q][m] # i
      /\ Handle(RenameWrites(p, n, q, m), newly_owed) /\ last_inode' = last_inode
  BY <1>i, <1>o DEF Rename
<1>4. newly_owed \subseteq owed
  BY <1>o DEF Without
<1>5. /\ TreeInv' /\ (Walking => WalkInv)' /\ (status # Idle => fscks > 0)'
      /\ todo' = RenameWrites(p, n, q, m) /\ owed' = newly_owed
      /\ UNCHANGED <<kind, known, meta, remote, crashes>> /\ Kids' = Kids /\ R' = R
      /\ \A d, k, j : Leads(d, k, j)' <=> Leads(d, k, j)
  BY <1>3, <1>4, RequestKeeps
<1>6. q \notin Reach(Kids, {i})
  <2>1. Kids \in Graphs /\ {i} \in SUBSET Inodes
    BY <1>1, <1>2 DEF Tree
  <2>2. CASE kind[i] = "dir"
    <3>1. Closure(Kids, {i}) = Reach(Kids, {i})
      BY <2>1, ClosureIsReach
    <3> QED
      BY <1>3, <2>2, <3>1 DEF Below
  <2>3. CASE kind[i] # "dir"
    <3>1. Kids[i] = {}
      BY <1>2, <2>3 DEF Kids
    <3>2. Closed(Kids, {i})
      BY <3>1 DEF Closed
    <3>3. Reach(Kids, {i}) = {i}
      BY <2>1, <3>2, ReachOfClosed
    <3> QED
      BY <1>0, <2>3, <3>3
  <2> QED
    BY <2>2, <2>3
<1>7. ~ (p = q /\ n = m)
  BY <1>i, <1>3 DEF NamesIn
<1>8. owed' \cap known' \subseteq Reach(MovedGraph(p, n, q, m, i), {Root})
  <2>1. CASE m \in DOMAIN meta[q]
    <3>1. PICK g : g = KidsBut(q, m)
      OBVIOUS
    <3>2. /\ g \in Graphs /\ \A d \in Inodes : g[d] \subseteq Kids[d]
          /\ \A d, c : d \in Inodes /\ c \in g[d] =>
                \E k \in Keys : Leads(d, k, c) /\ ~ (d = q /\ k = m)
      BY <1>0, <3>1, WithoutName
    <3>3. \A d \in Inodes : d # q => Kids[d] \subseteq g[d]
      BY <1>1, <3>1 DEF KidsBut, Tree, Graphs
    <3>4. Reach(g, {Root}) \subseteq Reach(MovedGraph(p, n, q, m, i), {Root})
      BY <1>0, <1>2, <1>6, <3>2, <3>3, MoveReaches
    <3>5. newly_owed = owed \cap Reach(g, {Root})
      <4>1. Without(q, m) = owed \cap Reach(KidsBut(q, m), {Root})
        BY <1>0, WithoutName
      <4> QED
        BY <1>o, <2>1, <3>1, <4>1
    <3> QED
      BY <1>5, <3>4, <3>5
  <2>2. CASE m \notin DOMAIN meta[q]
    <3>1. PICK g : g = Kids
      OBVIOUS
    <3>2. /\ g \in Graphs /\ \A d \in Inodes : g[d] = Kids[d]
          /\ \A d, c : d \in Inodes /\ c \in g[d] =>
                \E k \in Keys : Leads(d, k, c) /\ ~ (d = q /\ k = m)
      <4>1. \A c : ~ Leads(q, m, c)
        BY <2>2 DEF Leads, NamesIn
      <4> QED
        BY <1>1, <3>1, <4>1 DEF Tree
    <3>3. Reach(g, {Root}) \subseteq Reach(MovedGraph(p, n, q, m, i), {Root})
      BY <1>0, <1>2, <1>6, <3>2, <3>1, MoveReaches
    <3> QED
      BY <1>0, <1>o, <1>5, <2>2, <3>1, <3>3 DEF TreeInv, R
  <2> QED
    BY <2>1, <2>2
<1>9. MovedGraph(p, n, q, m, i)' = MovedGraph(p, n, q, m, i)
  BY <1>5 DEF MovedGraph
<1>10. Moving'
  <2>1. todo' = <<setInodeMeta(q, m, i), removeInodeMeta(p, n)>>
    BY <1>i, <1>5 DEF RenameWrites
  <2>2. Leads(p, n, i)' /\ kind'[q] = "dir"
    BY <1>0, <1>2, <1>5
  <2>3. owed' \cap known' \subseteq Reach(MovedGraph(p, n, q, m, i)', {Root})
    BY <1>8, <1>9
  <2>4. Moves(p, n, q, m, i)'
    BY <1>7, <2>1, <2>2, <2>3 DEF Moves
  <2> QED
    BY <1>0, <1>2, <2>4 DEF Moving
<1>11. SoundTodo'
  <2> DEFINE a == setInodeMeta(q, m, i)
             b == removeInodeMeta(p, n)
  <2>1. a \in Writes /\ b \in Writes
    BY <1>0, <1>2, WritesAreTyped DEF Kinds
  <2>2. WillBeKnown({}, q)'
    BY <1>0, <1>5 DEF WillBeKnown
  <2>3. Sound({}, a)'
    BY <1>0, <2>2, SetSound
  <2>4. Sound({a}, b)'
    BY WriteFields, RemovalSound
  <2>5. todo' = <<a, b>>
    BY <1>i, <1>5 DEF RenameWrites
  <2> HIDE DEF a, b
  <2>6. Placed(todo') = {<<{}, a>>, <<{a}, b>>}
    BY <2>1, <2>5, TwoPlaced
  <2> SUFFICES ASSUME NEW r \in Placed(todo') PROVE Sound(r[1], r[2])'
    BY DEF SoundTodo
  <2>7. (r[1] = {} /\ r[2] = a) \/ (r[1] = {a} /\ r[2] = b)
    BY <2>6
  <2> QED
    BY <2>3, <2>4, <2>7
<1> QED
  BY <1>5, <1>10, <1>11 DEF FsckInv

\* Nothing is to be written.
LEMMA NothingToWrite ==
    ASSUME todo' = <<>>
    PROVE  SoundTodo' /\ Growing'
  BY NothingPlaced DEF SoundTodo, Growing

\* The process dies: what was to be written is not.
LEMMA CrashKeeps ==
    ASSUME FsckInv, TypeInv', Crash, Ended
    PROVE  FsckInv'
<1>1. /\ UNCHANGED <<kind, known, meta, last_inode, remote, owed>> /\ todo' = <<>>
      /\ status' = Idle /\ fscks' = fscks
  BY DEF Crash, Ended
<1>2. R' = R
  BY <1>1 DEF R, Kids, NamesIn
<1>3. TreeInv'
  BY <1>1, <1>2 DEF FsckInv, TreeInv, OrphanNamesGiven
<1>4. ~ Walking'
  BY <1>1 DEF Walking, Idle
<1> QED
  BY <1>1, <1>3, <1>4, NothingToWrite DEF FsckInv

\* The end of fsck keeps it.
LEMMA Process3Keeps ==
    ASSUME FsckInv, TypeInv', Process3
    PROVE  FsckInv'
<1>1. /\ UNCHANGED <<kind, known, meta, last_inode, remote, owed>> /\ todo' = <<>>
      /\ status' = Idle /\ fscks' = fscks
  BY DEF Process3, Turn, Ended
<1>2. R' = R
  BY <1>1 DEF R, Kids, NamesIn
<1>3. TreeInv'
  BY <1>1, <1>2 DEF FsckInv, TreeInv, OrphanNamesGiven
<1>4. ~ Walking'
  BY <1>1 DEF Walking, Idle
<1> QED
  BY <1>1, <1>3, <1>4, NothingToWrite DEF FsckInv

\* Another node's entry: a name more, of an inode that is not known yet.
LEMMA RemoteEntryKeeps ==
    ASSUME FsckInv, TypeInv', UNCHANGED fsckVars,
           NEW i \in Foreign, NEW p \in Dirs, NEW n \in Names, RemoteEntry(i, p, n)
    PROVE  FsckInv'
<1>0. /\ TypeInv /\ TreeInv /\ (Walking => WalkInv) /\ (status # Idle => fscks > 0)
      /\ p \in Inodes /\ p \in known /\ DOMAIN meta = Inodes /\ Tree /\ Tree'
      /\ {Root} \in SUBSET Inodes /\ (\A j \in Inodes : n # OrphanName[j])
  <2>1. /\ TypeInv /\ TreeInv /\ (Walking => WalkInv) /\ (status # Idle => fscks > 0)
        /\ DOMAIN meta = Inodes
    BY DEF FsckInv, TypeInv
  <2>2. Tree /\ Tree'
    BY <2>1, TypedTree, PTL
  <2> QED
    BY <2>1, <2>2, DirsAreDirs, InodesAreNumbers, NamesOfUsers
<1>1. /\ UNCHANGED <<kind, known, todo, last_inode, owed>> /\ todo' = <<>>
      /\ remote' = remote \cup {i} /\ kind[i] = "none" /\ n \notin DOMAIN meta[p]
      /\ \A d \in Inodes : d # p => meta'[d] = meta[d]
      /\ DOMAIN meta'[p] = DOMAIN meta[p] \cup {n}
      /\ \A k \in DOMAIN meta[p] : meta'[p][k] = meta[p][k]
  BY <1>0 DEF RemoteEntry, Ready
<1>2. R \subseteq R'
  <2>1. ASSUME NEW d \in Inodes, NEW c \in Kids[d] PROVE c \in Kids'[d]
    <3>1. PICK k \in Keys : Leads(d, k, c)
      BY <1>0 DEF Tree
    <3>2. Leads(d, k, c)'
      BY <1>0, <1>1, <3>1 DEF Leads, NamesIn
    <3> QED
      BY <1>0, <3>2 DEF Tree
  <2> QED
    BY <1>0, <2>1, ReachGrows DEF R, Tree
<1>3. \A j \in Inodes \ known' : DOMAIN meta'[j] = {}
  BY <1>0, <1>1 DEF TreeInv
<1>4. OrphanNamesGiven'
  <2> SUFFICES ASSUME NEW d \in Inodes, NEW j \in Inodes, kind[d] = "dir",
                      OrphanName[j] \in DOMAIN meta'[d]
               PROVE  j <= last_inode
    BY <1>1 DEF OrphanNamesGiven
  <2>1. OrphanName[j] \in DOMAIN meta[d]
    BY <1>0, <1>1
  <2> QED
    BY <1>0, <2>1 DEF TreeInv, OrphanNamesGiven
<1>5. TreeInv'
  <2>1. \A j \in remote' : kind'[j] = "none"
    BY <1>0, <1>1 DEF TreeInv
  <2> QED
    BY <1>0, <1>1, <1>2, <1>3, <1>4, <2>1 DEF TreeInv, fsckVars
<1>6. (Walking => WalkInv)'
  <2> SUFFICES ASSUME Walking' PROVE WalkInv'
    OBVIOUS
  <2>1. WalkInv /\ UNCHANGED <<fsck_ino, fsck_ino_max, known_inodes>> /\ fsck_ino \in Inodes
    BY <1>0 DEF Walking, fsckVars, TypeInv, FsckTypes
  <2>2. \A j \in Inodes : OrphanName[j] \notin DOMAIN meta'[fsck_ino]
    BY <1>0, <1>1, <2>1 DEF WalkInv
  <2> QED
    BY <1>1, <2>1, <2>2 DEF WalkInv
<1>7. (status # Idle => fscks > 0)'
  BY <1>0 DEF fsckVars
<1> QED
  BY <1>1, <1>5, <1>6, <1>7, NothingToWrite DEF FsckInv

\* ... and its inode, a file without any key.
LEMMA RemoteInodeKeeps ==
    ASSUME FsckInv, TypeInv', UNCHANGED fsckVars, NEW i \in remote, RemoteInode(i)
    PROVE  FsckInv'
<1>0. /\ TypeInv /\ TreeInv /\ (Walking => WalkInv) /\ (status # Idle => fscks > 0)
      /\ kind[i] = "none" /\ i \in Inodes /\ kind \in [Inodes -> Kinds]
      /\ owed \subseteq Inodes /\ known \subseteq Inodes /\ Tree
  <2>1. /\ TypeInv /\ TreeInv /\ (Walking => WalkInv) /\ (status # Idle => fscks > 0)
        /\ i \in Foreign
    BY DEF FsckInv, TypeInv, FsckTypes, TypeOK
  <2> QED
    BY <2>1, TypedTree, NamespaceAssumption DEF TreeInv, TypeInv, FsckTypes, TypeOK
<1>1. /\ UNCHANGED <<meta, todo, last_inode>> /\ todo' = <<>>
      /\ remote' = remote \ {i} /\ known' = known \cup {i}
      /\ kind' = [kind EXCEPT ![i] = "file"] /\ owed' = owed \cup ({i} \cap R)
  BY <1>0 DEF RemoteInode, Tree
<1>2. /\ kind'[i] = "file" /\ (\A j \in Inodes : j # i => kind'[j] = kind[j])
      /\ \A j \in Inodes : kind'[j] = "dir" <=> kind[j] = "dir"
  BY <1>0, <1>1
<1>3. R' = R
  <2>1. \A d \in Inodes : \A k, c : Leads(d, k, c)' <=> Leads(d, k, c)
    BY <1>1, <1>2 DEF Leads, NamesIn
  <2> QED
    BY <1>0, <2>1, SameLeads
<1>4. i \notin owed
  BY <1>0 DEF TreeInv
<1>5. \A j \in owed' : kind'[j] # "none"
  BY <1>0, <1>1, <1>2 DEF TreeInv
<1>6. \A j \in remote' : kind'[j] = "none"
  <2>1. remote \subseteq Inodes
    BY <1>0, NamespaceAssumption DEF TypeInv, FsckTypes, TypeOK
  <2> QED
    BY <1>0, <1>1, <1>2, <2>1 DEF TreeInv
<1>7. TreeInv'
  <2>1. OrphanNamesGiven'
    BY <1>0, <1>1, <1>2 DEF TreeInv, OrphanNamesGiven
  <2>2. owed' \cap known' \subseteq R' /\ (owed' \ known' # {} => fscks' > 0)
    BY <1>0, <1>1, <1>3, <1>4 DEF TreeInv, fsckVars
  <2> QED
    BY <1>0, <1>1, <1>5, <1>6, <2>1, <2>2 DEF TreeInv
<1>8. (Walking => WalkInv)'
  <2> SUFFICES ASSUME Walking' PROVE WalkInv'
    OBVIOUS
  <2>1. WalkInv /\ UNCHANGED <<fsck_ino, fsck_ino_max, known_inodes>>
    BY <1>0 DEF Walking, fsckVars
  <2> QED
    BY <1>1, <2>1 DEF WalkInv
<1>9. (status # Idle => fscks > 0)'
  BY <1>0 DEF fsckVars
<1> QED
  BY <1>1, <1>7, <1>8, <1>9, NothingToWrite DEF FsckInv

\* The tree in the beginning: all that is known is in it.
LEMMA InitKeeps == FsckInit => FsckInv
<1> SUFFICES ASSUME FsckInit PROVE FsckInv
  OBVIOUS
<1>1. TypeInv /\ Tree
  BY InitTyped, TypedTree
<1>2. /\ kind = InitKind /\ meta = InitMeta /\ known = {i \in Inodes : kind[i] # "none"}
      /\ owed = known /\ todo = <<>> /\ (\A i \in known : i <= last_inode) /\ last_inode \in known
      /\ status = Idle /\ remote = {}
  BY DEF FsckInit, Init
<1>3. \A i \in Inodes : kind[i] # "none" => i \in R
  <2>1. PICK T \in SUBSET Inodes : T = R
    BY <1>1 DEF Tree
  <2>2. Root \in T
    BY <1>1, <2>1 DEF Tree
  <2>3. \A d \in T : InitKind[d] = "dir" => \A k \in DOMAIN InitMeta[d] \ Dots : InitMeta[d][k] \in T
    <3> SUFFICES ASSUME NEW d \in T, InitKind[d] = "dir", NEW k \in DOMAIN InitMeta[d] \ Dots
                 PROVE  InitMeta[d][k] \in T
      OBVIOUS
    <3>1. PICK i : i = InitMeta[d][k]
      OBVIOUS
    <3>2. Leads(d, k, i)
      BY <1>2, <3>1 DEF Leads, NamesIn
    <3> QED
      BY <1>1, <2>1, <3>1, <3>2 DEF Tree, Closed
  <2>4. \A i \in Inodes : InitKind[i] # "none" => i \in T
    BY <2>2, <2>3, TreeAssumption
  <2> QED
    BY <1>2, <2>1, <2>4
<1>4. Root \in known /\ owed \subseteq R /\ owed \ known = {} /\ \A i \in owed : kind[i] # "none"
  BY <1>1, <1>2, <1>3, InodesAreNumbers DEF TypeInv
<1>5. \A i \in Inodes \ known : DOMAIN meta[i] = {}
  BY <1>1, <1>2 DEF Tree
<1>6. OrphanNamesGiven
  <2> SUFFICES ASSUME NEW d \in Inodes, NEW i \in Inodes, kind[d] = "dir", OrphanName[i] \in DOMAIN meta[d]
               PROVE  i <= last_inode
    BY DEF OrphanNamesGiven
  <2>1. PICK j \in Inodes : i <= j /\ InitKind[j] # "none"
    BY <1>2, NamesAssumption
  <2>2. j <= last_inode /\ last_inode \in Inodes
    BY <1>2, <2>1
  <2> QED
    BY <2>1, <2>2, InodesAreNumbers
<1>7. ~ Walking
  BY <1>2 DEF Walking, Idle
<1>8. SoundTodo /\ Growing
  BY <1>2, NothingPlaced DEF SoundTodo, Growing
<1> QED
  BY <1>1, <1>2, <1>4, <1>5, <1>6, <1>7, <1>8 DEF FsckInv, TreeInv

-----------------------------------------------------------------------------
(***************************************************************************)
(* fsck keeps the invariant.                                               *)
(***************************************************************************)
\* process_1 removes names of inodes nobody knows.
LEMMA Process1Keeps ==
    ASSUME FsckInv, TypeInv', Process1
    PROVE  FsckInv'
<1>0. /\ TypeInv /\ TreeInv /\ (Walking => WalkInv) /\ (status # Idle => fscks > 0) /\ Tree
      /\ owed \subseteq owed
  <2>1. TypeInv
    BY DEF FsckInv
  <2> QED
    BY <2>1, TypedTree DEF FsckInv
<1>1. /\ todo = <<>>
      /\ Elements(todo') =
            {removeInodeMeta(scan_inode, n) :
                n \in {k \in ScanKeys : meta[scan_inode][k] \notin known}}
      /\ UNCHANGED <<kind, known, meta, remote, owed>>
      /\ UNCHANGED <<last_inode, fsck_ino, fsck_ino_max, fscks>>
      /\ known_inodes \subseteq known_inodes'
      /\ status' = status \/ status' = status + 1
      /\ status \in {1, 3}
  BY <1>0, Process1Does DEF Process1
<1>2. last_inode' >= last_inode /\ fscks' >= fscks
  <2>1. last_inode \in Inodes /\ fscks \in 0 .. MaxFscks
    BY <1>0 DEF TypeInv, FsckTypes, TypeOK
  <2> QED
    BY <1>1, <2>1, InodesAreNumbers, FsckAssumption
<1>3. /\ TreeInv' /\ Kids' = Kids /\ R' = R
      /\ \A d, n, i : Leads(d, n, i)' <=> Leads(d, n, i)
  BY <1>0, <1>1, <1>2, SameTree
<1>4. (Walking => WalkInv)'
  <2>1. Walking' => Walking
    BY <1>1 DEF Walking
  <2> QED
    BY <1>0, <1>1, <1>2, <2>1, SameWalk
<1>5. (status # Idle => fscks > 0)'
  BY <1>0, <1>1 DEF Idle
<1>6. ASSUME NEW w \in Elements(todo')
      PROVE  /\ w = removeInodeMeta(w.ino, w.key)
             /\ w.ino = scan_inode /\ meta[scan_inode][w.key] \notin known
  <2>1. PICK n \in {k \in ScanKeys : meta[scan_inode][k] \notin known} :
           w = removeInodeMeta(scan_inode, n)
    BY <1>1
  <2> QED
    BY <2>1, WriteFields
<1>7. \A d, k, c : Leads(d, k, c)' /\ c \in known' => ~ Removes(d, k)'
  <2> SUFFICES ASSUME NEW d, NEW k, NEW c, Leads(d, k, c), c \in known, Removes(d, k)' PROVE FALSE
    BY <1>1, <1>3
  <2>1. PICK w \in Elements(todo') : w = removeInodeMeta(d, k)
    BY DEF Removes
  <2>2. w.ino = d /\ w.key = k
    BY <2>1, WriteFields
  <2> QED
    BY <1>6, <2>2 DEF Leads
<1>8. \A d \in Inodes : \A c \in Kids[d] :
         c \in known' => \E k \in Keys : Leads(d, k, c)' /\ ~ Removes(d, k)'
  BY <1>0, <1>3, <1>7 DEF Tree
<1>9. /\ Kids \in Graphs /\ \A d \in Inodes : Kids[d] \subseteq Kids'[d]
      /\ owed' \cap known' \subseteq Reach(Kids, {Root})
  BY <1>0, <1>1, <1>3 DEF Tree, TreeInv, R
<1>10. SoundTodo' /\ Removing'
  BY <1>3, <1>6, <1>8, <1>9, RemovalsKeep
<1> QED
  BY <1>3, <1>4, <1>5, <1>10 DEF FsckInv

\* process_2 drops orphans without any key, and names others in its directory.
LEMMA Process2Keeps ==
    ASSUME FsckInv, TypeInv', Process2
    PROVE  FsckInv'
<1>0. /\ TypeInv /\ TreeInv /\ (Walking => WalkInv) /\ (status # Idle => fscks > 0) /\ Tree
      /\ owed \subseteq owed
  <2>1. TypeInv
    BY DEF FsckInv
  <2> QED
    BY <2>1, TypedTree DEF FsckInv
<1>1. /\ todo = <<>>
      /\ Elements(todo') = {destroyInode(i) : i \in Dropped}
                \cup {setInodeMeta(fsck_ino, OrphanName[i], i) : i \in Connected}
      /\ UNCHANGED <<kind, known, meta, remote, owed, last_inode, fsck_ino, fsck_ino_max, fscks>>
      /\ status = 2 /\ status' = 3
  BY <1>0, Process2Does
<1>2. /\ last_inode \in Nat /\ fscks \in Nat /\ fsck_ino \in Inodes /\ fsck_ino \in Nat
      /\ fsck_ino_max \in Nat
  <2>1. /\ last_inode \in Inodes /\ fscks \in 0 .. MaxFscks /\ fsck_ino \in Inodes
        /\ fsck_ino_max \in 0 .. MaxInode
    BY <1>0 DEF TypeInv, FsckTypes, TypeOK
  <2> QED
    BY <2>1, InodesAreNumbers, FsckAssumption
<1>3. TreeInv' /\ \A d, n, i : Leads(d, n, i)' <=> Leads(d, n, i)
  <2>1. last_inode' >= last_inode /\ fscks' >= fscks
    BY <1>1, <1>2
  <2> QED
    BY <1>0, <1>1, <2>1, SameTree
<1>4. ~ Walking' /\ fscks' > 0
  BY <1>0, <1>1 DEF Walking, Idle
<1>5. /\ fsck_ino \in known /\ Root \in known_inodes
      /\ fsck_ino_max < fsck_ino /\ fsck_ino <= last_inode
      /\ \A i \in Inodes : OrphanName[i] \notin DOMAIN meta[fsck_ino]
  BY <1>0, <1>1, NothingPlaced DEF Walking, WalkInv
<1>6. ASSUME NEW i, i \in Dropped \/ i \in Connected
      PROVE  i \in Inodes /\ i # fsck_ino /\ i # Root /\ i <= last_inode
  <2>1. i \in Inodes /\ i \notin known_inodes /\ i <= fsck_ino_max
    BY <1>6 DEF Dropped, Connected, Orphan
  <2>2. i \in Nat
    BY <2>1, InodesAreNumbers
  <2> QED
    BY <1>2, <1>5, <2>1, <2>2
<1>7. ASSUME NEW b \in Elements(todo')
      PROVE  \/ \E i \in Dropped : b = destroyInode(i)
             \/ \E i \in Connected : b = setInodeMeta(fsck_ino, OrphanName[i], i)
  BY <1>1
<1>8. ASSUME NEW i \in Dropped, NEW b \in Elements(todo'), b.ino = i PROVE b = destroyInode(i)
  <2>1. CASE \E j \in Dropped : b = destroyInode(j)
    BY <1>8, <2>1, WriteFields
  <2>2. CASE \E j \in Connected : b = setInodeMeta(fsck_ino, OrphanName[j], j)
    BY <1>6, <1>8, <2>2, WriteFields
  <2> QED
    BY <1>7, <2>1, <2>2
<1>9. SoundTodo'
  <2> SUFFICES ASSUME NEW p \in Placed(todo') PROVE Sound(p[1], p[2])'
    BY DEF SoundTodo
  <2>1. PICK s \in Seq(Writes) : s = todo'
    BY DEF TypeInv
  <2>2. PICK D, w : D = p[1] /\ w = p[2]
    OBVIOUS
  <2>3. w \in Elements(todo')
    BY <2>1, <2>2, PlacedAreElements
  <2>4. CASE \E i \in Dropped : w = destroyInode(i)
    <3>1. PICK i \in Dropped : w = destroyInode(i)
      BY <2>4
    <3>2. w.what = "destroy" /\ w.ino = i
      BY <3>1, WriteFields
    <3>3. DOMAIN meta'[i] = {}
      BY <1>1 DEF Dropped
    <3>4. \A b \in Elements(todo') : b.ino = w.ino => b = w
      BY <1>8, <3>1, <3>2
    <3>5. SoundDestroy(w)'
      BY <1>4, <1>6, <3>1, <3>2, <3>3, <3>4 DEF SoundDestroy
    <3>6. Sound(D, w)'
      BY <3>2, <3>5 DEF Sound
    <3> QED
      BY <2>2, <3>6
  <2>5. CASE \E i \in Connected : w = setInodeMeta(fsck_ino, OrphanName[i], i)
    <3>1. PICK i \in Connected : w = setInodeMeta(fsck_ino, OrphanName[i], i)
      BY <2>5
    <3>2. PICK n, d : n = OrphanName[i] /\ d = fsck_ino
      OBVIOUS
    <3>3. WillBeKnown(D, d)'
      BY <1>1, <1>5, <3>2 DEF WillBeKnown
    <3>4. i \in Inodes /\ i <= last_inode'
      BY <1>1, <1>6
    <3>5. \A j \in Inodes : OrphanName[i] = OrphanName[j] => j <= last_inode'
      BY <3>4, NamesAssumption
    <3>6. Sound(D, setInodeMeta(d, n, i))'
      BY <1>4, <3>3, <3>5, <3>2, SetSound
    <3> QED
      BY <2>2, <3>1, <3>2, <3>6
  <2> QED
    BY <1>7, <2>3, <2>4, <2>5
<1>10. Growing'
  <2>1. ASSUME NEW b \in Elements(todo')
        PROVE  /\ b.what # "remove"
               /\ IsName(b) => \E i \in Connected : b.ino = fsck_ino /\ b.key = OrphanName[i] /\ b.to = i
    <3>1. CASE \E i \in Dropped : b = destroyInode(i)
      BY <3>1, WriteFields DEF IsName
    <3>2. CASE \E i \in Connected : b = setInodeMeta(fsck_ino, OrphanName[i], i)
      BY <3>2, WriteFields
    <3> QED
      BY <1>7, <3>1, <3>2
  <2>2. ASSUME NEW b \in Elements(todo'), IsName(b), NEW i \in Inodes, Leads(b.ino, b.key, i)
        PROVE  FALSE
    <3>1. PICK j \in Connected : b.ino = fsck_ino /\ b.key = OrphanName[j]
      BY <2>1, <2>2
    <3>2. OrphanName[j] \in DOMAIN meta[fsck_ino]
      BY <2>2, <3>1 DEF Leads, NamesIn
    <3> QED
      BY <1>5, <1>6, <3>2
  <2>3. ASSUME NEW b \in Elements(todo'), IsName(b), NEW c \in Elements(todo'), IsName(c),
               c.key = b.key
        PROVE  c.to = b.to
    <3>1. PICK i \in Connected : b.key = OrphanName[i] /\ b.to = i
      BY <2>1, <2>3
    <3>2. PICK j \in Connected : c.key = OrphanName[j] /\ c.to = j
      BY <2>1, <2>3
    <3>3. i \in Inodes /\ j \in Inodes
      BY <1>6
    <3> QED
      BY <2>3, <3>1, <3>2, <3>3, NamesAssumption
  <2>4. \A b : IsName(b)' <=> IsName(b)
    BY DEF IsName
  <2> QED
    BY <1>3, <2>1, <2>2, <2>3, <2>4 DEF Growing
<1> QED
  BY <1>3, <1>4, <1>9, <1>10 DEF FsckInv

-----------------------------------------------------------------------------
\* The writes for a directory of fsck, after those in D: the directory is
\* stored before it gets its name, in one that is known.
LEMMA DirectorySound ==
    ASSUME NEW i \in Inodes, NEW p \in Inodes, NEW n \in Keys, NEW D, i \notin owed',
           WillBeKnown(D, p)',
           \A j \in Inodes : n = OrphanName[j] => j <= last_inode' /\ (Walking' => p # fsck_ino')
    PROVE  \A q \in Placed(DirectoryWrites(i, p, n)) : Sound(D \cup q[1], q[2])'
<1> DEFINE a == setInodeMeta(i, ".", i)
           b == setInodeMeta(p, n, i)
           c == setInodeMeta(i, "..", p)
           v == <<a, b, c>>
<1>1. /\ DirectoryWrites(i, p, n) = storeInode(i, "dir") \o v /\ v \in Seq(Writes)
      /\ Placed(v) = {<<{}, a>>, <<{a}, b>>, <<{a, b}, c>>}
  BY DirectoryPlaced
<1>2. \A j \in Inodes : "." # OrphanName[j] /\ ".." # OrphanName[j]
  BY NamesAssumption DEF Dots
<1>3. ASSUME NEW q \in Placed(v)
      PROVE  Sound(D \cup {DataOf(i, "dir"), Rev(i)} \cup q[1], q[2])'
  <2> DEFINE E == D \cup {DataOf(i, "dir"), Rev(i)} \cup q[1]
  <2>1. WillBeKnown(E, i)' /\ WillBeKnown(E, p)'
    BY DEF WillBeKnown
  <2> HIDE DEF E
  <2>2. Sound(E, a)'
    BY <1>2, <2>1, SetSound
  <2>3. Sound(E, b)'
    BY <2>1, SetSound
  <2>4. Sound(E, c)'
    BY <1>2, <2>1, SetSound
  <2>5. q[2] = a \/ q[2] = b \/ q[2] = c
    <3> HIDE DEF a, b, c, v
    <3> QED
      BY <1>1
  <2>6. Sound(E, q[2])'
    <3> HIDE DEF a, b, c
    <3> QED
      BY <2>2, <2>3, <2>4, <2>5
  <2> QED
    BY <2>6 DEF E
<1> HIDE DEF v
<1>4. "dir" \in Kinds
  BY DEF Kinds
<1>5. \A q \in Placed(storeInode(i, "dir") \o v) : Sound(D \cup q[1], q[2])'
  BY <1>1, <1>3, <1>4, StoreSound
<1> QED
  BY <1>1, <1>5

\* The one name among them.
LEMMA DirectoryName ==
    ASSUME NEW i \in Inodes, NEW p \in Inodes, NEW n \in Keys,
           NEW w \in Elements(DirectoryWrites(i, p, n))
    PROVE  w.what # "remove" /\ (IsName(w) => w.ino = p /\ w.key = n /\ w.to = i)
<1>1. \/ w = DataOf(i, "dir") \/ w = Rev(i) \/ w = setInodeMeta(i, ".", i)
      \/ w = setInodeMeta(p, n, i) \/ w = setInodeMeta(i, "..", p)
  BY DirectoryElements
<1>2. w = DataOf(i, "dir") \/ w = Rev(i) => w.what \in {"data", "rev"}
  BY WriteFields
<1>3. w = setInodeMeta(i, ".", i) \/ w = setInodeMeta(i, "..", p) =>
         w.what = "set" /\ w.key \in Dots
  BY WriteFields DEF Dots
<1>4. w = setInodeMeta(p, n, i) => w.what = "set" /\ w.ino = p /\ w.key = n /\ w.to = i
  BY WriteFields
<1> QED
  BY <1>1, <1>2, <1>3, <1>4 DEF IsName

\* process_0 makes its directory, and lost+found where there is none.
LEMMA Process0Keeps ==
    ASSUME FsckInv, TypeInv', Process0
    PROVE  FsckInv'
<1>0. TypeInv /\ TreeInv /\ Tree /\ owed \subseteq owed
  <2>1. TypeInv
    BY DEF FsckInv
  <2> QED
    BY <2>1, TypedTree DEF FsckInv
<1>f. PICK f : f = fsck_ino'
  OBVIOUS
<1>l. PICK l : LostFoundOf(l)
  BY DEF LostFoundOf
<1>1. /\ f \in Inodes /\ last_inode' = f /\ kind[f] = "none" /\ last_inode < f
      /\ last_inode \in Nat /\ fsck_ino_max' < f /\ f <= last_inode'
      /\ last_inode' >= last_inode /\ l \in Inodes /\ l # f /\ todo = <<>>
  BY <1>0, <1>f, <1>l, Process0Does
<1>2. /\ OrphanName[f] \in Keys /\ OrphanName[f] # "lost+found" /\ "lost+found" \in Keys
      /\ Root \in Inodes /\ (\A j \in Inodes : OrphanName[j] # "lost+found")
      /\ \A j \in Inodes : OrphanName[f] = OrphanName[j] => j = f
  BY <1>1, NamesAssumption, InodesAreNumbers
<1>3. /\ UNCHANGED <<kind, known, meta, remote, owed>>
      /\ status' = 1 /\ known_inodes' = {Root} /\ fscks' = fscks + 1
  BY DEF Process0, Turn
<1>4. fscks' >= fscks /\ fscks' > 0
  <2>1. fscks \in 0 .. MaxFscks
    BY <1>0 DEF TypeInv, FsckTypes
  <2> QED
    BY <1>3, <2>1, FsckAssumption
<1>5. TreeInv' /\ \A d, n, i : Leads(d, n, i)' <=> Leads(d, n, i)
  BY <1>0, <1>1, <1>3, <1>4, SameTree
<1>6. f \notin owed' /\ DOMAIN meta'[f] = {}
  BY <1>0, <1>1, <1>3 DEF TreeInv, Tree
<1> DEFINE t == DirectoryWrites(f, l, OrphanName[f])
           s == DirectoryWrites(l, Root, "lost+found")
<1>7. t \in Seq(Writes) /\ Rev(f) \in Elements(t)
  <2>1. PICK k \in Keys : k = OrphanName[f]
    BY <1>2
  <2>2. /\ DirectoryWrites(f, l, k) \in Seq(Writes)
        /\ Rev(f) \in Elements(DirectoryWrites(f, l, k))
    BY <1>1, DirectoryElements
  <2> QED
    BY <2>1, <2>2
<1>8. /\ s \in Seq(Writes) /\ Rev(l) \in Elements(s)
  BY <1>1, <1>2, DirectoryElements
<1>9. \A w \in Elements(t) :
         w.what # "remove" /\ (IsName(w) => w.ino = l /\ w.key = OrphanName[f] /\ w.to = f)
  BY <1>1, <1>2, DirectoryName
<1>10. \A w \in Elements(s) :
         w.what # "remove" /\ (IsName(w) => w.ino = Root /\ w.key = "lost+found" /\ w.to = l)
  BY <1>1, <1>2, DirectoryName
<1>11. ASSUME NEW D, WillBeKnown(D, l)' PROVE \A q \in Placed(t) : Sound(D \cup q[1], q[2])'
  <2>1. \A j \in Inodes : OrphanName[f] = OrphanName[j] => j <= last_inode' /\ (Walking' => l # fsck_ino')
    BY <1>f, <1>1, <1>2
  <2>2. PICK n \in Keys : n = OrphanName[f]
    BY <1>2
  <2>3. \A q \in Placed(DirectoryWrites(f, l, n)) : Sound(D \cup q[1], q[2])'
    BY <1>1, <1>6, <1>11, <2>1, <2>2, DirectorySound
  <2> QED
    BY <2>2, <2>3
<1> HIDE DEF t, s
<1>12. Rev(f) \in Elements(todo') /\ SoundTodo' /\ Growing'
  <2>1. CASE "lost+found" \in DOMAIN meta[Root]
    <3>1. l = meta[Root]["lost+found"] /\ kind[l] = "dir" /\ todo' = t /\ l \in known
      <4>1. l = meta[Root]["lost+found"] /\ kind[l] = "dir" /\ Turn(t)
        BY <1>0, <1>f, <1>l, <2>1, Process0Does DEF t
      <4> QED
        BY <2>1, <4>1 DEF Turn, Process0
    <3>2. WillBeKnown({}, l)'
      BY <1>3, <3>1 DEF WillBeKnown
    <3>3. \A q \in Placed(t) : Sound({} \cup q[1], q[2])'
      BY <1>11, <3>2
    <3>4. ASSUME NEW q \in Placed(t) PROVE Sound(q[1], q[2])'
      <4>1. {} \cup q[1] = q[1]
        OBVIOUS
      <4> QED
        BY <3>3, <4>1
    <3>5. OrphanName[f] \notin DOMAIN meta'[l]
      <4>1. ~ (f <= last_inode)
        BY <1>1, InodesAreNumbers
      <4>2. kind[l] = "dir" /\ OrphanName[f] \in DOMAIN meta[l] => f <= last_inode
        BY <1>0, <1>1 DEF TreeInv, OrphanNamesGiven
      <4> QED
        BY <1>3, <3>1, <4>1, <4>2
    <3>6. PICK n : n = OrphanName[f]
      OBVIOUS
    <3>7. n \notin DOMAIN meta'[l] /\ \A w \in Elements(todo') :
             w.what # "remove" /\ (IsName(w) => w.ino = l /\ w.key = n /\ w.to = f)
      BY <1>9, <3>1, <3>5, <3>6
    <3>8. Growing'
      BY <3>7, OneNameGrows
    <3> QED
      BY <1>7, <3>1, <3>4, <3>8 DEF SoundTodo
  <2>2. CASE "lost+found" \notin DOMAIN meta[Root]
    <3>1. kind[l] = "none" /\ todo' = s \o t
      <4>1. kind[l] = "none" /\ Turn(s \o t)
        BY <1>0, <1>f, <1>l, <2>2, Process0Does DEF s, t
      <4> QED
        BY <4>1 DEF Turn
    <3>2. /\ Elements(todo') = Elements(s) \cup Elements(t)
          /\ Placed(todo') = Placed(s) \cup After(Elements(s), Placed(t))
      BY <1>7, <1>8, <3>1, PlacedConcat
    <3>3. \A q \in Placed(s) : Sound({} \cup q[1], q[2])'
      <4>1. WillBeKnown({}, Root)'
        BY <1>0, <1>3 DEF WillBeKnown, TreeInv
      <4>2. l \notin owed'
        BY <1>0, <1>3, <3>1 DEF TreeInv
      <4> QED
        BY <1>1, <1>2, <4>1, <4>2, DirectorySound DEF s
    <3>4. \A q \in Placed(t) : Sound(Elements(s) \cup q[1], q[2])'
      <4>1. PICK D : D = Elements(s)
        OBVIOUS
      <4>2. WillBeKnown(D, l)'
        BY <1>8, <4>1 DEF WillBeKnown
      <4>3. \A q \in Placed(t) : Sound(D \cup q[1], q[2])'
        BY <1>11, <4>2
      <4> QED
        BY <4>1, <4>3
    <3>5. ASSUME NEW q \in Placed(todo') PROVE Sound(q[1], q[2])'
      <4>1. CASE q \in Placed(s)
        <5>1. {} \cup q[1] = q[1]
          OBVIOUS
        <5> QED
          BY <3>3, <4>1, <5>1
      <4>2. CASE q \in After(Elements(s), Placed(t))
        <5>1. PICK r \in Placed(t) : q = <<Elements(s) \cup r[1], r[2]>>
          BY <4>2 DEF After
        <5>2. q[1] = Elements(s) \cup r[1] /\ q[2] = r[2]
          BY <5>1
        <5> QED
          BY <3>4, <5>2
      <4> QED
        BY <3>2, <4>1, <4>2
    <3>6. /\ \A i : ~ Leads(l, OrphanName[f], i)
          /\ \A i : ~ Leads(Root, "lost+found", i)
      BY <2>2, <3>1 DEF Leads, NamesIn
    <3>7. ASSUME NEW b \in Elements(todo')
          PROVE  /\ b.what # "remove"
                 /\ IsName(b) => \/ b.ino = l /\ b.key = OrphanName[f] /\ b.to = f
                                 \/ b.ino = Root /\ b.key = "lost+found" /\ b.to = l
      BY <1>9, <1>10, <3>2
    <3>8. \A b : IsName(b)' <=> IsName(b)
      BY DEF IsName
    <3>9. Growing'
      <4>1. ASSUME NEW b \in Elements(todo'), IsName(b), NEW i \in Inodes, Leads(b.ino, b.key, i)
            PROVE  FALSE
        BY <3>6, <3>7, <4>1
      <4>2. ASSUME NEW b \in Elements(todo'), IsName(b), NEW c \in Elements(todo'), IsName(c),
                   c.key = b.key
            PROVE  c.to = b.to
        BY <1>2, <3>7, <4>2
      <4> QED
        BY <1>5, <3>7, <3>8, <4>1, <4>2 DEF Growing
    <3> QED
      BY <1>7, <3>2, <3>5, <3>9 DEF SoundTodo
  <2> QED
    BY <2>1, <2>2
<1>13. WalkInv'
  BY <1>f, <1>1, <1>3, <1>6, <1>12 DEF WalkInv
<1> QED
  BY <1>4, <1>5, <1>12, <1>13 DEF FsckInv

\* Where nothing changes, the invariant stays.
LEMMA StutterKeeps ==
    ASSUME FsckInv, TypeInv', UNCHANGED allVars
    PROVE  FsckInv'
<1>0. /\ UNCHANGED <<kind, known, meta, remote, crashes, owed, requests, last_inode, todo>>
      /\ UNCHANGED <<status, scan_inode, scan_inode_queue, known_inodes, fsck_ino, fsck_ino_max, fscks>>
  BY DEF allVars, vars, fsckVars
<1>1. Kids' = Kids /\ (Walking' <=> Walking)
  BY <1>0 DEF Kids, NamesIn, Walking
<1>2. R' = R
  BY <1>1 DEF R
<1>3. /\ \A d, n, i : Leads(d, n, i)' <=> Leads(d, n, i)
      /\ \A d, n : Removes(d, n)' <=> Removes(d, n)
      /\ \A b : IsName(b)' <=> IsName(b)
  BY <1>0 DEF Leads, NamesIn, Removes, IsName
<1>4. TreeInv'
  BY <1>0, <1>2 DEF FsckInv, TreeInv, OrphanNamesGiven
<1>5. (Walking => WalkInv)'
  BY <1>0, <1>1 DEF FsckInv, WalkInv
<1>6. (status # Idle => fscks > 0)'
  BY <1>0 DEF FsckInv
<1>7. SoundTodo'
  <2>1. \A D, w : Sound(D, w) => Sound(D, w)'
    <3>1. \A D, w : WillBeKnown(D, w.ino)' <=> WillBeKnown(D, w.ino)
      BY <1>0 DEF WillBeKnown
    <3>2. \A b, i : GivesName(b, i)' <=> GivesName(b, i)
      BY <1>0, <1>2, <1>3 DEF GivesName
    <3>3. \A w : SoundName(w)' <=> SoundName(w)
      BY <1>0, <1>1 DEF SoundName
    <3>4. \A D, w : SoundSet(D, w) => SoundSet(D, w)'
      BY <1>3, <3>1, <3>3 DEF SoundSet
    <3>5. \A D, w : SoundGrant(D, w) => SoundGrant(D, w)'
      BY <1>2, <3>1, <3>2 DEF SoundGrant
    <3>6. \A w : SoundDestroy(w) => SoundDestroy(w)'
      BY <1>0, <1>1 DEF SoundDestroy
    <3>7. \A w : SoundRev(w) => SoundRev(w)'
      BY <1>0 DEF SoundRev
    <3> QED
      BY <3>4, <3>5, <3>6, <3>7 DEF Sound
  <2> QED
    BY <1>0, <2>1 DEF FsckInv, SoundTodo
<1>8. CASE Growing
  <2>1. Growing'
    BY <1>0, <1>3, <1>8 DEF Growing
  <2> QED
    BY <1>4, <1>5, <1>6, <1>7, <2>1 DEF FsckInv
<1>9. CASE Removing
  <2>1. Left' = Left
    BY <1>3 DEF Left
  <2>2. Removing'
    BY <1>0, <1>9, <2>1 DEF Removing
  <2> QED
    BY <1>4, <1>5, <1>6, <1>7, <2>2 DEF FsckInv
<1>10. CASE Moving
  <2>1. PICK p, q, i \in Inodes : \E n \in Keys, m \in Names : Moves(p, n, q, m, i)
    BY <1>10 DEF Moving
  <2>2. PICK n \in Keys, m \in Names : Moves(p, n, q, m, i)
    BY <2>1
  <2>3. MovedGraph(p, n, q, m, i)' = MovedGraph(p, n, q, m, i)
    BY <1>3 DEF MovedGraph
  <2>4. Moves(p, n, q, m, i)'
    BY <1>0, <1>3, <2>2, <2>3 DEF Moves
  <2>5. Moving'
    BY <2>4 DEF Moving
  <2> QED
    BY <1>4, <1>5, <1>6, <1>7, <2>5 DEF FsckInv
<1> QED
  BY <1>8, <1>9, <1>10 DEF FsckInv

-----------------------------------------------------------------------------
\* Every step keeps the invariant, whatever moves while fsck walks.
LEMMA NextKeeps == FsckInv /\ [FsckNext]_allVars => FsckInv'
<1> SUFFICES ASSUME FsckInv, [FsckNext]_allVars PROVE FsckInv'
  OBVIOUS
<1>0. TypeInv'
  BY NextTyped DEF FsckInv
<1>1. CASE PlainRequest /\ UNCHANGED fsckVars
  <2>1. ASSUME NEW p \in Dirs, NEW n \in Names, Create(p, n) PROVE FsckInv'
    BY <1>0, <1>1, <2>1, CreateNewKeeps, TruncateKeeps DEF PlainRequest
  <2>2. ASSUME NEW p \in Dirs, NEW n \in Names, Mkdir(p, n) \/ Symlink(p, n) PROVE FsckInv'
    BY <1>0, <1>1, <2>2, MkdirKeeps, SymlinkKeeps DEF PlainRequest
  <2>3. ASSUME NEW p \in Dirs, NEW n \in NamesIn(p), Lookup(p, n) \/ Unlink(p, n) \/ Rmdir(p, n)
        PROVE  FsckInv'
    BY <1>0, <1>1, <2>3, LookupKeeps, RemovalKeeps DEF PlainRequest
  <2>4. ASSUME NEW i \in Reachable, FirstWrite(i) PROVE FsckInv'
    BY <1>0, <1>1, <2>4, FirstWriteKeeps DEF PlainRequest
  <2> QED
    BY <1>1, <2>1, <2>2, <2>3, <2>4 DEF PlainRequest
<1>2. CASE Write /\ UNCHANGED fsckVars
  BY <1>0, <1>2, WriteKeeps
<1>3. CASE MovingRequest /\ UNCHANGED fsckVars
  BY <1>0, <1>3, LinkKeeps, RenameKeeps DEF MovingRequest
<1>4. CASE Arrival /\ UNCHANGED fsckVars
  BY <1>0, <1>4, RemoteEntryKeeps, RemoteInodeKeeps DEF Arrival
<1>5. CASE Process0 \/ Process1 \/ Process2 \/ Process3
  BY <1>0, <1>5, Process0Keeps, Process1Keeps, Process2Keeps, Process3Keeps
<1>6. CASE Crash /\ Ended
  BY <1>0, <1>6, CrashKeeps
<1>7. CASE UNCHANGED allVars
  BY <1>0, <1>7, StutterKeeps
<1> QED
  BY <1>1, <1>2, <1>3, <1>4, <1>5, <1>6, <1>7 DEF FsckNext

\* The inductive invariant holds in every state.
LEMMA FsckInvHolds == FsckSpec => []FsckInv
  BY InitKeeps, NextKeeps, PTL DEF FsckSpec

(***************************************************************************)
(* What was created and answered, and neither removed nor replaced, can be *)
(* reached from the root and is known, or is an inode without any key that *)
(* process_2 destroyed: after every write of every handler, whatever is    *)
(* moved or linked, or arrives, while fsck walks, and wherever the process *)
(* dies.  That is the order of the writes in create, mkdir, symlink,       *)
(* rename, rmdir, process_0 and process_2.                                 *)
(***************************************************************************)
THEOREM NothingLost == FsckSpec => []NothingIsLost
<1>1. FsckInv => NothingIsLost
  <2> SUFFICES ASSUME FsckInv, NEW i \in owed
               PROVE  \/ i \in Reachable \cap known
                      \/ fscks > 0 /\ i \notin known /\ DOMAIN meta[i] = {}
    BY DEF NothingIsLost
  <2>1. TypeInv /\ TreeInv /\ Tree
    BY TypedTree DEF FsckInv
  <2>2. i \in Inodes
    BY <2>1 DEF TypeInv, FsckTypes, TypeOK
  <2> QED
    BY <2>1, <2>2 DEF TreeInv, Tree
<1> QED
  BY <1>1, FsckInvHolds, PTL

-----------------------------------------------------------------------------
(***************************************************************************)
(* What a request writes: it stores nothing but a new inode, and the only  *)
(* inode to which it gives a name is that one, or the one it links or      *)
(* moves.                                                                  *)
(***************************************************************************)
GivesOnly(p, n, i) ==
    \A w \in Elements(todo') : /\ w.what = "rev" => w.ino = i
                               /\ IsName(w) => w.ino = p /\ w.key = n /\ w.to = i

\* create, mkdir and symlink store one inode and give it a name.
LEMMA StoresOne ==
    ASSUME NEW i \in Inodes, NEW k \in Kinds, NEW v \in Seq(Writes), NEW p, NEW n,
           todo' = storeInode(i, k) \o v,
           \A w \in Elements(v) : /\ w.what # "rev"
                                  /\ IsName(w) => w.ino = p /\ w.key = n /\ w.to = i
    PROVE  GivesOnly(p, n, i)
<1>1. Elements(todo') = {DataOf(i, k), Rev(i)} \cup Elements(v)
  BY StorePlaced
<1>2. DataOf(i, k).what = "data" /\ Rev(i).what = "rev" /\ Rev(i).ino = i
  BY WriteFields
<1> QED
  BY <1>1, <1>2 DEF GivesOnly, IsName

\* What removes or fills gives no name.
LEMMA GivesNone ==
    ASSUME \A w \in Elements(todo') : w.what = "remove" \/ w = setInodeMeta(w.ino, w.key, NoInode)
    PROVE  \A w \in Elements(todo') : w.what # "rev" /\ ~ IsName(w)
<1>1. \A i, k : LET w == setInodeMeta(i, k, NoInode) IN w.what = "set" /\ w.to = NoInode
  BY WriteFields
<1> QED
  BY <1>1 DEF IsName

\* A request that moves nothing names nothing, or a new inode.
LEMMA PlainWrites ==
    ASSUME TypeInv, PlainRequest, UNCHANGED fsckVars
    PROVE  /\ todo = <<>> /\ UNCHANGED <<kind, known, meta, remote, crashes>>
           /\ last_inode' \in Inodes /\ last_inode' >= last_inode
           /\ \/ \A w \in Elements(todo') : w.what # "rev" /\ ~ IsName(w)
              \/ NewInode /\ \E p, n : GivesOnly(p, n, last_inode')
<1> DEFINE Goal ==
        /\ todo = <<>> /\ UNCHANGED <<kind, known, meta, remote, crashes>>
        /\ last_inode' \in Inodes /\ last_inode' >= last_inode
        /\ \/ \A w \in Elements(todo') : w.what # "rev" /\ ~ IsName(w)
           \/ NewInode /\ \E p, n : GivesOnly(p, n, last_inode')
<1>0. todo = <<>> /\ last_inode \in Inodes /\ last_inode \in Nat
  BY InodesAreNumbers DEF PlainRequest, Ready, TypeInv, FsckTypes, TypeOK
<1>i. PICK i : i = last_inode'
  OBVIOUS
<1>s. ASSUME NEW writes, NEW owed_then, Handle(writes, owed_then)
      PROVE  todo' = writes /\ UNCHANGED <<kind, known, meta, remote, crashes>>
  BY <1>s DEF Handle
<1>n. ASSUME NewInode, UNCHANGED kind
      PROVE  i \in Inodes /\ i >= last_inode
  <2>1. i \in Inodes /\ i > last_inode
    BY <1>i, <1>n, NewInodeFresh
  <2> QED
    BY <1>0, <2>1, InodesAreNumbers
<1>o. UNCHANGED last_inode => last_inode' \in Inodes /\ last_inode' >= last_inode
  BY <1>0
<1>1. ASSUME NEW p \in Dirs, NEW n \in Names, Create(p, n), n \notin DOMAIN meta[p]
      PROVE  Goal
  <2> DEFINE a == setInodeMeta(p, n, i)
             v == <<a, Grant(i)>>
  <2>1. NewInode /\ Handle(storeInode(i, "file") \o v, owed)
    BY <1>i, <1>1 DEF Create
  <2>2. i \in Inodes /\ i >= last_inode
    BY <1>n, <1>s, <2>1
  <2>3. v \in Seq(Writes) /\ Elements(v) = {a, Grant(i)}
    <3>1. p \in Inodes /\ n \in WriteKeys
      BY DirsAreDirs, NamesOfUsers
    <3>2. a \in Writes /\ Grant(i) \in Writes
      BY <2>2, <3>1, WritesAreTyped DEF Kinds
    <3> QED
      BY <3>2, TwoPlaced
  <2>4. \A w \in Elements(v) : /\ w.what # "rev"
                               /\ IsName(w) => w.ino = p /\ w.key = n /\ w.to = i
    BY <2>3, WriteFields DEF IsName
  <2> HIDE DEF v
  <2>5. GivesOnly(p, n, i)
    <3>1. todo' = storeInode(i, "file") \o v /\ "file" \in Kinds
      BY <1>s, <2>1 DEF Kinds
    <3> QED
      BY <2>2, <2>3, <2>4, <3>1, StoresOne
  <2> QED
    BY <1>0, <1>i, <1>s, <2>1, <2>2, <2>5
<1>2. ASSUME NEW p \in Dirs, NEW n \in Names, Create(p, n), n \in DOMAIN meta[p]
      PROVE  Goal
  <2>1. Handle(clearInodeMeta(meta[p][n]), owed) /\ UNCHANGED last_inode
    BY <1>2 DEF Create
  <2>2. meta[p][n] \in Inodes
    <3>1. n \in NamesIn(p) /\ p \in Inodes /\ kind[p] = "dir"
      BY <1>2, NamesOfUsers, DirsAreDirs DEF NamesIn
    <3> QED
      BY <3>1, EntryLeads
  <2>3. todo' = clearInodeMeta(meta[p][n])
    BY <1>s, <2>1
  <2>4. \A w \in Elements(todo') : w.what = "remove"
    BY <2>2, <2>3, ClearRemoves, WriteFields
  <2> QED
    BY <1>0, <1>o, <1>s, <2>1, <2>4, GivesNone
<1>3. ASSUME NEW p \in Dirs, NEW n \in Names, Mkdir(p, n)
      PROVE  Goal
  <2> DEFINE a == setInodeMeta(i, ".", i)
             b == setInodeMeta(p, n, i)
             c == setInodeMeta(i, "..", p)
             v == <<a, b, c, Grant(i)>>
  <2>1. NewInode /\ Handle(storeInode(i, "dir") \o v, owed)
    BY <1>i, <1>3 DEF Mkdir, MkdirWrites
  <2>2. i \in Inodes /\ i >= last_inode
    BY <1>n, <1>s, <2>1
  <2>3. v \in Seq(Writes) /\ Elements(v) = {a, b, c, Grant(i)}
    <3>1. n \in WriteKeys /\ "." \in WriteKeys /\ ".." \in WriteKeys /\ p \in Inodes
      BY NamesOfUsers, KeysAreWriteKeys, DirsAreDirs DEF Dots
    <3>2. a \in Writes /\ b \in Writes /\ c \in Writes /\ Grant(i) \in Writes
      BY <2>2, <3>1, WritesAreTyped DEF Kinds
    <3> QED
      BY <3>2, FourPlaced
  <2>4. \A w \in Elements(v) : /\ w.what # "rev"
                               /\ IsName(w) => w.ino = p /\ w.key = n /\ w.to = i
    <3>1. a.what = "set" /\ a.key \in Dots /\ c.what = "set" /\ c.key \in Dots
      BY WriteFields DEF Dots
    <3>2. b.what = "set" /\ b.ino = p /\ b.key = n /\ b.to = i /\ Grant(i).what = "grant"
      BY WriteFields
    <3> HIDE DEF a, b, c, v
    <3> QED
      BY <2>3, <3>1, <3>2 DEF IsName
  <2> HIDE DEF v
  <2>5. GivesOnly(p, n, i)
    <3>1. todo' = storeInode(i, "dir") \o v /\ "dir" \in Kinds
      BY <1>s, <2>1 DEF Kinds
    <3> QED
      BY <2>2, <2>3, <2>4, <3>1, StoresOne
  <2> QED
    BY <1>0, <1>i, <1>s, <2>1, <2>2, <2>5
<1>4. ASSUME NEW p \in Dirs, NEW n \in Names, Symlink(p, n)
      PROVE  Goal
  <2> DEFINE a == setInodeMeta(i, "target", NoInode)
             b == setInodeMeta(p, n, i)
             v == <<a, b, Grant(i)>>
  <2>1. NewInode /\ Handle(storeInode(i, "link") \o v, owed)
    BY <1>i, <1>4 DEF Symlink
  <2>2. i \in Inodes /\ i >= last_inode
    BY <1>n, <1>s, <2>1
  <2>3. v \in Seq(Writes) /\ Elements(v) = {a, b, Grant(i)}
    <3>1. n \in WriteKeys /\ "target" \in WriteKeys /\ p \in Inodes
      BY NamesOfUsers, DirsAreDirs DEF WriteKeys
    <3>2. a \in Writes /\ b \in Writes /\ Grant(i) \in Writes
      BY <2>2, <3>1, WritesAreTyped DEF Kinds
    <3> QED
      BY <3>2, ThreePlaced
  <2>4. \A w \in Elements(v) : /\ w.what # "rev"
                               /\ IsName(w) => w.ino = p /\ w.key = n /\ w.to = i
    <3>1. a.what = "set" /\ a.to = NoInode
      BY WriteFields
    <3>2. b.what = "set" /\ b.ino = p /\ b.key = n /\ b.to = i /\ Grant(i).what = "grant"
      BY WriteFields
    <3> HIDE DEF a, b, v
    <3> QED
      BY <2>3, <3>1, <3>2 DEF IsName
  <2> HIDE DEF v
  <2>5. GivesOnly(p, n, i)
    <3>1. todo' = storeInode(i, "link") \o v /\ "link" \in Kinds
      BY <1>s, <2>1 DEF Kinds
    <3> QED
      BY <2>2, <2>3, <2>4, <3>1, StoresOne
  <2> QED
    BY <1>0, <1>i, <1>s, <2>1, <2>2, <2>5
<1>5. ASSUME NEW p \in Dirs, NEW n \in NamesIn(p), Lookup(p, n) \/ Unlink(p, n)
      PROVE  Goal
  <2> DEFINE r == removeInodeMeta(p, n)
  <2>1. PICK owed_then : Handle(<<r>>, owed_then) /\ UNCHANGED last_inode
    BY <1>5 DEF Lookup, Unlink
  <2>2. todo' = <<r>> /\ r.what = "remove"
    BY <1>s, <2>1, WriteFields
  <2> HIDE DEF r
  <2>3. \A w \in Elements(todo') : w.what = "remove"
    BY <2>2, OnePlaced
  <2> QED
    BY <1>0, <1>o, <1>s, <2>1, <2>3, GivesNone
<1>6. ASSUME NEW p \in Dirs, NEW n \in NamesIn(p), Rmdir(p, n)
      PROVE  Goal
  <2> DEFINE r == removeInodeMeta(p, n)
             d == meta[p][n]
  <2>1. Handle(<<r>> \o clearInodeMeta(d), Without(p, n)) /\ UNCHANGED last_inode
    BY <1>6 DEF Rmdir
  <2>2. d \in Inodes /\ n \in Keys /\ p \in Inodes
    BY DirsAreDirs, EntryLeads
  <2>3. todo' = <<r>> \o clearInodeMeta(d) /\ r.what = "remove" /\ r \in Writes
    <3>1. n \in WriteKeys
      BY <2>2, KeysAreWriteKeys
    <3>2. r \in Writes
      BY <2>2, <3>1, WritesAreTyped DEF Kinds
    <3>3. r.what = "remove"
      BY WriteFields
    <3>4. todo' = <<r>> \o clearInodeMeta(d)
      <4> HIDE DEF r, d
      <4> QED
        BY <1>s, <2>1
    <3> QED
      BY <3>2, <3>3, <3>4
  <2>4. \A w \in Elements(clearInodeMeta(d)) : w.what = "remove"
    BY <2>2, ClearRemoves, WriteFields
  <2>5. clearInodeMeta(d) \in Seq(Writes)
    BY <2>2, ClearRemoves
  <2> HIDE DEF r, d
  <2>6. <<r>> \in Seq(Writes) /\ Elements(<<r>>) = {r}
    BY <2>3, OnePlaced
  <2>7. Elements(todo') = {r} \cup Elements(clearInodeMeta(d))
    <3>1. PICK s, t : s = <<r>> /\ t = clearInodeMeta(d)
      OBVIOUS
    <3>2. s \in Seq(Writes) /\ t \in Seq(Writes)
      BY <2>5, <2>6, <3>1
    <3>3. Elements(s \o t) = Elements(s) \cup Elements(t)
      BY <3>2, PlacedConcat
    <3>4. Elements(s) = {r} /\ Elements(t) = Elements(clearInodeMeta(d))
      BY <2>6, <3>1
    <3>5. todo' = s \o t
      BY <2>3, <3>1
    <3> QED
      BY <3>3, <3>4, <3>5
  <2>8. \A w \in Elements(todo') : w.what = "remove"
    BY <2>3, <2>4, <2>7
  <2> QED
    BY <1>0, <1>o, <1>s, <2>1, <2>8, GivesNone
<1>7. ASSUME NEW f \in Reachable, FirstWrite(f)
      PROVE  Goal
  <2> DEFINE a == setInodeMeta(f, "block", NoInode)
  <2>1. Handle(<<a>>, owed) /\ UNCHANGED last_inode
    BY <1>7 DEF FirstWrite
  <2>2. todo' = <<a>> /\ a = setInodeMeta(a.ino, a.key, NoInode)
    BY <1>s, <2>1, WriteFields
  <2> HIDE DEF a
  <2>3. \A w \in Elements(todo') : w = setInodeMeta(w.ino, w.key, NoInode)
    BY <2>2, OnePlaced
  <2> QED
    BY <1>0, <1>o, <1>s, <2>1, <2>3, GivesNone
<1> HIDE DEF Goal
<1>8. Goal
  BY <1>1, <1>2, <1>3, <1>4, <1>5, <1>6, <1>7 DEF PlainRequest
<1> QED
  BY <1>8 DEF Goal

\* link and rename name one inode, and rename removes the name it had.
LEMMA MovingWrites ==
    ASSUME TypeInv, MovingRequest, UNCHANGED fsckVars
    PROVE  /\ todo = <<>> /\ UNCHANGED <<kind, known, meta, remote, crashes, last_inode>>
           /\ \E p, q, i \in Inodes : \E m \in Names, w \in Writes :
                /\ w.what = "set" /\ w.ino = q /\ w.key = m /\ w.to = i
                /\ \/ Elements(todo') = {w} /\ kind[i] = "file"
                   \/ \E n \in Keys : /\ Elements(todo') = {w, removeInodeMeta(p, n)}
                                      /\ Leads(p, n, i) /\ i \in known
<1>0. todo = <<>>
  BY DEF MovingRequest, Ready
<1>1. ASSUME NEW i \in Reachable, NEW p \in Dirs, NEW n \in Names, Link(i, p, n)
      PROVE  /\ UNCHANGED <<kind, known, meta, remote, crashes, last_inode>>
             /\ i \in Inodes /\ p \in Inodes /\ kind[i] = "file"
             /\ \E w \in Writes : /\ w.what = "set" /\ w.ino = p /\ w.key = n /\ w.to = i
                                  /\ Elements(todo') = {w}
  <2> DEFINE a == setInodeMeta(p, n, i)
  <2>1. /\ todo' = <<a>> /\ UNCHANGED <<kind, known, meta, remote, crashes, last_inode>>
        /\ kind[i] = "file"
    BY <1>1 DEF Link, Handle
  <2>2. i \in Inodes /\ p \in Inodes /\ n \in WriteKeys
    BY KidsAreInodes, DirsAreDirs, NamesOfUsers
  <2>3. a \in Writes
    BY <2>2, WritesAreTyped DEF Kinds
  <2>4. a.what = "set" /\ a.ino = p /\ a.key = n /\ a.to = i
    BY WriteFields
  <2> HIDE DEF a
  <2>5. Elements(todo') = {a}
    BY <2>1, OnePlaced
  <2> QED
    BY <2>1, <2>2, <2>3, <2>4, <2>5
<1>2. ASSUME NEW p \in Dirs, NEW q \in Dirs, NEW m \in Names, NEW n \in NamesIn(p),
             Rename(p, n, q, m), NEW i, i = meta[p][n]
      PROVE  /\ UNCHANGED <<kind, known, meta, remote, crashes, last_inode>>
             /\ i \in Inodes /\ p \in Inodes /\ q \in Inodes /\ n \in Keys
             /\ Leads(p, n, i) /\ i \in known
             /\ \E w \in Writes : /\ w.what = "set" /\ w.ino = q /\ w.key = m /\ w.to = i
                                  /\ Elements(todo') = {w, removeInodeMeta(p, n)}
  <2> DEFINE a == setInodeMeta(q, m, i)
             r == removeInodeMeta(p, n)
  <2>1. /\ todo' = <<a, r>> /\ UNCHANGED <<kind, known, meta, remote, crashes, last_inode>>
        /\ i \in known
    BY <1>2 DEF Rename, RenameWrites, Handle
  <2>2. /\ p \in Inodes /\ q \in Inodes /\ kind[p] = "dir" /\ m \in WriteKeys
        /\ i \in Inodes /\ n \in Keys /\ n \in WriteKeys
    BY <1>2, DirsAreDirs, EntryLeads, NamesOfUsers, KeysAreWriteKeys
  <2>3. a \in Writes /\ r \in Writes
    BY <2>2, WritesAreTyped DEF Kinds
  <2>4. a.what = "set" /\ a.ino = q /\ a.key = m /\ a.to = i
    BY WriteFields
  <2>5. Leads(p, n, i)
    BY <1>2, <2>2 DEF Leads
  <2> HIDE DEF a, r
  <2>6. Elements(todo') = {a, r}
    BY <2>1, <2>3, TwoPlaced
  <2> QED
    BY <2>1, <2>2, <2>3, <2>4, <2>5, <2>6 DEF r
<1>3. CASE \E i \in Reachable, p \in Dirs, n \in Names : Link(i, p, n)
  <2>1. PICK i \in Reachable, p \in Dirs, n \in Names : Link(i, p, n)
    BY <1>3
  <2> QED
    BY <1>0, <1>1, <2>1
<1>4. CASE \E p, q \in Dirs, m \in Names : \E n \in NamesIn(p) : Rename(p, n, q, m)
  <2>1. PICK p \in Dirs, q \in Dirs, m \in Names : \E n \in NamesIn(p) : Rename(p, n, q, m)
    BY <1>4
  <2>2. PICK n \in NamesIn(p) : Rename(p, n, q, m)
    BY <2>1
  <2>3. PICK i : i = meta[p][n]
    OBVIOUS
  <2>4. /\ UNCHANGED <<kind, known, meta, remote, crashes, last_inode>>
        /\ i \in Inodes /\ p \in Inodes /\ q \in Inodes /\ n \in Keys
        /\ Leads(p, n, i) /\ i \in known
        /\ \E w \in Writes : /\ w.what = "set" /\ w.ino = q /\ w.key = m /\ w.to = i
                             /\ Elements(todo') = {w, removeInodeMeta(p, n)}
    BY <1>2, <2>2, <2>3
  <2> QED
    BY <1>0, <2>4
<1> QED
  BY <1>3, <1>4 DEF MovingRequest

-----------------------------------------------------------------------------
(***************************************************************************)
(* What fsck walks past.                                                   *)
(***************************************************************************)
\* It is enough that what gets a name, or becomes known, is new or moved.
LEMMA WalkedStays ==
    ASSUME FsckInv, FsckInv', Walked,
           UNCHANGED <<status, scan_inode, scan_inode_queue, known_inodes, fsck_ino_max>>,
           moved \subseteq moved',
           \A d \in Inodes : \A c \in Kids'[d] :
              c \in Kids[d] \/ c > fsck_ino_max \/ c \in moved',
           \A i \in known' : i \in known \/ i > fsck_ino_max \/ i \in moved',
           \A w \in Elements(todo') :
              /\ IsName(w) => w.to > fsck_ino_max \/ w.to \in moved'
              /\ w.what = "rev" => w.ino > fsck_ino_max
    PROVE  Walked'
<1>1. Tree' /\ TypeInv
  <2>1. TypeInv /\ TypeInv'
    BY DEF FsckInv
  <2> QED
    BY <2>1, TypedTree, PTL
<1>2. /\ \A c \in Inodes : ~ (c > fsck_ino_max /\ c <= fsck_ino_max)
      /\ known_inodes \subseteq Inodes
  BY <1>1, InodesAreNumbers DEF TypeInv, FsckTypes
<1>3. Waiting' = Waiting
  BY DEF Waiting
<1>4. \A d \in Inodes : Kids'[d] \subseteq Inodes
  BY <1>1 DEF Tree, Graphs
<1>5. ASSUME NEW d \in known_inodes' \ Waiting', NEW c \in Kids'[d],
             c \in known', c <= fsck_ino_max'
      PROVE  c \in known_inodes' \cup moved'
  <2>1. d \in Inodes /\ c \in Inodes /\ d \in known_inodes \ Waiting
    BY <1>2, <1>3, <1>4
  <2>2. c \in moved' \/ (c \in Kids[d] /\ c \in known)
    BY <1>2, <1>5, <2>1
  <2> QED
    BY <1>5, <2>1, <2>2 DEF Walked
<1>6. ASSUME NEW d \in Inodes, d > fsck_ino_max', NEW c \in Kids'[d]
      PROVE  c > fsck_ino_max' \/ c \in moved'
  BY <1>6 DEF Walked
<1> QED
  BY <1>5, <1>6 DEF Walked

\* Each write of a handler.
LEMMA WalkedWrite ==
    ASSUME FsckInv, FsckInv', Walked, Write, UNCHANGED fsckVars, UNCHANGED history
    PROVE  Walked'
<1>0. TypeInv /\ TypeInv' /\ Tree /\ Tree'
  <2>1. TypeInv /\ TypeInv'
    BY DEF FsckInv
  <2> QED
    BY <2>1, TypedTree, PTL
<1>1. PICK w \in Writes : WriteStep(w) /\ w = Head(todo) /\ todo' = Tail(todo)
  BY <1>0, WriteSteps
<1>2. /\ w \in Elements(todo) /\ Elements(todo') \subseteq Elements(todo)
      /\ UNCHANGED <<status, scan_inode, scan_inode_queue, known_inodes, fsck_ino_max>>
      /\ moved' = moved
  BY <1>1 DEF WriteStep, fsckVars, history
<1>3. \A b \in Elements(todo') :
          /\ IsName(b) => b.to > fsck_ino_max \/ b.to \in moved'
          /\ b.what = "rev" => b.ino > fsck_ino_max
  BY <1>2 DEF Walked
<1>4. \A i \in known' : i \in known \/ i > fsck_ino_max
  BY <1>1, <1>2 DEF WriteStep, Walked
<1>5. ASSUME NEW d \in Inodes, NEW c \in Kids'[d]
      PROVE  c \in Kids[d] \/ c > fsck_ino_max \/ c \in moved'
  <2>1. PICK n \in Keys \ Dots : Leads(d, n, c)'
    BY <1>0 DEF Tree
  <2>2. Leads(d, n, c) \/ (IsName(w) /\ c = w.to)
    <3>1. CASE w.what = "remove"
      BY <1>0, <1>1, <2>1, <3>1, RemovedStep
    <3>2. CASE IsName(w)
      BY <1>0, <1>1, <2>1, <3>2, NamedStep
    <3>3. CASE w.what # "remove" /\ ~ IsName(w)
      BY <1>0, <1>1, <2>1, <3>3, UnnamedStep
    <3> QED
      BY <3>1, <3>2, <3>3
  <2>3. Leads(d, n, c) => c \in Kids[d]
    BY <1>0 DEF Tree
  <2> QED
    BY <1>2, <2>2, <2>3 DEF Walked
<1> QED
  BY <1>2, <1>3, <1>4, <1>5, WalkedStays

\* What stays as it is.
LEMMA WalkedRequest ==
    ASSUME FsckInv, FsckInv', Walked, UNCHANGED <<kind, known, meta>>, UNCHANGED fsckVars,
           moved \subseteq moved',
           \A w \in Elements(todo') :
              /\ IsName(w) => w.to > fsck_ino_max \/ w.to \in moved'
              /\ w.what = "rev" => w.ino > fsck_ino_max
    PROVE  Walked'
<1>1. Kids' = Kids
  BY DEF Kids, NamesIn
<1>2. UNCHANGED <<status, scan_inode, scan_inode_queue, known_inodes, fsck_ino_max>>
  BY DEF fsckVars
<1> QED
  BY <1>1, <1>2, WalkedStays

\* A request that moves nothing names a new inode.
LEMMA WalkedPlain ==
    ASSUME FsckInv, FsckInv', Walking, Walked, PlainRequest, UNCHANGED fsckVars, UNCHANGED history
    PROVE  Walked'
<1>0. TypeInv /\ WalkInv /\ UNCHANGED moved
  BY DEF FsckInv, history
<1>1. /\ UNCHANGED <<kind, known, meta>>
      /\ last_inode' \in Inodes
      /\ \/ \A w \in Elements(todo') : w.what # "rev" /\ ~ IsName(w)
         \/ NewInode /\ \E p, n : GivesOnly(p, n, last_inode')
  BY <1>0, PlainWrites
<1>2. NewInode => last_inode' > fsck_ino_max
  <2>1. /\ fsck_ino_max < fsck_ino /\ fsck_ino <= last_inode
        /\ fsck_ino \in Nat /\ last_inode \in Nat /\ fsck_ino_max \in Nat
    BY <1>0, InodesAreNumbers DEF WalkInv, TypeInv, FsckTypes, TypeOK
  <2> QED
    BY <2>1 DEF NewInode
<1>3. \A w \in Elements(todo') : /\ IsName(w) => w.to > fsck_ino_max
                                 /\ w.what = "rev" => w.ino > fsck_ino_max
  BY <1>1, <1>2 DEF GivesOnly
<1> QED
  BY <1>0, <1>1, <1>3, WalkedRequest

\* What a request moves or links is remembered.
LEMMA WalkedMoving ==
    ASSUME FsckInv, FsckInv', Walked, MovingRequest, UNCHANGED fsckVars,
           moved' = moved \cup Named \cup Arrived
    PROVE  Walked'
<1>0. TypeInv
  BY DEF FsckInv
<1>1. UNCHANGED <<kind, known, meta>>
  BY <1>0, MovingWrites
<1>2. \E w : /\ w.what = "set"
             /\ \A b \in Elements(todo') : b = w \/ b.what = "remove"
  <2>1. PICK p, q, i \in Inodes : \E m \in Names, w \in Writes :
                /\ w.what = "set" /\ w.ino = q /\ w.key = m /\ w.to = i
                /\ \/ Elements(todo') = {w} /\ kind[i] = "file"
                   \/ \E n \in Keys : /\ Elements(todo') = {w, removeInodeMeta(p, n)}
                                      /\ Leads(p, n, i) /\ i \in known
    BY <1>0, MovingWrites
  <2>2. PICK w : /\ w.what = "set"
                 /\ \/ Elements(todo') = {w}
                    \/ \E n : Elements(todo') = {w, removeInodeMeta(p, n)}
    BY <2>1
  <2>3. \A n : removeInodeMeta(p, n).what = "remove"
    BY WriteFields
  <2> QED
    BY <2>2, <2>3
<1>3. \A b \in Elements(todo') : b.what = "set" => b.to \in Named
  BY DEF Elements, Named
<1>4. \A b \in Elements(todo') : /\ IsName(b) => b.to \in moved'
                                 /\ b.what # "rev"
  BY <1>2, <1>3 DEF IsName
<1> QED
  BY <1>1, <1>4, WalkedRequest

\* So is what arrives.
LEMMA WalkedArrival ==
    ASSUME FsckInv, FsckInv', Walked, Arrival, UNCHANGED fsckVars,
           moved' = moved \cup Named \cup Arrived
    PROVE  Walked'
<1>0. TypeInv /\ TreeInv /\ Tree /\ Tree'
  <2>1. TypeInv /\ TypeInv' /\ TreeInv
    BY DEF FsckInv
  <2> QED
    BY <2>1, TypedTree, PTL
<1>1. todo' = <<>>
  BY DEF Arrival, RemoteEntry, RemoteInode, Ready
<1>2. Elements(todo') = {}
  BY <1>1 DEF Elements
<1>3. UNCHANGED <<status, scan_inode, scan_inode_queue, known_inodes, fsck_ino_max>>
  BY DEF fsckVars
<1>4. CASE \E i \in Foreign, p \in Dirs, n \in Names : RemoteEntry(i, p, n)
  <2>1. PICK i \in Foreign, p \in Dirs, n \in Names : RemoteEntry(i, p, n)
    BY <1>4
  <2>2. p \in Inodes /\ DOMAIN meta = Inodes
    BY <1>0, DirsAreDirs DEF TypeInv
  <2>3. /\ kind' = kind /\ known' = known /\ i \in remote' \ remote
        /\ \A d \in Inodes : d # p => meta'[d] = meta[d]
        /\ DOMAIN meta'[p] = DOMAIN meta[p] \cup {n} /\ meta'[p][n] = i
        /\ \A k \in DOMAIN meta[p] : k # n => meta'[p][k] = meta[p][k]
    BY <2>1, <2>2 DEF RemoteEntry
  <2>4. i \in moved'
    BY <2>3 DEF Arrived
  <2>5. ASSUME NEW d \in Inodes, NEW c \in Kids'[d]
        PROVE  c \in Kids[d] \/ c \in moved'
    <3>1. PICK k \in Keys \ Dots : Leads(d, k, c)'
      BY <1>0 DEF Tree
    <3>2. Leads(d, k, c) \/ c = i
      BY <2>3, <3>1 DEF Leads, NamesIn
    <3> QED
      BY <1>0, <2>4, <3>2 DEF Tree
  <2> QED
    BY <1>2, <1>3, <2>3, <2>5, WalkedStays
<1>5. CASE \E i \in remote : RemoteInode(i)
  <2>1. PICK i \in remote : RemoteInode(i)
    BY <1>5
  <2>2. /\ kind' = [kind EXCEPT ![i] = "file"] /\ known' = known \cup {i} /\ meta' = meta
        /\ i \in remote \ remote' /\ kind \in [Inodes -> Kinds]
    BY <1>0, <2>1 DEF RemoteInode, TypeInv, FsckTypes, TypeOK
  <2>3. i \in moved'
    BY <2>2 DEF Arrived
  <2>4. ASSUME NEW d \in Inodes, NEW c \in Kids'[d]
        PROVE  c \in Kids[d]
    <3>1. PICK k \in Keys \ Dots : Leads(d, k, c)'
      BY <1>0 DEF Tree
    <3>2. Leads(d, k, c)
      BY <2>2, <3>1 DEF Leads, NamesIn
    <3> QED
      BY <1>0, <3>2 DEF Tree
  <2> QED
    BY <1>2, <1>3, <2>2, <2>3, <2>4, WalkedStays
<1> QED
  BY <1>4, <1>5 DEF Arrival

-----------------------------------------------------------------------------
\* Only the directory itself is stored.
LEMMA DirectoryStored ==
    ASSUME NEW i \in Inodes, NEW p \in Inodes, NEW n \in Keys,
           NEW w \in Elements(DirectoryWrites(i, p, n)), w.what = "rev"
    PROVE  w.ino = i
<1>1. \/ w = DataOf(i, "dir") \/ w = Rev(i) \/ w = setInodeMeta(i, ".", i)
      \/ w = setInodeMeta(p, n, i) \/ w = setInodeMeta(i, "..", p)
  BY DirectoryElements
<1>2. /\ DataOf(i, "dir").what = "data" /\ setInodeMeta(i, ".", i).what = "set"
      /\ setInodeMeta(p, n, i).what = "set" /\ setInodeMeta(i, "..", p).what = "set"
      /\ Rev(i).ino = i
  BY WriteFields
<1> QED
  BY <1>1, <1>2

\* The names process_0 gives, to new directories.
LEMMA Process0Names ==
    ASSUME TypeInv, Process0, NEW f, f = fsck_ino', NEW l, LostFoundOf(l),
           NEW w \in Elements(todo')
    PROVE  /\ w.what # "remove"
           /\ w.what = "rev" => w.ino > fsck_ino_max'
           /\ IsName(w) => \/ w.ino = l /\ w.key = OrphanName[f] /\ w.to = f
                           \/ /\ w.ino = Root /\ w.key = "lost+found" /\ w.to = l
                              /\ l > fsck_ino_max' /\ kind[l] = "none" /\ l \notin Foreign
<1>1. /\ f \in Inodes /\ l \in Inodes /\ Root \in Inodes /\ "lost+found" \in Keys
      /\ f > fsck_ino_max'
  <2>1. f \in Inodes /\ l \in Inodes /\ fsck_ino_max' < f /\ fsck_ino_max' \in 0 .. MaxInode
    BY Process0Does
  <2> QED
    BY <2>1, NamesAssumption, InodesAreNumbers
<1>2. PICK n \in Keys : n = OrphanName[f]
  BY <1>1, NamesAssumption
<1> DEFINE t == DirectoryWrites(f, l, n)
           s == DirectoryWrites(l, Root, "lost+found")
<1>3. t \in Seq(Writes) /\ s \in Seq(Writes)
  BY <1>1, DirectoryElements
<1>4. ASSUME w \in Elements(t)
      PROVE  /\ w.what # "remove" /\ (w.what = "rev" => w.ino = f)
             /\ IsName(w) => w.ino = l /\ w.key = n /\ w.to = f
  BY <1>1, <1>4, DirectoryName, DirectoryStored
<1>5. ASSUME w \in Elements(s)
      PROVE  /\ w.what # "remove" /\ (w.what = "rev" => w.ino = l)
             /\ IsName(w) => w.ino = Root /\ w.key = "lost+found" /\ w.to = l
  BY <1>1, <1>5, DirectoryName, DirectoryStored
<1>6. CASE "lost+found" \in DOMAIN meta[Root]
  <2>1. Turn(t)
    BY <1>2, <1>6, Process0Does
  <2>2. todo' = t
    BY <2>1 DEF Turn
  <2> HIDE DEF t
  <2>3. w \in Elements(t)
    BY <2>2
  <2> QED
    BY <1>1, <1>2, <1>4, <2>3
<1>7. CASE "lost+found" \notin DOMAIN meta[Root]
  <2>1. Turn(s \o t) /\ fsck_ino_max' < l /\ kind[l] = "none" /\ l \notin Foreign
        /\ fsck_ino_max' \in 0 .. MaxInode
    BY <1>2, <1>7, Process0Does
  <2>2. todo' = s \o t
    BY <2>1 DEF Turn
  <2>3. Elements(s \o t) = Elements(s) \cup Elements(t)
    BY <1>3, PlacedConcat
  <2> HIDE DEF s, t
  <2>4. w \in Elements(s) \/ w \in Elements(t)
    BY <2>2, <2>3
  <2>5. l > fsck_ino_max'
    BY <1>1, <2>1, InodesAreNumbers
  <2> QED
    BY <1>1, <1>2, <1>4, <1>5, <2>1, <2>4, <2>5
<1> QED
  BY <1>6, <1>7

\* The walk begins: it has passed nothing yet, and nothing is new.
LEMMA WalkedProcess0 ==
    ASSUME FsckInv, FsckInv', Process0
    PROVE  Walked'
<1>0. TypeInv /\ TypeInv' /\ Tree'
  <2>1. TypeInv /\ TypeInv'
    BY DEF FsckInv
  <2> QED
    BY <2>1, TypedTree, PTL
<1>f. PICK f : f = fsck_ino'
  OBVIOUS
<1>l. PICK l : LostFoundOf(l)
  BY DEF LostFoundOf
<1>1. /\ f \in Inodes /\ f > fsck_ino_max' /\ fsck_ino_max' = last_inode + 1
      /\ last_inode \in Nat
      /\ "lost+found" \notin DOMAIN meta[Root] => l > fsck_ino_max'
  <2>1. /\ f \in Inodes /\ fsck_ino_max' = last_inode + 1 /\ fsck_ino_max' < f
        /\ last_inode \in Nat /\ l \in Inodes
        /\ "lost+found" \notin DOMAIN meta[Root] => fsck_ino_max' < l
    BY <1>0, <1>f, <1>l, Process0Does
  <2> QED
    BY <2>1, InodesAreNumbers
<1>2. Waiting' = {Root} /\ known_inodes' = {Root} /\ UNCHANGED <<kind, known, meta>>
  <2>1. scan_inode' = Root /\ scan_inode_queue' = <<>> /\ status' = 1
    BY DEF Process0
  <2>2. Elements(scan_inode_queue') = {}
    BY <2>1 DEF Elements
  <2> QED
    BY <2>1, <2>2 DEF Waiting, Process0, Turn, Elements
<1>3. ASSUME NEW d \in Inodes, d > fsck_ino_max' PROVE Kids'[d] = {}
  <2>1. d > last_inode
    BY <1>1, <1>3, InodesAreNumbers
  <2>2. kind'[d] = "none"
    BY <1>0, <1>2, <2>1 DEF TypeInv
  <2> QED
    BY <1>0, <2>2 DEF Tree
<1>4. ASSUME NEW w \in Elements(todo')
      PROVE  /\ IsName(w) => w.to > fsck_ino_max'
             /\ w.what = "rev" => w.ino > fsck_ino_max'
  <2>1. /\ w.what = "rev" => w.ino > fsck_ino_max'
        /\ IsName(w) => w.to = f \/ (w.to = l /\ l > fsck_ino_max')
    BY <1>0, <1>f, <1>l, Process0Names
  <2> QED
    BY <1>1, <2>1
<1> QED
  BY <1>2, <1>3, <1>4 DEF Walked

\* process_1 leaves an inode behind with its children in the queue or not
\* directories.
LEMMA WalkedProcess1 ==
    ASSUME FsckInv, FsckInv', Walking, Walked, Process1, Walking'
    PROVE  Walked'
<1>0. TypeInv /\ Tree
  <2>1. TypeInv
    BY DEF FsckInv
  <2> QED
    BY <2>1, TypedTree
<1> DEFINE found == {i \in Entries(ScanKeys \ Dots) : i \in known /\ kind[i] = "dir"}
           queue == Elements(scan_inode_queue) \cup found
<1>1. /\ UNCHANGED <<kind, known, meta, fsck_ino_max, moved>>
      /\ Elements(todo') =
            {removeInodeMeta(scan_inode, n) :
                n \in {k \in ScanKeys : meta[scan_inode][k] \notin known}}
      /\ known_inodes' = known_inodes \cup (Entries(ScanKeys \ Dots) \cap known)
      /\ \/ /\ status' = status
            /\ {scan_inode'} \cup Elements(scan_inode_queue') = queue
         \/ status' = status + 1 /\ queue = {}
  <2>1. UNCHANGED moved
    BY DEF Process1, history
  <2> QED
    BY <1>0, <2>1, Process1Does
<1>2. status = 1 /\ Kids' = Kids /\ scan_inode \in Inodes /\ known_inodes \subseteq Inodes
  <2>1. status \in {1, 3}
    BY DEF Process1
  <2>2. Kids' = Kids
    BY <1>1 DEF Kids, NamesIn
  <2> QED
    BY <1>0, <2>1, <2>2 DEF Walking, TypeInv, FsckTypes
<1>3. Waiting' = queue
  <2> HIDE DEF queue
  <2>1. CASE status' = status
    BY <1>1, <1>2, <2>1 DEF Waiting
  <2>2. CASE status' # status
    <3>1. queue = {} /\ status' # 1
      BY <1>1, <1>2, <2>2
    <3> QED
      BY <3>1 DEF Waiting
  <2> QED
    BY <2>1, <2>2
<1>4. Entries(ScanKeys \ Dots) = Kids[scan_inode]
  <2>1. CASE kind[scan_inode] = "dir"
    <3>1. ScanKeys \ Dots = NamesIn(scan_inode)
      BY <2>1 DEF ScanKeys, NamesIn
    <3> QED
      BY <1>2, <2>1, <3>1 DEF Entries, Kids
  <2>2. CASE kind[scan_inode] # "dir"
    <3>1. ScanKeys \ Dots = {}
      BY <2>2 DEF ScanKeys
    <3> QED
      BY <1>2, <2>2, <3>1 DEF Entries, Kids
  <2> QED
    BY <2>1, <2>2
<1>5. Waiting = {scan_inode} \cup Elements(scan_inode_queue)
  BY <1>2 DEF Waiting
<1>6. Kids[scan_inode] \subseteq Inodes
  BY <1>0, <1>2 DEF Tree, Graphs
<1>7. ASSUME NEW d \in known_inodes' \ Waiting', NEW c \in Kids[d],
             c \in known, c <= fsck_ino_max
      PROVE  c \in known_inodes' \cup moved
  <2>1. CASE d = scan_inode
    BY <1>1, <1>4, <1>7, <2>1
  <2>2. CASE d # scan_inode /\ d \in known_inodes
    <3>1. d \in known_inodes \ Waiting
      BY <1>3, <1>5, <1>7, <2>2
    <3> QED
      BY <1>1, <1>7, <3>1 DEF Walked
  <2>3. CASE d \in Entries(ScanKeys \ Dots) \cap known
    <3>1. kind[d] # "dir" /\ d \in Inodes
      BY <1>3, <1>4, <1>6, <2>3
    <3> QED
      BY <1>7, <3>1 DEF Kids
  <2> QED
    BY <1>1, <1>7, <2>1, <2>2, <2>3
<1>8. \A w \in Elements(todo') : w.what = "remove"
  BY <1>1, WriteFields
<1> HIDE DEF queue
<1> QED
  BY <1>1, <1>2, <1>7, <1>8 DEF Walked, IsName

\* Every step keeps what fsck walks past.
LEMMA WalkedKeeps == FsckInv /\ FsckInv' /\ WalkedInv /\ [FsckNext]_allVars => WalkedInv'
<1> SUFFICES ASSUME FsckInv, FsckInv', WalkedInv, [FsckNext]_allVars, Walking'
             PROVE  Walked'
  BY DEF WalkedInv
<1>1. CASE Process0
  BY <1>1, WalkedProcess0
<1>2. CASE Process1
  <2>1. Walking
    <3>1. status \in {1, 3} /\ status' \in {status, status + 1} /\ status' \in {1, 2}
      BY <1>2 DEF Process1, Walking
    <3> QED
      BY <3>1 DEF Walking
  <2> QED
    BY <1>2, <2>1, WalkedProcess1 DEF WalkedInv
<1>3. ASSUME Process2 \/ Process3 \/ (Crash /\ Ended) PROVE FALSE
  BY <1>3 DEF Process2, Process3, Ended, Idle, Walking
<1>4. ASSUME UNCHANGED status PROVE Walking /\ Walked /\ status # Idle
  BY <1>4 DEF Walking, WalkedInv, Idle
<1>5. CASE (PlainRequest \/ Write) /\ UNCHANGED <<fsckVars, history>>
  BY <1>4, <1>5, WalkedPlain, WalkedWrite DEF fsckVars
<1>6. CASE /\ MovingRequest \/ Arrival
           /\ moved' = IF status = Idle THEN {} ELSE moved \cup Named \cup Arrived
           /\ UNCHANGED <<fsckVars, doubled>>
  BY <1>4, <1>6, WalkedMoving, WalkedArrival DEF fsckVars
<1>7. CASE UNCHANGED allVars
  <2>1. /\ UNCHANGED <<kind, known, meta, todo>> /\ UNCHANGED fsckVars /\ moved' = moved
    BY <1>7 DEF allVars, vars, history
  <2>2. Walking /\ Walked
    BY <1>4, <2>1 DEF fsckVars
  <2> QED
    BY <2>1, <2>2, WalkedRequest DEF Walked, fsckVars
<1> QED
  BY <1>1, <1>2, <1>3, <1>5, <1>6, <1>7 DEF FsckNext

(***************************************************************************)
(* When process_2 comes to judge, what it takes for an orphan and has a    *)
(* name nevertheless was moved, linked or received since the walk began,   *)
(* or is below such an inode: for whatever the requests, fsck and other    *)
(* nodes do meanwhile.  The walk keeps Walked: what it leaves behind leads *)
(* only to what it has come to, to new inodes, and to what was moved.      *)
(***************************************************************************)
THEOREM OrphansMoved == FsckSpec => []OrphansWereMoved
<1>1. FsckInv /\ HistoryTyped /\ WalkedInv => OrphansWereMoved
  <2> SUFFICES ASSUME FsckInv, HistoryTyped, WalkedInv, status = 2, todo = <<>>,
                      NEW i \in Orphans \cap Reachable
               PROVE  i \in Below(moved)
    BY DEF OrphansWereMoved
  <2>1. TypeInv /\ TreeInv /\ Tree /\ Walking /\ Walked /\ WalkInv
    <3>1. TypeInv /\ TreeInv /\ Walking /\ Walked /\ WalkInv
      BY DEF FsckInv, WalkedInv, Walking
    <3> QED
      BY <3>1, TypedTree
  <2>2. moved \in SUBSET Inodes /\ Kids \in Graphs /\ Waiting = {}
    BY <2>1 DEF HistoryTyped, Tree, Waiting
  <2>3. Below(moved) = Reach(Kids, moved)
    BY <2>2, ClosureIsReach DEF Below
  <2>4. /\ Reach(Kids, moved) \in SUBSET Inodes /\ moved \subseteq Reach(Kids, moved)
        /\ Closed(Kids, Reach(Kids, moved))
    BY <2>2, ReachClosed
  <2>5. PICK M : M = Reach(Kids, moved)
    OBVIOUS
  <2> DEFINE T == {j \in Inodes : j \in known_inodes \/ j > fsck_ino_max \/ j \notin known \/ j \in M}
  <2>6. /\ \A j \in Inodes : j > fsck_ino_max \/ j <= fsck_ino_max
        /\ \A j \in Inodes : ~ (j > fsck_ino_max /\ j <= fsck_ino_max)
        /\ known_inodes \subseteq Inodes
    BY <2>1, InodesAreNumbers DEF TypeInv, FsckTypes
  <2>7. ASSUME NEW d \in T, NEW c \in Kids[d] PROVE c \in T
    <3>1. c \in Inodes
      BY <2>2 DEF Graphs
    <3>2. CASE d \in known_inodes
      BY <2>1, <2>2, <2>4, <2>5, <2>6, <3>1, <3>2 DEF Walked
    <3>3. CASE d > fsck_ino_max
      BY <2>1, <2>4, <2>5, <3>1, <3>3 DEF Walked
    <3>4. CASE d \notin known
      BY <2>1, <3>4 DEF TreeInv, Tree
    <3>5. CASE d \in M
      BY <2>4, <2>5, <3>1, <3>5 DEF Closed
    <3> QED
      BY <3>2, <3>3, <3>4, <3>5
  <2>8. T \in SUBSET Inodes /\ {Root} \subseteq T
    BY <2>1, InodesAreNumbers DEF WalkInv
  <2>9. Closed(Kids, T)
    <3> HIDE DEF T
    <3> QED
      BY <2>7 DEF Closed
  <2>10. R \subseteq T
    <3> HIDE DEF T
    <3> QED
      BY <2>8, <2>9, ReachLeast DEF R
  <2>11. i \in T
    BY <2>1, <2>10 DEF Tree
  <2>12. i \in known /\ i \notin known_inodes /\ i <= fsck_ino_max /\ i \in Inodes
    BY DEF Orphans, Orphan
  <2> QED
    BY <2>3, <2>5, <2>6, <2>11, <2>12
<1>2. FsckInit => HistoryTyped /\ WalkedInv
  BY DEF FsckInit, HistoryTyped, WalkedInv, Walking, Idle
<1>3. FsckInv => TypeInv
  BY DEF FsckInv
<1>4. FsckSpec => [](HistoryTyped /\ WalkedInv)
  BY FsckInvHolds, HistoryStaysTyped, WalkedKeeps, <1>2, <1>3, PTL DEF FsckSpec
<1> QED
  BY <1>1, <1>4, FsckInvHolds, PTL

-----------------------------------------------------------------------------
(***************************************************************************)
(* The names of directories.                                               *)
(***************************************************************************)
\* Nothing leads to what is not there, but for what other nodes will send.
NothingLeads ==
    \A i \in Inodes \ Foreign : kind[i] = "none" => \A d \in Inodes : \A n : ~ Leads(d, n, i)

\* So it is in typed states.
LEMMA NoneLeads == TypeInv => NothingLeads
<1> SUFFICES ASSUME TypeInv, NEW i \in Inodes \ Foreign, kind[i] = "none", NEW d \in Inodes,
                    NEW n, Leads(d, n, i)
             PROVE  FALSE
  BY DEF NothingLeads
<1>1. kind[d] = "dir" /\ n \in DOMAIN meta[d] /\ meta[d][n] = i
  BY DEF Leads, NamesIn
<1>2. kind[meta[d][n]] # "none" \/ meta[d][n] \in Foreign
  BY <1>1 DEF TypeInv, FsckTypes, TypeOK
<1> QED
  BY <1>1, <1>2

\* When a handler has nothing left to write, all names stay.
LEMMA AllStay ==
    ASSUME todo = <<>>
    PROVE  \A d, n, i : Stays(d, n, i) <=> Leads(d, n, i)
<1>1. Elements(todo) = {}
  BY DEF Elements
<1> QED
  BY <1>1 DEF Stays, Removes

\* It is enough that no name of a directory is new, and that what is to be
\* named has no name.
LEMMA OneNameStays ==
    ASSUME OneNameInv, todo = <<>>, UNCHANGED crashes, doubled \subseteq doubled',
           \A d, i \in Inodes : \A n \in Keys :
              Leads(d, n, i)' /\ kind'[i] = "dir" => Leads(d, n, i) /\ kind[i] = "dir",
           crashes = 0 /\ OneName => NamesOnce'
    PROVE  OneNameInv'
<1> SUFFICES ASSUME crashes = 0, OneName PROVE OneName'
  BY DEF OneNameInv
<1>1. \A d, n, i : Stays(d, n, i)' => Leads(d, n, i)'
  BY DEF Stays
<1>2. \A d, i \in Inodes : \A n \in Keys :
         Stays(d, n, i)' /\ kind'[i] = "dir" => Stays(d, n, i) /\ kind[i] = "dir"
  BY <1>1, AllStay
<1> QED
  BY <1>2 DEF OneName

\* Where entries and kinds are the same, no name is new.
LEMMA OneNameHandled ==
    ASSUME OneNameInv, todo = <<>>, UNCHANGED <<kind, meta, crashes>>, doubled \subseteq doubled',
           crashes = 0 /\ OneName => NamesOnce'
    PROVE  OneNameInv'
<1>1. \A d, n, i : Leads(d, n, i)' <=> Leads(d, n, i)
  BY DEF Leads, NamesIn
<1> QED
  BY <1>1, OneNameStays

\* A new inode is given one name.
LEMMA NewNamedOnce ==
    ASSUME TypeInv', NEW i \in Inodes, kind'[i] = "none", i \notin Foreign,
           NEW w, w.to = i,
           \A b \in Elements(todo') : IsName(b) /\ b.to = i => b.ino = w.ino /\ b.key = w.key
    PROVE  NamedOnce(w)'
<1>1. \A d \in Inodes : \A n \in Keys : ~ Leads(d, n, i)'
  <2>1. NothingLeads'
    BY NoneLeads, PTL
  <2> QED
    BY <2>1 DEF NothingLeads
<1>2. \A d \in Inodes : \A n \in Keys : ~ Stays(d, n, w.to)'
  BY <1>1 DEF Stays
<1>3. \A b : IsName(b)' <=> IsName(b)
  BY DEF IsName
<1> QED
  BY <1>2, <1>3 DEF NamedOnce

\* Each write of a handler.
LEMMA OneNameWrite ==
    ASSUME FsckInv, FsckInv', OneNameInv, Write, UNCHANGED history
    PROVE  OneNameInv'
<1>0. TypeInv /\ TypeInv' /\ Tree'
  <2>1. TypeInv /\ TypeInv'
    BY DEF FsckInv
  <2> QED
    BY <2>1, TypedTree, PTL
<1>1. PICK w \in Writes : WriteStep(w) /\ w = Head(todo) /\ todo' = Tail(todo)
  BY <1>0, WriteSteps
<1>2. Elements(todo) = {w} \cup Elements(todo') /\ todo' \in Seq(Writes)
      /\ crashes' = crashes /\ doubled' = doubled
  BY <1>1 DEF WriteStep, history
<1> SUFFICES ASSUME crashes = 0, OneName, NamesOnce PROVE OneName' /\ NamesOnce'
  BY <1>2 DEF OneNameInv
<1>3. \A d, n : Removes(d, n) <=> Removes(d, n)' \/ w = removeInodeMeta(d, n)
  BY <1>2 DEF Removes
<1>4. ASSUME NEW d \in Inodes, NEW n, NEW i, Stays(d, n, i)'
      PROVE  Stays(d, n, i) \/ (IsName(w) /\ d = w.ino /\ n = w.key /\ i = w.to)
  <2>1. Leads(d, n, i)' /\ ~ Removes(d, n)'
    BY <1>4 DEF Stays
  <2>2. w = removeInodeMeta(d, n) => w.what = "remove" /\ w.ino = d /\ w.key = n
    BY WriteFields
  <2>3. CASE w.what = "remove"
    <3>1. Leads(d, n, i) /\ ~ (d = w.ino /\ n = w.key)
      BY <1>0, <1>1, <2>1, <2>3, RemovedStep
    <3> QED
      BY <1>3, <2>1, <2>2, <3>1 DEF Stays
  <2>4. CASE IsName(w)
    <3>1. Leads(d, n, i) \/ (d = w.ino /\ n = w.key /\ i = w.to)
      BY <1>0, <1>1, <2>1, <2>4, NamedStep
    <3>2. w.what # "remove"
      BY <2>4 DEF IsName
    <3> QED
      BY <1>3, <2>1, <2>2, <2>4, <3>1, <3>2 DEF Stays
  <2>5. CASE w.what # "remove" /\ ~ IsName(w)
    <3>1. Leads(d, n, i)
      BY <1>0, <1>1, <2>1, <2>5, UnnamedStep
    <3> QED
      BY <1>3, <2>1, <2>2, <2>5, <3>1 DEF Stays
  <2> QED
    BY <2>3, <2>4, <2>5
<1>5. ASSUME NEW d \in Inodes, NEW n, NEW i \in Inodes, Leads(d, n, i)', kind'[i] = "dir"
      PROVE  kind[i] = "dir"
  <2>1. CASE w.what # "data"
    BY <1>1, <1>5, <2>1 DEF WriteStep
  <2>2. CASE w.what = "data"
    <3>1. w.ino \in Inodes /\ kind[w.ino] = "none" /\ w.ino \notin Foreign
      BY <1>0, <1>1, <2>2, KindsStay DEF WriteStep, Typed, TypedData
    <3>2. Leads(d, n, i)
      BY <1>0, <1>1, <1>5, <2>2, UnnamedStep DEF IsName
    <3>3. i # w.ino
      BY <1>0, <3>1, <3>2, NoneLeads DEF NothingLeads
    <3>4. kind'[i] = kind[i]
      BY <1>0, <1>1, <2>2, <3>1, <3>3, KindsStay DEF WriteStep
    <3> QED
      BY <1>5, <3>4
  <2> QED
    BY <2>1, <2>2
<1>6. OneName'
  <2> SUFFICES ASSUME NEW d \in Inodes, NEW e \in Inodes, NEW i \in Inodes,
                      NEW m \in Keys, NEW n \in Keys,
                      Stays(d, m, i)', Stays(e, n, i)', kind'[i] = "dir", i \notin doubled
               PROVE  d = e /\ m = n
    BY <1>2 DEF OneName
  <2>1. kind[i] = "dir"
    <3>1. Leads(d, m, i)'
      BY DEF Stays
    <3> QED
      BY <1>5, <3>1
  <2>2. CASE IsName(w) /\ i = w.to
    <3>1. NamedOnce(w)
      <4>1. w \in Elements(todo) /\ kind[w.to] \notin {"file", "link"} /\ w.to \notin doubled
        BY <1>2, <2>1, <2>2
      <4> QED
        BY <2>2, <4>1 DEF NamesOnce
    <3>2. /\ Stays(d, m, i) => d = w.ino /\ m = w.key
          /\ Stays(e, n, i) => e = w.ino /\ n = w.key
      BY <2>2, <3>1 DEF NamedOnce
    <3> QED
      BY <1>4, <3>2
  <2>3. CASE ~ (IsName(w) /\ i = w.to)
    <3>1. Stays(d, m, i) /\ Stays(e, n, i)
      BY <1>4, <2>3
    <3> QED
      BY <2>1, <3>1 DEF OneName
  <2> QED
    BY <2>2, <2>3
<1>7. NamesOnce'
  <2>0. \A b : IsName(b)' <=> IsName(b)
    BY DEF IsName
  <2> SUFFICES ASSUME NEW b \in Elements(todo'), IsName(b)
               PROVE  kind'[b.to] \in {"file", "link"} \/ b.to \in doubled' \/ NamedOnce(b)'
    BY <2>0 DEF NamesOnce
  <2>1. b \in Elements(todo) /\ b \in Writes
    <3>1. PICK j \in DOMAIN todo' : b = todo'[j]
      BY DEF Elements
    <3>2. b \in Writes
      BY <1>2, <3>1
    <3> QED
      BY <1>2, <3>2
  <2>2. b.to \in Inodes
    BY <2>1 DEF Writes, IsName
  <2>3. CASE kind[b.to] \in {"file", "link"}
    BY <1>0, <1>1, <2>2, <2>3, KindsStay
  <2>4. CASE NamedOnce(b)
    <3>1. ASSUME NEW d \in Inodes, NEW n \in Keys, Stays(d, n, b.to)'
          PROVE  d = b.ino /\ n = b.key
      <4>1. Stays(d, n, b.to) \/ (IsName(w) /\ d = w.ino /\ n = w.key /\ b.to = w.to)
        BY <1>4, <3>1
      <4> QED
        BY <1>2, <2>4, <4>1 DEF NamedOnce
    <3>2. \A c \in Elements(todo') : IsName(c) /\ c.to = b.to => c.ino = b.ino /\ c.key = b.key
      BY <1>2, <2>4 DEF NamedOnce
    <3> QED
      BY <2>0, <3>1, <3>2 DEF NamedOnce
  <2> QED
    BY <1>2, <2>1, <2>3, <2>4 DEF NamesOnce
<1> QED
  BY <1>6, <1>7

-----------------------------------------------------------------------------
\* A request names a new inode, or one that is no directory, or moves the one
\* name of a directory.
LEMMA OneNameRequest ==
    ASSUME FsckInv, FsckInv', OneNameInv, PlainRequest \/ MovingRequest, UNCHANGED fsckVars,
           UNCHANGED doubled
    PROVE  OneNameInv'
<1>0. TypeInv /\ TypeInv'
  BY DEF FsckInv
<1>s. \A b : IsName(b)' <=> IsName(b)
  BY DEF IsName
<1>1. CASE PlainRequest
  <2>1. /\ todo = <<>> /\ UNCHANGED <<kind, meta, crashes>>
        /\ \/ \A w \in Elements(todo') : ~ IsName(w)
           \/ NewInode /\ \E p, n : GivesOnly(p, n, last_inode')
    BY <1>0, <1>1, PlainWrites
  <2>2. NamesOnce'
    <3>1. CASE \A w \in Elements(todo') : ~ IsName(w)
      BY <1>s, <3>1 DEF NamesOnce
    <3>2. CASE NewInode /\ \E p, n : GivesOnly(p, n, last_inode')
      <4>1. PICK i : i = last_inode'
        OBVIOUS
      <4>2. PICK p, n : GivesOnly(p, n, i)
        BY <3>2, <4>1
      <4>3. i \in Inodes /\ kind'[i] = "none" /\ i \notin Foreign
        BY <1>0, <2>1, <3>2, <4>1, NewInodeFresh
      <4>4. ASSUME NEW w \in Elements(todo'), IsName(w) PROVE NamedOnce(w)'
        <5>1. w.to = i
          BY <4>2, <4>4 DEF GivesOnly
        <5>2. \A b \in Elements(todo') : IsName(b) /\ b.to = i => b.ino = w.ino /\ b.key = w.key
          BY <4>2, <4>4 DEF GivesOnly
        <5> QED
          BY <1>0, <4>3, <5>1, <5>2, NewNamedOnce
      <4> QED
        BY <1>s, <4>4 DEF NamesOnce
    <3> QED
      BY <2>1, <3>1, <3>2
  <2> QED
    BY <2>1, <2>2, OneNameHandled
<1>2. CASE MovingRequest
  <2>1. /\ todo = <<>> /\ UNCHANGED <<kind, known, meta, crashes>>
        /\ \E p, q, i \in Inodes : \E m \in Names, w \in Writes :
                /\ w.what = "set" /\ w.ino = q /\ w.key = m /\ w.to = i
                /\ \/ Elements(todo') = {w} /\ kind[i] = "file"
                   \/ \E n \in Keys : /\ Elements(todo') = {w, removeInodeMeta(p, n)}
                                      /\ Leads(p, n, i) /\ i \in known
    BY <1>0, <1>2, MovingWrites
  <2>2. PICK p, q, i \in Inodes : \E m \in Names, w \in Writes :
                /\ w.what = "set" /\ w.ino = q /\ w.key = m /\ w.to = i
                /\ \/ Elements(todo') = {w} /\ kind[i] = "file"
                   \/ \E n \in Keys : /\ Elements(todo') = {w, removeInodeMeta(p, n)}
                                      /\ Leads(p, n, i) /\ i \in known
    BY <2>1
  <2>3. PICK m \in Names, w \in Writes :
                /\ w.what = "set" /\ w.ino = q /\ w.key = m /\ w.to = i
                /\ \/ Elements(todo') = {w} /\ kind[i] = "file"
                   \/ \E n \in Keys : /\ Elements(todo') = {w, removeInodeMeta(p, n)}
                                      /\ Leads(p, n, i) /\ i \in known
    BY <2>2
  <2>4. ASSUME OneName PROVE NamesOnce'
    <3>1. CASE Elements(todo') = {w} /\ kind[i] = "file"
      BY <2>1, <2>3, <3>1 DEF NamesOnce
    <3>2. ASSUME NEW n \in Keys, Elements(todo') = {w, removeInodeMeta(p, n)},
                 Leads(p, n, i), i \in known
          PROVE  NamesOnce'
      <4>1. \A b \in Elements(todo') : IsName(b) => b = w
        <5>1. removeInodeMeta(p, n).what = "remove"
          BY WriteFields
        <5> QED
          BY <3>2, <5>1 DEF IsName
      <4>2. kind[i] \in {"file", "link", "dir"}
        BY <1>0, <3>2 DEF TypeInv, FsckTypes, TypeOK, Kinds
      <4>3. ASSUME kind[i] = "dir", i \notin doubled PROVE NamedOnce(w)'
        <5>1. ASSUME NEW d \in Inodes, NEW k \in Keys, Stays(d, k, i)' PROVE FALSE
          <6>1. Leads(d, k, i)' /\ ~ Removes(d, k)'
            BY <5>1 DEF Stays
          <6>2. Leads(d, k, i)
            BY <2>1, <6>1 DEF Leads, NamesIn
          <6>3. Stays(d, k, i) /\ Stays(p, n, i)
            BY <2>1, <3>2, <6>2, AllStay
          <6>4. d = p /\ k = n
            BY <2>4, <4>3, <6>3 DEF OneName
          <6>5. Removes(p, n)'
            BY <3>2 DEF Removes
          <6> QED
            BY <6>1, <6>4, <6>5
        <5> QED
          BY <1>s, <2>3, <4>1, <5>1 DEF NamedOnce
      <4> QED
        BY <1>s, <2>1, <2>3, <4>1, <4>2, <4>3 DEF NamesOnce
    <3> QED
      BY <2>3, <3>1, <3>2
  <2> QED
    BY <2>1, <2>4, OneNameHandled
<1> QED
  BY <1>1, <1>2

\* What arrives is no directory.
LEMMA OneNameArrival ==
    ASSUME FsckInv, FsckInv', OneNameInv, Arrival, UNCHANGED doubled
    PROVE  OneNameInv'
<1>0. TypeInv /\ TreeInv
  BY DEF FsckInv
<1>1. todo = <<>> /\ todo' = <<>> /\ UNCHANGED crashes
  BY DEF Arrival, RemoteEntry, RemoteInode, Ready
<1>2. NamesOnce'
  BY <1>1 DEF NamesOnce, Elements
<1>3. CASE \E i \in Foreign, p \in Dirs, n \in Names : RemoteEntry(i, p, n)
  <2>1. PICK i \in Foreign, p \in Dirs, n \in Names : RemoteEntry(i, p, n)
    BY <1>3
  <2>2. p \in Inodes /\ DOMAIN meta = Inodes
    BY <1>0, DirsAreDirs DEF TypeInv
  <2>3. /\ kind' = kind /\ kind[i] = "none"
        /\ \A d \in Inodes : d # p => meta'[d] = meta[d]
        /\ DOMAIN meta'[p] = DOMAIN meta[p] \cup {n} /\ meta'[p][n] = i
        /\ \A k \in DOMAIN meta[p] : k # n => meta'[p][k] = meta[p][k]
    BY <2>1, <2>2 DEF RemoteEntry
  <2>4. ASSUME NEW d \in Inodes, NEW k, NEW c, Leads(d, k, c)', kind'[c] = "dir"
        PROVE  Leads(d, k, c) /\ kind[c] = "dir"
    <3>1. Leads(d, k, c) \/ c = i
      BY <2>3, <2>4 DEF Leads, NamesIn
    <3> QED
      BY <2>3, <2>4, <3>1
  <2> QED
    BY <1>1, <1>2, <2>4, OneNameStays
<1>4. CASE \E i \in remote : RemoteInode(i)
  <2>1. PICK i \in remote : RemoteInode(i)
    BY <1>4
  <2>2. kind' = [kind EXCEPT ![i] = "file"] /\ meta' = meta /\ kind \in [Inodes -> Kinds]
    BY <1>0, <2>1 DEF RemoteInode, TypeInv, FsckTypes, TypeOK
  <2>3. \A d, c \in Inodes : \A k : Leads(d, k, c)' /\ kind'[c] = "dir" => Leads(d, k, c) /\ kind[c] = "dir"
    BY <2>2 DEF Leads, NamesIn
  <2> QED
    BY <1>1, <1>2, <2>3, OneNameStays
<1> QED
  BY <1>3, <1>4 DEF Arrival

\* The directories of process_0 are new.
LEMMA OneNameProcess0 ==
    ASSUME FsckInv, FsckInv', OneNameInv, Process0
    PROVE  OneNameInv'
<1>0. TypeInv /\ TypeInv'
  BY DEF FsckInv
<1>f. PICK f : f = fsck_ino'
  OBVIOUS
<1>l. PICK l : LostFoundOf(l)
  BY DEF LostFoundOf
<1>1. /\ todo = <<>> /\ f \in Inodes /\ kind[f] = "none" /\ f \notin Foreign
      /\ l \in Inodes /\ l # f
  BY <1>0, <1>f, <1>l, Process0Does
<1>2. UNCHANGED <<kind, meta, crashes, doubled>>
  BY DEF Process0, Turn, history
<1>3. \A w \in Elements(todo') : IsName(w) =>
          \/ w.ino = l /\ w.key = OrphanName[f] /\ w.to = f
          \/ /\ w.ino = Root /\ w.key = "lost+found" /\ w.to = l
             /\ kind[l] = "none" /\ l \notin Foreign
  BY <1>0, <1>f, <1>l, Process0Names
<1>4. ASSUME NEW w \in Elements(todo'), IsName(w) PROVE NamedOnce(w)'
  <2>1. w.to \in Inodes /\ kind'[w.to] = "none" /\ w.to \notin Foreign
    BY <1>1, <1>2, <1>3, <1>4
  <2>2. \A b \in Elements(todo') : IsName(b) /\ b.to = w.to => b.ino = w.ino /\ b.key = w.key
    BY <1>1, <1>3, <1>4
  <2> QED
    BY <1>0, <2>1, <2>2, NewNamedOnce
<1>5. NamesOnce'
  BY <1>4 DEF NamesOnce, IsName
<1> QED
  BY <1>1, <1>2, <1>5, OneNameHandled

\* process_2 gives a name besides another only to what is then in doubled.
LEMMA OneNameProcess2 ==
    ASSUME FsckInv, FsckInv', OneNameInv, Process2
    PROVE  OneNameInv'
<1>0. TypeInv /\ TypeInv' /\ Tree
  <2>1. TypeInv /\ TypeInv'
    BY DEF FsckInv
  <2> QED
    BY <2>1, TypedTree
<1>1. /\ todo = <<>> /\ UNCHANGED <<kind, known, meta, crashes>>
      /\ Elements(todo') = {destroyInode(i) : i \in Dropped}
            \cup {setInodeMeta(fsck_ino, OrphanName[i], i) : i \in Connected}
  BY <1>0, Process2Does
<1>2. doubled' = doubled \cup {i \in Connected : kind[i] = "dir" /\ \E d \in Inodes : i \in Kids[d]}
  BY DEF Process2
<1>3. ASSUME NEW w \in Elements(todo'), IsName(w)
      PROVE  \E i \in Connected : w.ino = fsck_ino /\ w.key = OrphanName[i] /\ w.to = i
  <2>1. \A i : destroyInode(i).what = "destroy"
    BY WriteFields
  <2>2. PICK i \in Connected : w = setInodeMeta(fsck_ino, OrphanName[i], i)
    BY <1>1, <1>3, <2>1 DEF IsName
  <2> QED
    BY <2>2, WriteFields
<1>4. \A i \in Connected : i \in Inodes /\ kind[i] \in {"link", "dir"}
  BY DEF Connected
<1>5. ASSUME NEW w \in Elements(todo'), IsName(w), kind[w.to] # "link", w.to \notin doubled'
      PROVE  NamedOnce(w)'
  <2>1. PICK i \in Connected : w.ino = fsck_ino /\ w.key = OrphanName[i] /\ w.to = i
    BY <1>3, <1>5
  <2>2. \A d \in Inodes : i \notin Kids[d]
    BY <1>2, <1>4, <1>5, <2>1
  <2>3. \A d \in Inodes : \A n : ~ Leads(d, n, i)
    BY <1>0, <2>2 DEF Tree
  <2>4. \A d \in Inodes : \A n : ~ Stays(d, n, i)'
    BY <1>1, <2>3 DEF Stays, Leads, NamesIn
  <2>5. \A b \in Elements(todo') : IsName(b) /\ b.to = i => b.ino = w.ino /\ b.key = w.key
    BY <1>3, <2>1
  <2> QED
    BY <2>1, <2>4, <2>5 DEF NamedOnce, IsName
<1>6. NamesOnce'
  BY <1>1, <1>5 DEF NamesOnce, IsName
<1> QED
  BY <1>1, <1>2, <1>6, OneNameHandled

\* Every step keeps the names of directories.
LEMMA OneNameKeeps == FsckInv /\ FsckInv' /\ OneNameInv /\ [FsckNext]_allVars => OneNameInv'
<1> SUFFICES ASSUME FsckInv, FsckInv', OneNameInv, [FsckNext]_allVars PROVE OneNameInv'
  OBVIOUS
<1>0. TypeInv
  BY DEF FsckInv
<1>1. CASE PlainRequest /\ UNCHANGED <<fsckVars, history>>
  BY <1>1, OneNameRequest DEF history
<1>2. CASE Write /\ UNCHANGED <<fsckVars, history>>
  BY <1>2, OneNameWrite
<1>3. CASE (MovingRequest \/ Arrival) /\ UNCHANGED <<fsckVars, doubled>>
  BY <1>3, OneNameRequest, OneNameArrival
<1>4. CASE Process0 \/ Process2
  BY <1>4, OneNameProcess0, OneNameProcess2
<1>5. CASE Process1
  <2>1. /\ todo = <<>> /\ UNCHANGED <<kind, meta, crashes>>
        /\ Elements(todo') =
              {removeInodeMeta(scan_inode, n) :
                  n \in {k \in ScanKeys : meta[scan_inode][k] \notin known}}
    BY <1>0, <1>5, Process1Does
  <2>2. \A w \in Elements(todo') : w.what = "remove"
    BY <2>1, WriteFields
  <2>3. NamesOnce'
    BY <2>2 DEF NamesOnce, IsName
  <2>4. UNCHANGED doubled
    BY <1>5 DEF Process1, history
  <2> QED
    BY <2>1, <2>3, <2>4, OneNameHandled
<1>6. CASE Process3
  <2>1. todo = <<>> /\ todo' = <<>> /\ UNCHANGED <<kind, meta, crashes, doubled>>
    BY <1>6 DEF Process3, Turn, Ended
  <2>2. NamesOnce'
    BY <2>1 DEF NamesOnce, Elements
  <2> QED
    BY <2>1, <2>2, OneNameHandled
<1>7. CASE Crash
  <2>1. crashes' = crashes + 1 /\ crashes \in Nat
    BY <1>0, <1>7, NamespaceAssumption DEF Crash, TypeInv, FsckTypes, TypeOK
  <2> QED
    BY <2>1 DEF OneNameInv
<1>8. CASE UNCHANGED allVars
  <2>1. UNCHANGED <<kind, meta, todo, crashes, doubled>>
    BY <1>8 DEF allVars, vars, history
  <2>2. \A d, n, i : Stays(d, n, i)' <=> Stays(d, n, i)
    BY <2>1 DEF Stays, Leads, NamesIn, Removes
  <2>3. \A w : NamedOnce(w) => NamedOnce(w)'
    BY <2>1, <2>2 DEF NamedOnce, IsName
  <2>4. NamesOnce => NamesOnce'
    BY <2>1, <2>3 DEF NamesOnce, IsName
  <2> QED
    BY <2>1, <2>2, <2>4 DEF OneNameInv, OneName
<1> QED
  BY <1>1, <1>2, <1>3, <1>4, <1>5, <1>6, <1>7, <1>8 DEF FsckNext

\* The directories there in the beginning have one name.
LEMMA OneNameInit == FsckInit => OneNameInv
<1> SUFFICES ASSUME FsckInit PROVE OneNameInv
  OBVIOUS
<1>1. kind = InitKind /\ meta = InitMeta /\ todo = <<>>
  BY DEF FsckInit, Init
<1>2. NamesOnce
  BY <1>1 DEF NamesOnce, Elements
<1>3. \A d, n, i : Stays(d, n, i) <=> Leads(d, n, i)
  BY <1>1, AllStay
<1>4. ASSUME NEW d \in Inodes, NEW e \in Inodes, NEW i \in Inodes, NEW m \in Keys, NEW n \in Keys,
             Leads(d, m, i), Leads(e, n, i), kind[i] = "dir"
      PROVE  d = e /\ m = n
  BY <1>1, <1>4, TreeAssumption DEF Leads, NamesIn
<1> QED
  BY <1>2, <1>3, <1>4 DEF OneNameInv, OneName

(***************************************************************************)
(* Until the process dies, a directory has one name between handlers,      *)
(* whatever the requests, fsck and other nodes do: rename writes the new   *)
(* name and then removes the old one, and process_2 alone gives a name to  *)
(* a directory that has another.                                           *)
(***************************************************************************)
THEOREM OneNameEach == FsckSpec => []DirectoriesHaveOneName
<1>1. FsckInv /\ OneNameInv => DirectoriesHaveOneName
  <2> SUFFICES ASSUME FsckInv, OneName, todo = <<>>,
                      NEW a \in AllNames, NEW b \in AllNames,
                      kind[meta[a[1]][a[2]]] = "dir", meta[a[1]][a[2]] \notin doubled,
                      meta[a[1]][a[2]] = meta[b[1]][b[2]]
               PROVE  a = b
    BY DEF DirectoriesHaveOneName, OneNameInv
  <2>1. TypeInv /\ Tree
    <3>1. TypeInv
      BY DEF FsckInv
    <3> QED
      BY <3>1, TypedTree
  <2>2. ASSUME NEW c \in AllNames
        PROVE  \E d \in Inodes, n \in Keys : c = <<d, n>> /\ Leads(d, n, meta[d][n]) /\ meta[d][n] \in Inodes
    <3>1. PICK d \in Reachable : kind[d] = "dir" /\ c \in {<<d, n>> : n \in NamesIn(d)}
      BY DEF AllNames
    <3>2. PICK n \in NamesIn(d) : c = <<d, n>>
      BY <3>1
    <3>3. d \in Inodes
      BY <2>1 DEF Tree
    <3>4. n \in Keys /\ meta[d][n] \in Inodes
      BY <2>1, <3>1, <3>3, EntryLeads
    <3> QED
      BY <3>1, <3>2, <3>3, <3>4 DEF Leads
  <2>3. PICK d \in Inodes, m \in Keys : a = <<d, m>> /\ Leads(d, m, meta[d][m]) /\ meta[d][m] \in Inodes
    BY <2>2
  <2>4. PICK e \in Inodes, n \in Keys : b = <<e, n>> /\ Leads(e, n, meta[e][n])
    BY <2>2
  <2>5. PICK i : i = meta[d][m]
    OBVIOUS
  <2>6. meta[e][n] = i /\ i \in Inodes /\ kind[i] = "dir" /\ i \notin doubled
    BY <2>3, <2>4, <2>5
  <2>7. Stays(d, m, i) /\ Stays(e, n, i)
    BY <2>3, <2>4, <2>5, <2>6, AllStay
  <2> QED
    BY <2>3, <2>4, <2>6, <2>7 DEF OneName
<1> QED
  BY <1>1, OneNameInit, OneNameKeeps, FsckInvHolds, PTL DEF FsckSpec
=============================================================================
