--------------------------- MODULE NumberProofs ---------------------------
(***************************************************************************)
(* Facts about numbers that the other proofs share: sets of naturals have  *)
(* a least and, when bounded, a greatest element; and the numbers of       *)
(* NodeStamps grow, and as long as a counter starts at 0 they end like the *)
(* id of their node.                                                       *)
(***************************************************************************)
EXTENDS NodeStamps, WellFoundedInduction, TLAPS

\* What is not so for all numbers is first not so for one: this is induction.
LEMMA LeastNatural ==
    ASSUME NEW T \in SUBSET Nat, T # {}
    PROVE  \E x \in T : \A y \in T : x <= y
<1> DEFINE R == OpToRel(<, Nat)
<1>1. IsWellFoundedOn(R, Nat)
  BY NatLessThanWellFounded
<1>2. \A x, y \in Nat : y < x => <<y, x>> \in R
  BY DEF OpToRel
<1> HIDE DEF R
<1>3. PICK x \in T : \A y \in T : ~ (<<y, x>> \in R)
  BY <1>1, WFMin
<1>4. ASSUME NEW y \in T PROVE x <= y
  <2>1. x \in Nat /\ y \in Nat
    OBVIOUS
  <2>2. ~ (<<y, x>> \in R)
    BY <1>3
  <2>3. ~ (y < x)
    BY <1>2, <2>1, <2>2
  <2> QED
    BY <2>1, <2>3
<1> QED
  BY <1>4

\* The least of the bounds of a set is in the set.
LEMMA GreatestNatural ==
    ASSUME NEW S \in SUBSET Nat, S # {}, NEW b \in Nat, \A s \in S : s <= b
    PROVE  \E x \in S : \A y \in S : y <= x
<1> DEFINE T == {t \in Nat : \A s \in S : s <= t}
<1>1. T \in SUBSET Nat /\ T # {}
  OBVIOUS
<1>2. PICK t \in T : \A u \in T : t <= u
  <2> HIDE DEF T
  <2> QED
    BY <1>1, LeastNatural
<1>3. t \in S
  <2> SUFFICES ASSUME t \notin S PROVE FALSE
    OBVIOUS
  <2>1. \A s \in S : s \in Nat /\ s <= t /\ s # t
    OBVIOUS
  <2>2. PICK s \in S : TRUE
    OBVIOUS
  <2>3. t - 1 \in Nat /\ \A u \in S : u <= t - 1
    BY <2>1, <2>2
  <2>4. t - 1 \in T
    BY <2>3
  <2>5. ~ (t <= t - 1)
    OBVIOUS
  <2> QED
    BY <1>2, <2>4, <2>5
<1> QED
  BY <1>3

-----------------------------------------------------------------------------

\* A stamp is a natural number above the last one of the same counter.
LEMMA StampGrows ==
    ASSUME NEW ms \in Nat, NEW id \in Nat, NEW last \in Nat
    PROVE  Stamp(ms, id, last) \in Nat /\ Stamp(ms, id, last) > last
  BY DEF Stamp

\* The last two digits of a number.
LowDigits(k) == k % 100

\* Adding 100 keeps the last two digits: all stamps of a counter that starts
\* at 0 end like the id of their node.
LEMMA StampResidue ==
    ASSUME NEW ms \in Nat, NEW id \in Nat, NEW last \in Nat,
           last = 0 \/ LowDigits(last) = LowDigits(id)
    PROVE  LowDigits(Stamp(ms, id, last)) = LowDigits(id)
<1> DEFINE new == ms * 1000 + id
<1>1. CASE new > last
  <2>1. Stamp(ms, id, last) = new
    BY <1>1 DEF Stamp
  <2>2. LowDigits(new) = LowDigits(id)
    BY DEF LowDigits
  <2> QED
    BY <2>1, <2>2
<1>2. CASE new <= last
  <2>1. Stamp(ms, id, last) = last + 100
    BY <1>2 DEF Stamp
  <2>2. LowDigits(last + 100) = LowDigits(last)
    BY DEF LowDigits
  <2>3. LowDigits(last) = LowDigits(id)
    <3>1. CASE last = 0
      <4>1. id = 0
        BY <1>2, <3>1
      <4> QED
        BY <3>1, <4>1
    <3> QED
      BY <3>1
  <2> QED
    BY <2>1, <2>2, <2>3
<1> QED
  BY <1>1, <1>2

\* So do numbers that are hundreds apart.
LEMMA HundredsApart ==
    ASSUME NEW r \in Nat, NEW k \in Nat
    PROVE  LowDigits(r + 100 * k) = LowDigits(r)
  BY DEF LowDigits
===============================================================================
