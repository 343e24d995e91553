--------------------------- MODULE RingArithmetic ---------------------------
(***************************************************************************)
(* Lemmas about the remainders by which a queue finds the slot of a        *)
(* position and a philosopher his neighbour.                               *)
(***************************************************************************)
EXTENDS Integers, WellFoundedInduction, TLAPS

\* Division with remainder, in the form the other lemmas use.
LEMMA DivMod ==
  ASSUME NEW c \in Nat, c > 0, NEW p \in Nat
  PROVE  /\ p % c \in 0..(c - 1)
         /\ p \div c \in Int
         /\ p = c * (p \div c) + (p % c)
BY SMT

\* Quotient and remainder are unique.
LEMMA Euclid ==
  ASSUME NEW c \in Nat, c > 0, NEW d \in Int, NEW e \in Int,
         NEW m \in 0..(c - 1), NEW n \in 0..(c - 1),
         c * d + m = c * e + n
  PROVE  m = n
<1>1. c * (d - e) = n - m
  BY SMT
<1>2. d - e \in Int /\ n - m > -c /\ n - m < c
  BY SMT
<1>3. CASE d - e >= 1
  <2>1. c * (d - e) >= c
    BY <1>2, <1>3, SMT
  <2> QED BY <1>1, <1>2, <2>1, SMT
<1>4. CASE d - e <= -1
  <2>1. c * (d - e) <= -c
    BY <1>2, <1>4, SMT
  <2> QED BY <1>1, <1>2, <2>1, SMT
<1> QED BY <1>1, <1>2, <1>3, <1>4, SMT

\* A remainder is known from any decomposition.
LEMMA ModIs ==
  ASSUME NEW c \in Nat, c > 0, NEW p \in Nat,
         NEW d \in Int, NEW m \in 0..(c - 1), p = c * d + m
  PROVE  p % c = m
<1>1. /\ p % c \in 0..(c - 1)
      /\ p \div c \in Int
      /\ c * (p \div c) + (p % c) = c * d + m
  BY DivMod
<1> QED BY <1>1, Euclid

\* Going around the whole ring leads back to the same slot.
LEMMA ModRound ==
  ASSUME NEW c \in Nat, c > 0, NEW p \in Nat
  PROVE  (p + c) % c = p % c
<1> DEFINE d == p \div c
           m == p % c
<1>1. d \in Int /\ m \in 0..(c - 1) /\ p = c * d + m
  BY DivMod
<1> HIDE DEF d, m
<1>2. d + 1 \in Int /\ p + c \in Nat /\ p + c = c * (d + 1) + m
  BY <1>1, SMT
<1>3. (p + c) % c = m
  BY <1>1, <1>2, ModIs
<1> QED BY <1>3 DEF m

\* The successor of a position is in the next slot, the last one's in the
\* first.
LEMMA ModNext ==
  ASSUME NEW c \in Nat, c > 0, NEW p \in Nat
  PROVE  (p + 1) % c = IF (p % c) + 1 = c THEN 0 ELSE (p % c) + 1
<1> DEFINE d == p \div c
           m == p % c
<1>1. d \in Int /\ m \in 0..(c - 1) /\ p = c * d + m
  BY DivMod
<1> HIDE DEF d, m
<1>2. p + 1 \in Nat
  OBVIOUS
<1>3. CASE m + 1 = c
  <2>1. d + 1 \in Int /\ 0 \in 0..(c - 1) /\ p + 1 = c * (d + 1) + 0
    BY <1>1, <1>3, SMT
  <2>2. (p + 1) % c = 0
    BY <1>2, <2>1, ModIs
  <2> QED BY <1>3, <2>2 DEF m
<1>4. CASE m + 1 # c
  <2>1. m + 1 \in 0..(c - 1) /\ p + 1 = c * d + (m + 1)
    BY <1>1, <1>4, SMT
  <2>2. (p + 1) % c = m + 1
    BY <1>1, <1>2, <2>1, ModIs
  <2> QED BY <1>4, <2>2 DEF m
<1> QED BY <1>3, <1>4

\* With two slots or more, neighbouring positions are in different slots.
LEMMA ModNeighbours ==
  ASSUME NEW c \in Nat, c > 1, NEW p \in Nat
  PROVE  (p + 1) % c # p % c
<1>1. c > 0
  BY SMT
<1>2. (p + 1) % c = IF (p % c) + 1 = c THEN 0 ELSE (p % c) + 1
  BY <1>1, ModNext
<1>3. p % c \in 0..(c - 1)
  BY <1>1, DivMod
<1> QED BY <1>2, <1>3, SMT
-----------------------------------------------------------------------------
(***************************************************************************)
(* Induction, in the form of a set: the library's induction theorem takes  *)
(* an operator, its well-founded relations only take sets.                 *)
(***************************************************************************)
LessThan == {ss \in Nat \X Nat : ss[1] < ss[2]}

\* Every set of natural numbers that is not empty has a least element.
LEMMA LeastNat ==
  ASSUME NEW T \in SUBSET Nat, T # {}
  PROVE  \E m \in T : \A n \in T : m <= n
<1>1. IsWellFoundedOn(LessThan, Nat)
  BY NatLessThanWellFounded DEF OpToRel, LessThan
<1>2. PICK m \in T : \A n \in T : ~(<<n, m>> \in LessThan)
  BY <1>1, WFMin, Zenon
<1>3. \A n \in T : ~(n < m)
  BY <1>2 DEF LessThan
<1> QED BY <1>3

LEMMA NatSetInduction ==
  ASSUME NEW T, 0 \in T, \A n \in Nat : n \in T => n + 1 \in T
  PROVE  Nat \subseteq T
<1> SUFFICES ASSUME Nat \ T # {} PROVE FALSE
  OBVIOUS
<1>1. PICK m \in Nat \ T : \A n \in Nat \ T : m <= n
  BY LeastNat
<1>2. m - 1 \in Nat /\ m - 1 \notin Nat \ T
  BY <1>1
<1> QED BY <1>1, <1>2

\* A set on a ring that holds the successor of each of its elements, and some
\* element, is the whole ring.
LEMMA RingClosed ==
  ASSUME NEW c \in Nat, c > 0, NEW S \in SUBSET (0..(c - 1)), NEW h \in S,
         \A x \in S : (x + 1) % c \in S
  PROVE  S = 0..(c - 1)
<1> DEFINE T == {n \in Nat : (h + n) % c \in S}
<1>1. h \in Nat /\ h \in 0..(c - 1)
  OBVIOUS
<1>2. 0 \in T
  <2>1. h = c * 0 + h /\ 0 \in Int
    BY <1>1, SMT
  <2>2. h % c = h
    BY <1>1, <2>1, ModIs
  <2> QED BY <1>1, <2>2
<1>3. ASSUME NEW n \in Nat, n \in T
      PROVE  n + 1 \in T
  <2> DEFINE m == (h + n) % c
  <2>1. m \in S /\ m \in Nat /\ m \in 0..(c - 1)
    BY <1>3
  <2>2. (m + 1) % c \in S
    BY <2>1
  <2>3. h + n \in Nat /\ h + (n + 1) = (h + n) + 1
    BY <1>1
  <2>4. ((h + n) + 1) % c = IF m + 1 = c THEN 0 ELSE m + 1
    BY <2>3, ModNext
  <2>5. m % c = m
    <3>1. m = c * 0 + m /\ 0 \in Int
      BY <2>1, SMT
    <3> QED BY <2>1, <3>1, ModIs
  <2>6. (m + 1) % c = IF m + 1 = c THEN 0 ELSE m + 1
    <3>1. (m + 1) % c = IF (m % c) + 1 = c THEN 0 ELSE (m % c) + 1
      BY <2>1, ModNext
    <3> QED BY <2>5, <3>1
  <2>7. (h + (n + 1)) % c = (m + 1) % c
    BY <2>3, <2>4, <2>6
  <2> QED BY <2>2, <2>7
<1>4. Nat \subseteq T
  <2> HIDE DEF T
  <2> QED BY <1>2, <1>3, NatSetInduction
<1>5. ASSUME NEW y \in 0..(c - 1)
      PROVE  y \in S
  <2>1. (y - h) + c \in Nat /\ h + ((y - h) + c) = y + c /\ y \in Nat
    BY <1>1, SMT
  <2>2. (h + ((y - h) + c)) % c \in S
    BY <1>4, <2>1
  <2>3. (y + c) % c = y % c
    BY <2>1, ModRound
  <2>4. y % c = y
    <3>1. y = c * 0 + y /\ 0 \in Int
      BY <2>1, SMT
    <3> QED BY <2>1, <3>1, ModIs
  <2> QED BY <2>1, <2>2, <2>3, <2>4
<1> QED BY <1>5
=============================================================================
