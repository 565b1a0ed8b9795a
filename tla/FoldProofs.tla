----------------------------- MODULE FoldProofs ------------------------------
(***************************************************************************)
(* What the other proofs need of sets of numbers and of folds.  A set does *)
(* here what an operator does in a rule of induction; and what FoldLeft    *)
(* gives is a function of the sets of indices, which exists.               *)
(***************************************************************************)
EXTENDS Integers, FiniteSetsExt, WellFoundedInduction, TLAPS

-----------------------------------------------------------------------------
(* Sets of numbers *)

LEMMA LeastNat ==
    ASSUME NEW S \in SUBSET Nat, S # {}
    PROVE  Min(S) \in S /\ \A y \in S : Min(S) <= y
<1> DEFINE R == {ss \in Nat \X Nat : ss[1] < ss[2]}
<1>1. IsWellFoundedOn(R, Nat)
  BY NatLessThanWellFounded DEF OpToRel
<1>2. PICK x \in S : \A y \in S : ~(<<y, x>> \in R)
  <2> HIDE DEF R
  <2> QED BY <1>1, WFMin
<1>3. ASSUME NEW y \in S PROVE x <= y
  <2>1. x \in Nat /\ y \in Nat
    OBVIOUS
  <2>2. ~(y < x)
    BY <1>2, <2>1
  <2> QED BY <2>1, <2>2
<1> QED BY <1>3 DEF Min

\* What holds of 0, and of a number with the one before it, holds of all: the
\* numbers up to n that have it are a set, so that no operator is needed.
LEMMA AllNat ==
    ASSUME NEW S \in SUBSET Nat, 0 \in S, \A n \in S : n + 1 \in S
    PROVE  S = Nat
<1> SUFFICES ASSUME S # Nat PROVE FALSE
  OBVIOUS
<1>1. PICK m : m = Min(Nat \ S)
  OBVIOUS
<1>2. m \in Nat \ S /\ \A y \in Nat \ S : m <= y
  BY <1>1, LeastNat
<1>3. m - 1 \in Nat
  BY <1>2
<1>4. m - 1 \in S
  BY <1>2, <1>3
<1>5. (m - 1) + 1 \in S
  BY <1>4
<1> QED BY <1>2, <1>5

\* The largest of a set of numbers that has one, and none above n.
LEMMA GreatestNat ==
    ASSUME NEW S \in SUBSET Nat, S # {}, NEW n \in Nat, \A y \in S : y <= n
    PROVE  Max(S) \in S /\ \A y \in S : y <= Max(S)
<1> DEFINE T == {n - y : y \in S}
<1>1. T \in SUBSET Nat /\ T # {}
  <2>1. \A y \in S : n - y \in Nat
    OBVIOUS
  <2> QED BY <2>1
<1>2. PICK t \in T : \A u \in T : t <= u
  BY <1>1, LeastNat
<1>3. PICK x \in S : t = n - x
  BY <1>2
<1>4. ASSUME NEW y \in S PROVE x >= y
  <2>1. n - y \in T
    OBVIOUS
  <2>2. t <= n - y
    BY <1>2, <2>1
  <2> QED BY <1>3, <2>2
<1> QED BY <1>4 DEF Max

-----------------------------------------------------------------------------
(* Folds *)

\* One step of a fold, as a function of the subsets of 1 .. m.
FoldsTo(f, m, base, step, text) ==
    \A s \in SUBSET (1 .. m) :
        f[s] = IF s = {} THEN base ELSE step[<<f[s \ {Max(s)}], text[Max(s)]>>]

LEMMA MaxAt ==
    ASSUME NEW m \in Nat, NEW s \in SUBSET (1 .. m + 1), m + 1 \in s
    PROVE  Max(s) = m + 1 /\ s \ {m + 1} \in SUBSET (1 .. m)
<1>1. s \in SUBSET Nat /\ \A y \in s : y <= m + 1
  OBVIOUS
<1>2. Max(s) \in s /\ \A y \in s : y <= Max(s)
  BY <1>1, GreatestNat
<1>3. Max(s) = m + 1
  <2>1. m + 1 <= Max(s) /\ Max(s) <= m + 1 /\ Max(s) \in Nat
    BY <1>1, <1>2
  <2> QED BY <2>1
<1>4. \A y \in s \ {m + 1} : y \in 1 .. m
  OBVIOUS
<1> QED BY <1>3, <1>4

\* The recursive function that a fold over text is defined by exists: it is
\* built for the subsets of 1 .. m, and from them for those of 1 .. m + 1.
LEMMA FoldExists ==
    ASSUME NEW D, NEW C, NEW step \in [D \X C -> D], NEW base \in D,
           NEW n \in Nat, NEW text, \A i \in 1 .. n : text[i] \in C
    PROVE  \E f \in [SUBSET (1 .. n) -> D] : FoldsTo(f, n, base, step, text)
<1> DEFINE Has(m) == \E f \in [SUBSET (1 .. m) -> D] : FoldsTo(f, m, base, step, text)
           S == {m \in Nat : m <= n => Has(m)}
<1>1. 0 \in S
  <2>1. 1 .. 0 = {}
    OBVIOUS
  <2>2. PICK f : f = [s \in SUBSET (1 .. 0) |-> base]
    OBVIOUS
  <2>3. f \in [SUBSET (1 .. 0) -> D] /\ FoldsTo(f, 0, base, step, text)
    BY <2>1, <2>2 DEF FoldsTo
  <2> QED BY <2>3
<1>2. ASSUME NEW m \in Nat, m <= n => Has(m), m + 1 <= n PROVE Has(m + 1)
  <2>1. Has(m) /\ m + 1 \in 1 .. n
    <3>1. m <= n
      BY <1>2
    <3> HIDE DEF Has
    <3> QED BY <1>2, <3>1
  <2>2. PICK f \in [SUBSET (1 .. m) -> D] : FoldsTo(f, m, base, step, text)
    BY <2>1
  <2> DEFINE Next1(s) == IF m + 1 \in s THEN step[<<f[s \ {m + 1}], text[m + 1]>>] ELSE f[s]
             g == [s \in SUBSET (1 .. m + 1) |-> Next1(s)]
  <2>3. ASSUME NEW s \in SUBSET (1 .. m + 1)
        PROVE  /\ Next1(s) \in D
               /\ s \in SUBSET (1 .. m) => Next1(s) = f[s]
               /\ m + 1 \notin s => s \in SUBSET (1 .. m)
    <3>1. CASE m + 1 \in s
      <4>1. s \ {m + 1} \in SUBSET (1 .. m) /\ ~(s \in SUBSET (1 .. m))
        <5>1. m + 1 \notin 1 .. m
          OBVIOUS
        <5> QED BY <3>1, <5>1, MaxAt
      <4>2. <<f[s \ {m + 1}], text[m + 1]>> \in D \X C
        BY <2>1, <4>1
      <4> QED BY <3>1, <4>1, <4>2
    <3>2. CASE m + 1 \notin s
      <4>1. s \in SUBSET (1 .. m)
        BY <2>1, <3>2
      <4> QED BY <3>2, <4>1
    <3> QED BY <3>1, <3>2
  <2> HIDE DEF Next1
  <2>4. g \in [SUBSET (1 .. m + 1) -> D] /\ \A s \in SUBSET (1 .. m + 1) : g[s] = Next1(s)
    BY <2>3
  <2> HIDE DEF g
  <2>5. ASSUME NEW s \in SUBSET (1 .. m + 1)
        PROVE  g[s] = IF s = {} THEN base ELSE step[<<g[s \ {Max(s)}], text[Max(s)]>>]
    <3>1. CASE m + 1 \in s
      <4>1. Max(s) = m + 1 /\ s \ {m + 1} \in SUBSET (1 .. m)
        BY <2>1, <3>1, MaxAt
      <4>2. s \ {m + 1} \in SUBSET (1 .. m + 1)
        OBVIOUS
      <4>3. g[s \ {m + 1}] = f[s \ {m + 1}]
        BY <2>3, <2>4, <4>1, <4>2
      <4> QED BY <2>4, <3>1, <4>1, <4>3 DEF Next1
    <3>2. CASE m + 1 \notin s
      <4>1. s \in SUBSET (1 .. m) /\ g[s] = f[s]
        BY <2>3, <2>4, <3>2
      <4>2. CASE s = {}
        BY <2>2, <4>1, <4>2 DEF FoldsTo
      <4>3. CASE s # {}
        <5>1. f[s] = step[<<f[s \ {Max(s)}], text[Max(s)]>>]
          BY <2>2, <4>1, <4>3 DEF FoldsTo
        <5>2. s \ {Max(s)} \in SUBSET (1 .. m) /\ s \ {Max(s)} \in SUBSET (1 .. m + 1)
          BY <4>1
        <5>3. g[s \ {Max(s)}] = f[s \ {Max(s)}]
          BY <2>3, <2>4, <5>2
        <5> QED BY <4>1, <4>3, <5>1, <5>3
      <4> QED BY <4>2, <4>3
    <3> QED BY <3>1, <3>2
  <2> QED BY <2>4, <2>5 DEF FoldsTo
<1> HIDE DEF Has
<1>3. S \in SUBSET Nat /\ \A m \in S : m + 1 \in S
  BY <1>2
<1>4. n \in S
  <2> HIDE DEF S
  <2> QED BY <1>1, <1>3, AllNat
<1>5. Has(n)
  BY <1>4
<1> QED BY <1>5 DEF Has

LEMMA FoldRuns ==
    ASSUME NEW n \in Nat, NEW base, NEW step, NEW text, NEW f, FoldsTo(f, n, base, step, text)
    PROVE  /\ f[1 .. 0] = base
           /\ \A k \in 1 .. n : f[1 .. k] = step[<<f[1 .. (k - 1)], text[k]>>]
<1>1. 1 .. 0 = {} /\ 1 .. 0 \in SUBSET (1 .. n)
  OBVIOUS
<1>2. ASSUME NEW k \in 1 .. n PROVE f[1 .. k] = step[<<f[1 .. (k - 1)], text[k]>>]
  <2>1. PICK s : s = 1 .. k
    OBVIOUS
  <2>2. k - 1 \in Nat /\ s \in SUBSET (1 .. (k - 1) + 1) /\ (k - 1) + 1 \in s /\ (k - 1) + 1 = k
    BY <2>1
  <2>3. Max(s) = k
    BY <2>2, MaxAt
  <2>4. s \ {k} = 1 .. (k - 1) /\ s # {} /\ s \in SUBSET (1 .. n)
    BY <2>1
  <2>5. f[s] = step[<<f[s \ {Max(s)}], text[Max(s)]>>]
    BY <2>4 DEF FoldsTo
  <2> QED BY <2>1, <2>3, <2>4, <2>5
<1> QED BY <1>1, <1>2 DEF FoldsTo
=============================================================================
