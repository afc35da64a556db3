---------------------------- MODULE FoldTheorems -----------------------------
(***************************************************************************)
(* What FoldLeft of the community modules computes, for every sequence.    *)
(*                                                                         *)
(* Op is a parameter of the module because a theorem cannot have one: a    *)
(* specification that folds an operator of its own over a sequence         *)
(* instantiates this module with that operator.  The first argument of Op  *)
(* is whatever the operator depends on besides the two it folds.           *)
(***************************************************************************)
EXTENDS Integers, SequencesExt, WellFoundedInduction, TLAPS

CONSTANT Op(_, _, _)

Fold(p, base, seq) ==
    LET Step(x, y) == Op(p, x, y) IN FoldLeft(Step, base, seq)

(* f[i] is what the fold has made of the first i elements.                 *)
IsRun(f, p, base, seq) ==
    /\ f[0] = base
    /\ \A i \in 1..Len(seq) : f[i] = Op(p, f[i-1], seq[i])

(* The function of sets of indexes by which FoldLeft is defined.           *)
Iterates(h, p, base, seq, D) ==
    h = [s \in SUBSET D |->
            IF s = {} THEN base ELSE Op(p, h[s \ {Max(s)}], seq[Max(s)])]

-----------------------------------------------------------------------------
(* Induction, without an operator for what is proved: the numbers for      *)
(* which it holds are a set.  A number that were missing from the set      *)
(* would have a least one beside it, which is neither 0 nor a successor.   *)
LEMMA NatSetInduction ==
    ASSUME NEW S, 0 \in S, \A n \in Nat : n \in S => n + 1 \in S
    PROVE  Nat \subseteq S
  <1>. DEFINE T == Nat \ S
              R == OpToRel(<, Nat)
  <1>1. SUFFICES ASSUME T # {}
                 PROVE  FALSE
    OBVIOUS
  <1>2. T \subseteq Nat
    OBVIOUS
  <1>3. IsWellFoundedOn(R, Nat)
    BY NatLessThanWellFounded
  <1>4. PICK x \in T : \A y \in T : ~(<<y, x>> \in R)
    <2>. HIDE DEF T, R
    <2>. QED  BY <1>1, <1>2, <1>3, WFMin
  <1>5. \A y \in T : ~(y < x)
    BY <1>2, <1>4 DEF OpToRel
  <1>6. x \in Nat /\ x \notin S /\ x # 0
    OBVIOUS
  <1>7. x - 1 \in Nat /\ x - 1 < x /\ (x - 1) + 1 = x
    BY <1>6
  <1>8. x - 1 \in S
    BY <1>5, <1>7
  <1>. QED  BY <1>6, <1>7, <1>8

(* Induction up to a number.                                               *)
LEMMA UpToInduction ==
    ASSUME NEW S, NEW n \in Nat, 0 \in S, \A i \in 1..n : i - 1 \in S => i \in S
    PROVE  0..n \subseteq S
  <1>. DEFINE T == {i \in Nat : i <= n => i \in S}
  <1>1. 0 \in T
    OBVIOUS
  <1>2. ASSUME NEW i \in Nat, i \in T
        PROVE  i + 1 \in T
    <2>1. SUFFICES ASSUME i + 1 <= n
                   PROVE  i + 1 \in S
      OBVIOUS
    <2>2. i \in S /\ i + 1 \in 1..n /\ (i + 1) - 1 = i
      BY <1>2, <2>1
    <2>. QED  BY <2>2
  <1>3. Nat \subseteq T
    <2>. HIDE DEF T
    <2>. QED  BY <1>1, <1>2, NatSetInduction
  <1>. QED  BY <1>3

(* A set of numbers that is not empty has a least one, and a greatest one  *)
(* when it has a bound: Min and Max choose those.                          *)
LEMMA MinOf ==
    ASSUME NEW S \in SUBSET Nat, S # {}
    PROVE  Min(S) \in S /\ \A y \in S : Min(S) <= y
  <1>. DEFINE R == OpToRel(<, Nat)
  <1>1. IsWellFoundedOn(R, Nat)
    BY NatLessThanWellFounded
  <1>2. PICK x \in S : \A y \in S : ~(<<y, x>> \in R)
    <2>. HIDE DEF R
    <2>. QED  BY <1>1, WFMin
  <1>3. ASSUME NEW y \in S
        PROVE  x <= y
    <2>1. x \in Nat /\ y \in Nat /\ ~(y < x)
      BY <1>2 DEF OpToRel
    <2>. QED  BY <2>1
  <1>. QED  BY <1>3, Zenon DEF Min

LEMMA MaxIn ==
    ASSUME NEW n \in Nat, NEW S \in SUBSET (0..n), S # {}
    PROVE  Max(S) \in S /\ \A y \in S : Max(S) >= y
  <1>. DEFINE T == {n - y : y \in S}
  <1>1. T \in SUBSET Nat /\ T # {}
    <2>1. ASSUME NEW y \in S
          PROVE  n - y \in Nat
      <3>1. y \in 0..n
        OBVIOUS
      <3>. QED  BY <3>1
    <2>. QED  BY <2>1
  <1>2. PICK m \in T : \A k \in T : m <= k
    <2>. HIDE DEF T
    <2>. QED  BY <1>1, MinOf
  <1>3. PICK x \in S : m = n - x
    BY <1>2
  <1>4. ASSUME NEW y \in S
        PROVE  x >= y
    <2>1. n - x <= n - y
      BY <1>2, <1>3
    <2>2. x \in 0..n /\ y \in 0..n
      OBVIOUS
    <2>. QED  BY <2>1, <2>2
  <1>. QED  BY <1>4, Zenon DEF Max

LEMMA MaxOf ==
    ASSUME NEW k \in Nat, NEW s \in SUBSET (1..k), k \in s
    PROVE  Max(s) = k
  <1>1. s \in SUBSET (0..k)
    OBVIOUS
  <1>2. Max(s) \in s /\ Max(s) >= k
    BY <1>1, MaxIn
  <1>3. Max(s) \in 1..k
    BY <1>2
  <1>. QED  BY <1>2, <1>3

-----------------------------------------------------------------------------
(* There is such a function for the indexes up to any number: it is        *)
(* extended from the sets without k + 1 to those with it.                  *)
LEMMA IteratesExists ==
    ASSUME NEW p, NEW base, NEW seq, NEW k \in Nat
    PROVE  \E h : Iterates(h, p, base, seq, 1..k)
  <1>. DEFINE S == {j \in Nat : \E h : Iterates(h, p, base, seq, 1..j)}
  <1>1. 0 \in S
    <2>. DEFINE h == [s \in SUBSET (1..0) |-> base]
    <2>1. \A s \in SUBSET (1..0) : s = {}
      OBVIOUS
    <2>2. h = [s \in SUBSET (1..0) |->
                  IF s = {} THEN base ELSE Op(p, h[s \ {Max(s)}], seq[Max(s)])]
      BY <2>1
    <2>. QED  BY <2>2 DEF Iterates
  <1>2. ASSUME NEW n \in Nat, n \in S
        PROVE  n + 1 \in S
    <2>1. PICK h : Iterates(h, p, base, seq, 1..n)
      BY <1>2
    <2>. DEFINE m == n + 1
                l == [s \in SUBSET (1..m) |->
                         IF s \in SUBSET (1..n) THEN h[s] ELSE Op(p, h[s \ {m}], seq[m])]
                L(s) == IF s = {} THEN base ELSE Op(p, l[s \ {Max(s)}], seq[Max(s)])
    <2>2. ASSUME NEW s \in SUBSET (1..m)
          PROVE  l[s] = L(s)
      <3>1. CASE s \in SUBSET (1..n) /\ s = {}
        BY <2>1, <3>1 DEF Iterates
      <3>2. CASE s \in SUBSET (1..n) /\ s # {}
        <4>1. s \ {Max(s)} \in SUBSET (1..n) /\ s \ {Max(s)} \in SUBSET (1..m)
          BY <3>2
        <4>2. l[s \ {Max(s)}] = h[s \ {Max(s)}] /\ l[s] = h[s]
          BY <3>2, <4>1
        <4>3. h[s] = Op(p, h[s \ {Max(s)}], seq[Max(s)])
          BY <2>1, <3>2 DEF Iterates
        <4>. QED  BY <3>2, <4>2, <4>3
      <3>3. CASE s \notin SUBSET (1..n)
        <4>1. m \in s /\ s # {}
          BY <3>3
        <4>2. Max(s) = m
          BY <4>1, MaxOf
        <4>3. s \ {m} \in SUBSET (1..n) /\ s \ {m} \in SUBSET (1..m)
          OBVIOUS
        <4>4. l[s \ {m}] = h[s \ {m}]
          BY <4>3
        <4>5. l[s] = Op(p, h[s \ {m}], seq[m])
          BY <3>3
        <4>. QED  BY <4>1, <4>2, <4>4, <4>5
      <3>. QED  BY <3>1, <3>2, <3>3
    <2>3. l = [s \in SUBSET (1..m) |-> L(s)]
      <3>1. l = [s \in SUBSET (1..m) |-> l[s]]
        OBVIOUS
      <3>. HIDE DEF l, L
      <3>2. [s \in SUBSET (1..m) |-> l[s]] = [s \in SUBSET (1..m) |-> L(s)]
        BY <2>2
      <3>. QED  BY <3>1, <3>2
    <2>4. Iterates(l, p, base, seq, 1..m)
      <3>. HIDE DEF l
      <3>. QED  BY <2>3 DEF Iterates
    <2>. HIDE DEF l
    <2>. QED  BY <2>4
  <1>3. Nat \subseteq S
    <2>. HIDE DEF S
    <2>. QED  BY <1>1, <1>2, NatSetInduction
  <1>. QED  BY <1>3

(* A fold starts at the base and takes in one element after the other,     *)
(* from the first to the last.                                             *)
THEOREM FoldSteps ==
    \A p, base, S : \A seq \in Seq(S) :
        \E f : IsRun(f, p, base, seq) /\ f[Len(seq)] = Fold(p, base, seq)
  <1>. SUFFICES ASSUME NEW p, NEW base, NEW S, NEW seq \in Seq(S)
                PROVE  \E f : IsRun(f, p, base, seq) /\ f[Len(seq)] = Fold(p, base, seq)
    OBVIOUS
  <1>. DEFINE D == 1..Len(seq)
              h == CHOOSE k : Iterates(k, p, base, seq, D)
              f == [i \in 0..Len(seq) |-> h[1..i]]
  <1>1. Len(seq) \in Nat /\ DOMAIN seq = D
    OBVIOUS
  <1>2. Iterates(h, p, base, seq, D)
    <2>1. \E k : Iterates(k, p, base, seq, D)
      BY <1>1, IteratesExists
    <2>. QED  BY <2>1
  <1>3. Fold(p, base, seq) = h[D]
    BY <1>1, Zenon DEF Fold, FoldLeft, MapThenFoldSet, Iterates
  <1>4. f[0] = base
    <2>1. {} \in SUBSET D /\ 1..0 = {} /\ 0 \in 0..Len(seq)
      BY <1>1
    <2>2. h[{}] = base
      BY <1>2, <2>1 DEF Iterates
    <2>. HIDE DEF h
    <2>. QED  BY <2>1, <2>2
  <1>5. ASSUME NEW i \in D
        PROVE  f[i] = Op(p, f[i-1], seq[i])
    <2>1. i \in Nat /\ i - 1 \in Nat /\ i \in 1..i /\ 1..i \in SUBSET D
      BY <1>1
    <2>2. Max(1..i) = i
      BY <2>1, MaxOf
    <2>3. (1..i) \ {i} = 1..(i-1) /\ 1..i # {}
      <3>. HIDE DEF D
      <3>1. \A j : j \in (1..i) \ {i} <=> j \in 1..(i-1)
        BY <2>1
      <3>. QED  BY <2>1, <3>1
    <2>4. h[1..i] = Op(p, h[1..(i-1)], seq[i])
      BY <1>2, <2>1, <2>2, <2>3 DEF Iterates
    <2>. QED  BY <1>1, <2>1, <2>4
  <1>6. f[Len(seq)] = h[D]
    BY <1>1
  <1>. HIDE DEF f, h
  <1>. QED  BY <1>3, <1>4, <1>5, <1>6 DEF IsRun

(* What every step of a fold keeps holds of its result.  I[i] is the set   *)
(* of the values that the first i elements may give.                       *)
LEMMA FoldKeeps ==
    \A p, base, S, I : \A seq \in Seq(S) :
        /\ base \in I[0]
        /\ \A i \in 1..Len(seq) : \A x \in I[i-1] : Op(p, x, seq[i]) \in I[i]
        => Fold(p, base, seq) \in I[Len(seq)]
  <1>. SUFFICES ASSUME NEW p, NEW base, NEW S, NEW I, NEW seq \in Seq(S),
                       base \in I[0],
                       \A i \in 1..Len(seq) : \A x \in I[i-1] : Op(p, x, seq[i]) \in I[i]
                PROVE  Fold(p, base, seq) \in I[Len(seq)]
    OBVIOUS
  <1>1. Len(seq) \in Nat
    OBVIOUS
  <1>2. PICK f : IsRun(f, p, base, seq) /\ f[Len(seq)] = Fold(p, base, seq)
    BY FoldSteps
  <1>. DEFINE T == {i \in Nat : i <= Len(seq) => f[i] \in I[i]}
  <1>3. 0 \in T
    BY <1>2 DEF IsRun
  <1>4. ASSUME NEW i \in 1..Len(seq), i - 1 \in T
        PROVE  i \in T
    <2>1. f[i-1] \in I[i-1] /\ i \in Nat
      BY <1>1, <1>4
    <2>2. f[i] = Op(p, f[i-1], seq[i])
      BY <1>2 DEF IsRun
    <2>. QED  BY <2>1, <2>2
  <1>5. 0..Len(seq) \subseteq T
    <2>. HIDE DEF T
    <2>. QED  BY <1>1, <1>3, <1>4, UpToInduction
  <1>6. Len(seq) \in T
    BY <1>1, <1>5
  <1>. QED  BY <1>1, <1>2, <1>6

(* The same for a set that every step keeps.                               *)
THEOREM FoldStaysIn ==
    \A p, base, S, T : \A seq \in Seq(S) :
        base \in T /\ (\A x \in T, e \in S : Op(p, x, e) \in T) => Fold(p, base, seq) \in T
  <1>. SUFFICES ASSUME NEW p, NEW base, NEW S, NEW T, NEW seq \in Seq(S),
                       base \in T, \A x \in T, e \in S : Op(p, x, e) \in T
                PROVE  Fold(p, base, seq) \in T
    OBVIOUS
  <1>. DEFINE I == [i \in Nat |-> T]
  <1>1. Len(seq) \in Nat
    OBVIOUS
  <1>2. base \in I[0] /\ I[Len(seq)] = T
    BY <1>1
  <1>3. \A i \in 1..Len(seq) : \A x \in I[i-1] : Op(p, x, seq[i]) \in I[i]
    BY <1>1
  <1>. HIDE DEF I
  <1>4. Fold(p, base, seq) \in I[Len(seq)]
    BY <1>2, <1>3, FoldKeeps
  <1>. QED  BY <1>2, <1>4
=============================================================================
