----------------------------- MODULE FoldProofs -----------------------------
(***************************************************************************)
(* Facts about FoldLeft, with which the modules write the loops of the     *)
(* code, for any step of a loop.  A module that folds takes them with      *)
(* INSTANCE, its own step for Step.  Induction is over the set of the      *)
(* natural numbers that have what is to be shown.                          *)
(***************************************************************************)
EXTENDS Integers, Sequences, SequencesExt, WellFoundedInduction, FiniteSetTheorems, TLAPS

CONSTANT Step(_, _, _)   \* of what does not change, the state, and an element

Fold(fixed, base, seq) ==
  LET Next(state, element) == Step(fixed, state, element) IN FoldLeft(Next, base, seq)

----------------------------------------------------------------------------
(* Induction.                                                              *)

\* A set of numbers that is not empty has a least member.
LEMMA LeastNat ==
  ASSUME NEW T \in SUBSET Nat, T # {}
  PROVE  \E n \in T : \A m \in T : n <= m
  <1> DEFINE Less == {pair \in Nat \X Nat : pair[1] < pair[2]}
  <1>1. IsWellFoundedOn(Less, Nat)
    BY NatLessThanWellFounded, Zenon DEF OpToRel
  <1>2. \E x \in T : \A y \in T : ~(<<y, x>> \in Less)
    BY <1>1, WFMin, Zenon
  <1>3. \A x, y \in Nat : y < x => <<y, x>> \in Less
    OBVIOUS
  <1> HIDE DEF Less
  <1>4. PICK n \in T : \A m \in T : ~(<<m, n>> \in Less)
    BY <1>2
  <1>5. \A m \in T : ~(m < n)
    BY <1>3, <1>4
  <1> QED
    BY <1>5

\* What holds of 0, and of n + 1 if of n, holds of every number.
LEMMA SetInduction ==
  ASSUME NEW T, 0 \in T, \A n \in Nat : n \in T => n + 1 \in T
  PROVE  Nat \subseteq T
  <1> SUFFICES ASSUME Nat \ T # {} PROVE FALSE
    OBVIOUS
  <1>1. PICK n \in Nat \ T : \A m \in Nat \ T : n <= m
    BY LeastNat
  <1>2. n - 1 \in Nat /\ n - 1 \in T
    BY <1>1
  <1> QED
    BY <1>1, <1>2

\* Of n + 1 numbers in a row one is none of n.
LEMMA OneIsFree ==
  ASSUME NEW n \in Nat, NEW used, NEW low \in Nat
  PROVE  \E x \in low .. low + n : \A i \in 1 .. n : used[i] # x
  <1> SUFFICES ASSUME \A x \in low .. low + n : \E i \in 1 .. n : used[i] = x
               PROVE  FALSE
    OBVIOUS
  <1> DEFINE S == low .. low + n
             M == [i \in 1 .. n |-> IF used[i] \in S THEN used[i] ELSE low]
  <1>1. M \in Surjection(1 .. n, S)
    BY DEF Surjection
  <1>2. Cardinality(S) <= Cardinality(1 .. n)
    BY <1>1, FS_Surjection, FS_Interval
  <1>3. Cardinality(S) = n + 1
    <2>1. low \in Int /\ low + n \in Int
      OBVIOUS
    <2> QED
      BY <2>1, FS_Interval
  <1>4. Cardinality(1 .. n) = n
    BY FS_Interval
  <1> QED
    BY <1>2, <1>3, <1>4

----------------------------------------------------------------------------
(***************************************************************************)
(* MapThenFoldSet, behind FoldLeft, is a recursive function over the sets  *)
(* of positions, of which it takes off the greatest.                       *)
(***************************************************************************)
Unfolded(fixed, base, seq, g, s) ==
  IF s = {} THEN base ELSE Step(fixed, g[s \ {Max(s)}], seq[Max(s)])

\* Such a function, up to n positions.
Recurs(fixed, base, seq, n, g) ==
  g = [s \in SUBSET (1 .. n) |-> Unfolded(fixed, base, seq, g, s)]

\* What is taken off first, and what is left.
LEMMA GreatestPosition ==
  ASSUME NEW n \in Nat, NEW s \in SUBSET (1 .. n + 1), n + 1 \in s
  PROVE  Max(s) = n + 1 /\ s \ {n + 1} \in SUBSET (1 .. n)
  <1>1. n + 1 \in s /\ \A y \in s : n + 1 >= y
    OBVIOUS
  <1>2. Max(s) \in s /\ \A y \in s : Max(s) >= y
    BY <1>1 DEF Max
  <1>3. \A m \in s : m >= n + 1 => m = n + 1
    OBVIOUS
  <1>4. Max(s) = n + 1
    BY <1>1, <1>2, <1>3, Zenon
  <1> QED
    BY <1>4

\* There is such a function, for any number of positions.
LEMMA FoldExists ==
  ASSUME NEW fixed, NEW base, NEW seq
  PROVE  \A n \in Nat : \E g : Recurs(fixed, base, seq, n, g)
  <1> DEFINE Has(n) == \E g : Recurs(fixed, base, seq, n, g)
             T == {n \in Nat : Has(n)}
  <1>1. Has(0)
    <2>1. 1 .. 0 = {}
      OBVIOUS
    <2> DEFINE g == [s \in SUBSET (1 .. 0) |-> base]
    <2>2. g = [s \in SUBSET (1 .. 0) |-> Unfolded(fixed, base, seq, g, s)]
      BY <2>1 DEF Unfolded
    <2> QED
      BY <2>2 DEF Recurs
  <1>2. ASSUME NEW n \in Nat, Has(n) PROVE Has(n + 1)
    <2>1. PICK g : g = [s \in SUBSET (1 .. n) |-> Unfolded(fixed, base, seq, g, s)]
      BY <1>2 DEF Recurs
    <2> HIDE DEF Has
    <2> DEFINE h == [s \in SUBSET (1 .. n + 1) |->
                       IF n + 1 \in s THEN Step(fixed, g[s \ {n + 1}], seq[n + 1]) ELSE g[s]]
    <2>2. \A s \in SUBSET (1 .. n) : s \in SUBSET (1 .. n + 1) /\ h[s] = g[s]
      OBVIOUS
    <2>3. \A s \in SUBSET (1 .. n + 1) : n + 1 \notin s => s \in SUBSET (1 .. n)
      OBVIOUS
    <2>4. ASSUME NEW s \in SUBSET (1 .. n + 1)
          PROVE  h[s] = Unfolded(fixed, base, seq, h, s)
      <3>1. CASE n + 1 \in s
        <4>1. Max(s) = n + 1 /\ s \ {n + 1} \in SUBSET (1 .. n)
          BY <3>1, GreatestPosition
        <4>2. h[s] = Step(fixed, g[s \ {n + 1}], seq[n + 1])
          BY <3>1
        <4> HIDE DEF h
        <4> QED
          BY <3>1, <4>1, <4>2, <2>2 DEF Unfolded
      <3>2. CASE n + 1 \notin s
        <4>1. s \in SUBSET (1 .. n) /\ s \ {Max(s)} \in SUBSET (1 .. n)
          BY <3>2, <2>3
        <4>2. h[s] = g[s] /\ h[s \ {Max(s)}] = g[s \ {Max(s)}]
          BY <4>1, <2>2
        <4>3. g[s] = Unfolded(fixed, base, seq, g, s)
          BY <4>1, <2>1
        <4> HIDE DEF h
        <4> QED
          BY <4>2, <4>3 DEF Unfolded
      <3> QED
        BY <3>1, <3>2
    <2>5. h = [s \in SUBSET (1 .. n + 1) |-> h[s]]
      OBVIOUS
    <2> HIDE DEF h
    <2>6. h = [s \in SUBSET (1 .. n + 1) |-> Unfolded(fixed, base, seq, h, s)]
      BY <2>4, <2>5
    <2> QED
      BY <2>6 DEF Has, Recurs
  <1> HIDE DEF Has
  <1>3. 0 \in T /\ \A n \in Nat : n \in T => n + 1 \in T
    BY <1>1, <1>2
  <1> HIDE DEF T
  <1>4. Nat \subseteq T
    BY <1>3, SetInduction
  <1> QED
    BY <1>4 DEF T, Has

\* FoldLeft is that function, at all positions.
LEMMA FoldUnfolds ==
  ASSUME NEW fixed, NEW base, NEW seq, NEW n \in Nat, DOMAIN seq = 1 .. n
  PROVE  \E g : Recurs(fixed, base, seq, n, g) /\ Fold(fixed, base, seq) = g[1 .. n]
  <1> DEFINE iter == CHOOSE g : Recurs(fixed, base, seq, n, g)
  <1>1. Recurs(fixed, base, seq, n, iter)
    BY FoldExists
  <1>2. Fold(fixed, base, seq) = iter[1 .. n]
    BY DEF Fold, FoldLeft, MapThenFoldSet, Unfolded, Recurs
  <1> QED
    BY <1>1, <1>2

----------------------------------------------------------------------------
\* The states a loop goes through.
Trace(fixed, base, seq, n, f) ==
  /\ f[0] = base
  /\ \A i \in 1 .. n : f[i] = Step(fixed, f[i - 1], seq[i])

(***************************************************************************)
(* A fold is where a loop gets to: the states it goes through begin with   *)
(* the base, and each is a step from the one before, whatever the step is. *)
(***************************************************************************)
THEOREM FoldTrace ==
  ASSUME NEW fixed, NEW base, NEW seq, NEW n \in Nat, DOMAIN seq = 1 .. n
  PROVE  \E f : Trace(fixed, base, seq, n, f) /\ Fold(fixed, base, seq) = f[n]
  <1>0. PICK g : Recurs(fixed, base, seq, n, g) /\ Fold(fixed, base, seq) = g[1 .. n]
    BY FoldUnfolds
  <1>1. (g = [s \in SUBSET (1 .. n) |-> Unfolded(fixed, base, seq, g, s)])
        /\ (Fold(fixed, base, seq) = g[1 .. n])
    BY <1>0 DEF Recurs
  <1> DEFINE f == [i \in 0 .. n |-> g[1 .. i]]
  <1>2. f[0] = base
    <2>1. 1 .. 0 = {}
      OBVIOUS
    <2>2. g[{}] = base
      BY <1>1 DEF Unfolded
    <2> QED
      BY <2>1, <2>2
  <1>3. ASSUME NEW i \in 1 .. n PROVE f[i] = Step(fixed, f[i - 1], seq[i])
    <2>1. Max(1 .. i) = i /\ (1 .. i) \ {i} = 1 .. i - 1 /\ 1 .. i # {}
      BY DEF Max
    <2>2. g[1 .. i] = Unfolded(fixed, base, seq, g, 1 .. i)
      BY <1>1
    <2>3. g[1 .. i] = Step(fixed, g[1 .. i - 1], seq[i])
      BY <2>1, <2>2 DEF Unfolded
    <2> QED
      BY <2>3
  <1>4. Fold(fixed, base, seq) = f[n]
    BY <1>1
  <1> HIDE DEF f
  <1> QED
    BY <1>2, <1>3, <1>4 DEF Trace

\* The states a loop goes through are its folds over the prefixes.
THEOREM TraceIsFold ==
  ASSUME NEW fixed, NEW base, NEW seq, NEW n \in Nat, DOMAIN seq = 1 .. n,
         NEW f, Trace(fixed, base, seq, n, f)
  PROVE  Fold(fixed, base, seq) = f[n]
  <1>1. PICK g : Trace(fixed, base, seq, n, g) /\ Fold(fixed, base, seq) = g[n]
    BY FoldTrace
  <1> DEFINE T == {i \in Nat : i <= n => g[i] = f[i]}
  <1>2. 0 \in T
    BY <1>1 DEF Trace
  <1>3. ASSUME NEW i \in Nat, i \in T PROVE i + 1 \in T
    <2> SUFFICES ASSUME i + 1 <= n PROVE g[i + 1] = f[i + 1]
      OBVIOUS
    <2>1. i + 1 \in 1 .. n /\ (i + 1) - 1 = i /\ g[i] = f[i]
      BY <1>3
    <2> QED
      BY <2>1, <1>1 DEF Trace
  <1> HIDE DEF T
  <1>4. Nat \subseteq T
    BY <1>2, <1>3, SetInduction
  <1> QED
    BY <1>1, <1>4 DEF T

\* A loop over nothing does nothing.
THEOREM FoldEmpty ==
  ASSUME NEW fixed, NEW base
  PROVE  Fold(fixed, base, <<>>) = base
  <1>1. DOMAIN <<>> = 1 .. 0
    OBVIOUS
  <1> QED
    BY <1>1, FoldTrace DEF Trace

\* A sequence, and one that has an element more.
OneMore(seq, n, more) ==
  /\ n \in Nat
  /\ DOMAIN seq = 1 .. n
  /\ DOMAIN more = 1 .. n + 1
  /\ \A i \in 1 .. n : more[i] = seq[i]

\* One more element is one more step.
LEMMA FoldMore ==
  ASSUME NEW fixed, NEW base, NEW seq, NEW n, NEW more, OneMore(seq, n, more)
  PROVE  Fold(fixed, base, more) = Step(fixed, Fold(fixed, base, seq), more[n + 1])
  <1> USE DEF OneMore
  <1>0. n \in Nat /\ n + 1 \in Nat
    OBVIOUS
  <1>1. PICK f : Trace(fixed, base, more, n + 1, f) /\ Fold(fixed, base, more) = f[n + 1]
    BY <1>0, FoldTrace
  <1>2. Trace(fixed, base, seq, n, f)
    BY <1>1 DEF Trace
  <1>3. Fold(fixed, base, seq) = f[n]
    BY <1>1, <1>2, TraceIsFold
  <1>4. n + 1 \in 1 .. n + 1 /\ (n + 1) - 1 = n
    OBVIOUS
  <1> QED
    BY <1>1, <1>3, <1>4 DEF Trace

\* A loop stays in a set that its step does not leave.
LEMMA FoldIn ==
  ASSUME NEW fixed, NEW base, NEW seq, NEW n \in Nat, DOMAIN seq = 1 .. n,
         NEW S, base \in S, \A i \in 1 .. n : \A s \in S : Step(fixed, s, seq[i]) \in S
  PROVE  Fold(fixed, base, seq) \in S
  <1>1. PICK f : Trace(fixed, base, seq, n, f) /\ Fold(fixed, base, seq) = f[n]
    BY FoldTrace
  <1> DEFINE T == {i \in Nat : i <= n => f[i] \in S}
  <1>2. 0 \in T
    BY <1>1 DEF Trace
  <1>3. ASSUME NEW i \in Nat, i \in T PROVE i + 1 \in T
    <2> SUFFICES ASSUME i + 1 <= n PROVE f[i + 1] \in S
      OBVIOUS
    <2>1. i + 1 \in 1 .. n /\ (i + 1) - 1 = i /\ f[i] \in S
      BY <1>3
    <2> QED
      BY <2>1, <1>1 DEF Trace
  <1> HIDE DEF T
  <1>4. Nat \subseteq T
    BY <1>2, <1>3, SetInduction
  <1> QED
    BY <1>1, <1>4 DEF T
=============================================================================
