--------------------------- MODULE Recursion_proofs ---------------------------
(***************************************************************************)
(* Recursion over numbers and the folds of the community modules, for      *)
(* proofs.  The library's theorems about induction and recursion take an   *)
(* operator; these take a set or a function in its place.                  *)
(***************************************************************************)
EXTENDS Integers, SequencesExt, SequenceTheorems, WellFoundedInduction, TLAPS

\* The least element of a set of numbers is one of them.
LEMMA LeastElement ==
  ASSUME NEW S \in SUBSET Nat, S # {}
  PROVE  Min(S) \in S /\ \A y \in S : Min(S) <= y
<1> DEFINE R == OpToRel(<, Nat)
<1>0. R = {ss \in Nat \X Nat : ss[1] < ss[2]}
  BY DEF OpToRel
<1>1. IsWellFoundedOn(R, Nat)
  BY NatLessThanWellFounded
<1> HIDE DEF R
<1>2. PICK x \in S : \A y \in S : ~(<<y, x>> \in R)
  BY <1>1, WFMin
<1>3. ASSUME NEW y \in S, ~(x <= y) PROVE FALSE
  <2>1. y < x /\ y \in Nat /\ x \in Nat
    BY <1>3
  <2>2. <<y, x>> \in {ss \in Nat \X Nat : ss[1] < ss[2]}
    BY <2>1
  <2> QED
    BY <1>0, <1>2, <2>2
<1> QED
  BY <1>2, <1>3 DEF Min

\* Induction: a set that holds 0 and every successor holds every number.
LEMMA AllNumbers ==
  ASSUME NEW S, 0 \in S, \A n \in Nat : n \in S => n + 1 \in S
  PROVE  Nat \subseteq S
<1> SUFFICES ASSUME Nat \ S # {} PROVE FALSE
  OBVIOUS
<1> DEFINE m == Min(Nat \ S)
<1>1. m \in Nat \ S /\ \A y \in Nat \ S : m <= y
  BY LeastElement
<1> HIDE DEF m
<1>2. m # 0 /\ m - 1 \in Nat /\ ~(m <= m - 1)
  BY <1>1
<1>3. m - 1 \in S
  BY <1>1, <1>2
<1>4. (m - 1) + 1 = m
  BY <1>1
<1> QED
  BY <1>1, <1>2, <1>3, <1>4

\* The greatest element of a finite set of numbers is one of them.
LEMMA GreatestElement ==
  ASSUME NEW n \in Nat, NEW s \in SUBSET (1..n), s # {}
  PROVE  Max(s) \in s /\ \A y \in s : y <= Max(s)
<1> DEFINE T == {n - y : y \in s}
<1>1. T \in SUBSET Nat /\ T # {}
  <2>1. \A y \in s : n - y \in Nat
    OBVIOUS
  <2>2. PICK y \in s : TRUE
    OBVIOUS
  <2> QED
    BY <2>1, <2>2
<1>2. Min(T) \in T /\ \A t \in T : Min(T) <= t
  BY <1>1, LeastElement
<1>3. PICK x \in s : Min(T) = n - x
  BY <1>2
<1>4. \A y \in s : n - x <= n - y
  BY <1>2, <1>3
<1>5. \A y \in s : x >= y
  BY <1>4
<1> QED
  BY <1>5 DEF Max

\* The greatest of the numbers up to k + 1, and what is left without it.
LEMMA UpToGreatest ==
  ASSUME NEW k \in Nat
  PROVE  /\ 1..(k + 1) # {} /\ Max(1..(k + 1)) = k + 1
         /\ (1..(k + 1)) \ {k + 1} = 1..k
<1>1. k + 1 \in 1..(k + 1) /\ \A y \in 1..(k + 1) : k + 1 >= y
  OBVIOUS
<1>2. ASSUME NEW x \in 1..(k + 1), \A y \in 1..(k + 1) : x >= y PROVE x = k + 1
  BY <1>1, <1>2
<1>3. Max(1..(k + 1)) = k + 1
  BY <1>1, <1>2 DEF Max
<1> QED
  BY <1>1, <1>3

\* A function that is stepwise defined over the sets of the first n numbers:
\* the greatest number of a set is the last one looked at.
Folds(h, n, V, base, step) ==
  /\ h \in [SUBSET (1..n) -> V]
  /\ \A s \in SUBSET (1..n) :
       h[s] = IF s = {} THEN base ELSE step[<<h[s \ {Max(s)}], Max(s)>>]

\* There is one for every step.
LEMMA FoldExists ==
  ASSUME NEW V, NEW base \in V, NEW step \in [V \X Nat -> V], NEW n \in Nat
  PROVE  \E h : Folds(h, n, V, base, step)
<1> DEFINE S == {k \in Nat : \E h : Folds(h, k, V, base, step)}
<1>1. 0 \in S
  <2> DEFINE h == [s \in SUBSET (1..0) |-> base]
  <2>1. 1..0 = {}
    OBVIOUS
  <2>2. Folds(h, 0, V, base, step)
    BY <2>1 DEF Folds
  <2> QED
    BY <2>2
<1>2. ASSUME NEW k \in Nat, k \in S PROVE k + 1 \in S
  <2>1. PICK g : Folds(g, k, V, base, step)
    BY <1>2
  <2> DEFINE h == [s \in SUBSET (1..(k + 1)) |->
                     IF k + 1 \in s THEN step[<<g[s \ {k + 1}], k + 1>>] ELSE g[s]]
  <2>2. ASSUME NEW s \in SUBSET (1..(k + 1)), k + 1 \in s
        PROVE  Max(s) = k + 1 /\ s \ {k + 1} \in SUBSET (1..k)
    <3>1. \A y \in s : k + 1 >= y
      OBVIOUS
    <3>2. \A x \in s : (\A y \in s : x >= y) => x = k + 1
      BY <2>2, <3>1
    <3>3. Max(s) = k + 1
      BY <2>2, <3>1, <3>2 DEF Max
    <3> QED
      BY <3>3
  <2>3. ASSUME NEW s \in SUBSET (1..(k + 1)), k + 1 \notin s PROVE s \in SUBSET (1..k)
    BY <2>3
  <2>4. ASSUME NEW s \in SUBSET (1..(k + 1)) PROVE h[s] \in V
    BY <2>1, <2>2, <2>3 DEF Folds
  <2>5. ASSUME NEW s \in SUBSET (1..(k + 1))
        PROVE  h[s] = IF s = {} THEN base ELSE step[<<h[s \ {Max(s)}], Max(s)>>]
    <3>1. CASE k + 1 \in s
      <4>1. Max(s) = k + 1 /\ s \ {k + 1} \in SUBSET (1..k) /\ k + 1 \notin s \ {k + 1}
            /\ s \ {k + 1} \in SUBSET (1..(k + 1))
        BY <3>1, <2>2
      <4>2. h[s \ {k + 1}] = g[s \ {k + 1}]
        BY <4>1
      <4> QED
        BY <3>1, <4>1, <4>2
    <3>2. CASE k + 1 \notin s /\ s # {}
      <4>1. s \in SUBSET (1..k) /\ h[s] = g[s]
        BY <3>2, <2>3
      <4>2. k + 1 \notin s \ {Max(s)} /\ s \ {Max(s)} \in SUBSET (1..(k + 1))
        BY <3>2
      <4>3. h[s \ {Max(s)}] = g[s \ {Max(s)}]
        BY <4>2
      <4> QED
        BY <2>1, <3>2, <4>1, <4>3 DEF Folds
    <3>3. CASE s = {}
      BY <2>1, <3>3 DEF Folds
    <3> QED
      BY <3>1, <3>2, <3>3
  <2>6. Folds(h, k + 1, V, base, step)
    BY <2>4, <2>5 DEF Folds
  <2> QED
    BY <2>6
<1>3. Nat \subseteq S
  BY <1>1, <1>2, AllNumbers
<1> QED
  BY <1>3

\* Two of them agree on the numbers up to k, whatever they go on to.
LEMMA FoldsAgree ==
  ASSUME NEW V, NEW base, NEW step
  PROVE  \A k \in Nat : \A m, n \in Nat : \A g, h :
           k <= m /\ k <= n /\ Folds(g, m, V, base, step) /\ Folds(h, n, V, base, step)
             => g[1..k] = h[1..k]
<1> DEFINE S == {k \in Nat : \A m, n \in Nat : \A g, h :
                   k <= m /\ k <= n /\ Folds(g, m, V, base, step) /\ Folds(h, n, V, base, step)
                     => g[1..k] = h[1..k]}
<1>1. 0 \in S
  <2>1. 1..0 = {}
    OBVIOUS
  <2>2. ASSUME NEW n \in Nat, NEW h, Folds(h, n, V, base, step) PROVE h[{}] = base
    BY <2>2 DEF Folds
  <2> QED
    BY <2>1, <2>2
<1>2. ASSUME NEW k \in Nat, k \in S PROVE k + 1 \in S
  <2> SUFFICES ASSUME NEW m \in Nat, NEW n \in Nat, NEW g, NEW h, k + 1 <= m, k + 1 <= n,
                      Folds(g, m, V, base, step), Folds(h, n, V, base, step)
               PROVE  g[1..(k + 1)] = h[1..(k + 1)]
    OBVIOUS
  <2>1. g[1..k] = h[1..k]
    <3>1. k <= m /\ k <= n
      OBVIOUS
    <3> QED
      BY <1>2, <3>1
  <2>2. 1..(k + 1) \in SUBSET (1..m) /\ 1..(k + 1) \in SUBSET (1..n)
    OBVIOUS
  <2>3. g[1..(k + 1)] = step[<<g[1..k], k + 1>>] /\ h[1..(k + 1)] = step[<<h[1..k], k + 1>>]
    BY <2>2, UpToGreatest DEF Folds
  <2> QED
    BY <2>1, <2>3
<1>3. Nat \subseteq S
  BY <1>1, <1>2, AllNumbers
<1> QED
  BY <1>3

\* What a fold holds after each of the first n numbers.
Along(best, n, V, base, step) ==
  /\ best \in [0..n -> V] /\ best[0] = base
  /\ \A k \in 0..(n - 1) : best[k + 1] = step[<<best[k], k + 1>>]

\* A function that steps from a set of numbers to the set with one greater
\* number does so along the numbers.
LEMMA FoldSteps ==
  ASSUME NEW V, NEW base \in V, NEW step \in [V \X Nat -> V], NEW n \in Nat, NEW it,
         it[{}] = base,
         \A s \in SUBSET (1..n) :
           s # {} /\ it[s \ {Max(s)}] \in V => it[s] = step[<<it[s \ {Max(s)}], Max(s)>>],
         NEW best, best = [k \in 0..n |-> it[1..k]]
  PROVE  Along(best, n, V, base, step)
<1> DEFINE S == {k \in Nat : k <= n => it[1..k] \in V}
<1>1. it[1..0] = base
  <2>1. 1..0 = {}
    OBVIOUS
  <2> QED
    BY <2>1
<1>2. ASSUME NEW k \in 0..(n - 1), it[1..k] \in V
      PROVE  it[1..(k + 1)] = step[<<it[1..k], k + 1>>] /\ it[1..(k + 1)] \in V
  <2>1. /\ 1..(k + 1) # {} /\ Max(1..(k + 1)) = k + 1 /\ (1..(k + 1)) \ {k + 1} = 1..k
        /\ k + 1 \in 1..n
    <3>1. k \in Nat /\ k + 1 \in 1..n
      OBVIOUS
    <3> QED
      BY <3>1, UpToGreatest
  <2>2. 1..(k + 1) \in SUBSET (1..n)
    BY <2>1
  <2>3. it[1..(k + 1)] = step[<<it[1..k], k + 1>>]
    BY <1>2, <2>1, <2>2
  <2>4. k + 1 \in Nat
    OBVIOUS
  <2> QED
    BY <1>2, <2>3, <2>4
<1>3. Nat \subseteq S
  <2>1. 0 \in S
    BY <1>1
  <2>2. ASSUME NEW k \in Nat, k \in S PROVE k + 1 \in S
    <3> SUFFICES ASSUME k + 1 <= n PROVE it[1..(k + 1)] \in V
      OBVIOUS
    <3>1. k \in 0..(n - 1) /\ it[1..k] \in V
      BY <2>2
    <3> QED
      BY <1>2, <3>1
  <2> HIDE DEF S
  <2> QED
    BY <2>1, <2>2, AllNumbers
<1>4. \A k \in 0..n : it[1..k] \in V
  BY <1>3
<1>5. best \in [0..n -> V]
  BY <1>4
<1>6. best[0] = base
  BY <1>1
<1>7. ASSUME NEW k \in 0..(n - 1) PROVE best[k + 1] = step[<<best[k], k + 1>>]
  <2>1. k \in 0..n /\ k + 1 \in 0..n
    OBVIOUS
  <2> QED
    BY <1>2, <1>4, <2>1
<1> QED
  BY <1>5, <1>6, <1>7 DEF Along

\* A function of the numbers that is defined step by step.
Recurs(f, V, base, step) ==
  /\ f \in [Nat -> V] /\ f[0] = base
  /\ \A k \in Nat : f[k + 1] = step[<<f[k], k + 1>>]

\* There is one for every step.
LEMMA RecursionExists ==
  ASSUME NEW V, NEW base \in V, NEW step \in [V \X Nat -> V]
  PROVE  \E f : Recurs(f, V, base, step)
<1>0. \A k \in Nat : \A m, n \in Nat : \A g, h :
        k <= m /\ k <= n /\ Folds(g, m, V, base, step) /\ Folds(h, n, V, base, step)
          => g[1..k] = h[1..k]
  BY FoldsAgree
<1> DEFINE fold == [n \in Nat |-> CHOOSE h : Folds(h, n, V, base, step)]
           f == [k \in Nat |-> fold[k][1..k]]
<1>1. ASSUME NEW n \in Nat PROVE Folds(fold[n], n, V, base, step)
  BY FoldExists
<1> HIDE DEF fold
<1>2. ASSUME NEW k \in Nat PROVE f[k] \in V
  <2>1. 1..k \in SUBSET (1..k)
    OBVIOUS
  <2> QED
    BY <1>1, <2>1 DEF Folds
<1>3. f[0] = base
  <2>1. f[0] = fold[0][{}] /\ {} \in SUBSET (1..0)
    OBVIOUS
  <2> QED
    BY <1>1, <2>1 DEF Folds
<1>4. ASSUME NEW k \in Nat PROVE f[k + 1] = step[<<f[k], k + 1>>]
  <2>1. 1..(k + 1) \in SUBSET (1..(k + 1)) /\ 1..(k + 1) # {} /\ k + 1 \in Nat
    BY UpToGreatest
  <2>2. fold[k + 1][1..(k + 1)] = step[<<fold[k + 1][1..k], k + 1>>]
    <3>1. Folds(fold[k + 1], k + 1, V, base, step)
      BY <1>1, <2>1
    <3> HIDE DEF fold
    <3> QED
      BY <2>1, <3>1, UpToGreatest DEF Folds
  <2>3. fold[k + 1][1..k] = fold[k][1..k]
    <3> DEFINE m == k + 1
               g == fold[m]
               h == fold[k]
    <3>1. m \in Nat /\ k <= m /\ k <= k /\ Folds(g, m, V, base, step) /\ Folds(h, k, V, base, step)
      BY <1>1
    <3> HIDE DEF g, h, m
    <3>2. g[1..k] = h[1..k]
      BY <1>0, <3>1
    <3> QED
      BY <3>2 DEF g, h, m
  <2> QED
    BY <2>1, <2>2, <2>3
<1> HIDE DEF f
<1>5. f \in [Nat -> V]
  BY <1>2 DEF f
<1> QED
  BY <1>3, <1>4, <1>5 DEF Recurs
-----------------------------------------------------------------------------
\* A function of the first numbers is a sequence.
LEMMA ListIsSeq ==
  ASSUME NEW T, NEW n \in Nat, NEW f \in [1..n -> T]
  PROVE  f \in Seq(T) /\ Len(f) = n
<1>1. f \in Seq(T)
  BY SeqDef
<1>2. Len(f) \in Nat /\ DOMAIN f = 1..Len(f) /\ DOMAIN f = 1..n
  BY <1>1, LenProperties
<1> QED
  BY <1>1, <1>2

\* The places of two sequences in their concatenation.
LEMMA Joined ==
  ASSUME NEW T, NEW s \in Seq(T), NEW t \in Seq(T)
  PROVE  /\ s \o t \in Seq(T) /\ Len(s \o t) = Len(s) + Len(t)
         /\ \A k \in 1..Len(s) : (s \o t)[k] = s[k]
         /\ \A k \in 1..Len(t) : (s \o t)[Len(s) + k] = t[k]
OBVIOUS

\* A flattened sequence of sequences, one of them at a time.
Flattens(flat, seqs, n, S) ==
  /\ flat \in [0..n -> Seq(S)] /\ FlattenSeq(seqs) = flat[n] /\ flat[0] = <<>>
  /\ \A k \in 0..(n - 1) : flat[k + 1] = flat[k] \o seqs[k + 1]

\* Every sequence of sequences is flattened so.
LEMMA Flattened ==
  ASSUME NEW S, NEW seqs \in Seq(Seq(S))
  PROVE  \E flat : Flattens(flat, seqs, Len(seqs), S)
<1> DEFINE n == Len(seqs)
           V == Seq(S)
           base == <<>>
           step == [p \in Seq(S) \X Nat |-> IF p[2] \in 1..n THEN p[1] \o seqs[p[2]] ELSE p[1]]
           next(f, i) == IF i = 1 THEN seqs[i] ELSE f[i - 1] \o seqs[i]
           flatten == CHOOSE f : f = [i \in 1..n |-> next(f, i)]
           flat == [k \in 0..n |-> IF k = 0 THEN <<>> ELSE flatten[k]]
<1>1. n \in Nat /\ DOMAIN seqs = 1..n /\ \A k \in 1..n : seqs[k] \in Seq(S)
  BY LenProperties, ElementOfSeq
<1> HIDE DEF n
<1>2. <<>> \in Seq(S)
  BY EmptySeq
<1>3. step \in [Seq(S) \X Nat -> Seq(S)]
  <2>1. ASSUME NEW p \in Seq(S) \X Nat PROVE step[p] \in Seq(S)
    <3>1. p[1] \in Seq(S) /\ p[2] \in Nat
      OBVIOUS
    <3>2. CASE p[2] \in 1..n
      BY <1>1, <3>1, <3>2, ConcatProperties
    <3>3. CASE p[2] \notin 1..n
      BY <3>1, <3>3
    <3> QED
      BY <3>2, <3>3
  <2> QED
    BY <2>1
<1>4. PICK g : Recurs(g, V, base, step)
  BY <1>2, <1>3, RecursionExists
<1>5. /\ g \in [Nat -> Seq(S)] /\ g[0] = <<>>
      /\ \A k \in 0..(n - 1) : g[k + 1] = g[k] \o seqs[k + 1]
  <2>1. g \in [Nat -> Seq(S)] /\ g[0] = <<>>
    BY <1>4 DEF Recurs
  <2>2. ASSUME NEW k \in 0..(n - 1) PROVE g[k + 1] = g[k] \o seqs[k + 1]
    <3>1. k \in Nat /\ k + 1 \in 1..n
      BY <1>1
    <3>2. g[k + 1] = step[<<g[k], k + 1>>]
      BY <1>4, <3>1 DEF Recurs
    <3>3. <<g[k], k + 1>> \in Seq(S) \X Nat
      <4>1. g[k] \in Seq(S) /\ k + 1 \in Nat
        BY <2>1, <3>1
      <4> HIDE DEF n
      <4> QED
        BY <4>1
    <3> QED
      BY <3>1, <3>2, <3>3
  <2> QED
    BY <2>1, <2>2
<1> DEFINE f0 == [i \in 1..n |-> g[i]]
<1>6. f0 = [i \in 1..n |-> next(f0, i)]
  <2>1. ASSUME NEW i \in 1..n PROVE g[i] = next(f0, i)
    <3>0. i - 1 \in 0..(n - 1) /\ (i - 1) + 1 = i
      BY <1>1
    <3>1. CASE i = 1
      <4>1. g[1] = <<>> \o seqs[1] /\ seqs[1] \in Seq(S)
        <5>1. 0 \in 0..(n - 1) /\ 0 + 1 = 1 /\ 1 \in 1..n
          BY <1>1, <3>1
        <5> QED
          BY <1>1, <1>5, <5>1
      <4> QED
        BY <3>1, <4>1, ConcatEmptySeq
    <3>2. CASE i # 1
      <4>1. i - 1 \in 1..n
        BY <1>1, <3>2
      <4>2. g[i] = g[i - 1] \o seqs[i]
        BY <1>5, <3>0
      <4> QED
        BY <3>2, <4>1, <4>2
    <3> QED
      BY <3>1, <3>2
  <2> QED
    BY <2>1
<1>7. flatten = [i \in 1..n |-> next(flatten, i)]
  <2> HIDE DEF next, f0
  <2> QED
    BY <1>6
<1>8. FlattenSeq(seqs) = IF n = 0 THEN seqs ELSE flatten[n]
  BY DEF FlattenSeq, n
<1> HIDE DEF flatten
<1>9. \A k \in 1..n : flatten[k] = IF k = 1 THEN seqs[k] ELSE flatten[k - 1] \o seqs[k]
  BY <1>7
<1>10. ASSUME NEW k \in 0..(n - 1) PROVE flat[k + 1] = flat[k] \o seqs[k + 1]
  <2>1. k + 1 \in 1..n /\ (k + 1) - 1 = k /\ k \in 0..n /\ k + 1 \in 0..n /\ k + 1 # 0
    BY <1>1
  <2>2. CASE k = 0
    <3>1. flat[k + 1] = seqs[k + 1] /\ flat[k] = <<>>
      BY <1>9, <2>1, <2>2
    <3> QED
      BY <1>1, <2>1, <3>1, ConcatEmptySeq
  <2>3. CASE k # 0
    <3>0. k + 1 # 1
      BY <2>3
    <3>1. flatten[k + 1] = flatten[k] \o seqs[k + 1]
      BY <1>9, <2>1, <3>0
    <3> QED
      BY <2>1, <2>3, <3>1
  <2> QED
    BY <2>2, <2>3
<1>11. flat[0] = <<>>
  BY <1>1
<1>12. flat \in [0..n -> Seq(S)]
  <2> DEFINE T == {k \in Nat : k <= n => flat[k] \in Seq(S)}
  <2> HIDE DEF flat
  <2>1. 0 \in T
    BY <1>2, <1>11
  <2>2. ASSUME NEW k \in Nat, k \in T PROVE k + 1 \in T
    <3> SUFFICES ASSUME k + 1 <= n PROVE flat[k + 1] \in Seq(S)
      OBVIOUS
    <3>1. k \in 0..(n - 1) /\ k + 1 \in 1..n /\ flat[k] \in Seq(S)
      BY <1>1, <2>2
    <3>2. flat[k + 1] = flat[k] \o seqs[k + 1] /\ seqs[k + 1] \in Seq(S)
      BY <1>1, <1>10, <3>1
    <3> QED
      BY <3>1, <3>2, ConcatProperties
  <2>3. Nat \subseteq T
    <3> HIDE DEF T
    <3> QED
      BY <2>1, <2>2, AllNumbers
  <2>4. \A k \in 0..n : flat[k] \in Seq(S)
    BY <1>1, <2>3
  <2>5. \E D : flat = [k \in 0..n |-> D[k]]
    BY Zenon DEF flat
  <2> QED
    BY <2>4 DEF flat
<1>13. FlattenSeq(seqs) = flat[n]
  <2>1. CASE n = 0
    <3>1. seqs = <<>>
      BY <2>1, EmptySeq DEF n
    <3> QED
      BY <1>8, <1>11, <2>1, <3>1
  <2>2. CASE n # 0
    BY <1>1, <1>8, <2>2
  <2> QED
    BY <2>1, <2>2
<1> HIDE DEF flat
<1> QED
  BY <1>10, <1>11, <1>12, <1>13 DEF n, Flattens
==============================================================================
