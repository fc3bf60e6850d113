--------------------------- MODULE SequenceLemmas ---------------------------
(***************************************************************************)
(* Induction over the natural numbers, for sets, and what FlattenSeq makes *)
(* of a sequence of sequences.                                             *)
(***************************************************************************)
EXTENDS Integers, SequencesExt, SequenceTheorems, WellFoundedInduction, TLAPS

\* A set of natural numbers has a least element.
LEMMA Least ==
  ASSUME NEW S, S \subseteq Nat, S # {}
  PROVE  \E m \in S : \A k \in S : m <= k
<1> DEFINE R == {ss \in Nat \X Nat : ss[1] < ss[2]}
<1>1. IsWellFoundedOn(R, Nat)
  BY NatLessThanWellFounded DEF OpToRel
<1>2. \A x, y \in Nat : <<y, x>> \in R <=> y < x
  OBVIOUS
<1> HIDE DEF R
<1>3. PICK m \in S : \A k \in S : ~ (<<k, m>> \in R)
  BY <1>1, WFMin
<1>4. ASSUME NEW k \in S PROVE m <= k
  <2>1. ~ (<<k, m>> \in R) /\ k \in Nat /\ m \in Nat
    BY <1>3
  <2>2. ~ (k < m)
    BY <1>2, <2>1, Zenon
  <2>3. QED
    BY <2>1, <2>2
<1>5. QED
  BY <1>4

\* A set that holds 0 and, with each of its numbers, the next, holds them all.
LEMMA Induction ==
  ASSUME NEW P, 0 \in P, \A n \in Nat : n \in P => n + 1 \in P
  PROVE  \A n \in Nat : n \in P
<1>1. SUFFICES ASSUME Nat \ P # {} PROVE FALSE
  OBVIOUS
<1>2. PICK m \in Nat \ P : \A k \in Nat \ P : m <= k
  <2>1. Nat \ P \subseteq Nat
    OBVIOUS
  <2>2. QED
    BY <1>1, <2>1, Least
<1>3. m # 0 /\ m - 1 \in Nat /\ m = (m - 1) + 1
  BY <1>2
<1>4. m - 1 \in P
  BY <1>2, <1>3
<1>5. QED
  BY <1>2, <1>3, <1>4

\* What FlattenSeq concatenates, step by step.
Flattens(f, seqs, n) ==
    f = [i \in 1 .. n |-> IF i = 1 THEN seqs[i] ELSE f[i - 1] \o seqs[i]]

LEMMA FlattensExists ==
  ASSUME NEW seqs
  PROVE  \A n \in Nat : \E f : Flattens(f, seqs, n)
<1> DEFINE P == {n \in Nat : \E f : Flattens(f, seqs, n)}
<1>1. 0 \in P
  <2>1. Flattens([i \in 1 .. 0 |-> seqs], seqs, 0)
    BY DEF Flattens
  <2>2. QED
    BY <2>1
<1>2. ASSUME NEW n \in Nat, n \in P PROVE n + 1 \in P
  <2>1. PICK f : f = [i \in 1 .. n |-> IF i = 1 THEN seqs[i] ELSE f[i - 1] \o seqs[i]]
    BY <1>2 DEF Flattens
  <2> DEFINE g == [i \in 1 .. n + 1 |->
                      IF i = 1 THEN seqs[i] ELSE f[i - 1] \o seqs[i]]
  <2>2. \A i \in 1 .. n + 1 : g[i] = IF i = 1 THEN seqs[i] ELSE f[i - 1] \o seqs[i]
    OBVIOUS
  <2>3. \A i \in 1 .. n : f[i] = IF i = 1 THEN seqs[i] ELSE f[i - 1] \o seqs[i]
    BY <2>1
  <2> HIDE DEF g
  <2>4. ASSUME NEW i \in 1 .. n + 1, i # 1 PROVE g[i - 1] = f[i - 1]
    <3>1. i - 1 \in 1 .. n /\ i - 1 \in 1 .. n + 1
      BY <2>4
    <3>2. QED
      BY <2>2, <2>3, <3>1
  <2>5. g = [i \in 1 .. n + 1 |-> IF i = 1 THEN seqs[i] ELSE g[i - 1] \o seqs[i]]
    BY <2>4 DEF g
  <2>6. Flattens(g, seqs, n + 1)
    BY <2>5 DEF Flattens
  <2>7. QED
    BY <2>6
<1> HIDE DEF P
<1>3. \A n \in Nat : n \in P
  BY <1>1, <1>2, Induction
<1>4. QED
  BY <1>3 DEF P

LEMMA FlattenSeqFlattens ==
  ASSUME NEW seqs, Len(seqs) \in Nat, Len(seqs) # 0
  PROVE  \E f : Flattens(f, seqs, Len(seqs)) /\ FlattenSeq(seqs) = f[Len(seqs)]
<1>1. \E f : f = [i \in 1 .. Len(seqs) |-> IF i = 1 THEN seqs[i] ELSE f[i - 1] \o seqs[i]]
  BY FlattensExists DEF Flattens
<1>2. QED
  BY <1>1 DEF Flattens, FlattenSeq

\* Sequences of one set are flattened to a sequence of that set.
LEMMA FlattenSeqType ==
  ASSUME NEW S, NEW n \in Nat, NEW seqs, seqs = [i \in 1 .. n |-> seqs[i]],
         \A i \in 1 .. n : seqs[i] \in Seq(S)
  PROVE  FlattenSeq(seqs) \in Seq(S)
<1>1. Len(seqs) = n
  OBVIOUS
<1>2. CASE n = 0
  <2>1. FlattenSeq(seqs) = seqs
    BY <1>1, <1>2 DEF FlattenSeq
  <2>2. seqs = <<>>
    BY <1>2
  <2>3. QED
    BY <2>1, <2>2, EmptySeq
<1>3. CASE n # 0
  <2>1. PICK f : Flattens(f, seqs, n) /\ FlattenSeq(seqs) = f[n]
    BY <1>1, <1>3, FlattenSeqFlattens
  <2>2. \A i \in 1 .. n : f[i] = IF i = 1 THEN seqs[i] ELSE f[i - 1] \o seqs[i]
    BY <2>1 DEF Flattens
  <2> DEFINE P == {k \in Nat : k \in 1 .. n => f[k] \in Seq(S)}
  <2>3. 0 \in P
    OBVIOUS
  <2>4. ASSUME NEW k \in Nat, k \in P PROVE k + 1 \in P
    <3>1. CASE k + 1 = 1
      BY <2>2, <3>1
    <3>2. CASE k + 1 # 1 /\ k + 1 \in 1 .. n
      <4>1. f[k] \in Seq(S) /\ seqs[k + 1] \in Seq(S) /\ (k + 1) - 1 = k
        BY <2>4, <3>2
      <4>2. f[k + 1] = f[k] \o seqs[k + 1]
        BY <2>2, <3>2, <4>1
      <4>3. f[k + 1] \in Seq(S)
        BY <4>1, <4>2, ConcatProperties
      <4>4. QED
        BY <4>3
    <3>3. QED
      BY <3>1, <3>2
  <2> HIDE DEF P
  <2>5. n \in P
    BY <2>3, <2>4, Induction
  <2>6. QED
    BY <1>3, <2>1, <2>5 DEF P
<1>4. QED
  BY <1>2, <1>3

\* Sequences of one element each are flattened to the sequence of these elements.
LEMMA FlattenSingles ==
  ASSUME NEW S, NEW n \in Nat, NEW e \in [1 .. n -> S], NEW seqs,
         seqs = [i \in 1 .. n |-> <<e[i]>>]
  PROVE  FlattenSeq(seqs) = e
<1>1. Len(seqs) = n
  OBVIOUS
<1>2. CASE n = 0
  <2>1. FlattenSeq(seqs) = seqs
    BY <1>1, <1>2 DEF FlattenSeq
  <2>2. QED
    BY <1>2, <2>1
<1>3. CASE n # 0
  <2>1. PICK f : Flattens(f, seqs, n) /\ FlattenSeq(seqs) = f[n]
    BY <1>1, <1>3, FlattenSeqFlattens
  <2>2. \A i \in 1 .. n : f[i] = IF i = 1 THEN <<e[i]>> ELSE f[i - 1] \o <<e[i]>>
    BY <2>1 DEF Flattens
  <2> DEFINE P == {k \in Nat : k \in 1 .. n => f[k] = [i \in 1 .. k |-> e[i]]}
  <2>3. 0 \in P
    OBVIOUS
  <2>4. ASSUME NEW k \in Nat, k \in P PROVE k + 1 \in P
    <3>1. CASE k + 1 = 1
      <4>1. 1 \in 1 .. n => f[1] = <<e[1]>>
        BY <2>2
      <4>2. <<e[1]>> = [i \in 1 .. 1 |-> e[i]]
        OBVIOUS
      <4>3. QED
        BY <3>1, <4>1, <4>2
    <3>2. CASE k + 1 # 1 /\ k + 1 \in 1 .. n
      <4>1. f[k] = [i \in 1 .. k |-> e[i]] /\ (k + 1) - 1 = k
        BY <2>4, <3>2
      <4>2. f[k + 1] = [i \in 1 .. k |-> e[i]] \o <<e[k + 1]>>
        BY <2>2, <3>2, <4>1
      <4>3. [i \in 1 .. k |-> e[i]] \in Seq(S) /\ <<e[k + 1]>> \in Seq(S)
        BY <3>2
      <4>4. [i \in 1 .. k |-> e[i]] \o <<e[k + 1]>> = [i \in 1 .. k + 1 |-> e[i]]
        BY <4>3
      <4>5. QED
        BY <4>2, <4>4
    <3>3. QED
      BY <3>1, <3>2
  <2> HIDE DEF P
  <2>5. n \in P
    BY <2>3, <2>4, Induction
  <2>6. f[n] = [i \in 1 .. n |-> e[i]]
    BY <1>3, <2>5 DEF P
  <2>7. QED
    BY <2>1, <2>6
<1>4. QED
  BY <1>2, <1>3

\* What the flattening gains from a part more: the part itself, at the end.
LEMMA FlattenSnoc ==
  ASSUME NEW S, NEW n \in Nat, NEW seqs, seqs = [i \in 1 .. n + 1 |-> seqs[i]],
         \A i \in 1 .. n + 1 : seqs[i] \in Seq(S)
  PROVE  FlattenSeq(seqs) = FlattenSeq([i \in 1 .. n |-> seqs[i]]) \o seqs[n + 1]
<1> DEFINE init == [i \in 1 .. n |-> seqs[i]]
<1>1. Len(seqs) = n + 1 /\ Len(init) = n /\ n + 1 # 0 /\ n + 1 \in Nat
  OBVIOUS
<1>2. PICK f : Flattens(f, seqs, n + 1) /\ FlattenSeq(seqs) = f[n + 1]
  BY <1>1, FlattenSeqFlattens
<1>3. \A i \in 1 .. n + 1 : f[i] = IF i = 1 THEN seqs[i] ELSE f[i - 1] \o seqs[i]
  BY <1>2 DEF Flattens
<1>4. n + 1 \in 1 .. n + 1 /\ (n + 1) - 1 = n
  OBVIOUS
<1>5. CASE n = 0
  <2>1. FlattenSeq(init) = <<>>
    <3>1. FlattenSeq(init) = init
      BY <1>1, <1>5 DEF FlattenSeq
    <3>2. init = <<>>
      BY <1>5
    <3>3. QED
      BY <3>1, <3>2
  <2>2. f[n + 1] = seqs[n + 1]
    BY <1>3, <1>4, <1>5
  <2> HIDE DEF init
  <2>3. seqs[n + 1] \in Seq(S)
    BY <1>4
  <2>4. <<>> \o seqs[n + 1] = seqs[n + 1]
    BY <2>3
  <2>5. QED
    BY <1>2, <2>1, <2>2, <2>4 DEF init
<1>6. CASE n # 0
  <2>1. PICK g : Flattens(g, init, n) /\ FlattenSeq(init) = g[n]
    BY <1>1, <1>6, FlattenSeqFlattens
  <2>2. \A i \in 1 .. n : init[i] = seqs[i]
    OBVIOUS
  <2>3. \A i \in 1 .. n : g[i] = IF i = 1 THEN seqs[i] ELSE g[i - 1] \o seqs[i]
    <3>1. \A i \in 1 .. n : g[i] = IF i = 1 THEN init[i] ELSE g[i - 1] \o init[i]
      BY <2>1 DEF Flattens
    <3>2. QED
      BY <2>2, <3>1
  <2> HIDE DEF init
  <2> DEFINE P == {k \in Nat : k \in 1 .. n => f[k] = g[k]}
  <2>4. 0 \in P
    OBVIOUS
  <2>5. ASSUME NEW k \in Nat, k \in P PROVE k + 1 \in P
    <3>1. CASE k + 1 = 1
      <4>1. 1 \in 1 .. n /\ 1 \in 1 .. n + 1
        BY <1>6
      <4>2. f[1] = seqs[1] /\ g[1] = seqs[1]
        BY <1>3, <2>3, <4>1
      <4>3. QED
        BY <3>1, <4>2
    <3>2. CASE k + 1 # 1 /\ k + 1 \in 1 .. n
      <4>1. f[k] = g[k] /\ (k + 1) - 1 = k /\ k + 1 \in 1 .. n + 1
        BY <2>5, <3>2
      <4>2. f[k + 1] = f[k] \o seqs[k + 1] /\ g[k + 1] = g[k] \o seqs[k + 1]
        BY <1>3, <2>3, <3>2, <4>1
      <4>3. f[k + 1] = g[k + 1]
        BY <4>1, <4>2, Zenon
      <4>4. QED
        BY <4>3
    <3>3. QED
      BY <3>1, <3>2
  <2> HIDE DEF P
  <2>6. n \in P
    BY <2>4, <2>5, Induction
  <2>7. f[n] = g[n]
    BY <1>6, <2>6 DEF P
  <2>8. f[n + 1] = f[n] \o seqs[n + 1]
    <3>1. n + 1 # 1
      BY <1>6
    <3>2. f[n + 1] = f[(n + 1) - 1] \o seqs[n + 1]
      BY <1>3, <1>4, <3>1, Zenon
    <3>3. QED
      BY <1>4, <3>2, Zenon
  <2>9. QED
    BY <1>2, <2>1, <2>7, <2>8 DEF init
<1>7. QED
  BY <1>5, <1>6

\* A concatenation, element by element.
LEMMA ConcatElements ==
  ASSUME NEW S, NEW s \in Seq(S), NEW t \in Seq(S)
  PROVE  /\ s \o t \in Seq(S) /\ Len(s \o t) = Len(s) + Len(t)
         /\ \A k \in 1 .. Len(s) + Len(t) :
                (s \o t)[k] = IF k <= Len(s) THEN s[k] ELSE t[k - Len(s)]
BY ConcatProperties

\* The ends of a concatenation.
LEMMA ConcatEnds ==
  ASSUME NEW S, NEW s \in Seq(S), NEW t \in Seq(S), s # <<>>, t # <<>>
  PROVE  /\ s \o t \in Seq(S) /\ s \o t # <<>>
         /\ (s \o t)[1] = s[1]
         /\ (s \o t)[Len(s \o t)] = t[Len(t)]
<1>1. Len(s) \in Nat \ {0} /\ Len(t) \in Nat \ {0}
  OBVIOUS
<1>2. s \o t \in Seq(S) /\ Len(s \o t) = Len(s) + Len(t)
  OBVIOUS
<1>3. (s \o t)[1] = s[1]
  BY <1>1
<1>4. (s \o t)[Len(s) + Len(t)] = t[Len(t)]
  BY <1>1
<1>5. QED
  BY <1>1, <1>2, <1>3, <1>4

\* The ends of what is flattened are those of the first and the last part.
LEMMA FlattenSeqEnds ==
  ASSUME NEW S, NEW n \in Nat, n # 0, NEW seqs, seqs = [i \in 1 .. n |-> seqs[i]],
         \A i \in 1 .. n : seqs[i] \in Seq(S) /\ seqs[i] # <<>>
  PROVE  /\ FlattenSeq(seqs) \in Seq(S) /\ FlattenSeq(seqs) # <<>>
         /\ Head(FlattenSeq(seqs)) = Head(seqs[1])
         /\ Last(FlattenSeq(seqs)) = Last(seqs[n])
<1>1. PICK f : Flattens(f, seqs, n) /\ FlattenSeq(seqs) = f[n]
  <2>1. Len(seqs) = n
    OBVIOUS
  <2>2. QED
    BY <2>1, FlattenSeqFlattens
<1>2. \A i \in 1 .. n : f[i] = IF i = 1 THEN seqs[i] ELSE f[i - 1] \o seqs[i]
  BY <1>1 DEF Flattens
<1> DEFINE Good(k) == /\ f[k] \in Seq(S) /\ f[k] # <<>>
                      /\ f[k][1] = seqs[1][1]
                      /\ f[k][Len(f[k])] = seqs[k][Len(seqs[k])]
<1> DEFINE P == {k \in Nat : k \in 1 .. n => Good(k)}
<1>3. 0 \in P
  OBVIOUS
<1>4. ASSUME NEW k \in Nat, k \in P PROVE k + 1 \in P
  <2>1. CASE k + 1 = 1
    BY <1>2, <2>1
  <2>2. CASE k + 1 # 1 /\ k + 1 \in 1 .. n
    <3>1. Good(k) /\ seqs[k + 1] \in Seq(S) /\ seqs[k + 1] # <<>> /\ (k + 1) - 1 = k
      BY <1>4, <2>2
    <3>2. f[k + 1] = f[k] \o seqs[k + 1]
      BY <1>2, <2>2, <3>1
    <3>3. Good(k + 1)
      <4> DEFINE s == f[k]
                 t == seqs[k + 1]
      <4>1. s \in Seq(S) /\ s # <<>> /\ s[1] = seqs[1][1] /\ t \in Seq(S) /\ t # <<>>
        BY <3>1
      <4> HIDE DEF s, t
      <4>2. /\ s \o t \in Seq(S) /\ s \o t # <<>> /\ (s \o t)[1] = s[1]
            /\ (s \o t)[Len(s \o t)] = t[Len(t)]
        BY <4>1, ConcatEnds
      <4>3. f[k + 1] = s \o t
        BY <3>2 DEF s, t
      <4>4. QED
        BY <4>1, <4>2, <4>3 DEF t
    <3>4. QED
      BY <3>3
  <2>3. QED
    BY <2>1, <2>2
<1> HIDE DEF P
<1>5. n \in P
  BY <1>3, <1>4, Induction
<1>6. Good(n)
  BY <1>5 DEF P
<1>7. QED
  BY <1>1, <1>6 DEF Last

\* The greatest of the numbers up to a bound.
LEMMA Greatest ==
  ASSUME NEW S, NEW n \in Nat, S \subseteq 0 .. n, S # {}
  PROVE  Max(S) \in S /\ \A k \in S : Max(S) >= k
<1> DEFINE T == {n - k : k \in S}
<1>1. T \subseteq Nat /\ T # {}
  <2>1. \A k \in S : k \in 0 .. n /\ n - k \in Nat
    OBVIOUS
  <2>2. QED
    BY <2>1
<1>2. PICK m \in T : \A k \in T : m <= k
  BY <1>1, Least
<1>3. n - m \in S /\ \A k \in S : n - m >= k
  BY <1>2
<1>4. QED
  BY <1>3 DEF Max

\* The least of a set of numbers.
LEMMA Smallest ==
  ASSUME NEW S, S \subseteq Nat, S # {}
  PROVE  Min(S) \in S /\ \A k \in S : Min(S) <= k
BY Least DEF Min
=============================================================================
