---------------------------- MODULE RepairProofs ----------------------------
(***************************************************************************)
(* Theorems about ArtworkRepair, for compound paths of any number of       *)
(* subpaths of any length and for all tolerances and rules.  RepairInv     *)
(* says of every version of the geometry which pass made it from which;    *)
(* each property then is a theorem about one pass:                         *)
(*                                                                         *)
(*   sound artwork gets its dies   no pass leaves fewer than three corners *)
(*   the first corner alone gapes  the polylines of the corners are chains *)
(*   islands in reach are merged   the body's corners stay in the ring     *)
(*   merging keeps the area        the keyhole's edges, stretch by stretch *)
(*   tidy holes are left alone     a path walked back has the area negated *)
(*   tidy paths stay filled        and is crossed as often                 *)
(***************************************************************************)
EXTENDS ArtworkRepair, SequenceLemmas, FiniteSetTheorems

-----------------------------------------------------------------------------
(* Folding a sequence from the left, and sums. *)

\* The indices a left fold goes through are prefixes.
LEMMA Prefixed ==
  ASSUME NEW n \in Nat, NEW k \in 1 .. n
  PROVE  /\ 1 .. k \in SUBSET (1 .. n) /\ 1 .. k # {}
         /\ Max(1 .. k) = k /\ (1 .. k) \ {Max(1 .. k)} = 1 .. k - 1
         /\ 1 .. k - 1 \in SUBSET (1 .. n)
<1>1. 1 .. k \subseteq 0 .. k /\ 1 .. k # {} /\ k \in Nat /\ k \in 1 .. k
  OBVIOUS
<1>2. Max(1 .. k) \in 1 .. k /\ \A j \in 1 .. k : Max(1 .. k) >= j
  BY <1>1, Greatest
<1>3. Max(1 .. k) = k
  BY <1>1, <1>2
<1>4. (1 .. k) \ {k} = 1 .. k - 1
  OBVIOUS
<1>5. QED
  BY <1>1, <1>3, <1>4

\* The results of a left fold, for every set of indices.
FoldsLeft(f, step, base, seq, n) ==
    f = [s \in SUBSET (1 .. n) |->
            IF s = {} THEN base ELSE step[<<f[s \ {Max(s)}], seq[Max(s)]>>]]

LEMMA WithoutGreatest ==
  ASSUME NEW n \in Nat, NEW s \in SUBSET (1 .. n + 1), s # {}
  PROVE  Max(s) \in s /\ s \ {Max(s)} \in SUBSET (1 .. n)
<1>1. Max(s) \in s /\ \A k \in s : Max(s) >= k
  <2>1. s \subseteq 0 .. n + 1 /\ n + 1 \in Nat
    OBVIOUS
  <2>2. QED
    BY <2>1, Greatest
<1> DEFINE m == Max(s)
<1>2. m \in 1 .. n + 1 /\ \A k \in s : k \in 1 .. n + 1 /\ m >= k
  BY <1>1
<1> HIDE DEF m
<1>3. \A k \in s \ {m} : k \in 1 .. n
  BY <1>2
<1>4. QED
  BY <1>1, <1>3 DEF m

LEMMA FoldsLeftExists ==
  ASSUME NEW A, NEW S, NEW step \in [A \X S -> A], NEW base \in A, NEW seq \in Seq(S)
  PROVE  \A n \in Nat : n <= Len(seq) =>
             \E f \in [SUBSET (1 .. n) -> A] : FoldsLeft(f, step, base, seq, n)
<1> DEFINE P == {n \in Nat : n <= Len(seq) =>
                     \E f \in [SUBSET (1 .. n) -> A] : FoldsLeft(f, step, base, seq, n)}
<1>1. 0 \in P
  <2> DEFINE f == [s \in SUBSET (1 .. 0) |-> base]
  <2>1. \A s \in SUBSET (1 .. 0) : s = {}
    OBVIOUS
  <2>2. FoldsLeft(f, step, base, seq, 0)
    BY <2>1 DEF FoldsLeft
  <2>3. f \in [SUBSET (1 .. 0) -> A]
    OBVIOUS
  <2> HIDE DEF f
  <2>4. \E h \in [SUBSET (1 .. 0) -> A] : FoldsLeft(h, step, base, seq, 0)
    BY <2>2, <2>3
  <2>5. 0 \in Nat
    OBVIOUS
  <2>6. QED
    BY <2>4, <2>5, Zenon
<1>2. ASSUME NEW n \in Nat, n \in P PROVE n + 1 \in P
  <2>0. n + 1 \in Nat
    OBVIOUS
  <2>1. SUFFICES ASSUME n + 1 <= Len(seq)
        PROVE  \E f \in [SUBSET (1 .. n + 1) -> A] : FoldsLeft(f, step, base, seq, n + 1)
    BY <2>0, Zenon
  <2>2. n <= Len(seq)
    BY <2>1
  <2>3. PICK f \in [SUBSET (1 .. n) -> A] : FoldsLeft(f, step, base, seq, n)
    BY <1>2, <2>2
  <2> DEFINE next(h, s) == IF s = {} THEN base ELSE step[<<h[s \ {Max(s)}], seq[Max(s)]>>]
             g == [s \in SUBSET (1 .. n + 1) |-> next(f, s)]
  <2>4. \A s \in SUBSET (1 .. n) : f[s] = next(f, s)
    BY <2>3 DEF FoldsLeft
  <2>5. \A s \in SUBSET (1 .. n + 1) : g[s] = next(f, s)
    OBVIOUS
  <2>6. \A s \in SUBSET (1 .. n + 1) : next(f, s) \in A
    <3>1. SUFFICES ASSUME NEW s \in SUBSET (1 .. n + 1), s # {}
          PROVE  step[<<f[s \ {Max(s)}], seq[Max(s)]>>] \in A
      OBVIOUS
    <3>2. Max(s) \in s /\ s \ {Max(s)} \in SUBSET (1 .. n)
      BY <3>1, WithoutGreatest
    <3>3. f[s \ {Max(s)}] \in A
      BY <3>2
    <3>4. Max(s) \in 1 .. Len(seq)
      <4>1. Len(seq) \in Nat
        OBVIOUS
      <4>2. \A m \in 1 .. n + 1 : m \in 1 .. Len(seq)
        BY <2>1, <4>1
      <4>3. QED
        BY <3>2, <4>2
    <3>5. seq[Max(s)] \in S
      BY <3>4
    <3>6. QED
      BY <3>3, <3>5
  <2>7. ASSUME NEW s \in SUBSET (1 .. n + 1) PROVE next(f, s) = next(g, s)
    <3>1. CASE s = {}
      BY <3>1
    <3>2. CASE s # {}
      <4>1. s \ {Max(s)} \in SUBSET (1 .. n)
        BY <3>2, WithoutGreatest
      <4>2. s \ {Max(s)} \in SUBSET (1 .. n + 1)
        OBVIOUS
      <4>3. g[s \ {Max(s)}] = f[s \ {Max(s)}]
        BY <2>4, <2>5, <4>1, <4>2
      <4>4. QED
        BY <3>2, <4>3
    <3>3. QED
      BY <3>1, <3>2
  <2>8. g = [s \in SUBSET (1 .. n + 1) |-> next(g, s)]
    <3> HIDE DEF next
    <3>1. \A s \in SUBSET (1 .. n + 1) : next(f, s) = next(g, s)
      BY <2>7
    <3> QED
      BY <3>1
  <2>9. g \in [SUBSET (1 .. n + 1) -> A]
    <3> HIDE DEF next
    <3>1. QED
      BY <2>6
  <2> HIDE DEF g
  <2>10. FoldsLeft(g, step, base, seq, n + 1)
    BY <2>8 DEF FoldsLeft
  <2>11. QED
    BY <2>9, <2>10
<1> HIDE DEF P
<1>3. \A n \in Nat : n \in P
  BY <1>1, <1>2, Induction
<1>4. QED
  BY <1>3 DEF P

\* The sums MapThenSumSet goes through, for every subset.
Sums(f, t, D) ==
    f = [s \in D |-> IF s = {} THEN 0
                     ELSE t[CHOOSE x \in s : TRUE] + f[s \ {CHOOSE x \in s : TRUE}]]

\* The subsets of D with at most k elements.
Small(D, k) == {s \in SUBSET D : Cardinality(s) <= k}

LEMMA SmallStep ==
  ASSUME NEW D, IsFiniteSet(D), NEW k \in Nat, NEW s \in Small(D, k + 1), NEW x \in s
  PROVE  s \ {x} \in Small(D, k) /\ s \ {x} \in Small(D, k + 1)
<1>1. s \in SUBSET D /\ Cardinality(s) <= k + 1
  BY DEF Small
<1>2. IsFiniteSet(s)
  BY <1>1, FS_Subset
<1>3. Cardinality(s) \in Nat
  BY <1>2, FS_CardinalityType
<1>4. Cardinality(s \ {x}) = Cardinality(s) - 1
  BY <1>2, FS_RemoveElement
<1>5. QED
  BY <1>1, <1>3, <1>4 DEF Small

LEMMA SumsExist ==
  ASSUME NEW D, IsFiniteSet(D), NEW t \in [D -> Int]
  PROVE  \A k \in Nat : \E f \in [Small(D, k) -> Int] : Sums(f, t, Small(D, k))
<1> DEFINE P == {k \in Nat : \E f \in [Small(D, k) -> Int] : Sums(f, t, Small(D, k))}
<1>1. 0 \in P
  <2> DEFINE f == [s \in Small(D, 0) |-> 0]
  <2>1. \A s \in Small(D, 0) : s = {}
    <3>1. TAKE s \in Small(D, 0)
    <3>2. s \in SUBSET D /\ Cardinality(s) <= 0
      BY DEF Small
    <3>3. IsFiniteSet(s)
      BY <3>2, FS_Subset
    <3>4. Cardinality(s) \in Nat
      BY <3>3, FS_CardinalityType
    <3>5. QED
      BY <3>2, <3>3, <3>4, FS_EmptySet
  <2>2. Sums(f, t, Small(D, 0))
    BY <2>1 DEF Sums
  <2>3. f \in [Small(D, 0) -> Int]
    OBVIOUS
  <2> HIDE DEF f
  <2>4. \E h \in [Small(D, 0) -> Int] : Sums(h, t, Small(D, 0))
    BY <2>2, <2>3
  <2>5. 0 \in Nat
    OBVIOUS
  <2>6. QED
    BY <2>4, <2>5, Zenon
<1>2. ASSUME NEW k \in Nat, k \in P PROVE k + 1 \in P
  <2>1. PICK f \in [Small(D, k) -> Int] : Sums(f, t, Small(D, k))
    BY <1>2
  <2> DEFINE some(s) == CHOOSE x \in s : TRUE
             next(h, s) == IF s = {} THEN 0 ELSE t[some(s)] + h[s \ {some(s)}]
             g == [s \in Small(D, k + 1) |-> next(f, s)]
  <2>2. \A s \in Small(D, k) : f[s] = next(f, s)
    BY <2>1 DEF Sums
  <2>3. \A s \in Small(D, k + 1) : g[s] = next(f, s)
    OBVIOUS
  <2>4. \A s \in Small(D, k + 1) : s # {} => some(s) \in s
    OBVIOUS
  <2> HIDE DEF some
  <2>5. \A s \in Small(D, k + 1) : next(f, s) \in Int
    <3>1. SUFFICES ASSUME NEW s \in Small(D, k + 1), s # {}
          PROVE  t[some(s)] + f[s \ {some(s)}] \in Int
      OBVIOUS
    <3>2. some(s) \in s
      BY <2>4, <3>1
    <3>3. f[s \ {some(s)}] \in Int
      BY <3>2, SmallStep
    <3>4. some(s) \in D
      BY <3>2 DEF Small
    <3>5. t[some(s)] \in Int
      BY <3>4
    <3>6. QED
      BY <3>3, <3>5
  <2>6. ASSUME NEW s \in Small(D, k + 1) PROVE next(f, s) = next(g, s)
    <3>1. CASE s = {}
      BY <3>1
    <3>2. CASE s # {}
      <4>1. some(s) \in s
        BY <2>4, <3>2
      <4>2. s \ {some(s)} \in Small(D, k) /\ s \ {some(s)} \in Small(D, k + 1)
        BY <4>1, SmallStep
      <4>3. g[s \ {some(s)}] = f[s \ {some(s)}]
        BY <2>2, <2>3, <4>2
      <4>4. QED
        BY <3>2, <4>3
    <3>3. QED
      BY <3>1, <3>2
  <2>7. g = [s \in Small(D, k + 1) |-> next(g, s)]
    <3> HIDE DEF next
    <3>1. \A s \in Small(D, k + 1) : next(f, s) = next(g, s)
      BY <2>6
    <3> QED
      BY <3>1
  <2>8. g \in [Small(D, k + 1) -> Int]
    <3> HIDE DEF next
    <3>1. QED
      BY <2>5
  <2> HIDE DEF g
  <2>9. Sums(g, t, Small(D, k + 1))
    BY <2>7 DEF Sums, some
  <2>10. QED
    BY <2>8, <2>9
<1> HIDE DEF P
<1>3. \A k \in Nat : k \in P
  BY <1>1, <1>2, Induction
<1>4. QED
  BY <1>3 DEF P

LEMMA SumsOverSubsets ==
  ASSUME NEW D, IsFiniteSet(D), NEW t \in [D -> Int]
  PROVE  \E f \in [SUBSET D -> Int] : Sums(f, t, SUBSET D)
<1>1. Cardinality(D) \in Nat
  BY FS_CardinalityType
<1>2. Small(D, Cardinality(D)) = SUBSET D
  <2>1. ASSUME NEW s \in SUBSET D PROVE Cardinality(s) <= Cardinality(D)
    BY FS_Subset
  <2>2. QED
    BY <2>1 DEF Small
<1>3. \E f \in [Small(D, Cardinality(D)) -> Int] : Sums(f, t, Small(D, Cardinality(D)))
  BY <1>1, SumsExist, Zenon
<1>4. QED
  BY <1>2, <1>3, Zenon

\* It does not matter which element is added first.
InAnyOrder(f, t, D) == \A s \in SUBSET D : \A x \in s : f[s] = t[x] + f[s \ {x}]

LEMMA SumsInAnyOrder ==
  ASSUME NEW D, IsFiniteSet(D), NEW t \in [D -> Int],
         NEW f \in [SUBSET D -> Int], Sums(f, t, SUBSET D)
  PROVE  InAnyOrder(f, t, D)
<1> DEFINE P == {k \in Nat : \A s \in Small(D, k) : \A x \in s : f[s] = t[x] + f[s \ {x}]}
<1> DEFINE some(s) == CHOOSE x \in s : TRUE
<1>0. \A s \in SUBSET D : s # {} =>
          some(s) \in s /\ f[s] = t[some(s)] + f[s \ {some(s)}]
  <2>1. \A s \in SUBSET D : f[s] = IF s = {} THEN 0 ELSE t[some(s)] + f[s \ {some(s)}]
    BY DEF Sums
  <2>2. \A s \in SUBSET D : s # {} => some(s) \in s
    OBVIOUS
  <2> HIDE DEF some
  <2>3. QED
    BY <2>1, <2>2
<1> HIDE DEF some
<1>1. 0 \in P
  <2>1. ASSUME NEW s \in Small(D, 0) PROVE s = {}
    <3>2. s \in SUBSET D /\ Cardinality(s) <= 0
      BY DEF Small
    <3>3. IsFiniteSet(s)
      BY <3>2, FS_Subset
    <3>4. Cardinality(s) \in Nat
      BY <3>3, FS_CardinalityType
    <3>5. QED
      BY <3>2, <3>3, <3>4, FS_EmptySet
  <2>2. QED
    BY <2>1
<1>2. ASSUME NEW k \in Nat, k \in P PROVE k + 1 \in P
  <2>1. SUFFICES ASSUME NEW s \in Small(D, k + 1), NEW x \in s
        PROVE  f[s] = t[x] + f[s \ {x}]
    OBVIOUS
  <2> DEFINE c == some(s)
  <2>2. s \in SUBSET D
    BY DEF Small
  <2>3. c \in s /\ f[s] = t[c] + f[s \ {c}]
    BY <1>0, <2>1, <2>2
  <2> HIDE DEF c
  <2>4. CASE x = c
    BY <2>3, <2>4
  <2>5. CASE x # c
    <3>1. s \ {c} \in Small(D, k) /\ s \ {x} \in Small(D, k)
      BY <2>1, <2>3, SmallStep
    <3>2. x \in s \ {c} /\ c \in s \ {x}
      BY <2>1, <2>3, <2>5
    <3>3. f[s \ {c}] = t[x] + f[(s \ {c}) \ {x}] /\ f[s \ {x}] = t[c] + f[(s \ {x}) \ {c}]
      BY <1>2, <3>1, <3>2
    <3>4. (s \ {c}) \ {x} = (s \ {x}) \ {c} /\ (s \ {x}) \ {c} \in SUBSET D
      BY <2>2
    <3> DEFINE r == f[(s \ {x}) \ {c}]
    <3>5. r \in Int /\ t[x] \in Int /\ t[c] \in Int
      BY <2>1, <2>2, <2>3, <3>4
    <3>6. f[s \ {c}] = t[x] + r /\ f[s \ {x}] = t[c] + r
      BY <3>3, <3>4
    <3> HIDE DEF r
    <3>7. QED
      BY <2>3, <3>5, <3>6
  <2>6. QED
    BY <2>4, <2>5
<1> HIDE DEF P
<1>3. \A k \in Nat : k \in P
  BY <1>1, <1>2, Induction
<1>4. Cardinality(D) \in Nat
  BY FS_CardinalityType
<1>5. ASSUME NEW s \in SUBSET D PROVE s \in Small(D, Cardinality(D))
  BY FS_Subset DEF Small
<1>6. QED
  BY <1>3, <1>4, <1>5 DEF P, InAnyOrder

\* A sum over 1 .. n, term by term.
Runs(g, t, n) == g[0] = 0 /\ \A k \in 1 .. n : g[k] = g[k - 1] + t[k]

LEMMA SumsRun ==
  ASSUME NEW n \in Nat, NEW t \in [1 .. n -> Int],
         NEW f \in [SUBSET (1 .. n) -> Int], Sums(f, t, SUBSET (1 .. n))
  PROVE  \E g \in [0 .. n -> Int] : Runs(g, t, n) /\ f[1 .. n] = g[n]
<1>1. IsFiniteSet(1 .. n)
  BY FS_Interval
<1>2. InAnyOrder(f, t, 1 .. n)
  BY <1>1, SumsInAnyOrder
<1>0. \A s \in SUBSET (1 .. n) : \A x \in s : f[s] = t[x] + f[s \ {x}]
  BY <1>2 DEF InAnyOrder
<1> DEFINE g == [k \in 0 .. n |-> f[1 .. k]]
<1>9. \A k \in 0 .. n : 1 .. k \in SUBSET (1 .. n) /\ g[k] = f[1 .. k]
  OBVIOUS
<1>3. g \in [0 .. n -> Int]
  BY <1>9
<1>4. g[0] = 0
  <2>1. 1 .. 0 = {} /\ 0 \in 0 .. n
    OBVIOUS
  <2>2. f[{}] = 0
    BY DEF Sums
  <2>3. QED
    BY <1>9, <2>1, <2>2
<1>5. ASSUME NEW k \in 1 .. n PROVE g[k] = g[k - 1] + t[k]
  <2>1. k \in 0 .. n /\ k - 1 \in 0 .. n /\ k \in 1 .. k /\ (1 .. k) \ {k} = 1 .. k - 1
    OBVIOUS
  <2>2. \A x \in 1 .. k : f[1 .. k] = t[x] + f[(1 .. k) \ {x}]
    BY <1>0, <1>9, <2>1
  <2>3. f[1 .. k] = t[k] + f[1 .. k - 1]
    BY <2>1, <2>2
  <2>4. g[k] = t[k] + g[k - 1]
    BY <1>9, <2>1, <2>3
  <2>5. t[k] \in Int /\ g[k - 1] \in Int
    BY <1>3, <2>1
  <2> HIDE DEF g
  <2>6. QED
    BY <2>4, <2>5
<1>6. n \in 0 .. n
  OBVIOUS
<1>7. g[n] = f[1 .. n]
  BY <1>9, <1>6
<1> HIDE DEF g
<1>8. QED
  BY <1>3, <1>4, <1>5, <1>7 DEF Runs

\* Running totals, and stretches of equal terms in two of them.
Running(g, t, n) ==
    n \in Nat /\ t \in [1 .. n -> Int] /\ g \in [0 .. n -> Int] /\ Runs(g, t, n)

\* From a to c, the one's terms are the other's from b to d.
Alike(t, a, c, u, b, d) ==
    /\ a \in Nat /\ b \in Nat /\ c \in Nat /\ d \in Nat /\ a <= c /\ c - a = d - b
    /\ \A i \in 1 .. c - a : t[a + i] = u[b + i]

Rises(g, a, c, h, b, d) == g[c] - g[a] = h[d] - h[b]

\* Stretches with the same terms have the same sums.
LEMMA Stretch ==
  ASSUME NEW g, NEW t, NEW n, Running(g, t, n), NEW h, NEW u, NEW m, Running(h, u, m),
         NEW a, NEW b, NEW c, NEW d, Alike(t, a, c, u, b, d),
         c \in 0 .. n, d \in 0 .. m
  PROVE  Rises(g, a, c, h, b, d)
<1> DEFINE k == c - a
<1>0. /\ n \in Nat /\ t \in [1 .. n -> Int] /\ g \in [0 .. n -> Int] /\ Runs(g, t, n)
      /\ m \in Nat /\ u \in [1 .. m -> Int] /\ h \in [0 .. m -> Int] /\ Runs(h, u, m)
      /\ \A i \in 1 .. k : t[a + i] = u[b + i]
      /\ a \in Nat /\ b \in Nat /\ k \in Nat /\ a + k <= n /\ b + k <= m
      /\ a + k = c /\ b + k = d
  BY DEF Running, Alike
<1> HIDE DEF k
<1> USE <1>0
<1> DEFINE P == {j \in Nat : j <= k => g[a + j] - g[a] = h[b + j] - h[b]}
<1>1. 0 \in P
  <2>1. a \in 0 .. n /\ b \in 0 .. m /\ a + 0 = a /\ b + 0 = b
    OBVIOUS
  <2>2. g[a] \in Int /\ h[b] \in Int
    BY <2>1
  <2>3. g[a + 0] - g[a] = 0 /\ h[b + 0] - h[b] = 0
    BY <2>1, <2>2
  <2>4. QED
    BY <2>3
<1>2. ASSUME NEW j \in Nat, j \in P PROVE j + 1 \in P
  <2>1. SUFFICES ASSUME j + 1 <= k PROVE g[a + (j + 1)] - g[a] = h[b + (j + 1)] - h[b]
    OBVIOUS
  <2>2. g[a + j] - g[a] = h[b + j] - h[b]
    BY <1>2, <2>1
  <2>3. a + (j + 1) \in 1 .. n /\ (a + (j + 1)) - 1 = a + j /\ a + j \in 0 .. n /\ a \in 0 .. n
    BY <2>1
  <2>4. b + (j + 1) \in 1 .. m /\ (b + (j + 1)) - 1 = b + j /\ b + j \in 0 .. m /\ b \in 0 .. m
    BY <2>1
  <2>5. g[a + (j + 1)] = g[a + j] + t[a + (j + 1)]
    BY <2>3 DEF Runs
  <2>6. h[b + (j + 1)] = h[b + j] + u[b + (j + 1)]
    BY <2>4 DEF Runs
  <2>7. t[a + (j + 1)] = u[b + (j + 1)] /\ t[a + (j + 1)] \in Int
    <3> DEFINE i == j + 1
    <3>1. i \in 1 .. k
      BY <2>1
    <3> HIDE DEF i
    <3>2. t[a + i] = u[b + i]
      BY <1>0, <3>1
    <3>3. t[a + (j + 1)] \in Int
      BY <2>3
    <3>4. QED
      BY <3>2, <3>3 DEF i
  <2>8. g[a + j] \in Int /\ g[a] \in Int /\ h[b + j] \in Int /\ h[b] \in Int
    BY <2>3, <2>4
  <2> DEFINE x == g[a + j]
             y == h[b + j]
             z == t[a + (j + 1)]
             p == g[a]
             q == h[b]
             x1 == g[a + (j + 1)]
             y1 == h[b + (j + 1)]
  <2>9. x1 = x + z /\ y1 = y + z
    BY <2>5, <2>6, <2>7
  <2>10. x \in Int /\ y \in Int /\ z \in Int /\ p \in Int /\ q \in Int /\ x - p = y - q
    BY <2>2, <2>7, <2>8
  <2> HIDE DEF x, y, z, p, q, x1, y1
  <2>11. x1 - p = y1 - q
    BY <2>9, <2>10
  <2>12. QED
    BY <2>11 DEF p, q, x1, y1
<1> HIDE DEF P
<1>3. k \in P
  BY <1>1, <1>2, Induction
<1>4. g[a + k] - g[a] = h[b + k] - h[b]
  BY <1>3 DEF P
<1>5. g[a + k] = g[c] /\ h[b + k] = h[d]
  OBVIOUS
<1>6. QED
  BY <1>4, <1>5 DEF Rises

-----------------------------------------------------------------------------
(* Points, segments and paths. *)

LEMMA PointType ==
  ASSUME NEW x \in Int, NEW y \in Int
  PROVE  Point(x, y) \in Points /\ Point(x, y).x = x /\ Point(x, y).y = y
BY DEF Point, Points

LEMMA PathParts ==
  ASSUME NEW path \in Paths
  PROVE  /\ path.segments \in Seq(Segments) /\ path.closed \in BOOLEAN
         /\ Len(path.segments) \in Nat
         /\ DOMAIN path.segments = 1 .. Len(path.segments)
         /\ path = Path(path.segments, path.closed)
<1>1. path.segments \in Seq(Segments) /\ path.closed \in BOOLEAN
  BY DEF Paths
<1>2. path = Path(path.segments, path.closed)
  BY DEF Paths, Path
<1>3. QED
  BY <1>1, <1>2

LEMMA PathType ==
  ASSUME NEW segments \in Seq(Segments), NEW closed \in BOOLEAN
  PROVE  /\ Path(segments, closed) \in Paths
         /\ Path(segments, closed).segments = segments
         /\ Path(segments, closed).closed = closed
BY DEF Path, Paths

LEMMA SegmentParts ==
  ASSUME NEW s \in Segments
  PROVE  /\ s.kind \in {"line", "bezier", "arc"}
         /\ s.start \in Points /\ s.end \in Points /\ s.via \in Seq(Points)
         /\ s = [kind |-> s.kind, start |-> s.start, via |-> s.via, end |-> s.end]
BY DEF Segments

LEMMA LineType ==
  ASSUME NEW a \in Points, NEW b \in Points
  PROVE  /\ Line(a, b) \in Segments
         /\ Line(a, b).kind = "line" /\ Line(a, b).via = <<>>
         /\ Line(a, b).start = a /\ Line(a, b).end = b
<1>1. <<>> \in Seq(Points)
  OBVIOUS
<1>2. QED
  BY <1>1 DEF Line, Segments

LEMMA DistanceType ==
  ASSUME NEW p \in Points, NEW q \in Points
  PROVE  SquaredDistance(p, q) \in Nat
<1>1. p.x \in Int /\ p.y \in Int /\ q.x \in Int /\ q.y \in Int
  BY DEF Points
<1>2. \A n \in Int : n * n \in Nat
  <2>1. TAKE n \in Int
  <2>2. CASE n >= 0
    BY <2>2
  <2>3. CASE n < 0
    <3>1. n * n = (0 - n) * (0 - n) /\ 0 - n \in Nat
      BY <2>3
    <3>2. QED
      BY <3>1
  <2>4. QED
    BY <2>2, <2>3
<1> DEFINE dx == p.x - q.x
           dy == p.y - q.y
<1>3. dx \in Int /\ dy \in Int
  BY <1>1
<1>4. SquaredDistance(p, q) = dx * dx + dy * dy
  BY DEF SquaredDistance
<1> HIDE DEF dx, dy
<1>5. QED
  BY <1>2, <1>3, <1>4

\* The corner after and before a corner.
LEMMA AfterIn ==
  ASSUME NEW S, NEW ring \in Seq(S), NEW i \in 1 .. Len(ring)
  PROVE  /\ After(ring, i) \in S
         /\ i < Len(ring) => After(ring, i) = ring[i + 1]
         /\ i = Len(ring) => After(ring, i) = ring[1]
<1> DEFINE n == Len(ring)
<1>1. n \in Nat \ {0} /\ i \in 1 .. n
  OBVIOUS
<1> HIDE DEF n
<1>2. i < n => i % n = i
  BY <1>1
<1>3. i = n => i % n = 0
  BY <1>1
<1>4. (i % n) + 1 \in 1 .. n
  BY <1>1, <1>2, <1>3
<1>5. After(ring, i) = ring[(i % n) + 1]
  BY DEF After, n
<1>6. After(ring, i) \in S
  BY <1>4, <1>5 DEF n
<1>7. QED
  BY <1>1, <1>2, <1>3, <1>5, <1>6 DEF n

LEMMA BeforeIn ==
  ASSUME NEW S, NEW ring \in Seq(S), NEW i \in 1 .. Len(ring)
  PROVE  /\ Before(ring, i) \in S
         /\ i > 1 => Before(ring, i) = ring[i - 1]
<1> DEFINE n == Len(ring)
<1>1. n \in Nat \ {0} /\ i \in 1 .. n
  OBVIOUS
<1> HIDE DEF n
<1>2. ASSUME i > 1 PROVE (i + n - 2) % n = i - 2
  <2>1. \A j \in 0 .. n - 1 : (j + n) % n = j
    BY <1>1
  <2>2. i - 2 \in 0 .. n - 1 /\ i + n - 2 = (i - 2) + n
    BY <1>1, <1>2
  <2>3. QED
    BY <2>1, <2>2
<1>3. ASSUME i = 1 PROVE (i + n - 2) % n = n - 1
  <2>1. \A j \in 0 .. n - 1 : j % n = j
    BY <1>1
  <2>2. n - 1 \in 0 .. n - 1 /\ i + n - 2 = n - 1
    BY <1>1, <1>3
  <2>3. QED
    BY <2>1, <2>2
<1>4. ((i + n - 2) % n) + 1 \in 1 .. n
  BY <1>1, <1>2, <1>3
<1>5. Before(ring, i) = ring[((i + n - 2) % n) + 1]
  BY DEF Before, n
<1>6. Before(ring, i) \in S
  BY <1>4, <1>5 DEF n
<1>7. i > 1 => ((i + n - 2) % n) + 1 = i - 1
  BY <1>1, <1>2
<1>8. QED
  BY <1>1, <1>5, <1>6, <1>7

\* There is but one such sum.
LEMMA SumsUnique ==
  ASSUME NEW D, IsFiniteSet(D), NEW t \in [D -> Int],
         NEW f \in [SUBSET D -> Int], Sums(f, t, SUBSET D),
         NEW h, Sums(h, t, SUBSET D)
  PROVE  h[D] = f[D]
<1> DEFINE P == {k \in Nat : \A s \in Small(D, k) : h[s] = f[s]}
           some(s) == CHOOSE x \in s : TRUE
<1>1. \A s \in SUBSET D : /\ f[s] = IF s = {} THEN 0 ELSE t[some(s)] + f[s \ {some(s)}]
                          /\ h[s] = IF s = {} THEN 0 ELSE t[some(s)] + h[s \ {some(s)}]
  BY DEF Sums
<1>2. \A s : s # {} => some(s) \in s
  OBVIOUS
<1> HIDE DEF some
<1>3. 0 \in P
  <2>1. ASSUME NEW s \in Small(D, 0) PROVE h[s] = f[s]
    <3>1. s \in SUBSET D /\ Cardinality(s) <= 0
      BY DEF Small
    <3>2. IsFiniteSet(s)
      BY <3>1, FS_Subset
    <3>3. Cardinality(s) \in Nat
      BY <3>2, FS_CardinalityType
    <3>4. s = {}
      BY <3>1, <3>2, <3>3, FS_EmptySet
    <3>5. QED
      BY <1>1, <3>1, <3>4
  <2>2. QED
    BY <2>1
<1>4. ASSUME NEW k \in Nat, k \in P PROVE k + 1 \in P
  <2>1. ASSUME NEW s \in Small(D, k + 1) PROVE h[s] = f[s]
    <3>1. s \in SUBSET D
      BY DEF Small
    <3>2. CASE s = {}
      BY <1>1, <3>1, <3>2
    <3>3. CASE s # {}
      <4>1. some(s) \in s
        BY <1>2, <3>3
      <4>2. s \ {some(s)} \in Small(D, k)
        BY <2>1, <4>1, SmallStep
      <4>3. h[s \ {some(s)}] = f[s \ {some(s)}]
        BY <1>4, <4>2
      <4>4. QED
        BY <1>1, <3>1, <3>3, <4>3
    <3>4. QED
      BY <3>2, <3>3
  <2>2. QED
    BY <2>1
<1> HIDE DEF P
<1>5. \A k \in Nat : k \in P
  BY <1>3, <1>4, Induction
<1>6. Cardinality(D) \in Nat /\ D \in Small(D, Cardinality(D))
  <2>1. Cardinality(D) \in Nat
    BY FS_CardinalityType
  <2>2. QED
    BY <2>1 DEF Small
<1>7. QED
  BY <1>5, <1>6 DEF P

\* The length of what FlattenSeq makes.
LEMMA FlattenSeqLength ==
  ASSUME NEW S, NEW n \in Nat, n # 0, NEW seqs, seqs = [i \in 1 .. n |-> seqs[i]],
         \A i \in 1 .. n : seqs[i] \in Seq(S) /\ seqs[i] # <<>>
  PROVE  /\ Len(FlattenSeq(seqs)) >= n
         /\ \A i \in 1 .. n : Len(FlattenSeq(seqs)) >= n - 1 + Len(seqs[i])
<1>1. PICK f : Flattens(f, seqs, n) /\ FlattenSeq(seqs) = f[n]
  <2>1. Len(seqs) = n
    OBVIOUS
  <2>2. QED
    BY <2>1, FlattenSeqFlattens
<1>2. \A i \in 1 .. n : f[i] = IF i = 1 THEN seqs[i] ELSE f[i - 1] \o seqs[i]
  BY <1>1 DEF Flattens
<1> DEFINE P == {k \in Nat : k \in 1 .. n =>
                    /\ f[k] \in Seq(S)
                    /\ Len(f[k]) >= k
                    /\ \A i \in 1 .. k : Len(f[k]) >= k - 1 + Len(seqs[i])}
<1>3. 0 \in P
  OBVIOUS
<1>4. ASSUME NEW k \in Nat, k \in P PROVE k + 1 \in P
  <2>1. SUFFICES ASSUME k + 1 \in 1 .. n
        PROVE  /\ f[k + 1] \in Seq(S)
               /\ Len(f[k + 1]) >= k + 1
               /\ \A i \in 1 .. k + 1 : Len(f[k + 1]) >= k + Len(seqs[i])
    <3>1. k + 1 \in Nat /\ (k + 1) - 1 = k
      OBVIOUS
    <3>2. QED
      BY <3>1
  <2>2. seqs[k + 1] \in Seq(S) /\ Len(seqs[k + 1]) \in Nat /\ Len(seqs[k + 1]) >= 1
    <3>1. seqs[k + 1] \in Seq(S) /\ seqs[k + 1] # <<>>
      BY <2>1
    <3>2. \A s \in Seq(S) : s # <<>> => Len(s) \in Nat /\ Len(s) >= 1
      OBVIOUS
    <3>3. QED
      BY <3>1, <3>2
  <2>3. CASE k = 0
    <3>1. f[k + 1] = seqs[k + 1] /\ k + 1 = 1
      BY <1>2, <2>1, <2>3
    <3>2. \A i \in 1 .. k + 1 : i = k + 1
      BY <2>3
    <3>3. QED
      BY <2>2, <2>3, <3>1, <3>2
  <2>4. CASE k # 0
    <3>1. k \in 1 .. n /\ k + 1 # 1 /\ (k + 1) - 1 = k
      BY <2>1, <2>4
    <3>2. f[k + 1] = f[k] \o seqs[k + 1]
      BY <1>2, <2>1, <3>1
    <3>3. /\ f[k] \in Seq(S) /\ Len(f[k]) >= k
          /\ \A i \in 1 .. k : Len(f[k]) >= k - 1 + Len(seqs[i])
      BY <1>4, <3>1
    <3>4. f[k + 1] \in Seq(S) /\ Len(f[k + 1]) = Len(f[k]) + Len(seqs[k + 1])
      BY <2>2, <3>2, <3>3, ConcatElements
    <3> DEFINE l == Len(f[k])
               m == Len(seqs[k + 1])
               r == Len(f[k + 1])
    <3>5. l \in Nat /\ m \in Nat /\ m >= 1 /\ l >= k /\ r = l + m
      BY <2>2, <3>3, <3>4
    <3>6. \A i \in 1 .. k : Len(seqs[i]) \in Nat /\ l >= k - 1 + Len(seqs[i])
      <4>1. TAKE i \in 1 .. k
      <4>2. i \in 1 .. n
        BY <3>1
      <4>3. seqs[i] \in Seq(S)
        BY <4>2
      <4>4. Len(seqs[i]) \in Nat
        BY <4>3
      <4>5. l >= k - 1 + Len(seqs[i])
        BY <3>3
      <4>6. QED
        BY <4>4, <4>5
    <3> HIDE DEF l, m, r
    <3>7. ASSUME NEW i \in 1 .. k + 1 PROVE r >= k + Len(seqs[i])
      <4>1. CASE i = k + 1
        <5>1. Len(seqs[i]) = m
          BY <4>1 DEF m
        <5>2. r >= k + m
          BY <3>5
        <5>3. QED
          BY <5>1, <5>2
      <4>2. CASE i # k + 1
        <5>1. i \in 1 .. k
          BY <4>2
        <5> DEFINE w == Len(seqs[i])
        <5>2. w \in Nat /\ l >= k - 1 + w
          BY <3>6, <5>1
        <5> HIDE DEF w
        <5>3. r >= k + w
          BY <3>5, <5>2
        <5>4. QED
          BY <5>3 DEF w
      <4>3. QED
        BY <4>1, <4>2
    <3>8. r >= k + 1
      BY <3>5
    <3>9. QED
      BY <3>4, <3>7, <3>8 DEF r
  <2>5. QED
    BY <2>3, <2>4
<1> HIDE DEF P
<1>5. n \in P
  BY <1>3, <1>4, Induction
<1>6. n \in 1 .. n
  OBVIOUS
<1>7. QED
  BY <1>1, <1>5, <1>6 DEF P

\* Two parts are flattened to one after the other.
LEMMA FlattenTwo ==
  ASSUME NEW seqs, seqs = [i \in 1 .. 2 |-> seqs[i]]
  PROVE  FlattenSeq(seqs) = seqs[1] \o seqs[2]
<1>1. Len(seqs) = 2
  OBVIOUS
<1>2. PICK f : Flattens(f, seqs, 2) /\ FlattenSeq(seqs) = f[2]
  <2>1. Len(seqs) \in Nat /\ Len(seqs) # 0
    BY <1>1
  <2>2. \E f : Flattens(f, seqs, Len(seqs)) /\ FlattenSeq(seqs) = f[Len(seqs)]
    BY <2>1, FlattenSeqFlattens
  <2>3. QED
    BY <1>1, <2>2
<1>3. \A i \in 1 .. 2 : f[i] = IF i = 1 THEN seqs[i] ELSE f[i - 1] \o seqs[i]
  BY <1>2 DEF Flattens
<1>4. f[1] = seqs[1] /\ f[2] = f[1] \o seqs[2]
  <2>1. 1 \in 1 .. 2 /\ 2 \in 1 .. 2 /\ 2 - 1 = 1
    OBVIOUS
  <2>2. QED
    BY <1>3, <2>1
<1>5. QED
  BY <1>2, <1>4

-----------------------------------------------------------------------------
(* Outlines: what flattening and the ring of a path are made of. *)

\* Segments and paths between points of any kind: those of an artwork, and the
\* trimmed corners of a rounded one.
Traces(P) == [kind : {"line", "bezier", "arc"}, start : P, via : Seq(P), end : P]
Drawings(P) == [segments : Seq(Traces(P)), closed : BOOLEAN]

LEMMA DrawingsOfPoints == Segments = Traces(Points) /\ Paths = Drawings(Points)
BY DEF Segments, Paths, Traces, Drawings

LEMMA TraceParts ==
  ASSUME NEW P, NEW s \in Traces(P)
  PROVE  /\ s.kind \in {"line", "bezier", "arc"}
         /\ s.start \in P /\ s.end \in P /\ s.via \in Seq(P)
BY DEF Traces

LEMMA DrawingParts ==
  ASSUME NEW P, NEW path \in Drawings(P)
  PROVE  /\ path.segments \in Seq(Traces(P)) /\ path.closed \in BOOLEAN
         /\ Len(path.segments) \in Nat
         /\ DOMAIN path.segments = 1 .. Len(path.segments)
         /\ path = Path(path.segments, path.closed)
<1>1. path.segments \in Seq(Traces(P)) /\ path.closed \in BOOLEAN
  BY DEF Drawings
<1>2. path = Path(path.segments, path.closed)
  BY DEF Drawings, Path
<1>3. QED
  BY <1>1, <1>2

LEMMA FlattenParts ==
  ASSUME NEW P, NEW path \in Drawings(P)
  PROVE  LET parts == [i \in DOMAIN path.segments |-> FlattenSegment(path.segments[i])]
         IN  /\ parts = [i \in 1 .. Len(path.segments) |-> parts[i]]
             /\ \A i \in 1 .. Len(path.segments) :
                    /\ parts[i] \in Seq(P) /\ parts[i] # <<>>
                    /\ Len(parts[i]) = 1 + Len(path.segments[i].via)
                    /\ parts[i] = <<path.segments[i].start>> \o path.segments[i].via
<1> DEFINE parts == [i \in DOMAIN path.segments |-> FlattenSegment(path.segments[i])]
<1>1. DOMAIN path.segments = 1 .. Len(path.segments)
  BY DrawingParts
<1>2. ASSUME NEW i \in 1 .. Len(path.segments)
      PROVE  /\ parts[i] \in Seq(P) /\ parts[i] # <<>>
             /\ Len(parts[i]) = 1 + Len(path.segments[i].via)
             /\ parts[i] = <<path.segments[i].start>> \o path.segments[i].via
  <2>1. path.segments[i] \in Traces(P)
    BY DrawingParts
  <2> DEFINE a == path.segments[i].start
             v == path.segments[i].via
  <2>2. a \in P /\ v \in Seq(P)
    BY <2>1, TraceParts
  <2>3. parts[i] = <<a>> \o v
    BY <1>1 DEF FlattenSegment
  <2> HIDE DEF a, v
  <2>4. <<a>> \in Seq(P) /\ Len(<<a>>) = 1
    BY <2>2
  <2>5. <<a>> \o v \in Seq(P) /\ Len(<<a>> \o v) = 1 + Len(v)
    BY <2>2, <2>4, ConcatElements
  <2>6. Len(v) \in Nat
    BY <2>2
  <2>7. <<a>> \o v # <<>>
    BY <2>5, <2>6
  <2>8. QED
    BY <2>3, <2>5, <2>7 DEF a, v
<1>3. QED
  BY <1>1, <1>2

LEMMA FlattenPathType ==
  ASSUME NEW P, NEW path \in Drawings(P)
  PROVE  /\ FlattenPath(path) \in Seq(P)
         /\ path.segments # <<>> => Len(FlattenPath(path)) >= Len(path.segments) + 1
         /\ \A i \in 1 .. Len(path.segments) :
                Len(FlattenPath(path)) >= Len(path.segments) + 1 + Len(path.segments[i].via)
<1> DEFINE n == Len(path.segments)
           parts == [i \in DOMAIN path.segments |-> FlattenSegment(path.segments[i])]
           end == Last(path.segments).end
<1>1. n \in Nat
  BY DrawingParts
<1>2. CASE path.segments = <<>>
  <2>1. FlattenPath(path) = <<>> /\ n = 0
    BY <1>2 DEF FlattenPath
  <2>2. QED
    BY <1>2, <2>1
<1>3. CASE path.segments # <<>>
  <2>1. n # 0
    BY <1>3, DrawingParts
  <2>2. FlattenPath(path) = FlattenSeq(parts) \o <<end>>
    BY <1>3 DEF FlattenPath
  <2>3. path.segments[n] \in Traces(P)
    BY <1>1, <2>1, DrawingParts
  <2>4. end \in P
    BY <2>3, TraceParts DEF Last
  <2>5. /\ parts = [i \in 1 .. n |-> parts[i]]
        /\ \A i \in 1 .. n : /\ parts[i] \in Seq(P) /\ parts[i] # <<>>
                             /\ Len(parts[i]) = 1 + Len(path.segments[i].via)
    BY FlattenParts
  <2>6. \A i \in 1 .. n : Len(path.segments[i].via) \in Nat
    <3>1. TAKE i \in 1 .. n
    <3>2. path.segments[i].via \in Seq(P)
      BY DrawingParts, TraceParts
    <3>3. QED
      BY <3>2
  <2> HIDE DEF n, parts, end
  <2>7. FlattenSeq(parts) \in Seq(P)
    BY <1>1, <2>5, FlattenSeqType
  <2>8. /\ Len(FlattenSeq(parts)) >= n
        /\ \A i \in 1 .. n : Len(FlattenSeq(parts)) >= n - 1 + Len(parts[i])
    BY <1>1, <2>1, <2>5, FlattenSeqLength
  <2>9. <<end>> \in Seq(P) /\ Len(<<end>>) = 1
    BY <2>4
  <2>10. /\ FlattenPath(path) \in Seq(P)
         /\ Len(FlattenPath(path)) = Len(FlattenSeq(parts)) + 1
    BY <2>2, <2>7, <2>9, ConcatElements
  <2>11. Len(FlattenSeq(parts)) \in Nat
    BY <2>7
  <2>12. Len(FlattenPath(path)) >= n + 1
    BY <1>1, <2>8, <2>10, <2>11
  <2>13. ASSUME NEW i \in 1 .. n
         PROVE  Len(FlattenPath(path)) >= n + 1 + Len(path.segments[i].via)
    <3> DEFINE l == Len(FlattenSeq(parts))
               w == Len(path.segments[i].via)
    <3>1. l >= n - 1 + (1 + w)
      BY <2>5, <2>8
    <3>2. w \in Nat /\ l \in Nat /\ Len(FlattenPath(path)) = l + 1
      BY <2>6, <2>10, <2>11
    <3> HIDE DEF l, w
    <3>3. l + 1 >= n + 1 + w
      BY <1>1, <3>1, <3>2
    <3>4. QED
      BY <3>2, <3>3 DEF w
  <2>14. QED
    BY <2>10, <2>12, <2>13 DEF n
<1>4. QED
  BY <1>2, <1>3

LEMMA RingOfType ==
  ASSUME NEW S, NEW flat \in Seq(S)
  PROVE  RingOf(flat) \in Seq(S) /\ Len(RingOf(flat)) >= Len(flat) - 1
<1>1. Len(flat) \in Nat
  OBVIOUS
<1>2. CASE Len(flat) > 1 /\ Head(flat) = Last(flat)
  <2>1. RingOf(flat) = SubSeq(flat, 1, Len(flat) - 1)
    BY <1>2 DEF RingOf, Front
  <2>2. SubSeq(flat, 1, Len(flat) - 1) \in Seq(S)
    BY <1>2
  <2>3. Len(SubSeq(flat, 1, Len(flat) - 1)) = Len(flat) - 1
    BY <1>1, <1>2
  <2>4. QED
    BY <1>1, <2>1, <2>2, <2>3
<1>3. CASE ~(Len(flat) > 1 /\ Head(flat) = Last(flat))
  <2>1. RingOf(flat) = flat
    BY <1>3 DEF RingOf
  <2>2. QED
    BY <1>1, <2>1
<1>4. QED
  BY <1>2, <1>3

LEMMA RingType ==
  ASSUME NEW path \in Paths
  PROVE  Ring(path) \in Seq(Points)
BY FlattenPathType, RingOfType, DrawingsOfPoints DEF Ring

-----------------------------------------------------------------------------
(* The area of a ring, as a sum of one term for every edge. *)

Edge(ring, i) == ring[i].x * After(ring, i).y - After(ring, i).x * ring[i].y

EdgesOf(ring) == [i \in 1 .. Len(ring) |-> Edge(ring, i)]

\* The sums DoubledArea goes through.
AreaSums(h, ring) ==
    h = [s \in SUBSET (1 .. Len(ring)) |->
            IF s = {} THEN 0
            ELSE Edge(ring, CHOOSE x \in s : TRUE) + h[s \ {CHOOSE x \in s : TRUE}]]

LEMMA EdgeType ==
  ASSUME NEW ring \in Seq(Points)
  PROVE  /\ EdgesOf(ring) \in [1 .. Len(ring) -> Int]
         /\ \A i \in 1 .. Len(ring) : EdgesOf(ring)[i] = Edge(ring, i) /\ Edge(ring, i) \in Int
<1>1. ASSUME NEW i \in 1 .. Len(ring) PROVE Edge(ring, i) \in Int
  <2>1. ring[i] \in Points /\ After(ring, i) \in Points
    BY AfterIn
  <2>2. /\ ring[i].x \in Int /\ ring[i].y \in Int
        /\ After(ring, i).x \in Int /\ After(ring, i).y \in Int
    BY <2>1 DEF Points
  <2>3. \A a, b, c, d \in Int : a * b - c * d \in Int
    OBVIOUS
  <2>4. QED
    BY <2>2, <2>3 DEF Edge
<1>2. QED
  BY <1>1 DEF EdgesOf

LEMMA AreaRuns ==
  ASSUME NEW ring \in Seq(Points), Len(ring) >= 3
  PROVE  \E g \in [0 .. Len(ring) -> Int] :
             Runs(g, EdgesOf(ring), Len(ring)) /\ DoubledArea(ring) = g[Len(ring)]
<1> DEFINE n == Len(ring)
           D == 1 .. n
           t == EdgesOf(ring)
<1>1. n \in Nat /\ DOMAIN ring = D
  OBVIOUS
<1>2. IsFiniteSet(D)
  BY <1>1, FS_Interval
<1>3. t \in [D -> Int] /\ \A i \in D : t[i] = Edge(ring, i)
  BY EdgeType
<1>4. PICK f \in [SUBSET D -> Int] : Sums(f, t, SUBSET D)
  <2> HIDE DEF D, t
  <2>1. QED
    BY <1>2, <1>3, SumsOverSubsets
<1>5. f = [s \in SUBSET D |-> IF s = {} THEN 0
                              ELSE t[CHOOSE x \in s : TRUE] + f[s \ {CHOOSE x \in s : TRUE}]]
  BY <1>4 DEF Sums
<1>6. \A s \in SUBSET D : s # {} => t[CHOOSE x \in s : TRUE] = Edge(ring, CHOOSE x \in s : TRUE)
  <2>1. \A s \in SUBSET D : s # {} => (CHOOSE x \in s : TRUE) \in D
    OBVIOUS
  <2> HIDE DEF D, t
  <2>2. QED
    BY <1>3, <2>1
<1>7. \A h : Sums(h, t, SUBSET D) <=> AreaSums(h, ring)
  <2>1. TAKE h
  <2>2. [s \in SUBSET D |-> IF s = {} THEN 0
             ELSE t[CHOOSE x \in s : TRUE] + h[s \ {CHOOSE x \in s : TRUE}]]
        = [s \in SUBSET D |-> IF s = {} THEN 0
             ELSE Edge(ring, CHOOSE x \in s : TRUE) + h[s \ {CHOOSE x \in s : TRUE}]]
    <3> HIDE DEF D, t
    <3>1. QED
      BY <1>6
  <2>3. QED
    BY <2>2 DEF Sums, AreaSums
<1>8. \E h : Sums(h, t, SUBSET D) /\ DoubledArea(ring) = h[D]
  <2>1. AreaSums(f, ring)
    BY <1>4, <1>7
  <2>2. \E h : AreaSums(h, ring) /\ DoubledArea(ring) = h[1 .. Len(ring)]
    <3>1. \E h : h = [s \in SUBSET (1 .. Len(ring)) |-> IF s = {} THEN 0
                     ELSE Edge(ring, CHOOSE x \in s : TRUE) + h[s \ {CHOOSE x \in s : TRUE}]]
      BY <2>1 DEF AreaSums
    <3>2. DOMAIN ring = 1 .. Len(ring) /\ ~(Len(ring) < 3)
      OBVIOUS
    <3>3. DoubledArea(ring) = LET edge(i) == Edge(ring, i) IN MapThenSumSet(edge, 1 .. Len(ring))
      BY <3>2 DEF DoubledArea, MapThenSumSet, MapThenFoldSet, Edge
    <3>4. QED
      BY <3>1, <3>3 DEF MapThenSumSet, MapThenFoldSet, AreaSums
  <2>3. QED
    BY <1>7, <2>2
<1>9. DoubledArea(ring) = f[D]
  <2> HIDE DEF D, t
  <2>1. PICK h : Sums(h, t, SUBSET D) /\ DoubledArea(ring) = h[D]
    BY <1>8
  <2>2. h[D] = f[D]
    <3>1. t \in [D -> Int]
      BY <1>3
    <3>2. f \in [SUBSET D -> Int]
      OBVIOUS
    <3>3. Sums(f, t, SUBSET D)
      BY <1>4
    <3>4. Sums(h, t, SUBSET D)
      BY <2>1
    <3>5. QED
      BY ONLY <1>2, <3>1, <3>2, <3>3, <3>4, SumsUnique
  <2>3. QED
    BY <2>1, <2>2
<1>10. \E g \in [0 .. n -> Int] : Runs(g, t, n) /\ f[D] = g[n]
  <2>1. t \in [1 .. n -> Int] /\ f \in [SUBSET (1 .. n) -> Int] /\ Sums(f, t, SUBSET (1 .. n))
    BY <1>3, <1>4
  <2> HIDE DEF t, n
  <2>0. n \in Nat
    BY <1>1
  <2>2. \E g \in [0 .. n -> Int] : Runs(g, t, n) /\ f[1 .. n] = g[n]
    BY <2>0, <2>1, SumsRun, Zenon
  <2>3. QED
    BY <2>2
<1>11. QED
  BY <1>9, <1>10

LEMMA AreaType ==
  ASSUME NEW ring \in Seq(Points)
  PROVE  DoubledArea(ring) \in Int
<1>1. CASE Len(ring) < 3
  BY <1>1 DEF DoubledArea, MapThenSumSet, MapThenFoldSet
<1>2. CASE ~(Len(ring) < 3)
  <2>1. Len(ring) >= 3 /\ Len(ring) \in 0 .. Len(ring)
    BY <1>2
  <2>2. QED
    BY <2>1, AreaRuns
<1>3. QED
  BY <1>1, <1>2

LEMMA MagnitudeType ==
  ASSUME NEW n \in Int
  PROVE  Magnitude(n) \in Nat
BY DEF Magnitude

\* What FlattenSeq makes has the elements of its parts.
LEMMA FlattenSeqRange ==
  ASSUME NEW S, NEW n \in Nat, NEW seqs, seqs = [i \in 1 .. n |-> seqs[i]],
         \A i \in 1 .. n : seqs[i] \in Seq(S)
  PROVE  Range(FlattenSeq(seqs)) = UNION {Range(seqs[i]) : i \in 1 .. n}
<1>1. Len(seqs) = n
  OBVIOUS
<1>2. CASE n = 0
  <2>1. FlattenSeq(seqs) = seqs
    BY <1>1, <1>2 DEF FlattenSeq
  <2>2. DOMAIN seqs = {}
    BY <1>2
  <2>3. QED
    BY <1>2, <2>1, <2>2 DEF Range
<1>3. CASE n # 0
  <2>1. PICK f : Flattens(f, seqs, n) /\ FlattenSeq(seqs) = f[n]
    BY <1>1, <1>3, FlattenSeqFlattens
  <2>2. \A i \in 1 .. n : f[i] = IF i = 1 THEN seqs[i] ELSE f[i - 1] \o seqs[i]
    BY <2>1 DEF Flattens
  <2> DEFINE P == {k \in Nat : k \in 1 .. n =>
                      f[k] \in Seq(S) /\ Range(f[k]) = UNION {Range(seqs[i]) : i \in 1 .. k}}
  <2>3. 0 \in P
    OBVIOUS
  <2>4. ASSUME NEW k \in Nat, k \in P PROVE k + 1 \in P
    <3>0. k + 1 \in Nat
      OBVIOUS
    <3>1. SUFFICES ASSUME k + 1 \in 1 .. n
          PROVE  /\ f[k + 1] \in Seq(S)
                 /\ Range(f[k + 1]) = UNION {Range(seqs[i]) : i \in 1 .. k + 1}
      BY <3>0, Zenon
    <3>2. CASE k = 0
      <4>1. f[k + 1] = seqs[k + 1] /\ 1 .. k + 1 = {k + 1}
        BY <2>2, <3>1, <3>2
      <4>2. QED
        BY <3>1, <4>1
    <3>3. CASE k # 0
      <4>1. k \in 1 .. n /\ k + 1 # 1 /\ (k + 1) - 1 = k
        BY <3>1, <3>3
      <4>2. f[k + 1] = f[k] \o seqs[k + 1]
        BY <2>2, <3>1, <4>1
      <4>3. f[k] \in Seq(S) /\ Range(f[k]) = UNION {Range(seqs[i]) : i \in 1 .. k}
        BY <2>4, <4>1
      <4>4. seqs[k + 1] \in Seq(S)
        BY <3>1
      <4> DEFINE a == f[k]
                 b == seqs[k + 1]
                 R(i) == Range(seqs[i])
      <4>5. a \in Seq(S) /\ b \in Seq(S) /\ f[k + 1] = a \o b
        BY <4>2, <4>3, <4>4
      <4>6. Range(a) = UNION {R(i) : i \in 1 .. k} /\ Range(b) = R(k + 1)
        BY <4>3
      <4>7. 1 .. k + 1 = (1 .. k) \cup {k + 1}
        OBVIOUS
      <4> HIDE DEF a, b, R
      <4>8. a \o b \in Seq(S) /\ Range(a \o b) = Range(a) \cup Range(b)
        BY <4>5, ConcatProperties, RangeConcatenation
      <4>9. UNION {R(i) : i \in 1 .. k + 1} = (UNION {R(i) : i \in 1 .. k}) \cup R(k + 1)
        BY <4>7
      <4>10. f[k + 1] \in Seq(S) /\ Range(f[k + 1]) = UNION {R(i) : i \in 1 .. k + 1}
        BY <4>5, <4>6, <4>8, <4>9
      <4>11. QED
        BY <4>10 DEF R
    <3>4. QED
      BY <3>2, <3>3
  <2> HIDE DEF P
  <2>5. n \in P
    BY <2>3, <2>4, Induction
  <2>6. n \in 1 .. n
    BY <1>3
  <2>7. QED
    BY <2>1, <2>5, <2>6 DEF P
<1>4. QED
  BY <1>2, <1>3

\* Parts of at most one element make no more elements than there are parts.
LEMMA FlattenSeqShort ==
  ASSUME NEW S, NEW n \in Nat, NEW seqs, seqs = [i \in 1 .. n |-> seqs[i]],
         \A i \in 1 .. n : seqs[i] \in Seq(S) /\ Len(seqs[i]) <= 1
  PROVE  Len(FlattenSeq(seqs)) <= n
<1>1. Len(seqs) = n
  OBVIOUS
<1>2. CASE n = 0
  <2>1. FlattenSeq(seqs) = seqs
    BY <1>1, <1>2 DEF FlattenSeq
  <2>2. QED
    BY <1>1, <2>1
<1>3. CASE n # 0
  <2>1. PICK f : Flattens(f, seqs, n) /\ FlattenSeq(seqs) = f[n]
    BY <1>1, <1>3, FlattenSeqFlattens
  <2>2. \A i \in 1 .. n : f[i] = IF i = 1 THEN seqs[i] ELSE f[i - 1] \o seqs[i]
    BY <2>1 DEF Flattens
  <2> DEFINE P == {k \in Nat : k \in 1 .. n => f[k] \in Seq(S) /\ Len(f[k]) <= k}
  <2>3. 0 \in P
    OBVIOUS
  <2>4. ASSUME NEW k \in Nat, k \in P PROVE k + 1 \in P
    <3>0. k + 1 \in Nat
      OBVIOUS
    <3>1. SUFFICES ASSUME k + 1 \in 1 .. n PROVE f[k + 1] \in Seq(S) /\ Len(f[k + 1]) <= k + 1
      BY <3>0, Zenon
    <3>2. seqs[k + 1] \in Seq(S) /\ Len(seqs[k + 1]) <= 1
      BY <3>1
    <3>3. CASE k = 0
      <4>1. f[k + 1] = seqs[k + 1]
        BY <2>2, <3>1, <3>3
      <4>2. QED
        BY <3>2, <3>3, <4>1
    <3>4. CASE k # 0
      <4>1. k \in 1 .. n /\ k + 1 # 1 /\ (k + 1) - 1 = k
        BY <3>1, <3>4
      <4>2. f[k + 1] = f[k] \o seqs[k + 1]
        BY <2>2, <3>1, <4>1
      <4>3. f[k] \in Seq(S) /\ Len(f[k]) <= k
        BY <2>4, <4>1
      <4>4. f[k + 1] \in Seq(S) /\ Len(f[k + 1]) = Len(f[k]) + Len(seqs[k + 1])
        BY <3>2, <4>2, <4>3, ConcatProperties
      <4> DEFINE l == Len(f[k])
                 m == Len(seqs[k + 1])
      <4>5. l \in Nat /\ m \in Nat /\ l <= k /\ m <= 1
        BY <3>2, <4>3
      <4> HIDE DEF l, m
      <4>6. l + m <= k + 1
        BY <4>5
      <4>7. QED
        BY <4>4, <4>6 DEF l, m
    <3>5. QED
      BY <3>3, <3>4
  <2> HIDE DEF P
  <2>5. n \in P
    BY <2>3, <2>4, Induction
  <2>6. n \in 1 .. n
    BY <1>3
  <2>7. QED
    BY <2>1, <2>5, <2>6 DEF P
<1>4. QED
  BY <1>2, <1>3

\* The elements at some indices of a sequence.
LEMMA SelectedType ==
  ASSUME NEW S, NEW seq \in Seq(S), NEW indices
  PROVE  /\ Selected(seq, indices) \in Seq(S)
         /\ Len(Selected(seq, indices)) <= Len(seq)
         /\ Range(Selected(seq, indices)) = {seq[i] : i \in indices \cap 1 .. Len(seq)}
         /\ 1 .. Len(seq) \subseteq indices => Selected(seq, indices) = seq
<1> DEFINE n == Len(seq)
           parts == [i \in DOMAIN seq |-> IF i \in indices THEN <<seq[i]>> ELSE <<>>]
<1>1. n \in Nat /\ DOMAIN seq = 1 .. n /\ seq \in [1 .. n -> S]
  OBVIOUS
<1>2. \A i \in 1 .. n : parts[i] = IF i \in indices THEN <<seq[i]>> ELSE <<>>
  BY <1>1
<1>3. parts = [i \in 1 .. n |-> parts[i]]
  BY <1>1
<1>4. Selected(seq, indices) = FlattenSeq(parts)
  BY DEF Selected
<1> HIDE DEF n, parts
<1>5. ASSUME NEW i \in 1 .. n
      PROVE  /\ parts[i] \in Seq(S) /\ Len(parts[i]) <= 1
             /\ Range(parts[i]) = IF i \in indices THEN {seq[i]} ELSE {}
  <2>1. seq[i] \in S
    BY <1>1
  <2>2. CASE i \in indices
    <3>1. parts[i] = <<seq[i]>>
      BY <1>2, <2>2
    <3>2. <<seq[i]>> \in Seq(S) /\ Len(<<seq[i]>>) = 1 /\ DOMAIN <<seq[i]>> = {1}
      BY <2>1
    <3>3. Range(<<seq[i]>>) = {seq[i]}
      BY <3>2 DEF Range
    <3>4. QED
      BY <2>2, <3>1, <3>2, <3>3
  <2>3. CASE i \notin indices
    <3>1. parts[i] = <<>>
      BY <1>2, <2>3
    <3>2. <<>> \in Seq(S) /\ Len(<<>>) = 0 /\ DOMAIN <<>> = {}
      OBVIOUS
    <3>3. Range(<<>>) = {}
      BY <3>2 DEF Range
    <3>4. QED
      BY <2>3, <3>1, <3>2, <3>3
  <2>4. QED
    BY <2>2, <2>3
<1>6. FlattenSeq(parts) \in Seq(S)
  BY <1>1, <1>3, <1>5, FlattenSeqType
<1>7. Len(FlattenSeq(parts)) <= n
  BY <1>1, <1>3, <1>5, FlattenSeqShort
<1>8. Range(FlattenSeq(parts)) = {seq[i] : i \in indices \cap 1 .. n}
  <2>1. Range(FlattenSeq(parts)) = UNION {Range(parts[i]) : i \in 1 .. n}
    <3>1. n \in Nat /\ \A i \in 1 .. n : parts[i] \in Seq(S)
      BY <1>1, <1>5
    <3>2. QED
      BY ONLY <1>3, <3>1, FlattenSeqRange
  <2>2. UNION {Range(parts[i]) : i \in 1 .. n} = {seq[i] : i \in indices \cap 1 .. n}
    BY <1>5
  <2>3. QED
    BY <2>1, <2>2
<1>9. ASSUME 1 .. n \subseteq indices PROVE FlattenSeq(parts) = seq
  <2> DEFINE e == [i \in 1 .. n |-> seq[i]]
  <2>0. e = seq /\ n \in Nat
    BY <1>1
  <2>1. e \in [1 .. n -> S]
    BY <1>1
  <2>2. parts = [i \in 1 .. n |-> <<e[i]>>]
    BY <1>2, <1>3, <1>9
  <2> HIDE DEF e
  <2>3. n \in Nat
    BY <2>0
  <2>4. FlattenSeq(parts) = e
    BY <2>1, <2>2, <2>3, FlattenSingles, ZenonT(60)
  <2>5. QED
    BY <2>0, <2>4
<1>10. QED
  BY <1>4, <1>6, <1>7, <1>8, <1>9 DEF n

-----------------------------------------------------------------------------
(* The five passes of repair_path. *)

\* The segments RemoveDuplicateNodes keeps, one after the other.
Keeps(kept, s) ==
    IF kept # <<>> /\ Within(s.start, Last(kept).end, ZeroTolerance) /\ ZeroLength(s)
    THEN kept ELSE Append(kept, s)

KeepsAll(f, segments) ==
    f = [s \in SUBSET (1 .. Len(segments)) |->
            IF s = {} THEN <<>> ELSE Keeps(f[s \ {Max(s)}], segments[Max(s)])]

LEMMA KeepsType ==
  ASSUME NEW kept \in Seq(Segments), NEW s \in Segments
  PROVE  /\ Keeps(kept, s) \in Seq(Segments)
         /\ ~ZeroLength(s) => Keeps(kept, s) = Append(kept, s)
<1>1. Append(kept, s) \in Seq(Segments)
  OBVIOUS
<1>2. QED
  BY <1>1 DEF Keeps

LEMMA DuplicatesStepByStep ==
  ASSUME NEW path \in Paths
  PROVE  \E g : /\ g[0] = <<>>
                /\ \A k \in 1 .. Len(path.segments) : g[k] = Keeps(g[k - 1], path.segments[k])
                /\ RemoveDuplicateNodes(path) = Path(g[Len(path.segments)], path.closed)
<1> DEFINE n == Len(path.segments)
           segments == path.segments
           A == Seq(Segments)
           step == [p \in A \X Segments |-> Keeps(p[1], p[2])]
<1>1. n \in Nat /\ segments \in Seq(Segments) /\ DOMAIN segments = 1 .. n
  BY PathParts
<1>2. \A a \in A : \A s \in Segments : step[<<a, s>>] = Keeps(a, s) /\ Keeps(a, s) \in A
  BY KeepsType
<1>3. step \in [A \X Segments -> A]
  BY KeepsType
<1>4. <<>> \in A
  OBVIOUS
<1> HIDE DEF segments, step, A, n
<1>5. PICK f \in [SUBSET (1 .. n) -> A] : FoldsLeft(f, step, <<>>, segments, n)
  <2>1. n <= Len(segments)
    BY <1>1 DEF n, segments
  <2>2. \A m \in Nat : m <= Len(segments) =>
            \E f \in [SUBSET (1 .. m) -> A] : FoldsLeft(f, step, <<>>, segments, m)
    BY <1>1, <1>3, <1>4, FoldsLeftExists
  <2>3. QED
    BY <1>1, <2>1, <2>2
<1>6. KeepsAll(f, segments)
  <2>1. f = [s \in SUBSET (1 .. n) |->
                IF s = {} THEN <<>> ELSE step[<<f[s \ {Max(s)}], segments[Max(s)]>>]]
    BY <1>5 DEF FoldsLeft
  <2>2. ASSUME NEW s \in SUBSET (1 .. n), s # {}
        PROVE  step[<<f[s \ {Max(s)}], segments[Max(s)]>>]
                   = Keeps(f[s \ {Max(s)}], segments[Max(s)])
    <3>1. Max(s) \in s
      <4>1. s \subseteq 0 .. n
        OBVIOUS
      <4>2. QED
        BY <1>1, <2>2, <4>1, Greatest
    <3>2. s \ {Max(s)} \in SUBSET (1 .. n) /\ Max(s) \in 1 .. n
      BY <3>1
    <3>3. f[s \ {Max(s)}] \in A /\ segments[Max(s)] \in Segments
      BY <1>1, <1>5, <3>2
    <3>4. QED
      BY <1>2, <3>3
  <2>3. [s \in SUBSET (1 .. n) |->
            IF s = {} THEN <<>> ELSE step[<<f[s \ {Max(s)}], segments[Max(s)]>>]]
        = [s \in SUBSET (1 .. n) |->
              IF s = {} THEN <<>> ELSE Keeps(f[s \ {Max(s)}], segments[Max(s)])]
    BY <2>2
  <2>4. QED
    BY <2>1, <2>3 DEF KeepsAll, n, segments
<1>7. \E h : KeepsAll(h, segments) /\ RemoveDuplicateNodes(path) = Path(h[1 .. n], path.closed)
  <2>1. DOMAIN path.segments = 1 .. Len(path.segments)
    BY PathParts
  <2>2. \E h : KeepsAll(h, path.segments)
    BY <1>6 DEF segments
  <2>3. \E h : KeepsAll(h, path.segments)
               /\ RemoveDuplicateNodes(path) = Path(h[1 .. Len(path.segments)], path.closed)
    BY <2>1, <2>2 DEF KeepsAll, Keeps, RemoveDuplicateNodes, FoldLeft, MapThenFoldSet
  <2>4. QED
    BY <2>3 DEF segments, n
<1>8. PICK h : KeepsAll(h, segments) /\ RemoveDuplicateNodes(path) = Path(h[1 .. n], path.closed)
  BY <1>7
<1>9. \A s \in SUBSET (1 .. n) :
          h[s] = IF s = {} THEN <<>> ELSE Keeps(h[s \ {Max(s)}], segments[Max(s)])
  BY <1>8 DEF KeepsAll, n, segments
<1> DEFINE g == [k \in 0 .. n |-> h[1 .. k]]
<1>10. \A k \in 0 .. n : g[k] = h[1 .. k]
  OBVIOUS
<1>11. g[0] = <<>>
  <2>1. 1 .. 0 = {} /\ 0 \in 0 .. n /\ {} \in SUBSET (1 .. n)
    BY <1>1
  <2>2. QED
    BY <1>9, <1>10, <2>1
<1>12. ASSUME NEW k \in 1 .. n PROVE g[k] = Keeps(g[k - 1], segments[k])
  <2>1. /\ 1 .. k \in SUBSET (1 .. n) /\ 1 .. k # {}
        /\ Max(1 .. k) = k /\ (1 .. k) \ {Max(1 .. k)} = 1 .. k - 1
    BY <1>1, Prefixed
  <2>2. h[1 .. k] = Keeps(h[1 .. k - 1], segments[k])
    BY <1>9, <2>1
  <2>3. k \in 0 .. n /\ k - 1 \in 0 .. n
    BY <1>1
  <2>4. QED
    BY <1>10, <2>2, <2>3
<1>13. g[n] = h[1 .. n]
  BY <1>1, <1>10
<1> HIDE DEF g
<1>14. QED
  BY <1>8, <1>11, <1>12, <1>13 DEF n, segments

LEMMA DuplicatesType ==
  ASSUME NEW path \in Paths
  PROVE  /\ RemoveDuplicateNodes(path) \in Paths
         /\ RemoveDuplicateNodes(path).closed = path.closed
         /\ (\A i \in 1 .. Len(path.segments) : ~ZeroLength(path.segments[i]))
                => RemoveDuplicateNodes(path) = path
<1> DEFINE n == Len(path.segments)
           segments == path.segments
<1>1. PICK g : /\ g[0] = <<>>
               /\ \A k \in 1 .. n : g[k] = Keeps(g[k - 1], segments[k])
               /\ RemoveDuplicateNodes(path) = Path(g[n], path.closed)
  BY DuplicatesStepByStep
<1>2. /\ n \in Nat /\ segments \in Seq(Segments) /\ path = Path(segments, path.closed)
      /\ path.closed \in BOOLEAN
  BY PathParts
<1>3. \A k \in 1 .. n : segments[k] \in Segments
  BY <1>2
<1>4. n = Len(segments)
  OBVIOUS
<1> HIDE DEF n, segments
<1> DEFINE P == {k \in Nat : k <= n => g[k] \in Seq(Segments)}
           Q == {k \in Nat : k <= n => g[k] = SubSeq(segments, 1, k)}
<1>5. 0 \in P
  <2>1. g[0] \in Seq(Segments)
    BY <1>1, EmptySeq
  <2>2. QED
    BY <2>1
<1>6. ASSUME NEW k \in Nat, k \in P PROVE k + 1 \in P
  <2>0. k + 1 \in Nat
    OBVIOUS
  <2>1. SUFFICES ASSUME k + 1 <= n PROVE g[k + 1] \in Seq(Segments)
    BY <2>0
  <2>2. k + 1 \in 1 .. n /\ (k + 1) - 1 = k /\ k <= n
    BY <1>2, <2>1
  <2>3. g[k + 1] = Keeps(g[k], segments[k + 1])
    BY <1>1, <2>2
  <2>4. g[k] \in Seq(Segments) /\ segments[k + 1] \in Segments
    BY <1>3, <1>6, <2>2
  <2>5. QED
    BY <2>3, <2>4, KeepsType
<1> HIDE DEF P
<1>7. \A k \in Nat : k \in P
  BY <1>5, <1>6, Induction
<1>8. g[n] \in Seq(Segments)
  BY <1>2, <1>7 DEF P
<1>9. ASSUME \A i \in 1 .. n : ~ZeroLength(segments[i]) PROVE g[n] = segments
  <2>1. 0 \in Q
    <3>1. SubSeq(segments, 1, 0) = <<>>
      BY <1>2
    <3>2. QED
      BY <1>1, <3>1
  <2>2. ASSUME NEW k \in Nat, k \in Q PROVE k + 1 \in Q
    <3>0. k + 1 \in Nat
      OBVIOUS
    <3>1. SUFFICES ASSUME k + 1 <= n PROVE g[k + 1] = SubSeq(segments, 1, k + 1)
      BY <3>0
    <3>2. k + 1 \in 1 .. n /\ (k + 1) - 1 = k /\ k <= n
      BY <1>2, <3>1
    <3>3. g[k + 1] = Keeps(g[k], segments[k + 1])
      BY <1>1, <3>2
    <3>4. segments[k + 1] \in Segments /\ ~ZeroLength(segments[k + 1])
      BY <1>3, <1>9, <3>2
    <3>5. g[k] \in Seq(Segments)
      BY <1>7, <3>2 DEF P
    <3>6. g[k + 1] = Append(g[k], segments[k + 1])
      BY <3>3, <3>4, <3>5, KeepsType
    <3>7. g[k] = SubSeq(segments, 1, k)
      BY <2>2, <3>2
    <3>8. Append(SubSeq(segments, 1, k), segments[k + 1]) = SubSeq(segments, 1, k + 1)
      BY <1>2, <1>4, <3>2
    <3>9. QED
      BY <3>6, <3>7, <3>8
  <2> HIDE DEF Q
  <2>3. \A k \in Nat : k \in Q
    BY <2>1, <2>2, Induction
  <2>4. g[n] = SubSeq(segments, 1, n)
    BY <1>2, <2>3 DEF Q
  <2>5. SubSeq(segments, 1, n) = segments
    BY <1>2, <1>4
  <2>6. QED
    BY <2>4, <2>5
<1>10. /\ Path(g[n], path.closed) \in Paths
       /\ Path(g[n], path.closed).closed = path.closed
  BY <1>2, <1>8, PathType
<1>11. QED
  BY <1>1, <1>2, <1>9, <1>10 DEF n, segments

-----------------------------------------------------------------------------
(* What the structural validation reports, and what outlines without a      *)
(* report are like.                                                        *)

\* An outline that flattens to three corners or more.
Stout(path) ==
    \/ Len(path.segments) >= 3
    \/ /\ Len(path.segments) >= 2
       /\ \E i \in 1 .. Len(path.segments) : path.segments[i].via # <<>>

LEMMA StoutFlattens ==
  ASSUME NEW P, NEW path \in Drawings(P), Stout(path)
  PROVE  /\ FlattenPath(path) \in Seq(P) /\ Len(FlattenPath(path)) >= 4
         /\ Len(Ring(path)) >= 3
         /\ Offsettable(path)
<1> DEFINE n == Len(path.segments)
           flat == FlattenPath(path)
<1>1. n \in Nat /\ path.segments \in Seq(Traces(P))
  BY DrawingParts
<1>2. /\ flat \in Seq(P)
      /\ path.segments # <<>> => Len(flat) >= n + 1
      /\ \A i \in 1 .. n : Len(flat) >= n + 1 + Len(path.segments[i].via)
  BY FlattenPathType
<1>3. n >= 2
  BY <1>1 DEF Stout
<1>4. path.segments # <<>>
  BY <1>3
<1>5. Len(flat) \in Nat
  BY <1>2
<1>6. Len(flat) >= 4
  <2>1. CASE n >= 3
    <3> HIDE DEF n, flat
    <3>1. QED
      BY <1>1, <1>2, <1>4, <1>5, <2>1
  <2>2. CASE \E i \in 1 .. n : path.segments[i].via # <<>>
    <3>1. PICK i \in 1 .. n : path.segments[i].via # <<>>
      BY <2>2
    <3> DEFINE v == path.segments[i].via
    <3>2. path.segments[i] \in Traces(P)
      BY <1>1
    <3>3. v \in Seq(P)
      BY <3>2, TraceParts
    <3>4. v # <<>>
      BY <3>1
    <3>5. Len(flat) >= n + 1 + Len(v)
      BY <1>2
    <3> HIDE DEF v, n, flat
    <3>6. Len(v) \in Nat /\ Len(v) # 0
      BY <3>3, <3>4
    <3>7. QED
      BY <1>1, <1>3, <1>5, <3>5, <3>6
  <2>3. QED
    BY <2>1, <2>2 DEF Stout, n
<1> HIDE DEF n, flat
<1>7. RingOf(flat) \in Seq(P) /\ Len(RingOf(flat)) >= Len(flat) - 1
  BY <1>2, RingOfType
<1>8. Len(RingOf(flat)) \in Nat
  BY <1>7
<1>9. Len(RingOf(flat)) >= 3
  BY <1>5, <1>6, <1>7, <1>8
<1>10. Len(Ring(path)) >= 3
  BY <1>9 DEF Ring, flat
<1>11. Len(IF path.closed THEN RingOf(flat) ELSE flat) >= 3
  <2>1. CASE path.closed
    BY <1>9, <2>1
  <2>2. CASE ~path.closed
    BY <1>5, <1>6, <2>2
  <2>3. QED
    BY <2>1, <2>2
<1>12. Offsettable(path)
  BY <1>11 DEF Offsettable, flat
<1>13. QED
  BY <1>2, <1>6, <1>10, <1>12 DEF flat

\* An artwork's path that the structural validation does not report and that ends
\* where it starts.
Sound(path) == ValidatePath(path) = {} /\ Returns(path)

\* What each of the reports stands for.
LEMMA NothingReported ==
  ASSUME NEW path \in Paths, ValidatePath(path) = {}
  PROVE  /\ path.segments # <<>> /\ path.closed
         /\ \A i \in DOMAIN path.segments :
                ~Within(path.segments[i].start, path.segments[i].end, FlattenTolerance)
         /\ LET flat == FlattenPath(path)
            IN  Len(flat) >= 3 =>
                    Orientation(IF Head(flat) = Last(flat) THEN Front(flat) ELSE flat)
                        # "degenerate"
<1> DEFINE segments == path.segments
           flat == FlattenPath(path)
           ring == IF Head(flat) = Last(flat) THEN Front(flat) ELSE flat
           area == path.closed /\ Len(flat) >= 3
           a == \E i \in DOMAIN segments :
                    Within(segments[i].start, segments[i].end, FlattenTolerance)
           b == \E i \in 1 .. Len(segments) - 1 :
                    ~Within(segments[i].end, segments[i + 1].start, FlattenTolerance)
           c == ~(path.closed /\ EndGapClosed(path, FlattenTolerance))
           d == \E i \in 1 .. Len(flat) - 1 : flat[i] = flat[i + 1]
           e == area /\ Orientation(ring) = "degenerate"
           f == area /\ SelfIntersections(ring) # {}
           found == [zero_length_segment |-> a, disconnected_geometry |-> b, open_curve |-> c,
                     duplicate_consecutive_nodes |-> d, invalid_winding |-> e,
                     self_intersection |-> f]
<1>1. ValidatePath(path) = IF segments = <<>> THEN {"corrupt_geometry"}
                           ELSE {issue \in DOMAIN found : found[issue]}
  BY DEF ValidatePath
<1>2. path.closed \in BOOLEAN
  BY PathParts
<1> HIDE DEF a, b, c, d, e, f
<1>3. segments # <<>>
  BY <1>1
<1>4. {issue \in DOMAIN found : found[issue]} = {}
  BY <1>1, <1>3
<1>5. /\ "zero_length_segment" \in DOMAIN found /\ (found["zero_length_segment"] <=> a)
      /\ "open_curve" \in DOMAIN found /\ (found["open_curve"] <=> c)
      /\ "invalid_winding" \in DOMAIN found /\ (found["invalid_winding"] <=> e)
  OBVIOUS
<1> HIDE DEF found
<1>6. ~a /\ ~c /\ ~e
  BY <1>4, <1>5
<1>7. path.closed
  BY <1>6 DEF c
<1>8. \A i \in DOMAIN segments :
          ~Within(segments[i].start, segments[i].end, FlattenTolerance)
  BY <1>6 DEF a
<1>9. Len(flat) >= 3 => Orientation(ring) # "degenerate"
  BY <1>6, <1>7 DEF e
<1>10. QED
  BY <1>3, <1>7, <1>8, <1>9

\* A polyline starts where its first segment does and ends where the last one does.
LEMMA FlattenPathEnds ==
  ASSUME NEW P, NEW path \in Drawings(P), path.segments # <<>>
  PROVE  /\ FlattenPath(path) # <<>>
         /\ Head(FlattenPath(path)) = Head(path.segments).start
         /\ Last(FlattenPath(path)) = Last(path.segments).end
<1> DEFINE n == Len(path.segments)
           parts == [i \in DOMAIN path.segments |-> FlattenSegment(path.segments[i])]
           end == Last(path.segments).end
           start == path.segments[1].start
           via == path.segments[1].via
<1>1. n \in Nat /\ n # 0 /\ path.segments \in Seq(Traces(P))
  BY DrawingParts
<1>2. FlattenPath(path) = FlattenSeq(parts) \o <<end>>
  BY DEF FlattenPath
<1>3. path.segments[n] \in Traces(P) /\ path.segments[1] \in Traces(P)
  BY <1>1
<1>4. end \in P /\ start \in P /\ via \in Seq(P)
  BY <1>3, TraceParts DEF Last
<1>5. /\ parts = [i \in 1 .. n |-> parts[i]]
      /\ \A i \in 1 .. n : parts[i] \in Seq(P) /\ parts[i] # <<>>
  BY FlattenParts
<1>6. parts[1] = <<start>> \o via
  <2>1. 1 \in 1 .. n
    BY <1>1
  <2>2. QED
    BY <2>1, FlattenParts
<1>7. Head(path.segments).start = start
  BY <1>1
<1> HIDE DEF n, parts, end, start, via
<1>8. /\ FlattenSeq(parts) \in Seq(P) /\ FlattenSeq(parts) # <<>>
      /\ Head(FlattenSeq(parts)) = Head(parts[1])
  BY <1>1, <1>5, FlattenSeqEnds
<1>9. parts[1][1] = start
  <2>1. <<start>> \in Seq(P) /\ Len(<<start>>) = 1 /\ <<start>>[1] = start
    BY <1>4
  <2>2. Len(via) \in Nat
    BY <1>4
  <2>3. 1 \in 1 .. Len(<<start>>) + Len(via)
    BY <2>1, <2>2
  <2>4. (<<start>> \o via)[1] = <<start>>[1]
    BY <1>4, <2>1, <2>3, ConcatElements
  <2>5. QED
    BY <1>6, <2>1, <2>4
<1> DEFINE s == FlattenSeq(parts)
<1>10. s \in Seq(P) /\ s # <<>> /\ s[1] = start
  <2>1. 1 \in 1 .. n
    BY <1>1
  <2>2. parts[1] \in Seq(P) /\ parts[1] # <<>>
    BY <1>5, <2>1
  <2>3. Head(parts[1]) = parts[1][1] /\ Head(s) = s[1]
    BY <1>8, <2>2
  <2>4. QED
    BY <1>8, <1>9, <2>3
<1> HIDE DEF s
<1>11. <<end>> \in Seq(P) /\ <<end>> # <<>> /\ Len(<<end>>) = 1 /\ <<end>>[1] = end
  BY <1>4
<1>12. /\ s \o <<end>> \in Seq(P) /\ s \o <<end>> # <<>>
       /\ (s \o <<end>>)[1] = s[1]
       /\ (s \o <<end>>)[Len(s \o <<end>>)] = <<end>>[Len(<<end>>)]
  BY <1>10, <1>11, ConcatEnds
<1> DEFINE flat == s \o <<end>>
<1>13. flat # <<>> /\ flat[1] = start /\ flat[Len(flat)] = end /\ Head(flat) = flat[1]
  BY <1>10, <1>11, <1>12
<1>14. Head(flat) = start /\ Last(flat) = end
  BY <1>13 DEF Last
<1>15. FlattenPath(path) = flat
  BY <1>2 DEF s
<1> HIDE DEF flat
<1>16. QED
  BY <1>7, <1>13, <1>14, <1>15 DEF end

LEMMA WithinMore ==
  ASSUME NEW p \in Points, NEW q \in Points, NEW a \in Nat, NEW b \in Nat, a <= b,
         Within(p, q, a)
  PROVE  Within(p, q, b)
<1>1. SquaredDistance(p, q) \in Nat /\ SquaredDistance(p, q) <= a * a
  BY DistanceType DEF Within
<1>2. a * a <= b * b
  <2>1. b = a + (b - a) /\ b - a \in Nat
    OBVIOUS
  <2>2. \A c \in Nat : (a + c) * (a + c) = a * a + 2 * (a * c) + c * c
    OBVIOUS
  <2>3. \A c \in Nat : a * c \in Nat /\ c * c \in Nat /\ a * a \in Nat
    OBVIOUS
  <2>4. \A c \in Nat : (a + c) * (a + c) >= a * a
    BY <2>2, <2>3
  <2>5. QED
    BY <2>1, <2>4
<1>3. a * a \in Nat /\ b * b \in Nat
  OBVIOUS
<1> DEFINE d == SquaredDistance(p, q)
           aa == a * a
           bb == b * b
<1> HIDE DEF d, aa, bb
<1>4. d <= bb
  BY <1>1, <1>2, <1>3 DEF d, aa, bb
<1>5. QED
  BY <1>4 DEF d, bb, Within

LEMMA WithinItself ==
  ASSUME NEW p \in Points, NEW a \in Nat
  PROVE  Within(p, p, a)
<1>1. p.x \in Int /\ p.y \in Int
  BY DEF Points
<1>2. SquaredDistance(p, p) = 0
  BY <1>1 DEF SquaredDistance
<1>3. a * a \in Nat
  OBVIOUS
<1>4. QED
  BY <1>2, <1>3 DEF Within

\* Sound outlines are closed, stout, end where they start, and have no segment that
\* the repair calls short.
LEMMA SoundOutlines ==
  ASSUME NEW path \in Paths, Sound(path)
  PROVE  /\ Stout(path) /\ path.closed /\ path.segments # <<>> /\ Returns(path)
         /\ \A i \in 1 .. Len(path.segments) : ~ZeroLength(path.segments[i])
<1> DEFINE n == Len(path.segments)
           flat == FlattenPath(path)
           ring == IF Head(flat) = Last(flat) THEN Front(flat) ELSE flat
<1>1. n \in Nat /\ path.segments \in Seq(Segments) /\ DOMAIN path.segments = 1 .. n
  BY PathParts
<1>2. path.segments # <<>> /\ path.closed /\ Returns(path)
  BY NothingReported DEF Sound
<1>3. n # 0
  BY <1>1, <1>2
<1>4. \A i \in 1 .. n :
          ~Within(path.segments[i].start, path.segments[i].end, FlattenTolerance)
  BY <1>1, NothingReported DEF Sound
<1>5. /\ ZeroTolerance \in Nat /\ FlattenTolerance \in Nat
      /\ ZeroTolerance <= FlattenTolerance
  BY ToleranceAssumption
<1>6. ASSUME NEW i \in 1 .. n PROVE ~ZeroLength(path.segments[i])
  <2>1. path.segments[i] \in Segments
    BY <1>1
  <2>2. path.segments[i].start \in Points /\ path.segments[i].end \in Points
    BY <2>1, SegmentParts
  <2>3. QED
    BY <1>4, <1>5, <2>2, WithinMore DEF ZeroLength
<1>7. n >= 2
  <2>0. \A m \in Nat : m # 0 /\ m # 1 => m >= 2
    OBVIOUS
  <2>1. SUFFICES ASSUME n = 1 PROVE FALSE
    BY <1>1, <1>3, <2>0, Zenon
  <2>2. path.segments[1] \in Segments
    BY <1>1, <2>1
  <2>3. path.segments[1].start \in Points
    BY <2>2, SegmentParts
  <2>4. path.segments[1].end = path.segments[1].start
    BY <1>1, <1>2, <2>1 DEF Returns, Last
  <2>5. Within(path.segments[1].start, path.segments[1].end, FlattenTolerance)
    BY <1>5, <2>3, <2>4, WithinItself
  <2>6. QED
    BY <1>4, <2>1, <2>5
<1>8. path \in Drawings(Points)
  BY DrawingsOfPoints
<1>9. /\ flat \in Seq(Points) /\ flat # <<>> /\ Head(flat) = Last(flat)
      /\ Len(flat) >= n + 1
  <2>1. Head(flat) = Head(path.segments).start /\ Last(flat) = Last(path.segments).end
    BY <1>2, <1>8, FlattenPathEnds
  <2>2. flat \in Seq(Points) /\ flat # <<>> /\ Len(flat) >= n + 1
    BY <1>2, <1>8, FlattenPathEnds, FlattenPathType
  <2>3. QED
    BY <1>2, <2>1, <2>2 DEF Returns
<1>10. Len(flat) \in Nat /\ Len(flat) >= 3
  <2>1. Len(flat) \in Nat
    BY <1>9
  <2> HIDE DEF n, flat
  <2>2. QED
    BY <1>1, <1>7, <1>9, <2>1
<1>11. Orientation(Front(flat)) # "degenerate"
  <2>1. Orientation(ring) # "degenerate"
    BY <1>10, NothingReported DEF Sound
  <2>2. ring = Front(flat)
    BY <1>9
  <2>3. QED
    BY <2>1, <2>2
<1>12. Len(Front(flat)) >= 3
  <2>1. Front(flat) \in Seq(Points)
    BY <1>9, <1>10 DEF Front
  <2>2. Len(Front(flat)) \in Nat
    BY <2>1
  <2>3. SUFFICES ASSUME Len(Front(flat)) < 3 PROVE FALSE
    BY <2>2
  <2>4. DoubledArea(Front(flat)) = 0
    BY <2>3 DEF DoubledArea
  <2>5. QED
    BY <1>11, <2>4 DEF Orientation
<1>13. Len(flat) >= 4
  <2>1. Len(Front(flat)) = Len(flat) - 1
    BY <1>9, <1>10 DEF Front
  <2>2. QED
    BY <1>10, <1>12, <2>1
<1>14. Stout(path)
  <2>0. \A m \in Nat : m >= 2 /\ ~(m >= 3) => m = 2
    OBVIOUS
  <2>1. SUFFICES ASSUME n = 2, \A i \in 1 .. n : path.segments[i].via = <<>> PROVE FALSE
    BY <1>1, <1>7, <2>0, Zenon DEF Stout
  <2> DEFINE parts == [i \in DOMAIN path.segments |-> FlattenSegment(path.segments[i])]
             end == Last(path.segments).end
  <2>2. /\ parts = [i \in 1 .. 2 |-> parts[i]]
        /\ \A i \in 1 .. 2 : /\ parts[i] \in Seq(Points)
                             /\ Len(parts[i]) = 1 + Len(path.segments[i].via)
    BY <1>8, <2>1, FlattenParts
  <2>3. Len(parts[1]) = 1 /\ Len(parts[2]) = 1
    <3>1. 1 \in 1 .. n /\ 2 \in 1 .. n /\ 1 \in 1 .. 2 /\ 2 \in 1 .. 2
      BY <2>1
    <3>2. path.segments[1].via = <<>> /\ path.segments[2].via = <<>>
      BY <2>1, <3>1
    <3>3. /\ Len(parts[1]) = 1 + Len(path.segments[1].via)
          /\ Len(parts[2]) = 1 + Len(path.segments[2].via)
      BY <2>2, <3>1
    <3> HIDE DEF parts
    <3>4. QED
      BY <3>2, <3>3
  <2>4. parts[1] \in Seq(Points) /\ parts[2] \in Seq(Points)
    BY <2>2
  <2>5. end \in Points
    <3>1. path.segments[2] \in Segments
      BY <1>1, <2>1
    <3>2. QED
      BY <2>1, <3>1, SegmentParts DEF Last
  <2>6. flat = FlattenSeq(parts) \o <<end>>
    BY <1>2 DEF FlattenPath
  <2> HIDE DEF parts, end, flat
  <2>7. FlattenSeq(parts) = parts[1] \o parts[2]
    BY <2>2, FlattenTwo
  <2>8. /\ parts[1] \o parts[2] \in Seq(Points)
        /\ Len(parts[1] \o parts[2]) = Len(parts[1]) + Len(parts[2])
    BY <2>4, ConcatElements
  <2>9. <<end>> \in Seq(Points) /\ Len(<<end>>) = 1
    BY <2>5
  <2>10. Len((parts[1] \o parts[2]) \o <<end>>) = Len(parts[1] \o parts[2]) + Len(<<end>>)
    BY <2>8, <2>9, ConcatElements
  <2>11. Len(flat) = 3
    <3>1. Len(parts[1] \o parts[2]) = 2
      BY <2>3, <2>8
    <3>2. Len((parts[1] \o parts[2]) \o <<end>>) = 3
      <4>1. 2 + 1 = 3
        OBVIOUS
      <4>2. QED
        BY <2>9, <2>10, <3>1, <4>1, Zenon
    <3>3. flat = (parts[1] \o parts[2]) \o <<end>>
      BY <2>6, <2>7, Zenon
    <3>4. QED
      BY <3>2, <3>3, Zenon
  <2>12. QED
    BY <1>13, <2>11
<1>15. QED
  BY <1>2, <1>6, <1>14

-----------------------------------------------------------------------------
(* The five passes of the geometry repair. *)

LEMMA ZeroLengthRemovalType ==
  ASSUME NEW path \in Paths
  PROVE  /\ RemoveZeroLengthSegments(path) \in Paths
         /\ RemoveZeroLengthSegments(path).closed = path.closed
         /\ (\A i \in 1 .. Len(path.segments) : ~ZeroLength(path.segments[i]))
                => RemoveZeroLengthSegments(path) = path
<1> DEFINE long == {i \in DOMAIN path.segments : ~ZeroLength(path.segments[i])}
           kept == Selected(path.segments, long)
<1>1. /\ path.segments \in Seq(Segments) /\ path.closed \in BOOLEAN
      /\ DOMAIN path.segments = 1 .. Len(path.segments)
      /\ path = Path(path.segments, path.closed)
  BY PathParts
<1>2. RemoveZeroLengthSegments(path) = Path(kept, path.closed)
  BY DEF RemoveZeroLengthSegments
<1>3. ASSUME \A i \in 1 .. Len(path.segments) : ~ZeroLength(path.segments[i])
      PROVE  1 .. Len(path.segments) \subseteq long
  BY <1>1, <1>3
<1> HIDE DEF long
<1>4. /\ kept \in Seq(Segments)
      /\ 1 .. Len(path.segments) \subseteq long => kept = path.segments
  BY <1>1, SelectedType
<1> HIDE DEF kept
<1>5. /\ Path(kept, path.closed) \in Paths
      /\ Path(kept, path.closed).closed = path.closed
  BY <1>1, <1>4, PathType
<1>6. (\A i \in 1 .. Len(path.segments) : ~ZeroLength(path.segments[i]))
          => Path(kept, path.closed) = path
  BY <1>1, <1>3, <1>4
<1>7. QED
  BY <1>2, <1>5, <1>6

LEMMA ClosingType ==
  ASSUME NEW path \in Paths
  PROVE  /\ CloseTinyGaps(path) \in Paths
         /\ CloseTinyGaps(path).closed = path.closed
         /\ path.segments # <<>> /\ Returns(path) => CloseTinyGaps(path) = path
<1> DEFINE n == Len(path.segments)
           segments == path.segments
           closing == path.closed /\ segments # <<>> /\ EndGapClosed(path, GapTolerance)
           start == Head(segments).start
           snapped == [segments EXCEPT ![n].end = start]
<1>1. /\ segments \in Seq(Segments) /\ path.closed \in BOOLEAN
      /\ n \in Nat /\ DOMAIN segments = 1 .. n
      /\ path = Path(segments, path.closed)
  BY PathParts
<1>2. CASE ~closing
  <2>1. CloseTinyGaps(path) = path
    BY <1>2 DEF CloseTinyGaps
  <2>2. QED
    BY <2>1
<1>3. CASE closing
  <2>1. CloseTinyGaps(path) = Path(snapped, TRUE) /\ path.closed /\ segments # <<>>
    BY <1>3 DEF CloseTinyGaps
  <2>2. n # 0 /\ 1 \in 1 .. n /\ n \in 1 .. n
    BY <1>1, <2>1
  <2>3. segments[1] \in Segments /\ segments[n] \in Segments /\ Head(segments) = segments[1]
    BY <1>1, <2>2
  <2>4. start \in Points
    BY <2>3, SegmentParts
  <2> DEFINE last == [segments[n] EXCEPT !.end = start]
  <2>5. last \in Segments
    <3> HIDE DEF start
    <3>1. QED
      BY <2>3, <2>4 DEF Segments
  <2>6. snapped = [segments EXCEPT ![n] = last]
    OBVIOUS
  <2>7. segments[n].end = start => last = segments[n]
    BY <2>3 DEF Segments
  <2> HIDE DEF last, start, n, segments, snapped
  <2>8. segments \in [1 .. n -> Segments]
    BY <1>1
  <2>9. snapped \in [1 .. n -> Segments] /\ (last = segments[n] => snapped = segments)
    BY <2>2, <2>5, <2>6, <2>8
  <2>10. snapped \in Seq(Segments)
    BY <1>1, <2>9
  <2>11. Path(snapped, TRUE) \in Paths /\ Path(snapped, TRUE).closed = TRUE
    BY <2>10, PathType
  <2>12. path.closed = TRUE
    BY <1>1, <2>1
  <2>13. ASSUME Returns(path) PROVE Path(snapped, TRUE) = path
    <3>1. segments[n].end = start
      BY <2>13 DEF Returns, Last, segments, n, start
    <3>2. snapped = segments
      BY <2>7, <2>9, <3>1
    <3>3. QED
      BY <1>1, <2>12, <3>2
  <2>14. QED
    BY <2>1, <2>11, <2>12, <2>13
<1>4. QED
  BY <1>2, <1>3

LEMMA ReverseSegmentType ==
  ASSUME NEW s \in Segments
  PROVE  /\ ReverseSegment(s) \in Segments
         /\ ReverseSegment(s).start = s.end /\ ReverseSegment(s).end = s.start
         /\ ReverseSegment(s).kind = s.kind
         /\ s.via # <<>> => ReverseSegment(s).via # <<>>
<1> DEFINE v == s.via
<1>1. /\ s.kind \in {"line", "bezier", "arc"}
      /\ s.start \in Points /\ s.end \in Points /\ v \in Seq(Points)
  BY SegmentParts
<1>2. ReverseSegment(s) = [s EXCEPT !.start = s.end, !.via = Reverse(v), !.end = s.start]
  BY DEF ReverseSegment, Segments
<1> HIDE DEF v
<1>3. Reverse(v) \in Seq(Points) /\ (v # <<>> => Reverse(v) # <<>>)
  <2>1. Len(v) \in Nat /\ \A i \in 1 .. Len(v) : (Len(v) - i) + 1 \in 1 .. Len(v)
    BY <1>1
  <2>2. Reverse(v) = [i \in 1 .. Len(v) |-> v[(Len(v) - i) + 1]]
    BY DEF Reverse
  <2>3. Reverse(v) \in [1 .. Len(v) -> Points]
    BY <1>1, <2>1, <2>2
  <2> DEFINE m == Len(v)
             w == Reverse(v)
  <2> HIDE DEF m, w
  <2>4. w \in Seq(Points) /\ Len(w) = m
    <3>1. m \in Nat /\ w \in [1 .. m -> Points]
      BY <2>1, <2>3 DEF m, w
    <3>2. QED
      BY <3>1
  <2>5. v # <<>> => m # 0
    BY <1>1 DEF m
  <2>6. m \in Nat /\ (m # 0 => w # <<>>)
    BY <2>1, <2>4 DEF m
  <2>7. QED
    BY <2>4, <2>5, <2>6 DEF w
<1> DEFINE w == Reverse(v)
<1> HIDE DEF w
<1>4. /\ w \in Seq(Points) /\ (v # <<>> => w # <<>>)
      /\ ReverseSegment(s) = [s EXCEPT !.start = s.end, !.via = w, !.end = s.start]
  BY <1>2, <1>3 DEF w
<1>5. /\ [s EXCEPT !.start = s.end, !.via = w, !.end = s.start] \in Segments
      /\ [s EXCEPT !.start = s.end, !.via = w, !.end = s.start].via = w
      /\ [s EXCEPT !.start = s.end, !.via = w, !.end = s.start].start = s.end
      /\ [s EXCEPT !.start = s.end, !.via = w, !.end = s.start].end = s.start
      /\ [s EXCEPT !.start = s.end, !.via = w, !.end = s.start].kind = s.kind
  BY <1>1, <1>4 DEF Segments
<1>6. QED
  BY <1>4, <1>5 DEF v

LEMMA WindingType ==
  ASSUME NEW path \in Paths, NEW target
  PROVE  /\ NormalizeWinding(path, target) \in Paths
         /\ NormalizeWinding(path, target).closed = path.closed
         /\ Stout(path) => Stout(NormalizeWinding(path, target))
<1> DEFINE n == Len(path.segments)
           segments == path.segments
           turning == /\ path.closed /\ path.segments # <<>>
                      /\ Orientation(Ring(path)) \notin {"degenerate", target}
           turned == [i \in DOMAIN path.segments |-> ReverseSegment(Reverse(path.segments)[i])]
<1>1. /\ segments \in Seq(Segments) /\ path.closed \in BOOLEAN
      /\ n \in Nat /\ DOMAIN segments = 1 .. n
  BY PathParts
<1>2. CASE ~turning
  <2>1. NormalizeWinding(path, target) = path
    BY <1>2 DEF NormalizeWinding
  <2>2. QED
    BY <2>1
<1>3. CASE turning
  <2>1. NormalizeWinding(path, target) = Path(turned, path.closed)
    BY <1>3 DEF NormalizeWinding
  <2>2. \A i \in 1 .. n : /\ (n - i) + 1 \in 1 .. n
                          /\ Reverse(segments)[i] = segments[(n - i) + 1]
    BY <1>1 DEF Reverse
  <2>3. turned = [i \in 1 .. n |-> turned[i]]
        /\ \A i \in 1 .. n : turned[i] = ReverseSegment(segments[(n - i) + 1])
    BY <1>1, <2>2
  <2> HIDE DEF turned
  <2>4. ASSUME NEW i \in 1 .. n
        PROVE  /\ turned[i] \in Segments
               /\ segments[(n - i) + 1].via # <<>> => turned[i].via # <<>>
    <3> DEFINE j == (n - i) + 1
    <3>1. j \in 1 .. n /\ turned[i] = ReverseSegment(segments[j])
      BY <2>2, <2>3
    <3>2. segments[j] \in Segments
      BY <1>1, <3>1
    <3>3. /\ ReverseSegment(segments[j]) \in Segments
          /\ segments[j].via # <<>> => ReverseSegment(segments[j]).via # <<>>
      BY <3>2, ReverseSegmentType
    <3>4. QED
      BY <3>1, <3>3
  <2>5. turned \in Seq(Segments) /\ Len(turned) = n
    <3>1. turned \in [1 .. n -> Segments]
      BY <2>3, <2>4
    <3> HIDE DEF n
    <3>2. QED
      BY <1>1, <2>3, <3>1
  <2>6. Path(turned, path.closed) \in Paths /\ Path(turned, path.closed).closed = path.closed
        /\ Path(turned, path.closed).segments = turned
    BY <1>1, <2>5, PathType
  <2>7. ASSUME Stout(path) PROVE Stout(Path(turned, path.closed))
    <3>1. n >= 3 \/ (n >= 2 /\ \E i \in 1 .. n : segments[i].via # <<>>)
      BY <2>7 DEF Stout
    <3>2. (\E i \in 1 .. n : segments[i].via # <<>>) => \E i \in 1 .. n : turned[i].via # <<>>
      <4>1. ASSUME NEW i \in 1 .. n, segments[i].via # <<>>
            PROVE  \E j \in 1 .. n : turned[j].via # <<>>
        <5>1. (n - i) + 1 \in 1 .. n /\ (n - ((n - i) + 1)) + 1 = i
          <6> HIDE DEF n
          <6>1. QED
            BY <1>1
        <5>2. QED
          BY <2>4, <4>1, <5>1
      <4>2. QED
        BY <4>1
    <3>3. QED
      BY <2>5, <2>6, <3>1, <3>2 DEF Stout
  <2>8. QED
    BY <2>1, <2>6, <2>7
<1>4. QED
  BY <1>2, <1>3

LEMMA RoundPointType ==
  ASSUME NEW p \in Points
  PROVE  RoundPoint(p) \in Points
<1>1. Grain \in Nat /\ Grain > 0
  BY ToleranceAssumption
<1>2. ASSUME NEW n \in Int PROVE RoundCoordinate(n) \in Int
  <2> DEFINE q == n \div Grain
             up == \/ 2 * (n % Grain) > Grain
                   \/ 2 * (n % Grain) = Grain /\ (n \div Grain) % 2 = 1
  <2>1. q \in Int
    BY <1>1
  <2>2. RoundCoordinate(n) = Grain * (IF up THEN q + 1 ELSE q)
    BY DEF RoundCoordinate
  <2> HIDE DEF q, up
  <2>3. (IF up THEN q + 1 ELSE q) \in Int
    BY <2>1
  <2>4. \A m \in Int : Grain * m \in Int
    BY <1>1
  <2>5. QED
    BY <2>2, <2>3, <2>4
<1>3. p.x \in Int /\ p.y \in Int
  BY DEF Points
<1>4. RoundCoordinate(p.x) \in Int /\ RoundCoordinate(p.y) \in Int
  BY <1>2, <1>3
<1>5. QED
  BY <1>4, PointType DEF RoundPoint

LEMMA PrecisionType ==
  ASSUME NEW path \in Paths
  PROVE  /\ NormalizeCoordinatePrecision(path) \in Paths
         /\ NormalizeCoordinatePrecision(path).closed = path.closed
         /\ Stout(path) => Stout(NormalizeCoordinatePrecision(path))
<1> DEFINE n == Len(path.segments)
           segments == path.segments
           fine == [i \in DOMAIN path.segments |->
                       [path.segments[i] EXCEPT !.start = RoundPoint(@), !.end = RoundPoint(@)]]
<1>1. /\ segments \in Seq(Segments) /\ path.closed \in BOOLEAN
      /\ n \in Nat /\ DOMAIN segments = 1 .. n
  BY PathParts
<1>2. NormalizeCoordinatePrecision(path) = Path(fine, path.closed)
  BY DEF NormalizeCoordinatePrecision
<1>3. ASSUME NEW i \in 1 .. n
      PROVE  fine[i] \in Segments /\ fine[i].via = segments[i].via
  <2> DEFINE s == segments[i]
             a == RoundPoint(s.start)
             b == RoundPoint(s.end)
  <2>1. s \in Segments
    BY <1>1
  <2>2. a \in Points /\ b \in Points
    BY <2>1, SegmentParts, RoundPointType
  <2>3. fine[i] = [s EXCEPT !.start = RoundPoint(@), !.end = RoundPoint(@)]
    BY <1>1
  <2>4. [s EXCEPT !.start = RoundPoint(@), !.end = RoundPoint(@)]
            = [s EXCEPT !.start = a, !.end = b]
    <3> HIDE DEF s
    <3>1. QED
      BY <2>1 DEF Segments
  <2> HIDE DEF s, a, b
  <2>5. /\ [s EXCEPT !.start = a, !.end = b] \in Segments
        /\ [s EXCEPT !.start = a, !.end = b].via = s.via
    BY <2>1, <2>2 DEF Segments
  <2>6. fine[i] \in Segments /\ fine[i].via = s.via
    BY <2>3, <2>4, <2>5
  <2>7. QED
    BY <2>6 DEF s
<1>4. fine = [i \in 1 .. n |-> fine[i]]
  BY <1>1
<1> HIDE DEF fine
<1>5. fine \in Seq(Segments) /\ Len(fine) = n
  <2>1. fine \in [1 .. n -> Segments]
    BY <1>3, <1>4
  <2> HIDE DEF n
  <2>2. QED
    BY <1>1, <1>4, <2>1
<1>6. /\ Path(fine, path.closed) \in Paths /\ Path(fine, path.closed).closed = path.closed
      /\ Path(fine, path.closed).segments = fine
  BY <1>1, <1>5, PathType
<1>7. ASSUME Stout(path) PROVE Stout(Path(fine, path.closed))
  <2>1. n >= 3 \/ (n >= 2 /\ \E i \in 1 .. n : segments[i].via # <<>>)
    BY <1>7 DEF Stout
  <2>2. (\E i \in 1 .. n : segments[i].via # <<>>) => \E i \in 1 .. n : fine[i].via # <<>>
    BY <1>3
  <2>3. QED
    BY <1>5, <1>6, <2>1, <2>2 DEF Stout
<1>8. QED
  BY <1>2, <1>6, <1>7

\* The repair keeps what a subpath is and whether it is closed, and a sound outline
\* stays stout.
LEMMA RepairPathType ==
  ASSUME NEW path \in Paths
  PROVE  /\ RepairPath(path) \in Paths
         /\ RepairPath(path).closed = path.closed
         /\ Sound(path) => Stout(RepairPath(path))
<1> DEFINE a == RemoveDuplicateNodes(path)
           b == RemoveZeroLengthSegments(a)
           c == CloseTinyGaps(b)
           d == NormalizeWinding(c, "counter_clockwise")
           e == NormalizeCoordinatePrecision(d)
<1>1. RepairPath(path) = e
  BY DEF RepairPath
<1>2. a \in Paths /\ a.closed = path.closed
  BY DuplicatesType
<1>3. Sound(path) => a = path
  BY SoundOutlines, DuplicatesType
<1> HIDE DEF a
<1>4. b \in Paths /\ b.closed = a.closed
  BY <1>2, ZeroLengthRemovalType
<1>5. Sound(path) => b = path
  BY <1>3, SoundOutlines, ZeroLengthRemovalType
<1> HIDE DEF b
<1>6. c \in Paths /\ c.closed = b.closed
  BY <1>4, ClosingType
<1>7. Sound(path) => c = path
  BY <1>5, SoundOutlines, ClosingType
<1> HIDE DEF c
<1>8. d \in Paths /\ d.closed = c.closed /\ (Stout(c) => Stout(d))
  BY <1>6, WindingType
<1> HIDE DEF d
<1>9. e \in Paths /\ e.closed = d.closed /\ (Stout(d) => Stout(e))
  BY <1>8, PrecisionType
<1> HIDE DEF e
<1>10. QED
  BY <1>1, <1>2, <1>4, <1>6, <1>7, <1>8, <1>9, SoundOutlines

-----------------------------------------------------------------------------
(* What classify_subpaths reads of a compound path. *)

\* What is known of the infos of a compound path.
Describes(infos, compound) ==
    /\ Len(compound) \in Nat /\ DOMAIN infos = 1 .. Len(compound)
    /\ infos \in Seq(Range(infos)) /\ Len(infos) = Len(compound)
    /\ Range(infos) = {infos[i] : i \in 1 .. Len(compound)}
    /\ \A i \in 1 .. Len(compound) :
           /\ infos[i].index = i
           /\ infos[i].ring = Ring(compound[i]) /\ infos[i].ring \in Seq(Points)
           /\ infos[i].hole = IsHole(Rings(compound), i)
           /\ infos[i].area = Magnitude(DoubledArea(Ring(compound[i])))
           /\ infos[i].area \in Nat
           /\ infos[i].area > 0 => Len(infos[i].ring) >= 3

LEMMA Classified ==
  ASSUME NEW compound \in Seq(Paths), NEW infos, infos = ClassifySubpaths(compound)
  PROVE  Describes(infos, compound)
<1> DEFINE n == Len(compound)
           rings == Rings(compound)
<1>1. n \in Nat /\ DOMAIN compound = 1 .. n
  OBVIOUS
<1>2. infos = [i \in 1 .. n |->
                  [index |-> i, ring |-> rings[i], hole |-> IsHole(rings, i),
                   area |-> Magnitude(DoubledArea(rings[i]))]]
  BY <1>1 DEF ClassifySubpaths, Rings
<1>3. \A i \in 1 .. n : rings[i] = Ring(compound[i])
  BY <1>1 DEF Rings
<1> HIDE DEF rings
<1>4. \A i \in 1 .. n :
          infos[i] = [index |-> i, ring |-> rings[i], hole |-> IsHole(rings, i),
                      area |-> Magnitude(DoubledArea(rings[i]))]
  BY <1>2
<1>5. ASSUME NEW i \in 1 .. n
      PROVE  /\ infos[i].index = i /\ infos[i].ring = rings[i]
             /\ infos[i].hole = IsHole(rings, i)
             /\ infos[i].area = Magnitude(DoubledArea(rings[i]))
  <2> DEFINE h == IsHole(rings, i)
  <2>1. infos[i] = [index |-> i, ring |-> rings[i], hole |-> h,
                    area |-> Magnitude(DoubledArea(rings[i]))]
    BY <1>4
  <2> HIDE DEF h
  <2>2. /\ infos[i].index = i /\ infos[i].ring = rings[i] /\ infos[i].hole = h
        /\ infos[i].area = Magnitude(DoubledArea(rings[i]))
    BY <2>1
  <2>3. QED
    BY <2>2 DEF h
<1>6. DOMAIN infos = 1 .. n
  BY <1>2
<1>7. Range(infos) = {infos[i] : i \in 1 .. n}
  BY <1>6 DEF Range
<1>8. infos \in Seq(Range(infos)) /\ Len(infos) = n
  <2>1. infos \in [1 .. n -> Range(infos)]
    BY <1>2, <1>7
  <2> HIDE DEF n
  <2>2. QED
    BY <1>1, <1>6, <2>1
<1>9. ASSUME NEW i \in 1 .. n
      PROVE  /\ rings[i] \in Seq(Points)
             /\ Magnitude(DoubledArea(rings[i])) \in Nat
             /\ Magnitude(DoubledArea(rings[i])) > 0 => Len(rings[i]) >= 3
  <2>1. compound[i] \in Paths
    BY <1>1
  <2>2. rings[i] \in Seq(Points)
    BY <1>3, <2>1, RingType
  <2>3. Magnitude(DoubledArea(rings[i])) \in Nat
    BY <2>2, AreaType, MagnitudeType
  <2>4. ASSUME ~(Len(rings[i]) >= 3) PROVE Magnitude(DoubledArea(rings[i])) = 0
    <3>1. Len(rings[i]) < 3
      <4>1. Len(rings[i]) \in Nat
        BY <2>2
      <4>2. QED
        BY <2>4, <4>1
    <3>2. DoubledArea(rings[i]) = 0
      BY <3>1 DEF DoubledArea
    <3>3. QED
      BY <3>2 DEF Magnitude
  <2>5. QED
    BY <2>2, <2>3, <2>4
<1>10. ASSUME NEW i \in 1 .. n
       PROVE  /\ infos[i].index = i
              /\ infos[i].ring = Ring(compound[i]) /\ infos[i].ring \in Seq(Points)
              /\ infos[i].hole = IsHole(Rings(compound), i)
              /\ infos[i].area = Magnitude(DoubledArea(Ring(compound[i])))
              /\ infos[i].area \in Nat
              /\ infos[i].area > 0 => Len(infos[i].ring) >= 3
  <2>1. infos[i].ring = Ring(compound[i]) /\ rings[i] = Ring(compound[i])
    BY <1>3, <1>5
  <2>2. infos[i].area = Magnitude(DoubledArea(Ring(compound[i])))
    BY <1>3, <1>5
  <2>3. infos[i].hole = IsHole(Rings(compound), i)
    BY <1>5 DEF rings
  <2>4. QED
    BY <1>5, <1>9, <2>1, <2>2, <2>3
<1>11. QED
  BY <1>1, <1>6, <1>7, <1>8, <1>10 DEF Describes

\* Of finitely many numbers there is a first among the largest.
LEMMA FirstLargest ==
  ASSUME NEW n \in Nat, NEW a \in [1 .. n -> Nat], n # 0
  PROVE  \E i \in 1 .. n : \A j \in 1 .. n : a[i] > a[j] \/ (a[i] = a[j] /\ i <= j)
<1> DEFINE Leads(i, j) == a[i] > a[j] \/ (a[i] = a[j] /\ i <= j)
           P == {k \in Nat : k # 0 /\ k <= n =>
                    \E i \in 1 .. k : \A j \in 1 .. k : Leads(i, j)}
<1>1. 0 \in P
  OBVIOUS
<1>2. ASSUME NEW k \in Nat, k \in P PROVE k + 1 \in P
  <2>0. k + 1 \in Nat
    OBVIOUS
  <2>1. SUFFICES ASSUME k + 1 <= n
                 PROVE  \E i \in 1 .. k + 1 : \A j \in 1 .. k + 1 : Leads(i, j)
    BY <2>0
  <2>2. \A j \in 1 .. k + 1 : a[j] \in Nat /\ (j \in 1 .. k \/ j = k + 1)
    BY <2>1
  <2>3. CASE k = 0
    <3>1. \A j \in 1 .. k + 1 : j = 1
      BY <2>3
    <3>2. 1 \in 1 .. k + 1 /\ Leads(1, 1)
      OBVIOUS
    <3> HIDE DEF Leads
    <3>3. \A j \in 1 .. k + 1 : Leads(1, j)
      BY <3>1, <3>2
    <3>4. QED
      BY <3>2, <3>3
  <2>4. CASE k # 0
    <3>1. PICK i \in 1 .. k : \A j \in 1 .. k : Leads(i, j)
      BY <1>2, <2>1, <2>4
    <3>2. i \in 1 .. k + 1 /\ k + 1 \in 1 .. k + 1 /\ i <= k + 1
      OBVIOUS
    <3>3. CASE a[k + 1] > a[i]
      <4>1. \A j \in 1 .. k + 1 : Leads(k + 1, j)
        BY <2>2, <3>1, <3>2, <3>3
      <4>2. QED
        BY <3>2, <4>1
    <3>4. CASE ~(a[k + 1] > a[i])
      <4>1. \A j \in 1 .. k + 1 : Leads(i, j)
        BY <2>2, <3>1, <3>2, <3>4
      <4>2. QED
        BY <3>2, <4>1
    <3>5. QED
      BY <3>3, <3>4
  <2>5. QED
    BY <2>3, <2>4
<1> HIDE DEF P
<1>3. n \in P
  BY <1>1, <1>2, Induction
<1>4. QED
  BY <1>3 DEF P

\* The main body is one of the subpaths, and none is larger.
LEMMA MainBodyType ==
  ASSUME NEW compound \in Seq(Paths), compound # <<>>,
         NEW infos, infos = ClassifySubpaths(compound)
  PROVE  \E m \in 1 .. Len(compound) :
             /\ MainBody(infos) = infos[m] /\ infos[m].index = m
             /\ \A i \in 1 .. Len(compound) : infos[i].area <= infos[m].area
<1> DEFINE n == Len(compound)
           a == [i \in 1 .. n |-> infos[i].area]
           Leads(p, q) == p.area > q.area \/ (p.area = q.area /\ p.index <= q.index)
<1>1. /\ n \in Nat /\ Range(infos) = {infos[i] : i \in 1 .. n}
      /\ \A i \in 1 .. n : infos[i].index = i /\ infos[i].area \in Nat
  <2>1. n \in Nat
    OBVIOUS
  <2>2. Describes(infos, compound)
    BY Classified
  <2>3. QED
    BY <2>1, <2>2 DEF Describes
<1>2. n # 0
  OBVIOUS
<1>3. a \in [1 .. n -> Nat] /\ \A i \in 1 .. n : a[i] = infos[i].area
  BY <1>1
<1> HIDE DEF a, n
<1>4. PICK f \in 1 .. n : \A j \in 1 .. n : a[f] > a[j] \/ (a[f] = a[j] /\ f <= j)
  BY <1>1, <1>2, <1>3, FirstLargest
<1>5. ASSUME NEW q \in Range(infos) PROVE Leads(infos[f], q)
  <2>1. PICK j \in 1 .. n : q = infos[j]
    BY <1>1
  <2>2. a[f] > a[j] \/ (a[f] = a[j] /\ f <= j)
    BY <1>4
  <2>3. a[f] = infos[f].area /\ a[j] = q.area /\ infos[f].index = f /\ q.index = j
    BY <1>1, <1>3, <2>1
  <2>4. QED
    BY <2>2, <2>3
<1>6. infos[f] \in Range(infos)
  BY <1>1
<1>7. MainBody(infos) \in Range(infos) /\ \A q \in Range(infos) : Leads(MainBody(infos), q)
  BY <1>5, <1>6 DEF MainBody
<1>8. PICK m \in 1 .. n : MainBody(infos) = infos[m]
  BY <1>1, <1>7
<1>9. \A i \in 1 .. n : infos[i].area <= infos[m].area
  <2>1. TAKE i \in 1 .. n
  <2>2. Leads(infos[m], infos[i])
    BY <1>1, <1>7, <1>8
  <2>3. infos[m].area \in Nat /\ infos[i].area \in Nat
    BY <1>1
  <2>4. QED
    BY <2>2, <2>3
<1>10. QED
  BY <1>1, <1>8, <1>9 DEF n

-----------------------------------------------------------------------------
(* Keyholes: the corners they join, and the ring they make. *)

\* The nearest corners are corners, and no others are nearer.
LEMMA NearestType ==
  ASSUME NEW main \in Seq(Points), NEW island \in Seq(Points), main # <<>>, island # <<>>
  PROVE  LET near == NearestCorners(main, island)
         IN  /\ near = <<near[1], near[2]>>
             /\ near[1] \in 1 .. Len(main) /\ near[2] \in 1 .. Len(island)
             /\ \A i \in 1 .. Len(main), j \in 1 .. Len(island) :
                    SquaredDistance(main[near[1]], island[near[2]])
                        <= SquaredDistance(main[i], island[j])
<1> DEFINE distance(e) == SquaredDistance(main[e[1]], island[e[2]])
           pairs == (DOMAIN main) \X (DOMAIN island)
           least == Min({distance(e) : e \in pairs})
           nearest == {e \in pairs : distance(e) = least}
           First(e, f) == e[1] < f[1] \/ (e[1] = f[1] /\ e[2] <= f[2])
<1>1. /\ pairs = (1 .. Len(main)) \X (1 .. Len(island))
      /\ Len(main) \in Nat \ {0} /\ Len(island) \in Nat \ {0}
  OBVIOUS
<1>2. pairs # {}
  <2>1. <<1, 1>> \in pairs
    BY <1>1
  <2>2. QED
    BY <2>1
<1>3. \A e \in pairs : distance(e) \in Nat
  <2>1. TAKE e \in pairs
  <2>2. main[e[1]] \in Points /\ island[e[2]] \in Points
    BY <1>1
  <2>3. QED
    BY <2>2, DistanceType
<1>4. \A e \in pairs : e = <<e[1], e[2]>> /\ e[1] \in 1 .. Len(main) /\ e[2] \in 1 .. Len(island)
  BY <1>1
<1> HIDE DEF distance, pairs
<1>5. /\ least \in {distance(e) : e \in pairs}
      /\ \A d \in {distance(e) : e \in pairs} : least <= d
  <2>1. {distance(e) : e \in pairs} \subseteq Nat /\ {distance(e) : e \in pairs} # {}
    BY <1>2, <1>3
  <2>2. QED
    BY <2>1, Smallest
<1> HIDE DEF least
<1>6. nearest # {} /\ nearest \subseteq pairs
  BY <1>5
<1>7. \E e \in nearest : \A f \in nearest : First(e, f)
  <2> HIDE DEF nearest
  <2> DEFINE I == {e[1] : e \in nearest}
  <2>1. I \subseteq Nat /\ I # {}
    BY <1>1, <1>4, <1>6
  <2>2. PICK i \in I : \A j \in I : i <= j
    BY <2>1, Least
  <2> DEFINE J == {e[2] : e \in {f \in nearest : f[1] = i}}
  <2>3. J \subseteq Nat /\ J # {}
    BY <1>1, <1>4, <1>6, <2>2
  <2>4. PICK j \in J : \A k \in J : j <= k
    BY <2>3, Least
  <2>5. PICK e \in nearest : e[1] = i /\ e[2] = j
    BY <2>4
  <2>6. ASSUME NEW f \in nearest PROVE First(e, f)
    <3>1. f[1] \in Nat /\ e[1] \in Nat /\ f[2] \in Nat /\ e[2] \in Nat
      BY <1>1, <1>4, <1>6
    <3>2. i <= f[1]
      BY <2>2
    <3>3. f[1] = i => j <= f[2]
      BY <2>4
    <3>4. QED
      BY <2>5, <3>1, <3>2, <3>3
  <2>7. QED
    BY <2>6
<1>8. NearestCorners(main, island) = CHOOSE e \in nearest : \A f \in nearest : First(e, f)
  BY DEF NearestCorners, nearest, least, pairs, distance
<1> HIDE DEF First
<1>9. NearestCorners(main, island) \in nearest
  BY <1>7, <1>8
<1> DEFINE near == NearestCorners(main, island)
<1> HIDE DEF near
<1>10. near \in pairs /\ distance(near) = least
  BY <1>9 DEF near, nearest
<1>11. ASSUME NEW i \in 1 .. Len(main), NEW j \in 1 .. Len(island)
       PROVE  distance(near) <= SquaredDistance(main[i], island[j])
  <2>1. <<i, j>> \in pairs
    BY <1>1
  <2>2. distance(<<i, j>>) = SquaredDistance(main[i], island[j])
    BY DEF distance
  <2>3. QED
    BY <1>5, <1>10, <2>1, <2>2
<1>12. /\ near = <<near[1], near[2]>>
       /\ near[1] \in 1 .. Len(main) /\ near[2] \in 1 .. Len(island)
  BY <1>4, <1>10
<1>13. QED
  BY <1>11, <1>12 DEF near, distance

LEMMA SubSeqElements ==
  ASSUME NEW S, NEW s \in Seq(S), NEW a \in 1 .. Len(s) + 1, NEW b \in 0 .. Len(s), a <= b + 1
  PROVE  /\ SubSeq(s, a, b) \in Seq(S) /\ Len(SubSeq(s, a, b)) = b - a + 1
         /\ \A i \in 1 .. b - a + 1 : SubSeq(s, a, b)[i] = s[a - 1 + i]
<1>1. Len(s) \in Nat
  OBVIOUS
<1>2. Len(SubSeq(s, a, b)) = b - a + 1
  BY <1>1
<1>3. \A i \in 1 .. b - a + 1 : SubSeq(s, a, b)[i] = s[a - 1 + i]
  BY <1>1
<1>4. SubSeq(s, a, b) \in Seq(S)
  BY <1>1
<1>5. QED
  BY <1>2, <1>3, <1>4

\* A keyhole ring, corner by corner.
KeyholeCorners(ring, main, m, island, k) ==
    LET M == Len(main)
        L == Len(island)
    IN  /\ ring \in Seq(Points) /\ Len(ring) = M + L + 2
        /\ \A i \in 1 .. m : ring[i] = main[i]
        /\ \A i \in 1 .. L - k + 1 : ring[m + i] = island[k - 1 + i]
        /\ \A i \in 1 .. k - 1 : ring[m + L - k + 1 + i] = island[i]
        /\ ring[m + L + 1] = island[k] /\ ring[m + L + 2] = main[m]
        /\ \A i \in 1 .. M - m : ring[m + L + 2 + i] = main[m + i]

LEMMA ConcatOf ==
  ASSUME NEW S, NEW s \in Seq(S), NEW t \in Seq(S), NEW l, l = Len(s),
         NEW n, n = Len(s) + Len(t)
  PROVE  /\ s \o t \in Seq(S) /\ Len(s \o t) = n
         /\ \A i \in 1 .. n : (s \o t)[i] = IF i <= l THEN s[i] ELSE t[i - l]
BY ConcatElements

LEMMA KeyholeType ==
  ASSUME NEW main \in Seq(Points), NEW island \in Seq(Points),
         NEW m \in 1 .. Len(main), NEW k \in 1 .. Len(island)
  PROVE  KeyholeCorners(Keyhole(main, m, island, k), main, m, island, k)
<1> DEFINE M == Len(main)
           L == Len(island)
           a == SubSeq(main, 1, m)
           b == SubSeq(island, k, Len(island))
           c == SubSeq(island, 1, k - 1)
           d == <<island[k], main[m]>>
           e == SubSeq(main, m + 1, Len(main))
           ab == a \o b
           abc == ab \o c
           abcd == abc \o d
           ring == abcd \o e
<1>1. Keyhole(main, m, island, k) = ring
  BY DEF Keyhole
<1>2. M \in Nat /\ L \in Nat /\ m \in 1 .. M /\ k \in 1 .. L
  OBVIOUS
<1>3. /\ a \in Seq(Points) /\ Len(a) = m /\ \A i \in 1 .. m : a[i] = main[i]
  <2>1. 1 \in 1 .. M + 1 /\ m \in 0 .. M /\ 1 <= m + 1 /\ m - 1 + 1 = m /\ M = Len(main)
    BY <1>2
  <2> HIDE DEF M
  <2>2. /\ SubSeq(main, 1, m) \in Seq(Points) /\ Len(SubSeq(main, 1, m)) = m - 1 + 1
        /\ \A i \in 1 .. m - 1 + 1 : SubSeq(main, 1, m)[i] = main[1 - 1 + i]
    BY <2>1, SubSeqElements
  <2>3. \A i \in 1 .. m : 1 - 1 + i = i
    BY <1>2
  <2>4. QED
    BY <2>1, <2>2, <2>3
<1>4. /\ b \in Seq(Points) /\ Len(b) = L - k + 1
      /\ \A i \in 1 .. L - k + 1 : b[i] = island[k - 1 + i]
  <2>1. k \in 1 .. L + 1 /\ L \in 0 .. L /\ k <= L + 1
    BY <1>2
  <2>2. QED
    BY <2>1, SubSeqElements
<1>5. /\ c \in Seq(Points) /\ Len(c) = k - 1 /\ \A i \in 1 .. k - 1 : c[i] = island[i]
  <2>1. 1 \in 1 .. L + 1 /\ k - 1 \in 0 .. L /\ 1 <= (k - 1) + 1 /\ (k - 1) - 1 + 1 = k - 1
        /\ L = Len(island)
    BY <1>2
  <2> HIDE DEF L
  <2>2. /\ SubSeq(island, 1, k - 1) \in Seq(Points)
        /\ Len(SubSeq(island, 1, k - 1)) = (k - 1) - 1 + 1
        /\ \A i \in 1 .. (k - 1) - 1 + 1 : SubSeq(island, 1, k - 1)[i] = island[1 - 1 + i]
    BY <2>1, SubSeqElements
  <2>3. \A i \in 1 .. k - 1 : 1 - 1 + i = i
    BY <1>2
  <2>4. QED
    BY <2>1, <2>2, <2>3
<1>6. /\ d \in Seq(Points) /\ Len(d) = 2 /\ d[1] = island[k] /\ d[2] = main[m]
  OBVIOUS
<1>7. /\ e \in Seq(Points) /\ Len(e) = M - m /\ \A i \in 1 .. M - m : e[i] = main[m + i]
  <2>1. m + 1 \in 1 .. M + 1 /\ M \in 0 .. M /\ m + 1 <= M + 1 /\ M - (m + 1) + 1 = M - m
        /\ M = Len(main)
    BY <1>2
  <2> HIDE DEF M
  <2>2. /\ SubSeq(main, m + 1, M) \in Seq(Points)
        /\ Len(SubSeq(main, m + 1, M)) = M - (m + 1) + 1
        /\ \A i \in 1 .. M - (m + 1) + 1 : SubSeq(main, m + 1, M)[i] = main[(m + 1) - 1 + i]
    <3> DEFINE l == m + 1
    <3>1. main \in Seq(Points) /\ l \in 1 .. Len(main) + 1 /\ M \in 0 .. Len(main) /\ l <= M + 1
      BY <2>1
    <3> HIDE DEF l
    <3>2. /\ SubSeq(main, l, M) \in Seq(Points)
          /\ Len(SubSeq(main, l, M)) = M - l + 1
          /\ \A i \in 1 .. M - l + 1 : SubSeq(main, l, M)[i] = main[l - 1 + i]
      BY ONLY <3>1, SubSeqElements
    <3>3. QED
      BY <3>2 DEF l
  <2>3. \A i \in 1 .. M - m : (m + 1) - 1 + i = m + i
    BY <1>2
  <2>4. QED
    BY <2>1, <2>2, <2>3
<1> HIDE DEF a, b, c, d, e, M, L
<1>8. /\ ab \in Seq(Points) /\ Len(ab) = m + (L - k + 1)
      /\ \A i \in 1 .. m + (L - k + 1) : ab[i] = IF i <= m THEN a[i] ELSE b[i - m]
  <2> DEFINE n == m + (L - k + 1)
  <2>1. m = Len(a) /\ n = Len(a) + Len(b)
    BY <1>3, <1>4
  <2> HIDE DEF n
  <2>2. /\ a \o b \in Seq(Points) /\ Len(a \o b) = n
        /\ \A i \in 1 .. n : (a \o b)[i] = IF i <= m THEN a[i] ELSE b[i - m]
    BY <1>3, <1>4, <2>1, ConcatOf
  <2>3. QED
    BY <2>2 DEF n
<1> HIDE DEF ab
<1>9. /\ abc \in Seq(Points) /\ Len(abc) = m + L
      /\ \A i \in 1 .. m + L :
             abc[i] = IF i <= m + (L - k + 1) THEN ab[i] ELSE c[i - (m + (L - k + 1))]
  <2>1. (m + (L - k + 1)) + (k - 1) = m + L
    BY <1>2
  <2> DEFINE n == m + L
             l == m + (L - k + 1)
  <2>2. l = Len(ab) /\ n = Len(ab) + Len(c)
    BY <1>5, <1>8, <2>1
  <2> HIDE DEF n, l
  <2>3. /\ ab \o c \in Seq(Points) /\ Len(ab \o c) = n
        /\ \A i \in 1 .. n : (ab \o c)[i] = IF i <= l THEN ab[i] ELSE c[i - l]
    <3>1. ab \in Seq(Points) /\ c \in Seq(Points)
      BY <1>5, <1>8
    <3>2. QED
      BY <2>2, <3>1, ConcatOf
  <2>4. QED
    BY <2>3 DEF n, l
<1> HIDE DEF abc
<1>10. /\ abcd \in Seq(Points) /\ Len(abcd) = m + L + 2
       /\ \A i \in 1 .. m + L + 2 :
              abcd[i] = IF i <= m + L THEN abc[i] ELSE d[i - (m + L)]
  <2> DEFINE n == m + L + 2
             l == m + L
  <2>2. l = Len(abc) /\ n = Len(abc) + Len(d)
    BY <1>6, <1>9
  <2> HIDE DEF n, l
  <2>3. /\ abc \o d \in Seq(Points) /\ Len(abc \o d) = n
        /\ \A i \in 1 .. n : (abc \o d)[i] = IF i <= l THEN abc[i] ELSE d[i - l]
    <3>1. abc \in Seq(Points) /\ d \in Seq(Points)
      BY <1>6, <1>9
    <3>2. QED
      BY <2>2, <3>1, ConcatOf
  <2>4. QED
    BY <2>3 DEF n, l
<1> HIDE DEF abcd
<1>11. /\ ring \in Seq(Points) /\ Len(ring) = M + L + 2
       /\ \A i \in 1 .. M + L + 2 :
              ring[i] = IF i <= m + L + 2 THEN abcd[i] ELSE e[i - (m + L + 2)]
  <2>1. (m + L + 2) + (M - m) = M + L + 2
    BY <1>2
  <2> DEFINE n == M + L + 2
             l == m + L + 2
  <2>2. l = Len(abcd) /\ n = Len(abcd) + Len(e)
    BY <1>7, <1>10, <2>1
  <2> HIDE DEF n, l
  <2>3. /\ abcd \o e \in Seq(Points) /\ Len(abcd \o e) = n
        /\ \A i \in 1 .. n : (abcd \o e)[i] = IF i <= l THEN abcd[i] ELSE e[i - l]
    <3>1. abcd \in Seq(Points) /\ e \in Seq(Points)
      BY <1>7, <1>10
    <3>2. QED
      BY <2>2, <3>1, ConcatOf
  <2>4. QED
    BY <2>3 DEF n, l
<1> HIDE DEF ring
<1>12. ASSUME NEW i \in 1 .. m PROVE ring[i] = main[i]
  <2>1. i \in 1 .. m + (L - k + 1) /\ i \in 1 .. m + L /\ i \in 1 .. m + L + 2
        /\ i \in 1 .. M + L + 2 /\ i <= m
        /\ i <= m + (L - k + 1) /\ i <= m + L /\ i <= m + L + 2
    BY <1>2
  <2>2. QED
    BY <1>3, <1>8, <1>9, <1>10, <1>11, <2>1
<1>13. ASSUME NEW i \in 1 .. L - k + 1 PROVE ring[m + i] = island[k - 1 + i]
  <2>1. m + i \in 1 .. m + (L - k + 1) /\ m + i \in 1 .. m + L /\ m + i \in 1 .. m + L + 2
        /\ m + i \in 1 .. M + L + 2 /\ ~(m + i <= m) /\ (m + i) - m = i
        /\ m + i <= m + (L - k + 1) /\ m + i <= m + L /\ m + i <= m + L + 2
    BY <1>2
  <2> DEFINE j == m + i
  <2> HIDE DEF j
  <2>2. ring[j] = b[j - m]
    BY <1>8, <1>9, <1>10, <1>11, <2>1 DEF j
  <2>3. QED
    BY <1>4, <2>1, <2>2 DEF j
<1>14. ASSUME NEW i \in 1 .. k - 1 PROVE ring[m + L - k + 1 + i] = island[i]
  <2> DEFINE j == m + L - k + 1 + i
  <2>1. j \in 1 .. m + L /\ j \in 1 .. m + L + 2
        /\ j \in 1 .. M + L + 2 /\ ~(j <= m + (L - k + 1)) /\ j - (m + (L - k + 1)) = i
        /\ j <= m + L /\ j <= m + L + 2
    BY <1>2
  <2> HIDE DEF j
  <2>2. ring[j] = c[j - (m + (L - k + 1))]
    BY <1>9, <1>10, <1>11, <2>1
  <2>3. QED
    BY <1>5, <2>1, <2>2 DEF j
<1>15. ring[m + L + 1] = island[k] /\ ring[m + L + 2] = main[m]
  <2> DEFINE j == m + L + 1
             l == m + L + 2
  <2>1. /\ j \in 1 .. m + L + 2 /\ j \in 1 .. M + L + 2 /\ ~(j <= m + L) /\ j - (m + L) = 1
        /\ j <= m + L + 2
        /\ l \in 1 .. m + L + 2 /\ l \in 1 .. M + L + 2 /\ ~(l <= m + L) /\ l - (m + L) = 2
        /\ l <= m + L + 2
    BY <1>2
  <2> HIDE DEF j, l
  <2>2. ring[j] = d[1] /\ ring[l] = d[2]
    BY <1>10, <1>11, <2>1
  <2>3. QED
    BY <1>6, <2>2 DEF j, l
<1>16. ASSUME NEW i \in 1 .. M - m PROVE ring[m + L + 2 + i] = main[m + i]
  <2> DEFINE j == m + L + 2 + i
  <2>1. j \in 1 .. M + L + 2 /\ ~(j <= m + L + 2) /\ j - (m + L + 2) = i
    BY <1>2
  <2> HIDE DEF j
  <2>2. ring[j] = e[j - (m + L + 2)]
    BY <1>11, <2>1
  <2>3. QED
    BY <1>7, <2>1, <2>2 DEF j
<1>17. KeyholeCorners(ring, main, m, island, k)
  BY <1>11, <1>12, <1>13, <1>14, <1>15, <1>16 DEF KeyholeCorners, M, L
<1>18. QED
  BY <1>1, <1>17 DEF ring

-----------------------------------------------------------------------------
(* Merging the islands, subpath by subpath. *)

\* What merge_tiny_islands makes of one subpath.
Takes(acc, info, compound, main) ==
    LET near == NearestCorners(acc.ring, info.ring)
        reached == Within(acc.ring[near[1]], info.ring[near[2]], MergeRadius)
    IN  IF info.index = main.index THEN acc
        ELSE IF Tiny(info) /\ ~info.hole /\ reached
        THEN [acc EXCEPT !.ring = Keyhole(@, near[1], info.ring, near[2]), !.merged = TRUE]
        ELSE [acc EXCEPT !.kept = Append(@, compound[info.index])]

TakesAll(f, infos, compound, main) ==
    f = [s \in SUBSET (1 .. Len(infos)) |->
            IF s = {} THEN [kept |-> <<>>, ring |-> main.ring, merged |-> FALSE]
            ELSE Takes(f[s \ {Max(s)}], infos[Max(s)], compound, main)]

\* What has been gathered after some of the subpaths: the growing main ring still has
\* every corner of the main body.
Gathered(compound, main) ==
    {acc \in [kept : Seq(Paths), ring : Seq(Points), merged : BOOLEAN] :
        /\ Range(acc.kept) \subseteq Range(compound)
        /\ Range(main.ring) \subseteq Range(acc.ring)
        /\ Len(acc.ring) >= Len(main.ring)
        /\ acc.merged => main.area > 0}

\* An island that the growing ring reaches.
Reaches(acc, info) ==
    LET near == NearestCorners(acc.ring, info.ring)
    IN  Tiny(info) /\ ~info.hole /\ Within(acc.ring[near[1]], info.ring[near[2]], MergeRadius)

\* The three outcomes of a step.
Step(acc, next, info, compound, main) ==
    LET near == NearestCorners(acc.ring, info.ring)
    IN  /\ info.index = main.index => next = acc
        /\ info.index # main.index /\ Reaches(acc, info) =>
               /\ next.kept = acc.kept /\ next.merged = TRUE
               /\ KeyholeCorners(next.ring, acc.ring, near[1], info.ring, near[2])
               /\ near[1] \in 1 .. Len(acc.ring) /\ near[2] \in 1 .. Len(info.ring)
               /\ Len(acc.ring) >= 3 /\ Len(info.ring) >= 3
        /\ info.index # main.index /\ ~Reaches(acc, info) =>
               /\ next.ring = acc.ring /\ next.merged = acc.merged
               /\ next.kept = Append(acc.kept, compound[info.index])

LEMMA TakesType ==
  ASSUME NEW compound \in Seq(Paths), compound # <<>>,
         NEW infos, infos = ClassifySubpaths(compound), NEW main, main = MainBody(infos),
         NEW acc \in Gathered(compound, main), NEW i \in 1 .. Len(compound)
  PROVE  /\ Takes(acc, infos[i], compound, main) \in Gathered(compound, main)
         /\ Step(acc, Takes(acc, infos[i], compound, main), infos[i], compound, main)
<1> DEFINE info == infos[i]
           next == Takes(acc, info, compound, main)
           near == NearestCorners(acc.ring, info.ring)
           path == compound[i]
           R == [kept : Seq(Paths), ring : Seq(Points), merged : BOOLEAN]
<1>1. /\ info.index = i /\ info.ring \in Seq(Points) /\ info.area \in Nat
      /\ info.area > 0 => Len(info.ring) >= 3
  <2>1. Describes(infos, compound)
    BY Classified
  <2>2. QED
    BY <2>1 DEF Describes
<1>2. PICK m \in 1 .. Len(compound) :
          /\ main = infos[m] /\ infos[m].index = m
          /\ \A j \in 1 .. Len(compound) : infos[j].area <= infos[m].area
  BY MainBodyType
<1>3. /\ main.ring \in Seq(Points) /\ main.area \in Nat /\ info.area <= main.area
      /\ main.area > 0 => Len(main.ring) >= 3
  <2>1. Describes(infos, compound)
    BY Classified
  <2>2. infos[m].ring \in Seq(Points) /\ infos[m].area \in Nat
        /\ (infos[m].area > 0 => Len(infos[m].ring) >= 3)
    BY <2>1 DEF Describes
  <2>3. QED
    BY <1>2, <2>2
<1>4. /\ acc \in R
      /\ Range(acc.kept) \subseteq Range(compound)
      /\ Range(main.ring) \subseteq Range(acc.ring)
      /\ Len(acc.ring) >= Len(main.ring)
      /\ acc.merged => main.area > 0
  BY DEF Gathered
<1>5. acc.kept \in Seq(Paths) /\ acc.ring \in Seq(Points) /\ acc.merged \in BOOLEAN
  BY <1>4
<1>6. path \in Paths /\ path \in Range(compound)
  <2>1. i \in DOMAIN compound
    OBVIOUS
  <2>2. QED
    BY <2>1 DEF Range
<1>7. next = IF info.index = main.index THEN acc
             ELSE IF Reaches(acc, info)
             THEN [acc EXCEPT !.ring = Keyhole(@, near[1], info.ring, near[2]), !.merged = TRUE]
             ELSE [acc EXCEPT !.kept = Append(@, path)]
  BY <1>1 DEF Takes, Reaches
<1>8. CASE info.index = main.index
  <2>1. next = acc
    BY <1>7, <1>8
  <2>2. QED
    BY <1>8, <2>1 DEF Step
<1>9. CASE info.index # main.index /\ Reaches(acc, info)
  <2> DEFINE hole == Keyhole(acc.ring, near[1], info.ring, near[2])
  <2>1. next = [acc EXCEPT !.ring = hole, !.merged = TRUE]
    <3>1. next = [acc EXCEPT !.ring = Keyhole(@, near[1], info.ring, near[2]), !.merged = TRUE]
      BY <1>7, <1>9
    <3> HIDE DEF next, near, info
    <3>2. QED
      BY <1>4, <3>1
  <2>2. info.area > 0 /\ main.area > 0
    BY <1>1, <1>3, <1>9 DEF Reaches, Tiny
  <2>3. Len(main.ring) >= 3 /\ Len(info.ring) >= 3
    BY <1>1, <1>3, <2>2
  <2>4. Len(acc.ring) \in Nat /\ Len(main.ring) \in Nat /\ Len(info.ring) \in Nat
    BY <1>1, <1>3, <1>5
  <2>5. Len(acc.ring) >= 3
    BY <1>4, <2>3, <2>4
  <2>6. acc.ring # <<>> /\ info.ring # <<>>
    BY <2>3, <2>5
  <2>7. near[1] \in 1 .. Len(acc.ring) /\ near[2] \in 1 .. Len(info.ring)
    BY <1>1, <1>5, <2>6, NearestType
  <2> HIDE DEF near
  <2>8. KeyholeCorners(hole, acc.ring, near[1], info.ring, near[2])
    BY <1>1, <1>5, <2>7, KeyholeType
  <2> HIDE DEF hole
  <2>9. hole \in Seq(Points) /\ Len(hole) = Len(acc.ring) + Len(info.ring) + 2
    BY <2>8 DEF KeyholeCorners
  <2>10. /\ next \in R /\ next.kept = acc.kept /\ next.ring = hole /\ next.merged = TRUE
    <3> HIDE DEF next
    <3>1. QED
      BY <1>4, <2>1, <2>9
  <2>11. Range(acc.ring) \subseteq Range(hole)
    <3>1. ASSUME NEW j \in 1 .. Len(acc.ring) PROVE acc.ring[j] \in Range(hole)
      <4> DEFINE c == near[1]
                 L == Len(info.ring)
                 M == Len(acc.ring)
      <4>1. /\ M \in Nat /\ L \in Nat /\ c \in 1 .. M /\ j \in 1 .. M
        BY <2>4, <2>7
      <4>2. /\ Len(hole) = M + L + 2
            /\ \A l \in 1 .. c : hole[l] = acc.ring[l]
            /\ \A l \in 1 .. M - c : hole[c + L + 2 + l] = acc.ring[c + l]
        BY <2>8 DEF KeyholeCorners
      <4>3. DOMAIN hole = 1 .. M + L + 2
        BY <2>9, <4>2
      <4> HIDE DEF c, L, M
      <4>4. CASE j <= c
        <5>1. j \in 1 .. c /\ j \in 1 .. M + L + 2
          BY <4>1, <4>4
        <5>2. QED
          BY <4>2, <4>3, <5>1 DEF Range
      <4>5. CASE ~(j <= c)
        <5>1. j - c \in 1 .. M - c /\ c + (j - c) = j
              /\ c + L + 2 + (j - c) \in 1 .. M + L + 2
          BY <4>1, <4>5
        <5> DEFINE l == j - c
        <5> HIDE DEF l
        <5>2. hole[c + L + 2 + l] = acc.ring[c + l]
          BY <4>2, <5>1 DEF l
        <5>3. QED
          BY <4>3, <5>1, <5>2 DEF Range, l
      <4>6. QED
        BY <4>4, <4>5
    <3>2. DOMAIN acc.ring = 1 .. Len(acc.ring)
      BY <1>5
    <3>3. QED
      BY <3>1, <3>2 DEF Range
  <2>12. Len(hole) >= Len(main.ring)
    BY <1>4, <2>4, <2>9
  <2>13. next \in Gathered(compound, main)
    <3> HIDE DEF next, R
    <3>1. /\ next \in R
          /\ Range(next.kept) \subseteq Range(compound)
          /\ Range(main.ring) \subseteq Range(next.ring)
          /\ Len(next.ring) >= Len(main.ring)
          /\ next.merged => main.area > 0
      BY <1>4, <2>2, <2>10, <2>11, <2>12
    <3>2. QED
      BY <3>1 DEF Gathered, R
  <2>14. Step(acc, next, info, compound, main)
    <3> HIDE DEF next, info
    <3>1. QED
      BY <1>9, <2>3, <2>5, <2>7, <2>8, <2>10 DEF Step, near
  <2>15. QED
    BY <2>13, <2>14
<1>10. CASE info.index # main.index /\ ~Reaches(acc, info)
  <2> DEFINE kept == Append(acc.kept, path)
  <2>1. next = [acc EXCEPT !.kept = kept]
    <3>1. next = [acc EXCEPT !.kept = Append(@, path)]
      BY <1>7, <1>10
    <3> HIDE DEF next, path
    <3>2. QED
      BY <1>4, <3>1
  <2>2. kept \in Seq(Paths)
    BY <1>5, <1>6
  <2>3. Range(kept) \subseteq Range(compound)
    <3>1. \A j \in DOMAIN kept : kept[j] = path \/ \E l \in DOMAIN acc.kept : kept[j] = acc.kept[l]
      BY <1>5, <1>6
    <3>2. QED
      BY <1>4, <1>6, <3>1 DEF Range
  <2> HIDE DEF kept
  <2>4. next \in R /\ next.kept = kept /\ next.ring = acc.ring /\ next.merged = acc.merged
    <3> HIDE DEF next
    <3>1. QED
      BY <1>4, <2>1, <2>2
  <2>5. next \in Gathered(compound, main)
    <3> HIDE DEF next, R
    <3>1. QED
      BY <1>4, <2>3, <2>4 DEF Gathered, R
  <2>6. Step(acc, next, info, compound, main)
    <3> HIDE DEF next
    <3>1. next.kept = Append(acc.kept, compound[info.index])
      BY <1>1, <2>4 DEF kept
    <3> HIDE DEF info
    <3>2. QED
      BY <1>10, <2>4, <3>1 DEF Step
  <2>7. QED
    BY <2>5, <2>6
<1>11. QED
  BY <1>8, <1>9, <1>10

\* The islands are taken one after the other, and what is left makes the result.
Merges(g, infos, compound, main) ==
    /\ g[0] = [kept |-> <<>>, ring |-> main.ring, merged |-> FALSE]
    /\ \A k \in 0 .. Len(compound) : g[k] \in Gathered(compound, main)
    /\ \A k \in 1 .. Len(compound) : Step(g[k - 1], g[k], infos[k], compound, main)
    /\ MergeTinyIslands(compound) =
           <<IF g[Len(compound)].merged THEN PolygonPath(g[Len(compound)].ring, TRUE)
             ELSE compound[main.index]>> \o g[Len(compound)].kept

LEMMA MergesStepByStep ==
  ASSUME NEW compound \in Seq(Paths), compound # <<>>,
         NEW infos, infos = ClassifySubpaths(compound), NEW main, main = MainBody(infos)
  PROVE  \E g : Merges(g, infos, compound, main)
<1> DEFINE n == Len(compound)
           A == Gathered(compound, main)
           S == Range(infos)
           base == [kept |-> <<>>, ring |-> main.ring, merged |-> FALSE]
           step == [p \in A \X S |-> Takes(p[1], p[2], compound, main)]
<1>1. /\ n \in Nat /\ DOMAIN infos = 1 .. n /\ infos \in Seq(S) /\ Len(infos) = n
      /\ S = {infos[i] : i \in 1 .. n}
  <2>1. Describes(infos, compound)
    BY Classified
  <2>2. QED
    BY <2>1 DEF Describes
<1>2. \A a \in A : \A s \in S : step[<<a, s>>] = Takes(a, s, compound, main)
                                /\ Takes(a, s, compound, main) \in A
  <2>0. SUFFICES ASSUME NEW a \in A, NEW s \in S
                 PROVE  /\ step[<<a, s>>] = Takes(a, s, compound, main)
                        /\ Takes(a, s, compound, main) \in A
    OBVIOUS
  <2>2. PICK i \in 1 .. n : s = infos[i]
    BY <1>1
  <2>3. Takes(a, s, compound, main) \in A
    BY <2>2, TakesType
  <2>4. QED
    BY <2>3
<1>3. step \in [A \X S -> A]
  <2>1. \A p \in A \X S : Takes(p[1], p[2], compound, main) \in A
    <3>1. TAKE p \in A \X S
    <3>2. p[1] \in A /\ p[2] \in S
      OBVIOUS
    <3> HIDE DEF A, S
    <3>3. QED
      BY <1>2, <3>2
  <2> HIDE DEF A, S
  <2>2. QED
    BY <2>1
<1>4. base \in A
  <2>1. main.ring \in Seq(Points)
    <3>1. PICK m \in 1 .. n : main = infos[m]
      BY MainBodyType
    <3>2. Describes(infos, compound)
      BY Classified
    <3>3. QED
      BY <3>1, <3>2 DEF Describes
  <2>2. <<>> \in Seq(Paths) /\ Len(main.ring) \in Nat
    BY <2>1
  <2>3. base \in [kept : Seq(Paths), ring : Seq(Points), merged : BOOLEAN]
    BY <2>1, <2>2
  <2>4. base.kept = <<>> /\ base.ring = main.ring /\ base.merged = FALSE
    OBVIOUS
  <2>5. Range(base.kept) \subseteq Range(compound)
    BY <2>4 DEF Range
  <2> HIDE DEF base
  <2>6. QED
    BY <2>2, <2>3, <2>4, <2>5 DEF Gathered
<1> HIDE DEF step, A, n, S, base
<1>5. PICK f \in [SUBSET (1 .. n) -> A] : FoldsLeft(f, step, base, infos, n)
  <2>1. n <= Len(infos)
    BY <1>1
  <2>2. \A l \in Nat : l <= Len(infos) =>
            \E f \in [SUBSET (1 .. l) -> A] : FoldsLeft(f, step, base, infos, l)
    BY <1>1, <1>3, <1>4, FoldsLeftExists
  <2>3. QED
    BY <1>1, <2>1, <2>2
<1>6. TakesAll(f, infos, compound, main)
  <2>1. f = [s \in SUBSET (1 .. n) |->
                IF s = {} THEN base ELSE step[<<f[s \ {Max(s)}], infos[Max(s)]>>]]
    BY <1>5 DEF FoldsLeft
  <2>2. ASSUME NEW s \in SUBSET (1 .. n), s # {}
        PROVE  step[<<f[s \ {Max(s)}], infos[Max(s)]>>]
                   = Takes(f[s \ {Max(s)}], infos[Max(s)], compound, main)
    <3>1. Max(s) \in s
      <4>1. s \subseteq 0 .. n
        OBVIOUS
      <4>2. QED
        BY <1>1, <2>2, <4>1, Greatest
    <3>2. s \ {Max(s)} \in SUBSET (1 .. n) /\ Max(s) \in 1 .. n
      BY <3>1
    <3>3. f[s \ {Max(s)}] \in A /\ infos[Max(s)] \in S
      BY <1>1, <1>5, <3>2
    <3>4. QED
      BY <1>2, <3>3
  <2>3. [s \in SUBSET (1 .. n) |->
            IF s = {} THEN base ELSE step[<<f[s \ {Max(s)}], infos[Max(s)]>>]]
        = [s \in SUBSET (1 .. n) |->
              IF s = {} THEN base ELSE Takes(f[s \ {Max(s)}], infos[Max(s)], compound, main)]
    BY <2>2
  <2>4. f = [s \in SUBSET (1 .. n) |->
                IF s = {} THEN base ELSE Takes(f[s \ {Max(s)}], infos[Max(s)], compound, main)]
    BY <2>1, <2>3
  <2>5. QED
    BY <1>1, <2>4 DEF TakesAll, base
<1> DEFINE Result(h) ==
        MergeTinyIslands(compound) =
            <<IF h[1 .. n].merged THEN PolygonPath(h[1 .. n].ring, TRUE)
              ELSE compound[main.index]>> \o h[1 .. n].kept
<1>7. \E h : TakesAll(h, infos, compound, main) /\ Result(h)
  <2>1. \E h : TakesAll(h, infos, compound, main)
    BY <1>6
  <2>2. infos # <<>>
    BY <1>1 DEF n
  <2> DEFINE I == ClassifySubpaths(compound)
             B == MainBody(I)
             Made(h) ==
                 MergeTinyIslands(compound) =
                     <<IF h[1 .. Len(I)].merged THEN PolygonPath(h[1 .. Len(I)].ring, TRUE)
                       ELSE compound[B.index]>> \o h[1 .. Len(I)].kept
  <2>3. DOMAIN I = 1 .. Len(I) /\ I # <<>>
    BY <1>1, <2>2
  <2>4. \E h : TakesAll(h, I, compound, B)
    BY <2>1
  <2>5. \E h : TakesAll(h, I, compound, B) /\ Made(h)
    BY <2>3, <2>4, ZenonT(100)
       DEF TakesAll, Takes, MergeTinyIslands, FoldLeft, MapThenFoldSet
  <2> HIDE DEF I, B
  <2>6. I = infos /\ B = main
    BY DEF I, B
  <2>7. QED
    BY <1>1, <2>5, <2>6
<1>8. PICK h : TakesAll(h, infos, compound, main) /\ Result(h)
  BY <1>7
<1>9. \A s \in SUBSET (1 .. n) :
          h[s] = IF s = {} THEN base ELSE Takes(h[s \ {Max(s)}], infos[Max(s)], compound, main)
  BY <1>1, <1>8 DEF TakesAll, base
<1> DEFINE g == [k \in 0 .. n |-> h[1 .. k]]
<1>10. \A k \in 0 .. n : g[k] = h[1 .. k]
  OBVIOUS
<1>11. g[0] = base
  <2>1. 1 .. 0 = {} /\ 0 \in 0 .. n /\ {} \in SUBSET (1 .. n)
    BY <1>1
  <2>2. QED
    BY <1>9, <1>10, <2>1
<1>12. ASSUME NEW k \in 1 .. n PROVE g[k] = Takes(g[k - 1], infos[k], compound, main)
  <2>1. /\ 1 .. k \in SUBSET (1 .. n) /\ 1 .. k # {}
        /\ Max(1 .. k) = k /\ (1 .. k) \ {Max(1 .. k)} = 1 .. k - 1
    BY <1>1, Prefixed
  <2>2. h[1 .. k] = Takes(h[1 .. k - 1], infos[k], compound, main)
    BY <1>9, <2>1
  <2>3. k \in 0 .. n /\ k - 1 \in 0 .. n
    BY <1>1
  <2>4. QED
    BY <1>10, <2>2, <2>3
<1>13. g[n] = h[1 .. n]
  BY <1>1, <1>10
<1> HIDE DEF g
<1> DEFINE P == {k \in Nat : k <= n => g[k] \in A}
<1>14. 0 \in P
  BY <1>4, <1>11
<1>15. ASSUME NEW k \in Nat, k \in P PROVE k + 1 \in P
  <2>0. k + 1 \in Nat
    OBVIOUS
  <2>1. SUFFICES ASSUME k + 1 <= n PROVE g[k + 1] \in A
    BY <2>0
  <2>2. k + 1 \in 1 .. n /\ (k + 1) - 1 = k /\ k <= n
    BY <1>1, <2>1
  <2>3. g[k + 1] = Takes(g[k], infos[k + 1], compound, main)
    BY <1>12, <2>2
  <2>4. g[k] \in A /\ infos[k + 1] \in S
    BY <1>1, <1>15, <2>2
  <2>5. QED
    BY <1>2, <2>3, <2>4
<1> HIDE DEF P
<1>16. \A k \in 0 .. n : g[k] \in A
  <2>1. \A k \in Nat : k \in P
    BY <1>14, <1>15, Induction
  <2>2. QED
    BY <2>1 DEF P
<1>17. ASSUME NEW k \in 1 .. n PROVE Step(g[k - 1], g[k], infos[k], compound, main)
  <2>1. k - 1 \in 0 .. n /\ g[k - 1] \in Gathered(compound, main)
    BY <1>1, <1>16 DEF A
  <2>2. k \in 1 .. Len(compound)
    BY DEF n
  <2>3. Step(g[k - 1], Takes(g[k - 1], infos[k], compound, main), infos[k], compound, main)
    BY <2>1, <2>2, TakesType
  <2>4. QED
    BY <1>12, <2>3
<1>18. MergeTinyIslands(compound) =
           <<IF g[n].merged THEN PolygonPath(g[n].ring, TRUE)
             ELSE compound[main.index]>> \o g[n].kept
  BY <1>8, <1>13
<1>19. Merges(g, infos, compound, main)
  BY <1>11, <1>16, <1>17, <1>18 DEF Merges, n, A, base
<1>20. QED
  BY <1>19

-----------------------------------------------------------------------------
(* Polygons as paths, and what the merged shape is made of. *)

LEMMA PolygonPathType ==
  ASSUME NEW P, NEW points \in Seq(P), points # <<>>
  PROVE  LET path == PolygonPath(points, TRUE)
         IN  /\ path \in Drawings(P) /\ path.closed = TRUE
             /\ Len(path.segments) = Len(points) /\ AllLines(path)
             /\ \A i \in 1 .. Len(points) :
                    path.segments[i] = Line(points[i], After(points, i))
<1> DEFINE n == Len(points)
           segments == [i \in 1 .. n |-> Line(points[i], After(points, i))]
<1>1. n \in Nat /\ n # 0
  OBVIOUS
<1>2. PolygonPath(points, TRUE) = Path(segments, TRUE)
  BY DEF PolygonPath
<1>3. ASSUME NEW i \in 1 .. n
      PROVE  segments[i] \in Traces(P) /\ segments[i].kind = "line"
  <2> DEFINE a == points[i]
             b == After(points, i)
  <2>1. a \in P
    BY <1>1
  <2>2. b \in P
    BY AfterIn
  <2>3. segments[i] = Line(a, b)
    OBVIOUS
  <2> HIDE DEF a, b, segments
  <2>4. <<>> \in Seq(P)
    OBVIOUS
  <2>5. Line(a, b) \in Traces(P) /\ Line(a, b).kind = "line"
    BY <2>1, <2>2, <2>4 DEF Line, Traces
  <2>6. QED
    BY <2>3, <2>5
<1>4. segments = [i \in 1 .. n |-> segments[i]]
      /\ \A i \in 1 .. n : segments[i] = Line(points[i], After(points, i))
  OBVIOUS
<1> HIDE DEF segments
<1>5. segments \in Seq(Traces(P)) /\ Len(segments) = n /\ DOMAIN segments = 1 .. n
  <2>1. segments \in [1 .. n -> Traces(P)]
    BY <1>3, <1>4
  <2>2. DOMAIN segments = 1 .. n
    BY <1>4
  <2> HIDE DEF n
  <2>3. QED
    BY <1>1, <2>1, <2>2
<1>6. /\ Path(segments, TRUE) \in Drawings(P) /\ Path(segments, TRUE).closed = TRUE
      /\ Path(segments, TRUE).segments = segments
  BY <1>5 DEF Path, Drawings
<1>7. AllLines(Path(segments, TRUE))
  BY <1>3, <1>5, <1>6 DEF AllLines
<1> HIDE DEF n
<1>8. QED
  BY <1>2, <1>4, <1>5, <1>6, <1>7 DEF n

LEMMA FlattenOnes ==
  ASSUME NEW S, NEW n \in Nat, NEW e \in [1 .. n -> S],
         NEW seqs \in [1 .. n -> Seq(S)], \A i \in 1 .. n : seqs[i] = <<e[i]>>
  PROVE  FlattenSeq(seqs) = e
<1>1. seqs = [i \in 1 .. n |-> <<e[i]>>]
  OBVIOUS
<1>2. n \in Nat /\ e \in [1 .. n -> S]
  OBVIOUS
<1>3. QED
  BY <1>1, <1>2, FlattenSingles, ZenonT(60)

\* A polygon's path goes around the polygon.
LEMMA PolygonRing ==
  ASSUME NEW P, NEW points \in Seq(P), points # <<>>
  PROVE  Ring(PolygonPath(points, TRUE)) = points
<1> DEFINE n == Len(points)
           path == PolygonPath(points, TRUE)
           parts == [i \in DOMAIN path.segments |-> FlattenSegment(path.segments[i])]
           flat == points \o <<points[1]>>
<1>1. n \in Nat /\ n # 0
  OBVIOUS
<1>2. /\ path \in Drawings(P) /\ Len(path.segments) = n
      /\ \A i \in 1 .. n : path.segments[i] = Line(points[i], After(points, i))
  BY PolygonPathType
<1>3. DOMAIN path.segments = 1 .. n
  BY <1>2, DrawingParts
<1>4. parts = [i \in 1 .. n |-> <<points[i]>>]
  <2>1. ASSUME NEW i \in 1 .. n PROVE FlattenSegment(path.segments[i]) = <<points[i]>>
    <3> DEFINE a == points[i]
               b == After(points, i)
    <3>1. path.segments[i] = Line(a, b)
      BY <1>2
    <3>2. a \in P
      OBVIOUS
    <3> HIDE DEF a, b, path
    <3>3. FlattenSegment(Line(a, b)) = <<a>> \o <<>>
      BY DEF FlattenSegment, Line
    <3>4. <<a>> \o <<>> = <<a>>
      BY <3>2
    <3>5. QED
      BY <3>1, <3>3, <3>4 DEF a
  <2> HIDE DEF path, n
  <2>2. QED
    BY <1>3, <2>1
<1>5. FlattenSeq(parts) = points
  <2>1. points \in [1 .. n -> P]
    OBVIOUS
  <2> HIDE DEF parts, n
  <2>2. QED
    <3>1. n \in Nat
      BY <1>1
    <3>2. parts \in [1 .. n -> Seq(P)] /\ \A i \in 1 .. n : parts[i] = <<points[i]>>
      <4>1. \A i \in 1 .. n : points[i] \in P /\ <<points[i]>> \in Seq(P)
        BY <2>1
      <4>2. QED
        BY <1>4, <4>1
    <3>3. QED
      BY <2>1, <3>1, <3>2, FlattenOnes, ZenonT(60)
<1>6. Last(path.segments).end = points[1]
  <2>1. n \in 1 .. n
    BY <1>1
  <2>2. path.segments[n] = Line(points[n], After(points, n))
    BY <1>2, <2>1
  <2>3. After(points, n) = points[1]
    BY <2>1, AfterIn
  <2>4. Line(points[n], points[1]).end = points[1]
    BY DEF Line
  <2> HIDE DEF path, n
  <2>5. QED
    BY <1>2, <2>2, <2>3, <2>4 DEF Last
<1>7. path.segments # <<>>
  BY <1>1, <1>2
<1>8. FlattenPath(path) = flat
  BY <1>5, <1>6, <1>7 DEF FlattenPath
<1>9. /\ <<points[1]>> \in Seq(P) /\ Len(<<points[1]>>) = 1 /\ <<points[1]>>[1] = points[1]
      /\ <<points[1]>> # <<>>
  BY <1>1
<1>10. /\ flat \in Seq(P) /\ Len(flat) = n + 1
       /\ \A k \in 1 .. n + 1 : flat[k] = IF k <= n THEN points[k] ELSE <<points[1]>>[k - n]
  <2>1. n = Len(points) /\ n + 1 = Len(points) + Len(<<points[1]>>)
    BY <1>9
  <2>2. n + 1 = Len(points) + Len(<<points[1]>>)
    BY <2>1
  <2> DEFINE l == n + 1
             q == <<points[1]>>
  <2>3. l = Len(points) + Len(q) /\ n = Len(points) /\ q \in Seq(P)
    BY <1>9
  <2> HIDE DEF l, q, n
  <2>4. /\ points \o q \in Seq(P) /\ Len(points \o q) = l
        /\ \A k \in 1 .. l : (points \o q)[k] = IF k <= n THEN points[k] ELSE q[k - n]
    BY <2>3, ConcatOf
  <2>5. QED
    BY <2>4 DEF l, q
<1> HIDE DEF flat, path
<1>11. flat[1] = points[1] /\ flat[n + 1] = points[1]
  <2>1. 1 \in 1 .. n + 1 /\ n + 1 \in 1 .. n + 1 /\ 1 <= n /\ ~(n + 1 <= n) /\ (n + 1) - n = 1
    BY <1>1
  <2>2. flat[1] = points[1]
    BY <1>10, <2>1
  <2>3. flat[n + 1] = <<points[1]>>[(n + 1) - n]
    BY <1>10, <2>1
  <2>4. QED
    BY <1>9, <2>1, <2>2, <2>3
<1> HIDE DEF n
<1>12. Len(flat) > 1 /\ Head(flat) = Last(flat)
  <2>1. Len(flat) > 1
    BY <1>1, <1>10
  <2>2. flat # <<>>
    BY <1>10, <2>1
  <2>3. Head(flat) = flat[1]
    BY <1>10, <2>2
  <2>4. Last(flat) = flat[n + 1]
    BY <1>10 DEF Last
  <2>5. QED
    BY <1>11, <2>1, <2>3, <2>4
<1>13. RingOf(flat) = SubSeq(flat, 1, n)
  <2>1. Len(flat) - 1 = n
    BY <1>1, <1>10
  <2>2. QED
    BY <1>12, <2>1 DEF RingOf, Front
<1>14. SubSeq(flat, 1, n) = points
  <2>1. /\ SubSeq(flat, 1, n) \in Seq(P) /\ Len(SubSeq(flat, 1, n)) = n
        /\ \A i \in 1 .. n : SubSeq(flat, 1, n)[i] = flat[i]
    BY <1>1, <1>10
  <2>2. \A i \in 1 .. n : flat[i] = points[i]
    <3>1. \A i \in 1 .. n : i \in 1 .. n + 1 /\ i <= n
      BY <1>1
    <3>2. QED
      BY <1>10, <3>1
  <2>3. Len(points) = n /\ points \in Seq(P)
    BY DEF n
  <2> DEFINE s == SubSeq(flat, 1, n)
  <2> HIDE DEF s
  <2>4. s \in Seq(P) /\ Len(s) = n /\ \A i \in 1 .. n : s[i] = points[i]
    BY <2>1, <2>2 DEF s
  <2>5. s = points
    BY <1>1, <2>3, <2>4
  <2>6. QED
    BY <2>5 DEF s
<1>15. QED
  BY <1>8, <1>13, <1>14 DEF Ring, path

\* Every subpath of the merged shape is a subpath there was, or a polygon of three
\* corners or more.
LEMMA MergeType ==
  ASSUME NEW compound \in Seq(Paths)
  PROVE  /\ MergeTinyIslands(compound) \in Seq(Paths)
         /\ Len(MergeTinyIslands(compound)) <= Len(compound)
         /\ \A i \in 1 .. Len(MergeTinyIslands(compound)) :
                \/ MergeTinyIslands(compound)[i] \in Range(compound)
                \/ Stout(MergeTinyIslands(compound)[i])
<1> DEFINE n == Len(compound)
           infos == ClassifySubpaths(compound)
           main == MainBody(infos)
<1>1. CASE compound = <<>>
  <2>1. Describes(infos, compound)
    BY Classified
  <2>2. infos = <<>>
    BY <1>1, <2>1 DEF Describes
  <2>3. MergeTinyIslands(compound) = compound
    BY <2>2 DEF MergeTinyIslands
  <2>4. Len(compound) = 0 /\ 1 .. 0 = {}
    BY <1>1
  <2> HIDE DEF infos
  <2>5. QED
    BY <2>3, <2>4
<1>2. CASE compound # <<>>
  <2>1. PICK m \in 1 .. n :
            /\ main = infos[m] /\ infos[m].index = m
            /\ \A j \in 1 .. n : infos[j].area <= infos[m].area
    BY <1>2, MainBodyType
  <2>2. PICK g : Merges(g, infos, compound, main)
    BY <1>2, MergesStepByStep
  <2>3. Describes(infos, compound)
    BY Classified
  <2> HIDE DEF infos, main, n
  <2>4. /\ n \in Nat /\ m \in 1 .. n /\ main.index = m
        /\ \A i \in 1 .. n : infos[i].index = i
        /\ main.ring \in Seq(Points) /\ (main.area > 0 => Len(main.ring) >= 3)
    BY <2>1, <2>3 DEF Describes, n
  <2>5. /\ g[0] = [kept |-> <<>>, ring |-> main.ring, merged |-> FALSE]
        /\ \A k \in 0 .. n : g[k] \in Gathered(compound, main)
        /\ \A k \in 1 .. n : Step(g[k - 1], g[k], infos[k], compound, main)
    BY <2>2 DEF Merges, n
  <2> DEFINE kept == g[n].kept
             body == IF g[n].merged THEN PolygonPath(g[n].ring, TRUE) ELSE compound[main.index]
  <2>6. MergeTinyIslands(compound) = <<body>> \o kept
    BY <2>2 DEF Merges, n
  <2>7. /\ kept \in Seq(Paths) /\ Range(kept) \subseteq Range(compound)
        /\ g[n].ring \in Seq(Points) /\ Len(g[n].ring) >= Len(main.ring)
        /\ g[n].merged => main.area > 0
    <3>1. g[n] \in Gathered(compound, main)
      BY <2>4, <2>5
    <3>2. QED
      BY <3>1 DEF Gathered
  <2>8. body \in Paths /\ (body \in Range(compound) \/ Stout(body))
    <3>1. CASE g[n].merged
      <4>1. Len(main.ring) >= 3 /\ Len(main.ring) \in Nat /\ Len(g[n].ring) \in Nat
        BY <2>4, <2>7, <3>1
      <4>2. Len(g[n].ring) >= 3
        BY <2>7, <4>1
      <4>3. g[n].ring # <<>>
        BY <4>2
      <4>4. /\ PolygonPath(g[n].ring, TRUE) \in Drawings(Points)
            /\ Len(PolygonPath(g[n].ring, TRUE).segments) = Len(g[n].ring)
        BY <2>7, <4>3, PolygonPathType
      <4>5. body = PolygonPath(g[n].ring, TRUE)
        BY <3>1
      <4> HIDE DEF body
      <4>6. QED
        BY <4>2, <4>4, <4>5, DrawingsOfPoints DEF Stout
    <3>2. CASE ~g[n].merged
      <4>1. body = compound[m] /\ m \in DOMAIN compound
        BY <2>4, <3>2 DEF n
      <4>2. compound[m] \in Range(compound) /\ compound[m] \in Paths
        BY <4>1 DEF Range
      <4> HIDE DEF body
      <4>3. QED
        BY <4>1, <4>2
    <3>3. QED
      BY <3>1, <3>2
  <2> HIDE DEF kept, body
  <2> DEFINE Short(k) == Len(g[k].kept) + (IF m <= k THEN 1 ELSE 0) <= k
             P == {k \in Nat : k <= n => Short(k)}
  <2>9. \A k \in 0 .. n : g[k].kept \in Seq(Paths) /\ Len(g[k].kept) \in Nat
    <3>1. ASSUME NEW k \in 0 .. n PROVE g[k].kept \in Seq(Paths)
      BY <2>5 DEF Gathered
    <3>2. QED
      BY <3>1
  <2>10. 0 \in P
    <3>1. Len(g[0].kept) = 0 /\ ~(m <= 0)
      BY <2>4, <2>5
    <3>2. QED
      BY <3>1
  <2>11. ASSUME NEW k \in Nat, k \in P PROVE k + 1 \in P
    <3>0. k + 1 \in Nat
      OBVIOUS
    <3>1. SUFFICES ASSUME k + 1 <= n PROVE Short(k + 1)
      BY <3>0
    <3>2. k + 1 \in 1 .. n /\ (k + 1) - 1 = k /\ k <= n /\ k \in 0 .. n /\ k + 1 \in 0 .. n
      BY <2>4, <3>1
    <3>3. Short(k)
      BY <2>11, <3>2
    <3>4. Step(g[k], g[k + 1], infos[k + 1], compound, main) /\ infos[k + 1].index = k + 1
      BY <2>4, <2>5, <3>2
    <3> DEFINE l == Len(g[k].kept)
               l1 == Len(g[k + 1].kept)
    <3>5. l \in Nat /\ l1 \in Nat
      BY <2>9, <3>2
    <3>6. IF k + 1 = m THEN l1 = l ELSE l1 <= l + 1
      <4>1. CASE k + 1 = m
        <5>1. g[k + 1] = g[k]
          BY <2>4, <3>4, <4>1 DEF Step
        <5>2. QED
          BY <4>1, <5>1
      <4>2. CASE k + 1 # m /\ Reaches(g[k], infos[k + 1])
        <5>1. g[k + 1].kept = g[k].kept
          BY <2>4, <3>4, <4>2 DEF Step
        <5>2. l1 = l
          BY <5>1
        <5> HIDE DEF l, l1
        <5>3. QED
          BY <3>5, <4>2, <5>2
      <4>3. CASE k + 1 # m /\ ~Reaches(g[k], infos[k + 1])
        <5>1. g[k + 1].kept = Append(g[k].kept, compound[infos[k + 1].index])
          BY <2>4, <3>4, <4>3 DEF Step
        <5>2. l1 = l + 1
          BY <2>9, <3>2, <5>1
        <5> HIDE DEF l, l1
        <5>3. QED
          BY <3>5, <4>3, <5>2
      <4>4. QED
        BY <4>1, <4>2, <4>3
    <3> HIDE DEF l, l1
    <3>7. l + (IF m <= k THEN 1 ELSE 0) <= k
      BY <3>3 DEF l
    <3>8. l1 + (IF m <= k + 1 THEN 1 ELSE 0) <= k + 1
      BY <2>4, <3>5, <3>6, <3>7
    <3>9. QED
      BY <3>8 DEF l1
  <2> HIDE DEF P
  <2>12. n \in P
    BY <2>4, <2>10, <2>11, Induction
  <2>13. Len(kept) + 1 <= n
    <3>1. Short(n) /\ m <= n
      BY <2>4, <2>12 DEF P
    <3>2. QED
      BY <3>1 DEF kept
  <2>14. /\ <<body>> \in Seq(Paths) /\ Len(<<body>>) = 1 /\ <<body>>[1] = body
    BY <2>8
  <2> DEFINE l == Len(kept)
             result == <<body>> \o kept
  <2>15. /\ result \in Seq(Paths) /\ Len(result) = 1 + l
         /\ \A i \in 1 .. 1 + l : result[i] = IF i <= 1 THEN <<body>>[i] ELSE kept[i - 1]
    <3> DEFINE b == <<body>>
               p == 1 + l
    <3>1. b \in Seq(Paths) /\ 1 = Len(b) /\ kept \in Seq(Paths)
      BY <2>7, <2>14
    <3>2. p = Len(b) + Len(kept)
      BY <3>1
    <3> HIDE DEF b, p
    <3> DEFINE h == Len(b)
    <3>3. h = Len(b)
      OBVIOUS
    <3> HIDE DEF h
    <3>4. /\ b \o kept \in Seq(Paths) /\ Len(b \o kept) = p
          /\ \A i \in 1 .. p : (b \o kept)[i] = IF i <= h THEN b[i] ELSE kept[i - h]
      BY <3>1, <3>2, <3>3, ConcatOf
    <3>5. h = 1
      BY <3>1, <3>3
    <3>6. QED
      BY <3>4, <3>5 DEF b, p
  <2>16. l \in Nat /\ \A j \in 1 .. l : kept[j] \in Range(compound)
    <3>1. l \in Nat /\ \A j \in 1 .. l : kept[j] \in Range(kept)
      BY <2>7 DEF Range
    <3>2. QED
      BY <2>7, <3>1
  <2> HIDE DEF l, result
  <2>17. ASSUME NEW i \in 1 .. 1 + l PROVE result[i] \in Range(compound) \/ Stout(result[i])
    <3>1. CASE i = 1
      BY <2>8, <2>14, <2>15, <3>1
    <3>2. CASE i # 1
      <4>1. ~(i <= 1) /\ i - 1 \in 1 .. l
        BY <2>16, <3>2
      <4>2. result[i] = kept[i - 1]
        BY <2>15, <4>1
      <4>3. QED
        BY <2>16, <4>1, <4>2
    <3>3. QED
      BY <3>1, <3>2
  <2>18. MergeTinyIslands(compound) = result
    BY <2>6 DEF result
  <2>19. 1 + l <= n
    BY <2>13, <2>16, <2>4 DEF l
  <2>20. QED
    BY <2>15, <2>17, <2>18, <2>19 DEF n
<1>3. QED
  BY <1>1, <1>2

-----------------------------------------------------------------------------
(* Rounded and widened outlines. *)

Trimmings(P) == P \cup [corner : P, toward : P]

LEMMA TrimmedType ==
  ASSUME NEW P, NEW a \in P, NEW b \in P
  PROVE  At(a) \in Trimmings(P) /\ Trimmed(a, b) \in Trimmings(P)
BY DEF At, Trimmed, Trimmings

LEMMA EndsType ==
  ASSUME NEW P, NEW path \in Drawings(P)
  PROVE  /\ Ends(path) \in Drawings(Trimmings(P)) /\ Ends(path).closed = path.closed
         /\ Stout(path) => Stout(Ends(path))
<1> DEFINE n == Len(path.segments)
           T == Trimmings(P)
           ends == [i \in DOMAIN path.segments |->
                       [path.segments[i] EXCEPT !.start = At(@), !.end = At(@)]]
<1>1. /\ path.segments \in Seq(Traces(P)) /\ path.closed \in BOOLEAN
      /\ n \in Nat /\ DOMAIN path.segments = 1 .. n
  BY DrawingParts
<1>2. Ends(path) = Path(ends, path.closed)
  BY DEF Ends
<1>3. ASSUME NEW i \in 1 .. n
      PROVE  ends[i] \in Traces(T) /\ ends[i].via = path.segments[i].via
  <2> DEFINE s == path.segments[i]
             a == At(s.start)
             b == At(s.end)
  <2>1. s \in Traces(P)
    BY <1>1
  <2>2. a \in T /\ b \in T
    BY <2>1, TraceParts, TrimmedType
  <2>3. ends[i] = [s EXCEPT !.start = At(@), !.end = At(@)]
    BY <1>1
  <2>4. [s EXCEPT !.start = At(@), !.end = At(@)] = [s EXCEPT !.start = a, !.end = b]
    <3> HIDE DEF s
    <3>1. QED
      BY <2>1 DEF Traces
  <2>5. s \in Traces(T)
    <3>1. s.via \in Seq(T) /\ s.start \in T /\ s.end \in T
      <4>1. P \subseteq T
        BY DEF Trimmings
      <4>2. s.via \in Seq(P) /\ s.start \in P /\ s.end \in P
        BY <2>1, TraceParts
      <4> HIDE DEF T, s
      <4>3. QED
        BY <4>1, <4>2
    <3> HIDE DEF T, s
    <3>2. QED
      BY <2>1, <3>1 DEF Traces
  <2> HIDE DEF s, a, b, T
  <2>6. /\ [s EXCEPT !.start = a, !.end = b] \in Traces(T)
        /\ [s EXCEPT !.start = a, !.end = b].via = s.via
    BY <2>2, <2>5 DEF Traces
  <2>7. ends[i] \in Traces(T) /\ ends[i].via = s.via
    BY <2>3, <2>4, <2>6
  <2>8. QED
    BY <2>7 DEF s
<1>4. ends = [i \in 1 .. n |-> ends[i]]
  BY <1>1
<1> HIDE DEF ends, T
<1>5. ends \in Seq(Traces(T)) /\ Len(ends) = n
  <2>1. ends \in [1 .. n -> Traces(T)]
    BY <1>3, <1>4
  <2> HIDE DEF n
  <2>2. QED
    BY <1>1, <1>4, <2>1
<1>6. /\ Path(ends, path.closed) \in Drawings(T) /\ Path(ends, path.closed).closed = path.closed
      /\ Path(ends, path.closed).segments = ends
  BY <1>1, <1>5 DEF Path, Drawings
<1>7. ASSUME Stout(path) PROVE Stout(Path(ends, path.closed))
  <2>1. n >= 3 \/ (n >= 2 /\ \E i \in 1 .. n : path.segments[i].via # <<>>)
    BY <1>7 DEF Stout
  <2>2. (\E i \in 1 .. n : path.segments[i].via # <<>>) => \E i \in 1 .. n : ends[i].via # <<>>
    BY <1>3
  <2>3. QED
    BY <1>5, <1>6, <2>1, <2>2 DEF Stout
<1>8. QED
  BY <1>2, <1>6, <1>7 DEF T

\* The segments that rounding makes of corner i and the edge out of it.
Corner(pts, i) ==
    IF i \in SharpCorners(pts) THEN <<Fillet(pts, i), RoundedEdge(pts, SharpCorners(pts), i)>>
                               ELSE <<RoundedEdge(pts, SharpCorners(pts), i)>>

Starts(path) == [i \in DOMAIN path.segments |-> path.segments[i].start]

Polygonal(path) == path.closed /\ Len(path.segments) >= 3 /\ AllLines(path)

LEMMA StartsType ==
  ASSUME NEW path \in Paths
  PROVE  /\ Starts(path) \in Seq(Points) /\ Len(Starts(path)) = Len(path.segments)
         /\ \A i \in 1 .. Len(path.segments) : Starts(path)[i] = path.segments[i].start
<1> DEFINE n == Len(path.segments)
           pts == Starts(path)
<1>1. /\ path.segments \in Seq(Segments) /\ n \in Nat /\ DOMAIN path.segments = 1 .. n
  BY PathParts
<1>2. pts = [i \in 1 .. n |-> path.segments[i].start]
  BY <1>1 DEF Starts
<1>3. \A i \in 1 .. n : path.segments[i].start \in Points
  BY <1>1, SegmentParts
<1> HIDE DEF n, pts
<1>4. pts \in [1 .. n -> Points]
  BY <1>2, <1>3
<1>5. pts \in Seq(Points) /\ Len(pts) = n /\ \A i \in 1 .. n : pts[i] = path.segments[i].start
  BY <1>1, <1>2, <1>4
<1>6. QED
  BY <1>5 DEF n, pts

LEMMA CornerType ==
  ASSUME NEW pts \in Seq(Points), NEW i \in 1 .. Len(pts)
  PROVE  /\ Corner(pts, i) \in Seq(Traces(Trimmings(Points))) /\ Corner(pts, i) # <<>>
         /\ i \in SharpCorners(pts) =>
                /\ Len(Corner(pts, i)) = 2 /\ Corner(pts, i)[1] = Fillet(pts, i)
                /\ Corner(pts, i)[2] = RoundedEdge(pts, SharpCorners(pts), i)
         /\ i \notin SharpCorners(pts) =>
                /\ Len(Corner(pts, i)) = 1
                /\ Corner(pts, i)[1] = RoundedEdge(pts, SharpCorners(pts), i)
         /\ Fillet(pts, i).start = TrimPoint(pts, i, Before(pts, i))
         /\ Fillet(pts, i).end = TrimPoint(pts, i, After(pts, i))
         /\ Fillet(pts, i).kind = "arc"
         /\ RoundedEdge(pts, SharpCorners(pts), i).kind = "line"
         /\ RoundedEdge(pts, SharpCorners(pts), i).start
                = IF i \in SharpCorners(pts) THEN TrimPoint(pts, i, After(pts, i)) ELSE At(pts[i])
         /\ RoundedEdge(pts, SharpCorners(pts), i).end
                = IF i + 1 \in SharpCorners(pts) THEN TrimPoint(pts, i + 1, pts[i])
                  ELSE At(After(pts, i))
<1> DEFINE n == Len(pts)
           sharp == SharpCorners(pts)
           T == Trimmings(Points)
           fillet == Fillet(pts, i)
           edge == RoundedEdge(pts, sharp, i)
<1>1. n \in Nat /\ DOMAIN pts = 1 .. n
  OBVIOUS
<1>2. sharp \subseteq 1 .. n
  BY <1>1 DEF SharpCorners
<1>3. \A k \in 1 .. n : pts[k] \in Points /\ After(pts, k) \in Points /\ Before(pts, k) \in Points
  BY <1>1, AfterIn, BeforeIn
<1>4. \A k \in 1 .. n : \A q \in Points : At(pts[k]) \in T /\ TrimPoint(pts, k, q) \in T
  BY <1>3, TrimmedType DEF TrimPoint
<1>5. At(After(pts, i)) \in T
  BY <1>3, TrimmedType
<1> DEFINE a == TrimPoint(pts, i, Before(pts, i))
           b == TrimPoint(pts, i, After(pts, i))
           c == IF i \in sharp THEN TrimPoint(pts, i, After(pts, i)) ELSE At(pts[i])
           d == IF i + 1 \in sharp THEN TrimPoint(pts, i + 1, pts[i]) ELSE At(After(pts, i))
<1>6. fillet = Curve("arc", a, <<>>, b) /\ edge = Line(c, d)
  BY DEF Fillet, RoundedEdge
<1>7. a \in T /\ b \in T /\ c \in T /\ d \in T
  BY <1>2, <1>3, <1>4, <1>5
<1> HIDE DEF T, a, b, c, d, sharp, fillet, edge
<1>8. <<>> \in Seq(T)
  OBVIOUS
<1>9. /\ fillet \in Traces(T) /\ fillet.start = a /\ fillet.end = b /\ fillet.kind = "arc"
      /\ edge \in Traces(T) /\ edge.start = c /\ edge.end = d /\ edge.kind = "line"
  BY <1>6, <1>7, <1>8 DEF Curve, Line, Traces
<1>10. Corner(pts, i) = IF i \in sharp THEN <<fillet, edge>> ELSE <<edge>>
  BY DEF Corner, sharp, fillet, edge
<1>11. /\ <<fillet, edge>> \in Seq(Traces(T)) /\ <<edge>> \in Seq(Traces(T))
       /\ <<fillet, edge>> # <<>> /\ <<edge>> # <<>>
       /\ Len(<<fillet, edge>>) = 2 /\ Len(<<edge>>) = 1
       /\ <<fillet, edge>>[1] = fillet /\ <<fillet, edge>>[2] = edge /\ <<edge>>[1] = edge
  BY <1>9
<1>12. /\ Corner(pts, i) \in Seq(Traces(T)) /\ Corner(pts, i) # <<>>
       /\ i \in sharp => /\ Len(Corner(pts, i)) = 2 /\ Corner(pts, i)[1] = fillet
                         /\ Corner(pts, i)[2] = edge
       /\ i \notin sharp => Len(Corner(pts, i)) = 1 /\ Corner(pts, i)[1] = edge
  BY <1>10, <1>11
<1>13. QED
  BY <1>9, <1>12 DEF T, a, b, c, d, sharp, fillet, edge

LEMMA RoundParts ==
  ASSUME NEW path \in Paths, Polygonal(path)
  PROVE  LET parts == [i \in 1 .. Len(path.segments) |-> Corner(Starts(path), i)]
         IN  /\ RoundPath(path) = Path(FlattenSeq(parts), TRUE)
             /\ RoundPath(path).segments = FlattenSeq(parts)
             /\ FlattenSeq(parts) \in Seq(Traces(Trimmings(Points)))
             /\ Len(FlattenSeq(parts)) >= Len(path.segments)
             /\ FlattenSeq(parts) # <<>>
             /\ Head(FlattenSeq(parts)) = Head(parts[1])
             /\ Last(FlattenSeq(parts)) = Last(parts[Len(path.segments)])
<1> DEFINE n == Len(path.segments)
           pts == Starts(path)
           T == Trimmings(Points)
           parts == [i \in 1 .. n |-> Corner(pts, i)]
<1>1. n \in Nat /\ n >= 3 /\ pts \in Seq(Points) /\ Len(pts) = n
  BY PathParts, StartsType DEF Polygonal
<1>2. RoundPath(path) = Path(FlattenSeq(parts), TRUE)
  <2>1. path.closed /\ Len(pts) >= 3 /\ AllLines(path)
    BY <1>1 DEF Polygonal
  <2> DEFINE long == [i \in 1 .. Len(pts) |->
                         IF i \in SharpCorners(pts)
                         THEN <<Fillet(pts, i), RoundedEdge(pts, SharpCorners(pts), i)>>
                         ELSE <<RoundedEdge(pts, SharpCorners(pts), i)>>]
  <2>2. RoundPath(path) = Path(FlattenSeq(long), TRUE)
    BY <2>1 DEF RoundPath, Starts
  <2>3. long = parts
    BY <1>1 DEF Corner
  <2> HIDE DEF long, parts
  <2>4. QED
    BY <2>2, <2>3
<1>3. Path(FlattenSeq(parts), TRUE).segments = FlattenSeq(parts)
  BY DEF Path
<1>4. ASSUME NEW i \in 1 .. n
      PROVE  parts[i] \in Seq(Traces(T)) /\ parts[i] # <<>>
  BY <1>1, CornerType
<1>5. parts = [i \in 1 .. n |-> parts[i]]
  OBVIOUS
<1> DEFINE Q == Traces(T)
<1> HIDE DEF parts, n, Q
<1>6. n \in Nat /\ n # 0
  BY <1>1
<1>7. \A i \in 1 .. n : parts[i] \in Seq(Q) /\ parts[i] # <<>>
  BY <1>4 DEF Q
<1>8. /\ Len(FlattenSeq(parts)) >= n
      /\ FlattenSeq(parts) \in Seq(Q) /\ FlattenSeq(parts) # <<>>
      /\ Head(FlattenSeq(parts)) = Head(parts[1])
      /\ Last(FlattenSeq(parts)) = Last(parts[n])
  BY <1>5, <1>6, <1>7, FlattenSeqLength, FlattenSeqEnds
<1>9. QED
  BY <1>2, <1>3, <1>8 DEF parts, Q, n

LEMMA RoundPathType ==
  ASSUME NEW path \in Paths
  PROVE  /\ RoundPath(path) \in Drawings(Trimmings(Points))
         /\ Stout(path) => Stout(RoundPath(path))
<1> DEFINE n == Len(path.segments)
           T == Trimmings(Points)
<1>1. n \in Nat /\ path.closed \in BOOLEAN
  BY PathParts
<1>2. CASE Polygonal(path)
  <2> DEFINE s == FlattenSeq([i \in 1 .. Len(path.segments) |-> Corner(Starts(path), i)])
  <2>1. /\ RoundPath(path) = Path(s, TRUE) /\ RoundPath(path).segments = s
        /\ s \in Seq(Traces(T)) /\ Len(s) >= n
    BY <1>2, RoundParts
  <2> HIDE DEF s, T
  <2>2. Path(s, TRUE) \in Drawings(T)
    BY <2>1 DEF Path, Drawings
  <2>3. Len(s) >= 3
    <3>1. n >= 3 /\ Len(s) \in Nat
      BY <1>2, <2>1 DEF Polygonal
    <3> HIDE DEF n
    <3>2. QED
      BY <1>1, <2>1, <3>1
  <2>4. Stout(RoundPath(path))
    BY <2>1, <2>3 DEF Stout
  <2>5. QED
    BY <2>1, <2>2, <2>4 DEF T
<1>3. CASE ~Polygonal(path)
  <2>1. RoundPath(path) = Ends(path)
    <3>1. Len(Starts(path)) = n
      BY StartsType
    <3>2. ~(path.closed /\ Len(Starts(path)) >= 3 /\ AllLines(path))
      BY <1>3, <3>1 DEF Polygonal
    <3>3. QED
      BY <3>2 DEF RoundPath, Starts
  <2>2. path \in Drawings(Points)
    BY DrawingsOfPoints
  <2>3. /\ Ends(path) \in Drawings(Trimmings(Points))
        /\ Stout(path) => Stout(Ends(path))
    BY <2>2, EndsType
  <2>4. QED
    BY <2>1, <2>3
<1>4. QED
  BY <1>2, <1>3

\* Widening leaves an outline as it is, or makes it a polygon of four corners or more.
LEMMA WidenPathType ==
  ASSUME NEW P, NEW path \in Drawings(P), Stout(path)
  PROVE  Offsettable(WidenPath(path))
<1> DEFINE pts == [i \in DOMAIN path.segments |-> path.segments[i].start.corner]
           neck == MinSelfDistance(pts)
           narrow == /\ path.closed /\ Len(pts) >= 4 /\ AllLines(path)
                     /\ 0 < neck.distance /\ neck.distance < 10 * MinBridgeWidth
           wide == Widened(pts, neck)
           V == Range(wide)
<1>1. CASE ~narrow
  <2>1. WidenPath(path) = path
    BY <1>1 DEF WidenPath
  <2>2. QED
    BY <2>1, StoutFlattens
<1>2. CASE narrow
  <2>1. WidenPath(path) = Ends(PolygonPath(wide, TRUE))
    BY <1>2 DEF WidenPath
  <2>2. /\ Len(path.segments) \in Nat /\ pts = [i \in 1 .. Len(path.segments) |-> pts[i]]
        /\ DOMAIN pts = 1 .. Len(path.segments)
    <3>1. DOMAIN path.segments = 1 .. Len(path.segments) /\ Len(path.segments) \in Nat
      BY DrawingParts
    <3>2. QED
      BY <3>1
  <2>3. Len(pts) >= 4 /\ Len(pts) = Len(path.segments)
    <3>1. Len(pts) >= 4
      BY <1>2
    <3> HIDE DEF pts
    <3>2. QED
      BY <2>2, <3>1
  <2> DEFINE n == Len(path.segments)
  <2> HIDE DEF n, pts, neck
  <2>4. DOMAIN wide = 1 .. n
    BY <2>2 DEF Widened, PushedApart, n
  <2>5. wide = [i \in 1 .. n |-> wide[i]]
    BY <2>2, <2>4 DEF Widened, PushedApart, n
  <2>6. n \in Nat /\ n >= 4
    BY <2>2, <2>3 DEF n
  <2>7. wide \in Seq(V) /\ Len(wide) = n /\ wide # <<>>
    <3>1. wide \in [1 .. n -> V]
      BY <2>4, <2>5 DEF Range
    <3> HIDE DEF wide, V
    <3>2. wide \in Seq(V) /\ Len(wide) = n
      BY <2>4, <2>6, <3>1
    <3>3. QED
      BY <2>6, <3>2
  <2> HIDE DEF wide, V
  <2> DEFINE polygon == PolygonPath(wide, TRUE)
  <2>8. polygon \in Drawings(V) /\ Len(polygon.segments) = n
    BY <2>7, PolygonPathType
  <2> HIDE DEF polygon
  <2>9. Stout(polygon)
    BY <2>6, <2>8 DEF Stout
  <2>10. Ends(polygon) \in Drawings(Trimmings(V)) /\ Stout(Ends(polygon))
    BY <2>8, <2>9, EndsType
  <2>11. Offsettable(Ends(polygon))
    BY <2>10, StoutFlattens
  <2>12. QED
    BY <2>1, <2>11 DEF polygon
<1>3. QED
  BY <1>1, <1>2

-----------------------------------------------------------------------------
(* The run: every version is what its stage makes of the version before.   *)

\* The stages that follow the one which makes a version.
Cleaned == stage \notin {"validate", "mend", "warn", "clean"}
BridgesWidened == stage \in {"dies", "made", "failed"}

RepairInv ==
    /\ stage \in Stages /\ artwork \in Artworks
    /\ issues = IF stage = "validate" THEN <<>> ELSE ValidateCompound(artwork)
    /\ mended = IF Mended THEN RepairGeometry(artwork) ELSE <<>>
    /\ warnings = IF stage \in {"validate", "mend", "warn"} THEN {}
                  ELSE ManufacturingWarnings(mended)
    /\ cleaned = IF Cleaned THEN RemoveTinyHoles(mended) ELSE <<>>
    /\ merged = IF Merged THEN MergeTinyIslands(cleaned) ELSE <<>>
    /\ rounded = IF Rounded THEN RoundSharpCorners(merged) ELSE <<>>
    /\ repaired = IF BridgesWidened THEN WidenWeakBridges(rounded) ELSE <<>>
    /\ stage = "failed" => ~GenerateDieSucceeds(repaired)

LEMMA RepairInit == Init => RepairInv
BY DEF Init, RepairInv, Stages, Mended, Cleaned, Merged, Rounded, BridgesWidened

LEMMA RepairStep == RepairInv /\ [Next]_vars => RepairInv'
<1> SUFFICES ASSUME RepairInv, [Next]_vars PROVE RepairInv'
  OBVIOUS
<1> USE DEF RepairInv, Stages, Mended, Cleaned, Merged, Rounded, BridgesWidened, Advance
<1>1. CASE ValidateStructure
  BY <1>1 DEF ValidateStructure
<1>2. CASE MendGeometry
  BY <1>2 DEF MendGeometry
<1>3. CASE ValidateManufacturing
  BY <1>3 DEF ValidateManufacturing
<1>4. CASE CleanHoles
  BY <1>4 DEF CleanHoles
<1>5. CASE MergeIslands
  BY <1>5 DEF MergeIslands
<1>6. CASE RoundCorners
  BY <1>6 DEF RoundCorners
<1>7. CASE WidenBridges
  BY <1>7 DEF WidenBridges
<1>8. CASE GenerateDies
  BY <1>8 DEF GenerateDies
<1>9. CASE UNCHANGED vars
  BY <1>9 DEF vars
<1>10. QED
  BY <1>1, <1>2, <1>3, <1>4, <1>5, <1>6, <1>7, <1>8, <1>9 DEF Next

\* Every version of the artwork is its initial, empty one or what its stage has made of
\* the version before (orchestrator.py's run_pipeline).
THEOREM RepairInvariance == Spec => []RepairInv
<1>1. Init => RepairInv
  BY RepairInit
<1>2. RepairInv /\ [Next]_vars => RepairInv'
  BY RepairStep
<1>3. QED
  BY <1>1, <1>2, PTL DEF Spec

-----------------------------------------------------------------------------
(* Type correctness. *)

LEMMA MendedType ==
  ASSUME NEW compound \in Seq(Paths)
  PROVE  /\ RepairGeometry(compound) \in Seq(Paths)
         /\ Len(RepairGeometry(compound)) = Len(compound)
         /\ \A i \in 1 .. Len(compound) :
                /\ RepairGeometry(compound)[i] = RepairPath(compound[i])
                /\ compound[i] \in Paths
<1> DEFINE n == Len(compound)
           g == RepairGeometry(compound)
<1>1. n \in Nat /\ DOMAIN compound = 1 .. n /\ \A i \in 1 .. n : compound[i] \in Paths
  OBVIOUS
<1>2. g = [i \in 1 .. n |-> RepairPath(compound[i])]
  BY <1>1 DEF RepairGeometry
<1>3. \A i \in 1 .. n : RepairPath(compound[i]) \in Paths
  BY <1>1, RepairPathType
<1> HIDE DEF n, g
<1>4. g \in [1 .. n -> Paths]
  BY <1>2, <1>3
<1>5. g \in Seq(Paths) /\ Len(g) = n /\ \A i \in 1 .. n : g[i] = RepairPath(compound[i])
  BY <1>1, <1>2, <1>4
<1>6. QED
  BY <1>1, <1>5 DEF n, g

\* remove_tiny_holes keeps some of the subpaths.
LEMMA HolesRemovedType ==
  ASSUME NEW compound \in Seq(Paths)
  PROVE  /\ RemoveTinyHoles(compound) \in Seq(Paths)
         /\ Len(RemoveTinyHoles(compound)) <= Len(compound)
         /\ Range(RemoveTinyHoles(compound)) \subseteq Range(compound)
<1> DEFINE infos == ClassifySubpaths(compound)
           I == {i \in DOMAIN infos : ~(infos[i].hole /\ Tiny(infos[i]))}
<1>1. RemoveTinyHoles(compound) = Selected(compound, I)
  BY DEF RemoveTinyHoles
<1> HIDE DEF I
<1>2. /\ Selected(compound, I) \in Seq(Paths)
      /\ Len(Selected(compound, I)) <= Len(compound)
      /\ Range(Selected(compound, I)) = {compound[i] : i \in I \cap 1 .. Len(compound)}
  BY SelectedType
<1>3. {compound[i] : i \in I \cap 1 .. Len(compound)} \subseteq Range(compound)
  BY DEF Range
<1>4. QED
  BY <1>1, <1>2, <1>3

LEMMA RoundedType ==
  ASSUME NEW compound \in Seq(Paths)
  PROVE  /\ DOMAIN RoundSharpCorners(compound) = 1 .. Len(compound)
         /\ Len(RoundSharpCorners(compound)) = Len(compound)
         /\ RoundSharpCorners(compound) \in Seq(Drawings(Trimmings(Points)))
         /\ \A k \in 1 .. Len(compound) :
                RoundSharpCorners(compound)[k] = RoundPath(compound[k])
<1> DEFINE n == Len(compound)
           g == RoundSharpCorners(compound)
           D == Drawings(Trimmings(Points))
<1>1. n \in Nat /\ DOMAIN compound = 1 .. n /\ \A i \in 1 .. n : compound[i] \in Paths
  OBVIOUS
<1>2. g = [i \in 1 .. n |-> RoundPath(compound[i])]
  BY <1>1 DEF RoundSharpCorners
<1>3. \A i \in 1 .. n : RoundPath(compound[i]) \in D
  BY <1>1, RoundPathType
<1> HIDE DEF n, g, D
<1>4. g \in [1 .. n -> D]
  BY <1>2, <1>3
<1>5. g \in Seq(D) /\ Len(g) = n /\ DOMAIN g = 1 .. n
      /\ \A i \in 1 .. n : g[i] = RoundPath(compound[i])
  BY <1>1, <1>2, <1>4
<1>6. QED
  BY <1>5 DEF n, g, D

LEMMA WidenedType ==
  ASSUME NEW D, NEW compound \in Seq(D)
  PROVE  /\ DOMAIN WidenWeakBridges(compound) = 1 .. Len(compound)
         /\ Len(WidenWeakBridges(compound)) = Len(compound)
         /\ \A k \in 1 .. Len(compound) :
                WidenWeakBridges(compound)[k] = WidenPath(compound[k])
<1> DEFINE n == Len(compound)
           g == WidenWeakBridges(compound)
           V == Range(g)
<1>1. n \in Nat /\ DOMAIN compound = 1 .. n
  OBVIOUS
<1>2. g = [i \in 1 .. n |-> WidenPath(compound[i])]
  BY <1>1 DEF WidenWeakBridges
<1> HIDE DEF n, g
<1>3. \A i \in 1 .. n : g[i] \in V
  BY <1>2 DEF Range
<1>4. g \in [1 .. n -> V]
  BY <1>2, <1>3
<1>5. Len(g) = n /\ DOMAIN g = 1 .. n /\ \A i \in 1 .. n : g[i] = WidenPath(compound[i])
  BY <1>1, <1>2, <1>4
<1>6. QED
  BY <1>5 DEF n, g

\* Each version of an artwork is one of the artwork before, and none has more subpaths.
LEMMA Versions ==
  ASSUME RepairInv
  PROVE  /\ artwork \in Seq(Paths)
         /\ mended \in Seq(Paths) /\ Len(mended) <= Len(artwork)
         /\ cleaned \in Seq(Paths) /\ Len(cleaned) <= Len(mended)
         /\ Range(cleaned) \subseteq Range(mended)
         /\ merged \in Seq(Paths) /\ Len(merged) <= Len(cleaned)
         /\ rounded \in Seq(Drawings(Trimmings(Points))) /\ Len(rounded) <= Len(merged)
         /\ Len(repaired) \in Nat /\ Len(repaired) <= Len(rounded)
<1> DEFINE D == Drawings(Trimmings(Points))
<1>1. artwork \in Seq(Paths)
  BY ArtworksAssumption DEF RepairInv
<1>2. \A S : <<>> \in Seq(S) /\ Len(<<>>) = 0 /\ Range(<<>>) = {}
  BY DEF Range
<1>3. \A S : \A s \in Seq(S) : Len(s) \in Nat /\ Len(<<>>) <= Len(s)
  BY <1>2
<1>4. mended \in Seq(Paths) /\ Len(mended) <= Len(artwork)
  <2>1. CASE Mended
    <3>1. mended = RepairGeometry(artwork)
      BY <2>1 DEF RepairInv
    <3>2. Len(RepairGeometry(artwork)) <= Len(artwork)
      BY <1>1, <1>3, MendedType
    <3>3. QED
      BY <1>1, <3>1, <3>2, MendedType
  <2>2. CASE ~Mended
    <3>1. mended = <<>>
      BY <2>2 DEF RepairInv
    <3>2. QED
      BY <1>1, <1>2, <1>3, <3>1
  <2>3. QED
    BY <2>1, <2>2
<1>5. /\ cleaned \in Seq(Paths) /\ Len(cleaned) <= Len(mended)
      /\ Range(cleaned) \subseteq Range(mended)
  <2>1. CASE Cleaned
    <3>1. cleaned = RemoveTinyHoles(mended)
      BY <2>1 DEF RepairInv
    <3>2. QED
      BY <1>4, <3>1, HolesRemovedType
  <2>2. CASE ~Cleaned
    <3>1. cleaned = <<>>
      BY <2>2 DEF RepairInv
    <3>2. QED
      BY <1>2, <1>3, <1>4, <3>1
  <2>3. QED
    BY <2>1, <2>2
<1>6. merged \in Seq(Paths) /\ Len(merged) <= Len(cleaned)
  <2>1. CASE Merged
    <3>1. merged = MergeTinyIslands(cleaned)
      BY <2>1 DEF RepairInv
    <3>2. QED
      BY <1>5, <3>1, MergeType
  <2>2. CASE ~Merged
    <3>1. merged = <<>>
      BY <2>2 DEF RepairInv
    <3>2. QED
      BY <1>2, <1>3, <1>5, <3>1
  <2>3. QED
    BY <2>1, <2>2
<1>7. rounded \in Seq(D) /\ Len(rounded) <= Len(merged)
  <2>1. CASE Rounded
    <3>1. rounded = RoundSharpCorners(merged)
      BY <2>1 DEF RepairInv
    <3>2. Len(RoundSharpCorners(merged)) <= Len(merged)
      BY <1>3, <1>6, RoundedType
    <3>3. QED
      BY <1>6, <3>1, <3>2, RoundedType
  <2>2. CASE ~Rounded
    <3>1. rounded = <<>>
      BY <2>2 DEF RepairInv
    <3>2. QED
      BY <1>2, <1>3, <1>6, <3>1
  <2>3. QED
    BY <2>1, <2>2
<1> HIDE DEF D
<1>8. Len(repaired) \in Nat /\ Len(repaired) <= Len(rounded)
  <2>1. Len(rounded) \in Nat /\ Len(<<>>) \in Nat /\ Len(<<>>) <= Len(rounded)
    BY <1>2, <1>3, <1>7
  <2>2. CASE BridgesWidened
    <3>1. repaired = WidenWeakBridges(rounded)
      BY <2>2 DEF RepairInv
    <3>2. Len(repaired) = Len(rounded)
      BY <1>7, <3>1, WidenedType
    <3>3. QED
      BY <2>1, <3>2
  <2>3. CASE ~BridgesWidened
    <3>1. repaired = <<>>
      BY <2>3 DEF RepairInv
    <3>2. QED
      BY <2>1, <3>1
  <2>4. QED
    BY <2>2, <2>3
<1>9. QED
  BY <1>1, <1>4, <1>5, <1>6, <1>7, <1>8 DEF D

\* A subpath's warnings name its place in the compound path.
LEMMA WarningsType ==
  ASSUME NEW compound \in Seq(Paths)
  PROVE  \A w \in ManufacturingWarnings(compound) : w[2] \in DOMAIN compound
<1> DEFINE infos == ClassifySubpaths(compound)
<1>1. DOMAIN compound = 1 .. Len(compound)
  OBVIOUS
<1>2. \A info \in Range(infos) : info.index \in 1 .. Len(compound)
  <2>1. Describes(infos, compound)
    BY Classified
  <2> HIDE DEF infos
  <2>2. QED
    BY <2>1 DEF Describes
<1>3. ASSUME NEW w \in ManufacturingWarnings(compound)
      PROVE  \E info \in Range(infos) : w[2] = info.index
  BY DEF ManufacturingWarnings
<1>4. QED
  BY <1>1, <1>2, <1>3

LEMMA ValidationType ==
  ASSUME NEW compound \in Seq(Paths)
  PROVE  /\ ValidateCompound(compound) \in Seq(SUBSET IssueTypes)
         /\ DOMAIN ValidateCompound(compound) = 1 .. Len(compound)
         /\ \A i \in 1 .. Len(compound) :
                ValidateCompound(compound)[i] = ValidatePath(compound[i])
<1> DEFINE n == Len(compound)
           g == ValidateCompound(compound)
<1>1. n \in Nat /\ DOMAIN compound = 1 .. n
  OBVIOUS
<1>2. g = [i \in 1 .. n |-> ValidatePath(compound[i])]
  BY <1>1 DEF ValidateCompound
<1>3. ASSUME NEW path PROVE ValidatePath(path) \subseteq IssueTypes
  BY DEF ValidatePath, IssueTypes
<1>4. \A i \in 1 .. n : ValidatePath(compound[i]) \in SUBSET IssueTypes
  BY <1>3
<1> HIDE DEF n, g
<1>5. g \in [1 .. n -> SUBSET IssueTypes]
  BY <1>2, <1>4
<1>6. /\ g \in Seq(SUBSET IssueTypes) /\ DOMAIN g = 1 .. n
      /\ \A i \in 1 .. n : g[i] = ValidatePath(compound[i])
  BY <1>1, <1>2, <1>5
<1>7. QED
  BY <1>6 DEF n, g

LEMMA RepairInvTypes == RepairInv => TypeOK
<1> SUFFICES ASSUME RepairInv PROVE TypeOK
  OBVIOUS
<1>1. artwork \in Seq(Paths)
  BY Versions
<1>2. issues \in Seq(SUBSET IssueTypes)
  <2>1. CASE stage = "validate"
    <3>1. issues = <<>>
      BY <2>1 DEF RepairInv
    <3>2. QED
      BY <3>1, EmptySeq
  <2>2. CASE stage # "validate"
    <3>1. issues = ValidateCompound(artwork)
      BY <2>2 DEF RepairInv
    <3>2. QED
      BY <1>1, <3>1, ValidationType
  <2>3. QED
    BY <2>1, <2>2
<1>3. \A i \in DOMAIN mended : mended[i].closed = artwork[i].closed
  <2>1. CASE Mended
    <3>1. mended = RepairGeometry(artwork)
      BY <2>1 DEF RepairInv
    <3>2. /\ RepairGeometry(artwork) \in Seq(Paths)
          /\ Len(RepairGeometry(artwork)) = Len(artwork)
          /\ \A i \in 1 .. Len(artwork) :
                 /\ RepairGeometry(artwork)[i] = RepairPath(artwork[i])
                 /\ artwork[i] \in Paths
      BY <1>1, MendedType
    <3>3. DOMAIN mended = 1 .. Len(artwork)
      BY <3>1, <3>2
    <3>4. QED
      BY <3>1, <3>2, <3>3, RepairPathType
  <2>2. CASE ~Mended
    <3>1. mended = <<>>
      BY <2>2 DEF RepairInv
    <3>2. QED
      BY <3>1
  <2>3. QED
    BY <2>1, <2>2
<1>4. \A w \in warnings : w[2] \in DOMAIN mended
  <2>1. warnings = {} \/ warnings = ManufacturingWarnings(mended)
    BY DEF RepairInv
  <2>2. mended \in Seq(Paths)
    BY Versions
  <2>3. QED
    BY <2>1, <2>2, WarningsType
<1>5. {Len(c) : c \in {cleaned, merged, rounded, repaired}} \subseteq 0 .. Len(artwork)
  <2> DEFINE a == Len(artwork)
             m == Len(mended)
             l1 == Len(cleaned)
             l2 == Len(merged)
             l3 == Len(rounded)
             l4 == Len(repaired)
  <2>1. /\ a \in Nat /\ m \in Nat /\ l1 \in Nat /\ l2 \in Nat /\ l3 \in Nat /\ l4 \in Nat
        /\ m <= a /\ l1 <= m /\ l2 <= l1 /\ l3 <= l2 /\ l4 <= l3
    BY Versions
  <2> HIDE DEF a, m, l1, l2, l3, l4
  <2>2. l1 \in 0 .. a /\ l2 \in 0 .. a /\ l3 \in 0 .. a /\ l4 \in 0 .. a
    BY <2>1
  <2>3. QED
    BY <2>2 DEF a, l1, l2, l3, l4
<1>6. QED
  BY <1>2, <1>3, <1>4, <1>5 DEF RepairInv, TypeOK

\* The versions keep their shape: repair keeps each subpath's closed flag, warnings are
\* about subpaths there are, and no pass of repair_manufacturing adds a subpath.
THEOREM RepairTypes == Spec => []TypeOK
<1>1. RepairInv => TypeOK
  BY RepairInvTypes
<1>2. QED
  BY <1>1, RepairInvariance, PTL

-----------------------------------------------------------------------------
(* Sound artwork gets its dies: a sound path is stout, and stays stout     *)
(* through every pass, until the offset takes its ring.                    *)

LEMMA SoundGetsDies ==
  ASSUME RepairInv, stage = "failed", \A i \in 1 .. Len(artwork) : Sound(artwork[i])
  PROVE  GenerateDieSucceeds(repaired)
<1> DEFINE D == Drawings(Trimmings(Points))
<1>1. /\ mended = RepairGeometry(artwork) /\ cleaned = RemoveTinyHoles(mended)
      /\ merged = MergeTinyIslands(cleaned) /\ rounded = RoundSharpCorners(merged)
      /\ repaired = WidenWeakBridges(rounded)
  BY DEF RepairInv, Mended, Cleaned, Merged, Rounded, BridgesWidened
<1>2. /\ artwork \in Seq(Paths) /\ mended \in Seq(Paths)
      /\ cleaned \in Seq(Paths) /\ Range(cleaned) \subseteq Range(mended)
      /\ merged \in Seq(Paths) /\ rounded \in Seq(D)
  BY Versions
<1>3. \A i \in 1 .. Len(mended) : Stout(mended[i])
  <2>1. /\ Len(RepairGeometry(artwork)) = Len(artwork)
        /\ \A i \in 1 .. Len(artwork) :
               /\ RepairGeometry(artwork)[i] = RepairPath(artwork[i])
               /\ artwork[i] \in Paths
    BY <1>2, MendedType
  <2>2. \A i \in 1 .. Len(artwork) : Stout(RepairPath(artwork[i]))
    BY <2>1, RepairPathType
  <2>3. QED
    BY <1>1, <2>1, <2>2
<1>4. \A path \in Range(cleaned) : Stout(path)
  <2>1. DOMAIN mended = 1 .. Len(mended)
    BY <1>2
  <2>2. \A path \in Range(mended) : \E i \in 1 .. Len(mended) : path = mended[i]
    BY <2>1 DEF Range
  <2>3. QED
    BY <1>2, <1>3, <2>2
<1>5. \A i \in 1 .. Len(merged) : Stout(merged[i]) /\ merged[i] \in Paths
  <2>1. \A i \in 1 .. Len(MergeTinyIslands(cleaned)) :
            \/ MergeTinyIslands(cleaned)[i] \in Range(cleaned)
            \/ Stout(MergeTinyIslands(cleaned)[i])
    BY <1>2, MergeType
  <2>2. \A i \in 1 .. Len(merged) : merged[i] \in Paths
    BY <1>2
  <2>3. QED
    BY <1>1, <1>4, <2>1, <2>2
<1>6. /\ Len(rounded) = Len(merged)
      /\ \A k \in 1 .. Len(merged) : rounded[k] = RoundPath(merged[k])
  BY <1>1, <1>2, RoundedType
<1>7. \A k \in 1 .. Len(rounded) : Stout(rounded[k]) /\ rounded[k] \in D
  BY <1>5, <1>6, RoundPathType
<1>8. /\ DOMAIN repaired = 1 .. Len(rounded)
      /\ \A k \in 1 .. Len(rounded) : repaired[k] = WidenPath(rounded[k])
  <2> HIDE DEF D
  <2>1. QED
    BY <1>1, <1>2, WidenedType
<1>9. \A k \in 1 .. Len(rounded) : Offsettable(WidenPath(rounded[k]))
  BY <1>7, WidenPathType
<1>10. QED
  BY <1>8, <1>9 DEF GenerateDieSucceeds

\* Only artwork the structural validation has reported, or with a path that does not
\* exactly return to its start, can fail in offset_points (offset.py:73): whatever sound
\* artwork looks like, repair leaves each of its subpaths three corners or more.
THEOREM SoundArtworkIsDied == Spec => []SoundArtworkGetsDies
<1>1. RepairInv => SoundArtworkGetsDies
  <2> SUFFICES ASSUME RepairInv, stage = "failed",
                      \A i \in DOMAIN artwork : issues[i] = {} /\ Returns(artwork[i])
               PROVE  FALSE
    BY DEF SoundArtworkGetsDies
  <2>1. artwork \in Seq(Paths)
    BY Versions
  <2>2. DOMAIN artwork = 1 .. Len(artwork)
    BY <2>1
  <2>3. issues = ValidateCompound(artwork)
    BY DEF RepairInv
  <2>4. \A i \in 1 .. Len(artwork) : ValidateCompound(artwork)[i] = ValidatePath(artwork[i])
    BY <2>1, ValidationType
  <2>5. \A i \in 1 .. Len(artwork) : Sound(artwork[i])
    BY <2>2, <2>3, <2>4 DEF Sound
  <2>6. GenerateDieSucceeds(repaired)
    BY <2>5, SoundGetsDies
  <2>7. ~GenerateDieSucceeds(repaired)
    BY DEF RepairInv
  <2>8. QED
    BY <2>6, <2>7
<1>2. QED
  BY <1>1, RepairInvariance, PTL

-----------------------------------------------------------------------------
(* Where a rounded outline gapes. *)

Chained(segments) ==
    \A i \in 1 .. Len(segments) - 1 : segments[i].end = segments[i + 1].start

LEMMA ChainedConcat ==
  ASSUME NEW S, NEW s \in Seq(S), NEW t \in Seq(S), s # <<>>, t # <<>>,
         Chained(s), Chained(t), Last(s).end = Head(t).start
  PROVE  Chained(s \o t)
<1> DEFINE m == Len(s)
           n == Len(t)
           r == s \o t
<1>1. /\ m \in Nat \ {0} /\ n \in Nat \ {0} /\ Len(r) = m + n
      /\ \A k \in 1 .. m + n : r[k] = IF k <= m THEN s[k] ELSE t[k - m]
  BY ConcatElements
<1>2. s[m].end = t[1].start
  BY DEF Last
<1>3. /\ \A i \in 1 .. m - 1 : s[i].end = s[i + 1].start
      /\ \A i \in 1 .. n - 1 : t[i].end = t[i + 1].start
  BY DEF Chained
<1> HIDE DEF m, n, r
<1>4. ASSUME NEW i \in 1 .. m + n - 1 PROVE r[i].end = r[i + 1].start
  <2>1. CASE i < m
    <3>1. r[i] = s[i] /\ r[i + 1] = s[i + 1] /\ i \in 1 .. m - 1
      BY <1>1, <2>1
    <3>2. QED
      BY <1>3, <3>1
  <2>2. CASE i = m
    <3>1. r[i] = s[m] /\ r[i + 1] = t[1]
      BY <1>1, <2>2
    <3>2. QED
      BY <1>2, <3>1
  <2>3. CASE i > m
    <3>1. /\ r[i] = t[i - m] /\ r[i + 1] = t[i - m + 1] /\ i - m \in 1 .. n - 1
      BY <1>1, <2>3
    <3>2. QED
      BY <1>3, <3>1
  <2>4. QED
    BY <1>1, <2>1, <2>2, <2>3
<1>5. Len(r) - 1 = m + n - 1
  BY <1>1
<1>6. QED
  BY <1>4, <1>5 DEF Chained, r

\* Chains flatten to a chain when each ends where the next starts.
LEMMA FlattenChained ==
  ASSUME NEW S, NEW n \in Nat, n # 0, NEW seqs, seqs = [i \in 1 .. n |-> seqs[i]],
         \A i \in 1 .. n : seqs[i] \in Seq(S) /\ seqs[i] # <<>> /\ Chained(seqs[i]),
         \A i \in 1 .. n - 1 : Last(seqs[i]).end = Head(seqs[i + 1]).start
  PROVE  Chained(FlattenSeq(seqs))
<1>1. PICK f : Flattens(f, seqs, n) /\ FlattenSeq(seqs) = f[n]
  <2>1. Len(seqs) = n
    OBVIOUS
  <2>2. QED
    BY <2>1, FlattenSeqFlattens
<1>2. \A i \in 1 .. n : f[i] = IF i = 1 THEN seqs[i] ELSE f[i - 1] \o seqs[i]
  BY <1>1 DEF Flattens
<1> DEFINE P == {k \in Nat : k + 1 \in 1 .. n =>
                     /\ f[k + 1] \in Seq(S) /\ f[k + 1] # <<>> /\ Chained(f[k + 1])
                     /\ Last(f[k + 1]) = Last(seqs[k + 1])}
<1>3. 0 \in P
  <2>1. 0 + 1 = 1 /\ 1 \in 1 .. n /\ 0 \in Nat
    OBVIOUS
  <2>2. f[1] = seqs[1]
    BY <1>2, <2>1
  <2>3. QED
    BY <2>1, <2>2
<1>4. ASSUME NEW k \in P PROVE k + 1 \in P
  <2>1. k \in Nat /\ k + 1 \in Nat
    OBVIOUS
  <2>2. SUFFICES ASSUME k + 1 + 1 \in 1 .. n
                 PROVE  /\ f[k + 1 + 1] \in Seq(S) /\ f[k + 1 + 1] # <<>>
                        /\ Chained(f[k + 1 + 1])
                        /\ Last(f[k + 1 + 1]) = Last(seqs[k + 1 + 1])
    BY <2>1
  <2> DEFINE s == f[k + 1]
             t == seqs[k + 1 + 1]
  <2>3. /\ k + 1 \in 1 .. n /\ k + 1 \in 1 .. n - 1
        /\ k + 1 + 1 # 1 /\ k + 1 + 1 - 1 = k + 1
    BY <2>1, <2>2
  <2>4. f[k + 1 + 1] = s \o t
    <3> DEFINE j == k + 1 + 1
               h == k + 1
    <3>1. j \in 1 .. n /\ j # 1 /\ j - 1 = h
      BY <2>2, <2>3
    <3>2. s = f[h] /\ t = seqs[j]
      OBVIOUS
    <3> HIDE DEF j, h, s, t
    <3>3. f[j] = f[h] \o seqs[j]
      BY <1>2, <3>1
    <3>4. f[j] = s \o t
      BY <3>2, <3>3
    <3>5. QED
      BY <3>4 DEF j
  <2>5. s \in Seq(S) /\ s # <<>> /\ Chained(s) /\ Last(s) = Last(seqs[k + 1])
    BY <2>3
  <2>6. t \in Seq(S) /\ t # <<>> /\ Chained(t)
    BY <2>2
  <2>7. Last(s).end = Head(t).start
    BY <2>3, <2>5
  <2> HIDE DEF s, t, P
  <2>8. Chained(s \o t)
    BY <2>5, <2>6, <2>7, ChainedConcat
  <2>9. s \o t \in Seq(S) /\ s \o t # <<>> /\ Last(s \o t) = Last(t)
    BY <2>5, <2>6, ConcatEnds DEF Last
  <2>10. QED
    BY <2>4, <2>8, <2>9 DEF t
<1> HIDE DEF P
<1>5. \A k \in Nat : k \in P
  BY <1>3, <1>4, Induction
<1>6. n - 1 \in P /\ n - 1 + 1 = n /\ n \in 1 .. n
  BY <1>5
<1>7. QED
  BY <1>1, <1>6 DEF P

\* What rounding puts at a corner is a chain, which starts on the edge before the corner
\* when the corner is sharp, and ends where what it puts at the next corner starts.
LEMMA CornersChained ==
  ASSUME NEW pts \in Seq(Points)
  PROVE  /\ \A i \in 1 .. Len(pts) : Chained(Corner(pts, i))
         /\ \A i \in 1 .. Len(pts) - 1 :
                Last(Corner(pts, i)).end = Head(Corner(pts, i + 1)).start
         /\ Len(pts) # 0 => Last(Corner(pts, Len(pts))).end = At(pts[1])
         /\ \A i \in 1 .. Len(pts) :
                IF i \in SharpCorners(pts)
                THEN Head(Corner(pts, i)).kind = "arc"
                ELSE Head(Corner(pts, i)).kind = "line" /\ Head(Corner(pts, i)).start = At(pts[i])
<1> DEFINE n == Len(pts)
           sharp == SharpCorners(pts)
           R(i) == RoundedEdge(pts, sharp, i)
           F(i) == Fillet(pts, i)
<1>1. n \in Nat /\ sharp \subseteq 1 .. n
  BY DEF SharpCorners
<1>2. ASSUME NEW i \in 1 .. n
      PROVE  /\ Chained(Corner(pts, i)) /\ Last(Corner(pts, i)) = R(i)
             /\ Head(Corner(pts, i)) = IF i \in sharp THEN F(i) ELSE R(i)
  <2> DEFINE c == Corner(pts, i)
  <2>1. CASE i \in sharp
    <3>1. Len(c) = 2 /\ c[1] = F(i) /\ c[2] = R(i) /\ F(i).end = R(i).start
      BY <2>1, CornerType
    <3> HIDE DEF c, R, F
    <3>2. Head(c) = c[1] /\ Last(c) = c[2]
      BY <3>1 DEF Last
    <3>3. \A j \in 1 .. Len(c) - 1 : j = 1 /\ j + 1 = 2
      BY <3>1
    <3>4. Chained(c)
      BY <3>1, <3>3 DEF Chained
    <3>5. QED
      BY <2>1, <3>1, <3>2, <3>4 DEF c
  <2>2. CASE i \notin sharp
    <3>1. Len(c) = 1 /\ c[1] = R(i)
      BY <2>2, CornerType
    <3> HIDE DEF c, R, F
    <3>2. Head(c) = c[1] /\ Last(c) = c[1]
      BY <3>1 DEF Last
    <3>3. 1 .. Len(c) - 1 = {}
      BY <3>1
    <3>4. Chained(c)
      BY <3>3 DEF Chained
    <3>5. QED
      BY <2>2, <3>1, <3>2, <3>4 DEF c
  <2>3. QED
    BY <2>1, <2>2
<1>3. ASSUME NEW i \in 1 .. n
      PROVE  /\ F(i).start = TrimPoint(pts, i, Before(pts, i)) /\ F(i).kind = "arc"
             /\ R(i).kind = "line"
             /\ i \notin sharp => R(i).start = At(pts[i])
             /\ R(i).end = IF i + 1 \in sharp THEN TrimPoint(pts, i + 1, pts[i])
                           ELSE At(After(pts, i))
  BY CornerType
<1> HIDE DEF R, F
<1>4. ASSUME NEW i \in 1 .. n - 1
      PROVE  Last(Corner(pts, i)).end = Head(Corner(pts, i + 1)).start
  <2>1. i \in 1 .. n /\ i + 1 \in 1 .. n /\ i < n /\ i + 1 > 1 /\ i + 1 - 1 = i
    BY <1>1
  <2>2. After(pts, i) = pts[i + 1]
    BY <2>1, AfterIn
  <2>3. Before(pts, i + 1) = pts[i]
    <3> DEFINE k == i + 1
    <3>1. k \in 1 .. Len(pts) /\ k > 1 /\ k - 1 = i
      BY <2>1
    <3> HIDE DEF k
    <3>2. Before(pts, k) = pts[k - 1]
      BY <3>1, BeforeIn
    <3>3. QED
      BY <3>1, <3>2 DEF k
  <2>4. Last(Corner(pts, i)).end = IF i + 1 \in sharp THEN TrimPoint(pts, i + 1, pts[i])
                                   ELSE At(pts[i + 1])
    BY <1>2, <1>3, <2>1, <2>2
  <2>5. Head(Corner(pts, i + 1)).start = IF i + 1 \in sharp THEN TrimPoint(pts, i + 1, pts[i])
                                         ELSE At(pts[i + 1])
    BY <1>2, <1>3, <2>1, <2>3
  <2>6. QED
    BY <2>4, <2>5
<1>5. n # 0 => Last(Corner(pts, n)).end = At(pts[1])
  <2>1. SUFFICES ASSUME n # 0 PROVE Last(Corner(pts, n)).end = At(pts[1])
    OBVIOUS
  <2>2. n \in 1 .. n /\ n + 1 \notin 1 .. n
    BY <1>1, <2>1
  <2>3. n + 1 \notin sharp
    BY <1>1, <2>2
  <2>4. After(pts, n) = pts[1]
    BY <2>2, AfterIn
  <2>5. QED
    BY <1>2, <1>3, <2>2, <2>3, <2>4
<1>6. QED
  BY <1>2, <1>3, <1>4, <1>5

\* After rounding, a polygon's consecutive segments meet, whichever of its corners were
\* sharp; it gapes at its first corner exactly when that one was rounded, for the last
\* edge was appended when the corner's fillet had been (repair.py:198-199).
THEOREM OnlyTheFirstCornerCanGape == Spec => []OnlyTheFirstCornerGapes
<1>1. RepairInv => OnlyTheFirstCornerGapes
  <2> SUFFICES ASSUME RepairInv, Rounded, NEW k \in DOMAIN merged,
                      merged[k].closed, Len(merged[k].segments) >= 3, AllLines(merged[k])
               PROVE  LET before == merged[k]
                          after == rounded[k].segments
                      IN  /\ Chained(after)
                          /\ (Last(after).end # Head(after).start) <=>
                                 after[1].kind = "arc"
                                     /\ after[1].start # At(before.segments[1].start)
    BY DEF OnlyTheFirstCornerGapes, Chained
  <2> DEFINE before == merged[k]
             n == Len(before.segments)
             pts == Starts(before)
             parts == [i \in 1 .. n |-> Corner(pts, i)]
             after == FlattenSeq(parts)
             T == Traces(Trimmings(Points))
  <2>1. merged \in Seq(Paths) /\ rounded = RoundSharpCorners(merged)
    BY Versions DEF RepairInv
  <2>2. k \in 1 .. Len(merged) /\ before \in Paths /\ Polygonal(before)
    BY <2>1 DEF Polygonal
  <2>3. rounded[k].segments = after /\ after # <<>>
        /\ Head(after) = Head(parts[1]) /\ Last(after) = Last(parts[n])
    <3>1. rounded[k] = RoundPath(before)
      BY <2>1, <2>2, RoundedType
    <3> HIDE DEF before
    <3>2. QED
      BY <2>2, <3>1, RoundParts
  <2>4. n \in Nat /\ n # 0 /\ pts \in Seq(Points) /\ Len(pts) = n /\ 1 \in 1 .. n /\ n \in 1 .. n
        /\ pts[1] = before.segments[1].start
    <3>1. n \in Nat /\ n >= 3
      BY <2>2, PathParts
    <3>2. 1 \in 1 .. n /\ n \in 1 .. n /\ n # 0
      BY <3>1
    <3> HIDE DEF before
    <3>3. /\ pts \in Seq(Points) /\ Len(pts) = n
          /\ \A i \in 1 .. n : pts[i] = before.segments[i].start
      BY <2>2, StartsType
    <3>4. QED
      BY <3>1, <3>2, <3>3
  <2> HIDE DEF before, n, pts
  <2>5. /\ \A i \in 1 .. n : Chained(Corner(pts, i))
        /\ \A i \in 1 .. n - 1 : Last(Corner(pts, i)).end = Head(Corner(pts, i + 1)).start
        /\ Last(Corner(pts, n)).end = At(pts[1])
        /\ IF 1 \in SharpCorners(pts)
           THEN Head(Corner(pts, 1)).kind = "arc"
           ELSE Head(Corner(pts, 1)).kind = "line" /\ Head(Corner(pts, 1)).start = At(pts[1])
    BY <2>4, CornersChained
  <2>6. \A i \in 1 .. n : Corner(pts, i) \in Seq(T) /\ Corner(pts, i) # <<>>
    BY <2>4, CornerType
  <2>7. Chained(after)
    <3>1. /\ parts = [i \in 1 .. n |-> parts[i]]
          /\ \A i \in 1 .. n : parts[i] \in Seq(T) /\ parts[i] # <<>> /\ Chained(parts[i])
      BY <2>5, <2>6
    <3>2. \A i \in 1 .. n - 1 : i \in 1 .. n /\ i + 1 \in 1 .. n
      BY <2>4
    <3>3. \A i \in 1 .. n - 1 : Last(parts[i]).end = Head(parts[i + 1]).start
      BY <2>5, <3>2
    <3> HIDE DEF parts, T
    <3>4. QED
      BY <2>4, <3>1, <3>3, FlattenChained
  <2>8. /\ Last(after).end = At(pts[1]) /\ Head(after) = Head(Corner(pts, 1))
        /\ after[1] = Head(after)
    BY <2>3, <2>4, <2>5
  <2>9. (Last(after).end # Head(after).start) <=>
            after[1].kind = "arc" /\ after[1].start # At(pts[1])
    <3>1. Last(after).end = At(pts[1]) /\ after[1] = Head(after)
      BY <2>8
    <3>2. Head(after).kind = "arc" \/ Head(after).start = At(pts[1])
      BY <2>5, <2>8
    <3>3. Head(after).start # At(pts[1]) => Head(after).kind = "arc"
      BY <3>2
    <3> HIDE DEF after
    <3>4. QED
      BY <3>1, <3>3
  <2>10. QED
    BY <2>3, <2>4, <2>7, <2>9 DEF before
<1>2. QED
  BY <1>1, RepairInvariance, PTL

-----------------------------------------------------------------------------
(* Islands in reach are merged. *)

\* Whether a subpath is a hole shows in its ring alone.
LEMMA HolesAlike ==
  ASSUME NEW rings, NEW i \in DOMAIN rings, NEW j \in DOMAIN rings, rings[i] = rings[j]
  PROVE  IsHole(rings, i) = IsHole(rings, j)
<1> DEFINE Around(k, x) ==
               /\ Orientation(rings[x]) \notin {"degenerate", Orientation(rings[k])}
               /\ PointInPolygon(RepresentativePoint(rings[k]), FourTimes(rings[x]), "nonzero")
<1>1. \A k : IsHole(rings, k) <=>
          Len(rings[k]) >= 3 /\ \E x \in DOMAIN rings \ {k} : Around(k, x)
  BY DEF IsHole, LiesIn
<1>2. \A x : Around(i, x) <=> Around(j, x)
  OBVIOUS
<1>3. \A k, x : Around(k, x) => rings[x] # rings[k]
  OBVIOUS
<1> HIDE DEF Around
<1>4. \A k : (\E x \in DOMAIN rings \ {k} : Around(k, x)) <=> (\E x \in DOMAIN rings : Around(k, x))
  BY <1>3
<1>5. (\E x \in DOMAIN rings : Around(i, x)) <=> (\E x \in DOMAIN rings : Around(j, x))
  BY <1>2
<1>6. IsHole(rings, i) <=> IsHole(rings, j)
  BY <1>1, <1>4, <1>5
<1>7. IsHole(rings, i) \in BOOLEAN /\ IsHole(rings, j) \in BOOLEAN
  BY DEF IsHole
<1>8. QED
  BY <1>6, <1>7

\* The growing ring reaches an island that some corner of the main body reaches.
LEMMA BodyReaches ==
  ASSUME NEW compound, NEW main, NEW acc \in Gathered(compound, main),
         NEW info, info.ring \in Seq(Points), Tiny(info), ~info.hole,
         NEW p \in Range(main.ring), NEW q \in Range(info.ring), Within(p, q, MergeRadius)
  PROVE  Reaches(acc, info)
<1> DEFINE ring == acc.ring
           island == info.ring
           near == NearestCorners(ring, island)
<1>1. ring \in Seq(Points) /\ p \in Range(ring)
  BY DEF Gathered
<1>2. PICK a \in 1 .. Len(ring) : p = ring[a]
  BY <1>1 DEF Range
<1>3. PICK b \in 1 .. Len(island) : q = island[b]
  BY DEF Range
<1>4. ring # <<>> /\ island # <<>>
  BY <1>2, <1>3
<1>5. /\ near[1] \in 1 .. Len(ring) /\ near[2] \in 1 .. Len(island)
      /\ SquaredDistance(ring[near[1]], island[near[2]]) <= SquaredDistance(p, q)
  <2> HIDE DEF ring, island
  <2>1. island \in Seq(Points)
    BY DEF island
  <2>2. QED
    BY <1>1, <1>2, <1>3, <1>4, <2>1, NearestType
<1>6. /\ ring[near[1]] \in Points /\ island[near[2]] \in Points
      /\ p \in Points /\ q \in Points
  BY <1>1, <1>2, <1>3, <1>5
<1> HIDE DEF ring, island, near
<1>7. /\ SquaredDistance(ring[near[1]], island[near[2]]) \in Int
      /\ SquaredDistance(p, q) \in Int
  <2>1. \A r \in Points, s \in Points : SquaredDistance(r, s) \in Nat
    BY DistanceType
  <2> DEFINE c == ring[near[1]]
             d == island[near[2]]
  <2>2. c \in Points /\ d \in Points
    BY <1>6
  <2> HIDE DEF c, d
  <2>3. SquaredDistance(c, d) \in Nat /\ SquaredDistance(p, q) \in Nat
    BY <1>6, <2>1, <2>2
  <2>4. \A k \in Nat : k \in Int
    OBVIOUS
  <2>5. QED
    BY <2>3, <2>4 DEF c, d
<1> DEFINE least == SquaredDistance(ring[near[1]], island[near[2]])
           far == SquaredDistance(p, q)
           bound == MergeRadius * MergeRadius
<1>8. bound \in Int
  BY MergeAssumption
<1>9. least \in Int /\ far \in Int /\ least <= far /\ far <= bound
  BY <1>5, <1>7 DEF Within
<1> HIDE DEF least, far, bound
<1>10. least <= bound
  BY <1>8, <1>9
<1>11. Within(ring[near[1]], island[near[2]], MergeRadius)
  BY <1>10 DEF Within, least, bound
<1>12. Within(acc.ring[NearestCorners(acc.ring, info.ring)[1]],
              info.ring[NearestCorners(acc.ring, info.ring)[2]], MergeRadius)
  BY <1>11 DEF ring, island, near
<1>13. QED
  BY <1>12 DEF Reaches

\* merge_tiny_islands leaves nothing that equals an island the main body reaches: the
\* island itself is spliced in, and so is every other subpath like it.
LEMMA ReachedIsMerged ==
  ASSUME NEW compound \in Seq(Paths), NEW j \in 1 .. Len(compound),
         NEW infos, infos = ClassifySubpaths(compound), NEW main, main = MainBody(infos),
         NEW info, info = infos[j], info # main, Tiny(info), ~info.hole,
         NEW p \in Range(main.ring), NEW q \in Range(info.ring), Within(p, q, MergeRadius)
  PROVE  compound[j] \notin Range(MergeTinyIslands(compound))
<1> DEFINE n == Len(compound)
           path == compound[j]
<1>1. compound # <<>> /\ n \in Nat /\ path \in Paths
  OBVIOUS
<1>2. PICK m \in 1 .. n : main = infos[m] /\ infos[m].index = m
  BY <1>1, MainBodyType
<1>3. PICK g : Merges(g, infos, compound, main)
  BY <1>1, MergesStepByStep
<1>4. Describes(infos, compound)
  BY Classified
<1>5. \A i \in 1 .. n :
          /\ infos[i].index = i /\ infos[i].ring = Ring(compound[i])
          /\ infos[i].ring \in Seq(Points)
          /\ infos[i].hole = IsHole(Rings(compound), i)
          /\ infos[i].area = Magnitude(DoubledArea(Ring(compound[i])))
  BY <1>4 DEF Describes
<1>6. j # m /\ j \in 1 .. n /\ main.index = m
  BY <1>2
<1>7. info.ring \in Seq(Points) /\ info.ring = Ring(path)
  BY <1>5, <1>6
<1>8. /\ g[0] = [kept |-> <<>>, ring |-> main.ring, merged |-> FALSE]
      /\ \A k \in 0 .. n : g[k] \in Gathered(compound, main)
      /\ \A k \in 1 .. n : Step(g[k - 1], g[k], infos[k], compound, main)
      /\ MergeTinyIslands(compound) =
             <<IF g[n].merged THEN PolygonPath(g[n].ring, TRUE) ELSE compound[main.index]>>
                 \o g[n].kept
  BY <1>3 DEF Merges
<1>9. ASSUME NEW i \in 1 .. n, compound[i] = path, NEW acc \in Gathered(compound, main)
      PROVE  Reaches(acc, infos[i])
  <2>1. infos[i].ring = info.ring
    BY <1>5, <1>7, <1>9
  <2>2. infos[i].area = info.area
    BY <1>5, <1>6, <1>9
  <2>3. infos[i].hole = info.hole
    <3>1. DOMAIN Rings(compound) = 1 .. n /\ Rings(compound)[i] = Rings(compound)[j]
      BY <1>1, <1>6, <1>9 DEF Rings
    <3> DEFINE rings == Rings(compound)
    <3>2. i \in DOMAIN rings /\ j \in DOMAIN rings /\ rings[i] = rings[j]
      BY <1>6, <3>1
    <3> HIDE DEF rings
    <3>3. IsHole(rings, i) = IsHole(rings, j)
      BY <3>2, HolesAlike
    <3>4. QED
      BY <1>5, <1>6, <3>3 DEF rings
  <2> DEFINE other == infos[i]
  <2>4. /\ other.ring \in Seq(Points) /\ Tiny(other) /\ ~other.hole /\ q \in Range(other.ring)
    BY <1>7, <2>1, <2>2, <2>3 DEF Tiny
  <2> HIDE DEF other
  <2>5. Reaches(acc, other)
    BY <2>4, BodyReaches
  <2>6. QED
    BY <2>5 DEF other
<1> HIDE DEF n, path
<1> DEFINE L == Len(info.ring)
           Apart(k) == /\ path \notin Range(g[k].kept)
                       /\ j <= k => g[k].merged = TRUE /\ Len(g[k].ring) > L
           P == {k \in Nat : k <= n => Apart(k)}
<1>10. L \in Nat
  BY <1>7
<1>11. \A k \in 0 .. n : /\ g[k].kept \in Seq(Paths) /\ g[k].ring \in Seq(Points)
                         /\ Len(g[k].ring) \in Nat
  <2>1. ASSUME NEW k \in 0 .. n PROVE g[k].kept \in Seq(Paths) /\ g[k].ring \in Seq(Points)
    BY <1>8 DEF Gathered
  <2>2. QED
    BY <2>1
<1>12. 0 \in P
  <2>1. Range(g[0].kept) = {} /\ ~(j <= 0)
    BY <1>6, <1>8 DEF Range
  <2>2. QED
    BY <2>1
<1>13. ASSUME NEW k \in Nat, k \in P PROVE k + 1 \in P
  <2>0. k + 1 \in Nat
    OBVIOUS
  <2>1. SUFFICES ASSUME k + 1 <= n PROVE Apart(k + 1)
    BY <2>0
  <2>2. k + 1 \in 1 .. n /\ k + 1 - 1 = k /\ k <= n /\ k \in 0 .. n /\ k + 1 \in 0 .. n
    BY <1>1, <2>1
  <2>3. Apart(k)
    BY <1>13, <2>2
  <2> DEFINE acc == g[k]
             next == g[k + 1]
             here == infos[k + 1]
  <2>4. Step(acc, next, here, compound, main) /\ here.index = k + 1
    <3>1. Step(g[k + 1 - 1], g[k + 1], infos[k + 1], compound, main)
      BY <1>8, <2>2
    <3>2. infos[k + 1].index = k + 1
      BY <1>5, <2>2 DEF n
    <3>3. QED
      BY <2>2, <3>1, <3>2
  <2>5. compound[k + 1] = path => Reaches(acc, here)
    <3>1. acc \in Gathered(compound, main)
      BY <1>8, <2>2
    <3>2. QED
      BY <1>9, <2>2, <3>1 DEF n
  <2>6. /\ acc.kept \in Seq(Paths) /\ acc.ring \in Seq(Points) /\ Len(acc.ring) \in Nat
        /\ Len(next.ring) \in Nat
    BY <1>11, <2>2
  <2>7. here.ring \in Seq(Points)
    BY <1>5, <2>2 DEF n
  <2> DEFINE K == k + 1
  <2>8. /\ path \notin Range(acc.kept)
        /\ j <= k => acc.merged = TRUE /\ Len(acc.ring) > L
        /\ K = k + 1 /\ k \in Nat /\ K \in 1 .. n /\ K \in Nat
    BY <2>0, <2>2, <2>3
  <2> HIDE DEF Apart, P
  <2> SUFFICES /\ path \notin Range(next.kept)
               /\ j <= K => next.merged = TRUE /\ Len(next.ring) > L
    BY DEF Apart
  <2>9. here.index = K /\ (compound[K] = path => Reaches(acc, here)) /\ here = infos[K]
    BY <2>4, <2>5
  <2> HIDE DEF acc, next, here, K
  <2>10. CASE K = m
    <3>1. next = acc
      BY <1>6, <2>4, <2>9, <2>10 DEF Step
    <3>2. j <= K => j <= k
      BY <1>6, <2>8, <2>10
    <3>3. QED
      BY <2>8, <3>1, <3>2
  <2>11. CASE K # m /\ Reaches(acc, here)
    <3>1. /\ next.kept = acc.kept /\ next.merged = TRUE
          /\ KeyholeCorners(next.ring, acc.ring, NearestCorners(acc.ring, here.ring)[1],
                            here.ring, NearestCorners(acc.ring, here.ring)[2])
      BY <1>6, <2>4, <2>9, <2>11 DEF Step
    <3>2. Len(next.ring) = Len(acc.ring) + Len(here.ring) + 2
      BY <3>1 DEF KeyholeCorners
    <3>3. Len(here.ring) \in Nat
      BY <2>7
    <3> DEFINE a == Len(acc.ring)
               b == Len(here.ring)
               c == Len(next.ring)
    <3>4. /\ a \in Nat /\ b \in Nat /\ c = a + b + 2 /\ L \in Nat
          /\ j <= k => a > L
      BY <1>10, <2>6, <2>8, <3>2, <3>3
    <3>5. j = K => b = L
      BY <2>9
    <3> HIDE DEF a, b, c, L
    <3>6. j <= K => j <= k \/ j = K
      BY <1>6, <2>8
    <3>7. j <= K => c > L
      BY <3>4, <3>5, <3>6
    <3>8. QED
      BY <2>8, <3>1, <3>7 DEF c
  <2>12. CASE K # m /\ ~Reaches(acc, here)
    <3>1. /\ next.ring = acc.ring /\ next.merged = acc.merged
          /\ next.kept = Append(acc.kept, compound[K])
      BY <1>6, <2>4, <2>9, <2>12 DEF Step
    <3>2. compound[K] # path /\ K # j
      BY <2>9, <2>12 DEF path
    <3>3. j <= K => j <= k
      BY <1>6, <2>8, <3>2
    <3>4. path \notin Range(next.kept)
      <4> DEFINE s == acc.kept
                 e == compound[K]
      <4>1. s \in Seq(Paths) /\ path \notin Range(s) /\ e # path
        BY <2>6, <2>8, <3>2
      <4>2. next.kept = Append(s, e)
        BY <3>1
      <4> HIDE DEF s, e
      <4>3. \A i \in 1 .. Len(s) : s[i] # path
        BY <4>1 DEF Range
      <4>4. /\ DOMAIN Append(s, e) = 1 .. Len(s) + 1
            /\ \A i \in 1 .. Len(s) + 1 : Append(s, e)[i] = IF i <= Len(s) THEN s[i] ELSE e
        BY <4>1
      <4>5. Len(s) \in Nat
        BY <4>1
      <4>6. \A i \in DOMAIN Append(s, e) : Append(s, e)[i] # path
        BY <4>1, <4>3, <4>4, <4>5
      <4>7. QED
        BY <4>2, <4>6 DEF Range
    <3>5. QED
      BY <2>8, <3>1, <3>3, <3>4
  <2>13. QED
    BY <2>10, <2>11, <2>12
<1> HIDE DEF P
<1>14. n \in P
  BY <1>1, <1>12, <1>13, Induction DEF n
<1>15. path \notin Range(g[n].kept) /\ g[n].merged = TRUE /\ Len(g[n].ring) > L
  <2>1. j <= n /\ n <= n
    BY <1>1, <1>6 DEF n
  <2>2. QED
    BY <1>14, <2>1 DEF P
<1>16. g[n].kept \in Seq(Paths) /\ g[n].ring \in Seq(Points) /\ Len(g[n].ring) \in Nat
  BY <1>1, <1>11 DEF n
<1> DEFINE ring == g[n].ring
           kept == g[n].kept
           body == PolygonPath(ring, TRUE)
<1>17. MergeTinyIslands(compound) = <<body>> \o kept
  BY <1>8, <1>15
<1>18. path # body
  <2>1. ring \in Seq(Points) /\ ring # <<>>
    <3>1. Len(ring) \in Nat /\ Len(ring) > L /\ ring \in Seq(Points)
      BY <1>15, <1>16
    <3> HIDE DEF ring, L
    <3>2. QED
      BY <1>10, <3>1
  <2> HIDE DEF ring
  <2>2. Ring(body) = ring
    BY <2>1, PolygonRing
  <2>3. Len(Ring(path)) = L
    BY <1>7 DEF path
  <2>4. Len(ring) \in Nat /\ Len(ring) > L
    BY <1>15, <1>16 DEF ring
  <2> HIDE DEF L, body
  <2>5. Len(Ring(path)) # Len(Ring(body))
    BY <1>10, <2>2, <2>3, <2>4
  <2>6. QED
    BY <2>5
<1> HIDE DEF body, kept
<1>19. path \notin Range(<<body>> \o kept)
  <2> DEFINE S == Paths \cup {body}
  <2>1. <<body>> \in Seq(S) /\ kept \in Seq(S) /\ Len(<<body>>) = 1
    BY <1>16 DEF kept
  <2> HIDE DEF S
  <2>2. /\ <<body>> \o kept \in Seq(S) /\ Len(<<body>> \o kept) = 1 + Len(kept)
        /\ \A i \in 1 .. 1 + Len(kept) :
               (<<body>> \o kept)[i] = IF i <= 1 THEN <<body>>[i] ELSE kept[i - 1]
    BY <2>1, ConcatElements
  <2>3. \A i \in 1 .. Len(kept) : kept[i] # path
    BY <1>15, <2>1 DEF Range, kept
  <2>4. <<body>>[1] = body
    OBVIOUS
  <2>5. Len(kept) \in Nat
    BY <2>1
  <2> DEFINE r == <<body>> \o kept
  <2>6. DOMAIN r = 1 .. 1 + Len(kept)
    BY <2>2
  <2>7. ASSUME NEW i \in 1 .. 1 + Len(kept) PROVE r[i] # path
    <3>1. CASE i = 1
      BY <1>18, <2>2, <2>4, <3>1
    <3>2. CASE i # 1
      <4>1. i - 1 \in 1 .. Len(kept) /\ ~(i <= 1)
        BY <2>5, <3>2
      <4>2. r[i] = kept[i - 1]
        BY <2>2, <4>1
      <4>3. QED
        BY <2>3, <4>1, <4>2
    <3>3. QED
      BY <3>1, <3>2
  <2> HIDE DEF r
  <2>8. path \notin Range(r)
    BY <2>6, <2>7 DEF Range
  <2>9. QED
    BY <2>8 DEF r
<1>20. QED
  BY <1>17, <1>19 DEF path

\* A tiny island that is still loose after merging was out of the main body's reach: the
\* ring only grows, and the nearest corners are never farther than two of the body's and
\* the island's (repair.py's merge_tiny_islands).
THEOREM OnlyIslandsOutOfReachStayLoose == Spec => []LooseIslandsAreOutOfReach
<1>1. RepairInv => LooseIslandsAreOutOfReach
  <2> DEFINE infos == ClassifySubpaths(cleaned)
             body == MainBody(infos)
  <2> SUFFICES ASSUME RepairInv, Merged, NEW i \in Range(infos) \ {body},
                      Tiny(i), ~i.hole, cleaned[i.index] \in Range(merged),
                      NEW p \in Range(body.ring), NEW q \in Range(i.ring),
                      Within(p, q, MergeRadius)
               PROVE  FALSE
    BY DEF LooseIslandsAreOutOfReach
  <2>1. cleaned \in Seq(Paths) /\ merged = MergeTinyIslands(cleaned)
    BY Versions DEF RepairInv
  <2>2. Describes(infos, cleaned)
    BY <2>1, Classified
  <2>3. PICK j \in 1 .. Len(cleaned) : i = infos[j] /\ i.index = j
    <3> HIDE DEF infos
    <3>1. QED
      BY <2>2 DEF Describes
  <2>4. i # body
    OBVIOUS
  <2>5. infos = ClassifySubpaths(cleaned) /\ body = MainBody(infos)
    OBVIOUS
  <2> HIDE DEF infos, body
  <2>6. cleaned[j] \notin Range(MergeTinyIslands(cleaned))
    BY <2>1, <2>3, <2>4, <2>5, ReachedIsMerged
  <2>7. QED
    BY <2>1, <2>3, <2>6
<1>2. QED
  BY <1>1, RepairInvariance, PTL

-----------------------------------------------------------------------------
(* Merging keeps the area. *)

\* Twice the signed area of a subpath, of each, and of all.
Area(path) == DoubledArea(Ring(path))
Areas(compound) == [i \in 1 .. Len(compound) |-> Area(compound[i])]
Total(compound) ==
    LET area(i) == DoubledArea(Ring(compound[i])) IN MapThenSumSet(area, DOMAIN compound)

\* The sums Total goes through.
TotalSums(h, compound) ==
    h = [s \in SUBSET (1 .. Len(compound)) |->
            IF s = {} THEN 0
            ELSE Area(compound[CHOOSE x \in s : TRUE]) + h[s \ {CHOOSE x \in s : TRUE}]]

LEMMA AreasType ==
  ASSUME NEW compound \in Seq(Paths)
  PROVE  /\ Areas(compound) \in [1 .. Len(compound) -> Int]
         /\ \A i \in 1 .. Len(compound) :
                /\ Areas(compound)[i] = Area(compound[i]) /\ Area(compound[i]) \in Int
<1>1. ASSUME NEW i \in 1 .. Len(compound) PROVE Area(compound[i]) \in Int
  <2> DEFINE path == compound[i]
             ring == Ring(path)
  <2>1. path \in Paths
    OBVIOUS
  <2>2. ring \in Seq(Points)
    <3> HIDE DEF path
    <3>1. QED
      BY <2>1, DrawingsOfPoints, RingType
  <2> HIDE DEF ring
  <2>3. DoubledArea(ring) \in Int
    BY <2>2, AreaType
  <2>4. QED
    BY <2>3 DEF Area, ring
<1>2. QED
  BY <1>1 DEF Areas

LEMMA TotalRuns ==
  ASSUME NEW compound \in Seq(Paths)
  PROVE  \E g \in [0 .. Len(compound) -> Int] :
             Runs(g, Areas(compound), Len(compound)) /\ Total(compound) = g[Len(compound)]
<1> DEFINE n == Len(compound)
           D == 1 .. n
           t == Areas(compound)
<1>1. n \in Nat /\ DOMAIN compound = D
  OBVIOUS
<1>2. IsFiniteSet(D)
  BY <1>1, FS_Interval
<1>3. t \in [D -> Int] /\ \A i \in D : t[i] = Area(compound[i])
  BY AreasType
<1>4. PICK f \in [SUBSET D -> Int] : Sums(f, t, SUBSET D)
  <2> HIDE DEF D, t
  <2>1. QED
    BY <1>2, <1>3, SumsOverSubsets
<1>5. f = [s \in SUBSET D |-> IF s = {} THEN 0
                              ELSE t[CHOOSE x \in s : TRUE] + f[s \ {CHOOSE x \in s : TRUE}]]
  BY <1>4 DEF Sums
<1>6. \A s \in SUBSET D : s # {} =>
          t[CHOOSE x \in s : TRUE] = Area(compound[CHOOSE x \in s : TRUE])
  <2>1. \A s \in SUBSET D : s # {} => (CHOOSE x \in s : TRUE) \in D
    OBVIOUS
  <2> HIDE DEF D, t
  <2>2. QED
    BY <1>3, <2>1
<1>7. \A h : Sums(h, t, SUBSET D) <=> TotalSums(h, compound)
  <2>1. TAKE h
  <2>2. [s \in SUBSET D |-> IF s = {} THEN 0
             ELSE t[CHOOSE x \in s : TRUE] + h[s \ {CHOOSE x \in s : TRUE}]]
        = [s \in SUBSET D |-> IF s = {} THEN 0
             ELSE Area(compound[CHOOSE x \in s : TRUE]) + h[s \ {CHOOSE x \in s : TRUE}]]
    <3> HIDE DEF D, t
    <3>1. QED
      BY <1>6
  <2>3. QED
    BY <2>2 DEF Sums, TotalSums
<1>8. \E h : Sums(h, t, SUBSET D) /\ Total(compound) = h[D]
  <2>1. TotalSums(f, compound)
    BY <1>4, <1>7
  <2>2. \E h : TotalSums(h, compound) /\ Total(compound) = h[1 .. Len(compound)]
    <3>1. \E h : h = [s \in SUBSET (1 .. Len(compound)) |-> IF s = {} THEN 0
                     ELSE Area(compound[CHOOSE x \in s : TRUE]) + h[s \ {CHOOSE x \in s : TRUE}]]
      BY <2>1 DEF TotalSums
    <3>2. DOMAIN compound = 1 .. Len(compound)
      OBVIOUS
    <3>3. Total(compound)
              = LET area(i) == Area(compound[i]) IN MapThenSumSet(area, 1 .. Len(compound))
      BY <3>2 DEF Total, MapThenSumSet, MapThenFoldSet, Area
    <3>4. QED
      BY <3>1, <3>3 DEF MapThenSumSet, MapThenFoldSet, TotalSums
  <2>3. QED
    BY <1>7, <2>2
<1>9. Total(compound) = f[D]
  <2> HIDE DEF D, t
  <2>1. PICK h : Sums(h, t, SUBSET D) /\ Total(compound) = h[D]
    BY <1>8
  <2>2. /\ t \in [D -> Int] /\ f \in [SUBSET D -> Int] /\ Sums(f, t, SUBSET D)
        /\ Sums(h, t, SUBSET D)
    BY <1>3, <1>4, <2>1
  <2>3. h[D] = f[D]
    BY <1>2, <2>2, SumsUnique, ZenonT(60)
  <2>4. QED
    BY <2>1, <2>3
<1>10. \E g \in [0 .. n -> Int] : Runs(g, t, n) /\ f[D] = g[n]
  <2>1. t \in [1 .. n -> Int] /\ f \in [SUBSET (1 .. n) -> Int] /\ Sums(f, t, SUBSET (1 .. n))
    BY <1>3, <1>4
  <2> HIDE DEF t, n
  <2>0. n \in Nat
    BY <1>1
  <2>2. \E g \in [0 .. n -> Int] : Runs(g, t, n) /\ f[1 .. n] = g[n]
    BY <2>0, <2>1, SumsRun, Zenon
  <2>3. QED
    BY <2>2
<1>11. QED
  BY <1>9, <1>10

\* The area of two compound paths, one after the other, where one of them is one subpath.
LEMMA TotalAppend ==
  ASSUME NEW s \in Seq(Paths), NEW path \in Paths
  PROVE  /\ Total(s) \in Int /\ Area(path) \in Int
         /\ Total(Append(s, path)) = Total(s) + Area(path)
         /\ Total(<<path>> \o s) = Area(path) + Total(s)
<1> DEFINE n == Len(s)
           m == n + 1
           p == Append(s, path)
           q == <<path>> \o s
           S == Areas(s)
           P == Areas(p)
           Q == Areas(q)
           e == Area(path)
<1>1. /\ n \in Nat /\ m \in Nat /\ m = n + 1
      /\ p \in Seq(Paths) /\ Len(p) = m /\ p[m] = path /\ \A i \in 1 .. n : p[i] = s[i]
  OBVIOUS
<1>2. /\ q \in Seq(Paths) /\ Len(q) = m /\ q[1] = path
      /\ \A i \in 1 .. n : q[i + 1] = s[i]
  <2>1. <<path>> \in Seq(Paths) /\ Len(<<path>>) = 1 /\ <<path>>[1] = path
    OBVIOUS
  <2>2. /\ q \in Seq(Paths) /\ Len(q) = 1 + n
        /\ \A k \in 1 .. 1 + n : q[k] = IF k <= 1 THEN <<path>>[k] ELSE s[k - 1]
    BY <2>1, ConcatElements
  <2> HIDE DEF q, n
  <2>3. \A i \in 1 .. n : i + 1 \in 1 .. 1 + n /\ ~(i + 1 <= 1) /\ i + 1 - 1 = i
    BY <1>1
  <2>4. \A i \in 1 .. n : q[i + 1] = s[i]
    BY <2>2, <2>3
  <2>5. 1 \in 1 .. 1 + n /\ 1 <= 1 /\ 1 + n = m
    BY <1>1
  <2>6. q[1] = path
    BY <2>1, <2>2, <2>5
  <2>7. QED
    BY <2>2, <2>4, <2>5, <2>6
<1> HIDE DEF p, q, n, m
<1>3. /\ S \in [1 .. n -> Int] /\ P \in [1 .. m -> Int] /\ Q \in [1 .. m -> Int]
      /\ \A i \in 1 .. n : S[i] = Area(s[i])
      /\ \A i \in 1 .. m : P[i] = Area(p[i]) /\ Q[i] = Area(q[i])
      /\ \A i \in 1 .. m : Area(q[i]) \in Int
  BY <1>1, <1>2, AreasType DEF n
<1>4. PICK g \in [0 .. n -> Int] : Runs(g, S, n) /\ Total(s) = g[n]
  BY TotalRuns DEF n
<1>5. PICK h \in [0 .. m -> Int] : Runs(h, P, m) /\ Total(p) = h[m]
  BY <1>1, TotalRuns
<1>6. PICK k \in [0 .. m -> Int] : Runs(k, Q, m) /\ Total(q) = k[m]
  BY <1>2, TotalRuns
<1>7. /\ n \in 0 .. n /\ m \in 0 .. m /\ n \in 0 .. m /\ 0 \in 0 .. n /\ 0 \in 0 .. m
      /\ m \in 1 .. m /\ 1 \in 1 .. m /\ 1 \in 0 .. m /\ m - 1 = n /\ 1 - 1 = 0
      /\ \A i \in 1 .. n : i \in 1 .. m /\ i + 1 \in 1 .. m /\ 0 + i = i /\ 1 + i = i + 1
      /\ 0 + n = n /\ 1 + n = m /\ 1 \in Nat /\ 0 \in Nat /\ n <= m /\ n <= n
  BY <1>1
<1> HIDE DEF S, P, Q
<1>8. P[m] = e /\ Q[1] = e /\ e \in Int
  BY <1>1, <1>2, <1>3, <1>7
<1>9. /\ \A i \in 1 .. n : P[0 + i] = S[0 + i]
      /\ \A i \in 1 .. n : Q[1 + i] = S[0 + i]
  <2>1. ASSUME NEW i \in 1 .. n PROVE P[0 + i] = S[0 + i] /\ Q[1 + i] = S[0 + i]
    <3>1. i \in 1 .. m /\ i + 1 \in 1 .. m /\ 0 + i = i /\ 1 + i = i + 1
      BY <1>7
    <3>2. P[i] = Area(s[i]) /\ Q[i + 1] = Area(s[i]) /\ S[i] = Area(s[i])
      BY <1>1, <1>2, <1>3, <3>1
    <3>3. QED
      BY <3>1, <3>2
  <2>2. QED
    BY <2>1
<1> HIDE DEF e
<1>10. Rises(h, 0, n, g, 0, n)
  <2>1. n \in 0 .. m /\ n \in 0 .. n
    BY <1>1
  <2>2. Running(g, S, n) /\ Running(h, P, m) /\ n \in Nat /\ 0 \in Nat
    BY <1>1, <1>3, <1>4, <1>5 DEF Running
  <2>3. Alike(P, 0, n, S, 0, n)
    BY <1>1, <1>9 DEF Alike
  <2>4. QED
    BY <2>1, <2>2, <2>3, Stretch
<1>11. Rises(k, 1, m, g, 0, n)
  <2>1. m \in 0 .. m /\ n \in 0 .. n
    BY <1>1
  <2>2. Running(g, S, n) /\ Running(k, Q, m) /\ n \in Nat /\ 0 \in Nat /\ 1 \in Nat
    BY <1>1, <1>3, <1>4, <1>6 DEF Running
  <2>3. Alike(Q, 1, m, S, 0, n)
    BY <1>1, <1>9 DEF Alike
  <2>4. QED
    BY <2>1, <2>2, <2>3, Stretch
<1>12. g[0] = 0 /\ h[0] = 0 /\ k[0] = 0
  BY <1>4, <1>5, <1>6 DEF Runs
<1>13. h[m] = h[n] + e
  BY <1>5, <1>7, <1>8 DEF Runs
<1>14. k[1] = k[0] + e
  BY <1>6, <1>7, <1>8 DEF Runs
<1>15. /\ g[n] \in Int /\ h[n] \in Int /\ k[m] \in Int /\ k[1] \in Int
  BY <1>4, <1>5, <1>6, <1>7
<1>16. h[n] - 0 = g[n] - 0 /\ k[m] - k[1] = g[n] - 0 /\ k[1] = 0 + e
  BY <1>10, <1>11, <1>12, <1>14 DEF Rises
<1>17. h[m] = g[n] + e /\ k[m] = e + g[n]
  BY <1>8, <1>13, <1>15, <1>16
<1>18. QED
  BY <1>4, <1>5, <1>6, <1>8, <1>15, <1>17 DEF e, p, q

LEMMA TotalEmpty == Total(<<>>) = 0
<1>1. <<>> \in Seq(Paths) /\ Len(<<>>) = 0
  OBVIOUS
<1>2. QED
  BY <1>1, TotalRuns DEF Runs

\* What an edge contributes to the area, for its two ends.
Turn(p, q) == p.x * q.y - q.x * p.y

LEMMA TurnType ==
  ASSUME NEW p \in Points, NEW q \in Points
  PROVE  Turn(p, q) \in Int /\ Turn(q, p) = -Turn(p, q)
<1>1. p.x \in Int /\ p.y \in Int /\ q.x \in Int /\ q.y \in Int
  BY DEF Points
<1>2. \A a, b, c, d \in Int : a * d - c * b \in Int /\ c * b - a * d = -(a * d - c * b)
  OBVIOUS
<1>3. QED
  BY <1>1, <1>2 DEF Turn

LEMMA EdgeTurns ==
  ASSUME NEW ring \in Seq(Points), NEW n, n = Len(ring)
  PROVE  /\ EdgesOf(ring) \in [1 .. n -> Int]
         /\ \A i \in 1 .. n : i < n => EdgesOf(ring)[i] = Turn(ring[i], ring[i + 1])
         /\ n # 0 => EdgesOf(ring)[n] = Turn(ring[n], ring[1])
<1>1. n \in Nat
  OBVIOUS
<1>2. /\ EdgesOf(ring) \in [1 .. n -> Int]
      /\ \A i \in 1 .. n : EdgesOf(ring)[i] = Turn(ring[i], After(ring, i))
  BY EdgeType DEF Edge, Turn
<1>3. \A i \in 1 .. n : /\ i < n => After(ring, i) = ring[i + 1]
                        /\ i = n => After(ring, i) = ring[1]
  BY AfterIn
<1>4. n # 0 => n \in 1 .. n
  BY <1>1
<1>5. QED
  BY <1>2, <1>3, <1>4

\* The edges of a keyhole ring: the main ring's up to the corner, the slit, the island's
\* around from the other corner, the slit back, and the rest of the main ring's.
KeyholeEdges(t, u, w, m, k, M, L, there, back) ==
    /\ Alike(t, 0, m - 1, u, 0, m - 1)
    /\ t[m] = there
    /\ Alike(t, m, m + L - k + 1, w, k - 1, L)
    /\ Alike(t, m + L - k + 1, m + L, w, 0, k - 1)
    /\ t[m + L + 1] = back
    /\ Alike(t, m + L + 1, M + L + 2, u, m - 1, M)

LEMMA KeyholeEdgesType ==
  ASSUME NEW main \in Seq(Points), NEW island \in Seq(Points),
         NEW M, M = Len(main), NEW L, L = Len(island),
         NEW m \in 1 .. M, NEW k \in 1 .. L,
         NEW ring, KeyholeCorners(ring, main, m, island, k)
  PROVE  KeyholeEdges(EdgesOf(ring), EdgesOf(main), EdgesOf(island), m, k, M, L,
                      Turn(main[m], island[k]), Turn(island[k], main[m]))
<1> DEFINE n == M + L + 2
           t == EdgesOf(ring)
           u == EdgesOf(main)
           w == EdgesOf(island)
<1>1. /\ M \in Nat /\ L \in Nat /\ n \in Nat /\ n = M + L + 2
      /\ m \in Nat /\ 1 <= m /\ m <= M /\ k \in Nat /\ 1 <= k /\ k <= L
  OBVIOUS
<1>2. /\ ring \in Seq(Points) /\ Len(ring) = n
      /\ \A i \in 1 .. m : ring[i] = main[i]
      /\ \A i \in 1 .. L - k + 1 : ring[m + i] = island[k - 1 + i]
      /\ \A i \in 1 .. k - 1 : ring[m + L - k + 1 + i] = island[i]
      /\ ring[m + L + 1] = island[k] /\ ring[m + L + 2] = main[m]
      /\ \A i \in 1 .. M - m : ring[m + L + 2 + i] = main[m + i]
  BY DEF KeyholeCorners
<1> HIDE DEF n
<1>3. /\ \A i \in 1 .. n : i < n => t[i] = Turn(ring[i], ring[i + 1])
      /\ t[n] = Turn(ring[n], ring[1])
  <2>1. n = Len(ring) /\ n # 0
    BY <1>1, <1>2
  <2>2. QED
    BY <1>2, <2>1, EdgeTurns
<1>4. /\ \A i \in 1 .. M : i < M => u[i] = Turn(main[i], main[i + 1])
      /\ u[M] = Turn(main[M], main[1])
  <2>1. M # 0
    BY <1>1
  <2>2. QED
    BY <2>1, EdgeTurns
<1>5. /\ \A i \in 1 .. L : i < L => w[i] = Turn(island[i], island[i + 1])
      /\ w[L] = Turn(island[L], island[1])
  <2>1. L # 0
    BY <1>1
  <2>2. QED
    BY <2>1, EdgeTurns
<1> HIDE DEF t, u, w
<1>6. Alike(t, 0, m - 1, u, 0, m - 1)
  <2>1. ASSUME NEW i \in 1 .. m - 1 PROVE t[0 + i] = u[0 + i]
    <3>1. /\ i \in 1 .. n /\ i < n /\ i \in 1 .. M /\ i < M
          /\ i \in 1 .. m /\ i + 1 \in 1 .. m /\ 0 + i = i
      BY <1>1
    <3>2. t[i] = Turn(main[i], main[i + 1])
      BY <1>2, <1>3, <3>1
    <3>3. u[i] = Turn(main[i], main[i + 1])
      BY <1>4, <3>1
    <3>4. QED
      BY <3>1, <3>2, <3>3
  <2>2. \A i \in 1 .. m - 1 - 0 : i \in 1 .. m - 1
    BY <1>1
  <2>3. m - 1 \in Nat /\ 0 \in Nat /\ 0 <= m - 1
    BY <1>1
  <2>4. QED
    BY <2>1, <2>2, <2>3 DEF Alike
<1>7. t[m] = Turn(main[m], island[k])
  <2>1. m \in 1 .. n /\ m < n /\ m \in 1 .. m /\ 1 \in 1 .. L - k + 1 /\ k - 1 + 1 = k
    BY <1>1
  <2>2. ring[m] = main[m] /\ ring[m + 1] = island[k]
    BY <1>2, <2>1
  <2>3. QED
    BY <1>3, <2>1, <2>2
<1>8. ring[m + L - k + 2] = island[1]
  <2>1. CASE k = 1
    <3>1. m + L - k + 2 = m + L + 1
      BY <1>1, <2>1
    <3>2. QED
      BY <1>2, <2>1, <3>1
  <2>2. CASE k # 1
    <3>1. 1 \in 1 .. k - 1 /\ m + L - k + 1 + 1 = m + L - k + 2
      BY <1>1, <2>2
    <3>2. QED
      BY <1>2, <3>1
  <2>3. QED
    BY <2>1, <2>2
<1>9. Alike(t, m, m + L - k + 1, w, k - 1, L)
  <2>1. ASSUME NEW i \in 1 .. L - k + 1 PROVE t[m + i] = w[k - 1 + i]
    <3> DEFINE j == m + i
               l == k - 1 + i
    <3>1. j \in 1 .. n /\ j < n /\ l \in 1 .. L /\ i \in Nat
      BY <1>1
    <3>2. ring[j] = island[l]
      BY <1>2
    <3>3. CASE i = L - k + 1
      <4>1. l = L /\ j + 1 = m + L - k + 2
        BY <1>1, <3>3
      <4> HIDE DEF j, l
      <4>2. t[j] = Turn(island[L], island[1])
        BY <1>3, <1>8, <3>1, <3>2, <4>1
      <4>3. t[j] = w[l]
        BY <1>5, <4>1, <4>2
      <4>4. QED
        BY <4>3 DEF j, l
    <3>4. CASE i # L - k + 1
      <4>1. l < L /\ i + 1 \in 1 .. L - k + 1 /\ j + 1 = m + (i + 1) /\ l + 1 = k - 1 + (i + 1)
        BY <1>1, <3>1, <3>4
      <4> DEFINE i1 == i + 1
      <4>2. i1 \in 1 .. L - k + 1 /\ j + 1 = m + i1 /\ l + 1 = k - 1 + i1
        BY <4>1
      <4> HIDE DEF j, l, i1
      <4>3. ring[j + 1] = island[l + 1]
        <5>1. ring[m + i1] = island[k - 1 + i1]
          BY <1>2, <4>2
        <5>2. QED
          BY <4>2, <5>1
      <4>4. t[j] = Turn(island[l], island[l + 1])
        BY <1>3, <3>1, <3>2, <4>3
      <4>5. t[j] = w[l]
        BY <1>5, <3>1, <4>1, <4>4
      <4>6. QED
        BY <4>5 DEF j, l
    <3>5. QED
      BY <3>3, <3>4
  <2> DEFINE c == m + L - k + 1
             b == k - 1
             e == L - k + 1
  <2>2. c \in Nat /\ b \in Nat /\ m <= c /\ c - m = L - b /\ c - m = e
    BY <1>1
  <2>3. \A i \in 1 .. e : t[m + i] = w[b + i]
    BY <2>1
  <2> HIDE DEF c, b, e
  <2>4. \A i \in 1 .. c - m : t[m + i] = w[b + i]
    BY <2>2, <2>3
  <2>5. Alike(t, m, c, w, b, L)
    BY <1>1, <2>2, <2>4 DEF Alike
  <2>6. QED
    BY <2>5 DEF c, b
<1>10. Alike(t, m + L - k + 1, m + L, w, 0, k - 1)
  <2> DEFINE a == m + L - k + 1
  <2>0. a \in Nat /\ a = m + L - k + 1 /\ a + (k - 1) = m + L
    BY <1>1
  <2>1. ASSUME NEW i \in 1 .. k - 1 PROVE t[a + i] = w[0 + i]
    <3> DEFINE j == a + i
    <3>1. /\ j \in 1 .. n /\ j < n /\ i \in 1 .. L /\ i < L /\ i \in Nat /\ 0 + i = i
      BY <1>1
    <3>2. ring[j] = island[i]
      BY <1>2
    <3>3. ring[j + 1] = island[i + 1]
      <4>1. CASE i = k - 1
        <5>1. j + 1 = m + L + 1 /\ i + 1 = k
          BY <1>1, <4>1
        <5> HIDE DEF j
        <5>2. QED
          BY <1>2, <5>1
      <4>2. CASE i # k - 1
        <5> DEFINE i1 == i + 1
        <5>1. i1 \in 1 .. k - 1 /\ j + 1 = m + L - k + 1 + i1
          BY <1>1, <3>1, <4>2
        <5> HIDE DEF j, i1
        <5>2. ring[j + 1] = island[i1]
          BY <1>2, <5>1
        <5>3. QED
          BY <5>2 DEF i1
      <4>3. QED
        BY <4>1, <4>2
    <3> HIDE DEF j
    <3>4. t[j] = Turn(island[i], island[i + 1])
      BY <1>3, <3>1, <3>2, <3>3
    <3>5. t[j] = w[i]
      BY <1>5, <3>1, <3>4
    <3>6. QED
      BY <3>1, <3>5 DEF j
  <2>2. /\ m + L \in Nat /\ k - 1 \in Nat /\ 0 \in Nat /\ a <= m + L
        /\ m + L - a = k - 1 - 0 /\ m + L - a = k - 1
    BY <1>1
  <2> HIDE DEF a
  <2>3. Alike(t, a, m + L, w, 0, k - 1)
    BY <2>0, <2>1, <2>2 DEF Alike
  <2>4. QED
    BY <2>3 DEF a
<1>11. t[m + L + 1] = Turn(island[k], main[m])
  <2> DEFINE j == m + L + 1
  <2>1. j \in 1 .. n /\ j < n /\ j + 1 = m + L + 2
    BY <1>1
  <2>2. ring[j] = island[k]
    BY <1>2
  <2> HIDE DEF j
  <2>3. t[j] = Turn(island[k], main[m])
    BY <1>2, <1>3, <2>1, <2>2
  <2>4. QED
    BY <2>3 DEF j
<1>12. Alike(t, m + L + 1, M + L + 2, u, m - 1, M)
  <2> DEFINE a == m + L + 1
  <2>0. a \in Nat /\ a = m + L + 1
    BY <1>1
  <2>1. ASSUME NEW i \in 1 .. M - m + 1 PROVE t[a + i] = u[m - 1 + i]
    <3> DEFINE j == a + i
               l == m - 1 + i
    <3>1. j \in 1 .. n /\ l \in 1 .. M /\ i \in Nat /\ l \in Nat /\ j \in Nat
      BY <1>1
    <3>2. ring[j] = main[l]
      <4>1. CASE i = 1
        <5>1. j = m + L + 2 /\ l = m
          BY <1>1, <4>1
        <5> HIDE DEF j, l
        <5>2. QED
          BY <1>2, <5>1
      <4>2. CASE i # 1
        <5> DEFINE i1 == i - 1
        <5>1. i1 \in 1 .. M - m /\ j = m + L + 2 + i1 /\ l = m + i1
          BY <1>1, <3>1, <4>2
        <5> HIDE DEF j, l, i1
        <5>2. QED
          BY <1>2, <5>1
      <4>3. QED
        BY <4>1, <4>2
    <3>3. CASE i = M - m + 1
      <4>1. j = n /\ l = M /\ 1 \in 1 .. m
        BY <1>1, <3>3
      <4> HIDE DEF j, l
      <4>2. t[j] = Turn(main[M], main[1])
        BY <1>2, <1>3, <3>2, <4>1
      <4>3. t[j] = u[l]
        BY <1>4, <4>1, <4>2
      <4>4. QED
        BY <4>3 DEF j, l
    <3>4. CASE i # M - m + 1
      <4>1. i \in 1 .. M - m /\ j < n /\ l < M /\ j + 1 = m + L + 2 + i /\ l + 1 = m + i
        BY <1>1, <3>1, <3>4
      <4> HIDE DEF j, l
      <4>2. ring[j + 1] = main[l + 1]
        <5>1. ring[m + L + 2 + i] = main[m + i]
          BY <1>2, <4>1
        <5>2. QED
          BY <4>1, <5>1
      <4>3. t[j] = Turn(main[l], main[l + 1])
        BY <1>3, <3>1, <3>2, <4>1, <4>2
      <4>4. t[j] = u[l]
        BY <1>4, <3>1, <4>1, <4>3
      <4>5. QED
        BY <4>4 DEF j, l
    <3>5. QED
      BY <3>3, <3>4
  <2> DEFINE c == M + L + 2
             b == m - 1
             e == M - m + 1
  <2>2. c \in Nat /\ b \in Nat /\ a <= c /\ c - a = M - b /\ c - a = e
    BY <1>1
  <2>3. \A i \in 1 .. e : t[a + i] = u[b + i]
    BY <2>1
  <2> HIDE DEF a, b, c, e
  <2>4. \A i \in 1 .. c - a : t[a + i] = u[b + i]
    BY <2>2, <2>3
  <2>5. Alike(t, a, c, u, b, M)
    BY <1>1, <2>0, <2>2, <2>4 DEF Alike
  <2>6. QED
    BY <2>5 DEF a, b, c
<1>13. QED
  BY <1>6, <1>7, <1>9, <1>10, <1>11, <1>12 DEF KeyholeEdges, t, u, w

\* A keyhole ring's area is the main ring's and the island's: the slit, there and back,
\* contributes nothing.
LEMMA KeyholeArea ==
  ASSUME NEW main \in Seq(Points), NEW island \in Seq(Points),
         Len(main) >= 3, Len(island) >= 3,
         NEW m \in 1 .. Len(main), NEW k \in 1 .. Len(island),
         NEW ring, KeyholeCorners(ring, main, m, island, k)
  PROVE  DoubledArea(ring) = DoubledArea(main) + DoubledArea(island)
<1> DEFINE M == Len(main)
           L == Len(island)
           n == M + L + 2
           t == EdgesOf(ring)
           u == EdgesOf(main)
           w == EdgesOf(island)
           there == Turn(main[m], island[k])
           back == Turn(island[k], main[m])
<1>1. /\ M \in Nat /\ L \in Nat /\ n \in Nat /\ n = M + L + 2 /\ n >= 3
      /\ m \in Nat /\ 1 <= m /\ m <= M /\ k \in Nat /\ 1 <= k /\ k <= L
  OBVIOUS
<1>2. ring \in Seq(Points) /\ Len(ring) = n
  BY DEF KeyholeCorners
<1>3. PICK g : Running(g, t, n) /\ DoubledArea(ring) = g[n]
  <2>1. \E g \in [0 .. Len(ring) -> Int] : Runs(g, t, Len(ring)) /\ DoubledArea(ring) = g[Len(ring)]
    BY <1>1, <1>2, AreaRuns
  <2>2. t \in [1 .. Len(ring) -> Int]
    BY <1>2, EdgeType
  <2> HIDE DEF t, n
  <2>3. QED
    BY <1>1, <1>2, <2>1, <2>2 DEF Running
<1>4. PICK h : Running(h, u, M) /\ DoubledArea(main) = h[M]
  <2>1. \E h \in [0 .. M -> Int] : Runs(h, u, M) /\ DoubledArea(main) = h[M]
    BY AreaRuns
  <2>2. u \in [1 .. M -> Int]
    BY EdgeType
  <2> HIDE DEF u, M
  <2>3. QED
    BY <1>1, <2>1, <2>2 DEF Running
<1>5. PICK f : Running(f, w, L) /\ DoubledArea(island) = f[L]
  <2>1. \E f \in [0 .. L -> Int] : Runs(f, w, L) /\ DoubledArea(island) = f[L]
    BY AreaRuns
  <2>2. w \in [1 .. L -> Int]
    BY EdgeType
  <2> HIDE DEF w, L
  <2>3. QED
    BY <1>1, <2>1, <2>2 DEF Running
<1>6. KeyholeEdges(t, u, w, m, k, M, L, there, back)
  BY KeyholeEdgesType
<1>7. there \in Int /\ back = -there
  <2>1. main[m] \in Points /\ island[k] \in Points
    OBVIOUS
  <2>2. QED
    BY <2>1, TurnType
<1> HIDE DEF M, L, n, t, u, w, there, back
<1> DEFINE a == m + L - k + 1
           b == m + L
           c == m + L + 1
           p == m - 1
           q == k - 1
<1>8. /\ Alike(t, 0, p, u, 0, p) /\ t[m] = there
      /\ Alike(t, m, a, w, q, L) /\ Alike(t, a, b, w, 0, q)
      /\ t[c] = back /\ Alike(t, c, n, u, p, M)
  BY <1>1, <1>6 DEF KeyholeEdges
<1>9. /\ p \in 0 .. n /\ p \in 0 .. M /\ a \in 0 .. n /\ b \in 0 .. n /\ c \in 0 .. n
      /\ n \in 0 .. n /\ m \in 0 .. n /\ q \in 0 .. L /\ L \in 0 .. L /\ M \in 0 .. M
      /\ 0 \in 0 .. n /\ 0 \in 0 .. M /\ 0 \in 0 .. L
      /\ m \in 1 .. n /\ c \in 1 .. n /\ m - 1 = p /\ c - 1 = b
  BY <1>1
<1> HIDE DEF a, b, c, p, q
<1>10. /\ Rises(g, 0, p, h, 0, p) /\ Rises(g, m, a, f, q, L) /\ Rises(g, a, b, f, 0, q)
       /\ Rises(g, c, n, h, p, M)
  <2>1. Rises(g, 0, p, h, 0, p)
    BY <1>3, <1>4, <1>8, <1>9, Stretch
  <2>2. Rises(g, m, a, f, q, L)
    BY <1>3, <1>5, <1>8, <1>9, Stretch
  <2>3. Rises(g, a, b, f, 0, q)
    BY <1>3, <1>5, <1>8, <1>9, Stretch
  <2>4. Rises(g, c, n, h, p, M)
    BY <1>3, <1>4, <1>8, <1>9, Stretch
  <2>5. QED
    BY <2>1, <2>2, <2>3, <2>4
<1>11. /\ g[m] = g[p] + there /\ g[c] = g[b] + back
       /\ g[0] = 0 /\ h[0] = 0 /\ f[0] = 0
  BY <1>3, <1>4, <1>5, <1>8, <1>9 DEF Running, Runs
<1>12. /\ g[p] \in Int /\ g[m] \in Int /\ g[a] \in Int /\ g[b] \in Int /\ g[c] \in Int
       /\ g[n] \in Int /\ h[p] \in Int /\ h[M] \in Int /\ f[q] \in Int /\ f[L] \in Int
  BY <1>3, <1>4, <1>5, <1>9 DEF Running
<1> DEFINE gp == g[p]
           gm == g[m]
           ga == g[a]
           gb == g[b]
           gc == g[c]
           gn == g[n]
           hp == h[p]
           hM == h[M]
           fq == f[q]
           fL == f[L]
<1>13. /\ gp - 0 = hp - 0 /\ ga - gm = fL - fq /\ gb - ga = fq - 0 /\ gn - gc = hM - hp
       /\ gm = gp + there /\ gc = gb + back
  BY <1>10, <1>11 DEF Rises
<1>14. /\ gp \in Int /\ gm \in Int /\ ga \in Int /\ gb \in Int /\ gc \in Int /\ gn \in Int
       /\ hp \in Int /\ hM \in Int /\ fq \in Int /\ fL \in Int
  BY <1>12
<1> HIDE DEF gp, gm, ga, gb, gc, gn, hp, hM, fq, fL
<1>15. gn = hM + fL
  BY <1>7, <1>13, <1>14
<1>16. QED
  BY <1>3, <1>4, <1>5, <1>15 DEF gn, hM, fL

LEMMA MergeKeepsTotal ==
  ASSUME NEW compound \in Seq(Paths)
  PROVE  Total(MergeTinyIslands(compound)) = Total(compound)
<1> DEFINE n == Len(compound)
           infos == ClassifySubpaths(compound)
           main == MainBody(infos)
           A == Areas(compound)
<1>1. CASE compound = <<>>
  <2>1. Describes(infos, compound)
    BY Classified
  <2>2. infos = <<>>
    BY <1>1, <2>1 DEF Describes
  <2>3. MergeTinyIslands(compound) = compound
    BY <2>2 DEF MergeTinyIslands
  <2>4. QED
    BY <2>3
<1>2. CASE compound # <<>>
  <2>1. PICK m \in 1 .. n : main = infos[m] /\ infos[m].index = m
    BY <1>2, MainBodyType
  <2>2. PICK g : Merges(g, infos, compound, main)
    BY <1>2, MergesStepByStep
  <2>3. Describes(infos, compound)
    BY Classified
  <2>4. PICK h \in [0 .. n -> Int] : Runs(h, A, n) /\ Total(compound) = h[n]
    BY TotalRuns
  <2>5. /\ n \in Nat /\ n # 0
        /\ \A i \in 1 .. n : /\ A[i] = Area(compound[i]) /\ A[i] \in Int
                             /\ compound[i] \in Paths
    <3>1. A \in [1 .. n -> Int] /\ \A i \in 1 .. n : A[i] = Area(compound[i])
      BY AreasType
    <3> HIDE DEF A
    <3>2. QED
      BY <1>2, <3>1
  <2> HIDE DEF infos, main, A
  <2>6. \A i \in 1 .. n :
            /\ infos[i].index = i /\ infos[i].ring \in Seq(Points)
            /\ DoubledArea(infos[i].ring) = A[i]
    BY <2>3, <2>5 DEF Describes, Area
  <2> HIDE DEF n
  <2>7. /\ g[0] = [kept |-> <<>>, ring |-> main.ring, merged |-> FALSE]
        /\ \A k \in 0 .. n : g[k] \in Gathered(compound, main)
        /\ \A k \in 1 .. n : Step(g[k - 1], g[k], infos[k], compound, main)
        /\ MergeTinyIslands(compound) =
               <<IF g[n].merged THEN PolygonPath(g[n].ring, TRUE) ELSE compound[main.index]>>
                   \o g[n].kept
    BY <2>2 DEF Merges, n
  <2>8. /\ m \in Nat /\ m \in 1 .. n /\ main.index = m /\ main.ring \in Seq(Points)
        /\ DoubledArea(main.ring) = A[m] /\ A[m] \in Int
        /\ main.ring = infos[m].ring
    <3>1. m \in 1 .. n /\ m \in Nat
      BY <2>1 DEF n
    <3>2. QED
      BY <2>1, <2>5, <2>6, <3>1
  <2>9. ASSUME NEW k \in 0 .. n
        PROVE  /\ g[k].kept \in Seq(Paths) /\ g[k].ring \in Seq(Points)
               /\ Total(g[k].kept) \in Int /\ DoubledArea(g[k].ring) \in Int
    <3>1. g[k].kept \in Seq(Paths) /\ g[k].ring \in Seq(Points)
      BY <2>7 DEF Gathered
    <3> DEFINE s == g[k].kept
               r == g[k].ring
    <3>2. s \in Seq(Paths) /\ r \in Seq(Points)
      BY <3>1
    <3> HIDE DEF s, r
    <3>3. DoubledArea(r) \in Int
      BY <3>2, AreaType
    <3>4. Total(s) \in Int
      <4>1. compound[m] \in Paths
        BY <2>5, <2>8
      <4>2. QED
        BY <3>2, <4>1, TotalAppend
    <3>5. QED
      BY <3>2, <3>3, <3>4 DEF s, r
  <2> DEFINE Left(k) == IF m <= k THEN 0 ELSE A[m]
             Even(k) == /\ DoubledArea(g[k].ring) + Total(g[k].kept) = h[k] + Left(k)
                        /\ g[k].merged \/ g[k].ring = main.ring
             P == {k \in Nat : k <= n => Even(k)}
  <2>10. 0 \in P
    <3>1. g[0].ring = main.ring /\ g[0].kept = <<>> /\ h[0] = 0 /\ ~(m <= 0)
      BY <2>4, <2>7, <2>8 DEF Runs
    <3>2. DoubledArea(main.ring) + 0 = 0 + A[m]
      BY <2>8
    <3>3. Even(0)
      BY <3>1, <3>2, TotalEmpty
    <3>4. QED
      BY <3>3
  <2>11. ASSUME NEW k \in Nat, k \in P PROVE k + 1 \in P
    <3>0. k + 1 \in Nat
      OBVIOUS
    <3>1. SUFFICES ASSUME k + 1 <= n PROVE Even(k + 1)
      BY <3>0
    <3> DEFINE K == k + 1
               acc == g[k]
               next == g[K]
               here == infos[K]
               e == A[K]
    <3>2. K \in 1 .. n /\ K - 1 = k /\ k <= n /\ k \in 0 .. n /\ K \in 0 .. n /\ K = k + 1
      BY <2>5, <3>1
    <3>3. Even(k)
      BY <2>11, <3>2
    <3>4. /\ Step(acc, next, here, compound, main) /\ here.index = K
          /\ here.ring \in Seq(Points) /\ DoubledArea(here.ring) = e
          /\ e \in Int /\ e = Area(compound[K]) /\ compound[K] \in Paths
      <4>1. Step(g[K - 1], g[K], infos[K], compound, main)
        BY <2>7, <3>2
      <4> HIDE DEF K
      <4>2. /\ infos[K].index = K /\ infos[K].ring \in Seq(Points)
            /\ DoubledArea(infos[K].ring) = A[K]
            /\ A[K] = Area(compound[K]) /\ A[K] \in Int /\ compound[K] \in Paths
        BY <2>5, <2>6, <3>2
      <4>3. QED
        BY <3>2, <4>1, <4>2
    <3>5. /\ acc.kept \in Seq(Paths) /\ acc.ring \in Seq(Points)
          /\ Total(acc.kept) \in Int /\ DoubledArea(acc.ring) \in Int
          /\ h[k] \in Int /\ h[K] = h[k] + e
      <4>1. h[K] = h[K - 1] + A[K]
        BY <2>4, <3>2 DEF Runs
      <4>2. h[k] \in Int
        BY <2>4, <3>2
      <4> HIDE DEF K
      <4>3. h[K] = h[k] + e
        BY <3>2, <4>1
      <4>4. QED
        BY <2>9, <3>2, <4>2, <4>3
    <3>6. /\ DoubledArea(acc.ring) + Total(acc.kept) = h[k] + Left(k)
          /\ acc.merged \/ acc.ring = main.ring
      BY <3>3
    <3> HIDE DEF Even, P
    <3>7. SUFFICES /\ DoubledArea(next.ring) + Total(next.kept) = h[K] + Left(K)
                   /\ next.merged \/ next.ring = main.ring
      BY DEF Even
    <3>8. Left(k) \in Int /\ Left(K) \in Int /\ (K # m => Left(K) = Left(k))
          /\ (K = m => Left(K) = 0 /\ Left(k) = e)
      BY <2>8, <3>2
    <3> HIDE DEF K, acc, next, here, e, Left
    <3> DEFINE ra == DoubledArea(acc.ring)
               rn == DoubledArea(next.ring)
               ta == Total(acc.kept)
               tn == Total(next.kept)
               hk == h[k]
               hK == h[K]
               lk == Left(k)
               lK == Left(K)
    <3>9. /\ ra \in Int /\ ta \in Int /\ hk \in Int /\ lk \in Int /\ e \in Int /\ lK \in Int
          /\ ra + ta = hk + lk /\ hK = hk + e
          /\ (K # m => lK = lk) /\ (K = m => lK = 0 /\ lk = e)
      BY <3>4, <3>5, <3>6, <3>8
    <3>10. CASE K = m
      <4>1. next = acc
        BY <2>8, <3>4, <3>10 DEF Step
      <4>2. rn = ra /\ tn = ta
        BY <4>1
      <4> HIDE DEF ra, rn, ta, tn, hk, hK, lk, lK
      <4>3. rn + tn = hK + lK
        BY <3>9, <3>10, <4>2
      <4>4. QED
        BY <3>6, <4>1, <4>3 DEF rn, tn, hK, lK
    <3>11. CASE K # m /\ Reaches(acc, here)
      <4> DEFINE near == NearestCorners(acc.ring, here.ring)
      <4>1. /\ next.kept = acc.kept /\ next.merged = TRUE
            /\ KeyholeCorners(next.ring, acc.ring, near[1], here.ring, near[2])
            /\ near[1] \in 1 .. Len(acc.ring) /\ near[2] \in 1 .. Len(here.ring)
            /\ Len(acc.ring) >= 3 /\ Len(here.ring) >= 3
        BY <2>8, <3>4, <3>11 DEF Step
      <4>2. rn = ra + e
        <5> DEFINE r == acc.ring
                   s == here.ring
                   x == next.ring
                   i == near[1]
                   j == near[2]
        <5>1. /\ r \in Seq(Points) /\ s \in Seq(Points) /\ Len(r) >= 3 /\ Len(s) >= 3
              /\ i \in 1 .. Len(r) /\ j \in 1 .. Len(s) /\ KeyholeCorners(x, r, i, s, j)
              /\ DoubledArea(s) = e
          BY <3>4, <3>5, <4>1
        <5> HIDE DEF r, s, x, i, j
        <5>2. DoubledArea(x) = DoubledArea(r) + DoubledArea(s)
          BY <5>1, KeyholeArea
        <5>3. QED
          BY <5>1, <5>2 DEF r, x
      <4>3. tn = ta
        BY <4>1
      <4> HIDE DEF ra, rn, ta, tn, hk, hK, lk, lK
      <4>4. rn + tn = hK + lK
        BY <3>9, <3>11, <4>2, <4>3
      <4>5. QED
        BY <4>1, <4>4 DEF rn, tn, hK, lK
    <3>12. CASE K # m /\ ~Reaches(acc, here)
      <4>1. /\ next.ring = acc.ring /\ next.merged = acc.merged
            /\ next.kept = Append(acc.kept, compound[K])
        BY <2>8, <3>4, <3>12 DEF Step
      <4>2. tn = ta + e
        <5> DEFINE s == acc.kept
                   path == compound[K]
        <5>1. s \in Seq(Paths) /\ path \in Paths /\ next.kept = Append(s, path) /\ e = Area(path)
          BY <3>4, <3>5, <4>1
        <5> HIDE DEF s, path
        <5>2. Total(Append(s, path)) = Total(s) + Area(path)
          BY <5>1, TotalAppend
        <5>3. QED
          BY <5>1, <5>2 DEF s
      <4>3. rn = ra
        BY <4>1
      <4> HIDE DEF ra, rn, ta, tn, hk, hK, lk, lK
      <4>4. rn + tn = hK + lK
        BY <3>9, <3>12, <4>2, <4>3
      <4>5. QED
        BY <3>6, <4>1, <4>4 DEF rn, tn, hK, lK
    <3>13. QED
      BY <3>10, <3>11, <3>12
  <2> HIDE DEF P
  <2>12. n \in P
    BY <2>5, <2>10, <2>11, Induction
  <2>13. /\ DoubledArea(g[n].ring) + Total(g[n].kept) = h[n]
         /\ g[n].merged \/ g[n].ring = main.ring
    <3>1. Even(n) /\ Left(n) = 0 /\ h[n] \in Int
      BY <2>4, <2>5, <2>8, <2>12 DEF P
    <3>2. DoubledArea(g[n].ring) + Total(g[n].kept) = h[n] + 0
      BY <3>1
    <3> HIDE DEF Left
    <3>3. QED
      BY <3>1, <3>2
  <2> HIDE DEF Even
  <2> DEFINE ring == g[n].ring
             kept == g[n].kept
             body == IF g[n].merged THEN PolygonPath(ring, TRUE) ELSE compound[main.index]
  <2>14. /\ ring \in Seq(Points) /\ kept \in Seq(Paths)
         /\ DoubledArea(ring) \in Int /\ Total(kept) \in Int
    BY <2>5, <2>9
  <2>15. body \in Paths /\ Area(body) = DoubledArea(ring)
    <3>1. CASE g[n].merged
      <4>1. ring # <<>>
        <5>1. g[n].merged => main.area > 0
          BY <2>5, <2>7 DEF Gathered
        <5>2. infos[m].area > 0 => Len(infos[m].ring) >= 3
          BY <2>3, <2>8 DEF Describes, n
        <5>3. Len(main.ring) >= 3 /\ Len(main.ring) \in Nat
          BY <2>1, <2>8, <3>1, <5>1, <5>2
        <5>4. Len(ring) >= Len(main.ring)
          BY <2>5, <2>7 DEF Gathered
        <5>5. Len(ring) \in Nat
          BY <2>14
        <5>6. Len(ring) # 0
          BY <5>3, <5>4, <5>5
        <5>7. QED
          BY <5>6
      <4>2. body = PolygonPath(ring, TRUE)
        BY <3>1
      <4> HIDE DEF body, ring
      <4>3. body \in Drawings(Points)
        BY <2>14, <4>1, <4>2, PolygonPathType
      <4>4. Ring(body) = ring
        BY <2>14, <4>1, <4>2, PolygonRing
      <4>5. QED
        BY <4>3, <4>4, DrawingsOfPoints DEF Area
    <3>2. CASE ~g[n].merged
      <4>1. body = compound[m] /\ ring = main.ring
        BY <2>8, <2>13, <3>2
      <4> HIDE DEF body, ring
      <4>2. QED
        BY <2>5, <2>8, <4>1
    <3>3. QED
      BY <3>1, <3>2
  <2>16. MergeTinyIslands(compound) = <<body>> \o kept
    BY <2>7
  <2> HIDE DEF body, kept, ring
  <2>17. Total(<<body>> \o kept) = Area(body) + Total(kept)
    BY <2>14, <2>15, TotalAppend
  <2>18. DoubledArea(ring) + Total(kept) = h[n]
    BY <2>13 DEF ring, kept
  <2>19. QED
    BY <2>4, <2>15, <2>16, <2>17, <2>18
<1>3. QED
  BY <1>1, <1>2

\* Merging islands neither adds nor loses area, however many are spliced in, in whatever
\* order and from whichever corners (repair.py's merge_tiny_islands).
THEOREM MergingKeepsAllArea == Spec => []MergingKeepsTheArea
<1>1. RepairInv => MergingKeepsTheArea
  <2> SUFFICES ASSUME RepairInv, Merged PROVE Total(merged) = Total(cleaned)
    BY DEF MergingKeepsTheArea, Total
  <2>1. cleaned \in Seq(Paths) /\ merged = MergeTinyIslands(cleaned)
    BY Versions DEF RepairInv
  <2>2. QED
    BY <2>1, MergeKeepsTotal
<1>2. QED
  BY <1>1, RepairInvariance, PTL
-----------------------------------------------------------------------------
(* Reversal: of a sequence, of what a path visits, and of a ring.           *)

\* A reversed sequence, element by element.
LEMMA ReverseElements ==
  ASSUME NEW S, NEW s \in Seq(S)
  PROVE  /\ Reverse(s) \in Seq(S) /\ Len(Reverse(s)) = Len(s)
         /\ \A i \in 1 .. Len(s) : Reverse(s)[i] = s[(Len(s) - i) + 1]
<1> DEFINE n == Len(s)
           r == Reverse(s)
<1>1. n \in Nat /\ \A i \in 1 .. n : (n - i) + 1 \in 1 .. n /\ s[i] \in S
  OBVIOUS
<1>2. r = [i \in 1 .. n |-> s[(n - i) + 1]]
  BY DEF Reverse
<1> HIDE DEF n, r
<1>3. r \in [1 .. n -> S]
  BY <1>1, <1>2
<1>4. r \in Seq(S) /\ Len(r) = n
  BY <1>1, <1>2, <1>3
<1>5. QED
  BY <1>2, <1>4 DEF n, r

\* A concatenation is reversed part by part, the last part first.
LEMMA ReverseConcat ==
  ASSUME NEW S, NEW s \in Seq(S), NEW t \in Seq(S)
  PROVE  Reverse(s \o t) = Reverse(t) \o Reverse(s)
<1> DEFINE m == Len(s)
           n == Len(t)
           a == Reverse(s \o t)
           b == Reverse(t) \o Reverse(s)
<1>1. m \in Nat /\ n \in Nat
  OBVIOUS
<1>2. /\ s \o t \in Seq(S) /\ Len(s \o t) = m + n
      /\ \A k \in 1 .. m + n : (s \o t)[k] = IF k <= m THEN s[k] ELSE t[k - m]
  BY ConcatElements
<1>3. /\ a \in Seq(S) /\ Len(a) = m + n
      /\ \A i \in 1 .. m + n : a[i] = (s \o t)[((m + n) - i) + 1]
  <2> DEFINE c == s \o t
  <2>1. c \in Seq(S) /\ Len(c) = m + n
    BY <1>2
  <2> HIDE DEF c
  <2>2. /\ Reverse(c) \in Seq(S) /\ Len(Reverse(c)) = Len(c)
        /\ \A i \in 1 .. Len(c) : Reverse(c)[i] = c[(Len(c) - i) + 1]
    BY <2>1, ReverseElements
  <2>3. QED
    BY <2>1, <2>2 DEF c
<1>4. /\ Reverse(s) \in Seq(S) /\ Len(Reverse(s)) = m
      /\ \A i \in 1 .. m : Reverse(s)[i] = s[(m - i) + 1]
  BY ReverseElements
<1>5. /\ Reverse(t) \in Seq(S) /\ Len(Reverse(t)) = n
      /\ \A i \in 1 .. n : Reverse(t)[i] = t[(n - i) + 1]
  BY ReverseElements
<1>6. /\ b \in Seq(S) /\ Len(b) = n + m
      /\ \A k \in 1 .. n + m : b[k] = IF k <= n THEN Reverse(t)[k] ELSE Reverse(s)[k - n]
  <2> DEFINE c == Reverse(t)
             d == Reverse(s)
  <2>1. c \in Seq(S) /\ d \in Seq(S) /\ Len(c) = n /\ Len(d) = m
    BY <1>4, <1>5
  <2> HIDE DEF c, d, m, n
  <2>2. /\ c \o d \in Seq(S) /\ Len(c \o d) = n + m
        /\ \A k \in 1 .. n + m : (c \o d)[k] = IF k <= n THEN c[k] ELSE d[k - n]
    BY ONLY <2>1, ConcatElements
  <2>3. QED
    BY <2>2 DEF c, d
<1> HIDE DEF m, n, a, b
<1>7. ASSUME NEW i \in 1 .. m + n PROVE a[i] = b[i]
  <2> DEFINE j == ((m + n) - i) + 1
  <2>1. j \in 1 .. m + n /\ i \in 1 .. n + m
    BY <1>1
  <2>2. a[i] = IF j <= m THEN s[j] ELSE t[j - m]
    BY <1>2, <1>3, <2>1
  <2>3. CASE i <= n
    <3>1. i \in 1 .. n /\ ~(j <= m) /\ j - m = (n - i) + 1
      BY <1>1, <2>3
    <3>2. b[i] = t[(n - i) + 1]
      BY <1>5, <1>6, <2>1, <3>1
    <3>3. QED
      BY <2>2, <3>1, <3>2
  <2>4. CASE ~(i <= n)
    <3>1. i - n \in 1 .. m /\ j <= m /\ j = (m - (i - n)) + 1
      BY <1>1, <2>4
    <3>2. b[i] = Reverse(s)[i - n]
      BY <1>6, <2>1, <2>4
    <3>3. b[i] = s[(m - (i - n)) + 1]
      BY <1>4, <3>1, <3>2
    <3>4. QED
      BY <2>2, <3>1, <3>3
  <2>5. QED
    BY <2>3, <2>4
<1>8. Len(a) = Len(b) /\ \A i \in 1 .. Len(a) : a[i] = b[i]
  BY <1>1, <1>3, <1>6, <1>7
<1>9. a = b
  BY <1>3, <1>6, <1>8, SeqEqual
<1>10. QED
  BY <1>9 DEF a, b

LEMMA ReverseOne ==
  ASSUME NEW S, NEW e \in S
  PROVE  <<e>> \in Seq(S) /\ Reverse(<<e>>) = <<e>>
<1>1. <<e>> \in Seq(S) /\ Len(<<e>>) = 1 /\ <<e>>[1] = e
  OBVIOUS
<1>2. /\ Reverse(<<e>>) \in Seq(S) /\ Len(Reverse(<<e>>)) = 1
      /\ \A i \in 1 .. 1 : Reverse(<<e>>)[i] = <<e>>[(1 - i) + 1]
  BY <1>1, ReverseElements
<1>3. Len(Reverse(<<e>>)) = Len(<<e>>)
      /\ \A i \in 1 .. Len(Reverse(<<e>>)) : Reverse(<<e>>)[i] = <<e>>[i]
  BY <1>1, <1>2
<1>4. QED
  BY <1>1, <1>2, <1>3, SeqEqual

\* What is flattened, from the empty prefix on.
JoinedUpTo(g, seqs, n) ==
    g[0] = <<>> /\ \A k \in 1 .. n : g[k] = g[k - 1] \o seqs[k]

LEMMA FlattenPrefixes ==
  ASSUME NEW S, NEW n \in Nat, n # 0, NEW seqs, seqs = [i \in 1 .. n |-> seqs[i]],
         \A i \in 1 .. n : seqs[i] \in Seq(S)
  PROVE  \E g : /\ JoinedUpTo(g, seqs, n) /\ FlattenSeq(seqs) = g[n]
                /\ \A k \in 0 .. n : g[k] \in Seq(S)
<1>1. PICK f : Flattens(f, seqs, n) /\ FlattenSeq(seqs) = f[n]
  <2>1. Len(seqs) = n
    OBVIOUS
  <2>2. QED
    BY <2>1, FlattenSeqFlattens
<1>2. \A i \in 1 .. n : f[i] = IF i = 1 THEN seqs[i] ELSE f[i - 1] \o seqs[i]
  BY <1>1 DEF Flattens
<1> DEFINE g == [k \in 0 .. n |-> IF k = 0 THEN <<>> ELSE f[k]]
<1>3. g[0] = <<>> /\ \A k \in 1 .. n : g[k] = f[k]
  OBVIOUS
<1> HIDE DEF g
<1>4. ASSUME NEW k \in 1 .. n PROVE g[k] = g[k - 1] \o seqs[k]
  <2>1. CASE k = 1
    <3>1. k - 1 = 0 /\ g[k] = seqs[k]
      BY <1>2, <1>3, <2>1
    <3>2. <<>> \o seqs[k] = seqs[k]
      BY ConcatEmptySeq
    <3>3. QED
      BY <1>3, <3>1, <3>2
  <2>2. CASE k # 1
    <3>1. k - 1 \in 1 .. n
      BY <2>2
    <3>2. QED
      BY <1>2, <1>3, <2>2, <3>1
  <2>3. QED
    BY <2>1, <2>2
<1> DEFINE P == {k \in Nat : k <= n => g[k] \in Seq(S)}
<1>5. 0 \in P
  BY <1>3, EmptySeq
<1>6. ASSUME NEW k \in Nat, k \in P PROVE k + 1 \in P
  <2>0. k + 1 \in Nat
    OBVIOUS
  <2>1. SUFFICES ASSUME k + 1 <= n PROVE g[k + 1] \in Seq(S)
    BY <2>0
  <2>2. k + 1 \in 1 .. n /\ (k + 1) - 1 = k /\ k <= n
    BY <2>1
  <2>3. g[k + 1] = g[k] \o seqs[k + 1] /\ seqs[k + 1] \in Seq(S)
    BY <1>4, <2>2
  <2>4. g[k] \in Seq(S)
    BY <1>6, <2>2
  <2>5. QED
    BY <2>3, <2>4, ConcatElements
<1> HIDE DEF P
<1>7. \A k \in Nat : k \in P
  BY <1>5, <1>6, Induction
<1>8. \A k \in 0 .. n : g[k] \in Seq(S)
  BY <1>7 DEF P
<1>9. FlattenSeq(seqs) = g[n]
  BY <1>1, <1>3
<1>10. QED
  BY <1>3, <1>4, <1>8, <1>9 DEF JoinedUpTo

\* The other path goes back along the one.
TurnsBack(path, back) ==
    /\ Len(back.segments) = Len(path.segments)
    /\ \A i \in 1 .. Len(path.segments) :
          back.segments[i] = ReverseSegment(path.segments[(Len(path.segments) - i) + 1])

Linked(path) ==
    \A i \in 1 .. Len(path.segments) - 1 : path.segments[i].end = path.segments[i + 1].start

LEMMA NonEmptyFront ==
  ASSUME NEW s \in Segments
  PROVE  FlattenSegment(s) # <<>>
<1> DEFINE a == s.start
           v == s.via
<1>1. a \in Points /\ v \in Seq(Points)
  BY SegmentParts
<1>2. FlattenSegment(s) = <<a>> \o v
  BY DEF FlattenSegment
<1> HIDE DEF a, v
<1>3. <<a>> \in Seq(Points) /\ Len(<<a>>) = 1 /\ Len(v) \in Nat
  BY <1>1
<1>4. Len(<<a>> \o v) = 1 + Len(v) /\ <<a>> \o v \in Seq(Points)
  BY <1>1, <1>3, ConcatElements
<1>5. <<a>> \o v # <<>>
  BY <1>3, <1>4
<1>6. QED
  BY <1>2, <1>5

\* A segment, and the same segment backwards, are flattened to the same points.
LEMMA FlattenSegmentBack ==
  ASSUME NEW s \in Segments
  PROVE  /\ FlattenSegment(s) = <<s.start>> \o s.via
         /\ FlattenSegment(ReverseSegment(s)) = <<s.end>> \o Reverse(s.via)
         /\ <<s.start>> \o s.via \in Seq(Points) /\ <<s.end>> \o Reverse(s.via) \in Seq(Points)
         /\ (<<s.end>> \o Reverse(s.via)) \o <<s.start>> = <<s.end>> \o Reverse(<<s.start>> \o s.via)
         /\ Reverse(<<s.start>> \o s.via) \in Seq(Points)
         /\ (<<s.start>> \o s.via)[1] = s.start
<1> DEFINE v == s.via
           a == s.start
           b == s.end
<1>1. a \in Points /\ b \in Points /\ v \in Seq(Points)
  BY SegmentParts
<1>2. ReverseSegment(s).start = b /\ ReverseSegment(s).via = Reverse(v)
  BY DEF ReverseSegment, Segments
<1>3. FlattenSegment(s) = <<a>> \o v /\ FlattenSegment(ReverseSegment(s)) = <<b>> \o Reverse(v)
  BY <1>2 DEF FlattenSegment
<1> HIDE DEF a, b, v
<1>4. <<a>> \in Seq(Points) /\ <<b>> \in Seq(Points) /\ Reverse(<<a>>) = <<a>>
  BY <1>1, ReverseOne
<1>5. Reverse(v) \in Seq(Points)
  BY <1>1, ReverseElements
<1>6. <<a>> \o v \in Seq(Points) /\ <<b>> \o Reverse(v) \in Seq(Points)
  BY <1>1, <1>4, <1>5, ConcatElements
<1>7. Reverse(<<a>> \o v) = Reverse(v) \o <<a>>
  BY <1>1, <1>4, ReverseConcat
<1>8. (<<b>> \o Reverse(v)) \o <<a>> = <<b>> \o (Reverse(v) \o <<a>>)
  BY <1>4, <1>5, ConcatAssociative
<1>9. Reverse(<<a>> \o v) \in Seq(Points)
  BY <1>6, ReverseElements
<1>10. (<<a>> \o v)[1] = a
  <2>1. Len(<<a>>) = 1 /\ <<a>>[1] = a /\ Len(v) \in Nat
    BY <1>1
  <2>2. 1 \in 1 .. Len(<<a>>) + Len(v) /\ 1 <= Len(<<a>>)
    BY <2>1
  <2>3. QED
    BY <1>1, <1>4, <2>1, <2>2, ConcatElements
<1>11. QED
  BY <1>3, <1>6, <1>7, <1>8, <1>9, <1>10 DEF a, b, v

\* The laws of concatenation, for points and by another name: the provers' own theory of
\* sequences does not get in the way of an operator they know nothing else of.
Join(x, y) == x \o y

LEMMA PointsRegroup ==
  \A x \in Seq(Points), y \in Seq(Points), z \in Seq(Points) :
      Join(Join(x, y), z) = Join(x, Join(y, z))
BY ConcatAssociative DEF Join

LEMMA PointsReverse ==
  \A x \in Seq(Points), y \in Seq(Points) : Join(Reverse(y), Reverse(x)) = Reverse(Join(x, y))
BY ReverseConcat DEF Join

\* The points `front` of a segment from a to b, and those of the same segment backwards,
\* between the points p before it and X after it, and the points q of the way back to b.
Joint(p, q, X, front, back, a, b) ==
    /\ p \in Seq(Points) /\ q \in Seq(Points) /\ X \in Seq(Points) /\ X # <<>>
    /\ front \in Seq(Points) /\ front # <<>> /\ back \in Seq(Points)
    /\ a \in Points /\ b \in Points
    /\ back \o <<a>> = <<b>> \o Reverse(front)
    /\ q \o <<b>> = Reverse(X)

Joined(p, q, X, front, back, a) ==
    /\ front \o X \in Seq(Points) /\ front \o X # <<>> /\ (front \o X)[1] = front[1]
    /\ (p \o front) \o X = p \o (front \o X)
    /\ (q \o back) \o <<a>> = Reverse(front \o X)

LEMMA OneMoreJoined ==
  ASSUME NEW p, NEW q, NEW X, NEW front, NEW back, NEW a, NEW b,
         Joint(p, q, X, front, back, a, b)
  PROVE  Joined(p, q, X, front, back, a)
<1> USE DEF Joint
<1> DEFINE s == <<a>>
           t == <<b>>
           r == Reverse(front)
           y == Reverse(X)
<1>1. s \in Seq(Points) /\ t \in Seq(Points)
  OBVIOUS
<1>2. r \in Seq(Points)
  BY ReverseElements
<1>3. Join(back, s) = Join(t, r) /\ Join(q, t) = y
  BY DEF Join
<1>4. front \o X \in Seq(Points) /\ front \o X # <<>> /\ (front \o X)[1] = front[1]
  BY ConcatEnds
<1> HIDE DEF s, t, r
<1>5. Join(Join(p, front), X) = Join(p, Join(front, X))
  BY PointsRegroup
<1>6. Join(Join(q, back), s) = Join(q, Join(back, s))
  BY <1>1, PointsRegroup
<1>7. Join(Join(q, t), r) = Join(q, Join(t, r))
  BY <1>1, <1>2, PointsRegroup
<1>8. Join(y, r) = Reverse(Join(front, X))
  BY PointsReverse DEF r
<1> HIDE DEF y
<1>9. Join(Join(q, back), s) = Reverse(Join(front, X))
  BY ONLY <1>3, <1>6, <1>7, <1>8
<1>10. (q \o back) \o s = Reverse(front \o X) /\ (p \o front) \o X = p \o (front \o X)
  BY ONLY <1>5, <1>9 DEF Join
<1>11. QED
  BY <1>4, <1>10 DEF s, Joined

\* The points from the segment before which `rest` of them are left, X, and those that the
\* path back has visited by then.
Behind(X, F, g, h, path, k) ==
    LET n == Len(path.segments)
    IN  /\ X \in Seq(Points) /\ X # <<>>
        /\ F = g[n - k] \o X
        /\ h[k] \o <<X[1]>> = Reverse(X)
        /\ k < n => X[1] = path.segments[n - k].end

LEMMA BehindOneMore ==
  ASSUME NEW path \in Paths, Linked(path), NEW F, NEW g, NEW h, NEW X, NEW k \in Nat,
         k + 1 <= Len(path.segments),
         Behind(X, F, g, h, path, k),
         NEW j, j = Len(path.segments) - k, NEW s, s = path.segments[j],
         g[j - 1] \in Seq(Points), h[k] \in Seq(Points),
         g[j] = g[j - 1] \o FlattenSegment(s),
         h[k + 1] = h[k] \o FlattenSegment(ReverseSegment(s))
  PROVE  Behind(FlattenSegment(s) \o X, F, g, h, path, k + 1)
<1> DEFINE n == Len(path.segments)
           front == FlattenSegment(s)
           back == FlattenSegment(ReverseSegment(s))
           Y == front \o X
<1>1. n \in Nat /\ path.segments \in Seq(Segments)
  BY PathParts
<1>2. j \in 1 .. n /\ j = n - k /\ j - 1 = n - (k + 1) /\ k < n
  BY <1>1
<1>3. s \in Segments
  BY <1>1, <1>2
<1>4. /\ X \in Seq(Points) /\ X # <<>> /\ F = g[j] \o X
      /\ h[k] \o <<X[1]>> = Reverse(X) /\ X[1] = s.end
  BY <1>2 DEF Behind
<1>5. /\ front = <<s.start>> \o s.via /\ front \in Seq(Points)
      /\ back \in Seq(Points)
      /\ back \o <<s.start>> = <<s.end>> \o Reverse(front)
      /\ Reverse(front) \in Seq(Points) /\ front[1] = s.start
  BY <1>3, FlattenSegmentBack
<1>6. s.start \in Points /\ s.end \in Points
  BY <1>3, SegmentParts
<1>7. front # <<>>
  BY <1>3, NonEmptyFront
<1> HIDE DEF front, back, n
<1>8. /\ Y \in Seq(Points) /\ Y # <<>> /\ Y[1] = s.start
      /\ (g[j - 1] \o front) \o X = g[j - 1] \o Y
      /\ (h[k] \o back) \o <<s.start>> = Reverse(Y)
  <2>1. Joint(g[j - 1], h[k], X, front, back, s.start, s.end)
    BY <1>4, <1>5, <1>6, <1>7 DEF Joint
  <2>2. Joined(g[j - 1], h[k], X, front, back, s.start)
    BY ONLY <2>1, OneMoreJoined
  <2>3. QED
    BY <1>5, <2>2 DEF Joined
<1> HIDE DEF Y
<1>9. F = g[j - 1] \o Y
  <2>1. g[j] = g[j - 1] \o front
    BY DEF front
  <2>2. QED
    BY ONLY <1>4, <1>8, <2>1
<1>10. h[k + 1] \o <<s.start>> = Reverse(Y)
  <2>1. h[k + 1] = h[k] \o back
    BY DEF back
  <2>2. QED
    BY ONLY <1>8, <2>1
<1>11. k + 1 < n => Y[1] = path.segments[n - (k + 1)].end
  <2>1. SUFFICES ASSUME k + 1 < n PROVE s.start = path.segments[j - 1].end
    BY <1>2, <1>8
  <2>2. j - 1 \in 1 .. n - 1 /\ (j - 1) + 1 = j
    BY <1>1, <1>2, <2>1
  <2>3. path.segments[j - 1].end = path.segments[(j - 1) + 1].start
    BY <2>2 DEF Linked, n
  <2>4. QED
    BY <2>2, <2>3
<1>12. Y \in Seq(Points) /\ Y # <<>> /\ F = g[n - (k + 1)] \o Y
       /\ h[k + 1] \o <<Y[1]>> = Reverse(Y)
  BY <1>2, <1>8, <1>9, <1>10
<1>13. Behind(Y, F, g, h, path, k + 1)
  BY <1>11, <1>12 DEF Behind, n
<1>14. QED
  BY <1>13 DEF Y, front

\* The path back visits the points of a linked path in reverse.
LEMMA FlattenTurned ==
  ASSUME NEW path \in Paths, NEW back \in Paths, path.segments # <<>>,
         Linked(path), TurnsBack(path, back)
  PROVE  FlattenPath(back) = Reverse(FlattenPath(path))
<1> DEFINE n == Len(path.segments)
           parts == [i \in DOMAIN path.segments |-> FlattenSegment(path.segments[i])]
           turns == [i \in DOMAIN back.segments |-> FlattenSegment(back.segments[i])]
           end == Last(path.segments).end
           start == path.segments[1].start
           F == FlattenPath(path)
<1>1. /\ n \in Nat /\ path.segments \in Seq(Segments) /\ DOMAIN path.segments = 1 .. n
      /\ back.segments \in Seq(Segments) /\ DOMAIN back.segments = 1 .. n /\ Len(back.segments) = n
  BY PathParts DEF TurnsBack
<1>2. n # 0 /\ 1 \in 1 .. n /\ n \in 1 .. n
  BY <1>1
<1>3. /\ path.segments[n] \in Segments /\ path.segments[1] \in Segments
      /\ end = path.segments[n].end
  BY <1>1, <1>2 DEF Last
<1>4. end \in Points /\ start \in Points
  BY <1>3, SegmentParts
<1>5. ASSUME NEW i \in 1 .. n PROVE parts[i] \in Seq(Points) /\ turns[i] \in Seq(Points)
  <2>1. path.segments[i] \in Segments /\ back.segments[i] \in Segments
    BY <1>1
  <2>2. QED
    BY <1>1, <2>1, FlattenSegmentBack
<1>6. parts = [i \in 1 .. n |-> parts[i]] /\ turns = [i \in 1 .. n |-> turns[i]]
  BY <1>1
<1>7. ASSUME NEW j \in 1 .. n
      PROVE  /\ parts[j] = FlattenSegment(path.segments[j])
             /\ (n - j) + 1 \in 1 .. n
             /\ turns[(n - j) + 1] = FlattenSegment(ReverseSegment(path.segments[j]))
  <2> DEFINE i == (n - j) + 1
  <2>1. i \in 1 .. n /\ (n - i) + 1 = j
    <3> HIDE DEF n
    <3>1. QED
      BY <1>1
  <2>2. back.segments[i] = ReverseSegment(path.segments[(n - i) + 1])
    BY <2>1 DEF TurnsBack
  <2>3. QED
    BY <1>1, <2>1, <2>2
<1>8. F = FlattenSeq(parts) \o <<end>>
  BY DEF FlattenPath
<1>9. back.segments # <<>> /\ FlattenPath(back) = FlattenSeq(turns) \o <<start>>
  <2>1. back.segments # <<>>
    BY <1>1, <1>2
  <2>2. back.segments[n] = ReverseSegment(path.segments[1])
    <3>1. (n - n) + 1 = 1
      BY <1>1
    <3>2. QED
      BY <1>2, <3>1 DEF TurnsBack
  <2>3. Last(back.segments).end = start
    BY <1>1, <1>3, <2>2, ReverseSegmentType DEF Last
  <2>4. QED
    BY <2>1, <2>3 DEF FlattenPath
<1> HIDE DEF parts, turns, F
<1>10. PICK g : /\ JoinedUpTo(g, parts, n) /\ FlattenSeq(parts) = g[n]
                /\ \A k \in 0 .. n : g[k] \in Seq(Points)
  BY <1>1, <1>2, <1>5, <1>6, FlattenPrefixes
<1>11. PICK h : /\ JoinedUpTo(h, turns, n) /\ FlattenSeq(turns) = h[n]
                /\ \A k \in 0 .. n : h[k] \in Seq(Points)
  BY <1>1, <1>2, <1>5, <1>6, FlattenPrefixes
<1> DEFINE P == {k \in Nat : k <= n => \E X : Behind(X, F, g, h, path, k)}
<1>12. 0 \in P
  <2> DEFINE X == <<end>>
  <2>1. X \in Seq(Points) /\ X # <<>> /\ X[1] = end /\ Reverse(X) = X
    BY <1>4, ReverseOne
  <2>2. F = g[n] \o X
    BY <1>8, <1>10
  <2>3. h[0] = <<>>
    BY <1>11 DEF JoinedUpTo
  <2>4. h[0] \o <<X[1]>> = Reverse(X)
    BY <2>1, <2>3, ConcatEmptySeq
  <2>5. n - 0 = n
    BY <1>1
  <2> HIDE DEF X
  <2>6. Behind(X, F, g, h, path, 0)
    BY <1>3, <2>1, <2>2, <2>4, <2>5 DEF Behind, n
  <2>7. QED
    BY <2>6
<1>13. ASSUME NEW k \in Nat, k \in P PROVE k + 1 \in P
  <2>0. k + 1 \in Nat
    OBVIOUS
  <2>1. SUFFICES ASSUME k + 1 <= n PROVE \E X : Behind(X, F, g, h, path, k + 1)
    BY <2>0
  <2>2. k <= n
    BY <1>1, <2>1
  <2>3. PICK X : Behind(X, F, g, h, path, k)
    BY <1>13, <2>2
  <2> DEFINE j == n - k
             s == path.segments[j]
  <2>4. j \in 1 .. n /\ (n - j) + 1 = k + 1 /\ j - 1 \in 0 .. n /\ k \in 0 .. n /\ (k + 1) - 1 = k
        /\ k + 1 \in 1 .. n
    <3> HIDE DEF n
    <3>1. QED
      BY <1>1, <2>1
  <2> HIDE DEF j
  <2>5. g[j - 1] \in Seq(Points) /\ h[k] \in Seq(Points)
    BY <1>10, <1>11, <2>4
  <2>6. g[j] = g[j - 1] \o FlattenSegment(s)
    <3>1. g[j] = g[j - 1] \o parts[j]
      BY <1>10, <2>4 DEF JoinedUpTo
    <3>2. QED
      BY <1>7, <2>4, <3>1
  <2>7. h[k + 1] = h[k] \o FlattenSegment(ReverseSegment(s))
    <3>1. h[k + 1] = h[(k + 1) - 1] \o turns[k + 1]
      BY <1>11, <2>4 DEF JoinedUpTo
    <3>2. turns[k + 1] = FlattenSegment(ReverseSegment(s))
      BY <1>7, <2>4
    <3>3. QED
      BY <2>4, <3>1, <3>2
  <2>8. j = Len(path.segments) - k
    BY DEF j
  <2> HIDE DEF s
  <2>9. s = path.segments[j]
    BY DEF s
  <2>10. Behind(FlattenSegment(s) \o X, F, g, h, path, k + 1)
    BY <2>1, <2>3, <2>5, <2>6, <2>7, <2>8, <2>9, BehindOneMore
  <2>11. QED
    BY <2>10
<1> HIDE DEF P
<1>14. n \in P
  BY <1>1, <1>12, <1>13, Induction
<1>15. PICK X : Behind(X, F, g, h, path, n)
  BY <1>1, <1>14 DEF P
<1>16. /\ X \in Seq(Points) /\ F = g[n - n] \o X /\ h[n] \o <<X[1]>> = Reverse(X)
  BY <1>15 DEF Behind, n
<1>17. n - n = 0 /\ g[0] = <<>>
  BY <1>1, <1>10 DEF JoinedUpTo
<1>18. F = X
  BY <1>16, <1>17, ConcatEmptySeq
<1>19. X[1] = start
  <2>1. Head(F) = Head(path.segments).start /\ F # <<>>
    BY DrawingsOfPoints, FlattenPathEnds DEF F
  <2>2. Head(path.segments) = path.segments[1]
    BY <1>1, <1>2
  <2>3. Head(X) = X[1]
    BY <1>16, <1>18, <2>1
  <2>4. QED
    BY <1>18, <2>1, <2>2, <2>3 DEF start
<1>20. FlattenPath(back) = Reverse(F)
  BY <1>9, <1>11, <1>16, <1>18, <1>19
<1>21. QED
  BY <1>20 DEF F

\* The first p terms of the one are those of the other with the opposite sign, from the
\* last of them on; what is left, if p is less than n, is one more such term.
Opposite(t, u, n, p) ==
    /\ p \in 0 .. n /\ p >= n - 1
    /\ \A k \in 1 .. p : u[k] = -t[(p - k) + 1]
    /\ p < n => u[n] = -t[n]

LEMMA OppositeTotals ==
  ASSUME NEW g, NEW t, NEW h, NEW u, NEW n, NEW p,
         Running(g, t, n), Running(h, u, n), Opposite(t, u, n, p)
  PROVE  h[n] = -g[n]
<1>0. /\ n \in Nat /\ t \in [1 .. n -> Int] /\ g \in [0 .. n -> Int] /\ Runs(g, t, n)
      /\ u \in [1 .. n -> Int] /\ h \in [0 .. n -> Int] /\ Runs(h, u, n)
      /\ p \in 0 .. n /\ p >= n - 1
      /\ \A k \in 1 .. p : u[k] = -t[(p - k) + 1]
      /\ p < n => u[n] = -t[n]
  BY DEF Running, Opposite
<1> USE <1>0
<1> DEFINE P == {k \in Nat : k <= p => h[k] = g[p - k] - g[p]}
<1>1. 0 \in P
  <2>1. p - 0 = p /\ g[p] \in Int /\ h[0] = 0
    BY DEF Runs
  <2>2. h[0] = g[p - 0] - g[p]
    BY <2>1
  <2>3. QED
    BY <2>2
<1>2. ASSUME NEW k \in Nat, k \in P PROVE k + 1 \in P
  <2>0. k + 1 \in Nat
    OBVIOUS
  <2>1. SUFFICES ASSUME k + 1 <= p PROVE h[k + 1] = g[p - (k + 1)] - g[p]
    BY <2>0
  <2> DEFINE i == p - k
  <2>2. /\ i \in 1 .. n /\ i - 1 = p - (k + 1) /\ i - 1 \in 0 .. n
        /\ k + 1 \in 1 .. p /\ k + 1 \in 1 .. n /\ (k + 1) - 1 = k /\ k \in 0 .. n
        /\ (p - (k + 1)) + 1 = i
    BY <2>1
  <2> HIDE DEF i
  <2>3. h[k] = g[i] - g[p]
    BY <1>2, <2>1 DEF i
  <2>4. g[i] = g[i - 1] + t[i]
    BY <2>2 DEF Runs
  <2>5. h[k + 1] = h[k] + u[k + 1]
    BY <2>2 DEF Runs
  <2>6. u[k + 1] = -t[i]
    BY <2>2
  <2>7. h[k + 1] = g[i - 1] - g[p]
    <3> DEFINE a == g[i - 1]
               b == t[i]
               c == g[p]
               d == g[i]
               e == h[k]
               f == h[k + 1]
    <3>1. a \in Int /\ b \in Int /\ c \in Int /\ d = a + b /\ e = d - c /\ f = e + (-b)
      BY <2>2, <2>3, <2>4, <2>5, <2>6
    <3> HIDE DEF a, b, c, d, e, f
    <3>2. f = a - c
      BY <3>1
    <3>3. QED
      BY <3>2 DEF a, c, f
  <2>8. QED
    BY <2>2, <2>7
<1> HIDE DEF P
<1>3. p \in P
  <2>1. p \in Nat
    OBVIOUS
  <2>2. QED
    BY <1>1, <1>2, <2>1, Induction
<1>4. h[p] = -g[p]
  <2>1. h[p] = g[p - p] - g[p]
    BY <1>3 DEF P
  <2>2. p - p = 0 /\ g[0] = 0 /\ g[p] \in Int
    BY DEF Runs
  <2>3. QED
    BY <2>1, <2>2
<1>5. CASE p = n
  BY <1>4, <1>5
<1>6. CASE p # n
  <2>1. p = n - 1 /\ n \in 1 .. n
    BY <1>6
  <2>2. h[n] = h[p] + u[n] /\ g[n] = g[p] + t[n]
    BY <2>1 DEF Runs
  <2>3. u[n] = -t[n] /\ g[p] \in Int /\ t[n] \in Int
    BY <2>1
  <2> DEFINE a == g[p]
             b == t[n]
             c == h[p]
             d == u[n]
             x == g[n]
             y == h[n]
  <2>4. a \in Int /\ b \in Int /\ c = -a /\ d = -b /\ x = a + b /\ y = c + d
    BY <1>4, <2>2, <2>3
  <2> HIDE DEF a, b, c, d, x, y
  <2>5. y = -x
    BY <2>4
  <2>6. QED
    BY <2>5 DEF x, y
<1>7. QED
  BY <1>5, <1>6

LEMMA SumOfOpposites == \A a \in Int, b \in Int : a + b = 0 => b = -a
OBVIOUS

LEMMA TurnOpposite ==
  ASSUME NEW p \in Points, NEW q \in Points
  PROVE  Turn(q, p) = -Turn(p, q)
<1>1. p.x \in Int /\ p.y \in Int /\ q.x \in Int /\ q.y \in Int
  BY DEF Points
<1> DEFINE a == p.x
           b == p.y
           c == q.x
           d == q.y
<1>2. \A i \in Int, j \in Int : i * j = j * i /\ i * j \in Int
  OBVIOUS
<1>3. Turn(q, p) = c * b - a * d /\ Turn(p, q) = a * d - c * b
  BY DEF Turn
<1>4. a * d \in Int /\ c * b \in Int
  BY <1>1, <1>2
<1> DEFINE x == a * d
           y == c * b
<1> HIDE DEF x, y
<1>5. x \in Int /\ y \in Int /\ Turn(q, p) = y - x /\ Turn(p, q) = x - y
  BY <1>3, <1>4 DEF x, y
<1>6. QED
  BY <1>5

\* Rings whose edges are each other's, backwards, have opposite areas.
LEMMA OppositeAreas ==
  ASSUME NEW ring \in Seq(Points), NEW back \in Seq(Points), Len(back) = Len(ring),
         NEW p, Opposite(EdgesOf(ring), EdgesOf(back), Len(ring), p)
  PROVE  DoubledArea(back) = -DoubledArea(ring)
<1> DEFINE n == Len(ring)
<1>1. n \in Nat
  OBVIOUS
<1>2. CASE n < 3
  <2>1. DoubledArea(ring) = 0 /\ DoubledArea(back) = 0
    BY <1>2 DEF DoubledArea
  <2>2. DoubledArea(ring) \in Int /\ DoubledArea(back) \in Int
    BY AreaType
  <2>3. DoubledArea(ring) + DoubledArea(back) = 0
    BY <2>1
  <2>4. QED
    BY <2>2, <2>3, SumOfOpposites
<1>3. CASE ~(n < 3)
  <2>1. n >= 3
    <3> HIDE DEF n
    <3>1. QED
      BY <1>1, <1>3
  <2>2. EdgesOf(ring) \in [1 .. n -> Int] /\ EdgesOf(back) \in [1 .. n -> Int]
    BY EdgeType
  <2>3. PICK g \in [0 .. n -> Int] :
            Runs(g, EdgesOf(ring), n) /\ DoubledArea(ring) = g[n]
    BY <2>1, AreaRuns
  <2>4. PICK h \in [0 .. n -> Int] :
            Runs(h, EdgesOf(back), n) /\ DoubledArea(back) = h[n]
    BY <2>1, AreaRuns
  <2>5. Running(g, EdgesOf(ring), n) /\ Running(h, EdgesOf(back), n)
    BY <1>1, <2>2, <2>3, <2>4 DEF Running
  <2>6. h[n] = -g[n]
    BY <2>5, OppositeTotals
  <2>7. QED
    BY <2>3, <2>4, <2>6
<1>4. QED
  BY <1>2, <1>3

\* A polyline walked backwards encloses the opposite area, whether or not it comes back to
\* its start.
LEMMA AreaTurned ==
  ASSUME NEW flat \in Seq(Points)
  PROVE  DoubledArea(RingOf(Reverse(flat))) = -DoubledArea(RingOf(flat))
<1> DEFINE m == Len(flat)
           turn == Reverse(flat)
           ring == RingOf(flat)
           back == RingOf(turn)
<1>1. /\ m \in Nat /\ turn \in Seq(Points) /\ Len(turn) = m
      /\ \A i \in 1 .. m : turn[i] = flat[(m - i) + 1]
  BY ReverseElements
<1>2. \A i \in 1 .. m : flat[i] \in Points
  OBVIOUS
<1>3. CASE ~(m > 1 /\ Head(flat) = Last(flat))
  <2>1. ring = flat
    BY <1>3 DEF RingOf
  <2>2. ~(m > 1 /\ Head(turn) = Last(turn))
    <3>1. SUFFICES ASSUME m > 1, Head(turn) = Last(turn) PROVE FALSE
      OBVIOUS
    <3>2. 1 \in 1 .. m /\ m \in 1 .. m /\ (m - 1) + 1 = m /\ (m - m) + 1 = 1
      BY <1>1, <3>1
    <3>3. turn[1] = flat[m] /\ turn[m] = flat[1]
      BY <1>1, <3>2
    <3>4. Head(turn) = turn[1] /\ Last(turn) = turn[m] /\ Head(flat) = flat[1] /\ Last(flat) = flat[m]
      BY <1>1, <3>1 DEF Last
    <3>5. QED
      BY <1>3, <3>1, <3>3, <3>4
  <2>3. back = turn
    BY <1>1, <2>2 DEF RingOf
  <2>4. ring \in Seq(Points) /\ back \in Seq(Points) /\ Len(ring) = m /\ Len(back) = m
    BY <1>1, <2>1, <2>3
  <2> DEFINE t == EdgesOf(ring)
             u == EdgesOf(back)
  <2>5. /\ \A i \in 1 .. m : i < m => t[i] = Turn(flat[i], flat[i + 1])
        /\ m # 0 => t[m] = Turn(flat[m], flat[1])
    BY <2>1, EdgeTurns
  <2>6. /\ \A i \in 1 .. m : i < m => u[i] = Turn(turn[i], turn[i + 1])
        /\ m # 0 => u[m] = Turn(turn[m], turn[1])
    BY <1>1, <2>3, EdgeTurns
  <2> HIDE DEF t, u, m, turn, ring, back
  <2>7. ASSUME NEW i \in 1 .. m - 1 PROVE u[i] = -t[((m - 1) - i) + 1]
    <3> DEFINE j == ((m - 1) - i) + 1
    <3>1. /\ i \in 1 .. m /\ i < m /\ i + 1 \in 1 .. m /\ j \in 1 .. m /\ j < m /\ j + 1 \in 1 .. m
          /\ (m - i) + 1 = j + 1 /\ (m - (i + 1)) + 1 = j
      BY <1>1
    <3> HIDE DEF j
    <3>2. turn[i] = flat[j + 1] /\ turn[i + 1] = flat[j]
      BY <1>1, <3>1
    <3>3. u[i] = Turn(flat[j + 1], flat[j]) /\ t[j] = Turn(flat[j], flat[j + 1])
      BY <2>5, <2>6, <3>1, <3>2
    <3>4. u[i] = -t[j]
      BY <1>2, <3>1, <3>3, TurnOpposite
    <3>5. QED
      BY <3>4 DEF j
  <2>8. m # 0 => u[m] = -t[m]
    <3>1. SUFFICES ASSUME m # 0 PROVE u[m] = -t[m]
      OBVIOUS
    <3>2. 1 \in 1 .. m /\ m \in 1 .. m /\ (m - 1) + 1 = m /\ (m - m) + 1 = 1
      BY <1>1, <3>1
    <3>3. turn[1] = flat[m] /\ turn[m] = flat[1]
      BY <1>1, <3>2
    <3>4. u[m] = Turn(flat[1], flat[m]) /\ t[m] = Turn(flat[m], flat[1])
      BY <2>5, <2>6, <3>1, <3>3
    <3>5. QED
      BY <1>2, <3>2, <3>4, TurnOpposite
  <2>9. CASE m = 0
    <3>1. Opposite(t, u, m, 0)
      BY <2>9 DEF Opposite
    <3>2. Opposite(EdgesOf(ring), EdgesOf(back), Len(ring), 0)
      BY <2>4, <3>1 DEF t, u
    <3>3. DoubledArea(back) = -DoubledArea(ring)
      BY ONLY <2>4, <3>2, OppositeAreas
    <3>4. QED
      BY <3>3 DEF turn, ring, back
  <2>10. CASE m # 0
    <3>1. m - 1 \in 0 .. m /\ m - 1 >= m - 1
      BY <1>1, <2>10
    <3>2. Opposite(t, u, m, m - 1)
      BY <2>7, <2>8, <2>10, <3>1 DEF Opposite
    <3>3. Opposite(EdgesOf(ring), EdgesOf(back), Len(ring), m - 1)
      BY <2>4, <3>2 DEF t, u
    <3>4. DoubledArea(back) = -DoubledArea(ring)
      BY ONLY <2>4, <3>3, OppositeAreas
    <3>5. QED
      BY <3>4 DEF turn, ring, back
  <2>11. QED
    BY <2>9, <2>10
<1>4. CASE m > 1 /\ Head(flat) = Last(flat)
  <2> DEFINE n == m - 1
  <2>1. 1 \in 1 .. m /\ m \in 1 .. m /\ (m - 1) + 1 = m /\ (m - m) + 1 = 1 /\ n \in Nat /\ n >= 1 /\ n <= m
    BY <1>1, <1>4
  <2>2. /\ Head(flat) = flat[1] /\ Last(flat) = flat[m]
        /\ Head(turn) = turn[1] /\ Last(turn) = turn[m] /\ Len(turn) > 1
    BY <1>1, <1>4 DEF Last
  <2>3. flat[1] = flat[m] /\ turn[1] = turn[m]
    BY <1>1, <1>4, <2>1, <2>2
  <2>4. ring = SubSeq(flat, 1, n) /\ back = SubSeq(turn, 1, n)
    BY <1>1, <1>4, <2>2, <2>3 DEF RingOf, Front
  <2>5. /\ ring \in Seq(Points) /\ Len(ring) = n /\ \A i \in 1 .. n : ring[i] = flat[i]
        /\ back \in Seq(Points) /\ Len(back) = n /\ \A i \in 1 .. n : back[i] = turn[i]
    <3> HIDE DEF turn, ring, back, n, m
    <3>1. /\ 1 \in 1 .. m + 1 /\ n \in 0 .. m /\ 1 <= n + 1 /\ (n - 1) + 1 = n
          /\ \A i \in 1 .. n : (1 - 1) + i = i
      BY <1>1, <2>1
    <3>2. /\ SubSeq(flat, 1, n) \in Seq(Points) /\ Len(SubSeq(flat, 1, n)) = (n - 1) + 1
          /\ \A i \in 1 .. (n - 1) + 1 : SubSeq(flat, 1, n)[i] = flat[(1 - 1) + i]
      BY <3>1, SubSeqElements DEF m
    <3>3. /\ SubSeq(turn, 1, n) \in Seq(Points) /\ Len(SubSeq(turn, 1, n)) = (n - 1) + 1
          /\ \A i \in 1 .. (n - 1) + 1 : SubSeq(turn, 1, n)[i] = turn[(1 - 1) + i]
      BY <1>1, <3>1, SubSeqElements
    <3>4. QED
      BY <2>4, <3>1, <3>2, <3>3
  <2> DEFINE t == EdgesOf(ring)
             u == EdgesOf(back)
  <2> HIDE DEF ring, back, turn, m
  <2>6. \A i \in 1 .. n : i + 1 \in 1 .. m /\ (i < n => i + 1 \in 1 .. n) /\ (i = n => i + 1 = m)
    BY <1>1, <2>1
  <2>7. ASSUME NEW i \in 1 .. n PROVE t[i] = Turn(flat[i], flat[i + 1]) /\ u[i] = Turn(turn[i], turn[i + 1])
    <3>1. /\ i < n => t[i] = Turn(ring[i], ring[i + 1]) /\ u[i] = Turn(back[i], back[i + 1])
          /\ i = n => t[i] = Turn(ring[i], ring[1]) /\ u[i] = Turn(back[i], back[1])
      <4>1. n # 0 /\ ring \in Seq(Points) /\ Len(ring) = n /\ back \in Seq(Points) /\ Len(back) = n
        BY <2>1, <2>5
      <4> HIDE DEF n
      <4>2. /\ i < n => t[i] = Turn(ring[i], ring[i + 1])
            /\ i = n => t[i] = Turn(ring[i], ring[1])
        BY ONLY <4>1, i \in 1 .. n, EdgeTurns DEF t
      <4>3. /\ i < n => u[i] = Turn(back[i], back[i + 1])
            /\ i = n => u[i] = Turn(back[i], back[1])
        BY ONLY <4>1, i \in 1 .. n, EdgeTurns DEF u
      <4>4. QED
        BY <4>2, <4>3
    <3>2. ring[i] = flat[i] /\ back[i] = turn[i] /\ ring[1] = flat[m] /\ back[1] = turn[m]
      <4>1. 1 \in 1 .. n
        BY <2>1
      <4>2. QED
        BY <2>3, <2>5, <4>1
    <3>3. CASE i < n
      <4>1. ring[i + 1] = flat[i + 1] /\ back[i + 1] = turn[i + 1]
        BY <2>5, <2>6, <3>3
      <4>2. QED
        BY <3>1, <3>2, <3>3, <4>1
    <3>4. CASE i = n
      BY <2>6, <3>1, <3>2, <3>4
    <3>5. i < n \/ i = n
      BY <2>1
    <3>6. QED
      BY <3>3, <3>4, <3>5
  <2> HIDE DEF t, u, n
  <2>8. ASSUME NEW i \in 1 .. n PROVE u[i] = -t[(n - i) + 1]
    <3> DEFINE j == (n - i) + 1
    <3>1. j \in 1 .. n /\ j \in 1 .. m /\ i \in 1 .. m /\ j + 1 \in 1 .. m /\ i + 1 \in 1 .. m
          /\ (m - i) + 1 = j + 1 /\ (m - (i + 1)) + 1 = j
      BY <1>1, <2>1 DEF n
    <3> HIDE DEF j
    <3>2. turn[i] = flat[j + 1] /\ turn[i + 1] = flat[j]
      BY <1>1, <3>1
    <3>3. u[i] = Turn(flat[j + 1], flat[j]) /\ t[j] = Turn(flat[j], flat[j + 1])
      BY <2>7, <3>1, <3>2
    <3>4. u[i] = -t[j]
      BY <1>2, <3>1, <3>3, TurnOpposite
    <3>5. QED
      BY <3>4 DEF j
  <2>9. Opposite(t, u, n, n)
    BY <2>1, <2>8 DEF Opposite
  <2>10. DoubledArea(back) = -DoubledArea(ring)
    BY <2>5, <2>9, OppositeAreas DEF t, u
  <2>11. QED
    BY <2>10 DEF ring, back, turn
<1>5. QED
  BY <1>3, <1>4

-----------------------------------------------------------------------------
(* What the geometry repair makes of a tidy path.                          *)

OnGrain(path) ==
    \A i \in 1 .. Len(path.segments) :
        /\ RoundPoint(path.segments[i].start) = path.segments[i].start
        /\ RoundPoint(path.segments[i].end) = path.segments[i].end

LEMMA TidyParts ==
  ASSUME NEW path \in Paths, Tidy(path)
  PROVE  /\ path.closed /\ Linked(path) /\ OnGrain(path)
         /\ \A i \in 1 .. Len(path.segments) : ~ZeroLength(path.segments[i])
<1>1. DOMAIN path.segments = 1 .. Len(path.segments)
  BY PathParts
<1>2. QED
  BY <1>1 DEF Tidy, Linked, OnGrain

\* Rounding leaves a path whose segments begin and end on the grain.
LEMMA PrecisionKeeps ==
  ASSUME NEW path \in Paths, OnGrain(path)
  PROVE  NormalizeCoordinatePrecision(path) = path
<1> DEFINE n == Len(path.segments)
           segments == path.segments
           fine == [i \in DOMAIN path.segments |->
                       [path.segments[i] EXCEPT !.start = RoundPoint(@), !.end = RoundPoint(@)]]
<1>1. /\ segments \in Seq(Segments) /\ n \in Nat /\ DOMAIN segments = 1 .. n
      /\ path = Path(segments, path.closed)
  BY PathParts
<1>2. NormalizeCoordinatePrecision(path) = Path(fine, path.closed)
  BY DEF NormalizeCoordinatePrecision
<1>3. ASSUME NEW i \in 1 .. n PROVE fine[i] = segments[i]
  <2> DEFINE s == segments[i]
  <2>1. s \in Segments /\ RoundPoint(s.start) = s.start /\ RoundPoint(s.end) = s.end
    BY <1>1 DEF OnGrain
  <2>2. fine[i] = [s EXCEPT !.start = RoundPoint(@), !.end = RoundPoint(@)]
    BY <1>1
  <2> HIDE DEF s
  <2>3. [s EXCEPT !.start = RoundPoint(@), !.end = RoundPoint(@)] = s
    BY <2>1 DEF Segments
  <2>4. QED
    BY <2>2, <2>3 DEF s
<1>4. fine = [i \in 1 .. n |-> fine[i]]
  BY <1>1
<1> HIDE DEF fine
<1>5. segments = [i \in 1 .. n |-> segments[i]]
  BY <1>1
<1>6. fine = segments
  BY <1>3, <1>4, <1>5
<1>7. QED
  BY <1>1, <1>2, <1>6

LEMMA ClosesNothing ==
  ASSUME NEW path \in Paths, path.segments = <<>>
  PROVE  CloseTinyGaps(path) = path
<1> DEFINE closing == path.closed /\ path.segments # <<>> /\ EndGapClosed(path, GapTolerance)
           snapped == [path.segments EXCEPT ![Len(path.segments)].end = Head(path.segments).start]
<1>1. ~closing
  OBVIOUS
<1>2. CloseTinyGaps(path) = IF closing THEN Path(snapped, TRUE) ELSE path
  BY Zenon DEF CloseTinyGaps
<1> HIDE DEF closing, snapped
<1>3. QED
  BY <1>1, <1>2

\* Snapping the end to the start, which is on the grain, keeps a path linked and on it.
LEMMA ClosingKeeps ==
  ASSUME NEW path \in Paths, path.segments # <<>>, Linked(path), OnGrain(path)
  PROVE  /\ Linked(CloseTinyGaps(path)) /\ OnGrain(CloseTinyGaps(path))
         /\ CloseTinyGaps(path).segments # <<>>
<1> DEFINE n == Len(path.segments)
           segments == path.segments
           start == Head(segments).start
           snapped == [segments EXCEPT ![n].end = start]
<1>1. segments \in Seq(Segments) /\ n \in Nat /\ DOMAIN segments = 1 .. n /\ n # 0
  BY PathParts
<1>2. CASE CloseTinyGaps(path) = path
  BY <1>2
<1>3. CASE CloseTinyGaps(path) # path
  <2>1. CloseTinyGaps(path) = Path(snapped, TRUE)
    BY <1>3 DEF CloseTinyGaps
  <2>2. 1 \in 1 .. n /\ n \in 1 .. n
    BY <1>1
  <2>3. start = segments[1].start /\ RoundPoint(start) = start
    BY <1>1, <2>2 DEF OnGrain
  <2>4. \A i \in 1 .. n : segments[i] \in Segments
    BY <1>1
  <2> HIDE DEF start
  <2>5. /\ DOMAIN snapped = 1 .. n
        /\ \A i \in 1 .. n : i # n => snapped[i] = segments[i]
        /\ snapped[n] = [segments[n] EXCEPT !.end = start]
    BY <1>1, <2>2
  <2>6. snapped[n].start = segments[n].start /\ snapped[n].end = start
    BY <2>2, <2>4, <2>5 DEF Segments
  <2>7. snapped = [i \in 1 .. n |-> snapped[i]]
    BY <2>5
  <2> HIDE DEF snapped, n, segments
  <2>8. Len(snapped) = n
    BY <1>1, <2>5, <2>7
  <2> DEFINE c == Path(snapped, TRUE)
  <2>9. c.segments = snapped
    BY DEF Path
  <2> HIDE DEF c
  <2>10. ASSUME NEW i \in 1 .. n
         PROVE  RoundPoint(snapped[i].start) = snapped[i].start
                /\ RoundPoint(snapped[i].end) = snapped[i].end
    <3>1. RoundPoint(segments[i].start) = segments[i].start
          /\ RoundPoint(segments[i].end) = segments[i].end
      BY DEF OnGrain, n, segments
    <3>2. QED
      BY <2>3, <2>5, <2>6, <3>1
  <2>11. ASSUME NEW i \in 1 .. n - 1 PROVE snapped[i].end = snapped[i + 1].start
    <3>1. i \in 1 .. n /\ i # n /\ i + 1 \in 1 .. n
      BY <1>1
    <3>2. segments[i].end = segments[i + 1].start
      BY DEF Linked, n, segments
    <3>3. snapped[i + 1].start = segments[i + 1].start
      BY <2>5, <2>6, <3>1
    <3>4. QED
      BY <2>5, <3>1, <3>2, <3>3
  <2>12. Linked(c) /\ OnGrain(c)
    BY <2>8, <2>9, <2>10, <2>11 DEF Linked, OnGrain
  <2>13. c.segments # <<>>
    BY <1>1, <2>8, <2>9
  <2>14. QED
    BY <2>1, <2>12, <2>13 DEF c
<1>4. QED
  BY <1>2, <1>3

\* The winding pass leaves a path or has it go back along itself; the latter, when it
\* turns clockwise.
LEMMA WindingTurns ==
  ASSUME NEW path \in Paths, path.closed, path.segments # <<>>, OnGrain(path)
  PROVE  LET turned == NormalizeWinding(path, "counter_clockwise")
         IN  /\ OnGrain(turned)
             /\ IF DoubledArea(Ring(path)) < 0 THEN TurnsBack(path, turned) ELSE turned = path
<1> DEFINE n == Len(path.segments)
           segments == path.segments
           area == DoubledArea(Ring(path))
           turns == [i \in DOMAIN path.segments |-> ReverseSegment(Reverse(path.segments)[i])]
           turned == NormalizeWinding(path, "counter_clockwise")
<1>1. segments \in Seq(Segments) /\ n \in Nat /\ DOMAIN segments = 1 .. n
  BY PathParts
<1>2. area \in Int
  BY RingType, AreaType
<1>3. Orientation(Ring(path)) = IF area = 0 THEN "degenerate"
                                ELSE IF area > 0 THEN "counter_clockwise" ELSE "clockwise"
  BY DEF Orientation
<1> HIDE DEF area
<1>4. Orientation(Ring(path)) \notin {"degenerate", "counter_clockwise"} <=> area < 0
  BY <1>2, <1>3
<1>5. turned = IF area < 0 THEN Path(turns, path.closed) ELSE path
  BY <1>4 DEF NormalizeWinding
<1> HIDE DEF turned
<1>6. CASE ~(area < 0)
  <2>1. turned = path
    BY <1>5, <1>6
  <2>2. QED
    BY <1>6, <2>1 DEF turned, area
<1>7. CASE area < 0
  <2>1. \A i \in 1 .. n : /\ (n - i) + 1 \in 1 .. n
                          /\ Reverse(segments)[i] = segments[(n - i) + 1]
    BY <1>1 DEF Reverse
  <2>2. turns = [i \in 1 .. n |-> turns[i]]
        /\ \A i \in 1 .. n : turns[i] = ReverseSegment(segments[(n - i) + 1])
    BY <1>1, <2>1
  <2>3. turned.segments = turns
    BY <1>5, <1>7 DEF Path
  <2> HIDE DEF turns, n, segments
  <2>4. Len(turns) = n
    BY <1>1, <2>2
  <2>5. TurnsBack(path, turned)
    BY <2>2, <2>3, <2>4 DEF TurnsBack, n, segments
  <2>6. ASSUME NEW i \in 1 .. n
        PROVE  RoundPoint(turns[i].start) = turns[i].start
               /\ RoundPoint(turns[i].end) = turns[i].end
    <3> DEFINE s == segments[(n - i) + 1]
    <3>1. s \in Segments
      BY <1>1, <2>1
    <3>2. RoundPoint(s.start) = s.start /\ RoundPoint(s.end) = s.end
      BY <2>1 DEF OnGrain, n, segments
    <3>3. turns[i] = ReverseSegment(s)
      BY <2>2
    <3> HIDE DEF s
    <3>4. ReverseSegment(s).start = s.end /\ ReverseSegment(s).end = s.start
      BY <3>1, ReverseSegmentType
    <3>5. QED
      BY <3>2, <3>3, <3>4
  <2>7. OnGrain(turned)
    BY <2>3, <2>4, <2>6 DEF OnGrain
  <2>8. QED
    BY <1>7, <2>5, <2>7 DEF turned, area
<1>8. QED
  BY <1>6, <1>7

LEMMA FewPoints ==
  ASSUME NEW ring, Len(ring) < 3
  PROVE  DoubledArea(ring) = 0
BY DEF DoubledArea

\* What was tidy turns counter-clockwise, if it has an area, once it is mended.
LEMMA TidyAreas ==
  ASSUME NEW path \in Paths, Tidy(path)
  PROVE  DoubledArea(Ring(RepairPath(path))) \in Int /\ DoubledArea(Ring(RepairPath(path))) >= 0
<1> DEFINE c == CloseTinyGaps(path)
           d == NormalizeWinding(c, "counter_clockwise")
           e == NormalizeCoordinatePrecision(d)
<1>1. /\ path.closed /\ Linked(path) /\ OnGrain(path)
      /\ \A i \in 1 .. Len(path.segments) : ~ZeroLength(path.segments[i])
  BY TidyParts
<1>2. RemoveZeroLengthSegments(RemoveDuplicateNodes(path)) = path
  BY <1>1, DuplicatesType, ZeroLengthRemovalType
<1>3. RepairPath(path) = e
  BY <1>2 DEF RepairPath
<1>4. RepairPath(path) \in Paths /\ DoubledArea(Ring(RepairPath(path))) \in Int
  BY RepairPathType, RingType, AreaType
<1>5. c \in Paths /\ c.closed
  BY <1>1, ClosingType
<1>6. CASE path.segments = <<>>
  <2>1. c = path
    BY <1>6, ClosesNothing
  <2>2. d = path
    BY <1>6, <2>1 DEF NormalizeWinding
  <2>3. OnGrain(path) /\ e = path
    BY <1>1, <2>2, PrecisionKeeps
  <2>4. FlattenPath(path) = <<>>
    BY <1>6 DEF FlattenPath
  <2>5. Len(<<>>) = 0
    OBVIOUS
  <2>6. Ring(path) = <<>>
    BY <2>4, <2>5 DEF Ring, RingOf
  <2>7. DoubledArea(Ring(path)) = 0
    BY <2>5, <2>6, FewPoints
  <2>8. QED
    BY <1>3, <2>3, <2>7
<1>7. CASE path.segments # <<>>
  <2>1. Linked(c) /\ OnGrain(c) /\ c.segments # <<>>
    BY <1>1, <1>7, ClosingKeeps
  <2> HIDE DEF c
  <2>2. /\ OnGrain(d)
        /\ IF DoubledArea(Ring(c)) < 0 THEN TurnsBack(c, d) ELSE d = c
    BY <1>5, <2>1, WindingTurns
  <2>3. d \in Paths
    BY <1>5, WindingType
  <2> HIDE DEF d
  <2>4. e = d
    BY <2>2, <2>3, PrecisionKeeps
  <2>5. DoubledArea(Ring(c)) \in Int
    BY <1>5, RingType, AreaType
  <2>6. CASE ~(DoubledArea(Ring(c)) < 0)
    <3>1. d = c
      BY <2>2, <2>6
    <3> DEFINE x == DoubledArea(Ring(c))
    <3>2. x \in Int /\ ~(x < 0)
      BY <2>5, <2>6
    <3> HIDE DEF x
    <3>3. x >= 0
      BY <3>2
    <3>4. QED
      BY <1>3, <1>4, <2>4, <3>1, <3>3 DEF x
  <2>7. CASE DoubledArea(Ring(c)) < 0
    <3>1. FlattenPath(d) = Reverse(FlattenPath(c))
      BY <1>5, <2>1, <2>2, <2>3, <2>7, FlattenTurned
    <3>2. FlattenPath(c) \in Seq(Points)
      BY <1>5, FlattenPathType, DrawingsOfPoints
    <3>3. DoubledArea(Ring(d)) = -DoubledArea(Ring(c))
      BY <3>1, <3>2, AreaTurned DEF Ring
    <3> DEFINE x == DoubledArea(Ring(c))
               y == DoubledArea(Ring(d))
    <3>4. x \in Int /\ x < 0 /\ y = -x
      BY <2>5, <2>7, <3>3
    <3> HIDE DEF x, y
    <3>5. y \in Int /\ y >= 0
      BY <3>4
    <3>6. QED
      BY <1>3, <2>4, <3>5 DEF y
  <2>8. QED
    BY <2>6, <2>7
<1>8. QED
  BY <1>6, <1>7

\* A hole whose subpath and those it lies in were tidy is none: all of them turn the
\* same way once they are mended.
LEMMA TidyHoles ==
  ASSUME NEW compound \in Seq(Paths), NEW fixed \in Seq(Paths),
         fixed = RepairGeometry(compound),
         NEW i \in 1 .. Len(fixed), IsHole(Rings(fixed), i)
  PROVE  \/ DoubledArea(Ring(fixed[i])) = 0
         \/ \E j \in 1 .. Len(fixed) :
                ~Tidy(compound[j]) /\ (j = i \/ LiesIn(Rings(fixed), i, j))
<1> DEFINE rings == Rings(fixed)
           n == Len(fixed)
<1>1. /\ n \in Nat /\ DOMAIN rings = 1 .. n
      /\ \A j \in 1 .. n : /\ rings[j] = Ring(fixed[j]) /\ fixed[j] = RepairPath(compound[j])
                           /\ compound[j] \in Paths
  BY MendedType DEF Rings
<1> HIDE DEF rings, n
<1>2. PICK j \in 1 .. n : /\ Orientation(rings[j]) \notin {"degenerate", Orientation(rings[i])}
                          /\ LiesIn(rings, i, j)
  BY <1>1 DEF IsHole, rings
<1>3. CASE ~Tidy(compound[i]) \/ ~Tidy(compound[j])
  BY <1>2, <1>3 DEF rings, n
<1>4. CASE Tidy(compound[i]) /\ Tidy(compound[j])
  <2> DEFINE x == DoubledArea(rings[i])
             y == DoubledArea(rings[j])
  <2>1. i \in 1 .. n
    BY DEF n
  <2>2. x \in Int /\ x >= 0 /\ y \in Int /\ y >= 0
    BY <1>1, <1>4, <2>1, TidyAreas
  <2>3. /\ Orientation(rings[i]) = IF x = 0 THEN "degenerate"
                                   ELSE IF x > 0 THEN "counter_clockwise" ELSE "clockwise"
        /\ Orientation(rings[j]) = IF y = 0 THEN "degenerate"
                                   ELSE IF y > 0 THEN "counter_clockwise" ELSE "clockwise"
    BY DEF Orientation
  <2> HIDE DEF x, y
  <2>4. y # 0 /\ y > 0
    BY <1>2, <2>2, <2>3
  <2>5. x = 0
    BY <1>2, <2>2, <2>3, <2>4
  <2>6. QED
    BY <1>1, <2>1, <2>5 DEF x
<1>5. QED
  BY <1>3, <1>4

LEMMA RemovedWereUntidy == RepairInv => OnlyUntidyHolesAreRemoved
<1> SUFFICES ASSUME RepairInv, Merged, NEW i \in DOMAIN mended, mended[i] \notin Range(cleaned)
             PROVE  \E j \in DOMAIN mended :
                        ~Tidy(artwork[j]) /\ (j = i \/ LiesIn(Rings(mended), i, j))
  BY DEF OnlyUntidyHolesAreRemoved
<1>1. /\ mended = RepairGeometry(artwork) /\ cleaned = RemoveTinyHoles(mended)
      /\ artwork \in Seq(Paths) /\ mended \in Seq(Paths)
  BY Versions DEF RepairInv, Merged, Mended, Cleaned
<1>2. DOMAIN mended = 1 .. Len(mended) /\ i \in 1 .. Len(mended)
  BY <1>1
<1> DEFINE infos == ClassifySubpaths(mended)
           I == {k \in DOMAIN infos : ~(infos[k].hole /\ Tiny(infos[k]))}
<1>3. Describes(infos, mended)
  BY <1>1, Classified
<1>4. cleaned = Selected(mended, I)
  BY <1>1 DEF RemoveTinyHoles
<1> HIDE DEF infos
<1>5. /\ DOMAIN infos = 1 .. Len(mended)
      /\ infos[i].hole = IsHole(Rings(mended), i)
      /\ infos[i].area = Magnitude(DoubledArea(Ring(mended[i])))
  BY <1>2, <1>3 DEF Describes
<1>6. infos[i].hole /\ Tiny(infos[i])
  <2>1. i \notin I
    <3> HIDE DEF I
    <3>1. Range(Selected(mended, I)) = {mended[k] : k \in I \cap 1 .. Len(mended)}
      BY <1>1, SelectedType
    <3>2. QED
      BY <1>2, <1>4, <3>1
  <2>2. QED
    BY <1>2, <1>5, <2>1
<1>7. IsHole(Rings(mended), i)
  BY <1>5, <1>6
<1>8. DoubledArea(Ring(mended[i])) # 0
  BY <1>5, <1>6 DEF Tiny, Magnitude
<1>9. QED
  BY <1>1, <1>2, <1>7, <1>8, TidyHoles

\* In every run, what remove_tiny_holes takes away was no tidy subpath or lies in one that
\* was not: the winding pass has made all others turn counter-clockwise, and a hole is a
\* subpath in another one of the opposite orientation (repair.py's normalize_winding,
\* analysis_utils.py's classify_subpaths).
THEOREM OnlyUntidyHolesGo == Spec => []OnlyUntidyHolesAreRemoved
<1>1. RepairInv => OnlyUntidyHolesAreRemoved
  BY RemovedWereUntidy
<1>2. QED
  BY <1>1, RepairInvariance, PTL

-----------------------------------------------------------------------------
(* The crossings of the even-odd rule: a ring walked back has as many, and *)
(* a compound has the sum of those of its subpaths.                        *)

\* The ray from a point to the right crosses the edge from a to b.
Crosses(point, a, b) ==
    /\ (a.y > point.y) # (b.y > point.y)
    /\ IF b.y > a.y
       THEN (point.x - a.x) * (b.y - a.y) < (point.y - a.y) * (b.x - a.x)
       ELSE (point.x - a.x) * (b.y - a.y) > (point.y - a.y) * (b.x - a.x)

\* An edge is crossed in whichever direction it is walked.
LEMMA CrossesEitherWay ==
  ASSUME NEW point \in Points, NEW a \in Points, NEW b \in Points
  PROVE  Crosses(point, a, b) <=> Crosses(point, b, a)
<1> DEFINE u == point.x - a.x
           v == b.y - a.y
           w == point.y - a.y
           z == b.x - a.x
<1>1. /\ point.x \in Int /\ point.y \in Int /\ a.x \in Int /\ a.y \in Int /\ b.x \in Int /\ b.y \in Int
  BY DEF Points
<1>2. u \in Int /\ v \in Int /\ w \in Int /\ z \in Int
  BY <1>1
<1>3. /\ point.x - b.x = u - z /\ a.y - b.y = -v
      /\ point.y - b.y = w - v /\ a.x - b.x = -z
  BY <1>1
<1>4. \A i \in Int, j \in Int, k \in Int :
          /\ (i - j) * (-k) = j * k - i * k /\ i * k \in Int /\ i * k = k * i
  OBVIOUS
<1> DEFINE x == u * v
           y == w * z
           d == z * v
<1>5. /\ (point.x - b.x) * (a.y - b.y) = d - x
      /\ (point.y - b.y) * (a.x - b.x) = d - y
  <2> HIDE DEF u, v, w, z
  <2>1. (u - z) * (-v) = z * v - u * v
    BY <1>2, <1>4
  <2>2. (w - v) * (-z) = v * z - w * z
    BY <1>2, <1>4
  <2>3. v * z = z * v
    BY <1>2, <1>4
  <2>4. QED
    BY <1>3, <2>1, <2>2, <2>3
<1>6. x \in Int /\ y \in Int /\ d \in Int
  <2> HIDE DEF u, v, w, z
  <2>1. QED
    BY <1>2, <1>4
<1>7. Crosses(point, a, b) <=> /\ (a.y > point.y) # (b.y > point.y)
                               /\ IF b.y > a.y THEN x < y ELSE x > y
  BY DEF Crosses
<1> DEFINE x1 == (point.x - b.x) * (a.y - b.y)
           y1 == (point.y - b.y) * (a.x - b.x)
<1>8. Crosses(point, b, a) <=> /\ (b.y > point.y) # (a.y > point.y)
                               /\ IF a.y > b.y THEN x1 < y1 ELSE x1 > y1
  BY DEF Crosses
<1>9. x1 = d - x /\ y1 = d - y
  BY <1>5
<1> HIDE DEF x, y, d, x1, y1
<1>10. QED
  BY <1>1, <1>6, <1>7, <1>8, <1>9

\* The edges of the one ring are those of the other, each walked back.
Mirrors(m, ring, back) ==
    /\ Len(back) = Len(ring)
    /\ m \in [1 .. Len(ring) -> 1 .. Len(ring)]
    /\ \A i \in 1 .. Len(ring) :
           m[m[i]] = i /\ back[i] = After(ring, m[i]) /\ After(back, i) = ring[m[i]]

LEMMA EdgesTurned ==
  ASSUME NEW flat \in Seq(Points)
  PROVE  \E m : Mirrors(m, RingOf(flat), RingOf(Reverse(flat)))
<1> DEFINE l == Len(flat)
           turn == Reverse(flat)
           ring == RingOf(flat)
           back == RingOf(turn)
<1>1. /\ l \in Nat /\ turn \in Seq(Points) /\ Len(turn) = l
      /\ \A i \in 1 .. l : turn[i] = flat[(l - i) + 1]
  BY ReverseElements
<1>3. CASE ~(l > 1 /\ Head(flat) = Last(flat))
  <2>1. ring = flat
    BY <1>3 DEF RingOf
  <2>2. ~(l > 1 /\ Head(turn) = Last(turn))
    <3>1. SUFFICES ASSUME l > 1, Head(turn) = Last(turn) PROVE FALSE
      OBVIOUS
    <3>2. 1 \in 1 .. l /\ l \in 1 .. l /\ (l - 1) + 1 = l /\ (l - l) + 1 = 1
      BY <1>1, <3>1
    <3>3. turn[1] = flat[l] /\ turn[l] = flat[1]
      BY <1>1, <3>2
    <3>4. Head(turn) = turn[1] /\ Last(turn) = turn[l] /\ Head(flat) = flat[1] /\ Last(flat) = flat[l]
      BY <1>1, <3>1 DEF Last
    <3>5. QED
      BY <1>3, <3>1, <3>3, <3>4
  <2>3. back = turn
    BY <1>1, <2>2 DEF RingOf
  <2> DEFINE m == [i \in 1 .. l |-> IF i < l THEN l - i ELSE l]
  <2>4. ring \in Seq(Points) /\ back \in Seq(Points) /\ Len(ring) = l /\ Len(back) = l
    BY <1>1, <2>1, <2>3
  <2>5. \A i \in 1 .. l : ring[i] = flat[i] /\ back[i] = flat[(l - i) + 1]
    BY <1>1, <2>1, <2>3
  <2> HIDE DEF l, turn, ring, back
  <2>6. \A i \in 1 .. l : /\ i < l => After(ring, i) = ring[i + 1] /\ After(back, i) = back[i + 1]
                          /\ i = l => After(ring, i) = ring[1] /\ After(back, i) = back[1]
    BY <2>4, AfterIn
  <2>7. m \in [1 .. l -> 1 .. l]
    BY <1>1
  <2>8. ASSUME NEW i \in 1 .. l
        PROVE  m[m[i]] = i /\ back[i] = After(ring, m[i]) /\ After(back, i) = ring[m[i]]
    <3>1. CASE i < l
      <4> DEFINE j == l - i
      <4>1. /\ j \in 1 .. l /\ j < l /\ j + 1 \in 1 .. l /\ i + 1 \in 1 .. l /\ l - j = i
            /\ (l - i) + 1 = j + 1 /\ (l - (i + 1)) + 1 = j
        BY <1>1, <3>1
      <4>2. m[i] = j /\ m[j] = i
        BY <3>1, <4>1
      <4> HIDE DEF j, m
      <4>3. back[i] = ring[j + 1] /\ back[i + 1] = ring[j]
        BY <2>5, <4>1
      <4>4. QED
        BY <2>6, <3>1, <4>1, <4>2, <4>3
    <3>2. CASE i = l
      <4>1. l \in 1 .. l /\ 1 \in 1 .. l /\ ~(l < l) /\ (l - l) + 1 = 1 /\ (l - 1) + 1 = l
        BY <1>1, <3>2
      <4>2. m[l] = l
        BY <4>1
      <4> HIDE DEF m
      <4>3. back[l] = ring[1] /\ back[1] = ring[l]
        BY <2>5, <4>1
      <4>4. QED
        BY <2>6, <3>2, <4>1, <4>2, <4>3
    <3>3. i < l \/ i = l
      BY <1>1
    <3>4. QED
      BY <3>1, <3>2, <3>3
  <2> HIDE DEF m
  <2>9. Mirrors(m, ring, back)
    BY <2>4, <2>7, <2>8 DEF Mirrors
  <2>10. QED
    BY <2>9 DEF ring, back, turn
<1>4. CASE l > 1 /\ Head(flat) = Last(flat)
  <2> DEFINE n == l - 1
             m == [i \in 1 .. n |-> (n - i) + 1]
  <2>1. 1 \in 1 .. l /\ l \in 1 .. l /\ (l - 1) + 1 = l /\ (l - l) + 1 = 1 /\ n \in Nat /\ n >= 1 /\ n <= l
    BY <1>1, <1>4
  <2>2. /\ Head(flat) = flat[1] /\ Last(flat) = flat[l]
        /\ Head(turn) = turn[1] /\ Last(turn) = turn[l] /\ Len(turn) > 1
    BY <1>1, <1>4 DEF Last
  <2>3. flat[1] = flat[l] /\ turn[1] = turn[l]
    BY <1>1, <1>4, <2>1, <2>2
  <2>4. ring = SubSeq(flat, 1, n) /\ back = SubSeq(turn, 1, n)
    BY <1>1, <1>4, <2>2, <2>3 DEF RingOf, Front
  <2>5. /\ ring \in Seq(Points) /\ Len(ring) = n /\ \A i \in 1 .. n : ring[i] = flat[i]
        /\ back \in Seq(Points) /\ Len(back) = n /\ \A i \in 1 .. n : back[i] = turn[i]
    <3> HIDE DEF turn, ring, back, n, l
    <3>1. /\ 1 \in 1 .. l + 1 /\ n \in 0 .. l /\ 1 <= n + 1 /\ (n - 1) + 1 = n
          /\ \A i \in 1 .. n : (1 - 1) + i = i
      BY <1>1, <2>1
    <3>2. /\ SubSeq(flat, 1, n) \in Seq(Points) /\ Len(SubSeq(flat, 1, n)) = (n - 1) + 1
          /\ \A i \in 1 .. (n - 1) + 1 : SubSeq(flat, 1, n)[i] = flat[(1 - 1) + i]
      BY <3>1, SubSeqElements DEF l
    <3>3. /\ SubSeq(turn, 1, n) \in Seq(Points) /\ Len(SubSeq(turn, 1, n)) = (n - 1) + 1
          /\ \A i \in 1 .. (n - 1) + 1 : SubSeq(turn, 1, n)[i] = turn[(1 - 1) + i]
      BY <1>1, <3>1, SubSeqElements
    <3>4. QED
      BY <2>4, <3>1, <3>2, <3>3
  <2> HIDE DEF ring, back, turn, l
  <2>6. ASSUME NEW i \in 1 .. n
        PROVE  ring[i] = flat[i] /\ After(ring, i) = flat[i + 1]
               /\ back[i] = turn[i] /\ After(back, i) = turn[i + 1]
    <3>1. /\ i < n => i + 1 \in 1 .. n
          /\ i = n => i + 1 = l
          /\ 1 \in 1 .. n
          /\ i < n \/ i = n
      BY <1>1, <2>1
    <3> HIDE DEF n
    <3>2. /\ i < n => After(ring, i) = ring[i + 1] /\ After(back, i) = back[i + 1]
          /\ i = n => After(ring, i) = ring[1] /\ After(back, i) = back[1]
      BY <2>5, AfterIn
    <3>3. ring[i] = flat[i] /\ back[i] = turn[i] /\ ring[1] = flat[l] /\ back[1] = turn[l]
      BY <2>3, <2>5, <3>1
    <3>4. CASE i < n
      <4>1. ring[i + 1] = flat[i + 1] /\ back[i + 1] = turn[i + 1]
        BY <2>5, <3>1, <3>4
      <4>2. QED
        BY <3>2, <3>3, <3>4, <4>1
    <3>5. CASE i = n
      BY <3>1, <3>2, <3>3, <3>5
    <3>6. QED
      BY <3>1, <3>4, <3>5
  <2>7. m \in [1 .. n -> 1 .. n]
    <3> HIDE DEF n
    <3>1. \A i \in 1 .. n : (n - i) + 1 \in 1 .. n
      BY <2>1
    <3>2. QED
      BY <3>1
  <2>8. ASSUME NEW i \in 1 .. n
        PROVE  m[m[i]] = i /\ back[i] = After(ring, m[i]) /\ After(back, i) = ring[m[i]]
    <3> DEFINE j == (n - i) + 1
    <3>1. j \in 1 .. n /\ (n - j) + 1 = i /\ i \in 1 .. l /\ i + 1 \in 1 .. l
          /\ (l - i) + 1 = j + 1 /\ (l - (i + 1)) + 1 = j
      BY <1>1, <2>1
    <3>2. m[i] = j /\ m[j] = i
      BY <3>1
    <3> HIDE DEF j, m, n
    <3>3. turn[i] = flat[j + 1] /\ turn[i + 1] = flat[j]
      BY <1>1, <3>1
    <3>4. ring[j] = flat[j] /\ After(ring, j) = flat[j + 1] /\ back[i] = turn[i] /\ After(back, i) = turn[i + 1]
      BY <2>6, <3>1
    <3>5. QED
      BY <3>2, <3>3, <3>4
  <2> HIDE DEF m, n
  <2>9. Mirrors(m, ring, back)
    BY <2>5, <2>7, <2>8 DEF Mirrors
  <2>10. QED
    BY <2>9 DEF ring, back, turn
<1>5. QED
  BY <1>3, <1>4

\* Hence a ring walked back is crossed as often.
LEMMA CrossedAsOften ==
  ASSUME NEW ring \in Seq(Points), NEW back \in Seq(Points), NEW m, Mirrors(m, ring, back),
         NEW point \in Points
  PROVE  CrossingCount(point, back) = CrossingCount(point, ring)
<1> DEFINE n == Len(ring)
           there == {i \in 1 .. n : Crosses(point, ring[i], After(ring, i))}
           home == {i \in 1 .. n : Crosses(point, back[i], After(back, i))}
<1>1. /\ n \in Nat /\ DOMAIN ring = 1 .. n /\ DOMAIN back = 1 .. n
      /\ m \in [1 .. n -> 1 .. n]
      /\ \A i \in 1 .. n : m[m[i]] = i /\ back[i] = After(ring, m[i]) /\ After(back, i) = ring[m[i]]
  BY DEF Mirrors
<1>2. CrossingCount(point, ring) = Cardinality(there) /\ CrossingCount(point, back) = Cardinality(home)
  BY <1>1 DEF CrossingCount, Crosses
<1> HIDE DEF n
<1>3. ASSUME NEW i \in 1 .. n PROVE i \in home <=> m[i] \in there
  <2>1. m[i] \in 1 .. n
    BY <1>1
  <2>2. ring[m[i]] \in Points /\ After(ring, m[i]) \in Points
    BY <2>1, AfterIn DEF n
  <2>3. back[i] = After(ring, m[i]) /\ After(back, i) = ring[m[i]]
    BY <1>1
  <2>4. Crosses(point, After(ring, m[i]), ring[m[i]]) <=> Crosses(point, ring[m[i]], After(ring, m[i]))
    BY <2>2, CrossesEitherWay
  <2>5. QED
    BY <2>1, <2>3, <2>4
<1>4. home \subseteq 1 .. n /\ there \subseteq 1 .. n
  OBVIOUS
<1> HIDE DEF there, home
<1> DEFINE f == [i \in home |-> m[i]]
<1>5. f \in [home -> there]
  BY <1>3, <1>4
<1>6. \A i \in home, j \in home : f[i] = f[j] => i = j
  BY <1>1, <1>4
<1>7. ASSUME NEW k \in there PROVE \E i \in home : f[i] = k
  <2>1. k \in 1 .. n /\ m[k] \in 1 .. n /\ m[m[k]] = k
    BY <1>1, <1>4
  <2>2. m[k] \in home
    BY <1>3, <2>1
  <2>3. QED
    BY <2>1, <2>2
<1>8. ExistsBijection(home, there)
  <2> HIDE DEF f
  <2>1. f \in Bijection(home, there)
    BY <1>5, <1>6, <1>7 DEF Bijection, Injection, Surjection, IsInjective
  <2>2. QED
    BY <2>1 DEF ExistsBijection
<1>9. IsFiniteSet(home)
  <2>1. IsFiniteSet(1 .. n)
    BY <1>1, FS_Interval
  <2>2. QED
    BY <1>4, <2>1, FS_Subset
<1>10. Cardinality(there) = Cardinality(home)
  BY <1>8, <1>9, FS_Bijection
<1>11. QED
  BY <1>2, <1>10

\* How often the rays of the even-odd rule cross a subpath, which needs three corners to
\* fill anything.
Crossings(point, ring) == IF Len(ring) >= 3 THEN CrossingCount(point, ring) ELSE 0

LEMMA CrossingsType ==
  ASSUME NEW ring \in Seq(Points), NEW point
  PROVE  /\ CrossingCount(point, ring) \in Int
         /\ Crossings(point, ring) \in Int
         /\ PointInPolygon(point, ring, "evenodd") <=> Crossings(point, ring) % 2 = 1
<1> DEFINE n == Len(ring)
           crossed == {i \in 1 .. n : Crosses(point, ring[i], After(ring, i))}
<1>1. n \in Nat /\ DOMAIN ring = 1 .. n
  OBVIOUS
<1>2. CrossingCount(point, ring) = Cardinality(crossed)
  BY <1>1 DEF CrossingCount, Crosses
<1>3. IsFiniteSet(crossed)
  <2>1. IsFiniteSet(1 .. n) /\ crossed \subseteq 1 .. n
    BY <1>1, FS_Interval
  <2>2. QED
    BY <2>1, FS_Subset
<1>4. CrossingCount(point, ring) \in Nat
  BY <1>2, <1>3, FS_CardinalityType
<1>5. PointInPolygon(point, ring, "evenodd") <=> n >= 3 /\ CrossingCount(point, ring) % 2 = 1
  BY DEF PointInPolygon
<1>6. 0 % 2 # 1
  OBVIOUS
<1>7. QED
  BY <1>4, <1>5, <1>6 DEF Crossings

CrossingsOf(point, rings) == [i \in 1 .. Len(rings) |-> Crossings(point, rings[i])]

\* The sums PointInCompound goes through.
CrossingSums(h, point, rings, areas) ==
    h = [s \in SUBSET areas |->
            IF s = {} THEN 0
            ELSE CrossingCount(point, rings[CHOOSE x \in s : TRUE]) + h[s \ {CHOOSE x \in s : TRUE}]]

LEMMA CompoundCrossings ==
  ASSUME NEW point, NEW rings \in Seq(Seq(Points))
  PROVE  \E g : /\ Running(g, CrossingsOf(point, rings), Len(rings))
                /\ PointInCompound(point, rings, "evenodd") <=> g[Len(rings)] % 2 = 1
<1> DEFINE n == Len(rings)
           D == {i \in 1 .. n : Len(rings[i]) >= 3}
           t == [i \in D |-> CrossingCount(point, rings[i])]
           u == CrossingsOf(point, rings)
<1>1. n \in Nat /\ DOMAIN rings = 1 .. n /\ \A i \in 1 .. n : rings[i] \in Seq(Points)
  OBVIOUS
<1>2. IsFiniteSet(D) /\ D \subseteq 1 .. n
  <2>1. IsFiniteSet(1 .. n) /\ D \subseteq 1 .. n
    BY <1>1, FS_Interval
  <2>2. QED
    BY <2>1, FS_Subset
<1>3. t \in [D -> Int] /\ u \in [1 .. n -> Int]
  <2>1. \A i \in 1 .. n : CrossingCount(point, rings[i]) \in Int /\ Crossings(point, rings[i]) \in Int
    BY <1>1, CrossingsType
  <2>2. QED
    BY <2>1 DEF CrossingsOf
<1>4. \A i \in 1 .. n : u[i] = IF i \in D THEN t[i] ELSE 0
  BY DEF CrossingsOf, Crossings
<1>5. PICK f \in [SUBSET D -> Int] : Sums(f, t, SUBSET D)
  <2> HIDE DEF D, t
  <2>1. QED
    BY <1>2, <1>3, SumsOverSubsets
<1>6. \A s \in SUBSET D : s # {} =>
          t[CHOOSE x \in s : TRUE] = CrossingCount(point, rings[CHOOSE x \in s : TRUE])
  <2>1. \A s \in SUBSET D : s # {} => (CHOOSE x \in s : TRUE) \in D
    <3> HIDE DEF D
    <3>1. QED
      OBVIOUS
  <2>2. \A i \in D : t[i] = CrossingCount(point, rings[i])
    OBVIOUS
  <2> HIDE DEF D, t
  <2>3. QED
    BY <2>1, <2>2
<1>7. \A h : Sums(h, t, SUBSET D) <=> CrossingSums(h, point, rings, D)
  <2>1. TAKE h
  <2>2. [s \in SUBSET D |-> IF s = {} THEN 0
             ELSE t[CHOOSE x \in s : TRUE] + h[s \ {CHOOSE x \in s : TRUE}]]
        = [s \in SUBSET D |-> IF s = {} THEN 0
             ELSE CrossingCount(point, rings[CHOOSE x \in s : TRUE]) + h[s \ {CHOOSE x \in s : TRUE}]]
    <3> HIDE DEF D, t
    <3>1. QED
      BY <1>6
  <2> HIDE DEF D, t
  <2>3. QED
    BY <2>2 DEF Sums, CrossingSums
<1> DEFINE total == LET crossings(i) == CrossingCount(point, rings[i]) IN MapThenSumSet(crossings, D)
<1>8. PointInCompound(point, rings, "evenodd") <=> total % 2 = 1
  BY <1>1 DEF PointInCompound
<1>9. \E h : Sums(h, t, SUBSET D) /\ total = h[D]
  <2> HIDE DEF D, t
  <2>1. CrossingSums(f, point, rings, D)
    BY <1>5, <1>7
  <2>2. \E h : CrossingSums(h, point, rings, D) /\ total = h[D]
    <3>1. \E h : h = [s \in SUBSET D |-> IF s = {} THEN 0
                     ELSE CrossingCount(point, rings[CHOOSE x \in s : TRUE]) + h[s \ {CHOOSE x \in s : TRUE}]]
      BY <2>1 DEF CrossingSums
    <3>2. QED
      BY <3>1 DEF MapThenSumSet, MapThenFoldSet, CrossingSums
  <2>3. QED
    BY <1>7, <2>2
<1> HIDE DEF D, t, u, n, total
<1>10. total = f[D]
  <2>1. PICK h : Sums(h, t, SUBSET D) /\ total = h[D]
    BY <1>9
  <2>2. t \in [D -> Int] /\ f \in [SUBSET D -> Int] /\ Sums(f, t, SUBSET D) /\ Sums(h, t, SUBSET D)
    BY <1>3, <1>5, <2>1
  <2>3. h[D] = f[D]
    BY ONLY <1>2, <2>2, SumsUnique, ZenonT(60)
  <2>4. QED
    BY <2>1, <2>3
<1>11. InAnyOrder(f, t, D)
  BY <1>2, <1>3, <1>5, SumsInAnyOrder
<1> DEFINE g == [k \in 0 .. n |-> f[(1 .. k) \cap D]]
<1>12. \A k \in 0 .. n : g[k] = f[(1 .. k) \cap D] /\ (1 .. k) \cap D \in SUBSET D
  OBVIOUS
<1>13. g \in [0 .. n -> Int]
  BY <1>12
<1>14. g[0] = 0
  <2>1. (1 .. 0) \cap D = {} /\ 0 \in 0 .. n
    BY <1>1
  <2>2. f[{}] = 0
    BY <1>5 DEF Sums
  <2>3. QED
    BY <1>12, <2>1, <2>2
<1>15. g[n] = f[D]
  <2>1. (1 .. n) \cap D = D
    BY <1>2
  <2>2. n \in 0 .. n
    BY <1>1
  <2>3. g[n] = f[(1 .. n) \cap D]
    BY <1>12, <2>2
  <2>4. QED
    BY <2>1, <2>3
<1>16. ASSUME NEW k \in 1 .. n PROVE g[k] = g[k - 1] + u[k]
  <2>1. k \in 0 .. n /\ k - 1 \in 0 .. n
    BY <1>1
  <2>2. g[k] = f[(1 .. k) \cap D] /\ g[k - 1] = f[(1 .. k - 1) \cap D] /\ g[k - 1] \in Int
    BY <1>12, <1>13, <2>1
  <2>3. CASE k \in D
    <3> DEFINE s == (1 .. k) \cap D
    <3>1. k \in s /\ s \ {k} = (1 .. k - 1) \cap D /\ s \in SUBSET D
      BY <1>1, <2>3
    <3> HIDE DEF s
    <3>2. f[s] = t[k] + f[s \ {k}]
      BY <1>11, <3>1 DEF InAnyOrder
    <3>3. u[k] = t[k] /\ u[k] \in Int
      BY <1>3, <1>4, <2>3
    <3> HIDE DEF g
    <3>4. g[k] = u[k] + g[k - 1]
      BY <2>2, <3>1, <3>2, <3>3 DEF s
    <3>5. QED
      BY <2>2, <3>3, <3>4
  <2>4. CASE k \notin D
    <3>1. (1 .. k) \cap D = (1 .. k - 1) \cap D
      BY <1>1, <2>4
    <3>2. u[k] = 0
      BY <1>4, <2>4
    <3> HIDE DEF g
    <3>3. g[k] = g[k - 1]
      BY <2>2, <3>1
    <3>4. QED
      BY <2>2, <3>2, <3>3
  <2>5. QED
    BY <2>3, <2>4
<1> HIDE DEF g
<1>17. Running(g, u, n)
  BY <1>1, <1>3, <1>13, <1>14, <1>16 DEF Running, Runs
<1>18. PointInCompound(point, rings, "evenodd") <=> g[n] % 2 = 1
  BY <1>8, <1>10, <1>15
<1>19. QED
  BY <1>17, <1>18 DEF u, n

\* Sums of terms of the same parity have the same parity.
LEMMA SameParity ==
  ASSUME NEW n, NEW g, NEW t, NEW h, NEW u, Running(g, t, n), Running(h, u, n),
         \A i \in 1 .. n : t[i] % 2 = u[i] % 2
  PROVE  g[n] % 2 = h[n] % 2
<1>0. /\ n \in Nat /\ t \in [1 .. n -> Int] /\ g \in [0 .. n -> Int] /\ Runs(g, t, n)
      /\ u \in [1 .. n -> Int] /\ h \in [0 .. n -> Int] /\ Runs(h, u, n)
  BY DEF Running
<1> DEFINE P == {k \in Nat : k <= n => g[k] % 2 = h[k] % 2}
<1>1. 0 \in P
  BY <1>0 DEF Runs
<1>2. ASSUME NEW k \in Nat, k \in P PROVE k + 1 \in P
  <2>1. SUFFICES ASSUME k + 1 <= n PROVE g[k + 1] % 2 = h[k + 1] % 2
    OBVIOUS
  <2>2. k + 1 \in 1 .. n /\ (k + 1) - 1 = k /\ k \in 0 .. n
    BY <1>0, <2>1
  <2>3. g[k + 1] = g[k] + t[k + 1] /\ h[k + 1] = h[k] + u[k + 1]
    BY <1>0, <2>2 DEF Runs
  <2>4. g[k] % 2 = h[k] % 2 /\ t[k + 1] % 2 = u[k + 1] % 2
    BY <1>2, <2>1, <2>2
  <2>5. g[k] \in Int /\ h[k] \in Int /\ t[k + 1] \in Int /\ u[k + 1] \in Int
    BY <1>0, <2>2
  <2>6. \A a \in Int, b \in Int, c \in Int, d \in Int :
            a % 2 = b % 2 /\ c % 2 = d % 2 => (a + c) % 2 = (b + d) % 2
    OBVIOUS
  <2> HIDE DEF P
  <2>7. QED
    BY ONLY <2>3, <2>4, <2>5, <2>6
<1> HIDE DEF P
<1>3. n \in P
  BY <1>0, <1>1, <1>2, Induction
<1>4. QED
  BY <1>0, <1>3 DEF P

-----------------------------------------------------------------------------
(* What the even-odd rule fills, of tidy paths and of all.                 *)

\* No gap is left to close.
ComesBack(path) == path.segments = <<>> \/ Returns(path)

\* The repair leaves a tidy path that comes back to its start, or has it walked back.
LEMMA TidyCrossed ==
  ASSUME NEW path \in Paths, Tidy(path), ComesBack(path), NEW point \in Points
  PROVE  Crossings(point, Ring(RepairPath(path))) = Crossings(point, Ring(path))
<1> DEFINE d == NormalizeWinding(path, "counter_clockwise")
           e == NormalizeCoordinatePrecision(d)
<1>1. /\ path.closed /\ Linked(path) /\ OnGrain(path)
      /\ \A i \in 1 .. Len(path.segments) : ~ZeroLength(path.segments[i])
  BY TidyParts
<1>2. RemoveZeroLengthSegments(RemoveDuplicateNodes(path)) = path
  BY <1>1, DuplicatesType, ZeroLengthRemovalType
<1>3. CloseTinyGaps(path) = path
  BY ClosesNothing, ClosingType DEF ComesBack
<1>4. RepairPath(path) = e
  BY <1>2, <1>3 DEF RepairPath
<1>5. CASE d = path
  <2>1. e = path
    BY <1>1, <1>5, PrecisionKeeps
  <2>2. QED
    BY <1>4, <2>1
<1>6. CASE d # path
  <2>1. path.segments # <<>>
    BY <1>6 DEF NormalizeWinding
  <2>2. OnGrain(d) /\ (IF DoubledArea(Ring(path)) < 0 THEN TurnsBack(path, d) ELSE d = path)
    BY <1>1, <2>1, WindingTurns
  <2>3. d \in Paths
    BY WindingType
  <2> HIDE DEF d
  <2>4. e = d
    BY <2>2, <2>3, PrecisionKeeps
  <2>5. TurnsBack(path, d)
    BY <1>6, <2>2
  <2>6. FlattenPath(d) = Reverse(FlattenPath(path))
    BY <1>1, <2>1, <2>3, <2>5, FlattenTurned
  <2>7. FlattenPath(path) \in Seq(Points)
    BY FlattenPathType, DrawingsOfPoints
  <2>8. PICK m : Mirrors(m, Ring(path), Ring(d))
    BY <2>6, <2>7, EdgesTurned DEF Ring
  <2>9. Ring(path) \in Seq(Points) /\ Ring(d) \in Seq(Points)
    BY <2>3, RingType
  <2>10. CrossingCount(point, Ring(d)) = CrossingCount(point, Ring(path))
    BY <2>8, <2>9, CrossedAsOften
  <2>11. Len(Ring(d)) = Len(Ring(path))
    BY <2>8 DEF Mirrors
  <2>12. Crossings(point, Ring(d)) = Crossings(point, Ring(path))
    BY <2>10, <2>11 DEF Crossings
  <2>13. QED
    BY <1>4, <2>4, <2>12
<1>7. QED
  BY <1>5, <1>6

\* A point at which no subpath but tidy ones that come back to their start changes.
LEMMA TidyStaysFilled ==
  ASSUME NEW compound \in Seq(Paths), NEW fixed \in Seq(Paths), fixed = RepairGeometry(compound),
         NEW point \in Points,
         \A i \in 1 .. Len(compound) :
             \/ Tidy(compound[i]) /\ ComesBack(compound[i])
             \/ PointInPolygon(point, Ring(fixed[i]), "evenodd")
                    = PointInPolygon(point, Ring(compound[i]), "evenodd")
  PROVE  PointInCompound(point, Rings(fixed), "evenodd")
             = PointInCompound(point, Rings(compound), "evenodd")
<1> DEFINE n == Len(compound)
           old == Rings(compound)
           new == Rings(fixed)
           t == CrossingsOf(point, old)
           u == CrossingsOf(point, new)
<1>1. /\ n \in Nat /\ Len(fixed) = n
      /\ \A i \in 1 .. n : fixed[i] = RepairPath(compound[i]) /\ compound[i] \in Paths /\ fixed[i] \in Paths
  BY MendedType
<1>2. DOMAIN compound = 1 .. n /\ DOMAIN fixed = 1 .. n
  BY <1>1
<1>3. \A i \in 1 .. n : Ring(compound[i]) \in Seq(Points) /\ Ring(fixed[i]) \in Seq(Points)
  BY <1>1, RingType
<1>4. /\ old \in Seq(Seq(Points)) /\ Len(old) = n /\ \A i \in 1 .. n : old[i] = Ring(compound[i])
      /\ new \in Seq(Seq(Points)) /\ Len(new) = n /\ \A i \in 1 .. n : new[i] = Ring(fixed[i])
  <2>1. old = [i \in 1 .. n |-> Ring(compound[i])] /\ new = [i \in 1 .. n |-> Ring(fixed[i])]
    BY <1>2 DEF Rings
  <2> HIDE DEF old, new, n
  <2>2. old \in [1 .. n -> Seq(Points)] /\ new \in [1 .. n -> Seq(Points)]
    BY <1>3, <2>1
  <2>3. QED
    BY <1>1, <2>1, <2>2
<1> HIDE DEF old, new
<1>5. ASSUME NEW i \in 1 .. n PROVE t[i] % 2 = u[i] % 2
  <2> DEFINE a == Crossings(point, Ring(compound[i]))
             b == Crossings(point, Ring(fixed[i]))
  <2>1. t[i] = a /\ u[i] = b
    BY <1>4 DEF CrossingsOf
  <2>2. CASE Tidy(compound[i]) /\ ComesBack(compound[i])
    <3>1. a = b
      BY <1>1, <2>2, TidyCrossed
    <3>2. QED
      BY <2>1, <3>1
  <2>3. CASE PointInPolygon(point, Ring(fixed[i]), "evenodd")
                 = PointInPolygon(point, Ring(compound[i]), "evenodd")
    <3>1. /\ a \in Int /\ (PointInPolygon(point, Ring(compound[i]), "evenodd") <=> a % 2 = 1)
          /\ b \in Int /\ (PointInPolygon(point, Ring(fixed[i]), "evenodd") <=> b % 2 = 1)
      BY <1>3, CrossingsType
    <3> HIDE DEF a, b
    <3>2. a % 2 = 1 <=> b % 2 = 1
      BY <2>3, <3>1
    <3>3. a % 2 \in {0, 1} /\ b % 2 \in {0, 1}
      BY <3>1
    <3>4. QED
      BY <2>1, <3>2, <3>3
  <2>4. QED
    BY <2>2, <2>3
<1> HIDE DEF t, u
<1>6. PICK g : /\ Running(g, t, n)
               /\ PointInCompound(point, old, "evenodd") <=> g[n] % 2 = 1
  <2>1. old \in Seq(Seq(Points)) /\ Len(old) = n
    BY <1>4
  <2>2. \E g : /\ Running(g, CrossingsOf(point, old), Len(old))
               /\ PointInCompound(point, old, "evenodd") <=> g[Len(old)] % 2 = 1
    BY ONLY <2>1, CompoundCrossings
  <2>3. CrossingsOf(point, old) = t
    BY DEF t
  <2> HIDE DEF n
  <2>4. QED
    BY <2>1, <2>2, <2>3, Zenon
<1>7. PICK h : /\ Running(h, u, n)
               /\ PointInCompound(point, new, "evenodd") <=> h[n] % 2 = 1
  <2>1. new \in Seq(Seq(Points)) /\ Len(new) = n
    BY <1>4
  <2>2. \E h : /\ Running(h, CrossingsOf(point, new), Len(new))
               /\ PointInCompound(point, new, "evenodd") <=> h[Len(new)] % 2 = 1
    BY ONLY <2>1, CompoundCrossings
  <2>3. CrossingsOf(point, new) = u
    BY DEF u
  <2> HIDE DEF n
  <2>4. QED
    BY <2>1, <2>2, <2>3, Zenon
<1>8. g[n] % 2 = h[n] % 2
  BY <1>5, <1>6, <1>7, SameParity
<1>9. PointInCompound(point, new, "evenodd") <=> PointInCompound(point, old, "evenodd")
  BY <1>6, <1>7, <1>8
<1>10. PointInCompound(point, new, "evenodd") \in BOOLEAN /\ PointInCompound(point, old, "evenodd") \in BOOLEAN
  BY DEF PointInCompound
<1>11. QED
  BY <1>9, <1>10 DEF old, new

\* Where repairing the geometry changes what the even-odd rule fills, it is within a
\* subpath that was not tidy or ended beside its start.
FillingOfTidyPathsStays ==
    Mended => \A point \in Points :
        \/ PointInCompound(point, Rings(mended), "evenodd")
               = PointInCompound(point, Rings(artwork), "evenodd")
        \/ \E i \in DOMAIN artwork :
               /\ ~(Tidy(artwork[i]) /\ ComesBack(artwork[i]))
               /\ PointInPolygon(point, Ring(mended[i]), "evenodd")
                      # PointInPolygon(point, Ring(artwork[i]), "evenodd")

\* Where the geometry repair changes what the even-odd rule fills, one of the subpaths that
\* were not tidy or ended beside their start changed there: those it finds in order it may
\* turn round, and a ring walked back is crossed as often (repair.py's repair_geometry and
\* winding.py's point_in_polygon).
THEOREM TidyPathsKeepTheirFilling == Spec => []FillingOfTidyPathsStays
<1>1. RepairInv => FillingOfTidyPathsStays
  <2> SUFFICES ASSUME RepairInv, Mended, NEW point \in Points,
                      ~(\E i \in DOMAIN artwork :
                           /\ ~(Tidy(artwork[i]) /\ ComesBack(artwork[i]))
                           /\ PointInPolygon(point, Ring(mended[i]), "evenodd")
                                  # PointInPolygon(point, Ring(artwork[i]), "evenodd"))
               PROVE  PointInCompound(point, Rings(mended), "evenodd")
                          = PointInCompound(point, Rings(artwork), "evenodd")
    BY DEF FillingOfTidyPathsStays
  <2>1. mended = RepairGeometry(artwork) /\ artwork \in Seq(Paths) /\ mended \in Seq(Paths)
    BY Versions DEF RepairInv, Mended
  <2>2. DOMAIN artwork = 1 .. Len(artwork)
    BY <2>1
  <2>3. QED
    BY <2>1, <2>2, TidyStaysFilled
<1>2. QED
  BY <1>1, RepairInvariance, PTL
=============================================================================
