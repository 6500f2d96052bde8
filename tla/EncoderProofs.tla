---------------------------- MODULE EncoderProofs ----------------------------
(***************************************************************************)
(* Aperture's encodings of a bound on the cost are exact, for every set of *)
(* weighted literals and every width of a weight.                          *)
(*                                                                         *)
(* A clause set says what its satisfying assignments say (`Satisfied') and *)
(* what unit propagation derives (`Closed' sets of literals hold it).  The *)
(* invariant of either construction has both sides: every assignment of    *)
(* the soft literals has a continuation that satisfies the clauses so far, *)
(* in which the literals still to be encoded carry its cost, and what that *)
(* continuation says of these literals is in every closed set.  One merge  *)
(* (TotStep) or one gate (AdderStepKeeps) keeps it.  For the comparator it *)
(* remains to see that a bound that has lost the bits no output stands for *)
(* still separates the costs below v from the others, v being itself a     *)
(* cost (BoundIsLess).                                                     *)
(*                                                                         *)
(* The size estimate is a fold: it goes through one count for each merge   *)
(* (CountedGoes).  Count and construction are kept side by side (Sized),   *)
(* and two counts at different limits, of which the lower never has more   *)
(* (NarrowerCount).                                                        *)
(***************************************************************************)
EXTENDS EncoderBuild, SumProofs

-----------------------------------------------------------------------------
(***************************************************************************)
(* Queues.                                                                 *)
(***************************************************************************)
\* What is taken from the front of a queue and put at its back.
Pushes(S, q, d, t, r) ==
  /\ q \in Seq(S) /\ t \in S /\ d \in 0 .. Len(q)
  /\ r = Append(SubSeq(q, d + 1, Len(q)), t)

Pushed(q, d, t, r) ==
  /\ Len(r) = Len(q) - d + 1
  /\ \A i \in 1 .. Len(q) - d : r[i] = q[i + d]
  /\ r[Len(q) - d + 1] = t

LEMMA QueueStep ==
  ASSUME NEW S, NEW q, NEW t, NEW d, NEW r, Pushes(S, q, d, t, r)
  PROVE  r \in Seq(S) /\ Pushed(q, d, t, r)
<1> DEFINE n == Len(q)
           s == SubSeq(q, d + 1, n)
<1>0. q \in Seq(S) /\ t \in S /\ d \in 0 .. n /\ r = Append(SubSeq(q, d + 1, n), t)
  BY DEF Pushes
<1> USE <1>0
<1>1. n \in Nat /\ \A i \in 1 .. n : q[i] \in S
  OBVIOUS
<1>2. s \in Seq(S) /\ Len(s) = n - d /\ \A i \in 1 .. n - d : s[i] = q[i + d]
  OBVIOUS
<1> HIDE DEF s
<1>3. r = Append(s, t)
  BY DEF s
<1>4. /\ r \in Seq(S) /\ Len(r) = n - d + 1
      /\ \A i \in 1 .. n - d : r[i] = q[i + d]
      /\ r[n - d + 1] = t
  BY <1>1, <1>2, <1>3
<1> QED
  BY <1>4 DEF Pushed

\* The sum over a queue of numbers after such a step.
Moves(n, d, F, H) ==
  /\ n \in Nat /\ d \in 0 .. n
  /\ \A i \in 1 .. n : F[i] \in Nat
  /\ H[n - d + 1] \in Nat
  /\ \A i \in 1 .. n - d : H[i] = F[i + d]

Moved(n, d, F, H) ==
  /\ SumFunctionOnSet(F, 1 .. d) \in Nat
  /\ SumFunctionOnSet(H, 1 .. n - d + 1) + SumFunctionOnSet(F, 1 .. d)
       = SumFunctionOnSet(F, 1 .. n) + H[n - d + 1]

LEMMA QueueSum ==
  ASSUME NEW n, NEW d, NEW F, NEW H, Moves(n, d, F, H)
  PROVE  Moved(n, d, F, H)
<1>0. /\ n \in Nat /\ d \in 0 .. n
      /\ \A i \in 1 .. n : F[i] \in Nat
      /\ H[n - d + 1] \in Nat
      /\ \A i \in 1 .. n - d : H[i] = F[i + d]
  BY DEF Moves
<1> USE <1>0
<1>1. Integral(F, 1 .. n) /\ Integral(F, 1 .. d) /\ Integral(F, d + 1 .. n)
      /\ Integral(H, 1 .. n - d)
  <2>1. IsFiniteSet(1 .. n) /\ IsFiniteSet(1 .. d) /\ IsFiniteSet(d + 1 .. n)
        /\ IsFiniteSet(1 .. n - d)
    <3>1. 1 \in Int /\ n \in Int /\ d \in Int /\ d + 1 \in Int /\ n - d \in Int
      OBVIOUS
    <3> QED
      BY ONLY <3>1, FS_Interval
  <2>2. \A i \in 1 .. n - d : i + d \in 1 .. n
    OBVIOUS
  <2>3. \A i \in 1 .. n - d : H[i] \in Int
    BY <2>2
  <2> QED
    BY <2>1, <2>3 DEF Integral
<1>2. SumFunctionOnSet(F, 1 .. n)
        = SumFunctionOnSet(F, 1 .. d) + SumFunctionOnSet(F, d + 1 .. n)
  <2>1. 1 .. n = (1 .. d) \cup (d + 1 .. n) /\ (1 .. d) \cap (d + 1 .. n) = {}
    OBVIOUS
  <2> QED
    BY <1>1, <2>1, SumUnion
<1>3. SumFunctionOnSet(H, 1 .. n - d) = SumFunctionOnSet(F, d + 1 .. n)
  <2> DEFINE S == 1 .. n - d
             T == d + 1 .. n
             b == [i \in S |-> i + d]
  <2>1. b \in [S -> T] /\ (\A x, y \in S : b[x] = b[y] => x = y)
    OBVIOUS
  <2>2. ASSUME NEW z \in T PROVE \E x \in S : b[x] = z
    <3>1. z - d \in S /\ b[z - d] = z
      OBVIOUS
    <3> QED
      BY <3>1
  <2>3. IsFiniteSet(S)
    BY FS_Interval
  <2>4. \A x \in S : H[x] = F[b[x]]
    OBVIOUS
  <2>5. Integral(F, T)
    BY <1>1
  <2> HIDE DEF b, S, T
  <2>6. SumFunctionOnSet(H, S) = SumFunctionOnSet(F, T)
    BY <2>1, <2>2, <2>3, <2>4, <2>5, SumRename
  <2> QED
    BY <2>6 DEF S, T
<1>4. SumFunctionOnSet(H, 1 .. n - d + 1) = SumFunctionOnSet(H, 1 .. n - d) + H[n - d + 1]
  <2>1. n - d + 1 \notin 1 .. n - d /\ 1 .. n - d + 1 = (1 .. n - d) \cup {n - d + 1}
    OBVIOUS
  <2> DEFINE p == n - d + 1
             S == 1 .. n - d
  <2>2. p \notin S /\ H[p] \in Int /\ Integral(H, S)
    BY <1>1, <2>1
  <2> HIDE DEF p, S
  <2>3. SumFunctionOnSet(H, S \cup {p}) = SumFunctionOnSet(H, S) + H[p]
    BY <2>2, SumExtend
  <2> QED
    BY <2>1, <2>3 DEF p, S
<1>5. /\ SumFunctionOnSet(F, 1 .. d) \in Nat
      /\ SumFunctionOnSet(F, d + 1 .. n) \in Int
  <2>1. \A i \in 1 .. d : F[i] \in Nat
    OBVIOUS
  <2>2. IsFiniteSet(1 .. d)
    BY FS_Interval
  <2> QED
    BY <1>1, <2>1, <2>2, SumNat, SumInt
<1>6. SumFunctionOnSet(H, 1 .. n - d + 1) + SumFunctionOnSet(F, 1 .. d)
        = SumFunctionOnSet(F, 1 .. n) + H[n - d + 1]
  BY <1>2, <1>3, <1>4, <1>5
<1> QED
  BY <1>5, <1>6 DEF Moved

-----------------------------------------------------------------------------
(***************************************************************************)
(* Unit propagation.                                                       *)
(***************************************************************************)
Satisfied(M, C) == \A c \in C : SatisfiesClause(M, c)

\* The literals that hold under an assignment.
TrueIn(M) == {l \in Int \ {0} : Holds(M, l)}

\* A set of literals from which propagation gets no further.
Closed(K, C) == \A c \in C : \A l \in c : (\A k \in c \ {l} : -k \in K) => l \in K

\* Sets of clauses over numbers other than 0.
Clauses == SUBSET SUBSET (Int \ {0})

\* A literal holds if and only if its negation does not.
LEMMA HoldsNeg ==
  ASSUME NEW M, NEW l \in Int \ {0}
  PROVE  -l \in Int \ {0} /\ -(-l) = l /\ (Holds(M, -l) <=> ~Holds(M, l))
BY DEF Holds

\* A set of clauses that an assignment satisfies is closed under it.
LEMMA SatisfiedIsClosed ==
  ASSUME NEW M, NEW C \in Clauses, Satisfied(M, C)
  PROVE  Closed(TrueIn(M), C)
<1> SUFFICES ASSUME NEW c \in C, NEW l \in c, \A k \in c \ {l} : -k \in TrueIn(M)
             PROVE  l \in TrueIn(M)
  BY DEF Closed
<1>1. c \subseteq Int \ {0}
  BY DEF Clauses
<1>2. PICK j \in c : Holds(M, j)
  BY DEF Satisfied, SatisfiesClause
<1>3. CASE j = l
  BY <1>1, <1>2, <1>3 DEF TrueIn
<1>4. CASE j # l
  <2>1. Holds(M, -j)
    BY <1>4 DEF TrueIn
  <2> QED
    BY <1>1, <1>2, <2>1, HoldsNeg
<1> QED
  BY <1>3, <1>4

\* The rounds of propagation.
UnitLits(C, known) ==
  {l \in UNION C : \E c \in C : l \in c /\ \A k \in c \ {l} : -k \in known}

Round(C, known) == known \cup UnitLits(C, known)

Rounds(C, g, r, known) ==
  /\ known[0] = g
  /\ \A n \in 1 .. r : known[n] = Round(C, known[n - 1])

RoundsOf(C) == Cardinality(VarsOf(UNION C))

\* A function that goes from each number to the next exists, and so do the rounds.
LEMMA RoundsExist ==
  ASSUME NEW C, NEW g, RoundsOf(C) \in Nat
  PROVE  \E known : Rounds(C, g, RoundsOf(C), known)
                      /\ Propagated(C, g) = known[RoundsOf(C)]
<1> DEFINE r == RoundsOf(C)
           Steps(n, f) == f = [k \in 0 .. n |-> IF k = 0 THEN g ELSE Round(C, f[k - 1])]
           P(f) == f = [n \in 0 .. r |->
                          IF n = 0 THEN g
                          ELSE UNION {before \cup UnitLits(C, before) : before \in {f[n - 1]}}]
           h == CHOOSE f : P(f)
<1>1. \A n \in Nat : \E f : Steps(n, f)
  <2> DEFINE G == {n \in Nat : \E f : Steps(n, f)}
  <2>1. 0 \in G
    <3> DEFINE f == [k \in 0 .. 0 |-> g]
    <3>1. Steps(0, f)
      OBVIOUS
    <3> QED
      BY <3>1
  <2>2. ASSUME NEW n \in Nat, n \in G PROVE n + 1 \in G
    <3>1. PICK f : Steps(n, f)
      BY <2>2
    <3> DEFINE e == [k \in 0 .. n + 1 |-> IF k = n + 1 THEN Round(C, f[n]) ELSE f[k]]
    <3>2. ASSUME NEW k \in 0 .. n + 1 PROVE e[k] = IF k = 0 THEN g ELSE Round(C, e[k - 1])
      <4>1. CASE k = 0
        BY <3>1, <4>1
      <4>2. CASE k = n + 1
        <5>1. e[k] = Round(C, f[n]) /\ e[n] = f[n] /\ k - 1 = n
          BY <4>2
        <5> QED
          BY <4>2, <5>1
      <4>3. CASE k # 0 /\ k # n + 1
        <5>1. k \in 0 .. n /\ k - 1 \in 0 .. n /\ k - 1 # n + 1
          BY <4>3
        <5>2. f[k] = Round(C, f[k - 1])
          BY <3>1, <4>3, <5>1
        <5>3. e[k] = f[k] /\ e[k - 1] = f[k - 1]
          BY <4>3, <5>1
        <5> QED
          BY <4>3, <5>2, <5>3
      <4> QED
        BY <4>1, <4>2, <4>3
    <3>3. Steps(n + 1, e)
      <4>1. e = [k \in 0 .. n + 1 |-> e[k]]
        OBVIOUS
      <4> HIDE DEF e
      <4> QED
        BY <3>2, <4>1
    <3>4. n + 1 \in Nat
      OBVIOUS
    <3> HIDE DEF Steps, e
    <3> QED
      BY <3>3, <3>4
  <2> HIDE DEF G
  <2>3. \A n \in Nat : n \in G
    BY <2>1, <2>2, NumberInduction
  <2> QED
    BY <2>3 DEF G
<1>2. \A f : Steps(r, f) <=> P(f)
  <2>1. \A b : UNION {before \cup UnitLits(C, before) : before \in {b}} = Round(C, b)
    BY DEF Round
  <2> QED
    BY <2>1
<1>3. Propagated(C, g) = h[r]
  BY DEF Propagated, UnitLits, RoundsOf, VarsOf
<1>4. P(h)
  <2>1. \E f : P(f)
    <3> HIDE DEF P, Steps
    <3> QED
      BY <1>1, <1>2
  <2> HIDE DEF P
  <2> QED
    BY <2>1
<1>5. Steps(r, h)
  <2> HIDE DEF P, Steps, h
  <2> QED
    BY <1>2, <1>4
<1> HIDE DEF h
<1>6. h[0] = g /\ \A n \in 1 .. r : h[n] = Round(C, h[n - 1])
  <2>1. h = [k \in 0 .. r |-> IF k = 0 THEN g ELSE Round(C, h[k - 1])]
    BY <1>5
  <2>2. \A k \in 0 .. r : h[k] = IF k = 0 THEN g ELSE Round(C, h[k - 1])
    BY <2>1
  <2>3. 0 \in 0 .. r /\ \A n \in 1 .. r : n \in 0 .. r /\ n # 0
    OBVIOUS
  <2> HIDE DEF r
  <2> QED
    BY <2>2, <2>3
<1> QED
  BY <1>3, <1>6 DEF Rounds

\* What propagation derives holds in every assignment that satisfies the clauses
\* and what was given.
LEMMA PropagatedHolds ==
  ASSUME NEW C \in Clauses, NEW g, RoundsOf(C) \in Nat, NEW M,
         g \subseteq TrueIn(M), Satisfied(M, C), NEW known, Rounds(C, g, RoundsOf(C), known)
  PROVE  \A n \in 0 .. RoundsOf(C) : g \subseteq known[n] /\ known[n] \subseteq TrueIn(M)
<1> DEFINE r == RoundsOf(C)
           G == {n \in Nat : n <= r => g \subseteq known[n] /\ known[n] \subseteq TrueIn(M)}
<1>1. 0 \in G
  BY DEF Rounds
<1>2. ASSUME NEW n \in Nat, n \in G PROVE n + 1 \in G
  <2> SUFFICES ASSUME n + 1 <= r
               PROVE  g \subseteq known[n + 1] /\ known[n + 1] \subseteq TrueIn(M)
    OBVIOUS
  <2>1. n + 1 \in 1 .. r /\ n <= r /\ (n + 1) - 1 = n
    OBVIOUS
  <2>2. known[n + 1] = known[n] \cup UnitLits(C, known[n])
    BY <2>1 DEF Rounds, Round
  <2>3. g \subseteq known[n] /\ known[n] \subseteq TrueIn(M)
    BY <1>2, <2>1
  <2>4. UnitLits(C, known[n]) \subseteq TrueIn(M)
    BY <2>3, SatisfiedIsClosed DEF UnitLits, Closed
  <2> QED
    BY <2>2, <2>3, <2>4
<1>3. \A n \in Nat : n \in G
  <2> HIDE DEF G
  <2> QED
    BY <1>1, <1>2, NumberInduction
<1> QED
  BY <1>3

\* The variables of finitely many literals are finitely many.
LEMMA VarsFinite ==
  ASSUME NEW C, IsFiniteSet(UNION C)
  PROVE  IsFiniteSet(VarsOf(UNION C)) /\ RoundsOf(C) \in Nat
<1> DEFINE S == UNION C
           T == VarsOf(S)
           f == [l \in S |-> IF l > 0 THEN l ELSE -l]
<1>1. f \in Surjection(S, T)
  BY DEF Surjection, VarsOf
<1> HIDE DEF f, S
<1>2. IsFiniteSet(T)
  BY <1>1, FS_Surjection DEF S
<1>3. Cardinality(T) \in Nat
  BY <1>2, FS_CardinalityType
<1> QED
  BY <1>2, <1>3 DEF S, RoundsOf

\* A set of literals of one assignment is no larger than that of the variables.
LEMMA LiteralsAreFew ==
  ASSUME NEW C \in Clauses, IsFiniteSet(UNION C), NEW M, NEW N \in SUBSET (UNION C),
         N \subseteq TrueIn(M)
  PROVE  IsFiniteSet(N) /\ Cardinality(N) <= RoundsOf(C)
<1> DEFINE V == VarsOf(UNION C)
           f == [l \in N |-> IF l > 0 THEN l ELSE -l]
<1>1. f \in [N -> V]
  BY DEF VarsOf
<1>2. ASSUME NEW a \in N, NEW b \in N, f[a] = f[b] PROVE a = b
  <2>1. a \in Int \ {0} /\ b \in Int \ {0} /\ Holds(M, a) /\ Holds(M, b)
    BY DEF TrueIn
  <2>2. a = b \/ a = -b
    BY <1>2, <2>1
  <2> QED
    BY <2>1, <2>2, HoldsNeg
<1>3. f \in Injection(N, V)
  <2> HIDE DEF f
  <2> QED
    BY <1>1, <1>2 DEF Injection, IsInjective
<1>4. IsFiniteSet(V)
  BY VarsFinite
<1> HIDE DEF f, V
<1>5. IsFiniteSet(N) /\ Cardinality(N) <= Cardinality(V)
  BY <1>3, <1>4, FS_Injection
<1> QED
  BY <1>5 DEF V, RoundsOf

\* As many rounds as there are variables are enough to derive all there is: each
\* round before the last one derives a literal of another variable.
LEMMA PropagatedIsClosed ==
  ASSUME NEW C \in Clauses, IsFiniteSet(UNION C), NEW g, NEW M,
         g \subseteq TrueIn(M), Satisfied(M, C)
  PROVE  /\ g \subseteq Propagated(C, g)
         /\ Propagated(C, g) \subseteq TrueIn(M)
         /\ Closed(Propagated(C, g), C)
<1> DEFINE r == RoundsOf(C)
<1>1. r \in Nat
  BY VarsFinite
<1>2. PICK known : Rounds(C, g, r, known) /\ Propagated(C, g) = known[r]
  BY <1>1, RoundsExist
<1>3. \A n \in 0 .. r : g \subseteq known[n] /\ known[n] \subseteq TrueIn(M)
  BY <1>1, <1>2, PropagatedHolds
<1> DEFINE New(n) == known[n] \ g
<1>4. \A n \in 0 .. r : New(n) \subseteq TrueIn(M) /\ New(n) \subseteq UNION C
  <2> DEFINE G == {n \in Nat : n <= r => New(n) \subseteq UNION C}
  <2>1. 0 \in G
    BY <1>2 DEF Rounds
  <2>2. ASSUME NEW n \in Nat, n \in G PROVE n + 1 \in G
    <3> SUFFICES ASSUME n + 1 <= r PROVE New(n + 1) \subseteq UNION C
      OBVIOUS
    <3>1. n + 1 \in 1 .. r /\ n <= r /\ (n + 1) - 1 = n
      BY <1>1
    <3>2. known[n + 1] = known[n] \cup UnitLits(C, known[n])
      BY <1>2, <3>1 DEF Rounds, Round
    <3>3. UnitLits(C, known[n]) \subseteq UNION C
      BY DEF UnitLits
    <3>4. New(n) \subseteq UNION C
      BY <2>2, <3>1
    <3> QED
      BY <3>2, <3>3, <3>4
  <2> HIDE DEF G
  <2>3. \A n \in Nat : n \in G
    BY <2>1, <2>2, NumberInduction
  <2> QED
    BY <1>1, <1>3, <2>3 DEF G
<1>5. \A n \in 0 .. r : IsFiniteSet(New(n)) /\ Cardinality(New(n)) \in Nat
                          /\ Cardinality(New(n)) <= r
  <2> TAKE n \in 0 .. r
  <2> DEFINE N == New(n)
  <2>1. N \in SUBSET (UNION C) /\ N \subseteq TrueIn(M)
    BY <1>4
  <2> HIDE DEF N
  <2>2. IsFiniteSet(N) /\ Cardinality(N) <= r
    BY <2>1, LiteralsAreFew
  <2>3. Cardinality(N) \in Nat
    BY <2>2, FS_CardinalityType
  <2> QED
    BY <2>2, <2>3 DEF N
<1>6. \A n \in 0 .. r : known[n] = g \cup New(n)
  BY <1>3
<1> HIDE DEF New
\* Either the rounds have come to an end or each of them found something.
<1>7. \A n \in 0 .. r : UnitLits(C, known[n]) \subseteq known[n] \/ n <= Cardinality(New(n))
  <2> DEFINE Fixed(n) == UnitLits(C, known[n]) \subseteq known[n]
             G == {n \in Nat : n <= r => Fixed(n) \/ n <= Cardinality(New(n))}
  <2>1. 0 \in G
    BY <1>1, <1>5
  <2>2. ASSUME NEW n \in Nat, n \in G PROVE n + 1 \in G
    <3> SUFFICES ASSUME n + 1 <= r
                 PROVE  Fixed(n + 1) \/ n + 1 <= Cardinality(New(n + 1))
      OBVIOUS
    <3>1. n + 1 \in 1 .. r /\ n + 1 \in 0 .. r /\ n \in 0 .. r /\ n <= r /\ (n + 1) - 1 = n
      BY <1>1
    <3>2. known[n + 1] = known[n] \cup UnitLits(C, known[n])
      BY <1>2, <3>1 DEF Rounds, Round
    <3>3. CASE Fixed(n)
      <4>1. known[n + 1] = known[n]
        BY <3>2, <3>3
      <4> QED
        BY <3>3, <4>1
    <3>4. CASE ~Fixed(n)
      <4>1. n <= Cardinality(New(n))
        BY <2>2, <3>1, <3>4
      <4>2. PICK l \in UnitLits(C, known[n]) : l \notin known[n]
        BY <3>4
      <4>3. New(n) \subseteq New(n + 1) /\ l \in New(n + 1) /\ l \notin New(n)
        BY <1>3, <3>1, <3>2, <4>2 DEF New
      <4> DEFINE A == New(n)
                 B == New(n + 1)
      <4>4. /\ IsFiniteSet(A) /\ IsFiniteSet(B) /\ A \in SUBSET B /\ A # B
            /\ Cardinality(A) \in Nat /\ Cardinality(B) \in Nat
        BY <1>5, <3>1, <4>3
      <4> HIDE DEF A, B
      <4>5. Cardinality(A) < Cardinality(B)
        BY <4>4, FS_Subset
      <4> QED
        BY <4>1, <4>4, <4>5 DEF A, B
    <3> QED
      BY <3>3, <3>4
  <2> HIDE DEF G
  <2>3. \A n \in Nat : n \in G
    BY <2>1, <2>2, NumberInduction
  <2> QED
    BY <1>1, <2>3 DEF G
<1>8. UnitLits(C, known[r]) \subseteq known[r]
  <2> SUFFICES ASSUME NEW l \in UnitLits(C, known[r]), l \notin known[r] PROVE FALSE
    OBVIOUS
  <2> DEFINE A == New(r)
             B == A \cup {l}
  <2>1. r \in 0 .. r
    BY <1>1
  <2>2. r <= Cardinality(A) /\ IsFiniteSet(A) /\ Cardinality(A) \in Nat /\ l \notin A
    BY <1>5, <1>6, <1>7, <2>1
  <2>3. A \subseteq TrueIn(M) /\ A \subseteq UNION C
    BY <1>4, <2>1 DEF New
  <2>4. l \in UNION C /\ l \in TrueIn(M)
    <3>1. known[r] \subseteq TrueIn(M)
      BY <1>3, <2>1
    <3> QED
      BY <3>1, SatisfiedIsClosed DEF UnitLits, Closed
  <2>5. B \in SUBSET (UNION C) /\ B \subseteq TrueIn(M)
    BY <2>3, <2>4
  <2>6. Cardinality(B) = Cardinality(A) + 1
    <3> HIDE DEF A
    <3> QED
      BY <2>2, FS_AddElement
  <2>7. Cardinality(B) <= r
    <3> HIDE DEF B
    <3> QED
      BY <2>5, LiteralsAreFew
  <2> HIDE DEF A, B
  <2> QED
    BY <1>1, <2>2, <2>6, <2>7
<1>9. Closed(known[r], C)
  BY <1>8 DEF UnitLits, Closed
<1>10. r \in 0 .. r
  BY <1>1
<1> HIDE DEF r
<1> QED
  BY <1>2, <1>3, <1>9, <1>10

\* Extends asks whether an assignment satisfies the clauses and what was given.
LEMMA ExtendsIsSatisfiable ==
  ASSUME NEW C \in Clauses, IsFiniteSet(UNION C), NEW g \in SUBSET (Int \ {0})
  PROVE  Extends(C, g) <=> \E M \in SUBSET Nat : g \subseteq TrueIn(M) /\ Satisfied(M, C)
<1> DEFINE P == Propagated(C, g)
<1>0. \A c \in C : \A l \in c : l \in Int \ {0}
  BY DEF Clauses
<1>1. ASSUME NEW M \in SUBSET Nat, g \subseteq TrueIn(M), Satisfied(M, C)
      PROVE  Extends(C, g)
  <2>1. P \subseteq TrueIn(M)
    BY <1>1, PropagatedIsClosed
  <2> HIDE DEF P
  <2>2. \A l \in P : l \in Int \ {0} /\ Holds(M, l)
    BY <2>1 DEF TrueIn
  <2>3. ~Conflicting(P)
    BY <2>2, HoldsNeg DEF Conflicting
  <2> DEFINE true == {v \in VarsOf(UNION C) \ VarsOf(P) : v \in M}
  <2>4. ASSUME NEW c \in C
        PROVE  \E l \in c : l \in P \/ l \in true \/ (l < 0 /\ -l \notin P \cup true)
    <3>1. PICK l \in c : Holds(M, l)
      BY <1>1 DEF Satisfied, SatisfiesClause
    <3>2. l \in Int \ {0} /\ l \in UNION C
      BY <1>0
    <3>3. CASE l > 0
      <4>1. l \in M /\ l \in VarsOf(UNION C)
        BY <3>1, <3>2, <3>3 DEF Holds, VarsOf
      <4>2. CASE l \in VarsOf(P)
        <5>1. PICK k \in P : l = IF k > 0 THEN k ELSE -k
          BY <4>2 DEF VarsOf
        <5>2. k \in Int \ {0} /\ Holds(M, k)
          BY <2>2
        <5>3. k = l
          BY <3>2, <3>3, <4>1, <5>1, <5>2 DEF Holds
        <5> QED
          BY <5>3
      <4> QED
        BY <4>1, <4>2
    <3>4. CASE l < 0
      <4>1. -l \notin M
        BY <3>1, <3>2, <3>4 DEF Holds
      <4>2. -l \notin P
        <5> SUFFICES ASSUME -l \in P PROVE FALSE
          OBVIOUS
        <5>1. Holds(M, -l)
          BY <2>2
        <5> QED
          BY <3>1, <3>2, <5>1, HoldsNeg
      <4>3. -l \notin true
        BY <4>1
      <4> QED
        BY <3>4, <4>2, <4>3
    <3>5. l > 0 \/ l < 0
      BY <3>2
    <3> QED
      BY <3>3, <3>4, <3>5
  <2>5. true \in SUBSET (VarsOf(UNION C) \ VarsOf(P))
    OBVIOUS
  <2> HIDE DEF true
  <2>6. \E known \in {P} :
          /\ ~Conflicting(known)
          /\ \E t \in SUBSET (VarsOf(UNION C) \ VarsOf(known)) :
               \A c \in C : \E l \in c : \/ l \in known
                                         \/ l \in t
                                         \/ l < 0 /\ -l \notin known \cup t
    BY <2>3, <2>4, <2>5
  <2> QED
    BY <2>6, Zenon DEF Extends, P
<1>2. ASSUME Extends(C, g), g \subseteq P
      PROVE  \E M \in SUBSET Nat : g \subseteq TrueIn(M) /\ Satisfied(M, C)
  <2>0. PICK known \in {P} :
          /\ ~Conflicting(known)
          /\ \E true \in SUBSET (VarsOf(UNION C) \ VarsOf(known)) :
               \A c \in C : \E l \in c : \/ l \in known
                                         \/ l \in true
                                         \/ l < 0 /\ -l \notin known \cup true
    BY <1>2, Zenon DEF Extends
  <2> HIDE DEF P
  <2>2. known = P /\ ~Conflicting(P)
    BY <2>0
  <2>1. PICK true \in SUBSET (VarsOf(UNION C) \ VarsOf(P)) :
          \A c \in C : \E l \in c : l \in P \/ l \in true \/ (l < 0 /\ -l \notin P \cup true)
    BY <2>0, <2>2, Zenon
  <2> DEFINE M == {v \in Nat : v \in P \/ v \in true}
  <2>3. \A v \in true : v \in Nat /\ v # 0 /\ v \notin P /\ -v \notin P
    <3> TAKE v \in true
    <3>1. v \in VarsOf(UNION C) /\ v \notin VarsOf(P)
      BY <2>1
    <3>2. PICK k \in UNION C : v = IF k > 0 THEN k ELSE -k
      BY <3>1 DEF VarsOf
    <3>3. k \in Int \ {0}
      BY <1>0
    <3>4. v \in Nat /\ v # 0
      BY <3>2, <3>3
    <3>5. v \notin P /\ -v \notin P
      BY <3>1, <3>4 DEF VarsOf
    <3> QED
      BY <3>4, <3>5
  <2>4. \A l \in P : -l \notin P
    BY <2>2 DEF Conflicting
  <2>5. ASSUME NEW l \in P, l \in Int \ {0} PROVE Holds(M, l)
    <3>1. CASE l > 0
      BY <2>5, <3>1 DEF Holds
    <3>2. CASE l < 0
      <4>1. -l \notin P
        BY <2>4
      <4>2. -l \notin true
        BY <2>3, <2>5, HoldsNeg
      <4> QED
        BY <3>2, <2>5, <4>1, <4>2 DEF Holds
    <3> QED
      BY <2>5, <3>1, <3>2
  <2>6. g \subseteq TrueIn(M)
    BY <1>2, <2>5 DEF TrueIn
  <2>7. ASSUME NEW c \in C PROVE \E l \in c : Holds(M, l)
    <3>1. PICK l \in c : l \in P \/ l \in true \/ (l < 0 /\ -l \notin P \cup true)
      BY <2>1
    <3>2. l \in Int \ {0}
      BY <1>0
    <3>3. CASE l \in P
      BY <2>5, <3>2, <3>3
    <3>4. CASE l \in true
      BY <2>3, <3>4 DEF Holds
    <3>5. CASE l < 0 /\ -l \notin P \cup true
      BY <3>2, <3>5 DEF Holds
    <3> QED
      BY <3>1, <3>3, <3>4, <3>5
  <2>8. M \in SUBSET Nat /\ Satisfied(M, C)
    BY <2>7 DEF Satisfied, SatisfiesClause
  <2> HIDE DEF M
  <2> QED
    BY <2>6, <2>8
<1>3. g \subseteq P
  <2>1. PICK known : Rounds(C, g, RoundsOf(C), known) /\ P = known[RoundsOf(C)]
    BY VarsFinite, RoundsExist
  <2> DEFINE r == RoundsOf(C)
             G == {n \in Nat : n <= r => g \subseteq known[n]}
  <2>2. 0 \in G
    BY <2>1 DEF Rounds
  <2>3. ASSUME NEW n \in Nat, n \in G PROVE n + 1 \in G
    <3> SUFFICES ASSUME n + 1 <= r PROVE g \subseteq known[n + 1]
      OBVIOUS
    <3>1. r \in Nat
      BY VarsFinite
    <3>2. n + 1 \in 1 .. r /\ n <= r /\ (n + 1) - 1 = n
      BY <3>1
    <3> QED
      BY <2>1, <2>3, <3>2 DEF Rounds, Round
  <2> HIDE DEF G
  <2>4. \A n \in Nat : n \in G
    BY <2>2, <2>3, NumberInduction
  <2>5. r \in Nat
    BY VarsFinite
  <2> HIDE DEF r
  <2> QED
    BY <2>1, <2>4, <2>5 DEF G, r
<1> HIDE DEF P
<1> QED
  BY <1>1, <1>2, <1>3

-----------------------------------------------------------------------------
(***************************************************************************)
(* The totalizer: one merge.                                               *)
(***************************************************************************)
Clip(L, w) == CheckRhsSimplification(L, w)

\* What a node may be: its weights and their literals.
Nodes == UNION {[D -> Int] : D \in SUBSET Nat}

\* The literals of variables below x.
Below(x) == {l \in Int \ {0} : -x < l /\ l < x}

IsNode(first, t, x) ==
  /\ t \in Nodes
  /\ IsFiniteSet(DOMAIN t) /\ DOMAIN t # {} /\ DOMAIN t \subseteq Nat \ {0}
  /\ \A w \in DOMAIN t : t[w] \in Below(x) /\ t[w] # first /\ t[w] # -first

QueueShape(first, q, x) ==
  /\ q \in Seq(Nodes) /\ Len(q) \in Nat /\ Len(q) >= 1
  /\ \A i \in 1 .. Len(q) : IsNode(first, q[i], x)

ClausesBelow(C, x) == C \in SUBSET SUBSET Below(x) /\ IsFiniteSet(UNION C)

\* Clipping keeps what is below the limit.
LEMMA ClipFacts ==
  ASSUME NEW L \in Nat \ {0}
  PROVE  /\ \A w \in Nat : Clip(L, w) = IF w < L THEN w ELSE L
         /\ \A w \in Nat : Clip(L, w) \in 0 .. L /\ (Clip(L, w) = 0 <=> w = 0)
BY DEF Clip, CheckRhsSimplification

\* The weights of a merged node, all within the limit.
LEMMA MergedWeightsAre ==
  ASSUME NEW left, NEW right, NEW L \in Nat \ {0},
         DOMAIN left \subseteq Nat \ {0}, DOMAIN right \subseteq Nat \ {0}
  PROVE  /\ MergedWeights(left, right, L) \subseteq 1 .. L
         /\ \A l \in DOMAIN left : Clip(L, l) \in MergedWeights(left, right, L)
         /\ \A r \in DOMAIN right : Clip(L, r) \in MergedWeights(left, right, L)
         /\ \A l \in DOMAIN left, r \in DOMAIN right :
              Clip(L, l + r) \in MergedWeights(left, right, L)
         /\ \A w \in MergedWeights(left, right, L) :
              \/ \E l \in DOMAIN left : w = Clip(L, l)
              \/ \E r \in DOMAIN right : w = Clip(L, r)
              \/ \E l \in DOMAIN left, r \in DOMAIN right : w = Clip(L, l + r)
<1> DEFINE S == DOMAIN left \cup DOMAIN right
                  \cup {l + r : l \in DOMAIN left, r \in DOMAIN right}
<1>1. \A w \in S : w \in Nat \ {0}
  OBVIOUS
<1>2. MergedWeights(left, right, L) = {Clip(L, w) : w \in S}
  BY DEF MergedWeights, Clip
<1>3. \A w \in S : Clip(L, w) \in 1 .. L
  BY <1>1, ClipFacts
<1>4. \A w \in S : \/ w \in DOMAIN left \/ w \in DOMAIN right
                   \/ \E l \in DOMAIN left, r \in DOMAIN right : w = l + r
  OBVIOUS
<1>5. \A l \in DOMAIN left, r \in DOMAIN right : l \in S /\ r \in S /\ l + r \in S
  OBVIOUS
<1>6. (\A l \in DOMAIN left : l \in S) /\ (\A r \in DOMAIN right : r \in S)
  OBVIOUS
<1> HIDE DEF S
<1>7. \A w \in MergedWeights(left, right, L) : \E u \in S : w = Clip(L, u)
  BY <1>2
<1>8. \A u \in S : Clip(L, u) \in MergedWeights(left, right, L)
  BY <1>2
<1>9. MergedWeights(left, right, L) \subseteq 1 .. L
  BY <1>3, <1>7
<1>10. ASSUME NEW w \in MergedWeights(left, right, L)
       PROVE  \/ \E l \in DOMAIN left : w = Clip(L, l)
              \/ \E r \in DOMAIN right : w = Clip(L, r)
              \/ \E l \in DOMAIN left, r \in DOMAIN right : w = Clip(L, l + r)
  <2>1. PICK u \in S : w = Clip(L, u)
    BY <1>7
  <2> QED
    BY <1>4, <2>1
<1> QED
  BY <1>5, <1>6, <1>8, <1>9, <1>10

\* The outputs of a merged node are new variables, one for each weight.
LEMMA ParentNode ==
  ASSUME NEW first \in Nat, NEW W \in SUBSET (Nat \ {0}), IsFiniteSet(W), W # {}, NEW x \in Nat,
         first < x,
         NEW parent, parent = MergedNode(W, x)
  PROVE  /\ DOMAIN parent = W
         /\ Cardinality(W) \in Nat
         /\ \A w \in W : parent[w] \in Nat /\ x <= parent[w]
                           /\ parent[w] < x + Cardinality(W)
         /\ \A w, u \in W : parent[w] = parent[u] => w = u
         /\ IsNode(first, parent, x + Cardinality(W))
<1> DEFINE Lower(w) == {u \in W : u < w}
<1>1. DOMAIN parent = W /\ \A w \in W : parent[w] = x + Cardinality(Lower(w))
  BY DEF MergedNode
<1>2. Cardinality(W) \in Nat
  BY FS_CardinalityType
<1>3. ASSUME NEW w \in W
      PROVE  Cardinality(Lower(w)) \in Nat /\ Cardinality(Lower(w)) < Cardinality(W)
  <2> DEFINE A == Lower(w)
  <2>1. A \in SUBSET W /\ A # W
    OBVIOUS
  <2> HIDE DEF A
  <2>2. IsFiniteSet(A) /\ Cardinality(A) <= Cardinality(W) /\ Cardinality(A) # Cardinality(W)
    BY <2>1, FS_Subset
  <2>3. Cardinality(A) \in Nat
    BY <2>2, FS_CardinalityType
  <2> QED
    BY <1>2, <2>2, <2>3 DEF A
<1>4. ASSUME NEW w \in W, NEW u \in W, w < u
      PROVE  Cardinality(Lower(w)) < Cardinality(Lower(u))
  <2> DEFINE A == Lower(w)
             B == Lower(u)
  <2>0. \A v \in W : v \in Nat
    OBVIOUS
  <2>1. A \in SUBSET B /\ w \in B /\ w \notin A /\ B \in SUBSET W
    <3>1. A \in SUBSET B
      <4> SUFFICES ASSUME NEW v \in A PROVE v \in B
        OBVIOUS
      <4>1. v \in W /\ v < w
        OBVIOUS
      <4>2. v \in Nat /\ w \in Nat /\ u \in Nat
        BY <2>0, <4>1
      <4>3. v < u
        BY <1>4, <4>1, <4>2
      <4> QED
        BY <4>1, <4>3
    <3>2. w \in B /\ w \notin A
      BY <1>4, <2>0
    <3>3. B \in SUBSET W
      OBVIOUS
    <3> QED
      BY <3>1, <3>2, <3>3
  <2>2. Cardinality(A) \in Nat /\ Cardinality(B) \in Nat
    BY <1>3
  <2> HIDE DEF A, B
  <2>3. IsFiniteSet(B)
    BY <2>1, FS_Subset
  <2>4. Cardinality(A) <= Cardinality(B) /\ Cardinality(A) # Cardinality(B)
    BY <2>1, <2>3, FS_Subset
  <2> QED
    BY <2>2, <2>4 DEF A, B
<1> HIDE DEF Lower
<1>5. \A w \in W : parent[w] \in Nat /\ x <= parent[w] /\ parent[w] < x + Cardinality(W)
  BY <1>1, <1>2, <1>3
<1>6. ASSUME NEW w \in W, NEW u \in W, parent[w] = parent[u] PROVE w = u
  <2>1. Cardinality(Lower(w)) = Cardinality(Lower(u))
    BY <1>1, <1>3, <1>6
  <2>2. w < u \/ u < w \/ w = u
    OBVIOUS
  <2> QED
    BY <1>3, <1>4, <2>1, <2>2
<1>7. parent \in Nodes
  <2>1. parent = [w \in W |-> x + Cardinality({u \in W : u < w})]
    BY DEF MergedNode
  <2>2. parent \in [W -> Int]
    <3>1. \A w \in W : parent[w] \in Int
      BY <1>5
    <3> QED
      BY <2>1, <3>1
  <2> QED
    BY <2>2 DEF Nodes
<1>8. IsNode(first, parent, x + Cardinality(W))
  <2>1. \A w \in W : parent[w] \in Below(x + Cardinality(W))
                       /\ parent[w] # first /\ parent[w] # -first
    BY <1>2, <1>5 DEF Below
  <2> QED
    BY <1>1, <1>7, <2>1 DEF IsNode
<1> QED
  BY <1>1, <1>2, <1>5, <1>6, <1>8

\* Assignments that agree below x satisfy the same clauses over variables below x.
LEMMA SameBelow ==
  ASSUME NEW M, NEW N, NEW x \in Nat, \A v \in 1 .. x - 1 : v \in N <=> v \in M
  PROVE  /\ \A l \in Below(x) : Holds(N, l) <=> Holds(M, l)
         /\ \A C \in SUBSET SUBSET Below(x) : Satisfied(M, C) => Satisfied(N, C)
         /\ \A g \in SUBSET Below(x) : g \subseteq TrueIn(M) => g \subseteq TrueIn(N)
<1>1. ASSUME NEW l \in Below(x) PROVE Holds(N, l) <=> Holds(M, l)
  <2>1. CASE l > 0
    BY <2>1 DEF Below, Holds
  <2>2. CASE l < 0
    <3>1. -l \in 1 .. x - 1
      BY <2>2 DEF Below
    <3> QED
      BY <2>2, <3>1 DEF Below, Holds
  <2> QED
    BY <2>1, <2>2 DEF Below
<1>2. \A C \in SUBSET SUBSET Below(x) : Satisfied(M, C) => Satisfied(N, C)
  BY <1>1 DEF Satisfied, SatisfiesClause
<1>3. \A g \in SUBSET Below(x) : g \subseteq TrueIn(M) => g \subseteq TrueIn(N)
  BY <1>1 DEF TrueIn, Below
<1> QED
  BY <1>1, <1>2, <1>3

\* How one assignment is carried: each node stands for one of its weights, or for
\* none; propagation derives the literal of that weight, and of those below it
\* when all weights are one; and a model shows no more than those below it.
Flat(s) == \A wl \in s : wl[1] = 1

Values(q, val) ==
  /\ val \in [1 .. Len(q) -> Nat]
  /\ \A i \in 1 .. Len(q) : val[i] = 0 \/ val[i] \in DOMAIN q[i]

Reads(q, val, K, s) ==
  \A i \in 1 .. Len(q) : \A w \in DOMAIN q[i] :
    (w = val[i] \/ (Flat(s) /\ w <= val[i])) => q[i][w] \in K

Shows(q, val, M) ==
  \A i \in 1 .. Len(q) : \A w \in DOMAIN q[i] : Holds(M, q[i][w]) <=> w <= val[i]

\* When all weights are one a node has all the weights up to its width.
FlatShape(q, s) ==
  Flat(s) => \A i \in 1 .. Len(q) : \E k \in Nat : DOMAIN q[i] = 1 .. k

Modelled(q, C, g, val) ==
  \E M \in SUBSET Nat : g \subseteq TrueIn(M) /\ Satisfied(M, C) /\ Shows(q, val, M)

Derived(q, C, g, s, val) ==
  \A K \in SUBSET Int : (g \subseteq K /\ Closed(K, C)) => Reads(q, val, K, s)

Weighs(q, L, c, val) == Clip(L, SumFunctionOnSet(val, 1 .. Len(q))) = Clip(L, c)

\* The front two nodes of the queue q and what their merge makes of it.
MergeOf(q, x, L, left, right, parent, r) ==
  /\ left = q[1] /\ right = q[2]
  /\ parent = MergedNode(MergedWeights(left, right, L), x)
  /\ r = Append(SubSeq(q, 3, Len(q)), parent)

MergedValue(L, val, n, w) ==
  /\ w \in [1 .. n - 1 -> Nat]
  /\ \A i \in 1 .. n - 2 : w[i] = val[i + 2]
  /\ w[n - 1] = Clip(L, val[1] + val[2])

\* What the clauses of one merge derive.
LEMMA UnitMerge ==
  ASSUME NEW first \in Nat \ {0}, NEW left \in Nodes, NEW right \in Nodes, NEW parent,
         NEW L \in Nat \ {0}, NEW K,
         DOMAIN left \subseteq Nat \ {0}, DOMAIN right \subseteq Nat \ {0},
         -first \in K,
         Closed(K, Selected(MergeClauses(left, right, parent, L), first))
  PROVE  /\ \A a \in DOMAIN left : left[a] \in K => parent[Clip(L, a)] \in K
         /\ \A b \in DOMAIN right : right[b] \in K => parent[Clip(L, b)] \in K
         /\ \A a \in DOMAIN left, b \in DOMAIN right :
              left[a] \in K /\ right[b] \in K => parent[Clip(L, a + b)] \in K
<1> DEFINE MC == MergeClauses(left, right, parent, L)
<1>1. \A a \in DOMAIN left : left[a] \in Int /\ a \in Nat
  BY DEF Nodes
<1>2. \A b \in DOMAIN right : right[b] \in Int /\ b \in Nat
  BY DEF Nodes
<1>3. ASSUME NEW c \in MC, NEW l \in c, \A k \in c \ {l} : -k \in K
      PROVE  l \in K
  <2> DEFINE d == c \cup {first}
  <2>1. d \in Selected(MC, first) /\ l \in d
    BY DEF Selected
  <2>2. \A k \in d \ {l} : -k \in K
    BY <1>3
  <2> HIDE DEF d, MC
  <2> QED
    BY <2>1, <2>2 DEF Closed, MC
<1>4. ASSUME NEW a \in DOMAIN left, left[a] \in K PROVE parent[Clip(L, a)] \in K
  <2> DEFINE p == parent[Clip(L, a)]
             c == {-left[a], p}
  <2>1. c \in MC
    BY DEF MergeClauses, Clip
  <2>2. \A k \in c \ {p} : -k \in K
    BY <1>1, <1>4
  <2>3. p \in c
    OBVIOUS
  <2> HIDE DEF p, MC, c
  <2>4. p \in K
    BY <1>3, <2>1, <2>2, <2>3
  <2> QED
    BY <2>4 DEF p
<1>5. ASSUME NEW b \in DOMAIN right, right[b] \in K PROVE parent[Clip(L, b)] \in K
  <2> DEFINE p == parent[Clip(L, b)]
             c == {-right[b], p}
  <2>1. c \in MC
    BY DEF MergeClauses, Clip
  <2>2. \A k \in c \ {p} : -k \in K
    BY <1>2, <1>5
  <2>3. p \in c
    OBVIOUS
  <2> HIDE DEF p, MC, c
  <2>4. p \in K
    BY <1>3, <2>1, <2>2, <2>3
  <2> QED
    BY <2>4 DEF p
<1>6. ASSUME NEW a \in DOMAIN left, NEW b \in DOMAIN right, left[a] \in K, right[b] \in K
      PROVE  parent[Clip(L, a + b)] \in K
  <2>1. CASE a < L /\ b < L
    <3> DEFINE p == parent[Clip(L, a + b)]
               c == {-left[a], -right[b], p}
    <3>1. c \in MC
      <4> DEFINE q == <<a, b>>
      <4>1. q \in PairsBelow(left, right, L) /\ q[1] = a /\ q[2] = b
        BY <2>1 DEF PairsBelow
      <4>2. c = {-left[q[1]], -right[q[2]], parent[CheckRhsSimplification(L, q[1] + q[2])]}
        BY DEF Clip
      <4> HIDE DEF q, c
      <4> QED
        BY <4>1, <4>2 DEF MergeClauses
    <3>2. \A k \in c \ {p} : -k \in K
      BY <1>1, <1>2, <1>6
    <3>3. p \in c
      OBVIOUS
    <3> HIDE DEF p, MC, c
    <3>4. p \in K
      BY <1>3, <3>1, <3>2, <3>3
    <3> QED
      BY <3>4 DEF p
  <2>2. CASE a >= L
    <3>1. Clip(L, a + b) = Clip(L, a)
      BY <1>1, <1>2, <2>2, ClipFacts
    <3> QED
      BY <1>4, <1>6, <3>1
  <2>3. CASE b >= L
    <3>1. Clip(L, a + b) = Clip(L, b)
      BY <1>1, <1>2, <2>3, ClipFacts
    <3> QED
      BY <1>5, <1>6, <3>1
  <2> QED
    BY <1>1, <1>2, <2>1, <2>2, <2>3
<1> QED
  BY <1>4, <1>5, <1>6

\* A merge of the queue q with clauses C into the queue r.
Merging(first, q, x, L, left, right, parent, r) ==
  /\ QueueShape(first, q, x) /\ Len(q) > 1 /\ L \in Nat \ {0}
  /\ x \in Nat /\ first \in Nat \ {0} /\ first < x
  /\ MergeOf(q, x, L, left, right, parent, r)

\* The nodes a merge takes, makes and leaves.
LEMMA MergingFacts ==
  ASSUME NEW first, NEW q, NEW x, NEW L, NEW left, NEW right, NEW parent, NEW r,
         Merging(first, q, x, L, left, right, parent, r)
  PROVE  /\ IsNode(first, left, x) /\ IsNode(first, right, x) /\ left \in Nodes /\ right \in Nodes
         /\ DOMAIN parent = MergedWeights(left, right, L)
         /\ DOMAIN parent \subseteq 1 .. L /\ IsFiniteSet(DOMAIN parent) /\ DOMAIN parent # {}
         /\ Cardinality(DOMAIN parent) \in Nat
         /\ \A w \in DOMAIN parent : parent[w] \in Nat /\ x <= parent[w]
                                       /\ parent[w] < x + Cardinality(DOMAIN parent)
         /\ \A w, u \in DOMAIN parent : parent[w] = parent[u] => w = u
         /\ IsNode(first, parent, x + Cardinality(DOMAIN parent))
         /\ Len(q) \in Nat /\ Len(q) >= 2
         /\ r \in Seq(Nodes) /\ Len(r) = Len(q) - 1
         /\ \A i \in 1 .. Len(q) - 2 : r[i] = q[i + 2]
         /\ r[Len(q) - 1] = parent
<1> USE DEF Merging, MergeOf
<1> DEFINE W == MergedWeights(left, right, L)
<1>1. q \in Seq(Nodes) /\ Len(q) \in Nat /\ Len(q) >= 2
      /\ \A i \in 1 .. Len(q) : IsNode(first, q[i], x)
  BY DEF QueueShape
<1>2. IsNode(first, left, x) /\ IsNode(first, right, x) /\ left \in Nodes /\ right \in Nodes
  BY <1>1 DEF IsNode
<1>3. DOMAIN left \subseteq Nat \ {0} /\ DOMAIN right \subseteq Nat \ {0} /\ DOMAIN left # {}
  BY <1>2 DEF IsNode
<1>4. W \subseteq 1 .. L /\ \A l \in DOMAIN left : Clip(L, l) \in W
  BY <1>3, MergedWeightsAre
<1>5. IsFiniteSet(W)
  <2>1. IsFiniteSet(1 .. L)
    <3>1. L \in Int /\ 1 \in Int
      OBVIOUS
    <3> QED
      BY ONLY <3>1, FS_Interval
  <2> HIDE DEF W
  <2> QED
    BY <1>4, <2>1, FS_Subset
<1>6. W \in SUBSET (Nat \ {0}) /\ W # {}
  <2>1. W # {}
    BY <1>3, <1>4
  <2>2. \A w \in 1 .. L : w \in Nat \ {0}
    OBVIOUS
  <2> HIDE DEF W
  <2> QED
    BY <1>4, <2>1, <2>2
<1>7. parent = MergedNode(W, x)
  OBVIOUS
<1> HIDE DEF W
<1>8. /\ DOMAIN parent = W
      /\ Cardinality(W) \in Nat
      /\ \A w \in W : parent[w] \in Nat /\ x <= parent[w] /\ parent[w] < x + Cardinality(W)
      /\ \A w, u \in W : parent[w] = parent[u] => w = u
      /\ IsNode(first, parent, x + Cardinality(W))
  BY <1>5, <1>6, <1>7, ParentNode
<1>9. parent \in Nodes
  BY <1>8 DEF IsNode
<1>10. /\ r \in Seq(Nodes) /\ Len(r) = Len(q) - 2 + 1
       /\ \A i \in 1 .. Len(q) - 2 : r[i] = q[i + 2]
       /\ r[Len(q) - 2 + 1] = parent
  <2> DEFINE d == 2
             S == Nodes
  <2>1. r = Append(SubSeq(q, d + 1, Len(q)), parent) /\ d \in 0 .. Len(q)
    BY <1>1
  <2>2. q \in Seq(S) /\ parent \in S
    BY <1>1, <1>9
  <2> HIDE DEF d, S
  <2>3. /\ r \in Seq(S) /\ Len(r) = Len(q) - d + 1
        /\ \A i \in 1 .. Len(q) - d : r[i] = q[i + d]
        /\ r[Len(q) - d + 1] = parent
    <3>1. Pushes(S, q, d, parent, r)
      BY <2>1, <2>2 DEF Pushes
    <3>2. r \in Seq(S) /\ Pushed(q, d, parent, r)
      BY <3>1, QueueStep
    <3> QED
      BY <3>2 DEF Pushed
  <2> QED
    BY <2>3 DEF d, S
<1>11. Len(q) - 2 + 1 = Len(q) - 1
  BY <1>1
<1>12. DOMAIN parent = MergedWeights(left, right, L)
  BY <1>8 DEF W
<1>13. Len(r) = Len(q) - 1 /\ r[Len(q) - 1] = parent
  BY <1>10, <1>11
<1>14. /\ DOMAIN parent \subseteq 1 .. L /\ IsFiniteSet(DOMAIN parent) /\ DOMAIN parent # {}
       /\ Cardinality(DOMAIN parent) \in Nat
  BY <1>4, <1>5, <1>6, <1>8
<1>15. /\ \A w \in DOMAIN parent : parent[w] \in Nat /\ x <= parent[w]
                                    /\ parent[w] < x + Cardinality(DOMAIN parent)
       /\ \A w, u \in DOMAIN parent : parent[w] = parent[u] => w = u
       /\ IsNode(first, parent, x + Cardinality(DOMAIN parent))
  BY <1>8
<1> QED
  BY <1>1, <1>2, <1>10, <1>12, <1>13, <1>14, <1>15, Zenon

\* The value the parent stands for.
LEMMA ParentValue ==
  ASSUME NEW first, NEW q, NEW x, NEW L, NEW left, NEW right, NEW parent, NEW r,
         Merging(first, q, x, L, left, right, parent, r),
         NEW val, Values(q, val), NEW v, v = Clip(L, val[1] + val[2])
  PROVE  /\ val[1] \in Nat /\ val[2] \in Nat /\ v \in 0 .. L
         /\ val[1] = 0 \/ val[1] \in DOMAIN left
         /\ val[2] = 0 \/ val[2] \in DOMAIN right
         /\ v = 0 \/ v \in DOMAIN parent
<1>1. /\ Len(q) \in Nat /\ Len(q) >= 2 /\ DOMAIN parent = MergedWeights(left, right, L)
      /\ IsNode(first, left, x) /\ IsNode(first, right, x)
  BY MergingFacts
<1>2. left = q[1] /\ right = q[2] /\ L \in Nat \ {0}
  BY DEF Merging, MergeOf
<1>3. /\ val[1] \in Nat /\ val[2] \in Nat
      /\ val[1] = 0 \/ val[1] \in DOMAIN left
      /\ val[2] = 0 \/ val[2] \in DOMAIN right
  BY <1>1, <1>2 DEF Values
<1>4. DOMAIN left \subseteq Nat \ {0} /\ DOMAIN right \subseteq Nat \ {0}
  BY <1>1 DEF IsNode
<1>5. v \in 0 .. L
  <2> DEFINE z == val[1] + val[2]
  <2>1. z \in Nat /\ v = Clip(L, z)
    BY <1>3
  <2> HIDE DEF z
  <2> QED
    BY <1>2, <2>1, ClipFacts
<1>6. v = 0 \/ v \in DOMAIN parent
  <2>1. CASE val[1] = 0 /\ val[2] = 0
    BY <1>2, <2>1, ClipFacts
  <2>2. CASE val[1] # 0 /\ val[2] = 0
    <3>1. val[1] + val[2] = val[1] /\ val[1] \in DOMAIN left
      BY <1>3, <2>2
    <3> QED
      BY <1>1, <1>2, <1>4, <3>1, MergedWeightsAre
  <2>3. CASE val[1] = 0 /\ val[2] # 0
    <3>1. val[1] + val[2] = val[2] /\ val[2] \in DOMAIN right
      BY <1>3, <2>3
    <3> QED
      BY <1>1, <1>2, <1>4, <3>1, MergedWeightsAre
  <2>4. CASE val[1] # 0 /\ val[2] # 0
    <3>1. val[1] \in DOMAIN left /\ val[2] \in DOMAIN right
      BY <1>3, <2>4
    <3> QED
      BY <1>1, <1>2, <1>4, <3>1, MergedWeightsAre
  <2> QED
    BY <2>1, <2>2, <2>3, <2>4
<1> QED
  BY <1>3, <1>5, <1>6

\* The values after a merge belong to the nodes after it.
LEMMA MergeValues ==
  ASSUME NEW first, NEW q, NEW x, NEW L, NEW left, NEW right, NEW parent, NEW r,
         Merging(first, q, x, L, left, right, parent, r),
         NEW val, Values(q, val), NEW w, MergedValue(L, val, Len(q), w)
  PROVE  Values(r, w)
<1>1. /\ Len(q) \in Nat /\ Len(q) >= 2 /\ Len(r) = Len(q) - 1
      /\ \A i \in 1 .. Len(q) - 2 : r[i] = q[i + 2]
      /\ r[Len(q) - 1] = parent
  BY MergingFacts
<1>2. w[Len(q) - 1] = 0 \/ w[Len(q) - 1] \in DOMAIN parent
  BY ParentValue DEF MergedValue
<1>3. ASSUME NEW i \in 1 .. Len(r) PROVE w[i] = 0 \/ w[i] \in DOMAIN r[i]
  <2>1. CASE i = Len(q) - 1
    BY <1>1, <1>2, <2>1
  <2>2. CASE i # Len(q) - 1
    <3>1. i \in 1 .. Len(q) - 2 /\ i + 2 \in 1 .. Len(q)
      BY <1>1, <2>2
    <3>2. w[i] = val[i + 2] /\ r[i] = q[i + 2]
      BY <1>1, <3>1 DEF MergedValue
    <3> QED
      BY <3>1, <3>2 DEF Values
  <2> QED
    BY <2>1, <2>2
<1> QED
  BY <1>1, <1>3 DEF Values, MergedValue

\* A merge clips at the limit and loses nothing below it.
LEMMA MergeWeighs ==
  ASSUME NEW first, NEW q, NEW x, NEW L, NEW left, NEW right, NEW parent, NEW r,
         Merging(first, q, x, L, left, right, parent, r),
         NEW val, Values(q, val), NEW w, MergedValue(L, val, Len(q), w),
         NEW c, Weighs(q, L, c, val)
  PROVE  Weighs(r, L, c, w)
<1> DEFINE n == Len(q)
           S == SumFunctionOnSet(val, 1 .. n)
           T == SumFunctionOnSet(w, 1 .. n - 1)
           v == Clip(L, val[1] + val[2])
<1>1. n \in Nat /\ n >= 2 /\ Len(r) = n - 1
  BY MergingFacts
<1>2. L \in Nat \ {0}
  BY DEF Merging
<1>3. val[1] \in Nat /\ val[2] \in Nat /\ v \in Nat
  BY ParentValue
<1>4. /\ \A i \in 1 .. n : val[i] \in Nat
      /\ w[n - 1] = v
      /\ \A i \in 1 .. n - 2 : w[i] = val[i + 2]
  BY DEF Values, MergedValue
<1>5. SumFunctionOnSet(val, 1 .. 2) = val[1] + val[2]
  <2>1. 1 .. 2 = {1, 2} /\ 2 \in {1, 2} /\ {1, 2} \ {2} = {1}
    OBVIOUS
  <2>2. Integral(val, {1, 2})
    <3>1. IsFiniteSet(1 .. 2)
      <4>1. 1 \in Int /\ 2 \in Int
        OBVIOUS
      <4> QED
        BY ONLY <4>1, FS_Interval
    <3> QED
      BY <1>3, <2>1, <3>1 DEF Integral
  <2>3. SumFunctionOnSet(val, {1, 2}) = val[2] + SumFunctionOnSet(val, {1})
    BY <2>1, <2>2, SumRemove
  <2>4. SumFunctionOnSet(val, {1}) = val[1]
    <3> DEFINE S1 == {1}
    <3>1. S1 = {1} /\ val[1] \in Int
      BY <1>3
    <3> HIDE DEF S1
    <3>2. SumFunctionOnSet(val, S1) = val[1]
      BY <3>1, SumSingleton
    <3> QED
      BY <3>2 DEF S1
  <2> QED
    BY <1>3, <2>1, <2>3, <2>4
<1>6. T + val[1] + val[2] = S + v /\ S \in Nat /\ T \in Nat /\ v <= T
  <2>1. n - 2 + 1 = n - 1 /\ 2 \in 0 .. n
    BY <1>1
  <2>2. SumFunctionOnSet(w, 1 .. n - 2 + 1) + SumFunctionOnSet(val, 1 .. 2)
          = S + w[n - 2 + 1]
    <3>1. w[n - 2 + 1] \in Nat
      BY <1>3, <1>4, <2>1
    <3> DEFINE d == 2
    <3>2. d \in 0 .. n /\ n - d + 1 = n - 1
      BY <1>1
    <3>3. w[n - d + 1] \in Nat /\ \A i \in 1 .. n - d : w[i] = val[i + d]
      BY <1>3, <1>4, <3>2
    <3> HIDE DEF n, d
    <3>4. SumFunctionOnSet(w, 1 .. n - d + 1) + SumFunctionOnSet(val, 1 .. d)
            = SumFunctionOnSet(val, 1 .. n) + w[n - d + 1]
      <4>1. n \in Nat /\ d \in 0 .. n /\ \A i \in 1 .. n : val[i] \in Nat
        BY <1>1, <1>4, <3>2
      <4> QED
        <5>1. Moves(n, d, val, w)
          BY <3>3, <4>1 DEF Moves
        <5>2. Moved(n, d, val, w)
          BY <5>1, QueueSum
        <5> QED
          BY <5>2 DEF Moved
    <3> QED
      BY <3>4 DEF d
  <2>3. IsFiniteSet(1 .. n) /\ IsFiniteSet(1 .. n - 1)
    <3>1. 1 \in Int /\ n \in Int /\ n - 1 \in Int
      BY <1>1
    <3> QED
      BY ONLY <3>1, FS_Interval
  <2>4. S \in Nat
    BY <1>4, <2>3, SumNat
  <2>5. \A i \in 1 .. n - 1 : w[i] \in Nat
    BY DEF MergedValue
  <2>6. T \in Nat /\ v <= T
    <3>1. n - 1 \in 1 .. n - 1
      BY <1>1
    <3>2. T \in Nat /\ \A i \in 1 .. n - 1 : w[i] <= T
      BY <2>3, <2>5, SumNat
    <3> QED
      BY <1>4, <3>1, <3>2
  <2>7. T + SumFunctionOnSet(val, 1 .. 2) = S + v
    BY <1>4, <2>1, <2>2
  <2> HIDE DEF T, S, v
  <2> QED
    BY <1>3, <1>5, <2>4, <2>6, <2>7
<1>7. Clip(L, S) = Clip(L, c)
  BY DEF Weighs
<1>8. v = IF val[1] + val[2] < L THEN val[1] + val[2] ELSE L
  BY DEF Clip, CheckRhsSimplification
<1> HIDE DEF S, T, v
<1>9. Clip(L, T) = Clip(L, S)
  <2>1. CASE v = val[1] + val[2]
    <3>1. T = S
      BY <1>3, <1>6, <2>1
    <3> QED
      BY <3>1
  <2>2. CASE ~(val[1] + val[2] < L) /\ v = L
    <3>1. T >= L /\ S >= L
      BY <1>2, <1>3, <1>6, <2>2
    <3>2. Clip(L, T) = L /\ Clip(L, S) = L
      BY <1>2, <1>6, <3>1 DEF Clip, CheckRhsSimplification
    <3> QED
      BY <3>2
  <2> QED
    BY <1>8, <2>1, <2>2
<1> QED
  BY <1>1, <1>7, <1>9 DEF Weighs, T

\* Nodes of unweighted literals have all the weights up to their width.
LEMMA MergeFlat ==
  ASSUME NEW first, NEW q, NEW x, NEW L, NEW left, NEW right, NEW parent, NEW r,
         Merging(first, q, x, L, left, right, parent, r), NEW s, FlatShape(q, s)
  PROVE  FlatShape(r, s)
<1> SUFFICES ASSUME Flat(s), NEW i \in 1 .. Len(r)
             PROVE  \E k \in Nat : DOMAIN r[i] = 1 .. k
  BY DEF FlatShape
<1>1. /\ Len(q) \in Nat /\ Len(q) >= 2 /\ Len(r) = Len(q) - 1
      /\ \A j \in 1 .. Len(q) - 2 : r[j] = q[j + 2]
      /\ r[Len(q) - 1] = parent
      /\ DOMAIN parent = MergedWeights(left, right, L)
  BY MergingFacts
<1>2. \A j \in 1 .. Len(q) : \E k \in Nat : DOMAIN q[j] = 1 .. k
  BY DEF FlatShape
<1>3. CASE i # Len(q) - 1
  <2>1. r[i] = q[i + 2] /\ i + 2 \in 1 .. Len(q)
    BY <1>1, <1>3
  <2> QED
    BY <1>2, <2>1
<1>4. CASE i = Len(q) - 1
  <2>1. left = q[1] /\ right = q[2] /\ L \in Nat \ {0}
    BY DEF Merging, MergeOf
  <2>2. PICK a \in Nat : DOMAIN left = 1 .. a
    BY <1>1, <1>2, <2>1
  <2>3. PICK b \in Nat : DOMAIN right = 1 .. b
    BY <1>1, <1>2, <2>1
  <2> DEFINE W == MergedWeights(left, right, L)
             z == a + b
             k == Clip(L, z)
  <2>4. DOMAIN left \subseteq Nat \ {0} /\ DOMAIN right \subseteq Nat \ {0}
    BY <2>2, <2>3
  <2>5. z \in Nat
    OBVIOUS
  <2>6. k \in Nat /\ k <= L /\ k <= z /\ (k = z \/ k = L)
    <3> HIDE DEF z
    <3> QED
      BY <2>1, <2>5 DEF Clip, CheckRhsSimplification
  <2>7. ASSUME NEW w \in W PROVE w \in 1 .. k
    <3>1. \/ \E l \in 1 .. a : w = Clip(L, l)
          \/ \E l \in 1 .. b : w = Clip(L, l)
          \/ \E l \in 1 .. a, m \in 1 .. b : w = Clip(L, l + m)
      <4>1. \/ \E l \in DOMAIN left : w = Clip(L, l)
            \/ \E l \in DOMAIN right : w = Clip(L, l)
            \/ \E l \in DOMAIN left, m \in DOMAIN right : w = Clip(L, l + m)
        BY ONLY <2>1, <2>4, <2>7, MergedWeightsAre
      <4> HIDE DEF W, z, k
      <4> QED
        BY <2>2, <2>3, <4>1
    <3>2. PICK y \in 1 .. z : w = Clip(L, y)
      <4>1. \A l \in 1 .. a : l \in 1 .. z
        OBVIOUS
      <4>2. \A l \in 1 .. b : l \in 1 .. z
        OBVIOUS
      <4>3. \A l \in 1 .. a, m \in 1 .. b : l + m \in 1 .. z
        OBVIOUS
      <4> HIDE DEF z, W
      <4> QED
        BY <3>1, <4>1, <4>2, <4>3
    <3> HIDE DEF z, W
    <3>3. w = IF y < L THEN y ELSE L
      BY <3>2 DEF Clip, CheckRhsSimplification
    <3>4. k = IF z < L THEN z ELSE L
      BY DEF Clip, CheckRhsSimplification
    <3> HIDE DEF k
    <3> QED
      BY <2>1, <2>5, <3>3, <3>4
  <2>8. ASSUME NEW w \in 1 .. k PROVE w \in W
    <3>1. Clip(L, w) = w
      BY <2>1, <2>6 DEF Clip, CheckRhsSimplification
    <3>2. CASE w <= a
      <4>1. w \in DOMAIN left
        BY <2>2, <3>2
      <4> QED
        BY <2>1, <2>4, <3>1, <4>1, MergedWeightsAre
    <3>3. CASE w > a /\ a > 0
      <4> DEFINE l == w - a
      <4>1. l \in DOMAIN right /\ a \in DOMAIN left /\ a + l = w
        BY <2>2, <2>3, <2>6, <3>3
      <4>2. Clip(L, a + l) \in W
        <5> HIDE DEF l
        <5> QED
          BY <2>1, <2>4, <4>1, MergedWeightsAre
      <4> QED
        BY <3>1, <4>1, <4>2
    <3>4. CASE a = 0
      <4>1. w \in DOMAIN right
        BY <2>3, <2>6, <3>4
      <4> QED
        BY <2>1, <2>4, <3>1, <4>1, MergedWeightsAre
    <3> QED
      BY <2>6, <3>2, <3>3, <3>4
  <2>9. W = 1 .. k
    BY <2>7, <2>8
  <2> HIDE DEF W, k
  <2>10. DOMAIN parent = 1 .. k
    BY <1>1, <2>9 DEF W
  <2> QED
    BY <1>1, <1>4, <2>6, <2>10
<1> QED
  BY <1>3, <1>4

\* Propagation derives the parent's literal from those of the nodes below.
LEMMA MergeDerived ==
  ASSUME NEW first, NEW q, NEW x, NEW L, NEW left, NEW right, NEW parent, NEW r,
         Merging(first, q, x, L, left, right, parent, r),
         NEW val, Values(q, val), NEW w, MergedValue(L, val, Len(q), w),
         NEW s, FlatShape(q, s), NEW g, -first \in g,
         NEW C, NEW D, D = C \cup Selected(MergeClauses(left, right, parent, L), first),
         Derived(q, C, g, s, val)
  PROVE  Derived(r, D, g, s, w)
<1> SUFFICES ASSUME NEW K \in SUBSET Int, g \subseteq K, Closed(K, D)
             PROVE  Reads(r, w, K, s)
  BY DEF Derived
<1> DEFINE v == Clip(L, val[1] + val[2])
<1>1. /\ Len(q) \in Nat /\ Len(q) >= 2 /\ Len(r) = Len(q) - 1
      /\ \A j \in 1 .. Len(q) - 2 : r[j] = q[j + 2]
      /\ r[Len(q) - 1] = parent
      /\ DOMAIN parent = MergedWeights(left, right, L)
      /\ DOMAIN parent \subseteq 1 .. L
      /\ IsNode(first, left, x) /\ IsNode(first, right, x) /\ left \in Nodes /\ right \in Nodes
  BY MergingFacts
<1>2. left = q[1] /\ right = q[2] /\ L \in Nat \ {0} /\ first \in Nat \ {0}
  BY DEF Merging, MergeOf
<1>3. DOMAIN left \subseteq Nat \ {0} /\ DOMAIN right \subseteq Nat \ {0}
  BY <1>1 DEF IsNode
<1>4. Reads(q, val, K, s)
  BY DEF Closed, Derived
<1>5. Closed(K, Selected(MergeClauses(left, right, parent, L), first))
  BY DEF Closed
<1>6. /\ \A a \in DOMAIN left : left[a] \in K => parent[Clip(L, a)] \in K
      /\ \A b \in DOMAIN right : right[b] \in K => parent[Clip(L, b)] \in K
      /\ \A a \in DOMAIN left, b \in DOMAIN right :
           left[a] \in K /\ right[b] \in K => parent[Clip(L, a + b)] \in K
  BY <1>1, <1>2, <1>3, <1>5, UnitMerge
<1>7. /\ \A a \in DOMAIN left : (a = val[1] \/ (Flat(s) /\ a <= val[1])) => left[a] \in K
      /\ \A b \in DOMAIN right : (b = val[2] \/ (Flat(s) /\ b <= val[2])) => right[b] \in K
  BY <1>1, <1>2, <1>4 DEF Reads
<1>8. /\ val[1] \in Nat /\ val[2] \in Nat
      /\ val[1] = 0 \/ val[1] \in DOMAIN left
      /\ val[2] = 0 \/ val[2] \in DOMAIN right
  BY ParentValue
<1>9. ASSUME NEW u \in DOMAIN parent, u = v PROVE parent[u] \in K
  <2>1. u # 0
    BY <1>1, <1>9
  <2>2. CASE val[1] # 0 /\ val[2] # 0
    <3>1. left[val[1]] \in K /\ right[val[2]] \in K
      BY <1>7, <1>8, <2>2
    <3> QED
      BY <1>6, <1>8, <1>9, <2>2, <3>1
  <2>3. CASE val[1] # 0 /\ val[2] = 0
    <3>1. left[val[1]] \in K /\ val[1] + val[2] = val[1]
      BY <1>7, <1>8, <2>3
    <3> QED
      BY <1>6, <1>8, <1>9, <2>3, <3>1
  <2>4. CASE val[1] = 0 /\ val[2] # 0
    <3>1. right[val[2]] \in K /\ val[1] + val[2] = val[2]
      BY <1>7, <1>8, <2>4
    <3> QED
      BY <1>6, <1>8, <1>9, <2>4, <3>1
  <2>5. CASE val[1] = 0 /\ val[2] = 0
    BY <1>2, <1>9, <2>1, <2>5 DEF Clip, CheckRhsSimplification
  <2> QED
    BY <2>2, <2>3, <2>4, <2>5
<1>10. ASSUME NEW u \in DOMAIN parent, Flat(s), u <= v PROVE parent[u] \in K
  <2>0. u \in 1 .. L /\ u <= val[1] + val[2]
    <3>1. u \in 1 .. L
      BY <1>1
    <3> QED
      BY <1>2, <1>8, <1>10, <3>1 DEF Clip, CheckRhsSimplification
  <2>1. \A j \in 1 .. Len(q) : \E k \in Nat : DOMAIN q[j] = 1 .. k
    BY <1>10 DEF FlatShape
  <2>2. PICK k \in Nat : DOMAIN left = 1 .. k
    BY <1>1, <1>2, <2>1
  <2>3. PICK m \in Nat : DOMAIN right = 1 .. m
    BY <1>1, <1>2, <2>1
  <2>4. Clip(L, u) = u
    BY <1>2, <2>0 DEF Clip, CheckRhsSimplification
  <2>5. CASE u <= val[1]
    <3>1. u \in DOMAIN left
      BY <1>8, <2>0, <2>2, <2>5
    <3>2. left[u] \in K
      BY <1>7, <1>10, <2>5, <3>1
    <3> QED
      BY <1>6, <2>4, <3>1, <3>2
  <2>6. CASE u <= val[2]
    <3>1. u \in DOMAIN right
      BY <1>8, <2>0, <2>3, <2>6
    <3>2. right[u] \in K
      BY <1>7, <1>10, <2>6, <3>1
    <3> QED
      BY <1>6, <2>4, <3>1, <3>2
  <2>7. CASE u > val[1] /\ u > val[2]
    <3> DEFINE b == u - val[1]
    <3>1. val[1] # 0
      BY <1>8, <2>0, <2>7
    <3>2. val[1] \in DOMAIN left /\ left[val[1]] \in K
      BY <1>7, <1>8, <3>1
    <3>3. b \in DOMAIN right /\ b <= val[2] /\ val[1] + b = u
      <4>1. b \in Nat /\ b >= 1 /\ b <= val[2] /\ val[1] + b = u
        BY <1>8, <2>0, <2>7
      <4>2. val[2] \in 1 .. m
        BY <1>8, <2>3, <4>1
      <4> HIDE DEF b
      <4> QED
        BY <2>3, <4>1, <4>2
    <3> HIDE DEF b
    <3>4. right[b] \in K
      BY <1>7, <1>10, <3>3
    <3> QED
      BY <1>6, <2>4, <3>2, <3>3, <3>4
  <2> QED
    BY <1>8, <2>0, <2>5, <2>6, <2>7
<1>11. w[Len(q) - 1] = v /\ \A i \in 1 .. Len(q) - 2 : w[i] = val[i + 2]
  BY DEF MergedValue
<1> HIDE DEF v
<1>12. ASSUME NEW i \in 1 .. Len(r), NEW u \in DOMAIN r[i],
              u = w[i] \/ (Flat(s) /\ u <= w[i])
       PROVE  r[i][u] \in K
  <2>1. CASE i = Len(q) - 1
    BY <1>1, <1>9, <1>10, <1>11, <1>12, <2>1
  <2>2. CASE i # Len(q) - 1
    <3> DEFINE j == i + 2
    <3>1. j \in 1 .. Len(q) /\ r[i] = q[j] /\ w[i] = val[j]
      BY <1>1, <1>11, <2>2
    <3> HIDE DEF j
    <3> QED
      BY <1>4, <1>12, <3>1 DEF Reads
  <2> QED
    BY <2>1, <2>2
<1> QED
  BY <1>12, Zenon DEF Reads

\* A model of the clauses so far gives one in which the parent shows its value.
LEMMA MergeModelled ==
  ASSUME NEW first, NEW q, NEW x, NEW L, NEW left, NEW right, NEW parent, NEW r,
         Merging(first, q, x, L, left, right, parent, r),
         NEW val, Values(q, val), NEW w, MergedValue(L, val, Len(q), w),
         NEW g \in SUBSET Below(x), -first \in g, NEW C \in SUBSET SUBSET Below(x),
         NEW D, D = C \cup Selected(MergeClauses(left, right, parent, L), first),
         Modelled(q, C, g, val)
  PROVE  Modelled(r, D, g, w)
<1>1. PICK M \in SUBSET Nat : g \subseteq TrueIn(M) /\ Satisfied(M, C) /\ Shows(q, val, M)
  BY DEF Modelled
<1> DEFINE v == Clip(L, val[1] + val[2])
           W == DOMAIN parent
           N == {y \in M : y < x} \cup {parent[u] : u \in {t \in W : t <= v}}
<1>2. /\ Len(q) \in Nat /\ Len(q) >= 2 /\ Len(r) = Len(q) - 1
      /\ \A j \in 1 .. Len(q) - 2 : r[j] = q[j + 2]
      /\ r[Len(q) - 1] = parent
      /\ W = MergedWeights(left, right, L)
      /\ IsNode(first, left, x) /\ IsNode(first, right, x) /\ left \in Nodes /\ right \in Nodes
      /\ \A u \in W : parent[u] \in Nat /\ x <= parent[u]
      /\ \A u, t \in W : parent[u] = parent[t] => u = t
  BY MergingFacts
<1>3. /\ left = q[1] /\ right = q[2] /\ L \in Nat \ {0} /\ first \in Nat \ {0}
      /\ x \in Nat /\ first < x /\ \A i \in 1 .. Len(q) : IsNode(first, q[i], x)
  BY DEF Merging, MergeOf, QueueShape
<1>4. N \in SUBSET Nat
  <2>1. \A y \in N : y \in M \/ \E u \in W : y = parent[u]
    OBVIOUS
  <2>2. \A y \in N : y \in Nat
    <3> HIDE DEF N, W, v
    <3>1. \A y \in M : y \in Nat
      OBVIOUS
    <3>2. \A u \in W : parent[u] \in Nat
      BY <1>2
    <3> QED
      BY <2>1, <3>1, <3>2, Zenon
  <2> HIDE DEF N
  <2> QED
    BY <2>2
<1>5. \A y \in 1 .. x - 1 : y \in N <=> y \in M
  <2> SUFFICES ASSUME NEW y \in 1 .. x - 1 PROVE y \in N <=> y \in M
    OBVIOUS
  <2>1. \A u \in W : parent[u] # y
    BY <1>2, <1>3
  <2>2. y \in Nat /\ y < x
    BY <1>3
  <2> HIDE DEF W, v
  <2> QED
    BY <2>1, <2>2
<1>6. ASSUME NEW u \in W PROVE Holds(N, parent[u]) <=> u <= v
  <2>1. parent[u] \in N <=> u <= v
    <3>1. \A y \in M : y < x => parent[u] # y
      BY <1>2, <1>3
    <3>2. ASSUME parent[u] \in N PROVE u <= v
      <4>1. PICK t \in W : t <= v /\ parent[u] = parent[t]
        <5> HIDE DEF W, v
        <5> QED
          BY <3>1, <3>2
      <4> QED
        BY <1>2, <4>1
    <3>3. ASSUME u <= v PROVE parent[u] \in N
      BY <3>3
    <3> QED
      BY <3>2, <3>3
  <2>2. parent[u] > 0
    BY <1>2, <1>3
  <2> HIDE DEF N, v, W
  <2> QED
    BY <2>1, <2>2 DEF Holds
<1> HIDE DEF N
<1>7. /\ \A l \in Below(x) : Holds(N, l) <=> Holds(M, l)
      /\ Satisfied(N, C) /\ g \subseteq TrueIn(N)
  BY <1>1, <1>3, <1>5, SameBelow
<1>8. /\ \A a \in DOMAIN left : /\ left[a] \in Below(x) /\ a \in Nat
                                /\ (Holds(N, left[a]) <=> a <= val[1])
      /\ \A b \in DOMAIN right : /\ right[b] \in Below(x) /\ b \in Nat
                                 /\ (Holds(N, right[b]) <=> b <= val[2])
  BY <1>1, <1>2, <1>3, <1>7, SMTT(30) DEF Shows, IsNode
<1>9. val[1] \in Nat /\ val[2] \in Nat
  BY ParentValue
<1>10. \A l \in Below(x) : l \in Int \ {0}
  BY DEF Below
<1>11. DOMAIN left \subseteq Nat \ {0} /\ DOMAIN right \subseteq Nat \ {0}
  BY <1>2 DEF IsNode
<1>12. Satisfied(N, Selected(MergeClauses(left, right, parent, L), first))
  <2> DEFINE MC == MergeClauses(left, right, parent, L)
  <2>1. ASSUME NEW a \in DOMAIN left
        PROVE  Holds(N, -left[a]) \/ Holds(N, parent[Clip(L, a)])
    <3> SUFFICES ASSUME a <= val[1] PROVE Holds(N, parent[Clip(L, a)])
      BY <1>8, <1>10, HoldsNeg
    <3>1. Clip(L, a) <= v
      BY <1>3, <1>8, <1>9 DEF Clip, CheckRhsSimplification
    <3>2. Clip(L, a) \in W
      BY <1>2, <1>3, <1>11, MergedWeightsAre
    <3> HIDE DEF v, W
    <3> QED
      BY <1>6, <3>1, <3>2
  <2>2. ASSUME NEW b \in DOMAIN right
        PROVE  Holds(N, -right[b]) \/ Holds(N, parent[Clip(L, b)])
    <3> SUFFICES ASSUME b <= val[2] PROVE Holds(N, parent[Clip(L, b)])
      BY <1>8, <1>10, HoldsNeg
    <3>1. Clip(L, b) <= v
      BY <1>3, <1>8, <1>9 DEF Clip, CheckRhsSimplification
    <3>2. Clip(L, b) \in W
      BY <1>2, <1>3, <1>11, MergedWeightsAre
    <3> HIDE DEF v, W
    <3> QED
      BY <1>6, <3>1, <3>2
  <2>3. ASSUME NEW a \in DOMAIN left, NEW b \in DOMAIN right
        PROVE  Holds(N, -left[a]) \/ Holds(N, -right[b]) \/ Holds(N, parent[Clip(L, a + b)])
    <3> SUFFICES ASSUME a <= val[1], b <= val[2] PROVE Holds(N, parent[Clip(L, a + b)])
      BY <1>8, <1>10, HoldsNeg
    <3>1. Clip(L, a + b) <= v
      BY <1>3, <1>8, <1>9 DEF Clip, CheckRhsSimplification
    <3>2. Clip(L, a + b) \in W
      BY <1>2, <1>3, <1>11, MergedWeightsAre
    <3> HIDE DEF v, W
    <3> QED
      BY <1>6, <3>1, <3>2
  <2>4. ASSUME NEW c \in MC PROVE \E l \in c : Holds(N, l)
    <3>1. CASE \E p \in PairsBelow(left, right, L) :
                 c = {-left[p[1]], -right[p[2]], parent[CheckRhsSimplification(L, p[1] + p[2])]}
      <4>1. PICK p \in PairsBelow(left, right, L) :
                 c = {-left[p[1]], -right[p[2]], parent[CheckRhsSimplification(L, p[1] + p[2])]}
        BY <3>1
      <4>2. p[1] \in DOMAIN left /\ p[2] \in DOMAIN right
        BY DEF PairsBelow
      <4> QED
        BY <2>3, <4>1, <4>2 DEF Clip
    <3>2. CASE \E a \in DOMAIN left : c = {-left[a], parent[CheckRhsSimplification(L, a)]}
      BY <2>1, <3>2 DEF Clip
    <3>3. CASE \E b \in DOMAIN right : c = {-right[b], parent[CheckRhsSimplification(L, b)]}
      BY <2>2, <3>3 DEF Clip
    <3> QED
      BY <2>4, <3>1, <3>2, <3>3 DEF MergeClauses
  <2>5. \A d \in Selected(MC, first) : \E c \in MC : c \subseteq d
    BY <1>3 DEF Selected
  <2> HIDE DEF MC
  <2>6. \A d \in Selected(MC, first) : \E l \in d : Holds(N, l)
    BY <2>4, <2>5
  <2> QED
    BY <2>6 DEF Satisfied, SatisfiesClause, MC
<1>13. Satisfied(N, D)
  BY <1>7, <1>12 DEF Satisfied
<1>14. w[Len(q) - 1] = v /\ \A i \in 1 .. Len(q) - 2 : w[i] = val[i + 2]
  BY DEF MergedValue
<1> HIDE DEF v, W
<1>15. ASSUME NEW i \in 1 .. Len(r), NEW u \in DOMAIN r[i]
       PROVE  Holds(N, r[i][u]) <=> u <= w[i]
  <2>1. CASE i = Len(q) - 1
    BY <1>2, <1>6, <1>14, <2>1 DEF W
  <2>2. CASE i # Len(q) - 1
    <3> DEFINE j == i + 2
    <3>1. j \in 1 .. Len(q) /\ r[i] = q[j] /\ w[i] = val[j]
      BY <1>2, <1>14, <2>2
    <3> HIDE DEF j
    <3>2. q[j][u] \in Below(x) /\ (Holds(M, q[j][u]) <=> u <= val[j])
      BY <1>1, <1>3, <3>1 DEF Shows, IsNode
    <3> QED
      BY <1>7, <3>1, <3>2
  <2> QED
    BY <2>1, <2>2
<1>16. Shows(r, w, N)
  BY <1>15, Zenon DEF Shows
<1> QED
  BY <1>4, <1>7, <1>13, <1>16 DEF Modelled

\* One assignment with literals g and cost c is carried by the queue.
TotCarries(q, C, L, s, g, c) ==
  \E val : /\ Values(q, val) /\ Weighs(q, L, c, val)
           /\ Derived(q, C, g, s, val) /\ Modelled(q, C, g, val)

\* The queue carries a cost across a merge.
LEMMA MergeCarries ==
  ASSUME NEW first, NEW q, NEW x, NEW L, NEW left, NEW right, NEW parent, NEW r,
         Merging(first, q, x, L, left, right, parent, r), NEW s, FlatShape(q, s),
         NEW g \in SUBSET Below(x), -first \in g, NEW C \in SUBSET SUBSET Below(x),
         NEW D, D = C \cup Selected(MergeClauses(left, right, parent, L), first),
         NEW c, TotCarries(q, C, L, s, g, c)
  PROVE  TotCarries(r, D, L, s, g, c)
<1>1. PICK val : /\ Values(q, val) /\ Weighs(q, L, c, val)
                 /\ Derived(q, C, g, s, val) /\ Modelled(q, C, g, val)
  BY DEF TotCarries
<1> DEFINE n == Len(q)
           v == Clip(L, val[1] + val[2])
           w == [i \in 1 .. n - 1 |-> IF i = n - 1 THEN v ELSE val[i + 2]]
<1>2. MergedValue(L, val, n, w)
  <2>1. n \in Nat /\ n >= 2
    BY MergingFacts
  <2>2. v \in Nat
    BY <1>1, ParentValue
  <2>3. \A i \in 1 .. n - 1 : i # n - 1 => i + 2 \in 1 .. n /\ val[i + 2] \in Nat
    BY <1>1, <2>1 DEF Values
  <2>4. w \in [1 .. n - 1 -> Nat]
    <3> HIDE DEF v, n
    <3> QED
      BY <2>1, <2>2, <2>3
  <2>5. (\A i \in 1 .. n - 2 : w[i] = val[i + 2]) /\ w[n - 1] = v
    <3> HIDE DEF v, n
    <3> QED
      BY <2>1
  <2> HIDE DEF w
  <2> QED
    BY <2>4, <2>5 DEF MergedValue
<1> HIDE DEF w, n, v
<1>3. MergedValue(L, val, Len(q), w)
  BY <1>2 DEF n
<1>4. Values(r, w)
  BY <1>1, <1>3, MergeValues
<1>5. Weighs(r, L, c, w)
  BY <1>1, <1>3, MergeWeighs
<1>6. Modelled(r, D, g, w)
  BY <1>1, <1>3, MergeModelled
<1>7. Derived(r, D, g, s, w)
  BY <1>1, <1>3, MergeDerived
<1> QED
  BY <1>4, <1>5, <1>6, <1>7 DEF TotCarries

\* The clauses and the queue keep their shape.
LEMMA MergeShape ==
  ASSUME NEW first, NEW q, NEW x, NEW L, NEW left, NEW right, NEW parent, NEW r,
         Merging(first, q, x, L, left, right, parent, r), NEW C, ClausesBelow(C, x),
         NEW D, D = C \cup Selected(MergeClauses(left, right, parent, L), first),
         NEW y, y = x + Cardinality(DOMAIN parent)
  PROVE  y \in Nat /\ x <= y /\ QueueShape(first, r, y) /\ ClausesBelow(D, y)
<1>1. /\ IsNode(first, left, x) /\ IsNode(first, right, x) /\ left \in Nodes /\ right \in Nodes
      /\ DOMAIN parent = MergedWeights(left, right, L)
      /\ Cardinality(DOMAIN parent) \in Nat
      /\ IsNode(first, parent, y) /\ parent \in Nodes
      /\ Len(q) \in Nat /\ Len(q) >= 2
      /\ r \in Seq(Nodes) /\ Len(r) = Len(q) - 1
      /\ \A i \in 1 .. Len(q) - 2 : r[i] = q[i + 2]
      /\ r[Len(q) - 1] = parent
  BY MergingFacts, SMTT(30) DEF IsNode
<1>2. /\ x \in Nat /\ L \in Nat \ {0} /\ first \in Nat \ {0} /\ first < x
      /\ \A i \in 1 .. Len(q) : IsNode(first, q[i], x)
  BY DEF Merging, QueueShape
<1>3. y \in Nat /\ x <= y
  BY <1>1, <1>2
<1>4. Below(x) \subseteq Below(y)
  BY <1>2, <1>3 DEF Below
<1>5. QueueShape(first, r, y)
  <2>1. ASSUME NEW i \in 1 .. Len(r) PROVE IsNode(first, r[i], y)
    <3>1. CASE i = Len(q) - 1
      BY <1>1, <3>1
    <3>2. CASE i # Len(q) - 1
      <4>1. i + 2 \in 1 .. Len(q) /\ r[i] = q[i + 2]
        BY <1>1, <3>2
      <4>2. IsNode(first, r[i], x)
        BY <1>2, <4>1
      <4> QED
        BY <1>4, <4>2 DEF IsNode
    <3> QED
      BY <3>1, <3>2
  <2> QED
    BY <1>1, <2>1 DEF QueueShape
<1> DEFINE MC == MergeClauses(left, right, parent, L)
           A == {-left[a] : a \in DOMAIN left}
           B == {-right[b] : b \in DOMAIN right}
           P == {parent[u] : u \in DOMAIN parent}
           all == ((A \cup B) \cup P) \cup {first}
<1>6. A \subseteq Below(y) /\ B \subseteq Below(y) /\ P \subseteq Below(y) /\ first \in Below(y)
  <2>1. \A a \in DOMAIN left : left[a] \in Below(y)
    BY <1>1, <1>4 DEF IsNode
  <2>2. \A b \in DOMAIN right : right[b] \in Below(y)
    BY <1>1, <1>4 DEF IsNode
  <2>3. \A l \in Below(y) : -l \in Below(y)
    BY <1>3 DEF Below
  <2>4. \A u \in DOMAIN parent : parent[u] \in Below(y)
    BY <1>1 DEF IsNode
  <2>5. first \in Below(y)
    BY <1>2, <1>3 DEF Below
  <2> QED
    BY <2>1, <2>2, <2>3, <2>4, <2>5
<1>7. IsFiniteSet(all)
  <2>1. IsFiniteSet(A)
    <3> DEFINE S == DOMAIN left
               f == [a \in S |-> -left[a]]
    <3>1. f \in Surjection(S, A)
      BY DEF Surjection
    <3>2. IsFiniteSet(S)
      BY <1>1 DEF IsNode
    <3> HIDE DEF f, S, A
    <3> QED
      BY <3>1, <3>2, FS_Surjection
  <2>2. IsFiniteSet(B)
    <3> DEFINE S == DOMAIN right
               f == [a \in S |-> -right[a]]
    <3>1. f \in Surjection(S, B)
      BY DEF Surjection
    <3>2. IsFiniteSet(S)
      BY <1>1 DEF IsNode
    <3> HIDE DEF f, S, B
    <3> QED
      BY <3>1, <3>2, FS_Surjection
  <2>3. IsFiniteSet(P)
    <3> DEFINE S == DOMAIN parent
               f == [a \in S |-> parent[a]]
    <3>1. f \in Surjection(S, P)
      BY DEF Surjection
    <3>2. IsFiniteSet(S)
      BY <1>1 DEF IsNode
    <3> HIDE DEF f, S, P
    <3> QED
      BY <3>1, <3>2, FS_Surjection
  <2> HIDE DEF A, B, P
  <2>4. IsFiniteSet(A \cup B)
    BY <2>1, <2>2, FS_Union
  <2>5. IsFiniteSet((A \cup B) \cup P)
    BY <2>3, <2>4, FS_Union
  <2> DEFINE R == (A \cup B) \cup P
  <2>6. IsFiniteSet(R)
    BY <2>5
  <2> HIDE DEF R
  <2>7. IsFiniteSet(R \cup {first})
    BY <2>6, FS_AddElement
  <2> QED
    BY <2>7 DEF R
<1>8. \A c \in MC : c \subseteq all
  <2> SUFFICES ASSUME NEW c \in MC PROVE c \subseteq all
    OBVIOUS
  <2>0. DOMAIN left \subseteq Nat \ {0} /\ DOMAIN right \subseteq Nat \ {0}
    BY <1>1 DEF IsNode
  <2>1. CASE \E p \in PairsBelow(left, right, L) :
               c = {-left[p[1]], -right[p[2]], parent[CheckRhsSimplification(L, p[1] + p[2])]}
    <3>1. PICK p \in PairsBelow(left, right, L) :
               c = {-left[p[1]], -right[p[2]], parent[CheckRhsSimplification(L, p[1] + p[2])]}
      BY <2>1
    <3>2. p[1] \in DOMAIN left /\ p[2] \in DOMAIN right
      BY DEF PairsBelow
    <3>3. CheckRhsSimplification(L, p[1] + p[2]) \in DOMAIN parent
      BY <1>1, <1>2, <2>0, <3>2, MergedWeightsAre DEF Clip
    <3> QED
      BY <3>1, <3>2, <3>3
  <2>2. CASE \E a \in DOMAIN left : c = {-left[a], parent[CheckRhsSimplification(L, a)]}
    <3>1. \A a \in DOMAIN left : CheckRhsSimplification(L, a) \in DOMAIN parent
      BY <1>1, <1>2, <2>0, MergedWeightsAre DEF Clip
    <3> QED
      BY <2>2, <3>1
  <2>3. CASE \E b \in DOMAIN right : c = {-right[b], parent[CheckRhsSimplification(L, b)]}
    <3>1. \A a \in DOMAIN right : CheckRhsSimplification(L, a) \in DOMAIN parent
      BY <1>1, <1>2, <2>0, MergedWeightsAre DEF Clip
    <3> QED
      BY <2>3, <3>1
  <2> QED
    BY <2>1, <2>2, <2>3 DEF MergeClauses
<1>9. all \subseteq Below(y)
  <2> HIDE DEF A, B, P
  <2> QED
    BY <1>6
<1>10. first \in all
  OBVIOUS
<1> HIDE DEF all, MC
<1>11. \A d \in Selected(MC, first) : d \subseteq all
  BY <1>2, <1>8, <1>10 DEF Selected
<1>12. D \in SUBSET SUBSET Below(y)
  <2>1. C \in SUBSET SUBSET Below(y)
    BY <1>4 DEF ClausesBelow
  <2> QED
    BY <1>9, <1>11, <2>1 DEF MC
<1>13. IsFiniteSet(UNION D)
  <2> DEFINE R == (UNION C) \cup all
  <2>1. UNION D \subseteq R
    BY <1>11 DEF MC
  <2>2. IsFiniteSet(UNION C)
    BY DEF ClausesBelow
  <2>3. IsFiniteSet(R)
    BY <1>7, <2>2, FS_Union
  <2> HIDE DEF R
  <2> QED
    BY <2>1, <2>3, FS_Subset
<1> QED
  BY <1>3, <1>5, <1>12, <1>13 DEF ClausesBelow

-----------------------------------------------------------------------------
(***************************************************************************)
(* The weighted literals in their order.                                   *)
(***************************************************************************)
\* The weighted literals an encoding is made of: every literal has one weight.
WeightedLits(first, s) ==
  /\ s \subseteq (Nat \ {0}) \X Below(first)
  /\ IsFiniteSet(s)
  /\ \A a, b \in s : a[2] = b[2] => a = b

\* Each has a place of its own.
LEMMA SortedIsBijection ==
  ASSUME NEW first, NEW s, WeightedLits(first, s)
  PROVE  /\ Cardinality(s) \in Nat /\ (s # {} => Cardinality(s) >= 1)
         /\ SortedWLits(s) \in [1 .. Cardinality(s) -> s]
         /\ \A i, j \in 1 .. Cardinality(s) : SortedWLits(s)[i] = SortedWLits(s)[j] => i = j
         /\ \A wl \in s : \E i \in 1 .. Cardinality(s) : SortedWLits(s)[i] = wl
<1> DEFINE n == Cardinality(s)
           Lower(wl) == {u \in s : Before(u, wl)}
           f == [wl \in s |-> Cardinality(Lower(wl)) + 1]
<1>1. n \in Nat /\ IsFiniteSet(s)
  BY FS_CardinalityType DEF WeightedLits
<1>2. s # {} => n >= 1
  <2>1. s # {} => n # 0
    BY <1>1, FS_EmptySet DEF WeightedLits
  <2> QED
    BY <1>1, <2>1
<1>3. \A a \in s : a[1] \in Nat /\ a[2] \in Int /\ a = <<a[1], a[2]>>
  BY DEF WeightedLits, Below
<1>4. \A a, b, c \in s : /\ ~Before(a, a)
                         /\ Before(a, b) /\ Before(b, c) => Before(a, c)
                         /\ a # b => Before(a, b) \/ Before(b, a)
  BY <1>3 DEF Before
<1>5. \A wl \in s : Lower(wl) \in SUBSET s /\ wl \notin Lower(wl)
  BY <1>4
<1>6. ASSUME NEW wl \in s
      PROVE  Cardinality(Lower(wl)) \in Nat /\ Cardinality(Lower(wl)) < n
             /\ IsFiniteSet(Lower(wl))
  <2> DEFINE A == Lower(wl)
  <2>1. A \in SUBSET s /\ wl \notin A
    BY <1>5
  <2> HIDE DEF A
  <2>2. IsFiniteSet(A) /\ Cardinality(A) <= n /\ (n = Cardinality(A) => s = A)
    BY <1>1, <2>1, FS_Subset
  <2>3. Cardinality(A) \in Nat
    BY <2>2, FS_CardinalityType
  <2>4. Cardinality(A) # n
    BY <2>1, <2>2
  <2> HIDE DEF n
  <2> QED
    BY <1>1, <2>2, <2>3, <2>4 DEF A
<1>7. ASSUME NEW a \in s, NEW b \in s, Before(a, b)
      PROVE  Cardinality(Lower(a)) < Cardinality(Lower(b))
  <2> DEFINE A == Lower(a)
             B == Lower(b)
  <2>1. A \in SUBSET B
    BY <1>4, <1>7
  <2>2. a \in B /\ a \notin A
    BY <1>4, <1>7
  <2>3. IsFiniteSet(B) /\ Cardinality(A) \in Nat /\ Cardinality(B) \in Nat
    BY <1>6
  <2> HIDE DEF A, B
  <2>4. Cardinality(A) <= Cardinality(B) /\ Cardinality(A) # Cardinality(B)
    BY <2>1, <2>2, <2>3, FS_Subset
  <2> QED
    BY <2>3, <2>4 DEF A, B
<1>8. f \in [s -> 1 .. n]
  <2>1. \A wl \in s : Cardinality(Lower(wl)) + 1 \in 1 .. n
    <3> HIDE DEF Lower, n
    <3> QED
      BY <1>1, <1>6
  <2> HIDE DEF Lower, n
  <2> QED
    BY <2>1
<1>9. ASSUME NEW a \in s, NEW b \in s, f[a] = f[b] PROVE a = b
  <2>1. Cardinality(Lower(a)) = Cardinality(Lower(b))
    <3> HIDE DEF Lower
    <3> QED
      BY <1>6, <1>9
  <2> HIDE DEF Lower
  <2>2. ~Before(a, b) /\ ~Before(b, a)
    BY <1>6, <1>7, <2>1
  <2> QED
    BY <1>4, <2>2
<1>10. \A i \in 1 .. n : \E a \in s : f[a] = i
  <2> DEFINE T == 1 .. n
  <2>1. IsFiniteSet(T) /\ Cardinality(T) = n
    <3>1. 1 \in Int /\ n \in Int
      BY <1>1
    <3>2. IsFiniteSet(1 .. n) /\ Cardinality(1 .. n) = IF 1 > n THEN 0 ELSE n - 1 + 1
      <4> HIDE DEF n
      <4> QED
        BY ONLY <3>1, FS_Interval
    <3> QED
      BY <1>1, <3>2
  <2>2. f \in [s -> T]
    BY <1>8
  <2> HIDE DEF f, T
  <2>3. f \in Injection(s, T)
    BY <1>9, <2>2 DEF Injection, IsInjective
  <2>4. f \in Surjection(s, T)
    BY <2>1, <2>3, FS_Injection
  <2> QED
    BY <2>4 DEF Surjection, T
<1>11. ASSUME NEW i \in 1 .. n
       PROVE  SortedWLits(s)[i] \in s /\ f[SortedWLits(s)[i]] = i
  <2>1. SortedWLits(s)[i] = CHOOSE wl \in s : Cardinality(Lower(wl)) = i - 1
    BY DEF SortedWLits
  <2>2. \A wl \in s : f[wl] = Cardinality(Lower(wl)) + 1
    OBVIOUS
  <2>3. \E wl \in s : Cardinality(Lower(wl)) = i - 1
    <3> HIDE DEF Lower, f
    <3>1. PICK a \in s : f[a] = i
      BY <1>10
    <3>2. f[a] = Cardinality(Lower(a)) + 1
      BY <2>2
    <3>3. Cardinality(Lower(a)) = i - 1
      BY <1>6, <3>1, <3>2
    <3> QED
      BY <3>3
  <2> HIDE DEF Lower, f
  <2>4. SortedWLits(s)[i] \in s /\ Cardinality(Lower(SortedWLits(s)[i])) = i - 1
    BY <2>1, <2>3
  <2> QED
    BY <1>1, <2>2, <2>4
<1>12. SortedWLits(s) \in [1 .. n -> s]
  BY <1>11 DEF SortedWLits
<1>13. ASSUME NEW i \in 1 .. n, NEW j \in 1 .. n, SortedWLits(s)[i] = SortedWLits(s)[j]
       PROVE  i = j
  <2> HIDE DEF f
  <2> QED
    BY <1>11, <1>13
<1>14. ASSUME NEW wl \in s PROVE \E i \in 1 .. n : SortedWLits(s)[i] = wl
  <2> HIDE DEF f
  <2>1. f[wl] \in 1 .. n
    BY <1>8
  <2>2. SortedWLits(s)[f[wl]] = wl
    BY <1>9, <1>11, <2>1
  <2> QED
    BY <2>1, <2>2
<1> QED
  BY <1>1, <1>2, <1>12, <1>13, <1>14

\* The cost of an assignment of the literals s.
CostOf(s, m) == SumFunction([wl \in s |-> IF wl[2] \in m THEN wl[1] ELSE 0])

\* It is the sum over the places of what the literal there adds.
LEMMA CostBySorted ==
  ASSUME NEW first, NEW s, WeightedLits(first, s), NEW m, NEW val,
         \A i \in 1 .. Cardinality(s) :
           val[i] = IF SortedWLits(s)[i][2] \in m THEN SortedWLits(s)[i][1] ELSE 0
  PROVE  CostOf(s, m) = SumFunctionOnSet(val, 1 .. Cardinality(s)) /\ CostOf(s, m) \in Nat
<1> DEFINE n == Cardinality(s)
           b == SortedWLits(s)
           S == 1 .. n
           h == [wl \in s |-> IF wl[2] \in m THEN wl[1] ELSE 0]
<1>1. /\ n \in Nat /\ b \in [S -> s] /\ \A i, j \in S : b[i] = b[j] => i = j
      /\ \A wl \in s : \E i \in S : b[i] = wl
  BY SortedIsBijection
<1>2. IsFiniteSet(S)
  <2>1. 1 \in Int /\ n \in Int
    BY <1>1
  <2> QED
    BY ONLY <2>1, FS_Interval
<1>3. IsFiniteSet(s) /\ \A wl \in s : wl[1] \in Nat
  BY DEF WeightedLits
<1>4. \A wl \in s : h[wl] \in Nat
  BY <1>3
<1>5. \A i \in S : val[i] = h[b[i]]
  <2>1. \A wl \in s : h[wl] = IF wl[2] \in m THEN wl[1] ELSE 0
    OBVIOUS
  <2>2. \A i \in S : val[i] = IF b[i][2] \in m THEN b[i][1] ELSE 0
    OBVIOUS
  <2> HIDE DEF h, b, S
  <2> QED
    BY <1>1, <2>1, <2>2
<1>6. CostOf(s, m) = SumFunctionOnSet(h, s)
  BY DEF CostOf, SumFunction
<1>7. Integral(h, s)
  BY <1>3, <1>4 DEF Integral
<1> HIDE DEF h, b, S
<1>8. SumFunctionOnSet(val, S) = SumFunctionOnSet(h, s)
  BY <1>1, <1>2, <1>5, <1>7, SumRename
<1>9. SumFunctionOnSet(h, s) \in Nat
  BY <1>3, <1>4, SumNat
<1> QED
  BY <1>6, <1>8, <1>9 DEF S

\* An assignment of the variables below first, as the set of its literals.
AssignmentsTo(first) ==
  {{IF v \in true THEN v ELSE -v : v \in 1 .. first - 1} : true \in SUBSET (1 .. first - 1)}

\* An assignment as a set of literals, and as a set of true variables.
LEMMA AssignmentFacts ==
  ASSUME NEW first \in Nat, NEW m \in AssignmentsTo(first)
  PROVE  /\ m \subseteq Below(first)
         /\ \E true \in SUBSET (1 .. first - 1) :
              \A l \in Below(first) : l \in m <=> Holds(true, l)
<1>1. PICK true \in SUBSET (1 .. first - 1) :
              m = {IF v \in true THEN v ELSE -v : v \in 1 .. first - 1}
  BY DEF AssignmentsTo
<1>2. \A l \in m : \E v \in 1 .. first - 1 : l = IF v \in true THEN v ELSE -v
  BY <1>1
<1>3. \A v \in 1 .. first - 1 : (IF v \in true THEN v ELSE -v) \in m
  BY <1>1
<1>4. m \subseteq Below(first)
  BY <1>2 DEF Below
<1>5. ASSUME NEW l \in Below(first) PROVE l \in m <=> Holds(true, l)
  <2>1. CASE l > 0
    <3>1. l \in 1 .. first - 1
      BY <2>1 DEF Below
    <3>2. l \in true => l \in m
      BY <1>3, <3>1
    <3>3. l \in m => l \in true
      BY <1>2, <2>1
    <3> QED
      BY <2>1, <3>2, <3>3 DEF Holds
  <2>2. CASE l < 0
    <3>1. -l \in 1 .. first - 1 /\ -(-l) = l
      BY <2>2 DEF Below
    <3>2. -l \notin true => l \in m
      BY <1>3, <3>1
    <3>3. l \in m => -l \notin true
      <4> SUFFICES ASSUME l \in m PROVE -l \notin true
        OBVIOUS
      <4>1. PICK v \in 1 .. first - 1 : l = IF v \in true THEN v ELSE -v
        BY <1>2
      <4>2. l = -v /\ v \notin true
        BY <2>2, <4>1
      <4> QED
        BY <4>2
    <3> QED
      BY <2>2, <3>2, <3>3 DEF Holds, Below
  <2> QED
    BY <2>1, <2>2 DEF Below
<1> QED
  BY <1>4, <1>5

-----------------------------------------------------------------------------
(***************************************************************************)
(* The totalizer: the invariant of its construction.                       *)
(***************************************************************************)
TotRecord(first, e, q, x, C, L) ==
  e = [queue |-> q, next |-> x, clauses |-> C, selector |-> first, limit |-> L]

TotShape(first, q, x, C, s) ==
  /\ QueueShape(first, q, x) /\ x \in Nat /\ first < x
  /\ ClausesBelow(C, x) /\ FlatShape(q, s)

TotInv(first, e, s, L) ==
  \E q, x, C :
    /\ TotRecord(first, e, q, x, C, L) /\ TotShape(first, q, x, C, s)
    /\ \A m \in AssignmentsTo(first) : TotCarries(q, C, L, s, m \cup {-first}, CostOf(s, m))

\* The queue of leaves carries every cost.
LEMMA TotInit ==
  ASSUME NEW first \in Nat \ {0}, NEW s, WeightedLits(first, s), s # {}, NEW L \in Nat \ {0}, NEW e,
         e = InitGenTotalizer(s, first + 1, first, L - 1)
  PROVE  TotInv(first, e, s, L) /\ Len(e.queue) = Cardinality(s)
<1> DEFINE n == Cardinality(s)
           b == SortedWLits(s)
           q == [i \in 1 .. n |-> [w \in {b[i][1]} |-> b[i][2]]]
           x == first + 1
<1>1. n \in Nat /\ n >= 1 /\ b \in [1 .. n -> s]
  BY SortedIsBijection
<1>2. \A wl \in s : wl[1] \in Nat \ {0} /\ wl[2] \in Below(first)
  BY DEF WeightedLits
<1>3. ASSUME NEW i \in 1 .. n
      PROVE  /\ DOMAIN q[i] = {b[i][1]} /\ q[i][b[i][1]] = b[i][2]
             /\ b[i] \in s /\ b[i][1] \in Nat \ {0} /\ b[i][2] \in Below(first)
             /\ q[i] = [w \in {b[i][1]} |-> b[i][2]]
  BY <1>1, <1>2
<1>4. TotRecord(first, e, q, x, {}, L)
  <2>1. (L - 1) + 1 = L
    OBVIOUS
  <2>2. e = [queue |-> q, next |-> x, clauses |-> {}, selector |-> first,
             limit |-> (L - 1) + 1]
    BY DEF InitGenTotalizer
  <2> QED
    BY <2>1, <2>2 DEF TotRecord
<1>5. Below(first) \subseteq Below(x)
  BY DEF Below
<1>6. ASSUME NEW i \in 1 .. n PROVE q[i] \in Nodes /\ IsNode(first, q[i], x)
  <2> DEFINE d == b[i][1]
             l == b[i][2]
             f == q[i]
  <2>1. d \in Nat \ {0} /\ l \in Below(first) /\ DOMAIN f = {d} /\ f[d] = l
        /\ f = [w \in {d} |-> l]
    BY <1>3
  <2> HIDE DEF d, l, f
  <2>2. l \in Below(x) /\ l # first /\ l # -first /\ l \in Int
    BY <1>5, <2>1 DEF Below
  <2>3. f \in Nodes
    <3>1. f \in [{d} -> Int] /\ {d} \in SUBSET Nat
      BY <2>1, <2>2
    <3> QED
      BY <3>1 DEF Nodes
  <2>4. IsFiniteSet({d})
    BY FS_Singleton
  <2>5. IsNode(first, f, x)
    BY <2>1, <2>2, <2>3, <2>4 DEF IsNode
  <2> QED
    BY <2>3, <2>5 DEF f
<1>7. Len(q) = n /\ q \in Seq(Nodes)
  <2>1. q = [i \in 1 .. n |-> q[i]]
    OBVIOUS
  <2> HIDE DEF q
  <2>2. q \in [1 .. n -> Nodes]
    BY <1>6, <2>1
  <2>3. q \in Seq(Nodes)
    BY <1>1, <2>2
  <2>4. DOMAIN q = 1 .. n
    BY <2>2
  <2> QED
    BY <1>1, <2>3, <2>4
<1> HIDE DEF q
<1>8. TotShape(first, q, x, {}, s)
  <2>1. QueueShape(first, q, x)
    BY <1>1, <1>6, <1>7 DEF QueueShape
  <2>2. ClausesBelow({}, x)
    <3>1. UNION {} = {}
      OBVIOUS
    <3> QED
      BY <3>1, FS_EmptySet DEF ClausesBelow
  <2>3. FlatShape(q, s)
    <3> SUFFICES ASSUME Flat(s), NEW i \in 1 .. Len(q)
                 PROVE  \E k \in Nat : DOMAIN q[i] = 1 .. k
      BY DEF FlatShape
    <3>1. b[i][1] = 1
      BY <1>3, <1>7 DEF Flat
    <3>2. DOMAIN q[i] = 1 .. 1
      <4>1. i \in 1 .. n
        BY <1>7
      <4>2. DOMAIN q[i] = {b[i][1]}
        BY <1>3, <4>1
      <4>3. 1 .. 1 = {1}
        OBVIOUS
      <4> QED
        BY <3>1, <4>2, <4>3
    <3> QED
      BY <3>2
  <2>4. x \in Nat /\ first < x
    OBVIOUS
  <2> HIDE DEF x
  <2> QED
    BY <2>1, <2>2, <2>3, <2>4 DEF TotShape
<1>9. ASSUME NEW m \in AssignmentsTo(first)
      PROVE  TotCarries(q, {}, L, s, m \cup {-first}, CostOf(s, m))
  <2> DEFINE g == m \cup {-first}
             val == [i \in 1 .. n |-> IF b[i][2] \in m THEN b[i][1] ELSE 0]
  <2>1. PICK M \in SUBSET (1 .. first - 1) :
               \A l \in Below(first) : l \in m <=> Holds(M, l)
    BY AssignmentFacts
  <2>2. m \subseteq Below(first)
    BY AssignmentFacts
  <2>3. \A i \in 1 .. n : val[i] = IF b[i][2] \in m THEN b[i][1] ELSE 0
    OBVIOUS
  <2>4. val \in [1 .. n -> Nat]
    BY <1>3
  <2> HIDE DEF val
  <2>5. Values(q, val)
    <3>1. \A i \in 1 .. n : val[i] = 0 \/ val[i] \in DOMAIN q[i]
      BY <1>3, <2>3
    <3> QED
      BY <1>7, <2>4, <3>1 DEF Values
  <2>6. Weighs(q, L, CostOf(s, m), val)
    <3>1. CostOf(s, m) = SumFunctionOnSet(val, 1 .. n)
      BY <2>3, CostBySorted
    <3> QED
      BY <1>7, <3>1 DEF Weighs
  <2>7. Derived(q, {}, g, s, val)
    <3> SUFFICES ASSUME NEW K \in SUBSET Int, g \subseteq K,
                        NEW i \in 1 .. Len(q), NEW w \in DOMAIN q[i],
                        w = val[i] \/ (Flat(s) /\ w <= val[i])
                 PROVE  q[i][w] \in K
      BY DEF Derived, Reads
    <3>1. i \in 1 .. n
      BY <1>7
    <3>2. w = b[i][1] /\ w \in Nat \ {0} /\ q[i][w] = b[i][2]
      <4>1. /\ DOMAIN q[i] = {b[i][1]} /\ q[i][b[i][1]] = b[i][2]
            /\ b[i][1] \in Nat \ {0}
        BY <1>3, <3>1
      <4>2. w = b[i][1]
        BY <4>1
      <4> QED
        BY <4>1, <4>2
    <3>3. val[i] # 0
      BY <3>2, <2>4, <3>1
    <3>4. b[i][2] \in m
      BY <2>3, <3>1, <3>3
    <3> QED
      BY <3>2, <3>4
  <2>8. Modelled(q, {}, g, val)
    <3>1. g \subseteq TrueIn(M)
      <4>1. \A l \in m : l \in Int \ {0} /\ Holds(M, l)
        BY <2>1, <2>2 DEF Below
      <4>2. -first \in Int \ {0} /\ Holds(M, -first)
        <5>1. first \notin M
          OBVIOUS
        <5> QED
          BY <5>1 DEF Holds
      <4> QED
        BY <4>1, <4>2 DEF TrueIn
    <3>2. Satisfied(M, {})
      BY DEF Satisfied
    <3>3. ASSUME NEW i \in 1 .. Len(q), NEW w \in DOMAIN q[i]
          PROVE  Holds(M, q[i][w]) <=> w <= val[i]
      <4>1. i \in 1 .. n
        BY <1>7
      <4>2. /\ w = b[i][1] /\ w \in Nat \ {0} /\ q[i][w] = b[i][2]
            /\ b[i][2] \in Below(first)
        <5>1. /\ DOMAIN q[i] = {b[i][1]} /\ q[i][b[i][1]] = b[i][2]
              /\ b[i][1] \in Nat \ {0} /\ b[i][2] \in Below(first)
          BY <1>3, <4>1
        <5>2. w = b[i][1]
          BY <5>1
        <5> QED
          BY <5>1, <5>2
      <4>3. Holds(M, q[i][w]) <=> b[i][2] \in m
        BY <2>1, <4>2
      <4>4. w <= val[i] <=> b[i][2] \in m
        BY <2>3, <4>1, <4>2
      <4> QED
        BY <4>3, <4>4
    <3>4. Shows(q, val, M)
      BY <3>3, Zenon DEF Shows
    <3>5. M \in SUBSET Nat
      <4>1. \A v \in 1 .. first - 1 : v \in Nat
        OBVIOUS
      <4> QED
        BY <4>1
    <3> HIDE DEF g
    <3> QED
      BY <3>1, <3>2, <3>4, <3>5 DEF Modelled
  <2> HIDE DEF g
  <2>9. TotCarries(q, {}, L, s, g, CostOf(s, m))
    BY <2>5, <2>6, <2>7, <2>8 DEF TotCarries
  <2> QED
    BY <2>9 DEF g
<1> HIDE DEF x
<1>10. TotInv(first, e, s, L)
  BY <1>4, <1>8, <1>9 DEF TotInv
<1>11. e.queue = q
  BY <1>4 DEF TotRecord
<1> QED
  BY <1>7, <1>10, <1>11

\* A merge keeps the invariant.
LEMMA TotStep ==
  ASSUME NEW first \in Nat \ {0}, NEW s, NEW L \in Nat \ {0}, NEW e,
         TotInv(first, e, s, L), Len(e.queue) > 1
  PROVE  TotInv(first, AddAndMerge(e), s, L)
<1>1. PICK q, x, C :
        /\ TotRecord(first, e, q, x, C, L) /\ TotShape(first, q, x, C, s)
        /\ \A m \in AssignmentsTo(first) : TotCarries(q, C, L, s, m \cup {-first}, CostOf(s, m))
  BY DEF TotInv
<1> DEFINE left == q[1]
           right == q[2]
           parent == MergedNode(MergedWeights(left, right, L), x)
           r == Append(SubSeq(q, 3, Len(q)), parent)
           y == x + Cardinality(DOMAIN parent)
           D == C \cup Selected(MergeClauses(left, right, parent, L), first)
<1>2. e = [queue |-> q, next |-> x, clauses |-> C, selector |-> first, limit |-> L]
  BY <1>1 DEF TotRecord
<1>3. TotRecord(first, AddAndMerge(e), r, y, D, L)
  <2>1. e.queue = q /\ e.next = x /\ e.clauses = C /\ e.selector = first /\ e.limit = L
    BY <1>2
  <2>2. AddAndMerge(e) = [e EXCEPT !.queue = r, !.next = y, !.clauses = D]
    BY <2>1 DEF AddAndMerge
  <2> HIDE DEF r, y, D
  <2> QED
    BY <1>2, <2>2 DEF TotRecord
<1>4. Merging(first, q, x, L, left, right, parent, r)
  <2>1. QueueShape(first, q, x) /\ x \in Nat /\ first < x
    BY <1>1 DEF TotShape
  <2>2. Len(q) > 1
    BY <1>2
  <2> QED
    BY <2>1, <2>2 DEF Merging, MergeOf
<1>5. D = C \cup Selected(MergeClauses(left, right, parent, L), first)
      /\ y = x + Cardinality(DOMAIN parent)
  OBVIOUS
<1> HIDE DEF left, right, parent, r, y, D
<1>6. ClausesBelow(C, x) /\ FlatShape(q, s) /\ x \in Nat /\ first < x
  BY <1>1 DEF TotShape
<1>7. y \in Nat /\ x <= y /\ QueueShape(first, r, y) /\ ClausesBelow(D, y)
  BY <1>4, <1>5, <1>6, MergeShape
<1>8. FlatShape(r, s)
  BY <1>4, <1>6, MergeFlat
<1>9. TotShape(first, r, y, D, s)
  BY <1>6, <1>7, <1>8 DEF TotShape
<1>10. ASSUME NEW m \in AssignmentsTo(first)
       PROVE  TotCarries(r, D, L, s, m \cup {-first}, CostOf(s, m))
  <2> DEFINE g == m \cup {-first}
             c == CostOf(s, m)
  <2>1. TotCarries(q, C, L, s, g, c)
    BY <1>1
  <2>2. g \in SUBSET Below(x) /\ -first \in g
    <3>1. m \subseteq Below(first)
      BY AssignmentFacts
    <3>2. Below(first) \subseteq Below(x) /\ -first \in Below(x)
      BY <1>6 DEF Below
    <3> QED
      BY <3>1, <3>2
  <2>3. C \in SUBSET SUBSET Below(x)
    BY <1>6 DEF ClausesBelow
  <2> HIDE DEF g, c
  <2>4. TotCarries(r, D, L, s, g, c)
    BY <1>4, <1>5, <1>6, <2>1, <2>2, <2>3, MergeCarries
  <2> QED
    BY <2>4 DEF g, c
<1> QED
  BY <1>3, <1>9, <1>10 DEF TotInv

ReadsCost(queue, L, known, c) ==
  CheckRhsSimplification(L, SumFunction([i \in DOMAIN queue |-> Heaviest(queue[i], known)]))
    = CheckRhsSimplification(L, c)

\* What the SAT solver reads off the queue: each node's value.
LEMMA TotIsRead ==
  ASSUME NEW first \in Nat \ {0}, NEW s, NEW L \in Nat \ {0}, NEW e, TotInv(first, e, s, L),
         NEW m \in AssignmentsTo(first), NEW known,
         known = Propagated(e.clauses, m \cup {-first})
  PROVE  ReadsCost(e.queue, L, known, CostOf(s, m))
<1>1. PICK q, x, C :
        /\ TotRecord(first, e, q, x, C, L) /\ TotShape(first, q, x, C, s)
        /\ \A a \in AssignmentsTo(first) : TotCarries(q, C, L, s, a \cup {-first}, CostOf(s, a))
  BY DEF TotInv
<1>2. e.queue = q /\ e.clauses = C
  BY <1>1 DEF TotRecord
<1> DEFINE g == m \cup {-first}
           c == CostOf(s, m)
<1>3. PICK val : /\ Values(q, val) /\ Weighs(q, L, c, val)
                 /\ Derived(q, C, g, s, val) /\ Modelled(q, C, g, val)
  BY <1>1 DEF TotCarries
<1>4. PICK M \in SUBSET Nat : g \subseteq TrueIn(M) /\ Satisfied(M, C) /\ Shows(q, val, M)
  BY <1>3 DEF Modelled
<1>5. QueueShape(first, q, x) /\ C \in SUBSET SUBSET Below(x) /\ IsFiniteSet(UNION C) /\ x \in Nat
  BY <1>1 DEF TotShape, ClausesBelow
<1>6. C \in Clauses
  BY <1>5 DEF Clauses, Below
<1>7. known = Propagated(C, g)
  BY <1>2
<1> HIDE DEF g, c
<1>8. g \subseteq known /\ known \subseteq TrueIn(M) /\ Closed(known, C)
  BY <1>4, <1>5, <1>6, <1>7, PropagatedIsClosed
<1>9. known \in SUBSET Int
  BY <1>8 DEF TrueIn
<1>10. Reads(q, val, known, s)
  BY <1>3, <1>8, <1>9 DEF Derived
<1>11. q \in Seq(Nodes) /\ Len(q) \in Nat /\ \A i \in 1 .. Len(q) : IsNode(first, q[i], x)
  BY <1>5 DEF QueueShape
<1>12. DOMAIN q = 1 .. Len(q)
  BY <1>11
<1>13. ASSUME NEW i \in 1 .. Len(q) PROVE Heaviest(q[i], known) = val[i]
  <2> DEFINE node == q[i]
             true == {w \in DOMAIN node : node[w] \in known}
  <2>1. val[i] \in Nat /\ (val[i] = 0 \/ val[i] \in DOMAIN node)
    BY <1>3 DEF Values
  <2>2. DOMAIN node \subseteq Nat \ {0} /\ \A w \in DOMAIN node : node[w] \in Below(x)
    BY <1>11 DEF IsNode
  <2>3. \A w \in true : w \in Nat \ {0} /\ w <= val[i]
    <3> SUFFICES ASSUME NEW w \in true PROVE w \in Nat \ {0} /\ w <= val[i]
      OBVIOUS
    <3>1. w \in DOMAIN q[i] /\ q[i][w] \in known
      OBVIOUS
    <3>2. Holds(M, q[i][w])
      BY <1>8, <3>1 DEF TrueIn
    <3> QED
      BY <1>4, <2>2, <3>1, <3>2 DEF Shows
  <2>4. val[i] # 0 => val[i] \in true
    BY <1>10, <2>1 DEF Reads
  <2>5. Heaviest(node, known)
          = IF true = {} THEN 0 ELSE CHOOSE w \in true : \A u \in true : u <= w
    BY DEF Heaviest
  <2> HIDE DEF node, true
  <2>6. CASE val[i] = 0
    <3>1. true = {}
      BY <2>3, <2>6
    <3> QED
      BY <2>5, <2>6, <3>1 DEF node
  <2>7. CASE val[i] # 0
    <3>1. val[i] \in true /\ \A u \in true : u <= val[i]
      BY <2>3, <2>4, <2>7
    <3>2. ASSUME NEW w \in true, \A u \in true : u <= w PROVE w = val[i]
      <4>1. val[i] <= w /\ w <= val[i] /\ w \in Nat
        BY <2>3, <3>1, <3>2
      <4> QED
        BY <2>1, <4>1
    <3>3. (CHOOSE w \in true : \A u \in true : u <= w) = val[i]
      BY <3>1, <3>2
    <3> QED
      BY <2>5, <3>1, <3>3 DEF node
  <2> QED
    BY <2>6, <2>7
<1> DEFINE h == [i \in DOMAIN e.queue |-> Heaviest(e.queue[i], known)]
           S == 1 .. Len(q)
<1>14. DOMAIN h = S /\ \A i \in S : h[i] = val[i]
  BY <1>2, <1>12, <1>13
<1>15. SumFunction(h) = SumFunctionOnSet(h, S)
  <2> HIDE DEF h, S
  <2> QED
    BY <1>14 DEF SumFunction
<1>16. SumFunctionOnSet(h, S) = SumFunctionOnSet(val, S)
  <2>1. IsFiniteSet(S)
    <3>1. 1 \in Int /\ Len(q) \in Int
      BY <1>11
    <3> QED
      BY ONLY <3>1, FS_Interval
  <2>2. Integral(val, S)
    <3>1. \A i \in S : val[i] \in Int
      BY <1>3 DEF Values
    <3> HIDE DEF S
    <3> QED
      BY <2>1, <3>1 DEF Integral
  <2> HIDE DEF h, S
  <2> QED
    BY <1>14, <2>2, SumSame
<1>17. Clip(L, SumFunctionOnSet(val, S)) = Clip(L, c)
  BY <1>3 DEF Weighs
<1> HIDE DEF h, S
<1>18. Clip(L, SumFunction(h)) = Clip(L, c)
  BY <1>15, <1>16, <1>17
<1> QED
  BY <1>18 DEF Clip, h, c, ReadsCost

\* The bound assumed on a finished totalizer.
LeavesBelow(s, tot, v, B) ==
  \/ B = {-tot[w] : w \in {u \in DOMAIN tot : u >= v}}
  \/ Flat(s) /\ B = {-tot[v]}

Bounding(first, s, L, e, m, v, tot, B) ==
  /\ first \in Nat \ {0} /\ L \in Nat \ {0} /\ TotInv(first, e, s, L) /\ Len(e.queue) = 1
  /\ m \in AssignmentsTo(first) /\ CostOf(s, m) \in Nat
  /\ v \in 1 .. L /\ \E other \in AssignmentsTo(first) : v = CostOf(s, other)
  /\ tot = e.queue[1] /\ LeavesBelow(s, tot, v, B)

\* The bound on a finished totalizer is exact.
LEMMA TotBound ==
  ASSUME NEW first, NEW s, NEW L, NEW e, NEW m, NEW v, NEW tot, NEW B,
         Bounding(first, s, L, e, m, v, tot, B),
         NEW g, g = m \cup B \cup {-first}
  PROVE  g \in SUBSET (Int \ {0}) /\ (Extends(e.clauses, g) <=> CostOf(s, m) < v)
<1>a. /\ first \in Nat \ {0} /\ L \in Nat \ {0} /\ TotInv(first, e, s, L) /\ Len(e.queue) = 1
      /\ m \in AssignmentsTo(first) /\ CostOf(s, m) \in Nat
      /\ v \in 1 .. L /\ tot = e.queue[1] /\ LeavesBelow(s, tot, v, B)
  BY DEF Bounding
<1>0. PICK other \in AssignmentsTo(first) : v = CostOf(s, other)
  BY DEF Bounding
<1> USE <1>a, <1>0
<1>b. \/ B = {-tot[w] : w \in {u \in DOMAIN tot : u >= v}}
      \/ Flat(s) /\ B = {-tot[v]}
  BY DEF LeavesBelow
<1> USE <1>b
<1>1. PICK q, x, C :
        /\ TotRecord(first, e, q, x, C, L) /\ TotShape(first, q, x, C, s)
        /\ \A a \in AssignmentsTo(first) : TotCarries(q, C, L, s, a \cup {-first}, CostOf(s, a))
  BY DEF TotInv
<1>2. e.queue = q /\ e.clauses = C
  BY <1>1 DEF TotRecord
<1>3. QueueShape(first, q, x) /\ C \in SUBSET SUBSET Below(x) /\ IsFiniteSet(UNION C) /\ x \in Nat
      /\ FlatShape(q, s)
  BY <1>1 DEF TotShape, ClausesBelow
<1>4. C \in Clauses
  BY <1>3 DEF Clauses, Below
<1>5. Len(q) = 1 /\ IsNode(first, tot, x) /\ tot = q[1] /\ 1 \in 1 .. Len(q)
  BY <1>2, <1>3 DEF QueueShape
<1>6. /\ DOMAIN tot \subseteq Nat \ {0}
      /\ \A w \in DOMAIN tot : tot[w] \in Below(x) /\ tot[w] \in Int \ {0}
  BY <1>5 DEF IsNode, Below
\* The value of the one node is the cost, clipped.
<1>7. ASSUME NEW a \in AssignmentsTo(first), CostOf(s, a) \in Nat, NEW val, Values(q, val),
             Weighs(q, L, CostOf(s, a), val)
      PROVE  /\ val[1] \in Nat
             /\ Clip(L, val[1]) = Clip(L, CostOf(s, a))
             /\ val[1] = 0 \/ val[1] \in DOMAIN tot
  <2>1. val[1] \in Nat /\ (val[1] = 0 \/ val[1] \in DOMAIN tot)
    BY <1>5, <1>7 DEF Values
  <2>2. SumFunctionOnSet(val, 1 .. Len(q)) = val[1]
    <3> DEFINE S == 1 .. Len(q)
    <3>1. S = {1}
      BY <1>5
    <3> HIDE DEF S
    <3>2. val[1] \in Int
      BY <2>1
    <3> DEFINE o == 1
    <3>3. S = {o} /\ val[o] \in Int
      BY <3>1, <3>2
    <3> HIDE DEF o
    <3>4. SumFunctionOnSet(val, S) = val[o]
      BY <3>3, SumSingleton
    <3> QED
      BY <3>4 DEF S, o
  <2>3. Clip(L, val[1]) = Clip(L, CostOf(s, a))
    BY <1>7, <2>2 DEF Weighs
  <2> QED
    BY <2>1, <2>3 DEF Clip, CheckRhsSimplification
<1> DEFINE c == CostOf(s, m)
           h == m \cup {-first}
<1>8. PICK val : /\ Values(q, val) /\ Weighs(q, L, c, val)
                 /\ Derived(q, C, h, s, val) /\ Modelled(q, C, h, val)
  BY <1>1 DEF TotCarries
<1>9. val[1] \in Nat /\ Clip(L, val[1]) = Clip(L, c) /\ (val[1] = 0 \/ val[1] \in DOMAIN tot)
  BY <1>5, <1>7, <1>8 DEF Values
<1>10. c < v <=> val[1] < v
  <2> HIDE DEF c
  <2>1. c \in Nat
    BY DEF c
  <2> QED
    BY <1>9, <2>1 DEF Clip, CheckRhsSimplification
\* v is a cost, so the totalizer has an output that stands for it or more.
<1>11. PICK last \in DOMAIN tot : last >= v /\ (Flat(s) => v \in DOMAIN tot)
  <2>1. PICK u : Values(q, u) /\ Weighs(q, L, CostOf(s, other), u)
    BY <1>1 DEF TotCarries
  <2>2. u[1] \in Nat /\ Clip(L, u[1]) = Clip(L, v) /\ (u[1] = 0 \/ u[1] \in DOMAIN tot)
    BY <1>5, <1>7, <2>1 DEF Values
  <2>3. u[1] >= v /\ u[1] \in DOMAIN tot
    BY <2>2 DEF Clip, CheckRhsSimplification
  <2>4. ASSUME Flat(s) PROVE v \in DOMAIN tot
    <3>1. PICK k \in Nat : DOMAIN tot = 1 .. k
      BY <1>3, <1>5, <2>4 DEF FlatShape
    <3> QED
      BY <2>2, <2>3, <3>1
  <2> QED
    BY <2>3, <2>4
<1>12. \A l \in B : \E w \in DOMAIN tot : w >= v /\ l = -tot[w]
  <2>1. CASE B = {-tot[w] : w \in {u \in DOMAIN tot : u >= v}}
    BY <2>1
  <2>2. CASE Flat(s) /\ B = {-tot[v]}
    BY <1>11, <2>2
  <2> QED
    BY <2>1, <2>2
<1>13. h \subseteq Below(x) /\ -first \in h
  <2>1. m \subseteq Below(first) /\ first < x
    BY <1>1, AssignmentFacts DEF TotShape
  <2> QED
    BY <1>3, <2>1 DEF Below
<1>14. g = h \cup B
  OBVIOUS
<1>15. g \in SUBSET (Int \ {0})
  <2>1. \A l \in h : l \in Int \ {0}
    BY <1>13 DEF Below
  <2>2. \A l \in B : l \in Int \ {0}
    BY <1>6, <1>12
  <2> HIDE DEF h
  <2> QED
    BY <1>14, <2>1, <2>2
<1> HIDE DEF h, c
<1>16. Extends(C, g) <=> \E M \in SUBSET Nat : g \subseteq TrueIn(M) /\ Satisfied(M, C)
  BY <1>3, <1>4, <1>15, ExtendsIsSatisfiable
<1>17. ASSUME val[1] < v PROVE Extends(C, g)
  <2>1. PICK M \in SUBSET Nat : h \subseteq TrueIn(M) /\ Satisfied(M, C) /\ Shows(q, val, M)
    BY <1>8 DEF Modelled
  <2>2. ASSUME NEW l \in B PROVE l \in TrueIn(M)
    <3>1. PICK w \in DOMAIN tot : w >= v /\ l = -tot[w]
      BY <1>12
    <3>2. w \in Nat /\ ~(w <= val[1])
      BY <1>6, <1>9, <1>17, <3>1
    <3>3. ~Holds(M, tot[w])
      BY <1>5, <2>1, <3>2 DEF Shows
    <3> QED
      BY <1>6, <3>1, <3>3, HoldsNeg DEF TrueIn
  <2>3. g \subseteq TrueIn(M)
    BY <1>14, <2>1, <2>2
  <2> QED
    BY <1>16, <2>1, <2>3
<1>18. ASSUME Extends(C, g) PROVE val[1] < v
  <2> SUFFICES ASSUME val[1] >= v PROVE FALSE
    BY <1>9
  <2>1. PICK M \in SUBSET Nat : g \subseteq TrueIn(M) /\ Satisfied(M, C)
    BY <1>16, <1>18
  <2> DEFINE K == TrueIn(M)
  <2>2. Closed(K, C)
    BY <1>4, <2>1, SatisfiedIsClosed
  <2>3. K \in SUBSET Int /\ h \subseteq K
    BY <1>14, <2>1 DEF TrueIn
  <2> HIDE DEF K
  <2>4. Reads(q, val, K, s)
    BY <1>8, <2>2, <2>3 DEF Derived
  <2>5. val[1] \in DOMAIN tot
    BY <1>9
  <2>6. PICK w \in DOMAIN tot : tot[w] \in K /\ -tot[w] \in B
    <3>1. CASE B = {-tot[w] : w \in {u \in DOMAIN tot : u >= v}}
      BY <1>5, <2>4, <2>5, <3>1 DEF Reads
    <3>2. CASE Flat(s) /\ B = {-tot[v]}
      BY <1>5, <1>11, <2>4, <3>2 DEF Reads
    <3> QED
      BY <3>1, <3>2
  <2>7. Holds(M, tot[w]) /\ Holds(M, -tot[w])
    BY <1>14, <2>1, <2>6 DEF TrueIn, K
  <2> QED
    BY <1>6, <2>7, HoldsNeg
<1> QED
  BY <1>2, <1>10, <1>15, <1>17, <1>18 DEF c

-----------------------------------------------------------------------------
(***************************************************************************)
(* Binary numbers.                                                         *)
(***************************************************************************)
LEMMA PowerOfTwo ==
  ASSUME NEW i \in Nat
  PROVE  2^i \in Nat /\ 2^i >= 1 /\ 2^(i + 1) = 2 * 2^i /\ 2^0 = 1
<1>1. ASSUME NEW n \in Nat
      PROVE  /\ IsFiniteSet(SUBSET (1 .. n)) /\ Cardinality(SUBSET (1 .. n)) = 2^n
             /\ IsFiniteSet(1 .. n) /\ Cardinality(1 .. n) = n
  <2> DEFINE S == 1 .. n
  <2>1. 1 \in Int /\ n \in Int
    OBVIOUS
  <2>2. IsFiniteSet(S) /\ Cardinality(S) = IF 1 > n THEN 0 ELSE n - 1 + 1
    BY ONLY <2>1, FS_Interval
  <2>3. Cardinality(S) = n
    BY <2>2
  <2> HIDE DEF S
  <2>4. IsFiniteSet(SUBSET S) /\ Cardinality(SUBSET S) = 2^Cardinality(S)
    BY <2>2, FS_SUBSET
  <2> QED
    BY <2>2, <2>3, <2>4 DEF S
<1>2. 2^i \in Nat /\ 2^i >= 1
  <2> DEFINE A == SUBSET (1 .. i)
  <2>1. IsFiniteSet(A) /\ Cardinality(A) = 2^i /\ A # {}
    BY <1>1
  <2> HIDE DEF A
  <2>2. Cardinality(A) \in Nat /\ Cardinality(A) # 0
    BY <2>1, FS_CardinalityType, FS_EmptySet
  <2> QED
    BY <2>1, <2>2
<1>3. 2^(i + 1) = 2 * 2^i
  <2> DEFINE n == i + 1
             A == SUBSET (1 .. i)
             B == {a \cup {n} : a \in A}
             C == SUBSET (1 .. n)
             f == [a \in A |-> a \cup {n}]
  <2>1. n \in Nat /\ n \notin 1 .. i /\ 1 .. n = (1 .. i) \cup {n}
    OBVIOUS
  <2>2. C = A \cup B /\ A \cap B = {}
    <3>1. \A a \in A : a \in C /\ a \cup {n} \in C /\ n \notin a
      BY <2>1
    <3>2. ASSUME NEW c \in C PROVE c \in A \/ c \in B
      <4>1. CASE n \in c
        <5>1. c \ {n} \in A /\ (c \ {n}) \cup {n} = c
          BY <2>1, <4>1
        <5> QED
          BY <5>1
      <4>2. CASE n \notin c
        BY <2>1, <4>2
      <4> QED
        BY <4>1, <4>2
    <3>3. \A b \in B : \E a \in A : b = a \cup {n}
      OBVIOUS
    <3> HIDE DEF A, B, C
    <3>4. \A c : c \in A \cup B => c \in C
      <4> SUFFICES ASSUME NEW c, c \in A \cup B PROVE c \in C
        OBVIOUS
      <4>1. CASE c \in A
        BY <3>1, <4>1
      <4>2. CASE c \in B
        <5>1. PICK a \in A : c = a \cup {n}
          BY <3>3, <4>2
        <5> QED
          BY <3>1, <5>1
      <4> QED
        BY <4>1, <4>2
    <3>5. \A c : ~(c \in A /\ c \in B)
      <4> SUFFICES ASSUME NEW c \in A, c \in B PROVE FALSE
        OBVIOUS
      <4>1. PICK a \in A : c = a \cup {n}
        BY <3>3
      <4> QED
        BY <3>1, <4>1
    <3> QED
      BY <3>2, <3>4, <3>5
  <2>3. IsFiniteSet(A) /\ Cardinality(A) = 2^i /\ IsFiniteSet(C) /\ Cardinality(C) = 2^n
    BY <1>1, <2>1
  <2>4. f \in Surjection(A, B)
    BY DEF Surjection
  <2>5. ASSUME NEW a \in A, NEW b \in A, f[a] = f[b] PROVE a = b
    <3>1. n \notin a /\ n \notin b /\ a \cup {n} = b \cup {n}
      BY <2>1, <2>5
    <3> QED
      BY <3>1
  <2> HIDE DEF f, A, B, C
  <2>6. f \in Injection(A, B)
    BY <2>4, <2>5 DEF Surjection, Injection, IsInjective
  <2>7. IsFiniteSet(B) /\ Cardinality(B) = Cardinality(A)
    BY <2>3, <2>4, <2>6, FS_Surjection
  <2>8. Cardinality(A \cup B) = Cardinality(A) + Cardinality(B) - Cardinality(A \cap B)
    BY <2>3, <2>7, FS_Union
  <2>9. Cardinality(A \cap B) = 0
    BY <2>2, FS_EmptySet
  <2> HIDE DEF n
  <2>10. 2^n = 2 * 2^i
    BY <1>2, <2>2, <2>3, <2>7, <2>8, <2>9
  <2> QED
    BY <2>10 DEF n
<1>4. 2^0 = 1
  OBVIOUS
<1> QED
  BY <1>2, <1>3, <1>4

\* Quotient and remainder are unique.
LEMMA Quotient ==
  ASSUME NEW p \in Nat, p >= 1, NEW r \in 0 .. p - 1, NEW t \in Nat, NEW z, z = p * t,
         NEW w, w = r + z
  PROVE  w \div p = t
  OBVIOUS

\* A number by its lower bits, one bit, and the bits above.
LEMMA Halves ==
  ASSUME NEW w \in Nat, NEW i \in Nat
  PROVE  /\ w \div 2^i \in Nat
         /\ Bit(w, i) \in {0, 1}
         /\ w \div 2^i = Bit(w, i) + 2 * (w \div 2^(i + 1))
         /\ w = 2^i * (w \div 2^i) + (w % (2^i)) /\ w % (2^i) \in 0 .. 2^i - 1
         /\ w \div 2^0 = w
<1> DEFINE p == 2^i
           pp == 2^(i + 1)
<1>1. p \in Nat /\ p >= 1 /\ pp = 2 * p /\ 2^0 = 1
  BY PowerOfTwo
<1>2. Bit(w, i) = (w \div p) % 2
  BY DEF Bit
<1> HIDE DEF p, pp
<1>3. w \div p \in Nat
  BY <1>1
<1>4. (w \div p) \div 2 = w \div pp
  BY <1>1
<1>5. w \div p = ((w \div p) % 2) + 2 * ((w \div p) \div 2) /\ (w \div p) % 2 \in {0, 1}
  BY <1>3
<1>6. w = p * (w \div p) + (w % p) /\ w % p \in 0 .. p - 1
  BY <1>1
<1>7. w \div 1 = w
  OBVIOUS
<1> QED
  BY <1>1, <1>2, <1>3, <1>4, <1>5, <1>6, <1>7 DEF p, pp

\* The parts of a number, bit by bit.
LEMMA BitsSum ==
  ASSUME NEW n \in Nat, NEW w \in Nat, w < 2^n, NEW F,
         \A j \in 0 .. n - 1 : F[j] = 2^j * Bit(w, j)
  PROVE  w = SumFunctionOnSet(F, 0 .. n - 1)
<1> DEFINE Sum(j) == SumFunctionOnSet(F, 0 .. j - 1)
           G == {j \in Nat : j <= n => w = Sum(j) + 2^j * (w \div 2^j) /\ Sum(j) \in Nat}
<1>1. 0 \in G
  <2>1. 0 .. 0 - 1 = {}
    OBVIOUS
  <2>2. Sum(0) = 0
    BY <2>1, SumEmpty
  <2>3. w \div 2^0 = w /\ 2^0 = 1
    BY Halves, PowerOfTwo
  <2> HIDE DEF Sum
  <2> QED
    BY <2>2, <2>3
<1>2. ASSUME NEW j \in Nat, j \in G PROVE j + 1 \in G
  <2> SUFFICES ASSUME j + 1 <= n
               PROVE  w = Sum(j + 1) + 2^(j + 1) * (w \div 2^(j + 1)) /\ Sum(j + 1) \in Nat
    OBVIOUS
  <2>1. w = Sum(j) + 2^j * (w \div 2^j) /\ Sum(j) \in Nat
    BY <1>2
  <2>2. /\ w \div 2^j \in Nat /\ Bit(w, j) \in {0, 1}
        /\ w \div 2^j = Bit(w, j) + 2 * (w \div 2^(j + 1)) /\ w \div 2^(j + 1) \in Nat
    <3> DEFINE i == j + 1
    <3>1. i \in Nat
      OBVIOUS
    <3> HIDE DEF i
    <3>2. w \div 2^i \in Nat
      BY <3>1, Halves
    <3>3. w \div 2^(j + 1) \in Nat
      BY <3>2 DEF i
    <3> QED
      BY <3>3, Halves
  <2>3. 2^j \in Nat /\ 2^(j + 1) = 2 * 2^j
    BY PowerOfTwo
  <2>4. Sum(j + 1) = Sum(j) + F[j]
    <3> DEFINE S == 0 .. j - 1
    <3>1. 0 .. (j + 1) - 1 = S \cup {j} /\ j \notin S
      OBVIOUS
    <3>2. IsFiniteSet(S)
      <4>1. 0 \in Int /\ j - 1 \in Int
        OBVIOUS
      <4> QED
        BY ONLY <4>1, FS_Interval
    <3>3. ASSUME NEW i \in 0 .. j PROVE F[i] \in Int
      <4>1. F[i] = 2^i * Bit(w, i) /\ i \in Nat
        OBVIOUS
      <4>2. 2^i \in Nat /\ Bit(w, i) \in {0, 1}
        BY <4>1, Halves, PowerOfTwo
      <4> QED
        BY <4>1, <4>2
    <3>4. Integral(F, S) /\ F[j] \in Int
      BY <3>2, <3>3 DEF Integral
    <3> HIDE DEF S
    <3>5. SumFunctionOnSet(F, S \cup {j}) = SumFunctionOnSet(F, S) + F[j]
      BY <3>1, <3>4, SumExtend
    <3> QED
      BY <3>1, <3>5 DEF S
  <2>5. F[j] = 2^j * Bit(w, j)
    OBVIOUS
  <2> HIDE DEF Sum
  <2> DEFINE p == 2^j
             d == Bit(w, j)
             t == w \div 2^(j + 1)
             a == Sum(j)
  <2>6. /\ w = a + p * (d + 2 * t) /\ Sum(j + 1) = a + p * d /\ 2^(j + 1) = 2 * p
        /\ p \in Nat /\ d \in {0, 1} /\ t \in Nat /\ a \in Nat
    BY <2>1, <2>2, <2>3, <2>4, <2>5
  <2> HIDE DEF p, d, t, a
  <2>7. w = (a + p * d) + (2 * p) * t /\ a + p * d \in Nat
    <3>1. d = 0 \/ d = 1
      BY <2>6
    <3>2. p * (d + 2 * t) = p * d + (2 * p) * t
      BY <2>6
    <3> QED
      BY <2>6, <3>1, <3>2
  <2> QED
    BY <2>6, <2>7 DEF t
<1>3. \A j \in Nat : j \in G
  <2> HIDE DEF G
  <2> QED
    BY <1>1, <1>2, NumberInduction
<1>4. w = Sum(n) + 2^n * (w \div 2^n) /\ Sum(n) \in Nat
  BY <1>3
<1>5. w \div 2^n = 0
  <2>1. 2^n \in Nat /\ 2^n >= 1
    BY PowerOfTwo
  <2> DEFINE p == 2^n
  <2>2. p \in Nat /\ p >= 1 /\ w < p
    BY <2>1
  <2> HIDE DEF p
  <2>3. w \div p = 0
    BY <2>2
  <2> QED
    BY <2>3 DEF p
<1> DEFINE p == 2^n
<1>6. p \in Nat
  BY PowerOfTwo
<1> HIDE DEF p, Sum
<1>7. w = Sum(n) + p * 0
  BY <1>4, <1>5 DEF p
<1> QED
  BY <1>4, <1>6, <1>7 DEF Sum

\* F has the bits d times their weights; w is made of the bits d.
Digits(n, F, d) == \A j \in 0 .. n - 1 : d[j] \in {0, 1} /\ F[j] = 2^j * d[j]

HasDigits(n, w, d) == w \in Nat /\ w < 2^n /\ \A j \in 0 .. n - 1 : Bit(w, j) = d[j]

\* The bits of a sum of distinct powers of two.
LEMMA SumHasDigits ==
  ASSUME NEW n \in Nat, NEW F, NEW d, Digits(n, F, d),
         NEW w, w = SumFunctionOnSet(F, 0 .. n - 1)
  PROVE  HasDigits(n, w, d)
<1>d. \A j \in 0 .. n - 1 : d[j] \in {0, 1} /\ F[j] = 2^j * d[j]
  BY DEF Digits
<1> USE <1>d
<1> DEFINE Sum(j) == SumFunctionOnSet(F, 0 .. j - 1)
           G == {j \in Nat : j <= n => Sum(j) \in Nat /\ Sum(j) < 2^j}
<1>0. \A j \in 0 .. n - 1 : F[j] \in Nat /\ F[j] <= 2^j
  <2> SUFFICES ASSUME NEW j \in 0 .. n - 1 PROVE F[j] \in Nat /\ F[j] <= 2^j
    OBVIOUS
  <2> DEFINE p == 2^j
  <2>1. p \in Nat
    BY PowerOfTwo
  <2>2. F[j] = p * d[j] /\ (d[j] = 0 \/ d[j] = 1)
    OBVIOUS
  <2> HIDE DEF p
  <2>3. F[j] \in Nat /\ F[j] <= p
    BY <2>1, <2>2
  <2> QED
    BY <2>3 DEF p
<1>1. ASSUME NEW j \in Nat, j + 1 <= n PROVE Sum(j + 1) = Sum(j) + F[j]
  <2> DEFINE S == 0 .. j - 1
  <2>1. 0 .. (j + 1) - 1 = S \cup {j} /\ j \notin S
    OBVIOUS
  <2>2. IsFiniteSet(S)
    <3>1. 0 \in Int /\ j - 1 \in Int
      OBVIOUS
    <3> QED
      BY ONLY <3>1, FS_Interval
  <2>3. Integral(F, S) /\ F[j] \in Int
    BY <1>0, <1>1, <2>2 DEF Integral
  <2> HIDE DEF S
  <2>4. SumFunctionOnSet(F, S \cup {j}) = SumFunctionOnSet(F, S) + F[j]
    BY <2>1, <2>3, SumExtend
  <2> QED
    BY <2>1, <2>4 DEF S
<1>2. \A j \in Nat : j <= n => Sum(j) \in Nat /\ Sum(j) < 2^j
  <2>1. 0 \in G
    <3>1. 0 .. 0 - 1 = {}
      OBVIOUS
    <3>2. Sum(0) = 0 /\ 2^0 = 1
      BY <3>1, SumEmpty, PowerOfTwo
    <3> HIDE DEF Sum
    <3> QED
      BY <3>2
  <2>2. ASSUME NEW j \in Nat, j \in G PROVE j + 1 \in G
    <3> SUFFICES ASSUME j + 1 <= n PROVE Sum(j + 1) \in Nat /\ Sum(j + 1) < 2^(j + 1)
      OBVIOUS
    <3>1. Sum(j + 1) = Sum(j) + F[j] /\ Sum(j) \in Nat /\ Sum(j) < 2^j
      BY <1>1, <2>2
    <3>2. F[j] \in Nat /\ F[j] <= 2^j
      BY <1>0
    <3>3. 2^j \in Nat /\ 2^(j + 1) = 2 * 2^j
      BY PowerOfTwo
    <3> HIDE DEF Sum
    <3> QED
      BY <3>1, <3>2, <3>3
  <2>3. \A j \in Nat : j \in G
    <3> HIDE DEF G
    <3> QED
      BY <2>1, <2>2, NumberInduction
  <2> QED
    BY <2>3
<1>3. w \in Nat /\ w < 2^n /\ w = Sum(n)
  BY <1>2
<1> HIDE DEF Sum
\* From the top bit downwards the rest of the sum is a multiple of the weight.
<1> DEFINE Rest(j) == \E t \in Nat : w = Sum(j) + 2^j * t
           H == {i \in Nat : i <= n => Rest(n - i)}
<1>4. ASSUME NEW j \in 0 .. n - 1, Rest(j + 1) PROVE Rest(j) /\ Bit(w, j) = d[j]
  <2> DEFINE p == 2^j
  <2>1. p \in Nat /\ p >= 1 /\ 2^(j + 1) = 2 * p
    BY PowerOfTwo
  <2>2. PICK t \in Nat : w = Sum(j + 1) + 2^(j + 1) * t
    BY <1>4
  <2>3. Sum(j + 1) = Sum(j) + p * d[j] /\ d[j] \in {0, 1} /\ Sum(j) \in Nat /\ Sum(j) < p
    <3>1. Sum(j + 1) = Sum(j) + F[j] /\ F[j] = 2^j * d[j]
      BY <1>1
    <3> QED
      BY <1>2, <3>1
  <2> DEFINE a == Sum(j)
             b == d[j]
             u == b + 2 * t
             z == p * u
  <2>4. u \in Nat
    BY <2>3
  <2>5. w = a + z /\ a \in 0 .. p - 1
    <3>1. w = (a + p * b) + (2 * p) * t /\ a \in Nat /\ a < p /\ b \in {0, 1}
      BY <2>1, <2>2, <2>3
    <3> HIDE DEF p, a, b
    <3>2. p * (b + 2 * t) = p * b + (2 * p) * t
      <4>1. b = 0 \/ b = 1
        BY <3>1
      <4> QED
        BY <2>1, <4>1
    <3>3. p * b \in Int
      BY <2>1, <3>1
    <3> QED
      BY <2>1, <3>1, <3>2, <3>3
  <2>6. Rest(j)
    BY <2>4, <2>5
  <2>7. w \div p = u
    <3> HIDE DEF p, a, u, z
    <3>1. z = p * u
      BY DEF z
    <3>2. p \in Nat /\ p >= 1
      BY <2>1
    <3> QED
      BY ONLY <2>4, <2>5, <3>1, <3>2, Quotient
  <2>8. u % 2 = b
    <3> HIDE DEF b
    <3>1. b = 0 \/ b = 1
      BY <2>3 DEF b
    <3> QED
      BY <3>1
  <2>9. Bit(w, j) = (w \div p) % 2
    BY DEF Bit
  <2> HIDE DEF p, u, Rest
  <2> QED
    BY <2>6, <2>7, <2>8, <2>9
<1>5. \A j \in 0 .. n : Rest(j)
  <2>1. 0 \in H
    <3>0. n - 0 = n
      OBVIOUS
    <3> SUFFICES Rest(n)
      <4> HIDE DEF Rest
      <4> QED
        BY <3>0
    <3> DEFINE p == 2^n
    <3>1. p \in Nat
      BY PowerOfTwo
    <3> HIDE DEF p
    <3>2. w = Sum(n) + p * 0
      BY <1>3, <3>1
    <3> QED
      BY <3>2 DEF p
  <2>2. ASSUME NEW i \in Nat, i \in H PROVE i + 1 \in H
    <3> SUFFICES ASSUME i + 1 <= n PROVE Rest(n - (i + 1))
      OBVIOUS
    <3> DEFINE j == n - (i + 1)
    <3>1. j \in 0 .. n - 1 /\ j + 1 = n - i
      OBVIOUS
    <3>2. Rest(n - i)
      BY <2>2
    <3> HIDE DEF j, Rest
    <3>3. Rest(j)
      BY <1>4, <3>1, <3>2
    <3> QED
      BY <3>3 DEF j
  <2>3. \A i \in Nat : i \in H
    <3> HIDE DEF H
    <3> QED
      BY <2>1, <2>2, NumberInduction
  <2>4. \A j \in 0 .. n : n - j \in Nat /\ n - j <= n /\ n - (n - j) = j
    OBVIOUS
  <2> HIDE DEF Rest
  <2> QED
    BY <2>3, <2>4
<1>6. \A j \in 0 .. n - 1 : j + 1 \in 0 .. n
  OBVIOUS
<1> HIDE DEF Rest
<1> QED
  BY <1>3, <1>4, <1>5, <1>6 DEF HasDigits

-----------------------------------------------------------------------------
(***************************************************************************)
(* The adder: one gate.                                                    *)
(***************************************************************************)
Truth(M, l) == IF Holds(M, l) THEN 1 ELSE 0

\* How many of the first d literals of b hold.
Hits(M, b, d) == SumFunctionOnSet([i \in 1 .. d |-> Truth(M, b[i])], 1 .. d)

\* Propagation has derived what holds of the literal.
Decided(K, M, l) == (Holds(M, l) => l \in K) /\ (~Holds(M, l) => -l \in K)

\* A gate with the first d literals of b as inputs and x, x + 1 as sum and carry.
Works(b, d, x, G) ==
  \A M \in SUBSET Nat : \E N \in SUBSET Nat :
    /\ \A v \in 1 .. x - 1 : v \in N <=> v \in M
    /\ Satisfied(N, G)
    /\ Hits(M, b, d) = Truth(N, x) + 2 * Truth(N, x + 1)
    /\ \A K \in SUBSET Int :
         Closed(K, G) /\ (\A i \in 1 .. d : Decided(K, N, b[i]))
           => Decided(K, N, x) /\ Decided(K, N, x + 1)

\* The literals that hold, one more literal at a time.
LEMMA HitsFirst ==
  ASSUME NEW M, NEW b, NEW d \in Nat
  PROVE  Hits(M, b, 0) = 0 /\ Hits(M, b, d + 1) = Hits(M, b, d) + Truth(M, b[d + 1])
         /\ Hits(M, b, d) \in Nat
<1> DEFINE F(n) == [i \in 1 .. n |-> Truth(M, b[i])]
           S == 1 .. d
           e == d + 1
           f == F(d)
           h == F(e)
<1>1. 1 .. 0 = {} /\ 1 .. e = S \cup {e} /\ e \notin S
  OBVIOUS
<1>2. \A i \in S : f[i] = Truth(M, b[i]) /\ h[i] = f[i]
  OBVIOUS
<1>3. h[e] = Truth(M, b[e])
  OBVIOUS
<1>4. \A l : Truth(M, l) \in {0, 1}
  BY DEF Truth
<1>5. IsFiniteSet(S)
  <2>1. 1 \in Int /\ d \in Int
    OBVIOUS
  <2> QED
    BY ONLY <2>1, FS_Interval
<1>6. Hits(M, b, d) = SumFunctionOnSet(f, S) /\ Hits(M, b, e) = SumFunctionOnSet(h, 1 .. e)
  BY DEF Hits
<1>7. Hits(M, b, 0) = 0
  BY <1>1, SumEmpty DEF Hits
<1> HIDE DEF f, h, S
<1>8. Integral(f, S) /\ h[e] \in Int /\ \A i \in S : f[i] \in Nat
  BY <1>2, <1>3, <1>4, <1>5 DEF Integral
<1> HIDE DEF e
<1>9. SumFunctionOnSet(h, S \cup {e}) = SumFunctionOnSet(f, S) + h[e]
  BY <1>1, <1>2, <1>8, SumExtend
<1>10. SumFunctionOnSet(f, S) \in Nat
  BY <1>5, <1>8, SumNat
<1> QED
  BY <1>1, <1>3, <1>6, <1>7, <1>9, <1>10 DEF e

\* The first literals of a bucket.
LEMMA HitsOfTwoOrThree ==
  ASSUME NEW M, NEW b
  PROVE  /\ Hits(M, b, 1) = Truth(M, b[1])
         /\ Hits(M, b, 2) = Truth(M, b[1]) + Truth(M, b[2])
         /\ Hits(M, b, 3) = Truth(M, b[1]) + Truth(M, b[2]) + Truth(M, b[3])
<1>1. 0 \in Nat /\ 1 \in Nat /\ 2 \in Nat /\ 0 + 1 = 1 /\ 1 + 1 = 2 /\ 2 + 1 = 3
  OBVIOUS
<1>2. \A l : Truth(M, l) \in {0, 1}
  BY DEF Truth
<1>3. Hits(M, b, 0) = 0 /\ Hits(M, b, 0 + 1) = Hits(M, b, 0) + Truth(M, b[0 + 1])
  BY <1>1, HitsFirst
<1>4. Hits(M, b, 1 + 1) = Hits(M, b, 1) + Truth(M, b[1 + 1])
  BY <1>1, HitsFirst
<1>5. Hits(M, b, 2 + 1) = Hits(M, b, 2) + Truth(M, b[2 + 1])
  BY <1>1, HitsFirst
<1>6. Hits(M, b, 1) = Truth(M, b[1])
  BY <1>2, <1>3
<1>7. Hits(M, b, 2) = Truth(M, b[1]) + Truth(M, b[2])
  BY <1>4, <1>6
<1> QED
  BY <1>2, <1>5, <1>6, <1>7

\* An assignment below x with the variables x and x + 1 set as wanted.
WithMore(M, N, x, s, c) ==
  /\ \A v \in 1 .. x - 1 : v \in N <=> v \in M
  /\ x \in N <=> s = 1
  /\ x + 1 \in N <=> c = 1

LEMMA WithTwoMore ==
  ASSUME NEW M \in SUBSET Nat, NEW x \in Nat \ {0}, NEW s \in {0, 1}, NEW c \in {0, 1}
  PROVE  \E N \in SUBSET Nat : WithMore(M, N, x, s, c)
<1> DEFINE N == {v \in Nat : (v < x /\ v \in M) \/ (v = x /\ s = 1) \/ (v = x + 1 /\ c = 1)}
<1>1. \A v \in 1 .. x - 1 : v \in N <=> v \in M
  OBVIOUS
<1>2. (x \in N <=> s = 1) /\ (x + 1 \in N <=> c = 1)
  OBVIOUS
<1>3. N \in SUBSET Nat
  OBVIOUS
<1> HIDE DEF N
<1> QED
  BY <1>1, <1>2, <1>3 DEF WithMore

\* A clause all but one of whose literals are false is a unit.
LEMMA UnitClause ==
  ASSUME NEW K, NEW C, Closed(K, C), NEW c \in C, NEW l \in c, \A k \in c \ {l} : -k \in K
  PROVE  l \in K
BY DEF Closed


\* The full adder.
LEMMA FullAdderWorks ==
  ASSUME NEW b, NEW v \in Nat \ {0}, \A i \in 1 .. 3 : b[i] \in Below(v), NEW G,
         G = FullAdderSum(b[1], b[2], b[3], v) \cup FullAdderCarry(b[1], b[2], b[3], v + 1)
  PROVE  Works(b, 3, v, G)
<1> DEFINE x == b[1]
           y == b[2]
           z == b[3]
           s == v
           c == v + 1
<1>1. x \in Int \ {0} /\ x \in Below(v) /\ y \in Int \ {0} /\ y \in Below(v) /\ z \in Int \ {0}
      /\ z \in Below(v) /\ s \in Int \ {0} /\ c \in Int \ {0}
  BY DEF Below
<1> SUFFICES ASSUME NEW M \in SUBSET Nat
             PROVE  \E N \in SUBSET Nat :
                      /\ \A u \in 1 .. v - 1 : u \in N <=> u \in M
                      /\ Satisfied(N, G)
                      /\ Hits(M, b, 3) = Truth(N, v) + 2 * Truth(N, v + 1)
                      /\ \A K \in SUBSET Int :
                           Closed(K, G) /\ (\A i \in 1 .. 3 : Decided(K, N, b[i]))
                             => Decided(K, N, v) /\ Decided(K, N, v + 1)
  BY DEF Works
<1>2. PICK ts \in {0, 1}, tc \in {0, 1} : ts + 2 * tc = Truth(M, x) + Truth(M, y) + Truth(M, z)
  <2>1. Truth(M, x) \in {0, 1} /\ Truth(M, y) \in {0, 1} /\ Truth(M, z) \in {0, 1}
    BY DEF Truth
  <2>2. \E ts \in {0, 1}, tc \in {0, 1} : ts + 2 * tc = Truth(M, x) + Truth(M, y) + Truth(M, z)
    <3> DEFINE n == Truth(M, x) + Truth(M, y) + Truth(M, z)
    <3>1. n \in 0 .. 3
      BY <2>1
    <3> HIDE DEF n
    <3>2. n = 0 + 2 * 0 \/ n = 1 + 2 * 0 \/ n = 0 + 2 * 1 \/ n = 1 + 2 * 1
      BY <3>1
    <3> QED
      BY <3>2 DEF n
  <2> QED
    BY <2>2
<1>0. PICK N \in SUBSET Nat : WithMore(M, N, v, ts, tc)
  BY WithTwoMore
<1>3. /\ \A u \in 1 .. v - 1 : u \in N <=> u \in M
      /\ v \in N <=> ts = 1
      /\ v + 1 \in N <=> tc = 1
  BY <1>0 DEF WithMore
<1>4. (Holds(N, x) <=> Holds(M, x)) /\ (Holds(N, y) <=> Holds(M, y))
      /\ (Holds(N, z) <=> Holds(M, z))
  <2>1. \A l \in Below(v) : Holds(N, l) <=> Holds(M, l)
    BY <1>3, SameBelow
  <2> QED
    BY <1>1, <2>1
<1>5. Truth(N, s) = ts /\ Truth(N, c) = tc
  BY <1>3 DEF Truth, Holds
<1>6. \A l : Truth(N, l) \in {0, 1} /\ (Holds(N, l) <=> Truth(N, l) = 1)
  BY DEF Truth
<1>7. Truth(N, s) + 2 * Truth(N, c) = Truth(N, x) + Truth(N, y) + Truth(N, z)
  BY <1>2, <1>4, <1>5 DEF Truth
<1>8. \A l \in Int \ {0} : Holds(N, -l) <=> Truth(N, l) = 0
  BY <1>6, HoldsNeg
<1>9. Hits(M, b, 3) = Truth(N, s) + 2 * Truth(N, c)
  BY <1>2, <1>5, HitsOfTwoOrThree
<1> HIDE DEF s, c
<1>10. G = {{-x, -y, -z, s},
            {-x, y, z, s},
            {x, -y, z, s},
            {x, y, -z, s},
            {x, y, z, -s},
            {x, -y, -z, -s},
            {-x, y, -z, -s},
            {-x, -y, z, -s}}
            \cup {{-y, -z, c},
            {-x, -z, c},
            {-x, -y, c},
            {y, z, -c},
            {x, z, -c},
            {x, y, -c}}
  BY DEF FullAdderSum, FullAdderCarry, s, c
<1> HIDE DEF x, y, z
<1>11. /\ Holds(N, -x) \/ Holds(N, -y) \/ Holds(N, -z) \/ Holds(N, s)
       /\ Holds(N, -x) \/ Holds(N, y) \/ Holds(N, z) \/ Holds(N, s)
       /\ Holds(N, x) \/ Holds(N, -y) \/ Holds(N, z) \/ Holds(N, s)
       /\ Holds(N, x) \/ Holds(N, y) \/ Holds(N, -z) \/ Holds(N, s)
       /\ Holds(N, x) \/ Holds(N, y) \/ Holds(N, z) \/ Holds(N, -s)
       /\ Holds(N, x) \/ Holds(N, -y) \/ Holds(N, -z) \/ Holds(N, -s)
       /\ Holds(N, -x) \/ Holds(N, y) \/ Holds(N, -z) \/ Holds(N, -s)
       /\ Holds(N, -x) \/ Holds(N, -y) \/ Holds(N, z) \/ Holds(N, -s)
       /\ Holds(N, -y) \/ Holds(N, -z) \/ Holds(N, c)
       /\ Holds(N, -x) \/ Holds(N, -z) \/ Holds(N, c)
       /\ Holds(N, -x) \/ Holds(N, -y) \/ Holds(N, c)
       /\ Holds(N, y) \/ Holds(N, z) \/ Holds(N, -c)
       /\ Holds(N, x) \/ Holds(N, z) \/ Holds(N, -c)
       /\ Holds(N, x) \/ Holds(N, y) \/ Holds(N, -c)
  BY <1>1, <1>6, <1>7, <1>8
<1>12. Satisfied(N, G)
  <2> SUFFICES ASSUME NEW k \in G PROVE \E l \in k : Holds(N, l)
    BY DEF Satisfied, SatisfiesClause
  <2>1. CASE k = {-x, -y, -z, s}
    BY <1>11, <2>1
  <2>2. CASE k = {-x, y, z, s}
    BY <1>11, <2>2
  <2>3. CASE k = {x, -y, z, s}
    BY <1>11, <2>3
  <2>4. CASE k = {x, y, -z, s}
    BY <1>11, <2>4
  <2>5. CASE k = {x, y, z, -s}
    BY <1>11, <2>5
  <2>6. CASE k = {x, -y, -z, -s}
    BY <1>11, <2>6
  <2>7. CASE k = {-x, y, -z, -s}
    BY <1>11, <2>7
  <2>8. CASE k = {-x, -y, z, -s}
    BY <1>11, <2>8
  <2>9. CASE k = {-y, -z, c}
    BY <1>11, <2>9
  <2>10. CASE k = {-x, -z, c}
    BY <1>11, <2>10
  <2>11. CASE k = {-x, -y, c}
    BY <1>11, <2>11
  <2>12. CASE k = {y, z, -c}
    BY <1>11, <2>12
  <2>13. CASE k = {x, z, -c}
    BY <1>11, <2>13
  <2>14. CASE k = {x, y, -c}
    BY <1>11, <2>14
  <2> QED
    BY <1>10, <2>1, <2>2, <2>3, <2>4, <2>5, <2>6, <2>7, <2>8, <2>9, <2>10, <2>11, <2>12, <2>13,
       <2>14
<1>13. ASSUME NEW K \in SUBSET Int, Closed(K, G), Decided(K, N, x), Decided(K, N, y),
              Decided(K, N, z)
       PROVE  Decided(K, N, s) /\ Decided(K, N, c)
  <2>2. x \in K /\ y \in K /\ z \in K => s \in K
    <3> SUFFICES ASSUME x \in K, y \in K, z \in K PROVE s \in K
      OBVIOUS
    <3> DEFINE k == {-x, -y, -z, s}
    <3>1. k \in G /\ s \in k
      BY <1>10
    <3>2. \A l \in k \ {s} : -l \in K
      BY <1>1
    <3> HIDE DEF k
    <3> QED
      BY <1>13, <3>1, <3>2, UnitClause
  <2>3. x \in K /\ -y \in K /\ -z \in K => s \in K
    <3> SUFFICES ASSUME x \in K, -y \in K, -z \in K PROVE s \in K
      OBVIOUS
    <3> DEFINE k == {-x, y, z, s}
    <3>1. k \in G /\ s \in k
      BY <1>10
    <3>2. \A l \in k \ {s} : -l \in K
      BY <1>1
    <3> HIDE DEF k
    <3> QED
      BY <1>13, <3>1, <3>2, UnitClause
  <2>4. -x \in K /\ y \in K /\ -z \in K => s \in K
    <3> SUFFICES ASSUME -x \in K, y \in K, -z \in K PROVE s \in K
      OBVIOUS
    <3> DEFINE k == {x, -y, z, s}
    <3>1. k \in G /\ s \in k
      BY <1>10
    <3>2. \A l \in k \ {s} : -l \in K
      BY <1>1
    <3> HIDE DEF k
    <3> QED
      BY <1>13, <3>1, <3>2, UnitClause
  <2>5. -x \in K /\ -y \in K /\ z \in K => s \in K
    <3> SUFFICES ASSUME -x \in K, -y \in K, z \in K PROVE s \in K
      OBVIOUS
    <3> DEFINE k == {x, y, -z, s}
    <3>1. k \in G /\ s \in k
      BY <1>10
    <3>2. \A l \in k \ {s} : -l \in K
      BY <1>1
    <3> HIDE DEF k
    <3> QED
      BY <1>13, <3>1, <3>2, UnitClause
  <2>6. -x \in K /\ -y \in K /\ -z \in K => -s \in K
    <3> SUFFICES ASSUME -x \in K, -y \in K, -z \in K PROVE -s \in K
      OBVIOUS
    <3> DEFINE k == {x, y, z, -s}
    <3>1. k \in G /\ -s \in k
      BY <1>10
    <3>2. \A l \in k \ {-s} : -l \in K
      BY <1>1
    <3> HIDE DEF k
    <3> QED
      BY <1>13, <3>1, <3>2, UnitClause
  <2>7. -x \in K /\ y \in K /\ z \in K => -s \in K
    <3> SUFFICES ASSUME -x \in K, y \in K, z \in K PROVE -s \in K
      OBVIOUS
    <3> DEFINE k == {x, -y, -z, -s}
    <3>1. k \in G /\ -s \in k
      BY <1>10
    <3>2. \A l \in k \ {-s} : -l \in K
      BY <1>1
    <3> HIDE DEF k
    <3> QED
      BY <1>13, <3>1, <3>2, UnitClause
  <2>8. x \in K /\ -y \in K /\ z \in K => -s \in K
    <3> SUFFICES ASSUME x \in K, -y \in K, z \in K PROVE -s \in K
      OBVIOUS
    <3> DEFINE k == {-x, y, -z, -s}
    <3>1. k \in G /\ -s \in k
      BY <1>10
    <3>2. \A l \in k \ {-s} : -l \in K
      BY <1>1
    <3> HIDE DEF k
    <3> QED
      BY <1>13, <3>1, <3>2, UnitClause
  <2>9. x \in K /\ y \in K /\ -z \in K => -s \in K
    <3> SUFFICES ASSUME x \in K, y \in K, -z \in K PROVE -s \in K
      OBVIOUS
    <3> DEFINE k == {-x, -y, z, -s}
    <3>1. k \in G /\ -s \in k
      BY <1>10
    <3>2. \A l \in k \ {-s} : -l \in K
      BY <1>1
    <3> HIDE DEF k
    <3> QED
      BY <1>13, <3>1, <3>2, UnitClause
  <2>10. y \in K /\ z \in K => c \in K
    <3> SUFFICES ASSUME y \in K, z \in K PROVE c \in K
      OBVIOUS
    <3> DEFINE k == {-y, -z, c}
    <3>1. k \in G /\ c \in k
      BY <1>10
    <3>2. \A l \in k \ {c} : -l \in K
      BY <1>1
    <3> HIDE DEF k
    <3> QED
      BY <1>13, <3>1, <3>2, UnitClause
  <2>11. x \in K /\ z \in K => c \in K
    <3> SUFFICES ASSUME x \in K, z \in K PROVE c \in K
      OBVIOUS
    <3> DEFINE k == {-x, -z, c}
    <3>1. k \in G /\ c \in k
      BY <1>10
    <3>2. \A l \in k \ {c} : -l \in K
      BY <1>1
    <3> HIDE DEF k
    <3> QED
      BY <1>13, <3>1, <3>2, UnitClause
  <2>12. x \in K /\ y \in K => c \in K
    <3> SUFFICES ASSUME x \in K, y \in K PROVE c \in K
      OBVIOUS
    <3> DEFINE k == {-x, -y, c}
    <3>1. k \in G /\ c \in k
      BY <1>10
    <3>2. \A l \in k \ {c} : -l \in K
      BY <1>1
    <3> HIDE DEF k
    <3> QED
      BY <1>13, <3>1, <3>2, UnitClause
  <2>13. -y \in K /\ -z \in K => -c \in K
    <3> SUFFICES ASSUME -y \in K, -z \in K PROVE -c \in K
      OBVIOUS
    <3> DEFINE k == {y, z, -c}
    <3>1. k \in G /\ -c \in k
      BY <1>10
    <3>2. \A l \in k \ {-c} : -l \in K
      BY <1>1
    <3> HIDE DEF k
    <3> QED
      BY <1>13, <3>1, <3>2, UnitClause
  <2>14. -x \in K /\ -z \in K => -c \in K
    <3> SUFFICES ASSUME -x \in K, -z \in K PROVE -c \in K
      OBVIOUS
    <3> DEFINE k == {x, z, -c}
    <3>1. k \in G /\ -c \in k
      BY <1>10
    <3>2. \A l \in k \ {-c} : -l \in K
      BY <1>1
    <3> HIDE DEF k
    <3> QED
      BY <1>13, <3>1, <3>2, UnitClause
  <2>15. -x \in K /\ -y \in K => -c \in K
    <3> SUFFICES ASSUME -x \in K, -y \in K PROVE -c \in K
      OBVIOUS
    <3> DEFINE k == {x, y, -c}
    <3>1. k \in G /\ -c \in k
      BY <1>10
    <3>2. \A l \in k \ {-c} : -l \in K
      BY <1>1
    <3> HIDE DEF k
    <3> QED
      BY <1>13, <3>1, <3>2, UnitClause
  <2>16. (Truth(N, x) = 1 => x \in K) /\ (Truth(N, x) = 0 => -x \in K)
         /\ (Truth(N, y) = 1 => y \in K) /\ (Truth(N, y) = 0 => -y \in K)
         /\ (Truth(N, z) = 1 => z \in K) /\ (Truth(N, z) = 0 => -z \in K)
    BY <1>6, <1>13 DEF Decided
  <2>17. (Truth(N, s) = 1 => s \in K) /\ (Truth(N, s) = 0 => -s \in K)
    BY <1>6, <1>7, <2>2, <2>3, <2>4, <2>5, <2>6, <2>7, <2>8, <2>9, <2>16
  <2>18. (Truth(N, c) = 1 => c \in K) /\ (Truth(N, c) = 0 => -c \in K)
    BY <1>6, <1>7, <2>10, <2>11, <2>12, <2>13, <2>14, <2>15, <2>16
  <2> QED
    BY <1>6, <2>17, <2>18 DEF Decided
<1>14. \A K \in SUBSET Int : Closed(K, G) /\ (\A i \in 1 .. 3 : Decided(K, N, b[i]))
                            => Decided(K, N, v) /\ Decided(K, N, v + 1)
  <2> SUFFICES ASSUME NEW K \in SUBSET Int, Closed(K, G), \A i \in 1 .. 3 : Decided(K, N, b[i])
               PROVE  Decided(K, N, v) /\ Decided(K, N, v + 1)
    OBVIOUS
  <2>1. Decided(K, N, x) /\ Decided(K, N, y) /\ Decided(K, N, z)
    BY DEF x, y, z
  <2> QED
    BY <1>13, <2>1 DEF s, c
<1> QED
  BY <1>3, <1>9, <1>12, <1>14 DEF s, c

\* The half adder.
LEMMA HalfAdderWorks ==
  ASSUME NEW b, NEW v \in Nat \ {0}, \A i \in 1 .. 2 : b[i] \in Below(v), NEW G,
         G = HalfAdderSum(b[1], b[2], v) \cup HalfAdderCarry(b[1], b[2], v + 1)
  PROVE  Works(b, 2, v, G)
<1> DEFINE x == b[1]
           y == b[2]
           s == v
           c == v + 1
<1>1. x \in Int \ {0} /\ x \in Below(v) /\ y \in Int \ {0} /\ y \in Below(v) /\ s \in Int \ {0}
      /\ c \in Int \ {0}
  BY DEF Below
<1> SUFFICES ASSUME NEW M \in SUBSET Nat
             PROVE  \E N \in SUBSET Nat :
                      /\ \A u \in 1 .. v - 1 : u \in N <=> u \in M
                      /\ Satisfied(N, G)
                      /\ Hits(M, b, 2) = Truth(N, v) + 2 * Truth(N, v + 1)
                      /\ \A K \in SUBSET Int :
                           Closed(K, G) /\ (\A i \in 1 .. 2 : Decided(K, N, b[i]))
                             => Decided(K, N, v) /\ Decided(K, N, v + 1)
  BY DEF Works
<1>2. PICK ts \in {0, 1}, tc \in {0, 1} : ts + 2 * tc = Truth(M, x) + Truth(M, y)
  <2>1. Truth(M, x) \in {0, 1} /\ Truth(M, y) \in {0, 1}
    BY DEF Truth
  <2>2. \E ts \in {0, 1}, tc \in {0, 1} : ts + 2 * tc = Truth(M, x) + Truth(M, y)
    <3> DEFINE n == Truth(M, x) + Truth(M, y)
    <3>1. n \in 0 .. 2
      BY <2>1
    <3> HIDE DEF n
    <3>2. n = 0 + 2 * 0 \/ n = 1 + 2 * 0 \/ n = 0 + 2 * 1 \/ n = 1 + 2 * 1
      BY <3>1
    <3> QED
      BY <3>2 DEF n
  <2> QED
    BY <2>2
<1>0. PICK N \in SUBSET Nat : WithMore(M, N, v, ts, tc)
  BY WithTwoMore
<1>3. /\ \A u \in 1 .. v - 1 : u \in N <=> u \in M
      /\ v \in N <=> ts = 1
      /\ v + 1 \in N <=> tc = 1
  BY <1>0 DEF WithMore
<1>4. (Holds(N, x) <=> Holds(M, x)) /\ (Holds(N, y) <=> Holds(M, y))
  <2>1. \A l \in Below(v) : Holds(N, l) <=> Holds(M, l)
    BY <1>3, SameBelow
  <2> QED
    BY <1>1, <2>1
<1>5. Truth(N, s) = ts /\ Truth(N, c) = tc
  BY <1>3 DEF Truth, Holds
<1>6. \A l : Truth(N, l) \in {0, 1} /\ (Holds(N, l) <=> Truth(N, l) = 1)
  BY DEF Truth
<1>7. Truth(N, s) + 2 * Truth(N, c) = Truth(N, x) + Truth(N, y)
  BY <1>2, <1>4, <1>5 DEF Truth
<1>8. \A l \in Int \ {0} : Holds(N, -l) <=> Truth(N, l) = 0
  BY <1>6, HoldsNeg
<1>9. Hits(M, b, 2) = Truth(N, s) + 2 * Truth(N, c)
  BY <1>2, <1>5, HitsOfTwoOrThree
<1> HIDE DEF s, c
<1>10. G = {{-x, y, s},
            {x, -y, s},
            {-x, -y, -s},
            {x, y, -s}}
            \cup {{x, -c},
            {y, -c},
            {-x, -y, c}}
  BY DEF HalfAdderSum, HalfAdderCarry, s, c
<1> HIDE DEF x, y
<1>11. /\ Holds(N, -x) \/ Holds(N, y) \/ Holds(N, s)
       /\ Holds(N, x) \/ Holds(N, -y) \/ Holds(N, s)
       /\ Holds(N, -x) \/ Holds(N, -y) \/ Holds(N, -s)
       /\ Holds(N, x) \/ Holds(N, y) \/ Holds(N, -s)
       /\ Holds(N, x) \/ Holds(N, -c)
       /\ Holds(N, y) \/ Holds(N, -c)
       /\ Holds(N, -x) \/ Holds(N, -y) \/ Holds(N, c)
  BY <1>1, <1>6, <1>7, <1>8
<1>12. Satisfied(N, G)
  <2> SUFFICES ASSUME NEW k \in G PROVE \E l \in k : Holds(N, l)
    BY DEF Satisfied, SatisfiesClause
  <2>1. CASE k = {-x, y, s}
    BY <1>11, <2>1
  <2>2. CASE k = {x, -y, s}
    BY <1>11, <2>2
  <2>3. CASE k = {-x, -y, -s}
    BY <1>11, <2>3
  <2>4. CASE k = {x, y, -s}
    BY <1>11, <2>4
  <2>5. CASE k = {x, -c}
    BY <1>11, <2>5
  <2>6. CASE k = {y, -c}
    BY <1>11, <2>6
  <2>7. CASE k = {-x, -y, c}
    BY <1>11, <2>7
  <2> QED
    BY <1>10, <2>1, <2>2, <2>3, <2>4, <2>5, <2>6, <2>7
<1>13. ASSUME NEW K \in SUBSET Int, Closed(K, G), Decided(K, N, x), Decided(K, N, y)
       PROVE  Decided(K, N, s) /\ Decided(K, N, c)
  <2>2. x \in K /\ -y \in K => s \in K
    <3> SUFFICES ASSUME x \in K, -y \in K PROVE s \in K
      OBVIOUS
    <3> DEFINE k == {-x, y, s}
    <3>1. k \in G /\ s \in k
      BY <1>10
    <3>2. \A l \in k \ {s} : -l \in K
      BY <1>1
    <3> HIDE DEF k
    <3> QED
      BY <1>13, <3>1, <3>2, UnitClause
  <2>3. -x \in K /\ y \in K => s \in K
    <3> SUFFICES ASSUME -x \in K, y \in K PROVE s \in K
      OBVIOUS
    <3> DEFINE k == {x, -y, s}
    <3>1. k \in G /\ s \in k
      BY <1>10
    <3>2. \A l \in k \ {s} : -l \in K
      BY <1>1
    <3> HIDE DEF k
    <3> QED
      BY <1>13, <3>1, <3>2, UnitClause
  <2>4. x \in K /\ y \in K => -s \in K
    <3> SUFFICES ASSUME x \in K, y \in K PROVE -s \in K
      OBVIOUS
    <3> DEFINE k == {-x, -y, -s}
    <3>1. k \in G /\ -s \in k
      BY <1>10
    <3>2. \A l \in k \ {-s} : -l \in K
      BY <1>1
    <3> HIDE DEF k
    <3> QED
      BY <1>13, <3>1, <3>2, UnitClause
  <2>5. -x \in K /\ -y \in K => -s \in K
    <3> SUFFICES ASSUME -x \in K, -y \in K PROVE -s \in K
      OBVIOUS
    <3> DEFINE k == {x, y, -s}
    <3>1. k \in G /\ -s \in k
      BY <1>10
    <3>2. \A l \in k \ {-s} : -l \in K
      BY <1>1
    <3> HIDE DEF k
    <3> QED
      BY <1>13, <3>1, <3>2, UnitClause
  <2>6. -x \in K => -c \in K
    <3> SUFFICES ASSUME -x \in K PROVE -c \in K
      OBVIOUS
    <3> DEFINE k == {x, -c}
    <3>1. k \in G /\ -c \in k
      BY <1>10
    <3>2. \A l \in k \ {-c} : -l \in K
      BY <1>1
    <3> HIDE DEF k
    <3> QED
      BY <1>13, <3>1, <3>2, UnitClause
  <2>7. -y \in K => -c \in K
    <3> SUFFICES ASSUME -y \in K PROVE -c \in K
      OBVIOUS
    <3> DEFINE k == {y, -c}
    <3>1. k \in G /\ -c \in k
      BY <1>10
    <3>2. \A l \in k \ {-c} : -l \in K
      BY <1>1
    <3> HIDE DEF k
    <3> QED
      BY <1>13, <3>1, <3>2, UnitClause
  <2>8. x \in K /\ y \in K => c \in K
    <3> SUFFICES ASSUME x \in K, y \in K PROVE c \in K
      OBVIOUS
    <3> DEFINE k == {-x, -y, c}
    <3>1. k \in G /\ c \in k
      BY <1>10
    <3>2. \A l \in k \ {c} : -l \in K
      BY <1>1
    <3> HIDE DEF k
    <3> QED
      BY <1>13, <3>1, <3>2, UnitClause
  <2>9. (Truth(N, x) = 1 => x \in K) /\ (Truth(N, x) = 0 => -x \in K)
        /\ (Truth(N, y) = 1 => y \in K) /\ (Truth(N, y) = 0 => -y \in K)
    BY <1>6, <1>13 DEF Decided
  <2>10. (Truth(N, s) = 1 => s \in K) /\ (Truth(N, s) = 0 => -s \in K)
    BY <1>6, <1>7, <2>2, <2>3, <2>4, <2>5, <2>9
  <2>11. (Truth(N, c) = 1 => c \in K) /\ (Truth(N, c) = 0 => -c \in K)
    BY <1>6, <1>7, <2>6, <2>7, <2>8, <2>9
  <2> QED
    BY <1>6, <2>10, <2>11 DEF Decided
<1>14. \A K \in SUBSET Int : Closed(K, G) /\ (\A i \in 1 .. 2 : Decided(K, N, b[i]))
                            => Decided(K, N, v) /\ Decided(K, N, v + 1)
  <2> SUFFICES ASSUME NEW K \in SUBSET Int, Closed(K, G), \A i \in 1 .. 2 : Decided(K, N, b[i])
               PROVE  Decided(K, N, v) /\ Decided(K, N, v + 1)
    OBVIOUS
  <2>1. Decided(K, N, x) /\ Decided(K, N, y)
    BY DEF x, y
  <2> QED
    BY <1>13, <2>1 DEF s, c
<1> QED
  BY <1>3, <1>9, <1>12, <1>14 DEF s, c

\* What a gate takes from the front of a bucket and puts at its back.
LEMMA HitsStep ==
  ASSUME NEW M, NEW b, NEW d, NEW l, NEW r, Pushes(Int, b, d, l, r)
  PROVE  Hits(M, r, Len(r)) + Hits(M, b, d) = Hits(M, b, Len(b)) + Truth(M, l)
<1>0. b \in Seq(Int) /\ d \in 0 .. Len(b) /\ l \in Int
      /\ r = Append(SubSeq(b, d + 1, Len(b)), l)
  BY DEF Pushes
<1> USE <1>0
<1> DEFINE n == Len(b)
           F == [i \in 1 .. n |-> Truth(M, b[i])]
           H == [i \in 1 .. Len(r) |-> Truth(M, r[i])]
           D == [i \in 1 .. d |-> Truth(M, b[i])]
<1>1. \A z : Truth(M, z) \in Nat
  BY DEF Truth
<1>2. n \in Nat
  OBVIOUS
<1>3. /\ Len(r) = n - d + 1 /\ \A i \in 1 .. n - d : r[i] = b[i + d]
      /\ r[n - d + 1] = l
  <2>1. Pushed(b, d, l, r)
    BY QueueStep
  <2> QED
    BY <2>1 DEF Pushed
<1>4. \A i \in 1 .. n : F[i] = Truth(M, b[i])
  OBVIOUS
<1>5. \A i \in 1 .. n - d + 1 : H[i] = Truth(M, r[i])
  BY <1>3
<1>6. n - d + 1 \in 1 .. n - d + 1 /\ \A i \in 1 .. n - d : i \in 1 .. n - d + 1 /\ i + d \in 1 .. n
  BY <1>2
<1>7. /\ \A i \in 1 .. n - d : H[i] = F[i + d]
      /\ H[n - d + 1] = Truth(M, l) /\ H[n - d + 1] \in Nat
      /\ \A i \in 1 .. n : F[i] \in Nat
  <2> HIDE DEF F, H, n
  <2>1. \A i \in 1 .. n : F[i] \in Nat
    BY <1>1, <1>4
  <2>2. H[n - d + 1] = Truth(M, l) /\ H[n - d + 1] \in Nat
    BY <1>1, <1>3, <1>5, <1>6
  <2>3. ASSUME NEW i \in 1 .. n - d PROVE H[i] = F[i + d]
    <3>1. H[i] = Truth(M, r[i]) /\ r[i] = b[i + d]
      BY <1>3, <1>5, <1>6
    <3>2. F[i + d] = Truth(M, b[i + d])
      BY <1>4, <1>6
    <3> QED
      BY <3>1, <3>2
  <2> QED
    BY <2>1, <2>2, <2>3
<1>8. SumFunctionOnSet(D, 1 .. d) = SumFunctionOnSet(F, 1 .. d)
  <2>1. \A i \in 1 .. d : D[i] = F[i] /\ F[i] \in Int
    <3>1. \A i \in 1 .. d : i \in 1 .. n
      BY <1>2
    <3> QED
      BY <1>1, <3>1
  <2>2. IsFiniteSet(1 .. d)
    <3>1. 1 \in Int /\ d \in Int
      OBVIOUS
    <3> QED
      BY ONLY <3>1, FS_Interval
  <2> DEFINE S == 1 .. d
  <2>3. Integral(F, S) /\ \A i \in S : D[i] = F[i]
    BY <2>1, <2>2 DEF Integral
  <2> HIDE DEF S, D, F
  <2>4. SumFunctionOnSet(D, S) = SumFunctionOnSet(F, S)
    BY <2>3, SumSame
  <2> QED
    BY <2>4 DEF S
<1>9. /\ Hits(M, r, Len(r)) = SumFunctionOnSet(H, 1 .. Len(r))
      /\ Hits(M, b, d) = SumFunctionOnSet(D, 1 .. d)
      /\ Hits(M, b, n) = SumFunctionOnSet(F, 1 .. n)
  BY DEF Hits
<1> HIDE DEF F, H, D, n
<1>10. SumFunctionOnSet(H, 1 .. n - d + 1) + SumFunctionOnSet(F, 1 .. d)
         = SumFunctionOnSet(F, 1 .. n) + H[n - d + 1]
  <2>1. d \in 0 .. n
    BY DEF n
  <2> QED
    <3>1. Moves(n, d, F, H)
      BY <1>2, <1>7, <2>1 DEF Moves
    <3>2. Moved(n, d, F, H)
      BY <3>1, QueueSum
    <3> QED
      BY <3>2 DEF Moved
<1> QED
  BY <1>3, <1>7, <1>8, <1>9, <1>10 DEF n

\* The literals of a bucket hold as often in assignments that agree on them.
LEMMA HitsSame ==
  ASSUME NEW M, NEW N, NEW b, NEW a, NEW d \in Nat,
         \A i \in 1 .. d : Holds(N, a[i]) <=> Holds(M, b[i])
  PROVE  Hits(N, a, d) = Hits(M, b, d)
<1>1. \A i \in 1 .. d : Truth(N, a[i]) = Truth(M, b[i])
  BY DEF Truth
<1>2. [i \in 1 .. d |-> Truth(N, a[i])] = [i \in 1 .. d |-> Truth(M, b[i])]
  BY <1>1
<1> QED
  BY <1>2 DEF Hits

\* A literal more at the back.
LEMMA HitsAppend ==
  ASSUME NEW M, NEW b \in Seq(Int), NEW l \in Int, NEW r, r = Append(b, l)
  PROVE  Hits(M, r, Len(r)) = Hits(M, b, Len(b)) + Truth(M, l)
<1> DEFINE n == Len(b)
<1>1. n \in Nat /\ Len(r) = n + 1 /\ r[n + 1] = l /\ \A i \in 1 .. n : r[i] = b[i]
  OBVIOUS
<1> HIDE DEF n
<1>2. Hits(M, r, n + 1) = Hits(M, r, n) + Truth(M, r[n + 1])
  BY <1>1, HitsFirst
<1>3. Hits(M, r, n) = Hits(M, b, n)
  <2>1. \A i \in 1 .. n : Holds(M, r[i]) <=> Holds(M, b[i])
    BY <1>1
  <2>2. n \in Nat
    BY <1>1
  <2> QED
    BY ONLY <2>1, <2>2, HitsSame
<1> QED
  BY <1>1, <1>2, <1>3 DEF n

-----------------------------------------------------------------------------
(***************************************************************************)
(* The adder: the invariant of its construction.                           *)
(***************************************************************************)
AdderRecord(e, bk, t, x, C, o) ==
  e = [buckets |-> bk, bit |-> t, next |-> x, clauses |-> C, output |-> o]

Buckets(bk, x) ==
  /\ bk \in [0 .. kNumBitsInWeight -> Seq(Int)]
  /\ \A j \in 0 .. kNumBitsInWeight : \A i \in 1 .. Len(bk[j]) : bk[j][i] \in Below(x)

Outputs(o, t, x) ==
  /\ o \in Seq(Int \X Nat)
  /\ \A i \in 1 .. Len(o) : o[i][1] \in Below(x) /\ o[i][2] \in 0 .. t - 1
  /\ \A i, j \in 1 .. Len(o) : i < j => o[i][2] < o[j][2]

AdderShape(first, bk, t, x, C, o) ==
  /\ x \in Nat \ {0} /\ first <= x /\ t \in 0 .. kNumBitsInWeight
  /\ Buckets(bk, x) /\ Outputs(o, t, x) /\ ClausesBelow(C, x)
  /\ \A j \in 0 .. t - 1 : Len(bk[j]) = 0

Load(bk, M) ==
  SumFunctionOnSet([j \in 0 .. kNumBitsInWeight |-> 2^j * Hits(M, bk[j], Len(bk[j]))],
                   0 .. kNumBitsInWeight)

Paid(o, M) ==
  SumFunctionOnSet([i \in 1 .. Len(o) |-> IF Holds(M, o[i][1]) THEN 2^o[i][2] ELSE 0],
                   1 .. Len(o))

BucketsDecided(bk, K, M) ==
  \A j \in 0 .. kNumBitsInWeight : \A i \in 1 .. Len(bk[j]) : Decided(K, M, bk[j][i])

OutputsDecided(o, K, M) == \A i \in 1 .. Len(o) : Decided(K, M, o[i][1])

AllDecided(bk, C, o, g, M) ==
  \A K \in SUBSET Int : (g \subseteq K /\ Closed(K, C)) =>
                          BucketsDecided(bk, K, M) /\ OutputsDecided(o, K, M)

AddCarries(bk, C, o, g, c) ==
  \E M \in SUBSET Nat : /\ g \subseteq TrueIn(M) /\ Satisfied(M, C)
                        /\ AllDecided(bk, C, o, g, M)
                        /\ Load(bk, M) + Paid(o, M) = c

\* The buckets after a gate on the first d literals of bucket t.
Gated(bk, t, d, x, bk2) ==
  bk2 = [bk EXCEPT ![t] = Append(SubSeq(bk[t], d + 1, Len(bk[t])), x),
                   ![t + 1] = Append(bk[t + 1], x + 1)]

Gating(first, bk, t, x, C, o, d, G, bk2) ==
  /\ AdderShape(first, bk, t, x, C, o) /\ kNumBitsInWeight \in Nat /\ t < kNumBitsInWeight
  /\ d \in 1 .. Len(bk[t]) /\ Gated(bk, t, d, x, bk2)

\* What that leaves in the buckets.
GateMade(bk, t, x, d, bk2) ==
  /\ t \in 0 .. kNumBitsInWeight /\ t + 1 \in 0 .. kNumBitsInWeight
  /\ x \in Nat \ {0} /\ kNumBitsInWeight \in Nat /\ t \in Nat
  /\ bk[t] \in Seq(Int) /\ bk[t + 1] \in Seq(Int) /\ d \in 1 .. Len(bk[t])
  /\ bk2 \in [0 .. kNumBitsInWeight -> Seq(Int)]
  /\ bk2[t] = Append(SubSeq(bk[t], d + 1, Len(bk[t])), x)
  /\ bk2[t + 1] = Append(bk[t + 1], x + 1)
  /\ \A j \in 0 .. kNumBitsInWeight : j # t /\ j # t + 1 => bk2[j] = bk[j]
  /\ \A j \in 0 .. kNumBitsInWeight : bk[j] \in Seq(Int)

\* The buckets a gate leaves.
LEMMA GatedFacts ==
  ASSUME NEW first, NEW bk, NEW t, NEW x, NEW C, NEW o, NEW d, NEW G, NEW bk2,
         Gating(first, bk, t, x, C, o, d, G, bk2)
  PROVE  GateMade(bk, t, x, d, bk2)
<1> DEFINE k == kNumBitsInWeight
           r == Append(SubSeq(bk[t], d + 1, Len(bk[t])), x)
           q == Append(bk[t + 1], x + 1)
<1>1. /\ bk \in [0 .. k -> Seq(Int)] /\ k \in Nat /\ t < k /\ t \in 0 .. k /\ x \in Nat \ {0}
      /\ d \in 1 .. Len(bk[t]) /\ Gated(bk, t, d, x, bk2)
  BY DEF Gating, AdderShape, Buckets
<1>2. t \in Nat /\ t + 1 \in 0 .. k /\ t # t + 1
  BY <1>1
<1>3. bk[t] \in Seq(Int) /\ bk[t + 1] \in Seq(Int)
  BY <1>1, <1>2
<1>4. r \in Seq(Int)
  <2> DEFINE S == Int
             b == bk[t]
  <2>1. b \in Seq(S) /\ x \in S /\ d \in 0 .. Len(b) /\ r = Append(SubSeq(b, d + 1, Len(b)), x)
    BY <1>1, <1>3
  <2> HIDE DEF S, b, r
  <2>2. r \in Seq(S)
    <3>1. Pushes(S, b, d, x, r)
      BY <2>1 DEF Pushes
    <3> QED
      BY <3>1, QueueStep
  <2> QED
    BY <2>2 DEF S
<1>5. q \in Seq(Int)
  BY <1>1, <1>3
<1>6. bk2 = [bk EXCEPT ![t] = r, ![t + 1] = q]
  BY <1>1, <1>2 DEF Gated
<1> HIDE DEF r, q
<1>7. /\ bk2 \in [0 .. k -> Seq(Int)] /\ bk2[t] = r /\ bk2[t + 1] = q
      /\ \A j \in 0 .. k : j # t /\ j # t + 1 => bk2[j] = bk[j]
  BY <1>1, <1>2, <1>4, <1>5, <1>6
<1>8. \A j \in 0 .. k : bk[j] \in Seq(Int)
  BY <1>1
<1> QED
  BY <1>1, <1>2, <1>3, <1>7, <1>8 DEF r, q, GateMade

\* A gate leaves an adder.
LEMMA GateShape ==
  ASSUME NEW first \in Nat, NEW bk, NEW t, NEW x, NEW C, NEW o, NEW d, NEW G, NEW bk2,
         Gating(first, bk, t, x, C, o, d, G, bk2), ClausesBelow(G, x + 2),
         NEW D, D = C \cup G
  PROVE  AdderShape(first, bk2, t, x + 2, D, o)
<1> DEFINE k == kNumBitsInWeight
           y == x + 2
<1>1. /\ t \in 0 .. k /\ t + 1 \in 0 .. k /\ x \in Nat \ {0} /\ k \in Nat
      /\ bk[t] \in Seq(Int) /\ bk[t + 1] \in Seq(Int) /\ d \in 1 .. Len(bk[t])
      /\ bk2 \in [0 .. k -> Seq(Int)]
      /\ bk2[t] = Append(SubSeq(bk[t], d + 1, Len(bk[t])), x)
      /\ bk2[t + 1] = Append(bk[t + 1], x + 1)
      /\ \A j \in 0 .. k : j # t /\ j # t + 1 => bk2[j] = bk[j]
  <2>1. GateMade(bk, t, x, d, bk2)
    BY GatedFacts
  <2> QED
    BY ONLY <2>1 DEF GateMade
<1>2. /\ first <= x /\ Outputs(o, t, x) /\ ClausesBelow(C, x)
      /\ \A j \in 0 .. t - 1 : Len(bk[j]) = 0
      /\ \A j \in 0 .. k : \A i \in 1 .. Len(bk[j]) : bk[j][i] \in Below(x)
  BY DEF Gating, AdderShape, Buckets
<1>3. y \in Nat \ {0} /\ first <= y /\ Below(x) \subseteq Below(y)
      /\ x \in Below(y) /\ x + 1 \in Below(y)
  <2>1. first <= y
    <3>1. y = x + 2
      OBVIOUS
    <3>2. first \in Nat
      OBVIOUS
    <3> QED
      BY <1>1, <1>2, <3>1, <3>2
  <2>2. y \in Nat \ {0} /\ x < y
    BY <1>1
  <2>3. Below(x) \subseteq Below(y)
    <3> SUFFICES ASSUME NEW l \in Below(x) PROVE l \in Below(y)
      OBVIOUS
    <3>1. l \in Int \ {0} /\ -x < l /\ l < x
      BY DEF Below
    <3> HIDE DEF y
    <3>2. -y < l /\ l < y
      BY <1>1, <2>2, <3>1
    <3> QED
      BY <3>1, <3>2 DEF Below
  <2>4. x \in Below(y) /\ x + 1 \in Below(y)
    BY <1>1 DEF Below
  <2> QED
    BY <2>1, <2>2, <2>3, <2>4
<1>4. Outputs(o, t, y)
  BY <1>2, <1>3 DEF Outputs
<1>5. ClausesBelow(D, y)
  <2>1. D \in SUBSET SUBSET Below(y)
    BY <1>2, <1>3 DEF ClausesBelow
  <2>2. UNION D = (UNION C) \cup (UNION G)
    OBVIOUS
  <2>3. IsFiniteSet(UNION C) /\ IsFiniteSet(UNION G)
    BY <1>2 DEF ClausesBelow
  <2> DEFINE A == UNION C
             B == UNION G
  <2>5. UNION D = A \cup B /\ IsFiniteSet(A) /\ IsFiniteSet(B)
    BY <2>2, <2>3
  <2> HIDE DEF A, B
  <2>6. IsFiniteSet(A \cup B)
    BY <2>5, FS_Union
  <2>4. IsFiniteSet(UNION D)
    BY <2>5, <2>6
  <2> QED
    BY <2>1, <2>4 DEF ClausesBelow
<1>6. ASSUME NEW j \in 0 .. k, NEW i \in 1 .. Len(bk2[j]) PROVE bk2[j][i] \in Below(y)
  <2>1. CASE j = t
    <3> DEFINE b == bk[t]
               r == bk2[t]
               n == Len(b)
               S == Below(y)
    <3>1. b \in Seq(S)
      <4>1. b \in Seq(Int) /\ \A u \in 1 .. Len(b) : b[u] \in S
        BY <1>1, <1>2, <1>3
      <4> HIDE DEF b, S
      <4> QED
        BY <4>1
    <3>2. x \in S /\ d \in 0 .. Len(b) /\ r = Append(SubSeq(b, d + 1, Len(b)), x)
      BY <1>1, <1>3
    <3> HIDE DEF b, r, S
    <3>3. r \in Seq(S)
      <4>1. Pushes(S, b, d, x, r)
        BY <3>1, <3>2 DEF Pushes
      <4> QED
        BY <4>1, QueueStep
    <3>4. i \in 1 .. Len(r)
      BY <2>1 DEF r
    <3>5. r[i] \in S
      BY <3>3, <3>4
    <3> QED
      BY <2>1, <3>5 DEF r, S
  <2>2. CASE j = t + 1
    <3> DEFINE b == bk[t + 1]
               r == bk2[t + 1]
    <3>1. b \in Seq(Int) /\ r = Append(b, x + 1) /\ i \in 1 .. Len(r)
      BY <1>1, <2>2
    <3>2. \A u \in 1 .. Len(b) : b[u] \in Below(y)
      BY <1>1, <1>2, <1>3
    <3> HIDE DEF b, r
    <3>3. r[i] = x + 1 \/ (i \in 1 .. Len(b) /\ r[i] = b[i])
      BY <3>1
    <3>4. r[i] \in Below(y)
      BY <1>3, <3>2, <3>3
    <3> QED
      BY <2>2, <3>4 DEF r
  <2>3. CASE j # t /\ j # t + 1
    <3>1. bk2[j] = bk[j]
      BY <1>1, <2>3
    <3> QED
      BY <1>2, <1>3, <3>1
  <2> QED
    BY <2>1, <2>2, <2>3
<1>7. ASSUME NEW j \in 0 .. t - 1 PROVE Len(bk2[j]) = 0
  <2>1. j \in 0 .. k /\ j # t /\ j # t + 1
    BY <1>1
  <2> QED
    BY <1>1, <1>2, <2>1
<1>8. Buckets(bk2, y)
  <2> HIDE DEF y
  <2> QED
    BY <1>1, <1>6 DEF Buckets
<1> HIDE DEF y
<1>9. AdderShape(first, bk2, t, y, D, o)
  BY <1>1, <1>3, <1>4, <1>5, <1>7, <1>8 DEF AdderShape
<1> QED
  BY <1>9 DEF y

\* A gate moves as much load up as it takes off.
LEMMA GateLoad ==
  ASSUME NEW first, NEW bk, NEW t, NEW x, NEW C, NEW o, NEW d, NEW G, NEW bk2,
         Gating(first, bk, t, x, C, o, d, G, bk2), NEW M, NEW N,
         \A v \in 1 .. x - 1 : v \in N <=> v \in M,
         Hits(M, bk[t], d) = Truth(N, x) + 2 * Truth(N, x + 1)
  PROVE  Load(bk2, N) = Load(bk, M) /\ Paid(o, N) = Paid(o, M)
<1> DEFINE k == kNumBitsInWeight
           S == 0 .. k
           F == [j \in S |-> 2^j * Hits(M, bk[j], Len(bk[j]))]
           H == [j \in S |-> 2^j * Hits(N, bk2[j], Len(bk2[j]))]
           u == t + 1
           R == (S \ {t}) \ {u}
<1>1. /\ t \in S /\ u \in S /\ x \in Nat \ {0} /\ k \in Nat /\ t \in Nat
      /\ bk[t] \in Seq(Int) /\ bk[u] \in Seq(Int) /\ d \in 1 .. Len(bk[t])
      /\ bk2 \in [S -> Seq(Int)]
      /\ bk2[t] = Append(SubSeq(bk[t], d + 1, Len(bk[t])), x)
      /\ bk2[u] = Append(bk[u], x + 1)
      /\ \A j \in S : j # t /\ j # u => bk2[j] = bk[j]
      /\ \A j \in S : bk[j] \in Seq(Int)
  <2>1. GateMade(bk, t, x, d, bk2)
    BY GatedFacts
  <2> QED
    BY ONLY <2>1 DEF GateMade
<1>0. t # u
  BY <1>1
<1>2. /\ Outputs(o, t, x)
      /\ \A j \in S : \A i \in 1 .. Len(bk[j]) : bk[j][i] \in Below(x)
  BY DEF Gating, AdderShape, Buckets
<1>3. \A l \in Below(x) : Holds(N, l) <=> Holds(M, l)
  BY <1>1, SameBelow
<1>4. ASSUME NEW j \in S PROVE Hits(N, bk[j], Len(bk[j])) = Hits(M, bk[j], Len(bk[j]))
                               /\ Hits(M, bk[j], Len(bk[j])) \in Nat
  <2> DEFINE b == bk[j]
             n == Len(b)
  <2>0. b \in Seq(Int) /\ \A i \in 1 .. n : b[i] \in Below(x)
    BY <1>1, <1>2
  <2>1. n \in Nat /\ \A i \in 1 .. n : Holds(N, b[i]) <=> Holds(M, b[i])
    <3> HIDE DEF b
    <3> QED
      BY <1>3, <2>0
  <2> HIDE DEF b, n
  <2>2. Hits(N, b, n) = Hits(M, b, n)
    BY ONLY <2>1, HitsSame
  <2>3. Hits(M, b, n) \in Nat
    BY <2>1, HitsFirst
  <2> QED
    BY <2>2, <2>3 DEF b, n
<1>5. \A j \in S : F[j] = 2^j * Hits(M, bk[j], Len(bk[j]))
                   /\ H[j] = 2^j * Hits(N, bk2[j], Len(bk2[j]))
  OBVIOUS
<1>6. \A j \in S : 2^j \in Nat
  BY PowerOfTwo
<1>7. 2^u = 2 * 2^t
  BY <1>1, PowerOfTwo
<1>8. Truth(N, x) \in Nat /\ Truth(N, x + 1) \in Nat
  BY DEF Truth
<1>9. Hits(N, bk2[t], Len(bk2[t])) + Truth(N, x) + 2 * Truth(N, x + 1)
        = Hits(M, bk[t], Len(bk[t])) + Truth(N, x) /\ Hits(N, bk2[t], Len(bk2[t])) \in Nat
  <2> DEFINE b == bk[t]
             r == bk2[t]
             n == Len(b)
  <2>0. bk2[t] \in Seq(Int)
    BY <1>1
  <2>1. b \in Seq(Int) /\ d \in 0 .. Len(b) /\ x \in Int
        /\ r = Append(SubSeq(b, d + 1, Len(b)), x) /\ r \in Seq(Int)
    BY <1>1, <2>0, SMTT(30)
  <2>2. \A i \in 1 .. d : Holds(N, b[i]) <=> Holds(M, b[i])
    <3> SUFFICES ASSUME NEW i \in 1 .. d PROVE Holds(N, b[i]) <=> Holds(M, b[i])
      OBVIOUS
    <3>1. i \in 1 .. Len(bk[t])
      BY <1>1, SMTT(30)
    <3> QED
      BY <1>1, <1>2, <1>3, <3>1
  <2>3. Hits(N, b, n) = Hits(M, b, n) /\ Hits(M, b, n) \in Nat
    BY <1>1, <1>4
  <2>4. Hits(M, b, d) = Truth(N, x) + 2 * Truth(N, x + 1)
    OBVIOUS
  <2> HIDE DEF b, r
  <2>5. Hits(N, r, Len(r)) + Hits(N, b, d) = Hits(N, b, Len(b)) + Truth(N, x)
    <3>1. Pushes(Int, b, d, x, r)
      BY <2>1 DEF Pushes
    <3> QED
      BY ONLY <3>1, HitsStep
  <2>6. Hits(N, b, d) = Hits(M, b, d)
    <3>1. d \in Nat
      BY <1>1
    <3> QED
      BY ONLY <2>2, <3>1, HitsSame
  <2>7. Hits(N, r, Len(r)) \in Nat
    <3> DEFINE m == Len(r)
    <3>1. m \in Nat
      BY <2>1
    <3> HIDE DEF m
    <3>2. Hits(N, r, m) \in Nat
      BY <3>1, HitsFirst
    <3> QED
      BY <3>2 DEF m
  <2> QED
    BY <1>8, <2>3, <2>4, <2>5, <2>6, <2>7 DEF b, r
<1>10. Hits(N, bk2[u], Len(bk2[u])) = Hits(M, bk[u], Len(bk[u])) + Truth(N, x + 1)
  <2> DEFINE b == bk[u]
             r == bk2[u]
             z == x + 1
  <2>1. b \in Seq(Int) /\ z \in Int /\ r = Append(b, z)
    BY <1>1
  <2>2. Hits(N, b, Len(b)) = Hits(M, b, Len(b))
    BY <1>1, <1>4
  <2> HIDE DEF b, r, z
  <2>3. Hits(N, r, Len(r)) = Hits(N, b, Len(b)) + Truth(N, z)
    BY ONLY <2>1, HitsAppend
  <2> QED
    BY <2>2, <2>3 DEF b, r, z
<1>11. F[t] + F[u] = H[t] + H[u] /\ F[t] \in Int /\ F[u] \in Int /\ H[t] \in Int /\ H[u] \in Int
  <2> DEFINE p == 2^t
             ft == Hits(M, bk[t], Len(bk[t]))
             fu == Hits(M, bk[u], Len(bk[u]))
             ht == Hits(N, bk2[t], Len(bk2[t]))
             hu == Hits(N, bk2[u], Len(bk2[u]))
             a == Truth(N, x + 1)
  <2>1. F[t] = p * ft /\ F[u] = (2 * p) * fu /\ H[t] = p * ht /\ H[u] = (2 * p) * hu
    BY <1>0, <1>1, <1>5, <1>7
  <2>2. p \in Nat /\ ft \in Nat /\ fu \in Nat /\ ht \in Nat /\ a \in Nat
    BY <1>1, <1>4, <1>6, <1>8, <1>9
  <2>3. ht + 2 * a = ft /\ hu = fu + a
    <3> DEFINE s == Truth(N, x)
    <3>1. ht + s + 2 * a = ft + s /\ s \in Nat
      BY <1>8, <1>9
    <3>2. hu = fu + a
      BY <1>10
    <3> HIDE DEF s, ht, a, ft, hu, fu
    <3> QED
      BY <2>2, <3>1, <3>2
  <2> HIDE DEF p, ft, fu, ht, hu, a, F, H
  <2>4. p * ft + (2 * p) * fu = p * ht + (2 * p) * hu
    <3>1. p * ft = p * ht + (2 * p) * a
      BY <2>2, <2>3
    <3>2. (2 * p) * hu = (2 * p) * fu + (2 * p) * a
      BY <2>2, <2>3
    <3> DEFINE pht == p * ht
               pa == (2 * p) * a
               pfu == (2 * p) * fu
    <3>3. pht \in Int /\ pa \in Int /\ pfu \in Int
      BY <2>2
    <3>4. p * ft = pht + pa /\ (2 * p) * hu = pfu + pa
      BY <3>1, <3>2
    <3> HIDE DEF pht, pa, pfu
    <3>5. p * ft + pfu = pht + (2 * p) * hu
      BY <3>3, <3>4
    <3> QED
      BY <3>5 DEF pht, pfu
  <2>5. hu \in Nat
    BY <2>2, <2>3
  <2> QED
    BY <2>1, <2>2, <2>4, <2>5
<1>12. \A j \in R : H[j] = F[j] /\ F[j] \in Int
  <2> SUFFICES ASSUME NEW j \in R PROVE H[j] = F[j] /\ F[j] \in Int
    OBVIOUS
  <2>1. j \in S /\ bk2[j] = bk[j]
    BY <1>0, <1>1
  <2>2. Hits(N, bk2[j], Len(bk2[j])) = Hits(M, bk[j], Len(bk[j]))
        /\ Hits(M, bk[j], Len(bk[j])) \in Nat
    BY <1>4, <2>1
  <2>3. 2^j \in Nat
    BY <1>6, <2>1
  <2> HIDE DEF F, H, S, R
  <2> QED
    BY <1>5, <2>1, <2>2, <2>3
<1>13. IsFiniteSet(S)
  <2>1. 0 \in Int /\ k \in Int
    BY <1>1
  <2> QED
    BY ONLY <2>1, FS_Interval
<1> HIDE DEF F, H
<1>14. Integral(F, S) /\ Integral(H, S)
  <2>1. ASSUME NEW j \in S PROVE F[j] \in Int /\ H[j] \in Int
    <3>1. j = t \/ j = u \/ j \in R
      OBVIOUS
    <3> HIDE DEF R, S
    <3> QED
      BY <1>11, <1>12, <3>1
  <2> HIDE DEF S
  <2> QED
    BY <1>13, <2>1 DEF Integral
<1>15. /\ u \in S \ {t} /\ R \subseteq S /\ IsFiniteSet(S \ {t}) /\ IsFiniteSet(R)
  <2>1. u \in S \ {t} /\ R \in SUBSET S /\ S \ {t} \in SUBSET S
    BY <1>0, <1>1
  <2> HIDE DEF R, S
  <2> QED
    BY <1>13, <2>1, FS_Subset
<1> DEFINE Q == S \ {t}
<1>16. Integral(F, Q) /\ Integral(H, Q) /\ Integral(F, R) /\ Integral(H, R)
  BY <1>14, <1>15 DEF Integral
<1>17. SumFunctionOnSet(F, S) = F[t] + SumFunctionOnSet(F, Q)
       /\ SumFunctionOnSet(H, S) = H[t] + SumFunctionOnSet(H, Q)
  <2>1. t \in S
    BY <1>1
  <2> HIDE DEF S
  <2> QED
    BY <1>14, <2>1, SumRemove
<1>18. SumFunctionOnSet(F, Q) = F[u] + SumFunctionOnSet(F, R)
       /\ SumFunctionOnSet(H, Q) = H[u] + SumFunctionOnSet(H, R)
  <2>1. u \in Q /\ R = Q \ {u}
    BY <1>15
  <2> HIDE DEF Q, R
  <2> QED
    BY <1>16, <2>1, SumRemove
<1> HIDE DEF R, Q, S
<1>19. SumFunctionOnSet(H, R) = SumFunctionOnSet(F, R) /\ SumFunctionOnSet(F, R) \in Int
  BY <1>12, <1>16, SumSame, SumInt
<1>20. SumFunctionOnSet(H, S) = SumFunctionOnSet(F, S)
  BY <1>11, <1>17, <1>18, <1>19
<1>21. Load(bk2, N) = Load(bk, M)
  BY <1>20 DEF Load, F, H, S
<1>22. Paid(o, N) = Paid(o, M)
  <2>1. \A i \in 1 .. Len(o) : Holds(N, o[i][1]) <=> Holds(M, o[i][1])
    BY <1>2, <1>3 DEF Outputs
  <2>2. [i \in 1 .. Len(o) |-> IF Holds(N, o[i][1]) THEN 2^o[i][2] ELSE 0]
          = [i \in 1 .. Len(o) |-> IF Holds(M, o[i][1]) THEN 2^o[i][2] ELSE 0]
    BY <2>1
  <2> QED
    BY <2>2 DEF Paid
<1> QED
  BY <1>21, <1>22

\* The buckets carry a cost across a gate.
LEMMA GateCarries ==
  ASSUME NEW first, NEW bk, NEW t, NEW x, NEW C, NEW o, NEW d, NEW G, NEW bk2,
         Gating(first, bk, t, x, C, o, d, G, bk2), Works(bk[t], d, x, G),
         NEW g \in SUBSET Below(x), NEW c, AddCarries(bk, C, o, g, c), NEW D, D = C \cup G
  PROVE  AddCarries(bk2, D, o, g, c)
<1>1. PICK M \in SUBSET Nat : /\ g \subseteq TrueIn(M) /\ Satisfied(M, C)
                              /\ AllDecided(bk, C, o, g, M)
                              /\ Load(bk, M) + Paid(o, M) = c
  BY DEF AddCarries
<1>2. PICK N \in SUBSET Nat :
        /\ \A v \in 1 .. x - 1 : v \in N <=> v \in M
        /\ Satisfied(N, G)
        /\ Hits(M, bk[t], d) = Truth(N, x) + 2 * Truth(N, x + 1)
        /\ \A K \in SUBSET Int :
             Closed(K, G) /\ (\A i \in 1 .. d : Decided(K, N, bk[t][i]))
               => Decided(K, N, x) /\ Decided(K, N, x + 1)
  BY DEF Works
<1>0. GateMade(bk, t, x, d, bk2)
  BY GatedFacts
<1>3. /\ t \in 0 .. kNumBitsInWeight /\ t + 1 \in 0 .. kNumBitsInWeight
      /\ x \in Nat \ {0} /\ bk[t] \in Seq(Int) /\ bk[t + 1] \in Seq(Int)
      /\ d \in 1 .. Len(bk[t])
      /\ bk2[t] = Append(SubSeq(bk[t], d + 1, Len(bk[t])), x)
      /\ bk2[t + 1] = Append(bk[t + 1], x + 1)
      /\ \A j \in 0 .. kNumBitsInWeight : j # t /\ j # t + 1 => bk2[j] = bk[j]
  BY ONLY <1>0 DEF GateMade
<1>4. /\ C \in SUBSET SUBSET Below(x)
      /\ \A j \in 0 .. kNumBitsInWeight : \A i \in 1 .. Len(bk[j]) : bk[j][i] \in Below(x)
      /\ \A i \in 1 .. Len(o) : o[i][1] \in Below(x)
  BY DEF Gating, AdderShape, Buckets, ClausesBelow, Outputs
<1>5. /\ \A l \in Below(x) : Holds(N, l) <=> Holds(M, l)
      /\ Satisfied(N, C) /\ g \subseteq TrueIn(N)
  BY <1>1, <1>2, <1>3, <1>4, SameBelow
<1>6. Satisfied(N, D)
  BY <1>2, <1>5 DEF Satisfied
<1>7. \A K : \A l \in Below(x) : Decided(K, M, l) => Decided(K, N, l)
  BY <1>5 DEF Decided
<1>8. AllDecided(bk2, D, o, g, N)
  <2> SUFFICES ASSUME NEW K \in SUBSET Int, g \subseteq K, Closed(K, D)
               PROVE  BucketsDecided(bk2, K, N) /\ OutputsDecided(o, K, N)
    BY DEF AllDecided
  <2>1. Closed(K, C) /\ Closed(K, G)
    BY DEF Closed
  <2>2. BucketsDecided(bk, K, M) /\ OutputsDecided(o, K, M)
    BY <1>1, <2>1 DEF AllDecided
  <2>3. OutputsDecided(o, K, N)
    BY <1>4, <1>7, <2>2 DEF OutputsDecided
  <2>4. ASSUME NEW j \in 0 .. kNumBitsInWeight, NEW i \in 1 .. Len(bk[j])
        PROVE  Decided(K, N, bk[j][i])
    BY <1>4, <1>7, <2>2 DEF BucketsDecided
  <2>5. Decided(K, N, x) /\ Decided(K, N, x + 1)
    <3>1. \A i \in 1 .. d : Decided(K, N, bk[t][i])
      <4> SUFFICES ASSUME NEW i \in 1 .. d PROVE Decided(K, N, bk[t][i])
        OBVIOUS
      <4>1. i \in 1 .. Len(bk[t])
        BY <1>3
      <4> QED
        BY <1>3, <2>4, <4>1
    <3> QED
      BY <1>2, <2>1, <3>1
  <2>6. ASSUME NEW j \in 0 .. kNumBitsInWeight, NEW i \in 1 .. Len(bk2[j])
        PROVE  Decided(K, N, bk2[j][i])
    <3>1. CASE j = t
      <4> DEFINE b == bk[t]
                 r == bk2[t]
                 n == Len(b)
                 S == Int
      <4>a. b \in Seq(S) /\ x \in S /\ d \in 0 .. Len(b)
            /\ r = Append(SubSeq(b, d + 1, Len(b)), x)
        BY <1>3, <3>1
      <4>b. i \in 1 .. Len(r)
        BY <3>1
      <4>c. n \in Nat
        BY <1>3
      <4>1. b \in Seq(S) /\ x \in S /\ d \in 0 .. Len(b)
            /\ r = Append(SubSeq(b, d + 1, Len(b)), x) /\ i \in 1 .. Len(r) /\ n \in Nat
        BY <4>a, <4>b, <4>c
      <4>2. \A u \in 1 .. n : Decided(K, N, b[u])
        BY <1>3, <2>4
      <4> HIDE DEF b, r, S
      <4>3. /\ Len(r) = Len(b) - d + 1
            /\ \A u \in 1 .. Len(b) - d : r[u] = b[u + d]
            /\ r[Len(b) - d + 1] = x
        <5>1. Pushes(S, b, d, x, r)
          BY <4>1 DEF Pushes
        <5>2. Pushed(b, d, x, r)
          BY <5>1, QueueStep
        <5> QED
          BY <5>2 DEF Pushed
      <4>4. CASE i = n - d + 1
        BY <2>5, <3>1, <4>3, <4>4 DEF r
      <4>5. CASE i # n - d + 1
        <5>1. i \in 1 .. n - d /\ i + d \in 1 .. n
          BY <4>1, <4>3, <4>5
        <5>2. r[i] = b[i + d]
          BY <4>3, <5>1
        <5> QED
          BY <3>1, <4>2, <5>1, <5>2 DEF r
      <4> QED
        BY <4>4, <4>5
    <3>2. CASE j = t + 1
      <4> DEFINE b == bk[t + 1]
                 r == bk2[t + 1]
      <4>1. b \in Seq(Int) /\ r = Append(b, x + 1) /\ i \in 1 .. Len(r)
        BY <1>3, <3>2
      <4>2. \A u \in 1 .. Len(b) : Decided(K, N, b[u])
        BY <1>3, <2>4
      <4> HIDE DEF b, r
      <4>3. r[i] = x + 1 \/ (i \in 1 .. Len(b) /\ r[i] = b[i])
        BY <4>1
      <4>4. Decided(K, N, r[i])
        BY <2>5, <4>2, <4>3
      <4> QED
        BY <3>2, <4>4 DEF r
    <3>3. CASE j # t /\ j # t + 1
      <4>1. bk2[j] = bk[j]
        BY <1>3, <3>3
      <4> QED
        BY <2>4, <4>1
    <3> QED
      BY <3>1, <3>2, <3>3
  <2> QED
    BY <2>3, <2>6 DEF BucketsDecided
<1>9. Load(bk2, N) + Paid(o, N) = c
  <2>1. Load(bk2, N) = Load(bk, M) /\ Paid(o, N) = Paid(o, M)
    BY <1>2, GateLoad
  <2> QED
    BY <1>1, <2>1
<1> QED
  BY <1>5, <1>6, <1>8, <1>9 DEF AddCarries

-----------------------------------------------------------------------------
(***************************************************************************)
(* The adder: a literal alone in its bucket becomes an output bit.         *)
(***************************************************************************)
Sending(first, bk, t, x, C, o, bk2, o2) ==
  /\ AdderShape(first, bk, t, x, C, o) /\ kNumBitsInWeight \in Nat /\ t < kNumBitsInWeight
  /\ Len(bk[t]) = 1 /\ bk2 = [bk EXCEPT ![t] = <<>>] /\ o2 = Append(o, <<bk[t][1], t>>)

SentTo(bk, t, o, bk2, o2) ==
  /\ t \in 0 .. kNumBitsInWeight /\ t + 1 \in 0 .. kNumBitsInWeight /\ t \in Nat
  /\ bk[t] \in Seq(Int) /\ Len(bk[t]) = 1
  /\ bk2 \in [0 .. kNumBitsInWeight -> Seq(Int)] /\ bk2[t] = <<>>
  /\ \A j \in 0 .. kNumBitsInWeight : j # t => bk2[j] = bk[j]
  /\ \A j \in 0 .. kNumBitsInWeight : bk[j] \in Seq(Int)
  /\ o \in Seq(Int \X Nat) /\ o2 \in Seq(Int \X Nat) /\ Len(o2) = Len(o) + 1
  /\ Len(o) \in Nat /\ \A i \in 1 .. Len(o) : o2[i] = o[i]
  /\ o2[Len(o) + 1] = <<bk[t][1], t>>

\* What sending a bucket to the output leaves.
LEMMA SendingFacts ==
  ASSUME NEW first, NEW bk, NEW t, NEW x, NEW C, NEW o, NEW bk2, NEW o2,
         Sending(first, bk, t, x, C, o, bk2, o2)
  PROVE  SentTo(bk, t, o, bk2, o2)
<1> DEFINE k == kNumBitsInWeight
<1>1. /\ bk \in [0 .. k -> Seq(Int)] /\ k \in Nat /\ t < k /\ t \in 0 .. k
      /\ Len(bk[t]) = 1 /\ bk2 = [bk EXCEPT ![t] = <<>>] /\ o2 = Append(o, <<bk[t][1], t>>)
      /\ o \in Seq(Int \X Nat)
  BY DEF Sending, AdderShape, Buckets, Outputs
<1>2. t \in Nat /\ t + 1 \in 0 .. k /\ bk[t] \in Seq(Int) /\ bk[t][1] \in Int
  <2>1. t \in Nat /\ t + 1 \in 0 .. k
    BY <1>1
  <2>2. bk[t] \in Seq(Int)
    BY <1>1
  <2> DEFINE b == bk[t]
  <2>3. b \in Seq(Int) /\ Len(b) = 1
    BY <1>1, <2>2
  <2> HIDE DEF b
  <2>4. b[1] \in Int
    BY <2>3
  <2> QED
    BY <2>1, <2>2, <2>4 DEF b
<1>3. /\ bk2 \in [0 .. k -> Seq(Int)] /\ bk2[t] = <<>>
      /\ \A j \in 0 .. k : j # t => bk2[j] = bk[j]
  <2> DEFINE e == <<>>
             S == Seq(Int)
  <2>1. e \in S /\ bk2 = [bk EXCEPT ![t] = e]
    BY <1>1
  <2>2. bk \in [0 .. k -> S] /\ t \in 0 .. k
    BY <1>1
  <2> HIDE DEF e, S
  <2>3. /\ bk2 \in [0 .. k -> S] /\ bk2[t] = e
        /\ \A j \in 0 .. k : j # t => bk2[j] = bk[j]
    BY <2>1, <2>2
  <2> QED
    BY <2>3 DEF e, S
<1>4. /\ o2 \in Seq(Int \X Nat) /\ Len(o2) = Len(o) + 1 /\ Len(o) \in Nat
      /\ \A i \in 1 .. Len(o) : o2[i] = o[i]
      /\ o2[Len(o) + 1] = <<bk[t][1], t>>
  <2> DEFINE S == Int \X Nat
             z == <<bk[t][1], t>>
  <2>1. z \in S /\ o \in Seq(S) /\ o2 = Append(o, z)
    BY <1>1, <1>2
  <2> HIDE DEF S, z
  <2>2. /\ o2 \in Seq(S) /\ Len(o2) = Len(o) + 1 /\ Len(o) \in Nat
        /\ \A i \in 1 .. Len(o) : o2[i] = o[i]
        /\ o2[Len(o) + 1] = z
    BY <2>1
  <2> QED
    BY <2>2 DEF S, z
<1>5. \A j \in 0 .. k : bk[j] \in Seq(Int)
  BY <1>1
<1> QED
  BY <1>1, <1>2, <1>3, <1>4, <1>5 DEF SentTo

\* It leaves an adder.
LEMMA SendShape ==
  ASSUME NEW first, NEW bk, NEW t, NEW x, NEW C, NEW o, NEW bk2, NEW o2,
         Sending(first, bk, t, x, C, o, bk2, o2)
  PROVE  AdderShape(first, bk2, t + 1, x, C, o2)
<1> DEFINE k == kNumBitsInWeight
<1>0. SentTo(bk, t, o, bk2, o2)
  BY SendingFacts
<1>1. /\ t \in 0 .. k /\ t + 1 \in 0 .. k /\ t \in Nat
      /\ bk[t] \in Seq(Int) /\ Len(bk[t]) = 1
      /\ bk2 \in [0 .. k -> Seq(Int)] /\ bk2[t] = <<>>
      /\ \A j \in 0 .. k : j # t => bk2[j] = bk[j]
      /\ o2 \in Seq(Int \X Nat) /\ Len(o2) = Len(o) + 1
      /\ Len(o) \in Nat /\ \A i \in 1 .. Len(o) : o2[i] = o[i]
      /\ o2[Len(o) + 1] = <<bk[t][1], t>>
  BY ONLY <1>0 DEF SentTo
<1>2. /\ x \in Nat \ {0} /\ first <= x /\ ClausesBelow(C, x)
      /\ \A j \in 0 .. k : \A i \in 1 .. Len(bk[j]) : bk[j][i] \in Below(x)
      /\ \A i \in 1 .. Len(o) : o[i][1] \in Below(x) /\ o[i][2] \in 0 .. t - 1
      /\ \A i, j \in 1 .. Len(o) : i < j => o[i][2] < o[j][2]
      /\ \A j \in 0 .. t - 1 : Len(bk[j]) = 0
  BY DEF Sending, AdderShape, Buckets, Outputs
<1>3. Len(bk2[t]) = 0
  BY <1>1
<1>4. ASSUME NEW j \in 0 .. (t + 1) - 1 PROVE Len(bk2[j]) = 0
  <2>1. CASE j = t
    BY <1>3, <2>1
  <2>2. CASE j # t
    <3>0. t \in Nat /\ t \in 0 .. k /\ k \in Nat /\ j \in 0 .. (t + 1) - 1
      BY <1>1, WidthAssumption
    <3> HIDE DEF k
    <3>1. j \in 0 .. t - 1 /\ j \in 0 .. k
      BY ONLY <2>2, <3>0
    <3> QED
      BY <1>1, <1>2, <2>2, <3>1
  <2> QED
    BY <2>1, <2>2
<1>5. ASSUME NEW j \in 0 .. k, NEW i \in 1 .. Len(bk2[j]) PROVE bk2[j][i] \in Below(x)
  <2>1. j # t
    BY <1>3
  <2>2. bk2[j] = bk[j]
    BY <1>1, <2>1
  <2> QED
    BY <1>2, <2>2
<1>6. Buckets(bk2, x)
  BY <1>1, <1>5 DEF Buckets
<1> DEFINE n == Len(o)
<1>7. bk[t][1] \in Below(x)
  <2>1. 1 \in 1 .. Len(bk[t])
    BY <1>1
  <2> QED
    BY <1>1, <1>2, <2>1
<1>8. o2[n + 1][1] = bk[t][1] /\ o2[n + 1][2] = t
  BY <1>1
<1>9. \A i \in 1 .. n : o2[i] = o[i] /\ o[i][2] \in 0 .. t - 1 /\ o[i][1] \in Below(x)
  BY <1>1, <1>2
<1>10. n \in Nat /\ Len(o2) = n + 1
  BY <1>1
<1> HIDE DEF n
<1>11. ASSUME NEW i \in 1 .. n + 1
       PROVE  o2[i][1] \in Below(x) /\ o2[i][2] \in 0 .. (t + 1) - 1
  <2>1. CASE i = n + 1
    BY <1>1, <1>7, <1>8, <2>1, SMTT(30)
  <2>2. CASE i # n + 1
    <3>1. i \in 1 .. n
      BY <1>10, <2>2
    <3>2. o2[i] = o[i] /\ o[i][2] \in 0 .. t - 1 /\ o[i][1] \in Below(x)
      BY <1>9, <3>1
    <3> DEFINE z == o[i][2]
    <3>0. z \in 0 .. t - 1 /\ t \in Nat
      BY <1>1, <3>2
    <3> HIDE DEF z
    <3>4. z \in 0 .. (t + 1) - 1
      BY <3>0
    <3>3. o[i][2] \in 0 .. (t + 1) - 1
      BY <3>4 DEF z
    <3> QED
      BY <3>2, <3>3
  <2> QED
    BY <2>1, <2>2
<1>12. ASSUME NEW i \in 1 .. n + 1, NEW j \in 1 .. n + 1, i < j PROVE o2[i][2] < o2[j][2]
  <2>1. i \in 1 .. n /\ o2[i] = o[i] /\ o[i][2] \in 0 .. t - 1
    BY <1>9, <1>10, <1>12
  <2>2. CASE j = n + 1
    <3> DEFINE z == o2[i][2]
    <3>1. z \in 0 .. t - 1 /\ t \in Nat
      BY <1>1, <2>1
    <3>2. o2[j][2] = t
      BY <1>8, <2>2
    <3> HIDE DEF z
    <3>3. z < t
      BY <3>1
    <3> QED
      BY <3>2, <3>3 DEF z
  <2>3. CASE j # n + 1
    <3>1. j \in 1 .. n
      BY <1>10, <2>3
    <3> QED
      BY <1>2, <1>9, <1>12, <2>1, <3>1 DEF n
  <2> QED
    BY <2>2, <2>3
<1>13. Outputs(o2, t + 1, x)
  BY <1>1, <1>10, <1>11, <1>12 DEF Outputs
<1> QED
  BY <1>1, <1>2, <1>4, <1>6, <1>13 DEF AdderShape

\* What is taken from the buckets is added to the outputs.
LEMMA SendLoad ==
  ASSUME NEW first, NEW bk, NEW t, NEW x, NEW C, NEW o, NEW bk2, NEW o2,
         Sending(first, bk, t, x, C, o, bk2, o2), NEW M
  PROVE  Load(bk2, M) + Paid(o2, M) = Load(bk, M) + Paid(o, M)
<1> DEFINE k == kNumBitsInWeight
           S == 0 .. k
           F == [j \in S |-> 2^j * Hits(M, bk[j], Len(bk[j]))]
           H == [j \in S |-> 2^j * Hits(M, bk2[j], Len(bk2[j]))]
           n == Len(o)
           l == bk[t][1]
           P == [i \in 1 .. n |-> IF Holds(M, o[i][1]) THEN 2^o[i][2] ELSE 0]
           Q == [i \in 1 .. Len(o2) |-> IF Holds(M, o2[i][1]) THEN 2^o2[i][2] ELSE 0]
           a == IF Holds(M, l) THEN 2^t ELSE 0
<1>0. SentTo(bk, t, o, bk2, o2)
  BY SendingFacts
<1>1. /\ t \in S /\ t \in Nat
      /\ bk[t] \in Seq(Int) /\ Len(bk[t]) = 1
      /\ bk2[t] = <<>>
      /\ \A j \in S : j # t => bk2[j] = bk[j]
      /\ \A j \in S : bk[j] \in Seq(Int)
      /\ Len(o2) = n + 1 /\ n \in Nat /\ \A i \in 1 .. n : o2[i] = o[i]
      /\ o2[n + 1] = <<l, t>>
  BY ONLY <1>0 DEF SentTo
<1>2. \A i \in 1 .. n : o[i][2] \in Nat
  BY <1>1, SMTT(30) DEF Sending, AdderShape, Outputs
<1>3. \A j \in Nat : 2^j \in Nat
  BY PowerOfTwo
<1>4. \A j \in S : j \in Nat
  OBVIOUS
<1>5. \A j \in S : F[j] = 2^j * Hits(M, bk[j], Len(bk[j]))
                   /\ H[j] = 2^j * Hits(M, bk2[j], Len(bk2[j]))
  OBVIOUS
<1>6. ASSUME NEW j \in S PROVE F[j] \in Int
  <2> DEFINE b == bk[j]
             u == Len(b)
  <2>1. u \in Nat
    BY <1>1
  <2> HIDE DEF b, u
  <2>2. Hits(M, b, u) \in Nat
    BY <2>1, HitsFirst
  <2>3. F[j] = 2^j * Hits(M, b, u)
    BY <1>5 DEF b, u
  <2>4. 2^j \in Nat
    BY <1>3, <1>4
  <2> HIDE DEF F
  <2> QED
    BY <2>2, <2>3, <2>4
<1>7. F[t] = a
  <2>1. F[t] = 2^t * Hits(M, bk[t], 1)
    BY <1>1, <1>5
  <2>2. Hits(M, bk[t], 1) = Truth(M, l)
    BY HitsOfTwoOrThree
  <2>3. 2^t \in Nat
    BY <1>1, <1>3
  <2> HIDE DEF l, F
  <2> DEFINE p == 2^t
  <2>4. F[t] = p * Truth(M, l) /\ p \in Nat
    BY <2>1, <2>2, <2>3
  <2> HIDE DEF p
  <2>5. p * 1 = p /\ p * 0 = 0
    BY <2>4
  <2>6. F[t] = IF Holds(M, l) THEN p ELSE 0
    BY <2>4, <2>5 DEF Truth
  <2> QED
    BY <2>6 DEF p
<1>8. H[t] = 0
  <2>1. Len(bk2[t]) = 0
    BY <1>1
  <2>2. H[t] = 2^t * Hits(M, bk2[t], 0)
    BY <1>1, <1>5, <2>1
  <2>3. Hits(M, bk2[t], 0) = 0
    <3>1. 0 \in Nat
      OBVIOUS
    <3> QED
      BY <3>1, HitsFirst
  <2>4. 2^t \in Nat
    BY <1>1, <1>3
  <2> HIDE DEF H
  <2> QED
    BY <2>2, <2>3, <2>4
<1>9. \A j \in S \ {t} : H[j] = F[j]
  <2> SUFFICES ASSUME NEW j \in S, j # t PROVE H[j] = F[j]
    OBVIOUS
  <2>1. bk2[j] = bk[j]
    BY <1>1
  <2> QED
    BY <1>5, <2>1
<1>10. IsFiniteSet(S) /\ IsFiniteSet(1 .. n)
  <2>1. 0 \in Int /\ k \in Int /\ 1 \in Int /\ n \in Int
    BY <1>1, WidthAssumption
  <2> HIDE DEF k, n
  <2> QED
    BY <2>1, FS_Interval
<1> DEFINE R == S \ {t}
<1>11. SumFunctionOnSet(F, S) = a + SumFunctionOnSet(F, R)
       /\ SumFunctionOnSet(H, S) = SumFunctionOnSet(F, R)
       /\ SumFunctionOnSet(F, R) \in Int
  <2>1. t \in S
    BY <1>1
  <2>2. \A j \in S : H[j] \in Int
    <3> SUFFICES ASSUME NEW j \in S PROVE H[j] \in Int
      OBVIOUS
    <3> HIDE DEF H, F, S
    <3> QED
      BY <1>6, <1>8, <1>9
  <2> HIDE DEF F, H, S, a
  <2>3. Integral(F, S) /\ Integral(H, S)
    BY <1>6, <1>10, <2>2 DEF Integral
  <2>4. R \in SUBSET S
    OBVIOUS
  <2>5. Integral(F, R) /\ Integral(H, R)
    BY <2>3, <2>4, IntegralSubset
  <2>6. SumFunctionOnSet(F, S) = F[t] + SumFunctionOnSet(F, S \ {t})
        /\ SumFunctionOnSet(H, S) = H[t] + SumFunctionOnSet(H, S \ {t})
    BY <2>1, <2>3, SumRemove
  <2>7. \A j \in R : H[j] = F[j]
    BY <1>9
  <2>8. S \ {t} = R
    OBVIOUS
  <2> HIDE DEF R
  <2>9. SumFunctionOnSet(H, R) = SumFunctionOnSet(F, R) /\ SumFunctionOnSet(F, R) \in Int
    BY <2>5, <2>7, SumSame, SumInt
  <2> QED
    BY <1>7, <1>8, <2>6, <2>8, <2>9
<1>12. SumFunctionOnSet(Q, 1 .. Len(o2)) = SumFunctionOnSet(P, 1 .. n) + a
       /\ SumFunctionOnSet(P, 1 .. n) \in Int /\ a \in Int
  <2> DEFINE T == 1 .. n
             e == n + 1
  <2>1. \A i \in T : P[i] = (IF Holds(M, o[i][1]) THEN 2^o[i][2] ELSE 0)
    OBVIOUS
  <2>2. \A i \in T : P[i] \in Int
    <3> HIDE DEF P
    <3> QED
      BY <1>2, <1>3, <2>1
  <2>3. \A i \in 1 .. Len(o2) : Q[i] = (IF Holds(M, o2[i][1]) THEN 2^o2[i][2] ELSE 0)
    OBVIOUS
  <2>4. e \in 1 .. Len(o2) /\ \A i \in T : i \in 1 .. Len(o2)
    BY <1>1
  <2>5. a \in Int
    BY <1>1, <1>3
  <2>6. \A i \in T : Q[i] = P[i]
    <3> HIDE DEF P, Q
    <3> QED
      BY <1>1, <2>1, <2>3, <2>4
  <2>7. Q[e] = a
    <3>1. o2[e][1] = l /\ o2[e][2] = t
      BY <1>1
    <3>2. Q[e] = (IF Holds(M, o2[e][1]) THEN 2^o2[e][2] ELSE 0)
      BY <2>3, <2>4
    <3> QED
      BY <3>1, <3>2
  <2>8. e \notin T /\ 1 .. Len(o2) = T \cup {e}
    BY <1>1
  <2>9. IsFiniteSet(T)
    BY <1>10
  <2> HIDE DEF P, Q, T, e, a
  <2>10. Integral(P, T)
    BY <2>2, <2>9 DEF Integral
  <2>11. Q[e] \in Int
    BY <2>5, <2>7
  <2>12. SumFunctionOnSet(Q, T \cup {e}) = SumFunctionOnSet(P, T) + Q[e]
    BY <2>6, <2>8, <2>10, <2>11, SumExtend
  <2>13. SumFunctionOnSet(P, T) \in Int
    BY <2>10, SumInt
  <2> QED
    BY <2>5, <2>7, <2>8, <2>12, <2>13 DEF T
<1>13. Load(bk, M) = SumFunctionOnSet(F, S) /\ Load(bk2, M) = SumFunctionOnSet(H, S)
       /\ Paid(o, M) = SumFunctionOnSet(P, 1 .. n)
       /\ Paid(o2, M) = SumFunctionOnSet(Q, 1 .. Len(o2))
  BY DEF Load, Paid
<1> HIDE DEF F, H, P, Q, a, S, R
<1> QED
  BY <1>11, <1>12, <1>13

\* Buckets and outputs carry a cost across that.
LEMMA SendCarries ==
  ASSUME NEW first, NEW bk, NEW t, NEW x, NEW C, NEW o, NEW bk2, NEW o2,
         Sending(first, bk, t, x, C, o, bk2, o2), NEW g, NEW c, AddCarries(bk, C, o, g, c)
  PROVE  AddCarries(bk2, C, o2, g, c)
<1>0. SentTo(bk, t, o, bk2, o2)
  BY SendingFacts
<1>1. /\ t \in 0 .. kNumBitsInWeight
      /\ Len(bk[t]) = 1 /\ bk2[t] = <<>>
      /\ \A j \in 0 .. kNumBitsInWeight : j # t => bk2[j] = bk[j]
      /\ Len(o2) = Len(o) + 1 /\ Len(o) \in Nat /\ \A i \in 1 .. Len(o) : o2[i] = o[i]
      /\ o2[Len(o) + 1] = <<bk[t][1], t>>
  BY ONLY <1>0 DEF SentTo
<1>2. PICK M \in SUBSET Nat : /\ g \subseteq TrueIn(M) /\ Satisfied(M, C)
                              /\ AllDecided(bk, C, o, g, M)
                              /\ Load(bk, M) + Paid(o, M) = c
  BY DEF AddCarries
<1>3. Load(bk2, M) + Paid(o2, M) = c
  <2>1. Load(bk2, M) + Paid(o2, M) = Load(bk, M) + Paid(o, M)
    BY SendLoad
  <2> QED
    BY <1>2, <2>1
<1>4. AllDecided(bk2, C, o2, g, M)
  <2> SUFFICES ASSUME NEW K \in SUBSET Int, g \subseteq K, Closed(K, C)
               PROVE  BucketsDecided(bk2, K, M) /\ OutputsDecided(o2, K, M)
    BY DEF AllDecided
  <2>1. /\ \A j \in 0 .. kNumBitsInWeight : \A i \in 1 .. Len(bk[j]) : Decided(K, M, bk[j][i])
        /\ \A i \in 1 .. Len(o) : Decided(K, M, o[i][1])
    BY <1>2 DEF AllDecided, BucketsDecided, OutputsDecided
  <2>2. ASSUME NEW j \in 0 .. kNumBitsInWeight, NEW i \in 1 .. Len(bk2[j])
        PROVE  Decided(K, M, bk2[j][i])
    <3>1. CASE j = t
      <4>1. Len(bk2[j]) = 0
        BY <1>1, <3>1
      <4> QED
        BY <4>1
    <3>2. CASE j # t
      <4>1. bk2[j] = bk[j]
        BY <1>1, <3>2
      <4> QED
        BY <2>1, <4>1
    <3> QED
      BY <3>1, <3>2
  <2>3. Decided(K, M, bk[t][1])
    <3>1. 1 \in 1 .. Len(bk[t])
      BY <1>1
    <3> QED
      BY <1>1, <2>1, <3>1
  <2>4. ASSUME NEW i \in 1 .. Len(o2) PROVE Decided(K, M, o2[i][1])
    <3>1. CASE i = Len(o) + 1
      <4>1. o2[i][1] = bk[t][1]
        BY <1>1, <3>1
      <4> QED
        BY <2>3, <4>1
    <3>2. CASE i # Len(o) + 1
      <4> DEFINE n == Len(o)
      <4>0. n \in Nat /\ i \in 1 .. n + 1
        BY <1>1
      <4>1. i \in 1 .. n
        <5> HIDE DEF n
        <5>1. i # n + 1
          BY <3>2 DEF n
        <5> QED
          BY <4>0, <5>1
      <4>2. o2[i] = o[i]
        BY <1>1, <4>1
      <4> QED
        BY <2>1, <4>1, <4>2
    <3> QED
      BY <3>1, <3>2
  <2> QED
    BY <2>2, <2>4 DEF BucketsDecided, OutputsDecided
<1> QED
  BY <1>2, <1>3, <1>4 DEF AddCarries

\* An empty bucket has nothing to add.
LEMMA SkipShape ==
  ASSUME NEW first, NEW bk, NEW t, NEW x, NEW C, NEW o, AdderShape(first, bk, t, x, C, o),
         t < kNumBitsInWeight, Len(bk[t]) = 0
  PROVE  AdderShape(first, bk, t + 1, x, C, o)
<1>1. /\ t \in 0 .. kNumBitsInWeight /\ kNumBitsInWeight \in Nat
      /\ \A j \in 0 .. t - 1 : Len(bk[j]) = 0
      /\ Buckets(bk, x) /\ Outputs(o, t, x) /\ ClausesBelow(C, x)
      /\ x \in Nat \ {0} /\ first <= x
  BY WidthAssumption DEF AdderShape
<1>2. t \in Nat /\ t + 1 \in 0 .. kNumBitsInWeight
  BY <1>1
<1>3. \A j \in 0 .. (t + 1) - 1 : Len(bk[j]) = 0
  <2> SUFFICES ASSUME NEW j \in 0 .. (t + 1) - 1 PROVE Len(bk[j]) = 0
    OBVIOUS
  <2>1. j = t \/ j \in 0 .. t - 1
    BY <1>2
  <2> QED
    BY <1>1, <2>1
<1>4. Outputs(o, t + 1, x)
  <2>1. ASSUME NEW i \in 1 .. Len(o) PROVE o[i][2] \in 0 .. (t + 1) - 1
    <3> DEFINE z == o[i][2]
    <3>1. z \in 0 .. t - 1
      BY <1>1 DEF Outputs
    <3> HIDE DEF z
    <3>2. z \in 0 .. (t + 1) - 1
      BY <1>2, <3>1
    <3> QED
      BY <3>2 DEF z
  <2> QED
    BY <1>1, <2>1 DEF Outputs
<1> QED
  BY <1>1, <1>2, <1>3, <1>4 DEF AdderShape

-----------------------------------------------------------------------------
(***************************************************************************)
(* The adder: every step keeps the invariant.                              *)
(***************************************************************************)
AdderInv(first, e, s) ==
  \E bk, t, x, C, o :
    /\ AdderRecord(e, bk, t, x, C, o) /\ AdderShape(first, bk, t, x, C, o)
    /\ \A m \in AssignmentsTo(first) : AddCarries(bk, C, o, m, CostOf(s, m))

\* There are finitely many literals below a variable.
LEMMA BelowFinite ==
  ASSUME NEW x \in Nat
  PROVE  /\ IsFiniteSet(Below(x))
         /\ \A C \in SUBSET SUBSET Below(x) : ClausesBelow(C, x)
<1> DEFINE A == -x .. x
<1>1. IsFiniteSet(A)
  <2>1. -x \in Int /\ x \in Int
    OBVIOUS
  <2> DEFINE y == -x
  <2>2. y \in Int /\ x \in Int
    BY <2>1
  <2> HIDE DEF y
  <2>3. IsFiniteSet(y .. x)
    BY ONLY <2>2, FS_Interval
  <2> QED
    BY <2>3 DEF y
<1>2. Below(x) \in SUBSET A
  BY DEF Below
<1> HIDE DEF A
<1>3. IsFiniteSet(Below(x))
  BY <1>1, <1>2, FS_Subset
<1>4. ASSUME NEW C \in SUBSET SUBSET Below(x) PROVE ClausesBelow(C, x)
  <2> DEFINE B == Below(x)
             U == UNION C
  <2>1. U \in SUBSET B /\ IsFiniteSet(B)
    BY <1>3
  <2> HIDE DEF B, U
  <2>2. IsFiniteSet(U)
    BY <2>1, FS_Subset
  <2> QED
    BY <2>2 DEF U, ClausesBelow
<1> QED
  BY <1>3, <1>4

\* The clauses of a gate are over its inputs and outputs.
LEMMA GateLiterals ==
  ASSUME NEW B, NEW x, NEW y, NEW z, NEW s, NEW c,
         x \in B, -x \in B, y \in B, -y \in B, s \in B, -s \in B, c \in B, -c \in B
  PROVE  /\ HalfAdderSum(x, y, s) \cup HalfAdderCarry(x, y, c) \in SUBSET SUBSET B
         /\ z \in B /\ -z \in B
              => FullAdderSum(x, y, z, s) \cup FullAdderCarry(x, y, z, c) \in SUBSET SUBSET B
<1>1. HalfAdderSum(x, y, s) \cup HalfAdderCarry(x, y, c) \in SUBSET SUBSET B
  BY DEF HalfAdderSum, HalfAdderCarry
<1>2. ASSUME z \in B, -z \in B
      PROVE  FullAdderSum(x, y, z, s) \in SUBSET SUBSET B
  BY <1>2 DEF FullAdderSum
<1>3. ASSUME z \in B, -z \in B
      PROVE  FullAdderCarry(x, y, z, c) \in SUBSET SUBSET B
  BY <1>3 DEF FullAdderCarry
<1> QED
  BY <1>1, <1>2, <1>3

\* A gate on the first d literals of the current bucket.
LEMMA GateKeeps ==
  ASSUME NEW first \in Nat \ {0}, NEW s, NEW e, NEW bk, NEW t, NEW x, NEW C, NEW o,
         AdderRecord(e, bk, t, x, C, o), AdderShape(first, bk, t, x, C, o), t < kNumBitsInWeight,
         \A m \in AssignmentsTo(first) : AddCarries(bk, C, o, m, CostOf(s, m)),
         NEW d \in 1 .. Len(bk[t]), NEW G, Works(bk[t], d, x, G), G \in SUBSET SUBSET Below(x + 2)
  PROVE  AdderInv(first, Gate(e, d, G), s)
<1> DEFINE bk2 == [bk EXCEPT ![t] = Append(SubSeq(bk[t], d + 1, Len(bk[t])), x),
                             ![t + 1] = Append(bk[t + 1], x + 1)]
           D == C \cup G
           y == x + 2
           f == Gate(e, d, G)
<1>1. /\ x \in Nat \ {0} /\ first <= x /\ kNumBitsInWeight \in Nat
  BY WidthAssumption DEF AdderShape
<1>2. Gated(bk, t, d, x, bk2)
  BY DEF Gated
<1>3. AdderRecord(f, bk2, t, y, D, o)
  <2>1. e = [buckets |-> bk, bit |-> t, next |-> x, clauses |-> C, output |-> o]
    BY DEF AdderRecord
  <2>2. e.buckets = bk /\ e.bit = t /\ e.next = x /\ e.clauses = C
    BY <2>1
  <2>3. f = [e EXCEPT !.buckets = bk2, !.next = y, !.clauses = D]
    BY <2>2 DEF Gate
  <2> HIDE DEF bk2, D, y, f
  <2>4. f = [buckets |-> bk2, bit |-> t, next |-> y, clauses |-> D, output |-> o]
    BY ONLY <2>1, <2>3
  <2> QED
    BY <2>4 DEF AdderRecord
<1>4. ClausesBelow(G, y)
  <2>1. y \in Nat
    BY <1>1
  <2>2. G \in SUBSET SUBSET Below(y)
    OBVIOUS
  <2> HIDE DEF y
  <2> QED
    BY <2>1, <2>2, BelowFinite
<1> HIDE DEF bk2
<1>5. Gating(first, bk, t, x, C, o, d, G, bk2)
  BY <1>1, <1>2 DEF Gating
<1>6. AdderShape(first, bk2, t, y, D, o)
  BY <1>4, <1>5, GateShape
<1>7. ASSUME NEW m \in AssignmentsTo(first) PROVE AddCarries(bk2, D, o, m, CostOf(s, m))
  <2> DEFINE c == CostOf(s, m)
  <2>1. m \in SUBSET Below(x)
    <3>1. m \subseteq Below(first)
      BY AssignmentFacts
    <3>2. Below(first) \subseteq Below(x)
      BY <1>1 DEF Below
    <3> QED
      BY <3>1, <3>2
  <2>2. AddCarries(bk, C, o, m, c)
    OBVIOUS
  <2>3. D = C \cup G
    OBVIOUS
  <2> HIDE DEF c, D
  <2>4. AddCarries(bk2, D, o, m, c)
    BY <1>5, <2>1, <2>2, <2>3, GateCarries
  <2> QED
    BY <2>4 DEF c
<1> HIDE DEF D, y, f
<1>8. AdderInv(first, f, s)
  BY <1>3, <1>6, <1>7 DEF AdderInv
<1> QED
  BY <1>8 DEF f

\* The literals of a bucket and the two of a gate on it.
LEMMA BucketLiterals ==
  ASSUME NEW first, NEW bk, NEW t, NEW x, NEW C, NEW o, AdderShape(first, bk, t, x, C, o), NEW b,
         b = bk[t]
  PROVE  /\ b \in Seq(Int) /\ x \in Nat \ {0}
         /\ \A i \in 1 .. Len(b) : b[i] \in Below(x) /\ b[i] \in Below(x + 2)
                                                     /\ -b[i] \in Below(x + 2)
         /\ x \in Below(x + 2) /\ -x \in Below(x + 2)
         /\ x + 1 \in Below(x + 2) /\ -(x + 1) \in Below(x + 2)
<1>1. /\ x \in Nat \ {0} /\ t \in 0 .. kNumBitsInWeight
      /\ bk \in [0 .. kNumBitsInWeight -> Seq(Int)]
      /\ \A j \in 0 .. kNumBitsInWeight : \A i \in 1 .. Len(bk[j]) : bk[j][i] \in Below(x)
  BY DEF AdderShape, Buckets
<1>2. b \in Seq(Int) /\ \A i \in 1 .. Len(b) : b[i] \in Below(x)
  BY <1>1
<1>3. \A l \in Below(x) : l \in Below(x + 2) /\ -l \in Below(x + 2)
  BY <1>1 DEF Below
<1>4. /\ x \in Below(x + 2) /\ -x \in Below(x + 2)
      /\ x + 1 \in Below(x + 2) /\ -(x + 1) \in Below(x + 2)
  BY <1>1 DEF Below
<1> QED
  BY <1>1, <1>2, <1>3, <1>4

\* A step of the adder keeps the invariant.
LEMMA AdderStepKeeps ==
  ASSUME NEW first \in Nat \ {0}, NEW s, NEW e, AdderInv(first, e, s), ~AdderDone(e)
  PROVE  AdderInv(first, AdderStep(e), s)
<1>1. PICK bk, t, x, C, o :
        /\ AdderRecord(e, bk, t, x, C, o) /\ AdderShape(first, bk, t, x, C, o)
        /\ \A m \in AssignmentsTo(first) : AddCarries(bk, C, o, m, CostOf(s, m))
  BY DEF AdderInv
<1>2. e = [buckets |-> bk, bit |-> t, next |-> x, clauses |-> C, output |-> o]
  BY <1>1 DEF AdderRecord
<1>3. e.buckets = bk /\ e.bit = t /\ e.next = x /\ e.clauses = C /\ e.output = o
  BY <1>2
<1>4. t < kNumBitsInWeight /\ t \in 0 .. kNumBitsInWeight
  BY <1>1, <1>3, WidthAssumption DEF AdderDone, AdderShape
<1> DEFINE b == bk[t]
           n == Len(b)
<1>5. /\ b \in Seq(Int) /\ x \in Nat \ {0} /\ n \in Nat
      /\ \A i \in 1 .. n : b[i] \in Below(x) /\ b[i] \in Below(x + 2) /\ -b[i] \in Below(x + 2)
      /\ x \in Below(x + 2) /\ -x \in Below(x + 2)
      /\ x + 1 \in Below(x + 2) /\ -(x + 1) \in Below(x + 2)
  <2> HIDE DEF b
  <2>1. b = bk[t] /\ AdderShape(first, bk, t, x, C, o)
    BY <1>1 DEF b
  <2>2. b \in Seq(Int)
    BY <2>1, BucketLiterals
  <2> QED
    BY <2>1, <2>2, BucketLiterals
<1>6. AdderStep(e) =
        CASE n >= 3 -> Gate(e, 3, FullAdderSum(b[1], b[2], b[3], x)
                                    \cup FullAdderCarry(b[1], b[2], b[3], x + 1))
          [] n = 2 -> Gate(e, 2, HalfAdderSum(b[1], b[2], x) \cup HalfAdderCarry(b[1], b[2], x + 1))
          [] n = 1 -> [e EXCEPT !.output = Append(o, <<b[1], t>>),
                                !.buckets = [bk EXCEPT ![t] = <<>>], !.bit = t + 1]
          [] OTHER -> [e EXCEPT !.bit = t + 1]
  BY <1>3 DEF AdderStep
<1> HIDE DEF b, n
<1>7. CASE n >= 3
  <2> DEFINE G == FullAdderSum(b[1], b[2], b[3], x) \cup FullAdderCarry(b[1], b[2], b[3], x + 1)
             B == Below(x + 2)
             u == b[1]
             v == b[2]
             w == b[3]
             c == x + 1
  <2>1. 1 \in 1 .. n /\ 2 \in 1 .. n /\ 3 \in 1 .. n /\ \A i \in 1 .. 3 : i \in 1 .. n
    BY <1>5, <1>7
  <2>2. /\ u \in B /\ -u \in B /\ v \in B /\ -v \in B /\ w \in B /\ -w \in B
        /\ x \in B /\ -x \in B /\ c \in B /\ -c \in B
    BY <1>5, <2>1
  <2>3. AdderStep(e) = Gate(e, 3, G)
    BY <1>6, <1>7
  <2>4. Works(b, 3, x, G)
    <3>1. \A i \in 1 .. 3 : b[i] \in Below(x)
      BY <1>5, <2>1
    <3> QED
      BY <1>5, <3>1, FullAdderWorks
  <2>5. G = FullAdderSum(u, v, w, x) \cup FullAdderCarry(u, v, w, c)
    OBVIOUS
  <2> HIDE DEF G, B, u, v, w, c
  <2>6. G \in SUBSET SUBSET B
    BY <2>2, <2>5, GateLiterals
  <2>7. 3 \in 1 .. Len(bk[t])
    BY <2>1 DEF n, b
  <2>8. AdderInv(first, Gate(e, 3, G), s)
    BY <1>1, <1>4, <2>4, <2>6, <2>7, GateKeeps DEF b, B
  <2> QED
    BY <2>3, <2>8
<1>8. CASE n = 2
  <2> DEFINE G == HalfAdderSum(b[1], b[2], x) \cup HalfAdderCarry(b[1], b[2], x + 1)
             B == Below(x + 2)
             u == b[1]
             v == b[2]
             c == x + 1
  <2>1. 1 \in 1 .. n /\ 2 \in 1 .. n /\ \A i \in 1 .. 2 : i \in 1 .. n
    BY <1>5, <1>8
  <2>2. /\ u \in B /\ -u \in B /\ v \in B /\ -v \in B
        /\ x \in B /\ -x \in B /\ c \in B /\ -c \in B
    BY <1>5, <2>1
  <2>3. AdderStep(e) = Gate(e, 2, G)
    BY <1>6, <1>8
  <2>4. Works(b, 2, x, G)
    <3>1. \A i \in 1 .. 2 : b[i] \in Below(x)
      BY <1>5, <2>1
    <3> QED
      BY <1>5, <3>1, HalfAdderWorks
  <2>5. G = HalfAdderSum(u, v, x) \cup HalfAdderCarry(u, v, c)
    OBVIOUS
  <2> HIDE DEF G, B, u, v, c
  <2>6. G \in SUBSET SUBSET B
    BY <2>2, <2>5, GateLiterals
  <2>7. 2 \in 1 .. Len(bk[t])
    BY <2>1 DEF n, b
  <2>8. AdderInv(first, Gate(e, 2, G), s)
    BY <1>1, <1>4, <2>4, <2>6, <2>7, GateKeeps DEF b, B
  <2> QED
    BY <2>3, <2>8
<1>9. CASE n = 1
  <2> DEFINE bk2 == [bk EXCEPT ![t] = <<>>]
             o2 == Append(o, <<bk[t][1], t>>)
             u == t + 1
             f == AdderStep(e)
  <2>1. f = [e EXCEPT !.output = o2, !.buckets = bk2, !.bit = u]
    BY <1>6, <1>9 DEF b
  <2>2. Sending(first, bk, t, x, C, o, bk2, o2)
    BY <1>1, <1>4, <1>9, WidthAssumption DEF Sending, n, b
  <2> HIDE DEF bk2, o2, f, u
  <2>3. AdderRecord(f, bk2, u, x, C, o2)
    BY <1>2, <2>1 DEF AdderRecord
  <2>4. AdderShape(first, bk2, u, x, C, o2)
    BY <2>2, SendShape DEF u
  <2>5. ASSUME NEW m \in AssignmentsTo(first) PROVE AddCarries(bk2, C, o2, m, CostOf(s, m))
    <3> DEFINE c == CostOf(s, m)
    <3>1. AddCarries(bk, C, o, m, c)
      BY <1>1
    <3> HIDE DEF c
    <3>2. AddCarries(bk2, C, o2, m, c)
      BY <2>2, <3>1, SendCarries
    <3> QED
      BY <3>2 DEF c
  <2>6. AdderInv(first, f, s)
    BY <2>3, <2>4, <2>5 DEF AdderInv
  <2> QED
    BY <2>6 DEF f
<1>10. CASE n = 0
  <2> DEFINE u == t + 1
             f == AdderStep(e)
  <2>1. f = [e EXCEPT !.bit = u]
    BY <1>6, <1>10
  <2>2. AdderShape(first, bk, u, x, C, o)
    BY <1>1, <1>4, <1>10, SkipShape DEF n, b
  <2> HIDE DEF u, f
  <2>3. AdderRecord(f, bk, u, x, C, o)
    BY <1>2, <2>1 DEF AdderRecord
  <2>4. AdderInv(first, f, s)
    BY <1>1, <2>2, <2>3 DEF AdderInv
  <2> QED
    BY <2>4 DEF f
<1> QED
  BY <1>5, <1>7, <1>8, <1>9, <1>10

-----------------------------------------------------------------------------
(***************************************************************************)
(* The adder: the literals in the buckets of the bits of their weights.    *)
(***************************************************************************)
\* The bits of a weight add up to it.
LEMMA WeightOfBits ==
  ASSUME NEW w \in Nat, w < 2^kNumBitsInWeight, NEW h \in {0, 1}, NEW F,
         \A i \in 0 .. kNumBitsInWeight :
           F[i] = IF i < kNumBitsInWeight /\ Bit(w, i) = 1 /\ h = 1 THEN 2^i ELSE 0
  PROVE  SumFunctionOnSet(F, 0 .. kNumBitsInWeight) = h * w
<1> DEFINE k == kNumBitsInWeight
           S == 0 .. k
           T == 0 .. k - 1
<1>1. k \in Nat
  BY WidthAssumption
<1>2. \A i \in Nat : 2^i \in Nat /\ Bit(w, i) \in {0, 1}
  BY PowerOfTwo, Halves
<1>3. \A i \in S : i \in Nat /\ F[i] = IF i < k /\ Bit(w, i) = 1 /\ h = 1 THEN 2^i ELSE 0
  OBVIOUS
<1>4. IsFiniteSet(S)
  <2>1. 0 \in Int /\ k \in Int
    BY <1>1
  <2> HIDE DEF k
  <2> QED
    BY <2>1, FS_Interval
<1>5. \A i \in T : i \in S /\ i < k /\ i \in Nat
  BY <1>1
<1>6. \A i \in S \ T : ~(i < k)
  BY <1>1
<1> HIDE DEF S, T, k
<1>7. Integral(F, S)
  <2>1. \A i \in S : F[i] \in Int
    BY <1>2, <1>3
  <2> QED
    BY <1>4, <2>1 DEF Integral
<1>8. SumFunctionOnSet(F, S) = SumFunctionOnSet(F, T)
  <2>1. T \in SUBSET S
    BY <1>5
  <2>2. \A i \in S \ T : F[i] = 0
    BY <1>3, <1>6
  <2> QED
    BY <1>7, <2>1, <2>2, SumSupport
<1>9. CASE h = 0
  <2>1. \A i \in S : F[i] = 0
    BY <1>3, <1>9
  <2>2. SumFunctionOnSet(F, S) = 0
    BY <1>4, <2>1, SumZero
  <2> QED
    BY <1>9, <2>2 DEF S, k
<1>10. CASE h = 1
  <2>1. ASSUME NEW i \in 0 .. k - 1 PROVE F[i] = 2^i * Bit(w, i)
    <3>1. i \in S /\ i < k /\ i \in Nat
      BY <1>5 DEF T
    <3> DEFINE p == 2^i
               d == Bit(w, i)
    <3>2. p \in Nat /\ d \in {0, 1}
      BY <1>2, <3>1
    <3>3. F[i] = IF d = 1 THEN p ELSE 0
      BY <1>3, <1>10, <3>1
    <3> HIDE DEF p, d
    <3>4. F[i] = p * d
      <4>1. p * 0 = 0 /\ p * 1 = p
        BY <3>2
      <4> QED
        BY <3>2, <3>3, <4>1
    <3> QED
      BY <3>4 DEF p, d
  <2>2. w < 2^k
    BY DEF k
  <2>3. w = SumFunctionOnSet(F, 0 .. k - 1)
    BY <1>1, <2>1, <2>2, BitsSum
  <2>4. SumFunctionOnSet(F, S) = w
    BY <1>8, <2>3 DEF T
  <2>5. 1 * w = w
    OBVIOUS
  <2> QED
    BY <1>10, <2>4, <2>5 DEF S, k
<1> QED
  BY <1>9, <1>10

\* One bucket: the literals of a part of the soft literals.
BucketMadeOf(in, r) == r = [j \in 1 .. Cardinality(in) |-> SortedWLits(in)[j][2]]

\* A bucket filled with the literals of a set counts those that hold.
HitsIn(s, in, M, H) ==
  in \in SUBSET s /\ \A wl \in s : H[wl] = IF wl \in in /\ Holds(M, wl[2]) THEN 1 ELSE 0

BucketHits(first, s, M, H, r) ==
  /\ r \in Seq(Int) /\ \A j \in 1 .. Len(r) : r[j] \in Below(first)
  /\ Hits(M, r, Len(r)) = SumFunctionOnSet(H, s)
  /\ Integral(H, s)

LEMMA BucketOf ==
  ASSUME NEW first \in Nat \ {0}, NEW s, WeightedLits(first, s), NEW in, NEW r, BucketMadeOf(in, r),
         NEW M, NEW H, HitsIn(s, in, M, H)
  PROVE  BucketHits(first, s, M, H, r)
<1>a. in \in SUBSET s /\ \A wl \in s : H[wl] = IF wl \in in /\ Holds(M, wl[2]) THEN 1 ELSE 0
  BY DEF HitsIn
<1> USE <1>a
<1> DEFINE n == Cardinality(in)
           b == SortedWLits(in)
           S == 1 .. n
           F == [j \in 1 .. n |-> Truth(M, r[j])]
<1>1. IsFiniteSet(s) /\ IsFiniteSet(in) /\ WeightedLits(first, in)
  <2>1. IsFiniteSet(s)
    BY DEF WeightedLits
  <2>2. IsFiniteSet(in)
    BY <2>1, FS_Subset
  <2> QED
    BY <2>1, <2>2 DEF WeightedLits
<1>2. /\ n \in Nat /\ b \in [S -> in] /\ \A i, j \in S : b[i] = b[j] => i = j
      /\ \A wl \in in : \E i \in S : b[i] = wl
  BY <1>1, SortedIsBijection
<1>3. \A wl \in in : wl \in s /\ wl[2] \in Below(first) /\ wl[2] \in Int
  BY DEF WeightedLits, Below
<1>0. r = [j \in S |-> b[j][2]]
  BY DEF BucketMadeOf
<1>4. \A j \in S : r[j] = b[j][2] /\ b[j] \in in
  BY <1>0, <1>2
<1>5. r \in Seq(Int) /\ Len(r) = n /\ \A j \in S : r[j] \in Below(first)
  <2>1. r = [j \in S |-> r[j]]
    BY <1>0
  <2> HIDE DEF b
  <2>2. \A j \in S : r[j] \in Int /\ r[j] \in Below(first)
    BY <1>3, <1>4
  <2>3. r \in [S -> Int]
    BY <2>1, <2>2
  <2> HIDE DEF n
  <2>5. n \in Nat /\ r \in [1 .. n -> Int]
    BY <1>2, <2>3
  <2>6. DOMAIN r = 1 .. n
    BY ONLY <2>5
  <2>4. r \in Seq(Int) /\ Len(r) = n
    BY ONLY <2>5, <2>6
  <2> QED
    BY <2>2, <2>4
<1>6. IsFiniteSet(S)
  <2>1. 1 \in Int /\ n \in Int
    BY <1>2
  <2> HIDE DEF n
  <2> QED
    BY <2>1, FS_Interval
<1>7. \A wl \in s : H[wl] \in Int
  OBVIOUS
<1>8. Integral(H, s) /\ Integral(H, in)
  BY <1>1, <1>7 DEF Integral
<1>9. \A j \in S : F[j] = H[b[j]]
  <2> SUFFICES ASSUME NEW j \in S PROVE F[j] = H[b[j]]
    OBVIOUS
  <2> DEFINE wl == b[j]
  <2>1. wl \in in /\ wl \in s /\ r[j] = wl[2]
    BY <1>3, <1>4
  <2>2. F[j] = Truth(M, r[j])
    OBVIOUS
  <2> HIDE DEF wl, F
  <2>3. F[j] = H[wl]
    BY <2>1, <2>2 DEF Truth
  <2> QED
    BY <2>3 DEF wl
<1>10. Hits(M, r, Len(r)) = SumFunctionOnSet(F, S)
  BY <1>5 DEF Hits
<1> HIDE DEF F, S, b, n
<1>11. SumFunctionOnSet(F, S) = SumFunctionOnSet(H, in)
  BY <1>2, <1>6, <1>8, <1>9, SumRename
<1>12. SumFunctionOnSet(H, s) = SumFunctionOnSet(H, in)
  <2>1. \A wl \in s \ in : H[wl] = 0
    OBVIOUS
  <2> QED
    BY <1>8, <2>1, SumSupport
<1> QED
  BY <1>5, <1>8, <1>10, <1>11, <1>12 DEF S, BucketHits

\* The buckets the adder starts with.
FirstBuckets(s) ==
  [i \in 0 .. kNumBitsInWeight |->
     LET in == {wl \in s : i < kNumBitsInWeight /\ Bit(wl[1], i) = 1}
     IN  [j \in 1 .. Cardinality(in) |-> SortedWLits(in)[j][2]]]

FirstBucketIs(first, s, M, i, r) ==
  /\ r \in Seq(Int) /\ \A j \in 1 .. Len(r) : r[j] \in Below(first)
  /\ Hits(M, r, Len(r))
       = SumFunctionOnSet([wl \in s |-> IF i < kNumBitsInWeight /\ Bit(wl[1], i) = 1
                                           /\ Holds(M, wl[2]) THEN 1 ELSE 0], s)
  /\ Integral([wl \in s |-> IF i < kNumBitsInWeight /\ Bit(wl[1], i) = 1
                               /\ Holds(M, wl[2]) THEN 1 ELSE 0], s)

\* Each of the buckets the adder starts with does.
LEMMA FirstBucket ==
  ASSUME NEW first \in Nat \ {0}, NEW s, WeightedLits(first, s), NEW M,
         NEW i \in 0 .. kNumBitsInWeight
  PROVE  FirstBucketIs(first, s, M, i, FirstBuckets(s)[i])
<1> DEFINE in == {wl \in s : i < kNumBitsInWeight /\ Bit(wl[1], i) = 1}
           r == FirstBuckets(s)[i]
           H == [wl \in s |-> IF i < kNumBitsInWeight /\ Bit(wl[1], i) = 1
                                 /\ Holds(M, wl[2]) THEN 1 ELSE 0]
<1>1. BucketMadeOf(in, r)
  BY DEF FirstBuckets, BucketMadeOf
<1>2. \A wl \in s : wl \in in <=> i < kNumBitsInWeight /\ Bit(wl[1], i) = 1
  OBVIOUS
<1>3. \A wl \in s : H[wl] = IF i < kNumBitsInWeight /\ Bit(wl[1], i) = 1
                                 /\ Holds(M, wl[2]) THEN 1 ELSE 0
  OBVIOUS
<1>4. in \in SUBSET s
  OBVIOUS
<1> HIDE DEF in, r, H
<1>5. \A wl \in s : H[wl] = IF wl \in in /\ Holds(M, wl[2]) THEN 1 ELSE 0
  BY <1>2, <1>3
<1>6. /\ r \in Seq(Int) /\ \A j \in 1 .. Len(r) : r[j] \in Below(first)
      /\ Hits(M, r, Len(r)) = SumFunctionOnSet(H, s)
      /\ Integral(H, s)
  <2>1. WeightedLits(first, s) /\ first \in Nat \ {0}
    OBVIOUS
  <2>2. HitsIn(s, in, M, H)
    BY <1>4, <1>5 DEF HitsIn
  <2>3. BucketHits(first, s, M, H, r)
    BY <1>1, <2>1, <2>2, BucketOf
  <2> QED
    BY <2>3 DEF BucketHits
<1>7. FirstBucketIs(first, s, M, i, r)
  BY <1>6 DEF FirstBucketIs, H
<1> QED
  BY <1>7 DEF r

\* They carry the cost.
LEMMA FirstLoad ==
  ASSUME NEW first \in Nat \ {0}, NEW s, WeightedLits(first, s),
         \A wl \in s : wl[1] < 2^kNumBitsInWeight, NEW m, NEW M,
         \A l \in Below(first) : l \in m <=> Holds(M, l)
  PROVE  Load(FirstBuckets(s), M) = CostOf(s, m)
<1> DEFINE k == kNumBitsInWeight
           T == 0 .. k
           bk == FirstBuckets(s)
           H(i) == [wl \in s |-> IF i < k /\ Bit(wl[1], i) = 1 /\ Holds(M, wl[2]) THEN 1 ELSE 0]
           F == [wl \in s |-> [i \in T |-> IF i < k /\ Bit(wl[1], i) = 1 /\ Holds(M, wl[2])
                                           THEN 2^i ELSE 0]]
           K == [i \in T |-> [wl \in s |-> F[wl][i]]]
           R == [wl \in s |-> IF wl[2] \in m THEN wl[1] ELSE 0]
           C == [i \in T |-> 2^i * Hits(M, bk[i], Len(bk[i]))]
<1>1. IsFiniteSet(s) /\ \A wl \in s : wl[1] \in Nat /\ wl[2] \in Below(first)
  BY DEF WeightedLits
<1>2. IsFiniteSet(T)
  <2>1. 0 \in Int /\ k \in Int
    BY WidthAssumption
  <2> HIDE DEF k
  <2> QED
    BY <2>1, FS_Interval
<1>3. \A i \in T : i \in Nat /\ 2^i \in Nat
  BY PowerOfTwo
<1>4. \A wl \in s : \A i \in T :
        F[wl][i] = IF i < k /\ Bit(wl[1], i) = 1 /\ Holds(M, wl[2]) THEN 2^i ELSE 0
  OBVIOUS
<1>5. \A wl \in s : \A i \in T : F[wl][i] \in Int
  <2> HIDE DEF F, T
  <2> QED
    BY <1>3, <1>4
<1>6. \A i \in T : \A wl \in s : K[i][wl] = F[wl][i]
  <2> HIDE DEF F, T
  <2> QED
    OBVIOUS
<1>7. ASSUME NEW wl \in s PROVE R[wl] = SumFunctionOnSet(F[wl], T)
  <2> DEFINE f == F[wl]
             w == wl[1]
             h == IF Holds(M, wl[2]) THEN 1 ELSE 0
  <2>1. \A i \in 0 .. k : f[i] = IF i < k /\ Bit(w, i) = 1 /\ h = 1 THEN 2^i ELSE 0
    OBVIOUS
  <2>2. w \in Nat /\ w < 2^k /\ h \in {0, 1}
    BY <1>1
  <2>3. R[wl] = IF Holds(M, wl[2]) THEN w ELSE 0
    BY <1>1
  <2>4. R[wl] = h * w
    <3> HIDE DEF w
    <3>1. 1 * w = w /\ 0 * w = 0
      BY <2>2
    <3> QED
      BY <2>3, <3>1
  <2> HIDE DEF f, w, h
  <2>5. SumFunctionOnSet(f, 0 .. k) = h * w
    BY <2>1, <2>2, WeightOfBits
  <2> QED
    BY <2>4, <2>5 DEF f
<1>8. ASSUME NEW i \in T PROVE C[i] = SumFunctionOnSet(K[i], s)
  <2> DEFINE f == K[i]
             h == H(i)
             p == 2^i
             r == bk[i]
  <2>1. FirstBucketIs(first, s, M, i, r)
    BY FirstBucket
  <2>2. Hits(M, r, Len(r)) = SumFunctionOnSet(h, s) /\ Integral(h, s)
    BY <2>1 DEF FirstBucketIs
  <2>3. p \in Int
    BY <1>3
  <2>4. \A wl \in s : f[wl] = p * h[wl]
    <3> SUFFICES ASSUME NEW wl \in s PROVE f[wl] = p * h[wl]
      OBVIOUS
    <3> DEFINE c == i < k /\ Bit(wl[1], i) = 1 /\ Holds(M, wl[2])
    <3>1. f[wl] = F[wl][i]
      BY <1>6
    <3>2. F[wl][i] = IF c THEN p ELSE 0
      BY <1>4
    <3>3. h[wl] = IF c THEN 1 ELSE 0
      OBVIOUS
    <3> HIDE DEF f, h, c, p, F
    <3>4. p * 1 = p /\ p * 0 = 0
      BY <2>3
    <3> QED
      BY <3>1, <3>2, <3>3, <3>4
  <2>5. C[i] = p * Hits(M, r, Len(r))
    OBVIOUS
  <2> HIDE DEF f, h, p, r, C
  <2>6. SumFunctionOnSet(f, s) = p * SumFunctionOnSet(h, s)
    BY <2>2, <2>3, <2>4, SumScale
  <2> QED
    BY <2>2, <2>5, <2>6 DEF f
<1>9. CostOf(s, m) = SumFunctionOnSet(R, s) /\ Load(bk, M) = SumFunctionOnSet(C, T)
  BY DEF CostOf, SumFunction, Load
<1> HIDE DEF F, K, R, C, T
<1>10. Table(F, K, R, C, s, T)
  BY <1>1, <1>2, <1>5, <1>6, <1>7, <1>8 DEF Table
<1>11. SumFunctionOnSet(R, s) = SumFunctionOnSet(C, T)
  BY <1>10, SumExchange
<1> QED
  BY <1>9, <1>11

\* So the adder starts in its invariant.
LEMMA AdderInit ==
  ASSUME NEW first \in Nat \ {0}, NEW s, WeightedLits(first, s),
         \A wl \in s : wl[1] < 2^kNumBitsInWeight, NEW e, e = InitAdder(s, first)
  PROVE  AdderInv(first, e, s)
<1> DEFINE k == kNumBitsInWeight
           bk == FirstBuckets(s)
           x == first
<1>1. AdderRecord(e, bk, 0, x, {}, <<>>)
  BY DEF AdderRecord, InitAdder, FirstBuckets
<1>2. ASSUME NEW i \in 0 .. k
      PROVE  bk[i] \in Seq(Int) /\ \A j \in 1 .. Len(bk[i]) : bk[i][j] \in Below(x)
  BY FirstBucket DEF FirstBucketIs
<1>3. bk \in [0 .. k -> Seq(Int)]
  <2>1. bk = [i \in 0 .. k |-> bk[i]]
    BY DEF FirstBuckets
  <2> HIDE DEF bk, k
  <2> QED
    BY <1>2, <2>1
<1> HIDE DEF bk
<1>4. AdderShape(first, bk, 0, x, {}, <<>>)
  <2>1. Buckets(bk, x)
    BY <1>2, <1>3 DEF Buckets
  <2>2. Outputs(<<>>, 0, x)
    <3> DEFINE o == <<>>
    <3>1. o \in Seq(Int \X Nat) /\ Len(o) = 0
      OBVIOUS
    <3> HIDE DEF o
    <3>2. Outputs(o, 0, x)
      BY <3>1 DEF Outputs
    <3> QED
      BY <3>2 DEF o
  <2>3. ClausesBelow({}, x)
    <3>1. UNION {} = {}
      OBVIOUS
    <3> QED
      BY <3>1, FS_EmptySet DEF ClausesBelow
  <2>4. 0 \in 0 .. k /\ \A j \in 0 .. 0 - 1 : Len(bk[j]) = 0
    BY WidthAssumption
  <2> QED
    BY <2>1, <2>2, <2>3, <2>4 DEF AdderShape
<1>5. ASSUME NEW m \in AssignmentsTo(first) PROVE AddCarries(bk, {}, <<>>, m, CostOf(s, m))
  <2>1. PICK M \in SUBSET (1 .. first - 1) :
               \A l \in Below(first) : l \in m <=> Holds(M, l)
    BY AssignmentFacts
  <2>2. m \subseteq Below(first)
    BY AssignmentFacts
  <2>3. M \in SUBSET Nat
    OBVIOUS
  <2>4. m \subseteq TrueIn(M)
    BY <2>1, <2>2 DEF TrueIn, Below
  <2>5. Satisfied(M, {})
    BY DEF Satisfied
  <2> DEFINE o == <<>>
  <2>6. Len(o) = 0
    OBVIOUS
  <2>7. Load(bk, M) + Paid(o, M) = CostOf(s, m)
    <3>1. Load(bk, M) = CostOf(s, m)
      BY <2>1, FirstLoad DEF bk
    <3>2. Paid(o, M) = 0
      <4>1. 1 .. Len(o) = {}
        BY <2>6
      <4> QED
        BY <4>1, SumEmpty DEF Paid
    <3>3. CostOf(s, m) \in Nat
      <4> DEFINE b == SortedWLits(s)
                 val == [i \in 1 .. Cardinality(s) |-> IF b[i][2] \in m THEN b[i][1] ELSE 0]
      <4>1. \A i \in 1 .. Cardinality(s) : val[i] = IF b[i][2] \in m THEN b[i][1] ELSE 0
        OBVIOUS
      <4> HIDE DEF val
      <4> QED
        BY <4>1, CostBySorted DEF b
    <3> HIDE DEF o
    <3> QED
      BY <3>1, <3>2, <3>3
  <2>8. AllDecided(bk, {}, o, m, M)
    <3> SUFFICES ASSUME NEW K \in SUBSET Int, m \subseteq K
                 PROVE  BucketsDecided(bk, K, M) /\ OutputsDecided(o, K, M)
      BY DEF AllDecided
    <3>1. ASSUME NEW l \in Below(first) PROVE Decided(K, M, l)
      <4>1. l \in Int \ {0} /\ -l \in Below(first)
        BY DEF Below
      <4>2. Holds(M, l) => l \in K
        BY <2>1
      <4>3. ~Holds(M, l) => -l \in K
        BY <2>1, <4>1, HoldsNeg
      <4> QED
        BY <4>2, <4>3 DEF Decided
    <3>2. BucketsDecided(bk, K, M)
      BY <1>2, <3>1 DEF BucketsDecided
    <3>3. OutputsDecided(o, K, M)
      BY <2>6 DEF OutputsDecided
    <3> QED
      BY <3>2, <3>3
  <2> HIDE DEF o
  <2>9. AddCarries(bk, {}, o, m, CostOf(s, m))
    BY <2>3, <2>4, <2>5, <2>7, <2>8 DEF AddCarries
  <2> QED
    BY <2>9 DEF o
<1> HIDE DEF x
<1> QED
  BY <1>1, <1>4, <1>5 DEF AdderInv

-----------------------------------------------------------------------------
(***************************************************************************)
(* The adder: what the SAT solver reads off it.                            *)
(***************************************************************************)
\* The literals of a bucket that are known are those that hold.
LEMMA BitsAreHits ==
  ASSUME NEW b \in Seq(Int), NEW M, NEW K,
         \A i \in 1 .. Len(b) : b[i] \in K <=> Holds(M, b[i])
  PROVE  BitsTrue(b, K) = Hits(M, b, Len(b))
<1> DEFINE n == Len(b)
           S == 1 .. n
           A == {i \in S : b[i] \in K}
           F == [i \in S |-> Truth(M, b[i])]
<1>1. n \in Nat /\ DOMAIN b = S
  OBVIOUS
<1>2. IsFiniteSet(S)
  <2>1. 1 \in Int /\ n \in Int
    BY <1>1
  <2> HIDE DEF n
  <2> QED
    BY <2>1, FS_Interval
<1>3. \A i \in S : F[i] = IF i \in A THEN 1 ELSE 0
  BY DEF Truth
<1>4. BitsTrue(b, K) = Cardinality(A)
  <2>1. A = {i \in DOMAIN b : b[i] \in K}
    BY <1>1
  <2> QED
    BY <2>1 DEF BitsTrue
<1>5. S \cap A = A /\ A \in SUBSET S
  OBVIOUS
<1>6. Hits(M, b, n) = SumFunctionOnSet(F, S)
  BY DEF Hits
<1> HIDE DEF F, A, S
<1> DEFINE c == 1
<1>7. c \in Int /\ (\A i \in A : F[i] = c) /\ \A i \in S \ A : F[i] = 0
  BY <1>3, <1>5
<1> HIDE DEF c
<1>8. SumFunctionOnSet(F, S) = c * Cardinality(A)
  BY <1>2, <1>5, <1>7, SumConstant
<1>9. IsFiniteSet(A)
  BY <1>2, <1>5, FS_Subset
<1>10. Cardinality(A) \in Nat
  BY <1>9, FS_CardinalityType
<1>11. c * Cardinality(A) = Cardinality(A)
  BY <1>10 DEF c
<1>12. Hits(M, b, n) = Cardinality(A)
  BY <1>5, <1>6, <1>8, <1>11
<1> QED
  BY <1>4, <1>12

\* What the SAT solver reads off the buckets and outputs is the cost.
LEMMA AdderIsRead ==
  ASSUME NEW first \in Nat \ {0}, NEW s, NEW e, AdderInv(first, e, s),
         NEW m \in AssignmentsTo(first), NEW known,
         known = Propagated(e.clauses, m)
  PROVE  SumFunction([i \in 0 .. kNumBitsInWeight |-> 2^i * BitsTrue(e.buckets[i], known)])
         + SumFunction([i \in DOMAIN e.output |->
                          IF e.output[i][1] \in known THEN 2^e.output[i][2] ELSE 0])
           = CostOf(s, m)
<1>1. PICK bk, t, x, C, o :
        /\ AdderRecord(e, bk, t, x, C, o) /\ AdderShape(first, bk, t, x, C, o)
        /\ \A a \in AssignmentsTo(first) : AddCarries(bk, C, o, a, CostOf(s, a))
  BY DEF AdderInv
<1> DEFINE k == kNumBitsInWeight
           T == 0 .. k
           F == [i \in T |-> 2^i * BitsTrue(e.buckets[i], known)]
           P == [i \in DOMAIN e.output |->
                   IF e.output[i][1] \in known THEN 2^e.output[i][2] ELSE 0]
<1>2. e.buckets = bk /\ e.clauses = C /\ e.output = o
  BY <1>1 DEF AdderRecord
<1>3. /\ x \in Nat \ {0} /\ C \in SUBSET SUBSET Below(x) /\ IsFiniteSet(UNION C)
      /\ bk \in [T -> Seq(Int)]
      /\ \A j \in T : \A i \in 1 .. Len(bk[j]) : bk[j][i] \in Below(x)
      /\ o \in Seq(Int \X Nat)
      /\ \A i \in 1 .. Len(o) : o[i][1] \in Below(x)
  BY <1>1 DEF AdderShape, ClausesBelow, Buckets, Outputs
<1>4. C \in Clauses
  BY <1>3 DEF Clauses, Below
<1>5. PICK M \in SUBSET Nat : /\ m \subseteq TrueIn(M) /\ Satisfied(M, C)
                              /\ AllDecided(bk, C, o, m, M)
                              /\ Load(bk, M) + Paid(o, M) = CostOf(s, m)
  BY <1>1 DEF AddCarries
<1>6. m \subseteq known /\ known \subseteq TrueIn(M) /\ Closed(known, C)
  BY <1>2, <1>3, <1>4, <1>5, PropagatedIsClosed
<1>7. BucketsDecided(bk, known, M) /\ OutputsDecided(o, known, M)
  <2>1. known \in SUBSET Int
    BY <1>6 DEF TrueIn
  <2> QED
    BY <1>5, <1>6, <2>1 DEF AllDecided
<1>8. \A l : Decided(known, M, l) => (l \in known <=> Holds(M, l))
  BY <1>6 DEF TrueIn, Decided
<1>9. ASSUME NEW i \in T PROVE BitsTrue(bk[i], known) = Hits(M, bk[i], Len(bk[i]))
  <2> DEFINE b == bk[i]
  <2>1. b \in Seq(Int)
    BY <1>3
  <2>2. \A j \in 1 .. Len(b) : b[j] \in known <=> Holds(M, b[j])
    BY <1>7, <1>8 DEF BucketsDecided
  <2> HIDE DEF b
  <2>3. BitsTrue(b, known) = Hits(M, b, Len(b))
    BY <2>1, <2>2, BitsAreHits
  <2> QED
    BY <2>3 DEF b
<1>10. SumFunction(F) = Load(bk, M)
  <2>1. F = [i \in T |-> 2^i * Hits(M, bk[i], Len(bk[i]))]
    BY <1>2, <1>9
  <2>2. DOMAIN F = T
    OBVIOUS
  <2>3. SumFunction(F) = SumFunctionOnSet(F, T)
    <3> HIDE DEF F, T
    <3> QED
      BY <2>2 DEF SumFunction
  <2> QED
    BY <2>1, <2>3 DEF Load
<1>11. SumFunction(P) = Paid(o, M)
  <2>0. DOMAIN o = 1 .. Len(o)
    BY <1>3
  <2>1. P = [i \in 1 .. Len(o) |-> IF Holds(M, o[i][1]) THEN 2^o[i][2] ELSE 0]
    <3>1. \A i \in 1 .. Len(o) : o[i][1] \in known <=> Holds(M, o[i][1])
      BY <1>7, <1>8 DEF OutputsDecided
    <3> QED
      BY <1>2, <2>0, <3>1
  <2>2. DOMAIN P = 1 .. Len(o)
    BY <2>1
  <2>3. SumFunction(P) = SumFunctionOnSet(P, 1 .. Len(o))
    <3> HIDE DEF P
    <3> QED
      BY <2>2 DEF SumFunction
  <2> QED
    BY <2>1, <2>3 DEF Paid
<1> HIDE DEF F, P
<1>12. SumFunction(F) + SumFunction(P) = CostOf(s, m)
  BY <1>5, <1>10, <1>11
<1> QED
  BY <1>12 DEF F, P

-----------------------------------------------------------------------------
(***************************************************************************)
(* The comparator: what a bound without some of its bits still says.       *)
(***************************************************************************)
Shift(w, i) == w \div 2^i

\* A quotient by its last bit and the next quotient.
LEMMA ShiftFacts ==
  ASSUME NEW w \in Nat, NEW i \in Nat
  PROVE  /\ Shift(w, i) \in Nat /\ Bit(w, i) \in {0, 1}
         /\ Shift(w, i) = Bit(w, i) + 2 * Shift(w, i + 1)
         /\ Shift(w, 0) = w
         /\ w < 2^i => Shift(w, i) = 0
<1>1. w < 2^i => Shift(w, i) = 0
  <2> SUFFICES ASSUME w < 2^i PROVE w \div 2^i = 0
    BY DEF Shift
  <2> DEFINE p == 2^i
             z == p * 0
             t == 0
  <2>1. p \in Nat /\ p >= 1 /\ w < p
    BY PowerOfTwo
  <2> HIDE DEF p
  <2>2. z = 0 /\ w \in 0 .. p - 1
    BY <2>1
  <2>3. w = w + z /\ t \in Nat /\ z = p * t
    BY <2>2
  <2> HIDE DEF z, t
  <2>4. w \div p = t
    BY <2>1, <2>2, <2>3, Quotient
  <2> QED
    BY <2>4 DEF p, t
<1> QED
  BY <1>1, Halves DEF Shift

\* The bits from h up are those of the quotient by 2^h.
LEMMA SameUpward ==
  ASSUME NEW c \in Nat, NEW w \in Nat, NEW h \in Nat, Shift(c, h) = Shift(w, h)
  PROVE  \A j \in Nat : j >= h => Shift(c, j) = Shift(w, j) /\ Bit(c, j) = Bit(w, j)
<1> DEFINE G == {n \in Nat : Shift(c, h + n) = Shift(w, h + n)}
<1>1. ASSUME NEW j \in Nat, Shift(c, j) = Shift(w, j)
      PROVE  Bit(c, j) = Bit(w, j) /\ Shift(c, j + 1) = Shift(w, j + 1)
  <2> DEFINE a == Bit(c, j)
             b == Bit(w, j)
             y == Shift(c, j + 1)
             z == Shift(w, j + 1)
  <2>1. a \in {0, 1} /\ Shift(c, j) = a + 2 * y /\ b \in {0, 1} /\ Shift(w, j) = b + 2 * z
    BY ShiftFacts
  <2>2. y \in Nat /\ z \in Nat
    <3>1. j + 1 \in Nat
      OBVIOUS
    <3> QED
      BY <3>1, ShiftFacts
  <2>3. a + 2 * y = b + 2 * z
    BY <1>1, <2>1
  <2> HIDE DEF a, b, y, z
  <2>4. a = b /\ y = z
    BY <2>1, <2>2, <2>3
  <2> QED
    BY <2>4 DEF a, b, y, z
<1>2. 0 \in G
  <2>1. h + 0 = h
    OBVIOUS
  <2> QED
    BY <2>1
<1>3. ASSUME NEW n \in Nat, n \in G PROVE n + 1 \in G
  <2>1. h + n \in Nat /\ (h + n) + 1 = h + (n + 1) /\ n + 1 \in Nat
    OBVIOUS
  <2>2. Shift(c, h + n) = Shift(w, h + n)
    BY <1>3
  <2>3. Shift(c, (h + n) + 1) = Shift(w, (h + n) + 1)
    BY <1>1, <2>1, <2>2
  <2> QED
    BY <2>1, <2>3
<1>4. \A n \in Nat : n \in G
  <2> HIDE DEF G
  <2> QED
    BY <1>2, <1>3, NumberInduction
<1>5. ASSUME NEW j \in Nat, j >= h PROVE Shift(c, j) = Shift(w, j)
  <2>1. j - h \in Nat /\ h + (j - h) = j
    BY <1>5
  <2>2. j - h \in G
    BY <1>4, <2>1
  <2> QED
    BY <2>1, <2>2
<1> QED
  BY <1>1, <1>5

\* From above downwards, equal bits give equal quotients.
LEMMA SameDownward ==
  ASSUME NEW c \in Nat, NEW w \in Nat, NEW k \in Nat, NEW h \in 0 .. k, Shift(c, k) = Shift(w, k),
         \A j \in h .. k - 1 : Bit(c, j) = Bit(w, j)
  PROVE  Shift(c, h) = Shift(w, h)
<1> DEFINE G == {n \in Nat : n <= k - h => Shift(c, k - n) = Shift(w, k - n)}
<1>1. 0 \in G
  <2>1. k - 0 = k
    OBVIOUS
  <2> QED
    BY <2>1
<1>2. ASSUME NEW n \in Nat, n \in G PROVE n + 1 \in G
  <2> SUFFICES ASSUME n + 1 <= k - h PROVE Shift(c, k - (n + 1)) = Shift(w, k - (n + 1))
    OBVIOUS
  <2> DEFINE j == k - (n + 1)
  <2>1. j \in Nat /\ j \in h .. k - 1 /\ j + 1 = k - n /\ n <= k - h
    OBVIOUS
  <2>2. Shift(c, k - n) = Shift(w, k - n)
    BY <1>2, <2>1
  <2> HIDE DEF j
  <2>3. Shift(c, j) = Bit(c, j) + 2 * Shift(c, j + 1)
        /\ Shift(w, j) = Bit(w, j) + 2 * Shift(w, j + 1)
    BY <2>1, ShiftFacts
  <2>4. Shift(c, j) = Shift(w, j)
    BY <2>1, <2>2, <2>3
  <2> QED
    BY <2>4 DEF j
<1>3. \A n \in Nat : n \in G
  <2> HIDE DEF G
  <2> QED
    BY <1>1, <1>2, NumberInduction
<1>4. k - h \in Nat /\ k - (k - h) = h
  OBVIOUS
<1>5. k - h \in G
  BY <1>3, <1>4
<1> QED
  BY <1>4, <1>5

\* One less either keeps the bits from h + 1 up or has a one at h.
LEMMA OneLess ==
  ASSUME NEW v \in Nat \ {0}, NEW w, w = v - 1, NEW h \in Nat
  PROVE  w \in Nat /\ (Shift(w, h + 1) = Shift(v, h + 1) \/ Bit(w, h) = 1)
<1> DEFINE p == 2^(h + 1)
           d == 2^h
           t == Shift(v, h + 1)
           z == p * t
           r == v % (2^(h + 1))
<1>1. w \in Nat
  OBVIOUS
<1>2. h + 1 \in Nat
  OBVIOUS
<1>3. d \in Nat /\ d >= 1 /\ p = 2 * d
  BY PowerOfTwo
<1>4. t \in Nat /\ v = z + r /\ r \in 0 .. p - 1
  <2>1. v \in Nat
    OBVIOUS
  <2> QED
    BY <1>2, <2>1, Halves DEF Shift
<1>5. CASE r # 0
  <2> HIDE DEF p, d, r
  <2>1. z \in Int
    BY <1>3, <1>4
  <2>2. z = p * t
    OBVIOUS
  <2> HIDE DEF z, t
  <2> DEFINE q == r - 1
  <2>3. q \in 0 .. p - 1 /\ w = q + z /\ p \in Nat /\ p >= 1
    BY <1>3, <1>4, <1>5, <2>1
  <2> HIDE DEF q
  <2>4. w \div p = t
    BY <1>4, <2>2, <2>3, Quotient
  <2> QED
    BY <1>1, <2>4 DEF Shift, p, t
<1>6. CASE r = 0
  <2> HIDE DEF p, d, r
  <2>1. z \in Int
    BY <1>3, <1>4
  <2>2. z = p * t
    OBVIOUS
  <2>3. t >= 1
    <3>1. t = 0 => z = 0
      BY <1>3
    <3> HIDE DEF z, t
    <3> QED
      BY <1>4, <1>6, <3>1
  <2> DEFINE u == 2 * t - 1
             y == d * u
             q == d - 1
  <2>4. u \in Nat
    <3> HIDE DEF t
    <3> QED
      BY <1>4, <2>3
  <2>5. y = z - d
    <3> HIDE DEF t, z
    <3>1. d * (2 * t - 1) = (2 * d) * t - d
      BY <1>3, <1>4
    <3> QED
      BY <1>3, <2>2, <3>1
  <2>6. y = d * u
    OBVIOUS
  <2> HIDE DEF z, y
  <2>7. w = q + y /\ q \in 0 .. d - 1
    BY <1>3, <1>4, <1>6, <2>1, <2>5
  <2> HIDE DEF u, q
  <2>8. w \div d = u
    BY <1>3, <2>4, <2>6, <2>7, Quotient
  <2>9. Shift(w, h) = u
    BY <2>8 DEF Shift, d
  <2> DEFINE a == Bit(w, h)
             b == Shift(w, h + 1)
  <2>10. a \in {0, 1} /\ u = a + 2 * b /\ b \in Nat
    BY <1>1, <1>2, <2>9, ShiftFacts
  <2> HIDE DEF a, b, t
  <2>11. u = 2 * t - 1
    BY DEF u
  <2>12. a = 1
    BY <1>4, <2>10, <2>11
  <2> QED
    BY <1>1, <2>12 DEF a
<1> QED
  BY <1>5, <1>6

\* The outputs give every one of z.
Spelled(o, z) ==
  /\ z \in Nat /\ z < 2^kNumBitsInWeight
  /\ \A h \in 0 .. kNumBitsInWeight - 1 : Bit(z, h) = 1 => \E i \in 1 .. Len(o) : o[i][2] = h

AgreeAbove(o, c, w, i) == \A j \in i + 1 .. Len(o) : Bit(c, o[j][2]) = Bit(w, o[j][2])

WithinBound(o, c, w) ==
  \A i \in 1 .. Len(o) : AgreeAbove(o, c, w, i) /\ Bit(c, o[i][2]) = 1 => Bit(w, o[i][2]) = 1

Places(o) ==
  /\ Len(o) \in Nat
  /\ \A i \in 1 .. Len(o) : o[i][2] \in 0 .. kNumBitsInWeight - 1 /\ o[i][2] \in Nat
  /\ \A i, j \in 1 .. Len(o) : i < j => o[i][2] < o[j][2]

\* A cost that agrees with a bound above one of its ones is beyond the bound
\* unless the bound has that one too.
LEMMA LessIsWithin ==
  ASSUME NEW o, Places(o), NEW c, Spelled(o, c), NEW v, Spelled(o, v), v # 0, NEW w, w = v - 1,
         c < v
  PROVE  WithinBound(o, c, w)
<1> DEFINE k == kNumBitsInWeight
<1> SUFFICES ASSUME NEW i \in 1 .. Len(o), AgreeAbove(o, c, w, i), Bit(c, o[i][2]) = 1
             PROVE  Bit(w, o[i][2]) = 1
  BY DEF WithinBound
<1> DEFINE q == o[i][2]
<1>1. k \in Nat /\ q \in 0 .. k - 1 /\ q \in Nat /\ q + 1 \in Nat /\ q + 1 \in 0 .. k
      /\ Len(o) \in Nat
  <2>1. k \in Nat /\ q \in 0 .. k - 1 /\ q \in Nat /\ Len(o) \in Nat
    BY WidthAssumption DEF Places
  <2> HIDE DEF q, k
  <2> QED
    BY <2>1
<1>2. c \in Nat /\ v \in Nat \ {0} /\ v \in Nat /\ w \in Nat /\ c < 2^k /\ v < 2^k /\ w < v
  BY DEF Spelled
<1>3. Bit(c, q) = 1
  OBVIOUS
<1>4. Shift(w, q + 1) = Shift(v, q + 1) \/ Bit(w, q) = 1
  BY <1>1, <1>2, OneLess
<1> SUFFICES ASSUME Bit(w, q) # 1, Shift(w, q + 1) = Shift(v, q + 1) PROVE FALSE
  BY <1>4
<1> HIDE DEF q
<1>5. \A j \in Nat : j >= q + 1 => Bit(w, j) = Bit(v, j)
  BY <1>1, <1>2, SameUpward
<1>6. ASSUME NEW h \in q + 1 .. k - 1 PROVE Bit(c, h) = Bit(w, h)
  <2>1. h \in Nat /\ h \in 0 .. k - 1 /\ h >= q + 1
    BY <1>1
  <2>2. Bit(c, h) \in {0, 1} /\ Bit(w, h) \in {0, 1}
    BY <1>2, <2>1, ShiftFacts
  <2>3. CASE \E j \in 1 .. Len(o) : o[j][2] = h
    <3>1. PICK j \in 1 .. Len(o) : o[j][2] = h
      BY <2>3
    <3>2. j \in i + 1 .. Len(o)
      <4>1. ~(j < i) /\ j # i
        <5>1. j < i => o[j][2] < o[i][2]
          BY DEF Places
        <5>2. o[i][2] = q /\ q < h
          BY <1>1, <2>1 DEF q
        <5> QED
          BY <1>1, <2>1, <3>1, <5>1, <5>2
      <4> DEFINE n == Len(o)
      <4>2. n \in Nat /\ j \in 1 .. n /\ i \in 1 .. n
        BY <1>1
      <4> HIDE DEF n
      <4>3. j \in i + 1 .. n
        BY <4>1, <4>2
      <4> QED
        BY <4>3 DEF n
    <3> QED
      BY <3>1, <3>2 DEF AgreeAbove
  <2>4. CASE ~\E j \in 1 .. Len(o) : o[j][2] = h
    <3>1. Bit(c, h) # 1 /\ Bit(v, h) # 1
      BY <2>1, <2>4 DEF Spelled
    <3>2. Bit(w, h) = Bit(v, h)
      BY <1>5, <2>1
    <3> QED
      BY <2>2, <3>1, <3>2
  <2> QED
    BY <2>3, <2>4
<1>7. Shift(c, k) = Shift(w, k)
  <2>1. w < 2^k
    <3>1. 2^k \in Nat
      BY <1>1, PowerOfTwo
    <3> DEFINE p == 2^k
    <3> HIDE DEF p
    <3> QED
      BY <1>2, <3>1 DEF p
  <2>2. Shift(c, k) = 0
    BY <1>1, <1>2, ShiftFacts
  <2>3. Shift(w, k) = 0
    BY <1>1, <1>2, <2>1, ShiftFacts
  <2> QED
    BY <2>2, <2>3
<1>8. Shift(c, q + 1) = Shift(w, q + 1)
  <2> DEFINE h == q + 1
  <2>1. h \in 0 .. k /\ \A j \in h .. k - 1 : Bit(c, j) = Bit(w, j)
    BY <1>1, <1>6
  <2> HIDE DEF h, k
  <2>2. Shift(c, h) = Shift(w, h)
    BY <1>1, <1>2, <1>7, <2>1, SameDownward
  <2> QED
    BY <2>2 DEF h
\* So the quotient of c by 2^q is the larger one, and so is c.
<1>9. Shift(c, q) = Shift(w, q) + 1
  <2> DEFINE a == Shift(c, q + 1)
  <2>1. Shift(c, q) = Bit(c, q) + 2 * a /\ Shift(w, q) = Bit(w, q) + 2 * a
    BY <1>1, <1>2, <1>8, ShiftFacts
  <2>2. Bit(w, q) = 0 /\ Bit(c, q) = 1
    <3>1. Bit(w, q) \in {0, 1}
      BY <1>1, <1>2, ShiftFacts
    <3> QED
      BY <1>3, <3>1 DEF q
  <2>3. a \in Nat
    BY <1>1, <1>2, ShiftFacts
  <2> HIDE DEF a
  <2> QED
    BY <2>1, <2>2, <2>3
<1> DEFINE p == 2^q
           x == Shift(c, q)
           y == Shift(w, q)
           f == c % (2^q)
           g == w % (2^q)
<1>10. /\ p \in Nat /\ x \in Nat /\ y \in Nat
       /\ c = p * x + f /\ f \in 0 .. p - 1 /\ w = p * y + g /\ g \in 0 .. p - 1
  BY <1>1, <1>2, PowerOfTwo, Halves DEF Shift
<1>11. x = y + 1
  BY <1>9
<1> HIDE DEF p, x, y, f, g
<1>12. p * (y + 1) = p * y + p /\ p * y \in Int
  BY <1>10
<1>13. c > w
  <2> DEFINE z == p * y
  <2>1. c = z + p + f /\ w = z + g /\ z \in Int
    BY <1>10, <1>11, <1>12
  <2> HIDE DEF z
  <2> QED
    BY <1>10, <2>1
<1> QED
  BY <1>2, <1>13

\* A cost beyond the bound has a one the bound has not, and agrees with it above.
LEMMA WithinIsLess ==
  ASSUME NEW o, Places(o), NEW c, Spelled(o, c), NEW w \in Nat, w < 2^kNumBitsInWeight, c > w
  PROVE  ~WithinBound(o, c, w)
<1> DEFINE k == kNumBitsInWeight
           S == {n \in Nat : n <= k /\ Shift(c, k - n) > Shift(w, k - n)}
<1>1. k \in Nat /\ c \in Nat /\ c < 2^k
  BY WidthAssumption DEF Spelled
<1>2. S # {}
  <2>1. k - k = 0
    BY <1>1
  <2>2. Shift(c, 0) = c /\ Shift(w, 0) = w
    BY <1>1, ShiftFacts
  <2>3. k \in S
    BY <1>1, <2>1, <2>2
  <2> QED
    BY <2>3
<1>3. PICK n \in S : \A y \in S : n <= y
  <2>1. S \in SUBSET Nat
    OBVIOUS
  <2> HIDE DEF S
  <2> QED
    BY <1>2, <2>1, LeastNumber
<1> DEFINE h == k - n
<1>4. n \in Nat /\ n <= k /\ Shift(c, h) > Shift(w, h)
  OBVIOUS
<1>5. n # 0
  <2>1. Shift(c, k) = 0 /\ Shift(w, k) = 0
    BY <1>1, ShiftFacts
  <2>2. n = 0 => h = k
    BY <1>1
  <2> QED
    BY <1>4, <2>1, <2>2
<1>6. h \in Nat /\ h \in 0 .. k - 1 /\ h + 1 = k - (n - 1) /\ n - 1 \in Nat /\ n - 1 <= k
  BY <1>1, <1>4, <1>5
<1>7. ~(Shift(c, h + 1) > Shift(w, h + 1))
  <2>1. n - 1 \notin S
    BY <1>3, <1>4
  <2> QED
    BY <1>6, <2>1
<1> HIDE DEF S, h
<1> DEFINE a == Bit(c, h)
           b == Bit(w, h)
           x == Shift(c, h + 1)
           y == Shift(w, h + 1)
<1>8. /\ a \in {0, 1} /\ b \in {0, 1} /\ x \in Nat /\ y \in Nat
      /\ Shift(c, h) = a + 2 * x /\ Shift(w, h) = b + 2 * y
  <2>1. h + 1 \in Nat
    BY <1>6
  <2>2. x \in Nat /\ y \in Nat
    BY <1>1, <2>1, ShiftFacts
  <2> QED
    BY <1>1, <1>6, <2>2, ShiftFacts
<1>9. a = 1 /\ b = 0 /\ x = y
  <2>1. a + 2 * x > b + 2 * y /\ ~(x > y)
    BY <1>4, <1>7, <1>8
  <2> HIDE DEF a, b, x, y
  <2> QED
    BY <1>8, <2>1
<1>10. PICK i \in 1 .. Len(o) : o[i][2] = h
  BY <1>6, <1>9 DEF Spelled
<1>11. \A j \in Nat : j >= h + 1 => Bit(c, j) = Bit(w, j)
  <2>1. h + 1 \in Nat /\ Shift(c, h + 1) = Shift(w, h + 1)
    BY <1>6, <1>9
  <2> DEFINE u == h + 1
  <2>2. u \in Nat /\ Shift(c, u) = Shift(w, u)
    BY <2>1
  <2> HIDE DEF u
  <2>3. \A j \in Nat : j >= u => Bit(c, j) = Bit(w, j)
    BY <1>1, <2>2, SameUpward
  <2> QED
    BY <2>3 DEF u
<1>12. AgreeAbove(o, c, w, i)
  <2> SUFFICES ASSUME NEW j \in i + 1 .. Len(o)
               PROVE  Bit(c, o[j][2]) = Bit(w, o[j][2])
    BY DEF AgreeAbove
  <2>1. j \in 1 .. Len(o) /\ i < j
    BY DEF Places
  <2>2. o[j][2] \in Nat /\ o[i][2] < o[j][2]
    BY <2>1 DEF Places
  <2>3. o[j][2] >= h + 1
    BY <1>6, <1>10, <2>2
  <2> QED
    BY <1>11, <2>2, <2>3
<1> QED
  BY <1>9, <1>10, <1>12 DEF WithinBound

\* Hence the bound is exact.
LEMMA BoundIsLess ==
  ASSUME NEW o, Places(o), NEW c, Spelled(o, c), NEW v, Spelled(o, v), v # 0, NEW w, w = v - 1
  PROVE  WithinBound(o, c, w) <=> c < v
<1>1. c \in Nat /\ v \in Nat \ {0} /\ v < 2^kNumBitsInWeight
  BY DEF Spelled
<1>2. 2^kNumBitsInWeight \in Nat
  BY WidthAssumption, PowerOfTwo
<1> DEFINE p == 2^kNumBitsInWeight
<1>3. w \in Nat /\ w < p
  <2>1. v < p /\ p \in Nat
    BY <1>1, <1>2
  <2> HIDE DEF p
  <2> QED
    BY <1>1, <2>1
<1>4. c < v => WithinBound(o, c, w)
  BY LessIsWithin
<1>5. c > w => ~WithinBound(o, c, w)
  BY <1>3, WithinIsLess
<1> QED
  BY <1>1, <1>3, <1>4, <1>5

-----------------------------------------------------------------------------
(***************************************************************************)
(* The comparator: its clauses.                                            *)
(***************************************************************************)
\* What they say of the adder's outputs a, the bits b of the bound, and the
\* prefix bits p: p_i when a and b agree above i, and then not a_i without b_i.
Compared(N, o, x) ==
  \A i \in 1 .. Len(o) :
    /\ i = Len(o) => x + Len(o) + i - 1 \in N
    /\ x + Len(o) + i - 1 \in N /\ Holds(N, o[i][1]) => x + i - 1 \in N
    /\ i < Len(o) => (x + Len(o) + i - 1 \in N
                        <=> /\ x + Len(o) + (i + 1) - 1 \in N
                            /\ Holds(N, o[i + 1][1]) <=> x + (i + 1) - 1 \in N)

\* The six clauses beside bit i, and the two of the last.
PrefixClauses(p, q, a, b, c, d) ==
  {{-p, q}, {-p, -a, b}, {-p, a, -b}, {a, b, -q, p}, {-a, -b, -q, p}, {-p, -c, d}}

\* The six clauses say that p is q and the agreement of a and b, and the bound.
LEMMA PrefixSays ==
  ASSUME NEW N, NEW p \in Nat \ {0}, NEW q \in Nat \ {0}, NEW a \in Int \ {0},
         NEW b \in Nat \ {0}, NEW c \in Int \ {0}, NEW d \in Nat \ {0}
  PROVE  /\ Satisfied(N, PrefixClauses(p, q, a, b, c, d))
              <=> /\ p \in N <=> (q \in N /\ (Holds(N, a) <=> b \in N))
                  /\ p \in N /\ Holds(N, c) => d \in N
<1>1. /\ (Holds(N, p) <=> p \in N) /\ (Holds(N, -p) <=> p \notin N)
      /\ (Holds(N, q) <=> q \in N) /\ (Holds(N, -q) <=> q \notin N)
      /\ (Holds(N, b) <=> b \in N) /\ (Holds(N, -b) <=> b \notin N)
      /\ (Holds(N, d) <=> d \in N)
  BY DEF Holds
<1>2. (Holds(N, -a) <=> ~Holds(N, a)) /\ (Holds(N, -c) <=> ~Holds(N, c))
  BY HoldsNeg
<1>6. \A a1, a2, a3, a4 :
        /\ SatisfiesClause(N, {a1}) <=> Holds(N, a1)
        /\ SatisfiesClause(N, {a1, a2}) <=> Holds(N, a1) \/ Holds(N, a2)
        /\ SatisfiesClause(N, {a1, a2, a3}) <=> Holds(N, a1) \/ Holds(N, a2) \/ Holds(N, a3)
        /\ SatisfiesClause(N, {a1, a2, a3, a4})
             <=> Holds(N, a1) \/ Holds(N, a2) \/ Holds(N, a3) \/ Holds(N, a4)
  BY Zenon DEF SatisfiesClause
<1>a. SatisfiesClause(N, {-p, q}) <=> Holds(N, -p) \/ Holds(N, q)
  BY <1>6, Zenon
<1>b. SatisfiesClause(N, {-p, -a, b}) <=> Holds(N, -p) \/ Holds(N, -a) \/ Holds(N, b)
  BY <1>6, Zenon
<1>c. SatisfiesClause(N, {-p, a, -b}) <=> Holds(N, -p) \/ Holds(N, a) \/ Holds(N, -b)
  BY <1>6, Zenon
<1>d. SatisfiesClause(N, {a, b, -q, p})
        <=> Holds(N, a) \/ Holds(N, b) \/ Holds(N, -q) \/ Holds(N, p)
  BY <1>6, ZenonT(40)
<1>e. SatisfiesClause(N, {-a, -b, -q, p})
        <=> Holds(N, -a) \/ Holds(N, -b) \/ Holds(N, -q) \/ Holds(N, p)
  BY <1>6, ZenonT(40)
<1>f. SatisfiesClause(N, {-p, -c, d}) <=> Holds(N, -p) \/ Holds(N, -c) \/ Holds(N, d)
  BY <1>6, Zenon
<1>4. Satisfied(N, PrefixClauses(p, q, a, b, c, d))
        <=> /\ SatisfiesClause(N, {-p, q}) /\ SatisfiesClause(N, {-p, -a, b})
            /\ SatisfiesClause(N, {-p, a, -b}) /\ SatisfiesClause(N, {a, b, -q, p})
            /\ SatisfiesClause(N, {-a, -b, -q, p}) /\ SatisfiesClause(N, {-p, -c, d})
  BY Zenon DEF Satisfied, PrefixClauses
<1> QED
  BY <1>1, <1>2, <1>4, <1>a, <1>b, <1>c, <1>d, <1>e, <1>f

\* The last two say that p holds.
LEMMA LastSays ==
  ASSUME NEW N, NEW p \in Nat \ {0}, NEW c \in Int \ {0}, NEW d \in Nat \ {0}
  PROVE  Satisfied(N, {{p}, {-p, -c, d}}) <=> p \in N /\ (Holds(N, c) => d \in N)
<1>1. (Holds(N, p) <=> p \in N) /\ (Holds(N, -p) <=> p \notin N) /\ (Holds(N, d) <=> d \in N)
  BY DEF Holds
<1>2. Holds(N, -c) <=> ~Holds(N, c)
  BY HoldsNeg
<1>3. SatisfiesClause(N, {p}) <=> Holds(N, p)
  BY Zenon DEF SatisfiesClause
<1>4. SatisfiesClause(N, {-p, -c, d}) <=> Holds(N, -p) \/ Holds(N, -c) \/ Holds(N, d)
  BY Zenon DEF SatisfiesClause
<1>5. Satisfied(N, {{p}, {-p, -c, d}})
        <=> SatisfiesClause(N, {p}) /\ SatisfiesClause(N, {-p, -c, d})
  BY Zenon DEF Satisfied
<1> QED
  BY <1>1, <1>2, <1>3, <1>4, <1>5

\* The comparator's clauses, named.
CompareAt(o, x, i) ==
  PrefixClauses(x + Len(o) + i - 1, x + Len(o) + (i + 1) - 1, o[i + 1][1], x + (i + 1) - 1,
                o[i][1], x + i - 1)

CompareLast(o, x) ==
  IF Len(o) = 0 THEN {}
  ELSE {{x + Len(o) + Len(o) - 1}, {-(x + Len(o) + Len(o) - 1), -o[Len(o)][1], x + Len(o) - 1}}

CompareMost(o, x) == UNION {CompareAt(o, x, i) : i \in 1 .. Len(o) - 1}

CompareBound(o, x) == [i \in 1 .. Len(o) |-> <<x + i - 1, o[i][2]>>]

CompareClauses(o, x) == CompareMost(o, x) \cup CompareLast(o, x)

\* They are what LessThanOrEqualBits adds.
LEMMA CompareIs ==
  ASSUME NEW e, NEW bk, NEW t, NEW x, NEW C, NEW o, AdderRecord(e, bk, t, x, C, o)
  PROVE  /\ LessThanOrEqualBits(e).bound = CompareBound(o, x)
         /\ LessThanOrEqualBits(e).clauses = C \cup CompareClauses(o, x)
<1>1. e.next = x /\ e.clauses = C /\ e.output = o
  BY DEF AdderRecord
<1>2. /\ LessThanOrEqualBits(e).bound = CompareBound(e.output, e.next)
      /\ LessThanOrEqualBits(e).clauses
           = (e.clauses \cup CompareMost(e.output, e.next)) \cup CompareLast(e.output, e.next)
  BY DEF LessThanOrEqualBits, CompareAt, CompareMost, CompareBound, CompareLast, PrefixClauses
<1> QED
  BY <1>1, <1>2 DEF CompareClauses, CompareMost

\* And they say what Compared does.
LEMMA CompareSays ==
  ASSUME NEW N, NEW o, NEW x \in Nat \ {0}, Len(o) \in Nat,
         \A i \in 1 .. Len(o) : o[i][1] \in Int \ {0}
  PROVE  Satisfied(N, CompareClauses(o, x)) <=> Compared(N, o, x)
<1> DEFINE n == Len(o)
           p(i) == x + Len(o) + i - 1
           b(i) == x + i - 1
           a(i) == o[i][1]
<1>1. n \in Nat
  OBVIOUS
<1>2. \A i \in 1 .. n : /\ p(i) \in Nat \ {0} /\ b(i) \in Nat \ {0} /\ a(i) \in Int \ {0}
                        /\ i < n => i + 1 \in 1 .. n
  <2> SUFFICES ASSUME NEW i \in 1 .. n
               PROVE  /\ p(i) \in Nat \ {0} /\ b(i) \in Nat \ {0} /\ a(i) \in Int \ {0}
                      /\ i < n => i + 1 \in 1 .. n
    OBVIOUS
  <2>1. p(i) \in Nat \ {0} /\ b(i) \in Nat \ {0} /\ (i < n => i + 1 \in 1 .. n)
    OBVIOUS
  <2> QED
    BY <2>1
<1>3. ASSUME NEW i \in 1 .. n - 1
      PROVE  Satisfied(N, CompareAt(o, x, i))
               <=> /\ p(i) \in N <=> (p(i + 1) \in N /\ (Holds(N, a(i + 1)) <=> b(i + 1) \in N))
                   /\ p(i) \in N /\ Holds(N, a(i)) => b(i) \in N
  <2>1. i \in 1 .. n /\ i + 1 \in 1 .. n
    BY <1>1
  <2> DEFINE pi == p(i)
             pj == p(i + 1)
             ai == a(i)
             aj == a(i + 1)
             bi == b(i)
             bj == b(i + 1)
  <2>2. /\ pi \in Nat \ {0} /\ pj \in Nat \ {0} /\ ai \in Int \ {0} /\ aj \in Int \ {0}
        /\ bi \in Nat \ {0} /\ bj \in Nat \ {0}
    <3> HIDE DEF p, b, a
    <3> QED
      BY <1>2, <2>1
  <2>3. CompareAt(o, x, i) = PrefixClauses(pi, pj, aj, bj, ai, bi)
    BY DEF CompareAt
  <2> HIDE DEF pi, pj, ai, aj, bi, bj
  <2>4. Satisfied(N, PrefixClauses(pi, pj, aj, bj, ai, bi))
          <=> /\ pi \in N <=> (pj \in N /\ (Holds(N, aj) <=> bj \in N))
              /\ pi \in N /\ Holds(N, ai) => bi \in N
    BY <2>2, PrefixSays
  <2> QED
    BY <2>3, <2>4 DEF pi, pj, ai, aj, bi, bj
<1>4. CASE n = 0
  <2>1. CompareClauses(o, x) = {}
    <3>1. 1 .. n - 1 = {} /\ CompareLast(o, x) = {}
      BY <1>4 DEF CompareLast
    <3> QED
      BY <3>1 DEF CompareClauses, CompareMost
  <2>2. Satisfied(N, {})
    BY DEF Satisfied
  <2>3. Compared(N, o, x)
    BY <1>4 DEF Compared
  <2> QED
    BY <2>1, <2>2, <2>3
<1>5. CASE n # 0
  <2>1. n \in 1 .. n
    BY <1>1, <1>5
  <2> DEFINE pn == p(n)
             an == a(n)
             bn == b(n)
  <2>2. Satisfied(N, CompareLast(o, x)) <=> pn \in N /\ (Holds(N, an) => bn \in N)
    <3>1. pn \in Nat \ {0} /\ an \in Int \ {0} /\ bn \in Nat \ {0}
      <4> HIDE DEF p, a, b
      <4> QED
        BY <1>2, <2>1
    <3>2. CompareLast(o, x) = {{pn}, {-pn, -an, bn}}
      BY <1>5 DEF CompareLast
    <3> HIDE DEF pn, an, bn
    <3>3. Satisfied(N, {{pn}, {-pn, -an, bn}}) <=> pn \in N /\ (Holds(N, an) => bn \in N)
      BY <3>1, LastSays
    <3> QED
      BY <3>2, <3>3
  <2>3. Satisfied(N, CompareClauses(o, x))
          <=> /\ \A i \in 1 .. n - 1 : Satisfied(N, CompareAt(o, x, i))
              /\ Satisfied(N, CompareLast(o, x))
    BY DEF Satisfied, CompareClauses, CompareMost
  <2>4. ASSUME Satisfied(N, CompareClauses(o, x)) PROVE Compared(N, o, x)
    <3> SUFFICES ASSUME NEW i \in 1 .. n
                 PROVE  /\ i = n => p(i) \in N
                        /\ p(i) \in N /\ Holds(N, a(i)) => b(i) \in N
                        /\ i < n => (p(i) \in N <=> /\ p(i + 1) \in N
                                                    /\ Holds(N, a(i + 1)) <=> b(i + 1) \in N)
      BY DEF Compared
    <3>1. CASE i = n
      BY <2>2, <2>3, <2>4, <3>1
    <3>2. CASE i # n
      <4>1. i \in 1 .. n - 1
        BY <1>1, <3>2
      <4>2. Satisfied(N, CompareAt(o, x, i))
        BY <2>3, <2>4, <4>1
      <4> HIDE DEF p, a, b
      <4> QED
        BY <1>3, <3>2, <4>1, <4>2
    <3> QED
      BY <3>1, <3>2
  <2>5. ASSUME Compared(N, o, x) PROVE Satisfied(N, CompareClauses(o, x))
    <3>0. ASSUME NEW i \in 1 .. n
          PROVE  /\ i = n => p(i) \in N
                 /\ p(i) \in N /\ Holds(N, a(i)) => b(i) \in N
                 /\ i < n => (p(i) \in N <=> /\ p(i + 1) \in N
                                             /\ Holds(N, a(i + 1)) <=> b(i + 1) \in N)
      BY <2>5 DEF Compared
    <3>1. Satisfied(N, CompareLast(o, x))
      BY <2>1, <2>2, <3>0
    <3>2. ASSUME NEW i \in 1 .. n - 1 PROVE Satisfied(N, CompareAt(o, x, i))
      <4>1. i \in 1 .. n /\ i < n
        BY <1>1
      <4> HIDE DEF p, a, b
      <4> QED
        BY <1>3, <3>0, <4>1
    <3> QED
      BY <2>3, <3>1, <3>2
  <2> QED
    BY <2>4, <2>5
<1> QED
  BY <1>4, <1>5

-----------------------------------------------------------------------------
(***************************************************************************)
(* The comparator: the outputs of a finished adder are the cost.           *)
(***************************************************************************)
OutputBits(o, c, M) ==
  /\ Places(o) /\ Spelled(o, c)
  /\ \A i \in 1 .. Len(o) : o[i][1] \in Int \ {0} /\ (Bit(c, o[i][2]) = 1 <=> Holds(M, o[i][1]))

\* The outputs stand for increasing bits.
LEMMA PlacesOfOutputs ==
  ASSUME NEW o, NEW x, Outputs(o, kNumBitsInWeight, x)
  PROVE  Places(o) /\ \A i \in 1 .. Len(o) : o[i][1] \in Below(x) /\ o[i][1] \in Int \ {0}
<1>1. /\ o \in Seq(Int \X Nat)
      /\ \A i \in 1 .. Len(o) : o[i][1] \in Below(x) /\ o[i][2] \in 0 .. kNumBitsInWeight - 1
      /\ \A i, j \in 1 .. Len(o) : i < j => o[i][2] < o[j][2]
  BY DEF Outputs
<1>2. Len(o) \in Nat
  BY <1>1
<1>3. \A i \in 1 .. Len(o) : o[i][2] \in Nat
  BY <1>1
<1>4. \A i \in 1 .. Len(o) : o[i][1] \in Int \ {0}
  BY <1>1 DEF Below
<1> QED
  BY <1>1, <1>2, <1>3, <1>4 DEF Places

\* What is paid is the number the outputs spell.
LEMMA PaidIsSpelled ==
  ASSUME NEW o, NEW x, Outputs(o, kNumBitsInWeight, x), NEW M, NEW c, c = Paid(o, M)
  PROVE  OutputBits(o, c, M)
<1> DEFINE k == kNumBitsInWeight
           n == Len(o)
           S == 1 .. n
           T == 0 .. k - 1
           U == {o[i][2] : i \in S}
           d == [j \in T |-> IF \E i \in S : o[i][2] = j /\ Holds(M, o[i][1]) THEN 1 ELSE 0]
           F == [j \in T |-> 2^j * d[j]]
           P == [i \in S |-> IF Holds(M, o[i][1]) THEN 2^o[i][2] ELSE 0]
           b == [i \in S |-> o[i][2]]
<1>1. Places(o) /\ \A i \in S : o[i][1] \in Int \ {0}
  BY PlacesOfOutputs
<1>2. /\ n \in Nat /\ k \in Nat
      /\ \A i \in S : o[i][2] \in T /\ o[i][2] \in Nat
  BY <1>1, WidthAssumption DEF Places
<1>3. \A i, j \in S : o[i][2] = o[j][2] => i = j
  <2> SUFFICES ASSUME NEW i \in S, NEW j \in S, o[i][2] = o[j][2], i # j PROVE FALSE
    OBVIOUS
  <2>1. i < j \/ j < i
    OBVIOUS
  <2>2. o[i][2] \in Nat /\ o[j][2] \in Nat /\ (o[i][2] < o[j][2] \/ o[j][2] < o[i][2])
    BY <1>1, <1>2, <2>1 DEF Places
  <2> DEFINE y == o[i][2]
             z == o[j][2]
  <2>3. y \in Nat /\ z \in Nat /\ (y < z \/ z < y) /\ y = z
    BY <2>2
  <2> HIDE DEF y, z
  <2> QED
    BY <2>3
<1>4. \A j \in T : j \in Nat /\ 2^j \in Nat
  BY PowerOfTwo
<1>5. \A j \in T : d[j] \in {0, 1} /\ F[j] = 2^j * d[j]
  OBVIOUS
<1>6. ASSUME NEW i \in S PROVE d[o[i][2]] = 1 <=> Holds(M, o[i][1])
  <2>1. o[i][2] \in T
    BY <1>2
  <2>2. d[o[i][2]] = IF \E u \in S : o[u][2] = o[i][2] /\ Holds(M, o[u][1]) THEN 1 ELSE 0
    BY <2>1
  <2>3. (\E u \in S : o[u][2] = o[i][2] /\ Holds(M, o[u][1])) <=> Holds(M, o[i][1])
    BY <1>3
  <2> HIDE DEF d
  <2> QED
    BY <2>2, <2>3
<1>7. \A j \in T : j \notin U => d[j] = 0
  OBVIOUS
<1>8. ASSUME NEW i \in S PROVE P[i] = F[b[i]]
  <2> DEFINE j == o[i][2]
             p == 2^j
  <2>1. j \in T /\ p \in Nat /\ b[i] = j
    BY <1>2, <1>4
  <2>2. F[j] = p * d[j] /\ d[j] \in {0, 1}
    BY <1>5, <2>1
  <2>3. P[i] = IF Holds(M, o[i][1]) THEN p ELSE 0
    OBVIOUS
  <2>4. d[j] = 1 <=> Holds(M, o[i][1])
    BY <1>6
  <2> HIDE DEF j, p, d, F, P, b
  <2>5. p * 1 = p /\ p * 0 = 0
    BY <2>1
  <2> QED
    BY <2>1, <2>2, <2>3, <2>4, <2>5
<1>9. \A j \in T : F[j] \in Int
  <2> SUFFICES ASSUME NEW j \in T PROVE F[j] \in Int
    OBVIOUS
  <2>1. 2^j \in Nat /\ d[j] \in {0, 1} /\ F[j] = 2^j * d[j]
    BY <1>4, <1>5
  <2> HIDE DEF F, d
  <2> QED
    BY <2>1
<1>10. IsFiniteSet(S) /\ IsFiniteSet(T) /\ U \in SUBSET T /\ b \in [S -> U]
  <2>1. U \in SUBSET T /\ b \in [S -> U]
    BY <1>2
  <2>2. 1 \in Int /\ n \in Int /\ 0 \in Int /\ k - 1 \in Int
    BY <1>2
  <2> DEFINE u == k - 1
  <2>3. 1 \in Int /\ n \in Int /\ 0 \in Int /\ u \in Int
    BY <2>2
  <2> HIDE DEF n, u
  <2>4. IsFiniteSet(1 .. n) /\ IsFiniteSet(0 .. u)
    BY ONLY <2>3, FS_Interval
  <2> QED
    BY <2>1, <2>4 DEF u
<1>11. \A z \in U : \E i \in S : b[i] = z
  OBVIOUS
<1>12. \A i, j \in S : b[i] = b[j] => i = j
  BY <1>3
<1>13. c = SumFunctionOnSet(P, S)
  BY DEF Paid
<1>14. \A j \in T \ U : F[j] = 0
  <2> SUFFICES ASSUME NEW j \in T, j \notin U PROVE F[j] = 0
    OBVIOUS
  <2>1. 2^j \in Nat /\ d[j] = 0 /\ F[j] = 2^j * d[j]
    BY <1>4, <1>5, <1>7
  <2> HIDE DEF F, d
  <2> QED
    BY <2>1
<1> HIDE DEF P, F, d, b, U
<1>15. c = SumFunctionOnSet(F, T)
  <2> HIDE DEF S, T
  <2>1. Integral(F, T)
    BY <1>9, <1>10 DEF Integral
  <2>2. Integral(F, U)
    BY <1>10, <2>1, IntegralSubset
  <2>3. SumFunctionOnSet(P, S) = SumFunctionOnSet(F, U)
    BY <1>8, <1>10, <1>11, <1>12, <2>2, SumRename
  <2>4. SumFunctionOnSet(F, T) = SumFunctionOnSet(F, U)
    BY <1>10, <1>14, <2>1, SumSupport
  <2> QED
    BY <1>13, <2>3, <2>4
<1>16. c \in Nat /\ c < 2^k /\ \A j \in 0 .. k - 1 : Bit(c, j) = d[j]
  <2>1. Digits(k, F, d)
    BY <1>5 DEF Digits
  <2>2. k \in Nat /\ c = SumFunctionOnSet(F, 0 .. k - 1)
    BY <1>2, <1>15
  <2> HIDE DEF k
  <2>3. HasDigits(k, c, d)
    BY <2>1, <2>2, SumHasDigits
  <2> QED
    BY <2>3 DEF HasDigits
<1>17. Spelled(o, c)
  <2>1. ASSUME NEW h \in 0 .. k - 1, Bit(c, h) = 1 PROVE \E i \in 1 .. Len(o) : o[i][2] = h
    <3>1. d[h] = 1
      BY <1>16, <2>1
    <3>2. h \in U
      BY <1>7, <3>1
    <3> QED
      BY <3>2 DEF U
  <2> QED
    BY <1>16, <2>1 DEF Spelled
<1>18. \A i \in S : Bit(c, o[i][2]) = 1 <=> Holds(M, o[i][1])
  BY <1>2, <1>6, <1>16
<1> QED
  BY <1>1, <1>17, <1>18 DEF OutputBits

\* Once the buckets below the last are empty and the cost is below its weight,
\* it is empty of true literals too.
LEMMA AdderIsSpent ==
  ASSUME NEW first, NEW bk, NEW x, NEW C, NEW o,
         AdderShape(first, bk, kNumBitsInWeight, x, C, o), NEW M, NEW c,
         Load(bk, M) + Paid(o, M) = c, c < 2^kNumBitsInWeight
  PROVE  OutputBits(o, c, M)
<1> DEFINE k == kNumBitsInWeight
           S == 0 .. k
           F == [j \in S |-> 2^j * Hits(M, bk[j], Len(bk[j]))]
           h == Hits(M, bk[k], Len(bk[k]))
           p == 2^k
<1>1. /\ k \in Nat /\ Outputs(o, k, x) /\ bk \in [S -> Seq(Int)]
      /\ \A j \in 0 .. k - 1 : Len(bk[j]) = 0
  BY WidthAssumption DEF AdderShape, Buckets
<1>2. k \in S /\ p \in Nat /\ p >= 1
  BY <1>1, PowerOfTwo
<1>3. h \in Nat
  <2> DEFINE b == bk[k]
             n == Len(b)
  <2>1. n \in Nat
    BY <1>1, <1>2
  <2> HIDE DEF b, n
  <2>2. Hits(M, b, n) \in Nat
    BY <2>1, HitsFirst
  <2> QED
    BY <2>2 DEF b, n
<1>4. F[k] = p * h
  BY <1>2
<1>5. \A j \in S \ {k} : F[j] = 0
  <2> SUFFICES ASSUME NEW j \in S, j # k PROVE F[j] = 0
    OBVIOUS
  <2>1. j \in 0 .. k - 1 /\ j \in Nat
    BY <1>1
  <2>2. Len(bk[j]) = 0
    BY <1>1, <2>1
  <2>3. Hits(M, bk[j], 0) = 0
    <3>1. 0 \in Nat
      OBVIOUS
    <3> QED
      BY <3>1, HitsFirst
  <2>4. 2^j \in Nat
    BY <2>1, PowerOfTwo
  <2>5. F[j] = 2^j * 0
    BY <2>2, <2>3
  <2> HIDE DEF F
  <2> QED
    BY <2>4, <2>5
<1>6. IsFiniteSet(S)
  <2>1. 0 \in Int /\ k \in Int
    BY <1>1
  <2> HIDE DEF k
  <2> QED
    BY <2>1, FS_Interval
<1>7. Load(bk, M) = SumFunctionOnSet(F, S)
  BY DEF Load
<1>8. Paid(o, M) \in Nat
  <2> DEFINE b == Paid(o, M)
  <2>1. OutputBits(o, b, M)
    BY <1>1, PaidIsSpelled
  <2> HIDE DEF b
  <2>2. b \in Nat
    BY <2>1 DEF OutputBits, Spelled
  <2> QED
    BY <2>2 DEF b
<1> DEFINE z == p * h
<1>9. z \in Nat
  BY <1>2, <1>3
<1>10. Load(bk, M) = z
  <2> DEFINE U == {k}
  <2>1. U \in SUBSET S /\ \A j \in S \ U : F[j] = 0
    BY <1>2, <1>5
  <2>2. \A j \in S : F[j] \in Int
    <3>1. F[k] \in Int
      BY <1>4, <1>9
    <3>2. \A j \in S : j = k \/ j \in S \ {k}
      OBVIOUS
    <3> HIDE DEF F, S, k
    <3> QED
      BY <1>5, <3>1, <3>2
  <2>3. F[k] = z
    BY <1>4
  <2> HIDE DEF F, S, z
  <2>4. Integral(F, S)
    BY <1>6, <2>2 DEF Integral
  <2>5. SumFunctionOnSet(F, S) = SumFunctionOnSet(F, U)
    BY <2>1, <2>4, SumSupport
  <2>6. U = {k} /\ F[k] \in Int
    BY <1>9, <2>3
  <2> HIDE DEF U, k
  <2>7. SumFunctionOnSet(F, U) = F[k]
    BY <2>6, SumSingleton
  <2> QED
    BY <1>7, <2>3, <2>5, <2>7
<1>11. z = 0
  <2>1. z + Paid(o, M) = c /\ c < p
    BY <1>10
  <2>2. h = 0 \/ h >= 1
    BY <1>3
  <2>3. h = 0 => z = 0
    BY <1>2
  <2>4. h >= 1 => z >= p
    <3> HIDE DEF p, h
    <3> QED
      BY <1>2, <1>3
  <2> HIDE DEF z, p, h
  <2> QED
    BY <1>2, <1>8, <1>9, <2>1, <2>2, <2>3, <2>4
<1>12. c = Paid(o, M)
  <2> HIDE DEF z
  <2> QED
    BY <1>8, <1>10, <1>11
<1> QED
  BY <1>1, <1>12, PaidIsSpelled

-----------------------------------------------------------------------------
(***************************************************************************)
(* The comparator is exact for the bounds the search sets.                 *)
(***************************************************************************)
\* An assignment that has the outputs of cost c and the bound w.
CompareReads(N, o, x, c, w) ==
  \A i \in 1 .. Len(o) : /\ Holds(N, o[i][1]) <=> Bit(c, o[i][2]) = 1
                         /\ x + i - 1 \in N <=> Bit(w, o[i][2]) = 1

\* Agreement one bit further down.
LEMMA AgreeStep ==
  ASSUME NEW o, Places(o), NEW c \in Nat, NEW w \in Nat, NEW i \in 1 .. Len(o)
  PROVE  /\ i = Len(o) => AgreeAbove(o, c, w, i)
         /\ i < Len(o) => (AgreeAbove(o, c, w, i)
                             <=> /\ AgreeAbove(o, c, w, i + 1)
                                 /\ Bit(c, o[i + 1][2]) = 1 <=> Bit(w, o[i + 1][2]) = 1)
<1> DEFINE n == Len(o)
<1>1. n \in Nat /\ \A j \in 1 .. n : o[j][2] \in Nat
  BY DEF Places
<1>2. \A j \in 1 .. n : Bit(c, o[j][2]) \in {0, 1} /\ Bit(w, o[j][2]) \in {0, 1}
  BY <1>1, ShiftFacts
<1>3. i = n => AgreeAbove(o, c, w, i)
  <2>1. n + 1 .. n = {}
    BY <1>1
  <2> QED
    BY <2>1 DEF AgreeAbove
<1>4. ASSUME i < n
      PROVE  AgreeAbove(o, c, w, i)
               <=> /\ AgreeAbove(o, c, w, i + 1)
                   /\ Bit(c, o[i + 1][2]) = 1 <=> Bit(w, o[i + 1][2]) = 1
  <2>1. i + 1 \in 1 .. n /\ i + 1 .. n = {i + 1} \cup ((i + 1) + 1 .. n)
    BY <1>1, <1>4
  <2>2. (Bit(c, o[i + 1][2]) = 1 <=> Bit(w, o[i + 1][2]) = 1)
          <=> Bit(c, o[i + 1][2]) = Bit(w, o[i + 1][2])
    BY <1>2, <2>1
  <2> DEFINE A == i + 1 .. n
             B == (i + 1) + 1 .. n
             Same(j) == Bit(c, o[j][2]) = Bit(w, o[j][2])
  <2>3. A = {i + 1} \cup B
    BY <2>1
  <2>4. AgreeAbove(o, c, w, i) <=> \A j \in A : Same(j)
    BY DEF AgreeAbove
  <2>5. AgreeAbove(o, c, w, i + 1) <=> \A j \in B : Same(j)
    BY DEF AgreeAbove
  <2> HIDE DEF A, B
  <2>6. (\A j \in A : Same(j)) <=> (\A j \in B : Same(j)) /\ Same(i + 1)
    BY <2>3
  <2> QED
    BY <2>2, <2>4, <2>5, <2>6
<1> QED
  BY <1>3, <1>4

\* Within the bound, the prefix bits that tell where the two agree will do.
LEMMA WithinCompares ==
  ASSUME NEW o, Places(o), NEW c \in Nat, NEW w \in Nat, NEW x \in Nat \ {0}, NEW N,
         CompareReads(N, o, x, c, w), WithinBound(o, c, w),
         \A i \in 1 .. Len(o) : x + Len(o) + i - 1 \in N <=> AgreeAbove(o, c, w, i)
  PROVE  Compared(N, o, x)
<1> SUFFICES ASSUME NEW i \in 1 .. Len(o)
             PROVE  /\ i = Len(o) => x + Len(o) + i - 1 \in N
                    /\ x + Len(o) + i - 1 \in N /\ Holds(N, o[i][1]) => x + i - 1 \in N
                    /\ i < Len(o) => (x + Len(o) + i - 1 \in N
                         <=> /\ x + Len(o) + (i + 1) - 1 \in N
                             /\ Holds(N, o[i + 1][1]) <=> x + (i + 1) - 1 \in N)
  BY DEF Compared
<1>1. i = Len(o) => AgreeAbove(o, c, w, i)
  BY AgreeStep
<1>2. x + Len(o) + i - 1 \in N /\ Holds(N, o[i][1]) => x + i - 1 \in N
  BY DEF CompareReads, WithinBound
<1>3. ASSUME i < Len(o)
      PROVE  x + Len(o) + i - 1 \in N
               <=> /\ x + Len(o) + (i + 1) - 1 \in N
                   /\ Holds(N, o[i + 1][1]) <=> x + (i + 1) - 1 \in N
  <2> DEFINE j == i + 1
  <2>1. j \in 1 .. Len(o)
    <3> DEFINE n == Len(o)
    <3>1. n \in Nat /\ i \in 1 .. n /\ i < n
      BY <1>3 DEF Places
    <3> HIDE DEF n
    <3>2. j \in 1 .. n
      BY <3>1
    <3> QED
      BY <3>2 DEF n
  <2>2. AgreeAbove(o, c, w, i)
          <=> /\ AgreeAbove(o, c, w, j)
              /\ Bit(c, o[j][2]) = 1 <=> Bit(w, o[j][2]) = 1
    BY <1>3, AgreeStep
  <2>3. (x + Len(o) + j - 1 \in N <=> AgreeAbove(o, c, w, j))
        /\ (Holds(N, o[j][1]) <=> Bit(c, o[j][2]) = 1) /\ (x + j - 1 \in N <=> Bit(w, o[j][2]) = 1)
    <3> HIDE DEF j
    <3> QED
      BY <2>1 DEF CompareReads
  <2>4. x + Len(o) + i - 1 \in N <=> AgreeAbove(o, c, w, i)
    OBVIOUS
  <2> QED
    BY <2>2, <2>3, <2>4, Zenon
<1> QED
  BY <1>1, <1>2, <1>3

\* And where the two agree the prefix bits are forced.
LEMMA ComparedIsWithin ==
  ASSUME NEW o, Places(o), NEW c \in Nat, NEW w \in Nat, NEW x \in Nat \ {0}, NEW N,
         CompareReads(N, o, x, c, w), Compared(N, o, x)
  PROVE  WithinBound(o, c, w)
<1> DEFINE n == Len(o)
           p(i) == x + Len(o) + i - 1 \in N
           G == {u \in Nat : u < n => (AgreeAbove(o, c, w, n - u) => p(n - u))}
<1>1. n \in Nat
  BY DEF Places
<1>2. \A i \in 1 .. n : /\ i = n => p(i)
                        /\ p(i) /\ Holds(N, o[i][1]) => x + i - 1 \in N
                        /\ i < n => (p(i) <=> /\ p(i + 1)
                                              /\ Holds(N, o[i + 1][1]) <=> x + (i + 1) - 1 \in N)
  BY DEF Compared
<1> HIDE DEF p
<1>3. 0 \in G
  <2> SUFFICES ASSUME 0 < n PROVE p(n - 0)
    OBVIOUS
  <2>1. n - 0 = n /\ n \in 1 .. n
    BY <1>1
  <2> QED
    BY <1>2, <2>1
<1>4. ASSUME NEW u \in Nat, u \in G PROVE u + 1 \in G
  <2> SUFFICES ASSUME u + 1 < n, AgreeAbove(o, c, w, n - (u + 1)) PROVE p(n - (u + 1))
    OBVIOUS
  <2> DEFINE i == n - (u + 1)
             j == i + 1
  <2>1. i \in 1 .. n /\ j \in 1 .. n /\ i < n /\ j = n - u /\ u < n
    BY <1>1
  <2>2. AgreeAbove(o, c, w, i)
    OBVIOUS
  <2>3. AgreeAbove(o, c, w, j) => p(j)
    BY <1>4, <2>1
  <2>4. p(i) <=> /\ p(j)
                 /\ Holds(N, o[j][1]) <=> x + j - 1 \in N
    BY <1>2, <2>1
  <2>5. AgreeAbove(o, c, w, j) /\ (Bit(c, o[j][2]) = 1 <=> Bit(w, o[j][2]) = 1)
    <3> HIDE DEF i
    <3> QED
      BY <2>1, <2>2, AgreeStep
  <2>6. (Holds(N, o[j][1]) <=> Bit(c, o[j][2]) = 1) /\ (x + j - 1 \in N <=> Bit(w, o[j][2]) = 1)
    <3> HIDE DEF j
    <3> QED
      BY <2>1 DEF CompareReads
  <2> QED
    BY <2>3, <2>4, <2>5, <2>6, Zenon
<1>5. \A u \in Nat : u \in G
  <2> HIDE DEF G
  <2> QED
    BY <1>3, <1>4, NumberInduction
<1> SUFFICES ASSUME NEW i \in 1 .. n, AgreeAbove(o, c, w, i), Bit(c, o[i][2]) = 1
             PROVE  Bit(w, o[i][2]) = 1
  BY DEF WithinBound
<1>6. n - i \in Nat /\ n - i < n /\ n - (n - i) = i
  BY <1>1
<1>7. p(i)
  <2>1. n - i \in G
    BY <1>5, <1>6
  <2> QED
    BY <1>6, <2>1
<1>8. Holds(N, o[i][1]) /\ (x + i - 1 \in N <=> Bit(w, o[i][2]) = 1)
  BY DEF CompareReads
<1> QED
  BY <1>2, <1>7, <1>8

\* The literals of the comparator.
LEMMA CompareLiterals ==
  ASSUME NEW o, NEW x \in Nat \ {0}, Outputs(o, kNumBitsInWeight, x), NEW y, y = x + 2 * Len(o)
  PROVE  /\ y \in Nat \ {0} /\ Below(x) \subseteq Below(y)
         /\ CompareClauses(o, x) \in SUBSET SUBSET Below(y)
<1> DEFINE n == Len(o)
           p(i) == x + n + i - 1
           b(i) == x + i - 1
           a(i) == o[i][1]
           B == Below(y)
<1>1. n \in Nat /\ \A i \in 1 .. n : a(i) \in Below(x)
  BY PlacesOfOutputs DEF Places
<1>2. y = x + 2 * n
  OBVIOUS
<1>3. y \in Nat \ {0} /\ x <= y
  <2> HIDE DEF n
  <2> QED
    BY <1>1, <1>2
<1>4. \A l \in Below(x) : l \in B /\ -l \in B
  BY <1>3 DEF Below
<1>5. ASSUME NEW i \in 1 .. n
      PROVE  /\ p(i) \in B /\ -p(i) \in B /\ b(i) \in B /\ -b(i) \in B
             /\ a(i) \in B /\ -a(i) \in B
             /\ i # n => i + 1 \in 1 .. n
  <2>1. a(i) \in B /\ -a(i) \in B
    BY <1>1, <1>4
  <2> HIDE DEF n
  <2>2. p(i) \in Nat \ {0} /\ p(i) < y /\ b(i) \in Nat \ {0} /\ b(i) < y
        /\ (i # n => i + 1 \in 1 .. n)
    BY <1>1, <1>2
  <2> HIDE DEF p, b, a
  <2>3. \A z \in Nat \ {0} : z < y => z \in B /\ -z \in B
    BY <1>3 DEF Below
  <2> HIDE DEF B
  <2> QED
    BY <2>1, <2>2, <2>3
<1>6. ASSUME NEW i \in 1 .. n - 1 PROVE CompareAt(o, x, i) \in SUBSET SUBSET B
  <2> DEFINE pi == p(i)
             pj == p(i + 1)
             ai == a(i)
             aj == a(i + 1)
             bi == b(i)
             bj == b(i + 1)
  <2>1. i \in 1 .. n /\ i + 1 \in 1 .. n
    BY <1>1
  <2>2. /\ pi \in B /\ -pi \in B /\ pj \in B /\ -pj \in B /\ ai \in B /\ -ai \in B
        /\ aj \in B /\ -aj \in B /\ bi \in B /\ -bi \in B /\ bj \in B /\ -bj \in B
    BY <1>5, <2>1
  <2>3. CompareAt(o, x, i) = PrefixClauses(pi, pj, aj, bj, ai, bi)
    BY DEF CompareAt
  <2> HIDE DEF pi, pj, ai, aj, bi, bj, B
  <2>4. PrefixClauses(pi, pj, aj, bj, ai, bi) \in SUBSET SUBSET B
    BY <2>2 DEF PrefixClauses
  <2> QED
    BY <2>3, <2>4
<1>7. CompareMost(o, x) \in SUBSET SUBSET B
  <2> SUFFICES ASSUME NEW c \in CompareMost(o, x) PROVE c \in SUBSET B
    OBVIOUS
  <2>1. PICK i \in 1 .. n - 1 : c \in CompareAt(o, x, i)
    BY DEF CompareMost
  <2> QED
    BY <1>6, <2>1
<1>8. CompareLast(o, x) \in SUBSET SUBSET B
  <2>1. CASE n = 0
    BY <2>1 DEF CompareLast
  <2>2. CASE n # 0
    <3> DEFINE pn == p(n)
               an == a(n)
               bn == b(n)
    <3>1. pn \in B /\ -pn \in B /\ -an \in B /\ bn \in B
      <4>1. n \in 1 .. n
        BY <1>1, <2>2
      <4> QED
        BY <1>5, <4>1
    <3>2. CompareLast(o, x) = {{pn}, {-pn, -an, bn}}
      BY <2>2 DEF CompareLast
    <3> HIDE DEF pn, an, bn, B
    <3> QED
      BY <3>1, <3>2
  <2> QED
    BY <2>1, <2>2
<1>9. CompareClauses(o, x) \in SUBSET SUBSET B
  BY <1>7, <1>8 DEF CompareClauses
<1> QED
  BY <1>3, <1>4, <1>9

\* The bound assumed.
BoundLits(o, x, w) == UpdateLEQBound(CompareBound(o, x), w)

BoundSet(o, x, w, N) == \A i \in 1 .. Len(o) : x + i - 1 \in N <=> Bit(w, o[i][2]) = 1

\* The assumptions of a bound are satisfied by its bits.
LEMMA BoundReads ==
  ASSUME NEW o, NEW x \in Nat \ {0}, Len(o) \in Nat, NEW w, NEW N
  PROVE  /\ \A l \in BoundLits(o, x, w) : l \in Int \ {0}
         /\ BoundLits(o, x, w) \subseteq TrueIn(N) <=> BoundSet(o, x, w, N)
<1> DEFINE n == Len(o)
           b(i) == x + i - 1
           t(i) == IF Bit(w, o[i][2]) = 1 THEN b(i) ELSE -b(i)
<1>1. BoundLits(o, x, w) = {t(i) : i \in 1 .. n}
  <2>1. DOMAIN CompareBound(o, x) = 1 .. n
        /\ \A i \in 1 .. n : CompareBound(o, x)[i][1] = b(i) /\ CompareBound(o, x)[i][2] = o[i][2]
    BY DEF CompareBound
  <2> QED
    BY <2>1 DEF BoundLits, UpdateLEQBound
<1>2. \A i \in 1 .. n : b(i) \in Nat \ {0}
  OBVIOUS
<1> HIDE DEF b
<1>3. ASSUME NEW i \in 1 .. n
      PROVE  t(i) \in Int \ {0} /\ (t(i) \in TrueIn(N) <=> (b(i) \in N <=> Bit(w, o[i][2]) = 1))
  <2>1. b(i) \in Nat \ {0}
    BY <1>2
  <2>2. b(i) \in Int \ {0} /\ -b(i) \in Int \ {0} /\ b(i) > 0
    BY <2>1
  <2>3. (Holds(N, b(i)) <=> b(i) \in N) /\ (Holds(N, -b(i)) <=> b(i) \notin N)
    BY <2>2, HoldsNeg DEF Holds
  <2> QED
    BY <2>2, <2>3 DEF TrueIn
<1> HIDE DEF t
<1>4. BoundLits(o, x, w) \subseteq TrueIn(N) <=> \A i \in 1 .. n : t(i) \in TrueIn(N)
  BY <1>1
<1>5. \A l \in BoundLits(o, x, w) : l \in Int \ {0}
  BY <1>1, <1>3
<1>6. BoundLits(o, x, w) \subseteq TrueIn(N)
        <=> \A i \in 1 .. n : b(i) \in N <=> Bit(w, o[i][2]) = 1
  BY <1>3, <1>4
<1>7. BoundLits(o, x, w) \subseteq TrueIn(N)
        <=> \A i \in 1 .. Len(o) : x + i - 1 \in N <=> Bit(w, o[i][2]) = 1
  BY <1>6 DEF b
<1> QED
  BY <1>5, <1>7, Zenon DEF BoundSet

\* An assignment of the adder, continued over the bound and the prefix bits.
Continued(M, o, x, c, w) ==
  {u \in Nat : \/ u < x /\ u \in M
               \/ \E i \in 1 .. Len(o) : u = x + i - 1 /\ Bit(w, o[i][2]) = 1
               \/ \E i \in 1 .. Len(o) : u = x + Len(o) + i - 1 /\ AgreeAbove(o, c, w, i)}

Continues(M, o, x, c, w, N) ==
  /\ N \in SUBSET Nat
  /\ \A v \in 1 .. x - 1 : v \in N <=> v \in M
  /\ BoundSet(o, x, w, N)
  /\ \A i \in 1 .. Len(o) : x + Len(o) + i - 1 \in N <=> AgreeAbove(o, c, w, i)

\* It has the bits it is made for.
LEMMA ContinuedFacts ==
  ASSUME NEW M, NEW o, NEW x \in Nat \ {0}, Len(o) \in Nat, NEW c, NEW w, NEW N,
         N = Continued(M, o, x, c, w)
  PROVE  Continues(M, o, x, c, w, N)
<1> DEFINE n == Len(o)
           One(i) == Bit(w, o[i][2]) = 1
           Agree(i) == AgreeAbove(o, c, w, i)
<1>1. N = {u \in Nat : \/ u < x /\ u \in M
                       \/ \E i \in 1 .. n : u = x + i - 1 /\ One(i)
                       \/ \E i \in 1 .. n : u = x + n + i - 1 /\ Agree(i)}
  BY DEF Continued
<1>2. n \in Nat
  OBVIOUS
<1> HIDE DEF n, One, Agree
<1>3. N \in SUBSET Nat
  BY <1>1
<1>4. \A v \in 1 .. x - 1 : v \in N <=> v \in M
  BY <1>1, <1>2
<1>5. \A i \in 1 .. n : x + i - 1 \in N <=> One(i)
  <2> SUFFICES ASSUME NEW i \in 1 .. n PROVE x + i - 1 \in N <=> One(i)
    OBVIOUS
  <2> DEFINE u == x + i - 1
  <2>1. u \in Nat /\ ~(u < x) /\ (\A j \in 1 .. n : u = x + j - 1 <=> j = i)
        /\ (\A j \in 1 .. n : u # x + n + j - 1)
    BY <1>2
  <2> HIDE DEF u
  <2>2. u \in N <=> One(i)
    BY <1>1, <2>1
  <2> QED
    BY <2>2 DEF u
<1>6. \A i \in 1 .. n : x + n + i - 1 \in N <=> Agree(i)
  <2> SUFFICES ASSUME NEW i \in 1 .. n PROVE x + n + i - 1 \in N <=> Agree(i)
    OBVIOUS
  <2> DEFINE u == x + n + i - 1
  <2>1. u \in Nat /\ ~(u < x) /\ (\A j \in 1 .. n : u # x + j - 1)
        /\ (\A j \in 1 .. n : u = x + n + j - 1 <=> j = i)
    BY <1>2
  <2> HIDE DEF u
  <2>2. u \in N <=> Agree(i)
    BY <1>1, <2>1
  <2> QED
    BY <2>2 DEF u
<1>7. /\ N \in SUBSET Nat /\ \A v \in 1 .. x - 1 : v \in N <=> v \in M
      /\ \A i \in 1 .. Len(o) : x + i - 1 \in N <=> Bit(w, o[i][2]) = 1
      /\ \A i \in 1 .. Len(o) : x + Len(o) + i - 1 \in N <=> AgreeAbove(o, c, w, i)
  BY <1>3, <1>4, <1>5, <1>6 DEF n, One, Agree
<1> QED
  BY <1>7, Zenon DEF Continues, BoundSet

\* The comparator's bound leaves the assignments that cost less than v.
LEMMA AdderBound ==
  ASSUME NEW first \in Nat \ {0}, NEW s, NEW e0, AdderInv(first, e0, s), AdderDone(e0),
         NEW e, e = LessThanOrEqualBits(e0), NEW m \in AssignmentsTo(first),
         NEW other \in AssignmentsTo(first),
         NEW v, v = CostOf(s, other), v # 0, v < 2^kNumBitsInWeight,
         NEW c, c = CostOf(s, m), c < 2^kNumBitsInWeight,
         NEW w, w = v - 1, NEW g, g = m \cup UpdateLEQBound(e.bound, w)
  PROVE  g \in SUBSET (Int \ {0}) /\ (Extends(e.clauses, g) <=> c < v)
<1>1. PICK bk, t, x, C, o :
        /\ AdderRecord(e0, bk, t, x, C, o) /\ AdderShape(first, bk, t, x, C, o)
        /\ \A a \in AssignmentsTo(first) : AddCarries(bk, C, o, a, CostOf(s, a))
  BY DEF AdderInv
<1>2. t = kNumBitsInWeight
  BY <1>1 DEF AdderRecord, AdderDone
<1>3. AdderShape(first, bk, kNumBitsInWeight, x, C, o)
  BY <1>1, <1>2
<1>4. /\ x \in Nat \ {0} /\ first <= x /\ C \in SUBSET SUBSET Below(x)
      /\ Outputs(o, kNumBitsInWeight, x)
  BY <1>3 DEF AdderShape, ClausesBelow
<1>5. /\ Places(o) /\ Len(o) \in Nat
      /\ \A i \in 1 .. Len(o) : o[i][1] \in Below(x) /\ o[i][1] \in Int \ {0}
  BY <1>4, PlacesOfOutputs DEF Places
<1> DEFINE F == CompareClauses(o, x)
           D == C \cup F
           B == BoundLits(o, x, w)
           y == x + 2 * Len(o)
<1>6. e.clauses = D /\ g = m \cup B
  <2>1. e.bound = CompareBound(o, x) /\ e.clauses = D
    BY <1>1, CompareIs
  <2> QED
    BY <2>1 DEF BoundLits
<1>7. PICK M \in SUBSET Nat : /\ m \subseteq TrueIn(M) /\ Satisfied(M, C)
                              /\ AllDecided(bk, C, o, m, M)
                              /\ Load(bk, M) + Paid(o, M) = c
  BY <1>1 DEF AddCarries
<1>8. PICK Q : Load(bk, Q) + Paid(o, Q) = v
  BY <1>1 DEF AddCarries
<1>9. OutputBits(o, c, M) /\ OutputBits(o, v, Q)
  BY <1>3, <1>7, <1>8, AdderIsSpent
<1>10. Spelled(o, c) /\ Spelled(o, v) /\ c \in Nat /\ v \in Nat
  BY <1>9 DEF OutputBits, Spelled
<1>11. WithinBound(o, c, w) <=> c < v
  BY <1>5, <1>10, BoundIsLess
<1>12. w \in Nat
  BY <1>10
<1>13. \A i \in 1 .. Len(o) : Bit(c, o[i][2]) = 1 <=> Holds(M, o[i][1])
  BY <1>9 DEF OutputBits
<1>14. /\ D \in Clauses /\ IsFiniteSet(UNION D)
  <2>1. y \in Nat \ {0} /\ Below(x) \subseteq Below(y) /\ F \in SUBSET SUBSET Below(y)
    BY <1>4, CompareLiterals
  <2> HIDE DEF y, F
  <2>2. D \in SUBSET SUBSET Below(y)
    BY <1>4, <2>1
  <2> HIDE DEF D
  <2>3. ClausesBelow(D, y)
    BY <2>1, <2>2, BelowFinite
  <2> QED
    BY <2>2, <2>3 DEF ClausesBelow, Clauses, Below
<1>15. m \in SUBSET Below(x) /\ \A l \in m : l \in Int \ {0}
  <2>1. m \subseteq Below(first)
    BY AssignmentFacts
  <2>2. \A l \in Below(first) : l \in Below(x) /\ l \in Int \ {0}
    BY <1>4 DEF Below
  <2> QED
    BY <2>1, <2>2
<1>16. g \in SUBSET (Int \ {0})
  <2>1. \A l \in B : l \in Int \ {0}
    BY <1>4, <1>5, BoundReads
  <2> HIDE DEF B
  <2> QED
    BY <1>6, <1>15, <2>1
<1>17. Extends(D, g) <=> \E N \in SUBSET Nat : g \subseteq TrueIn(N) /\ Satisfied(N, D)
  <2> HIDE DEF D
  <2> QED
    BY <1>14, <1>16, ExtendsIsSatisfiable
<1>18. ASSUME NEW N
       PROVE  /\ g \subseteq TrueIn(N)
                   <=> /\ m \subseteq TrueIn(N)
                       /\ BoundSet(o, x, w, N)
              /\ Satisfied(N, D) <=> Satisfied(N, C) /\ Compared(N, o, x)
  <2>2. B \subseteq TrueIn(N) <=> BoundSet(o, x, w, N)
    BY <1>4, <1>5, BoundReads
  <2>3. Satisfied(N, F) <=> Compared(N, o, x)
    BY <1>4, <1>5, CompareSays
  <2>4. Satisfied(N, C \cup F) <=> Satisfied(N, C) /\ Satisfied(N, F)
    BY DEF Satisfied
  <2> HIDE DEF B, F
  <2>5. g \subseteq TrueIn(N) <=> m \subseteq TrueIn(N) /\ BoundSet(o, x, w, N)
    BY <1>6, <2>2
  <2> QED
    BY <2>3, <2>4, <2>5
<1> HIDE DEF F, D, B, y
<1>19. ASSUME WithinBound(o, c, w) PROVE Extends(D, g)
  <2> DEFINE N == Continued(M, o, x, c, w)
  <2>0. N = Continued(M, o, x, c, w)
    OBVIOUS
  <2> HIDE DEF N
  <2>1. Continues(M, o, x, c, w, N)
    BY <1>4, <1>5, <2>0, ContinuedFacts
  <2>a. /\ N \in SUBSET Nat
        /\ \A u \in 1 .. x - 1 : u \in N <=> u \in M
        /\ BoundSet(o, x, w, N)
        /\ \A i \in 1 .. Len(o) : x + Len(o) + i - 1 \in N <=> AgreeAbove(o, c, w, i)
    BY <2>1, Zenon DEF Continues
  <2>2. /\ \A l \in Below(x) : Holds(N, l) <=> Holds(M, l)
        /\ Satisfied(N, C) /\ m \subseteq TrueIn(N)
    BY <1>4, <1>7, <1>15, <2>a, SameBelow
  <2>3. CompareReads(N, o, x, c, w)
    <3> SUFFICES ASSUME NEW i \in 1 .. Len(o)
                 PROVE  /\ Holds(N, o[i][1]) <=> Bit(c, o[i][2]) = 1
                        /\ x + i - 1 \in N <=> Bit(w, o[i][2]) = 1
      BY DEF CompareReads
    <3>1. o[i][1] \in Below(x)
      BY <1>5
    <3>2. Holds(N, o[i][1]) <=> Holds(M, o[i][1])
      BY <2>2, <3>1
    <3> QED
      BY <1>13, <2>a, <3>2, Zenon DEF BoundSet
  <2>4. Compared(N, o, x)
    BY <1>4, <1>5, <1>10, <1>12, <1>19, <2>a, <2>3, WithinCompares
  <2>5. g \subseteq TrueIn(N) /\ Satisfied(N, D)
    BY <1>18, <2>a, <2>2, <2>4, Zenon
  <2> QED
    BY <1>17, <2>a, <2>5, Zenon
<1>20. ASSUME Extends(D, g) PROVE WithinBound(o, c, w)
  <2>1. PICK N \in SUBSET Nat : g \subseteq TrueIn(N) /\ Satisfied(N, D)
    BY <1>17, <1>20
  <2>2. /\ m \subseteq TrueIn(N) /\ Satisfied(N, C) /\ Compared(N, o, x)
        /\ BoundSet(o, x, w, N)
    BY <1>18, <2>1, Zenon
  <2> DEFINE K == TrueIn(N)
  <2>3. Closed(K, C)
    <3>1. C \in Clauses
      BY <1>4 DEF Clauses, Below
    <3> QED
      BY <2>2, <3>1, SatisfiedIsClosed
  <2>4. K \in SUBSET Int /\ m \subseteq K
    BY <2>2 DEF TrueIn
  <2> HIDE DEF K
  <2>5. OutputsDecided(o, K, M)
    BY <1>7, <2>3, <2>4 DEF AllDecided
  <2>6. CompareReads(N, o, x, c, w)
    <3> SUFFICES ASSUME NEW i \in 1 .. Len(o)
                 PROVE  /\ Holds(N, o[i][1]) <=> Bit(c, o[i][2]) = 1
                        /\ x + i - 1 \in N <=> Bit(w, o[i][2]) = 1
      BY DEF CompareReads
    <3> DEFINE a == o[i][1]
    <3>1. a \in Int \ {0} /\ Decided(K, M, a)
      BY <1>5, <2>5 DEF OutputsDecided
    <3> HIDE DEF a
    <3>2. Holds(N, a) <=> Holds(M, a)
      BY <3>1, HoldsNeg DEF Decided, K, TrueIn
    <3> QED
      BY <1>13, <2>2, <3>2, Zenon DEF a, BoundSet
  <2> QED
    BY <1>4, <1>5, <1>10, <1>12, <2>2, <2>6, ComparedIsWithin
<1> QED
  BY <1>6, <1>11, <1>16, <1>19, <1>20

-----------------------------------------------------------------------------
(***************************************************************************)
(* The input of an encoding.                                               *)
(***************************************************************************)
\* Soft literals an encoding can be made for.
Encodable(first, s) ==
  /\ first \in Nat \ {0} /\ s # {} /\ WeightedLits(first, s)
  /\ \A wl \in s : wl[1] < 2^kNumBitsInWeight
  /\ \A m \in AssignmentsTo(first) : CostOf(s, m) \in Nat /\ CostOf(s, m) < 2^kNumBitsInWeight

\* An assignment does not satisfy a literal and its negation.
LEMMA Consistent ==
  ASSUME NEW first \in Nat, NEW m \in AssignmentsTo(first), NEW l \in Below(first), l \in m
  PROVE  -l \notin m
<1>1. PICK true \in SUBSET (1 .. first - 1) :
              \A k \in Below(first) : k \in m <=> Holds(true, k)
  BY AssignmentFacts
<1>2. -l \in Below(first) /\ l \in Int \ {0}
  BY DEF Below
<1> QED
  BY <1>1, <1>2, HoldsNeg

\* A cost is the weight of literals that hold together.
LEMMA CostFits ==
  ASSUME NEW soft \in SUBSET SoftLit, NEW w \in [soft -> SoftWeight],
         NEW s, s = {<<w[l], l>> : l \in soft}, WeightedLits(FirstVar, s), FirstVar \in Nat,
         soft \subseteq Below(FirstVar), IsFiniteSet(soft), NEW m \in AssignmentsTo(FirstVar)
  PROVE  CostOf(s, m) \in Nat /\ CostOf(s, m) < 2^kNumBitsInWeight
<1> DEFINE pos == {l \in soft : l \in m}
           P == [l \in pos |-> w[l]]
           F == [wl \in s |-> IF wl[2] \in m THEN wl[1] ELSE 0]
           b == [l \in pos |-> <<w[l], l>>]
           U == {wl \in s : wl[2] \in m}
           p == 2^kNumBitsInWeight
<1>1. CostOf(s, m) = SumFunctionOnSet(F, s)
  BY DEF CostOf, SumFunction
<1>2. SoftWeight \subseteq Nat
  BY EncoderBuildAssumption
<1>3. IsFiniteSet(s) /\ \A wl \in s : wl[1] \in Nat
  BY DEF WeightedLits
<1>4. U \in SUBSET s /\ (\A wl \in s \ U : F[wl] = 0) /\ \A wl \in s : F[wl] \in Nat
  BY <1>3
<1>5. IsFiniteSet(pos) /\ pos \in SUBSET soft
  <2>1. pos \in SUBSET soft
    OBVIOUS
  <2> HIDE DEF pos
  <2> QED
    BY <2>1, FS_Subset
<1>6. /\ b \in [pos -> U]
      /\ \A l \in pos : P[l] = F[b[l]]
      /\ \A wl \in U : \E l \in pos : b[l] = wl
      /\ \A k, l \in pos : b[k] = b[l] => k = l
  <2>1. \A l \in pos : <<w[l], l>> \in U
    OBVIOUS
  <2>2. \A l \in pos : b[l] = <<w[l], l>> /\ P[l] = w[l]
    OBVIOUS
  <2>3. \A l \in pos : F[<<w[l], l>>] = w[l]
    BY <2>1
  <2>4. \A wl \in U : \E l \in pos : wl = <<w[l], l>>
    OBVIOUS
  <2>5. b \in [pos -> U]
    BY <2>1
  <2> HIDE DEF P, F, b, U, pos
  <2>6. \A l \in pos : P[l] = F[b[l]]
    BY <2>2, <2>3
  <2>7. \A wl \in U : \E l \in pos : b[l] = wl
    BY <2>2, <2>4
  <2>8. \A k, l \in pos : b[k] = b[l] => k = l
    BY <2>2
  <2> QED
    BY <2>5, <2>6, <2>7, <2>8
<1>7. P \in [pos -> SoftWeight] /\ DOMAIN P = pos
  OBVIOUS
<1>8. \A l \in pos : -l \notin pos
  BY Consistent
<1>9. pos \in SUBSET SoftLit
  OBVIOUS
<1> HIDE DEF F, P, b, U, pos
<1>10. SumFunction(P) < p
  BY <1>7, <1>8, <1>9, CostsFitAssumption
<1>11. SumFunction(P) = SumFunctionOnSet(P, pos)
  BY <1>7 DEF SumFunction
<1>12. Integral(F, s) /\ Integral(F, U)
  <2>1. Integral(F, s)
    BY <1>3, <1>4 DEF Integral
  <2> QED
    BY <1>4, <2>1, IntegralSubset
<1>13. SumFunctionOnSet(F, s) = SumFunctionOnSet(F, U)
  BY <1>4, <1>12, SumSupport
<1>14. SumFunctionOnSet(P, pos) = SumFunctionOnSet(F, U)
  BY <1>5, <1>6, <1>12, SumRename
<1>15. SumFunctionOnSet(F, s) \in Nat
  BY <1>3, <1>4, SumNat
<1> QED
  BY <1>1, <1>10, <1>11, <1>13, <1>14, <1>15

\* The literals and weights of the initial states.
LEMMA SoftIsEncodable ==
  ASSUME NEW soft \in SUBSET SoftLit, soft # {}, NEW w \in [soft -> SoftWeight],
         NEW s, s = {<<w[l], l>> : l \in soft}
  PROVE  Encodable(FirstVar, s)
<1> DEFINE p == 2^kNumBitsInWeight
<1>1. /\ FirstVar \in Nat /\ SoftLit \subseteq Int \ {0}
      /\ \A l \in SoftLit : -FirstVar < l /\ l < FirstVar
      /\ SoftWeight \subseteq 1 .. 2^kNumBitsInWeight - 1
  BY EncoderBuildAssumption
<1>2. p \in Nat
  BY WidthAssumption, PowerOfTwo
<1>3. \A z \in SoftWeight : z \in Nat \ {0} /\ z < p
  <2>1. SoftWeight \subseteq 1 .. p - 1
    BY <1>1
  <2> HIDE DEF p
  <2> QED
    BY <1>2, <2>1
<1>4. FirstVar \in Nat \ {0}
  <2>1. PICK l \in soft : TRUE
    OBVIOUS
  <2>2. l \in Int /\ -FirstVar < l /\ l < FirstVar
    BY <1>1
  <2> QED
    BY <1>1, <2>2
<1>5. soft \subseteq Below(FirstVar)
  <2>1. \A l \in soft : l \in Int \ {0} /\ -FirstVar < l /\ l < FirstVar
    BY <1>1
  <2> QED
    BY <2>1 DEF Below
<1>6. IsFiniteSet(soft)
  BY <1>1, <1>5, BelowFinite, FS_Subset
<1>7. \A l \in soft : w[l] \in SoftWeight
  OBVIOUS
<1>8. s # {} /\ \A wl \in s : wl \in (Nat \ {0}) \X Below(FirstVar) /\ wl[1] < p
  <2>1. \A l \in soft : w[l] \in Nat \ {0} /\ l \in Below(FirstVar) /\ w[l] < p
    BY <1>3, <1>5, <1>7
  <2>2. \A l \in soft : <<w[l], l>> \in (Nat \ {0}) \X Below(FirstVar)
    BY <2>1
  <2>3. \A l \in soft : <<w[l], l>>[1] < p
    BY <2>1
  <2> HIDE DEF p
  <2> QED
    BY <2>2, <2>3
<1>9. \A a, b \in s : a[2] = b[2] => a = b
  OBVIOUS
<1>10. IsFiniteSet(s)
  <2> DEFINE f == [l \in soft |-> <<w[l], l>>]
  <2>1. f \in Surjection(soft, s)
    BY DEF Surjection
  <2> HIDE DEF f
  <2> QED
    BY <1>6, <2>1, FS_Surjection
<1>11. WeightedLits(FirstVar, s)
  BY <1>8, <1>9, <1>10 DEF WeightedLits
<1>12. ASSUME NEW m \in AssignmentsTo(FirstVar)
       PROVE  CostOf(s, m) \in Nat /\ CostOf(s, m) < p
  <2> QED
    BY <1>1, <1>5, <1>6, <1>11, CostFits
<1> QED
  BY <1>4, <1>8, <1>11, <1>12 DEF Encodable

-----------------------------------------------------------------------------
(***************************************************************************)
(* The construction.                                                       *)
(***************************************************************************)
\* The encoding compared is that of a finished adder.
ComparedInv(e, s) ==
  \E e0 : AdderInv(FirstVar, e0, s) /\ AdderDone(e0) /\ e = LessThanOrEqualBits(e0)

\* The inductive invariant.
BuildInv ==
  /\ Encodable(FirstVar, wlits)
  /\ value \in Nat \ {0}
  /\ phase \in {"merge", "merged", "add", "compared"}
  /\ phase \in {"merge", "merged"} => TotInv(FirstVar, enc, wlits, value)
  /\ phase = "merged" => Len(enc.queue) = 1
  /\ phase = "add" => AdderInv(FirstVar, enc, wlits)
  /\ phase = "compared" => ComparedInv(enc, wlits)

\* The assignments and costs of the state are those of the lemmas.
LEMMA AllAssignments == Assignments = AssignmentsTo(FirstVar)
BY DEF Assignments, AssignmentsTo

LEMMA CostInIsCostOf == \A m : CostIn(m) = CostOf(wlits, m)
BY DEF CostIn, CostOf

\* Both constructions start in it, and every step keeps it.
LEMMA BuildStarts == BuildInit => BuildInv
<1> SUFFICES ASSUME BuildInit PROVE BuildInv
  OBVIOUS
<1>1. PICK soft \in (SUBSET SoftLit) \ {{}} :
        \E w \in [soft -> SoftWeight] : wlits = {<<w[l], l>> : l \in soft}
  BY Zenon DEF BuildInit
<1>2. PICK w \in [soft -> SoftWeight] : wlits = {<<w[l], l>> : l \in soft}
  BY <1>1
<1>3. soft \in SUBSET SoftLit /\ soft # {}
  OBVIOUS
<1>4. Encodable(FirstVar, wlits)
  BY <1>2, <1>3, SoftIsEncodable
<1>5. value \in Nat \ {0}
  <2>1. value \in Costs \ {0}
    BY Zenon DEF BuildInit
  <2>2. PICK m \in AssignmentsTo(FirstVar) : value = CostIn(m)
    BY <2>1, AllAssignments DEF Costs
  <2> QED
    BY <1>4, <2>1, <2>2, CostInIsCostOf DEF Encodable
<1>6. FirstVar \in Nat \ {0} /\ WeightedLits(FirstVar, wlits) /\ wlits # {}
      /\ \A wl \in wlits : wl[1] < 2^kNumBitsInWeight
  BY <1>4 DEF Encodable
<1>7. \/ phase = "merge" /\ enc = InitGenTotalizer(wlits, FirstVar + 1, FirstVar, value - 1)
      \/ phase = "add" /\ enc = InitAdder(wlits, FirstVar)
  BY Zenon DEF BuildInit, Selector
<1>8. CASE phase = "merge" /\ enc = InitGenTotalizer(wlits, FirstVar + 1, FirstVar, value - 1)
  <2>1. TotInv(FirstVar, enc, wlits, value)
    BY <1>5, <1>6, <1>8, TotInit
  <2> QED
    BY <1>4, <1>5, <1>8, <2>1 DEF BuildInv
<1>9. CASE phase = "add" /\ enc = InitAdder(wlits, FirstVar)
  <2>1. AdderInv(FirstVar, enc, wlits)
    BY <1>6, <1>9, AdderInit
  <2> QED
    BY <1>4, <1>5, <1>9, <2>1 DEF BuildInv
<1> QED
  BY <1>7, <1>8, <1>9

LEMMA BuildStep == BuildInv /\ [BuildNext]_buildVars => BuildInv'
<1> SUFFICES ASSUME BuildInv, [BuildNext]_buildVars PROVE BuildInv'
  OBVIOUS
<1>1. /\ Encodable(FirstVar, wlits) /\ value \in Nat \ {0}
      /\ FirstVar \in Nat \ {0}
  BY DEF BuildInv, Encodable
<1>2. CASE Merge
  <2>1. /\ phase = "merge" /\ Len(enc.queue) > 1 /\ enc' = AddAndMerge(enc)
        /\ wlits' = wlits /\ value' = value /\ phase' = "merge"
    BY <1>2 DEF Merge
  <2>2. TotInv(FirstVar, enc, wlits, value)
    BY <2>1 DEF BuildInv
  <2>3. TotInv(FirstVar, enc', wlits', value')
    BY <1>1, <2>1, <2>2, TotStep
  <2> QED
    BY <1>1, <2>1, <2>3 DEF BuildInv
<1>3. CASE Merged
  <2>1. /\ phase = "merge" /\ Len(enc.queue) = 1 /\ phase' = "merged"
        /\ wlits' = wlits /\ value' = value /\ enc' = enc
    BY <1>3 DEF Merged
  <2> QED
    BY <1>1, <2>1 DEF BuildInv
<1>4. CASE Add
  <2>1. /\ phase = "add" /\ ~AdderDone(enc) /\ enc' = AdderStep(enc)
        /\ wlits' = wlits /\ value' = value /\ phase' = "add"
    BY <1>4 DEF Add
  <2>2. AdderInv(FirstVar, enc, wlits)
    BY <2>1 DEF BuildInv
  <2>3. AdderInv(FirstVar, enc', wlits')
    BY <1>1, <2>1, <2>2, AdderStepKeeps
  <2> QED
    BY <1>1, <2>1, <2>3 DEF BuildInv
<1>5. CASE Compare
  <2>1. /\ phase = "add" /\ AdderDone(enc) /\ enc' = LessThanOrEqualBits(enc)
        /\ wlits' = wlits /\ value' = value /\ phase' = "compared"
    BY <1>5 DEF Compare
  <2>2. AdderInv(FirstVar, enc, wlits)
    BY <2>1 DEF BuildInv
  <2>3. ComparedInv(enc', wlits')
    BY <2>1, <2>2 DEF ComparedInv
  <2> QED
    BY <1>1, <2>1, <2>3 DEF BuildInv
<1>6. CASE UNCHANGED buildVars
  BY <1>6 DEF BuildInv, buildVars
<1> QED
  BY <1>2, <1>3, <1>4, <1>5, <1>6 DEF BuildNext

\* What is built of an encoding always carries the cost of every assignment, and
\* what is compared is a finished adder (Totalizer.cc:145-219, Adder.cc:81-181).
THEOREM EncodingIsBuilt == BuildSpec => []BuildInv
BY BuildStarts, BuildStep, PTL DEF BuildSpec

\* What the invariant says of propagation.
LEMMA BuildCarries == BuildInv => CostIsCarried
<1> SUFFICES ASSUME BuildInv, NEW m \in AssignmentsTo(FirstVar), NEW known,
                    known = Propagated(enc.clauses, Given(m, {}))
             PROVE  /\ phase = "merge" =>
                         CheckRhsSimplification(enc.limit, CarriedByTotalizer(known))
                           = CheckRhsSimplification(enc.limit, CostIn(m))
                    /\ phase = "add" => CarriedByAdder(known) = CostIn(m)
  BY AllAssignments DEF CostIsCarried
<1>1. FirstVar \in Nat \ {0} /\ value \in Nat \ {0}
  BY DEF BuildInv, Encodable
<1>2. CostIn(m) = CostOf(wlits, m)
  BY CostInIsCostOf
<1>3. ASSUME phase = "merge"
      PROVE  CheckRhsSimplification(enc.limit, CarriedByTotalizer(known))
               = CheckRhsSimplification(enc.limit, CostIn(m))
  <2>1. TotInv(FirstVar, enc, wlits, value)
    BY <1>3 DEF BuildInv
  <2>2. enc.limit = value
    <3>1. PICK q, x, C : TotRecord(FirstVar, enc, q, x, C, value)
      BY <2>1 DEF TotInv
    <3> QED
      BY <3>1 DEF TotRecord
  <2>3. Given(m, {}) = m \cup {-FirstVar}
    BY <1>3 DEF Given, Selector
  <2>4. known = Propagated(enc.clauses, m \cup {-FirstVar})
    BY <2>3
  <2>5. ReadsCost(enc.queue, value, known, CostOf(wlits, m))
    BY <1>1, <2>1, <2>4, TotIsRead
  <2> QED
    BY <1>2, <2>2, <2>5 DEF CarriedByTotalizer, ReadsCost
<1>4. ASSUME phase = "add" PROVE CarriedByAdder(known) = CostIn(m)
  <2>1. AdderInv(FirstVar, enc, wlits)
    BY <1>4 DEF BuildInv
  <2>2. Given(m, {}) = m
    BY <1>4 DEF Given
  <2>3. known = Propagated(enc.clauses, m)
    BY <2>2
  <2>4. SumFunction([i \in 0 .. kNumBitsInWeight |-> 2^i * BitsTrue(enc.buckets[i], known)])
         + SumFunction([i \in DOMAIN enc.output |->
                          IF enc.output[i][1] \in known THEN 2^enc.output[i][2] ELSE 0])
           = CostOf(wlits, m)
    BY <1>1, <2>1, <2>3, AdderIsRead
  <2> QED
    BY <1>2, <2>4 DEF CarriedByAdder
<1> QED
  BY <1>3, <1>4

\* At every step of the construction unit propagation reads the cost of an
\* assignment off the literals not yet merged or added, up to the limit on a
\* totalizer, exactly on an adder (Totalizer.cc:145-219, Adder.cc:81-108).
THEOREM CostCarried == BuildSpec => []CostIsCarried
BY EncodingIsBuilt, BuildCarries, PTL

\* What it says of a finished totalizer.
LEMMA BuildBounds == BuildInv => TotalizerBoundIsExact
<1> SUFFICES ASSUME BuildInv, phase = "merged", NEW v \in Costs, 0 < v, v <= value,
                    NEW m \in AssignmentsTo(FirstVar), NEW B,
                    B = BoundWithTotalizer(enc.queue[1], v, HasWeights)
             PROVE  Extends(enc.clauses, Given(m, B)) <=> CostIn(m) < v
  BY AllAssignments DEF TotalizerBoundIsExact
<1>1. FirstVar \in Nat \ {0} /\ value \in Nat \ {0} /\ CostOf(wlits, m) \in Nat
  BY DEF BuildInv, Encodable
<1>2. PICK other \in AssignmentsTo(FirstVar) : v = CostOf(wlits, other)
  BY CostInIsCostOf, AllAssignments DEF Costs
<1>3. v \in 1 .. value
  <2>1. v \in Nat
    BY <1>2 DEF BuildInv, Encodable
  <2> QED
    BY <1>1, <2>1
<1>4. TotInv(FirstVar, enc, wlits, value) /\ Len(enc.queue) = 1
  BY DEF BuildInv
<1> DEFINE tot == enc.queue[1]
           g == m \cup B \cup {-FirstVar}
<1>5. LeavesBelow(wlits, tot, v, B)
  <2>1. HasWeights <=> ~Flat(wlits)
    BY DEF HasWeights, Flat
  <2> QED
    BY <2>1 DEF BoundWithTotalizer, LeavesBelow
<1>6. Given(m, B) = g
  BY DEF Given, Selector
<1>7. tot = enc.queue[1] /\ g = m \cup B \cup {-FirstVar}
  OBVIOUS
<1> HIDE DEF tot, g
<1>8. Extends(enc.clauses, g) <=> CostOf(wlits, m) < v
  <2>1. Bounding(FirstVar, wlits, value, enc, m, v, tot, B)
    BY <1>1, <1>2, <1>3, <1>4, <1>5, <1>7, Zenon DEF Bounding
  <2>2. g = m \cup B \cup {-FirstVar}
    BY <1>7
  <2> QED
    BY <2>1, <2>2, TotBound
<1> QED
  BY <1>6, <1>8, CostInIsCostOf

\* The assumptions LSU makes on a totalizer leave exactly the assignments that
\* cost less than v, for the cost v it was made for and every one it finds below
\* (LSU.cc:100-118).
THEOREM TotalizerBoundExact == BuildSpec => []TotalizerBoundIsExact
BY EncodingIsBuilt, BuildBounds, PTL

\* What it says of the comparator.
LEMMA BuildCompares == BuildInv => AdderBoundIsExact
<1> SUFFICES ASSUME BuildInv, phase = "compared", NEW v \in Costs, v # 0,
                    NEW m \in AssignmentsTo(FirstVar)
             PROVE  Extends(enc.clauses, Given(m, UpdateLEQBound(enc.bound, v - 1)))
                      <=> CostIn(m) < v
  BY AllAssignments DEF AdderBoundIsExact
<1>1. FirstVar \in Nat \ {0} /\ CostOf(wlits, m) < 2^kNumBitsInWeight
  BY DEF BuildInv, Encodable
<1>2. PICK other \in AssignmentsTo(FirstVar) : v = CostOf(wlits, other)
  BY CostInIsCostOf, AllAssignments DEF Costs
<1>3. v < 2^kNumBitsInWeight
  BY <1>2 DEF BuildInv, Encodable
<1>4. PICK e0 : AdderInv(FirstVar, e0, wlits) /\ AdderDone(e0) /\ enc = LessThanOrEqualBits(e0)
  BY DEF BuildInv, ComparedInv
<1> DEFINE w == v - 1
           c == CostOf(wlits, m)
           g == m \cup UpdateLEQBound(enc.bound, w)
<1>5. Given(m, UpdateLEQBound(enc.bound, v - 1)) = g
  BY DEF Given
<1>6. w = v - 1 /\ c = CostOf(wlits, m) /\ g = m \cup UpdateLEQBound(enc.bound, w)
      /\ c < 2^kNumBitsInWeight
  BY <1>1
<1> HIDE DEF w, c, g
<1>7. Extends(enc.clauses, g) <=> c < v
  BY <1>1, <1>2, <1>3, <1>4, <1>6, AdderBound
<1> QED
  BY <1>5, <1>6, <1>7, CostInIsCostOf

\* The bound LSU sets on the comparator leaves exactly the assignments that cost
\* less than v, although it loses the bits no output stands for
\* (Adder.cc:114-181, LSU.cc:149-155).
THEOREM AdderBoundExact == BuildSpec => []AdderBoundIsExact
BY EncodingIsBuilt, BuildCompares, PTL

-----------------------------------------------------------------------------
(***************************************************************************)
(* The size of a totalizer: the states its count goes through.             *)
(***************************************************************************)
\* A set of numbers up to n that is not empty has a greatest element.
LEMMA GreatestNumber ==
  ASSUME NEW n \in Nat, NEW s \in SUBSET (1 .. n), s # {}
  PROVE  Max(s) \in s /\ \A y \in s : Max(s) >= y
<1> DEFINE W == {n - x : x \in s}
<1>0. \A x \in s : x \in Int /\ n - x \in Nat
  OBVIOUS
<1>1. PICK z \in W : \A y \in W : z <= y
  <2>1. W \in SUBSET Nat /\ W # {}
    BY <1>0
  <2> HIDE DEF W
  <2> QED
    BY <2>1, LeastNumber
<1>2. PICK x \in s : z = n - x
  BY <1>1
<1>3. \A y \in s : x >= y
  <2> TAKE y \in s
  <2>1. n - x <= n - y
    BY <1>1, <1>2
  <2>2. x \in Int /\ y \in Int
    BY <1>0
  <2> QED
    BY <2>1, <2>2
<1> QED
  BY <1>2, <1>3 DEF Max

\* The greatest number up to i.
LEMMA MaxInterval ==
  ASSUME NEW i \in Nat, i > 0
  PROVE  Max(1 .. i) = i /\ (1 .. i) \ {i} = 1 .. (i - 1)
<1>1. 1 .. i # {} /\ (1 .. i) \ {i} = 1 .. (i - 1)
  OBVIOUS
<1>2. Max(1 .. i) \in 1 .. i /\ \A y \in 1 .. i : Max(1 .. i) >= y
  BY <1>1, GreatestNumber
<1> QED
  BY <1>1, <1>2

\* A step of the fold is a step of the count.
LEMMA StepIsCount == \A c : Step(CountAndMerge, c) = CountAndMerge(c)
BY DEF Step

\* The first counts of a totalizer, one for each merge.
CountsFrom(c, n, r) == r[0] = c /\ \A i \in 1 .. n : r[i] = CountAndMerge(r[i - 1])

Counts(s, rhs, n, r) == CountsFrom(InitCount(s, rhs), n, r) /\ Counted(s, rhs) = r[n]

LEMMA CountsExist ==
  ASSUME NEW c, NEW n \in Nat
  PROVE  \E r : CountsFrom(c, n, r)
<1> DEFINE G == {k \in Nat : \E r : CountsFrom(c, k, r)}
<1>1. 0 \in G
  <2> DEFINE r == [i \in 0 .. 0 |-> c]
  <2>1. CountsFrom(c, 0, r)
    BY DEF CountsFrom
  <2> HIDE DEF r
  <2> QED
    BY <2>1
<1>2. ASSUME NEW k \in Nat, k \in G PROVE k + 1 \in G
  <2>1. PICK r : CountsFrom(c, k, r)
    BY <1>2
  <2> DEFINE f == [i \in 0 .. k + 1 |-> IF i = k + 1 THEN CountAndMerge(r[k]) ELSE r[i]]
  <2>2. f[0] = c
    BY <2>1 DEF CountsFrom
  <2>3. ASSUME NEW i \in 1 .. k + 1 PROVE f[i] = CountAndMerge(f[i - 1])
    <3>1. CASE i = k + 1
      <4>1. f[i] = CountAndMerge(r[k]) /\ f[i - 1] = r[k]
        BY <3>1
      <4> QED
        BY <4>1
    <3>2. CASE i # k + 1
      <4>1. i \in 1 .. k
        BY <3>2
      <4>2. f[i] = r[i] /\ f[i - 1] = r[i - 1]
        BY <4>1
      <4> QED
        BY <2>1, <4>1, <4>2 DEF CountsFrom
    <3> QED
      BY <3>1, <3>2
  <2> HIDE DEF f
  <2>4. CountsFrom(c, k + 1, f)
    BY <2>2, <2>3 DEF CountsFrom
  <2> QED
    BY <2>4
<1> HIDE DEF G
<1>3. n \in G
  BY <1>1, <1>2, NumberInduction
<1> QED
  BY <1>3 DEF G

\* The fold that counts goes through them.
CountFold(g, n, c) ==
  g = [t \in SUBSET (1 .. n) |-> IF t = {} THEN c ELSE CountAndMerge(g[t \ {Max(t)}])]

LEMMA CountFoldExists ==
  ASSUME NEW c, NEW n \in Nat
  PROVE  \E g : CountFold(g, n, c)
<1>1. PICK r : CountsFrom(c, n, r)
  BY CountsExist
<1> DEFINE g == [t \in SUBSET (1 .. n) |-> r[Cardinality(t)]]
           F(t) == IF t = {} THEN c ELSE CountAndMerge(g[t \ {Max(t)}])
<1>2. ASSUME NEW t \in SUBSET (1 .. n) PROVE g[t] = F(t)
  <2>1. g[t] = r[Cardinality(t)]
    OBVIOUS
  <2>2. CASE t = {}
    <3>1. Cardinality(t) = 0
      BY <2>2, FS_EmptySet
    <3> QED
      BY <1>1, <2>1, <2>2, <3>1 DEF CountsFrom
  <2>3. CASE t # {}
    <3> DEFINE x == Max(t)
               u == t \ {x}
    <3>1. x \in t
      BY <2>3, GreatestNumber
    <3>2. u \in SUBSET (1 .. n) /\ u = t \ {x}
      OBVIOUS
    <3>3. g[u] = r[Cardinality(u)]
      BY <3>2
    <3>4. F(t) = CountAndMerge(g[u])
      BY <2>3
    <3> HIDE DEF x, u, g, F
    <3>5. IsFiniteSet(1 .. n) /\ Cardinality(1 .. n) = n
      <4>1. 1 \in Int /\ n \in Int
        OBVIOUS
      <4>2. IsFiniteSet(1 .. n) /\ Cardinality(1 .. n) = IF 1 > n THEN 0 ELSE n - 1 + 1
        BY ONLY <4>1, FS_Interval
      <4> QED
        BY <4>2
    <3>6. IsFiniteSet(t) /\ Cardinality(t) <= n
      BY <3>5, FS_Subset
    <3>7. Cardinality(t) \in Nat
      BY <3>6, FS_CardinalityType
    <3>8. IsFiniteSet(u) /\ Cardinality(u) = Cardinality(t) - 1
      BY <3>1, <3>2, <3>6, FS_RemoveElement
    <3>9. Cardinality(u) \in Nat
      BY <3>8, FS_CardinalityType
    <3>10. Cardinality(t) \in 1 .. n
      BY <3>6, <3>7, <3>8, <3>9
    <3>11. r[Cardinality(t)] = CountAndMerge(r[Cardinality(u)])
      BY <1>1, <3>8, <3>10 DEF CountsFrom
    <3> QED
      BY <2>1, <3>3, <3>4, <3>11
  <2> QED
    BY <2>2, <2>3
<1>3. g = [t \in SUBSET (1 .. n) |-> F(t)]
  BY <1>2
<1>4. CountFold(g, n, c)
  <2>1. g = [t \in SUBSET (1 .. n) |-> IF t = {} THEN c ELSE CountAndMerge(g[t \ {Max(t)}])]
    BY <1>3
  <2> HIDE DEF g
  <2> QED
    BY <2>1 DEF CountFold
<1> QED
  BY <1>4

LEMMA CountedGoes ==
  ASSUME NEW s, NEW rhs, NEW n \in Nat, Cardinality(s) - 1 = n
  PROVE  \E r : Counts(s, rhs, n, r)
<1> DEFINE c == InitCount(s, rhs)
           seq == [i \in 1 .. n |-> i]
           P(g) == g = [t \in SUBSET (DOMAIN seq) |->
                          IF t = {} THEN c ELSE Step(CountAndMerge, g[t \ {Max(t)}])]
           h == CHOOSE g : P(g)
<1>1. Counted(s, rhs) = h[DOMAIN seq]
  BY DEF Counted, FoldLeft, MapThenFoldSet
<1>2. DOMAIN seq = 1 .. n
  OBVIOUS
<1>3. \A g : P(g) <=> CountFold(g, n, c)
  <2> HIDE DEF c, seq
  <2> QED
    BY <1>2, StepIsCount DEF CountFold
<1>4. \E g : P(g)
  <2> HIDE DEF P, c
  <2> QED
    BY <1>3, CountFoldExists
<1>5. P(h)
  <2> HIDE DEF P
  <2> QED
    BY <1>4
<1>6. CountFold(h, n, c)
  <2> HIDE DEF P, h, c
  <2> QED
    BY <1>3, <1>5
<1> HIDE DEF h, c, P, seq
<1> DEFINE r == [i \in 0 .. n |-> h[1 .. i]]
<1>7. \A t \in SUBSET (1 .. n) : h[t] = IF t = {} THEN c ELSE CountAndMerge(h[t \ {Max(t)}])
  <2>1. h = [t \in SUBSET (1 .. n) |-> IF t = {} THEN c ELSE CountAndMerge(h[t \ {Max(t)}])]
    BY <1>6 DEF CountFold
  <2> QED
    BY <2>1
<1>8. r[0] = c
  <2>1. 1 .. 0 = {} /\ {} \in SUBSET (1 .. n)
    OBVIOUS
  <2> QED
    BY <1>7, <2>1
<1>9. ASSUME NEW i \in 1 .. n PROVE r[i] = CountAndMerge(r[i - 1])
  <2>1. r[i] = h[1 .. i] /\ r[i - 1] = h[1 .. (i - 1)]
    OBVIOUS
  <2>2. 1 .. i \in SUBSET (1 .. n) /\ 1 .. i # {} /\ i \in Nat /\ i > 0
    OBVIOUS
  <2>3. Max(1 .. i) = i /\ (1 .. i) \ {i} = 1 .. (i - 1)
    BY <2>2, MaxInterval
  <2> HIDE DEF r
  <2> QED
    BY <1>7, <2>1, <2>2, <2>3
<1>10. Counted(s, rhs) = r[n]
  BY <1>1, <1>2
<1> HIDE DEF r
<1>11. CountsFrom(c, n, r)
  BY <1>8, <1>9 DEF CountsFrom
<1> QED
  BY <1>10, <1>11 DEF Counts, c

\* What is counted of a totalizer: the weights of its nodes.
CountQueue(q) ==
  /\ q \in Seq(SUBSET (Nat \ {0})) /\ Len(q) \in Nat
  /\ \A i \in 1 .. Len(q) : IsFiniteSet(q[i]) /\ q[i] # {}

CountRecord(c, q, L, k, w) == c = [queue |-> q, limit |-> L, count |-> k, widest |-> w]

\* The weights of a merge, from those of the nodes it merges.
Sums(A, B) == A \cup B \cup {l + r : l \in A, r \in B}

Clipped(L, S) == {Clip(L, w) : w \in S}

LowPairs(A, B, L) == {p \in A \X B : p[1] < L /\ p[2] < L}

PairSize(A, B) == Cardinality(A) + Cardinality(B) + Cardinality(A) * Cardinality(B)

LEMMA MergeIsOfWeights ==
  ASSUME NEW left, NEW right, NEW L
  PROVE  /\ MergedWeights(left, right, L) = Clipped(L, Sums(DOMAIN left, DOMAIN right))
         /\ PairsBelow(left, right, L) = LowPairs(DOMAIN left, DOMAIN right, L)
BY DEF MergedWeights, Clipped, Clip, Sums, PairsBelow, LowPairs

\* The sums of two finite sets of weights are one too.
LEMMA SumsAreFinite ==
  ASSUME NEW A \in SUBSET (Nat \ {0}), NEW B \in SUBSET (Nat \ {0}),
         IsFiniteSet(A), IsFiniteSet(B), A # {}
  PROVE  /\ Sums(A, B) \in SUBSET (Nat \ {0}) /\ IsFiniteSet(Sums(A, B))
         /\ Sums(A, B) # {}
<1> DEFINE P == {l + r : l \in A, r \in B}
           f == [p \in A \X B |-> p[1] + p[2]]
<1>1. IsFiniteSet(A \X B)
  BY FS_Product
<1>2. /\ \A y \in P : \E l \in A, r \in B : y = l + r
      /\ \A l \in A, r \in B : l + r \in P
  OBVIOUS
<1>2a. \A l \in A, r \in B : <<l, r>> \in A \X B /\ f[<<l, r>>] = l + r
  OBVIOUS
<1>3. IsFiniteSet(P)
  <2>1. f \in Surjection(A \X B, P)
    <3>1. f \in [A \X B -> P]
      <4>1. \A p \in A \X B : p[1] \in A /\ p[2] \in B
        OBVIOUS
      <4>2. \A p \in A \X B : p[1] + p[2] \in P
        <5> HIDE DEF P
        <5> QED
          BY <1>2, <4>1
      <4> HIDE DEF P
      <4> QED
        BY <4>2
    <3>2. \A y \in P : \E p \in A \X B : f[p] = y
      <4> HIDE DEF f, P
      <4> TAKE y \in P
      <4>1. PICK l \in A, r \in B : y = l + r
        BY <1>2
      <4> QED
        BY <1>2a, <4>1
    <3> HIDE DEF f, P
    <3> QED
      BY <3>1, <3>2 DEF Surjection
  <2> HIDE DEF f, P
  <2> QED
    BY <1>1, <2>1, FS_Surjection
<1>4. IsFiniteSet(A \cup B)
  BY FS_Union
<1>5. \A y \in P : y \in Nat \ {0}
  OBVIOUS
<1>6. Sums(A, B) = (A \cup B) \cup P
  BY DEF Sums
<1> HIDE DEF P
<1>7. IsFiniteSet((A \cup B) \cup P)
  BY <1>3, <1>4, FS_Union
<1> QED
  BY <1>5, <1>6, <1>7

\* Clipping a finite set of weights makes it no larger.
LEMMA ClippedIsFinite ==
  ASSUME NEW L \in Nat \ {0}, NEW S \in SUBSET (Nat \ {0}), IsFiniteSet(S)
  PROVE  /\ Clipped(L, S) \in SUBSET (Nat \ {0}) /\ IsFiniteSet(Clipped(L, S))
         /\ Cardinality(Clipped(L, S)) <= Cardinality(S)
         /\ S # {} => Clipped(L, S) # {}
<1> DEFINE T == Clipped(L, S)
           f == [w \in S |-> Clip(L, w)]
<1>1. \A y \in T : \E w \in S : f[w] = y
  BY DEF Clipped
<1>2. \A w \in S : f[w] \in T /\ f[w] = Clip(L, w)
  BY DEF Clipped
<1>3. f \in [S -> T]
  BY <1>2
<1>4. \A w \in S : f[w] \in Nat \ {0}
  <2> HIDE DEF f
  <2> QED
    BY <1>2, ClipFacts
<1> HIDE DEF f
<1>5. f \in Surjection(S, T)
  BY <1>1, <1>3 DEF Surjection
<1> HIDE DEF T
<1>6. IsFiniteSet(T) /\ Cardinality(T) <= Cardinality(S)
  BY <1>5, FS_Surjection
<1>7. T \in SUBSET (Nat \ {0}) /\ (S # {} => T # {})
  BY <1>1, <1>2, <1>4
<1> QED
  BY <1>6, <1>7 DEF T

LEMMA LowPairsAreFinite ==
  ASSUME NEW A, NEW B, IsFiniteSet(A), IsFiniteSet(B), NEW L
  PROVE  IsFiniteSet(LowPairs(A, B, L)) /\ Cardinality(LowPairs(A, B, L)) \in Nat
<1>1. IsFiniteSet(A \X B)
  BY FS_Product
<1>2. LowPairs(A, B, L) \in SUBSET (A \X B)
  BY DEF LowPairs
<1>3. IsFiniteSet(LowPairs(A, B, L))
  BY <1>1, <1>2, FS_Subset
<1> QED
  BY <1>3, FS_CardinalityType

\* One merge of the count.
CountMerged(q, L, k, w, q2, k2, w2) ==
  /\ q2 = Append(SubSeq(q, 3, Len(q)), Clipped(L, Sums(q[1], q[2])))
  /\ k2 = k + Cardinality(q[1]) + Cardinality(q[2]) + Cardinality(LowPairs(q[1], q[2], L))
  /\ w2 = IF w < PairSize(q[1], q[2]) THEN PairSize(q[1], q[2]) ELSE w

LEMMA CountMerge ==
  ASSUME NEW q, NEW L, NEW k, NEW w, NEW c, CountRecord(c, q, L, k, w)
  PROVE  \E q2, k2, w2 : /\ CountMerged(q, L, k, w, q2, k2, w2)
                         /\ CountRecord(CountAndMerge(c), q2, L, k2, w2)
<1> DEFINE left == q[1]
           right == q[2]
           node == [v \in left \cup right |-> v]
           rl == Restrict(node, left)
           rr == Restrict(node, right)
           q2 == Append(SubSeq(q, 3, Len(q)), MergedWeights(rl, rr, L))
           k2 == k + Cardinality(left) + Cardinality(right) + Cardinality(PairsBelow(rl, rr, L))
           z == PairSize(left, right)
           w2 == IF w < z THEN z ELSE w
<1>1. DOMAIN rl = left /\ DOMAIN rr = right
  BY DEF Restrict
<1>2. c.queue = q /\ c.limit = L /\ c.count = k /\ c.widest = w
      /\ c = [queue |-> q, limit |-> L, count |-> k, widest |-> w]
  BY DEF CountRecord
<1>3. CountAndMerge(c) = [c EXCEPT !.queue = q2, !.count = k2, !.widest = w2]
  BY <1>2 DEF CountAndMerge, PairSize
<1>4. CountRecord(CountAndMerge(c), q2, L, k2, w2)
  <2> HIDE DEF q2, k2, w2
  <2> QED
    BY <1>2, <1>3 DEF CountRecord
<1>5. CountMerged(q, L, k, w, q2, k2, w2)
  <2>1. /\ MergedWeights(rl, rr, L) = Clipped(L, Sums(left, right))
        /\ PairsBelow(rl, rr, L) = LowPairs(left, right, L)
    <3> HIDE DEF rl, rr
    <3> QED
      BY <1>1, MergeIsOfWeights
  <2> HIDE DEF rl, rr
  <2> QED
    BY <2>1 DEF CountMerged
<1> HIDE DEF q2, k2, w2
<1> QED
  BY <1>4, <1>5

\* The queue the count is left with.
CountsOn(q, m, L, k, w) ==
  /\ CountQueue(q) /\ Len(q) = m /\ m \in Nat /\ L \in Nat \ {0} /\ k \in Nat /\ w \in Nat

QueueMerged(q, m, L, q2) ==
  /\ \A i \in 1 .. m - 2 : q2[i] = q[i + 2]
  /\ q2[m - 1] = Clipped(L, Sums(q[1], q[2]))

LEMMA CountMergeShape ==
  ASSUME NEW q, NEW m, NEW L, NEW k, NEW w, NEW q2, NEW k2, NEW w2,
         CountsOn(q, m, L, k, w), m > 1, CountMerged(q, L, k, w, q2, k2, w2)
  PROVE  CountsOn(q2, m - 1, L, k2, w2) /\ QueueMerged(q, m, L, q2)
<1>0. CountQueue(q) /\ Len(q) = m /\ L \in Nat \ {0} /\ k \in Nat /\ w \in Nat /\ Len(q) > 1
  BY DEF CountsOn
<1> USE <1>0
<1> DEFINE A == q[1]
           B == q[2]
           t == Clipped(L, Sums(A, B))
<1>1. q \in Seq(SUBSET (Nat \ {0})) /\ Len(q) \in Nat
  BY DEF CountQueue
<1>2. /\ A \in SUBSET (Nat \ {0}) /\ IsFiniteSet(A) /\ A # {}
      /\ B \in SUBSET (Nat \ {0}) /\ IsFiniteSet(B) /\ B # {}
  <2>1. 1 \in 1 .. Len(q) /\ 2 \in 1 .. Len(q)
    BY <1>1
  <2>2. \A i \in 1 .. Len(q) : q[i] \in SUBSET (Nat \ {0})
    BY <1>1
  <2> QED
    BY <2>1, <2>2 DEF CountQueue
<1>3. q2 = Append(SubSeq(q, 2 + 1, Len(q)), t)
  BY DEF CountMerged
<1>4. k2 = k + Cardinality(A) + Cardinality(B) + Cardinality(LowPairs(A, B, L))
      /\ w2 = IF w < PairSize(A, B) THEN PairSize(A, B) ELSE w
  BY DEF CountMerged
<1> HIDE DEF A, B
<1>5. t \in SUBSET (Nat \ {0}) /\ IsFiniteSet(t) /\ t # {}
  <2> DEFINE S == Sums(A, B)
  <2>1. S \in SUBSET (Nat \ {0}) /\ IsFiniteSet(S) /\ S # {}
    BY <1>2, SumsAreFinite
  <2> HIDE DEF S
  <2>2. /\ Clipped(L, S) \in SUBSET (Nat \ {0}) /\ IsFiniteSet(Clipped(L, S))
        /\ S # {} => Clipped(L, S) # {}
    BY <2>1, ClippedIsFinite
  <2> QED
    BY <2>1, <2>2 DEF S
<1> DEFINE U == SUBSET (Nat \ {0})
<1>5a. t \in U /\ q \in Seq(U) /\ 2 \in 0 .. Len(q) /\ Len(q) \in Nat
  BY <1>1, <1>5
<1> HIDE DEF t
<1>5b. t \in U
  BY <1>5a
<1> HIDE DEF U
<1>6. /\ q2 \in Seq(U)
      /\ Len(q2) = Len(q) - 2 + 1
      /\ \A i \in 1 .. Len(q) - 2 : q2[i] = q[i + 2]
      /\ q2[Len(q) - 2 + 1] = t
  <2> DEFINE d == 2
  <2>1. q2 = Append(SubSeq(q, d + 1, Len(q)), t) /\ d \in 0 .. Len(q)
    BY <1>3, <1>5a
  <2> HIDE DEF d
  <2>2. /\ q2 \in Seq(U) /\ Len(q2) = Len(q) - d + 1
        /\ \A i \in 1 .. Len(q) - d : q2[i] = q[i + d]
        /\ q2[Len(q) - d + 1] = t
    <3>1. Pushes(U, q, d, t, q2)
      BY <1>5a, <2>1 DEF Pushes
    <3>2. q2 \in Seq(U) /\ Pushed(q, d, t, q2)
      BY <3>1, QueueStep
    <3> QED
      BY <3>2 DEF Pushed
  <2> QED
    BY <2>2 DEF d
<1>7. Len(q2) = Len(q) - 1 /\ q2[Len(q) - 1] = t
  BY <1>5a, <1>6
<1>8. ASSUME NEW i \in 1 .. Len(q2) PROVE IsFiniteSet(q2[i]) /\ q2[i] # {}
  <2>1. CASE i = Len(q) - 1
    BY <1>5, <1>7, <2>1
  <2>2. CASE i # Len(q) - 1
    <3>1. i \in 1 .. Len(q) - 2 /\ i + 2 \in 1 .. Len(q)
      BY <1>5a, <1>7, <2>2
    <3> QED
      BY <1>6, <3>1 DEF CountQueue
  <2> QED
    BY <2>1, <2>2
<1>9. CountQueue(q2)
  <2>1. Len(q2) \in Nat
    BY <1>5a, <1>7
  <2> QED
    BY <1>6, <1>8, <2>1 DEF CountQueue, U
<1>10. k2 \in Nat /\ w2 \in Nat
  <2> DEFINE a == Cardinality(A)
             b == Cardinality(B)
             p == Cardinality(LowPairs(A, B, L))
  <2>1. a \in Nat /\ b \in Nat /\ p \in Nat
    BY <1>2, FS_CardinalityType, LowPairsAreFinite
  <2>2. k2 = k + a + b + p /\ PairSize(A, B) = a + b + a * b
    BY <1>4 DEF PairSize
  <2> HIDE DEF a, b, p
  <2>3. a * b \in Nat
    BY <2>1
  <2> QED
    BY <1>4, <2>1, <2>2, <2>3
<1>11. CountsOn(q2, m - 1, L, k2, w2)
  BY <1>5a, <1>7, <1>9, <1>10 DEF CountsOn
<1>12. QueueMerged(q, m, L, q2)
  BY <1>6, <1>7 DEF QueueMerged, t, A, B
<1> QED
  BY <1>11, <1>12

\* What a lower limit leaves of a set of weights: the same once clipped, and no more.
Finer(L, A1, A) ==
  /\ \A a \in A : \E b \in A1 : Clip(L, a) = Clip(L, b)
  /\ \A b \in A1 : \E a \in A : Clip(L, a) = Clip(L, b)
  /\ Cardinality(A1) <= Cardinality(A)

Weights(A) == A \in SUBSET (Nat \ {0}) /\ IsFiniteSet(A) /\ A # {}

\* Clipping at a lower limit as well comes to clipping at the lower one, and a sum
\* can be clipped after its terms.
ClipsAgain(K, L) ==
  \A w \in Nat : Clip(L, w) \in Nat /\ Clip(K, Clip(L, w)) = Clip(K, w)

ClipsSums(K) ==
  \A a, b, c, d \in Nat : Clip(K, a) = Clip(K, c) /\ Clip(K, b) = Clip(K, d)
    => Clip(K, a + b) = Clip(K, c + d)

KeepsLow(K) == \A a, b \in Nat : Clip(K, a) = Clip(K, b) /\ b < K => a = b

LEMMA ClipAgain ==
  ASSUME NEW L \in Nat \ {0}, NEW K \in Nat \ {0}, K <= L
  PROVE  ClipsAgain(K, L) /\ ClipsSums(K) /\ KeepsLow(K)
<1>1. /\ \A w \in Nat : Clip(K, w) = IF w < K THEN w ELSE K
      /\ \A w \in Nat : Clip(L, w) = IF w < L THEN w ELSE L
  BY ClipFacts
<1>2. ASSUME NEW w \in Nat PROVE Clip(L, w) \in Nat /\ Clip(K, Clip(L, w)) = Clip(K, w)
  <2>1. CASE w < L
    BY <1>1, <2>1
  <2>2. CASE ~(w < L)
    BY <1>1, <2>2
  <2> QED
    BY <2>1, <2>2
<1>3. ASSUME NEW a \in Nat, NEW b \in Nat, NEW c \in Nat, NEW d \in Nat,
             Clip(K, a) = Clip(K, c), Clip(K, b) = Clip(K, d)
      PROVE  Clip(K, a + b) = Clip(K, c + d)
  <2>1. a + b \in Nat /\ c + d \in Nat
    OBVIOUS
  <2>2. a = c \/ (a >= K /\ c >= K)
    BY <1>1, <1>3
  <2>3. b = d \/ (b >= K /\ d >= K)
    BY <1>1, <1>3
  <2> QED
    BY <1>1, <2>1, <2>2, <2>3
<1>4. ASSUME NEW a \in Nat, NEW b \in Nat, Clip(K, a) = Clip(K, b), b < K PROVE a = b
  BY <1>1, <1>4
<1> QED
  BY <1>2, <1>3, <1>4 DEF ClipsAgain, ClipsSums, KeepsLow

\* Merging at a lower limit what a lower limit leaves counts no more.
LEMMA FinerMerge ==
  ASSUME NEW L \in Nat \ {0}, NEW K \in Nat \ {0}, K <= L,
         NEW A, NEW B, NEW A1, NEW B1,
         Weights(A), Weights(B), Weights(A1), Weights(B1), Finer(K, A1, A), Finer(K, B1, B)
  PROVE  /\ Finer(K, Clipped(K, Sums(A1, B1)), Clipped(L, Sums(A, B)))
         /\ Cardinality(LowPairs(A1, B1, K)) <= Cardinality(LowPairs(A, B, L))
         /\ PairSize(A1, B1) <= PairSize(A, B)
<1>1. /\ A \in SUBSET (Nat \ {0}) /\ IsFiniteSet(A) /\ A # {}
      /\ B \in SUBSET (Nat \ {0}) /\ IsFiniteSet(B) /\ B # {}
      /\ A1 \in SUBSET (Nat \ {0}) /\ IsFiniteSet(A1) /\ A1 # {}
      /\ B1 \in SUBSET (Nat \ {0}) /\ IsFiniteSet(B1) /\ B1 # {}
  BY DEF Weights
<1>1a. (\A a \in A : a \in Nat) /\ (\A b \in B : b \in Nat)
       /\ (\A a \in A1 : a \in Nat) /\ (\A b \in B1 : b \in Nat)
  BY <1>1
<1>2. /\ \A a \in A : \E b \in A1 : Clip(K, a) = Clip(K, b)
      /\ \A b \in A1 : \E a \in A : Clip(K, a) = Clip(K, b)
      /\ Cardinality(A1) <= Cardinality(A)
  BY DEF Finer
<1>3. /\ \A a \in B : \E b \in B1 : Clip(K, a) = Clip(K, b)
      /\ \A b \in B1 : \E a \in B : Clip(K, a) = Clip(K, b)
      /\ Cardinality(B1) <= Cardinality(B)
  BY DEF Finer
<1>4. /\ \A w \in Nat : Clip(L, w) \in Nat /\ Clip(K, Clip(L, w)) = Clip(K, w)
      /\ \A a, b \in Nat : Clip(K, a) = Clip(K, b) /\ b < K => a = b
      /\ \A w \in Nat : Clip(K, w) \in Nat
  <2>1. \A w \in Nat : Clip(K, w) \in Nat
    BY ClipFacts
  <2>2. ClipsAgain(K, L) /\ KeepsLow(K)
    BY ClipAgain
  <2> QED
    BY <2>1, <2>2 DEF ClipsAgain, KeepsLow
<1>4a. ClipsSums(K)
  BY ClipAgain
<1> DEFINE S == Sums(A, B)
           S1 == Sums(A1, B1)
           T == Clipped(L, S)
           T1 == Clipped(K, S1)
<1>5. /\ S \in SUBSET (Nat \ {0}) /\ IsFiniteSet(S) /\ S # {}
      /\ S1 \in SUBSET (Nat \ {0}) /\ IsFiniteSet(S1) /\ S1 # {}
  BY <1>1, SumsAreFinite
<1>6. ASSUME NEW x \in S PROVE \E y \in S1 : Clip(K, x) = Clip(K, y)
  <2>1. CASE x \in A
    <3>1. \A y \in A1 : y \in S1
      BY DEF Sums
    <3> QED
      BY <1>2, <2>1, <3>1
  <2>2. CASE x \in B
    <3>1. \A y \in B1 : y \in S1
      BY DEF Sums
    <3> QED
      BY <1>3, <2>2, <3>1
  <2>3. CASE x \notin A /\ x \notin B
    <3>1. PICK l \in A, r \in B : x = l + r
      BY <2>3 DEF Sums
    <3>2. PICK m \in A1, n \in B1 : Clip(K, l) = Clip(K, m) /\ Clip(K, r) = Clip(K, n)
      BY <1>2, <1>3
    <3>3. m + n \in S1
      BY DEF Sums
    <3>4. Clip(K, l + r) = Clip(K, m + n)
      <4>1. l \in Nat /\ r \in Nat /\ m \in Nat /\ n \in Nat
        BY <1>1a
      <4> QED
        BY ONLY <1>4a, <3>2, <4>1 DEF ClipsSums
    <3> QED
      BY <3>1, <3>3, <3>4
  <2> QED
    BY <2>1, <2>2, <2>3
<1>7. ASSUME NEW x \in S1 PROVE \E y \in S : Clip(K, x) = Clip(K, y)
  <2>1. CASE x \in A1
    <3>1. \A y \in A : y \in S
      BY DEF Sums
    <3> QED
      BY <1>2, <2>1, <3>1
  <2>2. CASE x \in B1
    <3>1. \A y \in B : y \in S
      BY DEF Sums
    <3> QED
      BY <1>3, <2>2, <3>1
  <2>3. CASE x \notin A1 /\ x \notin B1
    <3>1. PICK l \in A1, r \in B1 : x = l + r
      BY <2>3 DEF Sums
    <3>2. PICK m \in A, n \in B : Clip(K, l) = Clip(K, m) /\ Clip(K, r) = Clip(K, n)
      BY <1>2, <1>3
    <3>3. m + n \in S
      BY DEF Sums
    <3>4. Clip(K, l + r) = Clip(K, m + n)
      <4>1. l \in Nat /\ r \in Nat /\ m \in Nat /\ n \in Nat
        BY <1>1a
      <4> QED
        BY ONLY <1>4a, <3>2, <4>1 DEF ClipsSums
    <3> QED
      BY <3>1, <3>3, <3>4
  <2> QED
    BY <2>1, <2>2, <2>3
<1> HIDE DEF S, S1
<1>7a. (\A x \in S : x \in Nat) /\ (\A x \in S1 : x \in Nat)
  BY <1>5
<1>8. T1 = Clipped(K, T)
  <2>1. ASSUME NEW z \in T1 PROVE z \in Clipped(K, T)
    <3>1. PICK x \in S1 : z = Clip(K, x)
      BY <2>1 DEF Clipped
    <3>2. PICK y \in S : Clip(K, x) = Clip(K, y)
      BY <1>7
    <3>3. Clip(L, y) \in T /\ Clip(K, Clip(L, y)) = z
      BY <1>4, <1>7a, <3>1, <3>2 DEF Clipped
    <3> HIDE DEF T
    <3> QED
      BY <3>3 DEF Clipped
  <2>2. ASSUME NEW z \in Clipped(K, T) PROVE z \in T1
    <3>1. PICK t \in T : z = Clip(K, t)
      <4> HIDE DEF T
      <4> QED
        BY <2>2 DEF Clipped
    <3>2. PICK y \in S : t = Clip(L, y)
      BY DEF Clipped
    <3>3. PICK x \in S1 : Clip(K, y) = Clip(K, x)
      BY <1>6
    <3>4. z = Clip(K, x)
      BY <1>4, <1>7a, <3>1, <3>2, <3>3
    <3> QED
      BY <3>4 DEF Clipped
  <2> QED
    BY <2>1, <2>2
<1>9. T \in SUBSET (Nat \ {0}) /\ IsFiniteSet(T)
  BY <1>5, ClippedIsFinite
<1> HIDE DEF T, T1
<1>9a. \A t \in T : t \in Nat
  BY <1>9
<1>10. Finer(K, T1, T)
  <2>1. Cardinality(T1) <= Cardinality(T)
    BY <1>8, <1>9, ClippedIsFinite
  <2>2. \A w \in Nat : Clip(K, Clip(K, w)) = Clip(K, w)
    <3>1. K <= K
      OBVIOUS
    <3>2. ClipsAgain(K, K)
      BY <3>1, ClipAgain
    <3> QED
      BY <3>2 DEF ClipsAgain
  <2>3. ASSUME NEW t \in T PROVE Clip(K, t) \in T1 /\ Clip(K, t) = Clip(K, Clip(K, t))
    BY <1>8, <1>9a, <2>2 DEF Clipped
  <2>4. ASSUME NEW u \in T1 PROVE \E t \in T : Clip(K, t) = Clip(K, u)
    <3>1. PICK t \in T : u = Clip(K, t)
      BY <1>8 DEF Clipped
    <3> QED
      BY <1>9a, <2>2, <3>1
  <2> QED
    BY <2>1, <2>3, <2>4 DEF Finer
<1>11. Cardinality(LowPairs(A1, B1, K)) <= Cardinality(LowPairs(A, B, L))
  <2> DEFINE P == LowPairs(A, B, L)
             Q == LowPairs(A1, B1, K)
  <2>1. ASSUME NEW a \in A1, a < K PROVE a \in A /\ a < L
    <3>1. PICK b \in A : Clip(K, b) = Clip(K, a)
      BY <1>2
    <3>2. b = a
      BY <1>1a, <1>4, <2>1, <3>1
    <3> QED
      BY <1>1a, <2>1, <3>2
  <2>2. ASSUME NEW a \in B1, a < K PROVE a \in B /\ a < L
    <3>1. PICK b \in B : Clip(K, b) = Clip(K, a)
      BY <1>3
    <3>2. b = a
      BY <1>1a, <1>4, <2>2, <3>1
    <3> QED
      BY <1>1a, <2>2, <3>2
  <2>3. ASSUME NEW p \in Q PROVE p \in P
    <3>1. p \in A1 \X B1 /\ p[1] < K /\ p[2] < K
      BY DEF LowPairs
    <3>2. p = <<p[1], p[2]>> /\ p[1] \in A1 /\ p[2] \in B1
      BY <3>1
    <3>3. p[1] \in A /\ p[1] < L /\ p[2] \in B /\ p[2] < L
      BY <2>1, <2>2, <3>1, <3>2
    <3> QED
      BY <3>2, <3>3 DEF LowPairs
  <2>4. IsFiniteSet(P)
    BY <1>1, LowPairsAreFinite
  <2>5. Q \in SUBSET P
    <3> HIDE DEF P, Q
    <3> QED
      BY <2>3
  <2> HIDE DEF P, Q
  <2> QED
    BY <2>4, <2>5, FS_Subset DEF P, Q
<1>12. PairSize(A1, B1) <= PairSize(A, B)
  <2> DEFINE a == Cardinality(A)
             b == Cardinality(B)
             c == Cardinality(A1)
             d == Cardinality(B1)
             u == a - c
             v == b - d
  <2>1. a \in Nat /\ b \in Nat /\ c \in Nat /\ d \in Nat
    BY <1>1, FS_CardinalityType
  <2>2. PairSize(A, B) = a + b + a * b /\ PairSize(A1, B1) = c + d + c * d
    BY DEF PairSize
  <2>3. c <= a /\ d <= b
    BY <1>2, <1>3
  <2> HIDE DEF a, b, c, d
  <2>4. u \in Nat /\ v \in Nat /\ a = c + u /\ b = d + v
    BY <2>1, <2>3
  <2> HIDE DEF u, v
  <2>5. a * b = c * d + c * v + u * d + u * v
    BY <2>1, <2>4
  <2>6. c * v \in Nat /\ u * d \in Nat /\ u * v \in Nat /\ c * d \in Nat
    BY <2>1, <2>4
  <2> DEFINE p == c * v
             o == u * d
             z == u * v
             y == c * d
             ab == a * b
  <2>7. p \in Nat /\ o \in Nat /\ z \in Nat /\ y \in Nat /\ ab = y + p + o + z
        /\ PairSize(A, B) = a + b + ab /\ PairSize(A1, B1) = c + d + y
    BY <2>2, <2>5, <2>6
  <2> HIDE DEF p, o, z, y, ab
  <2> QED
    BY <2>1, <2>3, <2>7
<1> QED
  BY <1>10, <1>11, <1>12 DEF S, S1, T, T1

\* The count starts with the weights of the leaves.
FirstWeights(s) == [i \in 1 .. Cardinality(s) |-> {SortedWLits(s)[i][1]}]

LEMMA CountInit ==
  ASSUME NEW first, NEW s, WeightedLits(first, s), s # {}, NEW L \in Nat \ {0}
  PROVE  /\ CountRecord(InitCount(s, L - 1), FirstWeights(s), L, 0, 0)
         /\ CountQueue(FirstWeights(s))
         /\ Len(FirstWeights(s)) = Cardinality(s)
<1> DEFINE n == Cardinality(s)
           b == SortedWLits(s)
           q == FirstWeights(s)
           U == SUBSET (Nat \ {0})
<1>1. n \in Nat /\ n >= 1 /\ b \in [1 .. n -> s]
  BY SortedIsBijection
<1>2. \A wl \in s : wl[1] \in Nat \ {0}
  BY DEF WeightedLits
<1>3. ASSUME NEW i \in 1 .. n PROVE q[i] = {b[i][1]} /\ b[i][1] \in Nat \ {0}
  BY <1>1, <1>2 DEF FirstWeights
<1>4. q = [i \in 1 .. n |-> q[i]]
  BY DEF FirstWeights
<1>5. CountRecord(InitCount(s, L - 1), q, L, 0, 0)
  <2>1. (L - 1) + 1 = L
    OBVIOUS
  <2>2. InitCount(s, L - 1) = [queue |-> q, limit |-> (L - 1) + 1, count |-> 0, widest |-> 0]
    BY DEF InitCount, FirstWeights
  <2> QED
    BY <2>1, <2>2 DEF CountRecord
<1> HIDE DEF q, b, n
<1>6. ASSUME NEW i \in 1 .. n PROVE q[i] \in U /\ IsFiniteSet(q[i]) /\ q[i] # {}
  <2> DEFINE w == b[i][1]
  <2>1. q[i] = {w} /\ w \in Nat \ {0}
    BY <1>3
  <2> HIDE DEF w
  <2>2. IsFiniteSet({w})
    BY FS_Singleton
  <2> QED
    BY <2>1, <2>2
<1> HIDE DEF U
<1>7. q \in [1 .. n -> U]
  BY <1>4, <1>6
<1>8. q \in Seq(U) /\ Len(q) = n
  <2>1. DOMAIN q = 1 .. n
    BY <1>7
  <2> QED
    BY <1>1, <1>7, <2>1
<1>9. CountQueue(q)
  BY <1>1, <1>6, <1>8 DEF CountQueue, U
<1> QED
  BY <1>5, <1>8, <1>9 DEF q, n

\* A count c at the limit L with m nodes left, and c1 at the limit K.
NarrowerCount(c1, c, K, L, m) ==
  \E q, k, w, q1, k1, w1 :
    /\ CountRecord(c, q, L, k, w) /\ CountRecord(c1, q1, K, k1, w1)
    /\ CountQueue(q) /\ CountQueue(q1) /\ Len(q) = m /\ Len(q1) = m
    /\ k \in Nat /\ w \in Nat /\ k1 \in Nat /\ w1 \in Nat /\ k1 <= k /\ w1 <= w
    /\ \A j \in 1 .. m : Finer(K, q1[j], q[j])

LEMMA NarrowInit ==
  ASSUME NEW first, NEW s, WeightedLits(first, s), s # {}, NEW L \in Nat \ {0}, NEW K \in Nat \ {0}
  PROVE  NarrowerCount(InitCount(s, K - 1), InitCount(s, L - 1), K, L, Cardinality(s))
<1> DEFINE q == FirstWeights(s)
<1>1. /\ CountRecord(InitCount(s, L - 1), q, L, 0, 0)
      /\ CountRecord(InitCount(s, K - 1), q, K, 0, 0)
      /\ CountQueue(q) /\ Len(q) = Cardinality(s)
  BY CountInit
<1>2. ASSUME NEW j \in 1 .. Cardinality(s) PROVE Finer(K, q[j], q[j])
  <2> DEFINE A == q[j]
  <2>1. IsFiniteSet(A)
    BY <1>1, <1>2 DEF CountQueue
  <2> HIDE DEF A
  <2>2. Cardinality(A) \in Nat
    BY <2>1, FS_CardinalityType
  <2>3. Cardinality(A) <= Cardinality(A)
    BY <2>2
  <2>4. Finer(K, A, A)
    BY <2>3 DEF Finer
  <2> QED
    BY <2>4 DEF A
<1> HIDE DEF q
<1> QED
  BY <1>1, <1>2 DEF NarrowerCount

LEMMA NarrowMerge ==
  ASSUME NEW K \in Nat \ {0}, NEW L \in Nat \ {0}, K <= L, NEW m \in Nat, m > 1,
         NEW c1, NEW c, NarrowerCount(c1, c, K, L, m)
  PROVE  NarrowerCount(CountAndMerge(c1), CountAndMerge(c), K, L, m - 1)
<1>1. PICK q, k, w, q1, k1, w1 :
        /\ CountRecord(c, q, L, k, w) /\ CountRecord(c1, q1, K, k1, w1)
        /\ CountQueue(q) /\ CountQueue(q1) /\ Len(q) = m /\ Len(q1) = m
        /\ k \in Nat /\ w \in Nat /\ k1 \in Nat /\ w1 \in Nat /\ k1 <= k /\ w1 <= w
        /\ \A j \in 1 .. m : Finer(K, q1[j], q[j])
  BY DEF NarrowerCount
<1>2. PICK r, l, x : /\ CountMerged(q, L, k, w, r, l, x)
                     /\ CountRecord(CountAndMerge(c), r, L, l, x)
  BY <1>1, CountMerge
<1>3. PICK r1, l1, x1 : /\ CountMerged(q1, K, k1, w1, r1, l1, x1)
                        /\ CountRecord(CountAndMerge(c1), r1, K, l1, x1)
  BY <1>1, CountMerge
<1> DEFINE A == q[1]
           B == q[2]
           A1 == q1[1]
           B1 == q1[2]
           T == Clipped(L, Sums(A, B))
           T1 == Clipped(K, Sums(A1, B1))
<1>4. /\ CountQueue(r) /\ Len(r) = m - 1 /\ l \in Nat /\ x \in Nat
      /\ \A i \in 1 .. m - 2 : r[i] = q[i + 2]
      /\ r[m - 1] = T
  <2>1. CountQueue(q) /\ Len(q) > 1 /\ k \in Nat /\ w \in Nat /\ Len(q) = m
        /\ CountMerged(q, L, k, w, r, l, x)
    BY <1>1, <1>2
  <2>2. CountsOn(q, m, L, k, w)
    BY <2>1 DEF CountsOn
  <2>3. CountsOn(r, m - 1, L, l, x) /\ QueueMerged(q, m, L, r)
    BY <2>1, <2>2, CountMergeShape
  <2> QED
    BY <2>3 DEF CountsOn, QueueMerged
<1>5. /\ CountQueue(r1) /\ Len(r1) = m - 1 /\ l1 \in Nat /\ x1 \in Nat
      /\ \A i \in 1 .. m - 2 : r1[i] = q1[i + 2]
      /\ r1[m - 1] = T1
  <2>1. CountQueue(q1) /\ Len(q1) > 1 /\ k1 \in Nat /\ w1 \in Nat /\ Len(q1) = m
        /\ CountMerged(q1, K, k1, w1, r1, l1, x1)
    BY <1>1, <1>3
  <2>2. CountsOn(q1, m, K, k1, w1)
    BY <2>1 DEF CountsOn
  <2>3. CountsOn(r1, m - 1, K, l1, x1) /\ QueueMerged(q1, m, K, r1)
    BY <2>1, <2>2, CountMergeShape
  <2> QED
    BY <2>3 DEF CountsOn, QueueMerged
<1>6. Weights(A) /\ Weights(B) /\ Weights(A1) /\ Weights(B1)
      /\ Finer(K, A1, A) /\ Finer(K, B1, B)
  <2>1. 1 \in 1 .. m /\ 2 \in 1 .. m
    OBVIOUS
  <2>2. q \in Seq(SUBSET (Nat \ {0})) /\ q1 \in Seq(SUBSET (Nat \ {0}))
    BY <1>1 DEF CountQueue
  <2>3. \A i \in 1 .. m : q[i] \in SUBSET (Nat \ {0}) /\ q1[i] \in SUBSET (Nat \ {0})
    BY <1>1, <2>2
  <2>4. \A i \in 1 .. m : IsFiniteSet(q[i]) /\ q[i] # {} /\ IsFiniteSet(q1[i]) /\ q1[i] # {}
    BY <1>1 DEF CountQueue
  <2>5. \A i \in 1 .. m : Weights(q[i]) /\ Weights(q1[i])
    BY <2>3, <2>4 DEF Weights
  <2> QED
    BY <1>1, <2>1, <2>5
<1>7. /\ l = k + Cardinality(A) + Cardinality(B) + Cardinality(LowPairs(A, B, L))
      /\ x = IF w < PairSize(A, B) THEN PairSize(A, B) ELSE w
      /\ l1 = k1 + Cardinality(A1) + Cardinality(B1) + Cardinality(LowPairs(A1, B1, K))
      /\ x1 = IF w1 < PairSize(A1, B1) THEN PairSize(A1, B1) ELSE w1
  BY <1>2, <1>3 DEF CountMerged
<1> HIDE DEF A, B, A1, B1
<1>8. /\ Finer(K, T1, T)
      /\ Cardinality(LowPairs(A1, B1, K)) <= Cardinality(LowPairs(A, B, L))
      /\ PairSize(A1, B1) <= PairSize(A, B)
  BY <1>6, FinerMerge
<1> HIDE DEF T, T1
<1>9. l1 <= l /\ x1 <= x
  <2> DEFINE a == Cardinality(A)
             b == Cardinality(B)
             p == Cardinality(LowPairs(A, B, L))
             d == Cardinality(A1)
             e == Cardinality(B1)
             o == Cardinality(LowPairs(A1, B1, K))
             y == PairSize(A, B)
             z == PairSize(A1, B1)
  <2>1. /\ a \in Nat /\ b \in Nat /\ d \in Nat /\ e \in Nat /\ p \in Nat /\ o \in Nat
    BY <1>6, FS_CardinalityType, LowPairsAreFinite DEF Weights
  <2>2. d <= a /\ e <= b /\ o <= p /\ z <= y
    BY <1>6, <1>8 DEF Finer
  <2>3. y \in Nat /\ z \in Nat
    <3>1. y = a + b + a * b /\ z = d + e + d * e
      BY DEF PairSize
    <3> HIDE DEF a, b, d, e
    <3>2. a * b \in Nat /\ d * e \in Nat
      BY <2>1
    <3> QED
      BY <2>1, <3>1, <3>2
  <2>4. l = k + a + b + p /\ l1 = k1 + d + e + o
        /\ x = (IF w < y THEN y ELSE w) /\ x1 = (IF w1 < z THEN z ELSE w1)
    BY <1>7
  <2> HIDE DEF a, b, p, d, e, o, y, z
  <2>5. l1 <= l
    BY <1>1, <2>1, <2>2, <2>4
  <2>6. x1 <= x
    BY <1>1, <2>2, <2>3, <2>4
  <2> QED
    BY <2>5, <2>6
<1>10. ASSUME NEW j \in 1 .. m - 1 PROVE Finer(K, r1[j], r[j])
  <2>1. CASE j = m - 1
    BY <1>4, <1>5, <1>8, <2>1
  <2>2. CASE j # m - 1
    <3>1. j \in 1 .. m - 2 /\ j + 2 \in 1 .. m
      BY <2>2
    <3> QED
      BY <1>1, <1>4, <1>5, <3>1
  <2> QED
    BY <2>1, <2>2
<1> QED
  BY <1>2, <1>3, <1>4, <1>5, <1>9, <1>10, SMTT(30) DEF NarrowerCount

\* A lower limit counts no more.
LEMMA LowerLimitCountsNoMore ==
  ASSUME NEW first, NEW s, WeightedLits(first, s), s # {}, NEW K \in Nat \ {0},
         NEW L \in Nat \ {0}, K <= L
  PROVE  /\ Counted(s, L - 1).count \in Nat /\ Counted(s, L - 1).widest \in Nat
         /\ Counted(s, K - 1).count \in Nat /\ Counted(s, K - 1).widest \in Nat
         /\ Counted(s, K - 1).count <= Counted(s, L - 1).count
         /\ Counted(s, K - 1).widest <= Counted(s, L - 1).widest
<1> DEFINE n == Cardinality(s) - 1
<1>1. n \in Nat /\ Cardinality(s) - 1 = n /\ Cardinality(s) = n + 1
  <2>1. Cardinality(s) \in Nat /\ Cardinality(s) >= 1
    BY SortedIsBijection
  <2> QED
    BY <2>1
<1> HIDE DEF n
<1>2. PICK r : Counts(s, L - 1, n, r)
  BY <1>1, CountedGoes
<1>3. PICK r1 : Counts(s, K - 1, n, r1)
  BY <1>1, CountedGoes
<1> DEFINE G == {i \in Nat : i <= n => NarrowerCount(r1[i], r[i], K, L, n + 1 - i)}
<1>4. 0 \in G
  <2>1. NarrowerCount(InitCount(s, K - 1), InitCount(s, L - 1), K, L, n + 1)
    BY <1>1, NarrowInit
  <2>2. n + 1 - 0 = n + 1
    BY <1>1
  <2> QED
    BY <1>2, <1>3, <2>1, <2>2 DEF Counts, CountsFrom
<1>5. ASSUME NEW i \in Nat, i \in G PROVE i + 1 \in G
  <2> SUFFICES ASSUME i + 1 <= n
               PROVE  NarrowerCount(r1[i + 1], r[i + 1], K, L, n + 1 - (i + 1))
    OBVIOUS
  <2> DEFINE m == n + 1 - i
  <2>1. m \in Nat /\ m > 1 /\ n + 1 - (i + 1) = m - 1 /\ i <= n
    BY <1>1
  <2>2. NarrowerCount(r1[i], r[i], K, L, m)
    BY <1>5, <2>1
  <2> HIDE DEF m, G
  <2>3. NarrowerCount(CountAndMerge(r1[i]), CountAndMerge(r[i]), K, L, m - 1)
    BY <2>1, <2>2, NarrowMerge
  <2>4. i + 1 \in 1 .. n /\ (i + 1) - 1 = i
    BY <1>1
  <2>5. r[i + 1] = CountAndMerge(r[i]) /\ r1[i + 1] = CountAndMerge(r1[i])
    BY <1>2, <1>3, <2>4 DEF Counts, CountsFrom
  <2> QED
    BY <2>1, <2>3, <2>5
<1> HIDE DEF G
<1>6. n \in G
  BY <1>1, <1>4, <1>5, NumberInduction
<1>7. NarrowerCount(r1[n], r[n], K, L, n + 1 - n)
  BY <1>1, <1>6 DEF G
<1>8. PICK q, k, w, q1, k1, w1 :
        /\ CountRecord(r[n], q, L, k, w) /\ CountRecord(r1[n], q1, K, k1, w1)
        /\ k \in Nat /\ w \in Nat /\ k1 \in Nat /\ w1 \in Nat /\ k1 <= k /\ w1 <= w
  BY <1>7 DEF NarrowerCount
<1>9. Counted(s, L - 1) = r[n] /\ Counted(s, K - 1) = r1[n]
  BY <1>2, <1>3 DEF Counts
<1>10. r[n].count = k /\ r[n].widest = w /\ r1[n].count = k1 /\ r1[n].widest = w1
  BY <1>8 DEF CountRecord
<1> QED
  BY <1>8, <1>9, <1>10

\* What the invariant says of the size estimate: it falls with the cost.
LEMMA BuildFits == BuildInv => FittingIsKept
<1> SUFFICES ASSUME BuildInv, NEW thr \in Thresholds, NEW v \in 1 .. value, Fits(value - 1, thr)
             PROVE  Fits(v - 1, thr)
  BY DEF FittingIsKept
<1>1. WeightedLits(FirstVar, wlits) /\ wlits # {} /\ value \in Nat \ {0} /\ thr \in Nat
  BY EncoderBuildAssumption DEF BuildInv, Encodable
<1>2. v \in Nat \ {0} /\ v <= value
  BY <1>1
<1> DEFINE c == Counted(wlits, value - 1)
           d == Counted(wlits, v - 1)
<1>3. /\ c.count \in Nat /\ c.widest \in Nat /\ d.count \in Nat /\ d.widest \in Nat
      /\ d.count <= c.count /\ d.widest <= c.widest
  BY <1>1, <1>2, LowerLimitCountsNoMore
<1>4. CASE HasWeights
  <2>1. c.widest <= thr /\ c.count <= thr
    BY <1>4 DEF Fits, IsLeqGenTotExceedsThr
  <2>2. d.widest <= thr /\ d.count <= thr
    <3> HIDE DEF c, d
    <3> QED
      BY <1>1, <1>3, <2>1
  <2> QED
    BY <1>4, <2>2 DEF Fits, IsLeqGenTotExceedsThr
<1>5. CASE ~HasWeights
  <2>1. c.count <= thr
    BY <1>5 DEF Fits, IsLeqTotExceedsThr
  <2>2. d.count <= thr
    <3> HIDE DEF c, d
    <3> QED
      BY <1>1, <1>3, <2>1
  <2> QED
    BY <1>5, <2>2 DEF Fits, IsLeqTotExceedsThr
<1> QED
  BY <1>4, <1>5

\* A totalizer that fits in the threshold for one cost fits for a lower one, for
\* every set of soft literals: MrsBeaver need not ask again (MrsBeaver.cc:116).
THEOREM FittingKept == BuildSpec => []FittingIsKept
BY EncodingIsBuilt, BuildFits, PTL

-----------------------------------------------------------------------------
(***************************************************************************)
(* The size of a totalizer: a merge adds the clauses that are counted.     *)
(***************************************************************************)
\* Distinct elements of a finite set have distinct images.
Images(S, f, N) ==
  /\ \A a \in S : f[a] \in N
  /\ \A y \in N : \E a \in S : f[a] = y
  /\ \A a, b \in S : f[a] = f[b] => a = b

LEMMA ImageSize ==
  ASSUME NEW S, IsFiniteSet(S), NEW f, NEW N, Images(S, f, N)
  PROVE  IsFiniteSet(N) /\ Cardinality(N) = Cardinality(S)
<1> DEFINE g == [a \in S |-> f[a]]
<1>1. g \in Surjection(S, N) /\ g \in Injection(S, N)
  BY DEF Images, Surjection, Injection, IsInjective
<1> HIDE DEF g
<1> QED
  BY <1>1, FS_Surjection

\* The size of the union of three finite sets that have no element in common.
LEMMA ThreeSets ==
  ASSUME NEW A, NEW B, NEW D, IsFiniteSet(A), IsFiniteSet(B), IsFiniteSet(D),
         A \cap B = {}, A \cap D = {}, B \cap D = {}
  PROVE  /\ IsFiniteSet(A \cup B \cup D)
         /\ Cardinality(A \cup B \cup D) = Cardinality(A) + Cardinality(B) + Cardinality(D)
<1> DEFINE E == A \cup B
<1>1. /\ Cardinality(A) \in Nat /\ Cardinality(B) \in Nat /\ Cardinality(D) \in Nat
      /\ Cardinality({}) = 0
  BY FS_CardinalityType, FS_EmptySet
<1>2. IsFiniteSet(E) /\ Cardinality(E) = Cardinality(A) + Cardinality(B)
  <2>1. IsFiniteSet(A \cup B)
        /\ Cardinality(A \cup B) = Cardinality(A) + Cardinality(B) - Cardinality(A \cap B)
    BY FS_Union
  <2>2. Cardinality(A \cap B) = 0
    BY <1>1
  <2> QED
    BY <1>1, <2>1, <2>2
<1>3. E \cap D = {} /\ A \cup B \cup D = E \cup D
  OBVIOUS
<1> HIDE DEF E
<1>4. IsFiniteSet(E \cup D)
      /\ Cardinality(E \cup D) = Cardinality(E) + Cardinality(D) - Cardinality(E \cap D)
  BY <1>2, FS_Union
<1>5. Cardinality(E \cap D) = 0
  BY <1>1, <1>3
<1>6. Cardinality(E \cup D) = Cardinality(A) + Cardinality(B) + Cardinality(D)
  <2> DEFINE a == Cardinality(A)
             b == Cardinality(B)
             d == Cardinality(D)
             e == Cardinality(E)
             i == Cardinality(E \cap D)
             u == Cardinality(E \cup D)
  <2>1. a \in Nat /\ b \in Nat /\ d \in Nat /\ e = a + b /\ i = 0 /\ u = e + d - i
    BY <1>1, <1>2, <1>4, <1>5
  <2> HIDE DEF a, b, d, e, i, u
  <2>2. u = a + b + d
    BY <2>1
  <2> QED
    BY <2>2 DEF a, b, d, u
<1> QED
  BY <1>3, <1>4, <1>6

\* No literal stands for two weights, or at two places of the queue.
ApartNodes(left, right) ==
  /\ \A w, u \in DOMAIN left : left[w] = left[u] => w = u
  /\ \A w, u \in DOMAIN right : right[w] = right[u] => w = u
  /\ \A w \in DOMAIN left, u \in DOMAIN right : left[w] # right[u]

Apart(q) ==
  \A i, j \in 1 .. Len(q) : \A w \in DOMAIN q[i], u \in DOMAIN q[j] :
    q[i][w] = q[j][u] => i = j /\ w = u

\* A clause of a merge, from the negated outputs of the nodes and the new output.
Clause(first, h, y) == h \cup {y, first}

Old(first, c, x) == {l \in c : l \in Below(x) /\ l # first}

LEMMA ClauseParts ==
  ASSUME NEW first \in Nat \ {0}, NEW x \in Nat, first < x, NEW y \in Nat, x <= y,
         NEW h \in SUBSET Below(x), first \notin h
  PROVE  Old(first, Clause(first, h, y), x) = h /\ y \in Clause(first, h, y) /\ y \notin Below(x)
<1>1. y \notin Below(x)
  BY DEF Below
<1> QED
  BY <1>1 DEF Old, Clause

\* What a merge is made of.
CanMerge(first, left, right, parent, L, x) ==
  /\ L \in Nat \ {0} /\ x \in Nat /\ first \in Nat \ {0} /\ first < x
  /\ IsNode(first, left, x) /\ IsNode(first, right, x) /\ ApartNodes(left, right)
  /\ \A w \in MergedWeights(left, right, L) : parent[w] \in Nat /\ x <= parent[w]

LEMMA SizeOfMerge ==
  ASSUME NEW first, NEW left, NEW right, NEW parent, NEW L, NEW x,
         CanMerge(first, left, right, parent, L, x),
         NEW N, N = Selected(MergeClauses(left, right, parent, L), first)
  PROVE  /\ IsFiniteSet(N)
         /\ Cardinality(N) = Cardinality(DOMAIN left) + Cardinality(DOMAIN right)
                               + Cardinality(LowPairs(DOMAIN left, DOMAIN right, L))
         /\ \A c \in N : \E l \in c : l \notin Below(x)
<1> DEFINE DL == DOMAIN left
           DR == DOMAIN right
           P == LowPairs(DL, DR, L)
           yp(p) == parent[Clip(L, p[1] + p[2])]
           y(w) == parent[Clip(L, w)]
           fl == [w \in DL |-> Clause(first, {-left[w]}, y(w))]
           fr == [w \in DR |-> Clause(first, {-right[w]}, y(w))]
           fp == [p \in P |-> Clause(first, {-left[p[1]], -right[p[2]]}, yp(p))]
           A == {fl[w] : w \in DL}
           B == {fr[w] : w \in DR}
           E == {fp[p] : p \in P}
<1>1. /\ L \in Nat \ {0} /\ x \in Nat /\ first \in Nat \ {0} /\ first < x
      /\ IsFiniteSet(DL) /\ IsFiniteSet(DR) /\ DL \subseteq Nat \ {0} /\ DR \subseteq Nat \ {0}
  BY DEF CanMerge, IsNode
<1>2. /\ \A w \in DL : left[w] \in Int /\ -left[w] \in Below(x) /\ -left[w] # first
      /\ \A w \in DR : right[w] \in Int /\ -right[w] \in Below(x) /\ -right[w] # first
  <2>1. \A l \in Below(x) : l # -first => -l \in Below(x) /\ -l # first /\ l \in Int
    BY <1>1 DEF Below
  <2> QED
    BY <2>1 DEF CanMerge, IsNode
<1>3. /\ \A w \in DL : y(w) \in Nat /\ x <= y(w)
      /\ \A w \in DR : y(w) \in Nat /\ x <= y(w)
      /\ \A w \in DL, u \in DR : parent[Clip(L, w + u)] \in Nat /\ x <= parent[Clip(L, w + u)]
  BY <1>1, MergedWeightsAre DEF CanMerge
<1>4. \A p \in P : p[1] \in DL /\ p[2] \in DR /\ p = <<p[1], p[2]>>
  BY DEF LowPairs
<1>5. /\ \A w, u \in DL : left[w] = left[u] => w = u
      /\ \A w, u \in DR : right[w] = right[u] => w = u
      /\ \A w \in DL, u \in DR : left[w] # right[u]
  BY DEF CanMerge, ApartNodes
<1>5a. /\ \A w, u \in DL : -left[w] = -left[u] => w = u
       /\ \A w, u \in DR : -right[w] = -right[u] => w = u
       /\ \A w \in DL, u \in DR : -left[w] # -right[u]
  <2>1. \A a, b \in Int : -a = -b => a = b
    OBVIOUS
  <2> QED
    BY <1>2, <1>5, <2>1
<1> HIDE DEF DL, DR
<1>6. ASSUME NEW w \in DL
      PROVE  /\ Old(first, fl[w], x) = {-left[w]}
             /\ \E l \in fl[w] : l \notin Below(x)
  <2> DEFINE h == {-left[w]}
             v == y(w)
  <2>1. h \in SUBSET Below(x) /\ first \notin h
    BY <1>2
  <2>2. v \in Nat /\ x <= v
    BY <1>3
  <2>3. fl[w] = Clause(first, h, v)
    OBVIOUS
  <2> HIDE DEF h, v, fl
  <2>4. Old(first, Clause(first, h, v), x) = h /\ v \in Clause(first, h, v) /\ v \notin Below(x)
    BY <1>1, <2>1, <2>2, ClauseParts
  <2> QED
    BY <2>3, <2>4 DEF h
<1>7. ASSUME NEW w \in DR
      PROVE  /\ Old(first, fr[w], x) = {-right[w]}
             /\ \E l \in fr[w] : l \notin Below(x)
  <2> DEFINE h == {-right[w]}
             v == y(w)
  <2>1. h \in SUBSET Below(x) /\ first \notin h
    BY <1>2
  <2>2. v \in Nat /\ x <= v
    BY <1>3
  <2>3. fr[w] = Clause(first, h, v)
    OBVIOUS
  <2> HIDE DEF h, v, fr
  <2>4. Old(first, Clause(first, h, v), x) = h /\ v \in Clause(first, h, v) /\ v \notin Below(x)
    BY <1>1, <2>1, <2>2, ClauseParts
  <2> QED
    BY <2>3, <2>4 DEF h
<1>8. ASSUME NEW p \in P
      PROVE  /\ Old(first, fp[p], x) = {-left[p[1]], -right[p[2]]}
             /\ \E l \in fp[p] : l \notin Below(x)
  <2> DEFINE h == {-left[p[1]], -right[p[2]]}
             v == yp(p)
  <2>1. h \in SUBSET Below(x) /\ first \notin h
    BY <1>2, <1>4
  <2>2. v \in Nat /\ x <= v
    BY <1>3, <1>4
  <2>3. fp[p] = Clause(first, h, v)
    OBVIOUS
  <2> HIDE DEF h, v, fp
  <2>4. Old(first, Clause(first, h, v), x) = h /\ v \in Clause(first, h, v) /\ v \notin Below(x)
    BY <1>1, <2>1, <2>2, ClauseParts
  <2> QED
    BY <2>3, <2>4 DEF h
<1>9. /\ \A c \in A : \E w \in DL : c = fl[w]
      /\ \A c \in B : \E w \in DR : c = fr[w]
      /\ \A c \in E : \E p \in P : c = fp[p]
      /\ \A w \in DL : fl[w] \in A
      /\ \A w \in DR : fr[w] \in B
      /\ \A p \in P : fp[p] \in E
  <2> HIDE DEF fl, fr, fp, P
  <2> QED
    OBVIOUS
<1>10. N = A \cup B \cup E
  <2> DEFINE M == MergeClauses(left, right, parent, L)
  <2>1. N = {c \cup {first} : c \in M}
    BY <1>1 DEF Selected
  <2>2. /\ \A w \in DL : {-left[w], y(w)} \in M
        /\ \A w \in DR : {-right[w], y(w)} \in M
        /\ \A p \in P : {-left[p[1]], -right[p[2]], yp(p)} \in M
    BY DEF MergeClauses, PairsBelow, LowPairs, Clip, DL, DR
  <2>3. ASSUME NEW c \in M
        PROVE  \/ \E w \in DL : c = {-left[w], y(w)}
               \/ \E w \in DR : c = {-right[w], y(w)}
               \/ \E p \in P : c = {-left[p[1]], -right[p[2]], yp(p)}
    BY DEF MergeClauses, PairsBelow, LowPairs, Clip, DL, DR
  <2>4. /\ \A w \in DL : fl[w] = {-left[w], y(w)} \cup {first}
        /\ \A w \in DR : fr[w] = {-right[w], y(w)} \cup {first}
        /\ \A p \in P : fp[p] = {-left[p[1]], -right[p[2]], yp(p)} \cup {first}
    BY DEF Clause
  <2> HIDE DEF M, A, B, E, fl, fr, fp, P
  <2>5. ASSUME NEW c \in N PROVE c \in A \cup B \cup E
    <3>1. PICK d \in M : c = d \cup {first}
      BY <2>1
    <3>2. CASE \E w \in DL : d = {-left[w], y(w)}
      <4>1. PICK w \in DL : d = {-left[w], y(w)}
        BY <3>2
      <4>2. c = fl[w]
        BY <2>4, <3>1, <4>1
      <4> QED
        BY <1>9, <4>2
    <3>3. CASE \E w \in DR : d = {-right[w], y(w)}
      <4>1. PICK w \in DR : d = {-right[w], y(w)}
        BY <3>3
      <4>2. c = fr[w]
        BY <2>4, <3>1, <4>1
      <4> QED
        BY <1>9, <4>2
    <3>4. CASE \E p \in P : d = {-left[p[1]], -right[p[2]], yp(p)}
      <4>1. PICK p \in P : d = {-left[p[1]], -right[p[2]], yp(p)}
        BY <3>4
      <4>2. c = fp[p]
        BY <2>4, <3>1, <4>1
      <4> QED
        BY <1>9, <4>2
    <3> QED
      BY <2>3, <3>2, <3>3, <3>4
  <2>6. \A d \in M : d \cup {first} \in N
    BY <2>1
  <2>6a. \A w \in DL : fl[w] \in N
    <3> TAKE w \in DL
    <3>1. {-left[w], y(w)} \cup {first} \in N
      BY <2>2, <2>6
    <3> QED
      BY <2>4, <3>1
  <2>6b. \A w \in DR : fr[w] \in N
    <3> TAKE w \in DR
    <3>1. {-right[w], y(w)} \cup {first} \in N
      BY <2>2, <2>6
    <3> QED
      BY <2>4, <3>1
  <2>6c. \A p \in P : fp[p] \in N
    <3> TAKE p \in P
    <3>1. {-left[p[1]], -right[p[2]], yp(p)} \cup {first} \in N
      BY <2>2, <2>6
    <3> QED
      BY <2>4, <3>1
  <2>7. (\A c \in A : c \in N) /\ (\A c \in B : c \in N) /\ (\A c \in E : c \in N)
    BY <1>9, <2>6a, <2>6b, <2>6c
  <2> QED
    BY <2>5, <2>7
<1>11. IsFiniteSet(P)
  BY <1>1, LowPairsAreFinite
<1> HIDE DEF fl, fr, fp, P
<1>12. IsFiniteSet(A) /\ Cardinality(A) = Cardinality(DL)
  <2>1. \A w, u \in DL : fl[w] = fl[u] => w = u
    <3> TAKE w, u \in DL
    <3>1. fl[w] = fl[u] => {-left[w]} = {-left[u]}
      BY <1>6
    <3> QED
      BY <1>5a, <3>1
  <2> HIDE DEF A
  <2>2. Images(DL, fl, A)
    BY <1>9, <2>1 DEF Images
  <2> QED
    BY <1>1, <2>2, ImageSize
<1>13. IsFiniteSet(B) /\ Cardinality(B) = Cardinality(DR)
  <2>1. \A w, u \in DR : fr[w] = fr[u] => w = u
    <3> TAKE w, u \in DR
    <3>1. fr[w] = fr[u] => {-right[w]} = {-right[u]}
      BY <1>7
    <3> QED
      BY <1>5a, <3>1
  <2> HIDE DEF B
  <2>2. Images(DR, fr, B)
    BY <1>9, <2>1 DEF Images
  <2> QED
    BY <1>1, <2>2, ImageSize
<1>14. IsFiniteSet(E) /\ Cardinality(E) = Cardinality(P)
  <2>1. ASSUME NEW o \in P, NEW p \in P, fp[o] = fp[p] PROVE o = p
    <3> DEFINE a == -left[o[1]]
               b == -right[o[2]]
               c == -left[p[1]]
               d == -right[p[2]]
    <3>1. {a, b} = {c, d}
      BY <1>8, <2>1
    <3>2. a # d /\ c # b
      BY <1>4, <1>5a
    <3>3. (a = c => o[1] = p[1]) /\ (b = d => o[2] = p[2])
      BY <1>4, <1>5a
    <3> HIDE DEF a, b, c, d
    <3>4. a = c /\ b = d
      BY <3>1, <3>2
    <3>5. o = <<o[1], o[2]>> /\ p = <<p[1], p[2]>>
      BY <1>4
    <3> QED
      BY <3>3, <3>4, <3>5
  <2> HIDE DEF E
  <2>2. Images(P, fp, E)
    BY <1>9, <2>1 DEF Images
  <2> QED
    BY <1>11, <2>2, ImageSize
<1>15. A \cap B = {} /\ A \cap E = {} /\ B \cap E = {}
  <2>1. ASSUME NEW w \in DL, NEW u \in DR, fl[w] = fr[u] PROVE FALSE
    <3>1. {-left[w]} = {-right[u]}
      BY <1>6, <1>7, <2>1
    <3> QED
      BY <1>5a, <3>1
  <2>2. ASSUME NEW w \in DL, NEW p \in P, fl[w] = fp[p] PROVE FALSE
    <3>1. {-left[w]} = {-left[p[1]], -right[p[2]]}
      BY <1>6, <1>8, <2>2
    <3> QED
      BY <1>4, <1>5a, <3>1
  <2>3. ASSUME NEW w \in DR, NEW p \in P, fr[w] = fp[p] PROVE FALSE
    <3>1. {-right[w]} = {-left[p[1]], -right[p[2]]}
      BY <1>7, <1>8, <2>3
    <3> QED
      BY <1>4, <1>5a, <3>1
  <2> HIDE DEF A, B, E
  <2> QED
    BY <1>9, <2>1, <2>2, <2>3
<1>16. \A c \in A \cup B \cup E : \E l \in c : l \notin Below(x)
  <2> HIDE DEF A, B, E
  <2> QED
    BY <1>6, <1>7, <1>8, <1>9
<1> HIDE DEF A, B, E
<1>17. /\ IsFiniteSet(A \cup B \cup E)
       /\ Cardinality(A \cup B \cup E) = Cardinality(A) + Cardinality(B) + Cardinality(E)
  BY <1>12, <1>13, <1>14, <1>15, ThreeSets
<1> QED
  BY <1>10, <1>12, <1>13, <1>14, <1>16, <1>17 DEF P, DL, DR

\* The construction and the count at the same merge: r[i] counts the clauses made,
\* and its queue holds the weights of the nodes.
Sized(e, s, L) ==
  \E n, r, i, d, w :
    /\ n \in Nat /\ Cardinality(s) = n + 1 /\ Counts(s, L - 1, n, r) /\ i \in 0 .. n
    /\ CountRecord(r[i], d, L, Cardinality(e.clauses), w)
    /\ CountsOn(d, n + 1 - i, L, Cardinality(e.clauses), w)
    /\ Len(e.queue) = n + 1 - i
    /\ \A j \in 1 .. n + 1 - i : d[j] = DOMAIN e.queue[j]
    /\ Apart(e.queue) /\ IsFiniteSet(e.clauses)

\* No clause is made, and none is counted, of the leaves.
LEMMA SizedInit ==
  ASSUME NEW first \in Nat \ {0}, NEW s, WeightedLits(first, s), s # {}, NEW L \in Nat \ {0}, NEW e,
         e = InitGenTotalizer(s, first + 1, first, L - 1)
  PROVE  Sized(e, s, L)
<1> DEFINE n == Cardinality(s) - 1
           b == SortedWLits(s)
           d == FirstWeights(s)
           q == e.queue
<1>1. /\ n \in Nat /\ Cardinality(s) = n + 1 /\ Cardinality(s) - 1 = n
      /\ b \in [1 .. n + 1 -> s]
      /\ \A i, j \in 1 .. n + 1 : b[i] = b[j] => i = j
  <2>1. /\ Cardinality(s) \in Nat /\ Cardinality(s) >= 1
        /\ b \in [1 .. Cardinality(s) -> s]
        /\ \A i, j \in 1 .. Cardinality(s) : b[i] = b[j] => i = j
    BY SortedIsBijection
  <2>2. Cardinality(s) = n + 1 /\ n \in Nat
    BY <2>1
  <2> QED
    BY <2>1, <2>2
<1>2. q = [i \in 1 .. n + 1 |-> [w \in {b[i][1]} |-> b[i][2]]] /\ e.clauses = {}
  BY <1>1 DEF InitGenTotalizer
<1>3. /\ CountRecord(InitCount(s, L - 1), d, L, 0, 0) /\ CountQueue(d) /\ Len(d) = n + 1
  BY <1>1, CountInit
<1>4. PICK r : Counts(s, L - 1, n, r)
  BY <1>1, CountedGoes
<1>5. ASSUME NEW j \in 1 .. n + 1 PROVE d[j] = {b[j][1]} /\ DOMAIN q[j] = {b[j][1]}
  <2>1. d[j] = {b[j][1]}
    BY <1>1 DEF FirstWeights
  <2> HIDE DEF b, n, q, d
  <2>2. q[j] = [w \in {b[j][1]} |-> b[j][2]]
    BY <1>2
  <2> QED
    BY <2>1, <2>2
<1>6. \A j \in 1 .. n + 1 : \A w \in DOMAIN q[j] : w = b[j][1] /\ q[j][w] = b[j][2]
  <2> HIDE DEF b, n, q
  <2> TAKE j \in 1 .. n + 1
  <2>1. q[j] = [w \in {b[j][1]} |-> b[j][2]]
    BY <1>2
  <2> QED
    BY <2>1
<1>7. Len(q) = n + 1
  <2> DEFINE m == n + 1
  <2>1. DOMAIN q = 1 .. m /\ q = [i \in 1 .. m |-> q[i]] /\ m \in Nat
    BY <1>1, <1>2
  <2> HIDE DEF m, q
  <2>2. Len(q) = m
    BY <2>1
  <2> QED
    BY <2>2 DEF m
<1> HIDE DEF n, b, d, q
<1>8. Apart(q)
  <2> SUFFICES ASSUME NEW i \in 1 .. n + 1, NEW j \in 1 .. n + 1,
                      NEW w \in DOMAIN q[i], NEW u \in DOMAIN q[j], q[i][w] = q[j][u]
               PROVE  i = j /\ w = u
    BY <1>7 DEF Apart
  <2>1. b[i] \in s /\ b[j] \in s /\ b[i][2] = b[j][2]
    BY <1>1, <1>6
  <2>2. b[i] = b[j]
    BY <2>1 DEF WeightedLits
  <2> QED
    BY <1>1, <1>6, <2>2
<1>9. r[0] = InitCount(s, L - 1)
  BY <1>4 DEF Counts, CountsFrom
<1>10. Cardinality(e.clauses) = 0 /\ IsFiniteSet(e.clauses)
  BY <1>2, FS_EmptySet
<1>11. n + 1 - 0 = n + 1 /\ 0 \in 0 .. n /\ n + 1 \in Nat
  BY <1>1
<1>12. CountRecord(r[0], d, L, Cardinality(e.clauses), 0)
       /\ CountsOn(d, n + 1 - 0, L, Cardinality(e.clauses), 0)
  BY <1>3, <1>9, <1>10, <1>11 DEF CountsOn
<1>13. \A j \in 1 .. n + 1 - 0 : d[j] = DOMAIN q[j]
  BY <1>5, <1>11
<1>14. Len(q) = n + 1 - 0
  BY <1>7, <1>11
<1> QED
  BY <1>1, <1>4, <1>8, <1>10, <1>11, <1>12, <1>13, <1>14 DEF Sized, q

\* Merged literals are new.
LEMMA MergeApart ==
  ASSUME NEW first, NEW q, NEW x, NEW L, NEW left, NEW right, NEW parent, NEW r,
         Merging(first, q, x, L, left, right, parent, r), Apart(q)
  PROVE  Apart(r) /\ CanMerge(first, left, right, parent, L, x)
<1> DEFINE n == Len(q)
<1>1. /\ IsNode(first, left, x) /\ IsNode(first, right, x)
      /\ DOMAIN parent = MergedWeights(left, right, L)
      /\ \A w \in DOMAIN parent : parent[w] \in Nat /\ x <= parent[w]
      /\ \A w, u \in DOMAIN parent : parent[w] = parent[u] => w = u
      /\ n \in Nat /\ n >= 2 /\ Len(r) = n - 1
      /\ \A i \in 1 .. n - 2 : r[i] = q[i + 2]
      /\ r[n - 1] = parent
  BY MergingFacts
<1>2. /\ \A i \in 1 .. n : IsNode(first, q[i], x)
      /\ x \in Nat /\ L \in Nat \ {0} /\ first \in Nat \ {0} /\ first < x
      /\ left = q[1] /\ right = q[2]
  BY DEF Merging, MergeOf, QueueShape
<1>3. \A i, j \in 1 .. n : \A w \in DOMAIN q[i], u \in DOMAIN q[j] :
        q[i][w] = q[j][u] => i = j /\ w = u
  BY DEF Apart
<1> HIDE DEF n
<1>4. 1 \in 1 .. n /\ 2 \in 1 .. n
  BY <1>1
<1>5. ApartNodes(left, right)
  BY <1>2, <1>3, <1>4 DEF ApartNodes
<1>6. CanMerge(first, left, right, parent, L, x)
  BY <1>1, <1>2, <1>5 DEF CanMerge
<1>7. ASSUME NEW i \in 1 .. n - 2, NEW w \in DOMAIN r[i], NEW u \in DOMAIN parent
      PROVE  r[i][w] # parent[u]
  <2>1. i + 2 \in 1 .. n /\ r[i] = q[i + 2]
    BY <1>1
  <2>2. r[i][w] \in Below(x)
    BY <1>2, <2>1 DEF IsNode
  <2>3. parent[u] \in Nat /\ x <= parent[u]
    BY <1>1
  <2> QED
    BY <1>2, <2>2, <2>3 DEF Below
<1>8. Apart(r)
  <2> SUFFICES ASSUME NEW i \in 1 .. n - 1, NEW j \in 1 .. n - 1,
                      NEW w \in DOMAIN r[i], NEW u \in DOMAIN r[j], r[i][w] = r[j][u]
               PROVE  i = j /\ w = u
    BY <1>1 DEF Apart
  <2>1. CASE i = n - 1 /\ j = n - 1
    BY <1>1, <2>1
  <2>2. CASE i = n - 1 /\ j # n - 1
    <3>1. j \in 1 .. n - 2
      BY <1>1, <2>2
    <3> QED
      BY <1>1, <1>7, <2>2, <3>1
  <2>3. CASE i # n - 1 /\ j = n - 1
    <3>1. i \in 1 .. n - 2
      BY <1>1, <2>3
    <3> QED
      BY <1>1, <1>7, <2>3, <3>1
  <2>4. CASE i # n - 1 /\ j # n - 1
    <3>1. i \in 1 .. n - 2 /\ j \in 1 .. n - 2 /\ i + 2 \in 1 .. n /\ j + 2 \in 1 .. n
      BY <1>1, <2>4
    <3>2. r[i] = q[i + 2] /\ r[j] = q[j + 2]
      BY <1>1, <3>1
    <3>3. i + 2 = j + 2 /\ w = u
      BY <1>3, <3>1, <3>2
    <3> QED
      BY <3>1, <3>3
  <2> QED
    BY <2>1, <2>2, <2>3, <2>4
<1> QED
  BY <1>6, <1>8

\* The queue a merge leaves.
LEMMA QueueAfterMerge ==
  ASSUME NEW first, NEW q, NEW x, NEW L, NEW left, NEW right, NEW parent, NEW p,
         Merging(first, q, x, L, left, right, parent, p)
  PROVE  /\ DOMAIN parent = MergedWeights(left, right, L) /\ Len(p) = Len(q) - 1
         /\ \A j \in 1 .. Len(q) - 2 : p[j] = q[j + 2]
         /\ p[Len(q) - 1] = parent
BY MergingFacts

\* A merge adds what is counted for it.
LEMMA SizedStep ==
  ASSUME NEW first \in Nat \ {0}, NEW s, NEW L \in Nat \ {0}, NEW e,
         TotInv(first, e, s, L), Sized(e, s, L), Len(e.queue) > 1
  PROVE  Sized(AddAndMerge(e), s, L)
<1>1. PICK q, x, C : TotRecord(first, e, q, x, C, L) /\ TotShape(first, q, x, C, s)
  BY DEF TotInv
<1> DEFINE left == q[1]
           right == q[2]
           parent == MergedNode(MergedWeights(left, right, L), x)
           p == Append(SubSeq(q, 3, Len(q)), parent)
           N == Selected(MergeClauses(left, right, parent, L), first)
           D == C \cup N
           a == AddAndMerge(e)
<1>2. e.queue = q /\ e.next = x /\ e.clauses = C /\ e.selector = first /\ e.limit = L
      /\ e = [queue |-> q, next |-> x, clauses |-> C, selector |-> first, limit |-> L]
  BY <1>1 DEF TotRecord
<1>3. a.queue = p /\ a.clauses = D
  <2>1. a = [e EXCEPT !.queue = p, !.next = x + Cardinality(DOMAIN parent), !.clauses = D]
    BY <1>2 DEF AddAndMerge
  <2> HIDE DEF p, D, a
  <2> QED
    BY <1>2, <2>1
<1>4. Merging(first, q, x, L, left, right, parent, p)
  <2>1. QueueShape(first, q, x) /\ x \in Nat /\ first < x
    BY <1>1 DEF TotShape
  <2>2. Len(q) > 1
    BY <1>2
  <2> QED
    BY <2>1, <2>2 DEF Merging, MergeOf
<1>5. N = Selected(MergeClauses(left, right, parent, L), first) /\ D = C \cup N
      /\ left = q[1] /\ right = q[2]
  OBVIOUS
<1>6. C \in SUBSET SUBSET Below(x)
  BY <1>1 DEF TotShape, ClausesBelow
<1> HIDE DEF left, right, parent, p, N, D, a
<1>7. PICK n, r, i, d, w :
        /\ n \in Nat /\ Cardinality(s) = n + 1 /\ Counts(s, L - 1, n, r) /\ i \in 0 .. n
        /\ CountRecord(r[i], d, L, Cardinality(C), w)
        /\ CountsOn(d, n + 1 - i, L, Cardinality(C), w)
        /\ Len(q) = n + 1 - i
        /\ \A j \in 1 .. n + 1 - i : d[j] = DOMAIN q[j]
        /\ Apart(q) /\ IsFiniteSet(C)
  BY <1>2 DEF Sized
<1> DEFINE m == n + 1 - i
<1>8. m \in Nat /\ m > 1 /\ Len(q) = m /\ i + 1 \in 1 .. n /\ i + 1 \in 0 .. n
      /\ n + 1 - (i + 1) = m - 1 /\ (i + 1) - 1 = i
  BY <1>2, <1>7
<1>9. CountsOn(d, m, L, Cardinality(C), w) /\ \A j \in 1 .. m : d[j] = DOMAIN q[j]
  BY <1>7
<1> HIDE DEF m
<1>10. PICK d2, k2, w2 : /\ CountMerged(d, L, Cardinality(C), w, d2, k2, w2)
                         /\ CountRecord(CountAndMerge(r[i]), d2, L, k2, w2)
  BY <1>7, CountMerge
<1>11. CountsOn(d2, m - 1, L, k2, w2) /\ QueueMerged(d, m, L, d2)
  BY <1>8, <1>9, <1>10, CountMergeShape
<1>12. CountAndMerge(r[i]) = r[i + 1]
  BY <1>7, <1>8 DEF Counts, CountsFrom
<1>13. Apart(p) /\ CanMerge(first, left, right, parent, L, x)
  BY <1>4, <1>7, MergeApart
<1>14. /\ IsFiniteSet(N)
       /\ Cardinality(N) = Cardinality(DOMAIN left) + Cardinality(DOMAIN right)
                             + Cardinality(LowPairs(DOMAIN left, DOMAIN right, L))
       /\ \A c \in N : \E l \in c : l \notin Below(x)
  BY <1>5, <1>13, SizeOfMerge
<1>15. IsFiniteSet(D) /\ Cardinality(D) = Cardinality(C) + Cardinality(N)
  <2>1. C \cap N = {}
    BY <1>6, <1>14
  <2>2. IsFiniteSet(C \cup N)
        /\ Cardinality(C \cup N) = Cardinality(C) + Cardinality(N) - Cardinality(C \cap N)
    BY <1>7, <1>14, FS_Union
  <2>3. Cardinality(C \cap N) = 0 /\ Cardinality(C) \in Nat /\ Cardinality(N) \in Nat
    BY <1>7, <1>14, <2>1, FS_EmptySet, FS_CardinalityType
  <2> QED
    BY <1>5, <2>2, <2>3
<1>16. d[1] = DOMAIN left /\ d[2] = DOMAIN right
  BY <1>5, <1>8, <1>9
<1>17. k2 = Cardinality(D)
  <2> DEFINE c == Cardinality(C)
             f == Cardinality(DOMAIN left)
             g == Cardinality(DOMAIN right)
             h == Cardinality(LowPairs(DOMAIN left, DOMAIN right, L))
  <2>1. k2 = c + f + g + h
    BY <1>10, <1>16 DEF CountMerged
  <2>2. Cardinality(D) = c + (f + g + h)
    BY <1>14, <1>15
  <2>3. IsNode(first, left, x) /\ IsNode(first, right, x)
    BY <1>4, MergingFacts
  <2>4. c \in Nat /\ f \in Nat /\ g \in Nat /\ h \in Nat
    BY <1>7, <2>3, FS_CardinalityType, LowPairsAreFinite DEF IsNode
  <2> HIDE DEF c, f, g, h
  <2> QED
    BY <2>1, <2>2, <2>4
<1>18. /\ DOMAIN parent = MergedWeights(left, right, L) /\ Len(p) = m - 1
       /\ \A j \in 1 .. m - 2 : p[j] = q[j + 2]
       /\ p[m - 1] = parent
  <2>1. /\ DOMAIN parent = MergedWeights(left, right, L) /\ Len(p) = Len(q) - 1
        /\ \A j \in 1 .. Len(q) - 2 : p[j] = q[j + 2]
        /\ p[Len(q) - 1] = parent
    BY <1>4, QueueAfterMerge
  <2> QED
    BY <1>8, <2>1
<1>19. ASSUME NEW j \in 1 .. m - 1 PROVE d2[j] = DOMAIN p[j]
  <2>1. CASE j = m - 1
    <3>1. d2[j] = Clipped(L, Sums(d[1], d[2]))
      BY <1>11, <2>1 DEF QueueMerged
    <3>2. MergedWeights(left, right, L) = Clipped(L, Sums(DOMAIN left, DOMAIN right))
      BY MergeIsOfWeights
    <3> QED
      BY <1>16, <1>18, <2>1, <3>1, <3>2
  <2>2. CASE j # m - 1
    <3>1. j \in 1 .. m - 2 /\ j + 2 \in 1 .. m
      BY <1>8, <2>2
    <3>2. d2[j] = d[j + 2]
      BY <1>11, <3>1 DEF QueueMerged
    <3> QED
      BY <1>9, <1>18, <3>1, <3>2
  <2> QED
    BY <2>1, <2>2
<1> DEFINE i2 == i + 1
<1>20. /\ i2 \in 0 .. n /\ n + 1 - i2 = m - 1 /\ r[i2] = CountAndMerge(r[i])
  BY <1>8, <1>12
<1> HIDE DEF i2
<1>21. /\ CountRecord(r[i2], d2, L, Cardinality(a.clauses), w2)
       /\ CountsOn(d2, n + 1 - i2, L, Cardinality(a.clauses), w2)
       /\ Len(a.queue) = n + 1 - i2
       /\ \A j \in 1 .. n + 1 - i2 : d2[j] = DOMAIN a.queue[j]
       /\ Apart(a.queue) /\ IsFiniteSet(a.clauses)
  BY <1>3, <1>10, <1>11, <1>13, <1>15, <1>17, <1>18, <1>19, <1>20
<1> QED
  BY <1>7, <1>20, <1>21 DEF Sized, a

\* The count belongs to the construction at every step.
SizeInv == phase \in {"merge", "merged"} => Sized(enc, wlits, value)

LEMMA SizeInit == BuildInit => SizeInv
<1> SUFFICES ASSUME BuildInit, phase = "merge" PROVE Sized(enc, wlits, value)
  <2>1. BuildInit => phase \in {"merge", "add"}
    BY Zenon DEF BuildInit
  <2> QED
    BY <2>1 DEF SizeInv
<1>1. BuildInv
  BY BuildStarts
<1>2. enc = InitGenTotalizer(wlits, FirstVar + 1, FirstVar, value - 1)
  BY Zenon DEF BuildInit, Selector
<1>3. WeightedLits(FirstVar, wlits) /\ wlits # {} /\ value \in Nat \ {0} /\ FirstVar \in Nat \ {0}
  BY <1>1 DEF BuildInv, Encodable
<1> QED
  BY <1>2, <1>3, SizedInit

LEMMA SizeStep == BuildInv /\ SizeInv /\ [BuildNext]_buildVars => SizeInv'
<1> SUFFICES ASSUME BuildInv, SizeInv, [BuildNext]_buildVars PROVE SizeInv'
  OBVIOUS
<1>1. CASE Merge
  <2>1. /\ phase = "merge" /\ Len(enc.queue) > 1 /\ enc' = AddAndMerge(enc)
        /\ wlits' = wlits /\ value' = value
    BY <1>1 DEF Merge
  <2>2. TotInv(FirstVar, enc, wlits, value) /\ Sized(enc, wlits, value)
        /\ value \in Nat \ {0} /\ FirstVar \in Nat \ {0}
    BY <2>1 DEF BuildInv, SizeInv, Encodable
  <2>3. Sized(enc', wlits', value')
    BY <2>1, <2>2, SizedStep
  <2> QED
    BY <2>3 DEF SizeInv
<1>2. CASE Merged
  BY <1>2 DEF Merged, SizeInv
<1>3. CASE Add
  BY <1>3 DEF Add, SizeInv
<1>4. CASE Compare
  BY <1>4 DEF Compare, SizeInv
<1>5. CASE UNCHANGED buildVars
  BY <1>5 DEF buildVars, SizeInv
<1> QED
  BY <1>1, <1>2, <1>3, <1>4, <1>5 DEF BuildNext

\* When one node is left all merges are counted.
LEMMA SizeCounts == BuildInv /\ SizeInv => SizeIsCounted
<1> SUFFICES ASSUME BuildInv, SizeInv, phase = "merged"
             PROVE  Cardinality(enc.clauses) = Counted(wlits, value - 1).count
  BY DEF SizeIsCounted
<1>1. Len(enc.queue) = 1 /\ Sized(enc, wlits, value)
  BY DEF BuildInv, SizeInv
<1>2. PICK n, r, i, d, w :
        /\ n \in Nat /\ Counts(wlits, value - 1, n, r) /\ i \in 0 .. n
        /\ CountRecord(r[i], d, value, Cardinality(enc.clauses), w)
        /\ Len(enc.queue) = n + 1 - i
  BY <1>1 DEF Sized
<1>3. i = n
  <2>1. n \in Nat /\ i \in 0 .. n /\ 1 = n + 1 - i
    BY <1>1, <1>2
  <2> QED
    BY ONLY <2>1
<1>4. Counted(wlits, value - 1) = r[n]
  BY <1>2 DEF Counts
<1>5. r[n].count = Cardinality(enc.clauses)
  BY <1>2, <1>3 DEF CountRecord
<1> QED
  BY <1>4, <1>5

\* The size estimate, which builds nothing, counts exactly the clauses that the
\* totalizer adds when it is built (Totalizer.cc:310-355).
THEOREM SizeCounted == BuildSpec => []SizeIsCounted
<1>1. BuildSpec => []BuildInv
  BY EncodingIsBuilt
<1>2. BuildSpec => [](BuildInv /\ SizeInv)
  BY <1>1, SizeInit, SizeStep, PTL DEF BuildSpec
<1> QED
  BY <1>2, SizeCounts, PTL
=============================================================================
