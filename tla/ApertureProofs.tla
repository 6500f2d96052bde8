---------------------------- MODULE ApertureProofs ----------------------------
(***************************************************************************)
(* Aperture answers as ipamir.h promises (ApertureContracted), for every   *)
(* script of calls and every set of variables and weights.                 *)
(*                                                                         *)
(* The inductive invariant (ApertureInv) says of the state between two     *)
(* steps what the next one reads: the soft literals occur once each and    *)
(* their variables exist (SoftOnce, SoftExist), the latest solution        *)
(* satisfies the hard clauses and the assumptions and costs the latest     *)
(* value (Incumbent), and what LSU has built so far encodes the cost of    *)
(* the soft literals (LsuInv), as EncoderProofs shows of either encoding.  *)
(*                                                                         *)
(* CallInv adds what the client's calls leave: the variables of clauses    *)
(* exist, and those of assumptions and soft literals once they were        *)
(* checked.                                                                *)
(*                                                                         *)
(* What can go wrong is a hypothesis, a formula that holds in every state: *)
(*   CostsFit           every cost is below 2 ^ kNumBitsInWeight, and no   *)
(*                      weight is 0;                                       *)
(*   LocalSearchKeeps   what local search hands over is a solution that    *)
(*                      costs its value;                                   *)
(*   VarsExistFirst     the client adds no variable after an encoding;     *)
(*   SatMeansInterrupted  (an action) a solve without a callback does not  *)
(*                      end with 10.                                       *)
(*                                                                         *)
(* The first is the width of a weight, and what the encoders ask for.  The *)
(* second is what the configurations ApertureTwoRelaxations,               *)
(* ApertureHardened and ApertureSatisfied show local search to break, and  *)
(* holds when it is switched off (NothingFromLocalSearch).  The third is   *)
(* what ApertureNewVariable breaks, the last what ApertureFree breaks.     *)
(***************************************************************************)
EXTENDS Aperture, EncoderProofs

-----------------------------------------------------------------------------
(***************************************************************************)
(* A whole encoding: the folds go through its steps.                       *)
(***************************************************************************)
\* The steps of the three folds.
Advance(kind, e) ==
  IF kind = "count" THEN CountAndMerge(e)
  ELSE IF kind = "merge" THEN AddAndMerge(e)
  ELSE IF AdderDone(e) THEN e ELSE AdderStep(e)

\* A run of n steps from c, and the fold that goes through one.
RunFrom(kind, c, n, r) == r[0] = c /\ \A i \in 1 .. n : r[i] = Advance(kind, r[i - 1])

RunFold(kind, c, n, g) ==
  g = [t \in SUBSET (1 .. n) |-> IF t = {} THEN c ELSE Advance(kind, g[t \ {Max(t)}])]

LEMMA RunsExist ==
  ASSUME NEW kind, NEW c, NEW n \in Nat
  PROVE  \E r : RunFrom(kind, c, n, r)
<1> DEFINE G == {k \in Nat : \E r : RunFrom(kind, c, k, r)}
<1>1. 0 \in G
  <2> DEFINE r == [i \in 0 .. 0 |-> c]
  <2>1. RunFrom(kind, c, 0, r)
    BY DEF RunFrom
  <2> HIDE DEF r
  <2> QED
    BY <2>1
<1>2. ASSUME NEW k \in Nat, k \in G PROVE k + 1 \in G
  <2>1. PICK r : RunFrom(kind, c, k, r)
    BY <1>2
  <2> DEFINE f == [i \in 0 .. k + 1 |-> IF i = k + 1 THEN Advance(kind, r[k]) ELSE r[i]]
  <2>2. f[0] = c
    BY <2>1 DEF RunFrom
  <2>3. ASSUME NEW i \in 1 .. k + 1 PROVE f[i] = Advance(kind, f[i - 1])
    <3>1. CASE i = k + 1
      <4>1. f[i] = Advance(kind, r[k]) /\ f[i - 1] = r[k]
        BY <3>1
      <4> QED
        BY <4>1
    <3>2. CASE i # k + 1
      <4>1. i \in 1 .. k
        BY <3>2
      <4>2. f[i] = r[i] /\ f[i - 1] = r[i - 1]
        BY <4>1
      <4> QED
        BY <2>1, <4>1, <4>2 DEF RunFrom
    <3> QED
      BY <3>1, <3>2
  <2> HIDE DEF f
  <2>4. RunFrom(kind, c, k + 1, f)
    BY <2>2, <2>3 DEF RunFrom
  <2> QED
    BY <2>4
<1> HIDE DEF G
<1>3. n \in G
  BY <1>1, <1>2, NumberInduction
<1> QED
  BY <1>3 DEF G

LEMMA RunFoldExists ==
  ASSUME NEW kind, NEW c, NEW n \in Nat
  PROVE  \E g : RunFold(kind, c, n, g)
<1>1. PICK r : RunFrom(kind, c, n, r)
  BY RunsExist
<1> DEFINE g == [t \in SUBSET (1 .. n) |-> r[Cardinality(t)]]
           F(t) == IF t = {} THEN c ELSE Advance(kind, g[t \ {Max(t)}])
<1>2. ASSUME NEW t \in SUBSET (1 .. n) PROVE g[t] = F(t)
  <2>1. g[t] = r[Cardinality(t)]
    OBVIOUS
  <2>2. CASE t = {}
    <3>1. Cardinality(t) = 0
      BY <2>2, FS_EmptySet
    <3> QED
      BY <1>1, <2>1, <2>2, <3>1 DEF RunFrom
  <2>3. CASE t # {}
    <3> DEFINE x == Max(t)
               u == t \ {x}
    <3>1. x \in t
      BY <2>3, GreatestNumber
    <3>2. u \in SUBSET (1 .. n) /\ u = t \ {x}
      OBVIOUS
    <3>3. g[u] = r[Cardinality(u)]
      BY <3>2
    <3>4. F(t) = Advance(kind, g[u])
      BY <2>3
    <3> HIDE DEF x, u, g, F
    <3>5. IsFiniteSet(1 .. n) /\ Cardinality(1 .. n) = n
      <4>1. 1 \in Int /\ n \in Int
        OBVIOUS
      <4>2. IsFiniteSet(1 .. n) /\ Cardinality(1 .. n) = IF 1 > n THEN 0 ELSE n - 1 + 1
        BY ONLY <4>1, FS_Interval
      <4> QED
        BY <4>2
    <3>6. IsFiniteSet(t) /\ Cardinality(t) <= n
      BY <3>5, FS_Subset
    <3>7. Cardinality(t) \in Nat
      BY <3>6, FS_CardinalityType
    <3>8. IsFiniteSet(u) /\ Cardinality(u) = Cardinality(t) - 1
      BY <3>1, <3>2, <3>6, FS_RemoveElement
    <3>9. Cardinality(u) \in Nat
      BY <3>8, FS_CardinalityType
    <3>10. Cardinality(t) \in 1 .. n
      BY <3>6, <3>7, <3>8, <3>9
    <3>11. r[Cardinality(t)] = Advance(kind, r[Cardinality(u)])
      BY <1>1, <3>8, <3>10 DEF RunFrom
    <3> QED
      BY <2>1, <3>3, <3>4, <3>11
  <2> QED
    BY <2>2, <2>3
<1>3. g = [t \in SUBSET (1 .. n) |-> F(t)]
  BY <1>2
<1>4. RunFold(kind, c, n, g)
  <2>1. g = [t \in SUBSET (1 .. n) |-> IF t = {} THEN c ELSE Advance(kind, g[t \ {Max(t)}])]
    BY <1>3
  <2> HIDE DEF g
  <2> QED
    BY <2>1 DEF RunFold
<1> QED
  BY <1>4

\* Its value on 1 .. n is the end of the run.
LEMMA RunOfFold ==
  ASSUME NEW kind, NEW c, NEW n \in Nat, NEW h, RunFold(kind, c, n, h)
  PROVE  \E r : RunFrom(kind, c, n, r) /\ r[n] = h[1 .. n]
<1> DEFINE r == [i \in 0 .. n |-> h[1 .. i]]
<1>1. \A t \in SUBSET (1 .. n) : h[t] = IF t = {} THEN c ELSE Advance(kind, h[t \ {Max(t)}])
  <2>1. h = [t \in SUBSET (1 .. n) |-> IF t = {} THEN c ELSE Advance(kind, h[t \ {Max(t)}])]
    BY DEF RunFold
  <2> QED
    BY <2>1
<1>2. r[0] = c
  <2>1. r[0] = h[1 .. 0]
    OBVIOUS
  <2>2. 1 .. 0 = {} /\ {} \in SUBSET (1 .. n)
    OBVIOUS
  <2>3. h[{}] = c
    BY <1>1, <2>2, Zenon
  <2> HIDE DEF r
  <2> QED
    BY <2>1, <2>2, <2>3
<1>3. ASSUME NEW i \in 1 .. n PROVE r[i] = Advance(kind, r[i - 1])
  <2>1. r[i] = h[1 .. i] /\ r[i - 1] = h[1 .. (i - 1)]
    OBVIOUS
  <2>2. 1 .. i \in SUBSET (1 .. n) /\ 1 .. i # {} /\ i \in Nat /\ i > 0
    OBVIOUS
  <2>3. Max(1 .. i) = i /\ (1 .. i) \ {i} = 1 .. (i - 1)
    BY <2>2, MaxInterval
  <2> HIDE DEF r
  <2> QED
    BY <1>1, <2>1, <2>2, <2>3
<1>4. r[n] = h[1 .. n]
  OBVIOUS
<1> HIDE DEF r
<1>5. RunFrom(kind, c, n, r)
  BY <1>2, <1>3 DEF RunFrom
<1> QED
  BY <1>4, <1>5

\* A step of a fold is a step of the construction.
LEMMA StepIsMerge == \A e : Step(AddAndMerge, e) = AddAndMerge(e)
BY DEF Step

LEMMA MergesRun ==
  ASSUME NEW s, NEW x, NEW y, NEW rhs, NEW n \in Nat, Cardinality(s) - 1 = n
  PROVE  \E r : RunFrom("merge", InitGenTotalizer(s, x, y, rhs), n, r)
                /\ EncodeGenTotalizer(s, x, y, rhs) = r[n]
<1> DEFINE c == InitGenTotalizer(s, x, y, rhs)
           seq == [i \in 1 .. n |-> i]
           P(g) == g = [t \in SUBSET (DOMAIN seq) |->
                          IF t = {} THEN c ELSE Step(AddAndMerge, g[t \ {Max(t)}])]
           h == CHOOSE g : P(g)
<1>1. EncodeGenTotalizer(s, x, y, rhs) = h[DOMAIN seq]
  BY DEF EncodeGenTotalizer, FoldLeft, MapThenFoldSet
<1>2. DOMAIN seq = 1 .. n
  OBVIOUS
<1>3. \A g : P(g) <=> RunFold("merge", c, n, g)
  <2> HIDE DEF c, seq
  <2> QED
    BY <1>2, StepIsMerge DEF RunFold, Advance
<1>4. \E g : P(g)
  <2> HIDE DEF P, c
  <2> QED
    BY <1>3, RunFoldExists
<1>5. P(h)
  <2> HIDE DEF P
  <2> QED
    BY <1>4
<1>6. RunFold("merge", c, n, h)
  <2> HIDE DEF P, h, c
  <2> QED
    BY <1>3, <1>5
<1> HIDE DEF h, c, P, seq
<1>7. \E r : RunFrom("merge", c, n, r) /\ r[n] = h[1 .. n]
  BY <1>6, RunOfFold
<1> QED
  BY <1>1, <1>2, <1>7 DEF c

\* What one step of the adder's fold does.
AdderOn(a) == IF AdderDone(a) THEN a ELSE AdderStep(a)

LEMMA StepIsAdder == \A e : Step(LAMBDA a : IF AdderDone(a) THEN a ELSE AdderStep(a), e) = AdderOn(e)
BY DEF Step, AdderOn

LEMMA AdderRuns ==
  ASSUME NEW s, NEW x, NEW n \in Nat, (Cardinality(s) + 2) * kNumBitsInWeight = n
  PROVE  \E r : RunFrom("add", InitAdder(s, x), n, r) /\ EncodeAdder(s, x) = r[n]
<1> DEFINE c == InitAdder(s, x)
           seq == [i \in 1 .. n |-> i]
           P(g) == g = [t \in SUBSET (DOMAIN seq) |->
                          IF t = {} THEN c
                          ELSE Step(LAMBDA a : IF AdderDone(a) THEN a ELSE AdderStep(a),
                                    g[t \ {Max(t)}])]
           h == CHOOSE g : P(g)
<1>1. EncodeAdder(s, x) = h[DOMAIN seq]
  BY DEF EncodeAdder, FoldLeft, MapThenFoldSet
<1>2. DOMAIN seq = 1 .. n
  OBVIOUS
<1>3. \A g : P(g) <=> RunFold("add", c, n, g)
  <2>1. \A g : P(g) <=> g = [t \in SUBSET (1 .. n) |->
                               IF t = {} THEN c ELSE AdderOn(g[t \ {Max(t)}])]
    <3> HIDE DEF c, seq
    <3> QED
      BY <1>2, StepIsAdder
  <2>2. \A e : Advance("add", e) = AdderOn(e)
    BY DEF Advance, AdderOn
  <2> HIDE DEF P, c
  <2> QED
    BY <2>1, <2>2 DEF RunFold
<1>4. \E g : P(g)
  <2> HIDE DEF P, c
  <2> QED
    BY <1>3, RunFoldExists
<1>5. P(h)
  <2> HIDE DEF P
  <2> QED
    BY <1>4
<1>6. RunFold("add", c, n, h)
  <2> HIDE DEF P, h, c
  <2> QED
    BY <1>3, <1>5
<1> HIDE DEF h, c, P, seq
<1>7. \E r : RunFrom("add", c, n, r) /\ r[n] = h[1 .. n]
  BY <1>6, RunOfFold
<1> QED
  BY <1>1, <1>2, <1>7 DEF c

\* A merge leaves a queue with one node less.
LEMMA MergeShortens ==
  ASSUME NEW first \in Nat \ {0}, NEW s, NEW L \in Nat \ {0}, NEW e,
         TotInv(first, e, s, L), Len(e.queue) > 1
  PROVE  Len(AddAndMerge(e).queue) = Len(e.queue) - 1
<1>1. PICK q, x, C : TotRecord(first, e, q, x, C, L) /\ TotShape(first, q, x, C, s)
  BY DEF TotInv
<1> DEFINE left == q[1]
           right == q[2]
           parent == MergedNode(MergedWeights(left, right, L), x)
           p == Append(SubSeq(q, 3, Len(q)), parent)
           N == Selected(MergeClauses(left, right, parent, L), first)
           D == C \cup N
           a == AddAndMerge(e)
<1>2. e.queue = q /\ e.next = x /\ e.clauses = C /\ e.selector = first /\ e.limit = L
      /\ e = [queue |-> q, next |-> x, clauses |-> C, selector |-> first, limit |-> L]
  BY <1>1 DEF TotRecord
<1>3. a.queue = p
  <2>1. a = [e EXCEPT !.queue = p, !.next = x + Cardinality(DOMAIN parent), !.clauses = D]
    BY <1>2 DEF AddAndMerge
  <2> HIDE DEF p, D, a
  <2> QED
    BY <1>2, <2>1
<1>4. Merging(first, q, x, L, left, right, parent, p)
  <2>1. QueueShape(first, q, x) /\ x \in Nat /\ first < x
    BY <1>1 DEF TotShape
  <2>2. Len(q) > 1
    BY <1>2
  <2> QED
    BY <2>1, <2>2 DEF Merging, MergeOf
<1> HIDE DEF left, right, parent, p, N, D, a
<1>5. Len(p) = Len(q) - 1
  BY <1>4, QueueAfterMerge
<1> QED
  BY <1>2, <1>3, <1>5 DEF a

\* The totalizer that is built keeps the invariant, and is finished.
LEMMA TotBuilt ==
  ASSUME NEW first \in Nat \ {0}, NEW s, WeightedLits(first, s), s # {}, NEW L \in Nat \ {0},
         NEW e, e = EncodeGenTotalizer(s, first + 1, first, L - 1)
  PROVE  TotInv(first, e, s, L) /\ Len(e.queue) = 1
<1> DEFINE n == Cardinality(s) - 1
           c == InitGenTotalizer(s, first + 1, first, L - 1)
<1>1. n \in Nat /\ Cardinality(s) = n + 1
  BY SortedIsBijection
<1>2. TotInv(first, c, s, L) /\ Len(c.queue) = n + 1
  <2> HIDE DEF c
  <2>1. TotInv(first, c, s, L) /\ Len(c.queue) = Cardinality(s)
    BY TotInit DEF c
  <2> QED
    BY <1>1, <2>1
<1>3. PICK r : RunFrom("merge", c, n, r) /\ e = r[n]
  <2>1. Cardinality(s) - 1 = n
    OBVIOUS
  <2> HIDE DEF n
  <2> QED
    BY <1>1, <2>1, MergesRun
<1> HIDE DEF n, c
<1> DEFINE G == {i \in Nat : i <= n => TotInv(first, r[i], s, L) /\ Len(r[i].queue) = n + 1 - i}
<1>4. 0 \in G
  <2>1. r[0] = c
    BY <1>3 DEF RunFrom
  <2> QED
    BY <1>1, <1>2, <2>1
<1>5. ASSUME NEW i \in Nat, i \in G PROVE i + 1 \in G
  <2> SUFFICES ASSUME i + 1 <= n
               PROVE  TotInv(first, r[i + 1], s, L) /\ Len(r[i + 1].queue) = n + 1 - (i + 1)
    OBVIOUS
  <2> DEFINE a == r[i]
  <2>1. TotInv(first, a, s, L) /\ Len(a.queue) = n + 1 - i
    BY <1>1, <1>5
  <2>2. i + 1 \in 1 .. n /\ (i + 1) - 1 = i
    BY <1>1
  <2>3. r[i + 1] = AddAndMerge(a)
    BY <1>3, <2>2 DEF RunFrom, Advance
  <2> HIDE DEF a
  <2>4. Len(a.queue) > 1
    BY <1>1, <2>1
  <2>5. TotInv(first, AddAndMerge(a), s, L)
    BY <2>1, <2>4, TotStep
  <2>6. Len(AddAndMerge(a).queue) = Len(a.queue) - 1
    BY <2>1, <2>4, MergeShortens
  <2> QED
    BY <1>1, <2>1, <2>3, <2>5, <2>6
<1> HIDE DEF G
<1>6. n \in G
  BY <1>1, <1>4, <1>5, NumberInduction
<1>7. TotInv(first, r[n], s, L) /\ Len(r[n].queue) = n + 1 - n
  <2>1. n <= n
    BY <1>1
  <2> QED
    BY <1>6, <2>1 DEF G
<1>8. n + 1 - n = 1
  BY <1>1
<1> QED
  BY <1>3, <1>7, <1>8

-----------------------------------------------------------------------------
(***************************************************************************)
(* The adder is done when its fold is: every gate and every output bit     *)
(* takes away from what is still to do.                                    *)
(***************************************************************************)
Lengths(bk) == [j \in 0 .. kNumBitsInWeight |-> Len(bk[j])]

Waiting(bk) == SumFunctionOnSet(Lengths(bk), 0 .. kNumBitsInWeight)

ToGo(bk, t) ==
  Waiting(bk) + 2 * (kNumBitsInWeight - t)
    - (IF t < kNumBitsInWeight /\ Len(bk[t]) <= 1 THEN 1 ELSE 0)

\* Two functions that differ in two places.
LEMMA SumMoves ==
  ASSUME NEW F, NEW H, NEW S, Integral(F, S), Integral(H, S), NEW t \in S, NEW u \in S, t # u,
         \A x \in S : x # t /\ x # u => H[x] = F[x]
  PROVE  SumFunctionOnSet(H, S) = SumFunctionOnSet(F, S) + (H[t] - F[t]) + (H[u] - F[u])
<1> DEFINE Q == S \ {t}
           R == Q \ {u}
<1>1. Integral(F, Q) /\ Integral(H, Q) /\ Integral(F, R) /\ Integral(H, R)
  <2>1. Q \in SUBSET S /\ R \in SUBSET S
    OBVIOUS
  <2> HIDE DEF Q, R
  <2> QED
    BY <2>1, IntegralSubset
<1>2. SumFunctionOnSet(F, S) = F[t] + SumFunctionOnSet(F, Q)
      /\ SumFunctionOnSet(H, S) = H[t] + SumFunctionOnSet(H, Q)
  BY SumRemove
<1>3. SumFunctionOnSet(F, Q) = F[u] + SumFunctionOnSet(F, R)
      /\ SumFunctionOnSet(H, Q) = H[u] + SumFunctionOnSet(H, R)
  <2>1. u \in Q
    OBVIOUS
  <2> HIDE DEF Q
  <2> QED
    BY <1>1, <2>1, SumRemove
<1>4. \A x \in R : H[x] = F[x]
  OBVIOUS
<1>5. F[t] \in Int /\ F[u] \in Int /\ H[t] \in Int /\ H[u] \in Int
  BY DEF Integral
<1> HIDE DEF Q, R
<1>6. SumFunctionOnSet(H, R) = SumFunctionOnSet(F, R) /\ SumFunctionOnSet(F, R) \in Int
  BY <1>1, <1>4, SumSame, SumInt
<1> QED
  BY <1>2, <1>3, <1>5, <1>6

\* Buckets of which two change.
Rearranged(bk, t, bk2, a, b) ==
  /\ kNumBitsInWeight \in Nat /\ t \in Nat /\ t < kNumBitsInWeight
  /\ \A j \in 0 .. kNumBitsInWeight : Len(bk[j]) \in Nat /\ Len(bk2[j]) \in Nat
  /\ \A j \in 0 .. kNumBitsInWeight : j # t /\ j # t + 1 => Len(bk2[j]) = Len(bk[j])
  /\ a \in Int /\ b \in Int
  /\ Len(bk2[t]) = Len(bk[t]) + a /\ Len(bk2[t + 1]) = Len(bk[t + 1]) + b

LEMMA WaitingMoves ==
  ASSUME NEW bk, NEW t, NEW bk2, NEW a, NEW b, Rearranged(bk, t, bk2, a, b)
  PROVE  Waiting(bk) \in Nat /\ Waiting(bk2) \in Nat /\ Waiting(bk2) = Waiting(bk) + a + b
<1> DEFINE S == 0 .. kNumBitsInWeight
           F == Lengths(bk)
           H == Lengths(bk2)
           u == t + 1
<1>1. /\ kNumBitsInWeight \in Nat /\ t \in S /\ u \in S /\ t # u
      /\ \A j \in S : Len(bk[j]) \in Nat /\ Len(bk2[j]) \in Nat
      /\ \A j \in S : j # t /\ j # u => Len(bk2[j]) = Len(bk[j])
      /\ a \in Int /\ b \in Int
      /\ Len(bk2[t]) = Len(bk[t]) + a /\ Len(bk2[u]) = Len(bk[u]) + b
  BY DEF Rearranged
<1>2. \A j \in S : F[j] = Len(bk[j]) /\ H[j] = Len(bk2[j])
  BY DEF Lengths
<1>3. IsFiniteSet(S)
  <2>1. 0 \in Int /\ kNumBitsInWeight \in Int
    BY <1>1
  <2> QED
    BY ONLY <2>1, FS_Interval
<1> HIDE DEF S, F, H, u
<1>4. \A j \in S : F[j] \in Nat /\ H[j] \in Nat
  BY <1>1, <1>2
<1>5. Integral(F, S) /\ Integral(H, S)
  BY <1>3, <1>4 DEF Integral
<1>6. SumFunctionOnSet(F, S) \in Nat /\ SumFunctionOnSet(H, S) \in Nat
  BY <1>3, <1>4, SumNat
<1>7. \A j \in S : j # t /\ j # u => H[j] = F[j]
  BY <1>1, <1>2
<1>8. SumFunctionOnSet(H, S) = SumFunctionOnSet(F, S) + (H[t] - F[t]) + (H[u] - F[u])
  BY <1>1, <1>5, <1>7, SumMoves
<1>9. H[t] - F[t] = a /\ H[u] - F[u] = b
  <2>1. H[t] = F[t] + a /\ H[u] = F[u] + b /\ F[t] \in Nat /\ F[u] \in Nat
    BY <1>1, <1>2, <1>4
  <2> QED
    BY <1>1, <2>1
<1>10. SumFunctionOnSet(H, S) = SumFunctionOnSet(F, S) + a + b
  BY <1>8, <1>9
<1> QED
  BY <1>6, <1>10 DEF Waiting, S, F, H

\* As long as the adder is not done there is something to do.
LEMMA MoreToGo ==
  ASSUME NEW bk, NEW t, kNumBitsInWeight \in Nat, t \in Nat, t < kNumBitsInWeight,
         \A j \in 0 .. kNumBitsInWeight : Len(bk[j]) \in Nat
  PROVE  ToGo(bk, t) \in Nat /\ ToGo(bk, t) >= 1
<1>1. Rearranged(bk, t, bk, 0, 0)
  <2>1. t \in 0 .. kNumBitsInWeight /\ t + 1 \in 0 .. kNumBitsInWeight
    OBVIOUS
  <2> QED
    BY <2>1 DEF Rearranged
<1>2. Waiting(bk) \in Nat
  BY <1>1, WaitingMoves
<1> QED
  BY <1>2 DEF ToGo

\* A gate takes d literals from its bucket and puts one there and one above.
LEMMA GateRearranges ==
  ASSUME NEW bk, NEW t, NEW x, NEW d, NEW bk2, GateMade(bk, t, x, d, bk2), t < kNumBitsInWeight
  PROVE  Rearranged(bk, t, bk2, 1 - d, 1)
<1> DEFINE k == kNumBitsInWeight
           b == bk[t]
           a == bk[t + 1]
           n == Len(b)
           r == bk2[t]
           q == bk2[t + 1]
<1>1. /\ t \in 0 .. k /\ t + 1 \in 0 .. k /\ x \in Nat \ {0} /\ k \in Nat /\ t \in Nat
      /\ b \in Seq(Int) /\ a \in Seq(Int) /\ d \in 1 .. n
      /\ bk2 \in [0 .. k -> Seq(Int)]
      /\ r = Append(SubSeq(b, d + 1, n), x) /\ q = Append(a, x + 1)
      /\ \A j \in 0 .. k : j # t /\ j # t + 1 => bk2[j] = bk[j]
      /\ \A j \in 0 .. k : bk[j] \in Seq(Int)
  BY DEF GateMade
<1>2. Len(r) = n - d + 1
  <2> DEFINE S == Int
  <2>1. b \in Seq(S) /\ x \in S /\ d \in 0 .. Len(b) /\ r = Append(SubSeq(b, d + 1, Len(b)), x)
    BY <1>1
  <2> HIDE DEF S, b, r
  <2>2. Pushed(b, d, x, r)
    <3>1. Pushes(S, b, d, x, r)
      BY <2>1 DEF Pushes
    <3> QED
      BY <3>1, QueueStep
  <2> QED
    BY <2>2 DEF Pushed
<1>3. q \in Seq(Int) /\ Len(q) = Len(a) + 1 /\ n \in Nat /\ Len(a) \in Nat
  <2>1. x + 1 \in Int /\ a \in Seq(Int) /\ q = Append(a, x + 1)
    BY <1>1
  <2>2. n \in Nat
    BY <1>1
  <2> HIDE DEF q, a, n
  <2> QED
    BY <2>1, <2>2
<1>4. \A j \in 0 .. k : Len(bk[j]) \in Nat /\ Len(bk2[j]) \in Nat
  <2>1. \A s \in Seq(Int) : Len(s) \in Nat
    OBVIOUS
  <2>2. \A j \in 0 .. k : bk[j] \in Seq(Int) /\ bk2[j] \in Seq(Int)
    BY <1>1
  <2> QED
    BY <2>1, <2>2
<1>5. 1 - d \in Int /\ Len(r) = n + (1 - d)
  <2>1. d \in Int /\ Len(r) = n - d + 1
    BY <1>1, <1>2
  <2> HIDE DEF r, n
  <2> QED
    BY <1>3, <2>1
<1>6. /\ k \in Nat /\ t \in Nat /\ t < k
      /\ \A j \in 0 .. k : j # t /\ j # t + 1 => Len(bk2[j]) = Len(bk[j])
  BY <1>1
<1>7. Len(bk2[t]) = Len(bk[t]) + (1 - d) /\ Len(bk2[t + 1]) = Len(bk[t + 1]) + 1
  BY <1>3, <1>5
<1> QED
  BY <1>4, <1>5, <1>6, <1>7 DEF Rearranged

\* Less is left to do after a gate, after an output bit and after an empty bucket.
LEMMA LessAfterGate ==
  ASSUME NEW bk, NEW t, NEW x, NEW d \in {2, 3}, NEW bk2, GateMade(bk, t, x, d, bk2),
         t < kNumBitsInWeight, d = 3 \/ Len(bk[t]) = 2
  PROVE  ToGo(bk2, t) + 1 <= ToGo(bk, t)
<1>1. Rearranged(bk, t, bk2, 1 - d, 1)
  BY GateRearranges
<1> DEFINE w == Waiting(bk)
           w2 == Waiting(bk2)
           c == 1 - d
           n == Len(bk[t])
           n2 == Len(bk2[t])
           k == kNumBitsInWeight
<1>2. w \in Nat /\ w2 \in Nat /\ w2 = w + c + 1
  <2> HIDE DEF w, w2, c
  <2>1. Rearranged(bk, t, bk2, c, 1)
    BY <1>1 DEF c
  <2> QED
    BY <2>1, WaitingMoves DEF w, w2
<1>3. k \in Nat /\ t \in Nat /\ t < k /\ n \in Nat /\ n2 = n + c /\ n2 \in Nat /\ n >= d
  <2>1. /\ k \in Nat /\ t \in Nat /\ t \in 0 .. k /\ d \in 1 .. n
    BY DEF GateMade
  <2>2. n \in Nat /\ n2 \in Nat /\ n2 = n + c
    BY <1>1, <2>1 DEF Rearranged
  <2> HIDE DEF n, n2, c, k
  <2> QED
    BY <2>1, <2>2 DEF k
<1>4. c = 1 - d /\ (d = 3 \/ n = 2)
  OBVIOUS
<1>5. ToGo(bk, t) = w + 2 * (k - t) - (IF n <= 1 THEN 1 ELSE 0)
      /\ ToGo(bk2, t) = w2 + 2 * (k - t) - (IF n2 <= 1 THEN 1 ELSE 0)
  BY DEF ToGo
<1> HIDE DEF w, w2, c, n, n2, k
<1> QED
  BY <1>2, <1>3, <1>4, <1>5

LEMMA LessAfterBit ==
  ASSUME NEW bk, NEW t, NEW bk2, NEW c \in {0, -1}, Rearranged(bk, t, bk2, c, 0),
         Len(bk[t]) + c = 0
  PROVE  ToGo(bk2, t + 1) + 1 <= ToGo(bk, t)
<1> DEFINE w == Waiting(bk)
           w2 == Waiting(bk2)
           n == Len(bk[t])
           n2 == Len(bk2[t + 1])
           k == kNumBitsInWeight
<1>1. w \in Nat /\ w2 \in Nat /\ w2 = w + c + 0
  BY WaitingMoves
<1>2. k \in Nat /\ t \in Nat /\ t < k
  BY DEF Rearranged
<1>3. ToGo(bk, t) = w + 2 * (k - t) - (IF n <= 1 THEN 1 ELSE 0)
  BY <1>2 DEF ToGo
<1>4. ToGo(bk2, t + 1) = w2 + 2 * (k - (t + 1)) - (IF t + 1 < k /\ n2 <= 1 THEN 1 ELSE 0)
  BY DEF ToGo
<1> HIDE DEF w, w2, n2, k
<1>5. (IF t + 1 < k /\ n2 <= 1 THEN 1 ELSE 0) \in {0, 1}
  OBVIOUS
<1>6. n <= 1
  OBVIOUS
<1> HIDE DEF n
<1> DEFINE i2 == IF t + 1 < k /\ n2 <= 1 THEN 1 ELSE 0
<1> HIDE DEF i2
<1>7. ToGo(bk, t) = w + 2 * (k - t) - 1 /\ ToGo(bk2, t + 1) = w2 + 2 * (k - (t + 1)) - i2
      /\ i2 \in {0, 1}
  BY <1>3, <1>4, <1>5, <1>6 DEF i2
<1> QED
  BY <1>1, <1>2, <1>7

LEMMA LessToGo ==
  ASSUME NEW first \in Nat \ {0}, NEW e, NEW bk, NEW t, NEW x, NEW C, NEW o,
         AdderRecord(e, bk, t, x, C, o), AdderShape(first, bk, t, x, C, o), t < kNumBitsInWeight,
         NEW f, f = AdderStep(e)
  PROVE  ToGo(f.buckets, f.bit) + 1 <= ToGo(bk, t)
<1>2. e = [buckets |-> bk, bit |-> t, next |-> x, clauses |-> C, output |-> o]
  BY DEF AdderRecord
<1>3. e.buckets = bk /\ e.bit = t /\ e.next = x /\ e.clauses = C /\ e.output = o
  BY <1>2
<1>4. /\ kNumBitsInWeight \in Nat /\ t \in Nat /\ t \in 0 .. kNumBitsInWeight
      /\ t + 1 \in 0 .. kNumBitsInWeight /\ x \in Nat \ {0}
      /\ bk \in [0 .. kNumBitsInWeight -> Seq(Int)]
  BY WidthAssumption DEF AdderShape, Buckets
<1> DEFINE b == bk[t]
           n == Len(b)
<1>5. b \in Seq(Int) /\ n \in Nat
  BY <1>4
<1>6. AdderStep(e) =
        CASE n >= 3 -> Gate(e, 3, FullAdderSum(b[1], b[2], b[3], x)
                                    \cup FullAdderCarry(b[1], b[2], b[3], x + 1))
          [] n = 2 -> Gate(e, 2, HalfAdderSum(b[1], b[2], x) \cup HalfAdderCarry(b[1], b[2], x + 1))
          [] n = 1 -> [e EXCEPT !.output = Append(o, <<b[1], t>>),
                                !.buckets = [bk EXCEPT ![t] = <<>>], !.bit = t + 1]
          [] OTHER -> [e EXCEPT !.bit = t + 1]
  BY <1>3 DEF AdderStep
<1>7. ASSUME NEW d \in {2, 3}, NEW G, f = Gate(e, d, G), d <= n, d = 3 \/ n = 2
      PROVE  ToGo(f.buckets, f.bit) + 1 <= ToGo(bk, t)
  <2> DEFINE bk2 == [bk EXCEPT ![t] = Append(SubSeq(bk[t], d + 1, Len(bk[t])), x),
                               ![t + 1] = Append(bk[t + 1], x + 1)]
             D == C \cup G
             y == x + 2
  <2>1. f.buckets = bk2 /\ f.bit = t
    <3>1. f = [e EXCEPT !.buckets = bk2, !.next = y, !.clauses = D]
      BY <1>3, <1>7 DEF Gate
    <3> HIDE DEF bk2, D, y
    <3> QED
      BY <1>2, <3>1
  <2>2. d \in 1 .. Len(bk[t])
    BY <1>5, <1>7
  <2>3. Gated(bk, t, d, x, bk2)
    BY DEF Gated
  <2> HIDE DEF bk2
  <2>4. Gating(first, bk, t, x, C, o, d, G, bk2)
    BY <1>4, <2>2, <2>3 DEF Gating
  <2>5. GateMade(bk, t, x, d, bk2)
    BY <2>4, GatedFacts
  <2>6. ToGo(bk2, t) + 1 <= ToGo(bk, t)
    BY <1>7, <2>5, LessAfterGate
  <2> QED
    BY <2>1, <2>6
<1> HIDE DEF b, n
<1>8. CASE n >= 3
  <2> DEFINE G == FullAdderSum(b[1], b[2], b[3], x) \cup FullAdderCarry(b[1], b[2], b[3], x + 1)
  <2>1. f = Gate(e, 3, G)
    BY <1>6, <1>8
  <2> HIDE DEF G
  <2> QED
    BY <1>7, <1>8, <2>1
<1>9. CASE n = 2
  <2> DEFINE G == HalfAdderSum(b[1], b[2], x) \cup HalfAdderCarry(b[1], b[2], x + 1)
  <2>1. f = Gate(e, 2, G)
    BY <1>6, <1>9
  <2> HIDE DEF G
  <2> QED
    BY <1>7, <1>9, <2>1
<1>10. CASE n = 1
  <2> DEFINE bk2 == [bk EXCEPT ![t] = <<>>]
             o2 == Append(o, <<b[1], t>>)
             u == t + 1
  <2>1. f = [e EXCEPT !.output = o2, !.buckets = bk2, !.bit = u]
    BY <1>6, <1>10
  <2>2. Rearranged(bk, t, bk2, -1, 0)
    <3>1. \A j \in 0 .. kNumBitsInWeight : Len(bk[j]) \in Nat
      BY <1>4
    <3>2. bk2[t] = <<>> /\ \A j \in 0 .. kNumBitsInWeight : j # t => bk2[j] = bk[j]
      BY <1>4
    <3>3. Len(<<>>) = 0 /\ Len(bk[t]) = 1
      BY <1>10 DEF b, n
    <3> HIDE DEF bk2
    <3>4. \A j \in 0 .. kNumBitsInWeight : Len(bk2[j]) \in Nat
      BY <3>1, <3>2, <3>3
    <3>5. Len(bk2[t]) = Len(bk[t]) + (-1) /\ Len(bk2[t + 1]) = Len(bk[t + 1]) + 0
      BY <1>4, <3>1, <3>2, <3>3
    <3>6. \A j \in 0 .. kNumBitsInWeight : j # t /\ j # t + 1 => Len(bk2[j]) = Len(bk[j])
      BY <3>2
    <3> QED
      BY <1>4, <3>1, <3>4, <3>5, <3>6 DEF Rearranged
  <2> HIDE DEF bk2, o2, u
  <2>3. f.buckets = bk2 /\ f.bit = u
    BY <1>2, <2>1
  <2>4. Len(bk[t]) + (-1) = 0
    BY <1>10 DEF b, n
  <2>5. ToGo(bk2, t + 1) + 1 <= ToGo(bk, t)
    BY <2>2, <2>4, LessAfterBit
  <2> QED
    BY <2>3, <2>5 DEF u
<1>11. CASE n = 0
  <2> DEFINE u == t + 1
  <2>1. f = [e EXCEPT !.bit = u]
    BY <1>6, <1>11
  <2>2. Rearranged(bk, t, bk, 0, 0)
    BY <1>4 DEF Rearranged
  <2> HIDE DEF u
  <2>3. f.buckets = bk /\ f.bit = u
    BY <1>2, <2>1
  <2>4. Len(bk[t]) + 0 = 0
    BY <1>11 DEF b, n
  <2>5. ToGo(bk, t + 1) + 1 <= ToGo(bk, t)
    BY <2>2, <2>4, LessAfterBit
  <2> QED
    BY <2>3, <2>5 DEF u
<1> QED
  BY <1>5, <1>8, <1>9, <1>10, <1>11

\* A bucket has no more literals than there are, and the last bucket has none.
LEMMA FirstToGo ==
  ASSUME NEW first \in Nat \ {0}, NEW s, WeightedLits(first, s), NEW bk, bk = FirstBuckets(s),
         NEW n, n = (Cardinality(s) + 2) * kNumBitsInWeight
  PROVE  n \in Nat /\ ToGo(bk, 0) <= n
<1> DEFINE k == kNumBitsInWeight
           c == Cardinality(s)
           S == 0 .. k
           A == 0 .. k - 1
           F == Lengths(bk)
           H == [j \in S |-> IF j \in A THEN c ELSE 0]
           D == [j \in S |-> F[j] - H[j]]
<1>1. k \in Nat /\ k > 0 /\ c \in Nat /\ IsFiniteSet(s)
  <2>1. IsFiniteSet(s)
    BY DEF WeightedLits
  <2> QED
    BY <2>1, WidthAssumption, FS_CardinalityType
<1>2. ASSUME NEW j \in S PROVE F[j] \in Nat /\ F[j] <= H[j]
  <2> DEFINE in == {wl \in s : j < k /\ Bit(wl[1], j) = 1}
             m == Cardinality(in)
  <2>1. IsFiniteSet(in) /\ m \in Nat /\ m <= c
    <3>1. in \in SUBSET s
      OBVIOUS
    <3> HIDE DEF in
    <3>2. IsFiniteSet(in) /\ m <= c
      BY <1>1, <3>1, FS_Subset
    <3> QED
      BY <3>2, FS_CardinalityType
  <2>2. bk[j] = [i \in 1 .. m |-> SortedWLits(in)[i][2]]
    BY DEF FirstBuckets
  <2>3. Len(bk[j]) = m
    <3> HIDE DEF m, in
    <3> QED
      BY <2>1, <2>2
  <2>4. F[j] = m
    BY <2>3 DEF Lengths
  <2>5. ~(j < k) => m = 0
    <3>1. ~(j < k) => in = {}
      OBVIOUS
    <3> HIDE DEF in
    <3> QED
      BY <3>1, FS_EmptySet
  <2>6. H[j] = IF j < k THEN c ELSE 0
    BY <1>1
  <2> HIDE DEF m, in, F, H
  <2> QED
    BY <1>1, <2>1, <2>4, <2>5, <2>6
<1>3. IsFiniteSet(S) /\ IsFiniteSet(A) /\ Cardinality(A) = k /\ A \in SUBSET S
  <2>1. 0 \in Int /\ k \in Int /\ k - 1 \in Int
    BY <1>1
  <2> HIDE DEF k
  <2>2. IsFiniteSet(S)
    BY ONLY <2>1, FS_Interval
  <2>3. IsFiniteSet(A) /\ Cardinality(A) = IF 0 > k - 1 THEN 0 ELSE (k - 1) - 0 + 1
    BY ONLY <2>1, FS_Interval
  <2> QED
    BY <1>1, <2>2, <2>3
<1>4. (\A j \in A : H[j] = c) /\ (\A j \in S \ A : H[j] = 0)
      /\ (\A j \in S : H[j] \in Nat)
  BY <1>1, <1>3
<1>5. \A j \in S : D[j] \in Int /\ D[j] <= 0 /\ F[j] = D[j] + H[j]
  <2> SUFFICES ASSUME NEW j \in S PROVE D[j] \in Int /\ D[j] <= 0 /\ F[j] = D[j] + H[j]
    OBVIOUS
  <2>1. F[j] \in Nat /\ F[j] <= H[j] /\ H[j] \in Nat /\ D[j] = F[j] - H[j]
    BY <1>2, <1>4
  <2> HIDE DEF F, H, D
  <2> QED
    BY <2>1
<1> HIDE DEF F, H, D, A, S
<1>6. SumFunctionOnSet(H, S) = c * k
  <2>1. c \in Int
    BY <1>1
  <2> HIDE DEF c, k
  <2>2. SumFunctionOnSet(H, S) = c * Cardinality(A)
    BY <1>3, <1>4, <2>1, SumConstant
  <2> QED
    BY <1>3, <2>2
<1>7. Integral(D, S) /\ Integral(H, S)
  BY <1>3, <1>4, <1>5 DEF Integral
<1>8. SumFunctionOnSet(D, S) <= 0 /\ SumFunctionOnSet(D, S) \in Int
  BY <1>5, <1>7, SumNonPositive, SumInt
<1>9. SumFunctionOnSet(F, S) = SumFunctionOnSet(D, S) + SumFunctionOnSet(H, S)
  BY <1>5, <1>7, SumAdd
<1>10. Waiting(bk) = SumFunctionOnSet(F, S)
  BY DEF Waiting, F, S
<1> DEFINE w == Waiting(bk)
           z == c * k
<1>11. w \in Int /\ w <= z /\ z \in Nat /\ n = z + 2 * k
  <2>1. z \in Nat /\ (c + 2) * k = z + 2 * k
    BY <1>1
  <2> HIDE DEF z, c, k
  <2> QED
    BY <1>6, <1>8, <1>9, <1>10, <2>1 DEF z, c, k
<1>12. ToGo(bk, 0) = w + 2 * (k - 0) - (IF 0 < k /\ Len(bk[0]) <= 1 THEN 1 ELSE 0)
  BY DEF ToGo
<1> HIDE DEF w, z, c, k
<1> QED
  BY <1>1, <1>11, <1>12

\* The adder that is built keeps the invariant, and is finished.
LEMMA AdderBuilt ==
  ASSUME NEW first \in Nat \ {0}, NEW s, WeightedLits(first, s),
         \A wl \in s : wl[1] < 2^kNumBitsInWeight, NEW e, e = EncodeAdder(s, first)
  PROVE  AdderInv(first, e, s) /\ AdderDone(e)
<1> DEFINE n == (Cardinality(s) + 2) * kNumBitsInWeight
           c == InitAdder(s, first)
           Left(a) == ToGo(a.buckets, a.bit)
<1>1. n \in Nat /\ Left(c) <= n
  <2> DEFINE bk == FirstBuckets(s)
  <2>1. c.buckets = bk /\ c.bit = 0
    BY DEF InitAdder, FirstBuckets
  <2>2. bk = FirstBuckets(s) /\ n = (Cardinality(s) + 2) * kNumBitsInWeight
    OBVIOUS
  <2> HIDE DEF bk, n, c
  <2>3. n \in Nat /\ ToGo(bk, 0) <= n
    BY <2>2, FirstToGo
  <2> QED
    BY <2>1, <2>3
<1>2. AdderInv(first, c, s)
  <2> HIDE DEF c
  <2> QED
    BY AdderInit DEF c
<1>3. PICK r : RunFrom("add", c, n, r) /\ e = r[n]
  <2>1. (Cardinality(s) + 2) * kNumBitsInWeight = n
    OBVIOUS
  <2> HIDE DEF n
  <2> QED
    BY <1>1, <2>1, AdderRuns
<1> HIDE DEF n, c
<1>4. ASSUME NEW a, AdderInv(first, a, s), ~AdderDone(a)
      PROVE  Left(a) \in Nat /\ Left(a) >= 1 /\ Left(AdderStep(a)) + 1 <= Left(a)
  <2>1. PICK bk, t, x, C, o : AdderRecord(a, bk, t, x, C, o) /\ AdderShape(first, bk, t, x, C, o)
    BY <1>4 DEF AdderInv
  <2>2. a.buckets = bk /\ a.bit = t
    BY <2>1 DEF AdderRecord
  <2>3. /\ t \in Nat /\ kNumBitsInWeight \in Nat /\ t < kNumBitsInWeight
        /\ bk \in [0 .. kNumBitsInWeight -> Seq(Int)]
    BY <1>4, <2>1, <2>2, WidthAssumption DEF AdderDone, AdderShape, Buckets
  <2>4. \A j \in 0 .. kNumBitsInWeight : Len(bk[j]) \in Nat
    BY <2>3
  <2>5. ToGo(bk, t) \in Nat /\ ToGo(bk, t) >= 1
    BY <2>3, <2>4, MoreToGo
  <2> DEFINE f == AdderStep(a)
  <2>6. f = AdderStep(a)
    OBVIOUS
  <2> HIDE DEF f
  <2>7. ToGo(f.buckets, f.bit) + 1 <= ToGo(bk, t)
    BY <2>1, <2>3, <2>6, LessToGo
  <2> QED
    BY <2>2, <2>5, <2>6, <2>7
<1> DEFINE G == {i \in Nat : i <= n => /\ AdderInv(first, r[i], s)
                                       /\ AdderDone(r[i]) \/ Left(r[i]) <= n - i}
<1>5. 0 \in G
  <2>1. r[0] = c
    BY <1>3 DEF RunFrom
  <2>2. n - 0 = n
    BY <1>1
  <2> HIDE DEF Left
  <2> QED
    BY <1>1, <1>2, <2>1, <2>2
<1>6. ASSUME NEW i \in Nat, i \in G PROVE i + 1 \in G
  <2> SUFFICES ASSUME i + 1 <= n
               PROVE  /\ AdderInv(first, r[i + 1], s)
                      /\ AdderDone(r[i + 1]) \/ Left(r[i + 1]) <= n - (i + 1)
    OBVIOUS
  <2> DEFINE a == r[i]
             f == AdderStep(a)
  <2>1. AdderInv(first, a, s) /\ (AdderDone(a) \/ Left(a) <= n - i)
    BY <1>1, <1>6
  <2>2. i + 1 \in 1 .. n /\ (i + 1) - 1 = i
    BY <1>1
  <2>3. r[i + 1] = IF AdderDone(a) THEN a ELSE f
    BY <1>3, <2>2 DEF RunFrom, Advance
  <2> HIDE DEF a, G, Left
  <2>4. CASE AdderDone(a)
    BY <2>1, <2>3, <2>4
  <2>5. CASE ~AdderDone(a)
    <3>1. AdderInv(first, f, s)
      BY <2>1, <2>5, AdderStepKeeps
    <3>2. Left(a) \in Nat /\ Left(f) + 1 <= Left(a)
      BY <1>4, <2>1, <2>5
    <3>3. Left(a) <= n - i
      BY <2>1, <2>5
    <3>4. ~AdderDone(f) => Left(f) \in Nat
      BY <1>4, <3>1
    <3>5. AdderDone(f) \/ Left(f) <= n - (i + 1)
      <4> DEFINE p == Left(f)
                 q == Left(a)
      <4> HIDE DEF p, q
      <4>1. p \in Nat /\ q \in Nat /\ p + 1 <= q /\ q <= n - i => p <= n - (i + 1)
        BY <1>1
      <4> QED
        BY <3>2, <3>3, <3>4, <4>1 DEF p, q
    <3> QED
      BY <2>3, <2>5, <3>1, <3>5
  <2> QED
    BY <2>4, <2>5
<1>7. n \in G
  <2> HIDE DEF G
  <2> QED
    BY <1>1, <1>5, <1>6, NumberInduction
<1>8. n <= n /\ n - n = 0
  BY <1>1
<1>9. AdderInv(first, r[n], s) /\ (AdderDone(r[n]) \/ Left(r[n]) <= 0)
  BY <1>7, <1>8
<1> HIDE DEF Left
<1>10. AdderDone(r[n])
  <2> SUFFICES ASSUME ~AdderDone(r[n]) PROVE FALSE
    OBVIOUS
  <2> DEFINE a == r[n]
  <2>1. AdderInv(first, a, s) /\ ~AdderDone(a) /\ Left(a) <= 0
    BY <1>9
  <2> HIDE DEF a
  <2>2. Left(a) \in Nat /\ Left(a) >= 1
    BY <1>4, <2>1
  <2> QED
    BY <2>1, <2>2
<1> QED
  BY <1>3, <1>9, <1>10

-----------------------------------------------------------------------------
(***************************************************************************)
(* What LSU has of an encoding: the SAT solver that holds its clauses is   *)
(* asked for the assignments that cost less than v.                        *)
(***************************************************************************)
Asks(first, s, v, C, B) ==
  /\ C \in Clauses /\ IsFiniteSet(UNION C) /\ B \in SUBSET (Int \ {0})
  /\ \A m \in AssignmentsTo(first) : Extends(C, m \cup B) <=> CostOf(s, m) < v

\* The clauses of an encoding use variables below x and rule no assignment out.
Grown(first, C, x) ==
  /\ x \in Nat /\ first <= x /\ ClausesBelow(C, x)
  /\ \A m \in AssignmentsTo(first) :
       \E M \in SUBSET Nat : m \subseteq TrueIn(M) /\ Satisfied(M, C)

IsCost(first, s, v) == \E m \in AssignmentsTo(first) : v = CostOf(s, m)

LEMMA TotalizerEncoded ==
  ASSUME NEW first \in Nat \ {0}, NEW s, WeightedLits(first, s), s # {}, NEW L \in Nat \ {0},
         NEW e, e = EncodeGenTotalizer(s, first + 1, first, L - 1)
  PROVE  /\ Grown(first, e.clauses, e.next) /\ first + 1 <= e.next
         /\ \A v \in 1 .. L : IsCost(first, s, v) =>
              Asks(first, s, v, e.clauses,
                   {-first} \cup BoundWithTotalizer(e.queue[1], v, ~Flat(s)))
<1>1. TotInv(first, e, s, L) /\ Len(e.queue) = 1
  BY TotBuilt
<1>2. PICK q, x, C :
        /\ TotRecord(first, e, q, x, C, L) /\ TotShape(first, q, x, C, s)
        /\ \A m \in AssignmentsTo(first) : TotCarries(q, C, L, s, m \cup {-first}, CostOf(s, m))
  BY <1>1 DEF TotInv
<1>3. e.next = x /\ e.clauses = C
  BY <1>2 DEF TotRecord
<1>4. x \in Nat /\ first < x /\ ClausesBelow(C, x)
  BY <1>2 DEF TotShape
<1>5. C \in Clauses /\ IsFiniteSet(UNION C)
  BY <1>4 DEF ClausesBelow, Clauses, Below
<1>6. Grown(first, C, x)
  <2>1. ASSUME NEW m \in AssignmentsTo(first)
        PROVE  \E M \in SUBSET Nat : m \subseteq TrueIn(M) /\ Satisfied(M, C)
    <3> DEFINE g == m \cup {-first}
    <3>1. PICK val : Modelled(q, C, g, val)
      BY <1>2 DEF TotCarries
    <3> QED
      BY <3>1 DEF Modelled
  <2> QED
    BY <1>4, <2>1 DEF Grown
<1>7. ASSUME NEW v \in 1 .. L, IsCost(first, s, v)
      PROVE  Asks(first, s, v, C, {-first} \cup BoundWithTotalizer(e.queue[1], v, ~Flat(s)))
  <2> DEFINE tot == e.queue[1]
             B == BoundWithTotalizer(tot, v, ~Flat(s))
             D == {-first} \cup B
  <2>1. LeavesBelow(s, tot, v, B)
    BY DEF BoundWithTotalizer, LeavesBelow
  <2>2. tot = e.queue[1]
    OBVIOUS
  <2> HIDE DEF tot, B
  <2>3. ASSUME NEW m \in AssignmentsTo(first)
        PROVE  m \cup D \in SUBSET (Int \ {0}) /\ (Extends(C, m \cup D) <=> CostOf(s, m) < v)
    <3> DEFINE g == m \cup B \cup {-first}
    <3>1. CostOf(s, m) \in Nat
      <4> DEFINE val == [i \in 1 .. Cardinality(s) |->
                           IF SortedWLits(s)[i][2] \in m THEN SortedWLits(s)[i][1] ELSE 0]
      <4>1. \A i \in 1 .. Cardinality(s) :
              val[i] = IF SortedWLits(s)[i][2] \in m THEN SortedWLits(s)[i][1] ELSE 0
        OBVIOUS
      <4> HIDE DEF val
      <4> QED
        BY <4>1, CostBySorted
    <3>2. Bounding(first, s, L, e, m, v, tot, B)
      BY <1>1, <1>7, <2>1, <2>2, <3>1, Zenon DEF Bounding, IsCost
    <3>3. g = m \cup B \cup {-first}
      OBVIOUS
    <3>4. m \cup D = g
      OBVIOUS
    <3> HIDE DEF g
    <3>5. g \in SUBSET (Int \ {0}) /\ (Extends(e.clauses, g) <=> CostOf(s, m) < v)
      BY <3>2, <3>3, TotBound
    <3> QED
      BY <1>3, <3>4, <3>5
  <2>4. D \in SUBSET (Int \ {0})
    <3>1. PICK m \in AssignmentsTo(first) : v = CostOf(s, m)
      BY <1>7 DEF IsCost
    <3>2. m \cup D \in SUBSET (Int \ {0})
      BY <2>3
    <3> HIDE DEF D
    <3> QED
      BY <3>2
  <2> HIDE DEF D
  <2>5. Asks(first, s, v, C, D)
    BY <1>5, <2>3, <2>4 DEF Asks
  <2> QED
    BY <2>5 DEF D, B, tot
<1> QED
  BY <1>3, <1>4, <1>6, <1>7

\* The adder under its comparator can carry any assignment.
LEMMA AdderIsFree ==
  ASSUME NEW first \in Nat \ {0}, NEW s, NEW e0, AdderInv(first, e0, s), AdderDone(e0),
         NEW e, e = LessThanOrEqualBits(e0), NEW m \in AssignmentsTo(first),
         NEW c, c = CostOf(s, m), c < 2^kNumBitsInWeight
  PROVE  \E N \in SUBSET Nat : m \subseteq TrueIn(N) /\ Satisfied(N, e.clauses)
<1>1. PICK bk, t, x, C, o :
        /\ AdderRecord(e0, bk, t, x, C, o) /\ AdderShape(first, bk, t, x, C, o)
        /\ \A a \in AssignmentsTo(first) : AddCarries(bk, C, o, a, CostOf(s, a))
  BY DEF AdderInv
<1>2. t = kNumBitsInWeight
  BY <1>1 DEF AdderRecord, AdderDone
<1>3. AdderShape(first, bk, kNumBitsInWeight, x, C, o)
  BY <1>1, <1>2
<1>4. /\ x \in Nat \ {0} /\ first <= x /\ C \in SUBSET SUBSET Below(x)
      /\ Outputs(o, kNumBitsInWeight, x)
  BY <1>3 DEF AdderShape, ClausesBelow
<1>5. /\ Places(o) /\ Len(o) \in Nat
      /\ \A i \in 1 .. Len(o) : o[i][1] \in Below(x) /\ o[i][1] \in Int \ {0}
  BY <1>4, PlacesOfOutputs DEF Places
<1> DEFINE F == CompareClauses(o, x)
<1>6. e.clauses = C \cup F
  BY <1>1, CompareIs
<1>7. PICK M \in SUBSET Nat : /\ m \subseteq TrueIn(M) /\ Satisfied(M, C)
                              /\ Load(bk, M) + Paid(o, M) = c
  BY <1>1 DEF AddCarries
<1>8. OutputBits(o, c, M)
  BY <1>3, <1>7, AdderIsSpent
<1>9. c \in Nat /\ \A i \in 1 .. Len(o) : Bit(c, o[i][2]) = 1 <=> Holds(M, o[i][1])
  BY <1>8 DEF OutputBits, Spelled
<1>10. WithinBound(o, c, c)
  BY DEF WithinBound
<1>11. m \in SUBSET Below(x)
  <2>1. m \subseteq Below(first)
    BY AssignmentFacts
  <2>2. \A l \in Below(first) : l \in Below(x)
    BY <1>4 DEF Below
  <2> QED
    BY <2>1, <2>2
<1> DEFINE N == Continued(M, o, x, c, c)
<1>12. N = Continued(M, o, x, c, c)
  OBVIOUS
<1> HIDE DEF N, F
<1>13. Continues(M, o, x, c, c, N)
  BY <1>4, <1>5, <1>12, ContinuedFacts
<1>14. /\ N \in SUBSET Nat
       /\ \A u \in 1 .. x - 1 : u \in N <=> u \in M
       /\ BoundSet(o, x, c, N)
       /\ \A i \in 1 .. Len(o) : x + Len(o) + i - 1 \in N <=> AgreeAbove(o, c, c, i)
  BY <1>13, Zenon DEF Continues
<1>15. /\ \A l \in Below(x) : Holds(N, l) <=> Holds(M, l)
       /\ Satisfied(N, C) /\ m \subseteq TrueIn(N)
  BY <1>4, <1>7, <1>11, <1>14, SameBelow
<1>16. CompareReads(N, o, x, c, c)
  <2> SUFFICES ASSUME NEW i \in 1 .. Len(o)
               PROVE  /\ Holds(N, o[i][1]) <=> Bit(c, o[i][2]) = 1
                      /\ x + i - 1 \in N <=> Bit(c, o[i][2]) = 1
    BY DEF CompareReads
  <2>1. o[i][1] \in Below(x)
    BY <1>5
  <2>2. Holds(N, o[i][1]) <=> Holds(M, o[i][1])
    BY <1>15, <2>1
  <2> QED
    BY <1>9, <1>14, <2>2, Zenon DEF BoundSet
<1>17. Compared(N, o, x)
  BY <1>4, <1>5, <1>9, <1>10, <1>14, <1>16, WithinCompares
<1>18. Satisfied(N, F)
  BY <1>4, <1>5, <1>17, CompareSays DEF F
<1>19. Satisfied(N, C \cup F)
  BY <1>15, <1>18 DEF Satisfied
<1> QED
  BY <1>6, <1>14, <1>15, <1>19

CostsBelow(first, s, p) == \A m \in AssignmentsTo(first) : CostOf(s, m) < p

LEMMA AdderEncoded ==
  ASSUME NEW first \in Nat \ {0}, NEW s, WeightedLits(first, s),
         \A wl \in s : wl[1] < 2^kNumBitsInWeight, CostsBelow(first, s, 2^kNumBitsInWeight),
         NEW e, e = LessThanOrEqualBits(EncodeAdder(s, first))
  PROVE  /\ Grown(first, e.clauses, e.next)
         /\ \A v : v # 0 /\ IsCost(first, s, v) =>
              Asks(first, s, v, e.clauses, UpdateLEQBound(e.bound, v - 1))
<1> DEFINE e0 == EncodeAdder(s, first)
<1>1. AdderInv(first, e0, s) /\ AdderDone(e0) /\ e = LessThanOrEqualBits(e0)
  <2>1. e0 = EncodeAdder(s, first)
    OBVIOUS
  <2> HIDE DEF e0
  <2> QED
    BY <2>1, AdderBuilt
<1> HIDE DEF e0
<1>2. PICK bk, t, x, C, o : AdderRecord(e0, bk, t, x, C, o) /\ AdderShape(first, bk, t, x, C, o)
  BY <1>1 DEF AdderInv
<1>3. t = kNumBitsInWeight
  BY <1>1, <1>2 DEF AdderRecord, AdderDone
<1>4. /\ x \in Nat \ {0} /\ first <= x /\ C \in SUBSET SUBSET Below(x)
      /\ Outputs(o, kNumBitsInWeight, x) /\ o \in Seq(Int \X Nat)
  BY <1>2, <1>3 DEF AdderShape, ClausesBelow, Outputs
<1> DEFINE F == CompareClauses(o, x)
           y == x + 2 * Len(o)
           D == C \cup F
<1>5. e.clauses = D /\ e.next = y
  <2>1. e0.next = x /\ e0.output = o
    BY <1>2 DEF AdderRecord
  <2>2. e.next = y
    BY <1>1, <2>1 DEF LessThanOrEqualBits
  <2>3. e.clauses = D
    BY <1>1, <1>2, CompareIs
  <2> QED
    BY <2>2, <2>3
<1>6. y \in Nat \ {0} /\ Below(x) \subseteq Below(y) /\ F \in SUBSET SUBSET Below(y)
  BY <1>4, CompareLiterals
<1>7. first <= y
  <2>1. Len(o) \in Nat
    BY <1>4
  <2> QED
    BY <1>4, <2>1
<1> HIDE DEF F, y
<1>8. ClausesBelow(D, y)
  <2>1. D \in SUBSET SUBSET Below(y)
    BY <1>4, <1>6
  <2> HIDE DEF D
  <2> QED
    BY <1>6, <2>1, BelowFinite
<1> HIDE DEF D
<1>9. D \in Clauses /\ IsFiniteSet(UNION D)
  BY <1>8 DEF ClausesBelow, Clauses, Below
<1>10. Grown(first, D, y)
  <2>1. ASSUME NEW m \in AssignmentsTo(first)
        PROVE  \E M \in SUBSET Nat : m \subseteq TrueIn(M) /\ Satisfied(M, D)
    <3> DEFINE c == CostOf(s, m)
    <3>1. c = CostOf(s, m) /\ c < 2^kNumBitsInWeight
      BY DEF CostsBelow
    <3> HIDE DEF c
    <3> QED
      BY <1>1, <1>5, <3>1, AdderIsFree
  <2> QED
    BY <1>6, <1>7, <1>8, <2>1 DEF Grown
<1>11. ASSUME NEW v, v # 0, IsCost(first, s, v)
       PROVE  Asks(first, s, v, D, UpdateLEQBound(e.bound, v - 1))
  <2>1. PICK other \in AssignmentsTo(first) : v = CostOf(s, other)
    BY <1>11 DEF IsCost
  <2>2. v < 2^kNumBitsInWeight
    BY <2>1 DEF CostsBelow
  <2> DEFINE w == v - 1
             B == UpdateLEQBound(e.bound, w)
  <2>3. ASSUME NEW m \in AssignmentsTo(first)
        PROVE  m \cup B \in SUBSET (Int \ {0}) /\ (Extends(D, m \cup B) <=> CostOf(s, m) < v)
    <3> DEFINE c == CostOf(s, m)
               g == m \cup B
    <3>1. c = CostOf(s, m) /\ c < 2^kNumBitsInWeight /\ w = v - 1
      BY DEF CostsBelow
    <3>2. g = m \cup UpdateLEQBound(e.bound, w)
      OBVIOUS
    <3> HIDE DEF c, g, w, B
    <3>3. g \in SUBSET (Int \ {0}) /\ (Extends(e.clauses, g) <=> c < v)
      BY <1>1, <1>11, <2>1, <2>2, <3>1, <3>2, AdderBound
    <3> QED
      BY <1>5, <3>1, <3>3 DEF g
  <2>4. B \in SUBSET (Int \ {0})
    <3>1. other \cup B \in SUBSET (Int \ {0})
      BY <2>3
    <3> HIDE DEF B
    <3> QED
      BY <3>1
  <2> HIDE DEF B
  <2>5. Asks(first, s, v, D, B)
    BY <1>9, <2>3, <2>4 DEF Asks
  <2> QED
    BY <2>5 DEF B, w
<1> QED
  BY <1>5, <1>10, <1>11

LiteralsBelow(first, M) == {IF v \in M THEN v ELSE -v : v \in 1 .. first - 1}

LEMMA BelowModel ==
  ASSUME NEW first \in Nat \ {0}, NEW M, NEW a, a = LiteralsBelow(first, M)
  PROVE  /\ a \in AssignmentsTo(first) /\ a \subseteq TrueIn(M)
         /\ \A l \in Below(first) : l \in a <=> Holds(M, l)
         /\ \A N : a \subseteq TrueIn(N) => \A v \in 1 .. first - 1 : v \in N <=> v \in M
<1> DEFINE t == {v \in 1 .. first - 1 : v \in M}
<1>1. a = {IF v \in t THEN v ELSE -v : v \in 1 .. first - 1}
  BY DEF LiteralsBelow
<1>2. t \in SUBSET (1 .. first - 1)
  OBVIOUS
<1>3. a \in AssignmentsTo(first)
  <2> HIDE DEF t
  <2> QED
    BY <1>1, <1>2 DEF AssignmentsTo
<1>4. \A v \in 1 .. first - 1 : (IF v \in M THEN v ELSE -v) \in a
  BY DEF LiteralsBelow
<1>5. ASSUME NEW l \in a PROVE l \in Below(first) /\ Holds(M, l)
  <2>1. PICK v \in 1 .. first - 1 : l = IF v \in M THEN v ELSE -v
    BY DEF LiteralsBelow
  <2> QED
    BY <2>1 DEF Below, Holds
<1>6. ASSUME NEW l \in Below(first), Holds(M, l) PROVE l \in a
  <2>1. CASE l > 0
    <3>1. l \in 1 .. first - 1 /\ l \in M
      BY <1>6, <2>1 DEF Below, Holds
    <3> QED
      BY <1>4, <3>1
  <2>2. CASE l < 0
    <3>1. -l \in 1 .. first - 1 /\ -(-l) = l /\ -l \notin M
      BY <1>6, <2>2 DEF Below, Holds
    <3> QED
      BY <1>4, <3>1
  <2> QED
    BY <2>1, <2>2 DEF Below
<1>7. a \subseteq TrueIn(M)
  BY <1>5 DEF TrueIn, Below
<1>8. ASSUME NEW N, a \subseteq TrueIn(N), NEW v \in 1 .. first - 1 PROVE v \in N <=> v \in M
  <2>1. (IF v \in M THEN v ELSE -v) \in TrueIn(N)
    BY <1>4, <1>8
  <2>2. CASE v \in M
    BY <2>1, <2>2 DEF TrueIn, Holds
  <2>3. CASE v \notin M
    <3>1. -v \in TrueIn(N) /\ -(-v) = v /\ ~(-v > 0)
      BY <2>1, <2>3
    <3> QED
      BY <2>3, <3>1 DEF TrueIn, Holds
  <2> QED
    BY <2>2, <2>3
<1> QED
  BY <1>3, <1>5, <1>6, <1>7, <1>8

\* What is given says of every soft literal whether it holds.
Settles(first, s, given) ==
  \A wl \in s : wl[2] \in Below(first) /\ (wl[2] \in given \/ -wl[2] \in given)

LEMMA SettledCost ==
  ASSUME NEW first \in Nat \ {0}, NEW s, NEW given, Settles(first, s, given), NEW M,
         given \subseteq TrueIn(M), NEW a, a = LiteralsBelow(first, M)
  PROVE  CostOf(s, a) = CostOf(s, given)
<1>1. ASSUME NEW wl \in s PROVE wl[2] \in a <=> wl[2] \in given
  <2> DEFINE l == wl[2]
  <2>1. l \in Below(first) /\ (l \in given \/ -l \in given) /\ l \in Int \ {0}
    BY DEF Settles, Below
  <2>2. l \in a <=> Holds(M, l)
    BY <2>1, BelowModel
  <2> HIDE DEF l
  <2>3. l \in given => Holds(M, l)
    BY DEF TrueIn
  <2>4. -l \in given => ~Holds(M, l)
    <3>1. -l \in given => Holds(M, -l)
      BY DEF TrueIn
    <3> QED
      BY <2>1, <3>1, HoldsNeg
  <2>5. l \in a <=> l \in given
    BY <2>1, <2>2, <2>3, <2>4
  <2> QED
    BY <2>5 DEF l
<1>2. [wl \in s |-> IF wl[2] \in a THEN wl[1] ELSE 0]
        = [wl \in s |-> IF wl[2] \in given THEN wl[1] ELSE 0]
  BY <1>1
<1> QED
  BY <1>2 DEF CostOf

\* A model of the bounded encoding costs less than v.
LEMMA AsksSound ==
  ASSUME NEW first \in Nat \ {0}, NEW s, NEW v, NEW C, NEW B, Asks(first, s, v, C, B),
         NEW given, given \in SUBSET (Int \ {0}), Settles(first, s, given),
         Extends(C, given \cup B)
  PROVE  CostOf(s, given) < v
<1>1. /\ C \in Clauses /\ IsFiniteSet(UNION C) /\ B \in SUBSET (Int \ {0})
      /\ \A m \in AssignmentsTo(first) : Extends(C, m \cup B) <=> CostOf(s, m) < v
  BY DEF Asks
<1> DEFINE g == given \cup B
<1>2. g \in SUBSET (Int \ {0}) /\ Extends(C, g)
  BY <1>1
<1> HIDE DEF g
<1>3. PICK M \in SUBSET Nat : g \subseteq TrueIn(M) /\ Satisfied(M, C)
  BY <1>1, <1>2, ExtendsIsSatisfiable
<1> DEFINE a == LiteralsBelow(first, M)
<1>4. a = LiteralsBelow(first, M)
  OBVIOUS
<1> HIDE DEF a
<1>5. a \in AssignmentsTo(first) /\ a \subseteq TrueIn(M)
  BY <1>4, BelowModel
<1> DEFINE h == a \cup B
<1>6. h \subseteq TrueIn(M) /\ h \in SUBSET (Int \ {0})
  BY <1>1, <1>3, <1>5 DEF TrueIn, g
<1>7. h = a \cup B
  OBVIOUS
<1> HIDE DEF h
<1>8. Extends(C, h)
  BY <1>1, <1>3, <1>6, ExtendsIsSatisfiable
<1>9. CostOf(s, a) < v
  BY <1>1, <1>5, <1>7, <1>8
<1>10. given \subseteq TrueIn(M)
  BY <1>3 DEF g
<1>11. CostOf(s, a) = CostOf(s, given)
  <2>1. Settles(first, s, given)
    OBVIOUS
  <2> HIDE DEF h
  <2> QED
    BY ONLY <1>4, <1>10, <2>1, first \in Nat \ {0}, SettledCost
<1> QED
  BY <1>9, <1>11

\* What is given and costs less than v has a model, whatever else is to hold
\* below the encoding.
LEMMA AsksComplete ==
  ASSUME NEW first \in Nat \ {0}, NEW s, NEW v, NEW C, NEW B, Asks(first, s, v, C, B),
         NEW given \in SUBSET Below(first), Settles(first, s, given), CostOf(s, given) < v,
         NEW M, given \subseteq TrueIn(M)
  PROVE  \E N \in SUBSET Nat : /\ given \cup B \subseteq TrueIn(N) /\ Satisfied(N, C)
                               /\ \A u \in 1 .. first - 1 : u \in N <=> u \in M
<1>1. /\ C \in Clauses /\ IsFiniteSet(UNION C) /\ B \in SUBSET (Int \ {0})
      /\ \A m \in AssignmentsTo(first) : Extends(C, m \cup B) <=> CostOf(s, m) < v
  BY DEF Asks
<1> DEFINE a == LiteralsBelow(first, M)
<1>2. a = LiteralsBelow(first, M)
  OBVIOUS
<1> HIDE DEF a
<1>3. /\ a \in AssignmentsTo(first) /\ a \subseteq TrueIn(M)
      /\ \A l \in Below(first) : l \in a <=> Holds(M, l)
      /\ \A N : a \subseteq TrueIn(N) => \A u \in 1 .. first - 1 : u \in N <=> u \in M
  BY <1>2, BelowModel
<1>4. CostOf(s, a) < v
  BY <1>2, SettledCost
<1> DEFINE g == a \cup B
<1>5. Extends(C, g)
  BY <1>1, <1>3, <1>4
<1>6. g \in SUBSET (Int \ {0})
  BY <1>1, <1>3 DEF TrueIn
<1>7. a \subseteq g /\ B \subseteq g
  OBVIOUS
<1> HIDE DEF g
<1>8. PICK N \in SUBSET Nat : g \subseteq TrueIn(N) /\ Satisfied(N, C)
  BY <1>1, <1>5, <1>6, ExtendsIsSatisfiable
<1>9. given \subseteq a
  BY <1>3 DEF TrueIn
<1> QED
  BY <1>3, <1>7, <1>8, <1>9

\* So clauses below the encoding that M satisfies hold beside the bound.
LEMMA AsksBeside ==
  ASSUME NEW first \in Nat \ {0}, NEW s, NEW v, NEW C, NEW B, Asks(first, s, v, C, B),
         NEW given \in SUBSET Below(first), Settles(first, s, given), CostOf(s, given) < v,
         NEW M, given \subseteq TrueIn(M), NEW D, D = C \/ (ClausesBelow(D, first) /\ Satisfied(M, D))
  PROVE  Extends(D, given \cup B)
<1>1. PICK N \in SUBSET Nat : /\ given \cup B \subseteq TrueIn(N) /\ Satisfied(N, C)
                              /\ \A u \in 1 .. first - 1 : u \in N <=> u \in M
  BY AsksComplete
<1>2. C \in Clauses /\ IsFiniteSet(UNION C) /\ B \in SUBSET (Int \ {0})
  BY DEF Asks
<1>3. D \in Clauses /\ IsFiniteSet(UNION D) /\ Satisfied(N, D)
  <2>1. CASE D = C
    BY <1>1, <1>2, <2>1
  <2>2. CASE ClausesBelow(D, first) /\ Satisfied(M, D)
    <3>1. D \in SUBSET SUBSET Below(first) /\ IsFiniteSet(UNION D)
      BY <2>2 DEF ClausesBelow
    <3>2. D \in Clauses
      BY <3>1 DEF Clauses, Below
    <3>3. first \in Nat
      OBVIOUS
    <3>4. \A E \in SUBSET SUBSET Below(first) : Satisfied(M, E) => Satisfied(N, E)
      BY <1>1, <3>3, SameBelow
    <3> QED
      BY <2>2, <3>1, <3>2, <3>4
  <2> QED
    BY <2>1, <2>2
<1> DEFINE g == given \cup B
<1>4. g \in SUBSET (Int \ {0}) /\ g \subseteq TrueIn(N)
  BY <1>1, <1>2 DEF Below
<1> HIDE DEF g
<1>5. Extends(D, g)
  BY <1>1, <1>3, <1>4, ExtendsIsSatisfiable
<1> QED
  BY <1>5 DEF g

-----------------------------------------------------------------------------
(***************************************************************************)
(* The objective of the client is the cost the encoders know.              *)
(***************************************************************************)
\* Every soft literal has one weight.
SoftOnce ==
  /\ soft_lits_ \in Seq(Weight \X Lit)
  /\ \A i, j \in DOMAIN soft_lits_ : soft_lits_[i][2] = soft_lits_[j][2] => i = j

LEMMA LitFacts == Var \subseteq Nat \ {0} /\ Lit \subseteq Int \ {0} /\ \A l \in Lit : VarOf(l) \in Var
<1>1. Var \subseteq Nat \ {0}
  BY VarAssumption
<1>2. ASSUME NEW l \in Lit PROVE l \in Int \ {0} /\ VarOf(l) \in Var
  <2>1. CASE l \in Var
    BY <1>1, <2>1 DEF VarOf
  <2>2. CASE l \notin Var
    <3>1. PICK v \in Var : l = -v
      BY <2>2 DEF Lit
    <3>2. v \in Nat \ {0}
      BY <1>1
    <3>3. l \in Int \ {0} /\ ~(l > 0) /\ -l = v
      BY <3>1, <3>2
    <3> QED
      BY <3>3 DEF VarOf
  <2> QED
    BY <2>1, <2>2
<1> QED
  BY <1>1, <1>2

LEMMA FiniteRange ==
  ASSUME NEW f, IsFiniteSet(DOMAIN f)
  PROVE  IsFiniteSet({f[x] : x \in DOMAIN f})
<1> DEFINE S == DOMAIN f
           T == {f[x] : x \in S}
           g == [x \in S |-> f[x]]
<1>1. g \in Surjection(S, T)
  BY DEF Surjection
<1> HIDE DEF S, T, g
<1>2. IsFiniteSet(S) => IsFiniteSet(T)
  BY <1>1, FS_Surjection
<1> QED
  BY <1>2 DEF S, T

LEMMA WLitsFacts ==
  ASSUME SoftOnce
  PROVE  /\ WLits \subseteq Weight \X Lit /\ IsFiniteSet(WLits)
         /\ SoftLits(soft_lits_) = {wl[2] : wl \in WLits}
         /\ \A a, b \in WLits : a[2] = b[2] => a = b
         /\ \A wl \in WLits : WeightIn(soft_lits_, wl[2]) = wl[1]
<1> DEFINE s == soft_lits_
<1>1. s \in Seq(Weight \X Lit) /\ DOMAIN s = 1 .. Len(s) /\ Len(s) \in Nat
  BY DEF SoftOnce
<1>2. WLits = {s[i] : i \in DOMAIN s} /\ SoftLits(s) = {s[i][2] : i \in DOMAIN s}
  BY DEF WLits, ToSet, SoftLits
<1>3. \A i \in DOMAIN s : s[i] \in Weight \X Lit
  BY <1>1
<1>4. \A i, j \in DOMAIN s : s[i][2] = s[j][2] => i = j
  BY DEF SoftOnce
<1>5. \A l : WeightIn(s, l) = s[CHOOSE i \in DOMAIN s : s[i][2] = l][1]
  BY DEF WeightIn
<1>6. IsFiniteSet(DOMAIN s)
  BY <1>1, FS_Interval
<1> HIDE DEF s
<1>7. IsFiniteSet(WLits)
  BY <1>2, <1>6, FiniteRange
<1>8. SoftLits(s) = {wl[2] : wl \in WLits}
  BY <1>2
<1>9. \A a, b \in WLits : a[2] = b[2] => a = b
  BY <1>2, <1>4
<1>10. ASSUME NEW wl \in WLits PROVE WeightIn(s, wl[2]) = wl[1]
  <2>1. PICK i \in DOMAIN s : wl = s[i]
    BY <1>2
  <2> DEFINE j == CHOOSE k \in DOMAIN s : s[k][2] = wl[2]
  <2>2. j \in DOMAIN s /\ s[j][2] = wl[2]
    BY <2>1
  <2>3. WeightIn(s, wl[2]) = s[j][1]
    BY <1>5
  <2> HIDE DEF j
  <2>4. j = i
    BY <1>4, <2>1, <2>2
  <2> QED
    BY <2>1, <2>3, <2>4
<1>11. WLits \subseteq Weight \X Lit
  BY <1>2, <1>3
<1> QED
  BY <1>7, <1>8, <1>9, <1>10, <1>11 DEF s

\* What an assignment costs, by the literals that say what the soft ones are.
LEMMA CostByLiterals ==
  ASSUME SoftOnce, NEW m, NEW g, \A wl \in WLits : wl[2] \in g <=> Holds(m, wl[2])
  PROVE  /\ WeightedCost(m) = CostOf(WLits, g) /\ CostOf(WLits, g) \in Nat
         /\ \A wl \in WLits : wl[2] \in g => wl[1] <= CostOf(WLits, g)
         /\ WLits = {} => CostOf(WLits, g) = 0
<1> DEFINE S == WLits
           U == {wl \in S : wl[2] \in g}
           F == [wl \in S |-> IF wl[2] \in g THEN wl[1] ELSE 0]
           L == {l \in SoftLits(soft_lits_) : Holds(m, l)}
           r == [l \in L |-> WeightIn(soft_lits_, l)]
           b == [wl \in U |-> wl[2]]
<1>1. /\ S \subseteq Weight \X Lit /\ IsFiniteSet(S)
      /\ SoftLits(soft_lits_) = {wl[2] : wl \in S}
      /\ \A x, y \in S : x[2] = y[2] => x = y
      /\ \A wl \in S : WeightIn(soft_lits_, wl[2]) = wl[1]
  BY WLitsFacts
<1>2. WeightedCost(m) = TotalWeight(r)
  <2>1. DOMAIN SoftWeights = SoftLits(soft_lits_)
    BY DEF SoftWeights
  <2>2. Restrict(SoftWeights, L) = r
    BY DEF SoftWeights, Restrict
  <2> QED
    BY <2>1, <2>2 DEF WeightedCost, Cost
<1>3. CostOf(S, g) = SumFunctionOnSet(F, S)
  BY DEF CostOf, SumFunction
<1>4. U \in SUBSET S /\ L = {wl[2] : wl \in U}
  BY <1>1
<1>5. \A wl \in S : wl[1] \in Nat /\ F[wl] \in Nat
  BY <1>1, WeightAssumption
<1>6. \A wl \in U : F[wl] = wl[1]
  OBVIOUS
<1>7. \A wl \in S \ U : F[wl] = 0
  OBVIOUS
<1>8. b \in [U -> L] /\ \A wl \in U : b[wl] = wl[2]
  BY <1>4
<1>9. DOMAIN r = L /\ \A wl \in U : r[b[wl]] = wl[1]
  BY <1>1, <1>4
<1>10. S = {} => U = {}
  OBVIOUS
<1>11. \A wl \in S : wl[2] \in g => wl \in U
  OBVIOUS
<1> HIDE DEF S, U, F, L, r, b
<1>12. IsFiniteSet(U)
  BY <1>1, <1>4, FS_Subset
<1>13. IsFiniteSet(L)
  <2>1. L \subseteq Lit
    BY <1>1, <1>4
  <2> QED
    BY <2>1, LitFinite, FS_Subset
<1>14. \A l \in L : \E wl \in U : b[wl] = l
  BY <1>4, <1>8
<1>15. \A l \in L : r[l] \in Nat
  <2> TAKE l \in L
  <2>1. PICK wl \in U : b[wl] = l
    BY <1>14
  <2>2. r[b[wl]] = wl[1] /\ wl[1] \in Nat
    BY <1>4, <1>5, <1>9
  <2> QED
    BY <2>1, <2>2
<1>16. Integral(F, S) /\ Integral(r, L)
  BY <1>1, <1>5, <1>13, <1>15 DEF Integral
<1>17. \A x, y \in U : b[x] = b[y] => x = y
  BY <1>1, <1>4, <1>8
<1>18. \A x \in U : F[x] = r[b[x]]
  BY <1>6, <1>9
<1>19. SumFunctionOnSet(F, S) = SumFunctionOnSet(F, U)
  BY <1>4, <1>7, <1>16, SumSupport
<1>20. SumFunctionOnSet(F, U) = SumFunctionOnSet(r, L)
  BY <1>8, <1>12, <1>14, <1>16, <1>17, <1>18, SumRename
<1>21. TotalWeight(r) = SumFunctionOnSet(r, L)
  BY <1>9, <1>13, <1>15, TotalWeightIsSum
<1>22. CostOf(S, g) \in Nat /\ \A wl \in S : F[wl] <= CostOf(S, g)
  BY <1>1, <1>3, <1>5, SumNat
<1>23. \A wl \in S : wl[2] \in g => wl[1] <= CostOf(S, g)
  BY <1>4, <1>6, <1>11, <1>22
<1>24. S = {} => CostOf(S, g) = 0
  BY <1>3, SumEmpty
<1> QED
  BY <1>2, <1>3, <1>19, <1>20, <1>21, <1>22, <1>23, <1>24 DEF S

-----------------------------------------------------------------------------
(***************************************************************************)
(* A solve of Aperture, as the steps of LSU see it.                        *)
(***************************************************************************)
\* The objective's width is enough when LSU encodes it, and no weight is 0.
CostsFit ==
  pc = "encode" => /\ \A wl \in WLits : wl[1] # 0
                   /\ \A m \in SUBSET Var : WeightedCost(m) < Unknown

\* The variables of the soft literals exist.
SoftExist == \A l \in SoftLits(soft_lits_) : VarOf(l) \in 1 .. maxVar

\* The assumptions by which LSU asks for less than v.
BoundOn(l, v, weighted) ==
  IF l.kind = "totalizer"
  THEN {-l.selector} \cup BoundWithTotalizer(l.out, v, weighted)
  ELSE UpdateLEQBound(l.out, v - 1)

\* An encoding whose variables start at F bounds the objective for any v up to L.
Encodes(F, C, s, l, L) ==
  /\ F \in Nat \ {0} /\ WeightedLits(F, s)
  /\ \A v \in 1 .. L : IsCost(F, s, v) => Asks(F, s, v, C, BoundOn(l, v, ~Flat(s)))

LEMMA LatestSettles ==
  ASSUME SoftOnce, NEW F \in Nat \ {0}, WeightedLits(F, WLits),
         NEW m \in SUBSET Created, \A wl \in WLits : VarOf(wl[2]) \in Created
  PROVE  /\ LiteralsOf(m) \in SUBSET (Int \ {0})
         /\ \A M : (\A v \in Created : v \in M <=> v \in m) => LiteralsOf(m) \subseteq TrueIn(M)
         /\ Settles(F, WLits, LiteralsOf(m))
         /\ WeightedCost(m) = CostOf(WLits, LiteralsOf(m)) /\ WeightedCost(m) \in Nat
         /\ \E M \in SUBSET Nat : LiteralsOf(m) \subseteq TrueIn(M)
         /\ IsCost(F, WLits, WeightedCost(m))
<1> DEFINE g == LiteralsOf(m)
<1>1. Created \subseteq Nat \ {0} /\ m \subseteq Created
  BY LitFacts DEF Created
<1>2. g = m \cup {-v : v \in Created \ m}
  BY DEF LiteralsOf
<1>3. ASSUME NEW l \in g PROVE l \in Int \ {0} /\ Holds(m, l) /\ VarOf(l) \in Created
  <2>1. CASE l \in m
    BY <1>1, <2>1 DEF Holds, VarOf
  <2>2. CASE l \notin m
    <3>1. PICK v \in Created \ m : l = -v
      BY <1>2, <2>2
    <3>2. v \in Nat \ {0}
      BY <1>1
    <3>3. l \in Int \ {0} /\ ~(l > 0) /\ -l = v
      BY <3>1, <3>2
    <3> QED
      BY <3>1, <3>3 DEF Holds, VarOf
  <2> QED
    BY <2>1, <2>2
<1>4. ASSUME NEW wl \in WLits
      PROVE  /\ wl[2] \in Int \ {0} /\ (wl[2] \in g <=> Holds(m, wl[2]))
             /\ (wl[2] \in g \/ -wl[2] \in g)
  <2> DEFINE l == wl[2]
  <2>1. l \in Int \ {0} /\ VarOf(l) \in Created
    BY WLitsFacts, LitFacts
  <2> HIDE DEF l
  <2>2. l \in g => Holds(m, l)
    BY <1>3
  <2>3. (l \in g <=> Holds(m, l)) /\ (l \in g \/ -l \in g)
    <3>1. CASE l > 0
      <4>1. l \in Created
        BY <2>1, <3>1 DEF VarOf
      <4>2. CASE l \in m
        BY <1>2, <3>1, <4>2 DEF Holds
      <4>3. CASE l \notin m
        BY <1>2, <2>2, <3>1, <4>1, <4>3 DEF Holds
      <4> QED
        BY <4>2, <4>3
    <3>2. CASE ~(l > 0)
      <4>1. -l \in Created /\ -(-l) = l
        BY <2>1, <3>2 DEF VarOf
      <4>2. CASE -l \in m
        BY <1>2, <2>2, <3>2, <4>2 DEF Holds
      <4>3. CASE -l \notin m
        <5>1. -(-l) \in g
          BY <1>2, <4>1, <4>3
        <5> QED
          BY <3>2, <4>1, <4>3, <5>1 DEF Holds
      <4> QED
        BY <4>2, <4>3
    <3> QED
      BY <3>1, <3>2
  <2> QED
    BY <2>1, <2>3 DEF l
<1>5. g \in SUBSET (Int \ {0})
  BY <1>3
<1>6. Settles(F, WLits, g)
  BY <1>4 DEF Settles, WeightedLits
<1>7. ASSUME NEW M, \A v \in Created : v \in M <=> v \in m PROVE g \subseteq TrueIn(M)
  <2> SUFFICES ASSUME NEW l \in g PROVE l \in TrueIn(M)
    OBVIOUS
  <2>1. l \in Int \ {0} /\ Holds(m, l) /\ VarOf(l) \in Created
    BY <1>3
  <2>2. Holds(M, l)
    BY <1>7, <2>1 DEF Holds, VarOf
  <2> QED
    BY <2>1, <2>2 DEF TrueIn
<1> HIDE DEF g
<1>8. WeightedCost(m) = CostOf(WLits, g) /\ WeightedCost(m) \in Nat
  BY <1>4, CostByLiterals
<1>9. m \in SUBSET Nat /\ g \subseteq TrueIn(m)
  BY <1>1, <1>7
<1> DEFINE a == LiteralsBelow(F, m)
<1>10. a = LiteralsBelow(F, m)
  OBVIOUS
<1> HIDE DEF a
<1>11. a \in AssignmentsTo(F)
  BY <1>10, BelowModel
<1>12. CostOf(WLits, a) = CostOf(WLits, g)
  BY ONLY <1>6, <1>9, <1>10, F \in Nat \ {0}, SettledCost
<1>13. IsCost(F, WLits, WeightedCost(m))
  BY <1>8, <1>11, <1>12 DEF IsCost
<1> QED
  BY <1>5, <1>6, <1>7, <1>8, <1>9, <1>13 DEF g

\* An encoding of this solve bounds the objective; the clauses of the others
\* are about variables that were there before.
LsuReady(F, C) ==
  /\ C \in encodings /\ F <= maxVar + 1
  /\ Encodes(F, C, WLits, lsu, latest_value)
  /\ \A D \in encodings \ {C} : ClausesBelow(D, F)

\* The inductive invariant.
Shape ==
  /\ SoftOnce
  /\ maxVar \in Nat
  /\ \A C \in encodings : ClausesBelow(C, maxVar + 1)
  /\ pc \notin {"idle", "check"} => SoftExist

Incumbent ==
  HasSolution => /\ Latest \subseteq Created
                 /\ IsSolution(Latest) /\ WeightedCost(Latest) = latest_value

LsuInv ==
  /\ pc \in {"encode", "lsu"} => latest_value # 0
  /\ pc = "lsu" => \E F, C : LsuReady(F, C)

ApertureInv == Shape /\ Incumbent /\ LsuInv

LEMMA SoftBelow ==
  ASSUME SoftOnce, maxVar \in Nat, SoftExist
  PROVE  /\ \A wl \in WLits : VarOf(wl[2]) \in Created /\ wl[2] \in Below(maxVar + 1)
         /\ (\A wl \in WLits : wl[1] # 0) => WeightedLits(maxVar + 1, WLits)
<1>1. ASSUME NEW wl \in WLits PROVE VarOf(wl[2]) \in Created /\ wl[2] \in Below(maxVar + 1)
  <2> DEFINE l == wl[2]
  <2>1. l \in Lit /\ l \in SoftLits(soft_lits_)
    BY WLitsFacts
  <2> HIDE DEF l
  <2>2. l \in Int \ {0} /\ VarOf(l) \in Var /\ VarOf(l) \in 1 .. maxVar
    BY <2>1, LitFacts DEF SoftExist
  <2>3. VarOf(l) \in Created /\ l \in Below(maxVar + 1)
    BY <2>2 DEF Created, Below, VarOf
  <2> QED
    BY <2>3 DEF l
<1>2. ASSUME \A wl \in WLits : wl[1] # 0 PROVE WeightedLits(maxVar + 1, WLits)
  <2>1. WLits \subseteq (Nat \ {0}) \X Below(maxVar + 1)
    BY <1>1, <1>2, WLitsFacts, WeightAssumption
  <2> QED
    BY <2>1, WLitsFacts DEF WeightedLits
<1> QED
  BY <1>1, <1>2

\* When LSU starts to encode, the encoders get what they need.
LEMMA ObjectiveReady ==
  ASSUME ApertureInv, CostsFit, pc = "encode", NEW F, F = maxVar + 1
  PROVE  /\ F \in Nat \ {0} /\ WeightedLits(F, WLits)
         /\ WLits # {} /\ latest_value \in Nat \ {0}
         /\ \A wl \in WLits : wl[1] < 2^kNumBitsInWeight
         /\ CostsBelow(F, WLits, 2^kNumBitsInWeight)
<1>1. SoftOnce /\ maxVar \in Nat /\ SoftExist
  BY DEF ApertureInv, Shape
<1>2. /\ \A wl \in WLits : wl[1] # 0
      /\ \A m \in SUBSET Var : WeightedCost(m) < 2^kNumBitsInWeight
  BY DEF CostsFit, Unknown
<1>3. F \in Nat \ {0} /\ WeightedLits(F, WLits)
  BY <1>1, <1>2, SoftBelow
<1>4. Latest \subseteq Created /\ WeightedCost(Latest) = latest_value /\ latest_value # 0
  BY DEF ApertureInv, Incumbent, LsuInv, HasSolution
<1>5. \A wl \in WLits : VarOf(wl[2]) \in Created /\ wl[2] \in Int \ {0}
  BY <1>1, SoftBelow DEF Below
<1> DEFINE LitsOf(m) == {l \in Int \ {0} : Holds(m, l)}
<1>6. \A m : \A wl \in WLits : wl[2] \in LitsOf(m) <=> Holds(m, wl[2])
  BY <1>5
<1> HIDE DEF LitsOf
<1>7. latest_value \in Nat /\ WLits # {}
  <2>1. WeightedCost(Latest) = CostOf(WLits, LitsOf(Latest))
        /\ CostOf(WLits, LitsOf(Latest)) \in Nat
        /\ (WLits = {} => CostOf(WLits, LitsOf(Latest)) = 0)
    BY <1>1, <1>6, CostByLiterals
  <2> QED
    BY <1>4, <2>1
<1>8. ASSUME NEW a \in AssignmentsTo(F)
      PROVE  /\ CostOf(WLits, a) < 2^kNumBitsInWeight
             /\ \A wl \in WLits : wl[2] \in a => wl[1] <= CostOf(WLits, a)
             /\ CostOf(WLits, a) \in Nat
  <2>1. PICK t \in SUBSET (1 .. F - 1) : a = {IF v \in t THEN v ELSE -v : v \in 1 .. F - 1}
    BY DEF AssignmentsTo
  <2> DEFINE m == t \cap Var
  <2>2. a = LiteralsBelow(F, t)
    BY <2>1 DEF LiteralsBelow
  <2>3. \A l \in Below(F) : l \in a <=> Holds(t, l)
    BY <1>3, <2>2, BelowModel
  <2>4. ASSUME NEW wl \in WLits PROVE wl[2] \in a <=> Holds(m, wl[2])
    <3> DEFINE l == wl[2]
    <3>1. l \in Below(F) /\ VarOf(l) \in Var /\ l \in Int \ {0}
      BY <1>1, SoftBelow DEF Created, Below
    <3> HIDE DEF l
    <3>2. Holds(t, l) <=> Holds(m, l)
      BY <3>1 DEF Holds, VarOf
    <3>3. l \in a <=> Holds(m, l)
      BY <2>3, <3>1, <3>2
    <3> QED
      BY <3>3 DEF l
  <2>5. m \in SUBSET Var
    OBVIOUS
  <2> HIDE DEF m
  <2>6. /\ WeightedCost(m) = CostOf(WLits, a) /\ CostOf(WLits, a) \in Nat
        /\ \A wl \in WLits : wl[2] \in a => wl[1] <= CostOf(WLits, a)
    BY <1>1, <2>4, CostByLiterals
  <2> QED
    BY <1>2, <2>5, <2>6
<1>9. CostsBelow(F, WLits, 2^kNumBitsInWeight)
  BY <1>8 DEF CostsBelow
<1>10. ASSUME NEW wl \in WLits PROVE wl[1] < 2^kNumBitsInWeight
  <2> DEFINE l == wl[2]
             a == LiteralsBelow(F, {v \in Nat : l > 0})
             M == {v \in Nat : l > 0}
  <2>1. l \in Below(F) /\ l \in Int \ {0} /\ wl[1] \in Nat
    BY <1>1, SoftBelow, WLitsFacts, WeightAssumption DEF Below
  <2>2. Holds(M, l)
    BY <2>1 DEF Holds
  <2>3. a = LiteralsBelow(F, M)
    OBVIOUS
  <2> HIDE DEF a, M, l
  <2>4. a \in AssignmentsTo(F) /\ l \in a
    BY <1>3, <2>1, <2>2, <2>3, BelowModel
  <2>5. wl[1] <= CostOf(WLits, a) /\ CostOf(WLits, a) < 2^kNumBitsInWeight
        /\ CostOf(WLits, a) \in Nat
    BY <1>8, <2>4 DEF l
  <2>6. 2^kNumBitsInWeight \in Nat
    BY PowerOfTwo, WidthAssumption
  <2> DEFINE p == 2^kNumBitsInWeight
             c == CostOf(WLits, a)
             w == wl[1]
  <2>7. w <= c /\ c < p /\ w \in Nat /\ c \in Nat /\ p \in Nat
    BY <2>1, <2>5, <2>6
  <2> HIDE DEF p, c, w
  <2>8. w < p
    BY <2>7
  <2> QED
    BY <2>8 DEF w, p
<1> QED
  BY <1>3, <1>4, <1>7, <1>9, <1>10

LEMMA BelowGrows ==
  ASSUME NEW x \in Nat, NEW y \in Nat, x <= y, NEW C, ClausesBelow(C, x)
  PROVE  ClausesBelow(C, y)
<1>1. Below(x) \subseteq Below(y)
  BY DEF Below
<1> QED
  BY <1>1 DEF ClausesBelow

\* What LSU has encoded when it is done with it.
Encoded(F, C) ==
  /\ encodings' = encodings \cup {C} /\ maxVar' \in Int
  /\ Grown(F, C, maxVar' + 1)
  /\ Encodes(F, C, WLits, lsu', latest_value)

LEMMA NoFewer ==
  ASSUME NEW a \in Nat, NEW b \in Int, a + 1 <= b + 1
  PROVE  b \in Nat /\ a <= b /\ a + 1 \in Nat /\ b + 1 \in Nat
  OBVIOUS

LEMMA TotalizerReady ==
  ASSUME ApertureInv, CostsFit, EncodeTotalizer, NEW F, F = maxVar + 1
  PROVE  \E C : Encoded(F, C)
<1>1. /\ pc = "encode" /\ F \in Nat \ {0} /\ WeightedLits(F, WLits)
      /\ WLits # {} /\ latest_value \in Nat \ {0} /\ maxVar \in Nat
  BY ObjectiveReady DEF EncodeTotalizer, ApertureInv, Shape
<1>2. PICK e : /\ e = EncodeGenTotalizer(WLits, F + 1, F, latest_value - 1)
               /\ encodings' = encodings \cup {e.clauses}
               /\ maxVar' = e.next - 1
               /\ lsu' = [kind |-> "totalizer", selector |-> F, out |-> e.queue[1]]
  BY DEF EncodeTotalizer
<1> DEFINE L == latest_value
           s == WLits
           l == lsu'
<1>3. e = EncodeGenTotalizer(s, F + 1, F, L - 1) /\ L \in Nat \ {0} /\ WeightedLits(F, s) /\ s # {}
  BY <1>1, <1>2
<1>4. l.kind = "totalizer" /\ l.selector = F /\ l.out = e.queue[1]
  BY <1>2
<1> HIDE DEF L, s, l
<1>5. /\ Grown(F, e.clauses, e.next)
      /\ \A v \in 1 .. L : IsCost(F, s, v) =>
           Asks(F, s, v, e.clauses, {-F} \cup BoundWithTotalizer(e.queue[1], v, ~Flat(s)))
  BY ONLY <1>3, <1>1, TotalizerEncoded
<1>6. \A v : BoundOn(l, v, ~Flat(s))
               = {-F} \cup BoundWithTotalizer(e.queue[1], v, ~Flat(s))
  BY <1>4 DEF BoundOn
<1>7. Encodes(F, e.clauses, s, l, L)
  BY <1>1, <1>3, <1>5, <1>6 DEF Encodes
<1>8. maxVar' + 1 = e.next /\ maxVar' \in Int
  BY <1>2, <1>5 DEF Grown
<1> QED
  BY <1>2, <1>5, <1>7, <1>8 DEF Encoded, Grown, L, s, l

LEMMA ComparatorReady ==
  ASSUME ApertureInv, CostsFit, EncodeComparator, NEW F, F = maxVar + 1
  PROVE  \E C : Encoded(F, C)
<1>1. /\ pc = "encode" /\ F \in Nat \ {0} /\ WeightedLits(F, WLits) /\ maxVar \in Nat
      /\ \A wl \in WLits : wl[1] < 2^kNumBitsInWeight
      /\ CostsBelow(F, WLits, 2^kNumBitsInWeight)
  BY ObjectiveReady DEF EncodeComparator, ApertureInv, Shape
<1>2. PICK e : /\ e = Step(LessThanOrEqualBits, EncodeAdder(WLits, F))
               /\ encodings' = encodings \cup {e.clauses}
               /\ maxVar' = e.next - 1
               /\ lsu' = [kind |-> "adder", out |-> e.bound]
  BY DEF EncodeComparator
<1> DEFINE L == latest_value
           s == WLits
           l == lsu'
<1>3. e = LessThanOrEqualBits(EncodeAdder(s, F))
  BY <1>2 DEF Step
<1>4. l.kind = "adder" /\ l.out = e.bound
  BY <1>2
<1>5. WeightedLits(F, s) /\ (\A wl \in s : wl[1] < 2^kNumBitsInWeight)
      /\ CostsBelow(F, s, 2^kNumBitsInWeight)
  BY <1>1
<1> HIDE DEF L, s, l
<1>6. /\ Grown(F, e.clauses, e.next)
      /\ \A v : v # 0 /\ IsCost(F, s, v) =>
           Asks(F, s, v, e.clauses, UpdateLEQBound(e.bound, v - 1))
  BY ONLY <1>3, <1>5, <1>1, AdderEncoded
<1>7. \A v : BoundOn(l, v, ~Flat(s)) = UpdateLEQBound(e.bound, v - 1)
  BY <1>4 DEF BoundOn
<1>8. \A v \in 1 .. L : v # 0
  OBVIOUS
<1>9. Encodes(F, e.clauses, s, l, L)
  BY <1>1, <1>5, <1>6, <1>7, <1>8 DEF Encodes
<1>10. maxVar' + 1 = e.next /\ maxVar' \in Int
  BY <1>2, <1>6 DEF Grown
<1> QED
  BY <1>2, <1>6, <1>9, <1>10 DEF Encoded, Grown, L, s, l

\* LSU is ready then.
LEMMA EncodedReady ==
  ASSUME ApertureInv, NEW F, F = maxVar + 1, NEW C, Encoded(F, C), UNCHANGED <<soft_lits_, latest_value>>
  PROVE  /\ LsuReady(F, C)' /\ maxVar' \in Nat /\ maxVar <= maxVar'
         /\ (\A D \in encodings : ClausesBelow(D, maxVar + 1))'
<1>1. maxVar \in Nat /\ \A D \in encodings : ClausesBelow(D, maxVar + 1)
  BY DEF ApertureInv, Shape
<1>2. /\ encodings' = encodings \cup {C} /\ maxVar' \in Int /\ maxVar' + 1 \in Nat
      /\ F <= maxVar' + 1 /\ ClausesBelow(C, maxVar' + 1)
      /\ Encodes(F, C, WLits, lsu', latest_value)
  BY DEF Encoded, Grown
<1>3. WLits' = WLits /\ latest_value' = latest_value
  BY DEF WLits
<1> DEFINE y == maxVar' + 1
           x == maxVar + 1
<1>4. maxVar \in Nat /\ maxVar' \in Int /\ maxVar' + 1 \in Nat /\ maxVar + 1 <= maxVar' + 1
  BY <1>1, <1>2
<1>5. /\ maxVar' \in Nat /\ maxVar <= maxVar'
      /\ x \in Nat /\ y \in Nat /\ x <= y
  BY ONLY <1>4, NoFewer
<1> HIDE DEF x, y
<1>6. \A D : ClausesBelow(D, x) => ClausesBelow(D, y)
  BY <1>5, BelowGrows
<1>7. \A D \in encodings' : ClausesBelow(D, y)
  BY <1>1, <1>2, <1>6 DEF x, y
<1>8. \A D \in encodings' \ {C} : ClausesBelow(D, F)
  BY <1>1, <1>2
<1>9. Encodes(F, C, WLits, lsu, latest_value)'
  BY <1>2, <1>3
<1> QED
  BY <1>2, <1>5, <1>7, <1>8, <1>9 DEF LsuReady, y

-----------------------------------------------------------------------------
(***************************************************************************)
(* The search under the bound.                                             *)
(***************************************************************************)
LEMMA BoundAsks ==
  ASSUME ApertureInv, pc = "lsu", NEW F, NEW C, LsuReady(F, C)
  PROVE  /\ SoftOnce /\ F \in Nat \ {0} /\ WeightedLits(F, WLits) /\ C \in encodings
         /\ \A wl \in WLits : VarOf(wl[2]) \in Created
         /\ latest_value \in Nat \ {0}
         /\ Asks(F, WLits, latest_value, C, Bound)
<1>1. /\ F \in Nat \ {0} /\ WeightedLits(F, WLits) /\ C \in encodings
      /\ \A v \in 1 .. latest_value : IsCost(F, WLits, v) =>
           Asks(F, WLits, v, C, BoundOn(lsu, v, ~Flat(WLits)))
  BY DEF LsuReady, Encodes
<1>2. SoftOnce /\ \A wl \in WLits : VarOf(wl[2]) \in Created
  BY SoftBelow DEF ApertureInv, Shape
<1>3. Latest \in SUBSET Created /\ WeightedCost(Latest) = latest_value /\ latest_value # 0
  BY DEF ApertureInv, Incumbent, LsuInv, HasSolution
<1>4. WeightedCost(Latest) = CostOf(WLits, LiteralsOf(Latest)) /\ IsCost(F, WLits, latest_value)
  BY <1>1, <1>2, <1>3, LatestSettles
<1>5. latest_value \in Nat \ {0}
  BY <1>1, <1>2, <1>3, LatestSettles
<1>6. Bound = BoundOn(lsu, latest_value, ~Flat(WLits))
  <2>1. Weighted = ~Flat(WLits)
    BY DEF Weighted, Flat
  <2> QED
    BY <2>1 DEF Bound, BoundOn
<1>7. latest_value \in 1 .. latest_value
  BY <1>5
<1>8. Asks(F, WLits, latest_value, C, BoundOn(lsu, latest_value, ~Flat(WLits)))
  BY <1>1, <1>4, <1>7
<1> QED
  BY <1>1, <1>2, <1>5, <1>6, <1>8

\* What the SAT solver finds under the bound is a cheaper solution.
LEMMA BoundSound ==
  ASSUME ApertureInv, pc = "lsu", NEW m \in ModelsUnder(Bound)
  PROVE  /\ m \in SUBSET Created /\ IsSolution(m)
         /\ WeightedCost(m) \in Nat /\ latest_value \in Nat /\ WeightedCost(m) < latest_value
<1>1. PICK F, C : LsuReady(F, C)
  BY DEF ApertureInv, LsuInv
<1>2. /\ SoftOnce /\ F \in Nat \ {0} /\ WeightedLits(F, WLits) /\ C \in encodings
      /\ \A wl \in WLits : VarOf(wl[2]) \in Created
      /\ latest_value \in Nat \ {0}
      /\ Asks(F, WLits, latest_value, C, Bound)
  BY <1>1, BoundAsks
<1>3. m \in SUBSET Created /\ IsSolution(m) /\ EncodingsExtend(m, Bound)
  BY DEF ModelsUnder, HardModels, IsSolution
<1>4. Extends(C, LiteralsOf(m) \cup Bound)
  BY <1>2, <1>3 DEF EncodingsExtend
<1> DEFINE g == LiteralsOf(m)
           s == WLits
           v == latest_value
           B == Bound
           c == WeightedCost(m)
<1>5. /\ g \in SUBSET (Int \ {0}) /\ Settles(F, s, g) /\ c = CostOf(s, g)
  BY <1>2, <1>3, LatestSettles
<1>6. Asks(F, s, v, C, B) /\ Extends(C, g \cup B) /\ F \in Nat \ {0} /\ v \in Nat
  BY <1>2, <1>4
<1>7. c \in Nat
  BY <1>2, <1>3, LatestSettles
<1> HIDE DEF g, s, v, B, c
<1>8. CostOf(s, g) < v
  BY ONLY <1>5, <1>6, AsksSound
<1>9. c < v
  BY <1>5, <1>8
<1> QED
  BY <1>3, <1>6, <1>7, <1>9 DEF c, v

\* The variables the client may still use were there before anything was encoded.
Free(D) ==
  \A m \in SUBSET Var :
    \E M \in SUBSET Nat : (\A v \in Var : v \in M <=> v \in m) /\ Satisfied(M, D)

AllFree ==
  /\ \A D \in encodings : Free(D)
  /\ pc = "lsu" => \E F, C : LsuReady(F, C) /\ Var \subseteq 1 .. F - 1

\* Every cheaper solution is found under the bound.
LEMMA BoundComplete ==
  ASSUME ApertureInv, AllFree, pc = "lsu", NEW m \in SUBSET Created, IsSolution(m),
         WeightedCost(m) < latest_value
  PROVE  m \in ModelsUnder(Bound)
<1>1. PICK F, C : LsuReady(F, C) /\ Var \subseteq 1 .. F - 1
  BY DEF AllFree
<1>2. /\ SoftOnce /\ F \in Nat \ {0} /\ WeightedLits(F, WLits) /\ C \in encodings
      /\ \A wl \in WLits : VarOf(wl[2]) \in Created
      /\ Asks(F, WLits, latest_value, C, Bound)
  BY <1>1, BoundAsks
<1>3. Created \subseteq Var /\ m \in SUBSET Var
  BY DEF Created
<1> DEFINE g == LiteralsOf(m)
           s == WLits
           v == latest_value
           B == Bound
<1>4. /\ Settles(F, s, g) /\ CostOf(s, g) < v
      /\ \A M : (\A u \in Created : u \in M <=> u \in m) => g \subseteq TrueIn(M)
  BY <1>2, LatestSettles
<1>5. g \in SUBSET Below(F)
  <2>1. \A u \in Created : u \in Below(F) /\ -u \in Below(F)
    BY <1>1, <1>2, <1>3 DEF Below
  <2> QED
    BY <2>1 DEF LiteralsOf
<1>6. Asks(F, s, v, C, B) /\ F \in Nat \ {0} /\ C \in encodings
  BY <1>2
<1>7. \A D \in encodings \ {C} : ClausesBelow(D, F)
  BY <1>1 DEF LsuReady
<1> HIDE DEF g, s, v, B
<1>8. ASSUME NEW D \in encodings PROVE Extends(D, g \cup B)
  <2>1. PICK M \in SUBSET Nat : (\A u \in Var : u \in M <=> u \in m) /\ Satisfied(M, D)
    BY <1>3 DEF AllFree, Free
  <2>2. g \subseteq TrueIn(M)
    BY <1>3, <1>4, <2>1
  <2>3. D = C \/ (ClausesBelow(D, F) /\ Satisfied(M, D))
    BY <1>7, <2>1
  <2> QED
    BY ONLY <1>4, <1>5, <1>6, <2>2, <2>3, AsksBeside
<1>9. EncodingsExtend(m, Bound)
  BY <1>8 DEF EncodingsExtend, g, B
<1> QED
  BY <1>9 DEF ModelsUnder, HardModels, IsSolution

-----------------------------------------------------------------------------
(***************************************************************************)
(* The steps.  Local search is what it is: that it leaves a solution of    *)
(* the cost it reports is assumed here.                                    *)
(***************************************************************************)
LocalSearchKeeps ==
  pc \in {"local", "localdone"} => IsSolution(Latest) /\ WeightedCost(Latest) = latest_value

Framed == UNCHANGED <<clauses_, soft_lits_, maxVar, encodings>>

LEMMA FramedFacts ==
  ASSUME Framed
  PROVE  /\ Created' = Created /\ WLits' = WLits
         /\ \A m : WeightedCost(m)' = WeightedCost(m)
         /\ SoftOnce => SoftOnce'
         /\ SoftExist => SoftExist'
         /\ Shape /\ (pc' \notin {"idle", "check"} => SoftExist) => Shape'
<1>1. /\ clauses_' = clauses_ /\ soft_lits_' = soft_lits_ /\ maxVar' = maxVar
      /\ encodings' = encodings
  BY DEF Framed
<1>2. Created' = Created /\ WLits' = WLits
  BY <1>1 DEF Created, WLits
<1>3. SoftWeights' = SoftWeights
  BY <1>1 DEF SoftWeights
<1>4. \A m : WeightedCost(m)' = WeightedCost(m)
  BY <1>3 DEF WeightedCost
<1>5. SoftOnce => SoftOnce'
  BY <1>1 DEF SoftOnce
<1>6. SoftExist => SoftExist'
  BY <1>1 DEF SoftExist
<1>7. Shape /\ (pc' \notin {"idle", "check"} => SoftExist) => Shape'
  BY <1>1, <1>5, <1>6 DEF Shape
<1> QED
  BY <1>2, <1>4, <1>5, <1>6, <1>7

LEMMA Saved ==
  ASSUME NEW m, Save(m)
  PROVE  Latest' = m \cap Created
<1>1. latest_solution_' = [v \in Created |-> v \in m]
  BY DEF Save
<1>2. Latest' = {v \in DOMAIN latest_solution_' : latest_solution_'[v]}
  BY DEF Latest
<1>3. \A v \in Created : latest_solution_'[v] = (v \in m)
  BY <1>1
<1>4. DOMAIN latest_solution_' = Created
  BY <1>1
<1> QED
  BY <1>2, <1>3, <1>4, Zenon

\* A solve that ends.
LEMMA Returned ==
  ASSUME ApertureInv, Framed, pc' = "idle"
  PROVE  ApertureInv'
  BY FramedFacts DEF ApertureInv, Incumbent, LsuInv, HasSolution

\* A step that leaves the solution alone.
LEMMA SolutionKept ==
  ASSUME Incumbent, HasSolution, Framed, UNCHANGED <<found, assumptions_>>
  PROVE  Incumbent'
<1>1. Latest' = Latest /\ latest_value' = latest_value /\ assumptions_' = assumptions_
  BY DEF Latest, found
<1>2. clauses_' = clauses_
  BY DEF Framed
<1>3. IsSolution(Latest)' = IsSolution(Latest)
  BY <1>1, <1>2 DEF IsSolution
<1>4. WeightedCost(Latest)' = WeightedCost(Latest)
  BY <1>1, FramedFacts DEF WeightedCost, SoftWeights, Framed
<1> QED
  BY <1>1, <1>3, <1>4, FramedFacts DEF Incumbent

\* A step that saves one.
LEMMA SolutionSaved ==
  ASSUME Framed, UNCHANGED assumptions_, NEW m \in SUBSET Created, Save(m), IsSolution(m),
         latest_value' = WeightedCost(m)
  PROVE  Incumbent'
<1>1. Latest' = m
  BY Saved
<1>2. clauses_' = clauses_ /\ assumptions_' = assumptions_
  BY DEF Framed
<1>3. IsSolution(Latest)'
  BY <1>1, <1>2 DEF IsSolution
<1>4. WeightedCost(Latest)' = latest_value'
  BY <1>1 DEF WeightedCost, SoftWeights, Framed
<1> QED
  BY <1>1, <1>3, <1>4, FramedFacts DEF Incumbent

LEMMA ClientStepKeeps ==
  ASSUME ApertureInv, ClientStep
  PROVE  ApertureInv' /\ pc' \in {"idle", "check"} /\ encodings' = encodings
<1>1. /\ SoftOnce /\ maxVar \in Nat /\ \A C \in encodings : ClausesBelow(C, maxVar + 1)
  BY DEF ApertureInv, Shape
<1>2. \A y \in Nat : maxVar <= y => \A C \in encodings : ClausesBelow(C, y + 1)
  <2> SUFFICES ASSUME NEW y \in Nat, maxVar <= y, NEW C \in encodings
               PROVE  ClausesBelow(C, y + 1)
    OBVIOUS
  <2> DEFINE a == maxVar + 1
             b == y + 1
  <2>1. a \in Nat /\ b \in Nat /\ a <= b /\ ClausesBelow(C, a)
    BY <1>1
  <2> HIDE DEF a, b
  <2>2. ClausesBelow(C, b)
    BY <2>1, BelowGrows
  <2> QED
    BY <2>2 DEF b
<1>3. SUFFICES ASSUME pc' \in {"idle", "check"}, SoftOnce', encodings' = encodings,
                      maxVar' \in Nat /\ maxVar <= maxVar'
               PROVE  ApertureInv' /\ pc' \in {"idle", "check"} /\ encodings' = encodings
  <2>1. ASSUME NEW l \in Lit, AddHard(l)
        PROVE  /\ pc' = "idle" /\ SoftOnce' /\ encodings' = encodings
               /\ maxVar' \in Nat /\ maxVar <= maxVar'
    <3>1. VarOf(l) \in Nat
      BY LitFacts
    <3>2. maxVar' \in Nat /\ maxVar <= maxVar'
      BY <1>1, <2>1, <3>1 DEF AddHard
    <3> QED
      BY <1>1, <2>1, <3>2 DEF AddHard, Calls, Input, SoftOnce
  <2>2. ASSUME NEW l \in Lit, Assume(l)
        PROVE  /\ pc' = "idle" /\ SoftOnce' /\ encodings' = encodings /\ maxVar' = maxVar
    BY <1>1, <2>2 DEF Assume, Calls, Input, SoftOnce
  <2>3. ASSUME FinishHard
        PROVE  /\ pc' = "idle" /\ SoftOnce' /\ encodings' = encodings /\ maxVar' = maxVar
    BY <1>1, <2>3 DEF FinishHard, Calls, Input, SoftOnce
  <2>4. ASSUME NEW l \in Lit, NEW w \in Weight, AddSoftLit(l, w)
        PROVE  /\ pc' = "idle" /\ SoftOnce' /\ encodings' = encodings /\ maxVar' = maxVar
    <3>1. /\ pc' = "idle" /\ encodings' = encodings /\ maxVar' = maxVar
          /\ soft_lits_' = IF l \in SoftLits(soft_lits_)
                           THEN [i \in DOMAIN soft_lits_ |->
                                   IF soft_lits_[i][2] = l THEN <<w, l>> ELSE soft_lits_[i]]
                           ELSE Append(soft_lits_, <<w, l>>)
      BY <2>4 DEF AddSoftLit, Calls, Input
    <3> DEFINE s == soft_lits_
               t == soft_lits_'
               n == Len(s)
    <3>2. s \in Seq(Weight \X Lit) /\ n \in Nat /\ DOMAIN s = 1 .. n
          /\ (\A i, j \in 1 .. n : s[i][2] = s[j][2] => i = j)
          /\ \A i \in 1 .. n : s[i] \in Weight \X Lit
      BY <1>1 DEF SoftOnce
    <3>3. SoftLits(s) = {s[i][2] : i \in DOMAIN s}
      BY DEF SoftLits
    <3>4. CASE l \in SoftLits(s)
      <4>1. t = [i \in 1 .. n |-> IF s[i][2] = l THEN <<w, l>> ELSE s[i]]
        BY <3>1, <3>2, <3>4
      <4> HIDE DEF s, t, n
      <4>2. \A i \in 1 .. n : t[i] \in Weight \X Lit /\ t[i][2] = s[i][2]
        BY <3>2, <4>1
      <4>3. t \in Seq(Weight \X Lit) /\ DOMAIN t = 1 .. n
        BY <3>2, <4>1, <4>2
      <4>4. \A i, j \in DOMAIN t : t[i][2] = t[j][2] => i = j
        BY <3>2, <4>2, <4>3
      <4> QED
        BY <3>1, <4>3, <4>4 DEF SoftOnce, t
    <3>5. CASE l \notin SoftLits(s)
      <4> DEFINE p == <<w, l>>
      <4>1. t = Append(s, p) /\ p \in Weight \X Lit /\ p[2] = l
        BY <3>1, <3>5
      <4>2. \A i \in 1 .. n : s[i][2] # l
        BY <3>2, <3>3, <3>5
      <4> HIDE DEF s, t, n, p
      <4>3. t \in Seq(Weight \X Lit) /\ DOMAIN t = 1 .. n + 1 /\ t[n + 1] = p
            /\ \A i \in 1 .. n : t[i] = s[i]
        BY <3>2, <4>1 DEF n
      <4>4. ASSUME NEW i \in DOMAIN t, NEW j \in DOMAIN t, t[i][2] = t[j][2] PROVE i = j
        <5>1. CASE i \in 1 .. n /\ j \in 1 .. n
          BY <3>2, <4>3, <4>4, <5>1
        <5>2. CASE i \in 1 .. n /\ j = n + 1
          BY <4>1, <4>2, <4>3, <4>4, <5>2
        <5>3. CASE i = n + 1 /\ j \in 1 .. n
          BY <4>1, <4>2, <4>3, <4>4, <5>3
        <5>4. (i \in 1 .. n \/ i = n + 1) /\ (j \in 1 .. n \/ j = n + 1)
          BY <3>2, <4>3
        <5> QED
          BY <5>1, <5>2, <5>3, <5>4
      <4> QED
        BY <3>1, <4>3, <4>4 DEF SoftOnce, t
    <3> QED
      BY <3>4, <3>5
  <2>5. ASSUME NEW x, SetTerminate(x)
        PROVE  /\ pc' = "idle" /\ SoftOnce' /\ encodings' = encodings /\ maxVar' = maxVar
    BY <1>1, <2>5 DEF SetTerminate, Calls, SoftOnce
  <2>6. ASSUME SolveCalled
        PROVE  /\ pc' = "check" /\ SoftOnce' /\ encodings' = encodings /\ maxVar' = maxVar
    BY <1>1, <2>6 DEF SolveCalled, Calls, client, SoftOnce
  <2>7. /\ pc' \in {"idle", "check"} /\ SoftOnce' /\ encodings' = encodings
        /\ maxVar' \in Nat /\ maxVar <= maxVar'
    BY <1>1, <2>1, <2>2, <2>3, <2>4, <2>5, <2>6 DEF ClientStep
  <2> QED
    BY <2>7
<1>4. Shape'
  BY <1>2, <1>3 DEF Shape
<1> QED
  BY <1>3, <1>4 DEF ApertureInv, Incumbent, LsuInv, HasSolution

\* What the steps of a solve leave as it is, and where they may go.
Going == pc' \notin {"idle", "check"} => SoftExist

LEMMA Running ==
  ASSUME ApertureInv, HasSolution \/ pc = "initial"
  PROVE  Going /\ SoftExist
  BY DEF ApertureInv, Shape, HasSolution, Going

\* A phase that goes on with the solution it has.
LEMMA PhaseKeeps ==
  ASSUME ApertureInv, HasSolution, Framed, UNCHANGED <<found, assumptions_>>,
         pc' = "encode" => latest_value # 0, pc' # "lsu"
  PROVE  ApertureInv'
<1>1. Shape' /\ Incumbent'
  BY Running, FramedFacts, SolutionKept DEF ApertureInv, Going
<1>2. latest_value' = latest_value
  BY DEF found
<1> QED
  BY <1>1, <1>2 DEF ApertureInv, LsuInv

\* A phase that finds a solution.
LEMMA PhaseFinds ==
  ASSUME ApertureInv, HasSolution \/ pc = "initial", Framed, UNCHANGED assumptions_,
         pc' \notin {"encode", "lsu"}, NEW m \in SUBSET Created, Save(m), IsSolution(m),
         latest_value' = WeightedCost(m)
  PROVE  ApertureInv'
<1>1. Shape' /\ Incumbent'
  BY Running, FramedFacts, SolutionSaved DEF ApertureInv, Going
<1> QED
  BY <1>1 DEF ApertureInv, LsuInv

LEMMA ExitKeeps ==
  ASSUME ApertureInv, HasSolution, Framed, NEW where, where \notin {"lsu", "idle"},
         ExitOr(where), UNCHANGED <<latest_solution_, latest_value>>
  PROVE  ApertureInv'
<1>1. PICK answer \in BOOLEAN :
        IF answer \/ latest_value = 0
        THEN Return(IF latest_value = 0 THEN "OPTIMAL" ELSE "SAT")
        ELSE Continue(where) /\ UNCHANGED <<optimal, lsu>>
  BY DEF ExitOr
<1>2. CASE answer \/ latest_value = 0
  BY <1>1, <1>2, Returned DEF Return
<1>3. CASE ~(answer \/ latest_value = 0)
  BY <1>1, <1>3, PhaseKeeps DEF Continue, found
<1> QED
  BY <1>2, <1>3

LEMMA ModelIsSolution ==
  ASSUME NEW m \in Models
  PROVE  m \in SUBSET Created /\ IsSolution(m)
  BY DEF Models, ModelsUnder, HardModels, IsSolution

LEMMA StartKeeps ==
  ASSUME ApertureInv, SolveError \/ ResetMaxSAT \/ InitialUnsat \/ InitialSat
  PROVE  ApertureInv'
<1>1. CASE SolveError
  BY <1>1, Returned DEF SolveError, Return, Framed, client
<1>2. CASE InitialUnsat
  BY <1>2, Returned DEF InitialUnsat, Return, Framed, client
<1>3. CASE ResetMaxSAT
  <2>1. Framed /\ pc' = "initial" /\ Valid
    BY <1>3 DEF ResetMaxSAT, Framed, client
  <2>2. SoftExist
    <3> SUFFICES ASSUME NEW l \in SoftLits(soft_lits_) PROVE VarOf(l) \in 1 .. maxVar
      BY DEF SoftExist
    <3>1. SoftOnce /\ maxVar \in Nat
      BY DEF ApertureInv, Shape
    <3>2. l \in Lit
      BY <3>1, WLitsFacts
    <3>3. VarOf(l) <= maxVar
      BY <2>1 DEF Valid
    <3>4. VarOf(l) \in Nat \ {0}
      BY <3>2, LitFacts
    <3> QED
      BY <3>1, <3>3, <3>4
  <2>3. Shape'
    BY <2>1, <2>2, FramedFacts DEF ApertureInv
  <2> QED
    BY <2>1, <2>3 DEF ApertureInv, Incumbent, LsuInv, HasSolution
<1>4. CASE InitialSat
  <2>1. PICK m \in Models : Save(m) /\ latest_value' = WeightedCost(m)
    BY <1>4 DEF InitialSat
  <2>2. Framed /\ UNCHANGED assumptions_ /\ pc = "initial" /\ pc' = "found"
    BY <1>4 DEF InitialSat, Framed, client
  <2>3. m \in SUBSET Created /\ IsSolution(m)
    BY ModelIsSolution
  <2> QED
    BY <2>1, <2>2, <2>3, PhaseFinds
<1> QED
  BY <1>1, <1>2, <1>3, <1>4

LEMMA LocalKeeps ==
  ASSUME ApertureInv, LocalSearchKeeps',
         AfterInitial \/ LocalSearchBuild \/ LocalSearchImprove \/ LocalSearchEnd
  PROVE  ApertureInv'
<1>1. CASE AfterInitial
  BY <1>1, ExitKeeps DEF AfterInitial, HasSolution, Framed, client
<1>2. CASE LocalSearchEnd
  BY <1>2, ExitKeeps DEF LocalSearchEnd, HasSolution, Framed, client
<1>3. CASE LocalSearchBuild \/ LocalSearchImprove
  <2>1. /\ Framed /\ pc' \in {"local", "localdone"} /\ HasSolution
        /\ \E m : Save(m)
    BY <1>3 DEF LocalSearchBuild, LocalSearchImprove, HasSolution, Framed, client
  <2>2. Latest' \subseteq Created'
    BY <2>1, Saved, FramedFacts
  <2>3. IsSolution(Latest)' /\ (WeightedCost(Latest) = latest_value)'
    BY <2>1 DEF LocalSearchKeeps
  <2>4. Shape'
    BY <2>1, Running, FramedFacts DEF ApertureInv
  <2> QED
    BY <2>1, <2>2, <2>3, <2>4 DEF ApertureInv, Incumbent, LsuInv
<1> QED
  BY <1>1, <1>2, <1>3

LEMMA BeaverKeeps ==
  ASSUME ApertureInv,
         \/ BeaverStart \/ PolosatImprove \/ PolosatEnd \/ AfterPolosat
         \/ Iterate \/ ObvImprove \/ ObvEnd \/ BeaverEnd
  PROVE  ApertureInv'
<1>1. CASE BeaverStart \/ PolosatEnd \/ AfterPolosat \/ Iterate \/ ObvEnd
  <2>1. /\ Framed /\ UNCHANGED <<found, assumptions_>> /\ HasSolution
        /\ pc' \in {"afterpolosat", "polosat", "iterate", "afterbeaver", "obv"}
    BY <1>1 DEF BeaverStart, PolosatGoesOn, PolosatEnd, AfterPolosat, Iterate, ObvEnd,
                HasSolution, Framed, client
  <2> QED
    BY <2>1, PhaseKeeps
<1>2. CASE PolosatImprove \/ ObvImprove
  <2>1. /\ Framed /\ UNCHANGED assumptions_ /\ HasSolution
        /\ pc' \in {"afterpolosat", "polosat", "obv"}
        /\ \E m \in Models : Save(m) /\ latest_value' = WeightedCost(m)
    BY <1>2 DEF PolosatImprove, ObvImprove, PolosatGoesOn, HasSolution, Framed, client
  <2>2. PICK m \in Models : Save(m) /\ latest_value' = WeightedCost(m)
    BY <2>1
  <2>3. m \in SUBSET Created /\ IsSolution(m)
    BY ModelIsSolution
  <2> QED
    BY <2>1, <2>2, <2>3, PhaseFinds
<1>3. CASE BeaverEnd
  BY <1>3, ExitKeeps DEF BeaverEnd, HasSolution, Framed, client
<1> QED
  BY <1>1, <1>2, <1>3

LEMMA EncodeKeeps ==
  ASSUME ApertureInv, CostsFit, EncodeTotalizer \/ EncodeComparator, NEW F, F = maxVar + 1
  PROVE  /\ ApertureInv'
         /\ \E C : /\ Grown(F, C, maxVar' + 1) /\ encodings' = encodings \cup {C}
                   /\ LsuReady(F, C)'
<1>2. PICK C : Encoded(F, C)
  BY TotalizerReady, ComparatorReady
<1>3. /\ UNCHANGED <<soft_lits_, latest_value>> /\ UNCHANGED <<clauses_, assumptions_, latest_solution_>>
      /\ pc = "encode" /\ pc' = "lsu"
  BY DEF EncodeTotalizer, EncodeComparator, Continue, client, found
<1>4. /\ LsuReady(F, C)' /\ maxVar' \in Nat /\ maxVar <= maxVar'
      /\ (\A D \in encodings : ClausesBelow(D, maxVar + 1))'
  BY <1>2, <1>3, EncodedReady
<1>5. /\ SoftOnce /\ maxVar \in Nat /\ SoftExist /\ Latest \subseteq Created
      /\ IsSolution(Latest) /\ WeightedCost(Latest) = latest_value /\ latest_value # 0
  BY <1>3 DEF ApertureInv, Shape, Incumbent, LsuInv, HasSolution
<1>6. SoftOnce'
  BY <1>3, <1>5 DEF SoftOnce
<1>7. SoftExist'
  BY <1>3, <1>4, <1>5, LitFacts, WLitsFacts DEF SoftExist
<1>8. Latest' = Latest /\ Latest' \subseteq Created'
  <2>1. Latest' = Latest
    BY <1>3 DEF Latest
  <2>2. Created \subseteq Created'
    <3> SUFFICES ASSUME NEW v \in Var, v <= maxVar PROVE v <= maxVar'
      BY DEF Created
    <3> QED
      BY <1>4, <1>5, LitFacts
  <2> QED
    BY <1>5, <2>1, <2>2
<1>9. IsSolution(Latest)'
  BY <1>3, <1>5, <1>8 DEF IsSolution
<1>10. (WeightedCost(Latest) = latest_value)'
  BY <1>3, <1>5, <1>8 DEF WeightedCost, SoftWeights
<1>11. Shape' /\ Incumbent'
  BY <1>4, <1>6, <1>7, <1>8, <1>9, <1>10 DEF Shape, Incumbent
<1>12. LsuInv'
  BY <1>3, <1>4, <1>5 DEF LsuInv
<1>13. ApertureInv'
  BY <1>11, <1>12 DEF ApertureInv
<1>14. Grown(F, C, maxVar' + 1) /\ encodings' = encodings \cup {C}
  BY <1>2 DEF Encoded
<1> QED
  BY <1>4, <1>13, <1>14

\* The encoding that bounds the cost is as good for a lower cost.
LEMMA ReadyStays ==
  ASSUME Framed, UNCHANGED lsu, latest_value \in Nat, latest_value' \in Nat,
         latest_value' <= latest_value, NEW F, NEW C, LsuReady(F, C)
  PROVE  LsuReady(F, C)'
<1>1. /\ WLits' = WLits /\ lsu' = lsu /\ maxVar' = maxVar /\ encodings' = encodings
  BY FramedFacts DEF Framed
<1>2. 1 .. latest_value' \subseteq 1 .. latest_value
  OBVIOUS
<1>3. Encodes(F, C, WLits, lsu, latest_value)
  BY DEF LsuReady
<1>4. Encodes(F, C, WLits, lsu, latest_value')
  BY <1>2, <1>3 DEF Encodes
<1> QED
  BY <1>1, <1>4 DEF LsuReady

LEMMA LsuKeeps ==
  ASSUME ApertureInv, LsuImprove \/ LsuOptimal
  PROVE  /\ ApertureInv'
         /\ pc' = "lsu" => \A F, C : LsuReady(F, C) => LsuReady(F, C)'
<1>1. CASE LsuOptimal
  BY <1>1, Returned DEF LsuOptimal, Return, Framed, client
<1>2. CASE LsuImprove
  <2>1. PICK m \in ModelsUnder(Bound) :
          LET least == IF WeightedCost(m) < latest_value THEN WeightedCost(m) ELSE latest_value
          IN  /\ Save(m)
              /\ latest_value' = least
              /\ \E answer \in BOOLEAN :
                   IF answer \/ least = 0
                   THEN Return("SAT")
                   ELSE Continue("lsu") /\ UNCHANGED lsu
    BY <1>2 DEF LsuImprove
  <2>2. pc = "lsu" /\ Framed
    BY <1>2 DEF LsuImprove, Framed, client
  <2>3. /\ m \in SUBSET Created /\ IsSolution(m)
        /\ WeightedCost(m) \in Nat /\ latest_value \in Nat /\ WeightedCost(m) < latest_value
    BY <2>2, BoundSound
  <2>4. Save(m) /\ latest_value' = WeightedCost(m)
    BY <2>1, <2>3
  <2>5. Return("SAT") \/ (Continue("lsu") /\ UNCHANGED lsu /\ latest_value' # 0)
    BY <2>1, <2>4
  <2>6. CASE Return("SAT")
    <3>1. pc' = "idle"
      BY <2>6 DEF Return
    <3> QED
      BY <2>2, <3>1, Returned
  <2>7. CASE Continue("lsu") /\ UNCHANGED lsu /\ latest_value' # 0
    <3>1. pc' = "lsu" /\ UNCHANGED assumptions_
      BY <2>7 DEF Continue
    <3>2. Shape' /\ Incumbent'
      BY <2>2, <2>3, <2>4, <3>1, Running, FramedFacts, SolutionSaved
      DEF ApertureInv, Going, HasSolution
    <3>3. \A F, C : LsuReady(F, C) => LsuReady(F, C)'
      BY <2>2, <2>3, <2>4, <2>7, ReadyStays
    <3>4. \E F, C : LsuReady(F, C)
      BY <2>2 DEF ApertureInv, LsuInv
    <3>5. LsuInv'
      BY <2>7, <3>3, <3>4 DEF LsuInv
    <3> QED
      BY <3>2, <3>3, <3>5 DEF ApertureInv
  <2> QED
    BY <2>5, <2>6, <2>7
<1> QED
  BY <1>1, <1>2

LEMMA ApertureInit ==
  ASSUME Init
  PROVE  ApertureInv
<1>1. SoftOnce /\ maxVar \in Nat /\ encodings = {} /\ pc = "idle"
  BY DEF Init, SoftOnce
<1> QED
  BY <1>1 DEF ApertureInv, Shape, Incumbent, LsuInv, HasSolution

LEMMA ApertureStep ==
  ASSUME ApertureInv, [Next]_vars, CostsFit, LocalSearchKeeps'
  PROVE  ApertureInv'
<1>1. CASE ClientStep
  BY <1>1, ClientStepKeeps
<1>2. CASE SolverStep
  <2>1. PICK F : F = maxVar + 1
    OBVIOUS
  <2> QED
    BY <1>2, <2>1, StartKeeps, LocalKeeps, BeaverKeeps, EncodeKeeps, LsuKeeps DEF SolverStep
<1>3. CASE UNCHANGED vars
  <2>1. UNCHANGED <<pc, latest_value, optimal, lsu, latest_solution_, assumptions_>> /\ Framed
    BY <1>3 DEF vars, client, found, Framed
  <2>2. Shape'
    BY <2>1, FramedFacts DEF ApertureInv, Shape
  <2>3. HasSolution' = HasSolution
    BY <2>1 DEF HasSolution
  <2>4. Incumbent'
    <3>1. CASE HasSolution
      BY <2>1, <3>1, SolutionKept DEF ApertureInv, found
    <3>2. CASE ~HasSolution
      BY <2>3, <3>2 DEF Incumbent
    <3> QED
      BY <3>1, <3>2
  <2>5. \A F, C : LsuReady(F, C) => LsuReady(F, C)'
    BY <2>1, FramedFacts DEF LsuReady, Framed
  <2>6. LsuInv'
    BY <2>1, <2>5 DEF ApertureInv, LsuInv
  <2> QED
    BY <2>2, <2>4, <2>6 DEF ApertureInv
<1> QED
  BY <1>1, <1>2, <1>3 DEF Next

\* What the client and the solver share between their steps is the one invariant.
LEMMA ApertureInvariant ==
  Spec /\ []CostsFit /\ []LocalSearchKeeps => []ApertureInv
<1>1. Init => ApertureInv
  BY ApertureInit
<1>2. ApertureInv /\ [Next]_vars /\ CostsFit /\ LocalSearchKeeps' => ApertureInv'
  BY ApertureStep
<1> QED
  BY <1>1, <1>2, PTL DEF Spec

\* Between any two steps of a solve the latest solution satisfies the hard
\* clauses and the assumptions and costs the latest value, as long as local
\* search hands over such a solution and the objective's width is enough
\* (MaxSAT.cc:167-175, LSU.cc:50-178).
THEOREM IncumbentIsKept ==
  Spec /\ []CostsFit /\ []LocalSearchKeeps => []IncumbentIsSolution
<1>1. ApertureInv => IncumbentIsSolution
  BY DEF ApertureInv, Incumbent, IncumbentIsSolution
<1> QED
  BY <1>1, ApertureInvariant, PTL

\* Without local search nothing is left to assume but the width.
NoLocalSearch == pc \notin {"build", "local", "localdone"}

LEMMA NeverLocal ==
  ASSUME UseLocalSearch = FALSE
  PROVE  Spec => []NoLocalSearch
<1>1. Init => NoLocalSearch
  BY DEF Init, NoLocalSearch
<1>2. ASSUME NoLocalSearch, [Next]_vars PROVE NoLocalSearch'
  <2>1. CASE ClientStep
    BY <1>2, <2>1 DEF NoLocalSearch, ClientStep, AddHard, Assume, FinishHard, AddSoftLit,
                      SetTerminate, SolveCalled, Input
  <2>2. CASE SolveError \/ ResetMaxSAT \/ InitialUnsat \/ InitialSat
    BY <2>2 DEF NoLocalSearch, SolveError, ResetMaxSAT, InitialUnsat, InitialSat, Return
  <2>3. CASE AfterInitial \/ BeaverEnd
    BY <2>3 DEF NoLocalSearch, AfterInitial, BeaverEnd, ExitOr, Return, Continue
  <2>4. CASE LocalSearchBuild \/ LocalSearchImprove \/ LocalSearchEnd
    BY <1>2, <2>4 DEF NoLocalSearch, LocalSearchBuild, LocalSearchImprove, LocalSearchEnd
  <2>5. CASE BeaverStart \/ PolosatImprove \/ PolosatEnd \/ AfterPolosat
             \/ Iterate \/ ObvImprove \/ ObvEnd
    BY <2>5 DEF NoLocalSearch, BeaverStart, PolosatGoesOn, PolosatImprove, PolosatEnd,
                AfterPolosat, Iterate, ObvImprove, ObvEnd
  <2>6. CASE EncodeTotalizer \/ EncodeComparator \/ LsuImprove \/ LsuOptimal
    BY <2>6 DEF NoLocalSearch, EncodeTotalizer, EncodeComparator, LsuImprove, LsuOptimal,
                Return, Continue
  <2>7. CASE UNCHANGED vars
    BY <1>2, <2>7 DEF NoLocalSearch, vars
  <2> QED
    BY <1>2, <2>1, <2>2, <2>3, <2>4, <2>5, <2>6, <2>7 DEF Next, SolverStep
<1> QED
  BY <1>1, <1>2, PTL DEF Spec

LEMMA NothingFromLocalSearch ==
  ASSUME UseLocalSearch = FALSE
  PROVE  Spec => []LocalSearchKeeps
<1>1. NoLocalSearch => LocalSearchKeeps
  BY DEF NoLocalSearch, LocalSearchKeeps
<1> QED
  BY <1>1, NeverLocal, PTL

\* If local search is switched off, the incumbent is a solution between any two
\* steps of a solve, and its value is its cost, whatever the client calls, as long
\* as the objective's width is enough (MaxSAT.cc:167-175, LSU.cc:50-178).
THEOREM IncumbentWithoutLocalSearch ==
  ASSUME UseLocalSearch = FALSE
  PROVE  Spec /\ []CostsFit => []IncumbentIsSolution
BY NothingFromLocalSearch, IncumbentIsKept, PTL

-----------------------------------------------------------------------------
(***************************************************************************)
(* A client that has used all its variables when LSU first encodes.        *)
(***************************************************************************)
VarsExistFirst == pc = "encode" => Created = Var

\* An encoding that leaves the variables below it free leaves the client's free.
LEMMA GrownIsFree ==
  ASSUME NEW F \in Nat \ {0}, NEW C, NEW x, Grown(F, C, x), Var \subseteq 1 .. F - 1
  PROVE  Free(C)
<1> SUFFICES ASSUME NEW m \in SUBSET Var
             PROVE  \E M \in SUBSET Nat : (\A v \in Var : v \in M <=> v \in m) /\ Satisfied(M, C)
  BY DEF Free
<1> DEFINE a == LiteralsBelow(F, m)
<1>1. a = LiteralsBelow(F, m)
  OBVIOUS
<1> HIDE DEF a
<1>2. /\ a \in AssignmentsTo(F)
      /\ \A N : a \subseteq TrueIn(N) => \A v \in 1 .. F - 1 : v \in N <=> v \in m
  BY <1>1, BelowModel
<1>3. PICK M \in SUBSET Nat : a \subseteq TrueIn(M) /\ Satisfied(M, C)
  BY <1>2 DEF Grown
<1> QED
  BY <1>2, <1>3

LEMMA AllFreeStep ==
  ASSUME ApertureInv, AllFree, [Next]_vars, CostsFit, VarsExistFirst
  PROVE  AllFree'
<1>1. CASE encodings' = encodings /\ pc' # "lsu"
  BY <1>1 DEF AllFree
<1>2. CASE EncodeTotalizer \/ EncodeComparator
  <2>1. PICK F : F = maxVar + 1
    OBVIOUS
  <2>2. PICK C : /\ Grown(F, C, maxVar' + 1) /\ encodings' = encodings \cup {C}
                 /\ LsuReady(F, C)'
    BY <1>2, <2>1, EncodeKeeps
  <2>3. maxVar \in Nat /\ F \in Nat \ {0} /\ Created = Var
    BY <1>2, <2>1 DEF ApertureInv, Shape, VarsExistFirst, EncodeTotalizer, EncodeComparator
  <2>4. Var \subseteq 1 .. F - 1
    BY <2>1, <2>3, LitFacts DEF Created
  <2>5. Free(C)
    BY <2>2, <2>3, <2>4, GrownIsFree
  <2>6. \A D \in encodings' : Free(D)
    BY <2>2, <2>5 DEF AllFree
  <2> QED
    BY <2>2, <2>4, <2>6 DEF AllFree
<1>3. CASE LsuImprove /\ pc' = "lsu"
  <2>1. PICK F, C : LsuReady(F, C) /\ Var \subseteq 1 .. F - 1
    BY <1>3 DEF AllFree, LsuImprove
  <2>2. LsuReady(F, C)'
    BY <1>3, <2>1, LsuKeeps
  <2>3. encodings' = encodings
    BY <1>3 DEF LsuImprove
  <2> QED
    BY <2>1, <2>2, <2>3 DEF AllFree
<1>4. CASE UNCHANGED vars
  <2>1. UNCHANGED <<pc, latest_value, lsu>> /\ Framed
    BY <1>4 DEF vars, client, found, Framed
  <2>2. \A F, C : LsuReady(F, C) => LsuReady(F, C)'
    BY <2>1, FramedFacts DEF LsuReady, Framed
  <2> QED
    BY <2>1, <2>2 DEF AllFree, Framed
<1>5. CASE ClientStep
  BY <1>1, <1>5, ClientStepKeeps
<1>6. CASE SolveError \/ ResetMaxSAT \/ InitialUnsat \/ InitialSat
  BY <1>1, <1>6 DEF SolveError, ResetMaxSAT, InitialUnsat, InitialSat, Return
<1>7. CASE AfterInitial \/ BeaverEnd \/ LocalSearchEnd
  BY <1>1, <1>7 DEF AfterInitial, BeaverEnd, LocalSearchEnd, ExitOr, Return, Continue
<1>8. CASE LocalSearchBuild \/ LocalSearchImprove
  BY <1>1, <1>8 DEF LocalSearchBuild, LocalSearchImprove
<1>9. CASE BeaverStart \/ PolosatImprove \/ PolosatEnd \/ AfterPolosat
           \/ Iterate \/ ObvImprove \/ ObvEnd
  BY <1>1, <1>9 DEF BeaverStart, PolosatGoesOn, PolosatImprove, PolosatEnd,
                    AfterPolosat, Iterate, ObvImprove, ObvEnd
<1>10. CASE LsuOptimal \/ (LsuImprove /\ pc' # "lsu")
  BY <1>1, <1>10 DEF LsuOptimal, LsuImprove, Return
<1> QED
  BY <1>2, <1>3, <1>4, <1>5, <1>6, <1>7, <1>8, <1>9, <1>10 DEF Next, SolverStep

LEMMA AllFreeInvariant ==
  Spec /\ []CostsFit /\ []LocalSearchKeeps /\ []VarsExistFirst => [](ApertureInv /\ AllFree)
<1>1. Init => AllFree
  BY DEF Init, AllFree
<1>2. ApertureInv /\ AllFree /\ [Next]_vars /\ CostsFit /\ VarsExistFirst => AllFree'
  BY AllFreeStep
<1> QED
  BY <1>1, <1>2, ApertureInvariant, PTL DEF Spec

LEMMA AsksForCheaper ==
  ASSUME ApertureInv, AllFree
  PROVE  LsuAsksForCheaper
<1> SUFFICES ASSUME pc = "lsu"
             PROVE  ModelsUnder(Bound) =
                      {m \in SUBSET Created : IsSolution(m) /\ WeightedCost(m) < latest_value}
  BY DEF LsuAsksForCheaper
<1>1. ASSUME NEW m \in ModelsUnder(Bound)
      PROVE  m \in SUBSET Created /\ IsSolution(m) /\ WeightedCost(m) < latest_value
  BY BoundSound
<1>2. ASSUME NEW m \in SUBSET Created, IsSolution(m), WeightedCost(m) < latest_value
      PROVE  m \in ModelsUnder(Bound)
  BY <1>2, BoundComplete
<1> QED
  BY <1>1, <1>2

\* Under the bound LSU assumes, the SAT solver has exactly the solutions that
\* are cheaper than the latest value, though it also holds the encodings of
\* every solve before, if the client's variables were there before the first of
\* them (LSU.cc:50-178).
THEOREM BoundAsksForCheaper ==
  Spec /\ []CostsFit /\ []LocalSearchKeeps /\ []VarsExistFirst => []LsuAsksForCheaper
<1>1. ApertureInv /\ AllFree => LsuAsksForCheaper
  BY AsksForCheaper
<1> QED
  BY <1>1, AllFreeInvariant, PTL

\* What a solve says when it returns.
AnswerIsRight ==
  state = "SOLVING" =>
    /\ state' = "OPTIMAL" =>
         /\ IsSolution(Latest') /\ WeightedCost(Latest') = latest_value'
         /\ \A m \in SUBSET Created : IsSolution(m) => latest_value' <= WeightedCost(m)
    /\ state' = "UNSAT" => \A m \in SUBSET Created : ~IsSolution(m)

LEMMA SolutionsAreModels ==
  ASSUME ApertureInv, AllFree, NEW m \in SUBSET Created, IsSolution(m)
  PROVE  m \in Models
<1>1. maxVar \in Nat /\ \A D \in encodings : ClausesBelow(D, maxVar + 1)
  BY DEF ApertureInv, Shape
<1>2. Created \subseteq Var /\ Created \subseteq Nat \ {0} /\ m \in SUBSET Var
  BY LitFacts DEF Created
<1> DEFINE g == LiteralsOf(m) \cup {}
<1>3. g = m \cup {-v : v \in Created \ m}
  BY DEF LiteralsOf
<1>4. \A v \in Created : v \in Int \ {0} /\ -v \in Int \ {0} /\ v > 0 /\ ~(-v > 0) /\ -(-v) = v
  BY <1>2
<1>5. g \in SUBSET (Int \ {0})
  BY <1>3, <1>4
<1>6. \A M : (\A v \in Created : v \in M <=> v \in m) => g \subseteq TrueIn(M)
  BY <1>3, <1>4 DEF TrueIn, Holds
<1> HIDE DEF g
<1>7. ASSUME NEW D \in encodings PROVE Extends(D, g)
  <2>1. D \in Clauses /\ IsFiniteSet(UNION D)
    <3>1. Below(maxVar + 1) \subseteq Int \ {0}
      BY DEF Below
    <3> QED
      BY <1>1, <3>1 DEF ClausesBelow, Clauses
  <2>2. PICK M \in SUBSET Nat : (\A v \in Var : v \in M <=> v \in m) /\ Satisfied(M, D)
    BY <1>2 DEF AllFree, Free
  <2>3. g \subseteq TrueIn(M)
    BY <1>2, <1>6, <2>2
  <2> QED
    BY <1>5, <2>1, <2>2, <2>3, ExtendsIsSatisfiable
<1>8. EncodingsExtend(m, {})
  BY <1>7 DEF EncodingsExtend, g
<1> QED
  BY <1>8 DEF Models, ModelsUnder, HardModels, IsSolution

LEMMA CostsAreNatural ==
  ASSUME ApertureInv, NEW m
  PROVE  WeightedCost(m) \in Nat
<1> DEFINE h == {l \in Int \ {0} : Holds(m, l)}
<1>1. SoftOnce
  BY DEF ApertureInv, Shape
<1>2. \A wl \in WLits : wl[2] \in Int \ {0}
  BY <1>1, WLitsFacts, LitFacts
<1>3. \A wl \in WLits : wl[2] \in h <=> Holds(m, wl[2])
  BY <1>2
<1> HIDE DEF h
<1> QED
  BY <1>1, <1>3, CostByLiterals

LEMMA AnswerStep ==
  ASSUME ApertureInv, AllFree, [Next]_vars
  PROVE  AnswerIsRight
<1> SUFFICES ASSUME state = "SOLVING", state' \in {"OPTIMAL", "UNSAT"}
             PROVE  /\ state' = "OPTIMAL" =>
                         /\ IsSolution(Latest') /\ WeightedCost(Latest') = latest_value'
                         /\ \A m \in SUBSET Created :
                              IsSolution(m) => latest_value' <= WeightedCost(m)
                    /\ state' = "UNSAT" => \A m \in SUBSET Created : ~IsSolution(m)
  BY DEF AnswerIsRight
<1>1. \/ InitialUnsat /\ state' = "UNSAT"
      \/ AfterInitial \/ LocalSearchEnd \/ BeaverEnd
      \/ LsuOptimal /\ state' = "OPTIMAL"
  <2>1. ASSUME ClientStep PROVE FALSE
    BY <2>1 DEF ClientStep, AddHard, Assume, FinishHard, AddSoftLit, SetTerminate,
                SolveCalled, Input
  <2>2. ASSUME SolveError \/ ResetMaxSAT \/ InitialSat PROVE FALSE
    BY <2>2 DEF SolveError, ResetMaxSAT, InitialSat, Return
  <2>3. InitialUnsat => state' = "UNSAT"
    BY DEF InitialUnsat, Return
  <2>4. ASSUME \/ LocalSearchBuild \/ LocalSearchImprove
               \/ BeaverStart \/ PolosatImprove \/ PolosatEnd \/ AfterPolosat
               \/ Iterate \/ ObvImprove \/ ObvEnd
        PROVE  FALSE
    BY <2>4 DEF LocalSearchBuild, LocalSearchImprove, BeaverStart, PolosatImprove,
                PolosatEnd, AfterPolosat, Iterate, ObvImprove, ObvEnd
  <2>5. ASSUME EncodeTotalizer \/ EncodeComparator \/ LsuImprove PROVE FALSE
    BY <2>5 DEF EncodeTotalizer, EncodeComparator, LsuImprove, Return, Continue
  <2>6. LsuOptimal => state' = "OPTIMAL"
    BY DEF LsuOptimal, Return
  <2>7. ASSUME UNCHANGED vars PROVE FALSE
    BY <2>7 DEF vars
  <2> QED
    BY <2>1, <2>2, <2>3, <2>4, <2>5, <2>6, <2>7 DEF Next, SolverStep
<1>2. CASE InitialUnsat /\ state' = "UNSAT"
  BY <1>2, SolutionsAreModels DEF InitialUnsat
<1>3. CASE AfterInitial \/ LocalSearchEnd \/ BeaverEnd
  <2>1. /\ HasSolution /\ UNCHANGED <<latest_solution_, latest_value>>
        /\ ExitOr("build") \/ ExitOr("beaver") \/ ExitOr("encode")
    BY <1>3 DEF AfterInitial, LocalSearchEnd, BeaverEnd, HasSolution
  <2>2. state' = "OPTIMAL" /\ latest_value = 0
    BY <2>1 DEF ExitOr, Return, Continue
  <2>3. Latest' = Latest /\ latest_value' = 0
    BY <2>1, <2>2 DEF Latest
  <2>4. IsSolution(Latest) /\ WeightedCost(Latest) = 0
    BY <2>1, <2>2 DEF ApertureInv, Incumbent
  <2>5. \A m : 0 <= WeightedCost(m)
    BY CostsAreNatural
  <2> QED
    BY <2>2, <2>3, <2>4, <2>5
<1>4. CASE LsuOptimal /\ state' = "OPTIMAL"
  <2>1. /\ pc = "lsu" /\ ModelsUnder(Bound) = {} /\ UNCHANGED <<latest_solution_, latest_value>>
    BY <1>4 DEF LsuOptimal
  <2>2. Latest' = Latest /\ latest_value' = latest_value
    BY <2>1 DEF Latest
  <2>3. IsSolution(Latest) /\ WeightedCost(Latest) = latest_value
    BY <2>1 DEF ApertureInv, Incumbent, HasSolution
  <2>4. ASSUME NEW m \in SUBSET Created, IsSolution(m) PROVE latest_value <= WeightedCost(m)
    <3>1. ~(WeightedCost(m) < latest_value)
      BY <2>1, <2>4, BoundComplete
    <3>2. WeightedCost(m) \in Nat /\ WeightedCost(Latest) \in Nat
      BY CostsAreNatural
    <3> QED
      BY <2>3, <3>1, <3>2
  <2> QED
    BY <1>4, <2>2, <2>3, <2>4
<1> QED
  BY <1>1, <1>2, <1>3, <1>4

\* A solve that says OPTIMUM FOUND saves a solution and no solution is cheaper;
\* one that says UNSATISFIABLE has none (MaxSAT.cc:118-260, ipamir.h:131-136).
THEOREM AnswersAreRight ==
  Spec /\ []CostsFit /\ []LocalSearchKeeps /\ []VarsExistFirst => [][AnswerIsRight]_vars
<1>1. ApertureInv /\ AllFree /\ [Next]_vars => [AnswerIsRight]_vars
  BY AnswerStep
<1> QED
  BY <1>1, AllFreeInvariant, PTL DEF Spec

-----------------------------------------------------------------------------
(***************************************************************************)
(* What is reported until the next call.                                   *)
(***************************************************************************)
ReportInv ==
  /\ pc # "idle" => state = "SOLVING"
  /\ ReportedIsFeasible /\ ReportedCostsObjective

LEMMA ReportStays ==
  ASSUME ReportInv, UNCHANGED <<clauses_, soft_lits_, latest_solution_, latest_value, state>>,
         pc' # "idle" => pc # "idle"
  PROVE  ReportInv'
<1>1. Latest' = Latest /\ Reported' = Reported
  BY DEF Latest, Reported
<1>2. WeightedCost(Latest)' = WeightedCost(Latest)
  BY <1>1 DEF WeightedCost, SoftWeights
<1> QED
  BY <1>1, <1>2 DEF ReportInv, ReportedIsFeasible, ReportedCostsObjective

LEMMA NothingReported ==
  ASSUME state' \in {"INPUT", "UNSAT", "ERROR", "SOLVING"}, pc' # "idle" => state' = "SOLVING"
  PROVE  ReportInv'
  BY DEF ReportInv, ReportedIsFeasible, ReportedCostsObjective, Reported

LEMMA ReportStep ==
  ASSUME ApertureInv, ReportInv, [Next]_vars
  PROVE  ReportInv'
<1>1. CASE UNCHANGED vars
  BY <1>1, ReportStays DEF vars, client, found
<1>2. CASE ClientStep
  <2>1. CASE \E s : SetTerminate(s)
    BY <2>1, ReportStays DEF SetTerminate, found
  <2>2. CASE SolveCalled
    BY <2>2, NothingReported DEF SolveCalled
  <2>3. CASE \E l : AddHard(l) \/ Assume(l)
    BY <2>3, NothingReported DEF AddHard, Assume, Calls, Input
  <2>4. CASE FinishHard
    BY <2>4, NothingReported DEF FinishHard, Calls, Input
  <2>5. CASE \E l, w : AddSoftLit(l, w)
    BY <2>5, NothingReported DEF AddSoftLit, Calls, Input
  <2> QED
    BY <1>2, <2>1, <2>2, <2>3, <2>4, <2>5 DEF ClientStep
<1>3. CASE SolveError \/ InitialUnsat
  BY <1>3, NothingReported DEF SolveError, InitialUnsat, Return
<1>4. ASSUME NEW w, w # "idle", pc # "idle", Continue(w) PROVE ReportInv'
  BY <1>4, NothingReported DEF Continue, ReportInv
<1>5. CASE ResetMaxSAT \/ InitialSat
  BY <1>5, NothingReported DEF ResetMaxSAT, InitialSat, ReportInv
<1>6. CASE LocalSearchBuild \/ LocalSearchImprove
  BY <1>6, NothingReported DEF LocalSearchBuild, LocalSearchImprove, ReportInv
<1>7. CASE BeaverStart \/ PolosatImprove \/ PolosatEnd \/ AfterPolosat
           \/ Iterate \/ ObvImprove \/ ObvEnd
  <2>1. state' = state /\ pc # "idle"
    BY <1>7 DEF BeaverStart, PolosatImprove, PolosatEnd, AfterPolosat, Iterate, ObvImprove, ObvEnd
  <2> QED
    BY <2>1, NothingReported DEF ReportInv
<1>8. CASE EncodeTotalizer \/ EncodeComparator
  BY <1>4, <1>8 DEF EncodeTotalizer, EncodeComparator
<1>9. ASSUME HasSolution, Framed, UNCHANGED <<latest_solution_, latest_value>>, pc' = "idle"
      PROVE  ReportInv'
  <2>1. Latest' = Latest /\ clauses_' = clauses_ /\ soft_lits_' = soft_lits_
    BY <1>9 DEF Latest, Framed
  <2>2. IsSolution(Latest) /\ WeightedCost(Latest) = latest_value
    BY <1>9 DEF ApertureInv, Incumbent
  <2>3. WeightedCost(Latest)' = latest_value'
    BY <1>9, <2>1, <2>2 DEF WeightedCost, SoftWeights
  <2>4. \A i \in DOMAIN clauses_' : SatisfiesClause(Latest', ToSet(clauses_'[i]))
    BY <2>1, <2>2 DEF IsSolution
  <2> QED
    BY <1>9, <2>3, <2>4 DEF ReportInv, ReportedIsFeasible, ReportedCostsObjective
<1>10. CASE AfterInitial \/ LocalSearchEnd \/ BeaverEnd
  <2>1. /\ HasSolution /\ Framed /\ UNCHANGED <<latest_solution_, latest_value>> /\ pc # "idle"
        /\ ExitOr("build") \/ ExitOr("beaver") \/ ExitOr("encode")
    BY <1>10 DEF AfterInitial, LocalSearchEnd, BeaverEnd, HasSolution, Framed, client
  <2>2. pc' = "idle" \/ Continue("build") \/ Continue("beaver") \/ Continue("encode")
    BY <2>1 DEF ExitOr, Return
  <2> QED
    BY <1>4, <1>9, <2>1, <2>2
<1>11. CASE LsuOptimal
  BY <1>9, <1>11 DEF LsuOptimal, HasSolution, Framed, client, Return
<1>12. CASE LsuImprove
  <2>1. PICK m \in ModelsUnder(Bound) :
          LET least == IF WeightedCost(m) < latest_value THEN WeightedCost(m) ELSE latest_value
          IN  /\ Save(m)
              /\ latest_value' = least
              /\ Return("SAT") \/ Continue("lsu")
    BY <1>12 DEF LsuImprove
  <2>2. pc = "lsu" /\ Framed
    BY <1>12 DEF LsuImprove, Framed, client
  <2>3. /\ m \in SUBSET Created /\ IsSolution(m) /\ WeightedCost(m) < latest_value
    BY <2>2, BoundSound
  <2>4. CASE Continue("lsu")
    BY <1>4, <2>2, <2>4
  <2>5. CASE Return("SAT")
    <3>1. Latest' = m /\ latest_value' = WeightedCost(m) /\ pc' = "idle"
      BY <2>1, <2>3, <2>5, Saved DEF Return
    <3>2. WeightedCost(Latest)' = latest_value'
      BY <2>2, <3>1 DEF Framed, WeightedCost, SoftWeights
    <3>3. \A i \in DOMAIN clauses_' : SatisfiesClause(Latest', ToSet(clauses_'[i]))
      BY <2>2, <2>3, <3>1 DEF Framed, IsSolution
    <3> QED
      BY <3>1, <3>2, <3>3 DEF ReportInv, ReportedIsFeasible, ReportedCostsObjective
  <2> QED
    BY <2>1, <2>4, <2>5
<1> QED
  BY <1>1, <1>2, <1>3, <1>5, <1>6, <1>7, <1>8, <1>10, <1>11, <1>12 DEF Next, SolverStep

\* A solution that is reported satisfies the hard clauses and costs the objective
\* reported with it, until the client calls again, as long as local search hands
\* over such solutions and the objective's width is enough (ipamir.h:131-136, 162).
THEOREM ReportsAreSolutions ==
  Spec /\ []CostsFit /\ []LocalSearchKeeps => [](ReportedIsFeasible /\ ReportedCostsObjective)
<1>1. Init => ReportInv
  BY DEF Init, ReportInv, ReportedIsFeasible, ReportedCostsObjective, Reported
<1>2. ApertureInv /\ ReportInv /\ [Next]_vars => ReportInv'
  BY ReportStep
<1>3. ReportInv => ReportedIsFeasible /\ ReportedCostsObjective
  BY DEF ReportInv
<1> QED
  BY <1>1, <1>2, <1>3, ApertureInvariant, PTL DEF Spec

\* Without local search the answers are right whatever the client calls, as long
\* as the width is enough and it adds no variable after an encoding
\* (MaxSAT.cc:118-260, ipamir.h:131-136).
THEOREM AnswersWithoutLocalSearch ==
  ASSUME UseLocalSearch = FALSE
  PROVE  Spec /\ []CostsFit /\ []VarsExistFirst
           => [][AnswerIsRight]_vars /\ [](ReportedIsFeasible /\ ReportedCostsObjective)
BY NothingFromLocalSearch, AnswersAreRight, ReportsAreSolutions, PTL

-----------------------------------------------------------------------------
(***************************************************************************)
(* What the contract speaks of.                                            *)
(***************************************************************************)
\* The contract's words for data are Aperture's.
LEMMA ContractData ==
  /\ Contract!Lit = Lit
  /\ Contract!Assignment = Assignment
  /\ \A m, c : Contract!SatisfiesClause(m, c) <=> SatisfiesClause(m, c)
  /\ \A m, ls : Contract!SatisfiesAll(m, ls) <=> SatisfiesAll(m, ls)
  /\ \A m, v : Contract!Completes(m, v) <=> Completes(m, v)
  BY DEF Contract!Lit, Lit, Contract!Assignment, Assignment, Contract!Holds, Holds,
         Contract!SatisfiesClause, SatisfiesClause, Contract!SatisfiesAll, SatisfiesAll,
         Contract!Completes, Completes

LEMMA ContractCost == ASSUME NEW s, NEW m PROVE Contract!Cost(s, m) = Cost(s, m)
<1>1. ASSUME NEW f PROVE Contract!TotalWeight(f) = TotalWeight(f)
  BY DEF Contract!TotalWeight, TotalWeight, Contract!Restrict, Restrict,
         Contract!SumFunction, SumFunction, Contract!SumFunctionOnSet, SumFunctionOnSet,
         Contract!FoldFunctionOnSet, FoldFunctionOnSet, Contract!MapThenFoldSet, MapThenFoldSet
<1>2. {l \in DOMAIN s : Contract!Holds(m, l)} = {l \in DOMAIN s : Holds(m, l)}
  BY DEF Contract!Holds, Holds
<1> QED
  BY <1>1, <1>2 DEF Contract!Cost, Cost, Contract!Restrict, Restrict

\* The objective of the contract is the one Aperture minimises.
LEMMA ContractObjective ==
  ASSUME SoftOnce, NEW m
  PROVE  Contract!Cost(WeightOfAll(SoftWeights), m) = WeightedCost(m)
<1>1. SoftLits(soft_lits_) \subseteq Lit
  BY WLitsFacts
<1>2. DOMAIN SoftWeights \subseteq Lit
  BY <1>1 DEF SoftWeights
<1> QED
  BY <1>2, ContractCost, CostOfAll DEF WeightedCost

(***************************************************************************)
(* The calls: what they are about exists, and a solve is one state long.   *)
(***************************************************************************)
Exist(ls) == \A l \in ls : VarOf(l) <= maxVar

ClausesExist ==
  /\ current_clause_ \in Seq(Lit) /\ clauses_ \in Seq(Seq(Lit))
  /\ Exist(ToSet(current_clause_))
  /\ \A i \in DOMAIN clauses_ : Exist(ToSet(clauses_[i]))

CallInv ==
  /\ ClausesExist
  /\ assumptions_ \subseteq Lit
  /\ DOMAIN latest_solution_ \subseteq Var
  /\ state \in {"INPUT", "SAT", "OPTIMAL", "UNSAT", "ERROR", "SOLVING"}
  /\ pc # "idle" <=> state = "SOLVING"
  /\ pc \notin {"idle", "check"} => Valid

\* Variables that do not exist yet change nothing.
LEMMA OnlyCreated ==
  ASSUME NEW ls, ls \subseteq Lit, Exist(ls), NEW m
  PROVE  \A l \in ls : Holds(m \cap Created, l) <=> Holds(m, l)
<1> SUFFICES ASSUME NEW l \in ls
             PROVE  Holds(m \cap Created, l) <=> Holds(m, l)
  OBVIOUS
<1>1. VarOf(l) \in Var /\ VarOf(l) <= maxVar
  BY LitFacts DEF Exist
<1>2. VarOf(l) \in Created
  BY <1>1 DEF Created
<1> QED
  BY <1>2 DEF Holds, VarOf

LEMMA CreatedPart ==
  ASSUME CallInv, SoftOnce, Valid, NEW m
  PROVE  /\ IsSolution(m \cap Created) <=> IsSolution(m)
         /\ WeightedCost(m \cap Created) = WeightedCost(m)
<1> DEFINE k == m \cap Created
<1>1. ASSUME NEW i \in DOMAIN clauses_
      PROVE  SatisfiesClause(k, ToSet(clauses_[i])) <=> SatisfiesClause(m, ToSet(clauses_[i]))
  <2>1. clauses_[i] \in Seq(Lit) /\ Exist(ToSet(clauses_[i]))
    BY DEF CallInv, ClausesExist
  <2>2. ToSet(clauses_[i]) \subseteq Lit
    BY <2>1 DEF ToSet
  <2>3. \A l \in ToSet(clauses_[i]) : Holds(k, l) <=> Holds(m, l)
    BY <2>1, <2>2, OnlyCreated
  <2> QED
    BY <2>3 DEF SatisfiesClause
<1>2. SatisfiesAll(k, assumptions_) <=> SatisfiesAll(m, assumptions_)
  <2>1. assumptions_ \subseteq Lit /\ Exist(assumptions_)
    BY DEF CallInv, Valid, Exist
  <2>2. \A l \in assumptions_ : Holds(k, l) <=> Holds(m, l)
    BY <2>1, OnlyCreated
  <2> QED
    BY <2>2 DEF SatisfiesAll
<1>3. {l \in DOMAIN SoftWeights : Holds(k, l)} = {l \in DOMAIN SoftWeights : Holds(m, l)}
  <2>1. DOMAIN SoftWeights = SoftLits(soft_lits_) /\ SoftLits(soft_lits_) \subseteq Lit
    BY WLitsFacts DEF SoftWeights
  <2>2. Exist(SoftLits(soft_lits_))
    BY DEF Valid, Exist
  <2>3. \A l \in SoftLits(soft_lits_) : Holds(k, l) <=> Holds(m, l)
    BY <2>1, <2>2, OnlyCreated
  <2> QED
    BY <2>1, <2>3
<1>4. WeightedCost(k) = WeightedCost(m)
  BY <1>3 DEF WeightedCost, Cost
<1> HIDE DEF k
<1>5. IsSolution(k) <=> IsSolution(m)
  BY <1>1, <1>2 DEF IsSolution
<1> QED
  BY <1>4, <1>5 DEF k

\* The solutions of the contract.
LEMMA ContractSolutions ==
  Contract!Solutions = {m \in Assignment : IsSolution(m)}
<1>1. Contract!Solutions =
        {m \in {k \in Assignment :
                  \A i \in DOMAIN clauses_ : SatisfiesClause(k, ToSet(clauses_[i]))} :
           SatisfiesAll(m, assumptions_)}
  BY ContractData DEF Contract!Solutions
<1> QED
  BY <1>1 DEF IsSolution

-----------------------------------------------------------------------------
(***************************************************************************)
(* The invariant of the calls is kept.                                     *)
(***************************************************************************)
\* The client's literals stay as they are while a solve runs, and variables stay.
LEMMA SolverFrame ==
  ASSUME SolverStep
  PROVE  /\ UNCHANGED client /\ pc # "idle"
         /\ UNCHANGED maxVar \/ EncodeTotalizer \/ EncodeComparator
         /\ \/ pc' \notin {"idle", "check"} /\ UNCHANGED <<assumptions_, state>>
            \/ \E s \in {"SAT", "OPTIMAL", "UNSAT", "ERROR"} : Return(s)
         /\ pc = "check" => Valid \/ Return("ERROR")
         /\ pc # "check" => ~Return("ERROR")
<1>1. CASE SolveError \/ ResetMaxSAT \/ InitialUnsat \/ InitialSat
  BY <1>1 DEF SolveError, ResetMaxSAT, InitialUnsat, InitialSat, Return, client
<1>2. ASSUME NEW where \in {"build", "beaver", "encode"}, ExitOr(where)
      PROVE  \/ pc' \notin {"idle", "check"} /\ UNCHANGED <<assumptions_, state>>
             \/ Return("SAT") \/ Return("OPTIMAL")
  BY <1>2 DEF ExitOr, Continue
<1>3. Return("SAT") \/ Return("OPTIMAL") => ~Return("ERROR")
  BY DEF Return
<1>4. CASE AfterInitial
  BY <1>2, <1>3, <1>4 DEF AfterInitial, client, Return
<1>5. CASE LocalSearchEnd
  BY <1>2, <1>3, <1>5 DEF LocalSearchEnd, client, Return
<1>6. CASE BeaverEnd
  BY <1>2, <1>3, <1>6 DEF BeaverEnd, client, Return
<1>7. CASE LocalSearchBuild \/ LocalSearchImprove
  BY <1>7 DEF LocalSearchBuild, LocalSearchImprove, client, Return
<1>8. CASE BeaverStart \/ PolosatImprove \/ PolosatEnd
  BY <1>8 DEF BeaverStart, PolosatImprove, PolosatEnd, PolosatGoesOn, client, Return
<1>9. CASE AfterPolosat \/ Iterate \/ ObvImprove \/ ObvEnd
  BY <1>9 DEF AfterPolosat, Iterate, ObvImprove, ObvEnd, client, Return
<1>10. CASE EncodeTotalizer
  BY <1>10 DEF EncodeTotalizer, Continue, client, Return
<1>11. CASE EncodeComparator
  BY <1>11 DEF EncodeComparator, Continue, client, Return
<1>12. CASE LsuImprove
  <2>1. Return("SAT") \/ Continue("lsu")
    BY <1>12 DEF LsuImprove
  <2> QED
    BY <1>3, <1>12, <2>1 DEF LsuImprove, Continue, client, Return
<1>13. CASE LsuOptimal
  BY <1>3, <1>13 DEF LsuOptimal, client, Return
<1> QED
  BY <1>1, <1>4, <1>5, <1>6, <1>7, <1>8, <1>9, <1>10, <1>11, <1>12, <1>13 DEF SolverStep

\* No step takes a variable away.
LEMMA VarsStay ==
  ASSUME ApertureInv, CostsFit, [Next]_vars
  PROVE  maxVar \in Nat /\ maxVar' \in Nat /\ maxVar <= maxVar'
<1>1. maxVar \in Nat
  BY DEF ApertureInv, Shape
<1>2. CASE UNCHANGED maxVar
  BY <1>1, <1>2
<1>3. CASE EncodeTotalizer \/ EncodeComparator
  <2>0. PICK F : F = maxVar + 1
    OBVIOUS
  <2>1. PICK C : Grown(F, C, maxVar' + 1)
    BY <1>3, <2>0, EncodeKeeps
  <2>2. ApertureInv'
    BY <1>3, <2>0, EncodeKeeps
  <2>3. maxVar' \in Nat
    BY <2>2 DEF ApertureInv, Shape
  <2>4. F <= maxVar' + 1
    BY <2>1 DEF Grown
  <2>5. maxVar + 1 <= maxVar' + 1
    BY <2>0, <2>4
  <2>6. \A a, b \in Nat : a + 1 <= b + 1 => a <= b
    OBVIOUS
  <2>7. maxVar <= maxVar'
    BY <1>1, <2>3, <2>5, <2>6
  <2> QED
    BY <1>1, <2>3, <2>7
<1>4. ASSUME NEW l \in Lit, AddHard(l) PROVE maxVar' \in Nat /\ maxVar <= maxVar'
  <2>1. VarOf(l) \in Nat
    BY LitFacts
  <2> QED
    BY <1>1, <1>4, <2>1 DEF AddHard
<1>5. ClientStep => UNCHANGED maxVar \/ \E l \in Lit : AddHard(l)
  BY DEF ClientStep, FinishHard, AddSoftLit, Assume, SetTerminate, SolveCalled
<1> QED
  BY <1>1, <1>2, <1>3, <1>4, <1>5, SolverFrame DEF Next, vars

\* What exists goes on to exist.
LEMMA ExistStays ==
  ASSUME maxVar \in Nat, maxVar' \in Nat, maxVar <= maxVar', NEW ls, ls \subseteq Lit, Exist(ls)
  PROVE  \A l \in ls : VarOf(l) <= maxVar'
<1>1. \A l \in ls : VarOf(l) \in Nat /\ VarOf(l) <= maxVar
  BY LitFacts DEF Exist
<1> QED
  BY <1>1

LEMMA ClausesExistStep ==
  ASSUME ApertureInv, CallInv, CostsFit, [Next]_vars
  PROVE  ClausesExist'
<1>1. maxVar \in Nat /\ maxVar' \in Nat /\ maxVar <= maxVar'
  BY VarsStay
<1>2. ClausesExist
  BY DEF CallInv
<1>3. \A l \in ToSet(current_clause_) : l \in Lit /\ VarOf(l) <= maxVar'
  <2>1. ToSet(current_clause_) \subseteq Lit
    BY <1>2 DEF ClausesExist, ToSet
  <2> QED
    BY <1>1, <1>2, <2>1, ExistStays DEF ClausesExist
<1>4. ASSUME NEW i \in DOMAIN clauses_
      PROVE  \A l \in ToSet(clauses_[i]) : VarOf(l) <= maxVar'
  <2>1. clauses_[i] \in Seq(Lit)
    BY <1>2 DEF ClausesExist
  <2>2. ToSet(clauses_[i]) \subseteq Lit
    BY <2>1 DEF ToSet
  <2> QED
    BY <1>1, <1>2, <2>2, ExistStays DEF ClausesExist
<1>5. CASE UNCHANGED <<current_clause_, clauses_>>
  BY <1>2, <1>3, <1>4, <1>5 DEF ClausesExist, Exist
<1>6. ASSUME NEW l \in Lit, AddHard(l) PROVE ClausesExist'
  <2>1. current_clause_' = Append(current_clause_, l) /\ clauses_' = clauses_
        /\ maxVar' = IF VarOf(l) > maxVar THEN VarOf(l) ELSE maxVar
    BY <1>6 DEF AddHard
  <2>2. VarOf(l) \in Nat
    BY LitFacts
  <2>3. VarOf(l) <= maxVar'
    BY <1>1, <2>1, <2>2
  <2>4. current_clause_' \in Seq(Lit)
    BY <1>2, <2>1 DEF ClausesExist
  <2>5. ToSet(current_clause_') \subseteq ToSet(current_clause_) \cup {l}
    BY <1>2, <2>1 DEF ClausesExist, ToSet
  <2> QED
    BY <1>2, <1>3, <1>4, <2>1, <2>3, <2>4, <2>5 DEF ClausesExist, Exist
<1>7. CASE FinishHard
  <2>1. current_clause_' = <<>> /\ clauses_' = Append(clauses_, current_clause_)
    BY <1>7 DEF FinishHard
  <2>2. clauses_' \in Seq(Seq(Lit)) /\ current_clause_' \in Seq(Lit)
    BY <1>2, <2>1 DEF ClausesExist
  <2>3. ToSet(current_clause_') = {}
    BY <2>1 DEF ToSet
  <2>4. ASSUME NEW i \in DOMAIN clauses_'
        PROVE  \A l \in ToSet(clauses_'[i]) : VarOf(l) <= maxVar'
    <3>1. \/ i \in DOMAIN clauses_ /\ clauses_'[i] = clauses_[i]
          \/ clauses_'[i] = current_clause_
      BY <1>2, <2>1 DEF ClausesExist
    <3> QED
      BY <1>3, <1>4, <3>1
  <2> QED
    BY <2>2, <2>3, <2>4 DEF ClausesExist, Exist
<1>8. ClientStep => \/ UNCHANGED <<current_clause_, clauses_>>
                    \/ FinishHard \/ \E l \in Lit : AddHard(l)
  BY DEF ClientStep, AddSoftLit, Assume, SetTerminate, SolveCalled, client
<1> QED
  BY <1>5, <1>6, <1>7, <1>8, SolverFrame DEF Next, vars, client

LEMMA CallInvStep ==
  ASSUME ApertureInv, CallInv, CostsFit, [Next]_vars
  PROVE  CallInv'
<1>1. ClausesExist'
  BY ClausesExistStep
<1>2. maxVar \in Nat /\ maxVar' \in Nat /\ maxVar <= maxVar'
  BY VarsStay
<1>3. DOMAIN latest_solution_' \subseteq Var
  <2>1. (\E m : Save(m)) \/ latest_solution_' = NoSolution \/ UNCHANGED latest_solution_
    <3>1. ClientStep => UNCHANGED latest_solution_
      BY DEF ClientStep, AddHard, FinishHard, AddSoftLit, Assume, SetTerminate, SolveCalled,
             Input, found
    <3>2. SolverStep => (\E m : Save(m)) \/ latest_solution_' = NoSolution
                                         \/ UNCHANGED latest_solution_
      BY DEF SolverStep, SolveError, ResetMaxSAT, InitialUnsat, InitialSat, AfterInitial,
             LocalSearchBuild, LocalSearchImprove, LocalSearchEnd, BeaverStart,
             PolosatImprove, PolosatEnd, AfterPolosat, Iterate, ObvImprove, ObvEnd,
             BeaverEnd, EncodeTotalizer, EncodeComparator, LsuImprove, LsuOptimal, found
    <3> QED
      BY <3>1, <3>2 DEF Next, vars, found
  <2>2. DOMAIN NoSolution = {} /\ Created \subseteq Var
    BY DEF NoSolution, Created
  <2> QED
    BY <2>1, <2>2 DEF Save, CallInv
<1>4. CASE UNCHANGED vars
  BY <1>1, <1>3, <1>4 DEF CallInv, Valid, vars, client, found
<1>5. CASE ClientStep
  <2>1. state # "ERROR" /\ pc = "idle"
    BY <1>5 DEF ClientStep, AddHard, FinishHard, AddSoftLit, Assume, SetTerminate,
                SolveCalled, Calls
  <2>2. /\ assumptions_' \subseteq Lit
        /\ \/ pc' = "idle" /\ state' \in {"INPUT", state}
           \/ pc' = "check" /\ state' = "SOLVING"
    BY <1>5, <2>1 DEF ClientStep, AddHard, FinishHard, AddSoftLit, Assume, SetTerminate,
                      SolveCalled, Input, CallInv
  <2> QED
    BY <1>1, <1>3, <2>1, <2>2 DEF CallInv
<1>6. CASE SolverStep
  <2>1. CASE \E s \in {"SAT", "OPTIMAL", "UNSAT", "ERROR"} : Return(s)
    BY <1>1, <1>3, <2>1 DEF CallInv, Return
  <2>2. CASE pc' \notin {"idle", "check"} /\ UNCHANGED <<assumptions_, state>>
    <3>1. Valid /\ soft_lits_' = soft_lits_ /\ pc # "idle"
      <4>1. ~Return("ERROR")
        BY <2>2 DEF Return
      <4> QED
        BY <1>6, <4>1, SolverFrame DEF CallInv, client
    <3>2. SoftOnce
      BY DEF ApertureInv, Shape
    <3>3. assumptions_ \cup SoftLits(soft_lits_) \subseteq Lit
      BY <3>2, WLitsFacts DEF CallInv
    <3>4. Exist(assumptions_ \cup SoftLits(soft_lits_))
      BY <3>1 DEF Valid, Exist
    <3>5. \A l \in assumptions_ \cup SoftLits(soft_lits_) : VarOf(l) <= maxVar'
      BY <1>2, <3>3, <3>4, ExistStays
    <3>6. Valid'
      BY <2>2, <3>1, <3>5 DEF Valid
    <3> QED
      BY <1>1, <1>3, <2>2, <3>1, <3>6 DEF CallInv
  <2> QED
    BY <1>6, <2>1, <2>2, SolverFrame
<1> QED
  BY <1>4, <1>5, <1>6 DEF Next

-----------------------------------------------------------------------------
(***************************************************************************)
(* Every step is one the contract allows.                                  *)
(***************************************************************************)
LEMMA CallInit ==
  ASSUME Init
  PROVE  CallInv /\ Contract!Init
<1>1. /\ current_clause_ = <<>> /\ clauses_ = <<>> /\ soft_lits_ = <<>> /\ assumptions_ = {}
      /\ terminate_ = "none" /\ latest_solution_ = NoSolution /\ pc = "idle"
      /\ state = "INPUT"
  BY DEF Init
<1>2. ToSet(current_clause_) = {} /\ DOMAIN clauses_ = {} /\ SoftLits(soft_lits_) = {}
  BY <1>1 DEF ToSet, SoftLits
<1>3. <<>> \in Seq(Lit) /\ <<>> \in Seq(Seq(Lit))
  OBVIOUS
<1>4. DOMAIN NoSolution = {}
  BY DEF NoSolution
<1>5. CallInv
  BY <1>1, <1>2, <1>3, <1>4 DEF CallInv, ClausesExist, Exist
<1>6. {m \in Assignment : \A i \in DOMAIN clauses_ : SatisfiesClause(m, ToSet(clauses_[i]))}
        = Contract!Assignment
  BY <1>2, ContractData
<1>7. WeightOfAll(SoftWeights) = [l \in Contract!Lit |-> 0]
  BY <1>2, ContractData DEF WeightOfAll, SoftWeights
<1>8. ~Valid = FALSE
  BY <1>1, <1>2 DEF Valid
<1> QED
  BY <1>1, <1>2, <1>5, <1>6, <1>7, <1>8 DEF Contract!Init, Contract!NoValue

\* The weight of a literal is the one it is listed with.
LEMMA ListedWeight ==
  ASSUME NEW s, \A i, j \in DOMAIN s : s[i][2] = s[j][2] => i = j
  PROVE  \A i \in DOMAIN s : WeightIn(s, s[i][2]) = s[i][1]
<1> SUFFICES ASSUME NEW i \in DOMAIN s
             PROVE  WeightIn(s, s[i][2]) = s[i][1]
  OBVIOUS
<1> DEFINE j == CHOOSE k \in DOMAIN s : s[k][2] = s[i][2]
<1>1. j \in DOMAIN s /\ s[j][2] = s[i][2]
  OBVIOUS
<1>2. WeightIn(s, s[i][2]) = s[j][1]
  BY DEF WeightIn
<1> HIDE DEF j
<1>3. j = i
  BY <1>1
<1> QED
  BY <1>2, <1>3

LEMMA SoftDeclared ==
  ASSUME SoftOnce, SoftOnce', NEW l \in Lit, NEW w \in Weight,
         soft_lits_' = IF l \in SoftLits(soft_lits_)
                       THEN [i \in DOMAIN soft_lits_ |->
                               IF soft_lits_[i][2] = l THEN <<w, l>> ELSE soft_lits_[i]]
                       ELSE Append(soft_lits_, <<w, l>>)
  PROVE  WeightOfAll(SoftWeights)' = [WeightOfAll(SoftWeights) EXCEPT ![l] = w]
<1>s. PICK s : s = soft_lits_
  OBVIOUS
<1>t. PICK t : t = soft_lits_'
  OBVIOUS
<1>1. /\ s \in Seq(Weight \X Lit) /\ \A i, j \in DOMAIN s : s[i][2] = s[j][2] => i = j
      /\ t \in Seq(Weight \X Lit) /\ \A i, j \in DOMAIN t : t[i][2] = t[j][2] => i = j
  <2>1. s \in Seq(Weight \X Lit) /\ \A i, j \in DOMAIN s : s[i][2] = s[j][2] => i = j
    <3>1. /\ soft_lits_ \in Seq(Weight \X Lit)
          /\ \A i, j \in DOMAIN soft_lits_ : soft_lits_[i][2] = soft_lits_[j][2] => i = j
      BY DEF SoftOnce
    <3> QED
      BY <1>s, <3>1, Zenon
  <2>2. t \in Seq(Weight \X Lit) /\ \A i, j \in DOMAIN t : t[i][2] = t[j][2] => i = j
    <3>1. /\ soft_lits_' \in Seq(Weight \X Lit)
          /\ \A i, j \in DOMAIN soft_lits_' : soft_lits_'[i][2] = soft_lits_'[j][2] => i = j
      BY DEF SoftOnce
    <3> QED
      BY <1>t, <3>1, Zenon
  <2> QED
    BY <2>1, <2>2
<1>2. /\ \A i \in DOMAIN s : WeightIn(s, s[i][2]) = s[i][1]
      /\ \A i \in DOMAIN t : WeightIn(t, t[i][2]) = t[i][1]
  <2>1. \A i \in DOMAIN s : WeightIn(s, s[i][2]) = s[i][1]
    BY <1>1, ListedWeight
  <2>2. \A i \in DOMAIN t : WeightIn(t, t[i][2]) = t[i][1]
    <3>1. \A i, j \in DOMAIN t : t[i][2] = t[j][2] => i = j
      BY <1>1
    <3> QED
      BY <3>1, ListedWeight
  <2> QED
    BY <2>1, <2>2
<1>3. /\ WeightOfAll(SoftWeights) =
           [k \in Lit |-> IF k \in SoftLits(s) THEN WeightIn(s, k) ELSE 0]
      /\ WeightOfAll(SoftWeights)' =
           [k \in Lit |-> IF k \in SoftLits(t) THEN WeightIn(t, k) ELSE 0]
  BY <1>s, <1>t DEF WeightOfAll, SoftWeights
<1>4. /\ \A k \in Lit : k \in SoftLits(s) <=> \E i \in DOMAIN s : s[i][2] = k
      /\ \A k \in Lit : k \in SoftLits(t) <=> \E i \in DOMAIN t : t[i][2] = k
  BY DEF SoftLits
<1>5. /\ \A i \in DOMAIN s : i \in DOMAIN t /\ t[i][2] = s[i][2]
                             /\ (s[i][2] # l => t[i] = s[i])
                             /\ (s[i][2] = l => t[i][1] = w)
      /\ \E i \in DOMAIN t : t[i][2] = l /\ t[i][1] = w
      /\ \A i \in DOMAIN t : i \in DOMAIN s \/ t[i][2] = l
  <2>1. CASE l \in SoftLits(s)
    <3>1. t = [i \in DOMAIN s |-> IF s[i][2] = l THEN <<w, l>> ELSE s[i]]
      BY <1>s, <1>t, <2>1
    <3>2. DOMAIN t = DOMAIN s
      BY <3>1
    <3>3. \A i \in DOMAIN s : t[i] = IF s[i][2] = l THEN <<w, l>> ELSE s[i]
      BY <3>1
    <3>4. PICK i \in DOMAIN s : s[i][2] = l
      BY <1>4, <2>1
    <3> QED
      BY <3>2, <3>3, <3>4
  <2>2. CASE l \notin SoftLits(s)
    <3>1. t = Append(s, <<w, l>>)
      BY <1>s, <1>t, <2>2
    <3>2. DOMAIN s = 1 .. Len(s) /\ Len(s) \in Nat /\ DOMAIN t = 1 .. Len(s) + 1
      BY <1>1, <3>1
    <3>3. t[Len(s) + 1] = <<w, l>> /\ \A i \in DOMAIN s : t[i] = s[i]
      BY <1>1, <3>1
    <3>4. \A i \in DOMAIN s : s[i][2] # l
      BY <1>4, <2>2
    <3>5. Len(s) + 1 \in DOMAIN t /\ \A i \in DOMAIN t : i \in DOMAIN s \/ i = Len(s) + 1
      BY <3>2
    <3> QED
      BY <3>2, <3>3, <3>4, <3>5
  <2> QED
    BY <2>1, <2>2
<1>6. ASSUME NEW k \in Lit
      PROVE  (IF k \in SoftLits(t) THEN WeightIn(t, k) ELSE 0) =
               IF k = l THEN w ELSE IF k \in SoftLits(s) THEN WeightIn(s, k) ELSE 0
  <2>1. CASE k = l
    <3>1. PICK i \in DOMAIN t : t[i][2] = l /\ t[i][1] = w
      BY <1>5
    <3>2. WeightIn(t, t[i][2]) = t[i][1]
      BY <1>2
    <3>3. k \in SoftLits(t)
      BY <1>4, <2>1, <3>1
    <3> QED
      BY <2>1, <3>1, <3>2, <3>3
  <2>2. CASE k # l /\ k \in SoftLits(s)
    <3>1. PICK i \in DOMAIN s : s[i][2] = k
      BY <1>4, <2>2
    <3>2. i \in DOMAIN t /\ t[i] = s[i]
      BY <1>5, <2>2, <3>1
    <3>3. WeightIn(s, s[i][2]) = s[i][1] /\ WeightIn(t, t[i][2]) = t[i][1]
      BY <1>2, <3>2
    <3>4. k \in SoftLits(t)
      <4>1. t[i][2] = k
        BY <3>1, <3>2
      <4> QED
        BY <1>4, <3>2, <4>1
    <3> QED
      BY <2>2, <3>1, <3>2, <3>3, <3>4
  <2>3. CASE k # l /\ k \notin SoftLits(s)
    <3>1. ASSUME k \in SoftLits(t) PROVE FALSE
      <4>1. PICK i \in DOMAIN t : t[i][2] = k
        BY <1>4, <3>1
      <4>2. i \in DOMAIN s
        BY <1>5, <2>3, <4>1
      <4>3. s[i][2] = k
        BY <1>5, <4>1, <4>2
      <4> QED
        BY <1>4, <2>3, <4>2, <4>3
    <3> QED
      BY <2>3, <3>1
  <2> QED
    BY <2>1, <2>2, <2>3
<1> QED
  BY <1>3, <1>6

LEMMA AppendedSet ==
  ASSUME NEW S, NEW s \in Seq(S), NEW x \in S
  PROVE  ToSet(Append(s, x)) = ToSet(s) \cup {x}
<1>1. DOMAIN s = 1 .. Len(s) /\ Len(s) \in Nat /\ DOMAIN Append(s, x) = 1 .. Len(s) + 1
  OBVIOUS
<1>2. Append(s, x)[Len(s) + 1] = x /\ \A i \in DOMAIN s : Append(s, x)[i] = s[i]
  OBVIOUS
<1>3. /\ Len(s) + 1 \in DOMAIN Append(s, x)
      /\ \A i \in DOMAIN Append(s, x) : i \in DOMAIN s \/ i = Len(s) + 1
      /\ \A i \in DOMAIN s : i \in DOMAIN Append(s, x)
  BY <1>1
<1> QED
  BY <1>2, <1>3 DEF ToSet

LEMMA ClientContracted ==
  ASSUME ApertureInv, ApertureInv', CallInv, ClientStep
  PROVE  Contract!Next
<1>1. pc = "idle" /\ state \in Contract!Callable
  <2>1. pc = "idle" /\ state # "ERROR"
    BY DEF ClientStep, AddHard, FinishHard, AddSoftLit, Assume, SetTerminate, SolveCalled, Calls
  <2> QED
    BY <2>1 DEF CallInv, Contract!Callable
<1>2. SoftOnce /\ SoftOnce'
  BY DEF ApertureInv, Shape
<1>3. ASSUME Input, terminate_' = terminate_ PROVE Contract!Input
  BY <1>1, <1>3 DEF Input, Contract!Input, Contract!NoValue
<1>4. ASSUME NEW l \in Lit, AddHard(l) PROVE Contract!AddHard(l)
  <2>1. Contract!Input
    BY <1>3, <1>4 DEF AddHard, Input
  <2>2. ToSet(current_clause_)' = ToSet(current_clause_) \cup {l}
    <3>1. current_clause_ \in Seq(Lit) /\ current_clause_' = Append(current_clause_, l)
      BY <1>4 DEF AddHard, CallInv, ClausesExist
    <3> QED
      BY <3>1, AppendedSet
  <2> QED
    BY <1>4, <2>1, <2>2 DEF AddHard, Contract!AddHard, SoftWeights
<1>5. ASSUME FinishHard PROVE Contract!FinishHard
  <2>1. Contract!Input
    BY <1>3, <1>5 DEF FinishHard, Input
  <2>2. current_clause_' = <<>> /\ clauses_' = Append(clauses_, current_clause_)
        /\ soft_lits_' = soft_lits_ /\ assumptions_' = assumptions_
    BY <1>5 DEF FinishHard
  <2>3. ToSet(current_clause_)' = {}
    BY <2>2 DEF ToSet
  <2>4. clauses_ \in Seq(Seq(Lit)) /\ current_clause_ \in Seq(Lit)
    BY DEF CallInv, ClausesExist
  <2>5. /\ DOMAIN clauses_' = DOMAIN clauses_ \cup {Len(clauses_) + 1}
        /\ \A i \in DOMAIN clauses_ : clauses_'[i] = clauses_[i]
        /\ clauses_'[Len(clauses_) + 1] = current_clause_
    BY <2>2, <2>4
  <2>6. \A m : (\A i \in DOMAIN clauses_' : SatisfiesClause(m, ToSet(clauses_'[i])))
               <=> /\ \A i \in DOMAIN clauses_ : SatisfiesClause(m, ToSet(clauses_[i]))
                   /\ SatisfiesClause(m, ToSet(current_clause_))
    BY <2>5
  <2>7. {m \in Assignment :
           \A i \in DOMAIN clauses_' : SatisfiesClause(m, ToSet(clauses_'[i]))}
        = {m \in {k \in Assignment :
                    \A i \in DOMAIN clauses_ : SatisfiesClause(k, ToSet(clauses_[i]))} :
             Contract!SatisfiesClause(m, ToSet(current_clause_))}
    BY <2>6, ContractData
  <2> QED
    BY <2>1, <2>2, <2>3, <2>7 DEF Contract!FinishHard, SoftWeights
<1>6. ASSUME NEW l \in Lit, NEW w \in Weight, AddSoftLit(l, w) PROVE Contract!AddSoftLit(l, w)
  <2>1. Contract!Input
    BY <1>3, <1>6 DEF AddSoftLit, Input
  <2>2. WeightOfAll(SoftWeights)' = [WeightOfAll(SoftWeights) EXCEPT ![l] = w]
    BY <1>2, <1>6, SoftDeclared DEF AddSoftLit
  <2> QED
    BY <1>6, <2>1, <2>2 DEF AddSoftLit, Contract!AddSoftLit
<1>7. ASSUME NEW l \in Lit, Assume(l) PROVE Contract!Assume(l)
  <2>1. Contract!Input
    BY <1>3, <1>7 DEF Assume, Input
  <2> QED
    BY <1>7, <2>1 DEF Assume, Contract!Assume, SoftWeights
<1>8. ASSUME NEW s, SetTerminate(s) PROVE Contract!SetTerminate
  <2>1. /\ UNCHANGED <<current_clause_, clauses_, maxVar, soft_lits_, assumptions_>>
        /\ UNCHANGED <<latest_solution_, latest_value, state>>
    BY <1>8 DEF SetTerminate, found
  <2>2. SoftWeights' = SoftWeights /\ Valid' = Valid
    BY <2>1 DEF SoftWeights, Valid
  <2> QED
    BY <1>1, <2>1, <2>2 DEF Contract!SetTerminate
<1>9. ASSUME SolveCalled PROVE Contract!SolveCalled
  <2>1. /\ UNCHANGED <<current_clause_, clauses_, maxVar, soft_lits_, assumptions_, terminate_>>
        /\ state' = "SOLVING"
    BY <1>9 DEF SolveCalled, client
  <2>2. SoftWeights' = SoftWeights /\ Valid' = Valid
    BY <2>1 DEF SoftWeights, Valid
  <2> QED
    BY <1>1, <2>1, <2>2 DEF Contract!SolveCalled, Contract!NoValue
<1>10. CASE \E l \in Lit : AddHard(l) \/ Assume(l)
  BY <1>4, <1>7, <1>10, ContractData DEF Contract!Next
<1>11. CASE FinishHard \/ SolveCalled \/ \E s \in {"none", "client"} : SetTerminate(s)
  BY <1>5, <1>8, <1>9, <1>11 DEF Contract!Next
<1>12. CASE \E l \in Lit, w \in Weight : AddSoftLit(l, w)
  BY <1>6, <1>12, ContractData DEF Contract!Next
<1> QED
  BY <1>10, <1>11, <1>12 DEF ClientStep

\* A step within a solve is none to the client.
LEMMA QuietStep ==
  ASSUME CallInv, CallInv', SolverStep, pc' \notin {"idle", "check"},
         UNCHANGED <<assumptions_, state>>
  PROVE  UNCHANGED Contract!vars
<1>1. UNCHANGED <<current_clause_, clauses_, soft_lits_, terminate_>> /\ pc # "idle"
  BY SolverFrame DEF client
<1>2. ~Return("ERROR")
  BY DEF Return
<1>3. Valid' = Valid
  <2>1. Valid
    BY <1>1, <1>2, SolverFrame DEF CallInv
  <2>2. Valid'
    BY DEF CallInv
  <2> QED
    BY <2>1, <2>2 DEF Valid
<1>4. state = "SOLVING" /\ state' = "SOLVING"
  BY <1>1 DEF CallInv
<1>5. SoftWeights' = SoftWeights
  BY <1>1 DEF SoftWeights
<1> QED
  BY <1>1, <1>3, <1>4, <1>5 DEF Contract!vars

\* A solution that is saved can be read as one.
LEMMA ReadAsSolution ==
  ASSUME CallInv, CallInv', SoftOnce, state' \in {"SAT", "OPTIMAL"},
         IsSolution(Latest'), WeightedCost(Latest') = latest_value'
  PROVE  Contract!ReportsSolution
<1> PICK m : m = Latest'
  OBVIOUS
<1>1. DOMAIN latest_solution_' \subseteq Var
  BY DEF CallInv
<1>2. m = {v \in DOMAIN latest_solution_' : latest_solution_'[v]}
  BY DEF Latest
<1>3. m \in Assignment
  BY <1>1, <1>2 DEF Assignment
<1>4. m \in Contract!Solutions
  BY <1>3, ContractSolutions
<1>5. Contract!Completes(m, [v \in Var |-> IF state' \notin {"SAT", "OPTIMAL"}
                                              \/ v \notin DOMAIN latest_solution_' THEN 0
                                           ELSE IF latest_solution_'[v] THEN 1 ELSE -1])
  BY <1>2, ContractData DEF Completes
<1>6. latest_value' = Contract!Cost(WeightOfAll(SoftWeights), m)
  BY ContractObjective
<1> QED
  BY <1>4, <1>5, <1>6 DEF Contract!ReportsSolution

\* An interrupted solve has saved a solution, too.
LEMMA FeasibleStep ==
  ASSUME ApertureInv, SolverStep, pc # "idle", state = "SOLVING", state' = "SAT"
  PROVE  IsSolution(Latest') /\ WeightedCost(Latest') = latest_value'
<1>1. AfterInitial \/ LocalSearchEnd \/ BeaverEnd \/ LsuImprove
  <2>1. ASSUME SolveError \/ ResetMaxSAT \/ InitialUnsat \/ InitialSat \/ LsuOptimal PROVE FALSE
    BY <2>1 DEF SolveError, ResetMaxSAT, InitialUnsat, InitialSat, LsuOptimal, Return
  <2>2. ASSUME \/ LocalSearchBuild \/ LocalSearchImprove
               \/ BeaverStart \/ PolosatImprove \/ PolosatEnd \/ AfterPolosat
               \/ Iterate \/ ObvImprove \/ ObvEnd
        PROVE  FALSE
    BY <2>2 DEF LocalSearchBuild, LocalSearchImprove, BeaverStart, PolosatImprove,
                PolosatEnd, AfterPolosat, Iterate, ObvImprove, ObvEnd
  <2>3. ASSUME EncodeTotalizer \/ EncodeComparator PROVE FALSE
    BY <2>3 DEF EncodeTotalizer, EncodeComparator, Continue
  <2> QED
    BY <2>1, <2>2, <2>3 DEF SolverStep
<1>2. CASE AfterInitial \/ LocalSearchEnd \/ BeaverEnd
  <2>1. HasSolution /\ UNCHANGED <<latest_solution_, latest_value>>
    BY <1>2 DEF AfterInitial, LocalSearchEnd, BeaverEnd, HasSolution
  <2>2. Latest' = Latest /\ latest_value' = latest_value
    BY <2>1 DEF Latest
  <2> QED
    BY <2>1, <2>2 DEF ApertureInv, Incumbent
<1>3. CASE LsuImprove
  <2>1. PICK m \in ModelsUnder(Bound) :
          LET least == IF WeightedCost(m) < latest_value THEN WeightedCost(m) ELSE latest_value
          IN  Save(m) /\ latest_value' = least
    BY <1>3 DEF LsuImprove
  <2>2. pc = "lsu"
    BY <1>3 DEF LsuImprove
  <2>3. m \in SUBSET Created /\ IsSolution(m) /\ WeightedCost(m) < latest_value
    BY <2>2, BoundSound
  <2>4. Latest' = m
    BY <2>1, <2>3, Saved
  <2> QED
    BY <2>1, <2>3, <2>4
<1> QED
  BY <1>1, <1>2, <1>3

\* What a solve returns is what the contract allows.
LEMMA ReturnContracted ==
  ASSUME ApertureInv, AllFree, CallInv, CallInv', SolverStep, [Next]_vars,
         NEW s \in {"SAT", "OPTIMAL", "UNSAT", "ERROR"}, Return(s),
         s = "SAT" => terminate_ # "none"
  PROVE  Contract!SolveReturns
<1>1. /\ UNCHANGED <<current_clause_, clauses_, soft_lits_, terminate_>> /\ pc # "idle"
      /\ state = "SOLVING" /\ state' = s /\ assumptions_' = {}
  BY SolverFrame DEF client, Return, CallInv
<1>2. SoftOnce
  BY DEF ApertureInv, Shape
<1>3. SoftWeights' = SoftWeights
  BY <1>1 DEF SoftWeights
<1>4. Contract!Optimal \/ Contract!Feasible \/ Contract!Infeasible \/ Contract!Unsupported
      => Contract!SolveReturns
  BY <1>1, <1>3 DEF Contract!SolveReturns
<1>5. s \in {"UNSAT", "ERROR"} => Contract!ReportsNothing
  BY <1>1 DEF Contract!ReportsNothing, Contract!NoValue
<1>6. AnswerIsRight
  BY AnswerStep
<1>7. pc = "check" \/ Valid
  BY <1>1 DEF CallInv
<1>8. CASE s = "ERROR"
  <2>1. ~Valid
    <3>1. pc = "check"
      BY <1>8, SolverFrame
    <3>2. SolveError
      BY <1>1, <1>8, <3>1 DEF SolverStep, ResetMaxSAT, InitialUnsat, InitialSat, AfterInitial,
             LocalSearchBuild, LocalSearchImprove, LocalSearchEnd, BeaverStart,
             PolosatImprove, PolosatEnd, AfterPolosat, Iterate, ObvImprove, ObvEnd,
             BeaverEnd, EncodeTotalizer, EncodeComparator, LsuImprove, LsuOptimal
    <3> QED
      BY <3>2 DEF SolveError
  <2>2. Contract!Unsupported
    BY <1>1, <1>5, <1>8, <2>1 DEF Contract!Unsupported
  <2> QED
    BY <1>4, <2>2
<1>9. s # "ERROR" => Valid
  <2>1. s # "ERROR" => ~Return("ERROR")
    BY <1>1 DEF Return
  <2> QED
    BY <1>7, <2>1, SolverFrame
<1>10. CASE s = "UNSAT"
  <2>1. \A m \in SUBSET Created : ~IsSolution(m)
    BY <1>1, <1>6, <1>10 DEF AnswerIsRight
  <2>2. ASSUME NEW m \in Assignment PROVE ~IsSolution(m)
    <3>1. m \cap Created \in SUBSET Created
      OBVIOUS
    <3>2. IsSolution(m \cap Created) <=> IsSolution(m)
      BY <1>2, <1>9, <1>10, CreatedPart
    <3> QED
      BY <2>1, <3>1, <3>2
  <2>3. Contract!Solutions = {}
    BY <2>2, ContractSolutions
  <2>4. Contract!Infeasible
    BY <1>1, <1>5, <1>10, <2>3 DEF Contract!Infeasible
  <2> QED
    BY <1>4, <2>4
<1>11. CASE s = "OPTIMAL"
  <2>1. /\ IsSolution(Latest') /\ WeightedCost(Latest') = latest_value'
        /\ \A m \in SUBSET Created : IsSolution(m) => latest_value' <= WeightedCost(m)
    BY <1>1, <1>6, <1>11 DEF AnswerIsRight
  <2>2. Contract!ReportsSolution
    BY <1>1, <1>2, <1>11, <2>1, ReadAsSolution
  <2>3. ASSUME NEW m \in Contract!Solutions
        PROVE  latest_value' <= Contract!Cost(WeightOfAll(SoftWeights), m)
    <3>1. IsSolution(m)
      BY ContractSolutions
    <3>2. IsSolution(m \cap Created) /\ WeightedCost(m \cap Created) = WeightedCost(m)
      BY <1>2, <1>9, <1>11, <3>1, CreatedPart
    <3>3. latest_value' <= WeightedCost(m)
      BY <2>1, <3>2
    <3> QED
      BY <1>2, <3>3, ContractObjective
  <2>4. Contract!Optimal
    BY <1>1, <1>11, <2>2, <2>3 DEF Contract!Optimal
  <2> QED
    BY <1>4, <2>4
<1>12. CASE s = "SAT"
  <2>1. IsSolution(Latest') /\ WeightedCost(Latest') = latest_value'
    BY <1>1, <1>12, FeasibleStep
  <2>2. Contract!ReportsSolution
    BY <1>1, <1>2, <1>12, <2>1, ReadAsSolution
  <2>3. Contract!Feasible
    BY <1>1, <1>12, <2>2 DEF Contract!Feasible
  <2> QED
    BY <1>4, <2>3
<1> QED
  BY <1>8, <1>10, <1>11, <1>12

LEMMA StepContracted ==
  ASSUME ApertureInv, ApertureInv', AllFree, CallInv, CallInv', [Next]_vars,
         [state = "SOLVING" /\ state' = "SAT" => terminate_ # "none"]_vars
  PROVE  [Contract!Next]_(Contract!vars)
<1>1. CASE UNCHANGED vars
  <2>1. /\ UNCHANGED <<current_clause_, clauses_, soft_lits_, terminate_, maxVar, assumptions_>>
        /\ UNCHANGED <<latest_solution_, latest_value, state>>
    BY <1>1 DEF vars, client, found
  <2>2. SoftWeights' = SoftWeights /\ Valid' = Valid
    BY <2>1 DEF SoftWeights, Valid
  <2> QED
    BY <2>1, <2>2 DEF Contract!vars
<1>2. CASE ClientStep
  BY <1>2, ClientContracted
<1>3. CASE SolverStep
  <2>1. CASE pc' \notin {"idle", "check"} /\ UNCHANGED <<assumptions_, state>>
    BY <1>3, <2>1, QuietStep
  <2>2. ASSUME NEW s \in {"SAT", "OPTIMAL", "UNSAT", "ERROR"}, Return(s)
        PROVE  Contract!SolveReturns
    <3>1. state = "SOLVING" /\ state' = s
      BY <1>3, <2>2, SolverFrame DEF CallInv, Return
    <3>2. vars' # vars
      BY <3>1 DEF vars
    <3>3. s = "SAT" => terminate_ # "none"
      BY <3>1, <3>2
    <3> QED
      BY <1>3, <2>2, <3>3, ReturnContracted
  <2> QED
    BY <1>3, <2>1, <2>2, SolverFrame DEF Contract!Next
<1> QED
  BY <1>1, <1>2, <1>3 DEF Next

\* Aperture answers as ipamir.h promises, whatever the client calls, if local
\* search hands over solutions that cost what it says, costs fit the width, no
\* variable is added after an encoding, and no solve without a callback ends
\* with 10: nothing else can go wrong (AIpamirWrapper.cc:8-130, MaxSAT.cc:118-260).
THEOREM ApertureContracted ==
  Spec /\ []CostsFit /\ []LocalSearchKeeps /\ []VarsExistFirst /\ SatMeansInterrupted
    => MeetsContract
<1>1. Init => CallInv /\ Contract!Init
  BY CallInit
<1>2. ApertureInv /\ CallInv /\ CostsFit /\ [Next]_vars => CallInv'
  BY CallInvStep
<1>3. ApertureInv /\ ApertureInv' /\ AllFree /\ CallInv /\ CallInv' /\ [Next]_vars
        /\ [state = "SOLVING" /\ state' = "SAT" => terminate_ # "none"]_vars
      => [Contract!Next]_(Contract!vars)
  BY StepContracted
<1> QED
  BY <1>1, <1>2, <1>3, AllFreeInvariant, PTL
     DEF Spec, SatMeansInterrupted, MeetsContract, Contract!Spec

\* Without local search the first of these hypotheses is none.
THEOREM ContractWithoutLocalSearch ==
  ASSUME UseLocalSearch = FALSE
  PROVE  Spec /\ []CostsFit /\ []VarsExistFirst /\ SatMeansInterrupted => MeetsContract
BY NothingFromLocalSearch, ApertureContracted, PTL
=============================================================================
