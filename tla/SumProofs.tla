----------------------------- MODULE SumProofs -----------------------------
(***************************************************************************)
(* Sums of the values of a function over a finite set (SumFunctionOnSet of *)
(* the community modules), which is what the cost of an assignment, the    *)
(* charges of a core-guided search and what an assignment still owes are.  *)
(* Induction over a finite set is the choice of a smallest counterexample. *)
(***************************************************************************)
EXTENDS MaxSatInstance, FiniteSetTheorems, TLAPS

(***************************************************************************)
(* Induction.                                                              *)
(***************************************************************************)
\* A set G of finite sets that holds every set all of whose subsets with one
\* element less it holds, holds them all.
LEMMA SetInduction ==
  ASSUME NEW S, IsFiniteSet(S), NEW G,
         \A T \in SUBSET S : (\A x \in T : T \ {x} \in G) => T \in G
  PROVE  S \in G
<1> DEFINE B == (SUBSET S) \ G
<1> SUFFICES ASSUME S \notin G PROVE FALSE
  OBVIOUS
<1>1. IsWellFoundedOn(StrictSubsetOrdering(S), FiniteSubsetsOf(S))
  BY FS_StrictSubsetOrderingWellFounded
<1>2. B \subseteq FiniteSubsetsOf(S) /\ B # {}
  BY FS_FiniteSubsetsOfFinite
<1>3. PICK T \in B : \A U \in B : ~(<<U, T>> \in StrictSubsetOrdering(S))
  BY <1>1, <1>2, WFMin
<1>4. PICK x \in T : T \ {x} \notin G
  BY <1>3
<1>5. T \ {x} \in B /\ <<T \ {x}, T>> \in StrictSubsetOrdering(S)
  BY <1>3, <1>4 DEF StrictSubsetOrdering
<1> QED
  BY <1>3, <1>5

\* The same for natural numbers.
LEMMA NumberInduction ==
  ASSUME NEW G, 0 \in G, \A n \in Nat : n \in G => n + 1 \in G
  PROVE  \A n \in Nat : n \in G
<1> DEFINE H == {T \in SUBSET Nat : \A n \in Nat : T = 1 .. n => n \in G}
<1> SUFFICES ASSUME NEW n \in Nat PROVE n \in G
  OBVIOUS
<1>1. ASSUME NEW T \in SUBSET (1 .. n), \A x \in T : T \ {x} \in H
      PROVE  T \in H
  <2> SUFFICES ASSUME NEW k \in Nat, T = 1 .. k PROVE k \in G
    OBVIOUS
  <2>1. CASE k = 0
    BY <2>1
  <2>2. CASE k > 0
    <3>1. k - 1 \in Nat /\ T \ {k} = 1 .. (k - 1) /\ k \in T
      BY <2>2
    <3>2. k - 1 \in G
      BY <1>1, <3>1
    <3>3. (k - 1) + 1 = k
      OBVIOUS
    <3> QED
      BY <3>1, <3>2, <3>3
  <2> QED
    BY <2>1, <2>2
<1>2. IsFiniteSet(1 .. n)
  BY FS_Interval
<1>3. 1 .. n \in H
  <2> HIDE DEF H
  <2> QED
    BY <1>1, <1>2, SetInduction
<1> QED
  BY <1>3

\* A set of natural numbers that is not empty has a least element.
LEMMA LeastNumber ==
  ASSUME NEW S \in SUBSET Nat, S # {}
  PROVE  \E x \in S : \A y \in S : x <= y
<1> DEFINE G == {n \in Nat : \A k \in 0 .. n : k \notin S}
<1> SUFFICES ASSUME \A x \in S : \E y \in S : y < x PROVE FALSE
  OBVIOUS
<1>1. 0 \in G
  OBVIOUS
<1>2. ASSUME NEW n \in Nat, n \in G PROVE n + 1 \in G
  <2>1. n + 1 \notin S
    BY <1>2
  <2> QED
    BY <1>2, <2>1
<1>3. \A n \in Nat : n \in G
  <2> HIDE DEF G
  <2> QED
    BY <1>1, <1>2, NumberInduction
<1>4. PICK x \in S : TRUE
  OBVIOUS
<1>5. x \in 0 .. x /\ x \in G
  BY <1>3
<1> QED
  BY <1>5

(***************************************************************************)
(* The recursive function behind SumFunctionOnSet exists.                  *)
(***************************************************************************)
First(s) == CHOOSE x \in s : TRUE

Partial(F, g, s) == IF s = {} THEN 0 ELSE F[First(s)] + g[s \ {First(s)}]

SumsUpTo(F, S, g) == g = [s \in SUBSET S |-> Partial(F, g, s)]

TheSums(F, S) == CHOOSE g : SumsUpTo(F, S, g)

\* What SumFunctionOnSet stands for.
LEMMA SumIsFold ==
  ASSUME NEW F, NEW S
  PROVE  SumFunctionOnSet(F, S) = TheSums(F, S)[S]
BY DEF SumFunctionOnSet, FoldFunctionOnSet, MapThenFoldSet, TheSums, SumsUpTo, Partial, First

\* Two functions that sum up the subsets of two sets agree where both do.
LEMMA SumsAgree ==
  ASSUME NEW F, NEW S, NEW T, NEW g, NEW h, NEW U, IsFiniteSet(U),
         U \subseteq S, U \subseteq T, SumsUpTo(F, S, g), SumsUpTo(F, T, h)
  PROVE  g[U] = h[U]
<1> DEFINE G == {V \in SUBSET U : g[V] = h[V]}
<1>1. ASSUME NEW V \in SUBSET U, \A x \in V : V \ {x} \in G
      PROVE  V \in G
  <2>1. g[V] = Partial(F, g, V) /\ h[V] = Partial(F, h, V)
    <3>1. g = [s \in SUBSET S |-> Partial(F, g, s)]
      BY DEF SumsUpTo
    <3>2. h = [s \in SUBSET T |-> Partial(F, h, s)]
      BY DEF SumsUpTo
    <3>3. V \in SUBSET S /\ V \in SUBSET T
      OBVIOUS
    <3> QED
      BY <3>1, <3>2, <3>3
  <2>2. CASE V = {}
    BY <2>1, <2>2 DEF Partial
  <2>3. CASE V # {}
    <3>1. First(V) \in V
      BY <2>3 DEF First
    <3> QED
      BY <1>1, <2>1, <2>3, <3>1 DEF Partial
  <2> QED
    BY <2>2, <2>3
<1>2. U \in G
  <2> HIDE DEF G
  <2> QED
    BY <1>1, SetInduction
<1> QED
  BY <1>2

\* The function exists for every finite set.
LEMMA SumsExist ==
  ASSUME NEW F, NEW S, IsFiniteSet(S)
  PROVE  SumsUpTo(F, S, TheSums(F, S))
<1> DEFINE G == {T \in SUBSET S : \E g : SumsUpTo(F, T, g)}
<1>1. ASSUME NEW T \in SUBSET S, \A x \in T : T \ {x} \in G
      PROVE  T \in G
  <2>1. CASE T = {}
    <3> DEFINE g == [s \in {{}} |-> 0]
    <3>1. SumsUpTo(F, T, g)
      BY <2>1 DEF SumsUpTo, Partial
    <3> QED
      BY <3>1
  <2>2. CASE T # {}
    <3> DEFINE h(x) == TheSums(F, T \ {x})
               g    == [s \in SUBSET T |->
                          IF s = {} THEN 0
                          ELSE IF s = T THEN F[First(T)] + h(First(T))[T \ {First(T)}]
                          ELSE h(CHOOSE x \in T : x \notin s)[s]]
    <3>1. \A x \in T : SumsUpTo(F, T \ {x}, h(x))
      BY <1>1 DEF TheSums
    <3>2. ASSUME NEW s \in SUBSET T, NEW x \in T, x \notin s
          PROVE  g[s] = h(x)[s]
      <4>1. CASE s = {}
        <5>1. h(x) = [u \in SUBSET (T \ {x}) |-> Partial(F, h(x), u)]
          BY <3>1 DEF SumsUpTo
        <5>2. h(x)[{}] = Partial(F, h(x), {})
          <6> HIDE DEF h
          <6> QED
            BY <5>1
        <5> QED
          BY <4>1, <5>2 DEF Partial
      <4>2. CASE s # {}
        <5> DEFINE y == CHOOSE z \in T : z \notin s
        <5>1. y \in T /\ y \notin s
          BY <3>2
        <5>2. g[s] = h(y)[s]
          BY <3>2, <4>2
        <5>3. IsFiniteSet(s)
          BY FS_Subset
        <5>4. SumsUpTo(F, T \ {x}, h(x)) /\ SumsUpTo(F, T \ {y}, h(y))
          BY <3>1, <5>1
        <5>5. s \subseteq T \ {x} /\ s \subseteq T \ {y}
          BY <3>2, <5>1
        <5> HIDE DEF y, h, g
        <5>6. h(y)[s] = h(x)[s]
          BY <5>3, <5>4, <5>5, SumsAgree
        <5> QED
          BY <5>2, <5>6
      <4> QED
        BY <4>1, <4>2
    <3>3. ASSUME NEW s \in SUBSET T
          PROVE  g[s] = Partial(F, g, s)
      <4>1. CASE s = {}
        BY <4>1 DEF Partial
      <4>2. CASE s # {}
        <5>1. First(s) \in s
          BY <4>2 DEF First
        <5> DEFINE x == IF s = T THEN First(T) ELSE CHOOSE z \in T : z \notin s
        <5>2. x \in T /\ (s = T \/ x \notin s) /\ (s = T => x = First(s))
          BY <5>1
        <5>3. g[s \ {First(s)}] = h(x)[s \ {First(s)}]
          <6>1. s \ {First(s)} \in SUBSET T /\ x \notin s \ {First(s)}
            BY <5>2
          <6> HIDE DEF x, g, h
          <6> QED
            BY <3>2, <5>2, <6>1
        <5>4. CASE s = T
          <6>1. g[s] = F[First(T)] + h(First(T))[T \ {First(T)}]
            BY <4>2, <5>4
          <6> QED
            BY <4>2, <5>3, <5>4, <6>1 DEF Partial
        <5>5. CASE s # T
          <6>1. h(x)[s] = Partial(F, h(x), s)
            <7>1. h(x) = [u \in SUBSET (T \ {x}) |-> Partial(F, h(x), u)]
              <8> HIDE DEF h, x, g
              <8> QED
                BY <3>1, <5>2 DEF SumsUpTo
            <7>2. s \in SUBSET (T \ {x})
              BY <5>2, <5>5
            <7> HIDE DEF h, x, g
            <7> QED
              BY <7>1, <7>2
          <6>2. g[s] = h(x)[s]
            BY <3>2, <5>2, <5>5
          <6> QED
            BY <4>2, <5>3, <6>1, <6>2 DEF Partial
        <5> QED
          BY <5>4, <5>5
      <4> QED
        BY <4>1, <4>2
    <3>4. SumsUpTo(F, T, g)
      <4>1. DOMAIN g = SUBSET T /\ g = [s \in DOMAIN g |-> g[s]]
        OBVIOUS
      <4> HIDE DEF g
      <4> QED
        BY <3>3, <4>1 DEF SumsUpTo
    <3> QED
      BY <3>4
  <2> QED
    BY <2>1, <2>2
<1>2. S \in G
  <2> HIDE DEF G
  <2> QED
    BY <1>1, SetInduction
<1> QED
  BY <1>2 DEF TheSums

(***************************************************************************)
(* The laws of sums.                                                       *)
(***************************************************************************)
Integral(F, S) == IsFiniteSet(S) /\ \A x \in S : F[x] \in Int

\* A sum is what the first element gives and the sum of the rest.
LEMMA SumFirst ==
  ASSUME NEW F, NEW S, IsFiniteSet(S)
  PROVE  /\ S = {} => SumFunctionOnSet(F, S) = 0
         /\ S # {} => SumFunctionOnSet(F, S)
                       = F[First(S)] + SumFunctionOnSet(F, S \ {First(S)})
<1> DEFINE g == TheSums(F, S)
<1>1. SumsUpTo(F, S, g)
  BY SumsExist
<1>2. g[S] = Partial(F, g, S)
  <2> HIDE DEF g
  <2> QED
    BY <1>1 DEF SumsUpTo
<1>3. ASSUME NEW T \in SUBSET S PROVE SumFunctionOnSet(F, T) = g[T]
  <2>1. IsFiniteSet(T)
    BY FS_Subset
  <2>2. SumsUpTo(F, T, TheSums(F, T))
    BY <2>1, SumsExist
  <2> HIDE DEF g
  <2>3. TheSums(F, T)[T] = g[T]
    BY <1>1, <2>1, <2>2, SumsAgree
  <2> QED
    BY <2>3, SumIsFold
<1> HIDE DEF g
<1> QED
  BY <1>2, <1>3 DEF Partial

\* Nothing sums up to nothing.
LEMMA SumEmpty == \A F : SumFunctionOnSet(F, {}) = 0
  BY SumFirst, FS_EmptySet

\* A subset of what can be summed up can be summed up.
LEMMA IntegralSubset ==
  ASSUME NEW F, NEW S, Integral(F, S), NEW T \in SUBSET S
  PROVE  Integral(F, T)
  BY FS_Subset DEF Integral

\* A sum of integers is an integer.
LEMMA SumInt ==
  ASSUME NEW F, NEW S, Integral(F, S)
  PROVE  SumFunctionOnSet(F, S) \in Int
<1> DEFINE G == {T \in SUBSET S : SumFunctionOnSet(F, T) \in Int}
<1>1. ASSUME NEW T \in SUBSET S, \A x \in T : T \ {x} \in G
      PROVE  T \in G
  <2>1. IsFiniteSet(T)
    BY FS_Subset DEF Integral
  <2>2. CASE T = {}
    BY <2>2, SumEmpty
  <2>3. CASE T # {}
    <3>1. First(T) \in T
      BY <2>3 DEF First
    <3>2. F[First(T)] \in Int /\ SumFunctionOnSet(F, T \ {First(T)}) \in Int
      BY <1>1, <3>1 DEF Integral
    <3> QED
      BY <2>1, <2>3, <3>2, SumFirst
  <2> QED
    BY <2>2, <2>3
<1>2. S \in G
  <2> HIDE DEF G
  <2> QED
    BY <1>1, SetInduction DEF Integral
<1> QED
  BY <1>2

\* Any element may come first.
LEMMA SumRemove ==
  ASSUME NEW F, NEW S, Integral(F, S), NEW x \in S
  PROVE  SumFunctionOnSet(F, S) = F[x] + SumFunctionOnSet(F, S \ {x})
<1> DEFINE Splits(T, y) == SumFunctionOnSet(F, T) = F[y] + SumFunctionOnSet(F, T \ {y})
           G == {T \in SUBSET S : \A y \in T : Splits(T, y)}
<1>1. ASSUME NEW T \in SUBSET S, \A y \in T : T \ {y} \in G, NEW y \in T
      PROVE  Splits(T, y)
  <2>1. Integral(F, T) /\ IsFiniteSet(T)
    BY IntegralSubset DEF Integral
  <2> DEFINE f == First(T)
             R == (T \ {f}) \ {y}
  <2>2. f \in T
    BY DEF First
  <2>3. SumFunctionOnSet(F, T) = F[f] + SumFunctionOnSet(F, T \ {f})
    BY <2>1, SumFirst
  <2> HIDE DEF f
  <2>4. CASE y = f
    BY <2>3, <2>4
  <2>5. CASE y # f
    <3>1. SumFunctionOnSet(F, T \ {f}) = F[y] + SumFunctionOnSet(F, R)
      BY <1>1, <2>2, <2>5
    <3>2. SumFunctionOnSet(F, T \ {y}) = F[f] + SumFunctionOnSet(F, R)
      <4>1. (T \ {y}) \ {f} = R
        OBVIOUS
      <4>2. SumFunctionOnSet(F, T \ {y}) = F[f] + SumFunctionOnSet(F, (T \ {y}) \ {f})
        BY <1>1, <2>2, <2>5
      <4> QED
        BY <4>1, <4>2
    <3>3. SumFunctionOnSet(F, R) \in Int
      <4>1. R \in SUBSET S
        OBVIOUS
      <4> QED
        BY <4>1, IntegralSubset, SumInt
    <3>4. F[y] \in Int /\ F[f] \in Int
      BY <2>2 DEF Integral
    <3> HIDE DEF R
    <3> QED
      BY <2>3, <3>1, <3>2, <3>3, <3>4
  <2> QED
    BY <2>4, <2>5
<1>2. S \in G
  <2>1. \A T \in SUBSET S : (\A y \in T : T \ {y} \in G) => T \in G
    BY <1>1
  <2> HIDE DEF G
  <2> QED
    BY <2>1, SetInduction DEF Integral
<1> QED
  BY <1>2

\* A sum of natural numbers is one, and no less than any of them.
LEMMA SumNat ==
  ASSUME NEW F, NEW S, IsFiniteSet(S), \A x \in S : F[x] \in Nat
  PROVE  /\ SumFunctionOnSet(F, S) \in Nat
         /\ \A x \in S : F[x] <= SumFunctionOnSet(F, S)
<1> DEFINE G == {T \in SUBSET S : SumFunctionOnSet(F, T) \in Nat}
<1>1. ASSUME NEW T \in SUBSET S, \A x \in T : T \ {x} \in G
      PROVE  T \in G
  <2>1. IsFiniteSet(T) /\ Integral(F, T)
    BY FS_Subset DEF Integral
  <2>2. CASE T = {}
    BY <2>2, SumEmpty
  <2>3. CASE T # {}
    <3>1. PICK x \in T : TRUE
      BY <2>3
    <3>2. F[x] \in Nat /\ SumFunctionOnSet(F, T \ {x}) \in Nat
      BY <1>1, <3>1
    <3> QED
      BY <2>1, <3>2, SumRemove
  <2> QED
    BY <2>2, <2>3
<1>2. \A T \in SUBSET S : T \in G
  <2> TAKE T \in SUBSET S
  <2>1. \A U \in SUBSET T : (\A x \in U : U \ {x} \in G) => U \in G
    BY <1>1
  <2>2. IsFiniteSet(T)
    BY FS_Subset
  <2> HIDE DEF G
  <2> QED
    BY <2>1, <2>2, SetInduction
<1>3. ASSUME NEW x \in S PROVE F[x] <= SumFunctionOnSet(F, S)
  <2>1. SumFunctionOnSet(F, S) = F[x] + SumFunctionOnSet(F, S \ {x})
    BY SumRemove DEF Integral
  <2>2. F[x] \in Nat /\ SumFunctionOnSet(F, S \ {x}) \in Nat
    BY <1>2
  <2> QED
    BY <2>1, <2>2
<1> QED
  BY <1>2, <1>3

\* Only the values count.
LEMMA SumSame ==
  ASSUME NEW F, NEW H, NEW S, Integral(F, S), \A x \in S : H[x] = F[x]
  PROVE  SumFunctionOnSet(H, S) = SumFunctionOnSet(F, S)
<1> DEFINE G == {T \in SUBSET S : SumFunctionOnSet(H, T) = SumFunctionOnSet(F, T)}
<1>1. ASSUME NEW T \in SUBSET S, \A x \in T : T \ {x} \in G
      PROVE  T \in G
  <2>1. Integral(F, T) /\ Integral(H, T)
    BY IntegralSubset, FS_Subset DEF Integral
  <2>2. CASE T = {}
    BY <2>2, SumEmpty
  <2>3. CASE T # {}
    <3>1. PICK x \in T : TRUE
      BY <2>3
    <3>2. SumFunctionOnSet(H, T \ {x}) = SumFunctionOnSet(F, T \ {x})
      BY <1>1, <3>1
    <3> QED
      BY <2>1, <3>2, SumRemove
  <2> QED
    BY <2>2, <2>3
<1>2. S \in G
  <2> HIDE DEF G
  <2> QED
    BY <1>1, SetInduction DEF Integral
<1> QED
  BY <1>2

\* Sums add up.
LEMMA SumAdd ==
  ASSUME NEW F, NEW H, NEW K, NEW S, Integral(F, S), Integral(H, S),
         \A x \in S : K[x] = F[x] + H[x]
  PROVE  SumFunctionOnSet(K, S) = SumFunctionOnSet(F, S) + SumFunctionOnSet(H, S)
<1> DEFINE G == {T \in SUBSET S :
                   SumFunctionOnSet(K, T) = SumFunctionOnSet(F, T) + SumFunctionOnSet(H, T)}
<1>1. ASSUME NEW T \in SUBSET S, \A x \in T : T \ {x} \in G
      PROVE  T \in G
  <2>1. Integral(F, T) /\ Integral(H, T) /\ Integral(K, T)
    BY IntegralSubset, FS_Subset DEF Integral
  <2>2. CASE T = {}
    BY <2>2, SumEmpty
  <2>3. CASE T # {}
    <3>1. PICK x \in T : TRUE
      BY <2>3
    <3> DEFINE R == T \ {x}
    <3>2. SumFunctionOnSet(K, R) = SumFunctionOnSet(F, R) + SumFunctionOnSet(H, R)
      BY <1>1, <3>1
    <3>3. /\ SumFunctionOnSet(F, T) = F[x] + SumFunctionOnSet(F, R)
          /\ SumFunctionOnSet(H, T) = H[x] + SumFunctionOnSet(H, R)
          /\ SumFunctionOnSet(K, T) = K[x] + SumFunctionOnSet(K, R)
      BY <2>1, SumRemove
    <3>4. SumFunctionOnSet(F, R) \in Int /\ SumFunctionOnSet(H, R) \in Int
      <4>1. R \in SUBSET S
        OBVIOUS
      <4> QED
        BY <4>1, IntegralSubset, SumInt
    <3>5. F[x] \in Int /\ H[x] \in Int /\ K[x] = F[x] + H[x]
      BY DEF Integral
    <3> HIDE DEF R
    <3> QED
      BY <3>2, <3>3, <3>4, <3>5
  <2> QED
    BY <2>2, <2>3
<1>2. S \in G
  <2> HIDE DEF G
  <2> QED
    BY <1>1, SetInduction DEF Integral
<1> QED
  BY <1>2

\* A common factor can be taken out.
LEMMA SumScale ==
  ASSUME NEW F, NEW H, NEW c \in Int, NEW S, Integral(F, S), \A x \in S : H[x] = c * F[x]
  PROVE  SumFunctionOnSet(H, S) = c * SumFunctionOnSet(F, S)
<1> DEFINE G == {T \in SUBSET S : SumFunctionOnSet(H, T) = c * SumFunctionOnSet(F, T)}
<1>1. ASSUME NEW T \in SUBSET S, \A x \in T : T \ {x} \in G
      PROVE  T \in G
  <2>1. Integral(F, T) /\ Integral(H, T)
    BY IntegralSubset, FS_Subset DEF Integral
  <2>2. CASE T = {}
    BY <2>2, SumEmpty
  <2>3. CASE T # {}
    <3>1. PICK x \in T : TRUE
      BY <2>3
    <3>2. SumFunctionOnSet(H, T \ {x}) = c * SumFunctionOnSet(F, T \ {x})
      BY <1>1, <3>1
    <3>3. /\ SumFunctionOnSet(F, T) = F[x] + SumFunctionOnSet(F, T \ {x})
          /\ SumFunctionOnSet(H, T) = H[x] + SumFunctionOnSet(H, T \ {x})
      BY <2>1, SumRemove
    <3>4. SumFunctionOnSet(F, T \ {x}) \in Int
      BY IntegralSubset, SumInt
    <3>5. \A a, b \in Int : c * (a + b) = c * a + c * b
      OBVIOUS
    <3>6. F[x] \in Int /\ H[x] = c * F[x]
      BY DEF Integral
    <3> QED
      BY <3>2, <3>3, <3>4, <3>5, <3>6
  <2> QED
    BY <2>2, <2>3
<1>2. S \in G
  <2> HIDE DEF G
  <2> QED
    BY <1>1, SetInduction DEF Integral
<1> QED
  BY <1>2

\* What is zero outside a part of the set can be left out.
LEMMA SumSupport ==
  ASSUME NEW F, NEW S, Integral(F, S), NEW U \in SUBSET S, \A x \in S \ U : F[x] = 0
  PROVE  SumFunctionOnSet(F, S) = SumFunctionOnSet(F, U)
<1> DEFINE G == {T \in SUBSET S : U \subseteq T =>
                                   SumFunctionOnSet(F, T) = SumFunctionOnSet(F, U)}
<1>1. ASSUME NEW T \in SUBSET S, \A x \in T : T \ {x} \in G, U \subseteq T
      PROVE  SumFunctionOnSet(F, T) = SumFunctionOnSet(F, U)
  <2>1. CASE T = U
    BY <2>1
  <2>2. CASE T # U
    <3>1. PICK x \in T : x \notin U
      BY <1>1, <2>2
    <3>2. SumFunctionOnSet(F, T \ {x}) = SumFunctionOnSet(F, U)
      BY <1>1, <3>1
    <3>3. SumFunctionOnSet(F, T) = F[x] + SumFunctionOnSet(F, T \ {x})
      BY IntegralSubset, SumRemove
    <3>4. SumFunctionOnSet(F, U) \in Int
      BY IntegralSubset, SumInt
    <3> QED
      BY <3>1, <3>2, <3>3, <3>4
  <2> QED
    BY <2>1, <2>2
<1>2. S \in G
  <2>1. \A T \in SUBSET S : (\A x \in T : T \ {x} \in G) => T \in G
    BY <1>1
  <2> HIDE DEF G
  <2> QED
    BY <2>1, SetInduction DEF Integral
<1> QED
  BY <1>2

\* A sum of zeros.
LEMMA SumZero ==
  ASSUME NEW F, NEW S, IsFiniteSet(S), \A x \in S : F[x] = 0
  PROVE  SumFunctionOnSet(F, S) = 0
<1>1. Integral(F, S)
  BY DEF Integral
<1> QED
  BY <1>1, SumSupport, SumEmpty

\* Natural numbers that sum up to zero are zero.
LEMMA SumIsZero ==
  ASSUME NEW F, NEW S, IsFiniteSet(S), \A x \in S : F[x] \in Nat,
         SumFunctionOnSet(F, S) = 0
  PROVE  \A x \in S : F[x] = 0
  BY SumNat

\* The sum over two sets that have nothing in common.
LEMMA SumUnion ==
  ASSUME NEW F, NEW S, NEW T, Integral(F, S), Integral(F, T), S \cap T = {}
  PROVE  SumFunctionOnSet(F, S \cup T) = SumFunctionOnSet(F, S) + SumFunctionOnSet(F, T)
<1> DEFINE A == [x \in S \cup T |-> IF x \in S THEN F[x] ELSE 0]
           B == [x \in S \cup T |-> IF x \in T THEN F[x] ELSE 0]
<1>1. IsFiniteSet(S \cup T)
  BY FS_Union DEF Integral
<1>2. Integral(A, S \cup T) /\ Integral(B, S \cup T)
  BY <1>1 DEF Integral
<1>3. \A x \in S \cup T : F[x] = A[x] + B[x]
  BY DEF Integral
<1>4. \A x \in (S \cup T) \ S : A[x] = 0
  OBVIOUS
<1>5. \A x \in (S \cup T) \ T : B[x] = 0
  OBVIOUS
<1>6. \A x \in S : A[x] = F[x]
  OBVIOUS
<1>7. \A x \in T : B[x] = F[x]
  OBVIOUS
<1> HIDE DEF A, B
<1>8. SumFunctionOnSet(F, S \cup T)
        = SumFunctionOnSet(A, S \cup T) + SumFunctionOnSet(B, S \cup T)
  BY <1>2, <1>3, SumAdd
<1>9. /\ SumFunctionOnSet(A, S \cup T) = SumFunctionOnSet(A, S)
      /\ SumFunctionOnSet(B, S \cup T) = SumFunctionOnSet(B, T)
  BY <1>2, <1>4, <1>5, SumSupport
<1>10. /\ SumFunctionOnSet(A, S) = SumFunctionOnSet(F, S)
       /\ SumFunctionOnSet(B, T) = SumFunctionOnSet(F, T)
  BY <1>6, <1>7, SumSame
<1> QED
  BY <1>8, <1>9, <1>10

\* One more element.
LEMMA SumExtend ==
  ASSUME NEW F, NEW H, NEW S, Integral(F, S), NEW p, p \notin S, H[p] \in Int,
         \A x \in S : H[x] = F[x]
  PROVE  SumFunctionOnSet(H, S \cup {p}) = SumFunctionOnSet(F, S) + H[p]
<1>1. Integral(H, S \cup {p})
  BY FS_AddElement DEF Integral
<1>2. SumFunctionOnSet(H, S \cup {p}) = H[p] + SumFunctionOnSet(H, (S \cup {p}) \ {p})
  BY <1>1, SumRemove
<1>3. SumFunctionOnSet(H, (S \cup {p}) \ {p}) = SumFunctionOnSet(H, S)
  <2>1. (S \cup {p}) \ {p} = S
    OBVIOUS
  <2> QED
    BY <2>1
<1>4. SumFunctionOnSet(H, S) = SumFunctionOnSet(F, S) /\ SumFunctionOnSet(F, S) \in Int
  BY SumSame, SumInt
<1> QED
  BY <1>2, <1>3, <1>4

\* Where nothing is positive, the sum is not.
LEMMA SumNonPositive ==
  ASSUME NEW F, NEW S, Integral(F, S), \A x \in S : F[x] <= 0
  PROVE  SumFunctionOnSet(F, S) <= 0
<1> DEFINE H == [x \in S |-> 0 - F[x]]
           K == [x \in S |-> 0]
<1>1. \A x \in S : H[x] \in Nat /\ K[x] = F[x] + H[x] /\ K[x] = 0
  BY DEF Integral
<1> HIDE DEF H, K
<1>2. SumFunctionOnSet(H, S) \in Nat /\ Integral(H, S)
  BY <1>1, SumNat DEF Integral
<1>3. SumFunctionOnSet(K, S) = SumFunctionOnSet(F, S) + SumFunctionOnSet(H, S)
  BY <1>1, <1>2, SumAdd
<1>4. SumFunctionOnSet(K, S) = 0
  BY <1>1, SumZero DEF Integral
<1>5. SumFunctionOnSet(F, S) \in Int
  BY SumInt
<1> QED
  BY <1>2, <1>3, <1>4, <1>5

\* The elements may be renamed.
LEMMA SumRename ==
  ASSUME NEW F, NEW H, NEW S, NEW T, NEW b \in [S -> T],
         \A x, y \in S : b[x] = b[y] => x = y,
         \A z \in T : \E x \in S : b[x] = z,
         IsFiniteSet(S), Integral(H, T), \A x \in S : F[x] = H[b[x]]
  PROVE  SumFunctionOnSet(F, S) = SumFunctionOnSet(H, T)
<1> DEFINE Image(U) == {b[x] : x \in U}
           G == {U \in SUBSET S : SumFunctionOnSet(F, U) = SumFunctionOnSet(H, Image(U))}
<1>1. Integral(F, S)
  BY DEF Integral
<1>2. ASSUME NEW U \in SUBSET S, \A x \in U : U \ {x} \in G
      PROVE  U \in G
  <2>1. CASE U = {}
    <3>1. Image(U) = {}
      BY <2>1
    <3> QED
      BY <2>1, <3>1, SumEmpty
  <2>2. CASE U # {}
    <3>1. PICK x \in U : TRUE
      BY <2>2
    <3>2. Image(U) \ {b[x]} = Image(U \ {x}) /\ b[x] \in Image(U)
      OBVIOUS
    <3>3. Image(U) \in SUBSET T
      OBVIOUS
    <3>4. SumFunctionOnSet(F, U \ {x}) = SumFunctionOnSet(H, Image(U \ {x}))
      BY <1>2, <3>1
    <3> HIDE DEF Image
    <3>5. SumFunctionOnSet(H, Image(U)) = H[b[x]] + SumFunctionOnSet(H, Image(U) \ {b[x]})
      BY <3>2, <3>3, IntegralSubset, SumRemove
    <3>6. SumFunctionOnSet(F, U) = F[x] + SumFunctionOnSet(F, U \ {x})
      BY <1>1, IntegralSubset, SumRemove
    <3> QED
      BY <3>2, <3>4, <3>5, <3>6
  <2> QED
    BY <2>1, <2>2
<1>3. S \in G
  <2> HIDE DEF G
  <2> QED
    BY <1>2, SetInduction
<1>4. Image(S) = T
  OBVIOUS
<1> QED
  BY <1>3, <1>4

\* F and K hold the same integers, by rows and by columns, R and C their sums.
Table(F, K, R, C, S, T) ==
  /\ IsFiniteSet(S) /\ IsFiniteSet(T)
  /\ \A x \in S, y \in T : F[x][y] \in Int
  /\ \A y \in T : \A x \in S : K[y][x] = F[x][y]
  /\ \A x \in S : R[x] = SumFunctionOnSet(F[x], T)
  /\ \A y \in T : C[y] = SumFunctionOnSet(K[y], S)

\* The order of summation does not matter: by rows or by columns.
LEMMA SumExchange ==
  ASSUME NEW F, NEW K, NEW R, NEW C, NEW S, NEW T, Table(F, K, R, C, S, T)
  PROVE  SumFunctionOnSet(R, S) = SumFunctionOnSet(C, T)
<1> USE DEF Table
<1> DEFINE Column(y) == [x \in S |-> F[x][y]]
           Columns(U) == [y \in T |-> SumFunctionOnSet(Column(y), U)]
           G == {U \in SUBSET S : SumFunctionOnSet(R, U) = SumFunctionOnSet(Columns(U), T)}
<1>1. \A x \in S : Integral(F[x], T)
  BY DEF Integral
<1>2. \A y \in T : Integral(Column(y), S)
  BY DEF Integral
<1>3. Integral(R, S)
  BY <1>1, SumInt DEF Integral
<1>4. \A U \in SUBSET S : Integral(Columns(U), T)
  <2>1. \A U \in SUBSET S, y \in T : Integral(Column(y), U)
    <3> HIDE DEF Column
    <3> QED
      BY <1>2, IntegralSubset
  <2> HIDE DEF Column
  <2> QED
    BY <2>1, SumInt DEF Integral
<1>5. ASSUME NEW U \in SUBSET S, \A x \in U : U \ {x} \in G
      PROVE  U \in G
  <2>1. CASE U = {}
    <3>1. \A y \in T : Columns(U)[y] = 0
      BY <2>1, SumEmpty
    <3> HIDE DEF Columns
    <3>2. SumFunctionOnSet(Columns(U), T) = 0
      BY <3>1, SumZero
    <3> QED
      BY <2>1, <3>2, SumEmpty
  <2>2. CASE U # {}
    <3>1. PICK x \in U : TRUE
      BY <2>2
    <3>2. \A y \in T : Columns(U)[y] = F[x][y] + Columns(U \ {x})[y]
      <4> SUFFICES ASSUME NEW y \in T
                   PROVE  SumFunctionOnSet(Column(y), U)
                          = F[x][y] + SumFunctionOnSet(Column(y), U \ {x})
        OBVIOUS
      <4>1. Column(y)[x] = F[x][y]
        BY <3>1
      <4>2. Integral(Column(y), U)
        <5> HIDE DEF Column
        <5> QED
          BY <1>2, IntegralSubset
      <4> HIDE DEF Column
      <4> QED
        BY <3>1, <4>1, <4>2, SumRemove
    <3>3. Integral(F[x], T) /\ Integral(Columns(U \ {x}), T)
      <4>1. U \ {x} \in SUBSET S
        OBVIOUS
      <4> HIDE DEF Columns
      <4> QED
        BY <1>1, <1>4, <3>1, <4>1
    <3> HIDE DEF Columns
    <3>4. SumFunctionOnSet(Columns(U), T)
            = SumFunctionOnSet(F[x], T) + SumFunctionOnSet(Columns(U \ {x}), T)
      <4> DEFINE f == F[x]
                 h == Columns(U \ {x})
                 k == Columns(U)
      <4>1. \A y \in T : k[y] = f[y] + h[y]
        BY <3>2
      <4>2. Integral(f, T) /\ Integral(h, T)
        BY <3>3
      <4> HIDE DEF f, h, k
      <4>3. SumFunctionOnSet(k, T) = SumFunctionOnSet(f, T) + SumFunctionOnSet(h, T)
        BY <4>1, <4>2, SumAdd
      <4> QED
        BY <4>3 DEF f, h, k
    <3>5. SumFunctionOnSet(R, U) = R[x] + SumFunctionOnSet(R, U \ {x})
      BY <1>3, <3>1, IntegralSubset, SumRemove
    <3>6. SumFunctionOnSet(R, U \ {x}) = SumFunctionOnSet(Columns(U \ {x}), T)
      BY <1>5, <3>1
    <3> QED
      BY <3>1, <3>4, <3>5, <3>6
  <2> QED
    BY <2>1, <2>2
<1>6. S \in G
  <2> HIDE DEF G
  <2> QED
    BY <1>5, SetInduction
<1>7. \A y \in T : C[y] = Columns(S)[y]
  <2> TAKE y \in T
  <2> DEFINE f == Column(y)
             k == K[y]
  <2>1. (\A x \in S : k[x] = f[x]) /\ Integral(f, S) /\ Columns(S)[y] = SumFunctionOnSet(f, S)
    BY <1>2
  <2> HIDE DEF f
  <2>2. SumFunctionOnSet(k, S) = SumFunctionOnSet(f, S)
    BY <2>1, SumSame
  <2> QED
    BY <2>1, <2>2
<1>8. SumFunctionOnSet(C, T) = SumFunctionOnSet(Columns(S), T)
  <2>1. Integral(Columns(S), T)
    <3> HIDE DEF Columns
    <3> QED
      BY <1>4
  <2> HIDE DEF Columns
  <2> QED
    BY <1>7, <2>1, SumSame
<1> QED
  BY <1>6, <1>8

\* The sum of a constant over a part of the set.
LEMMA SumCount ==
  ASSUME NEW F, NEW S, IsFiniteSet(S), NEW A, NEW c \in Int,
         \A x \in S : F[x] = IF x \in A THEN c ELSE 0
  PROVE  SumFunctionOnSet(F, S) = c * Cardinality(S \cap A)
<1> DEFINE G == {T \in SUBSET S : SumFunctionOnSet(F, T) = c * Cardinality(T \cap A)}
<1>1. Integral(F, S)
  BY DEF Integral
<1>2. ASSUME NEW T \in SUBSET S, \A x \in T : T \ {x} \in G
      PROVE  T \in G
  <2>1. IsFiniteSet(T) /\ IsFiniteSet(T \cap A)
    BY FS_Subset
  <2>2. CASE T = {}
    <3>1. T \cap A = {} /\ Cardinality({}) = 0
      BY <2>2, FS_EmptySet
    <3>2. c * 0 = 0
      OBVIOUS
    <3> QED
      BY <2>2, <3>1, <3>2, SumEmpty
  <2>3. CASE T # {}
    <3>1. PICK x \in T : TRUE
      BY <2>3
    <3>2. SumFunctionOnSet(F, T \ {x}) = c * Cardinality((T \ {x}) \cap A)
      BY <1>2, <3>1
    <3>3. SumFunctionOnSet(F, T) = F[x] + SumFunctionOnSet(F, T \ {x})
      BY <1>1, <3>1, IntegralSubset, SumRemove
    <3>4. (T \ {x}) \cap A = (T \cap A) \ {x}
      OBVIOUS
    <3>5. Cardinality((T \cap A) \ {x})
            = IF x \in T \cap A THEN Cardinality(T \cap A) - 1 ELSE Cardinality(T \cap A)
      BY <2>1, FS_RemoveElement
    <3>6. Cardinality(T \cap A) \in Nat
      BY <2>1, FS_CardinalityType
    <3>7. \A n \in Nat : c * (n - 1) = c * n - c /\ c * n \in Int
      OBVIOUS
    <3> DEFINE n == Cardinality(T \cap A)
    <3> HIDE DEF n
    <3>8. c * (n - 1) = c * n - c /\ c * n \in Int
      BY <3>6, <3>7 DEF n
    <3>9. CASE x \in A
      <4>1. SumFunctionOnSet(F, T) = c + c * (n - 1)
        BY <3>1, <3>2, <3>3, <3>4, <3>5, <3>9 DEF n
      <4> QED
        BY <3>8, <4>1 DEF n
    <3>10. CASE x \notin A
      <4>1. SumFunctionOnSet(F, T) = 0 + c * n
        BY <3>1, <3>2, <3>3, <3>4, <3>5, <3>10 DEF n
      <4> QED
        BY <3>8, <4>1 DEF n
    <3> QED
      BY <3>9, <3>10
  <2> QED
    BY <2>2, <2>3
<1>3. S \in G
  <2> HIDE DEF G
  <2> QED
    BY <1>2, SetInduction
<1> QED
  BY <1>3

\* The same when the part is named.
LEMMA SumConstant ==
  ASSUME NEW F, NEW S, IsFiniteSet(S), NEW A \in SUBSET S, NEW c \in Int,
         \A x \in A : F[x] = c, \A x \in S \ A : F[x] = 0
  PROVE  SumFunctionOnSet(F, S) = c * Cardinality(A)
<1>1. S \cap A = A
  OBVIOUS
<1>2. \A x \in S : F[x] = IF x \in A THEN c ELSE 0
  OBVIOUS
<1>3. SumFunctionOnSet(F, S) = c * Cardinality(S \cap A)
  BY <1>2, SumCount
<1> QED
  BY <1>1, <1>3

\* The sum over one element.
LEMMA SumSingleton ==
  ASSUME NEW F, NEW x, NEW S, S = {x}, F[x] \in Int
  PROVE  SumFunctionOnSet(F, S) = F[x]
<1>1. Integral(F, S)
  BY FS_Singleton DEF Integral
<1>2. x \in S /\ S \ {x} = {}
  OBVIOUS
<1>3. SumFunctionOnSet(F, S) = F[x] + SumFunctionOnSet(F, S \ {x})
  BY <1>1, <1>2, SumRemove
<1>4. SumFunctionOnSet(F, S \ {x}) = 0
  <2>1. SumFunctionOnSet(F, {}) = 0
    BY SumEmpty
  <2> QED
    BY <1>2, <2>1, Zenon
<1> QED
  BY <1>3, <1>4

(***************************************************************************)
(* The cost of an assignment.                                              *)
(***************************************************************************)
\* Finitely many literals.
LEMMA LitFinite == IsFiniteSet(Lit)
<1>1. IsFiniteSet({-v : v \in Var})
  <2> DEFINE f == [v \in Var |-> -v]
             T == {-v : v \in Var}
  <2>1. f \in Surjection(Var, T)
    BY DEF Surjection
  <2> HIDE DEF f
  <2> QED
    BY <2>1, VarAssumption, FS_Surjection
<1> QED
  BY <1>1, VarAssumption, FS_Union DEF Lit

\* TotalWeight is the sum of the weights.
LEMMA TotalWeightIsSum ==
  ASSUME NEW w, IsFiniteSet(DOMAIN w), \A l \in DOMAIN w : w[l] \in Int
  PROVE  TotalWeight(w) = SumFunctionOnSet(w, DOMAIN w)
<1> DEFINE U == {l \in DOMAIN w : w[l] # 0}
           r == Restrict(w, U)
<1>1. DOMAIN r = U /\ \A l \in U : r[l] = w[l]
  BY DEF Restrict
<1>2. TotalWeight(w) = SumFunctionOnSet(r, DOMAIN r)
  BY DEF TotalWeight, SumFunction
<1>3. U \in SUBSET DOMAIN w /\ \A l \in DOMAIN w \ U : w[l] = 0
  OBVIOUS
<1> HIDE DEF U, r
<1>4. Integral(w, DOMAIN w)
  BY DEF Integral
<1>5. SumFunctionOnSet(w, DOMAIN w) = SumFunctionOnSet(w, U)
  BY <1>3, <1>4, SumSupport
<1>6. SumFunctionOnSet(r, U) = SumFunctionOnSet(w, U)
  BY <1>1, <1>3, <1>4, IntegralSubset, SumSame
<1> QED
  BY <1>1, <1>2, <1>5, <1>6

\* An assignment costs a natural number, whatever the weights.
THEOREM CostIsNatural ==
  ASSUME NEW soft, IsFiniteSet(DOMAIN soft), \A l \in DOMAIN soft : soft[l] \in Nat, NEW m
  PROVE  Cost(soft, m) \in Nat
<1> DEFINE r == Restrict(soft, {l \in DOMAIN soft : Holds(m, l)})
<1>1. /\ DOMAIN r \in SUBSET DOMAIN soft
      /\ \A l \in DOMAIN r : r[l] \in Nat
  BY DEF Restrict
<1>2. Cost(soft, m) = TotalWeight(r)
  BY DEF Cost
<1> HIDE DEF r
<1>3. IsFiniteSet(DOMAIN r)
  BY <1>1, FS_Subset
<1>4. TotalWeight(r) = SumFunctionOnSet(r, DOMAIN r)
  BY <1>1, <1>3, TotalWeightIsSum
<1> QED
  BY <1>1, <1>2, <1>3, <1>4, SumNat

\* Giving every other literal the weight 0 costs nothing.
LEMMA CostOfAll ==
  ASSUME NEW soft, DOMAIN soft \subseteq Lit, NEW m
  PROVE  Cost(WeightOfAll(soft), m) = Cost(soft, m)
<1> DEFINE all == WeightOfAll(soft)
           A == Restrict(all, {l \in DOMAIN all : Holds(m, l)})
           B == Restrict(soft, {l \in DOMAIN soft : Holds(m, l)})
           CA == {l \in DOMAIN A : A[l] # 0}
           CB == {l \in DOMAIN B : B[l] # 0}
<1>1. DOMAIN all = Lit /\ \A l \in Lit : all[l] = IF l \in DOMAIN soft THEN soft[l] ELSE 0
  BY DEF WeightOfAll
<1>2. CA = CB
  BY <1>1 DEF Restrict
<1>3. Restrict(A, CA) = Restrict(B, CB)
  BY <1>1, <1>2 DEF Restrict
<1> QED
  BY <1>3 DEF Cost, TotalWeight
=============================================================================
