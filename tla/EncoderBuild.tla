---------------------------- MODULE EncoderBuild ----------------------------
(***************************************************************************)
(* An encoding of Aperture as it is built: one merge of the totalizer's    *)
(* queue, one gate of the adder, or the comparator at a time.  The SAT     *)
(* solver that is given the clauses reads them by unit propagation.        *)
(***************************************************************************)
EXTENDS Encoders

CONSTANTS
  SoftLit,      \* the literals that may be soft, over variables 1 .. FirstVar - 1
  SoftWeight,   \* the weights they may have
  FirstVar,     \* the first variable NewVar gives
  Thresholds    \* the clause thresholds the size estimate is asked about

ASSUME EncoderBuildAssumption ==
  /\ FirstVar \in Nat
  /\ SoftLit \subseteq Int \ {0}
  /\ \A l \in SoftLit : -FirstVar < l /\ l < FirstVar
  /\ SoftWeight \subseteq 1 .. 2^kNumBitsInWeight - 1
  /\ Thresholds \subseteq Nat

\* A cost fits the unsigned type the code sums it up in: literals that can hold
\* together do not weigh 2^kNumBitsInWeight.
ASSUME CostsFitAssumption ==
  \A soft \in SUBSET SoftLit :
    (\A l \in soft : -l \notin soft) =>
      \A w \in [soft -> SoftWeight] : SumFunction(w) < 2^kNumBitsInWeight

VARIABLES
  wlits,   \* the soft literals to encode, pairs <<weight, literal>>
  value,   \* the cost to improve on when the encoding is made
  phase,   \* "merge" then "merged", or "add" then "compared"
  enc      \* the encoding under construction

buildVars == <<wlits, value, phase, enc>>

Assignments == {{IF v \in true THEN v ELSE -v : v \in 1 .. FirstVar - 1} :
                  true \in SUBSET (1 .. FirstVar - 1)}

CostIn(m) ==
  SumFunction([wl \in wlits |-> IF wl[2] \in m THEN wl[1] ELSE 0])

Costs == {CostIn(m) : m \in Assignments}

Selector == FirstVar

HasWeights == \E wl \in wlits : wl[1] # 1

(***************************************************************************)
(* LSU makes either encoding after a solution of cost value > 0.           *)
(***************************************************************************)
BuildInit ==
  /\ \E soft \in (SUBSET SoftLit) \ {{}} :
       \E w \in [soft -> SoftWeight] : wlits = {<<w[l], l>> : l \in soft}
  /\ value \in Costs \ {0}
  /\ \/ /\ phase = "merge"
        /\ enc = InitGenTotalizer(wlits, FirstVar + 1, Selector, value - 1)
     \/ phase = "add" /\ enc = InitAdder(wlits, FirstVar)

Merge ==
  /\ phase = "merge"
  /\ Len(enc.queue) > 1
  /\ enc' = AddAndMerge(enc)
  /\ UNCHANGED <<wlits, value, phase>>

Merged ==
  /\ phase = "merge"
  /\ Len(enc.queue) = 1
  /\ phase' = "merged"
  /\ UNCHANGED <<wlits, value, enc>>

Add ==
  /\ phase = "add"
  /\ ~AdderDone(enc)
  /\ enc' = AdderStep(enc)
  /\ UNCHANGED <<wlits, value, phase>>

Compare ==
  /\ phase = "add"
  /\ AdderDone(enc)
  /\ enc' = LessThanOrEqualBits(enc)
  /\ phase' = "compared"
  /\ UNCHANGED <<wlits, value>>

BuildNext == Merge \/ Merged \/ Add \/ Compare

BuildSpec == BuildInit /\ [][BuildNext]_buildVars

-----------------------------------------------------------------------------
(***************************************************************************)
(* Properties.                                                             *)
(***************************************************************************)
\* An assignment of the soft literals under further assumptions; the totalizer's
\* selector is assumed false, as LSU does.
Given(m, assumed) ==
  m \cup assumed \cup (IF phase \in {"merge", "merged"} THEN {-Selector} ELSE {})

Heaviest(node, known) ==
  LET true == {w \in DOMAIN node : node[w] \in known}
  IN  IF true = {} THEN 0 ELSE CHOOSE w \in true : \A u \in true : u <= w

BitsTrue(lits, known) == Cardinality({k \in DOMAIN lits : lits[k] \in known})

CarriedByTotalizer(known) ==
  SumFunction([i \in DOMAIN enc.queue |-> Heaviest(enc.queue[i], known)])

CarriedByAdder(known) ==
  SumFunction([i \in 0 .. kNumBitsInWeight |-> 2^i * BitsTrue(enc.buckets[i], known)])
  + SumFunction([k \in DOMAIN enc.output |->
              IF enc.output[k][1] \in known THEN 2^enc.output[k][2] ELSE 0])

\* At every step of the construction the literals not yet merged or added
\* still carry the cost of each assignment: exactly in the adder, up to the
\* limit in the totalizer, whose merges clip at the limit
\* (Totalizer.cc:145-219, Adder.cc:81-108).
CostIsCarried ==
  \A m \in Assignments :
    LET known == Propagated(enc.clauses, Given(m, {}))
    IN  CASE phase = "merge" ->
               CheckRhsSimplification(enc.limit, CarriedByTotalizer(known))
                 = CheckRhsSimplification(enc.limit, CostIn(m))
          [] phase = "add" -> CarriedByAdder(known) = CostIn(m)
          [] OTHER -> TRUE

\* The bound LSU assumes on a finished totalizer, for the cost it was made for
\* or any cheaper one, leaves exactly the cheaper assignments
\* (LSU.cc:100-118).
TotalizerBoundIsExact ==
  phase = "merged" =>
    \A v \in {c \in Costs : 0 < c /\ c <= value}, m \in Assignments :
      Extends(enc.clauses, Given(m, BoundWithTotalizer(enc.queue[1], v, HasWeights)))
        <=> CostIn(m) < v

\* The comparator loses the bits of the bound that no output bit has; for the
\* bounds LSU sets, one less than a cost some assignment has, it is exact
\* nevertheless (Adder.cc:114-181, LSU.cc:149-155).
AdderBoundIsExact ==
  phase = "compared" =>
    \A v \in Costs \ {0}, m \in Assignments :
      Extends(enc.clauses, Given(m, UpdateLEQBound(enc.bound, v - 1)))
        <=> CostIn(m) < v

\* The size estimate that decides between the encodings counts the clauses the
\* totalizer really adds (Totalizer.cc:310-355).
SizeIsCounted ==
  phase = "merged" =>
    Cardinality(enc.clauses) = Counted(wlits, value - 1).count

Fits(rhs, threshold) ==
  IF HasWeights THEN IsLeqGenTotExceedsThr(wlits, rhs, threshold)
              ELSE IsLeqTotExceedsThr(wlits, rhs, threshold)

\* MrsBeaver remembers that the totalizer fits and does not ask again when the
\* cost drops (MrsBeaver.cc:116): what fits for a cost fits for a lower one.
FittingIsKept ==
  \A thr \in Thresholds, v \in 1 .. value : Fits(value - 1, thr) => Fits(v - 1, thr)
=============================================================================
