-------------------------- MODULE Solver2022Proofs --------------------------
(***************************************************************************)
(* The reference solver meets the contract of ipamir.h for every instance  *)
(* in which no variable has two soft literals: Spec => MeetsContract, by   *)
(* an invariant that says what the search knows between two SAT queries.   *)
(***************************************************************************)
EXTENDS Solver2022, SumProofs

(***************************************************************************)
(* Data.                                                                   *)
(***************************************************************************)
\* A literal that a partial assignment leaves open can be made false, when only
\* one of the two is soft: some completion costs what solve computes.
Cheapest(p) ==
  {v \in Var : p[v] = 1 \/ (p[v] = 0 /\ -v \in DOMAIN soft_lits)}

\* That completion is an assignment of the SAT solver's formula, agrees with what
\* ipasir_val says, and has the cost solve adds up.
LEMMA CheapestCompletion ==
  ASSUME OnePolarity, DOMAIN soft_lits \subseteq SoftLit, NEW p \in PartialModels
  PROVE  /\ Cheapest(p) \in SolverModels
         /\ \A v \in Var : p[v] # 0 => (v \in Cheapest(p) <=> p[v] = 1)
         /\ Cost(soft_lits, Cheapest(p)) = ModelCost(p)
<1>1. p \in [Var -> {-1, 0, 1}]
  BY DEF PartialModels
<1>2. Cheapest(p) \in Assignment /\ Completes(Cheapest(p), p)
  BY <1>1 DEF Cheapest, Assignment, Completes
<1>3. Cheapest(p) \in SolverModels
  BY <1>2 DEF PartialModels
<1>4. \A v \in Var : p[v] # 0 => (v \in Cheapest(p) <=> p[v] = 1)
  BY <1>1 DEF Cheapest
<1>5. \A l \in DOMAIN soft_lits : Holds(Cheapest(p), l) <=> ValIsLit(p, l)
  <2> TAKE l \in DOMAIN soft_lits
  <2>1. l \in Lit /\ -l \notin DOMAIN soft_lits
    BY Solver2022Assumption DEF OnePolarity
  <2>2. CASE l > 0
    <3>1. l \in Var
      BY <2>1, <2>2, VarAssumption DEF Lit
    <3> QED
      BY <1>1, <2>1, <2>2, <3>1 DEF Holds, ValIsLit, VarOf, Cheapest
  <2>3. CASE ~(l > 0)
    <3>1. PICK v \in Var : l = -v
      <4>1. ASSUME l \in Var PROVE FALSE
        <5>1. l \in Nat /\ l # 0
          BY <4>1, VarAssumption
        <5> QED
          BY <2>3, <5>1
      <4>2. l \in {-v : v \in Var}
        BY <2>1, <4>1 DEF Lit
      <4> QED
        BY <4>2
    <3>2. v \in Nat /\ -l = v
      BY <3>1, VarAssumption
    <3>3. Holds(Cheapest(p), l) <=> v \notin Cheapest(p)
      BY <2>3, <3>2 DEF Holds
    <3>4. ValIsLit(p, l) <=> p[v] = -1
      BY <2>3, <3>2 DEF ValIsLit, VarOf
    <3>5. -v \in DOMAIN soft_lits
      BY <3>1
    <3>6. v \in Cheapest(p) <=> (p[v] = 1 \/ p[v] = 0)
      BY <3>5 DEF Cheapest
    <3> QED
      BY <1>1, <3>3, <3>4, <3>6
  <2> QED
    BY <2>2, <2>3
<1>6. {l \in DOMAIN soft_lits : Holds(Cheapest(p), l)} = {l \in DOMAIN soft_lits : ValIsLit(p, l)}
  BY <1>5
<1> QED
  BY <1>3, <1>4, <1>6 DEF Cost, ModelCost

(***************************************************************************)
(* The invariant.                                                          *)
(***************************************************************************)
\* The shape of the data the search reads.
Shape ==
  /\ clause \subseteq Lit
  /\ hard_clauses \subseteq SUBSET Lit
  /\ assumptions \subseteq Lit
  /\ units \subseteq Lit
  /\ DOMAIN soft_lits \subseteq SoftLit
  /\ soft_lits \in [DOMAIN soft_lits -> Weight]
  /\ DOMAIN assignment \subseteq Var

\* Where solve is, and what that says of the rest: assumptions are unit clauses
\* of the IPASIR solver while it runs, and the constraint asks for less than
\* the incumbent.
Control ==
  /\ pc \in {"idle", "first", "improve"}
  /\ pc = "idle" => state \in {"INPUT", "UNSAT", "OPTIMAL"}
  /\ pc # "idle" => state = "SOLVING" /\ assumptions = {}
  /\ pc = "improve" => objective_value \in Nat /\ bound = objective_value - 1

\* The variables of client literals are client variables.
LEMMA VarsOfLits == ASSUME NEW ls, ls \subseteq Lit PROVE VarsOf(ls) \subseteq Var
<1> SUFFICES ASSUME NEW l \in ls PROVE VarOf(l) \in Var
  BY DEF VarsOf
<1>1. CASE l \in Var
  BY <1>1, VarAssumption DEF VarOf
<1>2. CASE \E v \in Var : l = -v
  <2>1. PICK v \in Var : l = -v
    BY <1>2
  <2>2. v \in Nat \ {0}
    BY VarAssumption
  <2> QED
    BY <2>1, <2>2 DEF VarOf
<1> QED
  BY <1>1, <1>2 DEF Lit

\* The instance is built from the client's literals and weights, and solve only
\* assigns client variables.
LEMMA ShapeInvariant == Spec => []Shape
<1>1. SolverInit => Shape
  BY DEF SolverInit, Shape
<1>2. Shape /\ [Next]_vars => Shape'
  <2> SUFFICES ASSUME Shape, [Next]_vars
               PROVE  Shape'
    OBVIOUS
  <2> USE Solver2022Assumption
  <2>1. CASE \E l \in HardLit : AddHard(l)
    BY <2>1 DEF Shape, AddHard, Input, solving
  <2>2. CASE FinishHard
    BY <2>2 DEF Shape, FinishHard, Input, solving
  <2>3. CASE \E l \in AssumeLit : Assume(l)
    BY <2>3 DEF Shape, Assume, Input, solving
  <2>4. CASE \E l \in SoftLit, w \in Weight : AddSoftLit(l, w)
    BY <2>4 DEF Shape, AddSoftLit, Input, solving
  <2>5. CASE SolveStart
    <3>1. VarsOf(UNION hard_clauses) \subseteq Var /\ VarsOf(assumptions) \subseteq Var
      BY VarsOfLits DEF Shape
    <3> QED
      BY <2>5, <3>1 DEF Shape, SolveStart
  <2>6. CASE FirstModel
    <3>1. VarsOf(DOMAIN soft_lits) \subseteq Var
      BY VarsOfLits DEF Shape
    <3> QED
      BY <2>6, <3>1 DEF Shape, FirstModel, Accept, AcceptUnder
  <2>7. CASE ImproveModel
    BY <2>7 DEF Shape, ImproveModel, Accept, AcceptUnder
  <2>8. CASE FirstUnsat \/ ImproveUnsat \/ UNCHANGED vars
    BY <2>8 DEF Shape, FirstUnsat, ImproveUnsat, Return, vars, solving
  <2> QED
    BY <2>1, <2>2, <2>3, <2>4, <2>5, <2>6, <2>7, <2>8 DEF Next, Client, Search
<1> QED
  BY <1>1, <1>2, PTL DEF Spec

\* What the declared literals cost is a natural number.
LEMMA CostOfDeclared == Shape => \A m : Cost(soft_lits, m) \in Nat
<1> SUFFICES ASSUME Shape, NEW m PROVE Cost(soft_lits, m) \in Nat
  OBVIOUS
<1>1. DOMAIN soft_lits \in SUBSET Lit
  BY Solver2022Assumption DEF Shape
<1>2. IsFiniteSet(DOMAIN soft_lits)
  BY <1>1, LitFinite, FS_Subset
<1>3. \A l \in DOMAIN soft_lits : soft_lits[l] \in Nat
  BY WeightAssumption DEF Shape
<1> QED
  BY <1>2, <1>3, CostIsNatural

\* The cost solve computes from a model (lines 84-92, 114-117) is a natural
\* number: it is what some completion of the model costs.
LEMMA ModelCostIsNatural ==
  ASSUME OnePolarity, Shape, NEW p \in PartialModels
  PROVE  ModelCost(p) \in Nat
<1>1. Cost(soft_lits, Cheapest(p)) \in Nat
  BY CostOfDeclared
<1> QED
  BY <1>1, CheapestCompletion DEF Shape

\* Control holds at every step of every call.
LEMMA ControlInvariant == ASSUME OnePolarity PROVE Spec => []Control
<1>1. SolverInit => Control
  BY DEF SolverInit, Control
<1>2. Shape /\ Control /\ [Next]_vars => Control'
  <2> SUFFICES ASSUME Shape, Control, [Next]_vars
               PROVE  Control'
    OBVIOUS
  <2>1. CASE Client
    BY <2>1 DEF Control, Client, AddHard, FinishHard, Assume, AddSoftLit, Input, SolveStart
  <2>2. CASE FirstUnsat \/ ImproveUnsat
    BY <2>2 DEF Control, FirstUnsat, ImproveUnsat, Return, solving
  <2>3. ASSUME NEW p \in PartialModels, Accept(p), pc # "idle" PROVE Control'
    <3>1. ModelCost(p) \in Nat
      BY ModelCostIsNatural
    <3> QED
      BY <2>3, <3>1 DEF Control, Accept, AcceptUnder, Return
  <2>4. CASE FirstModel \/ ImproveModel
    BY <2>3, <2>4 DEF FirstModel, ImproveModel
  <2>5. CASE UNCHANGED vars
    BY <2>5 DEF Control, vars
  <2> QED
    BY <2>1, <2>2, <2>4, <2>5 DEF Next, Search
<1> QED
  BY <1>1, <1>2, ShapeInvariant, PTL DEF Spec

\* Queries under a bound only lose models.
LEMMA QueriesShrink == SolverModels \subseteq InstanceModels(units)
  BY DEF SolverModels

\* Whatever model the last query found, the assignment solve would report now is
\* a solution of the cost it would report.
THEOREM Incumbent ==
  ASSUME OnePolarity
  PROVE  Spec => []IncumbentIsSolution
<1>1. SolverInit => IncumbentIsSolution
  BY DEF SolverInit, IncumbentIsSolution
<1>2. Shape /\ Shape' /\ Control /\ IncumbentIsSolution /\ [Next]_vars => IncumbentIsSolution'
  <2> SUFFICES ASSUME Shape, Shape', Control, IncumbentIsSolution, [Next]_vars
               PROVE  IncumbentIsSolution'
    OBVIOUS
  <2>1. CASE Client
    BY <2>1 DEF IncumbentIsSolution, Client, AddHard, FinishHard, Assume, AddSoftLit, Input,
                SolveStart
  <2>2. CASE FirstUnsat \/ ImproveUnsat
    BY <2>2 DEF IncumbentIsSolution, FirstUnsat, ImproveUnsat, Return
  <2>3. ASSUME NEW p \in PartialModels, Accept(p),
               \A v \in DOMAIN assignment' : assignment'[v] = p[v]
        PROVE  IncumbentIsSolution'
    <3> DEFINE m == Cheapest(p)
    <3>1. m \in InstanceModels(units)
      BY CheapestCompletion, QueriesShrink DEF Shape
    <3>2. InstanceModels(units)' = InstanceModels(units) /\ soft_lits' = soft_lits
      BY <2>3 DEF Accept, AcceptUnder, InstanceModels
    <3>3. \A v \in DOMAIN assignment' : assignment'[v] # 0 => (v \in m <=> assignment'[v] = 1)
      BY <2>3, CheapestCompletion DEF Shape
    <3>4. Cost(soft_lits, m) = objective_value'
      BY <2>3, CheapestCompletion DEF Shape, Accept, AcceptUnder
    <3> QED
      BY <3>1, <3>2, <3>3, <3>4 DEF IncumbentIsSolution
  <2>4. CASE FirstModel \/ ImproveModel
    BY <2>3, <2>4 DEF FirstModel, ImproveModel
  <2>5. CASE UNCHANGED vars
    BY <2>5 DEF IncumbentIsSolution, InstanceModels, vars
  <2> QED
    BY <2>1, <2>2, <2>4, <2>5 DEF Next, Search
<1> QED
  BY <1>1, <1>2, ShapeInvariant, ControlInvariant, PTL DEF Spec

(***************************************************************************)
(* The variables of the pseudo-Boolean constraint.                         *)
(***************************************************************************)
\* A finite set of numbers has a largest one: among the sets of those that are at
\* least x there is a least one.
LEMMA MaxIsLargest ==
  ASSUME NEW S \in SUBSET Nat, S # {}, IsFiniteSet(S)
  PROVE  Max(S) \in S /\ \A y \in S : Max(S) >= y
<1> DEFINE Above(x) == {y \in S : y >= x}
           T == {Above(x) : x \in S}
<1>1. T \subseteq FiniteSubsetsOf(S) /\ T # {}
  <2>1. \A x \in S : Above(x) \in SUBSET S /\ IsFiniteSet(Above(x))
    BY FS_Subset
  <2> QED
    BY <2>1 DEF FiniteSubsetsOf
<1>2. IsWellFoundedOn(StrictSubsetOrdering(S), FiniteSubsetsOf(S))
  BY FS_StrictSubsetOrderingWellFounded
<1> HIDE DEF T
<1>3. \E A \in T : \A B \in T : ~(<<B, A>> \in StrictSubsetOrdering(S))
  BY <1>1, <1>2, WFMin
<1>4. PICK x \in S : \A y \in S : ~(<<Above(y), Above(x)>> \in StrictSubsetOrdering(S))
  BY <1>3 DEF T
<1>5. ASSUME NEW y \in S PROVE x >= y
  <2>1. SUFFICES ASSUME ~(x >= y) PROVE FALSE
    OBVIOUS
  <2>2. x \in Nat /\ y \in Nat /\ y > x
    BY <2>1
  <2>3. ASSUME NEW z \in S, z >= y PROVE z >= x
    <3>1. z \in Nat
      OBVIOUS
    <3> QED
      BY <2>2, <2>3, <3>1
  <2>4. x \in Above(x) /\ x \notin Above(y)
    BY <2>2
  <2> QED
    BY <1>4, <2>3, <2>4 DEF StrictSubsetOrdering
<1> QED
  BY <1>5 DEF Max

\* n_vars is computed over finite sets of the client's variables.
LEMMA LargestBounds ==
  ASSUME NEW vs \in SUBSET Var, NEW n \in Nat
  PROVE  /\ Largest(vs) \in Nat /\ \A v \in vs : v <= Largest(vs)
         /\ Largest({n} \cup vs) \in Nat
         /\ \A v \in {n} \cup vs : v <= Largest({n} \cup vs)
<1>1. IsFiniteSet(vs) /\ IsFiniteSet(vs \cup {n}) /\ {n} \cup vs = vs \cup {n}
  BY FS_Subset, FS_AddElement, VarAssumption
<1>2. vs \in SUBSET Nat /\ {n} \cup vs \in SUBSET Nat
  BY VarAssumption
<1>3. ASSUME NEW S \in SUBSET Nat, IsFiniteSet(S)
      PROVE  Largest(S) \in Nat /\ \A v \in S : v <= Largest(S)
  <2>1. CASE S = {}
    BY <2>1 DEF Largest
  <2>2. CASE S # {}
    <3>1. Max(S) \in S /\ \A v \in S : Max(S) >= v
      BY <1>3, <2>2, MaxIsLargest
    <3> QED
      BY <2>2, <3>1 DEF Largest
  <2> QED
    BY <2>1, <2>2
<1> QED
  BY <1>1, <1>2, <1>3

\* Before the first model, n_vars covers what was given to the IPASIR solver.
Counted ==
  /\ pc = "first" =>
       n_vars \in Nat /\ \A v \in VarsOf((UNION hard_clauses) \cup units) : v <= n_vars
  /\ AuxVarsFresh

\* The first auxiliary variable of PBLib is a new one: it constrains no variable of
\* the instance (lines 61-79 and 94-100).
THEOREM AuxVars == Spec => []AuxVarsFresh
<1>1. SolverInit => Counted
  BY DEF SolverInit, Counted, AuxVarsFresh
<1>2. Shape /\ Counted /\ [Next]_vars => Counted'
  <2> SUFFICES ASSUME Shape, Counted, [Next]_vars PROVE Counted'
    OBVIOUS
  <2>1. ASSUME NEW A, NEW B PROVE VarsOf(A \cup B) = VarsOf(A) \cup VarsOf(B)
    BY DEF VarsOf
  <2>2. CASE \/ \E l \in HardLit : AddHard(l)
             \/ FinishHard
             \/ \E l \in AssumeLit : Assume(l)
             \/ \E l \in SoftLit, w \in Weight : AddSoftLit(l, w)
    <3>1. pc' = "idle"
      BY <2>2 DEF AddHard, FinishHard, Assume, AddSoftLit, Input
    <3> QED
      BY <3>1 DEF Counted, AuxVarsFresh
  <2>3. CASE SolveStart
    <3>1. VarsOf(UNION hard_clauses) \cup VarsOf(assumptions) \in SUBSET Var
      BY VarsOfLits DEF Shape
    <3>2. n_vars' = Largest(VarsOf(UNION hard_clauses) \cup VarsOf(assumptions))
      BY <2>3 DEF SolveStart
    <3>3. n_vars' \in Nat /\ \A v \in VarsOf(UNION hard_clauses) \cup VarsOf(assumptions) :
            v <= n_vars'
      BY <3>1, <3>2, LargestBounds
    <3>4. pc' = "first" /\ units' = assumptions /\ hard_clauses' = hard_clauses
      BY <2>3 DEF SolveStart
    <3> QED
      BY <2>1, <3>3, <3>4 DEF Counted, AuxVarsFresh
  <2>4. CASE FirstModel
    <3>1. VarsOf(DOMAIN soft_lits) \in SUBSET Var
      BY VarsOfLits, Solver2022Assumption DEF Shape
    <3>2. n_vars' = Largest({n_vars} \cup VarsOf(DOMAIN soft_lits)) /\ pc = "first"
      BY <2>4 DEF FirstModel
    <3>3. n_vars \in Nat
      BY <3>2 DEF Counted
    <3>4. n_vars' \in Nat /\ \A v \in {n_vars} \cup VarsOf(DOMAIN soft_lits) : v <= n_vars'
      BY <3>1, <3>2, <3>3, LargestBounds
    <3>5. VarsOf((UNION hard_clauses) \cup units) \in SUBSET Nat
      BY VarsOfLits, VarAssumption DEF Shape
    <3>6. ASSUME NEW v \in VarsOf((UNION hard_clauses) \cup units) PROVE v <= n_vars'
      <4>1. v \in Nat /\ v <= n_vars /\ n_vars <= n_vars'
        BY <3>2, <3>4, <3>5 DEF Counted
      <4> QED
        BY <3>3, <3>4, <4>1
    <3>7. UNCHANGED <<hard_clauses, units, soft_lits>> /\ pc' # "first"
      BY <2>4 DEF FirstModel, Accept, AcceptUnder, Return
    <3> QED
      BY <2>1, <3>4, <3>6, <3>7 DEF Counted, AuxVarsFresh
  <2>5. CASE ImproveModel
    <3>1. /\ UNCHANGED <<hard_clauses, units, soft_lits, n_vars>>
          /\ pc = "improve" /\ pc' # "first"
      BY <2>5 DEF ImproveModel, Accept, AcceptUnder, Return
    <3> QED
      BY <3>1 DEF Counted, AuxVarsFresh
  <2>6. CASE FirstUnsat \/ ImproveUnsat
    BY <2>6 DEF Counted, AuxVarsFresh, FirstUnsat, ImproveUnsat, Return
  <2>7. CASE UNCHANGED vars
    BY <2>7 DEF Counted, AuxVarsFresh, vars
  <2> QED
    BY <2>2, <2>3, <2>4, <2>5, <2>6, <2>7 DEF Next, Client, Search
<1>3. Counted => AuxVarsFresh
  BY DEF Counted
<1> QED
  BY <1>1, <1>2, <1>3, ShapeInvariant, PTL DEF Spec

(***************************************************************************)
(* The refinement.                                                         *)
(***************************************************************************)
\* The contract's instance data are the solver's own.
LEMMA SameData ==
  /\ Contract!Lit = Lit
  /\ Contract!Assignment = Assignment
  /\ \A m, l : Contract!Holds(m, l) <=> Holds(m, l)
  /\ \A m, c : Contract!SatisfiesClause(m, c) <=> SatisfiesClause(m, c)
  /\ \A m, ls : Contract!SatisfiesAll(m, ls) <=> SatisfiesAll(m, ls)
  /\ \A m, value : Contract!Completes(m, value) <=> Completes(m, value)
  BY DEF Contract!Lit, Lit, Contract!Assignment, Assignment, Contract!Holds, Holds,
         Contract!SatisfiesClause, SatisfiesClause, Contract!SatisfiesAll, SatisfiesAll,
         Contract!Completes, Completes

\* The contract adds up as the solver does.
LEMMA SameSum == ASSUME NEW f PROVE Contract!SumFunction(f) = SumFunction(f)
  BY DEF Contract!SumFunction, SumFunction, Contract!SumFunctionOnSet, SumFunctionOnSet,
         Contract!FoldFunctionOnSet, FoldFunctionOnSet, Contract!MapThenFoldSet, MapThenFoldSet

\* The contract prices an assignment as the solver does: the literals that were
\* never declared soft weigh nothing.
LEMMA SameCost == ASSUME NEW soft, NEW m PROVE Contract!Cost(soft, m) = Cost(soft, m)
<1>1. ASSUME NEW f PROVE Contract!TotalWeight(f) = TotalWeight(f)
  BY SameSum DEF Contract!TotalWeight, TotalWeight, Contract!Restrict, Restrict
<1>2. {l \in DOMAIN soft : Contract!Holds(m, l)} = {l \in DOMAIN soft : Holds(m, l)}
  BY SameData
<1> QED
  BY <1>1, <1>2 DEF Contract!Cost, Cost, Contract!Restrict, Restrict

\* The solutions the contract speaks of are the models of the first query.
LEMMA SolutionsAreModels ==
  ASSUME pc # "idle"
  PROVE  Contract!Solutions = InstanceModels(units)
<1>1. Contract!Solutions = {m \in InstanceModels({}) : SatisfiesAll(m, units)}
  BY SameData DEF Contract!Solutions
<1> QED
  BY <1>1 DEF InstanceModels, SatisfiesAll

\* A readable answer is a solution of the cost it reports.
LEMMA ReportIsSolution ==
  ASSUME Shape, pc # "idle", state' = "OPTIMAL",
         soft_lits' = soft_lits,
         NEW m \in InstanceModels(units),
         \A v \in DOMAIN assignment' : assignment'[v] # 0 => (v \in m <=> assignment'[v] = 1),
         objective_value' = Cost(soft_lits, m)
  PROVE  Contract!ReportsSolution
<1>1. m \in Contract!Solutions
  BY SolutionsAreModels
<1>2. objective_value' = Contract!Cost(WeightOfAll(soft_lits), m)
  BY CostOfAll, SameCost, Solver2022Assumption DEF Shape
<1>3. Completes(m, [v \in Var |-> IF Readable' /\ v \in DOMAIN assignment'
                                  THEN assignment'[v] ELSE 0])
  BY DEF Completes, Readable
<1> QED
  BY <1>1, <1>2, <1>3, SameData DEF Contract!ReportsSolution, Readable

\* Nothing but a solution that costs no more is asked of an optimal answer.
LEMMA OptimalAnswer ==
  ASSUME Shape, pc # "idle", Contract!ReportsSolution, state' = "OPTIMAL",
         \A m \in InstanceModels(units) : objective_value' <= Cost(soft_lits, m)
  PROVE  Contract!Optimal
<1>1. ASSUME NEW m \in Contract!Solutions
      PROVE  objective_value' <= Contract!Cost(WeightOfAll(soft_lits), m)
  BY <1>1, SolutionsAreModels, CostOfAll, SameCost, Solver2022Assumption DEF Shape
<1> QED
  BY <1>1 DEF Contract!Optimal, Readable

\* Every step of the solver is one the contract allows.
THEOREM Contracted ==
  ASSUME OnePolarity
  PROVE  Spec => MeetsContract
<1>1. SolverInit => Contract!Init
  <2> SUFFICES ASSUME SolverInit
               PROVE  Contract!Init
    OBVIOUS
  <2>1. InstanceModels({}) = Contract!Assignment
    BY SameData DEF SolverInit, InstanceModels, SatisfiesAll
  <2>2. WeightOfAll(soft_lits) = [l \in Contract!Lit |-> 0]
    BY SameData DEF SolverInit, WeightOfAll
  <2> QED
    BY <2>1, <2>2 DEF SolverInit, Contract!Init, Readable, Contract!NoValue
<1>2. /\ Shape /\ Shape' /\ Control /\ Control'
      /\ IncumbentIsSolution /\ IncumbentIsSolution' /\ [Next]_vars
      => [Contract!Next]_(Contract!vars)
  <2> SUFFICES ASSUME Shape, Shape', Control, Control', IncumbentIsSolution,
                      IncumbentIsSolution', [Next]_vars
               PROVE  [Contract!Next]_(Contract!vars)
    OBVIOUS
  <2> USE Solver2022Assumption
  <2>1. ASSUME Input PROVE Contract!Input
    BY <2>1 DEF Input, Control, Contract!Input, Contract!Callable, Readable, Contract!NoValue
  <2>2. ASSUME NEW l \in HardLit, AddHard(l) PROVE Contract!AddHard(l)
    BY <2>1, <2>2 DEF AddHard, Input, Contract!AddHard, InstanceModels
  <2>3. ASSUME FinishHard PROVE Contract!FinishHard
    <3>1. InstanceModels({})' = {m \in InstanceModels({}) : Contract!SatisfiesClause(m, clause)}
      BY <2>3, SameData DEF FinishHard, InstanceModels
    <3> QED
      BY <2>1, <2>3, <3>1 DEF FinishHard, Input, Contract!FinishHard
  <2>4. ASSUME NEW l \in AssumeLit, Assume(l) PROVE Contract!Assume(l)
    BY <2>1, <2>4 DEF Assume, Input, Contract!Assume, InstanceModels
  <2>5. ASSUME NEW l \in SoftLit, NEW w \in Weight, AddSoftLit(l, w)
        PROVE  Contract!AddSoftLit(l, w)
    <3>1. WeightOfAll(soft_lits)' = [WeightOfAll(soft_lits) EXCEPT ![l] = w]
      BY <2>5 DEF AddSoftLit, WeightOfAll
    <3> QED
      BY <2>1, <2>5, <3>1 DEF AddSoftLit, Input, Contract!AddSoftLit, InstanceModels
  <2>6. ASSUME SolveStart PROVE Contract!SolveCalled
    BY <2>6 DEF SolveStart, Control, Contract!SolveCalled, Contract!Callable, Readable,
                Contract!NoValue, InstanceModels
  <2>7. ASSUME pc # "idle", pc' = "idle", assumptions' = assumptions,
               UNCHANGED <<clause, hard_clauses, soft_lits>>,
               Contract!Optimal \/ Contract!Infeasible
        PROVE  Contract!SolveReturns
    BY <2>7 DEF Control, Contract!SolveReturns, InstanceModels
  <2>8. ASSUME FirstUnsat PROVE Contract!SolveReturns
    <3>1. Contract!Solutions = {}
      BY <2>8, SolutionsAreModels DEF FirstUnsat, SolverModels
    <3>2. Contract!Infeasible
      BY <2>8, <3>1 DEF FirstUnsat, Return, Contract!Infeasible, Contract!ReportsNothing,
                        Readable, Contract!NoValue
    <3> QED
      BY <2>7, <2>8, <3>2 DEF FirstUnsat, Return
  <2>9. ASSUME ImproveUnsat PROVE Contract!SolveReturns
    <3>1. PICK m \in InstanceModels(units) :
            /\ \A v \in DOMAIN assignment : assignment[v] # 0 => (v \in m <=> assignment[v] = 1)
            /\ Cost(soft_lits, m) = objective_value
      BY <2>9 DEF ImproveUnsat, IncumbentIsSolution
    <3>2. Contract!ReportsSolution
      BY <2>9, <3>1, ReportIsSolution DEF ImproveUnsat, Return, solving
    <3>3. ASSUME NEW k \in InstanceModels(units) PROVE objective_value' <= Cost(soft_lits, k)
      <4>1. Cost(soft_lits, k) \in Nat
        BY CostOfDeclared
      <4>2. ~(Cost(soft_lits, k) <= bound)
        BY <2>9 DEF ImproveUnsat, SolverModels
      <4> QED
        BY <2>9, <4>1, <4>2 DEF ImproveUnsat, Control, solving
    <3>4. Contract!Optimal
      BY <2>9, <3>2, <3>3, OptimalAnswer DEF ImproveUnsat, Return
    <3> QED
      BY <2>7, <2>9, <3>4 DEF ImproveUnsat, Return
  <2>10. ASSUME NEW p \in PartialModels, Accept(p), pc # "idle",
                \A v \in DOMAIN assignment' : assignment'[v] = p[v]
         PROVE  Contract!SolveReturns \/ UNCHANGED Contract!vars
    <3> DEFINE m == Cheapest(p)
    <3>1. /\ m \in InstanceModels(units)
          /\ \A v \in DOMAIN assignment' : assignment'[v] # 0 => (v \in m <=> assignment'[v] = 1)
          /\ objective_value' = Cost(soft_lits, m)
      BY <2>10, CheapestCompletion, QueriesShrink DEF Shape, Accept, AcceptUnder
    <3>2. CASE ModelCost(p) = 0
      <4>1. Contract!ReportsSolution
        BY <2>10, <3>1, <3>2, ReportIsSolution DEF Accept, AcceptUnder, Return
      <4>2. ASSUME NEW k \in InstanceModels(units) PROVE objective_value' <= Cost(soft_lits, k)
        <5>1. Cost(soft_lits, k) \in Nat
          BY CostOfDeclared
        <5> QED
          BY <2>10, <3>2, <5>1 DEF Accept, AcceptUnder
      <4>3. Contract!Optimal
        BY <2>10, <3>2, <4>1, <4>2, OptimalAnswer DEF Accept, AcceptUnder, Return
      <4> QED
        BY <2>7, <2>10, <3>2, <4>3 DEF Accept, AcceptUnder, Return
    <3>3. CASE ModelCost(p) # 0
      BY <2>10, <3>3 DEF Accept, AcceptUnder, Control, Contract!vars, InstanceModels, Readable
    <3> QED
      BY <3>2, <3>3
  <2>11. CASE FirstModel \/ ImproveModel
    BY <2>10, <2>11 DEF FirstModel, ImproveModel, Contract!Next
  <2>12. CASE UNCHANGED vars
    BY <2>12 DEF vars, Contract!vars, InstanceModels, Readable
  <2> QED
    BY <2>2, <2>3, <2>4, <2>5, <2>6, <2>8, <2>9, <2>11, <2>12, SameData
    DEF Next, Client, Search, Contract!Next
<1> QED
  BY <1>1, <1>2, ShapeInvariant, ControlInvariant, Incumbent, PTL
  DEF Spec, MeetsContract, Contract!Spec
=============================================================================
