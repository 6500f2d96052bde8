----------------------------- MODULE Solver2022 -----------------------------
(***************************************************************************)
(* maxsat/solver2022/ipamirsolverglue.cc: the reference IPAMIR solver, a   *)
(* linear SAT-UNSAT search.  Every ipamir_solve builds a fresh IPASIR       *)
(* solver, asks for a first model, and then keeps demanding a strictly     *)
(* cheaper one through a PBLib constraint until there is none.             *)
(*                                                                         *)
(* The IPASIR solver is external (ipasir.h): it holds the hard clauses,    *)
(* the assumptions as unit clauses and the current PBLib bound, and its    *)
(* answer to a satisfiable query is a partial assignment all of whose      *)
(* completions are models.                                                 *)
(***************************************************************************)
EXTENDS MaxSatInstance, FiniteSetsExt

CONSTANTS
  HardLit,       \* the literals the client puts in hard clauses
  SoftLit,       \* the literals it declares soft
  AssumeLit,     \* the literals it assumes
  MaxClauses,    \* bound: hard clauses
  MaxClauseLen,  \* bound: literals of a hard clause
  MaxAssumed     \* bound: assumptions of one solve

ASSUME Solver2022Assumption ==
  /\ HardLit \cup SoftLit \cup AssumeLit \subseteq Lit
  /\ {MaxClauses, MaxClauseLen, MaxAssumed} \subseteq Nat

VARIABLES
  clause,           \* the hard clause being added
  hard_clauses,
  soft_lits,        \* soft literal -> weight
  assumptions,
  objective_value,
  assignment,       \* variable -> 1, -1 or 0, on the variables seen by solve
  n_vars,           \* the largest variable solve has seen
  units,            \* the IPASIR solver: assumptions added as unit clauses
  bound,            \* the IPASIR solver: cost allowed by the PBLib constraint
  pc,               \* where solve is: "idle", "first" or "improve"
  state             \* the state of ipamir.h the last call left

vars == <<clause, hard_clauses, soft_lits, assumptions, objective_value,
          assignment, n_vars, units, bound, pc, state>>

solving == <<objective_value, assignment, n_vars, units, bound>>

SolverInit ==
  /\ clause = {}
  /\ hard_clauses = {}
  /\ soft_lits = [l \in {} |-> 0]
  /\ assumptions = {}
  /\ objective_value = 0
  /\ assignment = [v \in {} |-> 0]
  /\ n_vars = 0
  /\ units = {}
  /\ bound = 0
  /\ pc = "idle"
  /\ state = "INPUT"

(***************************************************************************)
(* Building the instance.                                                  *)
(***************************************************************************)
Input == pc = "idle" /\ state' = "INPUT" /\ UNCHANGED <<pc, solving>>

AddHard(l) ==
  /\ Cardinality(clause \cup {l}) <= MaxClauseLen
  /\ Input
  /\ clause' = clause \cup {l}
  /\ UNCHANGED <<hard_clauses, soft_lits, assumptions>>

FinishHard ==
  /\ Cardinality(hard_clauses \cup {clause}) <= MaxClauses
  /\ Input
  /\ hard_clauses' = hard_clauses \cup {clause}
  /\ clause' = {}
  /\ UNCHANGED <<soft_lits, assumptions>>

AddSoftLit(l, w) ==
  /\ Input
  /\ soft_lits' = [k \in DOMAIN soft_lits \cup {l} |->
                     IF k = l THEN w ELSE soft_lits[k]]
  /\ UNCHANGED <<clause, hard_clauses, assumptions>>

Assume(l) ==
  /\ Cardinality(assumptions \cup {l}) <= MaxAssumed
  /\ Input
  /\ assumptions' = assumptions \cup {l}
  /\ UNCHANGED <<clause, hard_clauses, soft_lits>>

(***************************************************************************)
(* The IPASIR solver.                                                      *)
(***************************************************************************)
VarsOf(ls) == {VarOf(l) : l \in ls}

Largest(vs) == IF vs = {} THEN 0 ELSE Max(vs)

InstanceModels(ls) ==
  {m \in Assignment : /\ \A c \in hard_clauses : SatisfiesClause(m, c)
                      /\ SatisfiesAll(m, ls)}

SolverModels ==
  IF pc = "improve"
  THEN {m \in InstanceModels(units) : Cost(soft_lits, m) <= bound}
  ELSE InstanceModels(units)

\* ipasir_val: "Each solution that agrees with all non-zero values of
\* ipasir_val() is a model of the formula."
PartialModels ==
  {p \in [Var -> {-1, 0, 1}] :
     {m \in Assignment : Completes(m, p)} \subseteq SolverModels}

ValIsLit(p, l) == p[VarOf(l)] = IF l > 0 THEN 1 ELSE -1

\* The cost of a model: the weights of the soft literals the solver reports.
ModelCost(p) ==
  TotalWeight(Restrict(soft_lits, {l \in DOMAIN soft_lits : ValIsLit(p, l)}))

(***************************************************************************)
(* ipamir_solve.                                                           *)
(***************************************************************************)
Return(s) == pc' = "idle" /\ state' = s

\* Mutant: assumptions outlive the call.
SolveStartKeeps ==
  LET known == VarsOf(UNION hard_clauses) \cup VarsOf(assumptions) IN
  /\ pc = "idle"
  /\ pc' = "first"
  /\ state' = "SOLVING"
  /\ n_vars' = Largest(known)
  /\ assignment' = [v \in known |-> 0]
  /\ units' = assumptions
  /\ UNCHANGED <<clause, hard_clauses, soft_lits, assumptions, objective_value, bound>>

SolveStart ==
  LET known == VarsOf(UNION hard_clauses) \cup VarsOf(assumptions) IN
  /\ pc = "idle"
  /\ pc' = "first"
  /\ state' = "SOLVING"
  /\ n_vars' = Largest(known)
  /\ assignment' = [v \in known |-> 0]
  /\ units' = assumptions
  /\ assumptions' = {}
  /\ UNCHANGED <<clause, hard_clauses, soft_lits, objective_value, bound>>

FirstUnsat ==
  /\ pc = "first"
  /\ SolverModels = {}
  /\ Return("UNSAT")
  /\ UNCHANGED <<clause, hard_clauses, soft_lits, assumptions, solving>>

AcceptUnder(p, newBound) ==
  /\ objective_value' = ModelCost(p)
  /\ bound' = newBound
  /\ IF ModelCost(p) = 0 THEN Return("OPTIMAL") ELSE pc' = "improve" /\ state' = state
  /\ UNCHANGED <<clause, hard_clauses, soft_lits, assumptions, units>>

\* Mutant: a bound that is not strict.
AcceptEqual(p) == AcceptUnder(p, ModelCost(p))

\* Record the model; stop at cost 0, otherwise ask for less.
Accept(p) == AcceptUnder(p, IF ModelCost(p) = 0 THEN bound ELSE ModelCost(p) - 1)

\* Mutant: the variables of soft literals are not counted.
FirstModelForgetsVars ==
  /\ pc = "first"
  /\ \E p \in PartialModels :
       /\ assignment' = [v \in DOMAIN assignment \cup VarsOf(DOMAIN soft_lits) |-> p[v]]
       /\ Accept(p)
  /\ UNCHANGED n_vars

FirstModel ==
  /\ pc = "first"
  /\ \E p \in PartialModels :
       /\ assignment' = [v \in DOMAIN assignment \cup VarsOf(DOMAIN soft_lits) |-> p[v]]
       /\ Accept(p)
  /\ n_vars' = Largest({n_vars} \cup VarsOf(DOMAIN soft_lits))

\* Mutant: the better model is not read.
ImproveModelUnread ==
  /\ pc = "improve"
  /\ \E p \in PartialModels : Accept(p)
  /\ UNCHANGED <<assignment, n_vars>>

ImproveModel ==
  /\ pc = "improve"
  /\ \E p \in PartialModels :
       /\ assignment' = [v \in DOMAIN assignment |-> p[v]]
       /\ Accept(p)
  /\ UNCHANGED n_vars

ImproveUnsat ==
  /\ pc = "improve"
  /\ SolverModels = {}
  /\ Return("OPTIMAL")
  /\ UNCHANGED <<clause, hard_clauses, soft_lits, assumptions, solving>>

Client ==
  \/ \E l \in HardLit : AddHard(l)
  \/ FinishHard
  \/ \E l \in AssumeLit : Assume(l)
  \/ \E l \in SoftLit, w \in Weight : AddSoftLit(l, w)
  \/ SolveStart

Search == FirstUnsat \/ FirstModel \/ ImproveModel \/ ImproveUnsat

Next == Client \/ Search

\* A call of ipamir_solve runs to its end: IPASIR answers every query.
Spec == SolverInit /\ [][Next]_vars /\ WF_vars(Search)

(***************************************************************************)
(* Properties.                                                             *)
(***************************************************************************)
TypeOK ==
  /\ clause \subseteq Lit
  /\ hard_clauses \subseteq SUBSET Lit
  /\ DOMAIN soft_lits \subseteq SoftLit
  /\ \A l \in DOMAIN soft_lits : soft_lits[l] \in Weight
  /\ assumptions \subseteq Lit
  /\ units \subseteq Lit
  /\ {objective_value, bound, n_vars} \subseteq Nat
  /\ DOMAIN assignment \subseteq Var
  /\ \A v \in DOMAIN assignment : assignment[v] \in {-1, 0, 1}
  /\ pc \in {"idle", "first", "improve"}
  /\ state \in {"INPUT", "SOLVING", "UNSAT", "OPTIMAL"}

\* What the search relies on: no variable has two soft literals (otherwise the
\* cost of a model that leaves it open is not the one computed).
OnePolarity == \A l \in SoftLit : -l \notin SoftLit

Readable == state = "OPTIMAL"

\* Between calls the assumptions for the next solve are in `assumptions'; while
\* solve runs they are the unit clauses of its IPASIR solver.
Contract == INSTANCE Ipamir WITH
  feasible  <- InstanceModels({}),
  open      <- clause,
  soft      <- WeightOfAll(soft_lits),
  assumed   <- IF pc = "idle" THEN assumptions ELSE units,
  callback  <- FALSE,
  refused   <- FALSE,
  objective <- IF Readable THEN objective_value ELSE 0,
  value     <- [v \in Var |-> IF Readable /\ v \in DOMAIN assignment
                              THEN assignment[v] ELSE 0]

\* Every call does what ipamir.h promises of it: 20 only when no solution
\* exists, 30 only with a solution of the reported cost that nothing beats,
\* the assumptions gone afterwards (solve, lines 53-128).
MeetsContract == Contract!Spec

\* While solve improves, the assignment it would report satisfies the hard
\* clauses and the assumptions and costs what objective_value says, whatever
\* model the next query finds (lines 110-118).
IncumbentIsSolution ==
  pc = "improve" =>
    \E m \in InstanceModels(units) :
      /\ \A v \in DOMAIN assignment : assignment[v] # 0 => (v \in m <=> assignment[v] = 1)
      /\ Cost(soft_lits, m) = objective_value

\* PBLib numbers its auxiliary variables from n_vars + 1 (line 99): no variable
\* of a hard clause, an assumption or a soft literal is among them.
AuxVarsFresh ==
  pc = "improve" =>
    \A v \in VarsOf((UNION hard_clauses) \cup units \cup DOMAIN soft_lits) : v <= n_vars

\* Every call of ipamir_solve returns: the bound cannot be strengthened for ever.
SolveReturns == (pc = "first") ~> (pc = "idle")
=============================================================================
