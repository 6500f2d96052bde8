------------------------------ MODULE Aperture ------------------------------
(***************************************************************************)
(* Aperture behind the IPAMIR interface: ipamir/AIpamirWrapper.cc collects *)
(* the instance, maxsat/MaxSAT.cc runs a solve through its phases, which   *)
(* hand each other the latest solution and its cost: an initial SAT call,  *)
(* local search (NuWeighting.cc), Mrs. Beaver with Polosat (MrsBeaver.cc,  *)
(* Polosat.cc), and a linear search under an encoded bound (LSU.cc).       *)
(*                                                                         *)
(* The SAT solver is external: it holds the client's clauses and those of  *)
(* every encoding made so far, and answers a limited call as it likes.     *)
(* Variables of encodings beyond the client's numbers are projected away.  *)
(***************************************************************************)
EXTENDS LocalSearch, Encoders

CONSTANTS
  Scripts,           \* the clients: sequences of sets of calls, one of each is made
  UseLocalSearch,    \* use_local_search
  ClausesThreshold,  \* mrs_beaver_size_switch_to_complete
  MaxNonImproving    \* mrs_beaver_max_non_improving_iterations

ASSUME ApertureAssumption ==
  /\ UseLocalSearch \in BOOLEAN
  /\ ClausesThreshold \in Nat
  /\ MaxNonImproving \in Nat

VARIABLES
  script,            \* what is left of the client's script
  current_clause_,   \* the literals of the hard clause being added
  clauses_,          \* the client's hard clauses, in order
  maxVar,            \* MaxVar(): the variables that exist, the encoders' included
  soft_lits_,        \* pairs <<weight, literal>>, in order of declaration
  assumptions_,
  terminate_,        \* current_terminate_state_, "none" without a callback
  told,              \* the state the last call of the callback was given
  encodings,         \* the clauses of every encoding LSU has added
  pc,                \* where the solve is
  latest_solution_,  \* variable -> truth value, empty before a solution is found
  latest_value,      \* latest_maxsat_value_
  optimal,           \* latest_maxsat_optimal_
  fits,              \* prev_turn_off_due_to_size_answer
  best,              \* latest_best_cost of Mrs. Beaver's loop
  nonimproving,      \* non_improving_iterations
  lsu,               \* the encoding LSU bounds the cost with
  state              \* the state of ipamir.h the last call left

client == <<current_clause_, clauses_, soft_lits_, terminate_>>
beaver == <<fits, best, nonimproving>>
found  == <<latest_solution_, latest_value, optimal>>
vars   == <<script, client, maxVar, assumptions_, told, encodings, pc, found,
            beaver, lsu, state>>

NoSolution == [v \in {} |-> FALSE]
NoBound == [kind |-> "none"]

\* numeric_limits<TWeight>::max(): above every cost.
Unknown == 2^kNumBitsInWeight

Init ==
  /\ script \in Scripts
  /\ current_clause_ = <<>>
  /\ clauses_ = <<>>
  /\ maxVar = 0
  /\ soft_lits_ = <<>>
  /\ assumptions_ = {}
  /\ terminate_ = "none"
  /\ told = "none"
  /\ encodings = {}
  /\ pc = "idle"
  /\ latest_solution_ = NoSolution
  /\ latest_value = Unknown
  /\ optimal = FALSE
  /\ fits = FALSE
  /\ best = 0
  /\ nonimproving = 0
  /\ lsu = NoBound
  /\ state = "INPUT"

(***************************************************************************)
(* The client's calls.  script[i] holds the calls it may make as its i-th, *)
(* Skip among them if it may leave that one out.                           *)
(***************************************************************************)
Skip == [call |-> "skip"]

Calls(c) ==
  /\ pc = "idle"
  /\ state # "ERROR"
  /\ \E i \in DOMAIN script :
       /\ c \in script[i]
       /\ \A j \in 1 .. i - 1 : Skip \in script[j]
       /\ script' = SubSeq(script, i + 1, Len(script))

Input ==
  /\ state' = "INPUT"
  /\ UNCHANGED <<pc, terminate_, told, encodings, found, beaver, lsu>>

AddHard(l) ==
  /\ Calls([call |-> "add_hard", lit |-> l])
  /\ Input
  /\ current_clause_' = Append(current_clause_, l)
  /\ maxVar' = IF VarOf(l) > maxVar THEN VarOf(l) ELSE maxVar
  /\ UNCHANGED <<clauses_, soft_lits_, assumptions_>>

FinishHard ==
  /\ Calls([call |-> "add_hard", lit |-> 0])
  /\ Input
  /\ clauses_' = Append(clauses_, current_clause_)
  /\ current_clause_' = <<>>
  /\ UNCHANGED <<maxVar, soft_lits_, assumptions_>>

\* A known literal gets its new weight in place.
AddSoftLit(l, w) ==
  /\ Calls([call |-> "add_soft_lit", lit |-> l, weight |-> w])
  /\ Input
  /\ soft_lits_' = IF l \in SoftLits(soft_lits_)
                   THEN [i \in DOMAIN soft_lits_ |->
                           IF soft_lits_[i][2] = l THEN <<w, l>> ELSE soft_lits_[i]]
                   ELSE Append(soft_lits_, <<w, l>>)
  /\ UNCHANGED <<current_clause_, clauses_, maxVar, assumptions_>>

Assume(l) ==
  /\ Calls([call |-> "assume", lit |-> l])
  /\ Input
  /\ assumptions_' = assumptions_ \cup {l}
  /\ UNCHANGED <<current_clause_, clauses_, maxVar, soft_lits_>>

SetTerminate(s) ==
  /\ Calls([call |-> "set_terminate", state |-> s])
  /\ terminate_' = s
  /\ UNCHANGED <<current_clause_, clauses_, maxVar, soft_lits_, assumptions_, told,
                 encodings, pc, found, beaver, lsu, state>>

(***************************************************************************)
(* The SAT solver.                                                         *)
(***************************************************************************)
Created == {v \in Var : v <= maxVar}

LiteralsOf(m) == m \cup {-v : v \in Created \ m}

\* The clauses of the encodings can be satisfied beside the assignment.
EncodingsExtend(m, given) ==
  \A e \in encodings : Extends(e, LiteralsOf(m) \cup given)

HardModels ==
  {m \in SUBSET Created :
     \A i \in DOMAIN clauses_ : SatisfiesClause(m, ToSet(clauses_[i]))}

\* The models of a call with the client's assumptions and those of a bound.
ModelsUnder(given) ==
  {m \in HardModels : SatisfiesAll(m, assumptions_) /\ EncodingsExtend(m, given)}

Models == ModelsUnder({})

(***************************************************************************)
(* Solutions and the callback.                                             *)
(***************************************************************************)
SoftWeights ==
  [l \in SoftLits(soft_lits_) |-> WeightIn(soft_lits_, l)]

WeightedCost(m) == Cost(SoftWeights, m)

Save(m) == latest_solution_' = [v \in Created |-> v \in m]

Latest == {v \in DOMAIN latest_solution_ : latest_solution_[v]}

\* The callback is called, with the state that SolveWeightedMaxSAT was called
\* with, not with current_terminate_state_; without one the answer is FALSE.
Ask(answer) ==
  IF terminate_ = "none" THEN ~answer /\ UNCHANGED told ELSE told' = "null"

Return(s) ==
  /\ pc' = "idle"
  /\ state' = s
  /\ assumptions_' = {}
  /\ lsu' = NoBound

Continue(where) ==
  /\ pc' = where
  /\ UNCHANGED <<assumptions_, state>>

\* Mutant: whatever ends the solve, its solution is called optimal.
ExitOptimalOr(where) ==
  \E answer \in BOOLEAN :
    /\ Ask(answer)
    /\ IF answer \/ latest_value = 0
       THEN optimal' = TRUE /\ Return("OPTIMAL")
       ELSE Continue(where) /\ UNCHANGED <<optimal, lsu>>

\* ShouldExitAfterSolutionFound, between two phases: a cost of 0 is optimal.
ExitOr(where) ==
  \E answer \in BOOLEAN :
    /\ Ask(answer)
    /\ IF answer \/ latest_value = 0
       THEN /\ optimal' = (latest_value = 0)
            /\ Return(IF latest_value = 0 THEN "OPTIMAL" ELSE "SAT")
       ELSE Continue(where) /\ UNCHANGED <<optimal, lsu>>

(***************************************************************************)
(* Solve: the checks, then the initial SAT call.                           *)
(***************************************************************************)
Valid == \A l \in assumptions_ \cup SoftLits(soft_lits_) : VarOf(l) <= maxVar

SolveCalled ==
  /\ Calls([call |-> "solve"])
  /\ pc' = "check"
  /\ state' = "SOLVING"
  /\ UNCHANGED <<client, maxVar, assumptions_, told, encodings, found, beaver, lsu>>

SolveError ==
  /\ pc = "check"
  /\ ~Valid
  /\ Return("ERROR")
  /\ UNCHANGED <<script, client, maxVar, told, encodings, found, beaver>>

ResetMaxSAT ==
  /\ pc = "check"
  /\ Valid
  /\ latest_solution_' = NoSolution
  /\ latest_value' = Unknown
  /\ optimal' = FALSE
  /\ pc' = "initial"
  /\ UNCHANGED <<script, client, maxVar, assumptions_, told, encodings, beaver, lsu, state>>

InitialUnsat ==
  /\ pc = "initial"
  /\ Models = {}
  /\ Return("UNSAT")
  /\ UNCHANGED <<script, client, maxVar, told, encodings, found, beaver>>

InitialSat ==
  /\ pc = "initial"
  /\ \E m \in Models :
       /\ Save(m)
       /\ latest_value' = WeightedCost(m)
  /\ pc' = "found"
  /\ UNCHANGED <<script, client, maxVar, assumptions_, told, encodings, optimal, beaver,
                 lsu, state>>

AfterInitial ==
  /\ pc = "found"
  /\ ExitOr(IF UseLocalSearch THEN "build" ELSE "beaver")
  /\ UNCHANGED <<script, client, maxVar, encodings, latest_solution_, latest_value, beaver>>

(***************************************************************************)
(* Local search.  Building its instance already changes the solution; then *)
(* any cheaper assignment the search may reach is saved.                   *)
(***************************************************************************)
SearchInstance ==
  Instance(clauses_, soft_lits_, assumptions_, UNION UNION encodings)

LocalSearchBuild ==
  /\ pc = "build"
  /\ \E inst \in {SearchInstance} : Save(MakeTrue(Latest, {-l : l \in inst.dropped}))
  /\ pc' = "local"
  /\ UNCHANGED <<script, client, maxVar, assumptions_, told, encodings, latest_value,
                 optimal, beaver, lsu, state>>

\* The assignments the search can turn the latest one into.
Reachable(inst) ==
  LET fixed == Created \ (Flippable(inst) \cup {VarOf(l) : l \in UNION UNION encodings})
  IN  {m \in SUBSET Created : m \cap fixed = Latest \cap fixed /\ EncodingsExtend(m, {})}

LocalSearchImprove ==
  /\ pc = "local"
  /\ \E inst \in {SearchInstance} :
       \E m \in Reachable(inst) :
         /\ HardSatisfied(inst, m)
         /\ FullUnsatWeight(inst, m) < latest_value
         /\ Save(SavedSolution(inst, m))
         /\ latest_value' = FullUnsatWeight(inst, m)
  /\ \E answer \in BOOLEAN :
       /\ Ask(answer)
       /\ pc' = IF answer \/ latest_value' = 0 THEN "localdone" ELSE "local"
  /\ UNCHANGED <<script, client, maxVar, assumptions_, encodings, optimal, beaver, lsu, state>>

\* The search stops at a limit of flips or steps.
LocalSearchEnd ==
  /\ pc \in {"local", "localdone"}
  /\ ExitOr("beaver")
  /\ UNCHANGED <<script, client, maxVar, encodings, latest_solution_, latest_value, beaver>>

(***************************************************************************)
(* Mrs. Beaver: Polosat once, then iterations of ObvBS, until a totalizer  *)
(* for the next bound is small enough or nothing improves any more.        *)
(***************************************************************************)
WLits == ToSet(soft_lits_)

Weighted == \E wl \in WLits : wl[1] # 1

TurnOffDueToSize(value) ==
  /\ ClausesThreshold # 0
  /\ IF Weighted THEN IsLeqGenTotExceedsThr(WLits, value - 1, ClausesThreshold)
                 ELSE IsLeqTotExceedsThr(WLits, value - 1, ClausesThreshold)

\* The callback is asked first; the size is looked at only if it lets go on.
PolosatGoesOn(answer, value) ==
  /\ fits' = (~answer /\ value > 0 /\ TurnOffDueToSize(value))
  /\ pc' = IF answer \/ value = 0 \/ fits' THEN "afterpolosat" ELSE "polosat"

BeaverStart ==
  /\ pc = "beaver"
  /\ \E answer \in BOOLEAN : Ask(answer) /\ PolosatGoesOn(answer, latest_value)
  /\ UNCHANGED <<script, client, maxVar, assumptions_, encodings, found, best,
                 nonimproving, lsu, state>>

\* Mutant: a model as dear as the latest one is an improvement.
NotDearer(m) == WeightedCost(m) <= latest_value

\* A limited SAT call found a cheaper model.
Cheaper(m) == WeightedCost(m) < latest_value

PolosatImprove ==
  /\ pc = "polosat"
  /\ \E m \in Models :
       /\ Cheaper(m)
       /\ Save(m)
       /\ latest_value' = WeightedCost(m)
       /\ \E answer \in BOOLEAN : Ask(answer) /\ PolosatGoesOn(answer, WeightedCost(m))
  /\ UNCHANGED <<script, client, maxVar, assumptions_, encodings, optimal, best,
                 nonimproving, lsu, state>>

\* No epoch is good any more, or the callback ends one.
PolosatEnd ==
  /\ pc = "polosat"
  /\ pc' = "afterpolosat"
  /\ \E answer \in BOOLEAN : Ask(answer)
  /\ UNCHANGED <<script, client, maxVar, assumptions_, encodings, found, beaver, lsu, state>>

AfterPolosat ==
  /\ pc = "afterpolosat"
  /\ best' = latest_value
  /\ nonimproving' = 0
  /\ pc' = "iterate"
  /\ UNCHANGED <<script, client, maxVar, assumptions_, told, encodings, found, fits, lsu,
                 state>>

Iterate ==
  /\ pc = "iterate"
  /\ fits' = (fits \/ TurnOffDueToSize(latest_value))
  /\ pc' = IF fits' \/ nonimproving >= MaxNonImproving THEN "afterbeaver" ELSE "obv"
  /\ UNCHANGED <<script, client, maxVar, assumptions_, told, encodings, found, best,
                 nonimproving, lsu, state>>

ObvImprove ==
  /\ pc = "obv"
  /\ \E m \in Models :
       /\ Cheaper(m)
       /\ Save(m)
       /\ latest_value' = WeightedCost(m)
  /\ UNCHANGED <<script, client, maxVar, assumptions_, told, encodings, pc, optimal,
                 beaver, lsu, state>>

ObvEnd ==
  /\ pc = "obv"
  /\ IF latest_value < best
     THEN \E answer \in BOOLEAN :
            /\ Ask(answer)
            /\ IF answer \/ latest_value = 0
               THEN pc' = "afterbeaver" /\ UNCHANGED <<best, nonimproving>>
               ELSE pc' = "iterate" /\ best' = latest_value /\ nonimproving' = 0
     ELSE /\ pc' = "iterate"
          /\ nonimproving' = nonimproving + 1
          /\ UNCHANGED <<told, best>>
  /\ UNCHANGED <<script, client, maxVar, assumptions_, encodings, found, fits, lsu, state>>

BeaverEnd ==
  /\ pc = "afterbeaver"
  /\ ExitOr("encode")
  /\ UNCHANGED <<script, client, maxVar, encodings, latest_solution_, latest_value, beaver>>

(***************************************************************************)
(* LSU: a totalizer with a selector if Mrs. Beaver stopped for size, an    *)
(* adder without one otherwise; both stay in the solver.                   *)
(***************************************************************************)
EncodeTotalizer ==
  /\ pc = "encode"
  /\ fits
  /\ \E selector \in {maxVar + 1} :
       \E e \in {EncodeGenTotalizer(WLits, selector + 1, selector, latest_value - 1)} :
         /\ encodings' = encodings \cup {e.clauses}
         /\ maxVar' = e.next - 1
         /\ lsu' = [kind |-> "totalizer", selector |-> selector, out |-> e.queue[1]]
  /\ Continue("lsu")
  /\ UNCHANGED <<script, client, told, found, beaver>>

EncodeComparator ==
  /\ pc = "encode"
  /\ ~fits
  /\ \E e \in {Step(LessThanOrEqualBits, EncodeAdder(WLits, maxVar + 1))} :
       /\ encodings' = encodings \cup {e.clauses}
       /\ maxVar' = e.next - 1
       /\ lsu' = [kind |-> "adder", out |-> e.bound]
  /\ Continue("lsu")
  /\ UNCHANGED <<script, client, told, found, beaver>>

\* Mutant: the adder's bound is inclusive, and nothing is subtracted from it.
BoundIncluded ==
  IF lsu.kind = "totalizer"
  THEN {-lsu.selector} \cup BoundWithTotalizer(lsu.out, latest_value, Weighted)
  ELSE UpdateLEQBound(lsu.out, latest_value)

\* The assumptions that ask for less than the latest value.
Bound ==
  IF lsu.kind = "totalizer"
  THEN {-lsu.selector} \cup BoundWithTotalizer(lsu.out, latest_value, Weighted)
  ELSE UpdateLEQBound(lsu.out, latest_value - 1)

\* ShouldExitAfterSolutionFound ends the search here without a look at why.
LsuImprove ==
  /\ pc = "lsu"
  /\ \E m \in ModelsUnder(Bound) :
       LET value == IF WeightedCost(m) < latest_value THEN WeightedCost(m) ELSE latest_value
       IN  /\ Save(m)
           /\ latest_value' = value
           /\ \E answer \in BOOLEAN :
                /\ Ask(answer)
                /\ IF answer \/ value = 0
                   THEN Return("SAT")
                   ELSE Continue("lsu") /\ UNCHANGED lsu
  /\ UNCHANGED <<script, client, maxVar, encodings, optimal, beaver>>

LsuOptimal ==
  /\ pc = "lsu"
  /\ ModelsUnder(Bound) = {}
  /\ optimal' = TRUE
  /\ Return("OPTIMAL")
  /\ UNCHANGED <<script, client, maxVar, told, encodings, latest_solution_, latest_value, beaver>>

ClientStep ==
  \/ \E l \in Lit : AddHard(l) \/ Assume(l)
  \/ FinishHard
  \/ \E l \in Lit, w \in Weight : AddSoftLit(l, w)
  \/ \E s \in {"none", "client"} : SetTerminate(s)
  \/ SolveCalled

SolverStep ==
  \/ SolveError
  \/ ResetMaxSAT
  \/ InitialUnsat
  \/ InitialSat
  \/ AfterInitial
  \/ LocalSearchBuild
  \/ LocalSearchImprove
  \/ LocalSearchEnd
  \/ BeaverStart
  \/ PolosatImprove
  \/ PolosatEnd
  \/ AfterPolosat
  \/ Iterate
  \/ ObvImprove
  \/ ObvEnd
  \/ BeaverEnd
  \/ EncodeTotalizer
  \/ EncodeComparator
  \/ LsuImprove
  \/ LsuOptimal

Next == ClientStep \/ SolverStep

\* The solver runs on; the client need not call.
Spec == Init /\ [][Next]_vars /\ WF_vars(SolverStep)

-----------------------------------------------------------------------------
(***************************************************************************)
(* Properties.                                                             *)
(***************************************************************************)
HasSolution == pc \notin {"idle", "check", "initial"}

\* What a solution is, from the client's calls alone.
IsSolution(m) ==
  /\ \A i \in DOMAIN clauses_ : SatisfiesClause(m, ToSet(clauses_[i]))
  /\ SatisfiesAll(m, assumptions_)

TypeOK ==
  /\ ToSet(current_clause_) \subseteq Lit
  /\ \A i \in DOMAIN clauses_ : ToSet(clauses_[i]) \subseteq Lit
  /\ maxVar \in Nat
  /\ ToSet(soft_lits_) \subseteq Weight \X Lit
  /\ assumptions_ \subseteq Lit
  /\ terminate_ \in {"none", "client"}
  /\ told \in {"none", "client", "null"}
  /\ DOMAIN latest_solution_ \subseteq Created
  /\ latest_value \in 0 .. Unknown
  /\ optimal \in BOOLEAN
  /\ fits \in BOOLEAN
  /\ {best, nonimproving} \subseteq Nat
  /\ state \in {"INPUT", "SAT", "OPTIMAL", "UNSAT", "ERROR", "SOLVING"}

\* Between any two steps of a solve the latest solution satisfies the hard
\* clauses and the assumptions and costs the latest value, whichever phase
\* saved it (MaxSAT.cc:167-175, NuWeighting.cc:66-89).
IncumbentIsSolution ==
  HasSolution => IsSolution(Latest) /\ WeightedCost(Latest) = latest_value

\* Under the bound LSU assumes, the SAT solver has exactly the solutions that
\* are cheaper than the latest value, though it also holds the encodings of
\* every solve before (LSU.cc:50-178).
LsuAsksForCheaper ==
  pc = "lsu" =>
    ModelsUnder(Bound) =
      {m \in SUBSET Created : IsSolution(m) /\ WeightedCost(m) < latest_value}

\* Every solve returns: the phases have bounded iterations or pay each round
\* with a cheaper solution.
SolveReturns == pc # "idle" ~> pc = "idle"

Reported == state \in {"SAT", "OPTIMAL"}

\* A solution that is reported satisfies the hard clauses (ipamir.h:131).
ReportedIsFeasible ==
  Reported => \A i \in DOMAIN clauses_ : SatisfiesClause(Latest, ToSet(clauses_[i]))

\* The objective reported with it is its cost (ipamir.h:162).
ReportedCostsObjective == Reported => WeightedCost(Latest) = latest_value

\* Without a callback no search is interrupted (ipamir.h:137-142).
SatMeansInterrupted ==
  [][state = "SOLVING" /\ state' = "SAT" => terminate_ # "none"]_vars

\* The terminate callback gets the state that set_terminate was given.
CallbackGetsItsState == told \in {"none", "client"}

Contract == INSTANCE Ipamir WITH
  feasible  <- {m \in Assignment :
                  \A i \in DOMAIN clauses_ : SatisfiesClause(m, ToSet(clauses_[i]))},
  open      <- ToSet(current_clause_),
  soft      <- WeightOfAll(SoftWeights),
  assumed   <- assumptions_,
  callback  <- terminate_ # "none",
  refused   <- ~Valid,
  state     <- state,
  objective <- IF state \in {"SAT", "OPTIMAL"} THEN latest_value ELSE 0,
  value     <- [v \in Var |-> IF state \notin {"SAT", "OPTIMAL"}
                                 \/ v \notin DOMAIN latest_solution_ THEN 0
                              ELSE IF latest_solution_[v] THEN 1 ELSE -1]

\* Aperture answers as ipamir.h promises.
MeetsContract == Contract!Spec
=============================================================================
