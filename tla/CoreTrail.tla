------------------------------ MODULE CoreTrail ------------------------------
(***************************************************************************)
(* maxsat/core-trail: an incremental core-guided (RC2) MaxSAT solver.      *)
(* ipamirnativerc2glue.cc is the IPAMIR side, rc2_solver.cc the search.    *)
(* The search keeps its reformulated objective from one call to the next:  *)
(* a call first disables the consequences the new assumptions and weights  *)
(* invalidate, then goes through the strata of weights, charging cores     *)
(* until the SAT solver finds an assignment that satisfies every active    *)
(* literal.  Each charge is a step.                                        *)
(*                                                                         *)
(* The SAT solver is external: a query is satisfiable iff some assignment  *)
(* satisfies the hard clauses and the literals assumed, and a core is any  *)
(* unsatisfiable subset of them (core minimization runs under a budget).   *)
(***************************************************************************)
EXTENDS RC2Engine

\* What a client does and how it configures the solver: clauses, the hard clauses
\* it may add; softs, the <<literal, weight>> pairs it may declare; assumed, the
\* literals it may assume; terminates, whether it may register a callback; replay,
\* core_replay, the epochs of disabled cores kept for replay.  Bounds: assumptions
\* of one solve (maxAssumed) and calls of ipamir_solve (maxSolves).
CONSTANT Profiles

ASSUME CoreTrailAssumption ==
  \A p \in Profiles :
    /\ p.clauses \subseteq SUBSET Lit
    /\ p.softs \subseteq Lit \X Weight
    /\ p.assumed \subseteq Lit
    /\ p.terminates \in BOOLEAN
    /\ p.replay \in Nat /\ p.maxAssumed \in Nat /\ p.maxSolves \in Nat

VARIABLES
  profile,           \* the client's profile, never changed
  hard_clause,       \* the hard clause being added
  hard,              \* the assignments that satisfy hard_clauses_
  assumptions,       \* assumptions for the next solve
  term_cb,           \* a terminate callback is registered
  declared,          \* original_wght_ on the client's objective literals
  transition,        \* transition_weights_: weights changed since the last solve
  last_assumptions,  \* last_assumptions_
  history,           \* core_history_: disabled cores with their age in epochs
  engine,            \* the reformulated objective
  strata,            \* wstr_ and blop_, the strata of weights, and how far solve is
  clique,            \* the rest of the clique process_am1 works on
  cursor,            \* how much of history redo has looked at
  pc,                \* where solve is
  model,             \* model_set_
  state,             \* the state of ipamir.h the last call left
  solves             \* calls of ipamir_solve so far (for the bound only)

client == <<profile, hard_clause, hard, assumptions, term_cb>>
weights == <<declared, transition>>
search == <<last_assumptions, history, engine, strata, clique, cursor, model>>
vars == <<client, weights, search, pc, state, solves>>

\* lists: the <<weight, literal>> entries of wstr_; done: done_, the number of
\* weights taken up; level: blop_[levl_], the weight of the current stratum.
NoStrata == [lists |-> {}, done |-> 0, level |-> 0]

Init ==
  /\ profile \in Profiles
  /\ hard_clause = {}
  /\ hard = Assignment
  /\ assumptions = {}
  /\ term_cb = FALSE
  /\ declared = NoLits
  /\ transition = NoLits
  /\ last_assumptions = {}
  /\ history = <<>>
  /\ engine = EmptyEngine
  /\ strata = NoStrata
  /\ clique = {}
  /\ cursor = 0
  /\ pc = "idle"
  /\ model = {}
  /\ state = "INPUT"
  /\ solves = 0

(***************************************************************************)
(* Building the instance (ipamirnativerc2glue.cc).                         *)
(***************************************************************************)
Input == pc = "idle" /\ state' = "INPUT" /\ UNCHANGED <<pc, solves>>

\* The client's bound: it finishes a clause before it makes another call.
AtClauseBoundary == hard_clause = {}

\* The client's bounds, as well: it adds the literals of a clause in ascending
\* order, and no clause that the hard clauses imply.
AddHard(l) ==
  /\ \E c \in profile.clauses : /\ l \in c /\ hard_clause = {k \in c : k < l}
                               /\ \E m \in hard : ~SatisfiesClause(m, c)
  /\ Input
  /\ hard_clause' = hard_clause \cup {l}
  /\ UNCHANGED <<profile, hard, assumptions, term_cb, weights, search>>

\* A 0 finalizes the clause; an empty clause is not passed on.
FinishHard ==
  /\ hard_clause \in profile.clauses
  /\ Input
  /\ hard' = IF hard_clause = {} THEN hard
             ELSE {m \in hard : SatisfiesClause(m, hard_clause)}
  /\ hard_clause' = {}
  /\ UNCHANGED <<profile, assumptions, term_cb, weights, search>>

\* set_soft: a new objective literal is active at once, a new weight of a known
\* one waits for the next solve.
AddSoftLit(lit, w) ==
  LET l == -lit IN
  /\ AtClauseBoundary
  /\ Input
  /\ \/ /\ l \in DOMAIN declared
        /\ transition' = IF w = declared[l] THEN Drop(transition, {l})
                         ELSE Over(Maps(l, w), transition)
        /\ UNCHANGED <<declared, engine>>
     \/ /\ l \notin DOMAIN declared
        /\ w = 0
        /\ UNCHANGED <<declared, transition, engine>>
     \/ /\ l \notin DOMAIN declared
        /\ w > 0
        /\ declared' = Over(Maps(l, w), declared)
        /\ engine' = [engine EXCEPT !.wght     = Over(Maps(Orig(l), w), @),
                                    !.active   = @ \cup {Orig(l)},
                                    !.original = @ \cup {Orig(l)}]
        /\ UNCHANGED transition
  /\ UNCHANGED <<client, last_assumptions, history, strata, clique, cursor, model>>

Assume(l) ==
  /\ AtClauseBoundary
  /\ Cardinality(assumptions \cup {l}) <= profile.maxAssumed
  /\ Input
  /\ assumptions' = assumptions \cup {l}
  /\ UNCHANGED <<profile, hard_clause, hard, term_cb, weights, search>>

SetTerminate ==
  /\ profile.terminates
  /\ AtClauseBoundary
  /\ pc = "idle"
  /\ term_cb' = ~term_cb
  /\ UNCHANGED <<profile, hard_clause, hard, assumptions, weights, search, pc, state, solves>>

(***************************************************************************)
(* The strata.  A literal left with less than the level goes to the list   *)
(* of its new weight.                                                      *)
(***************************************************************************)
\* Mutant: listed before the weight is reduced.
RelistedEarly(e) ==
  {<<engine.wght[l], l>> : l \in {l \in Weighted(engine) \cap Weighted(e) :
                                    e.wght[l] < engine.wght[l] /\ e.wght[l] < strata.level}}

Relisted(e) ==
  {<<e.wght[l], l>> : l \in {l \in Weighted(engine) \cap Weighted(e) :
                               e.wght[l] < engine.wght[l] /\ e.wght[l] < strata.level}}

Listing(entries) == [strata EXCEPT !.lists = @ \cup entries]

\* blop_, the weights that have a list, in descending order: how many precede w.
Levels == {entry[1] : entry \in strata.lists}

Rank(w) == Cardinality({k \in Levels : k > w})

(***************************************************************************)
(* ipamir_solve, up to the boot query.                                     *)
(***************************************************************************)
Assumed == {Orig(l) : l \in assumptions}

Base == Assumed \cup engine.impossible

Satisfiable(lits) == hard \cap ModelsOf(lits) # {}

\* Literals on which the last call's consequences may no longer rest.
Conflicting ==
  LET last == {Orig(l) : l \in last_assumptions}
  IN  {Orig(l) : l \in DOMAIN transition} \cup (last \ Assumed) \cup {Neg(l) : l \in Assumed}

\* The cores of the disabled consequences become the newest epoch; the oldest one
\* goes when there are more than core_replay.
Remember(disabled) ==
  IF disabled = {} \/ profile.replay = 0 THEN history
  ELSE LET kept == Sublog(history, {i \in DOMAIN history : history[i].age < profile.replay})
       IN  [i \in 1..Cardinality(disabled) |->
              [age |-> 1, core |-> Sublog(engine.log, disabled)[i].core]]
             \o [i \in DOMAIN kept |-> [kept[i] EXCEPT !.age = @ + 1]]

\* Mutant: a retracted literal keeps its weight.
ReweightedOnly(e) ==
  LET lits == {k \in {Orig(l) : l \in DOMAIN transition} : transition[k.name] > 0}
  IN [e EXCEPT !.wght     = Over([l \in lits |-> transition[l.name]], @),
               !.active   = @ \cup lits,
               !.original = @ \cup {Orig(l) : l \in DOMAIN transition}]

\* Changed weights replace the restored ones; weight 0 removes the literal.
Reweighted(e) ==
  LET lits == {Orig(l) : l \in DOMAIN transition}
      zero == {l \in lits : transition[l.name] = 0}
  IN [e EXCEPT
        !.wght     = Drop(Over([l \in lits |-> transition[l.name]], @), zero),
        !.active   = (@ \cup lits) \ zero,
        !.original = @ \cup lits]

SolveCalled ==
  /\ AtClauseBoundary
  /\ pc = "idle"
  /\ solves < profile.maxSolves
  /\ solves' = solves + 1
  /\ pc' = "start"
  /\ state' = "SOLVING"
  /\ UNCHANGED <<client, weights, search>>

\* The next call recomputes the strata: what this one leaves is not kept.
Return(s) ==
  /\ pc' = "idle"
  /\ strata' = NoStrata
  /\ state' = s
  /\ assumptions' = {}
  /\ UNCHANGED <<profile, hard_clause, hard, term_cb, solves>>

Unsat == last_assumptions' = assumptions /\ Return("UNSAT")

\* The callback is asked once, before the search.
CallbackStops ==
  /\ pc = "start"
  /\ term_cb
  /\ Return("INPUT")
  /\ UNCHANGED <<weights, last_assumptions, history, engine, clique, cursor, model>>

Rollback ==
  LET disabled == ToDisable(engine.log, Conflicting) IN
  /\ pc = "start"
  /\ pc' = "boot"
  /\ engine' = Reweighted(Disable(engine, disabled))
  /\ history' = Remember(disabled)
  /\ declared' = Over(transition, declared)
  /\ transition' = NoLits
  /\ UNCHANGED <<client, last_assumptions, strata, clique, cursor, model, state, solves>>

\* remove_contradictory_objective_assumptions runs before the boot query, after
\* a stratum is activated and before every query of the main loop.
NothingToCancel == Cancellable(engine, Base) = {}

CancelContradiction ==
  /\ pc \in {"boot", "activated", "loop"}
  /\ \E l \in Cancellable(engine, Base) : engine' = Cancelled(engine, Base, l)
  /\ strata' = Listing(Relisted(engine'))
  /\ UNCHANGED <<client, weights, last_assumptions, history, clique, cursor, pc, model,
                 state, solves>>

BootUnsat ==
  /\ pc = "boot" /\ NothingToCancel
  /\ ~Satisfiable(Base)
  /\ Unsat
  /\ UNCHANGED <<weights, history, engine, clique, cursor, model>>

\* All literals are deactivated and the strata recomputed from the weights.
BootSat ==
  /\ pc = "boot" /\ NothingToCancel
  /\ Satisfiable(Base)
  /\ pc' = "stratum"
  /\ engine' = [engine EXCEPT !.active = {}]
  /\ strata' = Listing({<<engine.wght[l], l>> : l \in Weighted(engine)})
  /\ UNCHANGED <<client, weights, last_assumptions, history, clique, cursor, model,
                 state, solves>>

(***************************************************************************)
(* The next stratum.  next_level's heuristics (blo, diversity) only decide *)
(* how far down the list of weights it reaches.                            *)
(***************************************************************************)
Waiting == Weighted(engine) \ engine.active

\* activate_clauses: the lists from done_ on, down to weight w.
Activated(w) ==
  {l \in Weighted(engine) : /\ <<engine.wght[l], l>> \in strata.lists
                            /\ engine.wght[l] >= w
                            /\ Rank(engine.wght[l]) >= strata.done}

NextLevelTo(w, upTo) ==
  /\ pc = "stratum"
  /\ strata' = [strata EXCEPT !.done = upTo, !.level = w]
  /\ engine' = [engine EXCEPT !.active = @ \cup Activated(w)]
  /\ pc' = "activated"
  /\ UNCHANGED <<client, weights, last_assumptions, history, clique, cursor, model,
                 state, solves>>

\* Mutant: the stratum is not marked as taken up.
NextLevelAgain == \E w \in Levels : Rank(w) >= strata.done /\ NextLevelTo(w, strata.done)

NextLevel == \E w \in Levels : Rank(w) >= strata.done /\ NextLevelTo(w, Rank(w) + 1)

Queried == Base \cup engine.active

Finish ==
  /\ pc = "stratum"
  /\ strata.done >= Cardinality(Levels)
  /\ model' \in hard \cap ModelsOf(Queried)
  /\ last_assumptions' = assumptions
  /\ engine' = [engine EXCEPT !.thrown = \/ @
                                         \/ engine.active # Weighted(engine)
                                         \/ \E l \in Weighted(engine) : engine.wght[l] <= 0]
  /\ Return("OPTIMAL")
  /\ UNCHANGED <<weights, history, clique, cursor>>

(***************************************************************************)
(* compute_ on one stratum: units, cliques, replayed cores, main loop.     *)
(***************************************************************************)
Selectors == {l \in engine.active : ~IsSum(l)}

Charging(e, next, entries) ==
  /\ engine' = e
  /\ strata' = Listing(entries \cup Relisted(e))
  /\ pc' = next
  /\ UNCHANGED <<client, weights, last_assumptions, history, cursor, model, state, solves>>

Charged(e, next) == Charging(e, next, {})

\* preprocess_unit_cores_from_base: selectors that unit propagation falsifies
\* under the base, which must not be unsatisfiable; the core of each is all of
\* the base it started from.
Forced == {l \in Selectors \ Base : ~Satisfiable(Base \cup {l})}

UnitsFromBase ==
  /\ pc = "activated" /\ NothingToCancel
  /\ \E forced \in SUBSET Forced :
       Charged(FoldSet(LAMBDA l, e : ProcessCore(e, Base \cup {l}, Base, strata.level),
                      [engine EXCEPT !.thrown = @ \/ ~Satisfiable(Base)], forced),
               "units")
  /\ UNCHANGED clique

\* adapt_am1, conflicts: a selector the hard clauses alone falsify.
UnitFromHard ==
  /\ pc \in {"units", "conflicts"}
  /\ \E l \in Selectors :
       /\ ~Satisfiable({l})
       /\ Charged(ProcessCore(engine, {l}, {}, strata.level), "conflicts")
  /\ UNCHANGED clique

\* adapt_am1, cliques: selectors that exclude each other pairwise.
Exclusive(c) == \A k, l \in c : k = l \/ ~Satisfiable({k, l})

\* The selector goes to the list of its weight, whatever the level.
CliqueRound(c) ==
  /\ Charging(ProcessClique(engine, c, strata.level), "cliques",
              {<<LeastWeight(engine, c), AnyOf(c)>>})
  /\ clique' = CliqueRest(engine, c)

StartClique ==
  /\ pc \in {"units", "conflicts", "cliques"}
  /\ Cardinality(clique) <= 1
  /\ \E c \in SUBSET Selectors : Cardinality(c) > 1 /\ Exclusive(c) /\ CliqueRound(c)

ContinueClique ==
  /\ pc = "cliques"
  /\ Cardinality(clique) > 1
  /\ CliqueRound(clique)

StartReplay ==
  /\ pc \in {"units", "conflicts", "cliques"}
  /\ Cardinality(clique) <= 1
  /\ clique' = {}
  /\ cursor' = 0
  /\ pc' = "replay"
  /\ UNCHANGED <<client, weights, last_assumptions, history, engine, strata, model,
                 state, solves>>

\* redo_conflicting_assumptions: the first core not looked at yet whose literals
\* are all assumed or active again.
Replayable == {i \in DOMAIN history : i > cursor /\ history[i].core \subseteq Queried}

\* A replayed core without objective literals ends the call as unsatisfiable.
ReplayCore ==
  /\ pc = "replay"
  /\ Replayable # {}
  /\ LET i    == Min(Replayable)
         core == history[i].core
     IN  IF core \subseteq Base
         THEN Unsat /\ UNCHANGED <<engine, history, cursor>>
         ELSE /\ engine' = ProcessCore(engine, core, Base, strata.level)
              /\ strata' = Listing(Relisted(engine'))
              /\ history' = RemoveAt(history, i)
              /\ cursor' = i - 1
              /\ UNCHANGED <<client, last_assumptions, pc, state, solves>>
  /\ UNCHANGED <<weights, clique, model>>

\* Without replay the function says false, which its caller takes for unsatisfiable.
EndReplay ==
  /\ pc = "replay"
  /\ Replayable = {}
  /\ IF profile.replay = 0
     THEN Unsat
     ELSE pc' = "loop" /\ UNCHANGED <<client, last_assumptions, strata, state, solves>>
  /\ UNCHANGED <<weights, history, engine, clique, cursor, model>>

StratumSolved ==
  /\ pc = "loop" /\ NothingToCancel
  /\ Satisfiable(Queried)
  /\ pc' = "stratum"
  /\ UNCHANGED <<client, weights, search, state, solves>>

Cores == {c \in SUBSET Queried : ~Satisfiable(c)}

\* A core of assumptions and impossible literals only ends the call as
\* unsatisfiable.
ChargeCore ==
  /\ pc = "loop" /\ NothingToCancel
  /\ \E core \in Cores :
       IF core \subseteq Base
       THEN /\ Unsat
            /\ engine' = [engine EXCEPT !.thrown = @ \/ core = {}]
            /\ UNCHANGED <<weights, history, cursor, model>>
       ELSE Charged(ProcessCore(engine, core, Base, strata.level), "loop")
  /\ UNCHANGED clique

Client ==
  \/ \E l \in Lit : AddHard(l)
  \/ FinishHard
  \/ \E d \in profile.softs : AddSoftLit(d[1], d[2])
  \/ \E l \in profile.assumed : Assume(l)
  \/ SetTerminate
  \/ SolveCalled

Preprocess == UnitsFromBase \/ UnitFromHard \/ StartClique \/ ContinueClique

Replay == StartReplay \/ ReplayCore \/ EndReplay

Search ==
  \/ CallbackStops \/ Rollback \/ CancelContradiction \/ BootUnsat \/ BootSat
  \/ NextLevel \/ Finish \/ Preprocess \/ Replay
  \/ StratumSolved \/ ChargeCore

\* The catch (...) of ipamir_solve has no action: NeverThrows says that nothing
\* it could catch is thrown.
Next == Client \/ Search

\* A call of ipamir_solve runs to its end: the SAT solver answers every query.
\* Search is enabled whenever a call is in progress (no state deadlocks), so
\* this is WF_vars(Search), without an ENABLED for TLC to evaluate.
SearchGoesOn == []<>(pc = "idle") \/ []<><<Search>>_vars

Spec == Init /\ [][Next]_vars /\ SearchGoesOn

(***************************************************************************)
(* Properties.                                                             *)
(***************************************************************************)
Solving == pc \notin {"idle", "start"}

PositiveWeights(f) == \A l \in DOMAIN f : f[l] \in Nat \ {0}

TypeOK ==
  /\ hard_clause \subseteq Lit
  /\ hard \subseteq Assignment
  /\ assumptions \cup last_assumptions \subseteq Lit
  /\ term_cb \in BOOLEAN
  /\ DOMAIN transition \subseteq DOMAIN declared
  /\ DOMAIN declared \subseteq Lit
  /\ engine.cost \in Nat
  /\ PositiveWeights(engine.wght)
  /\ PositiveWeights(engine.swgt)
  /\ engine.active \subseteq Weighted(engine)
  /\ \A i \in DOMAIN history : history[i].age \in 1..profile.replay
  /\ strata.done <= Cardinality(Levels) /\ strata.level \in Nat
  /\ clique \subseteq Weighted(engine)
  /\ cursor \in 0..Len(history)
  /\ pc \in {"idle", "start", "boot", "stratum", "activated", "units",
             "conflicts", "cliques", "replay", "loop"}
  /\ model \in Assignment
  /\ state \in {"INPUT", "SOLVING", "UNSAT", "OPTIMAL"}

\* The literal -l costs what the objective literal l weighs.
ClientSoft(w) == [l \in Lit |-> IF -l \in DOMAIN w THEN w[-l] ELSE 0]

Readable == state = "OPTIMAL"

Contract == INSTANCE Ipamir WITH
  feasible  <- hard,
  open      <- hard_clause,
  soft      <- ClientSoft(Over(transition, declared)),
  assumed   <- assumptions,
  callback  <- term_cb,
  refused   <- FALSE,
  objective <- IF Readable THEN engine.cost ELSE 0,
  value     <- [v \in Var |-> IF ~Readable THEN 0 ELSE IF v \in model THEN 1 ELSE -1]

\* Every call does what ipamir.h promises of it, however many calls came before
\* and whatever they left in the engine: 20 only when no solution exists, 30
\* only with a solution of the reported cost that nothing beats, 40 never.
MeetsContract == Contract!Spec

\* The assumptions the charges rely on: between calls, those of the last one.
Relied == IF Solving THEN assumptions ELSE last_assumptions

\* The reformulation is exact: what has been charged plus what an assignment
\* still owes is its cost, for every assignment the hard clauses and the
\* assumptions allow, however many calls charged and took back.
ExactReformulation ==
  \A m \in hard : SatisfiesAll(m, Relied) =>
    engine.cost + Residual(engine, m) = Cost(ClientSoft(declared), m)

Abstraction == INSTANCE CoreGuided WITH
  Model    <- Assignment,
  Amount   <- Nat,
  feasible <- hard,
  allowed  <- {m \in Assignment : SatisfiesAll(m, Relied)},
  price    <- [m \in Assignment |-> Cost(ClientSoft(declared), m)],
  owed     <- [m \in Assignment |-> Residual(engine, m)],
  lb       <- engine.cost,
  phase    <- IF Solving THEN "search" ELSE "idle",
  answer   <- IF state \in {"OPTIMAL", "UNSAT"} THEN state ELSE "none"

\* Every step is a step of the abstract core-guided solver (or invisible to it):
\* a charge takes the same from every solution, and only the start of a call
\* takes charges back, until the rest is exact again.
IsCoreGuided == Abstraction!Spec

\* None of the consistency checks listed in RC2Engine (of the rollback, the base, the
\* cores, the totalizer counters and the end of the strata) throws: what they look up
\* is there, the engine the next call inherits is one it can work on, and when the
\* strata are used up no literal was left out of them, although charges insert
\* weights in the list that solve indexes by position.
NeverThrows == ~engine.thrown

\* What the search takes for impossible follows from the hard clauses and the
\* assumptions of the call it is in, not from those of an earlier call.
ImpossibleIsImplied ==
  Solving => \A m \in hard : SatisfiesAll(m, assumptions) => \A l \in engine.impossible : m \in l.sat

\* A core kept for replay is still a core, whatever was declared or rolled back
\* since it was found.
HistoryHoldsCores == \A i \in DOMAIN history : ~Satisfiable(history[i].core)

\* Every call of ipamir_solve returns.
SolveReturns == (pc = "start") ~> (pc = "idle")
=============================================================================
