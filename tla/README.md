# IPAMIR: models, checks and proofs

A TLA+ project for the IPAMIR repository: a C interface for reentrant
incremental MaxSAT solvers (`src/ipamir.h`), solvers that implement it
(`src/maxsat`), applications that call it (`src/app`) and SAT solvers underneath
(`src/sat`, `src/ipasir.h`). A solver is incremental: a client adds hard
clauses, soft literals and assumptions, solves, and goes on adding. What makes
such a solver wrong is seldom one call; it is what one call leaves for the next.
That is what these modules are about.

## 1. Inventory

| Part | State it keeps | Operations | What is hard |
|---|---|---|---|
| `src/ipamir.h` | the solver's state INPUT / SAT / OPTIMAL / UNSAT / ERROR | `add_hard`, `add_soft_lit`, `assume`, `solve`, `val_obj`, `val_lit`, `set_terminate` | every solver must mean the same by 0, 10, 20, 30, 40, after any sequence of calls |
| `src/ipasir.h` | a formula | `add`, `assume`, `solve`, `val` | `val` may leave a variable open |
| `src/maxsat/solver2022` (163 lines, the reference solver) | clauses, weights, assumptions, the last answer | `IpamirSolver::solve`: a fresh SAT solver per call, a strictly decreasing PBLib bound | open variables, auxiliary variable numbers, what survives a call |
| `src/maxsat/core-trail`: glue, engine (`rc2_solver.cc`), Glucose backend | the reformulated objective, kept from call to call: weights, selectors, totalizers, the log of consequences, old cores | `compute`: rollback, reweighting, strata, unit cores, cliques, replay, core extraction and charging | undoing exactly the charges that new assumptions and weights invalidate; caches; lists indexed by position; termination |
| `src/maxsat/core-trail/src/python` | the solver pointer, SIGINT handler and flags, a watcher thread | `solve` without the GIL, `request_stop`, `clear_stop`, Ctrl+C | interleavings of search, watcher, signal handler and other Python threads; deleting an interrupted solver |
| `src/maxsat/share-trail` (about 6,000 lines) | core-guided state with ordered objectives and shared structure | `CGSS2` search behind `ipamir.cpp` | as for core-trail |
| `src/maxsat/Aperture` (about 11,000 lines of its own) | latest solution and value, encodings, polarities | initial SAT call, local search, Mrs. Beaver (OBV-BS), LSU; totalizer and adder encodings; command line runners with signal handlers | a solution and its value kept together, callbacks, encodings under bounds |
| `src/maxsat/uwrmaxsat*` | vendored releases | | not this project's code |
| `src/app` | per application: bounds, cores, totalizers, clauses already added | loops that call a solver, read a solution and add clauses | what one iteration adds constrains every later one |
| `src/sat`, `third_party`, `external` | vendored SAT solvers, totalizers, allocators | | not this project's code |
| `src/mse26`, `src/flake` | none | scripts, packages | |

How they interact: an application holds an opaque solver and calls the
functions of `ipamir.h` one after the other; during `ipamir_solve` the solver
calls the terminate callback and an IPASIR solver or a linked SAT solver. Only
the Python binding of core-trail lets two threads meet in a solver, and only
Aperture's command line runners have signal handlers that read one.

What makes each component right:

- contract: a 30 comes with an assignment that satisfies hard clauses and
  assumptions, costs what `val_obj` says and is cheapest; a 20 only when there is
  none; 0 and 10 only when a terminate callback is registered; assumptions are
  gone after the call;
- solver2022: the incumbent is always a solution of the cost recorded; the
  search descends and ends;
- core-trail: what has been charged plus what an assignment still owes is its
  cost, through any sequence of charges and rollbacks; its consistency checks
  do not throw; old cores are still cores; impossible literals are implied now;
- Python binding: no use after delete, no cut search reported as an answer, no
  interruption nobody asked for, and a stop request ends the search;
- Aperture: the value kept belongs to the solution kept; a linear search asks for
  something cheaper; encodings mean what their sums say, and a size estimate is not
  below the size; what the signal handler prints is a solution;
- applications: what a refinement loop adds excludes no answer, and what two solvers
  print in turn is a Pareto front, however they choose among their optima.

`PROJECT.json` lists the hazards behind these, each at its line.

## 2. Modules

| Module | Models | Role |
|---|---|---|
| `MaxSatInstance`, `Stepping` | literals, assignments, clauses, cost; loops as folds | shared by all modules |
| `SumProofs` | | lemmas about sums over finite sets, folds and finite sequences, used by the proofs below |
| `Ipamir` | `src/ipamir.h` | abstract specification: what any solver promises a client |
| `Solver2022`, `Solver2022Proofs` | `src/maxsat/solver2022/ipamirsolverglue.cc` | implements `Ipamir` |
| `CoreGuided`, `CoreTrailPartProofs` | | abstract specification: what any incremental core-guided solver keeps |
| `RC2Engine` | the objective of core-trail's `rc2_solver.cc` and its operations, on a record | used by `CoreTrail` |
| `CoreTrail`, `CoreTrailProofs` | `ipamirnativerc2glue.cc` and `compute` of `rc2_solver.cc` | implements `Ipamir` and `CoreGuided` |
| `PythonSolve`, `CoreTrailPartProofs` | `src/python/module.cc` of core-trail, the stop flags of `rc2_solver.cc` | concurrency |
| `Encoders` | Aperture's `Totalizer.cc` and `Adder.cc`, as operators on an encoding | used by the next and by `Aperture` |
| `EncoderBuild`, `EncoderProofs` | an encoding of Aperture as it is built, by `Totalizer.cc` and `Adder.cc` | what `Aperture` rests on |
| `LocalSearch` | how Aperture's `NuWeighting.cc` builds its instance and saves solutions | used by `Aperture` |
| `Aperture`, `ApertureProofs` | `AIpamirWrapper.cc`, `MaxSAT.cc`, `LSU.cc`, `MrsBeaver.cc`, `Polosat.cc` | implements `Ipamir` |
| `WCNFRunner`, `WCNFRunnerProofs` | Aperture's `cli/WCNFRunner.cc` with its signal handler | concurrency |
| `ParetoFront` | | abstract specification: what a bi-objective application prints |
| `BiOptSat` | `src/app/ipamirbioptsat` | implements `ParetoFront` |
| `Seesaw` | `src/app/ipamirmlicseesaw` | implements `ParetoFront` |
| `ParetoApps` | | both applications side by side, as one run checks them |
| `ExtEnf` | `src/app/ipamirextenf` | a client in a refinement loop |
| `AppsProofs` | | the proofs about the three applications |
| `MC*` | | constants for TLC |

Abstract specifications and what implements them: `Ipamir` is implemented by
`Solver2022`, `CoreTrail` and `Aperture` (property `MeetsContract` of each, proved of all
three under the hypotheses section 5 names); `CoreGuided` by `CoreTrail` (`IsCoreGuided`, proved), and `CoreTrailPartProofs`
proves that whatever implements `CoreGuided` answers right; `ParetoFront` by `BiOptSat`
(`PrintsFront`) and `Seesaw` (`SeesawPrintsFront`), both proved.

### Ipamir

The state variable is the state `ipamir.h` names. "The state of the solver
during execution of `ipamir_solve` is undefined": it is `SOLVING`, and everything
a call promises is promised of the step that leaves `SOLVING`. `refused` stands
for the freedom of a solver to answer 40; Aperture answers it for what it does not
take. The
instance is kept as the set of assignments that satisfy the finished clauses.

Two places of the header disagree with each other and are read the weaker way:
`val_obj` and `val_lit` name state SAT as a required state but say "20 or 30" of
the return code (lines 165, 178), and `set_terminate` may be called in "any
state" (191) but lists required states (197).

### Solver2022

One action per function; `solve` is four kinds of step, between which it asks the
IPASIR solver: `SolveStart` (lines 53-74), `FirstModel` or `FirstUnsat` (76-106),
`ImproveModel` or `ImproveUnsat` (109-128). The SAT solver is external: an answer is
any partial assignment all of whose completions are models, as `ipasir.h` allows,
so it may be 0 on any variable that does not matter. The PBLib constraint is the
set of assignments within `bound`. `ipamir_set_terminate` does nothing in this
solver, so no call is interrupted.

### RC2Engine and CoreTrail

A literal of the SAT solver is represented by what it means: the assignments in
which it is true when totalizer outputs and clique selectors take the best value
their clauses allow. That makes the caches of the code (equal inputs give the
same literal) equality of records, and makes it possible to state what an
assignment still owes (`Residual`). `engine` is one record: `cost_`, `wght_`,
`sels_` and `sums_` (together `active`), `impossible_lits_`, `swgt_`, the keys of `bnds_`,
`bnds_history_` and `original_wght_`, and the log of consequences. A literal fixes its bound and
its totalizer, so the values of those maps, and of `tobj_` and `lit_to_totalizerid_`, which are
written and erased with `swgt_`, are no state of their own.

`thrown` is set by these consistency checks, and by no others: in `rc2_solver.cc`, 489-535 and 549-567 (what a
rollback restores and leaves behind), 655 (the base is unsatisfiable), 1063 and 1092 (a core with a
literal without weight, an empty core), 1155, 1161, 1186 and 1187 (a totalizer, bound, split weight
or weight that is missing or another) and 1655-1669 (a literal or weight left over after
the last stratum). The comment of the module says why each other `throw` is not among them: it
tests what the same function has just set, is switched off, compares a value with itself in
this representation, or rejects what a client passes.

`compute` is a step per charge: `Rollback` (disable consequences, remember their
cores, apply changed weights), `CancelContradiction`, `BootSat` or `BootUnsat`,
`NextLevel`, then on each level `UnitsFromBase`, `UnitFromHard`, `StartClique` and
`ContinueClique`, `StartReplay`, `ReplayCore`, `EndReplay`, then `ChargeCore` until
`StratumSolved`, and `Finish`. A core is any unsatisfiable subset of what was
assumed: core minimisation runs under a conflict budget and may stop anywhere.
The strata keep what the code keeps, a list of literals per weight (which grows
during a level) and the number of weights taken up. How far down a level reaches
is decided by heuristics in the code (`blo`, diversity) and left open here.

Not in these modules: core trimming and exhaustion (off in the options of the C
interface), phases and other search heuristics, `full_stratified` false, weights
that do not fit a `long`.

### CoreGuided

What remains of core-trail when literals, totalizers and strata are forgotten: a
price and a debt per assignment and a lower bound. `Begin` may take any charges
back as long as the rest is exact for the assignments that the new assumptions
allow; `Charge` takes the same from every solution.

### PythonSolve

`m_solve` from the moment it takes the GIL until it returns, its search (a loop of
queries that may go on for ever), its watcher thread, the SIGINT handler, and
another Python thread that calls `request_stop` and `clear_stop`. Steps are as fine
as the atomics: `request_stop` and `clear_stop_request` are two stores each, the
watcher reads `solve_done` and `g_sigint_seen` in two steps. Each thread solves
with a solver of its own, as the C++ class is not meant to be shared during a
search. `asked` and `cut` are history variables. None of the checks that `NeverThrows` of
`CoreTrail` covers throws, so the only exception of a search is that of `raise_on_abnormal`: a
search that was cut while its request was cleared may end as `INTERRUPTED`, `solve` throws and `m_solve` leaves
through its `catch` (`Catch`), which keeps the solver and forgets a Ctrl+C. Which cuts leave
the status so is not told apart: every one may.

### Encoders and EncoderBuild

An encoding is a record: the next variable, the clauses so far, what is left to do.
`EncoderBuild` is one merge of the totalizer's queue, one gate of the adder or the
comparator per step. What an encoding says is what unit propagation derives from it
(`Propagated`), as that is how LSU and Mrs. Beaver use it: under assumptions of
outputs or bound bits. Weights at or above the limit share the last output, and the
size estimate that decides between totalizer and adder is computed beside the
encoding. `EncodeTotalizer` with `leq_simplification`, the only way LSU calls it, is the
generalized totalizer with weight 1. Which of two equally heavy nodes the queue takes
first, and the order of outputs in an `unordered_map`, do not matter to what is checked
and are fixed.

### LocalSearch and Aperture

`Aperture` is the wrapper's calls and the phases of `MaxSAT::Solve` with the default
options. Phases hand each other `latest_solution_` and `latest_maxsat_value_`: the
initial SAT call, local search (NuWeighting, the branch for instances that do not come
from a file), Mrs. Beaver's rounds with Polosat between its queries, and LSU, which
encodes a bound and asks for less until UNSAT. The SAT solver is external. It holds the
client's clauses and those of every encoding made so far, in whatever solve: the models
are projected to the client's variables, and the projection is by what the encodings
derive. A limited call may give up. `LocalSearch` says which clauses become soft: a soft
literal that occurs once, and not negated, is taken for the relaxation of its clause.
The search itself is any sequence of improvements.

The client follows a script: a sequence of choices, among them whether to make a call at
all. All variables of the passing run's scripts exist before the first encoding
does; what happens otherwise is finding 3.

### WCNFRunner

`Run` in `main`, step by step where a signal can tell: a model is copied variable by variable,
then its value is assigned. A handler is an entry of `stack` and runs on top of the
thread until it exits; another signal may put a handler on top of it. `SIGTERM` is
blocked while a solution is saved, `SIGINT` is not. What is printed is `output`, a
sequence of lines with what they say: the `o` line that the search logs at each improvement and
the lines of `PrintResults`. The search is any sequence of better models. It ends when none is left, or
at any solution without a proof (`LSU.cc:122` and `:128-132`, or with `use_sat_based_optimization`
off). `ERROR` and `GLOBAL_CONTRADICTION` do not occur: `Run` passes known literals
only, and nothing in the repository's solver returns the latter. A handler calls stdio and
`exit`, which are not async-signal-safe; that it never waits for a lock
the interrupted thread holds is assumed.

### ParetoFront, BiOptSat, Seesaw

`ParetoFront` prints the undominated points in the order of the increasing objective and
ends when none is left or a point as good as `Trivial` was printed. A solution is
abstracted to its two values (`BiOptSat`) or to the samples a rule misclassifies and
its size (`Seesaw`). What `BiOptSat` keeps is each totalizer's bound: an output
beyond it restricts nothing. `Seesaw`'s core extension drops assumptions one by one in any
order, and the hitting set solver chooses among its optima.

### ExtEnf

A proposal is any cheapest framework in which the target is complete and which
satisfies the clauses added so far; the check finds any larger admissible set; the clause
is over the attacks the code lists for that set. The completeness clauses that
`StaticAFEncoder` builds and never adds make the check one for admissible sets; as
every admissible set lies in a preferred one, that changes no answer. That
the solver has no solution at all is the error exit of `main` (`pc = "error"`).

## 3. Runs

| Run | Instance | Shows |
|---|---|---|
| `solver2022` | 2 variables, weights 1 and 2, at most 2 clauses of 2 literals, 1 assumption a call, any number of calls | `IncumbentIsSolution`, `AuxVarsFresh`, `MeetsContract`, `SolveReturns` |
| `core_guided` | 2 interchangeable assignments, amounts 0 to 2 | `TypeOK`, `Exact`, `AnswersAreRight` |
| `core_trail` | five kinds of clients (`MCCoreTrail`): a vertex cover under changing assumptions; both literals of a variable soft, with a terminate callback and two epochs of replay; weights that change and are retracted; weights whose charges leave remainders between strata; a clique one of whose literals is used up first | `NeverThrows`, `ExactReformulation`, `ImpossibleIsImplied`, `HistoryHoldsCores`, `MeetsContract`, `IsCoreGuided`, `SolveReturns` |
| `python_solve` | 2 solving threads, Ctrl+C, a third thread that uses one of the solvers | `BindingTypeOK`, `NoUseAfterDelete`, `InterruptedOnlyIfAsked`, `CutIsNotAnswered`, `StopEndsSearch` |
| `encoder_build` | every set of soft literals among 1, 2, 3 and -1 with weights 1 to 3, every value to improve on, thresholds 3, 6, 9 | `CostIsCarried`, `TotalizerBoundIsExact`, `AdderBoundIsExact`, `SizeIsCounted`, `FittingIsKept` |
| `aperture` | two clients (`MCAperture`): a weighted vertex cover of four nodes over two solves; an instance with relaxed clauses over up to three solves, with an assumption that makes it infeasible | `IncumbentIsSolution`, `LsuAsksForCheaper`, `MeetsContract`, `SolveReturns` |
| `wcnf_runner` | a path of 3 variables with weights 1, 3, 1; each signal at most once, at any moment | `PrintedIsModel`, `ValueCoversModel`, `OptimumIsOptimum`, `SignalEndsRun` |
| `pareto` | BiOptSat on every set of values up to (3, 2); Seesaw on every data set of 3 samples whose smallest rules have size 0, 1, 3 or 4 | `IncStaysPut`, `PrintsFront`, `SeesawPrintsFront`, `BiOptSatEnds`, `SeesawEnds` |
| `extenf` | every framework of 3 arguments with one or two to enforce; frameworks in which no set can become preferred cheaply | `NothingIsLost`, `AnswerIsOptimal`, `FindsAnswer` |
| `python_solve_lost` | 1 solving thread, nobody calls `clear_stop` | violates `StopIsHonoured` (finding 1) |
| `aperture_two_relaxations` | a clause of two soft literals that occur once | violates `ReportedIsFeasible` (finding 2) |
| `aperture_new_variable` | a variable that is new in the second solve | violates `MeetsContract` (finding 3) |

Why the bounds are enough for what is asked:

- Two variables give solver2022 clauses that exclude each other, assumptions that
  contradict them, open variables, ties and two steps of descent. Nothing bounds
  its calls.
- Three variables and a triangle give core-trail its first totalizer with more
  than one output, cliques of three, cores on top of sums, and charges that rest
  on each other. Two calls are the least in which a rollback can go wrong. The client
  finishes a clause before it makes another call (`AtClauseBoundary`) and gives at
  most `maxAssumed` assumptions.
- Two threads are enough for the handler of one call to be the "previous" handler
  of another. Nothing bounds the number of calls. Only one of the solvers
  (`Shared`) is used by the third thread.
- Four literals give the encoders nodes of different depth, sums that coincide, sums
  beyond the limit, and a variable that is soft in both polarities; weights up to 3
  carry through the adder. `kNumBitsInWeight` is 4 (3 in `aperture`), above every
  sum that occurs.
- The vertex cover of a triangle with a tail gives Aperture solutions that are improved twice
  before the optimum; `ClausesThreshold = 6` sends small totalizers one way and large ones the
  other; `MaxNonImproving = 1` is the least at which Mrs. Beaver goes on after a
  round that gained nothing.
- A path of three variables has models to improve on twice. `SIGINT` and `SIGTERM` once each
  give a handler on top of a handler.
- Values up to (3, 2) hold fronts of three points and dominated points between them; three samples
  hold cores that overlap.
- Three arguments hold odd and even cycles, arguments that attack themselves, and
  a larger admissible set that shares only part of the target.

Every bound is a constant with a name or part of a client's profile: `MaxClauses`,
`MaxClauseLen`, `MaxAssumed`, `maxSolves`, `replay` (an option of the code), `Amount`,
`ClausesThreshold` and `MaxNonImproving` (options too), `Signals`.

### Fairness

- `Solver2022`: `WF_vars(Search)`: IPASIR answers every query, and a single thread
  runs to the end of its call.
- `CoreTrail`: the same, written `[]<>(pc = "idle") \/ []<><<Search>>_vars`, which is
  weak fairness because `Search` is enabled whenever a call is in progress (no
  state of these runs deadlocks).
- `PythonSolve`: weak fairness for the solving thread, its watcher and the thread
  inside `request_stop` (the operating system schedules them and a query ends, with or
  without the SAT solver's own flag, so `StopEndsSearch` does not depend on that flag);
  strong fairness for taking the GIL, as a thread that waits for it gets it although
  others take it in between. None for signals or for anybody's decision to call.
- `Aperture`, `EncoderBuild`, `BiOptSat`, `Seesaw`, `ExtEnf`: one thread runs on and the
  solvers it calls answer. None for Aperture's client, who may stop calling.
- `WCNFRunner`: weak fairness for `Run`'s own steps outside the search and for the
  delivery of a pending signal. None for the search, which may take for ever, and none
  for the sender.

## 4. Findings

Disagreements between the code and what the repository says of it, each a run:

1. `python_solve_lost`: `solve` clears the stop request at its start
   (`rc2_solver.cc:1793`), after the watcher was started and the GIL released; a stop
   that arrives before is erased and nobody repeats it.
2. `aperture_two_relaxations`: of two soft literals that occur once in the same hard
   clause neither is kept in the local search's clause (`NuWeighting.cc:193`), and an
   infeasible assignment is reported as optimal.
3. `aperture_new_variable`: a variable the client uses for the first time after a
   solve is one of the encoder's (`AIpamirWrapper.cc:12`, `LSU.cc:36`).

Behaviour of the same kind that `.cfg` files without a run reproduce
(`tlc -config X.cfg M`; each ends in a counterexample):

| Configuration | Module | What it shows |
|---|---|---|
| `Solver2022BothPolarities` | `MCSolver2022` | both literals of a variable soft and the SAT solver leaves it open: neither is counted (`ipamirsolverglue.cc:90`), the objective is below that of every assignment |
| `CoreTrailEmptyClause` | `MCCoreTrail` | the glue drops a clause without literals (`ipamirnativerc2glue.cc:59`) |
| `CoreTrailNoReplay` | `MCCoreTrail` | with `core_replay` 0, `redo_conflicting_assumptions` returns false (`rc2_solver.cc:587`) and its caller takes that for unsatisfiable |
| `ApertureHardened` | `MCAperture` | an assumption that hardens a relaxed clause makes the local search save a solution that violates the assumption (`NuWeighting.cc:200`) |
| `ApertureSatisfied` | `MCAperture` | the value kept is above the cost of the solution kept (`NuWeighting.cc:250`) |
| `ApertureFree` | `MCAperture` | 10 instead of 30 for a solution of cost 0 without any callback (`LSU.cc:122`) |
| `ApertureCallback` | `MCAperture` | the callback is not called with the state it was registered with (`AIpamirWrapper.cc:87`) |
| `WCNFRunnerInt` | `MCWCNFRunner` | `SIGINT` arrives while a solution is copied (`Aperture.cc:236`) |
| `WCNFRunnerValue` | `MCWCNFRunner` | `SIGTERM` arrives after the copy and before the value (`MaxSAT.cc:170`): the value printed is not that of a solution |

## 5. Proofs

Checked by TLAPS for every value of the constants. Every invariant, action property and refinement that the
passing runs check is a theorem; where it does not hold for every client or every
callback, the theorem says in its hypotheses for which it does.

### core-trail

`CoreTrailProofs`: for every set of variables, weights and clients, and any number of
calls, with every choice of cores, strata, cliques and epochs of replay.

| Theorem | Property | Hypothesis |
|---|---|---|
| `Invariance` | the inductive invariant `IndInv` | |
| `NothingIsThrown` | `NeverThrows` | |
| `ReformulationIsExact` | `ExactReformulation` | |
| `ImpossibleFollows` | `ImpossibleIsImplied` | |
| `KeptCoresAreCores` | `HistoryHoldsCores` | |
| `ContractMet` | `MeetsContract` | at least one epoch of cores is kept; no client adds an empty clause |
| `CoreGuidedImplemented` | `IsCoreGuided` | at least one epoch of cores is kept |

The two hypotheses are not conveniences: without the first `CoreTrailNoReplay.cfg`
refutes the property, without the second `CoreTrailEmptyClause.cfg` does.

None of the four invariants is inductive. What a rollback gives back depends on what
the log says, so an invariant that speaks of the weights alone knows nothing of the state
after it. `IndInv` has six parts:

- `EngineInv`, the heart: `Sound(engine, hard, assumptions, declared)` reads the log of
  consequences as a ledger, in three parts. `Ledger`: cost, weights and counters are what the declared
  weights and the entries in force add up to. `Chained`: an entry takes weight only from literals the
  client declared or an earlier entry gave, no literal is given twice, and a totalizer's outputs come in the
  order of their bounds with the weight of the first. `Implied`: the core of each entry is one; what it took nothing
  from was assumed or found impossible by an earlier entry; and on every assignment that the clauses and that
  part of the core allow, the entry charges what it takes off the assignment's other debts (`Balanced`). With
  this, undoing the closure `ToDisable`, newest first, meets exactly what the entries left behind, and none of the
  consistency checks of `disable_old_consequences` can throw. `NothingIsThrown` needs besides which map
  knows a literal (`Booked`): a weighted output has a bound, an output with a split weight has a bound or
  one in the history, and a weighted literal that is no output has an original weight.
- `ClientInv`, `WeightsInv`: types and domains; changed weights are about declared
  literals and are gone while a call runs.
- `StrataInv`: a weighted literal that is not active is still listed in a stratum below the level,
  so that after the last one every weighted literal was assumed. Without it a 30 could leave a
  literal unpaid that was never asked about.
- `CliqueInv`: the rest of a clique still excludes itself and is still weighted, which
  is what the next round of `process_am1` takes for granted.
- `HistoryInv`: a core kept for replay excludes every assignment the clauses allow; clauses
  are only added, so it goes on doing so.

The proof follows the operations: each of `ChargeUnit`, `ChargeMany`, `ProcessClique` and
`Cancelled` appends an entry that balances (`...Sound` lemmas), the fold of `Undo` over a
suffix-closed set of entries keeps the ledger, and then each action of `CoreTrail` keeps `IndInv`.
The properties are read off it. Exactness is a sum over the ledger: the entries of the log add up to what
was charged, term by term, whatever order they were made in.

`CoreGuidedImplemented` maps a state to its price (the declared weights), its debt
(`Residual`) and the cost charged. `Begin` is `Rollback`; every charge of the engine is a `Charge`
because its ledger entry takes the same from every assignment that the clauses and the assumptions
allow; `BootUnsat` and the other refutations are `Refute`, `Finish` is `Settle`; the
steps that only move through strata, cliques and history stutter. `ContractMet` needs besides that
the model found last satisfies every literal assumed, hence owes nothing.

`SumProofs` has what these proofs need of the community modules' sums and folds: a sum over a finite
set is what it should be when an element is added, removed or changed, an
indicator picks its term, a product distributes, and a sum of naturals is natural
(`CostIsNatural`, which earlier was a hypothesis of the theorems about costs).

### Aperture's encodings

`EncoderProofs`: for every set of weighted literals, every width of a weight and every value.

| Theorem | Property |
|---|---|
| `EncodingIsBuilt` | the inductive invariant `BuildInv` |
| `CostCarried` | `CostIsCarried` |
| `TotalizerBoundExact` | `TotalizerBoundIsExact` |
| `AdderBoundExact` | `AdderBoundIsExact` |
| `SizeCounted` | `SizeIsCounted` |
| `FittingKept` | `FittingIsKept` |

The assumptions on the constants: weights are positive and fit the width
(`EncoderBuildAssumption`), and soft literals that can hold together do not weigh
`2^kNumBitsInWeight` (`CostsFitAssumption`). The code sums costs in a `TWeight` without a check, so
beyond that the value it wants to improve on has wrapped before any encoding is made.

What the properties say is about rounds of unit propagation, and no invariant can be about
rounds: a merge adds clauses that make earlier rounds derive more. `BuildInv`
(`TotInv`, `AdderInv`) says instead two things of the clauses as a set. Every assignment of the soft literals
has a continuation that satisfies them, in which the literals still in the queue or
in the buckets carry its cost. And every set of literals that is closed under propagation and holds the
assignment holds what that continuation says of these literals: on an adder all of it, on a
totalizer that an output is true (an output may also be true without need, up to the limit). The first part makes a bound
that is kept extend; the second makes a bound that is missed conflict. Each merge (`TotStep`)
and each gate (`AdderStepKeeps`) keeps both. `PropagatedIsClosed` ties the set to the rounds: after as many rounds as there
are variables nothing new is derived.

For the comparator there remains arithmetic. The adder has an output for each bucket that ever held
a literal, not for each bit of the bound, and `UpdateLEQBound` drops the others. `BoundIsLess` shows
why that is harmless: `v` is itself a cost, so its bits have outputs; `v - 1` agrees with it above
its lowest one, and below that all bits of `v - 1` are one, so those that are lost forbid nothing a cost could have.

`SizeCounted` compares a fold with a construction. `CountedGoes` turns the fold into a sequence of
counts, one per merge; `Sized` says that queue and count have the same weights in the
same places and that the count is the number of clauses, because no merge repeats a clause of
an earlier one (`MergeApart`). `FittingKept` runs two counts side by side at two limits (`NarrowerCount`):
at the lower one a node is the other one's node clipped once more.

### Aperture

`ApertureProofs`: for every set of variables, weights and clients, any number of calls,
and whatever the SAT solver answers.

| Theorem | Property | Hypotheses |
|---|---|---|
| `IncumbentIsKept` | `IncumbentIsSolution` | `CostsFit`, `LocalSearchKeeps` |
| `BoundAsksForCheaper` | `LsuAsksForCheaper` | these and `VarsExistFirst` |
| `AnswersAreRight` | `AnswerIsRight`: 30 only with a cheapest solution, 20 only if there is none | these and `VarsExistFirst` |
| `ReportsAreSolutions` | `ReportedIsFeasible`, `ReportedCostsObjective` | `CostsFit`, `LocalSearchKeeps` |
| `ApertureContracted` | `MeetsContract` | all four |
| `IncumbentWithoutLocalSearch` | as the first | `CostsFit`; no local search |
| `AnswersWithoutLocalSearch` | as the third and fourth | `CostsFit`, `VarsExistFirst`; no local search |
| `ContractWithoutLocalSearch` | `MeetsContract` | all but `LocalSearchKeeps`; no local search |

The hypotheses are about behaviours, and say what the code takes for granted:

- `CostsFit`: when LSU encodes the objective, no weight is 0 and no cost reaches
  `2^kNumBitsInWeight`. The code sums costs without a check.
- `LocalSearchKeeps`: what local search leaves is a solution of the value it reports.
  `ApertureTwoRelaxations`, `ApertureHardened` and `ApertureSatisfied` show clients for whom it
  does not hold (finding 2). No such hypothesis is needed with local search switched off, the last
  three theorems.
- `VarsExistFirst`: the client has named all its variables when LSU first encodes.
  A variable named later may be one of an encoding (finding 3, `ApertureNewVariable`).
- `SatMeansInterrupted`: a 10 is reported only with a terminate callback. Without one, a
  solution of cost 0 is answered with 10 instead of 30 (`ApertureFree`).

All four hold on the whole of the run `aperture`, so they are met by clients that relax clauses,
assume, are infeasible and reach LSU with an encoding of an earlier solve.

The inductive invariant `ApertureInv` has three parts. `Shape`: the soft literals are apart, and each
encoding is over variables that exist. `Incumbent`: the latest solution and the latest value belong
together, which is `IncumbentIsSolution` with the domain of the solution. `LsuInv`, the heart: while LSU
searches, the SAT solver holds an encoding of the objective as it is now (`LsuReady`),
over fresh variables above all of the client's and of earlier encodings, and the literals
assumed are its bound for the latest value. `BoundSound` then makes a model under the bound
cheaper. That a cheaper solution is never missed (`BoundComplete`) needs `AllFree` besides:
encodings are never taken back, and each of those already there, whatever it encoded, leaves every
assignment of the client's variables possible. Encodings have none but the client's variables in
common, so each is extended by itself.

`CallInv` is what the wrapper adds: the clause under construction and the clauses are over variables that
exist. The contract speaks of solutions over all of `Var`, the solver of those created so
far; `ContractSolutions` and `CreatedPart` restrict the one to the other without a change of cost. Each call of
the client is the contract's call, a return of `Solve` is its `Return` (`ReturnContracted`), and
every step of the search between them stutters (`QuietStep`).

### The others

- `CoreTrailPartProofs`, about `CoreGuided`: `Exactness` and `Correctness`, with the lemma `TypeCorrect`. The inductive
  invariant is `Exact` (charged + owed = price on every solution) with the type
  invariant, which says that nothing owes less than nothing; from the two it
  follows that the bound is a lower bound (`LowerBound`) and that a solution that
  owes nothing is cheapest. `AnswersAreRight` alone is not inductive: it says nothing
  while a call searches. `NothingAnswered` says that a search has no answer a charge
  could falsify. With `CoreGuidedImplemented` these results hold of core-trail.
- `Solver2022Proofs`: `Incumbent`, `Contracted` (`Spec => Contract!Spec`) and `AuxVars`. The
  inductive invariant is `Shape` (types and domains) with `Control` (what the search
  knows at each place: the incumbent is a completion of the reported values, its
  cost is `objective_value`, the bound is one less, and every solution below the bound
  is still a model of the SAT solver). One hypothesis is explicit: `OnePolarity` (no
  variable has two soft literals), which `Solver2022BothPolarities.cfg` breaks.
- `CoreTrailPartProofs`, about `PythonSolve`, for any set of threads: `Types`, `NoUse`, `NotAnswered`,
  `OnlyIfAsked`. Three invariants carry them. `WatcherIsJoined`: a watcher that runs has a
  call that runs, and a call that runs, like a thread inside `request_stop`, has a solver;
  it is inductive with the type invariant, because the thread that deletes a solver
  has joined its watcher and holds the GIL (which is why `GilIsHeld` is part of
  `BindingTypeOK`). `CutIsRemembered`: once cut, a call stays marked as interrupted until it
  ends, whatever becomes of the stop request. `FlagsAreAsked`: where a flag can still
  end the call, it was set for this call; an UNKNOWN of core minimisation never reaches
  the place where `solve` looks.
- `WCNFRunnerProofs`: `PrintsModel`, `PrintsCoveredValue`, `PrintsOptimumOnly`, for every set
  of hard clauses and weights. The inductive invariant has six parts: `Types`, `Saved`
  (outside the copy the solution is a model that `value` covers), `Proved` (what is marked
  optimal is), `Stopped` (before the first `PrintResults` the search alone has printed),
  `Lines` (a line of `PrintResults` says what the state says now, one of the search
  a value that is not below it) and `Uncut`. `Lines` is the point: lines are compared with the
  current state, which is sound only because a handler never returns, so nothing
  is saved once `PrintResults` has begun, and because values only fall before.
- `AppsProofs`, about both bi-objective applications: `IncStaysPutHolds`, `ImplementsParetoFront`,
  `SeesawImplementsParetoFront`, and `AppsPrintFronts` for their composition.
  BiOptSat's inductive invariant is one part per place of the loop. `PrintedSoFar`: the points of the
  front that the bounds in the MaxSAT solver exclude are those printed. `BetweenRounds`: those
  bounds are as tight as what the SAT solver keeps of earlier rounds, and reach as far as its
  totalizer, so that nothing an earlier round left can exclude a solution of a later one.
  `InRound`, `Searching`, `Found`: `incBound` is least, `decBound` is attained, and in the end
  nothing better is left.
  Seesaw's is about cores. `RuledOut`: samples that miss a core allow no rule smaller than
  `bestF`; it survives `coreExt` because `Extending` keeps the oracle's answer for the grown set at
  `f`, and a smaller set allows no smaller rule. `Asking`: a set of fewer samples than the
  hitting set misses some core. Together they say, when a hitting set turns out dearer than `bestG`,
  that no rule with as few samples beats the best point (`DearerProvesBest`). `BestIsRule` makes
  it a point of the instance, `PrintedRules` says which points of the front are out. The assumptions
  are that sizes are below the limit that stands for no rule and that there is a rule of size 0.
- `AppsProofs`, about `ipamirextenf`: `RefinementIsSound`, `PrintsOptimum`. `NothingIsLost` is inductive
  with the type of the target: a clause made from a candidate and a counterexample is satisfied by every framework in
  which that counterexample is not admissible, and with the target preferred it is
  not. Optimality follows: the proposal is cheapest among a superset of
  the frameworks that enforce the target.

### How inductions over data are proved

The library's induction theorems take an operator as a parameter, which the provers cannot
instantiate, and a recursive function is a `CHOOSE` to them. The proofs do without: an induction over a
finite set or a number is the choice of a smallest counterexample (`SetInduction` and `NumberInduction`
of `SumProofs`, stated about a set of sets or of numbers), and a fold is first shown to exist, by such
an induction, and then to have the value its equations give it.

### What stays with TLC

- Everything temporal that needs fairness (`SolveReturns`, `StopEndsSearch`, `SignalEndsRun`,
  `BiOptSatEnds`, `SeesawEnds`, `FindsAnswer`): liveness and `ENABLED` are out of the provers' reach.
- That local search keeps a solution (`LocalSearchKeeps`) for clients that avoid finding 2: a hypothesis
  of the theorems about `Aperture`, which TLC has checked for the scripts of the run `aperture`.
- `TypeOK` of `CoreTrail` and `Aperture` is stated for the reader and is part of no run; those of
  `Solver2022`, `WCNFRunner` and BiOptSat are parts of the inductive invariants.

What remains open: to derive `LocalSearchKeeps` from the model of `NuWeighting.cc` for the clients it
is right for; and, past the provers, the temporal properties.

## 6. Not modelled

- share-trail's CGSS2 (`src/maxsat/share-trail/src/cgss2.cpp`): a second core-guided solver behind
  the interface. It undoes charges by the closure of their consequences, as core-trail
  does, and adds bound hardening, cores that are relaxed together (WCE) and totalizers that share
  structure. It would be the next implementation of `CoreGuided`. What such a model
  would ask: that a hardening made for one query does not outlive it, that the
  early return of a replay leaves the assumptions of the last call as they were, and
  that a closure holds every consequence that rests on an undone one.
- core-trail: core trimming and exhaustion (off in the C interface), `full_stratified`
  false, weights that do not fit a `long`; a Python thread that uses a solver in the middle of its
  search; argument conversion, getters and `close`.
- Aperture: the plain totalizer without `leq_simplification`; options that are not the
  default (secondary SAT solvers, DeepDist, NuWLS, `mrs_beaver_max_iterations`, blackbox
  calls of Polosat); polarity and bumping heuristics; parsers and the ACNF runner.
  `assert` is off in the builds (`NDEBUG`), so what it says is not used as a guard.
- Applications: `ipamirapp` (a loop over random assumptions), `ipamirwcnf` (a parser and
  one call), `ipamiradaboost` (floating-point boosting around one call), `ipamiric3ref` (IC3 with
  vendored QBF and SAT solvers); duplicate literals in BiOptSat's objective.
- UWrMaxSat, and everything under `src/sat`, `third_party` and `external`: vendored
  releases of other projects. They are most of the repository's lines.
- `src/mse26`, `src/flake`, Makefiles: no state of their own.
