----------------------------- MODULE ParetoApps -----------------------------
(***************************************************************************)
(* Both bi-objective applications, one of which runs: BiOptSat and Seesaw  *)
(* share no state, and the other one stays where it starts.                *)
(***************************************************************************)
EXTENDS BiOptSat, FiniteSets

CONSTANTS Sample, RuleSets, NRULECLAUSES, Infinite

\* Sizes stay below the numeric limit that stands for no rule, and the rule without
\* features has size 0, whatever it misclassifies.
ASSUME SeesawAssumption ==
  /\ IsFiniteSet(Sample)
  /\ Infinite \in Nat /\ Cardinality(Sample) < Infinite
  /\ NRULECLAUSES \in Nat
  /\ \A d \in RuleSets : /\ d \subseteq (SUBSET Sample) \X (0 .. Infinite - 1)
                         /\ \E r \in d : r[2] = 0

VARIABLES app, rules, seesawPc, cores, hs, untried, g, f, bestG, bestF, seesawPrinted

seesawVars == <<rules, seesawPc, cores, hs, untried, g, f, bestG, bestF, seesawPrinted>>

See == INSTANCE Seesaw WITH pc <- seesawPc, printed <- seesawPrinted

AppsInit ==
  \/ app = "bioptsat" /\ See!Init /\ rules = {<<Sample, 0>>} /\ Init
  \/ app = "seesaw" /\ See!Init /\ points = {} /\ Init

AppsNext ==
  \/ app = "bioptsat" /\ Next /\ UNCHANGED <<app, seesawVars>>
  \/ app = "seesaw" /\ See!Next /\ UNCHANGED <<app, vars>>

AppsSpec ==
  AppsInit /\ [][AppsNext]_<<app, vars, seesawVars>> /\ WF_<<app, vars, seesawVars>>(AppsNext)

\* ipamirmlicseesaw prints the Pareto-optimal rules in their order, whatever hitting
\* sets the hitting set solver chooses and in whatever order the cores are extracted.
SeesawPrintsFront == See!PrintsFront

\* ipamirbioptsat ends: every bound added for good rules out the values just printed
\* (ipamirbioptsat.cpp:173-230), although outputs a totalizer does not encode rule out
\* nothing.
BiOptSatEnds == app = "bioptsat" => RunEnds

\* ipamirmlicseesaw ends: the core that coreExt leaves after growing the hitting set
\* still rules that set out (ipamirmlicseesaw.cpp:111-157).
SeesawEnds == app = "seesaw" => See!RunEnds
=============================================================================
