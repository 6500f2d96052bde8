------------------------------- MODULE Seesaw -------------------------------
(***************************************************************************)
(* app/ipamirmlicseesaw: the Pareto front of the noise and the size of     *)
(* classification rules in the Seesaw framework.  An external hitting set  *)
(* solver (CPLEX) proposes the cheapest set of samples that may be noise;  *)
(* the MaxSAT solver, the oracle, finds the smallest rule that              *)
(* misclassifies no other sample; and a core, samples of which one has to  *)
(* be added before any smaller rule exists, rules the set out.             *)
(*                                                                         *)
(* A rule is abstracted to the samples it misclassifies and its size.      *)
(***************************************************************************)
EXTENDS Integers, FiniteSets

CONSTANTS
  Sample,        \* the universe: the noise variables of the samples
  RuleSets,      \* the data sets, each the set of the <<noise, size>> of its rules
  NRULECLAUSES,  \* the clauses a rule has
  Infinite       \* numeric_limits<uint32_t>::max(): no rule

VARIABLES
  rules,    \* the data set
  pc,       \* where seesaw is: "hit", "oracle", "core", "done"
  cores,    \* the cores added to the hitting set problem
  hs,       \* the hitting set, and in coreExt the set it grows to
  untried,  \* the assumptions coreExt has not tried to drop
  g,        \* the cost of the hitting set
  f,        \* the size of the smallest rule for it
  bestG,
  bestF,    \* the best size so far, and at what cost
  printed   \* the points printed

vars == <<rules, pc, cores, hs, untried, g, f, bestG, bestF, printed>>

Init ==
  /\ rules \in RuleSets
  /\ pc = "hit"
  /\ cores = {}
  /\ hs = {}
  /\ untried = {}
  /\ g = 0 /\ f = 0
  /\ bestG = Infinite /\ bestF = Infinite
  /\ printed = {}

\* The cheapest hitting sets of the cores (costSolver.solve).
HittingSets ==
  LET hits == {s \in SUBSET Sample : \A c \in cores : s \cap c # {}}
  IN  {s \in hits : \A r \in hits : Cardinality(s) <= Cardinality(r)}

\* The answer of the oracle when the samples outside s are assumed not to be noise.
Oracle(s) ==
  LET sizes == {r[2] : r \in {q \in rules : q[1] \subseteq s}}
  IN  IF sizes = {} THEN Infinite ELSE CHOOSE n \in sizes : \A k \in sizes : n <= k

\* A dearer hitting set: the best point so far is Pareto-optimal.  Of one as small
\* as a rule's clauses only trivial rules are left.
HittingSet ==
  /\ pc = "hit"
  /\ hs' \in HittingSets
  /\ g' = Cardinality(hs')
  /\ IF g' > bestG
     THEN /\ printed' = printed \cup {<<bestG, bestF>>}
          /\ bestG' = Infinite
          /\ pc' = IF bestF <= NRULECLAUSES THEN "done" ELSE "oracle"
     ELSE pc' = "oracle" /\ UNCHANGED <<printed, bestG>>
  /\ UNCHANGED <<rules, cores, untried, f, bestF>>

\* Mutant: a rule as small as the best one takes its place.
AskOracleEqual ==
  /\ pc = "oracle"
  /\ f' = Oracle(hs)
  /\ IF f' <= bestF THEN bestF' = f' /\ bestG' = g ELSE UNCHANGED <<bestF, bestG>>
  /\ untried' = IF f' = 0 THEN {} ELSE Sample \ hs
  /\ pc' = "core"
  /\ UNCHANGED <<rules, cores, hs, g, printed>>

AskOracle ==
  /\ pc = "oracle"
  /\ f' = Oracle(hs)
  /\ IF f' < bestF THEN bestF' = f' /\ bestG' = g ELSE UNCHANGED <<bestF, bestG>>
  /\ untried' = IF f' = 0 THEN {} ELSE Sample \ hs
  /\ pc' = "core"
  /\ UNCHANGED <<rules, cores, hs, g, printed>>

\* coreExt: a sample whose addition allows no smaller rule joins the set.
TryToDrop ==
  /\ pc = "core"
  /\ \E e \in untried :
       /\ untried' = untried \ {e}
       /\ hs' = IF Oracle(hs \cup {e}) >= f THEN hs \cup {e} ELSE hs
  /\ UNCHANGED <<rules, pc, cores, g, f, bestG, bestF, printed>>

\* Mutant: the core is what the set has grown to and not what is left.
CoreGrown == IF f = 0 THEN {} ELSE hs

\* With f = 0 the core is empty whatever hs is.
Core == IF f = 0 THEN {} ELSE Sample \ hs

AddCore ==
  /\ pc = "core" /\ untried = {}
  /\ Core # {}
  /\ cores' = cores \cup {Core}
  /\ pc' = "hit"
  /\ UNCHANGED <<rules, hs, untried, g, f, bestG, bestF, printed>>

\* No set of samples gives a smaller rule: the last point is reported.
ReportLast ==
  /\ pc = "core" /\ untried = {}
  /\ Core = {}
  /\ printed' = IF bestF < Infinite THEN printed \cup {<<bestG, bestF>>} ELSE printed
  /\ pc' = "done"
  /\ UNCHANGED <<rules, cores, hs, untried, g, f, bestG, bestF>>

Next == HittingSet \/ AskOracle \/ TryToDrop \/ AddCore \/ ReportLast

\* The solvers answer every call.
Spec == Init /\ [][Next]_vars /\ WF_vars(Next)

-----------------------------------------------------------------------------
Promise == INSTANCE ParetoFront WITH
  Trivial <- NRULECLAUSES,
  points  <- {<<Cardinality(r[1]), r[2]>> : r \in rules},
  done    <- (pc = "done")

\* The Pareto-optimal points are printed in their order, up to one of a size no
\* rule of NRULECLAUSES clauses can undercut but the trivial ones.
PrintsFront == Promise!Spec

\* Every core rules out the hitting set it was extracted from: every run ends.
RunEnds == <>(pc = "done")
=============================================================================
