--------------------------- MODULE MaxSatInstance ---------------------------
(***************************************************************************)
(* The data every module of this project speaks about: variables, literals *)
(* (non-zero integers, as in the DIMACS formats and ipamir.h), assignments *)
(* (the set of variables that are true), clauses (sets of literals) and    *)
(* the objective of a MaxSAT instance.                                     *)
(***************************************************************************)
EXTENDS Integers, FiniteSets, Functions

CONSTANTS
  Var,     \* the variables a client may use, a set of positive integers
  Weight   \* the weights it may give, a set of naturals

ASSUME VarAssumption == Var \subseteq Nat \ {0} /\ IsFiniteSet(Var)

ASSUME WeightAssumption == Weight \subseteq Nat

Lit == Var \cup {-v : v \in Var}

VarOf(l) == IF l > 0 THEN l ELSE -l

\* An assignment is the set of its true variables.
Assignment == SUBSET Var

Holds(m, l) == IF l > 0 THEN l \in m ELSE -l \notin m

SatisfiesClause(m, c) == \E l \in c : Holds(m, l)

SatisfiesAll(m, ls) == \A l \in ls : Holds(m, l)

(***************************************************************************)
(* The objective: setting a literal to true costs the weight that `soft'   *)
(* gives it (ipamir_add_soft_lit).                                         *)
(***************************************************************************)
\* A sum of weights; the literals of weight 0 add nothing to it.
TotalWeight(weight) ==
  LET counted == {l \in DOMAIN weight : weight[l] # 0}
  IN  SumFunction(Restrict(weight, counted))

Cost(soft, m) == TotalWeight(Restrict(soft, {l \in DOMAIN soft : Holds(m, l)}))

\* The weight of every literal, 0 for those that are not soft.
WeightOfAll(soft) == [l \in Lit |-> IF l \in DOMAIN soft THEN soft[l] ELSE 0]

\* A partial assignment returned by ipamir_val_lit maps each variable to
\* 1 (true), -1 (false) or 0 (not important); m completes it.
Completes(m, value) ==
  \A v \in Var : /\ value[v] = 1  => v \in m
                 /\ value[v] = -1 => v \notin m
=============================================================================
