------------------------------- MODULE ExtEnf -------------------------------
(***************************************************************************)
(* app/ipamirextenf: extension enforcement in argumentation frameworks by  *)
(* counterexample-guided refinement.  Find the fewest attacks to add to or *)
(* delete from a framework so that a set of arguments becomes a preferred  *)
(* extension, i.e. a maximal admissible set.  The MaxSAT solver proposes   *)
(* the cheapest framework in which the target is complete; a SAT solver    *)
(* looks for a larger admissible set in it; and a clause over the attacks  *)
(* that keep that set admissible is added before the next proposal.        *)
(***************************************************************************)
EXTENDS Naturals, FiniteSets

CONSTANTS
  Arg,        \* the arguments
  Frameworks  \* the inputs: the arguments to enforce and the attacks read

ASSUME ExtEnfAssumption ==
  Frameworks \subseteq [enforce : SUBSET Arg, given : SUBSET (Arg \X Arg)]

VARIABLES
  enforce,    \* the target, enforce[i] of the code
  given,      \* af.att_exists
  stage,      \* where main is: "maxsat", "check", "done", "error"
  clauses,    \* the clauses added after the encoding
  candidate   \* the attacks of the framework proposed

enfVars == <<enforce, given, stage, clauses, candidate>>

\* No attack between two arguments of the target has a variable.
Free == (Arg \X Arg) \ (enforce \X enforce)

Attacked(A, X, i) == \E j \in X : <<j, i>> \in A

-----------------------------------------------------------------------------
\* DynamicAFEncoder::generate_encoding.
NoCounter(A, i, j) == <<i, j>> \in A /\ ~Attacked(A, enforce, i)

Encoded(A) ==
  /\ \A i \in enforce, j \in Arg \ enforce : <<j, i>> \in A => Attacked(A, enforce, j)
  /\ \A i \in Arg \ enforce :
       Attacked(A, enforce, i) \/ \E j \in Arg \ enforce : NoCounter(A, j, i)

\* A clause is violated when all of its negative literals' attacks are there and
\* none of its positive ones'.
Satisfies(A, c) == ~(c.neg \subseteq A /\ c.pos \cap A = {})

Eligible == {A \in SUBSET Free : Encoded(A) /\ \A c \in clauses : Satisfies(A, c)}

\* The attacks added and those deleted, outside the target.
Changes(A) == Cardinality(A \ given) + Cardinality((given \cap Free) \ A)

Optimal == {A \in Eligible : \A B \in Eligible : Changes(A) <= Changes(B)}

-----------------------------------------------------------------------------
\* StaticAFEncoder::generate_encoding: its "completeness" clauses that an argument
\* is accepted when its attackers are rejected are built but never added.
Admissible(A, S) ==
  /\ \A i, j \in S : <<i, j>> \notin A
  /\ \A i \in S, j \in Arg : <<j, i>> \in A => Attacked(A, S, j)

\* Mutant: an accepted argument need not be defended.
ConflictFreeOnly(A) ==
  {S \in SUBSET Arg : enforce \subseteq S /\ S # enforce /\ \A i, j \in S : <<i, j>> \notin A}

\* The admissible sets with the target and one more argument.
Larger(A) == {S \in SUBSET Arg : enforce \subseteq S /\ S # enforce /\ Admissible(A, S)}

Rejected(A, S) == {i \in Arg : Attacked(A, S, i)}

\* Mutant: an undecided argument is not asked to attack the set.
RefinementWithin(A, S) ==
  [neg |-> {a \in A : a[1] \in S /\ a[2] \in Rejected(A, S)},
   pos |-> {a \in Free \ A : a[2] \in S /\ a[1] \in S}]

\* Some attack by which S rejects an argument goes, or an accepted or undecided
\* argument attacks S.
Refinement(A, S) ==
  [neg |-> {a \in A : a[1] \in S /\ a[2] \in Rejected(A, S)},
   pos |-> {a \in Free \ A : a[2] \in S /\ a[1] \notin Rejected(A, S)}]

-----------------------------------------------------------------------------
EnfInit ==
  /\ \E instance \in Frameworks :
       enforce = instance.enforce /\ given = instance.given
  /\ stage = "maxsat"
  /\ clauses = {}
  /\ candidate = {}

\* "ERROR: ipamir_solve returned 20" when no framework is left.
Solve ==
  /\ stage = "maxsat"
  /\ IF Eligible = {} THEN stage' = "error" /\ UNCHANGED candidate
                     ELSE stage' = "check" /\ candidate' \in Optimal
  /\ UNCHANGED <<enforce, given, clauses>>

\* Mutant: the clause is lost.
RefineNothing ==
  /\ stage = "check"
  /\ Larger(candidate) # {}
  /\ stage' = "maxsat"
  /\ UNCHANGED <<enforce, given, clauses, candidate>>

Refine ==
  /\ stage = "check"
  /\ \E S \in Larger(candidate) : clauses' = clauses \cup {Refinement(candidate, S)}
  /\ stage' = "maxsat"
  /\ UNCHANGED <<enforce, given, candidate>>

Report ==
  /\ stage = "check"
  /\ Larger(candidate) = {}
  /\ stage' = "done"
  /\ UNCHANGED <<enforce, given, clauses, candidate>>

EnfNext == Solve \/ Refine \/ Report

\* Both solvers answer every call.
EnfSpec == EnfInit /\ [][EnfNext]_enfVars /\ WF_enfVars(EnfNext)

-----------------------------------------------------------------------------
\* The frameworks in which the target is a preferred extension.
Preferred(A) ==
  /\ Admissible(A, enforce)
  /\ \A S \in SUBSET Arg : enforce \subseteq S /\ S # enforce => ~Admissible(A, S)

\* No refinement clause rules out a framework that enforces the target, although it
\* is made from one candidate and one of its counterexamples.
NothingIsLost ==
  \A A \in SUBSET Free, c \in clauses : Preferred(A) => Satisfies(A, c)

\* The framework printed enforces the target and none does with fewer changes,
\* although the MaxSAT solver is asked for less than preferred extensions.
AnswerIsOptimal ==
  stage = "done" =>
    /\ Preferred(candidate)
    /\ \A A \in SUBSET Free : Preferred(A) => Changes(candidate) <= Changes(A)

\* The refinement ends, and never because no framework is left.
FindsAnswer == <>(stage = "done")
=============================================================================
