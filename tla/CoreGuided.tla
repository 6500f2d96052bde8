----------------------------- MODULE CoreGuided -----------------------------
(***************************************************************************)
(* What an incremental core-guided solver keeps true from call to call,    *)
(* whatever its literals, totalizers and strata look like: an assignment   *)
(* owes part of its price and the lower bound has charged the rest.        *)
(* CoreTrail implements this specification (its property IsCoreGuided);    *)
(* CoreTrailPartProofs shows that nothing more is needed for the answers   *)
(* to be right, for every instance and every sequence of calls.            *)
(***************************************************************************)
EXTENDS Integers

CONSTANTS
  Model,   \* the assignments
  Amount   \* what an assignment may cost or owe

ASSUME AmountAssumption == Amount \subseteq Nat /\ 0 \in Amount

VARIABLES
  feasible,  \* the assignments that satisfy the hard clauses
  allowed,   \* those that satisfy the assumptions the charges rely on
  price,     \* what each assignment costs
  owed,      \* what it still owes in the reformulated objective
  lb,        \* what has been charged to all of them
  phase,     \* "idle" or "search"
  answer,    \* what the last call answered
  model      \* the assignment it answered with

vars == <<feasible, allowed, price, owed, lb, phase, answer, model>>

Solutions == feasible \cap allowed

Free == [m \in Model |-> 0]

Init ==
  /\ feasible = Model
  /\ allowed = Model
  /\ price = Free
  /\ owed = Free
  /\ lb = 0
  /\ phase = "idle"
  /\ answer = "none"
  /\ model \in Model

(***************************************************************************)
(* Between calls.                                                          *)
(***************************************************************************)
Input == phase = "idle" /\ answer' = "none" /\ UNCHANGED <<allowed, lb, phase, model>>

\* A client's call that the engine hears of only when it solves.
Defer == Input /\ UNCHANGED <<feasible, price, owed>>

Harden ==
  /\ Input
  /\ feasible' \in SUBSET feasible
  /\ UNCHANGED <<price, owed>>

\* Mutant: a new objective literal is declared but not put into the objective.
DeclareUnpaid ==
  /\ Input
  /\ price' \in [Model -> Amount]
  /\ \A m \in Model : price'[m] >= price[m]
  /\ UNCHANGED <<feasible, owed>>

\* A new objective literal: what it costs an assignment, the assignment owes.
Declare ==
  /\ Input
  /\ price' \in [Model -> Amount]
  /\ owed' \in [Model -> Amount]
  /\ \A m \in Model : price'[m] >= price[m] /\ owed'[m] - owed[m] = price'[m] - price[m]
  /\ UNCHANGED feasible

(***************************************************************************)
(* A call.                                                                 *)
(***************************************************************************)
\* New assumptions and prices: charges that relied on the old ones are taken
\* back until the rest is exact for what is allowed now.
Begin ==
  /\ phase = "idle" /\ answer = "none"
  /\ phase' = "search"
  /\ allowed' \in SUBSET Model
  /\ price' \in [Model -> Amount]
  /\ lb' \in Amount
  /\ owed' \in [Model -> Amount]
  /\ \A m \in feasible \cap allowed' : lb' + owed'[m] = price'[m]
  /\ UNCHANGED <<feasible, answer, model>>

\* Mutant: a charge that need not be one that every solution owes.
ChargeUnowed ==
  /\ phase = "search"
  /\ lb' \in Amount /\ lb' >= lb
  /\ owed' = [m \in Model |-> owed[m] - (lb' - lb)]
  /\ UNCHANGED <<feasible, allowed, price, phase, answer, model>>

\* A core, a clique or a contradiction: every solution pays the same.
Charge ==
  /\ phase = "search"
  /\ lb' \in Amount /\ lb' >= lb
  /\ owed' \in [Model -> Amount]
  /\ \A m \in Solutions : owed'[m] = owed[m] - (lb' - lb)
  /\ UNCHANGED <<feasible, allowed, price, phase, answer, model>>

Return(a) ==
  /\ phase' = "idle"
  /\ answer' = a
  /\ UNCHANGED <<feasible, allowed, price, owed, lb>>

\* Mutant: any solution is an answer.
SettleEarly ==
  /\ phase = "search"
  /\ model' \in Solutions
  /\ Return("OPTIMAL")

\* A solution that owes nothing.
Settle ==
  /\ phase = "search"
  /\ \E m \in Solutions : owed[m] = 0 /\ model' = m
  /\ Return("OPTIMAL")

Refute ==
  /\ phase = "search"
  /\ Solutions = {}
  /\ Return("UNSAT")
  /\ UNCHANGED model

Next == Defer \/ Harden \/ Declare \/ Begin \/ Charge \/ Settle \/ Refute

Spec == Init /\ [][Next]_vars

(***************************************************************************)
(* Properties.                                                             *)
(***************************************************************************)
TypeOK ==
  /\ feasible \subseteq Model
  /\ allowed \subseteq Model
  /\ price \in [Model -> Amount]
  /\ owed \in [Model -> Amount]
  /\ lb \in Amount
  /\ phase \in {"idle", "search"}
  /\ answer \in {"none", "OPTIMAL", "UNSAT"}
  /\ model \in Model

\* What has been charged and what a solution owes add up to its price, from
\* one call to the next (cost_, wght_ and swgt_ of rc2_solver.cc).
Exact == \A m \in Solutions : lb + owed[m] = price[m]

\* The cost that ipamir_val_obj returns after 30 is that of the assignment that
\* ipamir_val_lit returns, and no solution is cheaper; after 20 there is none.
AnswersAreRight ==
  /\ answer = "OPTIMAL" => /\ model \in Solutions
                           /\ price[model] = lb
                           /\ \A m \in Solutions : lb <= price[m]
  /\ answer = "UNSAT" => Solutions = {}
=============================================================================
