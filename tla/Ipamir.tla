------------------------------- MODULE Ipamir -------------------------------
(***************************************************************************)
(* What a client of the reentrant incremental MaxSAT API is promised       *)
(* (ipamir.h): the state machine INPUT / SAT / OPTIMAL / UNSAT / ERROR, how *)
(* the calls build the instance, and what each return code of ipamir_solve *)
(* says about it.  "The state of the solver during execution of            *)
(* ipamir_solve is undefined": it is SOLVING here, and everything the call *)
(* promises is promised of the step that returns from it.                  *)
(***************************************************************************)
EXTENDS MaxSatInstance

VARIABLES
  feasible,   \* the assignments that satisfy the finished hard clauses
  open,       \* the literals of the hard clause being added
  soft,       \* the weight of each literal, 0 unless it was declared soft
  assumed,    \* the assumptions for the next solve
  callback,   \* a terminate callback is registered
  refused,    \* the calls so far are a sequence the solver may not support
  state,      \* the state of the solver
  objective,  \* what ipamir_val_obj returns in state OPTIMAL or SAT
  value       \* what ipamir_val_lit returns there: variable -> 1, -1 or 0

vars == <<feasible, open, soft, assumed, callback, refused, state, objective,
          value>>

State == {"INPUT", "SAT", "OPTIMAL", "UNSAT", "ERROR", "SOLVING"}

\* The states in which the client may make a call.
Callable == {"INPUT", "SAT", "OPTIMAL", "UNSAT"}

NoValue == [v \in Var |-> 0]

Init ==
  /\ feasible = Assignment
  /\ open = {}
  /\ soft = [l \in Lit |-> 0]
  /\ assumed = {}
  /\ callback = FALSE
  /\ refused = FALSE
  /\ state = "INPUT"
  /\ objective = 0
  /\ value = NoValue

\* "Required state: INPUT or OPTIMAL or SAT or UNSAT. State after: INPUT", in
\* which no answer can be read any more.
Input ==
  /\ state \in Callable
  /\ state' = "INPUT"
  /\ objective' = 0
  /\ value' = NoValue
  /\ refused' \in BOOLEAN
  /\ UNCHANGED callback

AddHard(l) ==
  /\ Input
  /\ open' = open \cup {l}
  /\ UNCHANGED <<feasible, soft, assumed>>

FinishHard ==
  /\ Input
  /\ open' = {}
  /\ feasible' = {m \in feasible : SatisfiesClause(m, open)}
  /\ UNCHANGED <<soft, assumed>>

AddSoftLit(l, w) ==
  /\ Input
  /\ soft' = [soft EXCEPT ![l] = w]
  /\ UNCHANGED <<feasible, open, assumed>>

Assume(l) ==
  /\ Input
  /\ assumed' = assumed \cup {l}
  /\ UNCHANGED <<feasible, open, soft>>

SetTerminate ==
  /\ state \in Callable
  /\ callback' \in BOOLEAN
  /\ UNCHANGED <<feasible, open, soft, assumed, refused, state, objective, value>>

SolveCalled ==
  /\ state \in Callable
  /\ state' = "SOLVING"
  /\ objective' = 0
  /\ value' = NoValue
  /\ UNCHANGED <<feasible, open, soft, assumed, callback, refused>>

Solutions == {m \in feasible : SatisfiesAll(m, assumed)}

\* The assignment read through ipamir_val_lit is a solution of cost objective.
ReportsSolution ==
  \E m \in Solutions : Completes(m, value') /\ objective' = Cost(soft, m)

ReportsNothing == objective' = 0 /\ value' = NoValue

\* 30: nothing feasible is cheaper.
Optimal ==
  /\ state' = "OPTIMAL"
  /\ ReportsSolution
  /\ \A m \in Solutions : objective' <= Cost(soft, m)

\* 10: interrupted with a feasible solution in hand.
Feasible == state' = "SAT" /\ callback /\ ReportsSolution

\* 20: no feasible solution exists.
Infeasible == state' = "UNSAT" /\ Solutions = {} /\ ReportsNothing

\* 0: interrupted, and only a terminate callback can interrupt.
Interrupted == state' = "INPUT" /\ callback /\ ReportsNothing

\* 40: the solver does not support the calls that were made.
Unsupported == state' = "ERROR" /\ refused /\ ReportsNothing

SolveReturns ==
  /\ state = "SOLVING"
  /\ Optimal \/ Feasible \/ Infeasible \/ Interrupted \/ Unsupported
  /\ assumed' = {}
  /\ refused' \in BOOLEAN
  /\ UNCHANGED <<feasible, open, soft, callback>>

Next ==
  \/ \E l \in Lit : AddHard(l) \/ Assume(l)
  \/ \E l \in Lit, w \in Weight : AddSoftLit(l, w)
  \/ FinishHard
  \/ SetTerminate
  \/ SolveCalled
  \/ SolveReturns

Spec == Init /\ [][Next]_vars
=============================================================================
