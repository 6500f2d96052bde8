----------------------------- MODULE WCNFRunner -----------------------------
(***************************************************************************)
(* Aperture's command line run on a WCNF file (cli/WCNFRunner.cc): one     *)
(* thread solves and prints, and the handler of SIGINT and SIGTERM prints  *)
(* whatever is found so far and exits.  A handler runs on top of the       *)
(* thread, between any two of its writes; SigScopeBlocker (ATypes.h) holds *)
(* back SIGTERM alone.  The search itself is abstracted to the solutions   *)
(* it saves: Aperture.tla says which they are.                             *)
(***************************************************************************)
EXTENDS MaxSatInstance, SequencesExt

CONSTANTS
  Hard,     \* the hard clauses of the file
  Soft,     \* the weights of the relaxation literals
  Signals   \* the signals another process may send, once each

ASSUME RunnerAssumption ==
  /\ Var = 1 .. Cardinality(Var)
  /\ DOMAIN Soft \subseteq Lit /\ \A l \in DOMAIN Soft : Soft[l] \in Weight
  /\ Signals \subseteq {"SIGINT", "SIGTERM"}

VARIABLES
  main,       \* where Run is: "setup", "solving", "copy", "value", "local",
              \* "log", "returned", "printing", "exited"
  found,      \* the model being saved
  copied,     \* the variables of it written so far
  solution,   \* latest_solution_: variable -> TRUE or FALSE, or empty
  value,      \* latest_maxsat_value_
  optimal,    \* latest_maxsat_optimal_
  status,     \* solver_return_status
  pending,    \* signals sent and not delivered
  sent,       \* signals sent
  stack,      \* the calls of PrintResults, the innermost last
  output      \* the lines printed, by the search and by PrintResults

saved == <<solution, value, optimal>>
vars  == <<main, found, copied, saved, status, pending, sent, stack, output>>

Models == {m \in Assignment : \A c \in Hard : SatisfiesClause(m, c)}

\* numeric_limits<TWeight>::max()
Unknown == 1 + TotalWeight(Soft)

Empty == [v \in {} |-> FALSE]
TrueIn(s) == {v \in DOMAIN s : s[v]}

Init ==
  /\ main = "setup"
  /\ found = {}
  /\ copied = {}
  /\ solution = Empty
  /\ value = Unknown
  /\ optimal = FALSE
  /\ status = "UNKNOWN"
  /\ pending = {}
  /\ sent = {}
  /\ stack = <<>>
  /\ output = <<>>

(***************************************************************************)
(* The thread, while no handler runs on top of it.                         *)
(***************************************************************************)
Thread == stack = <<>>

Setup ==
  /\ Thread
  /\ main = "setup"
  /\ main' = "solving"
  /\ UNCHANGED <<found, copied, saved, status, pending, sent, stack, output>>

\* SaveLatestSolutionFromSolver and SaveAndPrintLatestMaxSATValue: the vector is
\* cleared, resized and filled, then the value is assigned.
FoundBySat ==
  /\ Thread
  /\ main = "solving"
  /\ \E m \in Models :
       /\ Cost(Soft, m) < value
       /\ found' = m
  /\ solution' = [v \in Var |-> FALSE]
  /\ copied' = {}
  /\ main' = "copy"
  /\ UNCHANGED <<value, optimal, status, pending, sent, stack, output>>

\* SaveSolutionAndValue of the local search: the value first, both blocked.
FoundByLocalSearch ==
  /\ Thread
  /\ main = "solving"
  /\ solution # Empty
  /\ \E m \in Models :
       /\ Cost(Soft, m) < value
       /\ found' = m
       /\ value' = Cost(Soft, m)
  /\ copied' = {}
  /\ main' = "local"
  /\ UNCHANGED <<solution, optimal, status, pending, sent, stack, output>>

\* Variables are copied in increasing order.
Copy ==
  /\ Thread
  /\ main \in {"copy", "local"}
  /\ copied # Var
  /\ LET v == Cardinality(copied) + 1
     IN  /\ solution' = [solution EXCEPT ![v] = v \in found]
         /\ copied' = copied \cup {v}
  /\ UNCHANGED <<main, found, value, optimal, status, pending, sent, stack, output>>

\* The end of the scope restores the mask.
Unblock ==
  /\ Thread
  /\ main \in {"copy", "local"}
  /\ copied = Var
  /\ main' = IF main = "copy" THEN "value" ELSE "log"
  /\ UNCHANGED <<found, copied, saved, status, pending, sent, stack, output>>

AssignValue ==
  /\ Thread
  /\ main = "value"
  /\ value' = IF Cost(Soft, found) < value THEN Cost(Soft, found) ELSE value
  /\ main' = "log"
  /\ UNCHANGED <<found, copied, solution, optimal, status, pending, sent, stack, output>>

\* Each improvement is logged, whoever found it.
PrintLatestMaxSATValue ==
  /\ Thread
  /\ main = "log"
  /\ output' = Append(output, [line |-> "o", value |-> value])
  /\ main' = "solving"
  /\ UNCHANGED <<found, copied, saved, status, pending, sent, stack>>

\* Mutant: a search that ends has proved its solution optimal.
FinishUnproved ==
  /\ Thread
  /\ main = "solving"
  /\ optimal' = (solution # Empty)
  /\ main' = "returned"
  /\ UNCHANGED <<found, copied, solution, value, status, pending, sent, stack, output>>

\* No model is cheaper, or there is none; or the search stops at a solution it has
\* not proved optimal: one LSU returns with at once (LSU.cc:122), the last before a
\* query without an answer (LSU.cc:128-132), or the local search's when nothing is
\* to follow it (MaxSAT.cc:124).
Finish ==
  /\ Thread
  /\ main = "solving"
  /\ \/ /\ \A m \in Models : Cost(Soft, m) >= value
        /\ optimal' = (solution # Empty)
     \/ /\ solution # Empty
        /\ UNCHANGED optimal
  /\ main' = "returned"
  /\ UNCHANGED <<found, copied, solution, value, status, pending, sent, stack, output>>

PrintResults(by) == [by |-> by, at |-> "read", model |-> Empty]

\* Run passes known literals only, hence never ERROR, and no solver returns
\* GLOBAL_CONTRADICTION.
Return ==
  /\ Thread
  /\ main = "returned"
  /\ status' = IF solution = Empty THEN "UNSAT" ELSE "SAT"
  /\ main' = "printing"
  /\ stack' = <<PrintResults("main")>>
  /\ UNCHANGED <<found, copied, saved, pending, sent, output>>

(***************************************************************************)
(* PrintResults, by the thread or by a handler.                            *)
(***************************************************************************)
Printing(at, next) ==
  /\ stack # <<>>
  /\ Last(stack).at = at
  /\ stack' = Front(stack) \o <<[Last(stack) EXCEPT !.at = next]>>
  /\ UNCHANGED <<main, found, copied, saved, pending, sent>>

ReadSolution ==
  /\ stack # <<>>
  /\ Last(stack).at = "read"
  /\ stack' = Front(stack) \o <<[Last(stack) EXCEPT !.at = "status", !.model = solution]>>
  /\ status' = IF solution # Empty /\ status = "UNKNOWN" THEN "SAT" ELSE status
  /\ UNCHANGED <<main, found, copied, saved, pending, sent, output>>

PrintStatus ==
  /\ Printing("status", IF status = "SAT" THEN "value" ELSE "exit")
  /\ output' = Append(output, [line |-> "s", optimal |-> optimal /\ status = "SAT"])
  /\ UNCHANGED status

PrintValue ==
  /\ Printing("value", "model")
  /\ output' = Append(output, [line |-> "o", value |-> value])
  /\ UNCHANGED status

PrintModel ==
  /\ Printing("model", "exit")
  /\ output' = Append(output, [line |-> "v", model |-> TrueIn(Last(stack).model)])
  /\ UNCHANGED status

\* The handler exits the process, and so does Run.
Exit ==
  /\ stack # <<>>
  /\ Last(stack).at = "exit"
  /\ main' = "exited"
  /\ stack' = <<>>
  /\ UNCHANGED <<found, copied, saved, status, pending, sent, output>>

(***************************************************************************)
(* Signals.                                                                *)
(***************************************************************************)
Send(s) ==
  /\ main # "exited"
  /\ s \notin sent
  /\ sent' = sent \cup {s}
  /\ pending' = pending \cup {s}
  /\ UNCHANGED <<main, found, copied, saved, status, stack, output>>

\* Mutants: a scope that does not restore the mask, one that blocks nothing.
BlockedForGood ==
  (IF copied # {} THEN {"SIGTERM"} ELSE {})
    \cup {stack[i].by : i \in DOMAIN stack}

BlockedByHandlers == {stack[i].by : i \in DOMAIN stack}

\* A handler's own signal is blocked while it runs.
Blocked ==
  (IF main \in {"copy", "local"} THEN {"SIGTERM"} ELSE {})
    \cup {stack[i].by : i \in DOMAIN stack}

Deliver(s) ==
  /\ main # "exited"
  /\ s \in pending \ Blocked
  /\ pending' = pending \ {s}
  /\ IF main = "setup"
     THEN main' = "exited" /\ UNCHANGED stack
     ELSE stack' = Append(stack, PrintResults(s)) /\ UNCHANGED main
  /\ UNCHANGED <<found, copied, saved, status, sent, output>>

Search == FoundBySat \/ FoundByLocalSearch \/ Finish

Run ==
  \/ Setup
  \/ Copy
  \/ Unblock
  \/ AssignValue
  \/ PrintLatestMaxSATValue
  \/ Return
  \/ ReadSolution
  \/ PrintStatus
  \/ PrintValue
  \/ PrintModel
  \/ Exit

Next ==
  \/ Search
  \/ Run
  \/ \E s \in Signals : Send(s) \/ Deliver(s)

\* The thread runs on, but a search may take any time; signals are delivered.
Spec ==
  /\ Init
  /\ [][Next]_vars
  /\ WF_vars(Run)
  /\ \A s \in Signals : WF_vars(Deliver(s))

-----------------------------------------------------------------------------
TypeOK ==
  /\ main \in {"setup", "solving", "copy", "value", "local", "log", "returned",
               "printing", "exited"}
  /\ found \in Assignment
  /\ copied \subseteq Var
  /\ solution \in {Empty} \cup [Var -> BOOLEAN]
  /\ value \in Nat
  /\ optimal \in BOOLEAN
  /\ status \in {"UNKNOWN", "SAT", "UNSAT"}
  /\ pending \subseteq sent
  /\ sent \subseteq Signals

LinesAre(kind, Right(_)) == \A i \in DOMAIN output : output[i].line = kind => Right(output[i])

ModelLinesAreModels == LinesAre("v", LAMBDA line : line.model \in Models)

\* Whatever moments SIGTERM chooses, the assignment printed satisfies the hard
\* clauses: its handler never reads the vector half written (Aperture.cc:234-239).
PrintedIsModel == "SIGINT" \notin sent => ModelLinesAreModels

\* "Returns the latest solution/model from the solver" (Aperture.h:47), whichever
\* signal makes the handler ask for it.
LatestIsModel == ModelLinesAreModels

\* What is called optimal is printed with its cost, and none is cheaper, even if
\* a signal cuts in between the last solution and the return of Solve.
OptimumIsOptimum ==
  \A i \in DOMAIN output :
    output[i].line = "s" /\ output[i].optimal =>
      \A j \in DOMAIN output : i < j =>
        /\ output[j].line = "o" =>
             \A m \in Models : output[j].value <= Cost(Soft, m)
        /\ output[j].line = "v" =>
             \A m \in Models : Cost(Soft, output[j].model) <= Cost(Soft, m)

\* With SIGTERM alone, no value printed, by the search or by PrintResults, is below
\* the cost of an assignment printed after it.
ValueCoversModel ==
  "SIGINT" \notin sent => \A i \in DOMAIN output, j \in DOMAIN output :
    i < j /\ output[i].line = "o" /\ output[j].line = "v" =>
      output[i].value >= Cost(Soft, output[j].model)

\* A signal ends the run, however long the search would have taken
\* (WCNFRunner.h:25-31), also one that comes while SIGTERM is held back.
SignalEndsRun == pending # {} ~> main = "exited"

\* The value printed is the cost of a solution that was found (Aperture.h:83).
PrintedValueWasFound ==
  LinesAre("o", LAMBDA line : \E m \in Models : Cost(Soft, m) = line.value)
=============================================================================
