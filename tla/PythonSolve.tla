----------------------------- MODULE PythonSolve -----------------------------
(***************************************************************************)
(* maxsat/core-trail/src/python/module.cc: solving from Python, and how    *)
(* Ctrl+C and request_stop reach a search that runs without the GIL.       *)
(*                                                                         *)
(* A call of solve installs a SIGINT handler, starts a watcher thread that *)
(* turns the handler's flag into a stop request, releases the GIL for the  *)
(* search (rc2_solver.cc), joins the watcher, restores the handler and     *)
(* discards the solver if it was interrupted; a call with                  *)
(* raise_on_abnormal may leave with an exception instead.  Other Python    *)
(* threads may call request_stop and clear_stop whenever they get the GIL. *)
(*                                                                         *)
(* The search is abstracted to a loop of SAT queries that may go on for    *)
(* ever; CoreTrail shows that it does not, and that none of the            *)
(* consistency checks RC2Engine lists throws in it.                        *)
(***************************************************************************)
EXTENDS Naturals

CONSTANTS
  Thread,       \* the Python threads that solve, each with a solver of its own
  Shared,       \* those whose solver another Python thread has a reference to
  ClientClears  \* whether clear_stop is ever called

Nobody == "nobody"

ASSUME PythonSolveAssumption ==
  /\ Nobody \notin Thread /\ "client" \notin Thread
  /\ Shared \subseteq Thread
  /\ ClientClears \in BOOLEAN

VARIABLES
  gil,               \* who holds the GIL
  g_sigint_seen,
  handler,           \* the installed SIGINT handler, "python" or "rc2"
  g_prev_sigint,     \* the handler that restore_sigint_handler puts back
  g_sigint_installed,
  client,            \* the call another Python thread is in the middle of
  alive,             \* self->solver is not null
  pc,                \* where the thread's call of solve is
  watcher,           \* where its stop_watcher is
  solve_done,
  stop_requested,    \* stop_requested_ of the thread's solver
  asynch_interrupt,  \* asynch_interrupt of its SAT solver
  unknown,           \* its SAT solver's last status is UNKNOWN
  interrupted,       \* interrupted_last_solve_
  cut,               \* history: the search ended without an answer
  asked              \* history: how far a request to stop this call has got

signals == <<g_sigint_seen, handler, g_prev_sigint, g_sigint_installed>>
flags == <<stop_requested, asynch_interrupt>>
search == <<unknown, interrupted, cut>>
bindingVars == <<gil, signals, client, alive, pc, watcher, solve_done, flags, search, asked>>

NoCall == [op |-> "none", solver |-> Nobody]

BindingInit ==
  /\ gil = Nobody
  /\ g_sigint_seen = FALSE
  /\ handler = "python" /\ g_prev_sigint = "python" /\ g_sigint_installed = FALSE
  /\ client = NoCall
  /\ alive = [t \in Thread |-> TRUE]
  /\ pc = [t \in Thread |-> "idle"]
  /\ watcher = [t \in Thread |-> "off"]
  /\ solve_done = [t \in Thread |-> FALSE]
  /\ stop_requested = [t \in Thread |-> FALSE]
  /\ asynch_interrupt = [t \in Thread |-> FALSE]
  /\ unknown = [t \in Thread |-> TRUE]
  /\ interrupted = [t \in Thread |-> FALSE]
  /\ cut = [t \in Thread |-> FALSE]
  /\ asked = [t \in Thread |-> "no"]

Goto(t, from, to) == pc[t] = from /\ pc' = [pc EXCEPT ![t] = to]

(***************************************************************************)
(* m_solve, with the GIL.                                                  *)
(***************************************************************************)
\* A discarded solver is replaced by a new one (PyRC2_init).
Construct(t) ==
  /\ pc[t] = "idle" /\ ~alive[t] /\ gil = Nobody
  /\ alive' = [alive EXCEPT ![t] = TRUE]
  /\ stop_requested' = [stop_requested EXCEPT ![t] = FALSE]
  /\ asynch_interrupt' = [asynch_interrupt EXCEPT ![t] = FALSE]
  /\ unknown' = [unknown EXCEPT ![t] = TRUE]
  /\ interrupted' = [interrupted EXCEPT ![t] = FALSE]
  /\ UNCHANGED <<gil, signals, client, pc, watcher, solve_done, cut, asked>>

CallSolve(t) ==
  /\ Goto(t, "idle", "begin")
  /\ alive[t] /\ gil = Nobody
  /\ gil' = t
  /\ g_sigint_seen' = FALSE
  /\ handler' = "rc2" /\ g_prev_sigint' = handler /\ g_sigint_installed' = TRUE
  /\ solve_done' = [solve_done EXCEPT ![t] = FALSE]
  /\ watcher' = [watcher EXCEPT ![t] = "poll"]
  /\ cut' = [cut EXCEPT ![t] = FALSE]
  /\ asked' = [asked EXCEPT ![t] = "no"]
  /\ UNCHANGED <<client, alive, flags, unknown, interrupted>>

ReleaseGil(t) ==
  /\ Goto(t, "begin", "clear")
  /\ gil' = Nobody
  /\ UNCHANGED <<signals, client, alive, watcher, solve_done, flags, search, asked>>

(***************************************************************************)
(* RC2StratifiedSolver::solve, without the GIL.                            *)
(***************************************************************************)
\* clear_stop_request, in two stores.
ClearStop(t) ==
  /\ Goto(t, "clear", "clearSat")
  /\ interrupted' = [interrupted EXCEPT ![t] = FALSE]
  /\ stop_requested' = [stop_requested EXCEPT ![t] = FALSE]
  /\ UNCHANGED <<gil, signals, client, alive, watcher, solve_done, asynch_interrupt,
                 unknown, cut, asked>>

\* Mutant: the SAT solver's flag is left as the last call left it.
ClearSatForgotten(t) ==
  /\ Goto(t, "clearSat", "check")
  /\ UNCHANGED <<gil, signals, client, alive, watcher, solve_done, flags, search, asked>>

ClearSat(t) ==
  /\ Goto(t, "clearSat", "check")
  /\ asynch_interrupt' = [asynch_interrupt EXCEPT ![t] = FALSE]
  /\ UNCHANGED <<gil, signals, client, alive, watcher, solve_done, stop_requested, search,
                 asked>>

\* Where the search asks stop_or_interrupted, and ends when the answer is yes.
Cut(t) ==
  /\ pc' = [pc EXCEPT ![t] = "end"]
  /\ interrupted' = [interrupted EXCEPT ![t] = TRUE]
  /\ cut' = [cut EXCEPT ![t] = TRUE]

Check(t) ==
  /\ pc[t] = "check"
  /\ \/ stop_requested[t] /\ Cut(t)
     \/ ~stop_requested[t] /\ Goto(t, "check", "query") /\ UNCHANGED <<interrupted, cut>>
  /\ UNCHANGED <<gil, signals, client, alive, watcher, solve_done, flags, unknown, asked>>

\* The SAT solver may answer in spite of its interrupt flag.
Query(t) ==
  /\ Goto(t, "query", "answered")
  /\ \E u \in {FALSE, asynch_interrupt[t]} : unknown' = [unknown EXCEPT ![t] = u]
  /\ UNCHANGED <<gil, signals, client, alive, watcher, solve_done, flags, interrupted, cut,
                 asked>>

\* stop_or_interrupted(true): a query without an answer ends the search as well.
Answered(t) ==
  /\ pc[t] = "answered"
  /\ \/ (stop_requested[t] \/ unknown[t]) /\ Cut(t) /\ UNCHANGED unknown
     \/ /\ ~stop_requested[t] /\ ~unknown[t]
        /\ Goto(t, "answered", "end")
        /\ UNCHANGED search
     \/ /\ ~stop_requested[t] /\ ~unknown[t]
        /\ Goto(t, "answered", "check")
        /\ \E u \in BOOLEAN : unknown' = [unknown EXCEPT ![t] = u] \* minimize_core
        /\ UNCHANGED <<interrupted, cut>>
  /\ UNCHANGED <<gil, signals, client, alive, watcher, solve_done, flags, asked>>

\* compute has returned; a stop request discards even a finished answer.  With
\* raise_on_abnormal, solve throws if the request that cut the search has been
\* cleared and status_ is INTERRUPTED still.  Which cuts leave it so (those at
\* the start of compute and after its first query) is not told apart.
End(t) ==
  /\ \/ Goto(t, "end", "ended")
     \/ cut[t] /\ ~stop_requested[t] /\ ~unknown[t] /\ Goto(t, "end", "raised")
  /\ interrupted' = [interrupted EXCEPT ![t] = @ \/ stop_requested[t] \/ unknown[t]]
  /\ UNCHANGED <<gil, signals, client, alive, watcher, solve_done, flags, unknown, cut, asked>>

(***************************************************************************)
(* m_solve again.                                                          *)
(***************************************************************************)
\* The thread is back in Python, with an answer or with an exception.
Back(t) == Goto(t, "ended", "join") \/ Goto(t, "raised", "catch")

\* Mutants: the thread does not wait for the GIL, and the watcher is not told.
AcquireGilTaken(t) ==
  /\ Back(t)
  /\ gil' = t
  /\ solve_done' = [solve_done EXCEPT ![t] = TRUE]
  /\ UNCHANGED <<signals, client, alive, watcher, flags, search, asked>>

AcquireGilUntold(t) ==
  /\ Back(t)
  /\ gil = Nobody
  /\ gil' = t
  /\ UNCHANGED <<signals, client, alive, watcher, solve_done, flags, search, asked>>

AcquireGil(t) ==
  /\ Back(t)
  /\ gil = Nobody
  /\ gil' = t
  /\ solve_done' = [solve_done EXCEPT ![t] = TRUE]
  /\ UNCHANGED <<signals, client, alive, watcher, flags, search, asked>>

\* restore_sigint_handler, and m_solve returns.
Leave(t, from) ==
  /\ Goto(t, from, "idle")
  /\ gil' = Nobody
  /\ handler' = IF g_sigint_installed THEN g_prev_sigint ELSE handler
  /\ g_sigint_installed' = FALSE
  /\ UNCHANGED <<g_prev_sigint, client, watcher, solve_done, flags, search, asked>>

\* An interrupted solver is deleted.
Report(t, discarded) ==
  /\ Leave(t, "join")
  /\ alive' = [alive EXCEPT ![t] = ~discarded]
  /\ UNCHANGED g_sigint_seen

\* Mutants: the watcher is not joined, and only Ctrl+C discards the solver.
JoinSkipped(t) == Report(t, g_sigint_seen \/ interrupted[t])

JoinTrusts(t) == watcher[t] = "off" /\ Report(t, g_sigint_seen)

Join(t) == watcher[t] = "off" /\ Report(t, g_sigint_seen \/ interrupted[t])

\* A RuntimeError leaves m_solve: the solver is kept, a Ctrl+C is forgotten.
Catch(t) ==
  /\ watcher[t] = "off"
  /\ Leave(t, "catch")
  /\ g_sigint_seen' = FALSE
  /\ UNCHANGED alive

(***************************************************************************)
(* The others.                                                             *)
(***************************************************************************)
Signal ==
  /\ handler = "rc2"
  /\ g_sigint_seen' = TRUE
  /\ UNCHANGED <<gil, handler, g_prev_sigint, g_sigint_installed, client, alive, pc, watcher,
                 solve_done, flags, search, asked>>

Watches(t, from, to) ==
  /\ watcher[t] = from
  /\ watcher' = [watcher EXCEPT ![t] = to]
  /\ UNCHANGED <<gil, signals, client, alive, pc, solve_done, search>>

\* One turn of the watcher's loop reads solve_done, then g_sigint_seen.
Poll(t) ==
  /\ Watches(t, "poll", IF solve_done[t] THEN "off" ELSE "look")
  /\ UNCHANGED <<flags, asked>>

Look(t) ==
  /\ Watches(t, "look", IF g_sigint_seen THEN "stop" ELSE "poll")
  /\ UNCHANGED <<flags, asked>>

\* request_stop, in two stores; the watcher makes one request and ends.
StopFlag(t) ==
  /\ stop_requested' = [stop_requested EXCEPT ![t] = TRUE]
  /\ asked' = [asked EXCEPT ![t] = "begun"]
  /\ UNCHANGED asynch_interrupt

InterruptSat(t) ==
  /\ asynch_interrupt' = [asynch_interrupt EXCEPT ![t] = TRUE]
  /\ asked' = [asked EXCEPT ![t] = "done"]
  /\ UNCHANGED stop_requested

WatcherStops(t) == Watches(t, "stop", "interrupt") /\ StopFlag(t)

WatcherInterrupts(t) == Watches(t, "interrupt", "off") /\ InterruptSat(t)

ClientCall(op, t) ==
  /\ t \in Shared
  /\ gil = Nobody /\ alive[t]
  /\ gil' = "client"
  /\ client' = [op |-> op, solver |-> t]
  /\ UNCHANGED <<signals, alive, pc, watcher, solve_done, search>>

ClientReturns(op, t) ==
  /\ client = [op |-> op, solver |-> t]
  /\ gil' = Nobody
  /\ client' = NoCall
  /\ UNCHANGED <<signals, alive, pc, watcher, solve_done, search>>

ClientStops(t) == ClientCall("stop", t) /\ StopFlag(t)

ClientInterrupts(t) == ClientReturns("stop", t) /\ InterruptSat(t)

ClientClearsStop(t) ==
  /\ ClientClears
  /\ ClientCall("clear", t)
  /\ stop_requested' = [stop_requested EXCEPT ![t] = FALSE]
  /\ UNCHANGED <<asynch_interrupt, asked>>

ClientClearsSat(t) ==
  /\ ClientReturns("clear", t)
  /\ asynch_interrupt' = [asynch_interrupt EXCEPT ![t] = FALSE]
  /\ UNCHANGED <<stop_requested, asked>>

Solve(t) ==
  \/ ReleaseGil(t) \/ ClearStop(t) \/ ClearSat(t) \/ Check(t) \/ Query(t) \/ Answered(t)
  \/ End(t) \/ Join(t) \/ Catch(t)

Watch(t) == Poll(t) \/ Look(t) \/ WatcherStops(t) \/ WatcherInterrupts(t)

ClientEnds(t) == ClientInterrupts(t) \/ ClientClearsSat(t)

BindingNext ==
  \/ Signal
  \/ \E t \in Thread : \/ Construct(t) \/ CallSolve(t) \/ Solve(t) \/ AcquireGil(t)
                       \/ Watch(t)
                       \/ ClientStops(t) \/ ClientClearsStop(t) \/ ClientEnds(t)

\* Threads are scheduled, a SAT query ends, and a thread that waits for the GIL
\* gets it although others take it in between.
Fairness ==
  \A t \in Thread : /\ WF_bindingVars(Solve(t)) /\ WF_bindingVars(Watch(t)) /\ WF_bindingVars(ClientEnds(t))
                    /\ SF_bindingVars(AcquireGil(t))

BindingSpec == BindingInit /\ [][BindingNext]_bindingVars /\ Fairness

(***************************************************************************)
(* Properties.                                                             *)
(***************************************************************************)
Ranges ==
  /\ gil \in Thread \cup {Nobody, "client"}
  /\ g_sigint_seen \in BOOLEAN /\ g_sigint_installed \in BOOLEAN
  /\ handler \in {"python", "rc2"} /\ g_prev_sigint \in {"python", "rc2"}
  /\ client \in [op : {"stop", "clear"}, solver : Thread] \cup {NoCall}
  /\ pc \in [Thread -> {"idle", "begin", "clear", "clearSat", "check", "query", "answered",
                        "end", "ended", "raised", "join", "catch"}]
  /\ watcher \in [Thread -> {"off", "poll", "look", "stop", "interrupt"}]
  /\ alive \in [Thread -> BOOLEAN] /\ solve_done \in [Thread -> BOOLEAN]
  /\ stop_requested \in [Thread -> BOOLEAN] /\ asynch_interrupt \in [Thread -> BOOLEAN]
  /\ unknown \in [Thread -> BOOLEAN] /\ interrupted \in [Thread -> BOOLEAN]
  /\ cut \in [Thread -> BOOLEAN]
  /\ asked \in [Thread -> {"no", "begun", "done"}]

\* Only the thread with the GIL is in the Python code.
GilIsHeld ==
  /\ client = NoCall <=> gil # "client"
  /\ \A t \in Thread : pc[t] \in {"begin", "join", "catch"} <=> gil = t

BindingTypeOK == Ranges /\ GilIsHeld

\* Nobody touches a solver that m_solve has deleted: not its watcher, not its
\* search, not a Python thread in the middle of request_stop or clear_stop.
NoUseAfterDelete ==
  \A t \in Thread :
    watcher[t] \in {"stop", "interrupt"} \/ pc[t] # "idle" \/ client.solver = t => alive[t]

\* A search that was cut short is never reported as an answer, even if the stop
\* request that cut it is cleared before solve looks again: a call that returns
\* without an exception of solve has discarded the solver.
CutIsNotAnswered ==
  [][\A t \in Thread : pc[t] = "join" /\ pc'[t] = "idle" /\ cut[t] => ~alive'[t]]_bindingVars

\* A call ends as interrupted only if somebody asked it to stop: neither a flag
\* of an earlier call nor an exhausted conflict budget does that.
InterruptedOnlyIfAsked ==
  \A t \in Thread : interrupted[t] /\ pc[t] # "idle" /\ pc[t] \notin {"begin", "clear"}
                      => asked[t] # "no"

Searching(t) == pc[t] \in {"check", "query", "answered", "end", "ended", "raised"}

\* A stop request that is not taken back ends the search, and the call returns.
StopEndsSearch ==
  \A t \in Thread : (Searching(t) /\ stop_requested[t]) ~> (pc[t] = "idle" \/ ~stop_requested[t])

\* "Request solver stop/interruption.": a call during which request_stop has
\* returned ends as interrupted.
StopIsHonoured ==
  [][\A t \in Thread : pc[t] = "end" /\ pc'[t] = "ended" /\ asked[t] = "done"
                         => interrupted'[t]]_bindingVars
=============================================================================
