------------------------ MODULE CoreTrailPartProofs ------------------------
(***************************************************************************)
(* The theorems of the two specifications beside CoreTrail.                *)
(*                                                                         *)
(* CoreGuided, which CoreTrail implements: for every set of assignments    *)
(* and every sequence of calls, a solver that is core-guided answers       *)
(* correctly.                                                              *)
(*                                                                         *)
(* PythonSolve, the binding through which Python calls core-trail: its     *)
(* safety properties, for any number of Python threads, each with a solver *)
(* of its own.  Every invariant has one step per action.                   *)
(***************************************************************************)
EXTENDS CoreGuided, PythonSolve, TLAPS

(***************************************************************************)
(* CoreGuided.                                                             *)
(***************************************************************************)
\* Every variable keeps its type.
LEMMA TypeCorrect == Spec => []TypeOK
<1>1. Init => TypeOK
  BY AmountAssumption DEF Init, TypeOK, Free
<1>2. TypeOK /\ [Next]_vars => TypeOK'
  <2> SUFFICES ASSUME TypeOK, [Next]_vars
               PROVE  TypeOK'
    OBVIOUS
  <2>1. CASE Defer
    BY <2>1 DEF TypeOK, Defer, Input
  <2>2. CASE Harden
    BY <2>2 DEF TypeOK, Harden, Input
  <2>3. CASE Declare
    BY <2>3 DEF TypeOK, Declare, Input
  <2>4. CASE Begin
    BY <2>4 DEF TypeOK, Begin
  <2>5. CASE Charge
    BY <2>5 DEF TypeOK, Charge
  <2>6. CASE Settle
    BY <2>6 DEF TypeOK, Settle, Return, Solutions
  <2>7. CASE Refute
    BY <2>7 DEF TypeOK, Refute, Return
  <2>8. CASE UNCHANGED vars
    BY <2>8 DEF TypeOK, vars
  <2> QED
    BY <2>1, <2>2, <2>3, <2>4, <2>5, <2>6, <2>7, <2>8 DEF Next
<1> QED
  BY <1>1, <1>2, PTL DEF Spec

\* What an assignment costs or owes, and the bound, are natural numbers.
LEMMA Amounts ==
  ASSUME TypeOK
  PROVE  /\ lb \in Nat
         /\ \A m \in Model : price[m] \in Nat /\ owed[m] \in Nat
  BY AmountAssumption DEF TypeOK

\* The invariant that carries the correctness from one call to the next: what
\* has been charged plus what a solution owes is its price.
THEOREM Exactness == Spec => []Exact
<1>1. Init => Exact
  <2> SUFFICES ASSUME Init, NEW m \in Model
               PROVE  lb + owed[m] = price[m]
    BY DEF Exact, Init, Solutions
  <2> QED
    BY DEF Init, Free
<1>2. TypeOK /\ TypeOK' /\ Exact /\ [Next]_vars => Exact'
  <2> SUFFICES ASSUME TypeOK, TypeOK', Exact, [Next]_vars,
                      NEW m \in Solutions'
               PROVE  lb' + owed'[m] = price'[m]
    BY DEF Exact
  <2>1. /\ m \in Model
        /\ lb \in Nat /\ price[m] \in Nat /\ owed[m] \in Nat
        /\ lb' \in Nat /\ price'[m] \in Nat /\ owed'[m] \in Nat
    BY AmountAssumption DEF TypeOK, Solutions
  <2>2. CASE Defer
    BY <2>2 DEF Exact, Defer, Input, Solutions
  <2>3. CASE Harden
    <3>1. m \in Solutions
      BY <2>3 DEF Harden, Input, Solutions
    <3> QED
      BY <2>3, <3>1 DEF Exact, Harden, Input
  <2>4. CASE Declare
    <3>1. lb + owed[m] = price[m]
      BY <2>4 DEF Exact, Declare, Input, Solutions
    <3>2. owed'[m] - owed[m] = price'[m] - price[m] /\ lb' = lb
      BY <2>1, <2>4 DEF Declare, Input
    <3> QED
      BY <2>1, <3>1, <3>2
  <2>5. CASE Begin
    BY <2>5 DEF Begin, Solutions
  <2>6. CASE Charge
    <3>1. m \in Solutions /\ price'[m] = price[m]
      BY <2>6 DEF Charge, Solutions
    <3>2. lb + owed[m] = price[m] /\ owed'[m] = owed[m] - (lb' - lb)
      BY <2>6, <3>1 DEF Exact, Charge
    <3> QED
      BY <2>1, <3>1, <3>2
  <2>7. CASE Settle \/ Refute
    BY <2>7 DEF Exact, Settle, Refute, Return, Solutions
  <2>8. CASE UNCHANGED vars
    BY <2>8 DEF Exact, vars, Solutions
  <2> QED
    BY <2>2, <2>3, <2>4, <2>5, <2>6, <2>7, <2>8 DEF Next
<1> QED
  BY <1>1, <1>2, TypeCorrect, PTL DEF Spec

\* Exactness makes the bound a lower bound: nothing owes less than nothing.
LEMMA LowerBound ==
  ASSUME TypeOK, Exact
  PROVE  \A m \in Solutions : lb <= price[m]
<1> TAKE m \in Solutions
<1>1. lb \in Nat /\ price[m] \in Nat /\ owed[m] \in Nat
  BY Amounts DEF Solutions, TypeOK
<1>2. lb + owed[m] = price[m]
  BY DEF Exact
<1> QED
  BY <1>1, <1>2

NoAnswerYet == phase = "search" => answer = "none"

\* While a call searches, nothing has been answered: a charge cannot make an
\* earlier answer wrong.
LEMMA NothingAnswered == Spec => []NoAnswerYet
<1>1. Init => NoAnswerYet
  BY DEF Init, NoAnswerYet
<1>2. NoAnswerYet /\ [Next]_vars => NoAnswerYet'
  BY DEF NoAnswerYet, Next, vars, Defer, Harden, Declare, Input, Begin, Charge, Settle,
         Refute, Return
<1> QED
  BY <1>1, <1>2, PTL DEF Spec

\* An answer given stays right until the client makes its next call: 30 comes
\* with a solution of the reported cost that nothing beats, 20 only when there
\* is none.
THEOREM Correctness == Spec => []AnswersAreRight
<1>1. Init => AnswersAreRight
  BY DEF Init, AnswersAreRight
<1>2. TypeOK /\ Exact /\ NoAnswerYet /\ AnswersAreRight /\ [Next]_vars => AnswersAreRight'
  <2> SUFFICES ASSUME TypeOK, Exact, NoAnswerYet, AnswersAreRight, [Next]_vars
               PROVE  AnswersAreRight'
    OBVIOUS
  <2>1. CASE Defer \/ Harden \/ Declare
    BY <2>1 DEF AnswersAreRight, Defer, Harden, Declare, Input
  <2>2. CASE Begin
    BY <2>2 DEF AnswersAreRight, Begin
  <2>3. CASE Charge
    BY <2>3 DEF Charge, AnswersAreRight, NoAnswerYet
  <2>4. CASE Settle
    <3>1. model' \in Solutions /\ owed[model'] = 0
      BY <2>4 DEF Settle
    <3>2. price[model'] = lb
      <4>1. lb + owed[model'] = price[model']
        BY <3>1 DEF Exact
      <4> QED
        BY <3>1, <4>1, Amounts DEF Solutions, TypeOK
    <3> QED
      BY <2>4, <3>1, <3>2, LowerBound DEF AnswersAreRight, Settle, Return, Solutions
  <2>5. CASE Refute
    BY <2>5 DEF AnswersAreRight, Refute, Return, Solutions
  <2>6. CASE UNCHANGED vars
    BY <2>6 DEF AnswersAreRight, vars, Solutions
  <2> QED
    BY <2>1, <2>2, <2>3, <2>4, <2>5, <2>6 DEF Next
<1> QED
  BY <1>1, <1>2, TypeCorrect, Exactness, NothingAnswered, PTL DEF Spec

(***************************************************************************)
(* PythonSolve.                                                            *)
(***************************************************************************)
\* Every variable keeps its type, and exactly the thread that holds the GIL is in
\* Python code: m_solve takes and releases it in pairs.
THEOREM Types == BindingSpec => []BindingTypeOK
<1>1. ASSUME BindingInit PROVE Ranges
  BY <1>1 DEF BindingInit, Ranges, NoCall, Nobody
<1>2. BindingInit => GilIsHeld
  BY PythonSolveAssumption DEF BindingInit, GilIsHeld, NoCall, Nobody
<1>3. BindingTypeOK /\ [BindingNext]_bindingVars => Ranges'
  <2> SUFFICES ASSUME BindingTypeOK, [BindingNext]_bindingVars
               PROVE  Ranges'
    OBVIOUS
  <2>1. CASE UNCHANGED bindingVars
    BY <2>1 DEF bindingVars, signals, flags, search, BindingTypeOK, Ranges
  <2>2. CASE Signal
    BY <2>2 DEF Signal, flags, search, BindingTypeOK, Ranges
  <2>3. ASSUME NEW t \in Thread, Construct(t)
         PROVE  Ranges'
    BY <2>3 DEF Construct, signals, Nobody, BindingTypeOK, Ranges
  <2>4. ASSUME NEW t \in Thread, CallSolve(t)
         PROVE  Ranges'
    BY <2>4 DEF CallSolve, Goto, flags, Nobody, BindingTypeOK, Ranges
  <2>5. ASSUME NEW t \in Thread, ReleaseGil(t)
         PROVE  Ranges'
    BY <2>5 DEF ReleaseGil, Goto, signals, flags, search, Nobody, BindingTypeOK, Ranges
  <2>6. ASSUME NEW t \in Thread, ClearStop(t)
         PROVE  Ranges'
    BY <2>6 DEF ClearStop, Goto, signals, BindingTypeOK, Ranges
  <2>7. ASSUME NEW t \in Thread, ClearSat(t)
         PROVE  Ranges'
    BY <2>7 DEF ClearSat, Goto, signals, search, BindingTypeOK, Ranges
  <2>8. ASSUME NEW t \in Thread, Check(t)
         PROVE  Ranges'
    BY <2>8 DEF Check, Goto, Cut, signals, flags, BindingTypeOK, Ranges
  <2>9. ASSUME NEW t \in Thread, Query(t)
         PROVE  Ranges'
    <3>1. PICK u \in {FALSE, asynch_interrupt[t]} : unknown' = [unknown EXCEPT ![t] = u]
      BY <2>9 DEF Query
    <3>2. u \in BOOLEAN
      BY DEF BindingTypeOK, Ranges
    <3>3. unknown' \in [Thread -> BOOLEAN]
      BY <3>1, <3>2 DEF BindingTypeOK, Ranges
    <3> QED
      BY <2>9, <3>3 DEF Query, Goto, signals, flags, BindingTypeOK, Ranges
  <2>10. ASSUME NEW t \in Thread, Answered(t)
         PROVE  Ranges'
    <3>1. pc' \in [Thread -> {"idle", "begin", "clear", "clearSat", "check", "query",
                              "answered", "end", "ended", "raised", "join", "catch"}]
      BY <2>10 DEF Answered, Goto, Cut, BindingTypeOK, Ranges
    <3>2. unknown' \in [Thread -> BOOLEAN]
      BY <2>10 DEF Answered, Cut, search, BindingTypeOK, Ranges
    <3>3. interrupted' \in [Thread -> BOOLEAN] /\ cut' \in [Thread -> BOOLEAN]
      BY <2>10 DEF Answered, Cut, search, BindingTypeOK, Ranges
    <3> QED
      BY <2>10, <3>1, <3>2, <3>3 DEF Answered, signals, flags, BindingTypeOK, Ranges
  <2>11. ASSUME NEW t \in Thread, End(t)
         PROVE  Ranges'
    BY <2>11 DEF End, Goto, signals, flags, BindingTypeOK, Ranges
  <2>12. ASSUME NEW t \in Thread, AcquireGil(t)
         PROVE  Ranges'
    BY <2>12 DEF AcquireGil, Back, Goto, signals, flags, search, Nobody, BindingTypeOK, Ranges
  <2>13. ASSUME NEW t \in Thread, Join(t)
         PROVE  Ranges'
    BY <2>13 DEF Join, Report, Leave, Goto, flags, search, Nobody, BindingTypeOK, Ranges
  <2>14. ASSUME NEW t \in Thread, Poll(t)
         PROVE  Ranges'
    BY <2>14 DEF Poll, Watches, flags, signals, search, BindingTypeOK, Ranges
  <2>15. ASSUME NEW t \in Thread, Look(t)
         PROVE  Ranges'
    BY <2>15 DEF Look, Watches, flags, signals, search, BindingTypeOK, Ranges
  <2>16. ASSUME NEW t \in Thread, WatcherStops(t)
         PROVE  Ranges'
    BY <2>16 DEF WatcherStops, Watches, StopFlag, signals, search, BindingTypeOK, Ranges
  <2>17. ASSUME NEW t \in Thread, WatcherInterrupts(t)
         PROVE  Ranges'
    BY <2>17 DEF WatcherInterrupts, Watches, InterruptSat, signals, search, BindingTypeOK,
       Ranges
  <2>18. ASSUME NEW t \in Thread, ClientStops(t)
         PROVE  Ranges'
    BY <2>18 DEF ClientStops, StopFlag, ClientCall, signals, search, Nobody, BindingTypeOK,
       Ranges
  <2>19. ASSUME NEW t \in Thread, ClientInterrupts(t)
         PROVE  Ranges'
    BY <2>19 DEF ClientInterrupts, InterruptSat, ClientReturns, signals, search,
       NoCall, Nobody, BindingTypeOK, Ranges
  <2>20. ASSUME NEW t \in Thread, ClientClearsStop(t)
         PROVE  Ranges'
    BY <2>20 DEF ClientClearsStop, ClientCall, signals, search, Nobody, BindingTypeOK, Ranges
  <2>21. ASSUME NEW t \in Thread, ClientClearsSat(t)
         PROVE  Ranges'
    BY <2>21 DEF ClientClearsSat, ClientReturns, signals, search, NoCall, Nobody,
       BindingTypeOK, Ranges
  <2>22. ASSUME NEW t \in Thread, Catch(t)
         PROVE  Ranges'
    BY <2>22 DEF Catch, Leave, Goto, flags, search, Nobody, BindingTypeOK, Ranges
  <2> QED
    BY <2>1, <2>2, <2>3, <2>4, <2>5, <2>6, <2>7, <2>8, <2>9, <2>10, <2>11, <2>12,
       <2>13, <2>14, <2>15, <2>16, <2>17, <2>18, <2>19, <2>20, <2>21, <2>22 DEF BindingNext, Solve,
       Watch, ClientEnds
<1>4. BindingTypeOK /\ [BindingNext]_bindingVars => GilIsHeld'
  <2> SUFFICES ASSUME BindingTypeOK, [BindingNext]_bindingVars
               PROVE  GilIsHeld'
    OBVIOUS
  <2>1. CASE UNCHANGED bindingVars
    BY <2>1 DEF bindingVars, signals, flags, search, BindingTypeOK, Ranges, GilIsHeld, Nobody,
       NoCall
  <2>2. CASE Signal
    BY <2>2 DEF Signal, flags, search, BindingTypeOK, Ranges, GilIsHeld, Nobody, NoCall
  <2>3. ASSUME NEW t \in Thread, Construct(t)
         PROVE  GilIsHeld'
    BY <2>3, PythonSolveAssumption DEF Construct, signals, Nobody, BindingTypeOK, Ranges,
       GilIsHeld, NoCall
  <2>4. ASSUME NEW t \in Thread, CallSolve(t)
         PROVE  GilIsHeld'
    BY <2>4, PythonSolveAssumption DEF CallSolve, Goto, flags, Nobody, BindingTypeOK, Ranges,
       GilIsHeld, NoCall
  <2>5. ASSUME NEW t \in Thread, ReleaseGil(t)
         PROVE  GilIsHeld'
    BY <2>5, PythonSolveAssumption DEF ReleaseGil, Goto, signals, flags, search,
       Nobody, BindingTypeOK, Ranges, GilIsHeld, NoCall
  <2>6. ASSUME NEW t \in Thread, ClearStop(t)
         PROVE  GilIsHeld'
    BY <2>6, PythonSolveAssumption DEF ClearStop, Goto, signals, BindingTypeOK, Ranges,
       GilIsHeld, Nobody, NoCall
  <2>7. ASSUME NEW t \in Thread, ClearSat(t)
         PROVE  GilIsHeld'
    BY <2>7, PythonSolveAssumption DEF ClearSat, Goto, signals, search, BindingTypeOK,
       Ranges, GilIsHeld, Nobody, NoCall
  <2>8. ASSUME NEW t \in Thread, Check(t)
         PROVE  GilIsHeld'
    BY <2>8, PythonSolveAssumption DEF Check, Goto, Cut, signals, flags, BindingTypeOK,
       Ranges, GilIsHeld, Nobody, NoCall
  <2>9. ASSUME NEW t \in Thread, Query(t)
         PROVE  GilIsHeld'
    BY <2>9, PythonSolveAssumption DEF Query, Goto, signals, flags, BindingTypeOK, Ranges,
       GilIsHeld, Nobody, NoCall
  <2>10. ASSUME NEW t \in Thread, Answered(t)
         PROVE  GilIsHeld'
    BY <2>10, PythonSolveAssumption DEF Answered, Goto, Cut, signals, flags, search,
       BindingTypeOK, Ranges, GilIsHeld, Nobody, NoCall
  <2>11. ASSUME NEW t \in Thread, End(t)
         PROVE  GilIsHeld'
    BY <2>11, PythonSolveAssumption DEF End, Goto, signals, flags, BindingTypeOK, Ranges,
       GilIsHeld, Nobody, NoCall
  <2>12. ASSUME NEW t \in Thread, AcquireGil(t)
         PROVE  GilIsHeld'
    BY <2>12, PythonSolveAssumption DEF AcquireGil, Back, Goto, signals, flags, search,
       Nobody, BindingTypeOK, Ranges, GilIsHeld, NoCall
  <2>13. ASSUME NEW t \in Thread, Join(t)
         PROVE  GilIsHeld'
    BY <2>13, PythonSolveAssumption DEF Join, Report, Leave, Goto, flags, search, Nobody,
       BindingTypeOK, Ranges, GilIsHeld, NoCall
  <2>14. ASSUME NEW t \in Thread, Poll(t)
         PROVE  GilIsHeld'
    BY <2>14, PythonSolveAssumption DEF Poll, Watches, flags, signals, search, BindingTypeOK,
       Ranges, GilIsHeld, Nobody, NoCall
  <2>15. ASSUME NEW t \in Thread, Look(t)
         PROVE  GilIsHeld'
    BY <2>15, PythonSolveAssumption DEF Look, Watches, flags, signals, search, BindingTypeOK,
       Ranges, GilIsHeld, Nobody, NoCall
  <2>16. ASSUME NEW t \in Thread, WatcherStops(t)
         PROVE  GilIsHeld'
    BY <2>16, PythonSolveAssumption DEF WatcherStops, Watches, StopFlag, signals,
       search, BindingTypeOK, Ranges, GilIsHeld, Nobody, NoCall
  <2>17. ASSUME NEW t \in Thread, WatcherInterrupts(t)
         PROVE  GilIsHeld'
    BY <2>17, PythonSolveAssumption DEF WatcherInterrupts, Watches, InterruptSat,
       signals, search, BindingTypeOK, Ranges, GilIsHeld, Nobody, NoCall
  <2>18. ASSUME NEW t \in Thread, ClientStops(t)
         PROVE  GilIsHeld'
    BY <2>18, PythonSolveAssumption DEF ClientStops, StopFlag, ClientCall, signals,
       search, Nobody, BindingTypeOK, Ranges, GilIsHeld, NoCall
  <2>19. ASSUME NEW t \in Thread, ClientInterrupts(t)
         PROVE  GilIsHeld'
    BY <2>19, PythonSolveAssumption DEF ClientInterrupts, InterruptSat, ClientReturns,
       signals, search, NoCall, Nobody, BindingTypeOK, Ranges, GilIsHeld
  <2>20. ASSUME NEW t \in Thread, ClientClearsStop(t)
         PROVE  GilIsHeld'
    BY <2>20, PythonSolveAssumption DEF ClientClearsStop, ClientCall, signals, search,
       Nobody, BindingTypeOK, Ranges, GilIsHeld, NoCall
  <2>21. ASSUME NEW t \in Thread, ClientClearsSat(t)
         PROVE  GilIsHeld'
    BY <2>21, PythonSolveAssumption DEF ClientClearsSat, ClientReturns, signals,
       search, NoCall, Nobody, BindingTypeOK, Ranges, GilIsHeld
  <2>22. ASSUME NEW t \in Thread, Catch(t)
         PROVE  GilIsHeld'
    BY <2>22, PythonSolveAssumption DEF Catch, Leave, Goto, flags, search, Nobody,
       BindingTypeOK, Ranges, GilIsHeld, NoCall
  <2> QED
    BY <2>1, <2>2, <2>3, <2>4, <2>5, <2>6, <2>7, <2>8, <2>9, <2>10, <2>11, <2>12,
       <2>13, <2>14, <2>15, <2>16, <2>17, <2>18, <2>19, <2>20, <2>21, <2>22 DEF BindingNext, Solve,
       Watch, ClientEnds
<1> QED
  BY <1>1, <1>2, <1>3, <1>4, PTL DEF BindingSpec, BindingTypeOK

Others(t) == Watch(t) \/ ClientStops(t) \/ ClientClearsStop(t) \/ ClientEnds(t)

\* The watchers and the other Python threads only move the flags and the GIL.
LEMMA OthersLeave ==
  ASSUME NEW t \in Thread, Others(t)
  PROVE  UNCHANGED <<g_sigint_seen, alive, pc, solve_done, unknown, interrupted, cut>>
BY DEF Others, Watch, Poll, Look, WatcherStops, WatcherInterrupts, Watches, ClientStops,
   ClientClearsStop, ClientEnds, ClientInterrupts, ClientClearsSat, ClientCall, ClientReturns,
   signals, search

\* A call joins its watcher before it ends, and needs a solver to begin with.
WatcherIsJoined ==
  /\ \A t \in Thread : watcher[t] # "off" => pc[t] # "idle"
  /\ \A t \in Thread : pc[t] # "idle" => alive[t]
  /\ \A t \in Thread : client.solver = t => alive[t]

\* What keeps the solver from being deleted under anybody's feet: the thread that
\* deletes it has joined its watcher and holds the GIL, so nobody else is in the
\* middle of request_stop (module.cc, 472-486).
LEMMA Joined == BindingSpec => []WatcherIsJoined
<1>1. BindingInit => WatcherIsJoined
  BY PythonSolveAssumption DEF BindingInit, WatcherIsJoined, NoCall, Nobody
<1>2. BindingTypeOK /\ WatcherIsJoined /\ [BindingNext]_bindingVars => WatcherIsJoined'
  <2> SUFFICES ASSUME BindingTypeOK, WatcherIsJoined, [BindingNext]_bindingVars
               PROVE  WatcherIsJoined'
    OBVIOUS
  <2>1. CASE UNCHANGED bindingVars
    BY <2>1 DEF bindingVars, signals, flags, search, BindingTypeOK, Ranges, GilIsHeld,
       WatcherIsJoined, Nobody, NoCall
  <2>2. CASE Signal
    BY <2>2 DEF Signal, flags, search, BindingTypeOK, Ranges, GilIsHeld, WatcherIsJoined,
       Nobody, NoCall
  <2>3. ASSUME NEW t \in Thread, Construct(t)
         PROVE  WatcherIsJoined'
    BY <2>3, PythonSolveAssumption DEF Construct, signals, Nobody, BindingTypeOK, Ranges,
       GilIsHeld, WatcherIsJoined, NoCall
  <2>4. ASSUME NEW t \in Thread, CallSolve(t)
         PROVE  WatcherIsJoined'
    BY <2>4, PythonSolveAssumption DEF CallSolve, Goto, flags, Nobody, BindingTypeOK, Ranges,
       GilIsHeld, WatcherIsJoined, NoCall
  <2>5. ASSUME NEW t \in Thread, ReleaseGil(t)
         PROVE  WatcherIsJoined'
    BY <2>5, PythonSolveAssumption DEF ReleaseGil, Goto, signals, flags, search,
       Nobody, BindingTypeOK, Ranges, GilIsHeld, WatcherIsJoined, NoCall
  <2>6. ASSUME NEW t \in Thread, ClearStop(t)
         PROVE  WatcherIsJoined'
    BY <2>6, PythonSolveAssumption DEF ClearStop, Goto, signals, BindingTypeOK, Ranges,
       GilIsHeld, WatcherIsJoined, Nobody, NoCall
  <2>7. ASSUME NEW t \in Thread, ClearSat(t)
         PROVE  WatcherIsJoined'
    BY <2>7, PythonSolveAssumption DEF ClearSat, Goto, signals, search, BindingTypeOK,
       Ranges, GilIsHeld, WatcherIsJoined, Nobody, NoCall
  <2>8. ASSUME NEW t \in Thread, Check(t)
         PROVE  WatcherIsJoined'
    BY <2>8, PythonSolveAssumption DEF Check, Goto, Cut, signals, flags, BindingTypeOK,
       Ranges, GilIsHeld, WatcherIsJoined, Nobody, NoCall
  <2>9. ASSUME NEW t \in Thread, Query(t)
         PROVE  WatcherIsJoined'
    BY <2>9, PythonSolveAssumption DEF Query, Goto, signals, flags, BindingTypeOK, Ranges,
       GilIsHeld, WatcherIsJoined, Nobody, NoCall
  <2>10. ASSUME NEW t \in Thread, Answered(t)
         PROVE  WatcherIsJoined'
    BY <2>10, PythonSolveAssumption DEF Answered, Goto, Cut, signals, flags, search,
       BindingTypeOK, Ranges, GilIsHeld, WatcherIsJoined, Nobody, NoCall
  <2>11. ASSUME NEW t \in Thread, End(t)
         PROVE  WatcherIsJoined'
    BY <2>11, PythonSolveAssumption DEF End, Goto, signals, flags, BindingTypeOK, Ranges,
       GilIsHeld, WatcherIsJoined, Nobody, NoCall
  <2>12. ASSUME NEW t \in Thread, AcquireGil(t)
         PROVE  WatcherIsJoined'
    BY <2>12, PythonSolveAssumption DEF AcquireGil, Back, Goto, signals, flags, search,
       Nobody, BindingTypeOK, Ranges, GilIsHeld, WatcherIsJoined, NoCall
  <2>13. ASSUME NEW t \in Thread, Join(t)
         PROVE  WatcherIsJoined'
    BY <2>13, PythonSolveAssumption DEF Join, Report, Leave, Goto, flags, search, Nobody,
       BindingTypeOK, Ranges, GilIsHeld, WatcherIsJoined, NoCall
  <2>14. ASSUME NEW t \in Thread, Poll(t)
         PROVE  WatcherIsJoined'
    BY <2>14, PythonSolveAssumption DEF Poll, Watches, flags, signals, search, BindingTypeOK,
       Ranges, GilIsHeld, WatcherIsJoined, Nobody, NoCall
  <2>15. ASSUME NEW t \in Thread, Look(t)
         PROVE  WatcherIsJoined'
    BY <2>15, PythonSolveAssumption DEF Look, Watches, flags, signals, search, BindingTypeOK,
       Ranges, GilIsHeld, WatcherIsJoined, Nobody, NoCall
  <2>16. ASSUME NEW t \in Thread, WatcherStops(t)
         PROVE  WatcherIsJoined'
    BY <2>16, PythonSolveAssumption DEF WatcherStops, Watches, StopFlag, signals,
       search, BindingTypeOK, Ranges, GilIsHeld, WatcherIsJoined, Nobody, NoCall
  <2>17. ASSUME NEW t \in Thread, WatcherInterrupts(t)
         PROVE  WatcherIsJoined'
    BY <2>17, PythonSolveAssumption DEF WatcherInterrupts, Watches, InterruptSat,
       signals, search, BindingTypeOK, Ranges, GilIsHeld, WatcherIsJoined, Nobody, NoCall
  <2>18. ASSUME NEW t \in Thread, ClientStops(t)
         PROVE  WatcherIsJoined'
    BY <2>18, PythonSolveAssumption DEF ClientStops, StopFlag, ClientCall, signals,
       search, Nobody, BindingTypeOK, Ranges, GilIsHeld, WatcherIsJoined, NoCall
  <2>19. ASSUME NEW t \in Thread, ClientInterrupts(t)
         PROVE  WatcherIsJoined'
    BY <2>19, PythonSolveAssumption DEF ClientInterrupts, InterruptSat, ClientReturns,
       signals, search, NoCall, Nobody, BindingTypeOK, Ranges, GilIsHeld, WatcherIsJoined
  <2>20. ASSUME NEW t \in Thread, ClientClearsStop(t)
         PROVE  WatcherIsJoined'
    BY <2>20, PythonSolveAssumption DEF ClientClearsStop, ClientCall, signals, search,
       Nobody, BindingTypeOK, Ranges, GilIsHeld, WatcherIsJoined, NoCall
  <2>21. ASSUME NEW t \in Thread, ClientClearsSat(t)
         PROVE  WatcherIsJoined'
    BY <2>21, PythonSolveAssumption DEF ClientClearsSat, ClientReturns, signals,
       search, NoCall, Nobody, BindingTypeOK, Ranges, GilIsHeld, WatcherIsJoined
  <2>22. ASSUME NEW t \in Thread, Catch(t)
         PROVE  WatcherIsJoined'
    BY <2>22, PythonSolveAssumption DEF Catch, Leave, Goto, flags, search, Nobody,
       BindingTypeOK, Ranges, GilIsHeld, WatcherIsJoined, NoCall
  <2> QED
    BY <2>1, <2>2, <2>3, <2>4, <2>5, <2>6, <2>7, <2>8, <2>9, <2>10, <2>11, <2>12,
       <2>13, <2>14, <2>15, <2>16, <2>17, <2>18, <2>19, <2>20, <2>21, <2>22 DEF BindingNext, Solve,
       Watch, ClientEnds
<1> QED
  BY <1>1, <1>2, Types, PTL DEF BindingSpec

\* Nobody touches a solver that m_solve has deleted.
THEOREM NoUse == BindingSpec => []NoUseAfterDelete
<1>1. WatcherIsJoined /\ BindingTypeOK => NoUseAfterDelete
  BY DEF WatcherIsJoined, NoUseAfterDelete, BindingTypeOK, Ranges
<1> QED
  BY <1>1, Joined, Types, PTL

\* A search that was cut knows it until the call ends.
CutIsRemembered ==
  \A t \in Thread : cut[t] /\ pc[t] # "idle" =>
    pc[t] \in {"end", "ended", "raised", "join", "catch"} /\ interrupted[t]

\* interrupted_last_solve_ does not depend on the stop request, which may be
\* cleared before solve asks again (rc2_solver.cc, 199-211 and 1790-1802).
LEMMA Remembered == BindingSpec => []CutIsRemembered
<1>1. BindingInit => CutIsRemembered
  BY DEF BindingInit, CutIsRemembered
<1>2. BindingTypeOK /\ CutIsRemembered /\ [BindingNext]_bindingVars => CutIsRemembered'
  <2> SUFFICES ASSUME BindingTypeOK, CutIsRemembered, [BindingNext]_bindingVars
               PROVE  CutIsRemembered'
    OBVIOUS
  <2>1. CASE UNCHANGED bindingVars
    BY <2>1 DEF bindingVars, signals, flags, search, BindingTypeOK, Ranges, CutIsRemembered
  <2>2. CASE Signal
    BY <2>2 DEF Signal, flags, search, BindingTypeOK, Ranges, CutIsRemembered
  <2>3. ASSUME NEW t \in Thread, Construct(t)
         PROVE  CutIsRemembered'
    BY <2>3 DEF Construct, signals, Nobody, BindingTypeOK, Ranges, CutIsRemembered
  <2>4. ASSUME NEW t \in Thread, CallSolve(t)
         PROVE  CutIsRemembered'
    BY <2>4 DEF CallSolve, Goto, flags, Nobody, BindingTypeOK, Ranges, CutIsRemembered
  <2>5. ASSUME NEW t \in Thread, ReleaseGil(t)
         PROVE  CutIsRemembered'
    BY <2>5 DEF ReleaseGil, Goto, signals, flags, search, Nobody, BindingTypeOK, Ranges,
       CutIsRemembered
  <2>6. ASSUME NEW t \in Thread, ClearStop(t)
         PROVE  CutIsRemembered'
    BY <2>6 DEF ClearStop, Goto, signals, BindingTypeOK, Ranges, CutIsRemembered
  <2>7. ASSUME NEW t \in Thread, ClearSat(t)
         PROVE  CutIsRemembered'
    BY <2>7 DEF ClearSat, Goto, signals, search, BindingTypeOK, Ranges, CutIsRemembered
  <2>8. ASSUME NEW t \in Thread, Check(t)
         PROVE  CutIsRemembered'
    BY <2>8 DEF Check, Goto, Cut, signals, flags, BindingTypeOK, Ranges, CutIsRemembered
  <2>9. ASSUME NEW t \in Thread, Query(t)
         PROVE  CutIsRemembered'
    BY <2>9 DEF Query, Goto, signals, flags, BindingTypeOK, Ranges, CutIsRemembered
  <2>10. ASSUME NEW t \in Thread, Answered(t)
         PROVE  CutIsRemembered'
    BY <2>10 DEF Answered, Goto, Cut, signals, flags, search, BindingTypeOK, Ranges,
       CutIsRemembered
  <2>11. ASSUME NEW t \in Thread, End(t)
         PROVE  CutIsRemembered'
    BY <2>11 DEF End, Goto, signals, flags, BindingTypeOK, Ranges, CutIsRemembered
  <2>12. ASSUME NEW t \in Thread, AcquireGil(t)
         PROVE  CutIsRemembered'
    BY <2>12 DEF AcquireGil, Back, Goto, signals, flags, search, Nobody, BindingTypeOK, Ranges,
       CutIsRemembered
  <2>13. ASSUME NEW t \in Thread, Join(t)
         PROVE  CutIsRemembered'
    BY <2>13 DEF Join, Report, Leave, Goto, flags, search, Nobody, BindingTypeOK, Ranges,
       CutIsRemembered
  <2>14. ASSUME NEW t \in Thread, Others(t)
         PROVE  CutIsRemembered'
    BY <2>14, OthersLeave DEF CutIsRemembered
  <2>15. ASSUME NEW t \in Thread, Catch(t)
         PROVE  CutIsRemembered'
    BY <2>15 DEF Catch, Leave, Goto, flags, search, Nobody, BindingTypeOK, Ranges,
       CutIsRemembered
  <2> QED
    BY <2>1, <2>2, <2>3, <2>4, <2>5, <2>6, <2>7, <2>8, <2>9, <2>10, <2>11, <2>12,
       <2>13, <2>14, <2>15 DEF BindingNext, Solve, Others
<1> QED
  BY <1>1, <1>2, Types, PTL DEF BindingSpec

\* A search that was cut short is never reported as an answer.
THEOREM NotAnswered == BindingSpec => CutIsNotAnswered
<1>1. BindingTypeOK /\ CutIsRemembered /\ [BindingNext]_bindingVars
        => [\A t \in Thread : pc[t] = "join" /\ pc'[t] = "idle" /\ cut[t] => ~alive'[t]]_bindingVars
  <2> SUFFICES ASSUME BindingTypeOK, CutIsRemembered, BindingNext,
                      NEW t \in Thread, pc[t] = "join", pc'[t] = "idle", cut[t]
               PROVE  ~alive'[t]
    BY DEF bindingVars
  <2>1. interrupted[t]
    BY DEF CutIsRemembered
  <2>2. PICK u \in Thread : Others(u) \/ Construct(u) \/ CallSolve(u) \/ Solve(u) \/ AcquireGil(u)
    BY DEF BindingNext, Others, Signal
  <2>3. ~Others(u)
    BY OthersLeave
  <2>4. Join(t)
    BY <2>2, <2>3 DEF Solve, Construct, CallSolve, ReleaseGil, ClearStop, ClearSat, Check, Cut,
       Query, Answered, End, AcquireGil, Back, Join, Report, Catch, Leave, Goto, BindingTypeOK,
       Ranges
  <2> QED
    BY <2>1, <2>4 DEF Join, Report, BindingTypeOK, Ranges
<1> QED
  BY <1>1, Remembered, Types, PTL DEF BindingSpec, CutIsNotAnswered

\* Where a call stands, a flag that is set has been set for it.
FlagsAreAsked ==
  \A t \in Thread :
    /\ pc[t] \in {"clearSat", "check", "query", "answered", "end", "ended", "raised", "join", "catch"}
         => (stop_requested[t] \/ interrupted[t] => asked[t] # "no")
    /\ pc[t] \in {"check", "query", "answered", "end", "ended", "raised", "join", "catch"}
         => (asynch_interrupt[t] => asked[t] # "no")
    /\ pc[t] \in {"answered", "end"} /\ unknown[t] => asked[t] # "no"

\* Neither a flag of an earlier call nor the conflict budget of minimize_core
\* survives to the place where solve looks at it (clear_stop_request, and the
\* query of the main loop that follows minimize_core).
LEMMA FlagsAsked == BindingSpec => []FlagsAreAsked
<1>1. BindingInit => FlagsAreAsked
  BY DEF BindingInit, FlagsAreAsked
<1>2. BindingTypeOK /\ FlagsAreAsked /\ [BindingNext]_bindingVars => FlagsAreAsked'
  <2> SUFFICES ASSUME BindingTypeOK, FlagsAreAsked, [BindingNext]_bindingVars
               PROVE  FlagsAreAsked'
    OBVIOUS
  <2>1. CASE UNCHANGED bindingVars
    BY <2>1 DEF bindingVars, signals, flags, search, BindingTypeOK, Ranges, FlagsAreAsked
  <2>2. CASE Signal
    BY <2>2 DEF Signal, flags, search, BindingTypeOK, Ranges, FlagsAreAsked
  <2>3. ASSUME NEW t \in Thread, Construct(t)
         PROVE  FlagsAreAsked'
    BY <2>3 DEF Construct, signals, Nobody, BindingTypeOK, Ranges, FlagsAreAsked
  <2>4. ASSUME NEW t \in Thread, CallSolve(t)
         PROVE  FlagsAreAsked'
    BY <2>4 DEF CallSolve, Goto, flags, Nobody, BindingTypeOK, Ranges, FlagsAreAsked
  <2>5. ASSUME NEW t \in Thread, ReleaseGil(t)
         PROVE  FlagsAreAsked'
    BY <2>5 DEF ReleaseGil, Goto, signals, flags, search, Nobody, BindingTypeOK, Ranges,
       FlagsAreAsked
  <2>6. ASSUME NEW t \in Thread, ClearStop(t)
         PROVE  FlagsAreAsked'
    BY <2>6 DEF ClearStop, Goto, signals, BindingTypeOK, Ranges, FlagsAreAsked
  <2>7. ASSUME NEW t \in Thread, ClearSat(t)
         PROVE  FlagsAreAsked'
    BY <2>7 DEF ClearSat, Goto, signals, search, BindingTypeOK, Ranges, FlagsAreAsked
  <2>8. ASSUME NEW t \in Thread, Check(t)
         PROVE  FlagsAreAsked'
    BY <2>8 DEF Check, Goto, Cut, signals, flags, BindingTypeOK, Ranges, FlagsAreAsked
  <2>9. ASSUME NEW t \in Thread, Query(t)
         PROVE  FlagsAreAsked'
    BY <2>9 DEF Query, Goto, signals, flags, BindingTypeOK, Ranges, FlagsAreAsked
  <2>10. ASSUME NEW t \in Thread, Answered(t)
         PROVE  FlagsAreAsked'
    BY <2>10 DEF Answered, Goto, Cut, signals, flags, search, BindingTypeOK, Ranges,
       FlagsAreAsked
  <2>11. ASSUME NEW t \in Thread, End(t)
         PROVE  FlagsAreAsked'
    BY <2>11 DEF End, Goto, signals, flags, BindingTypeOK, Ranges, FlagsAreAsked
  <2>12. ASSUME NEW t \in Thread, AcquireGil(t)
         PROVE  FlagsAreAsked'
    BY <2>12 DEF AcquireGil, Back, Goto, signals, flags, search, Nobody, BindingTypeOK, Ranges,
       FlagsAreAsked
  <2>13. ASSUME NEW t \in Thread, Join(t)
         PROVE  FlagsAreAsked'
    BY <2>13 DEF Join, Report, Leave, Goto, flags, search, Nobody, BindingTypeOK, Ranges,
       FlagsAreAsked
  <2>14. ASSUME NEW t \in Thread, Poll(t)
         PROVE  FlagsAreAsked'
    BY <2>14 DEF Poll, Watches, flags, signals, search, BindingTypeOK, Ranges, FlagsAreAsked
  <2>15. ASSUME NEW t \in Thread, Look(t)
         PROVE  FlagsAreAsked'
    BY <2>15 DEF Look, Watches, flags, signals, search, BindingTypeOK, Ranges, FlagsAreAsked
  <2>16. ASSUME NEW t \in Thread, WatcherStops(t)
         PROVE  FlagsAreAsked'
    BY <2>16 DEF WatcherStops, Watches, StopFlag, signals, search, BindingTypeOK, Ranges,
       FlagsAreAsked
  <2>17. ASSUME NEW t \in Thread, WatcherInterrupts(t)
         PROVE  FlagsAreAsked'
    BY <2>17 DEF WatcherInterrupts, Watches, InterruptSat, signals, search, BindingTypeOK,
       Ranges, FlagsAreAsked
  <2>18. ASSUME NEW t \in Thread, ClientStops(t)
         PROVE  FlagsAreAsked'
    BY <2>18 DEF ClientStops, StopFlag, ClientCall, signals, search, Nobody, BindingTypeOK,
       Ranges, FlagsAreAsked
  <2>19. ASSUME NEW t \in Thread, ClientInterrupts(t)
         PROVE  FlagsAreAsked'
    BY <2>19 DEF ClientInterrupts, InterruptSat, ClientReturns, signals, search,
       NoCall, Nobody, BindingTypeOK, Ranges, FlagsAreAsked
  <2>20. ASSUME NEW t \in Thread, ClientClearsStop(t)
         PROVE  FlagsAreAsked'
    BY <2>20 DEF ClientClearsStop, ClientCall, signals, search, Nobody, BindingTypeOK,
       Ranges, FlagsAreAsked
  <2>21. ASSUME NEW t \in Thread, ClientClearsSat(t)
         PROVE  FlagsAreAsked'
    BY <2>21 DEF ClientClearsSat, ClientReturns, signals, search, NoCall, Nobody,
       BindingTypeOK, Ranges, FlagsAreAsked
  <2>22. ASSUME NEW t \in Thread, Catch(t)
         PROVE  FlagsAreAsked'
    BY <2>22 DEF Catch, Leave, Goto, flags, search, Nobody, BindingTypeOK, Ranges,
       FlagsAreAsked
  <2> QED
    BY <2>1, <2>2, <2>3, <2>4, <2>5, <2>6, <2>7, <2>8, <2>9, <2>10, <2>11, <2>12,
       <2>13, <2>14, <2>15, <2>16, <2>17, <2>18, <2>19, <2>20, <2>21, <2>22 DEF BindingNext, Solve,
       Watch, ClientEnds
<1> QED
  BY <1>1, <1>2, Types, PTL DEF BindingSpec

\* A call ends as interrupted only if somebody asked it to stop.
THEOREM OnlyIfAsked == BindingSpec => []InterruptedOnlyIfAsked
<1>1. BindingTypeOK /\ FlagsAreAsked => InterruptedOnlyIfAsked
  BY DEF FlagsAreAsked, InterruptedOnlyIfAsked, BindingTypeOK, Ranges
<1> QED
  BY <1>1, FlagsAsked, Types, PTL
=============================================================================
