------------------------------ MODULE BiOptSat ------------------------------
(***************************************************************************)
(* app/ipamirbioptsat: the Pareto front of two objectives with two solvers *)
(* that work in turn.  A MaxSAT solver minimizes the increasing objective  *)
(* under hard bounds on the decreasing one; a SAT solver then lowers the   *)
(* decreasing one at that value of the increasing one.  The bounds go      *)
(* through three totalizers, each encoded up to the largest bound it was   *)
(* told of: an output above that bound restricts nothing.                  *)
(*                                                                         *)
(* A solution is abstracted to its values <<inc, dec>>; the solvers answer *)
(* with any that their clauses and assumptions allow.                      *)
(***************************************************************************)
EXTENDS Integers

CONSTANTS
  Instances,  \* the instances, each the set of the values of its solutions
  IncSize     \* increasing.size()

\* Every literal of the increasing objective counts 1.
ASSUME BiOptSatAssumption ==
  /\ IncSize \in Nat
  /\ Instances \subseteq SUBSET ((0 .. IncSize) \X Nat)

None == -1    \* a totalizer that is not built

VARIABLES
  points,       \* the instance
  pc,           \* where bioptsat is: "maxsat", "bound", "sat", "print", "done"
  incBound,     \* the value of the increasing objective
  decBound,     \* the best value of the decreasing objective at it
  incTot,       \* upper of incTot: the increasing objective in the SAT solver
  decOptTot,    \* upper of decOptTot: the decreasing objective there
  decBoundTot,  \* upper of decBoundTot: the decreasing objective in the MaxSAT solver
  decUnits,     \* decOptTot's outputs that are false for good: the bounds
  incUnits,     \* decBoundTot's
  printed       \* the points printed

vars == <<points, pc, incBound, decBound, incTot, decOptTot, decBoundTot, decUnits,
          incUnits, printed>>

Init ==
  /\ points \in Instances
  /\ pc = "maxsat"
  /\ incBound = 0 /\ decBound = 0
  /\ incTot = None /\ decOptTot = None /\ decBoundTot = None
  /\ decUnits = {} /\ incUnits = {}
  /\ printed = {}

(***************************************************************************)
(* The solvers.                                                            *)
(***************************************************************************)
\* A false output k of a totalizer allows at most k, if k is encoded.
AtMost(value, k, upper) == k <= upper => value <= k

HardModels == {p \in points : \A k \in incUnits : AtMost(p[2], k, decBoundTot)}

Cheapest == {p \in HardModels : \A q \in HardModels : p[1] <= q[1]}

\* The increasing objective is bounded only where it could exceed the bound.
Fits(p) == incBound < IncSize => AtMost(p[1], incBound, incTot)

Lower == {p \in points : Fits(p) /\ \A k \in decUnits : AtMost(p[2], k, decOptTot)}

(***************************************************************************)
(* bioptsat.                                                               *)
(***************************************************************************)
MaxSatUnsat ==
  /\ pc = "maxsat"
  /\ HardModels = {}
  /\ pc' = "done"
  /\ UNCHANGED <<points, incBound, decBound, incTot, decOptTot, decBoundTot, decUnits,
                 incUnits, printed>>

\* A point with dec = 0 is printed at once.
MaxSatOptimal ==
  /\ pc = "maxsat"
  /\ \E p \in Cheapest :
       /\ incBound' = p[1]
       /\ decBound' = p[2]
       /\ IF p[2] = 0 THEN pc' = "done" /\ printed' = printed \cup {p}
                      ELSE pc' = "bound" /\ UNCHANGED printed
  /\ UNCHANGED <<points, incTot, decOptTot, decBoundTot, decUnits, incUnits>>

Built(upper, bound) == IF upper = None THEN bound ELSE upper

\* Mutant: incTot is built but not extended.
BuiltOnly(upper, bound) == Built(upper, bound)

\* Build, or updateUpper, which never lowers the bound.
BuiltOrExtended(upper, bound) == IF upper > bound THEN upper ELSE bound

\* Mutant: the first bound is one too low.
BoundSatTooLow ==
  /\ pc = "bound"
  /\ decOptTot' = Built(decOptTot, decBound)
  /\ decUnits' = decUnits \cup {IF decBound > 1 THEN decBound - 2 ELSE 0}
  /\ incTot' = BuiltOrExtended(incTot, incBound)
  /\ pc' = "sat"
  /\ UNCHANGED <<points, incBound, decBound, decBoundTot, incUnits, printed>>

\* The totalizers of the SAT solver, and the first bound it has to beat.
BoundSat ==
  /\ pc = "bound"
  /\ decOptTot' = Built(decOptTot, decBound)
  /\ decUnits' = decUnits \cup {decBound - 1}
  /\ incTot' = BuiltOrExtended(incTot, incBound)
  /\ pc' = "sat"
  /\ UNCHANGED <<points, incBound, decBound, decBoundTot, incUnits, printed>>

\* The outputs below the bound are read downwards to the first that is not false,
\* which outputs above the value of the solution may be as well.
SatImproves ==
  /\ pc = "sat"
  /\ \E p \in Lower :
       \E b \in p[2] .. decBound - 1 :
         /\ decBound' = b
         /\ IF b = 0 THEN pc' = "print" /\ UNCHANGED decUnits
                     ELSE decUnits' = decUnits \cup {b - 1} /\ UNCHANGED pc
  /\ UNCHANGED <<points, incBound, incTot, decOptTot, decBoundTot, incUnits, printed>>

SatUnsat ==
  /\ pc = "sat"
  /\ Lower = {}
  /\ pc' = "print"
  /\ UNCHANGED <<points, incBound, decBound, incTot, decOptTot, decBoundTot, decUnits,
                 incUnits, printed>>

\* Mutant: the bound allows the value just found.
PrintAndBoundIncluded ==
  /\ pc = "print"
  /\ printed' = printed \cup {<<incBound, decBound>>}
  /\ pc' = "maxsat"
  /\ decBoundTot' = Built(decBoundTot, decBound)
  /\ incUnits' = incUnits \cup {decBound}
  /\ UNCHANGED <<points, incBound, decBound, incTot, decOptTot, decUnits>>

PrintAndBound ==
  /\ pc = "print"
  /\ printed' = printed \cup {<<incBound, decBound>>}
  /\ IF decBound = 0
     THEN pc' = "done" /\ UNCHANGED <<decBoundTot, incUnits>>
     ELSE /\ pc' = "maxsat"
          /\ decBoundTot' = Built(decBoundTot, decBound)
          /\ incUnits' = incUnits \cup {decBound - 1}
  /\ UNCHANGED <<points, incBound, decBound, incTot, decOptTot, decUnits>>

Next ==
  \/ MaxSatUnsat
  \/ MaxSatOptimal
  \/ BoundSat
  \/ SatImproves
  \/ SatUnsat
  \/ PrintAndBound

\* The solvers answer every call.
Spec == Init /\ [][Next]_vars /\ WF_vars(Next)

-----------------------------------------------------------------------------
\* "Check if increasing objective value still fits": every solution of the SAT
\* solver costs exactly incBound, so that the point printed is one of the instance
\* (the assert of ipamirbioptsat.cpp:187, compiled out by the makefile's NDEBUG).
IncStaysPut == pc = "sat" => \A p \in Lower : p[1] = incBound

Promise == INSTANCE ParetoFront WITH Trivial <- 0, done <- (pc = "done")

\* Exactly the Pareto-optimal points are printed, in their order, whatever
\* solutions the two solvers choose.
PrintsFront == Promise!Spec

\* Every run ends.
RunEnds == <>(pc = "done")
=============================================================================
