---------------------------- MODULE ParetoFront ----------------------------
(***************************************************************************)
(* What the bi-objective applications (app/ipamirbioptsat and              *)
(* app/ipamirmlicseesaw) promise: they print the Pareto-optimal points of  *)
(* their instance one by one in the order of the increasing objective, and *)
(* end when none is left or when a point as good as trivial was printed.   *)
(* BiOptSat and Seesaw implement this specification.                       *)
(***************************************************************************)
EXTENDS Integers

CONSTANT Trivial  \* no point is of interest after one whose dec is at most this

VARIABLES
  points,   \* the <<inc, dec>> values of the solutions of the instance
  printed,  \* the points printed so far
  done

vars == <<points, printed, done>>

Dominates(p, q) == p # q /\ p[1] <= q[1] /\ p[2] <= q[2]

Front == {p \in points : \A q \in points : ~Dominates(q, p)}

\* Nothing more needs to be printed.
Exhausted == Front \subseteq printed \/ \E p \in printed : p[2] <= Trivial

Init ==
  /\ points \subseteq Nat \X Nat
  /\ printed = {}
  /\ done = FALSE

PrintPoint ==
  /\ ~done /\ ~Exhausted
  /\ \E p \in Front \ printed :
       /\ \A q \in Front \ printed : p[1] <= q[1]
       /\ printed' = printed \cup {p}
  /\ UNCHANGED points

\* The last point may be printed and the end announced in one step.
Next ==
  \/ PrintPoint /\ done' \in {FALSE, Exhausted'}
  \/ ~done /\ Exhausted /\ done' = TRUE /\ UNCHANGED <<points, printed>>

Spec == Init /\ [][Next]_vars
=============================================================================
