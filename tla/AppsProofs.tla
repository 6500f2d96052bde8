------------------------------ MODULE AppsProofs ------------------------------
(***************************************************************************)
(* The applications answer right, for every set of instances.  The bi-     *)
(* objective ones print the Pareto front: ipamirbioptsat by an invariant   *)
(* that says what the bounds left in the two solvers mean between the      *)
(* rounds and within one, ipamirmlicseesaw by one that says what the cores *)
(* rule out.  ipamirextenf prints an optimum: no clause it adds rules out  *)
(* a framework that enforces the target, and the one it prints is one with *)
(* the fewest changes.                                                     *)
(***************************************************************************)
EXTENDS ParetoApps, ExtEnf, FiniteSetTheorems, WellFoundedInduction, TLAPS

-----------------------------------------------------------------------------
(***************************************************************************)
(* BiOptSat: the invariant.                                                *)
(***************************************************************************)
TypeOK ==
  /\ points \in SUBSET ((0 .. IncSize) \X Nat)
  /\ pc \in {"maxsat", "bound", "sat", "print", "done"}
  /\ incBound \in Nat /\ decBound \in Nat
  /\ {incTot, decOptTot, decBoundTot} \subseteq Nat \cup {None}
  /\ decUnits \in SUBSET Nat /\ incUnits \in SUBSET Nat

\* Every bound of the MaxSAT solver is encoded.
BoundsHold ==
  /\ \A k \in incUnits : k <= decBoundTot
  /\ decBoundTot # None => incUnits # {}

\* The points of the front that the bounds rule out are the points printed.
PrintedSoFar ==
  pc # "done" =>
    /\ printed = Promise!Front \ HardModels
    /\ \A p \in printed : p[2] > 0

\* Between two rounds the bounds of the MaxSAT solver are as tight as what the SAT
\* solver keeps of the rounds before, and its totalizer reaches as far.
BetweenRounds ==
  pc = "maxsat" =>
    /\ \A k \in decUnits : \E u \in incUnits : u <= k
    /\ decOptTot # None => \E u \in incUnits : u <= decOptTot

\* In a round, some solution with the least increasing value is as good as decBound,
\* and no bound of an earlier round excludes a better one.
InRound ==
  pc \in {"bound", "sat", "print"} =>
    /\ \A q \in HardModels : incBound <= q[1]
    /\ \E p \in HardModels : p[1] = incBound /\ p[2] <= decBound
    /\ \A k \in incUnits : decBound <= k
    /\ \A k \in decUnits : decBound - 1 <= k
    /\ decOptTot # None => decBound <= decOptTot
    /\ pc \in {"bound", "sat"} => decBound > 0
    /\ pc \in {"sat", "print"} => decOptTot # None

\* The SAT solver has to beat decBound, at the increasing value of the round.
Searching ==
  pc = "sat" =>
    /\ decBound - 1 \in decUnits
    /\ incBound <= incTot

\* The point about to be printed is a solution, and none is better.
Found ==
  pc = "print" =>
    /\ <<incBound, decBound>> \in points
    /\ \A q \in points : q[1] <= incBound => decBound <= q[2]

Inv == TypeOK /\ BoundsHold /\ PrintedSoFar /\ BetweenRounds /\ InRound /\ Searching /\ Found

-----------------------------------------------------------------------------
LEMMA PointType ==
  ASSUME TypeOK, NEW p \in points
  PROVE  p = <<p[1], p[2]>> /\ p[1] \in 0 .. IncSize /\ p[2] \in Nat
BY DEF TypeOK

\* What the MaxSAT solver answers with.
LEMMA HardModelsAre ==
  ASSUME TypeOK, BoundsHold
  PROVE  HardModels = {p \in points : \A k \in incUnits : p[2] <= k}
BY DEF HardModels, AtMost, BoundsHold

\* Every solution that the SAT solver may answer with is one of the MaxSAT solver's
\* too and lowers the decreasing objective; it costs exactly incBound.
LEMMA LowerIsBetter ==
  ASSUME Inv, pc = "sat", NEW p \in Lower
  PROVE  p \in HardModels /\ p[1] = incBound /\ p[2] < decBound
<1>1. p \in points /\ p[1] \in 0 .. IncSize /\ p[2] \in Nat
  BY PointType DEF Lower, Inv
<1>2. decBound \in Nat /\ incBound \in Nat /\ decOptTot \in Nat /\ decUnits \subseteq Nat
  BY DEF Inv, TypeOK, InRound
<1>3. p[2] <= decBound - 1
  BY <1>1, <1>2 DEF Lower, AtMost, Inv, Searching, InRound
<1>4. \A k \in incUnits : k \in Nat /\ decBound <= k
  BY DEF Inv, TypeOK, InRound
<1>5. p \in HardModels
  BY <1>1, <1>2, <1>3, <1>4, HardModelsAre DEF Inv
<1>6. incBound <= p[1]
  BY <1>5 DEF Inv, InRound
<1>7. p[1] <= incBound
  BY <1>1, <1>2, BiOptSatAssumption DEF Lower, Fits, AtMost, Inv, Searching
<1> QED
  BY <1>1, <1>2, <1>3, <1>5, <1>6, <1>7

\* A solution that is better is one the SAT solver may answer with.
LEMMA BetterIsLower ==
  ASSUME Inv, pc = "sat", NEW p \in points, p[1] <= incBound, p[2] < decBound
  PROVE  p \in Lower
<1>1. p[1] \in 0 .. IncSize /\ p[2] \in Nat /\ decBound \in Nat /\ decUnits \subseteq Nat
  BY PointType DEF Inv, TypeOK
<1>2. \A k \in decUnits : p[2] <= k
  BY <1>1 DEF Inv, InRound
<1> QED
  BY <1>2 DEF Lower, Fits, AtMost

\* IncStaysPut, from the invariant.
LEMMA InvIncStaysPut == Inv => IncStaysPut
BY LowerIsBetter DEF IncStaysPut

\* A solution of the MaxSAT solver that none of the cheapest beats is on the front.
LEMMA OnFront ==
  ASSUME TypeOK, BoundsHold, NEW p \in HardModels,
         \A q \in HardModels : p[1] <= q[1],
         \A q \in points : q[1] <= p[1] => p[2] <= q[2]
  PROVE  p \in Promise!Front
<1>1. p \in points
  BY DEF HardModels
<1>2. ASSUME NEW q \in points, q # p, q[1] <= p[1], q[2] <= p[2]
      PROVE  FALSE
  <2>1. /\ p = <<p[1], p[2]>> /\ p[1] \in 0 .. IncSize /\ p[2] \in Nat
        /\ q = <<q[1], q[2]>> /\ q[1] \in 0 .. IncSize /\ q[2] \in Nat
    BY <1>1, PointType
  <2>2. incUnits \subseteq Nat
    BY DEF TypeOK
  <2>3. q \in HardModels
    BY <1>1, <1>2, <2>1, <2>2, HardModelsAre
  <2>4. p[1] <= q[1] /\ p[2] <= q[2]
    BY <1>2, <2>3
  <2>5. p[1] = q[1] /\ p[2] = q[2]
    BY <1>2, <2>1, <2>4, BiOptSatAssumption
  <2> QED
    BY <1>2, <2>1, <2>5
<1> QED
  BY <1>1, <1>2 DEF Promise!Front, Promise!Dominates

\* Two points of which none dominates the other: the case split of the front when
\* the solutions with a decreasing value of at least d are ruled out.
LEMMA PrintedGrows ==
  ASSUME TypeOK, BoundsHold, NEW p \in HardModels, p[2] > 0,
         \A q \in HardModels : p[1] <= q[1],
         \A q \in points : q[1] <= p[1] => p[2] <= q[2]
  PROVE  {r \in Promise!Front : r \in HardModels => ~(r[2] <= p[2] - 1)}
           = (Promise!Front \ HardModels) \cup {p}
<1>1. p \in Promise!Front
  BY OnFront
<1>2. /\ p = <<p[1], p[2]>> /\ p[1] \in 0 .. IncSize /\ p[2] \in Nat
      /\ p \in points
  BY PointType DEF HardModels
<1>3. ASSUME NEW r \in Promise!Front, r \in HardModels, ~(r[2] <= p[2] - 1)
      PROVE  r = p
  <2>1. r \in points /\ r = <<r[1], r[2]>> /\ r[1] \in 0 .. IncSize /\ r[2] \in Nat
    BY PointType DEF Promise!Front
  <2>2. p[1] <= r[1] /\ p[2] <= r[2]
    BY <1>2, <1>3, <2>1
  <2> QED
    BY <1>2, <1>3, <2>1, <2>2 DEF Promise!Front, Promise!Dominates
<1>4. ~(p[2] <= p[2] - 1)
  BY <1>2
<1> QED
  BY <1>1, <1>3, <1>4

-----------------------------------------------------------------------------
LEMMA InvInit == Init => Inv
<1> SUFFICES ASSUME Init PROVE Inv
  OBVIOUS
<1>1. TypeOK
  BY BiOptSatAssumption DEF Init, TypeOK, None
<1>2. BoundsHold
  BY DEF Init, BoundsHold
<1>3. HardModels = points
  BY DEF Init, HardModels
<1>4. PrintedSoFar
  BY <1>3 DEF Init, PrintedSoFar, Promise!Front
<1>5. BetweenRounds /\ InRound /\ Searching /\ Found
  BY DEF Init, BetweenRounds, InRound, Searching, Found
<1> QED
  BY <1>1, <1>2, <1>4, <1>5 DEF Inv

\* The MaxSAT solver's formula is the same after a step that adds no bound to it.
LEMMA HardModelsStay ==
  ASSUME UNCHANGED <<points, decBoundTot, incUnits>>
  PROVE  HardModels' = HardModels /\ Promise!Front' = Promise!Front
BY DEF HardModels, AtMost, Promise!Front, Promise!Dominates

LEMMA InvMaxSatUnsat == Inv /\ MaxSatUnsat => Inv'
<1> SUFFICES ASSUME Inv, MaxSatUnsat PROVE Inv'
  OBVIOUS
<1> QED
  BY DEF Inv, MaxSatUnsat, TypeOK, BoundsHold, PrintedSoFar, BetweenRounds, InRound,
         Searching, Found

LEMMA InvMaxSatOptimal == Inv /\ MaxSatOptimal => Inv'
<1> SUFFICES ASSUME Inv, MaxSatOptimal PROVE Inv'
  OBVIOUS
<1>1. /\ pc = "maxsat" /\ TypeOK /\ BoundsHold
      /\ UNCHANGED <<points, incTot, decOptTot, decBoundTot, decUnits, incUnits>>
  BY DEF Inv, MaxSatOptimal
<1>2. PICK p \in Cheapest :
        /\ incBound' = p[1]
        /\ decBound' = p[2]
        /\ IF p[2] = 0 THEN pc' = "done" /\ printed' = printed \cup {p}
                       ELSE pc' = "bound" /\ UNCHANGED printed
  BY DEF MaxSatOptimal
<1>3. /\ p \in HardModels /\ \A q \in HardModels : p[1] <= q[1]
      /\ p \in points /\ p[1] \in 0 .. IncSize /\ p[2] \in Nat
  BY <1>1, PointType DEF Cheapest, HardModels
<1>4. TypeOK'
  BY <1>1, <1>2, <1>3, BiOptSatAssumption DEF TypeOK
<1>5. BoundsHold'
  BY <1>1 DEF BoundsHold
<1>6. HardModels' = HardModels /\ Promise!Front' = Promise!Front
  BY <1>1, HardModelsStay
<1>7. PrintedSoFar'
  BY <1>1, <1>2, <1>6 DEF Inv, PrintedSoFar
<1>8. \A k \in incUnits : p[2] <= k
  BY <1>1, <1>3, HardModelsAre
<1>9. \A k \in decUnits : p[2] - 1 <= k
  BY <1>1, <1>3, <1>8 DEF Inv, BetweenRounds, TypeOK
<1>10. decOptTot # None => p[2] <= decOptTot
  BY <1>1, <1>3, <1>8 DEF Inv, BetweenRounds, TypeOK
<1>11. InRound'
  BY <1>1, <1>2, <1>3, <1>6, <1>8, <1>9, <1>10 DEF InRound
<1>12. BetweenRounds' /\ Searching' /\ Found'
  BY <1>2 DEF BetweenRounds, Searching, Found
<1> QED
  BY <1>4, <1>5, <1>7, <1>11, <1>12 DEF Inv

LEMMA InvBoundSat == Inv /\ BoundSat => Inv'
<1> SUFFICES ASSUME Inv, BoundSat PROVE Inv'
  OBVIOUS
<1>1. /\ pc = "bound" /\ pc' = "sat" /\ TypeOK /\ BoundsHold /\ InRound
      /\ UNCHANGED <<points, incBound, decBound, decBoundTot, incUnits, printed>>
  BY DEF Inv, BoundSat
<1>2. decBound \in Nat /\ decBound > 0 /\ incBound \in Nat
  BY <1>1 DEF TypeOK, InRound
<1>3. incTot' \in Nat /\ incBound <= incTot'
  BY <1>1, <1>2 DEF BoundSat, BuiltOrExtended, TypeOK, None
<1>4. decOptTot' \in Nat /\ decBound <= decOptTot'
  BY <1>1, <1>2 DEF BoundSat, Built, TypeOK, InRound
<1>5. decUnits' = decUnits \cup {decBound - 1}
  BY DEF BoundSat
<1>6. TypeOK'
  BY <1>1, <1>2, <1>3, <1>4, <1>5 DEF TypeOK
<1>7. BoundsHold'
  BY <1>1 DEF BoundsHold
<1>8. HardModels' = HardModels /\ Promise!Front' = Promise!Front
  BY <1>1, HardModelsStay
<1>9. PrintedSoFar'
  BY <1>1, <1>8 DEF Inv, PrintedSoFar
<1>10. \A k \in decUnits' : decBound - 1 <= k
  BY <1>1, <1>2, <1>5 DEF InRound
<1>11. InRound'
  BY <1>1, <1>2, <1>4, <1>8, <1>10 DEF InRound, None
<1>12. BetweenRounds' /\ Searching' /\ Found'
  BY <1>1, <1>3, <1>5 DEF BetweenRounds, Searching, Found
<1> QED
  BY <1>6, <1>7, <1>9, <1>11, <1>12 DEF Inv

LEMMA InvSatImproves == Inv /\ SatImproves => Inv'
<1> SUFFICES ASSUME Inv, SatImproves PROVE Inv'
  OBVIOUS
<1>1. /\ pc = "sat" /\ TypeOK /\ BoundsHold /\ InRound
      /\ UNCHANGED <<points, incBound, incTot, decOptTot, decBoundTot, incUnits, printed>>
  BY DEF Inv, SatImproves
<1>2. PICK p \in Lower : \E b \in p[2] .. decBound - 1 :
        /\ decBound' = b
        /\ IF b = 0 THEN pc' = "print" /\ UNCHANGED decUnits
                    ELSE decUnits' = decUnits \cup {b - 1} /\ UNCHANGED pc
  BY DEF SatImproves
<1>3. PICK b \in p[2] .. decBound - 1 :
        /\ decBound' = b
        /\ IF b = 0 THEN pc' = "print" /\ UNCHANGED decUnits
                    ELSE decUnits' = decUnits \cup {b - 1} /\ UNCHANGED pc
  BY <1>2
<1>4. p \in HardModels /\ p[1] = incBound /\ p[2] < decBound
  BY <1>1, LowerIsBetter
<1>5. /\ p \in points /\ p = <<p[1], p[2]>> /\ p[2] \in Nat
      /\ decBound \in Nat /\ incBound \in Nat
  BY <1>1, PointType DEF Lower, TypeOK
<1>6. b \in Nat /\ p[2] <= b /\ b < decBound
  BY <1>3, <1>5
<1>7. TypeOK'
  <2>1. decUnits' \in SUBSET Nat /\ pc' \in {"sat", "print"}
    <3>1. b # 0 => b - 1 \in Nat
      BY <1>6
    <3> QED
      BY <1>1, <1>3, <3>1 DEF TypeOK
  <2> QED
    BY <1>1, <1>3, <1>6, <2>1 DEF TypeOK
<1>8. BoundsHold'
  BY <1>1 DEF BoundsHold
<1>9. HardModels' = HardModels /\ Promise!Front' = Promise!Front
  BY <1>1, HardModelsStay
<1>10. PrintedSoFar'
  BY <1>1, <1>9 DEF Inv, PrintedSoFar
<1>11. \A k \in decUnits' : b - 1 <= k
  <2>1. ASSUME NEW k \in decUnits PROVE b - 1 <= k
    BY <1>1, <1>5, <1>6 DEF InRound, TypeOK
  <2>2. b - 1 <= b - 1
    BY <1>6
  <2> QED
    BY <1>3, <2>1, <2>2
<1>12. \A k \in incUnits : b <= k
  BY <1>1, <1>5, <1>6 DEF InRound, TypeOK
<1>13. decOptTot # None => b <= decOptTot
  BY <1>1, <1>5, <1>6 DEF InRound, TypeOK
<1>14. InRound'
  BY <1>1, <1>3, <1>4, <1>6, <1>9, <1>11, <1>12, <1>13 DEF InRound
<1>15. Searching'
  BY <1>1, <1>3 DEF Inv, Searching
<1>16. Found'
  <2>1. SUFFICES ASSUME pc' = "print" PROVE
          /\ <<incBound, b>> \in points
          /\ \A q \in points : q[1] <= incBound => b <= q[2]
    BY <1>1, <1>3 DEF Found
  <2>2. b = 0 /\ p[2] = 0
    BY <1>1, <1>3, <1>5, <1>6, <2>1
  <2>3. \A q \in points : q[2] \in Nat
    BY <1>1, PointType
  <2> QED
    BY <1>4, <1>5, <2>2, <2>3
<1>17. BetweenRounds'
  BY <1>1, <1>3 DEF BetweenRounds
<1> QED
  BY <1>7, <1>8, <1>10, <1>14, <1>15, <1>16, <1>17 DEF Inv

LEMMA InvSatUnsat == Inv /\ SatUnsat => Inv'
<1> SUFFICES ASSUME Inv, SatUnsat PROVE Inv'
  OBVIOUS
<1>1. /\ pc = "sat" /\ pc' = "print" /\ TypeOK /\ BoundsHold /\ InRound /\ Lower = {}
      /\ UNCHANGED <<points, incBound, decBound, incTot, decOptTot, decBoundTot, decUnits,
                     incUnits, printed>>
  BY DEF Inv, SatUnsat
<1>2. HardModels' = HardModels /\ Promise!Front' = Promise!Front
  BY <1>1, HardModelsStay
<1>3. ASSUME NEW q \in points, q[1] <= incBound PROVE decBound <= q[2]
  <2>1. q[2] \in Nat /\ decBound \in Nat
    BY <1>1, PointType DEF TypeOK
  <2> QED
    BY <1>1, <1>3, <2>1, BetterIsLower
<1>4. PICK p \in HardModels : p[1] = incBound /\ p[2] <= decBound
  BY <1>1 DEF InRound
<1>5. p \in points /\ p = <<p[1], p[2]>> /\ p[2] \in Nat /\ decBound \in Nat /\ incBound \in Nat
  BY <1>1, PointType DEF HardModels, TypeOK
<1>6. p[2] = decBound
  BY <1>3, <1>4, <1>5
<1>7. Found'
  BY <1>1, <1>3, <1>4, <1>5, <1>6 DEF Found
<1>8. TypeOK' /\ BoundsHold' /\ BetweenRounds' /\ Searching'
  BY <1>1 DEF TypeOK, BoundsHold, BetweenRounds, Searching
<1>9. PrintedSoFar' /\ InRound'
  BY <1>1, <1>2 DEF Inv, PrintedSoFar, InRound
<1> QED
  BY <1>7, <1>8, <1>9 DEF Inv

LEMMA InvPrintAndBound == Inv /\ PrintAndBound => Inv'
<1> SUFFICES ASSUME Inv, PrintAndBound PROVE Inv'
  OBVIOUS
<1> DEFINE p == <<incBound, decBound>>
<1>1. /\ pc = "print" /\ TypeOK /\ BoundsHold /\ InRound /\ PrintedSoFar /\ Found
      /\ printed' = printed \cup {p}
      /\ UNCHANGED <<points, incBound, decBound, incTot, decOptTot, decUnits>>
  BY DEF Inv, PrintAndBound
<1>2. decBound \in Nat /\ incBound \in Nat /\ incUnits \in SUBSET Nat
  BY <1>1 DEF TypeOK
<1>3. CASE decBound = 0
  <2>1. pc' = "done" /\ UNCHANGED <<decBoundTot, incUnits>>
    BY <1>3 DEF PrintAndBound
  <2> QED
    BY <1>1, <2>1 DEF Inv, TypeOK, BoundsHold, PrintedSoFar, BetweenRounds, InRound,
                      Searching, Found
<1>4. CASE decBound # 0
  <2>1. /\ pc' = "maxsat"
        /\ decBoundTot' = Built(decBoundTot, decBound)
        /\ incUnits' = incUnits \cup {decBound - 1}
    BY <1>4 DEF PrintAndBound
  <2>2. decBound - 1 \in Nat /\ decBound > 0
    BY <1>2, <1>4
  <2>3. decBoundTot' \in Nat /\ decBound - 1 <= decBoundTot'
    <3>1. CASE decBoundTot = None
      BY <1>2, <2>1, <2>2, <3>1 DEF Built
    <3>2. CASE decBoundTot # None
      <4>1. decBoundTot \in Nat /\ decBoundTot' = decBoundTot
        BY <1>1, <2>1, <3>2 DEF TypeOK, Built
      <4>2. PICK k \in incUnits : k <= decBoundTot
        BY <1>1, <3>2 DEF BoundsHold
      <4>3. k \in Nat /\ decBound <= k
        BY <1>1, <1>2 DEF InRound
      <4> QED
        BY <1>2, <4>1, <4>2, <4>3
    <3> QED
      BY <3>1, <3>2
  <2>4. decBoundTot' = decBoundTot \/ incUnits = {}
    <3>1. ASSUME decBoundTot = None, NEW k \in incUnits PROVE FALSE
      <4>1. k \in Nat /\ k <= -1
        BY <1>1, <1>2, <3>1 DEF BoundsHold, None
      <4> QED
        BY <4>1
    <3> QED
      BY <2>1, <3>1 DEF Built
  <2>5. TypeOK'
    BY <1>1, <2>1, <2>2, <2>3 DEF TypeOK
  <2>6. BoundsHold'
    BY <1>1, <2>1, <2>3, <2>4 DEF BoundsHold
  <2>7. p[1] = incBound /\ p[2] = decBound
    OBVIOUS
  <2>8. p \in HardModels
    <3>1. \A k \in incUnits : p[2] <= k
      BY <1>1, <2>7 DEF InRound
    <3> QED
      BY <1>1, <3>1, HardModelsAre DEF Found
  <2>9. HardModels' = {r \in HardModels : r[2] <= decBound - 1}
    <3>1. HardModels' = {r \in points : \A k \in incUnits' : r[2] <= k}
      BY <1>1, <2>5, <2>6 DEF HardModels, AtMost, BoundsHold
    <3> QED
      BY <1>1, <2>1, <3>1, HardModelsAre
  <2>10. Promise!Front' = Promise!Front
    BY <1>1 DEF Promise!Front, Promise!Dominates
  <2>11. PrintedSoFar'
    <3>1. {r \in Promise!Front : r \in HardModels => ~(r[2] <= p[2] - 1)}
            = (Promise!Front \ HardModels) \cup {p}
      BY <1>1, <2>2, <2>7, <2>8, PrintedGrows DEF InRound, Found
    <3>2. printed' = Promise!Front' \ HardModels'
      BY <1>1, <2>7, <2>9, <2>10, <3>1 DEF PrintedSoFar
    <3>3. \A r \in printed' : r[2] > 0
      BY <1>1, <2>2, <2>7 DEF PrintedSoFar
    <3> QED
      BY <3>2, <3>3 DEF PrintedSoFar
  <2>12. BetweenRounds'
    <3>1. \A k \in decUnits : decBound - 1 <= k
      BY <1>1 DEF InRound
    <3>2. decOptTot # None => decBound - 1 <= decOptTot
      BY <1>1, <1>2 DEF InRound, TypeOK
    <3> QED
      BY <1>1, <2>1, <3>1, <3>2 DEF BetweenRounds
  <2>13. InRound' /\ Searching' /\ Found'
    BY <2>1 DEF InRound, Searching, Found
  <2> QED
    BY <2>5, <2>6, <2>11, <2>12, <2>13 DEF Inv
<1> QED
  BY <1>3, <1>4

LEMMA InvNext == Inv /\ [Next]_vars => Inv'
<1> SUFFICES ASSUME Inv, [Next]_vars PROVE Inv'
  OBVIOUS
<1>1. CASE UNCHANGED vars
  <2>1. HardModels' = HardModels /\ Promise!Front' = Promise!Front
    BY <1>1, HardModelsStay DEF vars
  <2> QED
    BY <1>1, <2>1 DEF vars, Inv, TypeOK, BoundsHold, PrintedSoFar, BetweenRounds, InRound,
                      Searching, Found
<1> QED
  BY <1>1, InvMaxSatUnsat, InvMaxSatOptimal, InvBoundSat, InvSatImproves, InvSatUnsat,
     InvPrintAndBound DEF Next

-----------------------------------------------------------------------------
(***************************************************************************)
(* The refinement.                                                         *)
(***************************************************************************)
LEMMA PromiseInit == Init => Promise!Init
BY BiOptSatAssumption DEF Init, Promise!Init

\* A step that prints p, a cheapest solution the bounds allow which none as cheap
\* beats, is a PrintPoint of the promise.
LEMMA PromisePrints ==
  ASSUME Inv, pc # "done", NEW p \in HardModels,
         \A q \in HardModels : p[1] <= q[1],
         \A q \in points : q[1] <= p[1] => p[2] <= q[2],
         printed' = printed \cup {p}, UNCHANGED points
  PROVE  Promise!PrintPoint
<1>1. p \in Promise!Front \ printed
  BY OnFront DEF Inv, PrintedSoFar
<1>2. ~Promise!Exhausted
  <2>1. \A q \in printed : q[2] \in Nat /\ q[2] > 0
    BY PointType DEF Inv, PrintedSoFar, Promise!Front
  <2> QED
    BY <1>1, <2>1 DEF Promise!Exhausted
<1>3. \A q \in Promise!Front \ printed : p[1] <= q[1]
  BY DEF Inv, PrintedSoFar
<1> QED
  BY <1>1, <1>2, <1>3 DEF Promise!PrintPoint

\* The end is announced with a point that leaves nothing of interest, or when the
\* MaxSAT solver's bounds leave none.
LEMMA PromiseNext == Inv /\ [Next]_vars => [Promise!Next]_(Promise!vars)
<1> SUFFICES ASSUME Inv, [Next]_vars PROVE [Promise!Next]_(Promise!vars)
  OBVIOUS
<1>1. CASE MaxSatUnsat
  <2>1. pc = "maxsat" /\ pc' = "done" /\ HardModels = {} /\ UNCHANGED <<points, printed>>
    BY <1>1 DEF MaxSatUnsat
  <2>2. Promise!Exhausted
    BY <2>1 DEF Inv, PrintedSoFar, Promise!Exhausted
  <2> QED
    BY <2>1, <2>2 DEF Promise!Next
<1>2. CASE MaxSatOptimal
  <2>1. pc = "maxsat" /\ UNCHANGED points
    BY <1>2 DEF MaxSatOptimal
  <2>2. PICK p \in Cheapest :
          IF p[2] = 0 THEN pc' = "done" /\ printed' = printed \cup {p}
                      ELSE pc' = "bound" /\ UNCHANGED printed
    BY <1>2 DEF MaxSatOptimal
  <2>3. CASE p[2] = 0
    <3>1. p \in HardModels /\ \A q \in HardModels : p[1] <= q[1]
      BY DEF Cheapest
    <3>2. \A q \in points : q[1] <= p[1] => p[2] <= q[2]
      BY <2>3, PointType DEF Inv
    <3>3. Promise!PrintPoint
      BY <2>1, <2>2, <2>3, <3>1, <3>2, PromisePrints
    <3>4. Promise!Exhausted'
      BY <2>2, <2>3 DEF Promise!Exhausted
    <3> QED
      BY <2>2, <2>3, <3>3, <3>4 DEF Promise!Next
  <2>4. CASE p[2] # 0
    BY <2>1, <2>2, <2>4 DEF Promise!vars
  <2> QED
    BY <2>3, <2>4
<1>3. CASE BoundSat
  BY <1>3 DEF BoundSat, Promise!vars
<1>4. CASE SatImproves
  <2>1. pc = "sat" /\ pc' # "done" /\ UNCHANGED <<points, printed>>
    BY <1>4 DEF SatImproves
  <2> QED
    BY <2>1 DEF Promise!vars
<1>5. CASE SatUnsat
  BY <1>5 DEF SatUnsat, Promise!vars
<1>6. CASE PrintAndBound
  <2> DEFINE p == <<incBound, decBound>>
  <2>1. pc = "print" /\ printed' = printed \cup {p} /\ UNCHANGED points
    BY <1>6 DEF PrintAndBound
  <2>2. p[1] = incBound /\ p[2] = decBound
    OBVIOUS
  <2>3. p \in HardModels
    <3>1. \A k \in incUnits : p[2] <= k
      BY <2>1, <2>2 DEF Inv, InRound
    <3> QED
      BY <2>1, <3>1, HardModelsAre DEF Inv, Found
  <2>4. Promise!PrintPoint
    <3>1. \A q \in HardModels : p[1] <= q[1]
      BY <2>1, <2>2 DEF Inv, InRound
    <3>2. \A q \in points : q[1] <= p[1] => p[2] <= q[2]
      BY <2>1, <2>2 DEF Inv, Found
    <3> QED
      BY <2>1, <2>3, <3>1, <3>2, PromisePrints
  <2>5. CASE decBound = 0
    <3>1. pc' = "done"
      BY <1>6, <2>5 DEF PrintAndBound
    <3>2. p \in printed' /\ p[2] <= 0
      BY <2>1, <2>2, <2>5
    <3>3. Promise!Exhausted'
      BY <3>2 DEF Promise!Exhausted
    <3> QED
      BY <2>4, <3>1, <3>3 DEF Promise!Next
  <2>6. CASE decBound # 0
    <3>1. pc' = "maxsat"
      BY <1>6, <2>6 DEF PrintAndBound
    <3> QED
      BY <2>4, <3>1 DEF Promise!Next
  <2> QED
    BY <2>5, <2>6
<1>7. CASE UNCHANGED vars
  BY <1>7 DEF vars, Promise!vars
<1> QED
  BY <1>1, <1>2, <1>3, <1>4, <1>5, <1>6, <1>7 DEF Next

-----------------------------------------------------------------------------
\* The SAT solver never leaves the value of the increasing objective the MaxSAT
\* solver found (the assertion of ipamirbioptsat.cpp:187).
THEOREM IncStaysPutHolds == Spec => []IncStaysPut
BY InvInit, InvNext, InvIncStaysPut, PTL DEF Spec

\* ipamirbioptsat implements ParetoFront: exactly the Pareto-optimal points are
\* printed, in their order, whatever solutions the two solvers answer with.
THEOREM ImplementsParetoFront == Spec => PrintsFront
<1>1. Inv /\ [Next]_vars => [Promise!Next]_(Promise!vars)
  BY PromiseNext
<1> QED
  BY <1>1, InvInit, InvNext, PromiseInit, PTL DEF Spec, PrintsFront, Promise!Spec

-----------------------------------------------------------------------------
(***************************************************************************)
(* Seesaw: the invariant.                                                  *)
(***************************************************************************)
\* The size of the smallest rule that misclassifies samples of s only.
RuleSize(s) == See!Oracle(s)

SeeTypes ==
  /\ rules \in RuleSets
  /\ seesawPc \in {"hit", "oracle", "core", "done"}
  /\ cores \in SUBSET SUBSET Sample
  /\ hs \in SUBSET Sample /\ untried \in SUBSET Sample
  /\ g \in 0 .. Cardinality(Sample) /\ f \in 0 .. Infinite
  /\ bestG \in 0 .. Cardinality(Sample) \cup {Infinite}
  /\ bestF \in 0 .. Infinite

\* A set of samples that misses a core allows no rule smaller than the best.
RuledOut ==
  \A s \in SUBSET Sample : (\E c \in cores : s \cap c = {}) => bestF <= RuleSize(s)

\* The best point is that of a rule, and no rule as small misclassifies less.
BestIsRule ==
  bestG # Infinite =>
    /\ \E r \in rules : Cardinality(r[1]) = bestG /\ r[2] = bestF
    /\ \A r \in rules : r[2] <= bestF => bestG <= Cardinality(r[1])

\* The points of the front printed: those of larger rules than the best, and the best
\* itself once it was printed.
PrintedRules ==
  seesawPc # "done" =>
    /\ seesawPrinted = {p \in See!Promise!Front :
                          bestF < p[2] \/ (bestG = Infinite /\ bestF = p[2])}
    /\ \A p \in seesawPrinted : NRULECLAUSES < p[2]
    /\ bestG = Infinite => bestF > 0

\* A cheapest hitting set: every set of fewer samples misses a core.
Asking ==
  seesawPc = "oracle" =>
    /\ g = Cardinality(hs) /\ g <= bestG
    /\ \A s \in SUBSET Sample : Cardinality(s) < g => \E c \in cores : s \cap c = {}

\* What the core is made from allows no rule smaller than the best.
Extending == seesawPc = "core" => bestF <= f /\ f <= RuleSize(hs)

SeeInv == SeeTypes /\ RuledOut /\ BestIsRule /\ PrintedRules /\ Asking /\ Extending

-----------------------------------------------------------------------------
\* The instance counts as the module that instantiates it does.
LEMMA SeeCardinality == ASSUME NEW s PROVE See!Cardinality(s) = Cardinality(s)
<1>1. See!IsFiniteSet(s) <=> IsFiniteSet(s)
  BY DEF See!IsFiniteSet, IsFiniteSet
<1> QED
  BY <1>1 DEF See!Cardinality, Cardinality

\* A set of natural numbers that is not empty has a least element.
LEMMA LeastNumber ==
  ASSUME NEW S \in SUBSET Nat, S # {}
  PROVE  \E x \in S : \A y \in S : x <= y
<1>1. PICK x \in S : \A y \in S : ~(<<y, x>> \in OpToRel(<, Nat))
  BY NatLessThanWellFounded, WFMin
<1>2. \A y \in S : ~(y < x)
  BY <1>1 DEF OpToRel
<1> QED
  BY <1>2

\* What a rule is.
LEMMA RuleType ==
  ASSUME rules \in RuleSets, NEW r \in rules
  PROVE  /\ r[1] \in SUBSET Sample /\ r[2] \in Nat /\ r[2] < Infinite
         /\ Cardinality(r[1]) \in Nat /\ Cardinality(r[1]) <= Cardinality(Sample)
<1>1. r \in (SUBSET Sample) \X (0 .. Infinite - 1) /\ Infinite \in Nat
  BY SeesawAssumption
<1>2. r[1] \in SUBSET Sample /\ r[2] \in 0 .. Infinite - 1
  BY <1>1
<1>3. Cardinality(r[1]) \in Nat /\ Cardinality(r[1]) <= Cardinality(Sample)
  BY <1>2, FS_Subset, FS_CardinalityType, SeesawAssumption
<1> QED
  BY <1>1, <1>2, <1>3

LEMMA SampleSize == Cardinality(Sample) \in Nat /\ Infinite \in Nat /\ Cardinality(Sample) < Infinite
BY FS_CardinalityType, SeesawAssumption

\* The oracle answers with the size of the smallest rule that misclassifies no other
\* samples than those it was given.
LEMMA OracleIs ==
  ASSUME rules \in RuleSets, NEW s \in SUBSET Sample
  PROVE  /\ RuleSize(s) \in 0 .. Infinite
         /\ \A r \in rules : r[1] \subseteq s => RuleSize(s) <= r[2]
         /\ RuleSize(s) = Infinite \/ \E r \in rules : r[1] \subseteq s /\ r[2] = RuleSize(s)
<1> DEFINE sizes == {r[2] : r \in {q \in rules : q[1] \subseteq s}}
<1>1. RuleSize(s) = IF sizes = {} THEN Infinite ELSE CHOOSE n \in sizes : \A k \in sizes : n <= k
  BY DEF RuleSize, See!Oracle
<1>2. sizes \in SUBSET Nat
  BY RuleType
<1>3. CASE sizes = {}
  <2>1. RuleSize(s) = Infinite /\ \A r \in rules : ~(r[1] \subseteq s)
    BY <1>1, <1>3
  <2> QED
    BY <2>1, SampleSize
<1>4. CASE sizes # {}
  <2> HIDE DEF sizes
  <2>1. \E n \in sizes : \A k \in sizes : n <= k
    BY <1>2, <1>4, LeastNumber
  <2>2. RuleSize(s) \in sizes /\ \A k \in sizes : RuleSize(s) <= k
    BY <1>1, <1>4, <2>1
  <2>3. PICK r \in rules : r[1] \subseteq s /\ r[2] = RuleSize(s)
    BY <2>2 DEF sizes
  <2>4. RuleSize(s) \in 0 .. Infinite
    BY <2>3, RuleType, SampleSize
  <2>5. \A q \in rules : q[1] \subseteq s => RuleSize(s) <= q[2]
    BY <2>2 DEF sizes
  <2> QED
    BY <2>3, <2>4, <2>5
<1> QED
  BY <1>3, <1>4

\* The more samples may be misclassified, the smaller is the rule.
LEMMA OracleShrinks ==
  ASSUME rules \in RuleSets, NEW s \in SUBSET Sample, NEW t \in SUBSET s
  PROVE  RuleSize(s) <= RuleSize(t)
<1>1. t \in SUBSET Sample
  OBVIOUS
<1>2. RuleSize(s) \in 0 .. Infinite /\ RuleSize(t) \in 0 .. Infinite
  BY <1>1, OracleIs
<1>3. CASE RuleSize(t) = Infinite
  BY <1>2, <1>3, SampleSize
<1>4. CASE RuleSize(t) # Infinite
  <2>1. PICK r \in rules : r[1] \subseteq t /\ r[2] = RuleSize(t)
    BY <1>1, <1>4, OracleIs
  <2> QED
    BY <2>1, OracleIs
<1> QED
  BY <1>3, <1>4

\* The points of the front are those of rules, and no rule is better in one value
\* without being worse in the other.
LEMMA FrontIs ==
  ASSUME rules \in RuleSets, NEW p
  PROVE  p \in See!Promise!Front <=>
           \E r \in rules :
             /\ p = <<Cardinality(r[1]), r[2]>>
             /\ \A q \in rules : Cardinality(q[1]) <= p[1] /\ q[2] <= p[2] =>
                                   Cardinality(q[1]) = p[1] /\ q[2] = p[2]
<1> DEFINE point(r) == <<Cardinality(r[1]), r[2]>>
           all == {point(r) : r \in rules}
<1>1. See!Promise!Front = {q \in all : \A o \in all : ~(o # q /\ o[1] <= q[1] /\ o[2] <= q[2])}
  BY SeeCardinality DEF See!Promise!Front, See!Promise!Dominates
<1>2. \A r \in rules : point(r)[1] = Cardinality(r[1]) /\ point(r)[2] = r[2]
  OBVIOUS
<1>3. ASSUME p \in See!Promise!Front
      PROVE  \E r \in rules :
               /\ p = <<Cardinality(r[1]), r[2]>>
               /\ \A q \in rules : Cardinality(q[1]) <= p[1] /\ q[2] <= p[2] =>
                                     Cardinality(q[1]) = p[1] /\ q[2] = p[2]
  <2>1. PICK r \in rules : p = point(r)
    BY <1>1, <1>3
  <2>2. ASSUME NEW q \in rules, Cardinality(q[1]) <= p[1], q[2] <= p[2]
        PROVE  Cardinality(q[1]) = p[1] /\ q[2] = p[2]
    <3>1. point(q) = p
      BY <1>1, <1>2, <1>3, <2>2
    <3> QED
      BY <3>1, <1>2
  <2> QED
    BY <2>1, <2>2
<1>4. ASSUME NEW r \in rules, p = <<Cardinality(r[1]), r[2]>>,
             \A q \in rules : Cardinality(q[1]) <= p[1] /\ q[2] <= p[2] =>
                                Cardinality(q[1]) = p[1] /\ q[2] = p[2]
      PROVE  p \in See!Promise!Front
  <2>1. p \in all
    BY <1>4
  <2>2. ASSUME NEW q \in rules, point(q)[1] <= p[1], point(q)[2] <= p[2] PROVE point(q) = p
    BY <1>2, <1>4, <2>2
  <2> QED
    BY <1>1, <2>1, <2>2
<1> QED
  BY <1>3, <1>4

\* When no rule that misclassifies as few samples is smaller, the best is on the front.
LEMMA BestOnFront ==
  ASSUME SeeInv, bestG # Infinite,
         \A q \in rules : Cardinality(q[1]) <= bestG => bestF <= q[2]
  PROVE  <<bestG, bestF>> \in See!Promise!Front
<1>1. PICK r \in rules : Cardinality(r[1]) = bestG /\ r[2] = bestF
  BY DEF SeeInv, BestIsRule
<1>2. rules \in RuleSets
  BY DEF SeeInv, SeeTypes
<1> DEFINE p == <<Cardinality(r[1]), r[2]>>
<1>3. p = <<bestG, bestF>> /\ p[1] = bestG /\ p[2] = bestF
  BY <1>1
<1>4. bestF \in Nat /\ bestG \in Nat
  BY <1>1, <1>2, RuleType
<1>5. ASSUME NEW q \in rules, Cardinality(q[1]) <= p[1], q[2] <= p[2]
      PROVE  Cardinality(q[1]) = p[1] /\ q[2] = p[2]
  <2>1. Cardinality(q[1]) \in Nat /\ q[2] \in Nat
    BY <1>2, RuleType
  <2>2. bestF <= q[2] /\ bestG <= Cardinality(q[1])
    BY <1>3, <1>5 DEF SeeInv, BestIsRule
  <2> QED
    BY <1>3, <1>4, <1>5, <2>1, <2>2
<1> HIDE DEF p
<1>6. p \in See!Promise!Front
  BY <1>2, <1>5, FrontIs DEF p
<1> QED
  BY <1>3, <1>6

\* A point of the front that is as good as the best is the best point.
LEMMA BestIsAlone ==
  ASSUME SeeInv, bestG # Infinite, NEW p \in See!Promise!Front, p[2] = bestF
  PROVE  p = <<bestG, bestF>>
<1>1. rules \in RuleSets
  BY DEF SeeInv, SeeTypes
<1>2. PICK r \in rules :
         /\ p = <<Cardinality(r[1]), r[2]>>
         /\ \A q \in rules : Cardinality(q[1]) <= p[1] /\ q[2] <= p[2] =>
                               Cardinality(q[1]) = p[1] /\ q[2] = p[2]
  BY <1>1, FrontIs
<1>3. PICK b \in rules : Cardinality(b[1]) = bestG /\ b[2] = bestF
  BY DEF SeeInv, BestIsRule
<1>4. p[1] = Cardinality(r[1]) /\ p[2] = r[2]
  BY <1>2
<1>5. r[2] \in Nat /\ b[2] \in Nat /\ bestF \in Nat
  BY <1>1, <1>3, RuleType
<1>6. bestG <= p[1]
  BY <1>4, <1>5 DEF SeeInv, BestIsRule
<1>7. Cardinality(b[1]) <= p[1] /\ b[2] <= p[2]
  BY <1>3, <1>5, <1>6
<1>8. Cardinality(b[1]) = p[1]
  BY <1>2, <1>7
<1> QED
  BY <1>2, <1>3, <1>4, <1>8

LEMMA FrontType ==
  ASSUME rules \in RuleSets, NEW p \in See!Promise!Front
  PROVE  p[1] \in Nat /\ p[2] \in Nat /\ p[2] < Infinite
<1>1. PICK r \in rules : p = <<Cardinality(r[1]), r[2]>>
  BY FrontIs
<1> QED
  BY <1>1, RuleType

\* A rule that misclassifies fewer samples than a cheapest hitting set holds is no
\* smaller than the best.
LEMMA FewerAreRuledOut ==
  ASSUME SeeTypes, RuledOut, NEW n \in Nat, NEW r \in rules, Cardinality(r[1]) < n,
         \A s \in SUBSET Sample : Cardinality(s) < n => \E c \in cores : s \cap c = {}
  PROVE  bestF <= r[2]
<1>1. r[1] \in SUBSET Sample /\ r[2] \in Nat /\ rules \in RuleSets
  BY RuleType DEF SeeTypes
<1>2. bestF <= RuleSize(r[1])
  BY <1>1 DEF RuledOut
<1>3. RuleSize(r[1]) \in Nat /\ RuleSize(r[1]) <= r[2] /\ bestF \in Nat
  BY <1>1, OracleIs, SampleSize DEF SeeTypes
<1> QED
  BY <1>1, <1>2, <1>3

-----------------------------------------------------------------------------
(***************************************************************************)
(* Seesaw: the steps.                                                      *)
(***************************************************************************)
\* The front is a function of the data set.
LEMMA FrontStays ==
  ASSUME UNCHANGED rules
  PROVE  See!Promise!Front' = See!Promise!Front
BY DEF See!Promise!Front, See!Promise!Dominates

\* So is what the oracle answers.
LEMMA OracleStays ==
  ASSUME UNCHANGED rules
  PROVE  \A s : RuleSize(s)' = RuleSize(s)
BY DEF RuleSize, See!Oracle

\* SeesawAssumption gives a rule of size 0: no sample has to be excused for it when
\* every one is.
LEMMA EverythingExcused ==
  ASSUME rules \in RuleSets
  PROVE  RuleSize(Sample) = 0
<1>1. PICK r \in rules : r[2] = 0
  BY SeesawAssumption
<1>2. r[1] \subseteq Sample
  BY RuleType
<1>3. RuleSize(Sample) \in 0 .. Infinite /\ RuleSize(Sample) <= r[2]
  BY <1>2, OracleIs
<1> QED
  BY <1>1, <1>3, SampleSize

LEMMA SeeInvInit == See!Init => SeeInv
<1> SUFFICES ASSUME See!Init PROVE SeeInv
  OBVIOUS
<1>1. /\ rules \in RuleSets /\ seesawPc = "hit" /\ cores = {} /\ hs = {} /\ untried = {}
      /\ g = 0 /\ f = 0 /\ bestG = Infinite /\ bestF = Infinite /\ seesawPrinted = {}
  BY DEF See!Init
<1>2. SeeTypes
  BY <1>1, SampleSize DEF SeeTypes
<1>3. RuledOut /\ BestIsRule /\ Asking /\ Extending
  BY <1>1 DEF RuledOut, BestIsRule, Asking, Extending
<1>4. PrintedRules
  <2>1. \A p \in See!Promise!Front : ~(bestF < p[2]) /\ bestF # p[2]
    BY <1>1, FrontType, SampleSize
  <2> QED
    BY <1>1, <2>1, SampleSize DEF PrintedRules
<1> QED
  BY <1>2, <1>3, <1>4 DEF SeeInv

\* What HittingSet chooses: a set that hits every core, and no smaller set does.
LEMMA HittingSetIs ==
  ASSUME SeeInv, See!HittingSet
  PROVE  /\ hs' \in SUBSET Sample /\ g' = Cardinality(hs')
         /\ g' \in 0 .. Cardinality(Sample)
         /\ \A s \in SUBSET Sample : Cardinality(s) < g' => \E c \in cores : s \cap c = {}
<1> DEFINE hits == {s \in SUBSET Sample : \A c \in cores : s \cap c # {}}
<1>1. hs' \in {s \in hits : \A r \in hits : Cardinality(s) <= Cardinality(r)}
  BY SeeCardinality DEF See!HittingSet, See!HittingSets
<1>2. g' = Cardinality(hs')
  BY SeeCardinality DEF See!HittingSet
<1>3. hs' \in SUBSET Sample
  BY <1>1
<1>4. g' \in Nat /\ g' <= Cardinality(Sample)
  BY <1>2, <1>3, FS_Subset, FS_CardinalityType, SeesawAssumption
<1>5. ASSUME NEW s \in SUBSET Sample, Cardinality(s) < g'
      PROVE  \E c \in cores : s \cap c = {}
  <2>1. Cardinality(s) \in Nat
    BY FS_Subset, FS_CardinalityType, SeesawAssumption
  <2>2. ~(g' <= Cardinality(s))
    BY <1>4, <1>5, <2>1
  <2> QED
    BY <1>1, <1>2, <2>2
<1> QED
  BY <1>2, <1>3, <1>4, <1>5, SampleSize

\* When the hitting set is dearer than the best point, no rule that misclassifies as
\* few samples as the best is smaller: the best is on the front.
LEMMA DearerProvesBest ==
  ASSUME SeeInv, See!HittingSet, g' > bestG
  PROVE  bestG # Infinite /\ <<bestG, bestF>> \in See!Promise!Front
<1>1. g' \in 0 .. Cardinality(Sample)
  BY HittingSetIs
<1>2. bestG # Infinite
  BY <1>1, SampleSize
<1>3. bestG \in Nat /\ rules \in RuleSets /\ SeeTypes /\ RuledOut
  BY <1>2, SampleSize DEF SeeInv, SeeTypes
<1>4. ASSUME NEW q \in rules, Cardinality(q[1]) <= bestG PROVE bestF <= q[2]
  <2>1. Cardinality(q[1]) \in Nat
    BY <1>3, RuleType
  <2>2. Cardinality(q[1]) < g' /\ g' \in Nat
    BY <1>1, <1>3, <1>4, <2>1, SampleSize
  <2>3. \A s \in SUBSET Sample : Cardinality(s) < g' => \E c \in cores : s \cap c = {}
    BY HittingSetIs
  <2> QED
    BY <1>3, <2>2, <2>3, FewerAreRuledOut
<1> QED
  BY <1>2, <1>4, BestOnFront

LEMMA InvHittingSet == SeeInv /\ See!HittingSet => SeeInv'
<1> SUFFICES ASSUME SeeInv, See!HittingSet PROVE SeeInv'
  OBVIOUS
<1>1. /\ seesawPc = "hit" /\ UNCHANGED <<rules, cores, untried, f, bestF>>
      /\ IF g' > bestG
         THEN /\ seesawPrinted' = seesawPrinted \cup {<<bestG, bestF>>}
              /\ bestG' = Infinite
              /\ seesawPc' = IF bestF <= NRULECLAUSES THEN "done" ELSE "oracle"
         ELSE seesawPc' = "oracle" /\ UNCHANGED <<seesawPrinted, bestG>>
  BY DEF See!HittingSet
<1>2. /\ hs' \in SUBSET Sample /\ g' = Cardinality(hs') /\ g' \in 0 .. Cardinality(Sample)
      /\ \A s \in SUBSET Sample : Cardinality(s) < g' => \E c \in cores : s \cap c = {}
  BY HittingSetIs
<1>3. SeeTypes /\ RuledOut /\ BestIsRule /\ PrintedRules
  BY DEF SeeInv
<1>4. SeeTypes'
  BY <1>1, <1>2, <1>3, SampleSize DEF SeeTypes
<1>5. RuledOut'
  BY <1>1, <1>3, OracleStays DEF RuledOut
<1>6. BestIsRule'
  BY <1>1, <1>3 DEF BestIsRule
<1>7. Asking'
  <2>1. g' <= bestG'
    BY <1>1, <1>2, <1>3, SampleSize DEF SeeTypes
  <2> QED
    BY <1>1, <1>2, <2>1 DEF Asking
<1>8. Extending'
  BY <1>1 DEF Extending
<1>9. See!Promise!Front' = See!Promise!Front
  BY <1>1, FrontStays
<1>10. PrintedRules'
  <2>1. CASE ~(g' > bestG)
    BY <1>1, <1>3, <1>9, <2>1 DEF PrintedRules
  <2>2. CASE g' > bestG /\ bestF <= NRULECLAUSES
    BY <1>1, <2>2 DEF PrintedRules
  <2>3. CASE g' > bestG /\ ~(bestF <= NRULECLAUSES)
    <3>1. bestG # Infinite /\ <<bestG, bestF>> \in See!Promise!Front
      BY <2>3, DearerProvesBest
    <3> DEFINE b == <<bestG, bestF>>
    <3>2. b[1] = bestG /\ b[2] = bestF
      OBVIOUS
    <3>3. bestF \in Nat /\ NRULECLAUSES \in Nat /\ NRULECLAUSES < bestF
      BY <1>3, <2>3, SeesawAssumption DEF SeeTypes
    <3>4. seesawPrinted = {p \in See!Promise!Front : bestF < p[2]}
      BY <1>1, <1>3, <3>1 DEF PrintedRules
    <3>5. \A p \in See!Promise!Front : bestF = p[2] => p = b
      BY <3>1, BestIsAlone
    <3>6. seesawPrinted' = {p \in See!Promise!Front : bestF < p[2] \/ bestF = p[2]}
      BY <1>1, <2>3, <3>1, <3>2, <3>4, <3>5
    <3>7. \A p \in seesawPrinted' : NRULECLAUSES < p[2]
      BY <1>1, <1>3, <2>3, <3>2, <3>3 DEF PrintedRules
    <3>8. bestG' = Infinite /\ bestF' = bestF /\ bestF > 0
      BY <1>1, <2>3, <3>3
    <3> QED
      BY <1>9, <3>6, <3>7, <3>8 DEF PrintedRules
  <2> QED
    BY <2>1, <2>2, <2>3
<1> QED
  BY <1>4, <1>5, <1>6, <1>7, <1>8, <1>10 DEF SeeInv

LEMMA InvAskOracle == SeeInv /\ See!AskOracle => SeeInv'
<1> SUFFICES ASSUME SeeInv, See!AskOracle PROVE SeeInv'
  OBVIOUS
<1>1. /\ seesawPc = "oracle" /\ seesawPc' = "core"
      /\ f' = RuleSize(hs) /\ untried' = IF f' = 0 THEN {} ELSE Sample \ hs
      /\ IF f' < bestF THEN bestF' = f' /\ bestG' = g ELSE UNCHANGED <<bestF, bestG>>
      /\ UNCHANGED <<rules, cores, hs, g, seesawPrinted>>
  BY DEF See!AskOracle, RuleSize
<1>2. SeeTypes /\ RuledOut /\ BestIsRule /\ PrintedRules
  BY DEF SeeInv
<1>3. /\ g = Cardinality(hs) /\ g <= bestG
      /\ \A s \in SUBSET Sample : Cardinality(s) < g => \E c \in cores : s \cap c = {}
  BY <1>1 DEF SeeInv, Asking
<1>4. /\ rules \in RuleSets /\ hs \in SUBSET Sample /\ bestF \in 0 .. Infinite
      /\ g \in 0 .. Cardinality(Sample)
  BY <1>2 DEF SeeTypes
<1>5. /\ f' \in 0 .. Infinite
      /\ f' = Infinite \/ \E r \in rules : r[1] \subseteq hs /\ r[2] = f'
  BY <1>1, <1>4, OracleIs
<1>6. SeeTypes'
  BY <1>1, <1>2, <1>5 DEF SeeTypes
<1>7. bestF' \in 0 .. Infinite /\ bestF' <= bestF /\ bestF' <= f'
  BY <1>1, <1>4, <1>5, SampleSize
<1>8. RuledOut'
  <2>1. ASSUME NEW s \in SUBSET Sample, \E c \in cores : s \cap c = {}
        PROVE  bestF' <= RuleSize(s)
    <3>1. bestF <= RuleSize(s) /\ RuleSize(s) \in 0 .. Infinite
      BY <1>2, <1>4, <2>1, OracleIs DEF RuledOut
    <3> QED
      BY <1>4, <1>7, <3>1, SampleSize
  <2> QED
    BY <1>1, <2>1, OracleStays DEF RuledOut
<1>9. Asking' /\ Extending'
  <2>1. f' <= RuleSize(hs)
    BY <1>1, <1>5, SampleSize
  <2> QED
    BY <1>1, <1>7, <2>1, OracleStays DEF Asking, Extending
<1>10. See!Promise!Front' = See!Promise!Front
  BY <1>1, FrontStays
<1>11. CASE ~(f' < bestF)
  <2>1. BestIsRule' /\ PrintedRules'
    BY <1>1, <1>2, <1>10, <1>11 DEF BestIsRule, PrintedRules
  <2> QED
    BY <1>6, <1>8, <1>9, <2>1 DEF SeeInv
<1>12. CASE f' < bestF
  <2>1. bestF' = f' /\ bestG' = g /\ g \in Nat /\ g # Infinite /\ f' \in Nat
    BY <1>1, <1>4, <1>5, <1>12, SampleSize
  <2>2. ASSUME NEW r \in rules, r[2] < bestF PROVE g <= Cardinality(r[1])
    <3>1. Cardinality(r[1]) \in Nat /\ r[2] \in Nat
      BY <1>4, RuleType
    <3>2. ~(bestF <= r[2])
      BY <1>4, <2>2, <3>1, SampleSize
    <3>3. ~(Cardinality(r[1]) < g)
      BY <1>2, <1>3, <2>1, <3>2, FewerAreRuledOut
    <3> QED
      BY <2>1, <3>1, <3>3
  <2>3. ASSUME NEW r \in rules, r[2] <= f' PROVE g <= Cardinality(r[1])
    <3>1. r[2] \in Nat
      BY <1>4, RuleType
    <3>2. r[2] < bestF
      BY <1>4, <1>12, <2>1, <2>3, <3>1, SampleSize
    <3> QED
      BY <2>2, <3>2
  <2>4. PICK b \in rules : b[1] \subseteq hs /\ b[2] = f'
    BY <1>4, <1>5, <1>12, SampleSize
  <2>5. Cardinality(b[1]) = g
    <3>1. g <= Cardinality(b[1]) /\ Cardinality(b[1]) \in Nat
      BY <1>4, <2>1, <2>3, <2>4, RuleType
    <3>2. IsFiniteSet(hs)
      BY <1>4, FS_Subset, SeesawAssumption
    <3>3. Cardinality(b[1]) <= Cardinality(hs)
      BY <2>4, <3>2, FS_Subset
    <3> QED
      BY <1>3, <2>1, <3>1, <3>3
  <2>6. BestIsRule'
    BY <1>1, <2>1, <2>3, <2>4, <2>5 DEF BestIsRule
  <2>7. ASSUME NEW p \in See!Promise!Front
        PROVE  (bestF < p[2] \/ (bestG = Infinite /\ bestF = p[2])) <=> f' < p[2]
    <3>1. p[1] \in Nat /\ p[2] \in Nat
      BY <1>4, FrontType
    <3>2. PICK r \in rules :
            /\ p = <<Cardinality(r[1]), r[2]>>
            /\ \A q \in rules : Cardinality(q[1]) <= p[1] /\ q[2] <= p[2] =>
                                  Cardinality(q[1]) = p[1] /\ q[2] = p[2]
      BY <1>4, FrontIs
    <3>3. p[1] = Cardinality(r[1]) /\ p[2] = r[2]
      BY <3>2
    <3>4. bestF \in Nat
      BY <1>4, SampleSize
    <3>5. ASSUME f' < p[2], g <= p[1] PROVE FALSE
      <4>1. Cardinality(b[1]) <= p[1] /\ b[2] <= p[2]
        BY <2>1, <2>4, <2>5, <3>1, <3>5
      <4> QED
        BY <2>1, <2>4, <3>1, <3>2, <3>5, <4>1
    <3>6. ASSUME f' < p[2], p[2] < bestF PROVE FALSE
      BY <2>2, <3>3, <3>5, <3>6
    <3>7. ASSUME f' < p[2], p[2] = bestF, bestG # Infinite PROVE FALSE
      <4>1. p = <<bestG, bestF>>
        BY <3>7, BestIsAlone
      <4>2. p[1] = bestG
        BY <4>1
      <4> QED
        BY <1>3, <3>5, <3>7, <4>2
    <3> QED
      BY <1>12, <2>1, <3>1, <3>4, <3>6, <3>7
  <2>8. PrintedRules'
    <3>1. seesawPrinted = {p \in See!Promise!Front :
                             bestF < p[2] \/ (bestG = Infinite /\ bestF = p[2])}
          /\ \A p \in seesawPrinted : NRULECLAUSES < p[2]
      BY <1>1, <1>2 DEF PrintedRules
    <3>2. seesawPrinted = {p \in See!Promise!Front : f' < p[2]}
      BY <2>7, <3>1
    <3> QED
      BY <1>1, <1>10, <2>1, <3>1, <3>2 DEF PrintedRules
  <2> QED
    BY <1>6, <1>8, <1>9, <2>6, <2>8 DEF SeeInv
<1> QED
  BY <1>11, <1>12

LEMMA InvTryToDrop == SeeInv /\ See!TryToDrop => SeeInv'
<1> SUFFICES ASSUME SeeInv, See!TryToDrop PROVE SeeInv'
  OBVIOUS
<1>1. PICK e \in untried :
        /\ untried' = untried \ {e}
        /\ hs' = IF RuleSize(hs \cup {e}) >= f THEN hs \cup {e} ELSE hs
  BY DEF See!TryToDrop, RuleSize
<1>2. seesawPc = "core" /\ UNCHANGED <<rules, seesawPc, cores, g, f, bestG, bestF, seesawPrinted>>
  BY DEF See!TryToDrop
<1>3. SeeTypes /\ RuledOut /\ BestIsRule /\ PrintedRules /\ bestF <= f /\ f <= RuleSize(hs)
  BY <1>2 DEF SeeInv, Extending
<1>4. SeeTypes'
  BY <1>1, <1>2, <1>3 DEF SeeTypes
<1>5. RuledOut'
  BY <1>2, <1>3, OracleStays DEF RuledOut
<1>6. BestIsRule' /\ PrintedRules'
  BY <1>2, <1>3, FrontStays DEF BestIsRule, PrintedRules
<1>7. Asking'
  BY <1>2 DEF Asking
<1>8. Extending'
  <2>1. f <= RuleSize(hs')
    <3>1. CASE RuleSize(hs \cup {e}) >= f
      <4>1. hs \cup {e} \in SUBSET Sample
        BY <1>3 DEF SeeTypes
      <4>2. RuleSize(hs \cup {e}) \in 0 .. Infinite /\ f \in 0 .. Infinite
        BY <1>3, <4>1, OracleIs DEF SeeTypes
      <4> QED
        BY <1>1, <3>1, <4>2, SampleSize
    <3>2. CASE ~(RuleSize(hs \cup {e}) >= f)
      BY <1>1, <1>3, <3>2
    <3> QED
      BY <3>1, <3>2
  <2> QED
    BY <1>2, <1>3, <2>1, OracleStays DEF Extending
<1> QED
  BY <1>4, <1>5, <1>6, <1>7, <1>8 DEF SeeInv

LEMMA InvAddCore == SeeInv /\ See!AddCore => SeeInv'
<1> SUFFICES ASSUME SeeInv, See!AddCore PROVE SeeInv'
  OBVIOUS
<1>1. /\ seesawPc = "core" /\ seesawPc' = "hit" /\ cores' = cores \cup {Sample \ hs}
      /\ UNCHANGED <<rules, hs, untried, g, f, bestG, bestF, seesawPrinted>>
  BY DEF See!AddCore, See!Core
<1>2. SeeTypes /\ RuledOut /\ BestIsRule /\ PrintedRules /\ bestF <= f /\ f <= RuleSize(hs)
  BY <1>1 DEF SeeInv, Extending
<1>3. SeeTypes'
  BY <1>1, <1>2 DEF SeeTypes
<1>4. RuledOut'
  <2>1. ASSUME NEW s \in SUBSET Sample, s \cap (Sample \ hs) = {} PROVE bestF <= RuleSize(s)
    <3>1. s \in SUBSET hs /\ hs \in SUBSET Sample /\ rules \in RuleSets
      BY <1>2, <2>1 DEF SeeTypes
    <3>2. RuleSize(hs) <= RuleSize(s)
      BY <3>1, OracleShrinks
    <3>3. RuleSize(hs) \in 0 .. Infinite /\ RuleSize(s) \in 0 .. Infinite
      BY <3>1, OracleIs
    <3>4. f \in 0 .. Infinite /\ bestF \in 0 .. Infinite
      BY <1>2 DEF SeeTypes
    <3> QED
      BY <1>2, <3>2, <3>3, <3>4, SampleSize
  <2>2. \A s \in SUBSET Sample : (\E c \in cores' : s \cap c = {}) => bestF <= RuleSize(s)
    BY <1>1, <1>2, <2>1 DEF RuledOut
  <2> QED
    BY <1>1, <2>2, OracleStays DEF RuledOut
<1>5. BestIsRule' /\ PrintedRules'
  BY <1>1, <1>2, FrontStays DEF BestIsRule, PrintedRules
<1>6. Asking' /\ Extending'
  BY <1>1 DEF Asking, Extending
<1> QED
  BY <1>3, <1>4, <1>5, <1>6 DEF SeeInv

\* Where the last point is reported, it is the rule of size 0, not yet printed.
LEMMA LastIsTrivial ==
  ASSUME SeeInv, See!ReportLast
  PROVE  bestF = 0 /\ bestG # Infinite
<1>1. seesawPc = "core" /\ See!Core = {}
  BY DEF See!ReportLast
<1>2. SeeTypes /\ bestF <= f /\ f <= RuleSize(hs)
  BY <1>1 DEF SeeInv, Extending
<1>3. f = 0 \/ hs = Sample
  BY <1>1, <1>2 DEF See!Core, SeeTypes
<1>4. RuleSize(Sample) = 0
  BY <1>2, EverythingExcused DEF SeeTypes
<1>5. f \in Nat /\ bestF \in Nat
  BY <1>2, SampleSize DEF SeeTypes
<1>6. bestF = 0
  BY <1>2, <1>3, <1>4, <1>5
<1> QED
  BY <1>1, <1>6 DEF SeeInv, PrintedRules

LEMMA InvReportLast == SeeInv /\ See!ReportLast => SeeInv'
<1> SUFFICES ASSUME SeeInv, See!ReportLast PROVE SeeInv'
  OBVIOUS
<1>1. seesawPc' = "done" /\ UNCHANGED <<rules, cores, hs, untried, g, f, bestG, bestF>>
  BY DEF See!ReportLast
<1>2. SeeTypes'
  BY <1>1 DEF SeeInv, SeeTypes
<1>3. RuledOut'
  BY <1>1, OracleStays DEF SeeInv, RuledOut
<1>4. BestIsRule' /\ PrintedRules' /\ Asking' /\ Extending'
  BY <1>1 DEF SeeInv, BestIsRule, PrintedRules, Asking, Extending
<1> QED
  BY <1>2, <1>3, <1>4 DEF SeeInv

LEMMA SeeInvNext == SeeInv /\ [See!Next]_(See!vars) => SeeInv'
<1> SUFFICES ASSUME SeeInv, [See!Next]_(See!vars) PROVE SeeInv'
  OBVIOUS
<1>1. CASE UNCHANGED See!vars
  <2>1. UNCHANGED <<rules, seesawPc, cores, hs, untried, g, f, bestG, bestF, seesawPrinted>>
    BY <1>1 DEF See!vars
  <2>2. SeeTypes'
    BY <2>1 DEF SeeInv, SeeTypes
  <2>3. RuledOut' /\ Extending'
    BY <2>1, OracleStays DEF SeeInv, RuledOut, Extending
  <2>4. BestIsRule' /\ PrintedRules' /\ Asking'
    BY <2>1, FrontStays DEF SeeInv, BestIsRule, PrintedRules, Asking
  <2> QED
    BY <2>2, <2>3, <2>4 DEF SeeInv
<1> QED
  BY <1>1, InvHittingSet, InvAskOracle, InvTryToDrop, InvAddCore, InvReportLast DEF See!Next

-----------------------------------------------------------------------------
(***************************************************************************)
(* Seesaw: the refinement.                                                 *)
(***************************************************************************)
LEMMA SeePromiseInit == See!Init => See!Promise!Init
<1> SUFFICES ASSUME See!Init PROVE See!Promise!Init
  OBVIOUS
<1>1. rules \in RuleSets /\ seesawPrinted = {} /\ seesawPc = "hit"
  BY DEF See!Init
<1>2. {<<Cardinality(r[1]), r[2]>> : r \in rules} \subseteq Nat \X Nat
  BY <1>1, RuleType
<1> QED
  BY <1>1, <1>2, SeeCardinality DEF See!Promise!Init

\* A step that prints the best point when it is on the front is a PrintPoint.
LEMMA SeePromisePrints ==
  ASSUME SeeInv, seesawPc # "done", bestG # Infinite,
         <<bestG, bestF>> \in See!Promise!Front,
         seesawPrinted' = seesawPrinted \cup {<<bestG, bestF>>}, UNCHANGED rules
  PROVE  See!Promise!PrintPoint
<1> DEFINE b == <<bestG, bestF>>
<1>1. b[1] = bestG /\ b[2] = bestF
  OBVIOUS
<1>2. /\ seesawPrinted = {p \in See!Promise!Front : bestF < p[2]}
      /\ \A p \in seesawPrinted : NRULECLAUSES < p[2]
  BY DEF SeeInv, PrintedRules
<1>3. rules \in RuleSets /\ bestF \in Nat /\ NRULECLAUSES \in Nat
  BY SampleSize, SeesawAssumption DEF SeeInv, SeeTypes
<1>4. b \in See!Promise!Front \ seesawPrinted
  BY <1>1, <1>2, <1>3
<1>5. \A p \in seesawPrinted : p[2] \in Nat
  BY <1>2, <1>3, FrontType
<1>6. ~See!Promise!Exhausted
  BY <1>2, <1>3, <1>4, <1>5 DEF See!Promise!Exhausted
<1>7. ASSUME NEW q \in See!Promise!Front \ seesawPrinted PROVE b[1] <= q[1]
  <2>1. q[1] \in Nat /\ q[2] \in Nat
    BY <1>3, FrontType
  <2>2. q[2] <= bestF
    BY <1>2, <1>3, <2>1
  <2>3. PICK r \in rules : q = <<Cardinality(r[1]), r[2]>>
    BY <1>3, FrontIs
  <2>4. q[1] = Cardinality(r[1]) /\ q[2] = r[2]
    BY <2>3
  <2> QED
    BY <1>1, <2>2, <2>4 DEF SeeInv, BestIsRule
<1>8. UNCHANGED {<<Cardinality(r[1]), r[2]>> : r \in rules}
  OBVIOUS
<1> QED
  BY <1>4, <1>6, <1>7, SeeCardinality DEF See!Promise!PrintPoint

\* Every step of the loop prints the next point, or nothing; the end is announced with
\* a point no rule of interest follows.
LEMMA SeePromiseNext == SeeInv /\ [See!Next]_(See!vars) => [See!Promise!Next]_(See!Promise!vars)
<1> SUFFICES ASSUME SeeInv, [See!Next]_(See!vars)
             PROVE  [See!Promise!Next]_(See!Promise!vars)
  OBVIOUS
<1>1. ASSUME UNCHANGED <<rules, seesawPrinted>>, (seesawPc' = "done") = (seesawPc = "done")
      PROVE  UNCHANGED See!Promise!vars
  BY <1>1 DEF See!Promise!vars
<1>2. CASE See!HittingSet
  <2>1. seesawPc = "hit" /\ UNCHANGED <<rules, bestF>>
    BY <1>2 DEF See!HittingSet
  <2>2. CASE ~(g' > bestG)
    <3>1. seesawPc' = "oracle" /\ UNCHANGED seesawPrinted
      BY <1>2, <2>2 DEF See!HittingSet
    <3> QED
      BY <1>1, <2>1, <3>1
  <2>3. CASE g' > bestG
    <3>1. /\ seesawPrinted' = seesawPrinted \cup {<<bestG, bestF>>}
          /\ seesawPc' = IF bestF <= NRULECLAUSES THEN "done" ELSE "oracle"
      BY <1>2, <2>3 DEF See!HittingSet
    <3>2. See!Promise!PrintPoint
      BY <1>2, <2>1, <2>3, <3>1, DearerProvesBest, SeePromisePrints
    <3>3. bestF <= NRULECLAUSES => See!Promise!Exhausted'
      <4>1. <<bestG, bestF>> \in seesawPrinted' /\ <<bestG, bestF>>[2] = bestF
        BY <3>1
      <4> QED
        BY <4>1 DEF See!Promise!Exhausted
    <3> QED
      BY <3>1, <3>2, <3>3 DEF See!Promise!Next
  <2> QED
    BY <2>2, <2>3
<1>3. CASE See!AskOracle
  BY <1>1, <1>3 DEF See!AskOracle
<1>4. CASE See!TryToDrop
  BY <1>1, <1>4 DEF See!TryToDrop
<1>5. CASE See!AddCore
  BY <1>1, <1>5 DEF See!AddCore
<1>6. CASE See!ReportLast
  <2>1. bestF = 0 /\ bestG # Infinite
    BY <1>6, LastIsTrivial
  <2>2. /\ seesawPc = "core" /\ seesawPc' = "done" /\ UNCHANGED rules
        /\ seesawPrinted' = seesawPrinted \cup {<<bestG, bestF>>}
    BY <1>6, <2>1, SampleSize DEF See!ReportLast
  <2>3. \A q \in rules : Cardinality(q[1]) <= bestG => bestF <= q[2]
    BY <2>1, RuleType DEF SeeInv, SeeTypes
  <2>4. See!Promise!PrintPoint
    BY <2>1, <2>2, <2>3, BestOnFront, SeePromisePrints
  <2>5. See!Promise!Exhausted'
    <3>1. <<bestG, bestF>> \in seesawPrinted' /\ <<bestG, bestF>>[2] = 0
      BY <2>1, <2>2
    <3> QED
      BY <3>1, SeesawAssumption DEF See!Promise!Exhausted
  <2> QED
    BY <2>2, <2>4, <2>5 DEF See!Promise!Next
<1>7. CASE UNCHANGED See!vars
  BY <1>1, <1>7 DEF See!vars
<1> QED
  BY <1>2, <1>3, <1>4, <1>5, <1>6, <1>7 DEF See!Next

\* ipamirmlicseesaw prints the Pareto front in its order for every data set and every
\* number of samples, whatever hitting sets its solver chooses and however coreExt
\* extends the cores.
THEOREM SeesawImplementsParetoFront == See!Spec => SeesawPrintsFront
<1>1. See!Init => SeeInv /\ See!Promise!Init
  BY SeeInvInit, SeePromiseInit
<1>2. SeeInv /\ [See!Next]_(See!vars) => SeeInv' /\ [See!Promise!Next]_(See!Promise!vars)
  BY SeeInvNext, SeePromiseNext
<1> QED
  BY <1>1, <1>2, PTL DEF See!Spec, SeesawPrintsFront, See!PrintsFront, See!Promise!Spec

\* Both applications side by side, as the run composes them: neither disturbs the other.
THEOREM AppsPrintFronts == AppsSpec => []IncStaysPut /\ PrintsFront /\ SeesawPrintsFront
<1>1. AppsInit => Inv /\ Promise!Init /\ SeeInv /\ See!Promise!Init
  BY InvInit, PromiseInit, SeeInvInit, SeePromiseInit DEF AppsInit
<1>2. [AppsNext]_<<app, vars, seesawVars>> => [Next]_vars /\ [See!Next]_(See!vars)
  BY DEF AppsNext, seesawVars, See!vars
<1>3. Inv /\ [Next]_vars => Inv' /\ [Promise!Next]_(Promise!vars)
  BY InvNext, PromiseNext
<1>4. SeeInv /\ [See!Next]_(See!vars) => SeeInv' /\ [See!Promise!Next]_(See!Promise!vars)
  BY SeeInvNext, SeePromiseNext
<1>5. AppsSpec => []IncStaysPut
  BY <1>1, <1>2, <1>3, InvIncStaysPut, PTL DEF AppsSpec
<1>6. AppsSpec => PrintsFront
  BY <1>1, <1>2, <1>3, PTL DEF AppsSpec, PrintsFront, Promise!Spec
<1>7. AppsSpec => SeesawPrintsFront
  BY <1>1, <1>2, <1>4, PTL
  DEF AppsSpec, SeesawPrintsFront, See!PrintsFront, See!Promise!Spec
<1> QED
  BY <1>5, <1>6, <1>7

-----------------------------------------------------------------------------
(***************************************************************************)
(* ipamirextenf: argumentation.                                            *)
(***************************************************************************)
\* An argument that a preferred extension does not attack has an attacker that it
\* does not attack either: else the extension could accept it.
LEMMA PreferredIsComplete ==
  ASSUME enforce \in SUBSET Arg, NEW A \in SUBSET Free, Preferred(A),
         NEW i \in Arg \ enforce, ~Attacked(A, enforce, i)
  PROVE  \E j \in Arg \ enforce : NoCounter(A, j, i)
<1> SUFFICES ASSUME \A j \in Arg \ enforce : ~NoCounter(A, j, i)
             PROVE  FALSE
  OBVIOUS
<1> DEFINE S == enforce \cup {i}
<1>1. Admissible(A, enforce) /\ ~Admissible(A, S)
  <2>1. S \in SUBSET Arg /\ enforce \subseteq S /\ S # enforce
    OBVIOUS
  <2> QED
    BY <2>1 DEF Preferred
<1>2. ASSUME NEW j \in Arg, <<j, i>> \in A PROVE Attacked(A, enforce, j)
  <2>1. j \notin enforce
    BY <1>2 DEF Attacked
  <2> QED
    BY <1>2, <2>1 DEF NoCounter
<1>3. <<i, i>> \notin A
  BY <1>2
<1>4. ASSUME NEW j \in enforce PROVE <<j, i>> \notin A /\ <<i, j>> \notin A
  BY <1>1 DEF Admissible, Attacked
<1>5. ASSUME NEW j \in S, NEW k \in S PROVE <<j, k>> \notin A
  BY <1>1, <1>3, <1>4 DEF Admissible
<1>6. ASSUME NEW k \in S, NEW j \in Arg, <<j, k>> \in A PROVE Attacked(A, S, j)
  <2>1. Attacked(A, enforce, j)
    BY <1>1, <1>2, <1>6 DEF Admissible
  <2> QED
    BY <2>1 DEF Attacked
<1> QED
  BY <1>1, <1>5, <1>6 DEF Admissible

\* The encoding allows every framework in which the target is preferred.
LEMMA PreferredIsEncoded ==
  ASSUME enforce \in SUBSET Arg, NEW A \in SUBSET Free, Preferred(A)
  PROVE  Encoded(A)
<1>1. \A i \in enforce, j \in Arg \ enforce : <<j, i>> \in A => Attacked(A, enforce, j)
  BY DEF Preferred, Admissible
<1> QED
  BY <1>1, PreferredIsComplete DEF Encoded

\* The encoding makes the target admissible; it need not be preferred.
LEMMA EncodedIsAdmissible ==
  ASSUME enforce \in SUBSET Arg, NEW A \in SUBSET Free, Encoded(A)
  PROVE  Admissible(A, enforce)
<1>1. \A i, j \in enforce : <<i, j>> \notin A
  BY DEF Free
<1>2. ASSUME NEW i \in enforce, NEW j \in Arg, <<j, i>> \in A
      PROVE  Attacked(A, enforce, j)
  BY <1>1, <1>2 DEF Encoded
<1> QED
  BY <1>1, <1>2 DEF Admissible

\* A framework that violates a refinement clause still has the counterexample the
\* clause was made from.
LEMMA CounterexampleStays ==
  ASSUME enforce \in SUBSET Arg, NEW A \in SUBSET Free, NEW S \in Larger(A),
         NEW B \in SUBSET Free, ~Satisfies(B, Refinement(A, S))
  PROVE  Admissible(B, S)
<1>1. S \in SUBSET Arg /\ enforce \subseteq S /\ Admissible(A, S)
  BY DEF Larger
<1>2. \A a \in A : a[1] \in S /\ a[2] \in Rejected(A, S) => a \in B
  BY DEF Satisfies, Refinement
<1>3. \A a \in Free \ A : a[2] \in S /\ a[1] \notin Rejected(A, S) => a \notin B
  BY DEF Satisfies, Refinement
<1>4. ASSUME NEW i \in Arg, NEW j \in S, <<i, j>> \in B, i \notin Rejected(A, S)
      PROVE  FALSE
  <2>1. <<i, j>> \in Free
    BY <1>4
  <2>2. <<i, j>> \in A
    BY <1>3, <1>4, <2>1
  <2>3. Attacked(A, S, i)
    BY <1>1, <2>2 DEF Admissible
  <2> QED
    BY <1>4, <2>3 DEF Rejected
<1>5. ASSUME NEW i \in S PROVE i \notin Rejected(A, S)
  BY <1>1 DEF Rejected, Attacked, Admissible
<1>6. \A i, j \in S : <<i, j>> \notin B
  BY <1>1, <1>4, <1>5
<1>7. ASSUME NEW j \in S, NEW i \in Arg, <<i, j>> \in B PROVE Attacked(B, S, i)
  <2>1. i \in Rejected(A, S)
    BY <1>4, <1>7
  <2>2. PICK k \in S : <<k, i>> \in A
    BY <2>1 DEF Rejected, Attacked
  <2>3. <<k, i>> \in B
    BY <1>2, <2>1, <2>2
  <2> QED
    BY <2>3 DEF Attacked
<1> QED
  BY <1>6, <1>7 DEF Admissible

LEMMA RefinementKeepsPreferred ==
  ASSUME enforce \in SUBSET Arg, NEW A \in SUBSET Free, NEW S \in Larger(A),
         NEW B \in SUBSET Free, Preferred(B)
  PROVE  Satisfies(B, Refinement(A, S))
<1>1. S \in SUBSET Arg /\ enforce \subseteq S /\ S # enforce
  BY DEF Larger
<1> QED
  BY <1>1, CounterexampleStays DEF Preferred

(***************************************************************************)
(* ipamirextenf: the loop.                                                 *)
(***************************************************************************)
\* Beside what the clauses keep, the candidate is the cheapest the MaxSAT solver
\* found since the last clause.
EnfInv ==
  /\ enforce \in SUBSET Arg
  /\ NothingIsLost
  /\ stage \in {"check", "done"} => candidate \in Optimal
  /\ stage = "done" => Larger(candidate) = {}

\* The invariant contains what the run checks about the answer.
LEMMA EnfInvAnswer == EnfInv => AnswerIsOptimal
<1> SUFFICES ASSUME EnfInv, stage = "done" PROVE
      /\ Preferred(candidate)
      /\ \A A \in SUBSET Free : Preferred(A) => Changes(candidate) <= Changes(A)
  BY DEF AnswerIsOptimal
<1>1. enforce \in SUBSET Arg /\ candidate \in Optimal /\ Larger(candidate) = {}
  BY DEF EnfInv
<1>2. candidate \in SUBSET Free /\ Encoded(candidate)
  BY <1>1 DEF Optimal, Eligible
<1>3. Admissible(candidate, enforce)
  BY <1>1, <1>2, EncodedIsAdmissible
<1>4. Preferred(candidate)
  BY <1>1, <1>3 DEF Preferred, Larger
<1>5. ASSUME NEW A \in SUBSET Free, Preferred(A)
      PROVE  Changes(candidate) <= Changes(A)
  <2>1. A \in Eligible
    BY <1>1, <1>5, PreferredIsEncoded DEF EnfInv, NothingIsLost, Eligible
  <2> QED
    BY <1>1, <2>1 DEF Optimal
<1> QED
  BY <1>4, <1>5

LEMMA EnfInvInit == EnfInit => EnfInv
BY ExtEnfAssumption DEF EnfInit, EnfInv, NothingIsLost

\* What the solvers are asked changes with the clauses alone, and what a framework
\* is worth not even with them.
LEMMA PreferredStays ==
  ASSUME UNCHANGED enforce
  PROVE  Free' = Free /\ \A A \in SUBSET Free : Preferred(A)' <=> Preferred(A)
BY DEF Free, Preferred, Admissible, Attacked

LEMMA OptimalStays ==
  ASSUME UNCHANGED <<enforce, given, clauses>>
  PROVE  Optimal' = Optimal
<1>1. Free' = Free
  BY DEF Free
<1>2. Eligible' = Eligible
  BY <1>1 DEF Eligible, Encoded, NoCounter, Attacked, Satisfies
<1> QED
  BY <1>1, <1>2 DEF Optimal, Changes

LEMMA LargerStays ==
  ASSUME UNCHANGED <<enforce, candidate>>
  PROVE  Larger(candidate)' = Larger(candidate)
BY DEF Larger, Admissible, Attacked

\* NothingIsLost survives a step that adds no clause.
LEMMA KeptClauses ==
  ASSUME NothingIsLost, UNCHANGED <<enforce, clauses>>
  PROVE  NothingIsLost'
BY PreferredStays DEF NothingIsLost, Satisfies

\* Every action preserves the invariant.
LEMMA EnfInvNext == EnfInv /\ [EnfNext]_enfVars => EnfInv'
<1> SUFFICES ASSUME EnfInv, [EnfNext]_enfVars PROVE EnfInv'
  OBVIOUS
<1>1. enforce \in SUBSET Arg /\ NothingIsLost
  BY DEF EnfInv
<1>2. CASE Solve
  <2>1. UNCHANGED <<enforce, given, clauses>>
    BY <1>2 DEF Solve
  <2>2. stage' = "error" \/ (stage' = "check" /\ candidate' \in Optimal)
    BY <1>2 DEF Solve
  <2> QED
    BY <1>1, <2>1, <2>2, KeptClauses, OptimalStays DEF EnfInv
<1>3. CASE Refine
  <2>1. stage = "check" /\ stage' = "maxsat" /\ UNCHANGED <<enforce, given>>
    BY <1>3 DEF Refine
  <2>2. PICK S \in Larger(candidate) :
          clauses' = clauses \cup {Refinement(candidate, S)}
    BY <1>3 DEF Refine
  <2>3. candidate \in SUBSET Free
    BY <2>1 DEF EnfInv, Optimal, Eligible
  <2>4. ASSUME NEW A \in SUBSET Free, Preferred(A), NEW c \in clauses'
        PROVE  Satisfies(A, c)
    <3>1. CASE c \in clauses
      BY <1>1, <2>4, <3>1 DEF NothingIsLost
    <3>2. CASE c = Refinement(candidate, S)
      BY <1>1, <2>3, <2>4, <3>2, RefinementKeepsPreferred
    <3> QED
      BY <2>2, <3>1, <3>2
  <2>5. NothingIsLost'
    BY <2>1, <2>4, PreferredStays DEF NothingIsLost, Satisfies
  <2> QED
    BY <1>1, <2>1, <2>5 DEF EnfInv
<1>4. CASE Report
  <2>1. /\ UNCHANGED <<enforce, given, clauses, candidate>>
        /\ stage = "check" /\ Larger(candidate) = {}
    BY <1>4 DEF Report
  <2> QED
    BY <1>1, <2>1, KeptClauses, OptimalStays, LargerStays DEF EnfInv
<1>5. CASE UNCHANGED enfVars
  <2>1. UNCHANGED <<enforce, given, clauses, candidate, stage>>
    BY <1>5 DEF enfVars
  <2> QED
    BY <1>1, <2>1, KeptClauses, OptimalStays, LargerStays DEF EnfInv
<1> QED
  BY <1>2, <1>3, <1>4, <1>5 DEF EnfNext

\* Every refinement clause keeps every framework that enforces the target
\* (ipamirextenf.cpp:159-187).
THEOREM RefinementIsSound == EnfSpec => []NothingIsLost
<1>1. EnfInv => NothingIsLost
  BY DEF EnfInv
<1> QED
  BY <1>1, EnfInvInit, EnfInvNext, PTL DEF EnfSpec

\* "OPTIMUM FOUND" is true: the framework printed enforces the target, and no
\* other one does with fewer changes (ipamirextenf.cpp:188-192).
THEOREM PrintsOptimum == EnfSpec => []AnswerIsOptimal
BY EnfInvAnswer, EnfInvInit, EnfInvNext, PTL DEF EnfSpec
=============================================================================
