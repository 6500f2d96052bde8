-------------------------- MODULE WCNFRunnerProofs --------------------------
(***************************************************************************)
(* What Aperture's command line run prints is right for every instance and *)
(* every moment a signal may come: the handler never returns, so that what *)
(* is printed once stays what the thread has saved.                        *)
(***************************************************************************)
EXTENDS WCNFRunner, SumProofs

\* Weights add up to natural numbers.
LEMMA CostsAreNatural == Unknown \in Nat /\ \A m \in Assignment : Cost(Soft, m) \in Nat
<1>1. IsFiniteSet(DOMAIN Soft) /\ \A l \in DOMAIN Soft : Soft[l] \in Nat
  BY LitFinite, FS_Subset, WeightAssumption, RunnerAssumption
<1>2. TotalWeight(Soft) \in Nat
  BY <1>1, TotalWeightIsSum, SumNat
<1>3. \A m \in Assignment : Cost(Soft, m) \in Nat
  BY <1>1, CostIsNatural
<1> QED
  BY <1>2, <1>3 DEF Unknown

Entry ==
  [by : {"main", "SIGINT", "SIGTERM"}, at : {"read", "status", "value", "model", "exit"},
   model : {Empty} \cup [Var -> BOOLEAN]]

Line ==
  [line : {"s"}, optimal : BOOLEAN] \cup [line : {"o"}, value : Nat]
    \cup [line : {"v"}, model : SUBSET Var]

Types == TypeOK /\ stack \in Seq(Entry) /\ output \in Seq(Line)

\* What the thread has saved: a model half written, one whose value is still to be
\* assigned, or one with its cost.
Saved ==
  /\ main \in {"copy", "local"} =>
       /\ found \in Models /\ solution \in [Var -> BOOLEAN]
       /\ \E n \in 0 .. Cardinality(Var) : copied = 1 .. n
       /\ \A v \in copied : solution[v] = (v \in found)
  /\ main = "setup" => solution = Empty
  /\ main = "copy" => Cost(Soft, found) < value
  /\ main = "local" => Cost(Soft, found) = value
  /\ main = "value" =>
       found \in Models /\ TrueIn(solution) = found /\ Cost(Soft, found) < value
  /\ main \in {"log", "solving", "returned", "printing"} /\ solution # Empty =>
       TrueIn(solution) \in Models /\ Cost(Soft, TrueIn(solution)) = value

Proved ==
  optimal =>
    /\ main \in {"returned", "printing", "exited"}
    /\ Cost(Soft, TrueIn(solution)) = value
    /\ \A m \in Models : value <= Cost(Soft, m)

\* Before the thread stops for good the search alone has printed, and every call of
\* PrintResults has read the solution that is there.
Stopped ==
  /\ stack = <<>> /\ main # "exited" => \A i \in DOMAIN output : output[i].line = "o"
  /\ main \in {"setup", "exited"} => stack = <<>>
  /\ status = "SAT" => solution # Empty
  /\ stack = <<>> => main = "exited" \/ status = "UNKNOWN"
  /\ \A i \in DOMAIN stack :
       /\ stack[i].at # "read" => stack[i].model = solution
       /\ stack[i].at \in {"value", "model"} => status = "SAT"

\* Values only fall until the first line of PrintResults, and stay from there on.
Lines ==
  \A i \in DOMAIN output :
    /\ output[i].line = "s" =>
         /\ output[i].optimal => optimal
         /\ \A j \in DOMAIN output :
              i < j /\ output[j].line = "o" => output[j].value = value
    /\ output[i].line = "o" => output[i].value >= value
    /\ output[i].line = "v" => output[i].model = TrueIn(solution)

\* SIGTERM never cuts into a copy.
Uncut ==
  "SIGINT" \notin sent =>
    /\ main \in {"copy", "local"} => stack = <<>>
    /\ \A i \in DOMAIN output :
         output[i].line = "v" => /\ output[i].model \in Models
                                 /\ Cost(Soft, output[i].model) <= value

Inv == Types /\ Saved /\ Proved /\ Stopped /\ Lines /\ Uncut

-----------------------------------------------------------------------------
LEMMA LastOf ==
  ASSUME NEW S, NEW s \in Seq(S), s # <<>>
  PROVE  Last(s) \in S /\ Len(s) \in DOMAIN s /\ Last(s) = s[Len(s)]
BY DEF Last

\* The innermost call is replaced, the others are not touched.
LEMMA TopReplaced ==
  ASSUME NEW S, NEW s \in Seq(S), s # <<>>, NEW e \in S
  PROVE  LET t == Front(s) \o <<e>>
         IN  /\ t \in Seq(S) /\ t # <<>> /\ DOMAIN t = DOMAIN s
             /\ \A i \in DOMAIN s : t[i] = s[i] \/ t[i] = e
BY DEF Front

LEMMA Appended ==
  ASSUME NEW S, NEW s \in Seq(S), NEW e \in S
  PROVE  LET t == Append(s, e)
         IN  /\ t \in Seq(S) /\ t # <<>>
             /\ DOMAIN s \subseteq Nat /\ DOMAIN t \subseteq Nat
             /\ \A i \in DOMAIN t :
                  \/ i \in DOMAIN s /\ t[i] = s[i]
                  \/ t[i] = e /\ \A j \in DOMAIN t : i >= j
OBVIOUS

LEMMA VarIsInterval == Cardinality(Var) \in Nat /\ Var = 1 .. Cardinality(Var)
BY FS_CardinalityType, VarAssumption, RunnerAssumption

\* The invariant contains what the run checks.
LEMMA InvPrinted == Inv => PrintedIsModel /\ OptimumIsOptimum
<1>1. Inv => PrintedIsModel
  BY DEF Inv, Uncut, PrintedIsModel, ModelLinesAreModels, LinesAre
<1>2. Inv => OptimumIsOptimum
  BY DEF Inv, Lines, Proved, OptimumIsOptimum
<1> QED
  BY <1>1, <1>2

LEMMA InvCovers == Inv => ValueCoversModel
<1> SUFFICES ASSUME Inv, "SIGINT" \notin sent, NEW i \in DOMAIN output,
                    NEW j \in DOMAIN output,
                    output[i].line = "o", output[j].line = "v"
             PROVE  output[i].value >= Cost(Soft, output[j].model)
  BY DEF ValueCoversModel
<1>1. output[i].value >= value /\ output[i].value \in Nat /\ value \in Nat
  BY DEF Inv, Lines, Types, TypeOK, Line
<1>2. output[j].model \in Models /\ Cost(Soft, output[j].model) <= value
  BY DEF Inv, Uncut
<1>3. Cost(Soft, output[j].model) \in Nat
  BY <1>2, CostsAreNatural DEF Models
<1> QED
  BY <1>1, <1>2, <1>3

LEMMA InvInit == Init => Inv
<1> SUFFICES ASSUME Init PROVE Inv
  OBVIOUS
<1>1. Types
  <2>1. value \in Nat /\ found \in Assignment
    BY CostsAreNatural DEF Init, Assignment
  <2>2. stack \in Seq(Entry) /\ output \in Seq(Line)
    BY DEF Init
  <2> QED
    BY <2>1, <2>2 DEF Init, Types, TypeOK
<1>2. Saved /\ Proved /\ Stopped /\ Lines /\ Uncut
  BY DEF Init, Saved, Proved, Stopped, Lines, Uncut
<1> QED
  BY <1>1, <1>2 DEF Inv

-----------------------------------------------------------------------------
\* A step of the thread: nothing runs on top, and the search alone has printed.
LEMMA ThreadSteps ==
  ASSUME Inv, Thread, main # "exited",
         FoundBySat \/ FoundByLocalSearch \/ Finish \/ Setup \/ Copy \/ Unblock
           \/ AssignValue \/ Return
  PROVE  Inv'
<1>1. /\ stack = <<>> /\ output' = output
      /\ \A i \in DOMAIN output : output[i].line = "o"
      /\ UNCHANGED <<pending, sent>>
  BY DEF Thread, Inv, Stopped, FoundBySat, FoundByLocalSearch, Finish, Setup, Copy, Unblock,
         AssignValue, Return
<1>2. (value' \in Nat /\ value' <= value) \/ value' = value => Lines'
  <2> SUFFICES ASSUME (value' \in Nat /\ value' <= value) \/ value' = value PROVE Lines'
    OBVIOUS
  <2>1. \A i \in DOMAIN output : output[i].value \in Nat /\ output[i].value >= value
    BY <1>1 DEF Inv, Types, Line, Lines
  <2>2. value \in Nat
    BY DEF Inv, Types, TypeOK
  <2> QED
    BY <1>1, <2>1, <2>2 DEF Lines
<1>3. Uncut' <=> ("SIGINT" \notin sent => (main' \in {"copy", "local"} => stack' = <<>>))
  BY <1>1 DEF Uncut
<1>4. /\ Types /\ Saved /\ Proved /\ Stopped
      /\ value \in Nat /\ found \in Assignment /\ solution \in {Empty} \cup [Var -> BOOLEAN]
      /\ pending \subseteq sent
  BY DEF Inv, Types, TypeOK
<1>5. CASE FoundBySat
  <2>1. PICK m \in Models : Cost(Soft, m) < value /\ found' = m
    BY <1>5 DEF FoundBySat
  <2>2. /\ main = "solving" /\ main' = "copy" /\ copied' = {}
        /\ solution' = [v \in Var |-> FALSE]
        /\ UNCHANGED <<value, optimal, status, stack>>
    BY <1>5 DEF FoundBySat
  <2>3. Types'
    BY <1>1, <1>4, <2>1, <2>2 DEF Types, TypeOK, Models
  <2>4. Saved'
    <3>1. 0 \in 0 .. Cardinality(Var) /\ {} = 1 .. 0
      BY VarIsInterval
    <3> QED
      BY <2>1, <2>2, <3>1 DEF Saved, Models
  <2>5. Proved' /\ Stopped'
    BY <1>1, <1>4, <2>2 DEF Proved, Stopped
  <2> QED
    BY <1>1, <1>2, <1>3, <2>2, <2>3, <2>4, <2>5 DEF Inv
<1>6. CASE FoundByLocalSearch
  <2>1. PICK m \in Models : Cost(Soft, m) < value /\ found' = m /\ value' = Cost(Soft, m)
    BY <1>6 DEF FoundByLocalSearch
  <2>2. /\ main = "solving" /\ main' = "local" /\ copied' = {} /\ solution # Empty
        /\ UNCHANGED <<solution, optimal, status, stack>>
    BY <1>6 DEF FoundByLocalSearch
  <2>3. m \in Assignment /\ Cost(Soft, m) \in Nat
    BY <2>1, CostsAreNatural DEF Models
  <2>4. Types'
    BY <1>1, <1>4, <2>1, <2>2, <2>3 DEF Types, TypeOK
  <2>5. Saved'
    <3>1. 0 \in 0 .. Cardinality(Var) /\ {} = 1 .. 0
      BY VarIsInterval
    <3> QED
      BY <1>4, <2>1, <2>2, <3>1 DEF Saved, Models
  <2>6. Proved' /\ Stopped'
    BY <1>1, <1>4, <2>2 DEF Proved, Stopped
  <2>7. Lines'
    BY <1>2, <1>4, <2>1, <2>3
  <2> QED
    BY <1>1, <1>3, <2>2, <2>4, <2>5, <2>6, <2>7 DEF Inv
<1>7. CASE Finish
  <2>1. /\ main = "solving" /\ main' = "returned"
        /\ \/ /\ optimal' = (solution # Empty)
              /\ \A m \in Models : Cost(Soft, m) >= value
           \/ optimal' = optimal
        /\ UNCHANGED <<found, copied, solution, value, status, stack>>
    BY <1>7 DEF Finish
  <2>2. optimal' => solution # Empty /\ \A m \in Models : value <= Cost(Soft, m)
    <3>1. CASE optimal' = optimal
      BY <1>4, <2>1, <3>1 DEF Proved
    <3>2. CASE optimal' = (solution # Empty) /\ \A m \in Models : Cost(Soft, m) >= value
      BY <1>4, <3>2, CostsAreNatural DEF Models
    <3> QED
      BY <2>1, <3>1, <3>2
  <2>3. Types' /\ Saved'
    BY <1>1, <1>4, <2>1 DEF Types, TypeOK, Saved, Models
  <2>4. Proved'
    BY <1>1, <1>4, <2>1, <2>2 DEF Proved, Saved, Models
  <2>5. Stopped'
    BY <1>1, <1>4, <2>1 DEF Stopped
  <2> QED
    BY <1>1, <1>2, <1>3, <2>1, <2>3, <2>4, <2>5 DEF Inv
<1>8. CASE Setup
  <2>1. /\ main = "setup" /\ main' = "solving"
        /\ UNCHANGED <<found, copied, solution, value, optimal, status, stack>>
    BY <1>8 DEF Setup, saved
  <2>2. solution = Empty
    BY <1>4, <2>1 DEF Saved
  <2>3. Types' /\ Saved' /\ Proved' /\ Stopped'
    BY <1>1, <1>4, <2>1, <2>2 DEF Types, TypeOK, Saved, Models, Proved, Stopped
  <2> QED
    BY <1>1, <1>2, <1>3, <2>1, <2>3 DEF Inv
<1>9. CASE Copy
  <2>1. /\ main \in {"copy", "local"} /\ copied # Var
        /\ LET v == Cardinality(copied) + 1
           IN  /\ solution' = [solution EXCEPT ![v] = v \in found]
               /\ copied' = copied \cup {v}
        /\ UNCHANGED <<main, found, value, optimal, status, stack>>
    BY <1>9 DEF Copy
  <2>2. PICK n \in 0 .. Cardinality(Var) : copied = 1 .. n
    BY <1>4, <2>1 DEF Saved
  <2>3. Cardinality(copied) = n /\ n \in Nat /\ n + 1 \in Var
    <3>1. n \in Nat /\ n # Cardinality(Var)
      BY <2>1, <2>2, VarIsInterval
    <3>2. Cardinality(1 .. n) = n
      BY <3>1, FS_Interval
    <3>3. n + 1 \in 1 .. Cardinality(Var)
      BY <2>2, <3>1, VarIsInterval
    <3> QED
      BY <2>2, <3>1, <3>2, <3>3, VarIsInterval
  <2>4. /\ solution' = [solution EXCEPT ![n + 1] = (n + 1) \in found]
        /\ copied' = 1 .. (n + 1) /\ n + 1 \in 0 .. Cardinality(Var)
    <3>1. copied' = copied \cup {n + 1} /\ solution' = [solution EXCEPT ![n + 1] = (n + 1) \in found]
      BY <2>1, <2>3
    <3>2. (1 .. n) \cup {n + 1} = 1 .. (n + 1) /\ n + 1 \in 0 .. Cardinality(Var)
      BY <2>3, VarIsInterval
    <3> QED
      BY <2>2, <3>1, <3>2
  <2>5. found \in Models /\ solution \in [Var -> BOOLEAN]
    BY <1>4, <2>1 DEF Saved
  <2>6. solution' \in [Var -> BOOLEAN] /\ \A v \in copied' : solution'[v] = (v \in found)
    <3>1. \A v \in copied : solution[v] = (v \in found)
      BY <1>4, <2>1 DEF Saved
    <3>2. solution' \in [Var -> BOOLEAN]
      <4> DEFINE b == (n + 1) \in found
      <4>1. b \in BOOLEAN /\ solution' = [solution EXCEPT ![n + 1] = b]
        BY <2>4
      <4> HIDE DEF b
      <4> QED
        BY <2>5, <4>1
    <3>3. solution'[n + 1] = ((n + 1) \in found)
      BY <2>3, <2>4, <2>5
    <3>4. \A v \in copied : v # n + 1 /\ solution'[v] = solution[v]
      BY <2>2, <2>3, <2>4, <2>5
    <3>5. \A v \in copied' : v \in copied \/ v = n + 1
      BY <2>1, <2>3
    <3> QED
      BY <3>1, <3>2, <3>3, <3>4, <3>5
  <2>7. Types'
    <3>1. copied' \subseteq Var
      BY <2>4, VarIsInterval
    <3> QED
      BY <1>1, <1>4, <2>1, <2>6, <3>1 DEF Types, TypeOK
  <2>8. Saved'
    BY <1>4, <2>1, <2>4, <2>5, <2>6 DEF Saved, Models
  <2>9. Proved' /\ Stopped'
    <3>1. solution # Empty => solution' # Empty
      BY <2>3, <2>6 DEF Empty
    <3> QED
      BY <1>1, <1>4, <2>1, <3>1 DEF Proved, Stopped
  <2> QED
    BY <1>1, <1>2, <1>3, <2>1, <2>7, <2>8, <2>9 DEF Inv
<1>10. CASE Unblock
  <2>1. /\ main \in {"copy", "local"} /\ copied = Var
        /\ main' = IF main = "copy" THEN "value" ELSE "log"
        /\ UNCHANGED <<found, copied, solution, value, optimal, status, stack>>
    BY <1>10 DEF Unblock, saved
  <2>2. TrueIn(solution) = found /\ found \in Models
    BY <1>4, <2>1 DEF Saved, TrueIn, Models, Assignment
  <2>3. Types' /\ Saved' /\ Proved' /\ Stopped'
    BY <1>1, <1>4, <2>1, <2>2 DEF Types, TypeOK, Saved, Models, Proved, Stopped
  <2> QED
    BY <1>1, <1>2, <1>3, <2>1, <2>3 DEF Inv
<1>11. CASE AssignValue
  <2>1. /\ main = "value" /\ main' = "log"
        /\ value' = IF Cost(Soft, found) < value THEN Cost(Soft, found) ELSE value
        /\ UNCHANGED <<found, copied, solution, optimal, status, stack>>
    BY <1>11 DEF AssignValue
  <2>2. /\ found \in Models /\ TrueIn(solution) = found /\ value' = Cost(Soft, found)
        /\ value' \in Nat
    BY <1>4, <2>1, CostsAreNatural DEF Saved, Models
  <2>3. Types' /\ Saved' /\ Proved' /\ Stopped'
    BY <1>1, <1>4, <2>1, <2>2 DEF Types, TypeOK, Saved, Models, Proved, Stopped
  <2>4. Lines'
    BY <1>2, <1>4, <2>1, <2>2 DEF Saved
  <2> QED
    BY <1>1, <1>3, <2>1, <2>3, <2>4 DEF Inv
<1>12. CASE Return
  <2>1. /\ main = "returned" /\ main' = "printing"
        /\ status' = IF solution = Empty THEN "UNSAT" ELSE "SAT"
        /\ stack' = <<PrintResults("main")>>
        /\ UNCHANGED <<found, copied, solution, value, optimal>>
    BY <1>12 DEF Return, saved
  <2>2. stack' \in Seq(Entry) /\ \A i \in DOMAIN stack' : stack'[i].at = "read"
    BY <2>1 DEF PrintResults, Entry
  <2>3. Types' /\ Saved' /\ Proved' /\ Stopped'
    BY <1>1, <1>4, <2>1, <2>2 DEF Types, TypeOK, Saved, Models, Proved, Stopped
  <2> QED
    BY <1>1, <1>2, <1>3, <2>1, <2>3 DEF Inv
<1> QED
  BY <1>5, <1>6, <1>7, <1>8, <1>9, <1>10, <1>11, <1>12

\* What the search logs is the value that is there.
LEMMA LogSteps == Inv /\ PrintLatestMaxSATValue => Inv'
<1> SUFFICES ASSUME Inv, PrintLatestMaxSATValue PROVE Inv'
  OBVIOUS
<1> DEFINE l == [line |-> "o", value |-> value]
<1>1. /\ stack = <<>> /\ main = "log" /\ main' = "solving" /\ output' = Append(output, l)
      /\ UNCHANGED <<found, copied, solution, value, optimal, status, pending, sent, stack>>
  BY DEF PrintLatestMaxSATValue, Thread, saved
<1>2. /\ Types /\ Saved /\ Proved /\ Stopped /\ Lines /\ Uncut
      /\ value \in Nat /\ output \in Seq(Line)
  BY DEF Inv, Types, TypeOK
<1>3. l \in Line /\ l.line = "o" /\ l.value = value
  BY <1>2 DEF Line
<1> HIDE DEF l
<1>4. /\ output' \in Seq(Line)
      /\ \A i \in DOMAIN output' : \/ i \in DOMAIN output /\ output'[i] = output[i]
                                   \/ output'[i] = l
  BY <1>1, <1>2, <1>3, Appended
<1>5. \A i \in DOMAIN output' : output'[i].line = "o"
  BY <1>1, <1>2, <1>3, <1>4 DEF Stopped
<1>6. Types' /\ Saved' /\ Proved' /\ Stopped'
  BY <1>1, <1>2, <1>4, <1>5 DEF Types, TypeOK, Saved, Proved, Stopped, Models
<1>7. Lines'
  <2>1. \A i \in DOMAIN output' : output'[i].value >= value
    BY <1>2, <1>3, <1>4, <1>5 DEF Lines
  <2> QED
    BY <1>1, <1>5, <2>1 DEF Lines
<1>8. Uncut'
  BY <1>1, <1>5 DEF Uncut
<1> QED
  BY <1>6, <1>7, <1>8 DEF Inv

\* A step of PrintResults rewrites the innermost call, and prints what is saved.
LEMMA PrintSteps ==
  ASSUME Inv, ReadSolution \/ PrintStatus \/ PrintValue \/ PrintModel
  PROVE  Inv'
<1> DEFINE top == Last(stack)
<1>1. /\ Types /\ Saved /\ Proved /\ Stopped /\ Lines /\ Uncut
      /\ stack \in Seq(Entry) /\ output \in Seq(Line)
      /\ value \in Nat /\ optimal \in BOOLEAN /\ status \in {"UNKNOWN", "SAT", "UNSAT"}
      /\ solution \in {Empty} \cup [Var -> BOOLEAN]
  BY DEF Inv, Types, TypeOK
<1>2. /\ stack # <<>>
      /\ UNCHANGED <<main, found, copied, solution, value, optimal, pending, sent>>
  BY DEF ReadSolution, PrintStatus, PrintValue, PrintModel, Printing, saved
<1>3. top \in Entry /\ Len(stack) \in DOMAIN stack /\ top = stack[Len(stack)]
  BY <1>1, <1>2, LastOf
<1>4. Saved' /\ Proved'
  BY <1>1, <1>2 DEF Saved, Proved, Models
<1>5. /\ top.at # "read" => top.model = solution
      /\ top.at \in {"value", "model"} => status = "SAT" /\ solution # Empty
      /\ main \notin {"setup", "exited"}
  BY <1>1, <1>2, <1>3 DEF Stopped
<1>6. "SIGINT" \notin sent => main \notin {"copy", "local"}
  BY <1>1, <1>2 DEF Uncut
<1>7. PICK e \in Entry : /\ stack' = Front(stack) \o <<e>>
                         /\ e.at # "read" /\ e.model = solution
                         /\ e.at \in {"value", "model"} => status' = "SAT"
  <2>1. CASE ReadSolution
    <3> DEFINE e == [top EXCEPT !.at = "status", !.model = solution]
    <3>1. e \in Entry /\ e.at = "status" /\ e.model = solution
      BY <1>1, <1>3 DEF Entry
    <3> QED
      BY <2>1, <3>1 DEF ReadSolution
  <2>2. ASSUME NEW at \in {"status", "value", "model"}, NEW next \in {"value", "model", "exit"},
               Printing(at, next), next \in {"value", "model"} => status' = "SAT"
        PROVE  \E e \in Entry : /\ stack' = Front(stack) \o <<e>>
                                /\ e.at # "read" /\ e.model = solution
                                /\ e.at \in {"value", "model"} => status' = "SAT"
    <3> DEFINE e == [top EXCEPT !.at = next]
    <3>1. top.at = at /\ stack' = Front(stack) \o <<e>>
      BY <2>2 DEF Printing
    <3>2. e \in Entry /\ e.at = next /\ e.model = top.model
      BY <1>3 DEF Entry
    <3> QED
      BY <1>5, <2>2, <3>1, <3>2
  <2>3. CASE PrintStatus
    <3>1. Printing("status", IF status = "SAT" THEN "value" ELSE "exit") /\ status' = status
      BY <2>3 DEF PrintStatus
    <3> QED
      BY <2>2, <3>1
  <2>4. CASE PrintValue
    <3>1. Printing("value", "model") /\ status' = status /\ top.at = "value"
      BY <2>4 DEF PrintValue, Printing
    <3> QED
      BY <1>5, <2>2, <3>1
  <2>5. CASE PrintModel
    <3>1. Printing("model", "exit") /\ status' = status
      BY <2>5 DEF PrintModel
    <3> QED
      BY <2>2, <3>1
  <2> QED
    BY <2>1, <2>3, <2>4, <2>5
<1>8. /\ stack' \in Seq(Entry) /\ stack' # <<>> /\ DOMAIN stack' = DOMAIN stack
      /\ \A i \in DOMAIN stack : stack'[i] = stack[i] \/ stack'[i] = e
  <2> DEFINE t == Front(stack) \o <<e>>
  <2>1. /\ t \in Seq(Entry) /\ t # <<>> /\ DOMAIN t = DOMAIN stack
        /\ \A i \in DOMAIN stack : t[i] = stack[i] \/ t[i] = e
    BY <1>1, <1>2, TopReplaced
  <2>2. stack' = t
    BY <1>7
  <2> QED
    BY <2>1, <2>2
<1>9. /\ status' \in {"UNKNOWN", "SAT", "UNSAT"}
      /\ status = "SAT" => status' = "SAT"
      /\ status' = "SAT" => solution # Empty
  BY <1>1 DEF Stopped, ReadSolution, PrintStatus, PrintValue, PrintModel
<1>10. Stopped'
  BY <1>1, <1>2, <1>5, <1>7, <1>8, <1>9 DEF Stopped
<1>11. \/ output' = output
       \/ \E l \in Line :
            /\ output' = Append(output, l)
            /\ l.line = "s" /\ l.optimal => optimal
            /\ l.line = "o" => l.value = value
            /\ l.line = "v" => l.model = TrueIn(solution) /\ solution # Empty
  <2>1. CASE ReadSolution
    BY <2>1 DEF ReadSolution
  <2>2. CASE PrintStatus
    <3> DEFINE b == optimal /\ status = "SAT"
    <3>1. output' = Append(output, [line |-> "s", optimal |-> b]) /\ (b => optimal)
          /\ b \in BOOLEAN
      BY <2>2 DEF PrintStatus
    <3> HIDE DEF b
    <3>2. [line |-> "s", optimal |-> b] \in Line
      BY <3>1 DEF Line
    <3> QED
      BY <3>1, <3>2
  <2>3. CASE PrintValue
    <3>1. output' = Append(output, [line |-> "o", value |-> value])
      BY <2>3 DEF PrintValue
    <3>2. [line |-> "o", value |-> value] \in Line
      BY <1>1 DEF Line
    <3> QED
      BY <3>1, <3>2
  <2>4. CASE PrintModel
    <3> DEFINE m == TrueIn(top.model)
    <3>1. output' = Append(output, [line |-> "v", model |-> m]) /\ top.at = "model"
      BY <2>4 DEF PrintModel, Printing
    <3>2. m = TrueIn(solution) /\ solution # Empty
      BY <1>5, <3>1
    <3>3. m \subseteq Var
      BY <1>1, <3>2 DEF TrueIn
    <3> HIDE DEF m
    <3>4. [line |-> "v", model |-> m] \in Line
      BY <3>3 DEF Line
    <3> QED
      BY <3>1, <3>2, <3>4
  <2> QED
    BY <2>1, <2>2, <2>3, <2>4
<1>12. CASE output' = output
  <2>1. Types'
    BY <1>1, <1>2, <1>8, <1>9, <1>12 DEF Types, TypeOK
  <2>2. Lines' /\ Uncut'
    BY <1>1, <1>2, <1>6, <1>12 DEF Lines, Uncut, Models
  <2> QED
    BY <1>4, <1>10, <2>1, <2>2 DEF Inv
<1>13. ASSUME NEW l \in Line, output' = Append(output, l),
              l.line = "s" /\ l.optimal => optimal,
              l.line = "o" => l.value = value,
              l.line = "v" => l.model = TrueIn(solution) /\ solution # Empty
       PROVE  Inv'
  <2>1. /\ output' \in Seq(Line)
        /\ DOMAIN output \subseteq Nat /\ DOMAIN output' \subseteq Nat
        /\ \A i \in DOMAIN output' :
             \/ i \in DOMAIN output /\ output'[i] = output[i]
             \/ output'[i] = l /\ \A j \in DOMAIN output' : i >= j
    BY <1>1, <1>13, Appended
  <2>2. Types'
    BY <1>1, <1>2, <1>8, <1>9, <2>1 DEF Types, TypeOK
  <2>3. Lines'
    <3> SUFFICES ASSUME NEW i \in DOMAIN output'
                 PROVE  /\ output'[i].line = "s" =>
                             /\ output'[i].optimal => optimal
                             /\ \A j \in DOMAIN output' :
                                  i < j /\ output'[j].line = "o" => output'[j].value = value
                        /\ output'[i].line = "o" => output'[i].value >= value
                        /\ output'[i].line = "v" => output'[i].model = TrueIn(solution)
      BY <1>2 DEF Lines, TrueIn
    <3>1. CASE i \in DOMAIN output /\ output'[i] = output[i]
      <4>1. \A j \in DOMAIN output' :
              \/ j \in DOMAIN output /\ output'[j] = output[j]
              \/ output'[j] = l
        BY <2>1
      <4> QED
        BY <1>1, <1>13, <3>1, <4>1 DEF Lines
    <3>2. CASE output'[i] = l /\ \A j \in DOMAIN output' : i >= j
      <4>1. i \in Nat /\ \A j \in DOMAIN output' : j \in Nat /\ ~(i < j)
        BY <2>1, <3>2
      <4> QED
        BY <1>1, <1>13, <3>2, <4>1
    <3> QED
      BY <2>1, <3>1, <3>2
  <2>4. ASSUME "SIGINT" \notin sent, solution # Empty
        PROVE  TrueIn(solution) \in Models /\ Cost(Soft, TrueIn(solution)) <= value
    <3>1. main \in {"solving", "value", "log", "returned", "printing"}
      BY <1>1, <1>5, <1>6, <2>4 DEF Types, TypeOK
    <3> QED
      BY <1>1, <2>4, <3>1, CostsAreNatural DEF Saved, Models
  <2>5. Uncut'
    BY <1>1, <1>2, <1>6, <1>13, <2>1, <2>4 DEF Uncut, Models
  <2> QED
    BY <1>4, <1>10, <2>2, <2>3, <2>5 DEF Inv
<1> QED
  BY <1>11, <1>12, <1>13

\* A signal comes, or the process ends.
LEMMA SignalSteps ==
  ASSUME Inv, Exit \/ \E s \in Signals : Send(s) \/ Deliver(s)
  PROVE  Inv'
<1>1. /\ Types /\ Saved /\ Proved /\ Stopped /\ Lines /\ Uncut
      /\ stack \in Seq(Entry) /\ pending \subseteq sent /\ sent \subseteq Signals
      /\ UNCHANGED <<found, copied, solution, value, optimal, status, output>>
  BY DEF Inv, Types, TypeOK, Exit, Send, Deliver, saved
<1>2. Lines'
  BY <1>1 DEF Lines
<1>3. CASE Exit
  <2>1. main' = "exited" /\ stack' = <<>> /\ UNCHANGED <<pending, sent>>
    BY <1>3 DEF Exit
  <2>2. Types' /\ Saved' /\ Proved' /\ Stopped' /\ Uncut'
    BY <1>1, <2>1 DEF Types, TypeOK, Saved, Proved, Stopped, Uncut, Models
  <2> QED
    BY <1>2, <2>2 DEF Inv
<1>4. ASSUME NEW s \in Signals, Send(s) PROVE Inv'
  <2>1. sent' = sent \cup {s} /\ pending' = pending \cup {s} /\ UNCHANGED <<main, stack>>
    BY <1>4 DEF Send
  <2>2. Types' /\ Saved' /\ Proved' /\ Stopped' /\ Uncut'
    BY <1>1, <2>1 DEF Types, TypeOK, Saved, Proved, Stopped, Uncut, Models
  <2> QED
    BY <1>2, <2>2 DEF Inv
<1>5. ASSUME NEW s \in Signals, Deliver(s), main = "setup" PROVE Inv'
  <2>1. main' = "exited" /\ pending' = pending \ {s} /\ UNCHANGED <<sent, stack>>
    BY <1>5 DEF Deliver
  <2>2. Types' /\ Saved' /\ Proved' /\ Stopped' /\ Uncut'
    BY <1>1, <1>5, <2>1 DEF Types, TypeOK, Saved, Proved, Stopped, Uncut, Models
  <2> QED
    BY <1>2, <2>2 DEF Inv
<1>6. ASSUME NEW s \in Signals, Deliver(s), main # "setup" PROVE Inv'
  <2>1. /\ main # "exited" /\ s \in pending \ Blocked /\ pending' = pending \ {s}
        /\ stack' = Append(stack, PrintResults(s)) /\ UNCHANGED <<main, sent>>
    BY <1>6 DEF Deliver
  <2>2. s \in {"SIGINT", "SIGTERM"}
    BY RunnerAssumption
  <2>3. /\ PrintResults(s) \in Entry /\ PrintResults(s).at = "read"
    BY <2>2 DEF PrintResults, Entry
  <2>4. /\ stack' \in Seq(Entry) /\ stack' # <<>>
        /\ \A i \in DOMAIN stack' : (i \in DOMAIN stack /\ stack'[i] = stack[i])
                                    \/ stack'[i] = PrintResults(s)
    BY <1>1, <2>1, <2>3, Appended
  <2>5. "SIGINT" \notin sent => main \notin {"copy", "local"}
    BY <1>1, <2>1, <2>2 DEF Blocked
  <2>6. Types' /\ Saved' /\ Proved'
    BY <1>1, <2>1, <2>4 DEF Types, TypeOK, Saved, Proved, Models
  <2>7. Stopped'
    BY <1>1, <1>6, <2>1, <2>3, <2>4 DEF Stopped
  <2>8. Uncut'
    BY <1>1, <2>1, <2>5 DEF Uncut, Models
  <2> QED
    BY <1>2, <2>6, <2>7, <2>8 DEF Inv
<1> QED
  BY <1>3, <1>4, <1>5, <1>6

LEMMA InvNext == Inv /\ [Next]_vars => Inv'
<1> SUFFICES ASSUME Inv, [Next]_vars PROVE Inv'
  OBVIOUS
<1>1. CASE FoundBySat \/ FoundByLocalSearch \/ Finish \/ Setup \/ Copy \/ Unblock
             \/ AssignValue \/ Return
  <2>1. Thread /\ main # "exited"
    BY <1>1 DEF FoundBySat, FoundByLocalSearch, Finish, Setup, Copy, Unblock, AssignValue,
                Return
  <2> QED
    BY <1>1, <2>1, ThreadSteps
<1>2. CASE PrintLatestMaxSATValue
  BY <1>2, LogSteps
<1>3. CASE ReadSolution \/ PrintStatus \/ PrintValue \/ PrintModel
  BY <1>3, PrintSteps
<1>4. CASE Exit \/ \E s \in Signals : Send(s) \/ Deliver(s)
  BY <1>4, SignalSteps
<1>5. CASE UNCHANGED vars
  BY <1>5 DEF vars, saved, Inv, Types, TypeOK, Saved, Proved, Stopped, Lines, Uncut, Models
<1> QED
  BY <1>1, <1>2, <1>3, <1>4, <1>5 DEF Next, Search, Run

-----------------------------------------------------------------------------
\* Whatever SIGTERM cuts into, the assignment printed satisfies the hard clauses.
THEOREM PrintsModel == Spec => []PrintedIsModel
<1>1. Inv => PrintedIsModel
  BY InvPrinted
<1> QED
  BY <1>1, InvInit, InvNext, PTL DEF Spec

\* The value SIGTERM's handler prints is never below the cost of what it prints next.
THEOREM PrintsCoveredValue == Spec => []ValueCoversModel
<1>1. Inv => ValueCoversModel
  BY InvCovers
<1> QED
  BY <1>1, InvInit, InvNext, PTL DEF Spec

\* What is called optimal is optimal, under any mix of the two signals.
THEOREM PrintsOptimumOnly == Spec => []OptimumIsOptimum
<1>1. Inv => OptimumIsOptimum
  BY InvPrinted
<1> QED
  BY <1>1, InvInit, InvNext, PTL DEF Spec
=============================================================================
