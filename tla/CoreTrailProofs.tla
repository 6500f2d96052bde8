-------------------------- MODULE CoreTrailProofs --------------------------
(***************************************************************************)
(* What core-trail's solve promises, for every instance, profile and       *)
(* sequence of client calls: it answers as ipamir.h says (ContractMet) and *)
(* works as an abstract core-guided solver does (CoreGuidedImplemented).   *)
(* The reformulation it works on is exact at every step                    *)
(* (ReformulationIsExact), the literals it calls impossible are            *)
(* (ImpossibleFollows), the cores it remembers for a later call are cores  *)
(* of clauses that are still there (KeptCoresAreCores), and none of the    *)
(* consistency checks listed in RC2Engine throws (NothingIsThrown).        *)
(*                                                                         *)
(* The log of consequences is a ledger: Sound says that replaying its      *)
(* entries from the declared weights gives the weights in force, that an   *)
(* entry rests only on earlier ones, and that each is implied by the       *)
(* clauses and assumptions it was derived from.  The proof shows that      *)
(* every operation of RC2Engine keeps an engine sound, the rollback        *)
(* included, then that every step of CoreTrail keeps IndInv, and reads     *)
(* the properties off IndInv.                                              *)
(***************************************************************************)
EXTENDS CoreTrail, SumProofs

(***************************************************************************)
(* What holds of the engine between two steps.  log is its log of          *)
(* consequences and R the positions of those that are in force: all of     *)
(* them, except in the middle of a rollback.                               *)
(***************************************************************************)
Originals == {Orig(l) : l \in Lit}

\* The output of the totalizer before k.
Prev(k) == AtMostFalse(k.over, k.bnd - 1)

\* The literals that may carry a weight.
Bearer(x) ==
  \/ x \in Originals
  \/ /\ IsFiniteSet(x.over) /\ x.bnd \in Nat
     /\ x = IF IsSum(x) THEN AtMostFalse(x.over, x.bnd) ELSE AnyOf(x.over)

\* The literals a consequence gave a weight, and those it found impossible.
Given(c) == DOMAIN c.wdelta \ Taken(c)
Units(c) == c.added \ Given(c)

\* What a consequence did to the weight of x, what x weighs in the engine, and
\* what the client declared for it.
Change(c, x) == IF x \in DOMAIN c.wdelta THEN c.wdelta[x] ELSE 0
WeightIn(e, x) == IF x \in DOMAIN e.wght THEN e.wght[x] ELSE 0
Declared(d, x) == IF x \in Originals /\ x.name \in DOMAIN d THEN d[x.name] ELSE 0

Changes(log, R, x) == SumFunctionOnSet([i \in R |-> Change(log[i], x)], R)

\* What assignment m leaves unpaid of x, and of the outputs that k introduces.
Unmet(x, m) == IF m \in x.sat THEN 0 ELSE 1
Gap(k, m) == Excess(k, m) - IF k.bnd > 1 THEN Excess(Prev(k), m) ELSE 0

UnmetPart(c, x, m) == c.wdelta[x] * Unmet(x, m)
UnmetIn(c, m) ==
  SumFunctionOnSet([x \in DOMAIN c.wdelta |-> UnmetPart(c, x, m)], DOMAIN c.wdelta)
GapPart(c, k, m) == c.wdelta[k] * Gap(k, m)
GapIn(c, m) == SumFunctionOnSet([k \in c.created |-> GapPart(c, k, m)], c.created)

\* A consequence charges m what it takes off m's other debts.
Balanced(c, m) == c.weight + (UnmetIn(c, m) + GapIn(c, m)) = 0

IsEntry(c) ==
  /\ c.weight \in Nat
  /\ IsFiniteSet(DOMAIN c.wdelta)
  /\ \A x \in DOMAIN c.wdelta : Bearer(x) /\ c.wdelta[x] \in Int \ {0}
  /\ c.removed # {} /\ c.removed \subseteq Taken(c) /\ Taken(c) \subseteq c.core
  /\ c.created = {x \in Given(c) : IsSum(x)}
  /\ Given(c) \subseteq c.added
  /\ \A x \in Given(c) : /\ x \notin Originals
                         /\ x.bnd <= 1 => x.over = Taken(c)
                         /\ x.bnd > 1 => Prev(x) \in Taken(c)

EngineRecord(e) ==
  e = [cost |-> e.cost, wght |-> e.wght, active |-> e.active, impossible |-> e.impossible,
       swgt |-> e.swgt, bnds |-> e.bnds, bnds_history |-> e.bnds_history,
       original |-> e.original, log |-> e.log, thrown |-> e.thrown]

IsEngine(e) ==
  /\ EngineRecord(e)
  /\ e.cost \in Nat
  /\ IsFiniteSet(DOMAIN e.wght)
  /\ PositiveWeights(e.wght)
  /\ \A x \in Weighted(e) : Bearer(x)
  /\ e.active \subseteq Weighted(e)
  /\ ~e.thrown

\* The engine is what the declared weights and the consequences in R make it.
Ledger(e, log, R, d) ==
  /\ e.cost = SumFunctionOnSet([i \in R |-> log[i].weight], R)
  /\ \A x : WeightIn(e, x) = Declared(d, x) + Changes(log, R, x)
  /\ DOMAIN e.swgt = UNION {log[i].created : i \in R}
  /\ \A i \in R : \A k \in log[i].created : e.swgt[k] = log[i].wdelta[k]
  /\ \A x \in e.impossible : \E i \in R : x \in Units(log[i])
  /\ \A i \in R : log[i].removed \cap Weighted(e) = {}

\* How the consequences rest on each other.
Chained(log, R, d) ==
  /\ \A i \in R : IsEntry(log[i])
  /\ \A i \in R : \A x \in Taken(log[i]) \ Originals : \E j \in R : j < i /\ x \in Given(log[j])
  /\ \A i \in R : \A l \in Lit : Orig(l) \in Taken(log[i]) => l \in DOMAIN d
  /\ \A i, j \in R : i # j => Given(log[i]) \cap Given(log[j]) = {}
  /\ \A i, j \in R : \A k \in log[i].created :
       k.bnd > 1 /\ Prev(k) \in log[j].created => log[i].wdelta[k] = log[j].wdelta[Prev(k)]
  /\ \A i \in R : \A x \in Taken(log[i]) :
       IsSum(x) /\ HasNextOutput(x) => \E j \in R : NextOutput(x) \in log[j].created

\* Why they hold: H are the assignments the hard clauses allow, A the literals assumed.
Implied(log, R, H, A) ==
  /\ \A i \in R : H \cap ModelsOf(log[i].core) = {}
  /\ \A i \in R : \A x \in log[i].core \ Taken(log[i]) :
       x \in A \/ \E j \in R : j < i /\ x \in Units(log[j])
  /\ \A i \in R : Units(log[i]) # {} =>
       \E x \in log[i].core : /\ Taken(log[i]) = {x} /\ ~IsSum(x)
                             /\ Units(log[i]) \subseteq {Neg(x)}
  /\ \A i \in R : \A m \in H : m \in ModelsOf(log[i].core \ Taken(log[i])) => Balanced(log[i], m)

\* What the engine has on file of each literal: a bound, in force or kept for a
\* rollback, of every sum; where every selector comes from; and, of the literals a
\* consequence took without weight now, the consequence that took the last of it.
Booked(e, log, R) ==
  /\ \A x \in Weighted(e) : IF IsSum(x) THEN x \in e.bnds ELSE x \in e.original
  /\ e.bnds \subseteq DOMAIN e.swgt
  /\ DOMAIN e.swgt \subseteq e.bnds \cup e.bnds_history
  /\ \A x \in e.original : ~IsSum(x)
  /\ \A i \in R : \A x \in Taken(log[i]) : IsSum(x) \/ x \in e.original
  /\ \A i \in R : \A x \in Taken(log[i]) \ Weighted(e) :
       \E j \in R : j >= i /\ x \in log[j].removed

Sound(e, H, A, d) ==
  /\ IsEngine(e)
  /\ \A l \in DOMAIN d : d[l] \in Nat
  /\ \E S : e.log \in Seq(S)
  /\ Ledger(e, e.log, DOMAIN e.log, d)
  /\ Chained(e.log, DOMAIN e.log, d)
  /\ Implied(e.log, DOMAIN e.log, H, A)
  /\ Booked(e, e.log, DOMAIN e.log)

(***************************************************************************)
(* Literals.                                                               *)
(***************************************************************************)
\* The fields of an original literal: it holds where the client's literal does.
LEMMA OrigFields ==
  ASSUME NEW l
  PROVE  /\ Orig(l).name = l /\ Orig(l).bnd = 0 /\ Orig(l).over = {} /\ ~IsSum(Orig(l))
         /\ Orig(l).sat = {m \in Assignment : Holds(m, l)}
  BY DEF Orig, IsSum

\* The fields of a totalizer output: it holds where at most b literals are false.
LEMMA TotalizerFields ==
  ASSUME NEW c, NEW b
  PROVE  /\ AtMostFalse(c, b).name = 0 /\ AtMostFalse(c, b).bnd = b
         /\ AtMostFalse(c, b).over = c
         /\ AtMostFalse(c, b).sat
              = {m \in Assignment : Cardinality({l \in c : m \notin l.sat}) <= b}
  BY DEF AtMostFalse

\* The fields of a clique's selector: it holds where one literal of the clique does.
LEMMA SelectorFields ==
  ASSUME NEW c
  PROVE  /\ AnyOf(c).name = 0 /\ AnyOf(c).bnd = 0 /\ AnyOf(c).over = c /\ ~IsSum(AnyOf(c))
         /\ AnyOf(c).sat = UNION {l.sat : l \in c}
  BY DEF AnyOf, IsSum

\* No literal is zero.
LEMMA LitNotZero == \A l \in Lit : l \in Int /\ l # 0 /\ -l \in Lit
  BY VarAssumption DEF Lit

\* An original literal is the client's literal of its name.
LEMMA OriginalFields ==
  ASSUME NEW x \in Originals
  PROVE  x.name \in Lit /\ x = Orig(x.name) /\ x.bnd = 0 /\ ~IsSum(x)
  BY OrigFields DEF Originals

\* Totalizer outputs and selectors are not the client's literals.
LEMMA NotOriginal ==
  ASSUME NEW c, NEW b
  PROVE  AtMostFalse(c, b) \notin Originals /\ AnyOf(c) \notin Originals
  BY OriginalFields, TotalizerFields, SelectorFields, LitNotZero

\* What negation does to the fields of a literal.
LEMMA NegFields ==
  ASSUME NEW x, DOMAIN x = {"name", "pos", "over", "bnd", "sat"}
  PROVE  \E q : /\ Neg(x) = [x EXCEPT !.name = -x.name, !.pos = q, !.sat = Assignment \ x.sat]
                /\ x.name # 0 => q = x.pos
                /\ x.name = 0 /\ x.pos = TRUE => q = FALSE
<1> DEFINE q == IF x.name = 0 THEN ~x.pos ELSE x.pos
<1>1. Neg(x) = [x EXCEPT !.name = -x.name, !.pos = q, !.sat = Assignment \ x.sat]
  BY Zenon DEF Neg
<1>2. x.name # 0 => q = x.pos
  BY Zenon
<1>3. x.name = 0 /\ x.pos = TRUE => q = FALSE
  BY Zenon
<1> HIDE DEF q
<1> QED
  BY <1>1, <1>2, <1>3

\* The negation of a client's literal is a client's literal.
LEMMA NegOriginal ==
  ASSUME NEW l \in Lit
  PROVE  Neg(Orig(l)) = Orig(-l)
<1>1. l \in Int /\ l # 0 /\ \A m : Holds(m, -l) <=> ~Holds(m, l)
  BY LitNotZero DEF Holds
<1>2. Assignment \ {m \in Assignment : Holds(m, l)} = {m \in Assignment : Holds(m, -l)}
  BY <1>1
<1> DEFINE x == Orig(l)
<1>3. DOMAIN x = {"name", "pos", "over", "bnd", "sat"}
  BY DEF Orig
<1>4. PICK q : /\ Neg(x) = [x EXCEPT !.name = -x.name, !.pos = q, !.sat = Assignment \ x.sat]
               /\ x.name # 0 => q = x.pos
  <2> HIDE DEF x
  <2> QED
    BY <1>3, NegFields
<1>5. q = TRUE
  BY <1>1, <1>4 DEF Orig
<1> QED
  BY <1>1, <1>2, <1>4, <1>5 DEF Orig

\* The negation of a totalizer output or a selector carries no weight.
LEMMA NegNoBearer ==
  ASSUME NEW x, Bearer(x), Bearer(Neg(x))
  PROVE  x \in Originals
<1> SUFFICES ASSUME x \notin Originals PROVE FALSE
  OBVIOUS
<1>1. x = AtMostFalse(x.over, x.bnd) \/ x = AnyOf(x.over)
  BY DEF Bearer
<1>2. x.name = 0 /\ DOMAIN x = {"name", "pos", "over", "bnd", "sat"}
  BY <1>1 DEF AtMostFalse, AnyOf
<1>3. x.pos = TRUE
  BY <1>1 DEF AtMostFalse, AnyOf
<1>4. PICK q : /\ Neg(x) = [x EXCEPT !.name = -x.name, !.pos = q, !.sat = Assignment \ x.sat]
               /\ x.name = 0 /\ x.pos = TRUE => q = FALSE
  BY <1>2, NegFields
<1>5. Neg(x).name = -x.name /\ Neg(x).pos = q
  BY <1>2, <1>4
<1>6. Neg(x).name = 0
  <2>1. \A n \in Int : n >= 0 /\ n <= 0 => -n >= 0 /\ -n <= 0 /\ -n \in Int
    OBVIOUS
  <2> DEFINE n == x.name
  <2>2. n \in Int /\ n >= 0 /\ n <= 0
    BY <1>2
  <2>3. Neg(x).name = -n
    BY <1>5
  <2> HIDE DEF n
  <2>4. -n \in Int /\ -n >= 0 /\ -n <= 0
    BY <2>1, <2>2
  <2> QED
    BY <2>3, <2>4
<1>7. Neg(x).pos = FALSE
  <2>1. q = FALSE
    BY <1>2, <1>3, <1>4, Zenon
  <2> QED
    BY <1>5, <2>1, Zenon
<1>8. Neg(x) \in Originals => FALSE
  BY <1>6, OriginalFields, LitNotZero
<1>9. Neg(x).pos = TRUE
  BY <1>8 DEF Bearer, AtMostFalse, AnyOf
<1> QED
  BY <1>7, <1>9

(***************************************************************************)
(* What the operations on the engine do to its fields.                     *)
(***************************************************************************)
\* The pieces of ChargeMany.
Roots(lits) ==
  IF Cardinality(lits) > 1 /\ ~Complementary(lits) THEN {AtMostFalse(lits, 1)} ELSE {}

Nexts(e, lits) ==
  {l \in lits : IsSum(l) /\ HasNextOutput(l) /\ NextOutput(l) \notin DOMAIN e.swgt}

LiveRoots(e, lits) == Roots(lits) \cap e.bnds

Fresh(e, lits) == {NextOutput(l) : l \in Nexts(e, lits)} \cup (Roots(lits) \ LiveRoots(e, lits))

FreshWeights(e, lits) ==
  [k \in Fresh(e, lits) |->
     IF k \in Roots(lits) THEN LeastWeight(e, lits)
     ELSE e.swgt[CHOOSE l \in Nexts(e, lits) : NextOutput(l) = k]]

\* The parts of a consequence.
HasParts(c, core, w, removed, added, created) ==
  /\ c.core = core /\ c.weight = w
  /\ c.removed = removed /\ c.added = added /\ c.created = created

\* What a clique that all but one of must be paid charges.
Penalty(q, w) == w * (Cardinality(q) - 1)

\* What c did to the weights: w less for lits, new weights for K only.
Takes(c, lits, w, K) ==
  /\ DOMAIN c.wdelta = K \cup lits
  /\ \A l \in lits \ K : c.wdelta[l] = -w

GivesWeight(c, k, w) == c.wdelta[k] = w

\* f has the bounds of e, those of the sums c created, and keeps those of the
\* sums c removed for a rollback.
Filters(e, f, c) ==
  /\ f.bnds = (e.bnds \cup c.created) \ c.removed
  /\ f.bnds_history = e.bnds_history \cup ((e.bnds \cup c.created) \cap c.removed)

\* f has charged c.
AfterCharge(e, f, c) ==
  /\ EngineRecord(f) /\ (~e.thrown => ~f.thrown)
  /\ f.log = Append(e.log, c)
  /\ f.cost = e.cost + c.weight
  /\ Filters(e, f, c)

\* The parts of a consequence built from them.
LEMMA ConsequenceParts ==
  ASSUME NEW core, NEW w, NEW wdelta, NEW removed, NEW added, NEW created,
         NEW c, c = Consequence(core, w, wdelta, removed, added, created)
  PROVE  HasParts(c, core, w, removed, added, created) /\ c.wdelta = wdelta
  BY DEF Consequence, HasParts

\* The fields of the engine after ChargeMany, where the totalizer is a new one.
LEMMA ManyFields ==
  ASSUME NEW e, EngineRecord(e), NEW core, NEW lits, NEW level, NEW f,
         f = ChargeMany(e, core, lits, level), LiveRoots(e, lits) = {},
         Fresh(e, lits) \cap e.bnds = {}, NEW w, w = LeastWeight(e, lits)
  PROVE  /\ f.wght = Over(FreshWeights(e, lits), Reduced(e, lits, w))
         /\ f.active = (e.active \ (Dead(e, lits, w) \cup Lowered(e, lits, w, level))) \cup Fresh(e, lits)
         /\ f.impossible = e.impossible
         /\ f.swgt = Over(FreshWeights(e, lits), e.swgt)
         /\ f.original = e.original
         /\ \E c : /\ AfterCharge(e, f, c)
                   /\ HasParts(c, core, w, Dead(e, lits, w), Fresh(e, lits), Fresh(e, lits))
                   /\ Takes(c, lits, w, Fresh(e, lits))
                   /\ \A k \in Fresh(e, lits) : c.wdelta[k] = FreshWeights(e, lits)[k]
<1> DEFINE p == w
           r == Over(FreshWeights(e, lits), Reduced(e, lits, w))
           a == (e.active \ (Dead(e, lits, w) \cup Lowered(e, lits, w, level))) \cup Fresh(e, lits)
           n == e.impossible
           s == Over(FreshWeights(e, lits), e.swgt)
           u == Fresh(e, lits)
           delta == Over(FreshWeights(e, lits), [l \in lits |-> -w])
           c == Consequence(core, p, delta, Dead(e, lits, w), u, Fresh(e, lits))
           g == Append(e.log, c)
           D0 == DOMAIN FreshWeights(e, lits)
           a0 == (e.active \ (Dead(e, lits, w) \cup Lowered(e, lits, w, level)))
                   \cup D0 \cup LiveRoots(e, lits)
           k0 == D0 \cup (LiveRoots(e, lits) \ e.active)
           g0 == Append(e.log, Consequence(core, p, delta, Dead(e, lits, w), k0, D0))
           x == Dead(e, lits, w)
           b0 == (e.bnds \cup D0) \ x
           h0 == e.bnds_history \cup ((e.bnds \cup D0) \cap x)
           b == (e.bnds \cup Fresh(e, lits)) \ x
           h == e.bnds_history \cup ((e.bnds \cup Fresh(e, lits)) \cap x)
           o == e.original
           t == \/ e.thrown
                \/ \E k \in LiveRoots(e, lits) :
                     k \notin DOMAIN e.swgt \cap Weighted(e) \/ e.swgt[k] # w
                \/ \E l \in Nexts(e, lits) : NextOutput(l) \in e.bnds
<1>0. f = [e EXCEPT !.cost = @ + p, !.wght = r, !.active = a0, !.swgt = s, !.bnds = b0,
                    !.bnds_history = h0, !.log = g0, !.thrown = t]
  BY DEF ChargeMany, FreshWeights, Fresh, LiveRoots, Nexts, Roots
<1>1. f = [e EXCEPT !.cost = @ + p, !.wght = r, !.active = a, !.swgt = s, !.bnds = b,
                    !.bnds_history = h, !.log = g, !.thrown = t]
  <2>1. D0 = Fresh(e, lits)
    BY DEF FreshWeights
  <2>2. a0 = a /\ k0 = u /\ b0 = b /\ h0 = h
    BY <2>1
  <2>3. g0 = g
    BY <2>1, <2>2
  <2> HIDE DEF a0, a, b0, b, h0, h, g0, g, t, s, r, p
  <2> QED
    BY <1>0, <2>2, <2>3
<1>2. DOMAIN e = {"cost", "wght", "active", "impossible", "swgt", "bnds", "bnds_history",
                  "original", "log", "thrown"}
  BY DEF EngineRecord
<1>3. /\ DOMAIN delta = Fresh(e, lits) \cup lits
      /\ \A l \in lits \ Fresh(e, lits) : delta[l] = -w
      /\ \A k \in Fresh(e, lits) : delta[k] = FreshWeights(e, lits)[k]
  BY DEF Over, FreshWeights
<1> HIDE DEF delta, p, u
<1>4. HasParts(c, core, p, Dead(e, lits, w), u, Fresh(e, lits)) /\ c.wdelta = delta
  BY ConsequenceParts
<1>5. ~e.thrown => ~t
  BY DEF Fresh
<1> HIDE DEF r, a, n, s, b, h, o, c, g, t, x
<1>6. f = [cost |-> e.cost + p, wght |-> r, active |-> a, impossible |-> n,
           swgt |-> s, bnds |-> b, bnds_history |-> h, original |-> o,
           log |-> g, thrown |-> t]
  BY <1>1, <1>2 DEF n, o
<1>7. /\ EngineRecord(f) /\ f.cost = e.cost + p /\ f.wght = r /\ f.active = a
      /\ f.impossible = n /\ f.swgt = s /\ f.bnds = b /\ f.bnds_history = h
      /\ f.original = o /\ f.log = g
  BY <1>6 DEF EngineRecord
<1>8. f.thrown = t
  BY <1>6
<1>9. ~e.thrown => ~f.thrown
  BY <1>5, <1>8, Zenon
<1>10. AfterCharge(e, f, c)
  BY <1>4, <1>7, <1>9 DEF AfterCharge, HasParts, Filters, g, b, h, x
<1>11. Takes(c, lits, w, Fresh(e, lits))
  BY <1>3, <1>4 DEF Takes
<1> QED
  BY <1>3, <1>4, <1>7, <1>10, <1>11 DEF r, a, n, s, o, p, u

\* The fields of the engine after ChargeUnit.
UnitEffect(e, f, l) ==
  /\ f.wght = Drop(e.wght, {l})
  /\ f.active = e.active \ {l}
  /\ f.impossible = e.impossible \cup {Neg(l)}
  /\ f.swgt = e.swgt
  /\ f.original = e.original

\* Charging a single literal removes its weight and logs one consequence.
LEMMA UnitFields ==
  ASSUME NEW e, EngineRecord(e), NEW core, NEW l, NEW f, f = ChargeUnit(e, core, l)
  PROVE  /\ UnitEffect(e, f, l)
         /\ \E c : /\ AfterCharge(e, f, c)
                   /\ HasParts(c, core, e.wght[l], {l}, {Neg(l)}, {})
                   /\ Takes(c, {l}, e.wght[l], {})
<1> DEFINE w == e.wght[l]
           p == w
           r == Drop(e.wght, {l})
           a == e.active \ {l}
           n == e.impossible \cup {Neg(l)}
           s == e.swgt
           b == e.bnds \ {l}
           h == e.bnds_history \cup (e.bnds \cap {l})
           o == e.original
           u == {Neg(l)}
           delta == [k \in {l} |-> -w]
           c == Consequence(core, p, delta, {l}, u, {})
           g == Append(e.log, c)
<1>1. f = [e EXCEPT !.cost = @ + p, !.wght = r, !.active = a, !.impossible = n,
                    !.bnds = b, !.bnds_history = h, !.log = g]
  BY DEF ChargeUnit
<1>2. DOMAIN e = {"cost", "wght", "active", "impossible", "swgt", "bnds", "bnds_history",
                  "original", "log", "thrown"}
  BY DEF EngineRecord
<1>3. /\ DOMAIN delta = {} \cup {l}
      /\ \A x \in {l} \ {} : delta[x] = -w
  OBVIOUS
<1> HIDE DEF delta, p, u
<1>4. HasParts(c, core, p, {l}, u, {}) /\ c.wdelta = delta
  BY ConsequenceParts
<1> HIDE DEF r, a, n, s, b, h, o, c, g
<1>6. f = [cost |-> e.cost + p, wght |-> r, active |-> a, impossible |-> n,
           swgt |-> s, bnds |-> b, bnds_history |-> h, original |-> o,
           log |-> g, thrown |-> e.thrown]
  BY <1>1, <1>2 DEF s, o
<1>7. /\ EngineRecord(f) /\ f.cost = e.cost + p /\ f.wght = r /\ f.active = a
      /\ f.impossible = n /\ f.swgt = s /\ f.bnds = b /\ f.bnds_history = h
      /\ f.original = o /\ f.log = g
  BY <1>6 DEF EngineRecord
<1>8. f.thrown = e.thrown
  BY <1>6
<1>9. ~e.thrown => ~f.thrown
  BY <1>8, Zenon
<1>10. AfterCharge(e, f, c)
  BY <1>4, <1>7, <1>9 DEF AfterCharge, HasParts, Filters, g, b, h
<1>11. Takes(c, {l}, e.wght[l], {})
  BY <1>3, <1>4 DEF Takes
<1> QED
  BY <1>4, <1>7, <1>10, <1>11 DEF UnitEffect, r, a, n, s, o, p, u

\* The fields of the engine after a round over the clique q.
CliqueEffect(e, f, q, level, w) ==
  /\ f.wght = Over(Maps(AnyOf(q), w), Reduced(e, q, w))
  /\ f.active = (e.active \ (Dead(e, q, w) \cup Lowered(e, q, w, level)))
                  \cup (IF w >= level THEN {AnyOf(q)} ELSE {})
  /\ f.impossible = e.impossible
  /\ f.swgt = e.swgt
  /\ f.original = e.original \cup {AnyOf(q)}

\* A round over a clique lowers its weights, gives the rest to the selector and
\* logs one consequence.
LEMMA CliqueFields ==
  ASSUME NEW e, EngineRecord(e), NEW q, NEW level, NEW f, f = ProcessClique(e, q, level),
         NEW w, w = LeastWeight(e, q)
  PROVE  /\ CliqueEffect(e, f, q, level, w)
         /\ \E c : /\ AfterCharge(e, f, c)
                   /\ HasParts(c, q, Penalty(q, w), Dead(e, q, w), {AnyOf(q)}, {})
                   /\ Takes(c, q, w, {AnyOf(q)})
                   /\ GivesWeight(c, AnyOf(q), w)
<1> DEFINE p == Penalty(q, w)
           r == Over(Maps(AnyOf(q), w), Reduced(e, q, w))
           a == (e.active \ (Dead(e, q, w) \cup Lowered(e, q, w, level)))
                         \cup (IF w >= level THEN {AnyOf(q)} ELSE {})
           n == e.impossible
           s == e.swgt
           x == Dead(e, q, w)
           b == e.bnds \ x
           h == e.bnds_history \cup (e.bnds \cap x)
           o == e.original \cup {AnyOf(q)}
           k == {AnyOf(q)}
           delta == Over(Maps(AnyOf(q), w), [l \in q |-> -w])
           c == Consequence(q, p, delta, Dead(e, q, w), k, {})
           g == Append(e.log, c)
<1>1. f = [e EXCEPT !.cost = @ + p, !.wght = r, !.active = a, !.bnds = b,
                    !.bnds_history = h, !.original = o, !.log = g]
  BY DEF ProcessClique, Penalty
<1>2. DOMAIN e = {"cost", "wght", "active", "impossible", "swgt", "bnds", "bnds_history",
                  "original", "log", "thrown"}
  BY DEF EngineRecord
<1>3. /\ DOMAIN delta = {AnyOf(q)} \cup q
      /\ \A l \in q \ {AnyOf(q)} : delta[l] = -w
      /\ delta[AnyOf(q)] = w
  BY DEF Over, Maps
<1> HIDE DEF delta, p, k
<1>4. HasParts(c, q, p, Dead(e, q, w), k, {}) /\ c.wdelta = delta
  BY ConsequenceParts
<1> HIDE DEF r, a, n, s, b, h, o, x, c, g
<1>6. f = [cost |-> e.cost + p, wght |-> r, active |-> a, impossible |-> n,
           swgt |-> s, bnds |-> b, bnds_history |-> h, original |-> o,
           log |-> g, thrown |-> e.thrown]
  BY <1>1, <1>2 DEF n, s
<1>7. /\ EngineRecord(f) /\ f.cost = e.cost + p /\ f.wght = r /\ f.active = a
      /\ f.impossible = n /\ f.swgt = s /\ f.bnds = b /\ f.bnds_history = h
      /\ f.original = o /\ f.log = g
  BY <1>6 DEF EngineRecord
<1>8. f.thrown = e.thrown
  BY <1>6
<1>9. ~e.thrown => ~f.thrown
  BY <1>8, Zenon
<1>10. AfterCharge(e, f, c)
  BY <1>4, <1>7, <1>9 DEF AfterCharge, HasParts, Filters, g, b, h, x
<1>11. Takes(c, q, w, {AnyOf(q)})
  BY <1>3, <1>4 DEF Takes
<1>12. GivesWeight(c, AnyOf(q), w)
  BY <1>3, <1>4 DEF GivesWeight
<1> QED
  BY <1>4, <1>7, <1>10, <1>11, <1>12 DEF CliqueEffect, r, a, n, s, o, p, k

\* The fields of the engine after Cancel.
LEMMA CancelFields ==
  ASSUME NEW e, EngineRecord(e), NEW core, NEW lits, NEW f, f = Cancel(e, core, lits),
         NEW w, w = LeastWeight(e, lits)
  PROVE  /\ f.wght = Reduced(e, lits, w)
         /\ f.active = e.active \ Dead(e, lits, w)
         /\ f.impossible = e.impossible
         /\ f.swgt = e.swgt
         /\ f.original = e.original
         /\ \E c : /\ AfterCharge(e, f, c)
                   /\ HasParts(c, core, w, Dead(e, lits, w), {}, {})
                   /\ Takes(c, lits, w, {})
<1> DEFINE p == w
           r == Reduced(e, lits, w)
           a == e.active \ Dead(e, lits, w)
           n == e.impossible
           s == e.swgt
           x == Dead(e, lits, w)
           b == e.bnds \ x
           h == e.bnds_history \cup (e.bnds \cap x)
           o == e.original
           k == {}
           delta == [l \in lits |-> -w]
           c == Consequence(core, p, delta, Dead(e, lits, w), k, {})
           g == Append(e.log, c)
<1>1. f = [e EXCEPT !.cost = @ + p, !.wght = r, !.active = a, !.bnds = b,
                    !.bnds_history = h, !.log = g]
  BY DEF Cancel
<1>2. DOMAIN e = {"cost", "wght", "active", "impossible", "swgt", "bnds", "bnds_history",
                  "original", "log", "thrown"}
  BY DEF EngineRecord
<1>3. /\ DOMAIN delta = {} \cup lits
      /\ \A l \in lits \ {} : delta[l] = -w
  OBVIOUS
<1> HIDE DEF delta, p, k
<1>4. HasParts(c, core, p, Dead(e, lits, w), k, {}) /\ c.wdelta = delta
  BY ConsequenceParts
<1> HIDE DEF r, a, n, s, b, h, o, x, c, g
<1>6. f = [cost |-> e.cost + p, wght |-> r, active |-> a, impossible |-> n,
           swgt |-> s, bnds |-> b, bnds_history |-> h, original |-> o,
           log |-> g, thrown |-> e.thrown]
  BY <1>1, <1>2 DEF n, s, o
<1>7. /\ EngineRecord(f) /\ f.cost = e.cost + p /\ f.wght = r /\ f.active = a
      /\ f.impossible = n /\ f.swgt = s /\ f.bnds = b /\ f.bnds_history = h
      /\ f.original = o /\ f.log = g
  BY <1>6 DEF EngineRecord
<1>8. f.thrown = e.thrown
  BY <1>6
<1>9. ~e.thrown => ~f.thrown
  BY <1>8, Zenon
<1>10. AfterCharge(e, f, c)
  BY <1>4, <1>7, <1>9 DEF AfterCharge, HasParts, Filters, g, b, h, x
<1>11. Takes(c, lits, w, {})
  BY <1>3, <1>4 DEF Takes
<1> QED
  BY <1>4, <1>7, <1>10, <1>11 DEF r, a, n, s, o, p, k

(***************************************************************************)
(* A charge appends a consequence to the log.                              *)
(***************************************************************************)
\* What an entry did to a weight is a number, positive only where it gave one.
LEMMA ChangeType ==
  ASSUME NEW c, IsEntry(c), NEW x
  PROVE  /\ Change(c, x) \in Int
         /\ Change(c, x) > 0 => x \in Given(c)
         /\ Change(c, x) < 0 => x \in Taken(c)
         /\ x \in Given(c) => Change(c, x) > 0
         /\ x \in Taken(c) => Change(c, x) < 0
         /\ x \in Originals => Change(c, x) <= 0
  BY DEF IsEntry, Change, Given, Taken

\* The changes a set of consequences made to a weight.
LEMMA ChangesIntegral ==
  ASSUME NEW log, NEW R, IsFiniteSet(R), \A i \in R : IsEntry(log[i]), NEW x
  PROVE  Integral([i \in R |-> Change(log[i], x)], R)
  BY ChangeType DEF Integral

\* The changes to a weight sum to a number, positive only if one of them gave weight.
LEMMA ChangesType ==
  ASSUME NEW log, NEW R, IsFiniteSet(R), \A i \in R : IsEntry(log[i]), NEW x
  PROVE  /\ Changes(log, R, x) \in Int
         /\ Changes(log, R, x) > 0 => \E i \in R : x \in Given(log[i])
<1> DEFINE F == [i \in R |-> Change(log[i], x)]
<1>1. Integral(F, R)
  BY ChangesIntegral
<1>2. ASSUME \A i \in R : x \notin Given(log[i])
      PROVE  \A i \in R : F[i] <= 0
  BY <1>2, ChangeType
<1> HIDE DEF F
<1>3. SumFunctionOnSet(F, R) \in Int
  BY <1>1, SumInt
<1>4. (\A i \in R : F[i] <= 0) => SumFunctionOnSet(F, R) <= 0
  BY <1>1, SumNonPositive
<1> QED
  BY <1>2, <1>3, <1>4 DEF Changes, F

\* What an engine's literals weigh.
LEMMA WeightType ==
  ASSUME NEW e, IsEngine(e), NEW x
  PROVE  /\ WeightIn(e, x) \in Nat
         /\ x \in Weighted(e) <=> WeightIn(e, x) > 0
  BY DEF IsEngine, WeightIn, Weighted, PositiveWeights

\* A literal weighs something because the client declared it or a consequence
\* gave it a weight.
LEMMA WeightedFrom ==
  ASSUME NEW e, NEW log, NEW R, NEW d, IsFiniteSet(R), IsEngine(e), Ledger(e, log, R, d),
         \A i \in R : IsEntry(log[i]), NEW x \in Weighted(e)
  PROVE  \/ x \in Originals /\ x.name \in DOMAIN d
         \/ \E i \in R : x \in Given(log[i])
<1> SUFFICES ASSUME ~(x \in Originals /\ x.name \in DOMAIN d)
             PROVE  \E i \in R : x \in Given(log[i])
  OBVIOUS
<1>1. WeightIn(e, x) = 0 + Changes(log, R, x)
  BY DEF Ledger, Declared
<1>2. WeightIn(e, x) > 0
  BY WeightType
<1>3. /\ Changes(log, R, x) \in Int
      /\ Changes(log, R, x) > 0 => \E i \in R : x \in Given(log[i])
  BY ChangesType
<1> QED
  BY <1>1, <1>2, <1>3

\* f is e after the consequence c.
Extends(e, f, c) ==
  /\ IsEngine(f)
  /\ f.log = Append(e.log, c)
  /\ f.cost = e.cost + c.weight
  /\ \A x : WeightIn(f, x) = WeightIn(e, x) + Change(c, x)
  /\ DOMAIN f.swgt = DOMAIN e.swgt \cup c.created
  /\ \A k \in DOMAIN e.swgt : k \notin c.created /\ f.swgt[k] = e.swgt[k]
  /\ \A k \in c.created : f.swgt[k] = c.wdelta[k]
  /\ f.impossible \subseteq e.impossible \cup Units(c)
  /\ Filters(e, f, c)
  /\ f.original = e.original \cup {x \in Given(c) : ~IsSum(x)}
  /\ IsEntry(c)
  /\ Taken(c) \subseteq Weighted(e)
  /\ c.removed = Taken(c) \ Weighted(f)
  /\ \A x \in Given(c) : \A i \in DOMAIN e.log : x \notin Given(e.log[i])
  /\ \A k \in c.created : k.bnd > 1 => c.wdelta[k] = e.swgt[Prev(k)]
  /\ \A x \in Taken(c) : IsSum(x) /\ HasNextOutput(x) => NextOutput(x) \in DOMAIN f.swgt

Follows(c, lits, H, A) ==
  /\ H \cap ModelsOf(c.core) = {}
  /\ c.core \ Taken(c) \subseteq A \cup lits
  /\ Units(c) # {} => \E x \in c.core : /\ Taken(c) = {x} /\ ~IsSum(x)
                                         /\ Units(c) \subseteq {Neg(x)}
  /\ \A m \in H : m \in ModelsOf(c.core \ Taken(c)) => Balanced(c, m)

\* A consequence appended to a log.
LEMMA AppendFacts ==
  ASSUME NEW S, NEW log \in Seq(S), NEW c, NEW more, more = Append(log, c)
  PROVE  /\ more \in Seq(S \cup {c})
         /\ DOMAIN log = 1 .. Len(log) /\ Len(log) \in Nat /\ IsFiniteSet(DOMAIN log)
         /\ DOMAIN more = DOMAIN log \cup {Len(log) + 1}
         /\ Len(log) + 1 \notin DOMAIN log
         /\ \A i \in DOMAIN log : more[i] = log[i] /\ i < Len(log) + 1
         /\ more[Len(log) + 1] = c
<1>1. DOMAIN log = 1 .. Len(log) /\ Len(log) \in Nat /\ Len(more) = Len(log) + 1
  OBVIOUS
<1>2. IsFiniteSet(DOMAIN log)
  BY <1>1, FS_Interval
<1>3. more \in Seq(S \cup {c})
  OBVIOUS
<1>4. DOMAIN more = DOMAIN log \cup {Len(log) + 1}
  BY <1>1, <1>3
<1>5. Len(log) + 1 \notin DOMAIN log
  BY <1>1
<1>6. \A i \in DOMAIN log : more[i] = log[i] /\ i < Len(log) + 1
  BY <1>1
<1>7. more[Len(log) + 1] = c
  BY <1>1
<1> QED
  BY <1>1, <1>2, <1>3, <1>4, <1>5, <1>6, <1>7

\* The ledger after one more consequence.
LEMMA LedgerExtends ==
  ASSUME NEW e, NEW f, NEW c, NEW H, NEW A, NEW d, Sound(e, H, A, d), Extends(e, f, c)
  PROVE  Ledger(f, f.log, DOMAIN f.log, d)
<1> DEFINE L == e.log
           R == DOMAIN L
           n == Len(L) + 1
           M == f.log
<1>1. PICK S : L \in Seq(S)
  BY DEF Sound
<1>2. M = Append(L, c)
  BY DEF Extends
<1>3. /\ IsFiniteSet(R) /\ DOMAIN M = R \cup {n} /\ n \notin R
      /\ \A i \in R : M[i] = L[i]
      /\ M[n] = c
  <2> HIDE DEF L, M
  <2>1. IsFiniteSet(R) /\ DOMAIN M = R \cup {n} /\ n \notin R
    BY <1>1, <1>2, AppendFacts
  <2>2. \A i \in R : M[i] = L[i]
    BY <1>1, <1>2, AppendFacts
  <2>3. M[n] = c
    BY <1>1, <1>2, AppendFacts
  <2> QED
    BY <2>1, <2>2, <2>3
<1>4. Ledger(e, L, R, d) /\ Chained(L, R, d) /\ IsEngine(e)
  BY DEF Sound
<1>5. IsEntry(c) /\ \A i \in R : IsEntry(L[i])
  BY <1>4 DEF Chained, Extends
<1> HIDE DEF L, R, n, M
<1>6. f.cost = SumFunctionOnSet([i \in DOMAIN M |-> M[i].weight], DOMAIN M)
  <2> DEFINE F == [i \in R |-> L[i].weight]
             G == [i \in DOMAIN M |-> M[i].weight]
  <2>1. e.cost = SumFunctionOnSet(F, R) /\ f.cost = e.cost + c.weight
    BY <1>4 DEF Ledger, Extends
  <2>2. Integral(F, R)
    BY <1>3, <1>5 DEF Integral, IsEntry
  <2>3. G[n] = c.weight /\ c.weight \in Int /\ \A i \in R : G[i] = F[i]
    BY <1>3, <1>5 DEF IsEntry
  <2> HIDE DEF F, G
  <2>4. SumFunctionOnSet(G, R \cup {n}) = SumFunctionOnSet(F, R) + G[n]
    BY <1>3, <2>2, <2>3, SumExtend
  <2> QED
    BY <1>3, <2>1, <2>3, <2>4 DEF G
<1>7. ASSUME NEW x PROVE WeightIn(f, x) = Declared(d, x) + Changes(M, DOMAIN M, x)
  <2> DEFINE F == [i \in R |-> Change(L[i], x)]
             G == [i \in DOMAIN M |-> Change(M[i], x)]
  <2>1. /\ WeightIn(e, x) = Declared(d, x) + SumFunctionOnSet(F, R)
        /\ WeightIn(f, x) = WeightIn(e, x) + Change(c, x)
    BY <1>4 DEF Ledger, Extends, Changes
  <2>2. Integral(F, R)
    BY <1>3, <1>5, ChangesIntegral
  <2>3. G[n] = Change(c, x) /\ Change(c, x) \in Int /\ \A i \in R : G[i] = F[i]
    BY <1>3, <1>5, ChangeType
  <2>4. Changes(M, DOMAIN M, x) = SumFunctionOnSet(G, R \cup {n})
    BY <1>3 DEF Changes
  <2> HIDE DEF F, G
  <2>5. SumFunctionOnSet(G, R \cup {n}) = SumFunctionOnSet(F, R) + G[n]
    BY <1>3, <2>2, <2>3, SumExtend
  <2>6. WeightIn(e, x) \in Int /\ SumFunctionOnSet(F, R) \in Int
    BY <1>4, <2>2, WeightType, SumInt
  <2>7. WeightIn(f, x) = (Declared(d, x) + SumFunctionOnSet(F, R)) + G[n]
    BY <2>1, <2>3
  <2>8. Declared(d, x) \in Int
    BY DEF Declared, Sound
  <2> QED
    BY <2>1, <2>3, <2>4, <2>5, <2>6, <2>7, <2>8
<1>8. DOMAIN f.swgt = UNION {M[i].created : i \in DOMAIN M}
  <2>1. DOMAIN f.swgt = (UNION {L[i].created : i \in R}) \cup c.created
    BY <1>4 DEF Ledger, Extends
  <2> QED
    BY <1>3, <2>1
<1>9. \A i \in DOMAIN M : \A k \in M[i].created : f.swgt[k] = M[i].wdelta[k]
  BY <1>3, <1>4 DEF Ledger, Extends
<1>10. \A x \in f.impossible : \E i \in DOMAIN M : x \in Units(M[i])
  BY <1>3, <1>4 DEF Ledger, Extends
<1>11. \A i \in DOMAIN M : M[i].removed \cap Weighted(f) = {}
  <2> SUFFICES ASSUME NEW i \in R, NEW x \in L[i].removed, x \in Weighted(f)
               PROVE  FALSE
    BY <1>3 DEF Extends
  <2>1. x \notin Weighted(e) /\ x \in Taken(L[i])
    BY <1>4, <1>5 DEF Ledger, IsEntry
  <2>2. x \in Given(c)
    <3>1. WeightIn(f, x) > 0 /\ WeightIn(e, x) = 0
      BY <1>4, <2>1, WeightType DEF Extends
    <3>2. WeightIn(f, x) = WeightIn(e, x) + Change(c, x) /\ Change(c, x) \in Int
      BY <1>5, ChangeType DEF Extends
    <3> QED
      BY <1>5, <3>1, <3>2, ChangeType
  <2>3. PICK j \in R : x \in Given(L[j])
    BY <1>4, <1>5, <2>1, <2>2 DEF Chained, IsEntry
  <2> QED
    BY <2>2, <2>3 DEF Extends, L, R
<1> QED
  BY <1>6, <1>7, <1>8, <1>9, <1>10, <1>11 DEF Ledger, M

\* The chain after one more consequence.
LEMMA ChainedExtends ==
  ASSUME NEW e, NEW f, NEW c, NEW H, NEW A, NEW d, Sound(e, H, A, d), Extends(e, f, c)
  PROVE  Chained(f.log, DOMAIN f.log, d)
<1> DEFINE L == e.log
           R == DOMAIN L
           n == Len(L) + 1
           M == f.log
<1>1. PICK S : L \in Seq(S)
  BY DEF Sound
<1>2. M = Append(L, c)
  BY DEF Extends
<1>3. /\ IsFiniteSet(R) /\ DOMAIN M = R \cup {n} /\ n \notin R
      /\ \A i \in R : M[i] = L[i] /\ i < n
      /\ M[n] = c
  <2> HIDE DEF L, M
  <2>1. IsFiniteSet(R) /\ DOMAIN M = R \cup {n} /\ n \notin R
    BY <1>1, <1>2, AppendFacts
  <2>2. \A i \in R : M[i] = L[i] /\ i < n
    BY <1>1, <1>2, AppendFacts
  <2>3. M[n] = c
    BY <1>1, <1>2, AppendFacts
  <2> QED
    BY <2>1, <2>2, <2>3
<1>4. Ledger(e, L, R, d) /\ Chained(L, R, d) /\ IsEngine(e)
  BY DEF Sound
<1>5. IsEntry(c) /\ \A i \in R : IsEntry(L[i])
  BY <1>4 DEF Chained, Extends
<1>6. \A x \in Given(c) : \A i \in R : x \notin Given(L[i])
  BY DEF Extends
<1>7. \A x \in Taken(c) : \/ x \in Originals /\ x.name \in DOMAIN d
                          \/ \E i \in R : x \in Given(L[i])
  <2> TAKE x \in Taken(c)
  <2>1. x \in Weighted(e)
    BY DEF Extends
  <2> HIDE DEF R
  <2> QED
    BY <1>3, <1>4, <1>5, <2>1, WeightedFrom
<1>8. DOMAIN f.swgt = UNION {M[i].created : i \in DOMAIN M}
  BY LedgerExtends DEF Ledger
<1> HIDE DEF L, R, n, M
<1>9. \A i \in DOMAIN M : IsEntry(M[i])
  BY <1>3, <1>5
<1>10. \A i \in DOMAIN M : \A x \in Taken(M[i]) \ Originals :
         \E j \in DOMAIN M : j < i /\ x \in Given(M[j])
  <2> TAKE i \in DOMAIN M
  <2> TAKE x \in Taken(M[i]) \ Originals
  <2>1. \E j \in R : j < i /\ x \in Given(L[j])
    BY <1>3, <1>4, <1>7 DEF Chained
  <2> QED
    BY <1>3, <2>1
<1>11. \A i \in DOMAIN M : \A l \in Lit : Orig(l) \in Taken(M[i]) => l \in DOMAIN d
  <2> TAKE i \in DOMAIN M
  <2>1. CASE i \in R
    BY <1>3, <1>4, <2>1 DEF Chained
  <2>2. CASE i = n
    BY <1>3, <1>5, <1>7, <2>2, OrigFields DEF IsEntry, Originals
  <2> QED
    BY <1>3, <2>1, <2>2
<1>12. \A i, j \in DOMAIN M : i # j => Given(M[i]) \cap Given(M[j]) = {}
  BY <1>3, <1>4, <1>6 DEF Chained
<1>13. \A i, j \in DOMAIN M : \A k \in M[i].created :
         k.bnd > 1 /\ Prev(k) \in M[j].created => M[i].wdelta[k] = M[j].wdelta[Prev(k)]
  <2> SUFFICES ASSUME NEW i \in DOMAIN M, NEW j \in DOMAIN M, NEW k \in M[i].created,
                      k.bnd > 1, Prev(k) \in M[j].created
               PROVE  M[i].wdelta[k] = M[j].wdelta[Prev(k)]
    OBVIOUS
  <2>1. Prev(k) \in Taken(M[i]) /\ Prev(k) \in Given(M[j]) /\ Prev(k) \notin Originals
    BY <1>9 DEF IsEntry
  <2>2. PICK h \in DOMAIN M : h < i /\ Prev(k) \in Given(M[h])
    BY <1>10, <2>1
  <2>3. h = j
    BY <1>12, <2>1, <2>2
  <2>4. CASE i \in R
    <3>1. j \in R
      <4>1. PICK g \in R : Prev(k) \in Given(M[g])
        BY <1>3, <1>4, <2>1, <2>4 DEF Chained
      <4> QED
        BY <1>3, <1>12, <2>1, <4>1
    <3> QED
      BY <1>3, <1>4, <2>4, <3>1 DEF Chained
  <2>5. CASE i = n
    <3>1. j \in R
      BY <1>3, <2>1, <2>5 DEF Given
    <3>2. c.wdelta[k] = e.swgt[Prev(k)]
      BY <1>3, <2>5 DEF Extends
    <3> QED
      BY <1>3, <1>4, <2>5, <3>1, <3>2 DEF Ledger
  <2> QED
    BY <1>3, <2>4, <2>5
<1>14. \A i \in DOMAIN M : \A x \in Taken(M[i]) :
         IsSum(x) /\ HasNextOutput(x) => \E j \in DOMAIN M : NextOutput(x) \in M[j].created
  <2> TAKE i \in DOMAIN M
  <2> TAKE x \in Taken(M[i])
  <2>1. CASE i \in R
    BY <1>3, <1>4, <2>1 DEF Chained
  <2>2. CASE i = n
    BY <1>3, <1>8, <2>2 DEF Extends
  <2> QED
    BY <1>3, <2>1, <2>2
<1> QED
  BY <1>9, <1>10, <1>11, <1>12, <1>13, <1>14 DEF Chained, M

\* The reasons after one more consequence.
LEMMA ImpliedExtends ==
  ASSUME NEW e, NEW f, NEW c, NEW H, NEW A, NEW d, Sound(e, H, A, d), Extends(e, f, c),
         Follows(c, e.impossible, H, A)
  PROVE  Implied(f.log, DOMAIN f.log, H, A)
<1> DEFINE L == e.log
           R == DOMAIN L
           n == Len(L) + 1
           M == f.log
<1>1. PICK S : L \in Seq(S)
  BY DEF Sound
<1>2. M = Append(L, c)
  BY DEF Extends
<1>3. /\ DOMAIN M = R \cup {n} /\ n \notin R
      /\ \A i \in R : M[i] = L[i] /\ i < n
      /\ M[n] = c
  <2> HIDE DEF L, M
  <2>1. DOMAIN M = R \cup {n} /\ n \notin R
    BY <1>1, <1>2, AppendFacts
  <2>2. \A i \in R : M[i] = L[i] /\ i < n
    BY <1>1, <1>2, AppendFacts
  <2>3. M[n] = c
    BY <1>1, <1>2, AppendFacts
  <2> QED
    BY <2>1, <2>2, <2>3
<1>4. Implied(L, R, H, A)
  BY DEF Sound
<1>5. \A x \in e.impossible : \E i \in R : x \in Units(L[i])
  BY DEF Sound, Ledger
<1> HIDE DEF L, R, n, M
<1>6. \A i \in DOMAIN M : H \cap ModelsOf(M[i].core) = {}
  BY <1>3, <1>4 DEF Implied, Follows
<1>7. \A i \in DOMAIN M : \A x \in M[i].core \ Taken(M[i]) :
        x \in A \/ \E j \in DOMAIN M : j < i /\ x \in Units(M[j])
  <2> TAKE i \in DOMAIN M
  <2> TAKE x \in M[i].core \ Taken(M[i])
  <2>1. x \in A \/ \E j \in R : j < i /\ x \in Units(L[j])
    BY <1>3, <1>4, <1>5 DEF Implied, Follows
  <2> QED
    BY <1>3, <2>1
<1>8. \A i \in DOMAIN M : Units(M[i]) # {} =>
        \E x \in M[i].core : /\ Taken(M[i]) = {x} /\ ~IsSum(x)
                             /\ Units(M[i]) \subseteq {Neg(x)}
  BY <1>3, <1>4 DEF Implied, Follows
<1>9. \A i \in DOMAIN M : \A m \in H :
        m \in ModelsOf(M[i].core \ Taken(M[i])) => Balanced(M[i], m)
  BY <1>3, <1>4 DEF Implied, Follows
<1> QED
  BY <1>6, <1>7, <1>8, <1>9 DEF Implied, M

\* What is on file after one more consequence.
LEMMA BookedExtends ==
  ASSUME NEW e, NEW f, NEW c, NEW H, NEW A, NEW d, Sound(e, H, A, d), Extends(e, f, c)
  PROVE  Booked(f, f.log, DOMAIN f.log)
<1> DEFINE L == e.log
           R == DOMAIN L
           n == Len(L) + 1
           M == f.log
<1>1. PICK S : L \in Seq(S)
  BY DEF Sound
<1>2. M = Append(L, c)
  BY DEF Extends
<1>3. /\ DOMAIN M = R \cup {n} /\ n \notin R
      /\ \A i \in R : M[i] = L[i] /\ i < n /\ i \in Nat
      /\ M[n] = c /\ n \in Nat
  <2> HIDE DEF M
  <2> QED
    BY <1>1, <1>2, AppendFacts
<1>4. Booked(e, L, R) /\ IsEngine(e) /\ IsEngine(f) /\ IsEntry(c)
  BY DEF Sound, Extends
<1> HIDE DEF L, M
<1>5. /\ Taken(c) \subseteq Weighted(e)
      /\ c.removed = Taken(c) \ Weighted(f)
      /\ c.created = {x \in Given(c) : IsSum(x)}
      /\ Given(c) \cap Taken(c) = {}
  BY <1>4 DEF Extends, IsEntry, Given
<1>6. /\ f.bnds = (e.bnds \cup c.created) \ c.removed
      /\ f.bnds_history = e.bnds_history \cup ((e.bnds \cup c.created) \cap c.removed)
      /\ f.original = e.original \cup {x \in Given(c) : ~IsSum(x)}
      /\ DOMAIN f.swgt = DOMAIN e.swgt \cup c.created
  BY DEF Extends, Filters
<1>7. ASSUME NEW x \in Weighted(f) PROVE x \in Weighted(e) \/ x \in Given(c)
  <2>1. WeightIn(f, x) > 0 /\ WeightIn(e, x) \in Nat /\ WeightIn(f, x) = WeightIn(e, x) + Change(c, x)
    BY <1>4, <1>7, WeightType DEF Extends
  <2>2. x \in Weighted(e) <=> WeightIn(e, x) > 0
    BY <1>4, WeightType
  <2>3. Change(c, x) \in Int /\ (Change(c, x) > 0 => x \in Given(c))
    BY <1>4, ChangeType
  <2> QED
    BY <2>1, <2>2, <2>3
<1>8. ASSUME NEW x \in Weighted(e) \ Weighted(f) PROVE x \in Taken(c)
  <2>1. WeightIn(e, x) > 0 /\ WeightIn(e, x) \in Nat /\ WeightIn(f, x) \in Nat
    BY <1>4, <1>8, WeightType
  <2>2. ~(WeightIn(f, x) > 0) /\ WeightIn(f, x) = WeightIn(e, x) + Change(c, x)
    BY <1>4, <1>8, WeightType DEF Extends
  <2>3. Change(c, x) \in Int
    BY <1>4, ChangeType
  <2>4. Change(c, x) < 0
    BY <2>1, <2>2, <2>3
  <2> QED
    BY <2>4 DEF Change, Taken
<1>9. \A x \in Weighted(f) : IF IsSum(x) THEN x \in f.bnds ELSE x \in f.original
  BY <1>4, <1>5, <1>6, <1>7 DEF Booked
<1>10. f.bnds \subseteq DOMAIN f.swgt /\ DOMAIN f.swgt \subseteq f.bnds \cup f.bnds_history
  BY <1>4, <1>6 DEF Booked
<1>11. \A x \in f.original : ~IsSum(x)
  BY <1>4, <1>6 DEF Booked
<1>12. \A i \in R \cup {n} : \A x \in Taken(M[i]) : IsSum(x) \/ x \in f.original
  BY <1>3, <1>4, <1>5, <1>6 DEF Booked
<1>13. ASSUME NEW i \in R \cup {n}, NEW x \in Taken(M[i]) \ Weighted(f)
       PROVE  \E j \in R \cup {n} : j >= i /\ x \in M[j].removed
  <2>1. CASE x \in Weighted(e)
    <3>1. x \in c.removed
      BY <1>5, <1>8, <1>13, <2>1
    <3> QED
      BY <1>3, <3>1
  <2>2. CASE x \notin Weighted(e)
    <3>1. i \in R
      BY <1>3, <1>5, <1>13, <2>2
    <3>2. x \in Taken(L[i]) \ Weighted(e)
      BY <1>3, <1>13, <2>2, <3>1
    <3>3. PICK j \in R : j >= i /\ x \in L[j].removed
      BY <1>4, <3>1, <3>2 DEF Booked
    <3> QED
      BY <1>3, <3>3
  <2> QED
    BY <2>1, <2>2
<1> QED
  BY <1>3, <1>9, <1>10, <1>11, <1>12, <1>13 DEF Booked, M

\* A charge keeps the engine sound.
LEMMA ChargeSound ==
  ASSUME NEW e, NEW f, NEW c, NEW H, NEW A, NEW d, Sound(e, H, A, d), Extends(e, f, c),
         Follows(c, e.impossible, H, A)
  PROVE  Sound(f, H, A, d)
<1>1. \E S : f.log \in Seq(S)
  <2>1. PICK S : e.log \in Seq(S)
    BY DEF Sound
  <2>2. f.log = Append(e.log, c)
    BY DEF Extends
  <2>3. f.log \in Seq(S \cup {c})
    BY <2>1, <2>2, AppendFacts
  <2> QED
    BY <2>3
<1> QED
  BY <1>1, LedgerExtends, ChainedExtends, ImpliedExtends, BookedExtends DEF Sound, Extends

(***************************************************************************)
(* Every charge takes the least weight of some literals from each of them. *)
(***************************************************************************)
\* The least weight is one of them.
LEMMA LeastOf ==
  ASSUME NEW e, IsEngine(e), NEW lits \in SUBSET Weighted(e), lits # {},
         NEW w, w = LeastWeight(e, lits)
  PROVE  /\ IsFiniteSet(lits)
         /\ w \in Nat \ {0}
         /\ \A l \in lits : e.wght[l] \in Nat /\ w <= e.wght[l]
         /\ \E l \in lits : e.wght[l] = w
         /\ Dead(e, lits, w) # {} /\ Dead(e, lits, w) \subseteq lits
<1> DEFINE W == {e.wght[l] : l \in lits}
<1>1. \A l \in lits : e.wght[l] \in Nat \ {0}
  BY DEF IsEngine, PositiveWeights, Weighted
<1>2. PICK x \in W : \A y \in W : x <= y
  <2>1. W \in SUBSET Nat /\ W # {}
    BY <1>1
  <2> HIDE DEF W
  <2> QED
    BY <2>1, LeastNumber
<1>3. w \in W /\ \A y \in W : w <= y
  BY <1>2 DEF LeastWeight, Min
<1>4. IsFiniteSet(lits)
  BY FS_Subset DEF IsEngine, Weighted
<1>5. \A l \in lits : e.wght[l] \in Nat /\ w <= e.wght[l]
  BY <1>1, <1>3
<1>6. w \in Nat \ {0} /\ \E l \in lits : e.wght[l] = w
  BY <1>1, <1>3
<1> QED
  BY <1>4, <1>5, <1>6 DEF Dead

\* What is left of the weight of l.
LeftOf(e, lits, w, l) == IF l \in lits THEN e.wght[l] - w ELSE e.wght[l]

\* c takes w from each of lits and gives weights to K; f is e after it.
Charges(e, f, c, lits, w, K) ==
  /\ AfterCharge(e, f, c) /\ ~f.thrown /\ c.weight \in Nat
  /\ Weighted(f) = (Weighted(e) \ Dead(e, lits, w)) \cup K
  /\ \A l \in (Weighted(e) \ Dead(e, lits, w)) \ K :
       f.wght[l] = LeftOf(e, lits, w, l)
  /\ DOMAIN c.wdelta = K \cup lits
  /\ \A k \in K : f.wght[k] \in Nat \ {0} /\ c.wdelta[k] = f.wght[k]
  /\ \A l \in lits \ K : c.wdelta[l] = -w
  /\ c.removed = Dead(e, lits, w) /\ lits \subseteq c.core
  /\ K \subseteq c.added /\ c.created = {k \in K : IsSum(k)}
  /\ f.active \subseteq (e.active \ Dead(e, lits, w)) \cup K
  /\ f.impossible \subseteq e.impossible \cup (c.added \ K)
  /\ f.original = e.original \cup {k \in K : ~IsSum(k)}
  /\ DOMAIN f.swgt = DOMAIN e.swgt \cup c.created
  /\ \A k \in DOMAIN e.swgt : k \notin c.created => f.swgt[k] = e.swgt[k]
  /\ \A k \in c.created : f.swgt[k] = c.wdelta[k]

\* The literals of K are new and rest on lits.
Grants(e, f, lits, K) ==
  /\ IsFiniteSet(K)
  /\ \A k \in K : Bearer(k) /\ k \notin Originals
  /\ \A k \in K : \A i \in DOMAIN e.log : k \notin Given(e.log[i])
  /\ \A k \in K : k.bnd <= 1 => k.over = lits
  /\ \A k \in K : k.bnd > 1 => Prev(k) \in lits /\ f.swgt[k] = e.swgt[Prev(k)]
  /\ \A x \in lits : IsSum(x) /\ HasNextOutput(x) => NextOutput(x) \in DOMAIN f.swgt

\* What is new has no weight yet.
LEMMA GrantedIsNew ==
  ASSUME NEW e, NEW H, NEW A, NEW d, Sound(e, H, A, d), NEW k, k \notin Originals,
         \A i \in DOMAIN e.log : k \notin Given(e.log[i])
  PROVE  k \notin Weighted(e) /\ k \notin DOMAIN e.swgt
<1>1. /\ IsEngine(e) /\ Ledger(e, e.log, DOMAIN e.log, d)
      /\ \A i \in DOMAIN e.log : IsEntry(e.log[i])
  BY DEF Sound, Chained
<1>2. IsFiniteSet(DOMAIN e.log)
  <2>1. PICK S : e.log \in Seq(S)
    BY DEF Sound
  <2> QED
    BY <2>1, AppendFacts
<1>3. k \notin Weighted(e)
  <2> SUFFICES ASSUME k \in Weighted(e) PROVE FALSE
    OBVIOUS
  <2> DEFINE R == DOMAIN e.log
             L == e.log
  <2>1. \A i \in R : k \notin Given(L[i])
    OBVIOUS
  <2> HIDE DEF R, L
  <2> QED
    BY <1>1, <1>2, <2>1, WeightedFrom DEF R, L
<1>4. k \notin DOMAIN e.swgt
  BY <1>1 DEF Ledger, IsEntry
<1> QED
  BY <1>3, <1>4

\* A charge is an entry that extends the log.
LEMMA ChargesExtend ==
  ASSUME NEW e, NEW H, NEW A, NEW d, Sound(e, H, A, d), NEW f, NEW c,
         NEW lits \in SUBSET Weighted(e), lits # {}, NEW w, w = LeastWeight(e, lits), NEW K,
         Charges(e, f, c, lits, w, K), Grants(e, f, lits, K)
  PROVE  /\ Extends(e, f, c)
         /\ Taken(c) = lits /\ Given(c) = K /\ Units(c) = c.added \ K
         /\ K \cap lits = {} /\ K \cap Weighted(e) = {}
<1>1. IsEngine(e)
  BY DEF Sound
<1>2. /\ IsFiniteSet(lits) /\ w \in Nat \ {0}
      /\ \A l \in lits : e.wght[l] \in Nat /\ w <= e.wght[l]
      /\ Dead(e, lits, w) # {} /\ Dead(e, lits, w) \subseteq lits
  BY <1>1, LeastOf
<1>3. \A k \in K : k \notin Weighted(e) /\ k \notin DOMAIN e.swgt
  BY GrantedIsNew DEF Grants
<1>4. K \cap lits = {} /\ K \cap Weighted(e) = {}
  BY <1>3
<1>5. \A l \in lits : c.wdelta[l] = -w
  BY <1>4 DEF Charges
<1>6. \A k \in K : c.wdelta[k] \in Nat \ {0}
  BY DEF Charges
<1>7. Taken(c) = lits /\ Given(c) = K
  BY <1>2, <1>4, <1>5, <1>6 DEF Charges, Taken, Given
<1>8. Units(c) = c.added \ K
  BY <1>7 DEF Units
<1>10. IsEntry(c)
  <2>1. IsFiniteSet(DOMAIN c.wdelta)
    <3>1. IsFiniteSet(K) /\ DOMAIN c.wdelta = K \cup lits
      BY DEF Charges, Grants
    <3> QED
      BY <1>2, <3>1, FS_Union
  <2>2. \A x \in lits : Bearer(x)
    BY <1>1 DEF IsEngine
  <2>3. \A x \in DOMAIN c.wdelta : Bearer(x) /\ c.wdelta[x] \in Int \ {0}
    BY <1>2, <1>5, <1>6, <2>2 DEF Charges, Grants
  <2>4. \A x \in Given(c) : /\ x \notin Originals
                            /\ x.bnd <= 1 => x.over = Taken(c)
                            /\ x.bnd > 1 => Prev(x) \in Taken(c)
    BY <1>7 DEF Grants
  <2> QED
    BY <1>2, <1>7, <2>1, <2>3, <2>4 DEF IsEntry, Charges
<1>11. IsFiniteSet(Weighted(f))
  <2>1. IsFiniteSet(K) /\ Weighted(f) = (Weighted(e) \ Dead(e, lits, w)) \cup K
    BY DEF Charges, Grants
  <2>2. IsFiniteSet(Weighted(e) \ Dead(e, lits, w))
    BY <1>1, FS_Difference DEF IsEngine, Weighted
  <2> QED
    BY <2>1, <2>2, FS_Union
<1>12. \A x \in Weighted(f) : f.wght[x] \in Nat \ {0}
  <2> TAKE x \in Weighted(f)
  <2>1. CASE x \in K
    BY <2>1 DEF Charges
  <2>2. CASE x \notin K
    <3>1. x \in Weighted(e) /\ x \notin Dead(e, lits, w)
      BY <2>2 DEF Charges
    <3>2. e.wght[x] \in Nat \ {0}
      BY <1>1, <3>1 DEF IsEngine, PositiveWeights, Weighted
    <3>3. f.wght[x] = IF x \in lits THEN e.wght[x] - w ELSE e.wght[x]
      BY <2>2, <3>1 DEF Charges, LeftOf
    <3>4. x \in lits => e.wght[x] # w
      BY <3>1 DEF Dead
    <3> QED
      BY <1>2, <3>2, <3>3, <3>4
  <2> QED
    BY <2>1, <2>2
<1>13. IsEngine(f)
  <2>1. \A x \in Weighted(f) : Bearer(x)
    BY <1>1 DEF IsEngine, Charges, Grants
  <2>2. f.active \subseteq Weighted(f)
    BY <1>1 DEF IsEngine, Charges
  <2>3. f.cost \in Nat /\ EngineRecord(f)
    BY <1>1 DEF IsEngine, Charges, AfterCharge
  <2> QED
    BY <1>11, <1>12, <2>1, <2>2, <2>3 DEF IsEngine, Charges, PositiveWeights, Weighted
<1>14. ASSUME NEW x PROVE WeightIn(f, x) = WeightIn(e, x) + Change(c, x)
  <2>1. CASE x \in K
    BY <1>3, <1>6, <2>1 DEF WeightIn, Change, Charges, Weighted
  <2>2. CASE x \in lits /\ x \notin K
    <3>1. Change(c, x) = -w /\ WeightIn(e, x) = e.wght[x]
      BY <1>5, <2>2 DEF Change, Charges, WeightIn, Weighted
    <3>2. CASE e.wght[x] = w
      <4>1. x \notin Weighted(f)
        BY <2>2, <3>2 DEF Charges, Dead
      <4> QED
        BY <1>2, <3>1, <3>2, <4>1 DEF WeightIn, Weighted
    <3>3. CASE e.wght[x] # w
      <4>1. x \in Weighted(f) /\ f.wght[x] = e.wght[x] - w
        BY <2>2, <3>3 DEF Charges, Dead, LeftOf
      <4> QED
        BY <1>2, <2>2, <3>1, <4>1 DEF WeightIn, Weighted
    <3> QED
      BY <3>2, <3>3
  <2>3. CASE x \notin lits /\ x \notin K
    <3>1. Change(c, x) = 0
      BY <2>3 DEF Change, Charges
    <3>2. WeightIn(e, x) \in Nat
      BY <1>1, WeightType
    <3>3. WeightIn(f, x) = WeightIn(e, x)
      BY <1>2, <2>3 DEF Charges, WeightIn, Weighted, LeftOf
    <3> QED
      BY <3>1, <3>2, <3>3
  <2> QED
    BY <2>1, <2>2, <2>3
<1>15. c.removed = Taken(c) \ Weighted(f)
  BY <1>2, <1>4, <1>7 DEF Charges
<1>16. Extends(e, f, c)
  <2>1. /\ f.log = Append(e.log, c) /\ f.cost = e.cost + c.weight
        /\ DOMAIN f.swgt = DOMAIN e.swgt \cup c.created
        /\ \A k \in c.created : f.swgt[k] = c.wdelta[k]
    BY DEF Charges, AfterCharge
  <2>2. \A k \in DOMAIN e.swgt : k \notin c.created /\ f.swgt[k] = e.swgt[k]
    BY <1>3 DEF Charges
  <2>3. f.impossible \subseteq e.impossible \cup Units(c)
    BY <1>8 DEF Charges
  <2>4. \A k \in c.created : k.bnd > 1 => c.wdelta[k] = e.swgt[Prev(k)]
    BY DEF Charges, Grants
  <2>5. \A x \in Given(c) : \A i \in DOMAIN e.log : x \notin Given(e.log[i])
    BY <1>7 DEF Grants
  <2>6. \A x \in Taken(c) : IsSum(x) /\ HasNextOutput(x) => NextOutput(x) \in DOMAIN f.swgt
    BY <1>7 DEF Grants
  <2>7. Taken(c) \subseteq Weighted(e)
    BY <1>7
  <2>8. Filters(e, f, c) /\ f.original = e.original \cup {x \in Given(c) : ~IsSum(x)}
    BY <1>7 DEF Charges, AfterCharge
  <2> QED
    BY <1>10, <1>13, <1>14, <1>15, <2>1, <2>2, <2>3, <2>4, <2>5, <2>6, <2>7, <2>8 DEF Extends
<1> QED
  BY <1>4, <1>7, <1>8, <1>16

\* How many literals of c assignment m falsifies.
Falsified(c, m) == {l \in c : m \notin l.sat}

\* A consequence that takes w from each of lits and gives weights to K only.
TakesFrom(c, lits, w, K) ==
  /\ w \in Nat /\ IsFiniteSet(lits) /\ IsFiniteSet(K) /\ K \cap lits = {}
  /\ DOMAIN c.wdelta = K \cup lits
  /\ \A l \in lits : c.wdelta[l] = -w
  /\ \A k \in K : c.wdelta[k] \in Int

\* What m leaves unpaid of it: w less for every literal of lits that m falsifies,
\* and what K is given.
LEMMA UnmetOfCharge ==
  ASSUME NEW c, NEW lits, NEW w, NEW K, TakesFrom(c, lits, w, K), NEW m,
         NEW G, \A k \in K : G[k] = UnmetPart(c, k, m)
  PROVE  UnmetIn(c, m) = SumFunctionOnSet(G, K) - w * Cardinality(Falsified(lits, m))
<1> DEFINE F == [x \in DOMAIN c.wdelta |-> UnmetPart(c, x, m)]
           n == Cardinality(Falsified(lits, m))
<1>1. \A x : Unmet(x, m) \in {0, 1}
  BY DEF Unmet
<1>2. \A x \in K : F[x] \in Int /\ F[x] = G[x]
  BY <1>1 DEF TakesFrom, UnmetPart
<1>3. \A x \in lits : F[x] = IF x \in Falsified(lits, m) THEN -w ELSE 0
  BY DEF Unmet, Falsified, TakesFrom, UnmetPart
<1>4. Falsified(lits, m) \subseteq lits
  BY DEF Falsified
<1>5. n \in Nat
  BY <1>4, FS_Subset, FS_CardinalityType DEF TakesFrom
<1>6. UnmetIn(c, m) = SumFunctionOnSet(F, K \cup lits)
  BY DEF UnmetIn, TakesFrom
<1> HIDE DEF F
<1>7. Integral(F, K) /\ Integral(F, lits)
  BY <1>2, <1>3 DEF Integral, TakesFrom
<1>8. SumFunctionOnSet(F, K \cup lits) = SumFunctionOnSet(F, K) + SumFunctionOnSet(F, lits)
  BY <1>7, SumUnion DEF TakesFrom
<1>9. SumFunctionOnSet(F, lits) = (-w) * n
  <2>1. -w \in Int /\ IsFiniteSet(lits)
    BY DEF TakesFrom
  <2>2. \A x \in Falsified(lits, m) : F[x] = -w
    BY <1>3, <1>4
  <2>3. \A x \in lits \ Falsified(lits, m) : F[x] = 0
    BY <1>3
  <2> QED
    BY <1>4, <2>1, <2>2, <2>3, SumConstant
<1>10. SumFunctionOnSet(G, K) = SumFunctionOnSet(F, K)
  BY <1>2, <1>7, SumSame
<1>11. SumFunctionOnSet(F, K) \in Int
  BY <1>7, SumInt
<1>12. (-w) * n = -(w * n) /\ w * n \in Int
  BY <1>5 DEF TakesFrom
<1> QED
  BY <1>6, <1>8, <1>9, <1>10, <1>11, <1>12

(***************************************************************************)
(* Each of the four charges is balanced and keeps the engine sound.        *)
(***************************************************************************)
\* The weights of an engine reduced by w on lits.
LEMMA ReducedWeights ==
  ASSUME NEW e, NEW lits, NEW w
  PROVE  /\ DOMAIN Reduced(e, lits, w) = Weighted(e) \ Dead(e, lits, w)
         /\ \A l \in Weighted(e) \ Dead(e, lits, w) :
              Reduced(e, lits, w)[l] = LeftOf(e, lits, w, l)
  BY DEF Reduced, LeftOf

\* A charge that gives no weight to a new literal is balanced where exactly one
\* of its literals is false.
LEMMA OneFalse ==
  ASSUME NEW c, NEW lits, NEW w, NEW K, TakesFrom(c, lits, w, K), \A k : k \notin K,
         c.weight = w, \A k : k \notin c.created, NEW m, Cardinality(Falsified(lits, m)) = 1
  PROVE  Balanced(c, m)
<1>1. \A G : SumFunctionOnSet(G, {}) = 0
  BY SumEmpty
<1>2. K = {} /\ c.created = {}
  OBVIOUS
<1>3. \A G : UnmetIn(c, m) = SumFunctionOnSet(G, K) - w * Cardinality(Falsified(lits, m))
  BY UnmetOfCharge
<1>4. UnmetIn(c, m) = 0 - w * 1
  BY <1>1, <1>2, <1>3
<1>5. GapIn(c, m) = 0
  BY <1>1, <1>2 DEF GapIn
<1> QED
  BY <1>4, <1>5 DEF Balanced, TakesFrom

\* A consequence that charges lits, not all of which can be true.
Warranted(c, lits, impossible, H, A) ==
  /\ H \cap ModelsOf(c.core) = {}
  /\ c.core \ lits \subseteq A \cup impossible
  /\ c.added # {} => \E x \in c.core : lits = {x} /\ c.added \subseteq {Neg(x)}
  /\ \A m \in H : m \in ModelsOf(c.core \ lits) => Cardinality(Falsified(lits, m)) = 1

\* A charge of literals that need nothing new.
LEMMA PlainCharge ==
  ASSUME NEW e, NEW H, NEW A, NEW d, Sound(e, H, A, d), NEW f, NEW c,
         NEW lits \in SUBSET Weighted(e), lits # {}, \A x \in lits : ~IsSum(x),
         NEW w, w = LeastWeight(e, lits), c.weight = w, Charges(e, f, c, lits, w, {}),
         Warranted(c, lits, e.impossible, H, A)
  PROVE  Sound(f, H, A, d)
<1>1. PICK K : K = {}
  OBVIOUS
<1>2. \A k : k \notin K
  BY <1>1
<1>3. Charges(e, f, c, lits, w, K)
  BY <1>1
<1> HIDE <1>1
<1>4. IsFiniteSet(K)
  BY <1>1, FS_EmptySet
<1>5. Grants(e, f, lits, K)
  BY <1>2, <1>4 DEF Grants
<1>6. Extends(e, f, c) /\ Taken(c) = lits /\ Given(c) = K /\ Units(c) = c.added \ K
  BY <1>3, <1>5, ChargesExtend
<1>7. Follows(c, e.impossible, H, A)
  <2>1. IsFiniteSet(lits) /\ w \in Nat
    BY LeastOf DEF Sound
  <2>2. TakesFrom(c, lits, w, K) /\ \A k : k \notin c.created
    BY <1>2, <1>3, <1>4, <2>1 DEF Charges, TakesFrom
  <2>3. \A m : Cardinality(Falsified(lits, m)) = 1 => Balanced(c, m)
    BY <1>2, <2>2, OneFalse
  <2> QED
    BY <1>2, <1>6, <2>3 DEF Follows, Warranted
<1> QED
  BY <1>6, <1>7, ChargeSound

\* Cancelling takes off one of the literals, exactly one of which is false.
LEMMA CancelSound ==
  ASSUME NEW e, NEW H, NEW A, NEW d, Sound(e, H, A, d), NEW core,
         NEW lits \in SUBSET Weighted(e), lits # {}, \A x \in lits : ~IsSum(x),
         lits \subseteq core, H \cap ModelsOf(core) = {}, core \ lits \subseteq A \cup e.impossible,
         \A m \in H : m \in ModelsOf(core \ lits) => Cardinality(Falsified(lits, m)) = 1,
         NEW f, f = Cancel(e, core, lits)
  PROVE  Sound(f, H, A, d)
<1>1. PICK w : w = LeastWeight(e, lits)
  OBVIOUS
<1>2. EngineRecord(e) /\ IsEngine(e) /\ ~e.thrown
  BY DEF Sound, IsEngine
<1>3. /\ f.wght = Reduced(e, lits, w)
      /\ f.active = e.active \ Dead(e, lits, w) /\ f.impossible = e.impossible
      /\ f.swgt = e.swgt /\ f.original = e.original
  BY <1>1, <1>2, CancelFields
<1>4. PICK c : /\ AfterCharge(e, f, c)
               /\ HasParts(c, core, w, Dead(e, lits, w), {}, {})
               /\ Takes(c, lits, w, {})
  BY <1>1, <1>2, CancelFields
<1>5. w \in Nat \ {0}
  BY <1>1, <1>2, LeastOf
<1>6. /\ ~f.thrown
      /\ c.weight = w /\ c.core = core /\ c.added = {} /\ c.removed = Dead(e, lits, w)
      /\ c.created = {}
  BY <1>2, <1>4 DEF AfterCharge, HasParts
<1>7. Charges(e, f, c, lits, w, {})
  <2>0. f.wght = Reduced(e, lits, w)
    BY <1>3
  <2>1. Weighted(f) = Weighted(e) \ Dead(e, lits, w)
    BY <2>0, ReducedWeights DEF Weighted
  <2>2. \A l \in Weighted(e) \ Dead(e, lits, w) : f.wght[l] = LeftOf(e, lits, w, l)
    BY <2>0, ReducedWeights, Zenon
  <2>3. DOMAIN c.wdelta = lits /\ \A l \in lits : c.wdelta[l] = -w
    BY <1>4 DEF Takes
  <2>4. f.original = e.original \cup {k \in {} : ~IsSum(k)}
    BY <1>3
  <2>5. f.swgt = e.swgt /\ c.created = {k \in {} : IsSum(k)}
    BY <1>3, <1>6
  <2>6. AfterCharge(e, f, c) /\ EngineRecord(f) /\ ~f.thrown /\ f.cost = e.cost + c.weight
    BY <1>4, <1>6 DEF AfterCharge
  <2> QED
    BY <1>3, <1>4, <1>5, <1>6, <2>1, <2>2, <2>3, <2>4, <2>5, <2>6 DEF Charges
<1>8. Warranted(c, lits, e.impossible, H, A)
  BY <1>6 DEF Warranted
<1> QED
  BY <1>1, <1>6, <1>7, <1>8, PlainCharge

\* A unit core makes the negation of its literal follow.
LEMMA UnitSound ==
  ASSUME NEW e, NEW H, NEW A, NEW d, Sound(e, H, A, d), NEW core,
         NEW l \in Weighted(e), ~IsSum(l), l \in core, H \subseteq Assignment,
         H \cap ModelsOf(core) = {}, core \ {l} \subseteq A \cup e.impossible,
         NEW f, f = ChargeUnit(e, core, l)
  PROVE  Sound(f, H, A, d)
<1>1. PICK lits : lits = {l}
  OBVIOUS
<1>2. PICK w : w = LeastWeight(e, lits)
  OBVIOUS
<1>3. EngineRecord(e) /\ IsEngine(e) /\ ~e.thrown
  BY DEF Sound, IsEngine
<1>4. w = e.wght[l]
  BY <1>1, <1>2, <1>3, LeastOf
<1>5. /\ f.wght = Drop(e.wght, {l})
      /\ f.active = e.active \ {l} /\ f.impossible = e.impossible \cup {Neg(l)}
      /\ f.swgt = e.swgt /\ f.original = e.original
  <2>1. UnitEffect(e, f, l)
    BY <1>3, UnitFields
  <2> QED
    BY <2>1 DEF UnitEffect
<1>6. PICK c : /\ AfterCharge(e, f, c)
               /\ HasParts(c, core, w, {l}, {Neg(l)}, {})
               /\ Takes(c, {l}, w, {})
  BY <1>3, <1>4, UnitFields
<1>13. w \in Nat \ {0}
  BY <1>1, <1>2, <1>3, LeastOf
<1>7. Dead(e, lits, w) = {l}
  BY <1>1, <1>4 DEF Dead
<1>8. /\ ~f.thrown
      /\ c.weight = w /\ c.core = core /\ c.added = {Neg(l)} /\ c.removed = Dead(e, lits, w)
      /\ c.created = {}
  BY <1>3, <1>6, <1>7 DEF AfterCharge, HasParts
<1>9. /\ DOMAIN f.wght = Weighted(e) \ {l}
      /\ \A k \in Weighted(e) \ {l} : f.wght[k] = e.wght[k]
  BY <1>5 DEF Drop, Restrict, Weighted
<1>10. Charges(e, f, c, lits, w, {})
  <2>1. Weighted(f) = Weighted(e) \ {l}
    BY <1>9 DEF Weighted
  <2>2. \A k \in Weighted(e) \ {l} : f.wght[k] = LeftOf(e, lits, w, k)
    BY <1>1, <1>9 DEF LeftOf
  <2>3. DOMAIN c.wdelta = lits /\ \A k \in lits : c.wdelta[k] = -w
    BY <1>1, <1>6 DEF Takes
  <2> QED
    BY <1>1, <1>5, <1>6, <1>7, <1>8, <1>13, <2>1, <2>2, <2>3 DEF Charges
<1>11. \A m \in H : m \in ModelsOf(c.core \ lits) => Cardinality(Falsified(lits, m)) = 1
  <2> SUFFICES ASSUME NEW m \in H, m \in ModelsOf(c.core \ lits)
               PROVE  Cardinality(Falsified(lits, m)) = 1
    OBVIOUS
  <2>1. Falsified(lits, m) = {l}
    BY <1>1, <1>8 DEF ModelsOf, Falsified
  <2> QED
    BY <2>1, FS_Singleton
<1>12. Warranted(c, lits, e.impossible, H, A)
  BY <1>1, <1>8, <1>11 DEF Warranted
<1> QED
  BY <1>1, <1>2, <1>8, <1>10, <1>12, PlainCharge

\* A totalizer or selector over literals that all have a weight is not one that a
\* consequence introduced: that one took a literal out for good.
LEMMA OverIsFresh ==
  ASSUME NEW e, NEW H, NEW A, NEW d, Sound(e, H, A, d), NEW lits \in SUBSET Weighted(e),
         NEW x, x.over = lits, x.bnd <= 1
  PROVE  \A i \in DOMAIN e.log : x \notin Given(e.log[i])
<1> SUFFICES ASSUME NEW i \in DOMAIN e.log, x \in Given(e.log[i])
             PROVE  FALSE
  OBVIOUS
<1>1. IsEntry(e.log[i]) /\ e.log[i].removed \cap Weighted(e) = {}
  BY DEF Sound, Chained, Ledger
<1>2. Taken(e.log[i]) = lits /\ e.log[i].removed # {} /\ e.log[i].removed \subseteq Taken(e.log[i])
  BY <1>1 DEF IsEntry
<1> QED
  BY <1>1, <1>2

\* Of literals that exclude each other at most one is true.
LEMMA ExclusiveCount ==
  ASSUME NEW q, IsFiniteSet(q), NEW m, \A k, l \in q : k = l \/ m \notin k.sat \/ m \notin l.sat
  PROVE  /\ Cardinality(q) \in Nat
         /\ \/ /\ m \notin AnyOf(q).sat
               /\ Cardinality(Falsified(q, m)) = Cardinality(q)
            \/ /\ m \in AnyOf(q).sat
               /\ Cardinality(Falsified(q, m)) = Cardinality(q) - 1
<1>1. Cardinality(q) \in Nat
  BY FS_CardinalityType
<1>2. AnyOf(q).sat = UNION {l.sat : l \in q}
  BY SelectorFields
<1>3. CASE \A l \in q : m \notin l.sat
  <2>1. Falsified(q, m) = q
    BY <1>3 DEF Falsified
  <2> QED
    BY <1>1, <1>2, <1>3, <2>1
<1>4. CASE \E l \in q : m \in l.sat
  <2>1. PICK l \in q : m \in l.sat
    BY <1>4
  <2>2. Falsified(q, m) = q \ {l}
    BY <2>1 DEF Falsified
  <2>3. Cardinality(q \ {l}) = Cardinality(q) - 1
    BY FS_RemoveElement
  <2> QED
    BY <1>1, <1>2, <2>1, <2>2, <2>3
<1> QED
  BY <1>3, <1>4

\* A clique charges all but one of its literals, and its selector the last.
LEMMA CliqueBalanced ==
  ASSUME NEW c, NEW q, NEW w, NEW K, K = {AnyOf(q)}, TakesFrom(c, q, w, K),
         c.weight = Penalty(q, w), c.wdelta[AnyOf(q)] = w, \A k : k \notin c.created,
         NEW m, \A k, l \in q : k = l \/ m \notin k.sat \/ m \notin l.sat
  PROVE  Balanced(c, m)
<1> DEFINE s == AnyOf(q)
           n == Cardinality(q)
           F == Cardinality(Falsified(q, m))
           G == [k \in K |-> UnmetPart(c, k, m)]
<1>1. w \in Nat /\ IsFiniteSet(q)
  BY DEF TakesFrom
<1>2. n \in Nat /\ \/ m \notin s.sat /\ F = n
                   \/ m \in s.sat /\ F = n - 1
  BY <1>1, ExclusiveCount
<1>3. G[s] = w * Unmet(s, m)
  BY DEF UnmetPart
<1>4. UnmetIn(c, m) = SumFunctionOnSet(G, K) - w * F
  <2>1. \A k \in K : G[k] = UnmetPart(c, k, m)
    OBVIOUS
  <2> HIDE DEF G
  <2> QED
    BY <2>1, UnmetOfCharge
<1>5. SumFunctionOnSet(G, K) = G[s]
  <2>1. G[s] \in Int
    BY <1>1, <1>3 DEF Unmet
  <2> HIDE DEF G, s
  <2> QED
    BY <2>1, SumSingleton DEF s
<1>6. GapIn(c, m) = 0
  <2>1. c.created = {} /\ \A g : SumFunctionOnSet(g, {}) = 0
    BY SumEmpty
  <2> QED
    BY <2>1 DEF GapIn
<1>7. c.weight = w * (n - 1)
  BY DEF Penalty
<1> HIDE DEF s, n, F, G
<1>8. CASE m \notin s.sat /\ F = n
  <2>1. UnmetIn(c, m) = w - w * n
    BY <1>1, <1>3, <1>4, <1>5, <1>8 DEF Unmet
  <2>2. w * n \in Int /\ w * (n - 1) = w * n - w
    BY <1>1, <1>2
  <2> QED
    BY <1>1, <1>6, <1>7, <2>1, <2>2 DEF Balanced
<1>9. CASE m \in s.sat /\ F = n - 1
  <2>1. UnmetIn(c, m) = 0 - w * (n - 1)
    BY <1>1, <1>3, <1>4, <1>5, <1>9 DEF Unmet
  <2>2. w * (n - 1) \in Int
    BY <1>1, <1>2
  <2> QED
    BY <1>6, <1>7, <2>1, <2>2 DEF Balanced
<1> QED
  BY <1>2, <1>8, <1>9

\* A round over a clique keeps the engine sound.
LEMMA CliqueSound ==
  ASSUME NEW e, NEW H, NEW A, NEW d, Sound(e, H, A, d),
         NEW q \in SUBSET Weighted(e), Cardinality(q) > 1, \A x \in q : ~IsSum(x),
         H \subseteq Assignment,
         \A k, l \in q : k = l \/ H \cap ModelsOf({k, l}) = {},
         NEW level, NEW f, f = ProcessClique(e, q, level)
  PROVE  Sound(f, H, A, d)
<1> DEFINE s == AnyOf(q)
<1>1. PICK w : w = LeastWeight(e, q)
  OBVIOUS
<1>2. PICK K : K = {s}
  OBVIOUS
<1>3. EngineRecord(e) /\ IsEngine(e) /\ ~e.thrown
  BY DEF Sound, IsEngine
<1>4. q # {}
  <2>1. Cardinality({}) = 0
    BY FS_EmptySet
  <2> QED
    BY <2>1
<1>5. /\ IsFiniteSet(q) /\ w \in Nat \ {0}
      /\ Dead(e, q, w) \subseteq q
  BY <1>1, <1>3, <1>4, LeastOf
<1>6. /\ f.wght = Over(Maps(s, w), Reduced(e, q, w))
      /\ f.active = (e.active \ (Dead(e, q, w) \cup Lowered(e, q, w, level)))
                       \cup (IF w >= level THEN {s} ELSE {})
      /\ f.impossible = e.impossible
      /\ f.swgt = e.swgt /\ f.original = e.original \cup {s}
  <2>1. CliqueEffect(e, f, q, level, w)
    BY <1>1, <1>3, CliqueFields
  <2> QED
    BY <2>1 DEF CliqueEffect
<1>7. PICK c : /\ AfterCharge(e, f, c)
               /\ HasParts(c, q, Penalty(q, w), Dead(e, q, w), {s}, {})
               /\ Takes(c, q, w, {s})
               /\ GivesWeight(c, s, w)
  BY <1>1, <1>3, CliqueFields
<1>8. s.name = 0 /\ s.bnd = 0 /\ s.over = q /\ ~IsSum(s) /\ s \notin Originals
  BY SelectorFields, NotOriginal
<1>9. \A i \in DOMAIN e.log : s \notin Given(e.log[i])
  <2> HIDE DEF s
  <2> QED
    BY <1>8, OverIsFresh
<1>10. s \notin Weighted(e)
  <2> HIDE DEF s
  <2> QED
    BY <1>8, <1>9, GrantedIsNew
<1>11. /\ DOMAIN Reduced(e, q, w) = Weighted(e) \ Dead(e, q, w)
       /\ \A l \in Weighted(e) \ Dead(e, q, w) : Reduced(e, q, w)[l] = LeftOf(e, q, w, l)
  BY ReducedWeights
<1> HIDE DEF s
<1>12. /\ Weighted(f) = (Weighted(e) \ Dead(e, q, w)) \cup K
       /\ \A l \in (Weighted(e) \ Dead(e, q, w)) \ K : f.wght[l] = LeftOf(e, q, w, l)
       /\ f.wght[s] = w
  BY <1>2, <1>6, <1>11 DEF Over, Maps, Weighted
<1>13. /\ ~f.thrown
       /\ c.weight = Penalty(q, w) /\ c.core = q /\ c.added = K /\ c.removed = Dead(e, q, w)
       /\ c.created = {}
  BY <1>2, <1>3, <1>7 DEF AfterCharge, HasParts
<1>14. Penalty(q, w) \in Nat
  <2>1. Cardinality(q) - 1 \in Nat
    BY <1>5, FS_CardinalityType
  <2> QED
    BY <1>5, <2>1 DEF Penalty
<1>15. Charges(e, f, c, q, w, K)
  <2>1. DOMAIN c.wdelta = K \cup q /\ \A l \in q \ K : c.wdelta[l] = -w
    BY <1>2, <1>7 DEF Takes
  <2>2. c.created = {k \in K : IsSum(k)}
    BY <1>2, <1>8, <1>13
  <2>3. f.active \subseteq (e.active \ Dead(e, q, w)) \cup K
    BY <1>2, <1>6
  <2>4. \A k \in K : f.wght[k] \in Nat \ {0} /\ c.wdelta[k] = f.wght[k]
    BY <1>2, <1>5, <1>7, <1>12 DEF GivesWeight
  <2>5. \A k : k \notin c.created
    BY <1>13
  <2>6. f.original = e.original \cup {k \in K : ~IsSum(k)}
    BY <1>2, <1>6, <1>8
  <2> QED
    BY <1>6, <1>7, <1>12, <1>13, <1>14, <2>1, <2>2, <2>3, <2>4, <2>5, <2>6 DEF Charges
<1>16. Grants(e, f, q, K)
  <2>1. IsFiniteSet(K)
    BY <1>2, FS_Singleton
  <2>2. Bearer(s)
    BY <1>5, <1>8 DEF Bearer, s
  <2> QED
    BY <1>2, <1>8, <1>9, <2>1, <2>2 DEF Grants
<1>17. /\ Extends(e, f, c) /\ Taken(c) = q /\ Given(c) = K /\ Units(c) = c.added \ K
       /\ K \cap q = {}
  BY <1>1, <1>4, <1>15, <1>16, ChargesExtend
<1>18. TakesFrom(c, q, w, K)
  <2>1. IsFiniteSet(K)
    BY <1>2, FS_Singleton
  <2>2. w \in Nat /\ IsFiniteSet(q) /\ K \cap q = {}
    BY <1>5, <1>17
  <2>3. /\ DOMAIN c.wdelta = K \cup q
        /\ \A l \in q : c.wdelta[l] = -w
    BY <1>2, <1>7, <1>17 DEF Takes
  <2>4. \A k \in K : c.wdelta[k] \in Int
    BY <1>2, <1>5, <1>7 DEF GivesWeight
  <2> QED
    BY <2>1, <2>2, <2>3, <2>4 DEF TakesFrom
<1>19. ASSUME NEW m \in H PROVE \A k, l \in q : k = l \/ m \notin k.sat \/ m \notin l.sat
  BY DEF ModelsOf
<1>20. \A m \in H : Balanced(c, m)
  <2>1. \A k : k \notin c.created
    BY <1>13
  <2> TAKE m \in H
  <2>2. \A k, l \in q : k = l \/ m \notin k.sat \/ m \notin l.sat
    BY <1>19
  <2>3. K = {AnyOf(q)} /\ c.weight = Penalty(q, w) /\ c.wdelta[AnyOf(q)] = w
    BY <1>2, <1>7, <1>13 DEF s, GivesWeight
  <2> QED
    BY <1>18, <2>1, <2>2, <2>3, CliqueBalanced
<1>21. H \cap ModelsOf(q) = {}
  <2>1. \E k, l \in q : k # l
    <3> SUFFICES ASSUME \A k, l \in q : k = l PROVE FALSE
      OBVIOUS
    <3>1. PICK k \in q : TRUE
      BY <1>4
    <3>2. q = {k}
      BY <3>1
    <3>3. Cardinality({k}) = 1
      BY FS_Singleton
    <3> QED
      BY <3>2, <3>3
  <2> QED
    BY <1>19, <2>1 DEF ModelsOf
<1>22. Follows(c, e.impossible, H, A)
  BY <1>13, <1>17, <1>20, <1>21 DEF Follows
<1> QED
  BY <1>17, <1>22, ChargeSound

\* The image of a finite set under a function given by its graph.
LEMMA FiniteImage ==
  ASSUME NEW f, NEW S, NEW T, IsFiniteSet(S), f \in [S -> T], \A y \in T : \E x \in S : f[x] = y
  PROVE  IsFiniteSet(T) /\ Cardinality(T) <= Cardinality(S)
<1>1. f \in Surjection(S, T)
  BY DEF Surjection
<1> QED
  BY <1>1, FS_Surjection

\* A totalizer output that weighs something was introduced, with a counter.
LEMMA SumsHaveCounters ==
  ASSUME NEW e, NEW H, NEW A, NEW d, Sound(e, H, A, d), NEW x \in Weighted(e), IsSum(x)
  PROVE  x \in DOMAIN e.swgt /\ e.swgt[x] \in Nat \ {0}
<1> DEFINE R == DOMAIN e.log
           L == e.log
<1>1. /\ IsEngine(e) /\ Ledger(e, L, R, d) /\ \A i \in R : IsEntry(L[i])
  BY DEF Sound, Chained
<1>2. IsFiniteSet(R)
  <2>1. PICK S : e.log \in Seq(S)
    BY DEF Sound
  <2> QED
    BY <2>1, AppendFacts
<1>3. x \notin Originals
  BY OriginalFields
<1> HIDE DEF R, L
<1>4. PICK i \in R : x \in Given(L[i])
  BY <1>1, <1>2, <1>3, WeightedFrom
<1>5. x \in L[i].created /\ L[i].wdelta[x] \in Nat \ {0}
  BY <1>1, <1>4 DEF IsEntry, Given, Taken
<1> QED
  BY <1>1, <1>5 DEF Ledger

\* The next output of a totalizer, and the one before that.
LEMMA NextFields ==
  ASSUME NEW x, Bearer(x), IsSum(x)
  PROVE  /\ IsFiniteSet(x.over) /\ x.bnd \in Nat \ {0}
         /\ x = AtMostFalse(x.over, x.bnd) /\ x \notin Originals
         /\ NextOutput(x).over = x.over /\ NextOutput(x).bnd = x.bnd + 1
         /\ NextOutput(x).bnd > 1 /\ IsSum(NextOutput(x))
         /\ Prev(NextOutput(x)) = x
         /\ Bearer(NextOutput(x)) /\ NextOutput(x) \notin Originals
<1>1. x \notin Originals
  BY OriginalFields
<1>2. /\ IsFiniteSet(x.over) /\ x.bnd \in Nat \ {0}
      /\ x = AtMostFalse(x.over, x.bnd)
  BY <1>1 DEF Bearer, IsSum
<1> DEFINE y == NextOutput(x)
<1>3. y = AtMostFalse(x.over, x.bnd + 1) /\ y \notin Originals
  BY NotOriginal DEF NextOutput
<1>4. y.over = x.over /\ y.bnd = x.bnd + 1
  BY <1>3, TotalizerFields
<1> HIDE DEF y
<1>5. y.bnd > 1 /\ IsSum(y) /\ y.bnd - 1 = x.bnd /\ y.bnd \in Nat
  BY <1>2, <1>4 DEF IsSum
<1>6. Prev(y) = x
  BY <1>2, <1>4, <1>5 DEF Prev
<1>7. Bearer(y)
  BY <1>2, <1>3, <1>4, <1>5 DEF Bearer
<1> QED
  BY <1>1, <1>2, <1>3, <1>4, <1>5, <1>6, <1>7 DEF y

\* The literals a totalizer makes new.
LEMMA RootFields ==
  ASSUME NEW lits, IsFiniteSet(lits), NEW k \in Roots(lits)
  PROVE  /\ k = AtMostFalse(lits, 1) /\ k.over = lits /\ k.bnd = 1 /\ IsSum(k)
         /\ Bearer(k) /\ k \notin Originals
<1>1. k = AtMostFalse(lits, 1) /\ k \notin Originals
  BY NotOriginal DEF Roots
<1>2. k.over = lits /\ k.bnd = 1
  BY <1>1, TotalizerFields
<1>3. IsSum(k) /\ Bearer(k)
  BY <1>1, <1>2 DEF IsSum, Bearer
<1> QED
  BY <1>1, <1>2, <1>3

\* What introducing the new literals of a core amounts to.
LEMMA FreshFacts ==
  ASSUME NEW e, NEW H, NEW A, NEW d, Sound(e, H, A, d), NEW lits \in SUBSET Weighted(e),
         lits # {}, NEW w, w = LeastWeight(e, lits)
  PROVE  /\ LiveRoots(e, lits) = {} /\ Fresh(e, lits) \cap e.bnds = {}
         /\ Fresh(e, lits) = {NextOutput(l) : l \in Nexts(e, lits)} \cup Roots(lits)
         /\ IsFiniteSet(Fresh(e, lits))
         /\ \A k \in Fresh(e, lits) : /\ Bearer(k) /\ k \notin Originals /\ IsSum(k)
                                      /\ \A i \in DOMAIN e.log : k \notin Given(e.log[i])
         /\ \A k \in Roots(lits) : FreshWeights(e, lits)[k] = w
         /\ \A l \in Nexts(e, lits) :
              /\ FreshWeights(e, lits)[NextOutput(l)] = e.swgt[l]
              /\ l \in lits /\ IsSum(l) /\ Bearer(l) /\ e.swgt[l] \in Nat \ {0}
<1>1. IsEngine(e) /\ Ledger(e, e.log, DOMAIN e.log, d) /\ \A i \in DOMAIN e.log : IsEntry(e.log[i])
  BY DEF Sound, Chained
<1>2. IsFiniteSet(lits) /\ w \in Nat \ {0}
  BY <1>1, LeastOf
<1>3. \A k \in Roots(lits) : \A i \in DOMAIN e.log : k \notin Given(e.log[i])
  <2> TAKE k \in Roots(lits)
  <2>1. k.over = lits /\ k.bnd <= 1
    BY <1>2, RootFields
  <2> QED
    BY <2>1, OverIsFresh
<1>4. LiveRoots(e, lits) = {}
  <2>1. e.bnds \subseteq DOMAIN e.swgt
    BY DEF Sound, Booked
  <2> QED
    BY <1>1, <1>3, <2>1 DEF LiveRoots, Ledger, IsEntry
<1>5. Fresh(e, lits) = {NextOutput(l) : l \in Nexts(e, lits)} \cup Roots(lits)
  BY <1>4 DEF Fresh
<1>6. \A l \in Nexts(e, lits) : l \in lits /\ IsSum(l) /\ Bearer(l) /\ NextOutput(l) \notin DOMAIN e.swgt
  BY <1>1 DEF Nexts, IsEngine
<1>7. \A l \in Nexts(e, lits) : e.swgt[l] \in Nat \ {0}
  BY <1>6, SumsHaveCounters
<1>8. \A l \in Nexts(e, lits) : \A i \in DOMAIN e.log : NextOutput(l) \notin Given(e.log[i])
  <2> SUFFICES ASSUME NEW l \in Nexts(e, lits), NEW i \in DOMAIN e.log,
                      NextOutput(l) \in Given(e.log[i])
               PROVE  FALSE
    OBVIOUS
  <2>1. IsSum(NextOutput(l))
    BY <1>6, NextFields
  <2>2. NextOutput(l) \in e.log[i].created
    BY <1>1, <2>1 DEF IsEntry
  <2> QED
    BY <1>1, <1>6, <2>2 DEF Ledger
<1>9. IsFiniteSet(Fresh(e, lits))
  <2> DEFINE N == Nexts(e, lits)
             T == {NextOutput(l) : l \in N}
             g == [l \in N |-> NextOutput(l)]
  <2>1. IsFiniteSet(N)
    BY <1>2, <1>6, FS_Subset
  <2>2. g \in [N -> T] /\ \A y \in T : \E x \in N : g[x] = y
    OBVIOUS
  <2>3. IsFiniteSet(T)
    <3> HIDE DEF N, T, g
    <3> QED
      BY <2>1, <2>2, FiniteImage
  <2>4. IsFiniteSet(Roots(lits))
    BY FS_EmptySet, FS_Singleton DEF Roots
  <2> QED
    BY <1>5, <2>3, <2>4, FS_Union
<1>10. \A k \in Fresh(e, lits) : /\ Bearer(k) /\ k \notin Originals /\ IsSum(k)
                                 /\ \A i \in DOMAIN e.log : k \notin Given(e.log[i])
  <2> TAKE k \in Fresh(e, lits)
  <2>1. CASE k \in Roots(lits)
    BY <1>2, <1>3, <2>1, RootFields
  <2>2. CASE \E l \in Nexts(e, lits) : k = NextOutput(l)
    <3>1. PICK l \in Nexts(e, lits) : k = NextOutput(l)
      BY <2>2
    <3>2. Bearer(NextOutput(l)) /\ NextOutput(l) \notin Originals /\ IsSum(NextOutput(l))
      BY <1>6, NextFields
    <3> QED
      BY <1>8, <3>1, <3>2
  <2> QED
    BY <1>5, <2>1, <2>2
<1>11. \A k \in Roots(lits) : FreshWeights(e, lits)[k] = w
  BY <1>5 DEF FreshWeights
<1>12. \A l \in Nexts(e, lits) : FreshWeights(e, lits)[NextOutput(l)] = e.swgt[l]
  <2> TAKE l \in Nexts(e, lits)
  <2> DEFINE k == NextOutput(l)
             x == CHOOSE y \in Nexts(e, lits) : NextOutput(y) = k
  <2>1. x \in Nexts(e, lits) /\ NextOutput(x) = k
    OBVIOUS
  <2>2. Prev(k) = l /\ k.bnd > 1
    BY <1>6, NextFields
  <2>3. Prev(NextOutput(x)) = x
    BY <1>6, <2>1, NextFields
  <2>4. x = l
    BY <2>1, <2>2, <2>3
  <2>5. k \notin Roots(lits)
    BY <1>2, <2>2, RootFields
  <2>6. k \in Fresh(e, lits)
    BY <1>5
  <2>7. FreshWeights(e, lits)[k] = e.swgt[x]
    BY <2>5, <2>6 DEF FreshWeights
  <2> QED
    BY <2>4, <2>7
<1>13. Fresh(e, lits) \cap e.bnds = {}
  <2>1. e.bnds \subseteq DOMAIN e.swgt
    BY DEF Sound, Booked
  <2> QED
    BY <1>1, <1>10, <2>1 DEF Ledger, IsEntry
<1> QED
  BY <1>4, <1>5, <1>6, <1>7, <1>9, <1>10, <1>11, <1>12, <1>13

\* How much assignment m exceeds the bound b of a totalizer over lits.
Beyond(lits, b, m) ==
  IF Cardinality(Falsified(lits, m)) > b THEN Cardinality(Falsified(lits, m)) - b ELSE 0

\* The falsified literals of a finite core are finitely many.
LEMMA FalsifiedType ==
  ASSUME NEW lits, IsFiniteSet(lits), NEW m
  PROVE  IsFiniteSet(Falsified(lits, m)) /\ Cardinality(Falsified(lits, m)) \in Nat
<1>1. Falsified(lits, m) \subseteq lits
  BY DEF Falsified
<1> QED
  BY <1>1, FS_Subset, FS_CardinalityType

\* What is unpaid of an output and of those above it.
LEMMA OutputOwes ==
  ASSUME NEW over, IsFiniteSet(over), NEW b \in Nat, NEW k, k = AtMostFalse(over, b),
         NEW m \in Assignment
  PROVE  /\ Unmet(k, m) = IF Cardinality(Falsified(over, m)) > b THEN 1 ELSE 0
         /\ Excess(k, m) = Beyond(over, b + 1, m)
<1>1. k.over = over /\ k.bnd = b
      /\ k.sat = {p \in Assignment : Cardinality({l \in over : p \notin l.sat}) <= b}
  BY TotalizerFields
<1>2. Cardinality(Falsified(over, m)) \in Nat
  BY FalsifiedType
<1>3. {l \in over : m \notin l.sat} = Falsified(over, m)
  BY DEF Falsified
<1>4. m \in k.sat <=> Cardinality(Falsified(over, m)) <= b
  BY <1>1, <1>3
<1>5. Excess(k, m) = Beyond(over, b + 1, m)
  BY <1>1, <1>3 DEF Excess, Beyond
<1> QED
  BY <1>2, <1>4, <1>5 DEF Unmet

\* A next output takes over what the output before it left unpaid.
LEMMA NextOwes ==
  ASSUME NEW k, Bearer(k), IsSum(k), k.bnd > 1, NEW m \in Assignment
  PROVE  Unmet(k, m) \in Int /\ Gap(k, m) \in Int /\ Unmet(k, m) + Gap(k, m) = 0
<1>1. IsFiniteSet(k.over) /\ k.bnd \in Nat /\ k = AtMostFalse(k.over, k.bnd)
  BY NextFields
<1> DEFINE n == Cardinality(Falsified(k.over, m))
           b == k.bnd
<1>2. n \in Nat
  BY <1>1, FalsifiedType
<1>3. /\ Unmet(k, m) = IF n > b THEN 1 ELSE 0
      /\ Excess(k, m) = Beyond(k.over, b + 1, m)
  <2> DEFINE o == k.over
  <2>1. IsFiniteSet(o) /\ b \in Nat /\ k = AtMostFalse(o, b)
    BY <1>1
  <2> HIDE DEF o, b
  <2> QED
    BY <2>1, OutputOwes DEF o
<1>4. Excess(Prev(k), m) = Beyond(k.over, b, m)
  <2> DEFINE o == k.over
             p == b - 1
             q == Prev(k)
  <2>1. IsFiniteSet(o) /\ p \in Nat /\ q = AtMostFalse(o, p) /\ p + 1 = b
    BY <1>1 DEF Prev
  <2> HIDE DEF o, p, q, b
  <2>2. Excess(q, m) = Beyond(o, p + 1, m)
    BY <2>1, OutputOwes
  <2> QED
    BY <2>1, <2>2 DEF o, q
<1>5. Gap(k, m) = Beyond(k.over, b + 1, m) - Beyond(k.over, b, m)
  BY <1>3, <1>4 DEF Gap
<1>6. /\ Beyond(k.over, b + 1, m) = IF n > b + 1 THEN n - (b + 1) ELSE 0
      /\ Beyond(k.over, b, m) = IF n > b THEN n - b ELSE 0
  BY DEF Beyond
<1>7. b \in Nat
  BY <1>1
<1> HIDE DEF n, b
<1> QED
  BY <1>2, <1>3, <1>5, <1>6, <1>7

\* The first output of a new totalizer leaves all but one of the false literals.
LEMMA RootOwes ==
  ASSUME NEW lits, IsFiniteSet(lits), NEW k, k = AtMostFalse(lits, 1), NEW m \in Assignment,
         Cardinality(Falsified(lits, m)) >= 1
  PROVE  /\ Unmet(k, m) \in Int /\ Gap(k, m) \in Int
         /\ Unmet(k, m) + Gap(k, m) = Cardinality(Falsified(lits, m)) - 1
<1> DEFINE n == Cardinality(Falsified(lits, m))
<1>1. n \in Nat
  BY FalsifiedType
<1>2. k.bnd = 1
  BY TotalizerFields
<1>3. Unmet(k, m) = (IF n > 1 THEN 1 ELSE 0) /\ Excess(k, m) = Beyond(lits, 1 + 1, m)
  BY OutputOwes
<1>4. Gap(k, m) = Excess(k, m) - 0
  BY <1>2 DEF Gap
<1>5. Beyond(lits, 1 + 1, m) = IF n > 2 THEN n - 2 ELSE 0
  BY DEF Beyond
<1> HIDE DEF n
<1> QED
  BY <1>1, <1>3, <1>4, <1>5 DEF n

\* What a literal c gives a weight adds to what m owes.
DebtPart(c, k, m) == UnmetPart(c, k, m) + GapPart(c, k, m)

\* What a consequence changes in the debt of m splits into the unmet literal and
\* the gap above it.
LEMMA DebtParts ==
  ASSUME NEW c, NEW k, c.wdelta[k] \in Int, NEW m, NEW n \in Int,
         Unmet(k, m) \in Int, Gap(k, m) \in Int, Unmet(k, m) + Gap(k, m) = n
  PROVE  /\ UnmetPart(c, k, m) \in Int /\ GapPart(c, k, m) \in Int
         /\ DebtPart(c, k, m) = c.wdelta[k] * n
<1> DEFINE a == c.wdelta[k]
           u == Unmet(k, m)
           g == Gap(k, m)
<1>1. a \in Int /\ u \in Int /\ g \in Int /\ u + g = n
  OBVIOUS
<1>2. UnmetPart(c, k, m) = a * u /\ GapPart(c, k, m) = a * g
  BY DEF UnmetPart, GapPart
<1> HIDE DEF a, u, g
<1>3. a * u \in Int /\ a * g \in Int /\ a * (u + g) = a * u + a * g
  BY <1>1
<1> QED
  BY <1>1, <1>2, <1>3 DEF DebtPart, a

\* What the literals of K add altogether, if all but those of T add nothing.
LEMMA DebtOfCharge ==
  ASSUME NEW c, NEW lits, NEW w, NEW K, TakesFrom(c, lits, w, K), c.created = K, c.weight = w,
         NEW m, NEW T \in SUBSET K, NEW s,
         \A k \in K : UnmetPart(c, k, m) \in Int /\ GapPart(c, k, m) \in Int,
         \A k \in K \ T : DebtPart(c, k, m) = 0,
         \/ \A k : k \notin T /\ s = 0
         \/ \E k : T = {k} /\ DebtPart(c, k, m) = s,
         s = w * Cardinality(Falsified(lits, m)) - w
  PROVE  Balanced(c, m)
<1> DEFINE F == [k \in K |-> UnmetPart(c, k, m)]
           G == [k \in K |-> GapPart(c, k, m)]
           D == [k \in K |-> DebtPart(c, k, m)]
           n == Cardinality(Falsified(lits, m))
<1>1. IsFiniteSet(K) /\ IsFiniteSet(lits) /\ w \in Nat
  BY DEF TakesFrom
<1>2. n \in Nat
  BY <1>1, FalsifiedType
<1>3. \A k \in K : /\ F[k] = UnmetPart(c, k, m) /\ F[k] \in Int /\ G[k] \in Int
                   /\ D[k] = DebtPart(c, k, m) /\ D[k] = F[k] + G[k]
  BY DEF DebtPart
<1>4. GapIn(c, m) = SumFunctionOnSet(G, K)
  BY DEF GapIn
<1> HIDE DEF F, G, D
<1>5. UnmetIn(c, m) = SumFunctionOnSet(F, K) - w * n
  BY <1>3, UnmetOfCharge
<1> HIDE DEF n
<1>6. Integral(F, K) /\ Integral(G, K) /\ Integral(D, K)
  BY <1>1, <1>3 DEF Integral
<1>7. SumFunctionOnSet(D, K) = SumFunctionOnSet(F, K) + SumFunctionOnSet(G, K)
  BY <1>3, <1>6, SumAdd
<1>8. SumFunctionOnSet(D, K) = SumFunctionOnSet(D, T)
  BY <1>3, <1>6, SumSupport
<1>9. SumFunctionOnSet(D, T) = s
  <2>1. CASE \A k : k \notin T /\ s = 0
    <3>1. T = {} /\ s = 0
      BY <2>1
    <3>2. SumFunctionOnSet(D, {}) = 0
      BY SumEmpty
    <3> QED
      BY <3>1, <3>2, Zenon
  <2>2. CASE \E k : T = {k} /\ DebtPart(c, k, m) = s
    <3>1. PICK k : T = {k} /\ DebtPart(c, k, m) = s
      BY <2>2
    <3>2. D[k] \in Int /\ D[k] = s
      BY <1>3, <3>1
    <3>3. SumFunctionOnSet(D, T) = D[k]
      BY <3>1, <3>2, SumSingleton
    <3> QED
      BY <3>2, <3>3
  <2> QED
    BY <2>1, <2>2
<1>10. SumFunctionOnSet(F, K) \in Int /\ SumFunctionOnSet(G, K) \in Int
  BY <1>6, SumInt
<1>11. w * n \in Int /\ s = w * n - w
  BY <1>1, <1>2 DEF n
<1> QED
  BY <1>1, <1>4, <1>5, <1>7, <1>8, <1>9, <1>10, <1>11 DEF Balanced

\* Without a new totalizer exactly one of the charged literals is false.
LEMMA NoRootOneFalse ==
  ASSUME NEW lits, IsFiniteSet(lits), \A x \in lits : Bearer(x), Roots(lits) = {},
         NEW m \in Assignment, Cardinality(Falsified(lits, m)) >= 1
  PROVE  Cardinality(Falsified(lits, m)) = 1
<1>1. Cardinality(lits) \in Nat /\ Falsified(lits, m) \subseteq lits
  BY FS_CardinalityType DEF Falsified
<1>2. Cardinality(Falsified(lits, m)) \in Nat /\ Cardinality(Falsified(lits, m)) <= Cardinality(lits)
  BY <1>1, FalsifiedType, FS_Subset
<1>3. CASE Cardinality(lits) <= 1
  BY <1>1, <1>2, <1>3
<1>4. CASE Complementary(lits)
  <2>1. PICK l \in lits : lits = {l, Neg(l)}
    BY <1>4 DEF Complementary
  <2>2. DOMAIN l = {"name", "pos", "over", "bnd", "sat"}
    BY <2>1 DEF Bearer, Originals, Orig, AtMostFalse, AnyOf
  <2>3. Neg(l).sat = Assignment \ l.sat
    BY <2>2, NegFields
  <2>4. Falsified(lits, m) = {l} \/ Falsified(lits, m) = {Neg(l)}
    BY <2>1, <2>3 DEF Falsified
  <2>5. Cardinality({l}) = 1 /\ Cardinality({Neg(l)}) = 1
    BY FS_Singleton
  <2> QED
    BY <2>4, <2>5
<1>5. Cardinality(lits) > 1 /\ ~Complementary(lits) => Roots(lits) # {}
  BY DEF Roots
<1> QED
  BY <1>1, <1>3, <1>4, <1>5

\* A core is false of every assignment: one of what it charges is.
LEMMA OneIsFalse ==
  ASSUME NEW lits, IsFiniteSet(lits), NEW core, lits \subseteq core, NEW m \in Assignment,
         m \notin ModelsOf(core), m \in ModelsOf(core \ lits)
  PROVE  Cardinality(Falsified(lits, m)) >= 1
<1>1. Falsified(lits, m) # {}
  BY DEF ModelsOf, Falsified
<1>2. IsFiniteSet(Falsified(lits, m)) /\ Cardinality(Falsified(lits, m)) \in Nat
  BY FalsifiedType
<1>3. Cardinality(Falsified(lits, m)) # 0
  BY <1>1, <1>2, FS_EmptySet
<1> QED
  BY <1>2, <1>3

\* A core of several literals is balanced.
LEMMA ManyBalanced ==
  ASSUME NEW e, NEW H, NEW A, NEW d, Sound(e, H, A, d), NEW lits \in SUBSET Weighted(e),
         lits # {}, NEW w, w = LeastWeight(e, lits), NEW c,
         TakesFrom(c, lits, w, Fresh(e, lits)), c.created = Fresh(e, lits), c.weight = w,
         \A k \in Roots(lits) : c.wdelta[k] = w,
         NEW m \in Assignment, Cardinality(Falsified(lits, m)) >= 1
  PROVE  Balanced(c, m)
<1> DEFINE K == Fresh(e, lits)
           T == Roots(lits)
           n == Cardinality(Falsified(lits, m))
<1>1. w \in Nat /\ IsFiniteSet(lits) /\ \A k \in K : c.wdelta[k] \in Int
  BY DEF TakesFrom
<1>2. n \in Nat /\ n >= 1
  BY <1>1, FalsifiedType
<1>3. \A k \in K : Bearer(k) /\ IsSum(k)
  BY FreshFacts
<1>4. T \subseteq K
  BY FreshFacts
<1>5. \A k \in T : k = AtMostFalse(lits, 1)
  BY <1>1, RootFields
<1>6. \A k \in K \ T : k.bnd > 1
  <2> TAKE k \in K \ T
  <2>1. PICK l \in Nexts(e, lits) : k = NextOutput(l)
    BY FreshFacts
  <2>2. IsSum(l) /\ Bearer(l)
    BY FreshFacts
  <2> QED
    BY <2>1, <2>2, NextFields
<1>7. \A k \in K \ T : /\ UnmetPart(c, k, m) \in Int /\ GapPart(c, k, m) \in Int
                       /\ DebtPart(c, k, m) = 0
  <2> TAKE k \in K \ T
  <2>1. Unmet(k, m) \in Int /\ Gap(k, m) \in Int /\ Unmet(k, m) + Gap(k, m) = 0
    BY <1>3, <1>6, NextOwes
  <2>2. c.wdelta[k] \in Int
    BY <1>1
  <2>3. /\ UnmetPart(c, k, m) \in Int /\ GapPart(c, k, m) \in Int
        /\ DebtPart(c, k, m) = c.wdelta[k] * 0
    BY <2>1, <2>2, DebtParts
  <2> QED
    BY <2>2, <2>3
<1>8. \A k \in T : /\ UnmetPart(c, k, m) \in Int /\ GapPart(c, k, m) \in Int
                   /\ DebtPart(c, k, m) = w * n - w
  <2> TAKE k \in T
  <2>1. Unmet(k, m) \in Int /\ Gap(k, m) \in Int /\ Unmet(k, m) + Gap(k, m) = n - 1
    BY <1>1, <1>5, RootOwes
  <2>2. c.wdelta[k] = w
    OBVIOUS
  <2>3. n - 1 \in Int /\ w \in Int
    BY <1>1, <1>2
  <2> DEFINE p == n - 1
  <2>6. Unmet(k, m) \in Int /\ Gap(k, m) \in Int /\ Unmet(k, m) + Gap(k, m) = p /\ p \in Int
    BY <2>1, <2>3
  <2> HIDE DEF p, n, T
  <2>4. /\ UnmetPart(c, k, m) \in Int /\ GapPart(c, k, m) \in Int
        /\ DebtPart(c, k, m) = c.wdelta[k] * p
    BY <2>2, <2>3, <2>6, DebtParts
  <2>5. w * (n - 1) = w * n - w
    BY <1>1, <1>2
  <2> QED
    BY <2>2, <2>4, <2>5 DEF p
<1>9. \/ \A k : k \notin T /\ w * n - w = 0
      \/ \E k : T = {k} /\ DebtPart(c, k, m) = w * n - w
  <2>1. CASE T = {}
    <3>1. \A x \in lits : Bearer(x)
      BY DEF Sound, IsEngine
    <3>2. n = 1
      BY <1>1, <2>1, <3>1, NoRootOneFalse
    <3>3. w * n - w = 0
      BY <1>1, <3>2
    <3> QED
      BY <2>1, <3>3
  <2>2. CASE T # {}
    <3>1. \E k : T = {k}
      BY <2>2 DEF Roots
    <3> QED
      BY <1>8, <3>1
  <2> QED
    BY <2>1, <2>2
<1> DEFINE s == w * n - w
<1>10. /\ \/ \A k : k \notin T /\ s = 0
          \/ \E k : T = {k} /\ DebtPart(c, k, m) = s
       /\ T \in SUBSET K
       /\ \A k \in K : UnmetPart(c, k, m) \in Int /\ GapPart(c, k, m) \in Int
       /\ \A k \in K \ T : DebtPart(c, k, m) = 0
       /\ TakesFrom(c, lits, w, K) /\ c.created = K
       /\ s = w * Cardinality(Falsified(lits, m)) - w
  BY <1>4, <1>7, <1>8, <1>9
<1> HIDE DEF K, T, s, n
<1> QED
  BY <1>10, DebtOfCharge

\* Charging a core of several literals keeps the engine sound.
LEMMA ManySound ==
  ASSUME NEW e, NEW H, NEW A, NEW d, Sound(e, H, A, d), NEW core,
         NEW lits \in SUBSET Weighted(e), lits # {}, lits \subseteq core,
         H \subseteq Assignment, H \cap ModelsOf(core) = {},
         core \ lits \subseteq A \cup e.impossible,
         NEW level, NEW f, f = ChargeMany(e, core, lits, level)
  PROVE  Sound(f, H, A, d)
<1> DEFINE K == Fresh(e, lits)
<1>1. PICK w : w = LeastWeight(e, lits)
  OBVIOUS
<1>2. EngineRecord(e) /\ IsEngine(e) /\ ~e.thrown
  BY DEF Sound, IsEngine
<1>3. /\ IsFiniteSet(lits) /\ w \in Nat \ {0}
      /\ Dead(e, lits, w) \subseteq lits
  BY <1>1, <1>2, LeastOf
<1>4. LiveRoots(e, lits) = {} /\ K \cap e.bnds = {}
  BY <1>1, FreshFacts
<1>5. /\ f.wght = Over(FreshWeights(e, lits), Reduced(e, lits, w))
      /\ f.active = (e.active \ (Dead(e, lits, w) \cup Lowered(e, lits, w, level))) \cup K
      /\ f.impossible = e.impossible
      /\ f.swgt = Over(FreshWeights(e, lits), e.swgt)
      /\ f.original = e.original
  BY <1>1, <1>2, <1>4, ManyFields
<1>6. PICK c : /\ AfterCharge(e, f, c)
               /\ HasParts(c, core, w, Dead(e, lits, w), K, K)
               /\ Takes(c, lits, w, K)
               /\ \A k \in K : c.wdelta[k] = FreshWeights(e, lits)[k]
  BY <1>1, <1>2, <1>4, ManyFields
<1>7. /\ IsFiniteSet(K)
      /\ \A k \in K : /\ Bearer(k) /\ k \notin Originals /\ IsSum(k)
                      /\ \A i \in DOMAIN e.log : k \notin Given(e.log[i])
      /\ \A k \in K : k \in Roots(lits) \/ \E l \in Nexts(e, lits) : k = NextOutput(l)
      /\ Roots(lits) \subseteq K
      /\ \A l \in Nexts(e, lits) : NextOutput(l) \in K
  BY <1>1, FreshFacts
<1>8. /\ \A k \in Roots(lits) : FreshWeights(e, lits)[k] = w /\ k.over = lits /\ k.bnd = 1
      /\ \A l \in Nexts(e, lits) : FreshWeights(e, lits)[NextOutput(l)] = e.swgt[l]
                                   /\ e.swgt[l] \in Nat \ {0} /\ l \in lits
                                   /\ NextOutput(l).bnd \in Nat /\ NextOutput(l).bnd > 1
                                   /\ Prev(NextOutput(l)) = l
  <2>1. \A k \in Roots(lits) : FreshWeights(e, lits)[k] = w /\ k.over = lits /\ k.bnd = 1
    BY <1>1, <1>3, FreshFacts, RootFields
  <2>2. \A l \in Nexts(e, lits) : FreshWeights(e, lits)[NextOutput(l)] = e.swgt[l]
                                   /\ e.swgt[l] \in Nat \ {0} /\ l \in lits /\ Bearer(l) /\ IsSum(l)
    BY <1>1, FreshFacts
  <2>3. \A l \in Nexts(e, lits) : /\ NextOutput(l).bnd \in Nat /\ NextOutput(l).bnd > 1
                                   /\ Prev(NextOutput(l)) = l
    BY <2>2, NextFields
  <2> QED
    BY <2>1, <2>2, <2>3
<1>9. DOMAIN FreshWeights(e, lits) = K
  BY DEF FreshWeights
<1>10. /\ DOMAIN Reduced(e, lits, w) = Weighted(e) \ Dead(e, lits, w)
       /\ \A l \in Weighted(e) \ Dead(e, lits, w) : Reduced(e, lits, w)[l] = LeftOf(e, lits, w, l)
  BY ReducedWeights
<1> HIDE DEF K
<1>11. \A k \in K : FreshWeights(e, lits)[k] \in Nat \ {0}
  BY <1>3, <1>7, <1>8
<1>12. /\ Weighted(f) = (Weighted(e) \ Dead(e, lits, w)) \cup K
       /\ \A l \in (Weighted(e) \ Dead(e, lits, w)) \ K : f.wght[l] = LeftOf(e, lits, w, l)
       /\ \A k \in K : f.wght[k] = FreshWeights(e, lits)[k]
  BY <1>5, <1>9, <1>10 DEF Over, Weighted
<1>13. /\ DOMAIN f.swgt = DOMAIN e.swgt \cup K
       /\ \A k \in DOMAIN e.swgt : k \notin K => f.swgt[k] = e.swgt[k]
       /\ \A k \in K : f.swgt[k] = FreshWeights(e, lits)[k]
  BY <1>5, <1>9 DEF Over
<1>14. /\ ~f.thrown
       /\ c.weight = w /\ c.core = core /\ c.added = K /\ c.removed = Dead(e, lits, w)
       /\ c.created = K
  BY <1>2, <1>6 DEF AfterCharge, HasParts
<1>15. Charges(e, f, c, lits, w, K)
  <2>1. DOMAIN c.wdelta = K \cup lits /\ \A l \in lits \ K : c.wdelta[l] = -w
    BY <1>6 DEF Takes
  <2>2. c.created = {k \in K : IsSum(k)}
    BY <1>7, <1>14
  <2>3. f.active \subseteq (e.active \ Dead(e, lits, w)) \cup K
    BY <1>5 DEF K
  <2>4. \A k \in K : f.wght[k] \in Nat \ {0} /\ c.wdelta[k] = f.wght[k]
    BY <1>6, <1>11, <1>12
  <2>5. \A k \in c.created : f.swgt[k] = c.wdelta[k]
    BY <1>6, <1>13, <1>14
  <2>6. /\ DOMAIN f.swgt = DOMAIN e.swgt \cup c.created
        /\ \A k \in DOMAIN e.swgt : k \notin c.created => f.swgt[k] = e.swgt[k]
    BY <1>13, <1>14
  <2>7. f.original = e.original \cup {k \in K : ~IsSum(k)}
    BY <1>5, <1>7
  <2> QED
    BY <1>3, <1>5, <1>6, <1>12, <1>14, <2>1, <2>2, <2>3, <2>4, <2>5, <2>6, <2>7 DEF Charges
<1>16. Grants(e, f, lits, K)
  <2>1. \A k \in K : k.bnd <= 1 => k.over = lits
    BY <1>7, <1>8
  <2>2. \A k \in K : k.bnd > 1 => Prev(k) \in lits /\ f.swgt[k] = e.swgt[Prev(k)]
    BY <1>7, <1>8, <1>13
  <2>3. \A x \in lits : IsSum(x) /\ HasNextOutput(x) => NextOutput(x) \in DOMAIN f.swgt
    BY <1>7, <1>13 DEF Nexts
  <2> QED
    BY <1>7, <2>1, <2>2, <2>3 DEF Grants
<1>17. /\ Extends(e, f, c) /\ Taken(c) = lits /\ Given(c) = K /\ Units(c) = c.added \ K
       /\ K \cap lits = {}
  BY <1>1, <1>15, <1>16, ChargesExtend
<1>18. TakesFrom(c, lits, w, K)
  <2>1. DOMAIN c.wdelta = K \cup lits /\ \A l \in lits : c.wdelta[l] = -w
    BY <1>6, <1>17 DEF Takes
  <2>2. \A k \in K : c.wdelta[k] \in Int
    BY <1>6, <1>11
  <2> QED
    BY <1>3, <1>7, <1>17, <2>1, <2>2 DEF TakesFrom
<1>19. \A m \in H : m \in ModelsOf(core \ lits) => Balanced(c, m)
  <2> SUFFICES ASSUME NEW m \in H, m \in ModelsOf(core \ lits) PROVE Balanced(c, m)
    OBVIOUS
  <2>1. Cardinality(Falsified(lits, m)) >= 1
    BY <1>3, OneIsFalse
  <2>2. \A k \in Roots(lits) : c.wdelta[k] = w
    BY <1>6, <1>7, <1>8
  <2>3. TakesFrom(c, lits, w, Fresh(e, lits)) /\ c.created = Fresh(e, lits) /\ c.weight = w
    BY <1>14, <1>18 DEF K
  <2> QED
    BY <1>1, <2>1, <2>2, <2>3, ManyBalanced
<1>20. Follows(c, e.impossible, H, A)
  <2>1. H \cap ModelsOf(c.core) = {}
    BY <1>14
  <2>2. c.core \ Taken(c) = core \ lits
    BY <1>14, <1>17
  <2>3. Units(c) = {}
    BY <1>14, <1>17
  <2> QED
    BY <1>19, <2>1, <2>2, <2>3 DEF Follows
<1> QED
  BY <1>17, <1>20, ChargeSound

\* What is on file suffices to charge active literals, and sums at any level.
LEMMA ChargeableIf ==
  ASSUME NEW e, NEW H, NEW A, NEW d, Sound(e, H, A, d), NEW lits \in SUBSET Weighted(e),
         \A x \in lits : IsSum(x) \/ x \in e.active
  PROVE  Chargeable(e, lits)
<1>1. Booked(e, e.log, DOMAIN e.log)
  BY DEF Sound
<1> QED
  BY <1>1 DEF Booked, Chargeable

\* Charging a core keeps the engine sound.
LEMMA ProcessCoreSound ==
  ASSUME NEW e, NEW H, NEW A, NEW d, Sound(e, H, A, d), H \subseteq Assignment,
         NEW core, NEW base, base \cap core \subseteq A \cup e.impossible,
         core \ base \subseteq e.active, core \ base # {}, H \cap ModelsOf(core) = {},
         NEW level, NEW f, f = ProcessCore(e, core, base, level)
  PROVE  Sound(f, H, A, d)
<1> DEFINE lits == core \ base
<1>1. lits \in SUBSET Weighted(e) /\ lits # {} /\ lits \subseteq core
      /\ core \ lits \subseteq A \cup e.impossible
  BY DEF Sound, IsEngine
<1>4. Chargeable(e, lits)
  <2> HIDE DEF lits
  <2> QED
    BY <1>1, ChargeableIf DEF lits
<1>2. CASE \E l \in lits : lits = {l} /\ ~IsSum(l)
  <2>1. PICK l \in lits : lits = {l} /\ ~IsSum(l)
    BY <1>2
  <2>2. (CHOOSE k \in lits : TRUE) = l
    BY <2>1
  <2>3. f = ChargeUnit(e, core, l)
    BY <1>2, <1>4, <2>2 DEF ProcessCore
  <2>4. l \in Weighted(e) /\ l \in core /\ core \ {l} \subseteq A \cup e.impossible
    BY <1>1, <2>1
  <2> HIDE DEF lits
  <2> QED
    BY <2>1, <2>3, <2>4, UnitSound
<1>3. CASE ~ \E l \in lits : lits = {l} /\ ~IsSum(l)
  <2>1. f = ChargeMany(e, core, lits, level)
    BY <1>3, <1>4 DEF ProcessCore
  <2> HIDE DEF lits
  <2> QED
    BY <1>1, <2>1, ManySound
<1> QED
  BY <1>2, <1>3

\* What negation means for a literal that carries a weight.
LEMMA NegBearer ==
  ASSUME NEW x, Bearer(x)
  PROVE  /\ Neg(x).bnd = x.bnd /\ Neg(x).sat = Assignment \ x.sat
         /\ IsSum(Neg(x)) <=> IsSum(x)
         /\ \A m \in Assignment : m \in Neg(x).sat <=> m \notin x.sat
<1>1. DOMAIN x = {"name", "pos", "over", "bnd", "sat"}
  BY DEF Bearer, Originals, Orig, AtMostFalse, AnyOf
<1>2. PICK q : Neg(x) = [x EXCEPT !.name = -x.name, !.pos = q, !.sat = Assignment \ x.sat]
  BY <1>1, NegFields
<1>3. Neg(x).bnd = x.bnd /\ Neg(x).sat = Assignment \ x.sat
  BY <1>1, <1>2
<1> QED
  BY <1>3 DEF IsSum

\* Cancelling contradictory literals keeps the engine sound.
LEMMA CancelledSound ==
  ASSUME NEW e, NEW H, NEW A, NEW d, Sound(e, H, A, d), H \subseteq Assignment,
         A \subseteq Originals, NEW base, base = A \cup e.impossible,
         NEW l \in Cancellable(e, base), NEW f, f = Cancelled(e, base, l)
  PROVE  Sound(f, H, A, d)
<1> DEFINE n == Neg(l)
           core == {l, n}
<1>1. /\ IsEngine(e) /\ Ledger(e, e.log, DOMAIN e.log, d) /\ Chained(e.log, DOMAIN e.log, d)
      /\ Implied(e.log, DOMAIN e.log, H, A)
  BY DEF Sound
<1>2. l \in e.active /\ (n \in base \/ n \in e.active)
  BY DEF Cancellable, ClashingPairs, ClashingWithBase
<1>3. l \in Weighted(e) /\ Bearer(l)
  BY <1>1, <1>2 DEF IsEngine
<1>4. \A m \in H : m \in n.sat <=> m \notin l.sat
  BY <1>3, NegBearer
<1>5. H \cap ModelsOf(core) = {}
  BY <1>4 DEF ModelsOf
<1>6. CASE n \in base
  <2>1. f = Cancel(e, core, {l})
    BY <1>6 DEF Cancelled
  <2>2. ~IsSum(l)
    <3>1. CASE n \in A
      <4>1. Bearer(n)
        BY <3>1 DEF Bearer
      <4> QED
        BY <1>3, <4>1, NegNoBearer, OriginalFields
    <3>2. CASE n \in e.impossible
      <4>1. PICK i \in DOMAIN e.log : n \in Units(e.log[i])
        BY <1>1, <3>2 DEF Ledger
      <4>2. PICK x \in e.log[i].core : /\ Taken(e.log[i]) = {x} /\ ~IsSum(x)
                                       /\ Units(e.log[i]) \subseteq {Neg(x)}
        BY <1>1, <4>1 DEF Implied
      <4>3. Bearer(x) /\ n = Neg(x)
        BY <1>1, <4>1, <4>2 DEF Chained, IsEntry, Taken
      <4>4. (IsSum(n) <=> IsSum(x)) /\ (IsSum(n) <=> IsSum(l))
        <5>1. \A y : Bearer(y) => (IsSum(Neg(y)) <=> IsSum(y))
          BY NegBearer
        <5> QED
          BY <1>3, <4>3, <5>1
      <4> QED
        BY <4>2, <4>4
    <3> QED
      BY <1>6, <3>1, <3>2
  <2>3. \A m \in H : m \in ModelsOf(core \ {l}) => Cardinality(Falsified({l}, m)) = 1
    <3> SUFFICES ASSUME NEW m \in H, m \in ModelsOf(core \ {l})
                 PROVE  Cardinality(Falsified({l}, m)) = 1
      OBVIOUS
    <3>1. Falsified({l}, m) = {l}
      BY <1>4 DEF Falsified, ModelsOf
    <3> QED
      BY <3>1, FS_Singleton
  <2>4. PICK lits : lits = {l}
    OBVIOUS
  <2>5. /\ lits \in SUBSET Weighted(e) /\ lits # {} /\ \A x \in lits : ~IsSum(x)
        /\ lits \subseteq core /\ core \ lits \subseteq A \cup e.impossible
        /\ \A m \in H : m \in ModelsOf(core \ lits) => Cardinality(Falsified(lits, m)) = 1
        /\ f = Cancel(e, core, lits)
    BY <1>3, <1>6, <2>1, <2>2, <2>3, <2>4
  <2> HIDE DEF core, n
  <2> QED
    BY <1>5, <2>5, CancelSound
<1>7. CASE n \notin base
  <2>1. f = Cancel(e, core, core)
    BY <1>7 DEF Cancelled
  <2>2. n \in Weighted(e) /\ Bearer(n)
    BY <1>1, <1>2, <1>7 DEF IsEngine
  <2>3. l \in Originals
    BY <1>3, <2>2, NegNoBearer
  <2>4. \A x \in core : ~IsSum(x)
    BY <1>3, <2>3, OriginalFields, NegBearer
  <2>5. \A m \in H : Cardinality(Falsified(core, m)) = 1
    <3> TAKE m \in H
    <3>1. Falsified(core, m) = {l} \/ Falsified(core, m) = {n}
      BY <1>4 DEF Falsified
    <3>2. Cardinality({l}) = 1 /\ Cardinality({n}) = 1
      BY FS_Singleton
    <3> QED
      BY <3>1, <3>2
  <2>6. /\ core \in SUBSET Weighted(e) /\ core # {} /\ core \subseteq core
        /\ core \ core \subseteq A \cup e.impossible
    BY <1>3, <2>2
  <2> HIDE DEF core, n
  <2> QED
    BY <1>5, <2>1, <2>4, <2>5, <2>6, CancelSound
<1> QED
  BY <1>6, <1>7

(***************************************************************************)
(* The folds of the model.  All three fold a step over a finite set, the   *)
(* argument of the step being chosen from what is left of the set:         *)
(*   "undo"  undoes the consequences of the sequence a,                    *)
(*   "mark"  marks what conflicts with what is marked so far,              *)
(*   "unit"  charges the units that follow from the base.                  *)
(***************************************************************************)
Marking(log, conflicting, D) ==
  {i \in DOMAIN log : log[i].core \cap Marked(log, conflicting, D) # {}}

Stepped(k, a, x, v) ==
  IF k = "undo" THEN Undo(v, a[x])
  ELSE IF k = "mark" THEN Marking(a.log, a.conflicting, v)
  ELSE ProcessCore(v, a.base \cup {x}, a.base, a.level)

Pick(k, s) == IF k = "unit" THEN CHOOSE x \in s : TRUE ELSE Max(s)

FoldStep(k, a, b, g, s) ==
  IF s = {} THEN b ELSE Stepped(k, a, Pick(k, s), g[s \ {Pick(k, s)}])

FoldsUpTo(k, a, b, S, g) == g = [s \in SUBSET S |-> FoldStep(k, a, b, g, s)]

Pickable(k, S) == \A s \in SUBSET S : s # {} => Pick(k, s) \in s

\* Two such folds agree where both are defined.
LEMMA FoldsAgree ==
  ASSUME NEW k, NEW a, NEW b, NEW S, NEW T, NEW g, NEW h, NEW U, IsFiniteSet(U),
         U \subseteq S, U \subseteq T, FoldsUpTo(k, a, b, S, g), FoldsUpTo(k, a, b, T, h),
         Pickable(k, U)
  PROVE  g[U] = h[U]
<1> DEFINE G == {V \in SUBSET U : g[V] = h[V]}
<1>1. ASSUME NEW V \in SUBSET U, \A x \in V : V \ {x} \in G
      PROVE  V \in G
  <2>1. g[V] = FoldStep(k, a, b, g, V) /\ h[V] = FoldStep(k, a, b, h, V)
    <3>1. g = [s \in SUBSET S |-> FoldStep(k, a, b, g, s)]
      BY DEF FoldsUpTo
    <3>2. h = [s \in SUBSET T |-> FoldStep(k, a, b, h, s)]
      BY DEF FoldsUpTo
    <3>3. V \in SUBSET S /\ V \in SUBSET T
      OBVIOUS
    <3> QED
      BY <3>1, <3>2, <3>3
  <2>2. CASE V = {}
    BY <2>1, <2>2 DEF FoldStep
  <2>3. CASE V # {}
    <3>1. Pick(k, V) \in V
      BY <2>3 DEF Pickable
    <3> QED
      BY <1>1, <2>1, <2>3, <3>1 DEF FoldStep
  <2> QED
    BY <2>2, <2>3
<1>2. U \in G
  <2> HIDE DEF G
  <2> QED
    BY <1>1, SetInduction
<1> QED
  BY <1>2

\* Such a fold exists over every finite set.
LEMMA FoldsExist ==
  ASSUME NEW k, NEW a, NEW b, NEW S, IsFiniteSet(S), Pickable(k, S)
  PROVE  \E g : FoldsUpTo(k, a, b, S, g)
<1> DEFINE TheFold(T) == CHOOSE g : FoldsUpTo(k, a, b, T, g)
           G == {T \in SUBSET S : \E g : FoldsUpTo(k, a, b, T, g)}
<1>1. ASSUME NEW T \in SUBSET S, \A x \in T : T \ {x} \in G
      PROVE  T \in G
  <2>1. CASE T = {}
    <3> DEFINE g == [s \in {{}} |-> b]
    <3>1. FoldsUpTo(k, a, b, T, g)
      BY <2>1 DEF FoldsUpTo, FoldStep
    <3> QED
      BY <3>1
  <2>2. CASE T # {}
    <3> DEFINE h(x) == TheFold(T \ {x})
               y0   == Pick(k, T)
               g    == [s \in SUBSET T |->
                          IF s = {} THEN b
                          ELSE IF s = T THEN Stepped(k, a, y0, h(y0)[T \ {y0}])
                          ELSE h(CHOOSE x \in T : x \notin s)[s]]
    <3>0. y0 \in T
      BY <2>2 DEF Pickable
    <3>1. \A x \in T : FoldsUpTo(k, a, b, T \ {x}, h(x))
      BY <1>1
    <3> HIDE DEF TheFold
    <3>2. ASSUME NEW s \in SUBSET T, NEW x \in T, x \notin s
          PROVE  g[s] = h(x)[s]
      <4>1. CASE s = {}
        <5>1. h(x) = [u \in SUBSET (T \ {x}) |-> FoldStep(k, a, b, h(x), u)]
          BY <3>1 DEF FoldsUpTo
        <5>2. h(x)[{}] = FoldStep(k, a, b, h(x), {})
          <6> HIDE DEF h
          <6> QED
            BY <5>1
        <5> QED
          BY <4>1, <5>2 DEF FoldStep
      <4>2. CASE s # {}
        <5> DEFINE y == CHOOSE z \in T : z \notin s
        <5>1. y \in T /\ y \notin s
          BY <3>2
        <5>2. g[s] = h(y)[s]
          BY <3>2, <4>2
        <5>3. IsFiniteSet(s) /\ Pickable(k, s)
          BY FS_Subset DEF Pickable
        <5>4. FoldsUpTo(k, a, b, T \ {x}, h(x)) /\ FoldsUpTo(k, a, b, T \ {y}, h(y))
          BY <3>1, <5>1
        <5>5. s \subseteq T \ {x} /\ s \subseteq T \ {y}
          BY <3>2, <5>1
        <5> HIDE DEF y, h, g
        <5>6. h(y)[s] = h(x)[s]
          BY <5>3, <5>4, <5>5, FoldsAgree
        <5> QED
          BY <5>2, <5>6
      <4> QED
        BY <4>1, <4>2
    <3>3. ASSUME NEW s \in SUBSET T
          PROVE  g[s] = FoldStep(k, a, b, g, s)
      <4>1. CASE s = {}
        BY <4>1 DEF FoldStep
      <4>2. CASE s # {}
        <5>1. Pick(k, s) \in s
          BY <4>2 DEF Pickable
        <5> DEFINE x == IF s = T THEN y0 ELSE CHOOSE z \in T : z \notin s
        <5>2. x \in T /\ (s = T \/ x \notin s) /\ (s = T => x = Pick(k, s))
          BY <3>0
        <5>3. g[s \ {Pick(k, s)}] = h(x)[s \ {Pick(k, s)}]
          <6>1. s \ {Pick(k, s)} \in SUBSET T /\ x \notin s \ {Pick(k, s)}
            BY <5>2
          <6> HIDE DEF x, g, h
          <6> QED
            BY <3>2, <5>2, <6>1
        <5>4. CASE s = T
          <6>1. g[s] = Stepped(k, a, y0, h(y0)[T \ {y0}])
            BY <4>2, <5>4
          <6> QED
            BY <4>2, <5>3, <5>4, <6>1 DEF FoldStep
        <5>5. CASE s # T
          <6>1. h(x)[s] = FoldStep(k, a, b, h(x), s)
            <7>1. h(x) = [u \in SUBSET (T \ {x}) |-> FoldStep(k, a, b, h(x), u)]
              <8> HIDE DEF h, x, g
              <8> QED
                BY <3>1, <5>2 DEF FoldsUpTo
            <7>2. s \in SUBSET (T \ {x})
              BY <5>2, <5>5
            <7> HIDE DEF h, x, g
            <7> QED
              BY <7>1, <7>2
          <6>2. g[s] = h(x)[s]
            BY <3>2, <5>2, <5>5
          <6> QED
            BY <4>2, <5>3, <6>1, <6>2 DEF FoldStep
        <5> QED
          BY <5>4, <5>5
      <4> QED
        BY <4>1, <4>2
    <3>4. FoldsUpTo(k, a, b, T, g)
      <4>1. DOMAIN g = SUBSET T /\ g = [s \in DOMAIN g |-> g[s]]
        OBVIOUS
      <4> HIDE DEF g
      <4> QED
        BY <3>3, <4>1 DEF FoldsUpTo
    <3> QED
      BY <3>4
  <2> QED
    BY <2>1, <2>2
<1>2. S \in G
  <2> HIDE DEF G
  <2>1. \A T \in SUBSET S : (\A x \in T : T \ {x} \in G) => T \in G
    BY <1>1
  <2> QED
    BY <2>1, SetInduction
<1> QED
  BY <1>2

\* A set of numbers up to n that is not empty has a greatest element.
LEMMA GreatestNumber ==
  ASSUME NEW n \in Nat, NEW s \in SUBSET (1 .. n), s # {}
  PROVE  Max(s) \in s /\ \A y \in s : Max(s) >= y
<1> DEFINE W == {n - x : x \in s}
<1>0. \A x \in s : x \in Int /\ n - x \in Nat
  OBVIOUS
<1>1. PICK z \in W : \A y \in W : z <= y
  <2>1. W \in SUBSET Nat /\ W # {}
    BY <1>0
  <2> HIDE DEF W
  <2> QED
    BY <2>1, LeastNumber
<1>2. PICK x \in s : z = n - x
  BY <1>1
<1>3. \A y \in s : x >= y
  <2> TAKE y \in s
  <2>1. n - x <= n - y
    BY <1>1, <1>2
  <2>2. x \in Int /\ y \in Int
    BY <1>0
  <2> QED
    BY <2>1, <2>2
<1> QED
  BY <1>2, <1>3 DEF Max

\* The greatest number up to i.
LEMMA MaxInterval ==
  ASSUME NEW i \in Nat, i > 0
  PROVE  Max(1 .. i) = i /\ (1 .. i) \ {i} = 1 .. (i - 1)
<1>1. 1 .. i # {} /\ (1 .. i) \ {i} = 1 .. (i - 1)
  OBVIOUS
<1>2. Max(1 .. i) \in 1 .. i /\ \A y \in 1 .. i : Max(1 .. i) >= y
  BY <1>1, GreatestNumber
<1> QED
  BY <1>1, <1>2

\* The fold g over 1 .. n goes from each number to the next.
Proceeds(k, a, b, n, g) ==
  /\ g[1 .. 0] = b
  /\ \A i \in 1 .. n : g[1 .. i] = Stepped(k, a, i, g[1 .. (i - 1)])

\* The states a fold over a sequence goes through.
LEMMA FoldOverSequence ==
  ASSUME NEW k, k # "unit", NEW a, NEW b, NEW n \in Nat
  PROVE  /\ \E g : FoldsUpTo(k, a, b, 1 .. n, g)
         /\ \A g : FoldsUpTo(k, a, b, 1 .. n, g) => Proceeds(k, a, b, n, g)
<1>1. \A s : Pick(k, s) = Max(s)
  BY DEF Pick
<1>2. IsFiniteSet(1 .. n)
  BY FS_Interval
<1>3. Pickable(k, 1 .. n)
  BY <1>1, GreatestNumber DEF Pickable
<1>4. \E g : FoldsUpTo(k, a, b, 1 .. n, g)
  BY <1>2, <1>3, FoldsExist
<1>5. ASSUME NEW g, FoldsUpTo(k, a, b, 1 .. n, g)
      PROVE  /\ g[1 .. 0] = b
             /\ \A i \in 1 .. n : g[1 .. i] = Stepped(k, a, i, g[1 .. (i - 1)])
  <2>1. g = [s \in SUBSET (1 .. n) |-> FoldStep(k, a, b, g, s)]
    BY <1>5 DEF FoldsUpTo
  <2>2. \A s \in SUBSET (1 .. n) : g[s] = FoldStep(k, a, b, g, s)
    BY <2>1
  <2>3. g[1 .. 0] = b
    <3>1. 1 .. 0 = {} /\ {} \in SUBSET (1 .. n)
      OBVIOUS
    <3> QED
      BY <2>2, <3>1 DEF FoldStep
  <2>4. ASSUME NEW i \in 1 .. n PROVE g[1 .. i] = Stepped(k, a, i, g[1 .. (i - 1)])
    <3>1. 1 .. i \in SUBSET (1 .. n) /\ 1 .. i # {} /\ i \in Nat /\ i > 0
      OBVIOUS
    <3>2. Pick(k, 1 .. i) = i /\ (1 .. i) \ {i} = 1 .. (i - 1)
      BY <1>1, <3>1, MaxInterval
    <3>3. g[1 .. i] = FoldStep(k, a, b, g, 1 .. i)
      BY <2>2, <3>1
    <3> QED
      BY <3>1, <3>2, <3>3 DEF FoldStep
  <2> QED
    BY <2>3, <2>4
<1> QED
  BY <1>4, <1>5 DEF Proceeds

\* The engines that undoing a sequence goes through, and the rounds of ToDisable.
Undoes(e, n, seq, r) ==
  /\ r[0] = e
  /\ \A i \in 1 .. n : r[i] = Undo(r[i - 1], seq[i])
  /\ FoldLeft(Undo, e, seq) = r[n]

Marks(log, n, conflicting, r) ==
  /\ r[0] = {}
  /\ \A i \in 1 .. n : r[i] = Marking(log, conflicting, r[i - 1])
  /\ ToDisable(log, conflicting) = r[n]

\* Undoing a sequence of consequences goes through one engine for each.
LEMMA UndoFold ==
  ASSUME NEW e, NEW n \in Nat, NEW seq, DOMAIN seq = 1 .. n
  PROVE  \E r : Undoes(e, n, seq, r)
<1> DEFINE P(g) == g = [s \in SUBSET (DOMAIN seq) |->
                          IF s = {} THEN e
                          ELSE Undo(g[s \ {Max(s)}], seq[Max(s)])]
           h == CHOOSE g : P(g)
<1>1. FoldLeft(Undo, e, seq) = h[DOMAIN seq]
  BY DEF FoldLeft, MapThenFoldSet
<1>2. \A g : FoldsUpTo("undo", seq, e, 1 .. n, g) <=> P(g)
  BY DEF FoldsUpTo, FoldStep, Stepped, Pick
<1>3. \E g : P(g)
  <2> HIDE DEF P
  <2> QED
    BY <1>2, FoldOverSequence
<1>4. P(h)
  <2> HIDE DEF P
  <2> QED
    BY <1>3
<1> HIDE DEF h
<1>5. FoldsUpTo("undo", seq, e, 1 .. n, h)
  BY <1>2, <1>4
<1>6. /\ h[1 .. 0] = e
      /\ \A i \in 1 .. n : h[1 .. i] = Stepped("undo", seq, i, h[1 .. (i - 1)])
  <2>1. Proceeds("undo", seq, e, n, h)
    BY <1>5, FoldOverSequence
  <2> QED
    BY <2>1 DEF Proceeds
<1> DEFINE r == [i \in 0 .. n |-> h[1 .. i]]
<1>7. r[0] = e
  BY <1>6
<1>8. ASSUME NEW i \in 1 .. n PROVE r[i] = Undo(r[i - 1], seq[i])
  <2>1. r[i] = h[1 .. i] /\ r[i - 1] = h[1 .. (i - 1)]
    OBVIOUS
  <2> QED
    BY <1>6, <2>1 DEF Stepped
<1>9. FoldLeft(Undo, e, seq) = r[n]
  BY <1>1
<1> HIDE DEF r
<1> QED
  BY <1>7, <1>8, <1>9 DEF Undoes

\* The rounds of ToDisable.
LEMMA MarkFold ==
  ASSUME NEW log, NEW n \in Nat, DOMAIN log = 1 .. n, NEW conflicting
  PROVE  \E r : Marks(log, n, conflicting, r)
<1> DEFINE P(g) == g = [s \in SUBSET (DOMAIN log) |->
                          IF s = {} THEN {}
                          ELSE {i \in DOMAIN log :
                                  log[i].core \cap Marked(log, conflicting, g[s \ {Max(s)}]) # {}}]
           h == CHOOSE g : P(g)
           a == [log |-> log, conflicting |-> conflicting]
<1>1. ToDisable(log, conflicting) = h[DOMAIN log]
  BY DEF ToDisable, FoldLeft, MapThenFoldSet
<1>2. \A g : FoldsUpTo("mark", a, {}, 1 .. n, g) <=> P(g)
  BY DEF FoldsUpTo, FoldStep, Stepped, Pick, Marking
<1> HIDE DEF a
<1>3. \E g : P(g)
  <2> HIDE DEF P
  <2> QED
    BY <1>2, FoldOverSequence
<1>4. P(h)
  <2> HIDE DEF P
  <2> QED
    BY <1>3
<1> HIDE DEF h
<1>5. FoldsUpTo("mark", a, {}, 1 .. n, h)
  BY <1>2, <1>4
<1>6. /\ h[1 .. 0] = {}
      /\ \A i \in 1 .. n : h[1 .. i] = Stepped("mark", a, i, h[1 .. (i - 1)])
  <2>1. Proceeds("mark", a, {}, n, h)
    BY <1>5, FoldOverSequence
  <2> QED
    BY <2>1 DEF Proceeds
<1> DEFINE r == [i \in 0 .. n |-> h[1 .. i]]
<1>7. r[0] = {}
  BY <1>6
<1>8. ASSUME NEW i \in 1 .. n PROVE r[i] = Marking(log, conflicting, r[i - 1])
  <2>1. r[i] = h[1 .. i] /\ r[i - 1] = h[1 .. (i - 1)]
    OBVIOUS
  <2> QED
    BY <1>6, <2>1 DEF Stepped, a
<1>9. ToDisable(log, conflicting) = r[n]
  BY <1>1
<1> HIDE DEF r
<1> QED
  BY <1>7, <1>8, <1>9 DEF Marks

\* The engine after the units in S are charged, and the engines on the way.
UnitsCharged(e, base, level, S) ==
  FoldSet(LAMBDA l, v : ProcessCore(v, base \cup {l}, base, level), e, S)

UnitCharges(e, base, level, S, r) ==
  /\ r[{}] = e
  /\ \A T \in SUBSET S : T # {} =>
       \E x \in T : r[T] = ProcessCore(r[T \ {x}], base \cup {x}, base, level)
  /\ UnitsCharged(e, base, level, S) = r[S]

\* Charging the units that follow from the base goes through one engine for each.
LEMMA UnitFold ==
  ASSUME NEW e, NEW base, NEW level, NEW S, IsFiniteSet(S)
  PROVE  \E r : UnitCharges(e, base, level, S, r)
<1> DEFINE P(g) == g = [s \in SUBSET S |->
                          IF s = {} THEN e
                          ELSE ProcessCore(g[s \ {CHOOSE x \in s : TRUE}],
                                           base \cup {CHOOSE x \in s : TRUE}, base, level)]
           h == CHOOSE g : P(g)
           a == [base |-> base, level |-> level]
<1>1. UnitsCharged(e, base, level, S) = h[S]
  BY DEF UnitsCharged, FoldSet, MapThenFoldSet
<1>2. \A g : FoldsUpTo("unit", a, e, S, g) <=> P(g)
  BY DEF FoldsUpTo, FoldStep, Stepped, Pick
<1>3. \A s : s # {} => Pick("unit", s) \in s
  BY DEF Pick
<1>4. Pickable("unit", S)
  BY <1>3 DEF Pickable
<1> HIDE DEF a
<1>5. \E g : P(g)
  <2> HIDE DEF P
  <2> QED
    BY <1>2, <1>4, FoldsExist
<1>6. P(h)
  <2> HIDE DEF P
  <2> QED
    BY <1>5
<1> HIDE DEF h
<1>7. h[{}] = e
  BY <1>6
<1>8. ASSUME NEW T \in SUBSET S, T # {}
      PROVE  \E x \in T : h[T] = ProcessCore(h[T \ {x}], base \cup {x}, base, level)
  <2> DEFINE x == CHOOSE x \in T : TRUE
  <2>1. x \in T
    BY <1>8
  <2>2. h[T] = ProcessCore(h[T \ {x}], base \cup {x}, base, level)
    BY <1>6, <1>8
  <2> HIDE DEF x
  <2> QED
    BY <2>1, <2>2
<1> QED
  BY <1>1, <1>7, <1>8 DEF UnitCharges

(***************************************************************************)
(* Undoing one consequence.                                                *)
(***************************************************************************)
\* What a rollback keeps: the ledger but for what is gone for good.
Accounts(e, log, R, d) ==
  /\ e.cost = SumFunctionOnSet([i \in R |-> log[i].weight], R)
  /\ \A x : WeightIn(e, x) = Declared(d, x) + Changes(log, R, x)
  /\ DOMAIN e.swgt = UNION {log[i].created : i \in R}
  /\ \A i \in R : \A k \in log[i].created : e.swgt[k] = log[i].wdelta[k]
  /\ \A x \in e.impossible : \E i \in R : x \in Units(log[i])

\* Every weight that was taken had been given, and no weight was given twice.
Supported(log, R) ==
  \A i \in R : \A x \in Taken(log[i]) \ Originals : \E j \in R : j < i /\ x \in Given(log[j])

GivenOnce(log, R) ==
  \A i, j \in R : i # j => Given(log[i]) \cap Given(log[j]) = {}

UndoThrows(e, c) ==
  \/ ~(RestoredSums(e, c) \ e.bnds \subseteq e.bnds_history)
  \/ ~(RestoredSums(e, c) \subseteq DOMAIN e.swgt)
  \/ \E l \in DOMAIN c.wdelta : Restored(e, c, l) < 0
  \/ \E l \in DOMAIN c.wdelta \ (Weighted(e) \cup Taken(c)) : TRUE
  \/ ~(c.created \subseteq DOMAIN e.swgt)

\* What undoing c leaves of e.
UndoEffect(e, f, c) ==
  /\ EngineRecord(f)
  /\ Weighted(f) = {x \in Weighted(e) \cup DOMAIN c.wdelta :
                      x \in DOMAIN c.wdelta => Restored(e, c, x) # 0}
  /\ \A x \in Weighted(f) : f.wght[x] = IF x \in DOMAIN c.wdelta THEN Restored(e, c, x)
                                        ELSE e.wght[x]
  /\ f.active = (e.active \ c.added) \cup c.removed
  /\ f.impossible = e.impossible \ c.added
  /\ f.cost = e.cost - c.weight
  /\ f.swgt = Drop(e.swgt, c.created)
  /\ f.bnds = (e.bnds \cup RestoredSums(e, c)) \ c.created
  /\ f.bnds_history = e.bnds_history \ (RestoredSums(e, c) \ e.bnds)
  /\ f.original = e.original
  /\ f.log = e.log

\* The fields of the engine after Undo.
LEMMA UndoFields ==
  ASSUME NEW e, EngineRecord(e), NEW c, NEW f, f = Undo(e, c)
  PROVE  /\ UndoEffect(e, f, c)
         /\ ~e.thrown /\ ~UndoThrows(e, c) => ~f.thrown
<1> DEFINE back == [l \in DOMAIN c.wdelta |-> Restored(e, c, l)]
           p == e.cost - c.weight
           r == Drop(Over(back, e.wght), {l \in DOMAIN back : back[l] = 0})
           a == (e.active \ c.added) \cup c.removed
           n == e.impossible \ c.added
           s == Drop(e.swgt, c.created)
           b == (e.bnds \cup RestoredSums(e, c)) \ c.created
           h == e.bnds_history \ (RestoredSums(e, c) \ e.bnds)
           o == e.original
           t == \/ e.thrown
                \/ ~(RestoredSums(e, c) \ e.bnds \subseteq e.bnds_history)
                \/ ~(RestoredSums(e, c) \subseteq DOMAIN e.swgt)
                \/ \E l \in DOMAIN back : back[l] < 0
                \/ \E l \in DOMAIN back \ (Weighted(e) \cup Taken(c)) : TRUE
                \/ ~(c.created \subseteq DOMAIN e.swgt)
<1>1. f = [e EXCEPT !.active = a, !.impossible = n, !.cost = p, !.wght = r, !.swgt = s,
                    !.bnds = b, !.bnds_history = h, !.thrown = t]
  BY DEF Undo
<1>2. DOMAIN e = {"cost", "wght", "active", "impossible", "swgt", "bnds", "bnds_history",
                  "original", "log", "thrown"}
  BY DEF EngineRecord
<1>3. t => e.thrown \/ UndoThrows(e, c)
  BY DEF UndoThrows
<1>4. /\ DOMAIN r = {x \in Weighted(e) \cup DOMAIN c.wdelta :
                       x \in DOMAIN c.wdelta => Restored(e, c, x) # 0}
      /\ \A x \in DOMAIN r : r[x] = IF x \in DOMAIN c.wdelta THEN Restored(e, c, x)
                                    ELSE e.wght[x]
  BY DEF Drop, Over, Restrict, Weighted
<1> HIDE DEF p, r, a, n, s, b, h, o, t
<1>6. f = [cost |-> p, wght |-> r, active |-> a, impossible |-> n,
           swgt |-> s, bnds |-> b, bnds_history |-> h, original |-> o,
           log |-> e.log, thrown |-> t]
  BY <1>1, <1>2 DEF o
<1>7. /\ EngineRecord(f) /\ f.cost = p /\ f.wght = r /\ f.active = a
      /\ f.impossible = n /\ f.swgt = s /\ f.bnds = b /\ f.bnds_history = h
      /\ f.original = o /\ f.log = e.log
  BY <1>6 DEF EngineRecord
<1>8. f.thrown = t
  BY <1>6
<1>9. ~e.thrown /\ ~UndoThrows(e, c) => ~f.thrown
  BY <1>3, <1>8, Zenon
<1>10. UndoEffect(e, f, c)
  BY <1>4, <1>7 DEF UndoEffect, p, a, n, s, b, h, o, Weighted
<1> QED
  BY <1>9, <1>10

\* A literal given a weight by p is taken by none that is left without p.
LEMMA GivenUntaken ==
  ASSUME NEW log, NEW R, \A i \in R : IsEntry(log[i]), NEW p \in R,
         Supported(log, R \ {p}), GivenOnce(log, R), NEW x \in Given(log[p])
  PROVE  /\ x \notin Originals
         /\ \A i \in R \ {p} : x \notin DOMAIN log[i].wdelta
<1>1. x \notin Originals
  BY DEF IsEntry
<1>2. \A i \in R \ {p} : x \notin Given(log[i])
  BY DEF GivenOnce
<1>3. \A i \in R \ {p} : x \notin Taken(log[i])
  BY <1>1, <1>2 DEF Supported
<1> QED
  BY <1>1, <1>2, <1>3 DEF Given

\* The changes without those of p.
LEMMA ChangesWithout ==
  ASSUME NEW log, NEW R, IsFiniteSet(R), \A i \in R : IsEntry(log[i]), NEW p \in R, NEW x
  PROVE  /\ Changes(log, R, x) = Change(log[p], x) + Changes(log, R \ {p}, x)
         /\ Changes(log, R \ {p}, x) \in Int /\ Changes(log, R, x) \in Int
         /\ Change(log[p], x) \in Int
<1> DEFINE F == [i \in R |-> Change(log[i], x)]
           G == [i \in R \ {p} |-> Change(log[i], x)]
<1>1. Integral(F, R)
  BY ChangesIntegral
<1>2. F[p] = Change(log[p], x) /\ \A i \in R \ {p} : G[i] = F[i]
  OBVIOUS
<1> HIDE DEF F, G
<1>3. SumFunctionOnSet(F, R) = F[p] + SumFunctionOnSet(F, R \ {p})
  BY <1>1, SumRemove
<1>4. Integral(F, R \ {p})
  BY <1>1, IntegralSubset
<1>5. SumFunctionOnSet(G, R \ {p}) = SumFunctionOnSet(F, R \ {p})
  BY <1>2, <1>4, SumSame
<1>6. SumFunctionOnSet(F, R \ {p}) \in Int /\ SumFunctionOnSet(F, R) \in Int
  BY <1>1, <1>4, SumInt
<1>7. Change(log[p], x) \in Int
  BY ChangeType
<1> QED
  BY <1>2, <1>3, <1>5, <1>6, <1>7 DEF Changes, F, G

\* No literal that is left changes: nothing is.
LEMMA NoChanges ==
  ASSUME NEW log, NEW R, IsFiniteSet(R), NEW x, \A i \in R : x \notin DOMAIN log[i].wdelta
  PROVE  Changes(log, R, x) = 0
<1> DEFINE F == [i \in R |-> Change(log[i], x)]
<1>1. \A i \in R : F[i] = 0
  BY DEF Change
<1> HIDE DEF F
<1>2. SumFunctionOnSet(F, R) = 0
  BY <1>1, SumZero
<1> QED
  BY <1>2 DEF Changes, F

\* The part of an engine that a rollback keeps in order.
Kept(e, log, R, d) ==
  /\ IsEngine(e) /\ Accounts(e, log, R, d)
  /\ IsFiniteSet(R) /\ \A i \in R : IsEntry(log[i])
  /\ \A l \in DOMAIN d : d[l] \in Nat
  /\ GivenOnce(log, R)
  /\ Booked(e, log, R)

\* What undoing c makes of the weights: those it gave vanish.
UndoneWeights(e, c) ==
  /\ IsEntry(c)
  /\ \A x : WeightIn(e, x) \in Nat /\ Change(c, x) \in Int
  /\ \A x \in DOMAIN c.wdelta : Restored(e, c, x) = WeightIn(e, x) - Change(c, x)
  /\ \A x \in Given(c) : Restored(e, c, x) = 0 /\ x \in Weighted(e)
  /\ \A x \in Taken(c) : Restored(e, c, x) \in Nat /\ Restored(e, c, x) > 0

\* What undoing the consequence p does to the weights.
LEMMA UndoWeights ==
  ASSUME NEW e, NEW log, NEW R, NEW d, Kept(e, log, R, d), NEW p \in R,
         Supported(log, R \ {p}), NEW c, c = log[p]
  PROVE  UndoneWeights(e, c)
<1>1. IsEntry(c) /\ IsEngine(e) /\ Accounts(e, log, R, d) /\ IsFiniteSet(R)
      /\ \A i \in R : IsEntry(log[i])
  BY DEF Kept
<1>2. \A x : WeightIn(e, x) \in Nat
  BY <1>1, WeightType
<1>3. \A x : Change(c, x) \in Int
  BY <1>1, ChangeType
<1>4. ASSUME NEW x \in DOMAIN c.wdelta
      PROVE  Restored(e, c, x) = WeightIn(e, x) - Change(c, x)
  BY <1>4 DEF Restored, WeightIn, Weighted, Change
<1>5. ASSUME NEW x \in Given(c) PROVE Restored(e, c, x) = 0 /\ x \in Weighted(e)
  <2>1. x \notin Originals /\ \A i \in R \ {p} : x \notin DOMAIN log[i].wdelta
    BY <1>1, GivenUntaken DEF Kept
  <2> DEFINE Q == R \ {p}
  <2>2. IsFiniteSet(Q)
    BY <1>1, FS_Subset
  <2>3. Changes(log, Q, x) = 0
    <3> HIDE DEF Q
    <3> QED
      BY <2>1, <2>2, NoChanges DEF Q
  <2>4. Changes(log, R, x) = Change(c, x) + Changes(log, Q, x)
    BY <1>1, ChangesWithout
  <2>5. Declared(d, x) = 0 /\ WeightIn(e, x) = Declared(d, x) + Changes(log, R, x)
    BY <1>1, <2>1 DEF Declared, Accounts
  <2>6. x \in DOMAIN c.wdelta /\ Change(c, x) > 0
    BY <1>1, ChangeType DEF Given
  <2>7. WeightIn(e, x) = Change(c, x)
    BY <1>3, <2>3, <2>4, <2>5
  <2>8. x \in Weighted(e)
    BY <1>1, <2>6, <2>7, WeightType
  <2> QED
    BY <1>3, <1>4, <2>6, <2>7, <2>8
<1>6. ASSUME NEW x \in Taken(c) PROVE Restored(e, c, x) \in Nat /\ Restored(e, c, x) > 0
  <2>1. x \in DOMAIN c.wdelta /\ Change(c, x) < 0
    BY <1>1, ChangeType DEF Taken
  <2> QED
    BY <1>2, <1>3, <1>4, <2>1
<1> QED
  BY <1>1, <1>2, <1>3, <1>4, <1>5, <1>6 DEF UndoneWeights

\* No later consequence in R takes what p takes.
TakenLast(log, R, p) ==
  \A j \in R : j > p => Taken(log[j]) \cap Taken(log[p]) = {}

\* Undoing a consequence that no other one rests on keeps the rest in order.
KeptFrom(e, f, log, R, d) == Kept(f, log, R, d) /\ f.log = e.log

\* Undoing the consequence at p, on which nothing else rests, keeps the others accounted for.
LEMMA UndoKeeps ==
  ASSUME NEW e, NEW log, NEW R, NEW d, Kept(e, log, R, d), NEW p \in R,
         Supported(log, R), Supported(log, R \ {p}), R \subseteq Nat,
         TakenLast(log, R, p), NEW f, f = Undo(e, log[p])
  PROVE  KeptFrom(e, f, log, R \ {p}, d)
<1>1. PICK c : c = log[p]
  OBVIOUS
<1>2. /\ IsEngine(e) /\ Accounts(e, log, R, d) /\ IsFiniteSet(R) /\ EngineRecord(e) /\ ~e.thrown
      /\ \A i \in R : IsEntry(log[i])
      /\ GivenOnce(log, R)
  BY DEF Kept, IsEngine
<1>35. Booked(e, log, R)
  BY DEF Kept
<1>3. /\ IsEntry(c)
      /\ \A x : WeightIn(e, x) \in Nat /\ Change(c, x) \in Int
      /\ \A x \in DOMAIN c.wdelta : Restored(e, c, x) = WeightIn(e, x) - Change(c, x)
      /\ \A x \in Given(c) : Restored(e, c, x) = 0 /\ x \in Weighted(e)
      /\ \A x \in Taken(c) : Restored(e, c, x) \in Nat /\ Restored(e, c, x) > 0
  <2>1. UndoneWeights(e, c)
    BY <1>1, UndoWeights
  <2> QED
    BY <2>1 DEF UndoneWeights
<1>4. \A x \in DOMAIN c.wdelta : x \in Taken(c) \/ x \in Given(c)
  BY DEF Given
<1>5. c.removed \subseteq Taken(c) /\ c.created \subseteq Given(c) /\ Given(c) \subseteq c.added
      /\ Taken(c) \subseteq DOMAIN c.wdelta /\ Given(c) \subseteq DOMAIN c.wdelta
  BY <1>3 DEF IsEntry, Given, Taken
<1>24. \A l \in Taken(c) : IsSum(l) => l \in DOMAIN e.swgt
  <2> SUFFICES ASSUME NEW l \in Taken(c), IsSum(l) PROVE l \in DOMAIN e.swgt
    OBVIOUS
  <2>1. l \notin Originals
    BY OriginalFields
  <2>2. PICK j \in R : l \in Given(log[j])
    BY <1>1, <2>1 DEF Supported
  <2>3. l \in log[j].created
    BY <1>2, <2>2 DEF IsEntry
  <2> QED
    BY <1>2, <2>3 DEF Accounts
<1>25. RestoredSums(e, c) \subseteq Taken(c) /\ \A l \in RestoredSums(e, c) : IsSum(l)
  BY <1>1, <1>2, <1>35, <1>5 DEF RestoredSums, Booked
<1>6. ~UndoThrows(e, c)
  <2>1. \A l \in DOMAIN c.wdelta : ~(Restored(e, c, l) < 0)
    BY <1>3, <1>4
  <2>2. RestoredSums(e, c) \subseteq DOMAIN e.swgt
    BY <1>24, <1>25
  <2>5. RestoredSums(e, c) \ e.bnds \subseteq e.bnds_history
    BY <1>2, <1>35, <2>2 DEF Booked
  <2>3. \A l \in DOMAIN c.wdelta : l \in Weighted(e) \cup Taken(c)
    BY <1>3, <1>4
  <2>4. c.created \subseteq DOMAIN e.swgt
    BY <1>1, <1>2 DEF Accounts
  <2> QED
    BY <2>1, <2>2, <2>3, <2>4, <2>5 DEF UndoThrows
<1>7. UndoEffect(e, f, c) /\ ~f.thrown
  BY <1>1, <1>2, <1>6, UndoFields
<1>8. ASSUME NEW x PROVE WeightIn(f, x) = WeightIn(e, x) - Change(c, x)
  <2>1. CASE x \in DOMAIN c.wdelta
    <3>1. Restored(e, c, x) = WeightIn(e, x) - Change(c, x)
      BY <1>3, <2>1
    <3>2. x \in Weighted(f) <=> Restored(e, c, x) # 0
      BY <1>7, <2>1 DEF UndoEffect
    <3>3. x \in Weighted(f) => f.wght[x] = Restored(e, c, x)
      BY <1>7, <2>1 DEF UndoEffect
    <3>4. WeightIn(f, x) = Restored(e, c, x)
      BY <3>2, <3>3 DEF WeightIn, Weighted
    <3> QED
      BY <3>1, <3>4
  <2>2. CASE x \notin DOMAIN c.wdelta
    <3>1. Change(c, x) = 0 /\ WeightIn(e, x) \in Nat
      BY <1>3, <2>2 DEF Change
    <3>2. WeightIn(f, x) = WeightIn(e, x)
      BY <1>7, <2>2 DEF UndoEffect, WeightIn, Weighted
    <3> QED
      BY <3>1, <3>2
  <2> QED
    BY <2>1, <2>2
<1> DEFINE Q == R \ {p}
<1>9. IsFiniteSet(Q) /\ \A i \in Q : IsEntry(log[i])
  BY <1>2, FS_Subset
<1>10. f.cost = SumFunctionOnSet([i \in Q |-> log[i].weight], Q) /\ f.cost \in Nat
  <2> DEFINE F == [i \in R |-> log[i].weight]
             G == [i \in Q |-> log[i].weight]
  <2>1. e.cost = SumFunctionOnSet(F, R) /\ f.cost = e.cost - c.weight
    BY <1>2, <1>7 DEF Accounts, UndoEffect
  <2>2. \A i \in R : F[i] \in Nat
    BY <1>2 DEF IsEntry
  <2>3. F[p] = c.weight /\ \A i \in Q : G[i] = F[i]
    BY <1>1
  <2> HIDE DEF F, G
  <2>4. Integral(F, R) /\ Integral(F, Q)
    BY <1>2, <1>9, <2>2 DEF Integral
  <2>5. SumFunctionOnSet(F, R) = F[p] + SumFunctionOnSet(F, Q)
    BY <2>4, SumRemove
  <2>6. SumFunctionOnSet(G, Q) = SumFunctionOnSet(F, Q)
    BY <2>3, <2>4, SumSame
  <2>7. SumFunctionOnSet(F, Q) \in Nat
    <3>1. \A i \in Q : F[i] \in Nat
      BY <2>2
    <3> HIDE DEF Q
    <3> QED
      BY <1>9, <3>1, SumNat
  <2>8. F[p] \in Nat
    BY <2>2
  <2> QED
    BY <2>1, <2>3, <2>5, <2>6, <2>7, <2>8 DEF G
<1>11. ASSUME NEW x PROVE WeightIn(f, x) = Declared(d, x) + Changes(log, Q, x)
  <2>1. /\ Changes(log, R, x) = Change(c, x) + Changes(log, Q, x)
        /\ Changes(log, Q, x) \in Int /\ Changes(log, R, x) \in Int
        /\ Change(c, x) \in Int
    <3>1. IsFiniteSet(R) /\ \A i \in R : IsEntry(log[i])
      BY <1>2
    <3>2. /\ Changes(log, R, x) = Change(log[p], x) + Changes(log, R \ {p}, x)
          /\ Changes(log, R \ {p}, x) \in Int /\ Changes(log, R, x) \in Int
          /\ Change(log[p], x) \in Int
      BY <3>1, ChangesWithout
    <3> QED
      BY <1>1, <3>2
  <2>2. WeightIn(e, x) = Declared(d, x) + Changes(log, R, x)
    BY <1>2 DEF Accounts
  <2>3. Declared(d, x) \in Int
    <3>1. \A l \in DOMAIN d : d[l] \in Nat
      BY DEF Kept
    <3> QED
      BY <3>1 DEF Declared
  <2> HIDE DEF Q
  <2> QED
    BY <1>8, <2>1, <2>2, <2>3
<1>12. DOMAIN f.swgt = DOMAIN e.swgt \ c.created /\ \A k \in DOMAIN f.swgt : f.swgt[k] = e.swgt[k]
  BY <1>7 DEF UndoEffect, Drop, Restrict
<1>13. \A i \in Q : log[i].created \cap c.created = {}
  BY <1>1, <1>2 DEF GivenOnce, IsEntry
<1>14. DOMAIN f.swgt = UNION {log[i].created : i \in Q}
  <2>1. DOMAIN e.swgt = c.created \cup UNION {log[i].created : i \in Q}
    BY <1>1, <1>2 DEF Accounts
  <2> QED
    BY <1>12, <1>13, <2>1
<1>15. \A i \in Q : \A k \in log[i].created : f.swgt[k] = log[i].wdelta[k]
  BY <1>2, <1>12, <1>14 DEF Accounts
<1>16. \A x \in f.impossible : \E i \in Q : x \in Units(log[i])
  <2> TAKE x \in f.impossible
  <2>1. x \in e.impossible /\ x \notin c.added
    BY <1>7 DEF UndoEffect
  <2>2. PICK i \in R : x \in Units(log[i])
    BY <1>2, <2>1 DEF Accounts
  <2>3. i # p
    BY <1>1, <2>1, <2>2 DEF Units
  <2> QED
    BY <2>2, <2>3
<1>17. Accounts(f, log, Q, d)
  BY <1>10, <1>11, <1>14, <1>15, <1>16 DEF Accounts
<1>18. \A x \in Weighted(f) : f.wght[x] \in Nat \ {0} /\ Bearer(x)
  <2> TAKE x \in Weighted(f)
  <2>1. CASE x \in DOMAIN c.wdelta
    BY <1>3, <1>4, <1>7, <2>1 DEF UndoEffect, IsEntry
  <2>2. CASE x \notin DOMAIN c.wdelta
    BY <1>2, <1>7, <2>2 DEF UndoEffect, IsEngine, PositiveWeights, Weighted
  <2> QED
    BY <2>1, <2>2
<1>19. f.active \subseteq Weighted(f)
  <2> SUFFICES ASSUME NEW x \in f.active PROVE x \in Weighted(f)
    OBVIOUS
  <2>1. CASE x \in Taken(c)
    BY <1>3, <1>5, <1>7, <2>1 DEF UndoEffect
  <2>2. CASE x \notin Taken(c)
    <3>1. x \in Weighted(e) /\ x \notin c.added
      BY <1>2, <1>5, <1>7, <2>2 DEF UndoEffect, IsEngine
    <3>2. x \notin DOMAIN c.wdelta
      BY <1>4, <1>5, <2>2, <3>1
    <3> QED
      BY <1>7, <3>1, <3>2 DEF UndoEffect
  <2> QED
    BY <2>1, <2>2
<1>20. IsFiniteSet(Weighted(f))
  <2>1. IsFiniteSet(Weighted(e)) /\ IsFiniteSet(DOMAIN c.wdelta)
    BY <1>2, <1>3 DEF IsEngine, IsEntry, Weighted
  <2>2. IsFiniteSet(Weighted(e) \cup DOMAIN c.wdelta)
    BY <2>1, FS_Union
  <2>3. Weighted(f) \subseteq Weighted(e) \cup DOMAIN c.wdelta
    BY <1>7 DEF UndoEffect
  <2> QED
    BY <2>2, <2>3, FS_Subset
<1>21. IsEngine(f)
  <2>1. EngineRecord(f) /\ f.cost \in Nat
    BY <1>7, <1>10 DEF UndoEffect
  <2>2. PositiveWeights(f.wght)
    BY <1>18 DEF PositiveWeights, Weighted
  <2> QED
    BY <1>7, <1>18, <1>19, <1>20, <2>1, <2>2 DEF IsEngine, Weighted
<1>22. GivenOnce(log, Q)
  BY <1>2 DEF GivenOnce
<1>23. f.log = e.log
  BY <1>7 DEF UndoEffect
<1>26. /\ f.bnds = (e.bnds \cup RestoredSums(e, c)) \ c.created
       /\ f.bnds_history = e.bnds_history \ (RestoredSums(e, c) \ e.bnds)
       /\ f.original = e.original
  BY <1>7 DEF UndoEffect
<1>27. c.created \cap Taken(c) = {} /\ c.created \subseteq DOMAIN c.wdelta
  BY <1>5 DEF Given
<1>28. ASSUME NEW x \in Taken(c), IsSum(x) PROVE x \in e.bnds \cup RestoredSums(e, c)
  <2>1. CASE x \in Weighted(e)
    BY <1>2, <1>35, <1>28, <2>1 DEF Booked
  <2>2. CASE x \notin Weighted(e)
    <3>1. PICK j \in R : j >= p /\ x \in log[j].removed
      BY <1>1, <1>2, <1>35, <2>2 DEF Booked
    <3>2. x \in Taken(log[j])
      BY <1>2, <3>1 DEF IsEntry
    <3>3. j = p
      BY <1>1, <3>1, <3>2 DEF TakenLast
    <3>4. x \in c.removed /\ x \notin e.active /\ x \notin e.original
      BY <1>1, <1>2, <1>35, <1>28, <2>2, <3>1, <3>3 DEF IsEngine, Booked
    <3> QED
      BY <3>4 DEF RestoredSums
  <2> QED
    BY <2>1, <2>2
<1>29. \A x \in Weighted(f) : IF IsSum(x) THEN x \in f.bnds ELSE x \in f.original
  <2> TAKE x \in Weighted(f)
  <2>1. CASE x \in DOMAIN c.wdelta
    <3>1. x \in Taken(c)
      BY <1>3, <1>4, <1>7, <2>1 DEF UndoEffect
    <3>2. IsSum(x) => x \in f.bnds
      BY <1>26, <1>27, <1>28, <3>1
    <3>3. ~IsSum(x) => x \in f.original
      BY <1>1, <1>2, <1>35, <1>26, <3>1 DEF Booked
    <3> QED
      BY <3>2, <3>3
  <2>2. CASE x \notin DOMAIN c.wdelta
    <3>1. x \in Weighted(e) /\ x \notin c.created
      BY <1>7, <1>27, <2>2 DEF UndoEffect
    <3> QED
      BY <1>2, <1>35, <1>26, <3>1 DEF Booked
  <2> QED
    BY <2>1, <2>2
<1>30. f.bnds \subseteq DOMAIN f.swgt /\ DOMAIN f.swgt \subseteq f.bnds \cup f.bnds_history
  BY <1>2, <1>35, <1>12, <1>24, <1>25, <1>26 DEF Booked
<1>31. ASSUME NEW i \in Q, NEW x \in Taken(log[i]) \ Weighted(f)
       PROVE  \E j \in Q : j >= i /\ x \in log[j].removed
  <2>1. x \notin Taken(c)
    BY <1>3, <1>5, <1>7 DEF UndoEffect
  <2>2. x \notin Given(c)
    BY <1>1, <1>2, GivenUntaken DEF Taken
  <2>3. x \notin Weighted(e)
    BY <1>4, <1>7, <2>1, <2>2 DEF UndoEffect
  <2>4. PICK j \in R : j >= i /\ x \in log[j].removed
    BY <1>2, <1>35, <2>3 DEF Booked
  <2>5. j # p
    BY <1>1, <1>5, <2>1, <2>4
  <2> QED
    BY <2>4, <2>5
<1>32. /\ \A x \in f.original : ~IsSum(x)
       /\ \A i \in Q : \A x \in Taken(log[i]) : IsSum(x) \/ x \in f.original
  BY <1>2, <1>35, <1>26 DEF Booked
<1>33. Booked(f, log, Q)
  BY <1>29, <1>30, <1>31, <1>32 DEF Booked
<1>34. \A l \in DOMAIN d : d[l] \in Nat
  BY DEF Kept
<1> QED
  BY <1>9, <1>17, <1>21, <1>22, <1>23, <1>33, <1>34 DEF Kept, KeptFrom

(***************************************************************************)
(* Which consequences are disabled.                                        *)
(***************************************************************************)
\* What is marked because of some is marked because of more.
LEMMA MarkingGrows ==
  ASSUME NEW log, NEW conflicting, NEW D, NEW E, D \subseteq E
  PROVE  Marking(log, conflicting, D) \subseteq Marking(log, conflicting, E)
  BY DEF Marking, Marked

\* One round per consequence is enough: another one would disable nothing more.
LEMMA DisabledIsClosed ==
  ASSUME NEW log, NEW n \in Nat, DOMAIN log = 1 .. n, NEW conflicting,
         NEW X, X = ToDisable(log, conflicting)
  PROVE  X \subseteq DOMAIN log /\ Marking(log, conflicting, X) = X
<1> DEFINE M(D) == Marking(log, conflicting, D)
<1>0. PICK r : Marks(log, n, conflicting, r)
  BY MarkFold
<1>1. /\ r[0] = {}
      /\ \A i \in 1 .. n : r[i] = Marking(log, conflicting, r[i - 1])
      /\ ToDisable(log, conflicting) = r[n]
  BY <1>0 DEF Marks
<1> DEFINE G == {i \in Nat : i <= n =>
                   /\ r[i] \subseteq DOMAIN log /\ r[i] \subseteq M(r[i])
                   /\ Cardinality(r[i]) >= i \/ r[i] = M(r[i])}
<1>2. IsFiniteSet(DOMAIN log) /\ Cardinality(DOMAIN log) = n
  BY FS_Interval
<1>3. 0 \in G
  BY <1>1, FS_EmptySet
<1>4. ASSUME NEW i \in Nat, i \in G PROVE i + 1 \in G
  <2> SUFFICES ASSUME i + 1 <= n
               PROVE  /\ r[i + 1] \subseteq DOMAIN log /\ r[i + 1] \subseteq M(r[i + 1])
                      /\ Cardinality(r[i + 1]) >= i + 1 \/ r[i + 1] = M(r[i + 1])
    OBVIOUS
  <2>1. /\ r[i] \subseteq DOMAIN log /\ r[i] \subseteq M(r[i])
        /\ Cardinality(r[i]) >= i \/ r[i] = M(r[i])
    BY <1>4
  <2>2. r[i + 1] = M(r[i])
    <3>1. i + 1 \in 1 .. n /\ (i + 1) - 1 = i
      OBVIOUS
    <3> QED
      BY <1>1, <3>1
  <2>3. r[i + 1] \subseteq DOMAIN log
    BY <2>2 DEF Marking
  <2>4. r[i] \subseteq r[i + 1]
    BY <2>1, <2>2
  <2>5. M(r[i]) \subseteq M(r[i + 1])
    BY <2>4, MarkingGrows
  <2>6. CASE r[i + 1] = r[i]
    BY <2>2, <2>3, <2>5, <2>6
  <2>7. CASE r[i + 1] # r[i]
    <3>1. Cardinality(r[i]) >= i
      BY <2>1, <2>2, <2>7
    <3>2. IsFiniteSet(r[i + 1]) /\ IsFiniteSet(r[i])
      BY <1>2, <2>1, <2>3, FS_Subset
    <3>3. /\ Cardinality(r[i]) <= Cardinality(r[i + 1])
          /\ Cardinality(r[i]) # Cardinality(r[i + 1])
      BY <2>4, <2>7, <3>2, FS_Subset
    <3>4. Cardinality(r[i]) \in Nat /\ Cardinality(r[i + 1]) \in Nat
      BY <3>2, FS_CardinalityType
    <3>5. Cardinality(r[i + 1]) >= i + 1
      BY <3>1, <3>3, <3>4
    <3> QED
      BY <2>2, <2>3, <2>5, <3>5
  <2> QED
    BY <2>6, <2>7
<1>5. \A i \in Nat : i \in G
  <2> HIDE DEF G
  <2> QED
    BY <1>3, <1>4, NumberInduction
<1>6. /\ X \subseteq DOMAIN log /\ X \subseteq M(X)
      /\ Cardinality(X) >= n \/ X = M(X)
  <2>1. n \in G /\ n <= n
    BY <1>5
  <2> QED
    BY <1>1, <2>1
<1>7. CASE Cardinality(X) >= n
  <2>1. IsFiniteSet(X) /\ Cardinality(X) <= n /\ (n = Cardinality(X) => DOMAIN log = X)
    BY <1>2, <1>6, FS_Subset
  <2>2. Cardinality(X) \in Nat
    BY <2>1, FS_CardinalityType
  <2>3. X = DOMAIN log
    BY <1>7, <2>1, <2>2
  <2>4. M(X) \subseteq DOMAIN log
    BY DEF Marking
  <2> QED
    BY <1>6, <2>3, <2>4
<1> QED
  BY <1>6, <1>7

(***************************************************************************)
(* The sequence of some entries of a log.                                  *)
(***************************************************************************)
\* The numbers of idx up to k, and the i-th number of idx.
Upto(idx, k) == {j \in idx : j <= k}

Nth(idx, i) == CHOOSE k \in idx : Cardinality(Upto(idx, k)) = i

\* Sublog takes the entries at the numbers of idx one after the other.
LEMMA SublogIs ==
  ASSUME NEW log, NEW idx
  PROVE  Sublog(log, idx) = [i \in 1 .. Cardinality(idx) |-> log[Nth(idx, i)]]
  BY DEF Sublog, Nth, Upto

\* Counting the numbers up to k orders them.
LEMMA UptoCounts ==
  ASSUME NEW n \in Nat, NEW idx \in SUBSET (1 .. n)
  PROVE  /\ IsFiniteSet(idx) /\ Cardinality(idx) \in Nat
         /\ \A k \in idx : Cardinality(Upto(idx, k)) \in 1 .. Cardinality(idx)
         /\ \A k, l \in idx : k < l => Cardinality(Upto(idx, k)) < Cardinality(Upto(idx, l))
<1>0. \A k \in idx : k \in Int
  OBVIOUS
<1>1. IsFiniteSet(idx) /\ Cardinality(idx) \in Nat
  <2>1. IsFiniteSet(1 .. n)
    BY FS_Interval
  <2> QED
    BY <2>1, FS_Subset, FS_CardinalityType
<1>2. ASSUME NEW k \in idx
      PROVE  /\ IsFiniteSet(Upto(idx, k)) /\ Cardinality(Upto(idx, k)) \in Nat
             /\ Cardinality(Upto(idx, k)) <= Cardinality(idx)
             /\ Cardinality(Upto(idx, k)) # 0
  <2>1. Upto(idx, k) \in SUBSET idx /\ k \in Upto(idx, k)
    BY <1>0 DEF Upto
  <2>2. /\ IsFiniteSet(Upto(idx, k)) /\ Cardinality(Upto(idx, k)) \in Nat
        /\ Cardinality(Upto(idx, k)) <= Cardinality(idx)
    BY <1>1, <2>1, FS_Subset, FS_CardinalityType
  <2> QED
    BY <2>1, <2>2, FS_EmptySet
<1>3. ASSUME NEW k \in idx, NEW l \in idx, k < l
      PROVE  Cardinality(Upto(idx, k)) < Cardinality(Upto(idx, l))
  <2>1. Upto(idx, k) \in SUBSET Upto(idx, l) /\ l \in Upto(idx, l) /\ l \notin Upto(idx, k)
    <3>1. k \in Int /\ l \in Int
      BY <1>0
    <3>2. \A j \in idx : j <= k => j <= l
      BY <1>0, <1>3, <3>1
    <3>3. k \in idx /\ l \in idx /\ l <= l /\ ~(l <= k)
      BY <1>3, <3>1
    <3> QED
      BY <3>2, <3>3 DEF Upto
  <2>2. Upto(idx, k) # Upto(idx, l)
    BY <2>1
  <2>3. IsFiniteSet(Upto(idx, l))
    BY <1>2
  <2>4. /\ Cardinality(Upto(idx, k)) <= Cardinality(Upto(idx, l))
        /\ Cardinality(Upto(idx, k)) # Cardinality(Upto(idx, l))
    BY <2>1, <2>2, <2>3, FS_Subset
  <2> QED
    BY <1>2, <2>4
<1>4. \A k \in idx : Cardinality(Upto(idx, k)) \in 1 .. Cardinality(idx)
  <2> TAKE k \in idx
  <2> DEFINE a == Cardinality(Upto(idx, k))
             b == Cardinality(idx)
  <2>1. a \in Nat /\ a <= b /\ a # 0 /\ b \in Nat
    BY <1>1, <1>2
  <2> HIDE DEF a, b
  <2>2. a \in 1 .. b
    BY <2>1
  <2> QED
    BY <2>2 DEF a, b
<1> QED
  BY <1>1, <1>3, <1>4

\* The i-th number is the one with i numbers up to it.
Enumerated(idx) ==
  /\ \A i \in 1 .. Cardinality(idx) : /\ Nth(idx, i) \in idx
                                      /\ Cardinality(Upto(idx, Nth(idx, i))) = i
  /\ \A k \in idx : Nth(idx, Cardinality(Upto(idx, k))) = k
  /\ \A i, j \in 1 .. Cardinality(idx) : Nth(idx, i) < Nth(idx, j) <=> i < j

\* The numbers of a finite set of positions can be enumerated in order.
LEMMA NthIs ==
  ASSUME NEW n \in Nat, NEW idx \in SUBSET (1 .. n)
  PROVE  Enumerated(idx)
<1> DEFINE T == 1 .. Cardinality(idx)
           f == [k \in idx |-> Cardinality(Upto(idx, k))]
<1>0. \A k \in idx : k \in Int
  OBVIOUS
<1>1. IsFiniteSet(idx) /\ Cardinality(idx) \in Nat /\ \A k \in idx : k \in Int
  BY <1>0, UptoCounts
<1>2. IsFiniteSet(T) /\ Cardinality(T) = Cardinality(idx)
  BY <1>1, FS_Interval
<1>3. \A k \in idx : f[k] = Cardinality(Upto(idx, k)) /\ f[k] \in T
  BY UptoCounts
<1>4. \A k, l \in idx : k < l => f[k] < f[l]
  BY UptoCounts
<1>5. f \in [idx -> T]
  BY <1>3
<1> HIDE DEF f
<1>6. \A k, l \in idx : f[k] = f[l] => k = l
  BY <1>1, <1>3, <1>4
<1>7. \A i \in T : \E k \in idx : f[k] = i
  <2> HIDE DEF T
  <2>1. f \in Injection(idx, T)
    BY <1>5, <1>6 DEF Injection, IsInjective
  <2>2. f \in Surjection(idx, T)
    BY <1>2, <2>1, FS_Injection
  <2> QED
    BY <2>2 DEF Surjection
<1>8. \A i \in T : Nth(idx, i) \in idx /\ Cardinality(Upto(idx, Nth(idx, i))) = i
  BY <1>3, <1>7 DEF Nth
<1>9. \A k \in idx : Nth(idx, Cardinality(Upto(idx, k))) = k
  <2> TAKE k \in idx
  <2>1. Cardinality(Upto(idx, k)) \in T
    BY <1>3
  <2> DEFINE l == Nth(idx, Cardinality(Upto(idx, k)))
  <2>2. l \in idx /\ Cardinality(Upto(idx, l)) = Cardinality(Upto(idx, k))
    BY <1>8, <2>1
  <2> HIDE DEF l
  <2>3. f[l] = f[k]
    BY <1>3, <2>2
  <2> QED
    BY <1>6, <2>2, <2>3 DEF l
<1>10. ASSUME NEW i \in T, NEW j \in T PROVE Nth(idx, i) < Nth(idx, j) <=> i < j
  <2> DEFINE k == Nth(idx, i)
             l == Nth(idx, j)
  <2>1. k \in idx /\ l \in idx /\ f[k] = i /\ f[l] = j
    BY <1>3, <1>8
  <2>2. i \in Int /\ j \in Int
    OBVIOUS
  <2> HIDE DEF k, l, T
  <2>3. k < l <=> i < j
    BY <1>1, <1>4, <2>1, <2>2
  <2> QED
    BY <2>3 DEF k, l
<1> QED
  BY <1>8, <1>9, <1>10 DEF Enumerated

(***************************************************************************)
(* Undoing all the disabled consequences, newest first.                    *)
(***************************************************************************)
\* Sublog is a sequence of as many entries as it is given positions.
Selects(s, log, X) ==
  /\ \E S : s \in Seq(S)
  /\ DOMAIN s = 1 .. Cardinality(X) /\ Len(s) = Cardinality(X)
  /\ \A i \in 1 .. Cardinality(X) : s[i] = log[Nth(X, i)]

\* The entries Sublog takes form a sequence.
LEMMA SublogSeq ==
  ASSUME NEW log, NEW n \in Nat, NEW X \in SUBSET (1 .. n), NEW s, s = Sublog(log, X)
  PROVE  Selects(s, log, X)
<1> DEFINE N == Cardinality(X)
           f == [i \in 1 .. N |-> log[Nth(X, i)]]
           S == {log[Nth(X, i)] : i \in 1 .. N}
<1>1. N \in Nat
  BY UptoCounts
<1>2. s = f
  BY SublogIs
<1> HIDE DEF N
<1>3. f \in Seq(S)
  BY <1>1
<1>4. DOMAIN f = 1 .. N /\ Len(f) = N /\ \A i \in 1 .. N : f[i] = log[Nth(X, i)]
  BY <1>1, <1>3
<1> QED
  BY <1>2, <1>3, <1>4 DEF N, Selects

\* The positions of the entries still in force when the i newest of X are undone.
LeftAfter(D, X, i) == {k \in D : k \in X => Cardinality(Upto(X, k)) <= Cardinality(X) - i}

\* The i-th entry that is undone.
UndoneAt(X, i) == Nth(X, Cardinality(X) - i + 1)

Steps(D, X, i, h, k) ==
  k \in LeftAfter(D, X, i) /\ LeftAfter(D, X, h) = LeftAfter(D, X, i) \ {k}

\* Each round undoes the newest entry that is left.
LEMMA LeftAfterStep ==
  ASSUME NEW n \in Nat, NEW D, D = 1 .. n, NEW X \in SUBSET D,
         NEW i \in Nat, NEW h \in 1 .. Cardinality(X), h = i + 1,
         NEW k, k = UndoneAt(X, h)
  PROVE  Steps(D, X, i, h, k)
<1>0. PICK N : N = Cardinality(X)
  OBVIOUS
<1>1. N \in Nat /\ \A x \in X : Cardinality(Upto(X, x)) \in 1 .. N
  BY <1>0, UptoCounts
<1> DEFINE j == N - h + 1
<1>2. j \in 1 .. N /\ j = N - i
  BY <1>0, <1>1
<1>3. k \in X /\ Cardinality(Upto(X, k)) = j
  <2>1. k = Nth(X, j)
    BY <1>0 DEF UndoneAt
  <2>2. j \in 1 .. Cardinality(X) /\ Enumerated(X)
    BY <1>0, <1>2, NthIs
  <2> HIDE DEF j
  <2> QED
    BY <2>1, <2>2 DEF Enumerated
<1>4. \A x \in X : Nth(X, Cardinality(Upto(X, x))) = x
  <2>1. Enumerated(X)
    BY NthIs
  <2> QED
    BY <2>1 DEF Enumerated
<1>5. \A x \in X : Cardinality(Upto(X, x)) = j <=> x = k
  BY <1>3, <1>4
<1>6. \A x \in X : Cardinality(Upto(X, x)) <= N - h
                   <=> Cardinality(Upto(X, x)) <= N - i /\ x # k
  <2> TAKE x \in X
  <2>1. Cardinality(Upto(X, x)) \in Int
    BY <1>1
  <2> QED
    BY <1>1, <1>2, <1>5, <2>1
<1>7. k \in LeftAfter(D, X, i)
  BY <1>0, <1>1, <1>2, <1>3 DEF LeftAfter
<1>8. \A x \in D : x \in LeftAfter(D, X, h) <=> x \in LeftAfter(D, X, i) /\ x # k
  BY <1>0, <1>3, <1>6 DEF LeftAfter
<1>9. LeftAfter(D, X, h) \subseteq D /\ LeftAfter(D, X, i) \subseteq D
  BY DEF LeftAfter
<1> QED
  BY <1>7, <1>8, <1>9 DEF Steps

\* Before the first round all entries are in force, after the last one all but X.
LEMMA LeftAfterEnds ==
  ASSUME NEW n \in Nat, NEW D, D = 1 .. n, NEW X \in SUBSET D
  PROVE  LeftAfter(D, X, 0) = D /\ LeftAfter(D, X, Cardinality(X)) = D \ X
<1>1. Cardinality(X) \in Nat /\ \A x \in X : Cardinality(Upto(X, x)) \in 1 .. Cardinality(X)
  BY UptoCounts
<1>2. \A x \in X : /\ Cardinality(Upto(X, x)) <= Cardinality(X) - 0
                   /\ ~(Cardinality(Upto(X, x)) <= Cardinality(X) - Cardinality(X))
  BY <1>1
<1> QED
  BY <1>2 DEF LeftAfter

\* No entry left in force touches what an undone one added or took.
Closed(log, D, X) ==
  /\ X \subseteq D
  /\ \A i \in D \ X, j \in X : /\ log[i].core \cap log[j].added = {}
                               /\ log[i].core \cap Taken(log[j]) = {}

\* What is still in force rests on what is still in force.
LEMMA LeftIsSupported ==
  ASSUME NEW log, NEW n \in Nat, NEW D, D = 1 .. n, \A i \in D : IsEntry(log[i]),
         Supported(log, D), NEW X, Closed(log, D, X), NEW i \in Int
  PROVE  Supported(log, LeftAfter(D, X, i))
<1> SUFFICES ASSUME NEW a \in LeftAfter(D, X, i), NEW x \in Taken(log[a]) \ Originals
             PROVE  \E j \in LeftAfter(D, X, i) : j < a /\ x \in Given(log[j])
  BY DEF Supported
<1>1. a \in D /\ (a \in X => Cardinality(Upto(X, a)) <= Cardinality(X) - i)
  BY DEF LeftAfter
<1>2. PICK j \in D : j < a /\ x \in Given(log[j])
  BY <1>1 DEF Supported
<1>3. X \in SUBSET (1 .. n)
  BY DEF Closed
<1>4. j \in X => Cardinality(Upto(X, j)) <= Cardinality(X) - i
  <2> SUFFICES ASSUME j \in X PROVE Cardinality(Upto(X, j)) <= Cardinality(X) - i
    OBVIOUS
  <2>1. x \in log[a].core /\ x \in log[j].added
    BY <1>1, <1>2 DEF IsEntry
  <2>2. a \in X
    BY <1>1, <2>1 DEF Closed
  <2>3. Cardinality(Upto(X, j)) < Cardinality(Upto(X, a))
    BY <1>2, <1>3, <2>2, UptoCounts
  <2>4. /\ Cardinality(Upto(X, j)) \in 1 .. Cardinality(X)
        /\ Cardinality(Upto(X, a)) \in 1 .. Cardinality(X)
        /\ Cardinality(X) \in Nat
    BY <1>3, <2>2, UptoCounts
  <2>5. Cardinality(Upto(X, j)) \in Int /\ Cardinality(Upto(X, a)) \in Int
    BY <2>4
  <2> QED
    BY <1>1, <2>2, <2>3, <2>4, <2>5
<1> QED
  BY <1>2, <1>4 DEF LeftAfter

\* The entry to be undone is the newest of those left that takes what it takes.
LEMMA NewestIsUndone ==
  ASSUME NEW log, NEW n \in Nat, NEW D, D = 1 .. n, \A i \in D : IsEntry(log[i]),
         NEW X, Closed(log, D, X), NEW i \in Nat, NEW h, h = i + 1,
         NEW k, Steps(D, X, i, h, k)
  PROVE  TakenLast(log, LeftAfter(D, X, i), k)
<1> SUFFICES ASSUME NEW j \in LeftAfter(D, X, i), j > k
             PROVE  Taken(log[j]) \cap Taken(log[k]) = {}
  BY DEF TakenLast
<1>1. X \in SUBSET (1 .. n)
  BY DEF Closed
<1>2. k \in D /\ k \notin LeftAfter(D, X, h)
  BY DEF Steps, LeftAfter
<1>3. k \in X /\ ~(Cardinality(Upto(X, k)) <= Cardinality(X) - h)
  BY <1>2 DEF LeftAfter
<1>4. Cardinality(X) \in Nat /\ Cardinality(Upto(X, k)) \in 1 .. Cardinality(X)
  BY <1>1, <1>3, UptoCounts
<1>5. j \in D /\ (j \in X => Cardinality(Upto(X, j)) <= Cardinality(X) - i)
  BY DEF LeftAfter
<1>6. j \notin X
  <2> SUFFICES ASSUME j \in X PROVE FALSE
    OBVIOUS
  <2>1. Cardinality(Upto(X, k)) < Cardinality(Upto(X, j))
    BY <1>1, <1>3, UptoCounts
  <2>2. Cardinality(Upto(X, j)) \in 1 .. Cardinality(X)
    BY <1>1, UptoCounts
  <2>3. Cardinality(Upto(X, k)) \in Int /\ Cardinality(Upto(X, j)) \in Int
    BY <1>4, <2>2
  <2> QED
    BY <1>3, <1>4, <1>5, <2>1, <2>3
<1> QED
  BY <1>3, <1>5, <1>6 DEF Closed, IsEntry

\* The engines on the way, one for each consequence undone.
Undone(e, log, X, r) ==
  /\ r[0] = e
  /\ \A i \in 1 .. Cardinality(X) : r[i] = Undo(r[i - 1], log[UndoneAt(X, i)])

\* The rounds of Disable, newest consequence first, keep what stays accounted for.
LEMMA UndoRounds ==
  ASSUME NEW e, NEW log, NEW n \in Nat, NEW D, D = 1 .. n, NEW d, Kept(e, log, D, d),
         Supported(log, D), NEW X, Closed(log, D, X), NEW r, Undone(e, log, X, r),
         NEW u, u = r[Cardinality(X)]
  PROVE  KeptFrom(e, u, log, D \ X, d)
<1>0. X \in SUBSET D
  BY DEF Closed
<1> DEFINE N == Cardinality(X)
<1>1. N \in Nat
  BY <1>0, UptoCounts
<1>6. /\ r[0] = e
      /\ \A i \in 1 .. N : r[i] = Undo(r[i - 1], log[UndoneAt(X, i)])
      /\ u = r[N]
  BY DEF Undone
<1> HIDE DEF N
<1> DEFINE G == {i \in Nat : i <= N => Kept(r[i], log, LeftAfter(D, X, i), d) /\ r[i].log = e.log}
<1>7. 0 \in G
  BY <1>0, <1>6, LeftAfterEnds
<1>8. ASSUME NEW i \in Nat, i \in G PROVE i + 1 \in G
  <2>1. PICK h : h = i + 1
    OBVIOUS
  <2> SUFFICES ASSUME h <= N
               PROVE  Kept(r[h], log, LeftAfter(D, X, h), d) /\ r[h].log = e.log
    BY <2>1
  <2>2. h \in 1 .. N /\ h - 1 = i /\ i <= N /\ i \in Int /\ h \in Int
    BY <1>1, <2>1
  <2>3. PICK k : k = UndoneAt(X, h)
    OBVIOUS
  <2>4. r[h] = Undo(r[i], log[k])
    BY <1>6, <2>2, <2>3
  <2>5. /\ k \in LeftAfter(D, X, i) /\ LeftAfter(D, X, h) = LeftAfter(D, X, i) \ {k}
        /\ TakenLast(log, LeftAfter(D, X, i), k) /\ LeftAfter(D, X, i) \subseteq Nat
    <3>1. h \in 1 .. Cardinality(X) /\ i \in Nat /\ n \in Nat /\ D = 1 .. n
      BY <2>2 DEF N
    <3>2. Steps(D, X, i, h, k)
      BY <1>0, <2>1, <2>3, <3>1, LeftAfterStep
    <3>3. \A j \in D : IsEntry(log[j])
      BY DEF Kept
    <3>4. TakenLast(log, LeftAfter(D, X, i), k)
      BY <2>1, <3>1, <3>2, <3>3, NewestIsUndone
    <3>5. LeftAfter(D, X, i) \subseteq Nat
      BY DEF LeftAfter
    <3> QED
      BY <3>2, <3>4, <3>5 DEF Steps
  <2>6. Kept(r[i], log, LeftAfter(D, X, i), d) /\ r[i].log = e.log
    BY <1>8, <2>2
  <2>7. \A j \in D : IsEntry(log[j])
    BY DEF Kept
  <2>8. Supported(log, LeftAfter(D, X, i)) /\ Supported(log, LeftAfter(D, X, h))
    BY <2>2, <2>7, LeftIsSupported
  <2> HIDE DEF G
  <2> DEFINE L == LeftAfter(D, X, i)
             M == LeftAfter(D, X, h)
             a == r[i]
             b == r[h]
  <2>9. /\ Kept(a, log, L, d) /\ k \in L /\ Supported(log, L) /\ Supported(log, M)
        /\ TakenLast(log, L, k) /\ L \subseteq Nat
        /\ M = L \ {k} /\ b = Undo(a, log[k]) /\ a.log = e.log
    BY <2>4, <2>5, <2>6, <2>8
  <2> HIDE DEF L, M, a, b
  <2>10. Kept(b, log, M, d) /\ b.log = e.log
    <3>1. Kept(a, log, L, d) /\ k \in L /\ Supported(log, L) /\ Supported(log, L \ {k})
      BY <2>9
    <3>2. Kept(b, log, L \ {k}, d) /\ b.log = a.log
      <4>1. KeptFrom(a, b, log, L \ {k}, d)
        <5>1. TakenLast(log, L, k) /\ L \subseteq Nat /\ b = Undo(a, log[k])
          BY <2>9
        <5> QED
          BY <3>1, <5>1, UndoKeeps
      <4> QED
        BY <4>1 DEF KeptFrom
    <3> QED
      BY <2>9, <3>2
  <2> QED
    BY <2>10 DEF M, b
<1>9. \A i \in Nat : i \in G
  <2> HIDE DEF G
  <2> QED
    BY <1>7, <1>8, NumberInduction
<1>10. N \in G /\ N <= N
  BY <1>1, <1>9
<1>11. Kept(u, log, LeftAfter(D, X, N), d) /\ u.log = e.log
  BY <1>6, <1>10
<1> QED
  BY <1>0, <1>11, LeftAfterEnds DEF N, KeptFrom

\* Undoing a closed set of consequences keeps the others in order.
LEMMA UndoAll ==
  ASSUME NEW e, NEW log, NEW n \in Nat, NEW D, D = 1 .. n, NEW d, Kept(e, log, D, d),
         Supported(log, D), NEW X, Closed(log, D, X),
         NEW u, u = FoldLeft(Undo, e, Reverse(Sublog(log, X)))
  PROVE  KeptFrom(e, u, log, D \ X, d)
<1>0. X \in SUBSET D
  BY DEF Closed
<1> DEFINE N == Cardinality(X)
           s == Sublog(log, X)
           seq == Reverse(s)
<1>1. N \in Nat
  BY <1>0, UptoCounts
<1>2. /\ Len(s) = N
      /\ \A i \in 1 .. N : s[i] = log[Nth(X, i)]
  <2>1. Selects(s, log, X)
    BY <1>0, SublogSeq
  <2> QED
    BY <2>1 DEF Selects
<1> HIDE DEF s, N
<1>3. DOMAIN seq = 1 .. N
  BY <1>2 DEF Reverse
<1>4. ASSUME NEW i \in 1 .. N PROVE seq[i] = log[UndoneAt(X, i)]
  <2>1. seq[i] = s[(N - i) + 1]
    BY <1>2 DEF Reverse
  <2>2. (N - i) + 1 \in 1 .. N
    BY <1>1
  <2> QED
    BY <1>2, <2>1, <2>2 DEF UndoneAt, N
<1> HIDE DEF seq
<1>5. PICK r : Undoes(e, N, seq, r)
  BY <1>1, <1>3, UndoFold
<1>6. Undone(e, log, X, r) /\ u = r[N]
  BY <1>4, <1>5 DEF Undoes, Undone, seq, s, N
<1>7. u = r[Cardinality(X)]
  BY <1>6 DEF N
<1> QED
  BY <1>6, <1>7, UndoRounds

(***************************************************************************)
(* The consequences that stay in force.                                    *)
(***************************************************************************)
\* An engine of which the consequences at the positions R are in force.
Stands(e, log, R, H, A, d) ==
  /\ IsEngine(e)
  /\ \A l \in DOMAIN d : d[l] \in Nat
  /\ Ledger(e, log, R, d)
  /\ Chained(log, R, d)
  /\ Implied(log, R, H, A)
  /\ Booked(e, log, R)

\* The log of a sound engine is a finite sequence.
LogOf(log, n) == n \in Nat /\ DOMAIN log = 1 .. n /\ IsFiniteSet(DOMAIN log) /\ \E S : log \in Seq(S)

\* The log of a sound engine is finite and its positions are 1 to its length.
LEMMA SoundLog ==
  ASSUME NEW e, NEW H, NEW A, NEW d, Sound(e, H, A, d)
  PROVE  LogOf(e.log, Len(e.log))
<1>1. PICK S : e.log \in Seq(S)
  BY DEF Sound
<1>2. Len(e.log) \in Nat /\ DOMAIN e.log = 1 .. Len(e.log)
  BY <1>1
<1> QED
  BY <1>1, <1>2, FS_Interval DEF LogOf

\* A sound engine is in order for a rollback.
LEMMA SoundIsKept ==
  ASSUME NEW e, NEW H, NEW A, NEW d, Sound(e, H, A, d), NEW log, log = e.log
  PROVE  Kept(e, log, DOMAIN log, d) /\ Supported(log, DOMAIN log)
<1> DEFINE D == DOMAIN log
<1>1. IsFiniteSet(D)
  BY SoundLog DEF LogOf
<1>2. IsEngine(e) /\ (\A l \in DOMAIN d : d[l] \in Nat) /\ Ledger(e, log, D, d) /\ Chained(log, D, d)
      /\ Booked(e, log, D)
  BY DEF Sound
<1> HIDE DEF D
<1>3. Accounts(e, log, D, d)
  BY <1>2 DEF Accounts, Ledger
<1>4. GivenOnce(log, D) /\ Supported(log, D) /\ \A i \in D : IsEntry(log[i])
  BY <1>2 DEF GivenOnce, Supported, Chained
<1>5. Kept(e, log, D, d)
  BY <1>1, <1>2, <1>3, <1>4 DEF Kept
<1> QED
  BY <1>4, <1>5 DEF D

\* A literal that no undone consequence gave or took changes as before.
LEMMA ChangesLeft ==
  ASSUME NEW log, NEW D, IsFiniteSet(D), \A i \in D : IsEntry(log[i]), NEW X \in SUBSET D,
         NEW x, \A i \in X : x \notin DOMAIN log[i].wdelta
  PROVE  Changes(log, D \ X, x) = Changes(log, D, x)
<1> DEFINE F == [i \in D |-> Change(log[i], x)]
           R == D \ X
           K == [i \in R |-> Change(log[i], x)]
<1>1. Integral(F, D)
  BY ChangesIntegral
<1>2. \A i \in D \ R : F[i] = 0
  BY DEF Change
<1>3. \A i \in R : K[i] = F[i]
  OBVIOUS
<1>4. R \in SUBSET D
  OBVIOUS
<1> HIDE DEF F, K, R
<1>5. SumFunctionOnSet(F, D) = SumFunctionOnSet(F, R)
  BY <1>1, <1>2, <1>4, SumSupport
<1>6. SumFunctionOnSet(K, R) = SumFunctionOnSet(F, R)
  BY <1>1, <1>3, <1>4, IntegralSubset, SumSame
<1> QED
  BY <1>5, <1>6 DEF Changes, F, K, R

\* What is left after undoing a closed set stands on its own, for the assumptions
\* its cores rest on.
LEMMA Cut ==
  ASSUME NEW e, NEW H, NEW A, NEW d, Sound(e, H, A, d), NEW log, log = e.log,
         NEW D, D = DOMAIN log, NEW X, Closed(log, D, X),
         NEW B, \A i \in D \ X : log[i].core \cap A \subseteq B,
         NEW u, Kept(u, log, D \ X, d)
  PROVE  Stands(u, log, D \ X, H, B, d)
<1> DEFINE R == D \ X
<1>1. /\ IsEngine(e) /\ Ledger(e, log, D, d) /\ Chained(log, D, d) /\ Implied(log, D, H, A)
      /\ \A l \in DOMAIN d : d[l] \in Nat
      /\ IsFiniteSet(D)
  BY SoundLog DEF Sound, LogOf
<1>2. X \in SUBSET D /\ R \subseteq D
  BY DEF Closed
<1>3. \A i \in D : IsEntry(log[i])
  BY <1>1 DEF Chained
<1>4. \A i \in R, j \in X : /\ log[i].core \cap log[j].added = {}
                            /\ log[i].core \cap Taken(log[j]) = {}
  BY DEF Closed
<1>5. \A i \in D : /\ Taken(log[i]) \subseteq log[i].core /\ Given(log[i]) \subseteq log[i].added
                   /\ Units(log[i]) \subseteq log[i].added
                   /\ log[i].removed \subseteq Taken(log[i])
                   /\ DOMAIN log[i].wdelta \subseteq Taken(log[i]) \cup Given(log[i])
  BY <1>3 DEF IsEntry, Given, Units
<1> HIDE DEF R
<1>6. IsEngine(u) /\ Accounts(u, log, R, d) /\ \A i \in R : IsEntry(log[i])
  BY DEF Kept, R
<1>7. \A i \in R : log[i].removed \cap Weighted(u) = {}
  <2> SUFFICES ASSUME NEW i \in R, NEW x \in log[i].removed PROVE x \notin Weighted(u)
    OBVIOUS
  <2>1. \A j \in X : x \notin DOMAIN log[j].wdelta
    BY <1>2, <1>4, <1>5
  <2>2. Changes(log, R, x) = Changes(log, D, x)
    BY <1>1, <1>2, <1>3, <2>1, ChangesLeft DEF R
  <2>3. WeightIn(u, x) = WeightIn(e, x)
    BY <1>1, <1>6, <2>2 DEF Ledger, Accounts
  <2>4. x \notin Weighted(e)
    BY <1>1, <1>2 DEF Ledger
  <2> QED
    BY <1>1, <1>6, <2>3, <2>4, WeightType
<1>8. Ledger(u, log, R, d)
  BY <1>6, <1>7 DEF Ledger, Accounts
<1>9. \A i \in R : \A x \in Taken(log[i]) \ Originals : \E j \in R : j < i /\ x \in Given(log[j])
  <2> SUFFICES ASSUME NEW i \in R, NEW x \in Taken(log[i]) \ Originals
               PROVE  \E j \in R : j < i /\ x \in Given(log[j])
    OBVIOUS
  <2>1. PICK j \in D : j < i /\ x \in Given(log[j])
    BY <1>1, <1>2 DEF Chained
  <2>2. j \notin X
    BY <1>2, <1>4, <1>5, <2>1
  <2> QED
    BY <2>1, <2>2 DEF R
<1>10. \A i \in R : \A x \in Taken(log[i]) :
         IsSum(x) /\ HasNextOutput(x) => \E j \in R : NextOutput(x) \in log[j].created
  <2> SUFFICES ASSUME NEW i \in R, NEW x \in Taken(log[i]), IsSum(x), HasNextOutput(x)
               PROVE  \E j \in R : NextOutput(x) \in log[j].created
    OBVIOUS
  <2>1. PICK j \in D : NextOutput(x) \in log[j].created
    BY <1>1, <1>2 DEF Chained
  <2>2. Bearer(x)
    BY <1>2, <1>3 DEF IsEntry, Taken
  <2>3. Prev(NextOutput(x)) = x /\ NextOutput(x).bnd > 1
    BY <2>2, NextFields
  <2>4. x \in Taken(log[j])
    BY <1>3, <2>1, <2>3 DEF IsEntry
  <2>5. j \notin X
    BY <1>2, <1>4, <1>5, <2>4
  <2> QED
    BY <2>1, <2>5 DEF R
<1>11. Chained(log, R, d)
  <2>1. \A i \in R : \A l \in Lit : Orig(l) \in Taken(log[i]) => l \in DOMAIN d
    BY <1>1, <1>2 DEF Chained
  <2>2. \A i, j \in R : i # j => Given(log[i]) \cap Given(log[j]) = {}
    BY <1>1, <1>2 DEF Chained
  <2>3. \A i, j \in R : \A k \in log[i].created :
          k.bnd > 1 /\ Prev(k) \in log[j].created => log[i].wdelta[k] = log[j].wdelta[Prev(k)]
    BY <1>1, <1>2 DEF Chained
  <2> QED
    BY <1>6, <1>9, <1>10, <2>1, <2>2, <2>3 DEF Chained
<1>12. \A i \in R : \A x \in log[i].core \ Taken(log[i]) :
         x \in B \/ \E j \in R : j < i /\ x \in Units(log[j])
  <2> SUFFICES ASSUME NEW i \in R, NEW x \in log[i].core \ Taken(log[i]), x \notin B
               PROVE  \E j \in R : j < i /\ x \in Units(log[j])
    OBVIOUS
  <2>1. x \notin A
    BY DEF R
  <2>2. PICK j \in D : j < i /\ x \in Units(log[j])
    BY <1>1, <1>2, <2>1 DEF Implied
  <2>3. j \notin X
    BY <1>4, <1>5, <2>2
  <2> QED
    BY <2>2, <2>3 DEF R
<1>13. Implied(log, R, H, B)
  BY <1>1, <1>2, <1>12 DEF Implied
<1>14. Booked(u, log, R)
  BY DEF Kept, R
<1> QED
  BY <1>1, <1>6, <1>8, <1>11, <1>13, <1>14 DEF Stands, R

(***************************************************************************)
(* The log that is left.                                                   *)
(***************************************************************************)
\* s holds the entries of log at the positions R, in the same order.
Renumbers(b, s, T, log, R) ==
  /\ b \in [T -> R] /\ IsFiniteSet(T)
  /\ \A i \in T : s[i] = log[b[i]]
  /\ \A i, j \in T : b[i] < b[j] <=> i < j
  /\ \A i, j \in T : b[i] = b[j] => i = j
  /\ \A k \in R : \E i \in T : b[i] = k

\* The entries Sublog takes keep their order under new positions.
LEMMA SublogRenumbers ==
  ASSUME NEW log, NEW n \in Nat, NEW R \in SUBSET (1 .. n), NEW s, s = Sublog(log, R)
  PROVE  \E b : Renumbers(b, s, DOMAIN s, log, R)
<1> DEFINE N == Cardinality(R)
           T == 1 .. N
           b == [i \in T |-> Nth(R, i)]
<1>1. N \in Nat /\ \A k \in R : Cardinality(Upto(R, k)) \in T
  BY UptoCounts
<1>2. DOMAIN s = T /\ \A i \in T : s[i] = log[Nth(R, i)]
  <2>1. Selects(s, log, R)
    BY SublogSeq
  <2> QED
    BY <2>1 DEF Selects
<1>3. /\ \A i \in T : Nth(R, i) \in R /\ Cardinality(Upto(R, Nth(R, i))) = i
      /\ \A k \in R : Nth(R, Cardinality(Upto(R, k))) = k
      /\ \A i, j \in T : Nth(R, i) < Nth(R, j) <=> i < j
  <2>1. Enumerated(R)
    BY NthIs
  <2> QED
    BY <2>1 DEF Enumerated
<1>4. IsFiniteSet(T)
  BY <1>1, FS_Interval
<1> HIDE DEF T
<1>5. \A i \in T : b[i] = Nth(R, i)
  OBVIOUS
<1>6. b \in [T -> R]
  BY <1>3
<1> HIDE DEF b
<1>7. \A i, j \in T : b[i] < b[j] <=> i < j
  BY <1>3, <1>5
<1>8. \A i, j \in T : b[i] = b[j] => i = j
  BY <1>3, <1>5
<1>9. \A k \in R : \E i \in T : b[i] = k
  BY <1>1, <1>3, <1>5
<1>10. \A i \in T : s[i] = log[b[i]]
  BY <1>2, <1>5
<1>11. Renumbers(b, s, T, log, R)
  BY <1>4, <1>6, <1>7, <1>8, <1>9, <1>10 DEF Renumbers
<1> QED
  BY <1>2, <1>11

\* Renumbering keeps sums over the entries.
LEMMA RenumberedSum ==
  ASSUME NEW b, NEW s, NEW T, NEW log, NEW R, Renumbers(b, s, T, log, R),
         NEW F, NEW K, Integral(K, R), \A i \in T : F[i] = K[b[i]]
  PROVE  SumFunctionOnSet(F, T) = SumFunctionOnSet(K, R)
<1>1. /\ b \in [T -> R] /\ IsFiniteSet(T)
      /\ \A x, y \in T : b[x] = b[y] => x = y
      /\ \A z \in R : \E x \in T : b[x] = z
  BY DEF Renumbers
<1> QED
  BY <1>1, SumRename

\* The books stay balanced when the entries move to new positions.
LEMMA LedgerRenumbered ==
  ASSUME NEW b, NEW s, NEW T, NEW log, NEW R, Renumbers(b, s, T, log, R), IsFiniteSet(R),
         \A i \in R : IsEntry(log[i]), NEW e, NEW d, Ledger(e, log, R, d)
  PROVE  Ledger(e, s, T, d)
<1>1. /\ \A i \in T : b[i] \in R /\ s[i] = log[b[i]]
      /\ \A k \in R : \E i \in T : b[i] = k
  BY DEF Renumbers
<1>2. e.cost = SumFunctionOnSet([i \in T |-> s[i].weight], T)
  <2> DEFINE F == [i \in T |-> s[i].weight]
             K == [i \in R |-> log[i].weight]
  <2>1. Integral(K, R)
    BY DEF Integral, IsEntry
  <2>2. \A i \in T : F[i] = K[b[i]]
    BY <1>1
  <2>3. e.cost = SumFunctionOnSet(K, R)
    BY DEF Ledger
  <2> HIDE DEF F, K
  <2>4. SumFunctionOnSet(F, T) = SumFunctionOnSet(K, R)
    BY <2>1, <2>2, RenumberedSum
  <2> QED
    BY <2>3, <2>4 DEF F
<1>3. ASSUME NEW x PROVE WeightIn(e, x) = Declared(d, x) + Changes(s, T, x)
  <2> DEFINE F == [i \in T |-> Change(s[i], x)]
             K == [i \in R |-> Change(log[i], x)]
  <2>1. Integral(K, R)
    BY ChangesIntegral
  <2>2. \A i \in T : F[i] = K[b[i]]
    BY <1>1
  <2> HIDE DEF F, K
  <2>3. SumFunctionOnSet(F, T) = SumFunctionOnSet(K, R)
    BY <2>1, <2>2, RenumberedSum
  <2>4. Changes(s, T, x) = Changes(log, R, x)
    BY <2>3 DEF Changes, F, K
  <2> QED
    BY <2>4 DEF Ledger
<1>4. DOMAIN e.swgt = UNION {s[i].created : i \in T}
  <2>1. DOMAIN e.swgt = UNION {log[i].created : i \in R}
    BY DEF Ledger
  <2> QED
    BY <1>1, <2>1
<1>5. \A i \in T : \A k \in s[i].created : e.swgt[k] = s[i].wdelta[k]
  BY <1>1 DEF Ledger
<1>6. \A x \in e.impossible : \E i \in T : x \in Units(s[i])
  <2> TAKE x \in e.impossible
  <2>1. PICK k \in R : x \in Units(log[k])
    BY DEF Ledger
  <2> QED
    BY <1>1, <2>1
<1>7. \A i \in T : s[i].removed \cap Weighted(e) = {}
  BY <1>1 DEF Ledger
<1> QED
  BY <1>2, <1>3, <1>4, <1>5, <1>6, <1>7 DEF Ledger

\* The entries still rest on each other when they move to new positions.
LEMMA ChainedRenumbered ==
  ASSUME NEW b, NEW s, NEW T, NEW log, NEW R, Renumbers(b, s, T, log, R), NEW d,
         Chained(log, R, d)
  PROVE  Chained(s, T, d)
<1>1. /\ \A i \in T : b[i] \in R /\ s[i] = log[b[i]]
      /\ \A k \in R : \E i \in T : b[i] = k
      /\ \A i, j \in T : b[i] < b[j] <=> i < j
      /\ \A i, j \in T : b[i] = b[j] => i = j
  BY DEF Renumbers
<1>2. \A i \in T : IsEntry(s[i])
  BY <1>1 DEF Chained
<1>3. \A i \in T : \A x \in Taken(s[i]) \ Originals : \E j \in T : j < i /\ x \in Given(s[j])
  <2> SUFFICES ASSUME NEW i \in T, NEW x \in Taken(s[i]) \ Originals
               PROVE  \E j \in T : j < i /\ x \in Given(s[j])
    OBVIOUS
  <2>1. b[i] \in R /\ x \in Taken(log[b[i]]) \ Originals
    BY <1>1
  <2>2. PICK k \in R : k < b[i] /\ x \in Given(log[k])
    BY <2>1 DEF Chained
  <2>3. PICK j \in T : b[j] = k
    BY <1>1
  <2> QED
    BY <1>1, <2>2, <2>3
<1>4. \A i \in T : \A l \in Lit : Orig(l) \in Taken(s[i]) => l \in DOMAIN d
  BY <1>1 DEF Chained
<1>5. \A i, j \in T : i # j => Given(s[i]) \cap Given(s[j]) = {}
  BY <1>1 DEF Chained
<1>6. \A i, j \in T : \A k \in s[i].created :
        k.bnd > 1 /\ Prev(k) \in s[j].created => s[i].wdelta[k] = s[j].wdelta[Prev(k)]
  BY <1>1 DEF Chained
<1>7. \A i \in T : \A x \in Taken(s[i]) :
        IsSum(x) /\ HasNextOutput(x) => \E j \in T : NextOutput(x) \in s[j].created
  <2> SUFFICES ASSUME NEW i \in T, NEW x \in Taken(s[i]), IsSum(x), HasNextOutput(x)
               PROVE  \E j \in T : NextOutput(x) \in s[j].created
    OBVIOUS
  <2>1. b[i] \in R /\ x \in Taken(log[b[i]])
    BY <1>1
  <2>2. PICK k \in R : NextOutput(x) \in log[k].created
    BY <2>1 DEF Chained
  <2> QED
    BY <1>1, <2>2
<1> QED
  BY <1>2, <1>3, <1>4, <1>5, <1>6, <1>7 DEF Chained

\* The entries are still implied by the clauses when they move to new positions.
LEMMA ImpliedRenumbered ==
  ASSUME NEW b, NEW s, NEW T, NEW log, NEW R, Renumbers(b, s, T, log, R), NEW H, NEW A,
         Implied(log, R, H, A)
  PROVE  Implied(s, T, H, A)
<1>1. /\ \A i \in T : b[i] \in R /\ s[i] = log[b[i]]
      /\ \A k \in R : \E i \in T : b[i] = k
      /\ \A i, j \in T : b[i] < b[j] <=> i < j
  BY DEF Renumbers
<1>2. \A i \in T : \A x \in s[i].core \ Taken(s[i]) :
        x \in A \/ \E j \in T : j < i /\ x \in Units(s[j])
  <2> SUFFICES ASSUME NEW i \in T, NEW x \in s[i].core \ Taken(s[i]), x \notin A
               PROVE  \E j \in T : j < i /\ x \in Units(s[j])
    OBVIOUS
  <2>1. b[i] \in R /\ x \in log[b[i]].core \ Taken(log[b[i]])
    BY <1>1
  <2>2. PICK k \in R : k < b[i] /\ x \in Units(log[k])
    BY <2>1 DEF Implied
  <2>3. PICK j \in T : b[j] = k
    BY <1>1
  <2> QED
    BY <1>1, <2>2, <2>3
<1>3. \A i \in T : H \cap ModelsOf(s[i].core) = {}
  BY <1>1 DEF Implied
<1>4. \A i \in T : Units(s[i]) # {} =>
        \E x \in s[i].core : /\ Taken(s[i]) = {x} /\ ~IsSum(x)
                             /\ Units(s[i]) \subseteq {Neg(x)}
  <2> SUFFICES ASSUME NEW i \in T, Units(s[i]) # {}
               PROVE  \E x \in s[i].core : /\ Taken(s[i]) = {x} /\ ~IsSum(x)
                                          /\ Units(s[i]) \subseteq {Neg(x)}
    OBVIOUS
  <2>1. b[i] \in R /\ s[i] = log[b[i]] /\ Units(log[b[i]]) # {}
    BY <1>1
  <2>2. \E x \in log[b[i]].core : /\ Taken(log[b[i]]) = {x} /\ ~IsSum(x)
                                 /\ Units(log[b[i]]) \subseteq {Neg(x)}
    BY <2>1 DEF Implied
  <2> QED
    BY <2>1, <2>2
<1>5. \A i \in T : \A m \in H : m \in ModelsOf(s[i].core \ Taken(s[i])) => Balanced(s[i], m)
  BY <1>1 DEF Implied
<1> QED
  BY <1>2, <1>3, <1>4, <1>5 DEF Implied

\* What is on file of the literals stays right when the entries move to new positions.
LEMMA BookedRenumbered ==
  ASSUME NEW b, NEW s, NEW T \in SUBSET Int, NEW log, NEW R \in SUBSET Int,
         Renumbers(b, s, T, log, R), NEW e, Booked(e, log, R)
  PROVE  Booked(e, s, T)
<1>1. /\ \A i \in T : b[i] \in R /\ s[i] = log[b[i]]
      /\ \A k \in R : \E i \in T : b[i] = k
      /\ \A i, j \in T : b[i] < b[j] <=> i < j
  BY DEF Renumbers
<1>2. \A i \in T : \A x \in Taken(s[i]) \ Weighted(e) : \E j \in T : j >= i /\ x \in s[j].removed
  <2> SUFFICES ASSUME NEW i \in T, NEW x \in Taken(s[i]) \ Weighted(e)
               PROVE  \E j \in T : j >= i /\ x \in s[j].removed
    OBVIOUS
  <2>1. b[i] \in R /\ x \in Taken(log[b[i]]) \ Weighted(e)
    BY <1>1
  <2>2. PICK k \in R : k >= b[i] /\ x \in log[k].removed
    BY <2>1 DEF Booked
  <2>3. PICK j \in T : b[j] = k
    BY <1>1
  <2>6. k \in Int /\ b[i] \in Int
    BY <2>1
  <2>7. ~(k < b[i])
    BY <2>2, <2>6
  <2>4. ~(b[j] < b[i]) /\ x \in s[j].removed
    BY <1>1, <2>2, <2>3, <2>7
  <2>5. ~(j < i)
    BY <1>1, <2>4
  <2> QED
    BY <2>4, <2>5
<1>3. \A i \in T : \A x \in Taken(s[i]) : IsSum(x) \/ x \in e.original
  BY <1>1 DEF Booked
<1> QED
  BY <1>2, <1>3 DEF Booked

\* The engine with the log that is left.
LEMMA Renumbered ==
  ASSUME NEW e, NEW log, NEW n \in Nat, NEW R \in SUBSET (1 .. n), NEW H, NEW A, NEW d,
         Stands(e, log, R, H, A, d), NEW s, s = Sublog(log, R)
  PROVE  Stands(e, s, DOMAIN s, H, A, d)
<1> DEFINE T == DOMAIN s
<1>1. PICK b : Renumbers(b, s, T, log, R)
  BY SublogRenumbers
<1>2. IsFiniteSet(R)
  BY UptoCounts
<1>8. T \in SUBSET Int /\ R \in SUBSET Int
  <2>1. Selects(s, log, R)
    BY SublogSeq
  <2>2. Cardinality(R) \in Nat
    BY UptoCounts
  <2> QED
    BY <2>1, <2>2 DEF Selects
<1> HIDE DEF T
<1>3. Ledger(e, log, R, d) /\ Chained(log, R, d) /\ Implied(log, R, H, A) /\ Booked(e, log, R)
  BY DEF Stands
<1>4. \A i \in R : IsEntry(log[i])
  BY <1>3 DEF Chained
<1>5. Ledger(e, s, T, d)
  BY <1>1, <1>2, <1>3, <1>4, LedgerRenumbered
<1>6. Chained(s, T, d)
  BY <1>1, <1>3, ChainedRenumbered
<1>7. Implied(s, T, H, A)
  BY <1>1, <1>3, ImpliedRenumbered
<1>9. Booked(e, s, T)
  BY <1>1, <1>3, <1>8, BookedRenumbered
<1> QED
  BY <1>5, <1>6, <1>7, <1>9 DEF Stands, T

\* Disabling a closed set of consequences leaves a sound engine.
SoundWith(f, H, A, d, s) == Sound(f, H, A, d) /\ f.log = s

\* Disable (rc2_solver.cc, the rollback) leaves a sound engine when it is given a
\* set of consequences on which no other one rests, and its log is the rest.
LEMMA DisableSound ==
  ASSUME NEW e, NEW H, NEW A, NEW d, Sound(e, H, A, d), NEW log, log = e.log,
         NEW X, Closed(log, DOMAIN log, X),
         NEW B, \A i \in DOMAIN log \ X : log[i].core \cap A \subseteq B,
         NEW f, f = Disable(e, X)
  PROVE  SoundWith(f, H, B, d, Sublog(log, DOMAIN log \ X))
<1> DEFINE D == DOMAIN log
           n == Len(e.log)
           R == D \ X
           u == FoldLeft(Undo, e, Reverse(Sublog(e.log, X)))
           s == Sublog(log, R)
           t == u.thrown \/ (X # {} /\ ~InOrder(u))
<1>1. n \in Nat /\ D = 1 .. n
  BY SoundLog DEF LogOf
<1>2. Kept(e, log, D, d) /\ Supported(log, D)
  BY SoundIsKept
<1>3. R \in SUBSET (1 .. n)
  BY <1>1
<1>4. f = [u EXCEPT !.log = s, !.thrown = t]
  BY Zenon DEF Disable
<1>5. u = FoldLeft(Undo, e, Reverse(Sublog(log, X)))
  OBVIOUS
<1> HIDE DEF n, D, u, s, t
<1>6. KeptFrom(e, u, log, R, d)
  BY <1>1, <1>2, <1>5, UndoAll DEF D
<1> HIDE DEF R
<1>7. Kept(u, log, R, d)
  BY <1>6 DEF KeptFrom
<1>8. Stands(u, log, R, H, B, d)
  BY <1>7, Cut DEF D, R
<1>9. Stands(u, s, DOMAIN s, H, B, d)
  BY <1>1, <1>3, <1>8, Renumbered DEF s
<1>10. \E S : s \in Seq(S)
  <2>1. Selects(s, log, R)
    BY <1>1, <1>3, SublogSeq DEF s
  <2> QED
    BY <2>1 DEF Selects
<1>11. IsEngine(u)
  BY <1>8 DEF Stands
<1>20. Booked(u, s, DOMAIN s)
  BY <1>9 DEF Stands
<1>21. InOrder(u)
  <2>1. u.active \subseteq Weighted(u) /\ \A l \in Weighted(u) : u.wght[l] \in Nat \ {0}
    BY <1>11 DEF IsEngine, PositiveWeights, Weighted
  <2>2. \A l \in Weighted(u) : IF IsSum(l) THEN l \in DOMAIN u.swgt \cap u.bnds ELSE l \in u.original
    BY <1>20 DEF Booked
  <2> QED
    BY <2>1, <2>2 DEF InOrder
<1>22. ~u.thrown
  BY <1>11 DEF IsEngine
<1>12. ~t
  BY <1>21, <1>22, Zenon DEF t
<1>13. DOMAIN u = {"cost", "wght", "active", "impossible", "swgt", "bnds", "bnds_history",
                   "original", "log", "thrown"}
  BY <1>11 DEF IsEngine, EngineRecord
<1>14. f = [cost |-> u.cost, wght |-> u.wght, active |-> u.active, impossible |-> u.impossible,
            swgt |-> u.swgt, bnds |-> u.bnds, bnds_history |-> u.bnds_history,
            original |-> u.original, log |-> s, thrown |-> t]
  BY <1>4, <1>13
<1>15. /\ EngineRecord(f) /\ f.cost = u.cost /\ f.wght = u.wght /\ f.active = u.active
       /\ f.impossible = u.impossible /\ f.swgt = u.swgt /\ f.log = s
       /\ f.bnds = u.bnds /\ f.bnds_history = u.bnds_history /\ f.original = u.original
  BY <1>14 DEF EngineRecord
<1>16. ~f.thrown
  <2>1. f.thrown = t
    BY <1>14
  <2> QED
    BY <1>12, <2>1, Zenon
<1>17. IsEngine(f)
  BY <1>11, <1>15, <1>16 DEF IsEngine, Weighted
<1>18. Ledger(f, s, DOMAIN s, d)
  BY <1>9, <1>15 DEF Stands, Ledger, WeightIn, Weighted
<1>23. Booked(f, s, DOMAIN s)
  BY <1>15, <1>20 DEF Booked, Weighted
<1>19. Sound(f, H, B, d)
  BY <1>9, <1>10, <1>15, <1>17, <1>18, <1>23 DEF Stands, Sound
<1> QED
  BY <1>15, <1>19 DEF s, R, D, SoundWith

(***************************************************************************)
(* The rollback of a call.                                                 *)
(***************************************************************************)
\* x is a literal of which tr changes the weight.
Renewed(x, tr) == x \in Originals /\ x.name \in DOMAIN tr

\* The engine in which the changed weights tr replace the old ones.
Reweighing(e, f, tr) ==
  /\ EngineRecord(f)
  /\ f.cost = e.cost /\ f.impossible = e.impossible /\ f.swgt = e.swgt /\ f.log = e.log
  /\ f.bnds = e.bnds /\ f.bnds_history = e.bnds_history
  /\ \A x : x \in f.original <=> x \in e.original \/ Renewed(x, tr)
  /\ \A x : Renewed(x, tr) => /\ WeightIn(f, x) = tr[x.name]
                              /\ x \in Weighted(f) => tr[x.name] > 0
  /\ \A x : ~Renewed(x, tr) => /\ WeightIn(f, x) = WeightIn(e, x)
                               /\ x \in Weighted(f) <=> x \in Weighted(e)
  /\ \A x \in f.active : x \in Weighted(f) \/ (x \in e.active /\ ~Renewed(x, tr))

\* Reweighted gives the changed literals their new weights and touches no other.
LEMMA ReweightedFields ==
  ASSUME NEW e, EngineRecord(e), DOMAIN transition \subseteq Lit,
         \A l \in DOMAIN transition : transition[l] \in Nat,
         NEW f, f = Reweighted(e)
  PROVE  Reweighing(e, f, transition) /\ (~e.thrown => ~f.thrown)
<1> DEFINE lits == {Orig(l) : l \in DOMAIN transition}
           zero == {l \in lits : transition[l.name] = 0}
           wt == Drop(Over([l \in lits |-> transition[l.name]], e.wght), zero)
           ac == (e.active \cup lits) \ zero
           og == e.original \cup lits
<1>1. f = [e EXCEPT !.wght = wt, !.active = ac, !.original = og]
  BY DEF Reweighted
<1>2. \A x : x \in lits <=> Renewed(x, transition)
  BY OriginalFields, OrigFields DEF Originals, Renewed
<1> HIDE DEF lits
<1>3. /\ DOMAIN wt = (lits \cup Weighted(e)) \ zero
      /\ \A x \in DOMAIN wt : wt[x] = IF x \in lits THEN transition[x.name] ELSE e.wght[x]
  BY DEF Drop, Restrict, Over, Weighted
<1>4. \A x \in lits : x.name \in DOMAIN transition /\ transition[x.name] \in Nat
  BY <1>2 DEF Renewed
<1> HIDE DEF wt, ac, og
<1>5. DOMAIN e = {"cost", "wght", "active", "impossible", "swgt", "bnds", "bnds_history",
                  "original", "log", "thrown"}
  BY DEF EngineRecord
<1>6. f = [cost |-> e.cost, wght |-> wt, active |-> ac, impossible |-> e.impossible,
           swgt |-> e.swgt, bnds |-> e.bnds, bnds_history |-> e.bnds_history,
           original |-> og, log |-> e.log, thrown |-> e.thrown]
  BY <1>1, <1>5
<1>7. /\ EngineRecord(f) /\ f.cost = e.cost /\ f.wght = wt /\ f.active = ac
      /\ f.impossible = e.impossible /\ f.swgt = e.swgt /\ f.log = e.log
      /\ f.bnds = e.bnds /\ f.bnds_history = e.bnds_history /\ f.original = og
  BY <1>6 DEF EngineRecord
<1>8. f.thrown = e.thrown
  BY <1>6
<1>9. \A x \in lits : x \in Weighted(f) <=> transition[x.name] > 0
  BY <1>3, <1>4, <1>7 DEF Weighted
<1>10. \A x : x \notin lits => (x \in Weighted(f) <=> x \in Weighted(e))
  BY <1>3, <1>7 DEF Weighted
<1>11. \A x \in lits : WeightIn(f, x) = transition[x.name]
  BY <1>3, <1>4, <1>7 DEF WeightIn
<1>12. \A x : x \notin lits => WeightIn(f, x) = WeightIn(e, x)
  BY <1>3, <1>7 DEF WeightIn, Weighted
<1>13. /\ \A x : Renewed(x, transition) => /\ WeightIn(f, x) = transition[x.name]
                                           /\ x \in Weighted(f) => transition[x.name] > 0
       /\ \A x : ~Renewed(x, transition) => /\ WeightIn(f, x) = WeightIn(e, x)
                                            /\ x \in Weighted(f) <=> x \in Weighted(e)
  BY <1>2, <1>9, <1>10, <1>11, <1>12
<1>14. \A x \in f.active : x \in Weighted(f) \/ (x \in e.active /\ ~Renewed(x, transition))
  <2>1. \A x \in lits \ zero : x \in Weighted(f)
    BY <1>3, <1>7 DEF Weighted
  <2>2. f.active = (e.active \cup lits) \ zero
    BY <1>7 DEF ac
  <2> QED
    BY <1>2, <2>1, <2>2
<1>15. Reweighing(e, f, transition)
  <2>1. /\ EngineRecord(f) /\ f.cost = e.cost /\ f.impossible = e.impossible
        /\ f.swgt = e.swgt /\ f.log = e.log
        /\ f.bnds = e.bnds /\ f.bnds_history = e.bnds_history
    BY <1>7
  <2>2. \A x : x \in f.original <=> x \in e.original \/ Renewed(x, transition)
    BY <1>2, <1>7 DEF og
  <2> QED
    BY <1>13, <1>14, <2>1, <2>2, Zenon DEF Reweighing
<1>16. ~e.thrown => ~f.thrown
  BY <1>8, Zenon
<1> QED
  BY <1>15, <1>16

\* There are finitely many original literals.
LEMMA OriginalsFinite == IsFiniteSet(Originals)
<1> DEFINE f == [l \in Lit |-> Orig(l)]
           O == Originals
<1>1. f \in [Lit -> O] /\ \A y \in O : \E x \in Lit : f[x] = y
  BY DEF Originals
<1> HIDE DEF f, O
<1>2. IsFiniteSet(O)
  BY <1>1, LitFinite, FiniteImage
<1> QED
  BY <1>2 DEF O

\* Changed weights keep an engine sound whose consequences do not rest on them.
LEMMA ReweightSound ==
  ASSUME NEW e, NEW H, NEW A, NEW d, Sound(e, H, A, d), DOMAIN d \subseteq Lit,
         NEW tr, DOMAIN tr \subseteq DOMAIN d, \A l \in DOMAIN tr : tr[l] \in Nat,
         \A i \in DOMAIN e.log, l \in DOMAIN tr : Orig(l) \notin Taken(e.log[i]),
         NEW f, Reweighing(e, f, tr), ~f.thrown
  PROVE  Sound(f, H, A, Over(tr, d))
<1> DEFINE D == DOMAIN e.log
           c == Over(tr, d)
<1>0. /\ IsEngine(e) /\ Ledger(e, e.log, D, d) /\ Chained(e.log, D, d) /\ Implied(e.log, D, H, A)
      /\ Booked(e, e.log, D)
      /\ \A l \in DOMAIN d : d[l] \in Nat
      /\ \E S : e.log \in Seq(S)
      /\ IsFiniteSet(D)
  BY SoundLog DEF Sound, LogOf
<1>1. /\ DOMAIN c = DOMAIN d
      /\ \A l \in DOMAIN d : c[l] = IF l \in DOMAIN tr THEN tr[l] ELSE d[l]
  BY DEF Over
<1> HIDE DEF c, D
<1>2. \A l \in DOMAIN c : c[l] \in Nat
  BY <1>0, <1>1
<1>3. \A i \in D : IsEntry(e.log[i])
  BY <1>0 DEF Chained
<1>20. \A x : Renewed(x, tr) => x \in Originals /\ x.name \in DOMAIN tr /\ x = Orig(x.name)
  BY OriginalFields DEF Renewed
<1>4. ASSUME NEW x, Renewed(x, tr), NEW i \in D PROVE x \notin DOMAIN e.log[i].wdelta
  <2>1. x \notin Taken(e.log[i])
    BY <1>4, <1>20 DEF D
  <2>2. x \notin Given(e.log[i])
    BY <1>3, <1>4, <1>20 DEF IsEntry
  <2> QED
    BY <2>1, <2>2 DEF Given
<1>5. /\ EngineRecord(f)
      /\ f.cost = e.cost /\ f.impossible = e.impossible /\ f.swgt = e.swgt /\ f.log = e.log
      /\ \A x : Renewed(x, tr) => /\ WeightIn(f, x) = tr[x.name]
                                  /\ x \in Weighted(f) => tr[x.name] > 0
      /\ \A x : ~Renewed(x, tr) => /\ WeightIn(f, x) = WeightIn(e, x)
                                   /\ x \in Weighted(f) <=> x \in Weighted(e)
      /\ \A x \in f.active : x \in Weighted(f) \/ (x \in e.active /\ ~Renewed(x, tr))
  BY DEF Reweighing
<1>6. ASSUME NEW x PROVE WeightIn(f, x) = Declared(c, x) + Changes(e.log, D, x)
  <2>1. CASE Renewed(x, tr)
    <3>1. Changes(e.log, D, x) = 0
      BY <1>0, <1>4, <2>1, NoChanges
    <3>2. x.name \in DOMAIN c /\ c[x.name] = tr[x.name] /\ tr[x.name] \in Nat /\ x \in Originals
      BY <1>1, <1>20, <2>1
    <3>3. Declared(c, x) = tr[x.name] /\ WeightIn(f, x) = tr[x.name]
      BY <1>5, <2>1, <3>2 DEF Declared
    <3> QED
      BY <3>1, <3>2, <3>3
  <2>2. CASE ~Renewed(x, tr)
    <3>1. Declared(c, x) = Declared(d, x)
      BY <1>1, <2>2 DEF Declared, Renewed
    <3> QED
      BY <1>0, <1>5, <2>2, <3>1 DEF Ledger
  <2> QED
    BY <2>1, <2>2
<1>7. \A i \in D : e.log[i].removed \cap Weighted(f) = {}
  <2> SUFFICES ASSUME NEW i \in D, NEW x \in e.log[i].removed PROVE x \notin Weighted(f)
    OBVIOUS
  <2>1. x \in DOMAIN e.log[i].wdelta
    BY <1>3 DEF IsEntry, Taken
  <2>2. ~Renewed(x, tr)
    BY <1>4, <2>1
  <2>3. x \notin Weighted(e)
    BY <1>0 DEF Ledger
  <2> QED
    BY <1>5, <2>2, <2>3
<1>8. Ledger(f, e.log, D, c)
  BY <1>0, <1>5, <1>6, <1>7 DEF Ledger
<1>9. Chained(e.log, D, c)
  BY <1>0, <1>1 DEF Chained
<1>10. \A x \in Weighted(f) : x \in Weighted(e) \/ x \in Originals
  BY <1>5, <1>20
<1>11. \A x \in Weighted(f) : f.wght[x] \in Nat \ {0} /\ Bearer(x)
  <2> SUFFICES ASSUME NEW x \in Weighted(f) PROVE f.wght[x] \in Nat \ {0} /\ Bearer(x)
    OBVIOUS
  <2>1. f.wght[x] = WeightIn(f, x)
    BY DEF WeightIn, Weighted
  <2>2. CASE Renewed(x, tr)
    <3>1. tr[x.name] \in Nat /\ tr[x.name] > 0 /\ f.wght[x] = tr[x.name]
      BY <1>5, <1>20, <2>1, <2>2
    <3> QED
      BY <1>20, <2>2, <3>1 DEF Bearer
  <2>3. CASE ~Renewed(x, tr)
    <3>1. x \in Weighted(e) /\ f.wght[x] = WeightIn(e, x)
      BY <1>5, <2>1, <2>3
    <3>2. WeightIn(e, x) \in Nat /\ WeightIn(e, x) > 0
      BY <1>0, <3>1, WeightType
    <3> QED
      BY <1>0, <3>1, <3>2 DEF IsEngine
  <2> QED
    BY <2>2, <2>3
<1>12. f.active \subseteq Weighted(f)
  BY <1>0, <1>5 DEF IsEngine
<1>13. IsFiniteSet(Weighted(f))
  <2> DEFINE O == {Orig(l) : l \in Lit}
  <2>1. IsFiniteSet(O)
    BY LitFinite, OriginalsFinite DEF Originals
  <2>2. IsFiniteSet(Weighted(e))
    BY <1>0 DEF IsEngine, Weighted
  <2>3. IsFiniteSet(Weighted(e) \cup O)
    BY <2>1, <2>2, FS_Union
  <2> QED
    BY <1>10, <2>3, FS_Subset DEF Originals
<1>14. IsEngine(f)
  <2>1. PositiveWeights(f.wght)
    BY <1>11 DEF PositiveWeights, Weighted
  <2>2. f.cost \in Nat
    BY <1>0, <1>5 DEF IsEngine
  <2> QED
    BY <1>5, <1>11, <1>12, <1>13, <2>1, <2>2 DEF IsEngine, Weighted
<1>15. /\ f.bnds = e.bnds /\ f.bnds_history = e.bnds_history
       /\ \A x : x \in f.original <=> x \in e.original \/ Renewed(x, tr)
  BY DEF Reweighing
<1>16. Booked(f, e.log, D)
  <2>1. \A x \in Weighted(f) : IF IsSum(x) THEN x \in f.bnds ELSE x \in f.original
    <3> TAKE x \in Weighted(f)
    <3>1. CASE Renewed(x, tr)
      BY <1>15, <3>1, OriginalFields DEF Renewed
    <3>2. CASE ~Renewed(x, tr)
      BY <1>0, <1>5, <1>15, <3>2 DEF Booked
    <3> QED
      BY <3>1, <3>2
  <2>2. \A x \in f.original : ~IsSum(x)
    BY <1>0, <1>15, OriginalFields DEF Booked, Renewed
  <2>3. \A i \in D : \A x \in Taken(e.log[i]) : IsSum(x) \/ x \in f.original
    BY <1>0, <1>15 DEF Booked
  <2>4. \A i \in D : \A x \in Taken(e.log[i]) \ Weighted(f) :
          \E j \in D : j >= i /\ x \in e.log[j].removed
    <3> TAKE i \in D
    <3> TAKE x \in Taken(e.log[i]) \ Weighted(f)
    <3>1. ~Renewed(x, tr)
      BY <1>4 DEF Taken
    <3> QED
      BY <1>0, <1>5, <3>1 DEF Booked
  <2>5. f.bnds \subseteq DOMAIN f.swgt /\ DOMAIN f.swgt \subseteq f.bnds \cup f.bnds_history
    BY <1>0, <1>5, <1>15 DEF Booked
  <2> QED
    BY <2>1, <2>2, <2>3, <2>4, <2>5 DEF Booked
<1> QED
  BY <1>0, <1>2, <1>5, <1>8, <1>9, <1>14, <1>16 DEF Sound, c, D

\* The literals of the client that l stands for.
LitsOf(s) == {Orig(l) : l \in s}

\* The consequences ToDisable leaves out rest on nothing it undoes.
LEMMA ToDisableCloses ==
  ASSUME NEW log, NEW n, LogOf(log, n), \A i \in DOMAIN log : IsEntry(log[i]),
         NEW conflicting, NEW X, X = ToDisable(log, conflicting)
  PROVE  /\ Closed(log, DOMAIN log, X)
         /\ \A i \in DOMAIN log \ X : log[i].core \cap conflicting = {}
<1> DEFINE D == DOMAIN log
<1>1. n \in Nat /\ D = 1 .. n
  BY DEF LogOf
<1>2. X \subseteq D /\ Marking(log, conflicting, X) = X
  BY <1>1, DisabledIsClosed
<1>3. \A i \in D \ X : log[i].core \cap Marked(log, conflicting, X) = {}
  BY <1>2 DEF Marking
<1>4. /\ conflicting \subseteq Marked(log, conflicting, X)
      /\ \A j \in X : /\ log[j].added \subseteq Marked(log, conflicting, X)
                      /\ Taken(log[j]) \subseteq Marked(log, conflicting, X)
  BY DEF Marked
<1> HIDE DEF D
<1>5. Closed(log, D, X)
  <2> SUFFICES ASSUME NEW i \in D \ X, NEW j \in X
               PROVE  /\ log[i].core \cap log[j].added = {}
                      /\ log[i].core \cap Taken(log[j]) = {}
    BY <1>2 DEF Closed
  <2> QED
    BY <1>3, <1>4
<1>6. \A i \in D \ X : log[i].core \cap conflicting = {}
  BY <1>3, <1>4
<1> QED
  BY <1>5, <1>6 DEF D

\* The engine a call starts its search with is sound for the assumptions and the
\* weights of that call, whatever the earlier calls left.
LEMMA RollbackSound ==
  ASSUME NEW H, Sound(engine, H, LitsOf(last_assumptions), declared),
         DOMAIN declared \subseteq Lit, DOMAIN transition \subseteq DOMAIN declared,
         \A l \in DOMAIN transition : transition[l] \in Nat,
         NEW X, X = ToDisable(engine.log, Conflicting),
         NEW f, f = Reweighted(Disable(engine, X))
  PROVE  Sound(f, H, Assumed, Over(transition, declared))
<1> DEFINE log == engine.log
           A == LitsOf(last_assumptions)
           g == Disable(engine, X)
<1>1. LogOf(log, Len(log)) /\ \A i \in DOMAIN log : IsEntry(log[i])
  BY SoundLog DEF Sound, Chained
<1> HIDE DEF log
<1>2. /\ Closed(log, DOMAIN log, X)
      /\ \A i \in DOMAIN log \ X : log[i].core \cap Conflicting = {}
  BY <1>1, ToDisableCloses DEF log
<1>3. \A i \in DOMAIN log \ X : log[i].core \cap A \subseteq Assumed
  BY <1>2 DEF Conflicting, LitsOf
<1>4. \A i \in DOMAIN log \ X, l \in DOMAIN transition : Orig(l) \notin log[i].core
  BY <1>2 DEF Conflicting
<1> HIDE DEF g
<1>5. Sound(g, H, Assumed, declared) /\ g.log = Sublog(log, DOMAIN log \ X)
  <2>1. PICK h : h = log
    OBVIOUS
  <2>2. /\ Closed(h, DOMAIN h, X) /\ h = engine.log
        /\ \A i \in DOMAIN h \ X : h[i].core \cap A \subseteq Assumed
    BY <1>2, <1>3, <2>1 DEF log
  <2>3. SoundWith(g, H, Assumed, declared, Sublog(h, DOMAIN h \ X))
    BY <2>2, DisableSound DEF g
  <2> QED
    BY <2>1, <2>3 DEF SoundWith
<1>6. \A i \in DOMAIN g.log, l \in DOMAIN transition : Orig(l) \notin Taken(g.log[i])
  <2> DEFINE R == DOMAIN log \ X
             s == Sublog(log, R)
  <2>1. Len(log) \in Nat /\ R \in SUBSET (1 .. Len(log))
    BY <1>1 DEF LogOf
  <2> HIDE DEF R
  <2>2. PICK b : Renumbers(b, s, DOMAIN s, log, R)
    BY <2>1, SublogRenumbers
  <2>3. \A i \in DOMAIN s : b[i] \in R /\ s[i] = log[b[i]]
    BY <2>2 DEF Renumbers
  <2>4. \A i \in R : Taken(log[i]) \subseteq log[i].core
    BY <1>1 DEF IsEntry, R
  <2>5. \A i \in DOMAIN s, l \in DOMAIN transition : Orig(l) \notin Taken(s[i])
    BY <1>4, <2>3, <2>4 DEF R
  <2> QED
    BY <1>5, <2>5 DEF R
<1>7. EngineRecord(g) /\ ~g.thrown
  BY <1>5 DEF Sound, IsEngine
<1>8. Reweighing(g, f, transition) /\ ~f.thrown
  <2>1. DOMAIN transition \subseteq Lit
    OBVIOUS
  <2>2. Reweighing(g, f, transition) /\ (~g.thrown => ~f.thrown)
    BY <1>7, <2>1, ReweightedFields DEF g
  <2> QED
    BY <1>7, <2>2, Zenon
<1> QED
  BY <1>5, <1>6, <1>8, ReweightSound

(***************************************************************************)
(* Other changes of the engine, of what the hard clauses allow and of what *)
(* is assumed.                                                             *)
(***************************************************************************)
\* A sound engine stays sound when hard clauses are added.
LEMMA SoundWithLess ==
  ASSUME NEW e, NEW H, NEW A, NEW d, Sound(e, H, A, d), NEW J, J \subseteq H
  PROVE  Sound(e, J, A, d)
<1>1. Implied(e.log, DOMAIN e.log, J, A)
  BY DEF Sound, Implied
<1> QED
  BY <1>1 DEF Sound

\* The active literals are of no account for what the charges rest on.
LEMMA ActiveSound ==
  ASSUME NEW e, NEW H, NEW A, NEW d, Sound(e, H, A, d), NEW a, a \subseteq Weighted(e),
         NEW f, f = [e EXCEPT !.active = a]
  PROVE  Sound(f, H, A, d) /\ f.wght = e.wght /\ f.active = a /\ f.impossible = e.impossible
<1>1. IsEngine(e) /\ EngineRecord(e)
  BY DEF Sound, IsEngine
<1>2. DOMAIN e = {"cost", "wght", "active", "impossible", "swgt", "bnds", "bnds_history",
                  "original", "log", "thrown"}
  BY <1>1 DEF EngineRecord
<1>3. f = [cost |-> e.cost, wght |-> e.wght, active |-> a, impossible |-> e.impossible,
           swgt |-> e.swgt, bnds |-> e.bnds, bnds_history |-> e.bnds_history,
           original |-> e.original, log |-> e.log, thrown |-> e.thrown]
  BY <1>2
<1>4. /\ EngineRecord(f) /\ f.cost = e.cost /\ f.wght = e.wght /\ f.active = a
      /\ f.impossible = e.impossible /\ f.swgt = e.swgt /\ f.log = e.log
      /\ f.bnds = e.bnds /\ f.bnds_history = e.bnds_history /\ f.original = e.original
  BY <1>3 DEF EngineRecord
<1>5. ~f.thrown
  <2>1. f.thrown = e.thrown
    BY <1>3
  <2> QED
    BY <1>1, <2>1, Zenon DEF IsEngine
<1>6. IsEngine(f)
  BY <1>1, <1>4, <1>5 DEF IsEngine, Weighted
<1>7. Ledger(f, e.log, DOMAIN e.log, d)
  BY <1>4 DEF Sound, Ledger, WeightIn, Weighted
<1>8. Booked(f, e.log, DOMAIN e.log)
  BY <1>4 DEF Sound, Booked, Weighted
<1> QED
  BY <1>4, <1>6, <1>7, <1>8 DEF Sound

\* The fields of an engine of which the weights, the active literals and the known
\* selectors change.
SameBut(e, f, wt, ac, og) ==
  /\ EngineRecord(f) /\ f.cost = e.cost /\ f.wght = wt /\ f.active = ac
  /\ f.impossible = e.impossible /\ f.swgt = e.swgt /\ f.log = e.log
  /\ f.bnds = e.bnds /\ f.bnds_history = e.bnds_history /\ f.original = og
  /\ ~e.thrown => ~f.thrown

\* An engine with three fields replaced.
LEMMA WeightsAndActive ==
  ASSUME NEW e, EngineRecord(e), NEW wt, NEW ac, NEW og, NEW f,
         f = [e EXCEPT !.wght = wt, !.active = ac, !.original = og]
  PROVE  SameBut(e, f, wt, ac, og)
<1>1. DOMAIN e = {"cost", "wght", "active", "impossible", "swgt", "bnds", "bnds_history",
                  "original", "log", "thrown"}
  BY DEF EngineRecord
<1>2. f = [cost |-> e.cost, wght |-> wt, active |-> ac, impossible |-> e.impossible,
           swgt |-> e.swgt, bnds |-> e.bnds, bnds_history |-> e.bnds_history,
           original |-> og, log |-> e.log, thrown |-> e.thrown]
  BY <1>1
<1>3. /\ EngineRecord(f) /\ f.cost = e.cost /\ f.wght = wt /\ f.active = ac
      /\ f.impossible = e.impossible /\ f.swgt = e.swgt /\ f.log = e.log
      /\ f.bnds = e.bnds /\ f.bnds_history = e.bnds_history /\ f.original = og
  BY <1>2 DEF EngineRecord
<1>4. f.thrown = e.thrown
  BY <1>2
<1> QED
  BY <1>3, <1>4, Zenon DEF SameBut

\* A literal declared for the first time was in no core.
LEMMA DeclareSound ==
  ASSUME NEW e, NEW H, NEW A, NEW d, Sound(e, H, A, d), NEW l \in Lit, l \notin DOMAIN d,
         NEW w \in Nat, w > 0,
         NEW f, f = [e EXCEPT !.wght = Over(Maps(Orig(l), w), @),
                              !.active = @ \cup {Orig(l)},
                              !.original = @ \cup {Orig(l)}]
  PROVE  Sound(f, H, A, Over(Maps(l, w), d))
<1> DEFINE o == Orig(l)
           c == Over(Maps(l, w), d)
           D == DOMAIN e.log
           wt == Over(Maps(o, w), e.wght)
           ac == e.active \cup {o}
           og == e.original \cup {o}
<1>0. /\ IsEngine(e) /\ Ledger(e, e.log, D, d) /\ Chained(e.log, D, d) /\ Implied(e.log, D, H, A)
      /\ Booked(e, e.log, D)
      /\ \A k \in DOMAIN d : d[k] \in Nat
      /\ IsFiniteSet(D) /\ \E S : e.log \in Seq(S)
  BY SoundLog DEF Sound, LogOf
<1>1. o \in Originals /\ o.name = l
  BY OrigFields DEF Originals
<1>2. /\ DOMAIN c = DOMAIN d \cup {l} /\ c[l] = w
      /\ \A k \in DOMAIN d : c[k] = d[k]
  BY DEF Over, Maps
<1>3. /\ DOMAIN wt = Weighted(e) \cup {o} /\ wt[o] = w
      /\ \A x \in Weighted(e) : x # o => wt[x] = e.wght[x]
  BY DEF Over, Maps, Weighted
<1>4. f = [e EXCEPT !.wght = wt, !.active = ac, !.original = og]
  OBVIOUS
<1> HIDE DEF c, D, wt, o, ac, og
<1>7. /\ EngineRecord(f) /\ f.cost = e.cost /\ f.wght = wt /\ f.active = ac
      /\ f.impossible = e.impossible /\ f.swgt = e.swgt /\ f.log = e.log
      /\ f.bnds = e.bnds /\ f.bnds_history = e.bnds_history /\ f.original = og
      /\ ~f.thrown
  <2>1. SameBut(e, f, wt, ac, og)
    BY <1>0, <1>4, WeightsAndActive DEF IsEngine
  <2> QED
    BY <1>0, <2>1, Zenon DEF SameBut, IsEngine
<1>8. ~f.thrown
  BY <1>7
<1>9. \A i \in D : IsEntry(e.log[i]) /\ o \notin DOMAIN e.log[i].wdelta
  <2> TAKE i \in D
  <2>1. IsEntry(e.log[i])
    BY <1>0 DEF Chained
  <2>2. o \notin Taken(e.log[i])
    BY <1>0 DEF Chained, o
  <2>3. o \notin Given(e.log[i])
    BY <1>1, <2>1 DEF IsEntry
  <2> QED
    BY <2>1, <2>2, <2>3 DEF Given
<1>10. Changes(e.log, D, o) = 0
  BY <1>0, <1>9, NoChanges
<1>11. \A x \in Originals : x.name = l => x = o
  BY OriginalFields DEF o
<1>12. ASSUME NEW x PROVE WeightIn(f, x) = Declared(c, x) + Changes(e.log, D, x)
  <2>1. CASE x = o
    <3>1. WeightIn(f, o) = w
      BY <1>3, <1>7 DEF WeightIn
    <3>2. Declared(c, o) = w
      BY <1>1, <1>2 DEF Declared
    <3> QED
      BY <1>10, <2>1, <3>1, <3>2
  <2>2. CASE x # o
    <3>1. WeightIn(f, x) = WeightIn(e, x)
      BY <1>3, <1>7, <2>2 DEF WeightIn, Weighted
    <3>2. Declared(c, x) = Declared(d, x)
      BY <1>2, <1>11, <2>2 DEF Declared
    <3> QED
      BY <1>0, <3>1, <3>2 DEF Ledger
  <2> QED
    BY <2>1, <2>2
<1>13. Weighted(f) = Weighted(e) \cup {o}
  BY <1>3, <1>7 DEF Weighted
<1>14. Ledger(f, e.log, D, c)
  <2>1. \A i \in D : e.log[i].removed \cap Weighted(f) = {}
    <3>1. \A i \in D : o \notin e.log[i].removed
      BY <1>9 DEF IsEntry, Taken
    <3> QED
      BY <1>0, <1>13, <3>1 DEF Ledger
  <2> QED
    BY <1>0, <1>7, <1>12, <2>1 DEF Ledger
<1>15. Chained(e.log, D, c)
  BY <1>0, <1>2 DEF Chained
<1>16. IsEngine(f)
  <2>1. PositiveWeights(f.wght)
    BY <1>0, <1>3, <1>7 DEF PositiveWeights, IsEngine, Weighted
  <2>2. IsFiniteSet(DOMAIN f.wght)
    <3>1. IsFiniteSet(Weighted(e))
      BY <1>0 DEF IsEngine, Weighted
    <3>2. IsFiniteSet(Weighted(f))
      BY <1>13, <3>1, FS_AddElement
    <3> QED
      BY <3>2 DEF Weighted
  <2>3. \A x \in Weighted(f) : Bearer(x)
    BY <1>0, <1>1, <1>13 DEF IsEngine, Bearer
  <2>4. f.active \subseteq Weighted(f) /\ f.cost \in Nat
    BY <1>0, <1>7, <1>13 DEF IsEngine, ac
  <2> QED
    BY <1>7, <1>8, <2>1, <2>2, <2>3, <2>4 DEF IsEngine
<1>17. \A k \in DOMAIN c : c[k] \in Nat
  BY <1>0, <1>2
<1>18. Booked(f, e.log, D)
  <2>1. ~IsSum(o) /\ o \in f.original /\ e.original \subseteq f.original
    BY <1>1, <1>7, OriginalFields DEF og
  <2>2. \A x \in Weighted(f) : IF IsSum(x) THEN x \in f.bnds ELSE x \in f.original
    BY <1>0, <1>7, <1>13, <2>1 DEF Booked
  <2>3. \A x \in f.original : ~IsSum(x)
    BY <1>0, <1>7, <2>1 DEF Booked, og
  <2>4. f.bnds \subseteq DOMAIN f.swgt /\ DOMAIN f.swgt \subseteq f.bnds \cup f.bnds_history
    BY <1>0, <1>7 DEF Booked
  <2>5. \A i \in D : \A x \in Taken(e.log[i]) : IsSum(x) \/ x \in f.original
    BY <1>0, <2>1 DEF Booked
  <2>6. \A i \in D : \A x \in Taken(e.log[i]) \ Weighted(f) :
          \E j \in D : j >= i /\ x \in e.log[j].removed
    BY <1>0, <1>13 DEF Booked
  <2> QED
    BY <2>2, <2>3, <2>4, <2>5, <2>6 DEF Booked
<1> QED
  BY <1>0, <1>7, <1>14, <1>15, <1>16, <1>17, <1>18 DEF Sound, D, c

(***************************************************************************)
(* What the operations leave waiting below the current level.              *)
(***************************************************************************)
Below(e, level) == \A x \in Weighted(e) \ e.active : e.wght[x] < level

\* What waits after an operation waited before with the same weight, weighs less
\* than before, or is listed by the operation itself.
Relists(e, f, level, entries) ==
  \A x \in Weighted(f) \ f.active :
     /\ f.wght[x] < level
     /\ \/ x \in Weighted(e) \ e.active /\ f.wght[x] = e.wght[x]
        \/ x \in Weighted(e) /\ f.wght[x] < e.wght[x]
        \/ <<f.wght[x], x>> \in entries

\* Of the literals a charge reduces, those that weigh less than the level wait.
LEMMA ReducedRelists ==
  ASSUME NEW e, IsEngine(e), NEW lits \in SUBSET Weighted(e), lits # {},
         NEW w, w = LeastWeight(e, lits), NEW level \in Nat, Below(e, level),
         NEW f, NEW K, NEW entries,
         \A x \in Weighted(f) \ f.active : x \notin K =>
            /\ x \in Weighted(e) \ Dead(e, lits, w) /\ f.wght[x] = LeftOf(e, lits, w, x)
            /\ x \notin e.active \/ x \in Lowered(e, lits, w, level),
         \A x \in K : x \in f.active \/ (<<f.wght[x], x>> \in entries /\ f.wght[x] < level)
  PROVE  Relists(e, f, level, entries)
<1>1. w \in Nat \ {0} /\ \A l \in lits : e.wght[l] \in Nat /\ w <= e.wght[l]
  BY LeastOf
<1> SUFFICES ASSUME NEW x \in Weighted(f) \ f.active, x \notin K
             PROVE  /\ f.wght[x] < level
                    /\ \/ x \in Weighted(e) \ e.active /\ f.wght[x] = e.wght[x]
                       \/ x \in Weighted(e) /\ f.wght[x] < e.wght[x]
  BY DEF Relists
<1>2. /\ x \in Weighted(e) \ Dead(e, lits, w) /\ f.wght[x] = LeftOf(e, lits, w, x)
      /\ x \notin e.active \/ x \in Lowered(e, lits, w, level)
  OBVIOUS
<1>3. x \notin e.active => e.wght[x] < level
  BY <1>2 DEF Below
<1>4. CASE x \in lits
  <2>1. f.wght[x] = e.wght[x] - w /\ e.wght[x] \in Nat
    BY <1>1, <1>2, <1>4 DEF LeftOf
  <2>2. x \in Lowered(e, lits, w, level) => e.wght[x] - w < level
    BY DEF Lowered
  <2> QED
    BY <1>1, <1>2, <1>3, <2>1, <2>2
<1>5. CASE x \notin lits
  <2>1. f.wght[x] = e.wght[x] /\ x \notin e.active
    BY <1>2, <1>5 DEF LeftOf, Lowered
  <2> QED
    BY <1>2, <1>3, <2>1
<1> QED
  BY <1>4, <1>5

\* Charging a single literal leaves every waiting literal below the level.
LEMMA UnitRelists ==
  ASSUME NEW e, EngineRecord(e), NEW core, NEW l, NEW level, Below(e, level),
         NEW f, f = ChargeUnit(e, core, l)
  PROVE  Relists(e, f, level, {})
<1>1. UnitEffect(e, f, l)
  BY UnitFields
<1> QED
  BY <1>1 DEF UnitEffect, Relists, Below, Weighted, Drop, Restrict

\* Charging several literals leaves every waiting literal below the level.
LEMMA ManyRelists ==
  ASSUME NEW e, NEW H, NEW A, NEW d, Sound(e, H, A, d), NEW core,
         NEW lits \in SUBSET Weighted(e), lits # {}, NEW level \in Nat, Below(e, level),
         NEW f, f = ChargeMany(e, core, lits, level)
  PROVE  Relists(e, f, level, {})
<1>1. PICK w : w = LeastWeight(e, lits)
  OBVIOUS
<1>2. /\ IsEngine(e) /\ EngineRecord(e) /\ LiveRoots(e, lits) = {}
      /\ Fresh(e, lits) \cap e.bnds = {}
  BY <1>1, FreshFacts DEF Sound, IsEngine
<1>3. /\ f.wght = Over(FreshWeights(e, lits), Reduced(e, lits, w))
      /\ f.active = (e.active \ (Dead(e, lits, w) \cup Lowered(e, lits, w, level))) \cup Fresh(e, lits)
  BY <1>1, <1>2, ManyFields
<1> DEFINE K == Fresh(e, lits)
           F == FreshWeights(e, lits)
           P == Reduced(e, lits, w)
<1>4. /\ DOMAIN F = K
      /\ DOMAIN P = Weighted(e) \ Dead(e, lits, w)
      /\ \A l \in Weighted(e) \ Dead(e, lits, w) : P[l] = LeftOf(e, lits, w, l)
  BY ReducedWeights DEF FreshWeights
<1> HIDE DEF K, F, P
<1>5. \A x \in Weighted(f) \ f.active : x \notin K =>
         /\ x \in Weighted(e) \ Dead(e, lits, w) /\ f.wght[x] = LeftOf(e, lits, w, x)
         /\ x \notin e.active \/ x \in Lowered(e, lits, w, level)
  <2> SUFFICES ASSUME NEW x \in Weighted(f) \ f.active, x \notin K
               PROVE  /\ x \in Weighted(e) \ Dead(e, lits, w)
                      /\ f.wght[x] = LeftOf(e, lits, w, x)
                      /\ x \notin e.active \/ x \in Lowered(e, lits, w, level)
    OBVIOUS
  <2>1. f.wght = Over(F, P)
    BY <1>3 DEF F, P
  <2>2. x \in DOMAIN F \cup DOMAIN P /\ f.wght[x] = IF x \in DOMAIN F THEN F[x] ELSE P[x]
    BY <2>1 DEF Over, Weighted
  <2>3. x \in Weighted(e) \ Dead(e, lits, w) /\ f.wght[x] = LeftOf(e, lits, w, x)
    BY <1>4, <2>2
  <2>4. x \notin e.active \/ x \in Lowered(e, lits, w, level)
    BY <1>3, <2>3 DEF K
  <2> QED
    BY <2>3, <2>4
<1>6. \A x \in K : x \in f.active
  BY <1>3 DEF K
<1> QED
  BY <1>1, <1>2, <1>5, <1>6, ReducedRelists

\* So does charging a core, whichever of the two it does.
LEMMA ProcessCoreRelists ==
  ASSUME NEW e, NEW H, NEW A, NEW d, Sound(e, H, A, d), NEW core, NEW base,
         core \ base \subseteq e.active, core \ base # {},
         NEW level \in Nat, Below(e, level), NEW f, f = ProcessCore(e, core, base, level)
  PROVE  Relists(e, f, level, {})
<1> DEFINE lits == core \ base
<1>3. lits \subseteq Weighted(e) /\ Chargeable(e, lits)
  <2>1. lits \subseteq e.active /\ e.active \subseteq Weighted(e)
    BY DEF Sound, IsEngine
  <2> QED
    BY <2>1, ChargeableIf
<1>1. CASE \E l \in lits : lits = {l} /\ ~IsSum(l)
  <2>1. PICK l : f = ChargeUnit(e, core, l)
    BY <1>1, <1>3 DEF ProcessCore
  <2>2. EngineRecord(e)
    BY DEF Sound, IsEngine
  <2> QED
    BY <2>1, <2>2, UnitRelists
<1>2. CASE ~ \E l \in lits : lits = {l} /\ ~IsSum(l)
  <2>1. f = ChargeMany(e, core, lits, level)
    BY <1>2, <1>3 DEF ProcessCore
  <2>2. lits \in SUBSET Weighted(e) /\ lits # {}
    BY <1>3
  <2> HIDE DEF lits
  <2> QED
    BY <2>1, <2>2, ManyRelists
<1> QED
  BY <1>1, <1>2

\* A round over a clique leaves at most its selector to be listed.
LEMMA CliqueRelists ==
  ASSUME NEW e, IsEngine(e), NEW q \in SUBSET Weighted(e), q # {},
         NEW level \in Nat, Below(e, level), NEW f, f = ProcessClique(e, q, level)
  PROVE  Relists(e, f, level, {<<LeastWeight(e, q), AnyOf(q)>>})
<1>1. PICK w : w = LeastWeight(e, q)
  OBVIOUS
<1>2. CliqueEffect(e, f, q, level, w)
  BY <1>1, CliqueFields DEF IsEngine
<1> DEFINE s == AnyOf(q)
           P == Reduced(e, q, w)
<1>3. /\ DOMAIN P = Weighted(e) \ Dead(e, q, w)
      /\ \A l \in Weighted(e) \ Dead(e, q, w) : P[l] = LeftOf(e, q, w, l)
  BY ReducedWeights
<1> HIDE DEF s, P
<1>4. /\ f.wght = Over(Maps(s, w), P)
      /\ f.active = (e.active \ (Dead(e, q, w) \cup Lowered(e, q, w, level)))
                      \cup (IF w >= level THEN {s} ELSE {})
  BY <1>2 DEF CliqueEffect, s, P
<1>5. /\ f.wght[s] = w
      /\ \A x \in Weighted(f) : x # s => x \in DOMAIN P /\ f.wght[x] = P[x]
  BY <1>4 DEF Over, Maps, Weighted
<1>6. \A x \in Weighted(f) \ f.active : x \notin {s} =>
         /\ x \in Weighted(e) \ Dead(e, q, w) /\ f.wght[x] = LeftOf(e, q, w, x)
         /\ x \notin e.active \/ x \in Lowered(e, q, w, level)
  BY <1>3, <1>4, <1>5
<1>7. w \in Nat
  BY <1>1, LeastOf
<1>8. s \in f.active \/ (<<f.wght[s], s>> \in {<<w, s>>} /\ f.wght[s] < level)
  BY <1>4, <1>5, <1>7
<1>9. PICK K, E : K = {s} /\ E = {<<w, s>>}
  OBVIOUS
<1>10. \A x \in K : x \in f.active \/ (<<f.wght[x], x>> \in E /\ f.wght[x] < level)
  BY <1>8, <1>9
<1>11. \A x \in Weighted(f) \ f.active : x \notin K =>
         /\ x \in Weighted(e) \ Dead(e, q, w) /\ f.wght[x] = LeftOf(e, q, w, x)
         /\ x \notin e.active \/ x \in Lowered(e, q, w, level)
  BY <1>6, <1>9
<1>12. Relists(e, f, level, E)
  BY <1>1, <1>10, <1>11, ReducedRelists
<1> QED
  BY <1>1, <1>9, <1>12 DEF s

\* Cancelling a contradiction leaves every waiting literal below the level.
LEMMA CancelRelists ==
  ASSUME NEW e, IsEngine(e), NEW core, NEW lits \in SUBSET Weighted(e), lits # {},
         NEW level \in Nat, Below(e, level), NEW f, f = Cancel(e, core, lits)
  PROVE  Relists(e, f, level, {})
<1>1. PICK w : w = LeastWeight(e, lits)
  OBVIOUS
<1>2. f.wght = Reduced(e, lits, w) /\ f.active = e.active \ Dead(e, lits, w)
  BY <1>1, CancelFields DEF IsEngine
<1>3. \A x \in Weighted(f) \ f.active : x \notin {} =>
         /\ x \in Weighted(e) \ Dead(e, lits, w) /\ f.wght[x] = LeftOf(e, lits, w, x)
         /\ x \notin e.active \/ x \in Lowered(e, lits, w, level)
  <2> SUFFICES ASSUME NEW x \in Weighted(f) \ f.active
               PROVE  /\ x \in Weighted(e) \ Dead(e, lits, w)
                      /\ f.wght[x] = LeftOf(e, lits, w, x)
                      /\ x \notin e.active
    OBVIOUS
  <2>1. Weighted(f) = Weighted(e) \ Dead(e, lits, w)
    BY <1>2, ReducedWeights DEF Weighted
  <2>2. x \in Weighted(e) \ Dead(e, lits, w)
    BY <2>1
  <2>3. Reduced(e, lits, w)[x] = LeftOf(e, lits, w, x)
    BY <2>2, ReducedWeights
  <2> QED
    BY <1>2, <2>2, <2>3
<1>4. PICK K : K = {}
  OBVIOUS
<1>5. /\ \A x \in Weighted(f) \ f.active : x \notin K =>
            /\ x \in Weighted(e) \ Dead(e, lits, w) /\ f.wght[x] = LeftOf(e, lits, w, x)
            /\ x \notin e.active \/ x \in Lowered(e, lits, w, level)
      /\ \A x \in K : x \in f.active \/ (<<f.wght[x], x>> \in {} /\ f.wght[x] < level)
  BY <1>3, <1>4
<1> QED
  BY <1>1, <1>5, ReducedRelists

\* So does every contradiction that CancelContradiction may pick.
LEMMA CancelledRelists ==
  ASSUME NEW e, IsEngine(e), NEW base, NEW l \in Cancellable(e, base),
         NEW level \in Nat, Below(e, level), NEW f, f = Cancelled(e, base, l)
  PROVE  Relists(e, f, level, {})
<1>1. e.active \subseteq Weighted(e)
  BY DEF IsEngine
<1>2. l \in ClashingPairs(e, base) \/ (Neg(l) \in base /\ l \in e.active)
  BY DEF Cancellable, ClashingWithBase
<1>3. CASE Neg(l) \in base
  <2>1. f = Cancel(e, {l, Neg(l)}, {l}) /\ {l} \in SUBSET Weighted(e) /\ {l} # {}
    BY <1>1, <1>2, <1>3 DEF Cancelled, ClashingPairs
  <2> QED
    BY <2>1, CancelRelists
<1>4. CASE Neg(l) \notin base
  <2>1. l \in e.active /\ Neg(l) \in e.active
    BY <1>2, <1>4 DEF ClashingPairs
  <2>2. f = Cancel(e, {l, Neg(l)}, {l, Neg(l)})
    BY <1>4 DEF Cancelled
  <2>3. {l, Neg(l)} \in SUBSET Weighted(e) /\ {l, Neg(l)} # {}
    BY <1>1, <2>1
  <2> QED
    BY <2>2, <2>3, CancelRelists
<1> QED
  BY <1>3, <1>4

\* A charge does not lower the cost.
LEMMA ChargeAdds ==
  ASSUME NEW e, NEW f, NEW H, NEW A, NEW d, Sound(e, H, A, d), Sound(f, H, A, d),
         NEW c, AfterCharge(e, f, c)
  PROVE  e.cost <= f.cost
<1>1. PICK S : e.log \in Seq(S)
  BY DEF Sound
<1>2. PICK n : n = Len(e.log) + 1
  OBVIOUS
<1>3. n \in DOMAIN f.log /\ f.log[n] = c
  <2>1. PICK L, M : L = e.log /\ M = f.log
    OBVIOUS
  <2>2. L \in Seq(S) /\ M = Append(L, c)
    BY <1>1, <2>1 DEF AfterCharge
  <2> QED
    BY <1>2, <2>1, <2>2, AppendFacts
<1>4. c.weight \in Nat
  BY <1>3 DEF Sound, Chained, IsEntry
<1>5. e.cost \in Nat /\ f.cost = e.cost + c.weight
  BY DEF Sound, IsEngine, AfterCharge
<1> QED
  BY <1>4, <1>5

\* The engine e without the literals T, which have been charged as units.
WithoutUnits(e, f, T) ==
  /\ e.cost <= f.cost
  /\ Weighted(f) = Weighted(e) \ T
  /\ \A x \in Weighted(f) : f.wght[x] = e.wght[x]
  /\ f.active = e.active \ T
  /\ e.impossible \subseteq f.impossible

UnitsTaken(e, f, H, A, d, T) == Sound(f, H, A, d) /\ WithoutUnits(e, f, T)

\* Charging one more unit.
LEMMA OneMoreUnit ==
  ASSUME NEW e, e.cost \in Nat, NEW H, NEW A, NEW d, H \subseteq Assignment, NEW base, base = A \cup e.impossible,
         NEW T, NEW x, x \in T, x \in e.active, x \notin base, ~IsSum(x),
         NEW core, core = base \cup {x}, H \cap ModelsOf(core) = {},
         NEW U, U = T \ {x},
         NEW g, Sound(g, H, A, d), WithoutUnits(e, g, U),
         NEW level, NEW f, f = ProcessCore(g, core, base, level)
  PROVE  UnitsTaken(e, f, H, A, d, T)
<1>1. core \ base = {x} /\ x \in g.active /\ base \cap core \subseteq A \cup g.impossible
  BY DEF WithoutUnits
<1>2. Sound(f, H, A, d)
  <2>1. core \ base \subseteq g.active /\ core \ base # {}
    BY <1>1
  <2> QED
    BY <1>1, <2>1, ProcessCoreSound
<1>3. f = ChargeUnit(g, core, x)
  <2>1. \E l \in core \ base : core \ base = {l} /\ ~IsSum(l)
    BY <1>1
  <2>2. (CHOOSE l \in core \ base : TRUE) = x
    BY <1>1
  <2>3. Chargeable(g, core \ base)
    <3>1. core \ base \in SUBSET Weighted(g) /\ core \ base \subseteq g.active
      BY <1>1 DEF Sound, IsEngine
    <3> QED
      BY <3>1, ChargeableIf
  <2> QED
    BY <2>1, <2>2, <2>3 DEF ProcessCore
<1>4. EngineRecord(g)
  BY DEF Sound, IsEngine
<1>5. UnitEffect(g, f, x)
  BY <1>3, <1>4, UnitFields
<1>6. /\ Weighted(f) = Weighted(g) \ {x}
      /\ \A y \in Weighted(f) : f.wght[y] = g.wght[y]
      /\ f.active = g.active \ {x}
      /\ g.impossible \subseteq f.impossible
  BY <1>5 DEF UnitEffect, Drop, Restrict, Weighted
<1>7. e.cost <= f.cost
  <2>1. PICK c : AfterCharge(g, f, c)
    BY <1>3, <1>4, UnitFields
  <2>2. g.cost <= f.cost
    BY <1>2, <2>1, ChargeAdds
  <2>3. g.cost \in Nat /\ f.cost \in Nat /\ e.cost <= g.cost
    BY <1>2 DEF Sound, IsEngine, WithoutUnits
  <2> QED
    BY <2>2, <2>3
<1>8. WithoutUnits(e, f, T)
  <2>1. /\ Weighted(g) = Weighted(e) \ U
        /\ \A y \in Weighted(g) : g.wght[y] = e.wght[y]
        /\ g.active = e.active \ U
        /\ e.impossible \subseteq g.impossible
    BY DEF WithoutUnits
  <2>2. Weighted(f) = Weighted(e) \ T /\ f.active = e.active \ T
    <3>1. \A s : (s \ U) \ {x} = s \ T
      OBVIOUS
    <3>2. Weighted(f) = (Weighted(e) \ U) \ {x} /\ f.active = (e.active \ U) \ {x}
      BY <1>6, <2>1
    <3> QED
      BY <3>1, <3>2
  <2>3. \A y \in Weighted(f) : f.wght[y] = e.wght[y]
    BY <1>6, <2>1
  <2>4. e.impossible \subseteq f.impossible
    BY <1>6, <2>1
  <2> QED
    BY <1>7, <2>2, <2>3, <2>4 DEF WithoutUnits
<1> QED
  BY <1>2, <1>8 DEF UnitsTaken

\* Charging a set of units keeps the engine sound, and takes them from the strata.
LEMMA UnitsSound ==
  ASSUME NEW e, NEW H, NEW A, NEW d, Sound(e, H, A, d), H \subseteq Assignment,
         NEW base, base = A \cup e.impossible,
         NEW S, S \subseteq e.active \ base,
         \A x \in S : ~IsSum(x) /\ H \cap ModelsOf(base \cup {x}) = {},
         NEW level, NEW f, f = UnitsCharged(e, base, level, S)
  PROVE  UnitsTaken(e, f, H, A, d, S)
<1>1. e.active \subseteq Weighted(e) /\ IsFiniteSet(Weighted(e)) /\ e.cost \in Nat
  BY DEF Sound, IsEngine, Weighted
<1>2. IsFiniteSet(S) /\ S \subseteq Weighted(e)
  BY <1>1, FS_Subset
<1>3. PICK r : UnitCharges(e, base, level, S, r)
  BY <1>2, UnitFold
<1>4. /\ r[{}] = e /\ f = r[S]
      /\ \A T \in SUBSET S : T # {} =>
           \E x \in T : r[T] = ProcessCore(r[T \ {x}], base \cup {x}, base, level)
  BY <1>3 DEF UnitCharges
<1> DEFINE G == {T \in SUBSET S : Sound(r[T], H, A, d) /\ WithoutUnits(e, r[T], T)}
<1>5. ASSUME NEW T \in SUBSET S, \A x \in T : T \ {x} \in G PROVE T \in G
  <2>1. CASE T = {}
    <3>1. WithoutUnits(e, e, {})
      BY <1>1 DEF WithoutUnits
    <3> QED
      BY <1>4, <2>1, <3>1
  <2>2. CASE T # {}
    <3>1. PICK x \in T : r[T] = ProcessCore(r[T \ {x}], base \cup {x}, base, level)
      BY <1>4, <2>2
    <3>2. PICK U, core, g, h : /\ U = T \ {x} /\ core = base \cup {x}
                               /\ g = r[U] /\ h = r[T]
      OBVIOUS
    <3>3. Sound(g, H, A, d) /\ WithoutUnits(e, g, U)
      BY <1>5, <3>2
    <3>4. x \in e.active /\ x \notin base /\ ~IsSum(x) /\ H \cap ModelsOf(core) = {}
      BY <1>2, <3>2
    <3>5. h = ProcessCore(g, core, base, level)
      BY <3>1, <3>2
    <3>6. UnitsTaken(e, h, H, A, d, T)
      BY <1>1, <3>2, <3>3, <3>4, <3>5, OneMoreUnit
    <3> QED
      BY <3>2, <3>6 DEF UnitsTaken
  <2> QED
    BY <2>1, <2>2
<1> HIDE DEF G
<1>6. S \in G
  BY <1>2, <1>5, SetInduction
<1> QED
  BY <1>4, <1>6 DEF G, UnitsTaken

\* Charging the unit cores one by one leaves every waiting literal below the level.
LEMMA UnitsRelist ==
  ASSUME NEW e, NEW f, NEW S, WithoutUnits(e, f, S), NEW level, Below(e, level)
  PROVE  Relists(e, f, level, {})
  BY DEF WithoutUnits, Relists, Below

(***************************************************************************)
(* The strata.                                                             *)
(***************************************************************************)
LevelsOf(s) == {entry[1] : entry \in s.lists}

RankOf(s, w) == Cardinality({k \in LevelsOf(s) : k > w})

TakenUp(s) == {k \in LevelsOf(s) : k >= s.level}

IsStrata(s) ==
  /\ s = [lists |-> s.lists, done |-> s.done, level |-> s.level]
  /\ IsFiniteSet(s.lists) /\ \A entry \in s.lists : entry[1] \in Nat
  /\ s.done \in Nat /\ s.level \in Nat
  /\ s.done <= Cardinality(TakenUp(s))

\* Between two strata: what waits has a list, and its turn is to come.
Ranked(e, s) ==
  /\ IsStrata(s)
  /\ \A l \in Weighted(e) \ e.active : /\ <<e.wght[l], l>> \in s.lists
                                       /\ RankOf(s, e.wght[l]) >= s.done

\* Within a stratum: what waits has a list and is below the level.
Listed(e, s) ==
  /\ IsStrata(s)
  /\ \A l \in Weighted(e) \ e.active : <<e.wght[l], l>> \in s.lists /\ e.wght[l] < s.level

\* There are finitely many levels, all of them numbers.
LEMMA LevelsFinite ==
  ASSUME NEW s, IsStrata(s)
  PROVE  IsFiniteSet(LevelsOf(s)) /\ \A k \in LevelsOf(s) : k \in Nat
<1> DEFINE f == [x \in s.lists |-> x[1]]
           T == LevelsOf(s)
<1>1. f \in [s.lists -> T] /\ \A y \in T : \E x \in s.lists : f[x] = y
  BY DEF LevelsOf
<1>2. IsFiniteSet(s.lists)
  BY DEF IsStrata
<1> HIDE DEF f, T
<1>3. IsFiniteSet(T)
  BY <1>1, <1>2, FiniteImage
<1>4. \A k \in LevelsOf(s) : k \in Nat
  BY DEF LevelsOf, IsStrata
<1> QED
  BY <1>3, <1>4 DEF T

\* Sets of levels are finite, and larger ones have more elements.
LEMMA CountLevels ==
  ASSUME NEW s, IsStrata(s), NEW T, T \subseteq LevelsOf(s), NEW S, S \subseteq T
  PROVE  /\ IsFiniteSet(T) /\ Cardinality(T) \in Nat /\ Cardinality(S) \in Nat
         /\ Cardinality(S) <= Cardinality(T)
         /\ Cardinality(S) = Cardinality(T) => S = T
<1>1. IsFiniteSet(LevelsOf(s))
  BY LevelsFinite
<1>2. IsFiniteSet(T)
  BY <1>1, FS_Subset
<1>3. IsFiniteSet(S)
  BY <1>2, FS_Subset
<1> QED
  BY <1>2, <1>3, FS_Subset, FS_CardinalityType

\* What is below the level has not had its turn.
LEMMA ListedIsRanked ==
  ASSUME NEW e, NEW s, Listed(e, s), \A l \in Weighted(e) : e.wght[l] \in Nat
  PROVE  Ranked(e, s)
<1>1. IsStrata(s)
  BY DEF Listed
<1> SUFFICES ASSUME NEW l \in Weighted(e) \ e.active
             PROVE  <<e.wght[l], l>> \in s.lists /\ RankOf(s, e.wght[l]) >= s.done
  BY <1>1 DEF Ranked
<1>2. <<e.wght[l], l>> \in s.lists /\ e.wght[l] < s.level
  BY DEF Listed
<1> DEFINE w == e.wght[l]
           T == {k \in LevelsOf(s) : k > w}
<1>3. TakenUp(s) \subseteq T
  <2>1. \A k \in LevelsOf(s) : k \in Nat
    BY <1>1, LevelsFinite
  <2>2. w \in Nat /\ s.level \in Nat
    BY <1>1 DEF IsStrata
  <2> QED
    BY <1>2, <2>1, <2>2 DEF TakenUp
<1>4. T \subseteq LevelsOf(s)
  OBVIOUS
<1> HIDE DEF T, w
<1>5. Cardinality(TakenUp(s)) <= Cardinality(T) /\ Cardinality(T) \in Nat
      /\ Cardinality(TakenUp(s)) \in Nat
  BY <1>1, <1>3, <1>4, CountLevels
<1>6. s.done <= Cardinality(TakenUp(s)) /\ s.done \in Nat
  BY <1>1 DEF IsStrata
<1>7. Cardinality(T) >= s.done
  BY <1>5, <1>6
<1> QED
  BY <1>2, <1>7 DEF RankOf, T, w

\* s, with the entries E as well.
MoreListed(s, t, E) ==
  IsStrata(t) /\ t.level = s.level /\ t.done = s.done /\ t.lists = s.lists \cup E

\* More entries leave strata what they are.
LEMMA MoreEntries ==
  ASSUME NEW s, IsStrata(s), NEW E, IsFiniteSet(E), \A entry \in E : entry[1] \in Nat,
         NEW t, t = [s EXCEPT !.lists = @ \cup E]
  PROVE  MoreListed(s, t, E)
<1>1. DOMAIN s = {"lists", "done", "level"}
  BY DEF IsStrata
<1>2. t = [lists |-> s.lists \cup E, done |-> s.done, level |-> s.level]
  BY <1>1
<1>3. t.level = s.level /\ t.done = s.done /\ t.lists = s.lists \cup E
  BY <1>2
<1>4. t = [lists |-> t.lists, done |-> t.done, level |-> t.level]
  BY <1>2, <1>3
<1>5. /\ IsFiniteSet(s.lists) /\ \A entry \in s.lists : entry[1] \in Nat
      /\ s.done \in Nat /\ s.level \in Nat
      /\ s.done <= Cardinality(TakenUp(s))
  BY DEF IsStrata
<1>6. IsFiniteSet(t.lists) /\ \A entry \in t.lists : entry[1] \in Nat
  BY <1>3, <1>5, FS_Union
<1>7. IsFiniteSet(LevelsOf(t))
  <2> DEFINE f == [x \in t.lists |-> x[1]]
             T == LevelsOf(t)
  <2>1. f \in [t.lists -> T] /\ \A y \in T : \E x \in t.lists : f[x] = y
    BY DEF LevelsOf
  <2> HIDE DEF f, T
  <2>2. IsFiniteSet(T)
    BY <1>6, <2>1, FiniteImage
  <2> QED
    BY <2>2 DEF T
<1>8. TakenUp(s) \subseteq TakenUp(t) /\ TakenUp(t) \subseteq LevelsOf(t)
  BY <1>3 DEF TakenUp, LevelsOf
<1>9. /\ Cardinality(TakenUp(s)) <= Cardinality(TakenUp(t))
      /\ Cardinality(TakenUp(s)) \in Nat /\ Cardinality(TakenUp(t)) \in Nat
  <2>1. IsFiniteSet(TakenUp(t))
    BY <1>7, <1>8, FS_Subset
  <2>2. IsFiniteSet(TakenUp(s))
    BY <1>8, <2>1, FS_Subset
  <2> QED
    BY <1>8, <2>1, <2>2, FS_Subset, FS_CardinalityType
<1>10. t.done <= Cardinality(TakenUp(t))
  BY <1>3, <1>5, <1>9
<1> QED
  BY <1>3, <1>4, <1>5, <1>6, <1>10 DEF IsStrata, MoreListed

\* The strata s, when the lists down to level w have been taken up, n in all.
TakenTo(s, t, n, w) ==
  /\ t = [lists |-> t.lists, done |-> t.done, level |-> t.level]
  /\ t.lists = s.lists /\ t.done = n /\ t.level = w

\* What activating a stratum does to the fields.
LEMMA LevelFields ==
  ASSUME NEW s, IsStrata(s), NEW n, NEW w, NEW t, t = [s EXCEPT !.done = n, !.level = w]
  PROVE  TakenTo(s, t, n, w)
<1>1. DOMAIN s = {"lists", "done", "level"}
  BY DEF IsStrata
<1>2. t = [lists |-> s.lists, done |-> n, level |-> w]
  BY <1>1
<1>3. t.lists = s.lists /\ t.done = n /\ t.level = w
  BY <1>2
<1> QED
  BY <1>2, <1>3 DEF TakenTo

\* The entries of some literals are as many as the literals, and weigh something.
LEMMA EntriesFinite ==
  ASSUME NEW e, IsEngine(e), NEW S, S \subseteq Weighted(e), NEW E, E = {<<e.wght[l], l>> : l \in S}
  PROVE  IsFiniteSet(E) /\ \A entry \in E : entry[1] \in Nat
<1> DEFINE f == [l \in S |-> <<e.wght[l], l>>]
<1>1. f \in [S -> E] /\ \A y \in E : \E x \in S : f[x] = y
  OBVIOUS
<1>2. IsFiniteSet(S)
  BY FS_Subset DEF IsEngine, Weighted
<1> HIDE DEF f
<1>3. IsFiniteSet(E)
  BY <1>1, <1>2, FiniteImage
<1>4. \A l \in S : e.wght[l] \in Nat
  BY DEF IsEngine, PositiveWeights, Weighted
<1> QED
  BY <1>3, <1>4

\* Before the first stratum nothing is listed.
LEMMA NoStrataIs ==
  IsStrata(NoStrata) /\ NoStrata.lists = {} /\ NoStrata.level = 0 /\ NoStrata.done = 0
<1>1. TakenUp(NoStrata) = {}
  BY DEF TakenUp, LevelsOf, NoStrata
<1>2. Cardinality(TakenUp(NoStrata)) = 0
  BY <1>1, FS_EmptySet
<1>3. IsFiniteSet(NoStrata.lists)
  BY FS_EmptySet DEF NoStrata
<1> QED
  BY <1>2, <1>3 DEF IsStrata, NoStrata

\* What a charge leaves waiting is listed with what it weighs.
LEMMA ChargeListed ==
  ASSUME IsEngine(engine), Listed(engine, strata),
         NEW f, IsEngine(f), NEW E, IsFiniteSet(E), \A entry \in E : entry[1] \in Nat,
         Relists(engine, f, strata.level, E), NEW t, t = Listing(E \cup Relisted(f))
  PROVE  Listed(f, t)
<1> DEFINE S == {l \in Weighted(engine) \cap Weighted(f) :
                   f.wght[l] < engine.wght[l] /\ f.wght[l] < strata.level}
           R == {<<f.wght[l], l>> : l \in S}
<1>1. IsStrata(strata)
  BY DEF Listed
<1>2. t = [strata EXCEPT !.lists = @ \cup (E \cup R)]
  BY DEF Listing, Relisted
<1>3. S \subseteq Weighted(f)
  OBVIOUS
<1> HIDE DEF S
<1>4. IsFiniteSet(R) /\ \A entry \in R : entry[1] \in Nat
  BY <1>3, EntriesFinite
<1>5. \A l \in S : <<f.wght[l], l>> \in R
  OBVIOUS
<1> HIDE DEF R
<1>6. IsFiniteSet(E \cup R) /\ \A entry \in E \cup R : entry[1] \in Nat
  BY <1>4, FS_Union
<1>7. PICK M : M = E \cup R
  OBVIOUS
<1>8. IsStrata(t) /\ t.level = strata.level /\ t.lists = strata.lists \cup M
  <2>1. /\ t = [strata EXCEPT !.lists = @ \cup M]
        /\ IsFiniteSet(M) /\ \A entry \in M : entry[1] \in Nat
    BY <1>2, <1>6, <1>7
  <2>2. MoreListed(strata, t, M)
    BY <1>1, <2>1, MoreEntries
  <2> QED
    BY <2>2 DEF MoreListed
<1> SUFFICES ASSUME NEW l \in Weighted(f) \ f.active
             PROVE  <<f.wght[l], l>> \in t.lists /\ f.wght[l] < t.level
  BY <1>8 DEF Listed
<1>9. /\ f.wght[l] < strata.level
      /\ \/ l \in Weighted(engine) \ engine.active /\ f.wght[l] = engine.wght[l]
         \/ l \in Weighted(engine) /\ f.wght[l] < engine.wght[l]
         \/ <<f.wght[l], l>> \in E
  BY DEF Relists
<1>10. l \in Weighted(engine) \ engine.active => <<engine.wght[l], l>> \in strata.lists
  BY DEF Listed
<1>11. l \in Weighted(engine) /\ f.wght[l] < engine.wght[l] => l \in S
  BY <1>9 DEF S
<1>12. <<f.wght[l], l>> \in strata.lists \cup M
  BY <1>5, <1>7, <1>9, <1>10, <1>11
<1> QED
  BY <1>8, <1>9, <1>12

\* Before there are strata nothing is listed.
LEMMA NothingRelisted ==
  ASSUME strata = NoStrata, NEW f, IsEngine(f)
  PROVE  Listing(Relisted(f)) = NoStrata
<1>1. \A l \in Weighted(f) : ~(f.wght[l] < strata.level)
  BY NoStrataIs DEF IsEngine, PositiveWeights, Weighted
<1>2. Relisted(f) = {}
  BY <1>1 DEF Relisted
<1> QED
  BY <1>2 DEF Listing, NoStrata

\* The strata at the start: everything waits, and everything is listed.
LEMMA BootRanked ==
  ASSUME strata = NoStrata, NEW e, IsEngine(e), NEW f, f.wght = e.wght,
         NEW t, t = Listing({<<e.wght[l], l>> : l \in Weighted(e)})
  PROVE  Ranked(f, t)
<1> DEFINE E == {<<e.wght[l], l>> : l \in Weighted(e)}
<1>1. IsFiniteSet(E) /\ \A entry \in E : entry[1] \in Nat
  BY EntriesFinite
<1>2. t = [strata EXCEPT !.lists = @ \cup E]
  BY DEF Listing
<1> HIDE DEF E
<1>3. IsStrata(t) /\ t.done = 0 /\ t.lists = {} \cup E
  <2>1. MoreListed(strata, t, E)
    BY <1>1, <1>2, NoStrataIs, MoreEntries
  <2> QED
    BY <2>1, NoStrataIs DEF MoreListed
<1> SUFFICES ASSUME NEW l \in Weighted(f)
             PROVE  <<f.wght[l], l>> \in t.lists /\ RankOf(t, f.wght[l]) >= t.done
  BY <1>3 DEF Ranked
<1>4. <<f.wght[l], l>> \in t.lists
  BY <1>3 DEF E, Weighted
<1>5. RankOf(t, f.wght[l]) \in Nat
  <2> DEFINE T == {k \in LevelsOf(t) : k > f.wght[l]}
  <2>1. T \subseteq LevelsOf(t)
    OBVIOUS
  <2> HIDE DEF T
  <2>2. Cardinality(T) \in Nat
    BY <1>3, <2>1, CountLevels
  <2> QED
    BY <2>2 DEF RankOf, T
<1> QED
  BY <1>3, <1>4, <1>5

\* The next stratum takes up all that waits, down to its level.
LEMMA StratumListed ==
  ASSUME IsEngine(engine), Ranked(engine, strata), NEW w \in Levels, Rank(w) >= strata.done,
         NEW n, n = Rank(w) + 1, NEW t, TakenTo(strata, t, n, w),
         NEW f, f.wght = engine.wght, f.active = engine.active \cup Activated(w)
  PROVE  Listed(f, t)
<1>1. IsStrata(strata) /\ Levels = LevelsOf(strata) /\ Rank(w) = RankOf(strata, w)
  BY DEF Ranked, Levels, LevelsOf, Rank, RankOf
<1>2. w \in Nat /\ IsFiniteSet(Levels) /\ \A k \in Levels : k \in Nat
  BY <1>1, LevelsFinite
<1>5. t.lists = strata.lists /\ t.done = n /\ t.level = w
  BY DEF TakenTo
<1>6. LevelsOf(t) = Levels
  BY <1>1, <1>5 DEF LevelsOf
<1>7. n \in Nat /\ n <= Cardinality(TakenUp(t))
  <2> DEFINE T == {k \in Levels : k > w}
             S == {k \in Levels : k >= w}
  <2>1. S = T \cup {w} /\ w \notin T /\ T \subseteq Levels
    <3>1. \A k \in Levels : (k >= w) <=> (k > w \/ k = w)
      BY <1>2
    <3>2. ~(w > w)
      BY <1>2
    <3> QED
      BY <3>1, <3>2
  <2>2. TakenUp(t) = S /\ n = Cardinality(T) + 1
    BY <1>5, <1>6 DEF TakenUp, Rank
  <2> HIDE DEF T, S
  <2>3. IsFiniteSet(T)
    BY <1>2, <2>1, FS_Subset
  <2>4. Cardinality(S) = Cardinality(T) + 1 /\ Cardinality(T) \in Nat
    BY <2>1, <2>3, FS_AddElement, FS_CardinalityType
  <2> QED
    BY <2>2, <2>4
<1>8. IsStrata(t)
  <2>1. IsFiniteSet(t.lists) /\ \A entry \in t.lists : entry[1] \in Nat
    BY <1>1, <1>5 DEF IsStrata
  <2>2. t = [lists |-> t.lists, done |-> t.done, level |-> t.level]
    BY DEF TakenTo
  <2> QED
    BY <1>2, <1>5, <1>7, <2>1, <2>2 DEF IsStrata
<1> SUFFICES ASSUME NEW l \in Weighted(f) \ f.active
             PROVE  <<f.wght[l], l>> \in t.lists /\ f.wght[l] < t.level
  BY <1>8 DEF Listed
<1>9. /\ l \in Weighted(engine) \ engine.active /\ l \notin Activated(w)
      /\ f.wght[l] = engine.wght[l]
  BY DEF Weighted
<1>10. <<engine.wght[l], l>> \in strata.lists /\ RankOf(strata, engine.wght[l]) >= strata.done
  BY <1>9 DEF Ranked
<1>11. engine.wght[l] \in Nat
  BY <1>9 DEF IsEngine, PositiveWeights, Weighted
<1>12. Rank(engine.wght[l]) >= strata.done
  BY <1>1, <1>10 DEF Rank, RankOf
<1>13. ~(engine.wght[l] >= w)
  BY <1>9, <1>10, <1>12 DEF Activated
<1> QED
  BY <1>2, <1>5, <1>9, <1>10, <1>11, <1>13

\* When every list has been taken up nothing waits.
LEMMA NothingWaits ==
  ASSUME IsEngine(engine), Ranked(engine, strata), strata.done >= Cardinality(Levels)
  PROVE  Waiting = {}
<1> SUFFICES ASSUME NEW l \in Weighted(engine) \ engine.active PROVE FALSE
  BY DEF Waiting
<1>1. IsStrata(strata) /\ Levels = LevelsOf(strata)
  BY DEF Ranked, Levels, LevelsOf
<1>2. <<engine.wght[l], l>> \in strata.lists /\ RankOf(strata, engine.wght[l]) >= strata.done
  BY DEF Ranked
<1> DEFINE w == engine.wght[l]
           T == {k \in LevelsOf(strata) : k > w}
<1>3. w \in LevelsOf(strata) /\ w \in Nat
  BY <1>2 DEF LevelsOf, IsEngine, PositiveWeights, Weighted
<1>4. T \subseteq LevelsOf(strata) /\ w \notin T
  BY <1>3
<1> HIDE DEF T, w
<1>5. PICK L : L = LevelsOf(strata)
  OBVIOUS
<1>6. /\ Cardinality(T) <= Cardinality(L) /\ Cardinality(L) \in Nat /\ Cardinality(T) \in Nat
      /\ Cardinality(T) = Cardinality(L) => T = L
  BY <1>1, <1>4, <1>5, CountLevels
<1>7. strata.done \in Nat
  BY <1>1 DEF IsStrata
<1>8. Cardinality(T) >= Cardinality(L)
  BY <1>1, <1>2, <1>5, <1>6, <1>7 DEF RankOf, T, w
<1> QED
  BY <1>3, <1>4, <1>5, <1>6, <1>8

(***************************************************************************)
(* The inductive invariant.                                                *)
(***************************************************************************)
Within == {"activated", "units", "conflicts", "cliques", "replay", "loop"}
Phases == {"idle", "start", "boot", "stratum"} \cup Within

ClientInv ==
  /\ profile \in Profiles
  /\ hard \subseteq Assignment
  /\ assumptions \subseteq Lit /\ last_assumptions \subseteq Lit
  /\ pc \in Phases

WeightsInv ==
  /\ DOMAIN declared \subseteq Lit
  /\ DOMAIN transition \subseteq DOMAIN declared
  /\ \A l \in DOMAIN transition : transition[l] \in Nat
  /\ Solving => transition = NoLits

EngineInv == Sound(engine, hard, LitsOf(Relied), declared)

\* Nothing waits unlisted: in a stratum below its level, between two strata
\* behind the lists taken up.
StrataInv ==
  /\ pc \in {"idle", "start", "boot"} => strata = NoStrata
  /\ pc = "stratum" => Ranked(engine, strata)
  /\ pc \in Within => Listed(engine, strata)

\* What the call assumes has a solution.
BaseInv == pc \in {"stratum"} \cup Within => Satisfiable(Assumed)

CliqueInv ==
  clique # {} => /\ pc = "cliques" /\ clique \subseteq Weighted(engine)
                 /\ Exclusive(clique) /\ \A x \in clique : ~IsSum(x)

\* A core kept for replay, H the assignments the hard clauses allow, r the
\* epochs kept.
IsEpoch(x, H, r) ==
  /\ x = [age |-> x.age, core |-> x.core] /\ x.age \in 1 .. r
  /\ H \cap ModelsOf(x.core) = {}

Epochs(h, H, r) ==
  /\ \E S : h \in Seq(S)
  /\ \A i \in DOMAIN h : IsEpoch(h[i], H, r)

HistoryInv == Epochs(history, hard, profile.replay)

IndInv ==
  /\ ClientInv /\ WeightsInv /\ EngineInv
  /\ StrataInv /\ BaseInv /\ CliqueInv /\ HistoryInv

\* What a rollback remembers are cores.
LEMMA RememberKeeps ==
  ASSUME profile \in Profiles, HistoryInv, NEW n, LogOf(engine.log, n),
         \A i \in DOMAIN engine.log : hard \cap ModelsOf(engine.log[i].core) = {},
         NEW X, X \subseteq DOMAIN engine.log, NEW h, h = Remember(X)
  PROVE  Epochs(h, hard, profile.replay)
<1> DEFINE r == profile.replay
           log == engine.log
<1>1. CASE X = {} \/ r = 0
  BY <1>1 DEF Remember, HistoryInv
<1>2. CASE ~(X = {} \/ r = 0)
  <2>1. r \in Nat /\ 1 \in 1 .. r
    BY <1>2, CoreTrailAssumption
  <2> DEFINE idx == {i \in DOMAIN history : history[i].age < r}
             kept == Sublog(history, idx)
             sub == Sublog(log, X)
             C == {log[i].core : i \in DOMAIN log} \cup {history[i].core : i \in DOMAIN history}
             E == {[age |-> a, core |-> c] : a \in 1 .. r, c \in C}
             fresh == [i \in 1 .. Cardinality(X) |-> [age |-> 1, core |-> sub[i].core]]
             older == [i \in DOMAIN kept |-> [kept[i] EXCEPT !.age = @ + 1]]
  <2>2. h = fresh \o older
    BY <1>2 DEF Remember
  <2>3. \A c \in C : hard \cap ModelsOf(c) = {}
    BY DEF HistoryInv, Epochs, IsEpoch
  <2>4. fresh \in Seq(E)
    <3>1. n \in Nat /\ X \in SUBSET (1 .. n) /\ DOMAIN log = 1 .. n
      BY DEF LogOf
    <3> HIDE DEF log
    <3>2. Enumerated(X) /\ Selects(sub, log, X) /\ Cardinality(X) \in Nat
      BY <3>1, NthIs, SublogSeq, UptoCounts
    <3>3. \A i \in 1 .. Cardinality(X) : sub[i].core \in C
      BY <3>1, <3>2 DEF Enumerated, Selects
    <3> HIDE DEF C, sub
    <3>4. \A i \in 1 .. Cardinality(X) : [age |-> 1, core |-> sub[i].core] \in E
      BY <2>1, <3>3
    <3> HIDE DEF E
    <3> QED
      BY <3>2, <3>4
  <2>5. older \in Seq(E)
    <3>1. PICK m \in Nat : DOMAIN history = 1 .. m
      BY DEF HistoryInv, Epochs
    <3>2. idx \in SUBSET (1 .. m)
      BY <3>1
    <3>3. \A i \in idx : /\ history[i] = [age |-> history[i].age, core |-> history[i].core]
                         /\ history[i].age + 1 \in 1 .. r /\ history[i].core \in C
      BY <2>1 DEF HistoryInv, Epochs, IsEpoch
    <3> HIDE DEF idx, C, r
    <3>4. Enumerated(idx) /\ Selects(kept, history, idx) /\ Cardinality(idx) \in Nat
      BY <3>1, <3>2, NthIs, SublogSeq, UptoCounts
    <3>5. /\ DOMAIN kept = 1 .. Cardinality(idx)
          /\ \A i \in 1 .. Cardinality(idx) : \E k \in idx : kept[i] = history[k]
      BY <3>4 DEF Enumerated, Selects
    <3> HIDE DEF kept
    <3>6. \A i \in 1 .. Cardinality(idx) : [kept[i] EXCEPT !.age = @ + 1] \in E
      <4> TAKE i \in 1 .. Cardinality(idx)
      <4>1. PICK k \in idx : kept[i] = history[k]
        BY <3>5
      <4>2. PICK a, c : a = history[k].age /\ c = history[k].core
        OBVIOUS
      <4>3. kept[i] = [age |-> a, core |-> c] /\ a + 1 \in 1 .. r /\ c \in C
        BY <3>3, <4>1, <4>2
      <4>4. [kept[i] EXCEPT !.age = @ + 1] = [age |-> a + 1, core |-> c]
        BY <4>3
      <4> QED
        BY <4>3, <4>4
    <3> HIDE DEF E
    <3> QED
      BY <3>4, <3>5, <3>6
  <2>6. \A x \in E : IsEpoch(x, hard, r)
    <3> HIDE DEF C
    <3> QED
      BY <2>3 DEF IsEpoch
  <2> HIDE DEF E, fresh, older
  <2>7. h \in Seq(E)
    BY <2>2, <2>4, <2>5
  <2>8. \A i \in DOMAIN h : h[i] \in E
    BY <2>7
  <2> QED
    BY <2>6, <2>7, <2>8 DEF Epochs
<1> QED
  BY <1>1, <1>2

\* Nothing has been charged yet.
LEMMA EmptyIsSound ==
  ASSUME NEW H, NEW A, NEW d, d = NoLits
  PROVE  Sound(EmptyEngine, H, A, d)
<1> DEFINE e == EmptyEngine
           none == [i \in {} |-> e.log[i].weight]
<1>1. /\ EngineRecord(e) /\ e.cost = 0 /\ DOMAIN e.wght = {} /\ e.active = {}
      /\ e.impossible = {} /\ DOMAIN e.swgt = {} /\ e.log = <<>> /\ ~e.thrown
      /\ e.bnds = {} /\ e.original = {}
  BY DEF EmptyEngine, NoLits, EngineRecord
<1>2. DOMAIN e.log = {} /\ e.log \in Seq({})
  BY <1>1
<1>3. DOMAIN d = {}
  BY DEF NoLits
<1>4. IsFiniteSet(DOMAIN e.wght)
  BY <1>1, FS_EmptySet
<1> HIDE DEF e
<1>5. IsEngine(e)
  <2>1. PositiveWeights(e.wght) /\ Weighted(e) = {}
    BY <1>1 DEF PositiveWeights, Weighted
  <2>2. e.cost \in Nat
    BY <1>1
  <2> QED
    BY <1>1, <1>4, <2>1, <2>2 DEF IsEngine
<1>6. Ledger(e, e.log, {}, d)
  <2>1. \A F : SumFunctionOnSet(F, {}) = 0
    BY SumEmpty
  <2>2. \A x : Changes(e.log, {}, x) = 0
    BY <2>1 DEF Changes
  <2>3. \A x : WeightIn(e, x) = 0 /\ Declared(d, x) = 0
    BY <1>1, <1>3 DEF WeightIn, Declared
  <2>4. \A x : WeightIn(e, x) = Declared(d, x) + Changes(e.log, {}, x)
    BY <2>2, <2>3
  <2>5. e.cost = SumFunctionOnSet([i \in {} |-> e.log[i].weight], {})
    BY <1>1, <2>1
  <2> QED
    BY <1>1, <2>4, <2>5 DEF Ledger
<1>7. Chained(e.log, {}, d) /\ Implied(e.log, {}, H, A)
  BY DEF Chained, Implied
<1>9. Booked(e, e.log, {})
  BY <1>1 DEF Booked, Weighted
<1>8. Sound(e, H, A, d)
  BY <1>2, <1>3, <1>5, <1>6, <1>7, <1>9 DEF Sound
<1> QED
  BY <1>8 DEF e

\* The inductive invariant holds when the solver is constructed.
LEMMA InitHolds ==
  ASSUME Init
  PROVE  IndInv
<1>1. ClientInv
  BY DEF Init, ClientInv, Phases
<1>2. WeightsInv
  BY DEF Init, WeightsInv, NoLits, Solving
<1>3. EngineInv
  <2>1. engine = EmptyEngine /\ declared = NoLits
    BY DEF Init
  <2> QED
    BY <2>1, EmptyIsSound DEF EngineInv
<1>4. StrataInv
  BY DEF Init, StrataInv, Within
<1>5. CliqueInv
  BY DEF Init, CliqueInv
<1>6. HistoryInv
  <2>1. history = <<>> /\ history \in Seq({}) /\ DOMAIN history = {}
    BY DEF Init
  <2> QED
    BY <2>1 DEF HistoryInv, Epochs
<1>7. BaseInv
  BY DEF Init, BaseInv, Within
<1> QED
  BY <1>1, <1>2, <1>3, <1>4, <1>5, <1>6, <1>7 DEF IndInv

(***************************************************************************)
(* The client's calls.                                                     *)
(***************************************************************************)
\* What a call between two solves leaves alone.
LEMMA ClientCall ==
  ASSUME IndInv, pc = "idle", pc' \in {"idle", "start"},
         UNCHANGED <<profile, hard, search, weights>>, assumptions' \subseteq Lit
  PROVE  IndInv'
<1>1. ClientInv'
  BY DEF IndInv, ClientInv, Phases, search
<1>2. WeightsInv'
  BY DEF IndInv, WeightsInv, Solving, weights
<1>3. EngineInv'
  BY DEF IndInv, EngineInv, Relied, Solving, search, weights
<1>4. StrataInv'
  BY DEF IndInv, StrataInv, search, Within
<1>5. CliqueInv'
  BY DEF IndInv, CliqueInv, search
<1>6. HistoryInv'
  BY DEF IndInv, HistoryInv, search
<1>7. BaseInv'
  BY DEF BaseInv, Within
<1> QED
  BY <1>1, <1>2, <1>3, <1>4, <1>5, <1>6, <1>7 DEF IndInv

\* A literal of a clause, an assumption, a callback and the call of solve.
LEMMA CallsKeep ==
  ASSUME IndInv,
         \/ \E l \in Lit : AddHard(l)
         \/ \E l \in profile.assumed : Assume(l)
         \/ SetTerminate \/ SolveCalled
  PROVE  IndInv'
<1>1. assumptions \subseteq Lit /\ profile \in Profiles
  BY DEF IndInv, ClientInv
<1>2. CASE \E l \in Lit : AddHard(l)
  BY <1>1, <1>2, ClientCall DEF AddHard, Input
<1>3. CASE \E l \in profile.assumed : Assume(l)
  <2>1. profile.assumed \subseteq Lit
    BY <1>1, CoreTrailAssumption
  <2> QED
    BY <1>1, <1>3, <2>1, ClientCall DEF Assume, Input
<1>4. CASE SetTerminate
  BY <1>1, <1>4, ClientCall DEF SetTerminate
<1>5. CASE SolveCalled
  BY <1>1, <1>5, ClientCall DEF SolveCalled, client
<1> QED
  BY <1>2, <1>3, <1>4, <1>5

\* More hard clauses.
LEMMA FinishHardKeeps ==
  ASSUME IndInv, FinishHard
  PROVE  IndInv'
<1>1. /\ hard' \subseteq hard /\ pc = "idle" /\ pc' = "idle"
      /\ UNCHANGED <<profile, assumptions, weights, search>>
  BY DEF FinishHard, Input
<1>2. ClientInv'
  BY <1>1 DEF IndInv, ClientInv, search
<1>3. WeightsInv'
  BY <1>1 DEF IndInv, WeightsInv, Solving, weights
<1>4. EngineInv'
  <2>1. UNCHANGED <<engine, last_assumptions, declared>> /\ Relied' = Relied
    BY <1>1 DEF Relied, Solving, search, weights
  <2>2. Sound(engine, hard', LitsOf(Relied), declared)
    BY <1>1, SoundWithLess DEF IndInv, EngineInv
  <2> QED
    BY <2>1, <2>2 DEF EngineInv
<1>5. StrataInv'
  BY <1>1 DEF IndInv, StrataInv, search, Within
<1>6. CliqueInv'
  BY <1>1 DEF IndInv, CliqueInv, search
<1>7. HistoryInv'
  <2>1. Epochs(history, hard', profile.replay)
    BY <1>1 DEF IndInv, HistoryInv, Epochs, IsEpoch
  <2> QED
    BY <1>1, <2>1 DEF HistoryInv, search
<1>8. BaseInv'
  BY <1>1 DEF BaseInv, Within
<1> QED
  BY <1>2, <1>3, <1>4, <1>5, <1>6, <1>7, <1>8 DEF IndInv

\* A weight: at once for a new literal, at the next solve for a known one.
LEMMA AddSoftLitKeeps ==
  ASSUME IndInv, NEW p \in profile.softs, AddSoftLit(p[1], p[2])
  PROVE  IndInv'
<1> DEFINE l == -p[1]
           w == p[2]
<1>1. l \in Lit /\ w \in Nat
  <2>1. p \in Lit \X Weight
    BY CoreTrailAssumption DEF IndInv, ClientInv
  <2> QED
    BY <2>1, LitNotZero, WeightAssumption
<1>2. /\ pc = "idle" /\ pc' = "idle"
      /\ UNCHANGED <<profile, hard, assumptions, last_assumptions, history, strata, clique>>
      /\ \/ /\ l \in DOMAIN declared
            /\ transition' = IF w = declared[l] THEN Drop(transition, {l})
                             ELSE Over(Maps(l, w), transition)
            /\ UNCHANGED <<declared, engine>>
         \/ UNCHANGED <<declared, transition, engine>>
         \/ /\ l \notin DOMAIN declared
            /\ w > 0
            /\ declared' = Over(Maps(l, w), declared)
            /\ engine' = [engine EXCEPT !.wght     = Over(Maps(Orig(l), w), @),
                                        !.active   = @ \cup {Orig(l)},
                                        !.original = @ \cup {Orig(l)}]
            /\ UNCHANGED transition
  BY DEF AddSoftLit, Input, client
<1> HIDE DEF l, w
<1>3. ClientInv'
  BY <1>2 DEF IndInv, ClientInv
<1>4. ~Solving' /\ ~Solving /\ Relied' = Relied
  BY <1>2 DEF Solving, Relied
<1>5. WeightsInv'
  <2>1. /\ DOMAIN declared \subseteq Lit /\ DOMAIN transition \subseteq DOMAIN declared
        /\ \A k \in DOMAIN transition : transition[k] \in Nat
    BY DEF IndInv, WeightsInv
  <2>2. /\ DOMAIN declared' \subseteq Lit /\ DOMAIN transition' \subseteq DOMAIN declared'
        /\ \A k \in DOMAIN transition' : transition'[k] \in Nat
    BY <1>1, <1>2, <2>1 DEF Over, Maps, Drop, Restrict
  <2> QED
    BY <1>4, <2>2 DEF WeightsInv
<1>6. EngineInv'
  <2>1. CASE UNCHANGED <<declared, engine>>
    BY <1>2, <1>4, <2>1 DEF IndInv, EngineInv
  <2>2. CASE ~ UNCHANGED <<declared, engine>>
    <3>1. Sound(engine, hard, LitsOf(Relied), declared)
      BY DEF IndInv, EngineInv
    <3>2. PICK g : g = [engine EXCEPT !.wght     = Over(Maps(Orig(l), w), @),
                                      !.active   = @ \cup {Orig(l)},
                                      !.original = @ \cup {Orig(l)}]
      OBVIOUS
    <3>3. /\ l \notin DOMAIN declared /\ w > 0 /\ engine' = g
          /\ declared' = Over(Maps(l, w), declared)
      BY <1>2, <2>2, <3>2
    <3>4. Sound(g, hard, LitsOf(Relied), Over(Maps(l, w), declared))
      BY <1>1, <3>1, <3>2, <3>3, DeclareSound
    <3> QED
      BY <1>2, <1>4, <3>3, <3>4 DEF EngineInv
  <2> QED
    BY <2>1, <2>2
<1>7. StrataInv'
  BY <1>2 DEF IndInv, StrataInv, Within
<1>8. CliqueInv'
  BY <1>2 DEF IndInv, CliqueInv
<1>9. HistoryInv'
  BY <1>2 DEF IndInv, HistoryInv
<1>10. BaseInv'
  BY <1>2 DEF BaseInv, Within
<1> QED
  BY <1>3, <1>5, <1>6, <1>7, <1>8, <1>9, <1>10 DEF IndInv

(***************************************************************************)
(* The start and the end of a call, and of a stratum.                      *)
(***************************************************************************)
\* What the search can count on.
LEMMA SearchFacts ==
  ASSUME IndInv, Solving
  PROVE  /\ Sound(engine, hard, Assumed, declared) /\ IsEngine(engine)
         /\ hard \subseteq Assignment /\ Assumed \subseteq Originals
         /\ pc \in Within => Listed(engine, strata) /\ Below(engine, strata.level)
                             /\ strata.level \in Nat
<1>1. Sound(engine, hard, Assumed, declared)
  BY DEF IndInv, EngineInv, Relied, Assumed, LitsOf
<1>2. hard \subseteq Assignment /\ assumptions \subseteq Lit
  BY DEF IndInv, ClientInv
<1>3. Assumed \subseteq Originals
  BY <1>2 DEF Assumed, Originals
<1>4. pc \in Within => Listed(engine, strata)
  BY DEF IndInv, StrataInv
<1>5. Listed(engine, strata) => Below(engine, strata.level) /\ strata.level \in Nat
  BY DEF Listed, Below, IsStrata
<1> QED
  BY <1>1, <1>2, <1>3, <1>4, <1>5 DEF Sound

\* Returning with what is assumed as the assumptions of the last call.
LEMMA ReturnKeeps ==
  ASSUME IndInv, Solving, NEW s, Return(s), last_assumptions' = assumptions,
         Sound(engine', hard, Assumed, declared),
         UNCHANGED <<weights, history>>, clique' = clique, pc # "cliques"
  PROVE  IndInv'
<1>1. /\ pc' = "idle" /\ strata' = NoStrata /\ assumptions' = {}
      /\ UNCHANGED <<profile, hard>> /\ ~Solving' /\ Relied' = Relied
  BY DEF Return, Solving, Relied
<1>2. ClientInv'
  BY <1>1 DEF IndInv, ClientInv, Phases
<1>3. WeightsInv'
  BY <1>1 DEF IndInv, WeightsInv, weights
<1>4. EngineInv'
  BY <1>1 DEF EngineInv, Relied, Solving, Assumed, LitsOf, weights
<1>5. StrataInv'
  BY <1>1 DEF StrataInv, Within
<1>6. CliqueInv'
  BY DEF IndInv, CliqueInv
<1>7. HistoryInv'
  BY <1>1 DEF IndInv, HistoryInv
<1>8. BaseInv'
  BY <1>1 DEF BaseInv, Within
<1> QED
  BY <1>2, <1>3, <1>4, <1>5, <1>6, <1>7, <1>8 DEF IndInv

\* A solve stopped by the callback before the search keeps the invariant.
LEMMA CallbackStopsKeeps ==
  ASSUME IndInv, CallbackStops
  PROVE  IndInv'
<1>1. /\ pc = "start" /\ pc' = "idle" /\ strata' = NoStrata /\ assumptions' = {}
      /\ UNCHANGED <<profile, hard, weights, last_assumptions, history, engine, clique>>
  BY DEF CallbackStops, Return
<1>2. ClientInv'
  BY <1>1 DEF IndInv, ClientInv, Phases
<1>3. WeightsInv'
  BY <1>1 DEF IndInv, WeightsInv, weights, Solving
<1>4. EngineInv'
  BY <1>1 DEF IndInv, EngineInv, weights, Relied, Solving
<1>5. StrataInv'
  BY <1>1 DEF StrataInv, Within
<1>6. CliqueInv'
  BY <1>1 DEF IndInv, CliqueInv
<1>7. HistoryInv'
  BY <1>1 DEF IndInv, HistoryInv
<1>8. BaseInv'
  BY <1>1 DEF BaseInv, Within
<1> QED
  BY <1>2, <1>3, <1>4, <1>5, <1>6, <1>7, <1>8 DEF IndInv

\* Taking back what the assumptions and weights of this call invalidate.
LEMMA RollbackKeeps ==
  ASSUME IndInv, Rollback
  PROVE  IndInv'
<1> DEFINE X == ToDisable(engine.log, Conflicting)
           f == Reweighted(Disable(engine, X))
           d == Over(transition, declared)
<1>1. /\ pc = "start" /\ pc' = "boot" /\ engine' = f /\ history' = Remember(X)
      /\ declared' = d /\ transition' = NoLits
      /\ UNCHANGED <<profile, hard, assumptions, last_assumptions, strata, clique>>
  BY DEF Rollback, client
<1>2. /\ DOMAIN declared \subseteq Lit /\ DOMAIN transition \subseteq DOMAIN declared
      /\ \A l \in DOMAIN transition : transition[l] \in Nat
  BY DEF IndInv, WeightsInv
<1>3. Sound(engine, hard, LitsOf(last_assumptions), declared)
  BY <1>1 DEF IndInv, EngineInv, Relied, Solving
<1>4. Sound(f, hard, Assumed, d)
  <2>1. PICK Y : Y = X
    OBVIOUS
  <2>2. PICK g : g = Reweighted(Disable(engine, Y))
    OBVIOUS
  <2>3. Sound(g, hard, Assumed, Over(transition, declared))
    BY <1>2, <1>3, <2>1, <2>2, RollbackSound
  <2> QED
    BY <2>1, <2>2, <2>3
<1>5. Epochs(Remember(X), hard, profile.replay)
  <2> DEFINE log == engine.log
             n == Len(log)
  <2>1. LogOf(log, n) /\ \A i \in DOMAIN log : IsEntry(log[i])
    BY <1>3, SoundLog DEF Sound, Chained
  <2>2. \A i \in DOMAIN log : hard \cap ModelsOf(log[i].core) = {}
    BY <1>3 DEF Sound, Implied
  <2>3. X \subseteq DOMAIN log
    <3> HIDE DEF log
    <3>1. Closed(log, DOMAIN log, X)
      BY <2>1, ToDisableCloses DEF log
    <3> QED
      BY <3>1 DEF Closed
  <2> HIDE DEF X, n
  <2>4. profile \in Profiles /\ HistoryInv
    BY DEF IndInv, ClientInv
  <2> QED
    BY <2>1, <2>2, <2>3, <2>4, RememberKeeps
<1> HIDE DEF f, X
<1>6. ClientInv'
  BY <1>1 DEF IndInv, ClientInv, Phases
<1>7. WeightsInv'
  BY <1>1, <1>2 DEF WeightsInv, Over, NoLits
<1>8. EngineInv'
  BY <1>1, <1>4 DEF EngineInv, Relied, Solving, Assumed, LitsOf
<1>9. StrataInv'
  BY <1>1 DEF IndInv, StrataInv, Within
<1>10. CliqueInv'
  BY <1>1 DEF IndInv, CliqueInv
<1>11. HistoryInv'
  BY <1>1, <1>5 DEF HistoryInv
<1>12. BaseInv'
  BY <1>1 DEF BaseInv, Within
<1> QED
  BY <1>6, <1>7, <1>8, <1>9, <1>10, <1>11, <1>12 DEF IndInv

\* A step of the search that changes nothing but the engine, the strata, the
\* rest of a clique and where solve is.
LEMMA SearchStep ==
  ASSUME IndInv, Solving, Solving',
         UNCHANGED <<profile, hard, assumptions, weights, last_assumptions, history>>,
         pc' \in Phases, pc = "boot" => pc' = "boot" \/ Satisfiable(Assumed),
         Sound(engine', hard, Assumed, declared), StrataInv', CliqueInv'
  PROVE  IndInv'
<1>1. ClientInv'
  BY DEF IndInv, ClientInv
<1>2. WeightsInv'
  BY DEF IndInv, WeightsInv, weights
<1>3. EngineInv'
  BY DEF EngineInv, weights, Relied, Assumed, LitsOf
<1>4. HistoryInv'
  BY DEF IndInv, HistoryInv
<1>5. BaseInv'
  BY DEF IndInv, ClientInv, BaseInv, Solving, Phases, Within, Satisfiable, Assumed
<1> QED
  BY <1>1, <1>2, <1>3, <1>4, <1>5 DEF IndInv

\* Cancelling a contradiction.
LEMMA CancelContradictionKeeps ==
  ASSUME IndInv, CancelContradiction
  PROVE  IndInv'
<1>1. /\ pc \in {"boot", "activated", "loop"} /\ pc' = pc
      /\ strata' = Listing(Relisted(engine'))
      /\ UNCHANGED <<profile, hard, assumptions, weights, last_assumptions, history, clique>>
  BY DEF CancelContradiction, client
<1>2. Solving /\ Solving' /\ pc' \in Phases
  BY <1>1 DEF Solving, Phases, Within
<1>3. PICK l \in Cancellable(engine, Base) : engine' = Cancelled(engine, Base, l)
  BY DEF CancelContradiction
<1>4. PICK B, f : B = Base /\ f = engine'
  OBVIOUS
<1>5. B = Assumed \cup engine.impossible /\ l \in Cancellable(engine, B)
      /\ f = Cancelled(engine, B, l)
  BY <1>3, <1>4 DEF Base
<1>6. Sound(f, hard, Assumed, declared) /\ IsEngine(f)
  BY <1>2, <1>5, SearchFacts, CancelledSound DEF Sound
<1>7. StrataInv'
  <2>1. CASE pc = "boot"
    <3>1. strata = NoStrata
      BY <2>1 DEF IndInv, StrataInv
    <3>2. Listing(Relisted(f)) = NoStrata
      BY <1>6, <3>1, NothingRelisted
    <3> QED
      BY <1>1, <1>4, <2>1, <3>2 DEF StrataInv, Within
  <2>2. CASE pc # "boot"
    <3>1. pc \in Within
      BY <1>1, <2>2 DEF Within
    <3>2. Relists(engine, f, strata.level, {})
      BY <1>2, <1>5, <3>1, SearchFacts, CancelledRelists
    <3>3. Listed(f, Listing({} \cup Relisted(f)))
      <4>1. PICK E : E = {}
        OBVIOUS
      <4>2. PICK t : t = Listing(E \cup Relisted(f))
        OBVIOUS
      <4>3. IsFiniteSet(E) /\ (\A entry \in E : entry[1] \in Nat)
            /\ Relists(engine, f, strata.level, E)
        BY <3>2, <4>1, FS_EmptySet
      <4>4. Listed(f, t)
        BY <1>2, <1>6, <3>1, <4>2, <4>3, SearchFacts, ChargeListed
      <4> QED
        BY <4>1, <4>2, <4>4
    <3>4. {} \cup Relisted(f) = Relisted(f)
      OBVIOUS
    <3>5. Listed(engine', strata')
      BY <1>1, <1>4, <3>3, <3>4
    <3> QED
      BY <1>1, <3>5, <2>2 DEF StrataInv
  <2> QED
    BY <2>1, <2>2
<1>8. CliqueInv'
  BY <1>1 DEF IndInv, CliqueInv
<1> QED
  BY <1>1, <1>2, <1>4, <1>6, <1>7, <1>8, SearchStep

\* The boot query has no model.
LEMMA BootUnsatKeeps ==
  ASSUME IndInv, BootUnsat
  PROVE  IndInv'
<1>1. pc = "boot" /\ Solving /\ Return("UNSAT") /\ last_assumptions' = assumptions
      /\ UNCHANGED <<weights, history, engine>> /\ clique' = clique
  BY DEF BootUnsat, Unsat, Solving
<1> QED
  BY <1>1, SearchFacts, ReturnKeeps

\* The strata are recomputed from the weights.
LEMMA BootSatKeeps ==
  ASSUME IndInv, BootSat
  PROVE  IndInv'
<1>1. /\ pc = "boot" /\ pc' = "stratum" /\ engine' = [engine EXCEPT !.active = {}]
      /\ strata' = Listing({<<engine.wght[l], l>> : l \in Weighted(engine)})
      /\ UNCHANGED <<profile, hard, assumptions, weights, last_assumptions, history, clique>>
  BY DEF BootSat, client
<1>2. Solving /\ Solving' /\ pc' \in Phases
  BY <1>1 DEF Solving, Phases
<1>3. PICK a, f : a = {} /\ f = [engine EXCEPT !.active = a]
  OBVIOUS
<1>4. Sound(f, hard, Assumed, declared) /\ f.wght = engine.wght
  BY <1>2, <1>3, SearchFacts, ActiveSound
<1>5. strata = NoStrata
  BY <1>1 DEF IndInv, StrataInv
<1>6. Ranked(f, Listing({<<engine.wght[l], l>> : l \in Weighted(engine)}))
  <2>1. PICK t : t = Listing({<<engine.wght[l], l>> : l \in Weighted(engine)})
    OBVIOUS
  <2>2. Ranked(f, t)
    BY <1>2, <1>4, <1>5, <2>1, SearchFacts, BootRanked
  <2> QED
    BY <2>1, <2>2
<1>7. engine' = f
  BY <1>1, <1>3
<1>8. StrataInv'
  BY <1>1, <1>6, <1>7 DEF StrataInv, Within
<1>9. CliqueInv'
  BY <1>1 DEF IndInv, CliqueInv
<1>10. Satisfiable(Assumed)
  BY DEF BootSat, Satisfiable, Base, ModelsOf
<1> QED
  BY <1>1, <1>2, <1>4, <1>7, <1>8, <1>9, <1>10, SearchStep

\* The next stratum.
LEMMA NextLevelKeeps ==
  ASSUME IndInv, NextLevel
  PROVE  IndInv'
<1>1. PICK w \in Levels : Rank(w) >= strata.done /\ NextLevelTo(w, Rank(w) + 1)
  BY DEF NextLevel
<1>2. PICK n, a : n = Rank(w) + 1 /\ a = engine.active \cup Activated(w)
  OBVIOUS
<1>3. /\ pc = "stratum" /\ pc' = "activated"
      /\ strata' = [strata EXCEPT !.done = n, !.level = w]
      /\ engine' = [engine EXCEPT !.active = a]
      /\ UNCHANGED <<profile, hard, assumptions, weights, last_assumptions, history, clique>>
  BY <1>1, <1>2 DEF NextLevelTo, client
<1>4. Solving /\ Solving' /\ pc' \in Phases
  BY <1>3 DEF Solving, Phases, Within
<1>5. PICK f : f = engine'
  OBVIOUS
<1>6. Sound(f, hard, Assumed, declared) /\ f.wght = engine.wght /\ f.active = a
  <2>1. a \subseteq Weighted(engine)
    BY <1>2, <1>4, SearchFacts DEF Activated, IsEngine
  <2> QED
    BY <1>3, <1>4, <1>5, <2>1, SearchFacts, ActiveSound
<1>7. Ranked(engine, strata)
  BY <1>3 DEF IndInv, StrataInv
<1>8. Listed(f, strata')
  <2>1. PICK t : t = strata'
    OBVIOUS
  <2>2. TakenTo(strata, t, n, w)
    BY <1>3, <1>7, <2>1, LevelFields DEF Ranked
  <2>3. Listed(f, t)
    BY <1>1, <1>2, <1>4, <1>6, <1>7, <2>2, SearchFacts, StratumListed
  <2> QED
    BY <2>1, <2>3
<1>9. StrataInv'
  BY <1>3, <1>5, <1>8 DEF StrataInv, Within
<1>10. CliqueInv'
  BY <1>3 DEF IndInv, CliqueInv
<1> QED
  BY <1>3, <1>4, <1>5, <1>6, <1>9, <1>10, SearchStep

\* An assignment that satisfies the assumptions satisfies what the units found.
LEMMA UnitsFollow ==
  ASSUME NEW e, NEW H, NEW A, NEW d, Sound(e, H, A, d), H \subseteq Assignment,
         NEW m \in H, \A x \in A : m \in x.sat
  PROVE  \A i \in DOMAIN e.log : \A x \in Units(e.log[i]) : m \in x.sat
<1> DEFINE log == e.log
           P == {i \in DOMAIN log : \E x \in Units(log[i]) : m \notin x.sat}
<1>1. LogOf(log, Len(log))
  BY SoundLog
<1>2. Implied(log, DOMAIN log, H, A) /\ \A i \in DOMAIN log : IsEntry(log[i])
  BY DEF Sound, Chained
<1> HIDE DEF log
<1>3. P \in SUBSET Nat
  BY <1>1 DEF LogOf
<1> SUFFICES ASSUME P # {} PROVE FALSE
  BY DEF log
<1>4. PICK i \in P : \A j \in P : i <= j
  BY <1>3, LeastNumber
<1>5. PICK x \in Units(log[i]) : m \notin x.sat
  OBVIOUS
<1>6. PICK y \in log[i].core : Taken(log[i]) = {y} /\ Units(log[i]) \subseteq {Neg(y)}
  BY <1>2, <1>5 DEF Implied
<1>7. m \in y.sat
  <2>1. y \in DOMAIN log[i].wdelta
    BY <1>6 DEF Taken
  <2>2. Bearer(y)
    BY <1>2, <2>1 DEF IsEntry
  <2>3. m \notin Neg(y).sat /\ m \in Assignment
    BY <1>5, <1>6
  <2> QED
    BY <2>2, <2>3, NegBearer
<1>8. \A z \in log[i].core : m \in z.sat
  <2> SUFFICES ASSUME NEW z \in log[i].core, z # y PROVE m \in z.sat
    BY <1>7
  <2>1. CASE z \in A
    BY <2>1
  <2>2. CASE z \notin A
    <3>1. PICK j \in DOMAIN log : j < i /\ z \in Units(log[j])
      BY <1>2, <1>6, <2>2 DEF Implied
    <3>2. j \notin P
      BY <1>3, <1>4, <3>1
    <3> QED
      BY <3>1, <3>2
  <2> QED
    BY <2>1, <2>2
<1>9. m \in H \cap ModelsOf(log[i].core)
  BY <1>8 DEF ModelsOf
<1> QED
  BY <1>2, <1>9 DEF Implied

\* An assignment that satisfies the assumptions satisfies the base.
LEMMA BaseFollows ==
  ASSUME NEW e, NEW H, NEW A, NEW d, Sound(e, H, A, d), H \subseteq Assignment,
         H \cap ModelsOf(A) # {}
  PROVE  H \cap ModelsOf(A \cup e.impossible) # {}
<1>1. PICK m \in H : \A x \in A : m \in x.sat
  BY DEF ModelsOf
<1>2. \A i \in DOMAIN e.log : \A x \in Units(e.log[i]) : m \in x.sat
  BY <1>1, UnitsFollow
<1>3. \A x \in e.impossible : \E i \in DOMAIN e.log : x \in Units(e.log[i])
  BY DEF Sound, Ledger
<1>4. m \in ModelsOf(A \cup e.impossible)
  BY <1>1, <1>2, <1>3 DEF ModelsOf
<1> QED
  BY <1>4

\* A sound engine stays sound when nothing is thrown.
LEMMA NothingThrown ==
  ASSUME NEW e, NEW H, NEW A, NEW d, Sound(e, H, A, d), NEW b, ~b,
         NEW f, f = [e EXCEPT !.thrown = b]
  PROVE  /\ Sound(f, H, A, d) /\ f.cost = e.cost /\ f.wght = e.wght
         /\ f.active = e.active /\ f.impossible = e.impossible
<1>1. IsEngine(e) /\ EngineRecord(e)
  BY DEF Sound, IsEngine
<1>2. DOMAIN e = {"cost", "wght", "active", "impossible", "swgt", "bnds", "bnds_history",
                  "original", "log", "thrown"}
  BY <1>1 DEF EngineRecord
<1>3. f = [cost |-> e.cost, wght |-> e.wght, active |-> e.active, impossible |-> e.impossible,
           swgt |-> e.swgt, bnds |-> e.bnds, bnds_history |-> e.bnds_history,
           original |-> e.original, log |-> e.log, thrown |-> b]
  BY <1>2
<1>4. /\ EngineRecord(f) /\ f.cost = e.cost /\ f.wght = e.wght /\ f.active = e.active
      /\ f.impossible = e.impossible /\ f.swgt = e.swgt /\ f.log = e.log
      /\ f.bnds = e.bnds /\ f.bnds_history = e.bnds_history /\ f.original = e.original
  BY <1>3 DEF EngineRecord
<1>5. ~f.thrown
  <2>1. f.thrown = b
    BY <1>3, Zenon
  <2> QED
    BY <2>1, Zenon
<1>6. IsEngine(f)
  BY <1>1, <1>4, <1>5 DEF IsEngine, Weighted
<1>7. Ledger(f, e.log, DOMAIN e.log, d)
  BY <1>4 DEF Sound, Ledger, WeightIn, Weighted
<1>8. Booked(f, e.log, DOMAIN e.log)
  BY <1>4 DEF Sound, Booked, Weighted
<1> QED
  BY <1>4, <1>6, <1>7, <1>8 DEF Sound

\* All lists are taken up: nothing waits, and nothing is thrown.
LEMMA FinishKeeps ==
  ASSUME IndInv, Finish
  PROVE  IndInv'
<1>1. /\ pc = "stratum" /\ strata.done >= Cardinality(Levels)
      /\ engine' = [engine EXCEPT !.thrown = \/ @
                                             \/ engine.active # Weighted(engine)
                                             \/ \E l \in Weighted(engine) : engine.wght[l] <= 0]
      /\ Return("OPTIMAL") /\ last_assumptions' = assumptions
      /\ UNCHANGED <<weights, history, clique>> 
  BY DEF Finish
<1>2. Solving
  BY <1>1 DEF Solving
<1>3. Ranked(engine, strata) /\ IsEngine(engine)
  BY <1>1, <1>2, SearchFacts DEF IndInv, StrataInv
<1>4. Waiting = {}
  BY <1>1, <1>3, NothingWaits
<1>5. Sound(engine', hard, Assumed, declared)
  <2>1. PICK b, f : /\ b = (\/ engine.thrown
                           \/ engine.active # Weighted(engine)
                           \/ \E l \in Weighted(engine) : engine.wght[l] <= 0)
                    /\ f = engine'
    OBVIOUS
  <2>2. ~engine.thrown /\ engine.active = Weighted(engine)
    BY <1>3, <1>4 DEF IsEngine, Waiting
  <2>6. \A l \in Weighted(engine) : ~(engine.wght[l] <= 0)
    BY <1>3 DEF IsEngine, PositiveWeights, Weighted
  <2>3. ~b
    BY <2>1, <2>2, <2>6, Zenon
  <2>4. f = [engine EXCEPT !.thrown = b]
    BY <1>1, <2>1, Zenon
  <2>5. Sound(f, hard, Assumed, declared)
    BY <1>2, <2>3, <2>4, SearchFacts, NothingThrown
  <2> QED
    BY <2>1, <2>5
<1> QED
  BY <1>1, <1>2, <1>5, ReturnKeeps

(***************************************************************************)
(* A stratum.                                                              *)
(***************************************************************************)
\* A charge keeps what waits listed.
LEMMA ChargingListed ==
  ASSUME IndInv, pc \in Within, NEW f, NEW E, IsFiniteSet(E), \A entry \in E : entry[1] \in Nat,
         Sound(f, hard, Assumed, declared), Relists(engine, f, strata.level, E)
  PROVE  Listed(f, Listing(E \cup Relisted(f)))
<1>1. Solving
  BY DEF Within, Solving
<1>2. IsEngine(engine) /\ Listed(engine, strata) /\ IsEngine(f)
  BY <1>1, SearchFacts DEF Sound
<1>3. PICK t : t = Listing(E \cup Relisted(f))
  OBVIOUS
<1>4. Listed(f, t)
  BY <1>2, <1>3, ChargeListed
<1> QED
  BY <1>3, <1>4

\* The same without entries of its own.
LEMMA ChargedListed ==
  ASSUME IndInv, pc \in Within, NEW f, Sound(f, hard, Assumed, declared),
         Relists(engine, f, strata.level, {})
  PROVE  Listed(f, Listing(Relisted(f))) /\ Listed(f, Listing({} \cup Relisted(f)))
<1>1. PICK E : E = {}
  OBVIOUS
<1>2. IsFiniteSet(E) /\ (\A entry \in E : entry[1] \in Nat)
      /\ Relists(engine, f, strata.level, E)
  BY <1>1, FS_EmptySet
<1>3. Listed(f, Listing(E \cup Relisted(f)))
  BY <1>2, ChargingListed
<1>4. {} \cup Relisted(f) = Relisted(f)
  OBVIOUS
<1> QED
  BY <1>1, <1>3, <1>4

\* A charge within a stratum that leaves no clique unfinished.
LEMMA ChargedKeeps ==
  ASSUME IndInv, pc \in Within, NEW next \in Within, NEW f,
         Sound(f, hard, Assumed, declared), Relists(engine, f, strata.level, {}),
         Charged(f, next), clique' = clique, pc # "cliques"
  PROVE  IndInv'
<1>1. /\ engine' = f /\ pc' = next /\ strata' = Listing({} \cup Relisted(f))
      /\ UNCHANGED <<profile, hard, assumptions, weights, last_assumptions, history>>
  BY DEF Charged, Charging, client
<1>2. Solving /\ Solving' /\ pc' \in Phases /\ pc' \in Within
  BY <1>1 DEF Solving, Phases, Within
<1>3. Listed(engine', strata')
  BY <1>1, ChargedListed
<1>4. StrataInv'
  BY <1>2, <1>3 DEF StrataInv, Within
<1>5. CliqueInv'
  BY DEF IndInv, CliqueInv
<1>0. pc # "boot"
  BY DEF Within
<1> QED
  BY <1>0, <1>1, <1>2, <1>4, <1>5, SearchStep

\* The base is satisfiable while a call searches: its check changes nothing.
LEMMA BaseStands ==
  ASSUME IndInv, Solving, pc \in Within, NEW b, b = (engine.thrown \/ ~Satisfiable(Base)),
         NEW g, g = [engine EXCEPT !.thrown = b]
  PROVE  /\ Sound(g, hard, Assumed, declared) /\ g.cost = engine.cost /\ g.wght = engine.wght
         /\ g.active = engine.active /\ g.impossible = engine.impossible
<1>1. ~b
  <2>1. Satisfiable(Assumed)
    BY DEF IndInv, BaseInv
  <2>2. Satisfiable(Base)
    BY <2>1, SearchFacts, BaseFollows DEF Base, Satisfiable
  <2>3. ~engine.thrown
    BY SearchFacts DEF IsEngine
  <2> QED
    BY <2>2, <2>3, Zenon
<1>2. Sound(engine, hard, Assumed, declared)
  BY SearchFacts
<1> QED
  BY <1>1, <1>2, NothingThrown

\* Charging the literals the base falsifies.
LEMMA UnitsFromBaseKeeps ==
  ASSUME IndInv, UnitsFromBase
  PROVE  IndInv'
<1>1. pc = "activated" /\ clique' = clique
  BY DEF UnitsFromBase
<1>2. Solving /\ pc \in Within
  BY <1>1 DEF Solving, Within
<1>3. PICK b, g : /\ b = (engine.thrown \/ ~Satisfiable(Base))
                  /\ g = [engine EXCEPT !.thrown = b]
  OBVIOUS
<1>4. PICK forced \in SUBSET Forced :
         Charged(UnitsCharged(g, Base, strata.level, forced), "units")
  BY <1>3 DEF UnitsFromBase, UnitsCharged
<1>6. /\ Sound(g, hard, Assumed, declared) /\ IsEngine(g)
      /\ g.wght = engine.wght /\ g.active = engine.active /\ g.impossible = engine.impossible
  BY <1>2, <1>3, BaseStands DEF Sound
<1>7. PICK B, f : B = Base /\ f = UnitsCharged(g, B, strata.level, forced)
  OBVIOUS
<1>8. /\ B = Assumed \cup g.impossible /\ forced \subseteq g.active \ B
      /\ \A x \in forced : ~IsSum(x) /\ hard \cap ModelsOf(B \cup {x}) = {}
  BY <1>4, <1>6, <1>7 DEF Base, Forced, Selectors, Satisfiable
<1>9. UnitsTaken(g, f, hard, Assumed, declared, forced)
  BY <1>2, <1>6, <1>7, <1>8, SearchFacts, UnitsSound
<1>10. Relists(engine, f, strata.level, {})
  <2>1. Below(g, strata.level)
    BY <1>2, <1>6, SearchFacts DEF Below, Weighted
  <2>2. Relists(g, f, strata.level, {})
    BY <1>2, <1>6, <1>9, <2>1, SearchFacts, UnitsRelist DEF UnitsTaken
  <2> QED
    BY <1>6, <2>2 DEF Relists, Weighted
<1>11. Charged(f, "units") /\ "units" \in Within
  BY <1>4, <1>7 DEF Within
<1> QED
  BY <1>1, <1>2, <1>9, <1>10, <1>11, ChargedKeeps DEF UnitsTaken

\* Charging a core within a stratum.
LEMMA CoreCharged ==
  ASSUME IndInv, pc \in Within, NEW core, NEW base, base \subseteq Base,
         core \ base \subseteq engine.active, core \ base # {}, ~Satisfiable(core),
         NEW f, f = ProcessCore(engine, core, base, strata.level)
  PROVE  Sound(f, hard, Assumed, declared) /\ Relists(engine, f, strata.level, {})
<1>1. Solving
  BY DEF Within, Solving
<1>2. /\ base \cap core \subseteq Assumed \cup engine.impossible
      /\ hard \cap ModelsOf(core) = {}
  BY DEF Base, Satisfiable
<1>3. core \ base \subseteq Weighted(engine)
  BY <1>1, SearchFacts DEF IsEngine
<1>4. Sound(f, hard, Assumed, declared)
  BY <1>1, <1>2, <1>3, SearchFacts, ProcessCoreSound
<1>5. Relists(engine, f, strata.level, {})
  BY <1>1, <1>3, SearchFacts, ProcessCoreRelists
<1> QED
  BY <1>4, <1>5

\* Charging a literal the hard clauses falsify.
LEMMA UnitFromHardKeeps ==
  ASSUME IndInv, UnitFromHard
  PROVE  IndInv'
<1>1. pc \in {"units", "conflicts"} /\ clique' = clique
  BY DEF UnitFromHard
<1>2. pc \in Within /\ "conflicts" \in Within /\ pc # "cliques"
  BY <1>1 DEF Within
<1>3. PICK l \in Selectors : /\ ~Satisfiable({l})
                             /\ Charged(ProcessCore(engine, {l}, {}, strata.level), "conflicts")
  BY DEF UnitFromHard
<1>4. PICK core, base, f : /\ core = {l} /\ base = {}
                           /\ f = ProcessCore(engine, core, base, strata.level)
  OBVIOUS
<1>5. /\ base \subseteq Base /\ core \ base \subseteq engine.active /\ core \ base # {}
      /\ ~Satisfiable(core) /\ Charged(f, "conflicts")
  BY <1>3, <1>4 DEF Selectors
<1>6. Sound(f, hard, Assumed, declared) /\ Relists(engine, f, strata.level, {})
  BY <1>2, <1>4, <1>5, CoreCharged
<1> QED
  BY <1>1, <1>2, <1>5, <1>6, ChargedKeeps

\* Charging a core of the main loop, or ending the call.
LEMMA ChargeCoreKeeps ==
  ASSUME IndInv, ChargeCore
  PROVE  IndInv'
<1>1. pc = "loop" /\ clique' = clique /\ pc \in Within /\ Solving /\ "loop" \in Within
  BY DEF ChargeCore, Within, Solving
<1>2. PICK core \in Cores :
         IF core \subseteq Base
         THEN /\ Unsat
              /\ engine' = [engine EXCEPT !.thrown = @ \/ core = {}]
              /\ UNCHANGED <<weights, history, cursor, model>>
         ELSE Charged(ProcessCore(engine, core, Base, strata.level), "loop")
  BY DEF ChargeCore
<1>3. CASE core \subseteq Base
  <2>1. Return("UNSAT") /\ last_assumptions' = assumptions
        /\ UNCHANGED <<weights, history>>
    BY <1>2, <1>3 DEF Unsat
  <2>2. PICK b, f : b = (engine.thrown \/ core = {}) /\ f = engine'
    OBVIOUS
  <2>3. core # {}
    <3>1. Satisfiable(Assumed) /\ hard \subseteq Assignment
      BY <1>1, SearchFacts DEF IndInv, BaseInv
    <3>2. Satisfiable({})
      BY <3>1 DEF Satisfiable, ModelsOf
    <3> QED
      BY <3>2 DEF Cores
  <2>4. ~engine.thrown
    BY <1>1, SearchFacts DEF IsEngine
  <2>5. ~b
    BY <2>2, <2>3, <2>4, Zenon
  <2>6. f = [engine EXCEPT !.thrown = b]
    BY <1>2, <1>3, <2>2, Zenon
  <2>7. Sound(f, hard, Assumed, declared)
    BY <1>1, <2>5, <2>6, SearchFacts, NothingThrown
  <2> QED
    BY <1>1, <2>1, <2>2, <2>7, ReturnKeeps
<1>4. CASE ~(core \subseteq Base)
  <2>1. PICK B, f : B = Base /\ f = ProcessCore(engine, core, B, strata.level)
    OBVIOUS
  <2>2. /\ B \subseteq Base /\ core \ B \subseteq engine.active /\ core \ B # {}
        /\ ~Satisfiable(core) /\ Charged(f, "loop")
    BY <1>2, <1>4, <2>1 DEF Cores, Queried
  <2>3. Sound(f, hard, Assumed, declared) /\ Relists(engine, f, strata.level, {})
    BY <1>1, <2>1, <2>2, CoreCharged
  <2> QED
    BY <1>1, <2>2, <2>3, ChargedKeeps
<1> QED
  BY <1>3, <1>4

\* What a round leaves of a clique still carries weight.
LEMMA CliqueLeaves ==
  ASSUME NEW e, IsEngine(e), NEW q \in SUBSET Weighted(e), NEW level,
         NEW f, f = ProcessClique(e, q, level)
  PROVE  CliqueRest(e, q) \subseteq q /\ CliqueRest(e, q) \subseteq Weighted(f)
<1>1. PICK w : w = LeastWeight(e, q)
  OBVIOUS
<1>2. CliqueEffect(e, f, q, level, w)
  BY <1>1, CliqueFields DEF IsEngine
<1>3. f.wght = Over(Maps(AnyOf(q), w), Reduced(e, q, w))
  BY <1>2 DEF CliqueEffect
<1>4. CliqueRest(e, q) = q \ Dead(e, q, w)
  BY <1>1 DEF CliqueRest
<1>5. DOMAIN Reduced(e, q, w) = Weighted(e) \ Dead(e, q, w)
  BY ReducedWeights
<1>6. DOMAIN Reduced(e, q, w) \subseteq Weighted(f)
  BY <1>3 DEF Over, Weighted
<1> QED
  BY <1>4, <1>5, <1>6

\* A round over a clique.
LEMMA CliqueRoundKeeps ==
  ASSUME IndInv, pc \in Within, NEW q, q \subseteq Weighted(engine), Cardinality(q) > 1,
         Exclusive(q), \A x \in q : ~IsSum(x), CliqueRound(q)
  PROVE  IndInv'
<1>1. PICK f : f = ProcessClique(engine, q, strata.level)
  OBVIOUS
<1>2. PICK E : E = {<<LeastWeight(engine, q), AnyOf(q)>>}
  OBVIOUS
<1>3. /\ engine' = f /\ pc' = "cliques" /\ strata' = Listing(E \cup Relisted(f))
      /\ clique' = CliqueRest(engine, q)
      /\ UNCHANGED <<profile, hard, assumptions, weights, last_assumptions, history>>
  BY <1>1, <1>2 DEF CliqueRound, Charging, client
<1>4. Solving /\ Solving' /\ pc' \in Phases /\ pc' \in Within
  BY <1>3 DEF Solving, Phases, Within
<1>5. IsEngine(engine) /\ q \in SUBSET Weighted(engine) /\ q # {}
  BY <1>4, SearchFacts, FS_EmptySet
<1>6. \A k, l \in q : k = l \/ hard \cap ModelsOf({k, l}) = {}
  BY DEF Exclusive, Satisfiable
<1>7. Sound(f, hard, Assumed, declared)
  BY <1>1, <1>4, <1>5, <1>6, SearchFacts, CliqueSound
<1>8. Relists(engine, f, strata.level, E)
  BY <1>1, <1>2, <1>4, <1>5, SearchFacts, CliqueRelists
<1>9. IsFiniteSet(E) /\ \A entry \in E : entry[1] \in Nat
  <2>1. PICK w : w = LeastWeight(engine, q)
    OBVIOUS
  <2>2. w \in Nat
    BY <1>5, <2>1, LeastOf
  <2>3. E = {<<w, AnyOf(q)>>}
    BY <1>2, <2>1
  <2>4. IsFiniteSet(E)
    BY <2>3, FS_Singleton
  <2> QED
    BY <2>2, <2>3, <2>4
<1>10. Listed(engine', strata')
  BY <1>3, <1>7, <1>8, <1>9, ChargingListed
<1>11. StrataInv'
  BY <1>3, <1>4, <1>10 DEF StrataInv
<1>12. CliqueInv'
  <2>1. clique' \subseteq q /\ clique' \subseteq Weighted(f)
    BY <1>1, <1>3, <1>5, CliqueLeaves
  <2>2. \A k, l \in clique' : k = l \/ hard' \cap ModelsOf({k, l}) = {}
    BY <1>3, <1>6, <2>1
  <2> QED
    BY <1>3, <2>1, <2>2 DEF CliqueInv, Exclusive, Satisfiable
<1>0. pc # "boot"
  BY DEF Within
<1> QED
  BY <1>0, <1>3, <1>4, <1>7, <1>11, <1>12, SearchStep

\* The first round over a clique of selectors keeps the invariant.
LEMMA StartCliqueKeeps ==
  ASSUME IndInv, StartClique
  PROVE  IndInv'
<1>1. pc \in Within
  BY DEF StartClique, Within
<1>2. Solving
  BY <1>1 DEF Within, Solving
<1>3. PICK q \in SUBSET Selectors : Cardinality(q) > 1 /\ Exclusive(q) /\ CliqueRound(q)
  BY DEF StartClique
<1>4. q \subseteq Weighted(engine) /\ \A x \in q : ~IsSum(x)
  BY <1>2, SearchFacts DEF Selectors, IsEngine
<1> QED
  BY <1>1, <1>3, <1>4, CliqueRoundKeeps

\* So does every later round.
LEMMA ContinueCliqueKeeps ==
  ASSUME IndInv, ContinueClique
  PROVE  IndInv'
<1>1. pc \in Within /\ Cardinality(clique) > 1 /\ CliqueRound(clique)
  BY DEF ContinueClique, Within
<1>2. clique # {}
  BY <1>1, FS_EmptySet
<1>3. clique \subseteq Weighted(engine) /\ Exclusive(clique) /\ \A x \in clique : ~IsSum(x)
  BY <1>2 DEF IndInv, CliqueInv
<1> QED
  BY <1>1, <1>3, CliqueRoundKeeps

\* Turning to the remembered cores changes nothing that the invariant says.
LEMMA StartReplayKeeps ==
  ASSUME IndInv, StartReplay
  PROVE  IndInv'
<1>1. /\ pc \in Within /\ pc' = "replay" /\ clique' = {}
      /\ UNCHANGED <<profile, hard, assumptions, weights, last_assumptions, history,
                     engine, strata>>
  BY DEF StartReplay, Within, client
<1>2. Solving /\ Solving' /\ pc' \in Phases /\ pc' \in Within
  BY <1>1 DEF Solving, Phases, Within
<1>3. Listed(engine, strata) /\ Sound(engine', hard, Assumed, declared)
  BY <1>1, <1>2, SearchFacts
<1>4. StrataInv'
  BY <1>1, <1>2, <1>3 DEF StrataInv
<1>5. CliqueInv'
  BY <1>1 DEF CliqueInv
<1>0. pc # "boot"
  BY <1>1 DEF Within
<1> QED
  BY <1>0, <1>1, <1>2, <1>3, <1>4, <1>5, SearchStep

\* The entries of a sequence without one of them.
LEMMA FewerEpochs ==
  ASSUME NEW h, NEW H, NEW r, Epochs(h, H, r), NEW i \in DOMAIN h, NEW g, g = RemoveAt(h, i)
  PROVE  Epochs(g, H, r)
<1> DEFINE E == {h[k] : k \in DOMAIN h}
<1>1. DOMAIN h = 1 .. Len(h) /\ Len(h) \in Nat
  BY DEF Epochs
<1>2. h \in Seq(E)
  BY <1>1 DEF Epochs
<1>3. \A x \in E : IsEpoch(x, H, r)
  BY DEF Epochs
<1> HIDE DEF E
<1>4. g = SubSeq(h, 1, i - 1) \o SubSeq(h, i + 1, Len(h))
  BY DEF RemoveAt
<1>5. SubSeq(h, 1, i - 1) \in Seq(E)
  BY <1>1, <1>2
<1>6. SubSeq(h, i + 1, Len(h)) \in Seq(E)
  BY <1>1, <1>2
<1>7. g \in Seq(E)
  BY <1>4, <1>5, <1>6
<1>8. \A k \in DOMAIN g : g[k] \in E
  BY <1>7
<1> QED
  BY <1>3, <1>7, <1>8 DEF Epochs

\* The first core to replay.
LEMMA FirstReplayable ==
  ASSUME Epochs(history, hard, profile.replay), Replayable # {}
  PROVE  Min(Replayable) \in Replayable
<1>1. Replayable \in SUBSET Nat
  BY DEF Replayable, Epochs
<1> HIDE DEF Replayable
<1>2. PICK i \in Replayable : \A k \in Replayable : i <= k
  BY <1>1, LeastNumber
<1> QED
  BY <1>2 DEF Min

\* Replaying a remembered core keeps the invariant: the core is a core of the
\* clauses of its epoch, which are still there.
LEMMA ReplayCoreKeeps ==
  ASSUME IndInv, ReplayCore
  PROVE  IndInv'
<1> DEFINE i == Min(Replayable)
           core == history[i].core
<1>1. /\ pc = "replay" /\ Replayable # {} /\ clique' = clique /\ UNCHANGED weights
      /\ IF core \subseteq Base
         THEN Unsat /\ UNCHANGED <<engine, history, cursor>>
         ELSE /\ engine' = ProcessCore(engine, core, Base, strata.level)
              /\ strata' = Listing(Relisted(engine'))
              /\ history' = RemoveAt(history, i)
              /\ UNCHANGED <<client, last_assumptions, pc>>
  BY DEF ReplayCore
<1>2. pc \in Within /\ Solving
  BY <1>1 DEF Within, Solving
<1>3. Epochs(history, hard, profile.replay)
  BY DEF IndInv, HistoryInv
<1>4. i \in Replayable
  BY <1>1, <1>3, FirstReplayable
<1>5. i \in DOMAIN history /\ core \subseteq Queried /\ ~Satisfiable(core)
  BY <1>3, <1>4 DEF Replayable, Epochs, IsEpoch, Satisfiable
<1> HIDE DEF core, i
<1>6. CASE core \subseteq Base
  <2>1. Return("UNSAT") /\ last_assumptions' = assumptions
        /\ UNCHANGED <<weights, history, engine>>
    BY <1>1, <1>6 DEF Unsat
  <2> QED
    BY <1>1, <1>2, <2>1, SearchFacts, ReturnKeeps
<1>7. CASE ~(core \subseteq Base)
  <2>1. PICK B, f : B = Base /\ f = ProcessCore(engine, core, B, strata.level)
    OBVIOUS
  <2>2. /\ B \subseteq Base /\ core \ B \subseteq engine.active /\ core \ B # {}
    BY <1>5, <1>7, <2>1 DEF Queried
  <2>3. Sound(f, hard, Assumed, declared) /\ Relists(engine, f, strata.level, {})
    BY <1>2, <1>5, <2>1, <2>2, CoreCharged
  <2>4. /\ engine' = f /\ strata' = Listing(Relisted(f)) /\ history' = RemoveAt(history, i)
        /\ UNCHANGED <<profile, hard, assumptions, weights, last_assumptions, pc>>
    BY <1>1, <1>7, <2>1 DEF client
  <2>5. Solving' /\ pc' = "replay"
    BY <1>1, <2>4 DEF Solving
  <2>6. Listed(engine', strata')
    BY <1>2, <2>3, <2>4, ChargedListed
  <2>7. ClientInv'
    BY <2>4 DEF IndInv, ClientInv
  <2>8. WeightsInv'
    BY <1>2, <2>4 DEF IndInv, WeightsInv, weights
  <2>9. EngineInv'
    BY <2>3, <2>4, <2>5 DEF EngineInv, weights, Relied, Assumed, LitsOf
  <2>10. StrataInv'
    BY <2>5, <2>6 DEF StrataInv
  <2>11. CliqueInv'
    BY <1>1 DEF IndInv, CliqueInv
  <2>12. HistoryInv'
    <3>1. PICK g : g = history'
      OBVIOUS
    <3>2. Epochs(g, hard, profile.replay)
      BY <1>3, <1>5, <2>4, <3>1, FewerEpochs
    <3> QED
      BY <2>4, <3>1, <3>2 DEF HistoryInv
  <2>13. BaseInv'
    BY <1>1, <2>4, <2>5 DEF IndInv, BaseInv, Within, Satisfiable, Assumed
  <2> QED
    BY <2>7, <2>8, <2>9, <2>10, <2>11, <2>12, <2>13 DEF IndInv
<1> QED
  BY <1>6, <1>7

\* Going back to the search keeps the invariant.
LEMMA EndReplayKeeps ==
  ASSUME IndInv, EndReplay
  PROVE  IndInv'
<1>1. /\ pc = "replay" /\ UNCHANGED <<weights, history, engine>> /\ clique' = clique
      /\ IF profile.replay = 0 THEN Unsat
         ELSE pc' = "loop" /\ UNCHANGED <<client, last_assumptions, strata>>
  BY DEF EndReplay
<1>2. pc \in Within /\ Solving
  BY <1>1 DEF Within, Solving
<1>3. CASE profile.replay = 0
  BY <1>1, <1>2, <1>3, SearchFacts, ReturnKeeps DEF Unsat
<1>4. CASE profile.replay # 0
  <2>1. /\ pc' = "loop" /\ Solving' /\ pc' \in Phases
        /\ UNCHANGED <<profile, hard, assumptions, weights, last_assumptions, history,
                       engine, strata>>
    BY <1>1, <1>4 DEF client, Solving, Phases, Within
  <2>2. StrataInv'
    BY <1>2, <2>1, SearchFacts DEF StrataInv
  <2>3. CliqueInv'
    BY <1>1 DEF IndInv, CliqueInv
  <2>4. Sound(engine', hard, Assumed, declared)
    BY <1>2, <2>1, SearchFacts
  <2>5. pc # "boot"
    BY <1>1
  <2> QED
    BY <1>2, <2>1, <2>2, <2>3, <2>4, <2>5, SearchStep
<1> QED
  BY <1>3, <1>4

\* A stratum is solved: what is below its level has not had its turn.
LEMMA StratumSolvedKeeps ==
  ASSUME IndInv, StratumSolved
  PROVE  IndInv'
<1>1. /\ pc = "loop" /\ pc' = "stratum" /\ UNCHANGED <<client, weights, search>>
  BY DEF StratumSolved
<1>2. Solving /\ Solving' /\ pc \in Within /\ pc' \in Phases
  BY <1>1 DEF Solving, Phases, Within
<1>3. Listed(engine, strata) /\ \A l \in Weighted(engine) : engine.wght[l] \in Nat
  BY <1>2, SearchFacts DEF IsEngine, PositiveWeights, Weighted
<1>4. Ranked(engine, strata)
  BY <1>3, ListedIsRanked
<1>5. StrataInv'
  BY <1>1, <1>4 DEF StrataInv, search, Within
<1>6. CliqueInv'
  BY <1>1 DEF IndInv, CliqueInv, search
<1>7. Sound(engine', hard, Assumed, declared)
  BY <1>1, <1>2, SearchFacts DEF search
<1> QED
  BY <1>1, <1>2, <1>5, <1>6, <1>7, SearchStep DEF client, search

(***************************************************************************)
(* The theorems.                                                           *)
(***************************************************************************)
\* The conjuncts of the invariant are kept by every step.
LEMMA StepKeeps ==
  ASSUME IndInv, Next
  PROVE  IndInv'
<1>1. CASE Client
  BY <1>1, CallsKeep, FinishHardKeeps, AddSoftLitKeeps DEF Client
<1>2. CASE Preprocess
  BY <1>2, UnitsFromBaseKeeps, UnitFromHardKeeps, StartCliqueKeeps, ContinueCliqueKeeps
     DEF Preprocess
<1>3. CASE Replay
  BY <1>3, StartReplayKeeps, ReplayCoreKeeps, EndReplayKeeps DEF Replay
<1>4. CASE Search
  BY <1>2, <1>3, <1>4, CallbackStopsKeeps, RollbackKeeps, CancelContradictionKeeps,
     BootUnsatKeeps, BootSatKeeps, NextLevelKeeps, FinishKeeps, StratumSolvedKeeps,
     ChargeCoreKeeps
     DEF Search
<1> QED
  BY <1>1, <1>4 DEF Next

\* A step that changes nothing keeps the invariant.
LEMMA StutterKeeps ==
  ASSUME IndInv, UNCHANGED vars
  PROVE  IndInv'
<1>1. UNCHANGED <<profile, hard, assumptions, declared, transition, last_assumptions,
                  history, engine, strata, clique, pc>>
  BY DEF vars, client, weights, search
<1>2. ClientInv' /\ WeightsInv'
  BY <1>1 DEF IndInv, ClientInv, WeightsInv, Solving
<1>3. EngineInv'
  BY <1>1 DEF IndInv, EngineInv, Relied, Solving
<1>4. StrataInv'
  BY <1>1 DEF IndInv, StrataInv
<1>5. CliqueInv'
  BY <1>1 DEF IndInv, CliqueInv, Exclusive, Satisfiable
<1>6. HistoryInv'
  BY <1>1 DEF IndInv, HistoryInv
<1>7. BaseInv'
  BY <1>1 DEF IndInv, BaseInv, Satisfiable, Assumed
<1> QED
  BY <1>2, <1>3, <1>4, <1>5, <1>6, <1>7 DEF IndInv

\* In every reachable state the engine is sound for the assumptions it relies on,
\* the strata miss no literal, and the history holds cores.
THEOREM Invariance == Spec => []IndInv
<1>1. Init => IndInv
  BY InitHolds
<1>2. IndInv /\ [Next]_vars => IndInv'
  BY StepKeeps, StutterKeeps
<1> QED
  BY <1>1, <1>2, PTL DEF Spec

\* None of the consistency checks that RC2Engine lists throws: those of the rollback
\* (rc2_solver.cc 489-567), of the base (655), of the cores (1063, 1092), of the
\* totalizer counters (1155-1187) and of the end of the strata (1655-1669).
THEOREM NothingIsThrown == Spec => []NeverThrows
<1>1. IndInv => NeverThrows
  BY DEF IndInv, EngineInv, Sound, IsEngine, NeverThrows
<1> QED
  BY <1>1, Invariance, PTL

\* A core kept for replay is a core of the clauses there are.
THEOREM KeptCoresAreCores == Spec => []HistoryHoldsCores
<1>1. IndInv => HistoryHoldsCores
  BY DEF IndInv, HistoryInv, Epochs, IsEpoch, HistoryHoldsCores, Satisfiable
<1> QED
  BY <1>1, Invariance, PTL

\* What satisfies the literals assumed.
LEMMA AssumedHold ==
  ASSUME NEW s, NEW m \in Assignment, SatisfiesAll(m, s)
  PROVE  \A x \in LitsOf(s) : m \in x.sat
  BY OrigFields DEF LitsOf, SatisfiesAll

\* What the search takes for impossible follows from the assumptions of its call.
THEOREM ImpossibleFollows == Spec => []ImpossibleIsImplied
<1>1. ASSUME IndInv PROVE ImpossibleIsImplied
  <2> SUFFICES ASSUME Solving, NEW m \in hard, SatisfiesAll(m, assumptions),
                      NEW l \in engine.impossible
               PROVE  m \in l.sat
    BY DEF ImpossibleIsImplied
  <2>1. Sound(engine, hard, LitsOf(assumptions), declared) /\ hard \subseteq Assignment
    BY <1>1 DEF IndInv, EngineInv, Relied, ClientInv
  <2>2. PICK i \in DOMAIN engine.log : l \in Units(engine.log[i])
    BY <2>1 DEF Sound, Ledger
  <2>3. \A x \in LitsOf(assumptions) : m \in x.sat
    BY <2>1, AssumedHold
  <2> QED
    BY <2>1, <2>2, <2>3, UnitsFollow
<1> QED
  BY <1>1, Invariance, PTL

(***************************************************************************)
(* The reformulation is exact: the sum of what the consequences did.       *)
(***************************************************************************)
\* What a literal leaves unpaid is one or nothing.
LEMMA UnmetType ==
  ASSUME NEW x, NEW m
  PROVE  Unmet(x, m) = 0 \/ Unmet(x, m) = 1
  BY DEF Unmet

\* What a consequence changes, summed over a larger set.
LEMMA UnmetOver ==
  ASSUME NEW c, IsEntry(c), NEW m, NEW U, IsFiniteSet(U), DOMAIN c.wdelta \subseteq U,
         NEW F, \A x \in U : F[x] = Unmet(x, m) * Change(c, x)
  PROVE  UnmetIn(c, m) = SumFunctionOnSet(F, U)
<1> DEFINE S == DOMAIN c.wdelta
           G == [x \in S |-> UnmetPart(c, x, m)]
<1>1. Integral(F, U)
  <2>1. \A x \in U : Change(c, x) \in Int
    BY ChangeType
  <2>2. \A x \in U : F[x] \in Int
    <3> TAKE x \in U
    <3>1. F[x] = Unmet(x, m) * Change(c, x) /\ Change(c, x) \in Int
      BY <2>1
    <3>2. Unmet(x, m) = 0 \/ Unmet(x, m) = 1
      BY UnmetType
    <3> QED
      BY <3>1, <3>2
  <2> QED
    BY <2>2 DEF Integral
<1>2. \A x \in U \ S : F[x] = 0
  <2> TAKE x \in U \ S
  <2>1. F[x] = Unmet(x, m) * Change(c, x) /\ Change(c, x) = 0
    BY DEF Change
  <2>2. Unmet(x, m) = 0 \/ Unmet(x, m) = 1
    BY UnmetType
  <2> QED
    BY <2>1, <2>2
<1>3. \A x \in S : G[x] = F[x]
  <2> TAKE x \in S
  <2>1. F[x] = Unmet(x, m) * c.wdelta[x] /\ G[x] = c.wdelta[x] * Unmet(x, m)
    BY DEF Change, UnmetPart
  <2>2. c.wdelta[x] \in Int
    BY DEF IsEntry
  <2>3. Unmet(x, m) = 0 \/ Unmet(x, m) = 1
    BY UnmetType
  <2> QED
    BY <2>1, <2>2, <2>3
<1>4. UnmetIn(c, m) = SumFunctionOnSet(G, S)
  BY DEF UnmetIn
<1> HIDE DEF S, G
<1>5. S \in SUBSET U
  BY DEF S
<1>6. SumFunctionOnSet(F, U) = SumFunctionOnSet(F, S)
  BY <1>1, <1>2, <1>5, SumSupport
<1>7. SumFunctionOnSet(G, S) = SumFunctionOnSet(F, S)
  BY <1>1, <1>3, <1>5, IntegralSubset, SumSame
<1> QED
  BY <1>4, <1>6, <1>7

\* What the consequences D of log change, by consequences and by literals.
UnmetTable(log, D, m, U, P, C) ==
  /\ IsFiniteSet(D) /\ \A i \in D : IsEntry(log[i]) /\ DOMAIN log[i].wdelta \subseteq U
  /\ IsFiniteSet(U)
  /\ \A i \in D : P[i] = UnmetIn(log[i], m)
  /\ \A x \in U : C[x] = Unmet(x, m) * Changes(log, D, x)

\* The sum over the consequences is the sum over the literals.
LEMMA UnmetExchanged ==
  ASSUME NEW log, NEW D, NEW m, NEW U, NEW P, NEW C, UnmetTable(log, D, m, U, P, C)
  PROVE  SumFunctionOnSet(P, D) = SumFunctionOnSet(C, U)
<1> USE DEF UnmetTable
<1> DEFINE F == [i \in D |-> [x \in U |-> Unmet(x, m) * Change(log[i], x)]]
<1>1. \A i \in D : \A x \in U : F[i][x] = Unmet(x, m) * Change(log[i], x)
  OBVIOUS
<1>2. \A i \in D, x \in U : F[i][x] \in Int
  <2> TAKE i \in D, x \in U
  <2>1. F[i][x] = Unmet(x, m) * Change(log[i], x) /\ Change(log[i], x) \in Int
    BY ChangeType
  <2>2. Unmet(x, m) = 0 \/ Unmet(x, m) = 1
    BY UnmetType
  <2> HIDE DEF F
  <2> QED
    BY <2>1, <2>2
<1> DEFINE T == [x \in U |-> [i \in D |-> F[i][x]]]
<1>3. \A y \in U : C[y] = SumFunctionOnSet(T[y], D)
  <2> TAKE y \in U
  <2> DEFINE H == [i \in D |-> F[i][y]]
             K == [i \in D |-> Change(log[i], y)]
  <2>1. Integral(K, D)
    BY ChangesIntegral
  <2>2. \A i \in D : H[i] = Unmet(y, m) * K[i]
    OBVIOUS
  <2>3. Unmet(y, m) \in Int
    BY UnmetType
  <2>4. SumFunctionOnSet(K, D) = Changes(log, D, y)
    BY DEF Changes
  <2> HIDE DEF H, K
  <2>5. PICK u : u = Unmet(y, m)
    OBVIOUS
  <2>6. SumFunctionOnSet(H, D) = u * SumFunctionOnSet(K, D)
    BY <2>1, <2>2, <2>3, <2>5, SumScale
  <2>7. C[y] = u * Changes(log, D, y)
    BY <2>5
  <2>8. C[y] = SumFunctionOnSet(H, D)
    BY <2>4, <2>6, <2>7
  <2> QED
    BY <2>8 DEF H
<1>5. \A x \in U : \A i \in D : T[x][i] = F[i][x]
  OBVIOUS
<1> HIDE DEF T, F
<1>4. \A i \in D : P[i] = SumFunctionOnSet(F[i], U)
  <2> TAKE i \in D
  <2>1. PICK G, c : G = F[i] /\ c = log[i]
    OBVIOUS
  <2>2. IsEntry(c) /\ DOMAIN c.wdelta \subseteq U /\ \A x \in U : G[x] = Unmet(x, m) * Change(c, x)
    BY <1>1, <2>1
  <2>3. UnmetIn(c, m) = SumFunctionOnSet(G, U)
    BY <2>2, UnmetOver
  <2> QED
    BY <2>1, <2>3
<1>6. Table(F, T, P, C, D, U)
  BY <1>2, <1>3, <1>4, <1>5 DEF Table
<1> QED
  BY <1>6, SumExchange

\* What the weights of the engine leave unpaid.
LEMMA WeightsOwed ==
  ASSUME NEW e, IsEngine(e), NEW U, IsFiniteSet(U), Weighted(e) \subseteq U, NEW m,
         NEW G, \A x \in U : G[x] = Unmet(x, m) * WeightIn(e, x)
  PROVE  SumFunctionOnSet(G, U) = SumFunctionOnSet(e.wght, Unpaid(e, m))
<1> DEFINE S == Unpaid(e, m)
           W == e.wght
<1>1. \A x \in U : WeightIn(e, x) \in Int
  BY WeightType
<1>2. \A x \in U : G[x] \in Int
  <2> TAKE x \in U
  <2>1. G[x] = Unmet(x, m) * WeightIn(e, x) /\ WeightIn(e, x) \in Int
    BY <1>1
  <2>2. Unmet(x, m) = 0 \/ Unmet(x, m) = 1
    BY UnmetType
  <2> QED
    BY <2>1, <2>2
<1>3. S \in SUBSET U
  BY DEF Unpaid
<1>4. \A x \in U \ S : G[x] = 0
  <2> TAKE x \in U \ S
  <2>1. G[x] = Unmet(x, m) * WeightIn(e, x) /\ WeightIn(e, x) \in Int
    BY <1>1
  <2>2. Unmet(x, m) = 0 \/ WeightIn(e, x) = 0
    BY DEF Unpaid, Unmet, WeightIn, Weighted
  <2>3. Unmet(x, m) = 0 \/ Unmet(x, m) = 1
    BY UnmetType
  <2> QED
    BY <2>1, <2>2, <2>3
<1>5. \A x \in S : W[x] = G[x]
  <2> TAKE x \in S
  <2>1. G[x] = Unmet(x, m) * WeightIn(e, x) /\ WeightIn(e, x) \in Int
    BY <1>1, <1>3
  <2>2. Unmet(x, m) = 1 /\ WeightIn(e, x) = e.wght[x]
    BY DEF Unpaid, Unmet, WeightIn, Weighted
  <2> QED
    BY <2>1, <2>2
<1> HIDE DEF S, W
<1>6. Integral(G, U)
  BY <1>2 DEF Integral
<1>7. SumFunctionOnSet(G, U) = SumFunctionOnSet(G, S)
  BY <1>3, <1>4, <1>6, SumSupport
<1>8. SumFunctionOnSet(W, S) = SumFunctionOnSet(G, S)
  BY <1>3, <1>5, <1>6, IntegralSubset, SumSame
<1> QED
  BY <1>7, <1>8 DEF S, W

\* A literal holds exactly when its negation does not.
LEMMA HoldsNegated ==
  ASSUME NEW l \in Lit, NEW m
  PROVE  Holds(m, -l) <=> ~Holds(m, l)
  BY LitNotZero DEF Holds

\* What the declared weights leave unpaid is what an assignment costs.
LEMMA DeclaredOwed ==
  ASSUME NEW d, \A l \in DOMAIN d : d[l] \in Nat, NEW U, IsFiniteSet(U), Originals \subseteq U,
         NEW m \in Assignment, NEW B, \A x \in U : B[x] = Unmet(x, m) * Declared(d, x)
  PROVE  SumFunctionOnSet(B, U) = Cost(ClientSoft(d), m)
<1> DEFINE T == {l \in Lit : Holds(m, l)}
           r == Restrict(ClientSoft(d), T)
           b == [l \in T |-> Orig(-l)]
           S == {Orig(-l) : l \in T}
<1>1. Cost(ClientSoft(d), m) = TotalWeight(r)
  <2>1. DOMAIN ClientSoft(d) = Lit
    BY DEF ClientSoft
  <2> QED
    BY <2>1 DEF Cost
<1>2. DOMAIN r = T /\ \A l \in T : r[l] = IF -l \in DOMAIN d THEN d[-l] ELSE 0
  BY DEF Restrict, ClientSoft
<1>3. IsFiniteSet(T)
  BY LitFinite, FS_Subset
<1>4. \A l \in T : r[l] \in Nat
  BY <1>2
<1>5. \A x : Declared(d, x) \in Nat
  BY DEF Declared
<1>6. \A l \in T : Unmet(Orig(-l), m) = 1 /\ Orig(-l) \in Originals /\ Orig(-l).name = -l
  <2> TAKE l \in T
  <2>1. -l \in Lit /\ ~Holds(m, -l)
    BY HoldsNegated, LitNotZero
  <2> QED
    BY <2>1, OrigFields DEF Unmet, Originals
<1>7. \A l \in T : r[l] = B[b[l]]
  <2> TAKE l \in T
  <2>1. b[l] = Orig(-l) /\ Orig(-l) \in U
    BY <1>6
  <2>2. Declared(d, Orig(-l)) = r[l]
    BY <1>2, <1>6 DEF Declared
  <2>3. B[Orig(-l)] = Unmet(Orig(-l), m) * Declared(d, Orig(-l))
    BY <2>1
  <2> HIDE DEF b
  <2> QED
    BY <1>4, <1>6, <2>1, <2>2, <2>3
<1>8. \A x \in U : B[x] \in Int
  <2> TAKE x \in U
  <2>1. B[x] = Unmet(x, m) * Declared(d, x) /\ Declared(d, x) \in Nat
    BY <1>5
  <2>2. Unmet(x, m) = 0 \/ Unmet(x, m) = 1
    BY UnmetType
  <2> QED
    BY <2>1, <2>2
<1>9. \A x \in U \ S : B[x] = 0
  <2> TAKE x \in U \ S
  <2>1. B[x] = Unmet(x, m) * Declared(d, x) /\ Declared(d, x) \in Nat
    BY <1>5
  <2>2. CASE x \notin Originals
    <3>1. Declared(d, x) = 0
      BY <2>2 DEF Declared
    <3>2. Unmet(x, m) = 0 \/ Unmet(x, m) = 1
      BY UnmetType
    <3> QED
      BY <2>1, <3>1, <3>2
  <2>3. CASE x \in Originals
    <3>1. PICK k \in Lit : x = Orig(k)
      BY <2>3 DEF Originals
    <3>2. -k \in Lit /\ -(-k) = k
      BY LitNotZero
    <3>3. -k \notin T
      BY <3>1, <3>2
    <3>4. Holds(m, k)
      BY <3>2, <3>3, HoldsNegated
    <3>5. Unmet(x, m) = 0
      BY <3>1, <3>4, OrigFields DEF Unmet
    <3> QED
      BY <2>1, <3>5
  <2> QED
    BY <2>2, <2>3
<1>10. /\ b \in [T -> S]
       /\ \A k, l \in T : b[k] = b[l] => k = l
       /\ \A x \in S : \E l \in T : b[l] = x
  <2>1. \A k, l \in T : -k = -l => k = l
    BY LitNotZero
  <2>2. \A k, l \in T : b[k] = b[l] => k = l
    <3> SUFFICES ASSUME NEW k \in T, NEW l \in T, Orig(-k) = Orig(-l) PROVE k = l
      OBVIOUS
    <3>1. -k = -l
      BY OrigFields
    <3> QED
      BY <2>1, <3>1
  <2> QED
    BY <2>2
<1>11. S \in SUBSET U
  BY <1>6
<1> HIDE DEF T, r, b, S
<1>12. Integral(B, U)
  BY <1>8 DEF Integral
<1>13. SumFunctionOnSet(B, U) = SumFunctionOnSet(B, S)
  BY <1>9, <1>11, <1>12, SumSupport
<1>14. SumFunctionOnSet(r, T) = SumFunctionOnSet(B, S)
  BY <1>3, <1>7, <1>10, <1>11, <1>12, IntegralSubset, SumRename
<1>15. TotalWeight(r) = SumFunctionOnSet(r, T)
  <2>1. \A l \in DOMAIN r : r[l] \in Int
    BY <1>2, <1>4
  <2> QED
    BY <1>2, <1>3, <2>1, TotalWeightIsSum
<1> QED
  BY <1>1, <1>13, <1>14, <1>15

\* What the consequences did to the weights an assignment leaves unpaid.
UnmetBalance(e, D, d, m, p) ==
  p + Cost(ClientSoft(d), m) = SumFunctionOnSet(e.wght, Unpaid(e, m))

\* The unpaid weights are the declared ones and all the changes to them.
LEMMA UnmetSummed ==
  ASSUME NEW e, NEW H, NEW A, NEW d, Sound(e, H, A, d), NEW m \in Assignment,
         NEW log, log = e.log, NEW D, D = DOMAIN log,
         NEW P, \A i \in D : P[i] = UnmetIn(log[i], m),
         NEW p, p = SumFunctionOnSet(P, D)
  PROVE  UnmetBalance(e, D, d, m, p)
<1>1. IsEngine(e) /\ Ledger(e, log, D, d) /\ \A l \in DOMAIN d : d[l] \in Nat
  BY DEF Sound
<1>2. IsFiniteSet(D) /\ \A i \in D : IsEntry(log[i])
  BY SoundLog DEF Sound, Chained, LogOf
<1> DEFINE Touched == UNION {DOMAIN log[i].wdelta : i \in D}
           U == Originals \cup Weighted(e) \cup Touched
<1>3. IsFiniteSet(Touched)
  <2> DEFINE f == [i \in D |-> DOMAIN log[i].wdelta]
             T == {DOMAIN log[i].wdelta : i \in D}
  <2>1. f \in [D -> T] /\ \A y \in T : \E i \in D : f[i] = y
    OBVIOUS
  <2>2. \A y \in T : IsFiniteSet(y)
    BY <1>2 DEF IsEntry
  <2>3. Touched = UNION T
    OBVIOUS
  <2> HIDE DEF f, T, Touched
  <2>4. IsFiniteSet(T)
    BY <1>2, <2>1, FiniteImage
  <2> QED
    BY <2>2, <2>3, <2>4, FS_UNION
<1>4. /\ Originals \subseteq U /\ Weighted(e) \subseteq U
      /\ \A i \in D : DOMAIN log[i].wdelta \subseteq U
  OBVIOUS
<1> HIDE DEF Touched
<1>5. IsFiniteSet(U)
  <2>1. IsFiniteSet(Weighted(e))
    BY <1>1 DEF IsEngine, Weighted
  <2>2. IsFiniteSet(Originals \cup Weighted(e))
    BY <2>1, OriginalsFinite, FS_Union
  <2> QED
    BY <1>3, <2>2, FS_Union
<1> HIDE DEF U
<1> DEFINE C == [x \in U |-> Unmet(x, m) * Changes(log, D, x)]
           B == [x \in U |-> Unmet(x, m) * Declared(d, x)]
           G == [x \in U |-> Unmet(x, m) * WeightIn(e, x)]
<1>6. /\ \A x \in U : C[x] = Unmet(x, m) * Changes(log, D, x)
      /\ \A x \in U : B[x] = Unmet(x, m) * Declared(d, x)
      /\ \A x \in U : G[x] = Unmet(x, m) * WeightIn(e, x)
  OBVIOUS
<1> HIDE DEF C, B, G
<1>7. \A x \in U : C[x] \in Int /\ B[x] \in Int /\ G[x] = C[x] + B[x]
  <2> TAKE x \in U
  <2>1. WeightIn(e, x) = Declared(d, x) + Changes(log, D, x)
    BY <1>1 DEF Ledger
  <2>2. Changes(log, D, x) \in Int
    BY <1>2, ChangesType
  <2>3. Declared(d, x) \in Int
    BY <1>1 DEF Declared
  <2>4. Unmet(x, m) = 0 \/ Unmet(x, m) = 1
    BY UnmetType
  <2>5. CASE Unmet(x, m) = 0
    <3>1. C[x] = 0 /\ B[x] = 0 /\ G[x] = 0
      <4>1. WeightIn(e, x) \in Int
        BY <2>1, <2>2, <2>3
      <4> QED
        BY <1>6, <2>2, <2>3, <2>5, <4>1
    <3> QED
      BY <3>1
  <2>6. CASE Unmet(x, m) = 1
    <3>1. C[x] = Changes(log, D, x) /\ B[x] = Declared(d, x)
      BY <1>6, <2>2, <2>3, <2>6
    <3>2. G[x] = WeightIn(e, x)
      <4>1. WeightIn(e, x) \in Int
        BY <2>1, <2>2, <2>3
      <4> QED
        BY <1>6, <2>6, <4>1
    <3> QED
      BY <2>1, <2>2, <2>3, <3>1, <3>2
  <2> QED
    BY <2>4, <2>5, <2>6
<1>8. Integral(C, U) /\ Integral(B, U)
  BY <1>5, <1>7 DEF Integral
<1>9. SumFunctionOnSet(G, U) = SumFunctionOnSet(C, U) + SumFunctionOnSet(B, U)
  BY <1>7, <1>8, SumAdd
<1>10. p = SumFunctionOnSet(C, U)
  <2>1. UnmetTable(log, D, m, U, P, C)
    BY <1>2, <1>4, <1>5, <1>6 DEF UnmetTable
  <2> QED
    BY <2>1, UnmetExchanged
<1>11. SumFunctionOnSet(B, U) = Cost(ClientSoft(d), m)
  BY <1>1, <1>4, <1>5, <1>6, DeclaredOwed
<1>12. SumFunctionOnSet(G, U) = SumFunctionOnSet(e.wght, Unpaid(e, m))
  BY <1>1, <1>4, <1>5, <1>6, WeightsOwed
<1> QED
  BY <1>9, <1>10, <1>11, <1>12 DEF UnmetBalance

(***************************************************************************)
(* The outputs of the totalizers that are introduced, and those that are   *)
(* not yet: each output takes over what the one before it owed.            *)
(***************************************************************************)
\* What lies beyond a totalizer output is a natural number of false literals.
LEMMA ExcessType ==
  ASSUME NEW k, Bearer(k), IsSum(k), NEW m
  PROVE  Excess(k, m) \in Nat /\ (k.bnd > 1 => Excess(Prev(k), m) \in Nat)
<1>1. IsFiniteSet(k.over) /\ k.bnd \in Nat
  BY NextFields
<1> DEFINE S == {l \in k.over : m \notin l.sat}
           n == Cardinality(S)
<1>2. n \in Nat
  <2>1. S \subseteq k.over
    OBVIOUS
  <2> HIDE DEF S
  <2> QED
    BY <1>1, <2>1, FS_Subset, FS_CardinalityType
<1>3. Excess(k, m) = IF n > k.bnd + 1 THEN n - (k.bnd + 1) ELSE 0
  BY DEF Excess
<1>4. Prev(k).over = k.over /\ Prev(k).bnd = k.bnd - 1
  BY TotalizerFields DEF Prev
<1>5. Excess(Prev(k), m) = IF n > k.bnd - 1 + 1 THEN n - (k.bnd - 1 + 1) ELSE 0
  BY <1>4 DEF Excess
<1> HIDE DEF n
<1> QED
  BY <1>1, <1>2, <1>3, <1>5

\* The output before an output, and the one after that.
LEMMA PrevFields ==
  ASSUME NEW k, Bearer(k), IsSum(k), k.bnd > 1
  PROVE  /\ IsSum(Prev(k)) /\ Prev(k) \notin Originals /\ NextOutput(Prev(k)) = k
         /\ Prev(k).bnd = k.bnd - 1
<1>1. k.bnd \in Nat /\ k = AtMostFalse(k.over, k.bnd)
  BY NextFields
<1>2. Prev(k).over = k.over /\ Prev(k).bnd = k.bnd - 1
  BY TotalizerFields DEF Prev
<1>3. IsSum(Prev(k))
  BY <1>1, <1>2 DEF IsSum
<1>4. NextOutput(Prev(k)) = AtMostFalse(k.over, k.bnd - 1 + 1)
  BY <1>2 DEF NextOutput
<1>5. k.bnd - 1 + 1 = k.bnd
  BY <1>1
<1> QED
  BY <1>1, <1>2, <1>3, <1>4, <1>5, NotOriginal DEF Prev

\* The outputs introduced, each by one consequence.
Counters(e, log, D) ==
  /\ IsFiniteSet(D) /\ IsFiniteSet(DOMAIN e.swgt)
  /\ \A k \in DOMAIN e.swgt : Bearer(k) /\ IsSum(k) /\ e.swgt[k] \in Int
  /\ \A k \in DOMAIN e.swgt : \E i \in D : k \in log[i].created
  /\ \A i \in D : IsFiniteSet(log[i].created) /\ log[i].created \subseteq DOMAIN e.swgt
  /\ \A i \in D : \A k \in log[i].created : log[i].wdelta[k] = e.swgt[k]
  /\ \A i, j \in D : \A k : k \in log[i].created /\ k \in log[j].created => i = j
  /\ \A k \in DOMAIN e.swgt :
       k.bnd > 1 => Prev(k) \in DOMAIN e.swgt /\ e.swgt[Prev(k)] = e.swgt[k]

\* The counters of a sound engine.
LEMMA SoundCounters ==
  ASSUME NEW e, NEW H, NEW A, NEW d, Sound(e, H, A, d), NEW log, log = e.log,
         NEW D, D = DOMAIN log
  PROVE  Counters(e, log, D)
<1> DEFINE S == DOMAIN e.swgt
<1>1. Ledger(e, log, D, d) /\ Chained(log, D, d)
  BY DEF Sound
<1>2. IsFiniteSet(D)
  BY SoundLog DEF LogOf
<1>3. \A i \in D : IsEntry(log[i])
  BY <1>1 DEF Chained
<1>4. S = UNION {log[i].created : i \in D}
  BY <1>1 DEF Ledger
<1>5. \A i \in D : \A k \in log[i].created : log[i].wdelta[k] = e.swgt[k]
  BY <1>1 DEF Ledger
<1>6. \A i \in D : \A k \in log[i].created :
         k \in Given(log[i]) /\ IsSum(k) /\ Bearer(k) /\ log[i].wdelta[k] \in Int
  BY <1>3 DEF IsEntry, Given
<1>7. \A i \in D : IsFiniteSet(log[i].created)
  <2> TAKE i \in D
  <2>1. IsFiniteSet(DOMAIN log[i].wdelta) /\ log[i].created \subseteq DOMAIN log[i].wdelta
    BY <1>3 DEF IsEntry, Given
  <2> QED
    BY <2>1, FS_Subset
<1>8. IsFiniteSet(S)
  <2> DEFINE f == [i \in D |-> log[i].created]
             T == {log[i].created : i \in D}
  <2>1. f \in [D -> T] /\ \A y \in T : \E i \in D : f[i] = y
    OBVIOUS
  <2>2. \A y \in T : IsFiniteSet(y)
    BY <1>7
  <2>3. S = UNION T
    BY <1>4
  <2> HIDE DEF f, T, S
  <2>4. IsFiniteSet(T)
    BY <1>2, <2>1, FiniteImage
  <2> QED
    BY <2>2, <2>3, <2>4, FS_UNION
<1>9. \A i, j \in D : \A k : k \in log[i].created /\ k \in log[j].created => i = j
  BY <1>1, <1>6 DEF Chained
<1> HIDE DEF S
<1>10. \A k \in S : k.bnd > 1 => Prev(k) \in S /\ e.swgt[Prev(k)] = e.swgt[k]
  <2> SUFFICES ASSUME NEW k \in S, k.bnd > 1
               PROVE  Prev(k) \in S /\ e.swgt[Prev(k)] = e.swgt[k]
    OBVIOUS
  <2>1. PICK i \in D : k \in log[i].created
    BY <1>4
  <2>2. Prev(k) \in Taken(log[i])
    BY <1>3, <1>6, <2>1 DEF IsEntry
  <2>3. IsSum(Prev(k)) /\ Prev(k) \notin Originals
    BY <1>6, <2>1, PrevFields
  <2>4. PICK j \in D : Prev(k) \in Given(log[j])
    BY <1>1, <2>2, <2>3 DEF Chained
  <2>5. Prev(k) \in log[j].created
    BY <1>3, <2>3, <2>4 DEF IsEntry
  <2>6. log[i].wdelta[k] = log[j].wdelta[Prev(k)]
    BY <1>1, <2>1, <2>5 DEF Chained
  <2> QED
    BY <1>4, <1>5, <2>1, <2>5, <2>6
<1>11. \A k \in S : \E i \in D : k \in log[i].created
  BY <1>4
<1>12. \A k \in S : Bearer(k) /\ IsSum(k) /\ e.swgt[k] \in Int
  BY <1>5, <1>6, <1>11
<1>13. \A i \in D : log[i].created \subseteq S
  BY <1>4
<1> QED
  BY <1>2, <1>5, <1>7, <1>8, <1>9, <1>10, <1>11, <1>12, <1>13 DEF Counters, S

\* The gaps the consequences open, by consequences and by outputs.
GapTable(e, log, D, m, S, P, Q) ==
  /\ Counters(e, log, D) /\ S = DOMAIN e.swgt
  /\ \A i \in D : P[i] = GapIn(log[i], m)
  /\ \A k \in S : Q[k] = e.swgt[k] * Gap(k, m) /\ Gap(k, m) \in Int

\* The sum over the consequences is the sum over the outputs.
LEMMA GapsExchanged ==
  ASSUME NEW e, NEW log, NEW D, NEW m, NEW S, NEW P, NEW Q, GapTable(e, log, D, m, S, P, Q)
  PROVE  SumFunctionOnSet(P, D) = SumFunctionOnSet(Q, S)
<1> USE DEF GapTable
<1> DEFINE F == [i \in D |-> [k \in S |-> IF k \in log[i].created THEN Q[k] ELSE 0]]
           T == [k \in S |-> [i \in D |-> IF k \in log[i].created THEN Q[k] ELSE 0]]
<1>1. IsFiniteSet(D) /\ IsFiniteSet(S)
  BY DEF Counters
<1>2. \A k \in S : Q[k] \in Int
  <2> TAKE k \in S
  <2>1. PICK a, b : a = e.swgt[k] /\ b = Gap(k, m)
    OBVIOUS
  <2>2. a \in Int /\ b \in Int /\ Q[k] = a * b
    BY <2>1 DEF Counters
  <2> QED
    BY <2>2
<1>3. /\ \A i \in D : \A k \in S : F[i][k] = IF k \in log[i].created THEN Q[k] ELSE 0
      /\ \A k \in S : \A i \in D : T[k][i] = IF k \in log[i].created THEN Q[k] ELSE 0
  OBVIOUS
<1> HIDE DEF F, T
<1>4. \A i \in D, k \in S : F[i][k] \in Int
  BY <1>2, <1>3
<1>5. ASSUME NEW i \in D PROVE P[i] = SumFunctionOnSet(F[i], S)
  <2> DEFINE C == log[i].created
             G == [k \in C |-> GapPart(log[i], k, m)]
             f == F[i]
  <2>1. P[i] = SumFunctionOnSet(G, C)
    BY DEF GapIn
  <2>2. \A k \in C : G[k] = f[k]
    <3> TAKE k \in C
    <3>1. k \in S /\ log[i].wdelta[k] = e.swgt[k]
      BY DEF Counters
    <3>2. G[k] = log[i].wdelta[k] * Gap(k, m) /\ f[k] = Q[k] /\ Q[k] = e.swgt[k] * Gap(k, m)
      BY <1>3, <3>1 DEF GapPart
    <3> QED
      BY <3>1, <3>2
  <2>3. C \in SUBSET S /\ \A k \in S \ C : f[k] = 0
    BY <1>3 DEF Counters
  <2>4. Integral(f, S)
    BY <1>1, <1>4 DEF Integral
  <2> HIDE DEF C, G, f
  <2>5. SumFunctionOnSet(f, S) = SumFunctionOnSet(f, C)
    BY <2>3, <2>4, SumSupport
  <2>6. SumFunctionOnSet(G, C) = SumFunctionOnSet(f, C)
    BY <2>2, <2>3, <2>4, IntegralSubset, SumSame
  <2> QED
    BY <2>1, <2>5, <2>6 DEF f
<1>6. ASSUME NEW k \in S PROVE Q[k] = SumFunctionOnSet(T[k], D)
  <2> DEFINE t == T[k]
  <2>1. PICK i \in D : k \in log[i].created
    BY DEF Counters
  <2>2. \A j \in D \ {i} : k \notin log[j].created
    BY <2>1 DEF Counters
  <2>3. t[i] = Q[k] /\ \A j \in D \ {i} : t[j] = 0
    BY <1>3, <2>1, <2>2
  <2>4. \A j \in D : t[j] \in Int
    BY <1>2, <1>3
  <2> HIDE DEF t
  <2>5. Integral(t, D) /\ {i} \in SUBSET D
    BY <1>1, <2>4 DEF Integral
  <2>6. PICK I : I = {i}
    OBVIOUS
  <2>7. SumFunctionOnSet(t, D) = SumFunctionOnSet(t, I)
    BY <2>3, <2>5, <2>6, SumSupport
  <2>8. SumFunctionOnSet(t, I) = t[i]
    BY <2>4, <2>6, SumSingleton
  <2> QED
    BY <2>3, <2>7, <2>8 DEF t
<1>7. Table(F, T, P, Q, D, S)
  <2>1. \A k \in S : \A i \in D : T[k][i] = F[i][k]
    BY <1>3
  <2> QED
    BY <1>1, <1>4, <1>5, <1>6, <2>1 DEF Table
<1> QED
  BY <1>7, SumExchange

\* The gaps of the outputs, and what lies beyond them.
GapsAndExcess(e, log, D, m, S, Q, X) ==
  /\ Counters(e, log, D) /\ S = DOMAIN e.swgt
  /\ \A k \in S : Q[k] = e.swgt[k] * Gap(k, m) /\ X[k] = e.swgt[k] * Excess(k, m)

\* What the outputs owe beyond the last ones: each gap is what lies beyond an
\* output but not beyond the one before it.
LEMMA GapsTelescope ==
  ASSUME NEW e, NEW log, NEW D, NEW m, NEW S, NEW Q, NEW X,
         GapsAndExcess(e, log, D, m, S, Q, X)
  PROVE  SumFunctionOnSet(Q, S) = SumFunctionOnSet(X, LastOutputs(e))
<1> USE DEF GapsAndExcess
<1> DEFINE N == {k \in S : k.bnd > 1}
           M == {l \in S : NextOutput(l) \in S}
           L == LastOutputs(e)
           Y == [k \in S |-> IF k.bnd > 1 THEN X[Prev(k)] ELSE 0]
           b == [k \in N |-> Prev(k)]
<1>1. IsFiniteSet(S) /\ \A k \in S : Bearer(k) /\ IsSum(k) /\ e.swgt[k] \in Int
  BY DEF Counters
<1>2. \A k \in S : Excess(k, m) \in Nat /\ (k.bnd > 1 => Excess(Prev(k), m) \in Nat)
  BY <1>1, ExcessType
<1>3. \A k \in S : X[k] \in Int
  <2> TAKE k \in S
  <2>1. PICK a, x : a = e.swgt[k] /\ x = Excess(k, m)
    OBVIOUS
  <2>2. a \in Int /\ x \in Int /\ X[k] = a * x
    BY <1>1, <1>2, <2>1
  <2> QED
    BY <2>2
<1>4. \A k \in N : Prev(k) \in S /\ e.swgt[Prev(k)] = e.swgt[k]
  BY DEF Counters
<1>5. \A k \in S : Y[k] \in Int
  BY <1>3, <1>4
<1>6. \A k \in S : Q[k] \in Int /\ X[k] = Q[k] + Y[k]
  <2> TAKE k \in S
  <2>1. PICK a, x : a = e.swgt[k] /\ x = Excess(k, m)
    OBVIOUS
  <2>2. a \in Int /\ x \in Int /\ X[k] = a * x
    BY <1>1, <1>2, <2>1
  <2>3. CASE k.bnd > 1
    <3>1. PICK y : y = Excess(Prev(k), m)
      OBVIOUS
    <3>2. y \in Int /\ Y[k] = a * y
      BY <1>2, <1>4, <2>1, <2>3, <3>1
    <3>3. Gap(k, m) = x - y
      BY <2>1, <2>3, <3>1 DEF Gap
    <3>4. Q[k] = a * (x - y)
      BY <2>1, <3>3
    <3>5. a * (x - y) = a * x - a * y /\ a * x \in Int /\ a * y \in Int
      BY <2>2, <3>2
    <3> QED
      BY <2>2, <3>2, <3>4, <3>5
  <2>4. CASE ~(k.bnd > 1)
    <3>1. Y[k] = 0 /\ Gap(k, m) = x
      BY <2>1, <2>2, <2>4 DEF Gap
    <3>2. Q[k] = a * x /\ a * x \in Int
      BY <2>1, <2>2, <3>1
    <3> QED
      BY <2>2, <3>1, <3>2
  <2> QED
    BY <2>3, <2>4
<1>7. \A k \in S \ N : Y[k] = 0
  OBVIOUS
<1>8. \A k \in N : Y[k] = X[b[k]]
  OBVIOUS
<1>9. /\ b \in [N -> M]
      /\ \A k, l \in N : b[k] = b[l] => k = l
      /\ \A l \in M : \E k \in N : b[k] = l
  <2>1. \A k \in N : NextOutput(Prev(k)) = k
    BY <1>1, PrevFields
  <2>2. \A l \in M : Prev(NextOutput(l)) = l /\ NextOutput(l) \in N
    BY <1>1, NextFields
  <2>3. \A k \in N : Prev(k) \in M
    BY <1>4, <2>1
  <2>4. \A k, l \in N : Prev(k) = Prev(l) => k = l
    BY <2>1
  <2> QED
    BY <2>2, <2>3, <2>4
<1>10. N \in SUBSET S /\ M \in SUBSET S /\ L \in SUBSET S /\ M \cap L = {} /\ M \cup L = S
  BY DEF LastOutputs
<1> HIDE DEF N, M, L, Y, b
<1>11. Integral(Q, S) /\ Integral(Y, S) /\ Integral(X, S)
  BY <1>1, <1>3, <1>5, <1>6 DEF Integral
<1>12. SumFunctionOnSet(X, S) = SumFunctionOnSet(Q, S) + SumFunctionOnSet(Y, S)
  BY <1>6, <1>11, SumAdd
<1>13. SumFunctionOnSet(Y, S) = SumFunctionOnSet(Y, N)
  BY <1>7, <1>10, <1>11, SumSupport
<1>14. Integral(X, M) /\ Integral(X, L) /\ IsFiniteSet(N)
  BY <1>1, <1>10, <1>11, IntegralSubset, FS_Subset
<1>15. SumFunctionOnSet(Y, N) = SumFunctionOnSet(X, M)
  BY <1>8, <1>9, <1>14, SumRename
<1>16. SumFunctionOnSet(X, M \cup L) = SumFunctionOnSet(X, M) + SumFunctionOnSet(X, L)
  BY <1>10, <1>14, SumUnion
<1>17. /\ SumFunctionOnSet(Q, S) \in Int /\ SumFunctionOnSet(X, M) \in Int
       /\ SumFunctionOnSet(X, L) \in Int
  BY <1>11, <1>14, SumInt
<1>18. PICK q, x, l : /\ q = SumFunctionOnSet(Q, S) /\ x = SumFunctionOnSet(X, M)
                      /\ l = SumFunctionOnSet(X, L)
  OBVIOUS
<1>19. SumFunctionOnSet(X, S) = x + l
  BY <1>10, <1>16, <1>18
<1>20. x + l = q + x /\ q \in Int /\ x \in Int /\ l \in Int
  BY <1>12, <1>13, <1>15, <1>17, <1>18, <1>19
<1>21. q = l
  BY <1>20
<1> QED
  BY <1>18, <1>21 DEF L

\* Every consequence charges what it takes off the debts of an assignment that
\* the hard clauses and the assumptions allow.
LEMMA AllBalanced ==
  ASSUME NEW e, NEW H, NEW A, NEW d, Sound(e, H, A, d), H \subseteq Assignment,
         NEW m \in H, \A x \in A : m \in x.sat
  PROVE  \A i \in DOMAIN e.log : Balanced(e.log[i], m)
<1> TAKE i \in DOMAIN e.log
<1>1. Implied(e.log, DOMAIN e.log, H, A)
  BY DEF Sound
<1>2. \A x \in e.log[i].core \ Taken(e.log[i]) : m \in x.sat
  BY <1>1, UnitsFollow DEF Implied
<1>3. m \in ModelsOf(e.log[i].core \ Taken(e.log[i]))
  BY <1>2 DEF ModelsOf
<1> QED
  BY <1>1, <1>3 DEF Implied

\* What a consequence did to the unpaid weights is an integer.
LEMMA UnmetInt ==
  ASSUME NEW c, IsEntry(c), NEW m
  PROVE  UnmetIn(c, m) \in Int
<1> DEFINE T == DOMAIN c.wdelta
           F == [x \in T |-> UnmetPart(c, x, m)]
<1>1. IsFiniteSet(T) /\ \A x \in T : c.wdelta[x] \in Int
  BY DEF IsEntry
<1>2. \A x \in T : F[x] \in Int
  <2> TAKE x \in T
  <2>1. F[x] = c.wdelta[x] * Unmet(x, m)
    BY DEF UnmetPart
  <2>2. Unmet(x, m) = 0 \/ Unmet(x, m) = 1
    BY UnmetType
  <2> QED
    BY <1>1, <2>1, <2>2
<1>3. UnmetIn(c, m) = SumFunctionOnSet(F, T)
  BY DEF UnmetIn
<1> HIDE DEF F, T
<1>4. Integral(F, T)
  BY <1>1, <1>2 DEF Integral
<1> QED
  BY <1>3, <1>4, SumInt

\* What has been charged plus what is still owed is the cost.
LEMMA ChargedPlusOwed ==
  ASSUME NEW e, NEW H, NEW A, NEW d, Sound(e, H, A, d), H \subseteq Assignment,
         NEW m \in H, \A x \in A : m \in x.sat
  PROVE  e.cost + Residual(e, m) = Cost(ClientSoft(d), m)
<1> DEFINE log == e.log
           D == DOMAIN log
           S == DOMAIN e.swgt
           W == [i \in D |-> log[i].weight]
           P == [i \in D |-> UnmetIn(log[i], m)]
           G == [i \in D |-> GapIn(log[i], m)]
           PG == [i \in D |-> P[i] + G[i]]
           Z == [i \in D |-> W[i] + PG[i]]
           Q == [k \in S |-> e.swgt[k] * Gap(k, m)]
           X == [k \in S |-> e.swgt[k] * Excess(k, m)]
           L == LastOutputs(e)
           R == [l \in L |-> e.swgt[l] * Excess(l, m)]
<1>1. /\ IsFiniteSet(D) /\ Ledger(e, log, D, d) /\ IsEngine(e)
      /\ \A i \in D : IsEntry(log[i])
      /\ \A l \in DOMAIN d : d[l] \in Nat
  BY SoundLog DEF LogOf, Sound, Chained
<1>2. Counters(e, log, D)
  BY SoundCounters
<1>3. e.cost = SumFunctionOnSet(W, D)
  BY <1>1 DEF Ledger
<1>4. \A i \in D : W[i] + (P[i] + G[i]) = 0
  BY AllBalanced DEF Balanced
<1>5. \A i \in D : W[i] \in Int
  BY <1>1 DEF IsEntry
<1>6. \A k \in S : Gap(k, m) \in Int /\ e.swgt[k] \in Int /\ Excess(k, m) \in Nat
  <2> TAKE k \in S
  <2>1. Bearer(k) /\ IsSum(k) /\ e.swgt[k] \in Int
    BY <1>2 DEF Counters
  <2>2. Excess(k, m) \in Nat /\ (k.bnd > 1 => Excess(Prev(k), m) \in Nat)
    BY <2>1, ExcessType
  <2> QED
    BY <2>1, <2>2 DEF Gap
<1>7. \A i \in D : P[i] \in Int
  BY <1>1, UnmetInt
<1>8. \A i \in D : G[i] \in Int
  <2> TAKE i \in D
  <2> DEFINE c == log[i]
             T == c.created
             F == [k \in T |-> GapPart(c, k, m)]
  <2>1. IsFiniteSet(T) /\ \A k \in T : k \in S /\ c.wdelta[k] = e.swgt[k]
    BY <1>2 DEF Counters
  <2>2. \A k \in T : F[k] \in Int
    <3> TAKE k \in T
    <3>1. PICK a, g : a = e.swgt[k] /\ g = Gap(k, m)
      OBVIOUS
    <3>2. F[k] = a * g /\ a \in Int /\ g \in Int
      BY <1>6, <2>1, <3>1 DEF GapPart
    <3> QED
      BY <3>2
  <2>3. G[i] = SumFunctionOnSet(F, T)
    BY DEF GapIn
  <2> HIDE DEF F, T
  <2>4. Integral(F, T)
    BY <2>1, <2>2 DEF Integral
  <2> QED
    BY <2>3, <2>4, SumInt
<1>9. \A i \in D : PG[i] = P[i] + G[i] /\ Z[i] = W[i] + PG[i] /\ Z[i] = 0
  BY <1>4
<1>10. /\ \A i \in D : P[i] = UnmetIn(log[i], m) /\ G[i] = GapIn(log[i], m)
       /\ \A k \in S : Q[k] = e.swgt[k] * Gap(k, m) /\ X[k] = e.swgt[k] * Excess(k, m)
  OBVIOUS
<1>11. L \in SUBSET S /\ \A l \in L : R[l] = X[l]
  BY DEF LastOutputs
<1>12. Residual(e, m) = SumFunctionOnSet(e.wght, Unpaid(e, m)) + SumFunctionOnSet(R, L)
  BY DEF Residual, SumFunction
<1>13. \A k \in S : X[k] \in Int
  <2> TAKE k \in S
  <2>1. PICK a, x : a = e.swgt[k] /\ x = Excess(k, m)
    OBVIOUS
  <2>2. X[k] = a * x /\ a \in Int /\ x \in Int
    BY <1>6, <1>10, <2>1
  <2> QED
    BY <2>2
<1> HIDE DEF W, P, G, PG, Z, Q, X, R
<1>14. Integral(W, D) /\ Integral(P, D) /\ Integral(G, D) /\ Integral(PG, D)
  BY <1>1, <1>5, <1>7, <1>8, <1>9 DEF Integral
<1> DEFINE w == SumFunctionOnSet(W, D)
           p == SumFunctionOnSet(P, D)
           g == SumFunctionOnSet(G, D)
           pg == SumFunctionOnSet(PG, D)
           r == SumFunctionOnSet(R, L)
           u == SumFunctionOnSet(e.wght, Unpaid(e, m))
           c == Cost(ClientSoft(d), m)
<1>15. pg = p + g
  BY <1>9, <1>14, SumAdd
<1>16. w + pg = 0
  <2>1. SumFunctionOnSet(Z, D) = w + pg
    BY <1>9, <1>14, SumAdd
  <2>2. SumFunctionOnSet(Z, D) = 0
    BY <1>1, <1>9, SumZero
  <2> QED
    BY <2>1, <2>2
<1>17. p + c = u
  <2>1. PICK q : q = p
    OBVIOUS
  <2>2. UnmetBalance(e, D, d, m, q)
    BY <1>10, <2>1, UnmetSummed
  <2> QED
    BY <2>1, <2>2 DEF UnmetBalance
<1>18. g = r
  <2>1. g = SumFunctionOnSet(Q, S)
    <3>1. GapTable(e, log, D, m, S, G, Q)
      BY <1>2, <1>6, <1>10 DEF GapTable
    <3> QED
      BY <3>1, GapsExchanged
  <2>2. SumFunctionOnSet(Q, S) = SumFunctionOnSet(X, L)
    <3>1. GapsAndExcess(e, log, D, m, S, Q, X)
      BY <1>2, <1>10 DEF GapsAndExcess
    <3> QED
      BY <3>1, GapsTelescope
  <2>3. Integral(X, L)
    BY <1>2, <1>11, <1>13, FS_Subset DEF Integral, Counters
  <2>4. r = SumFunctionOnSet(X, L)
    BY <1>11, <2>3, SumSame
  <2> QED
    BY <2>1, <2>2, <2>4
<1>19. w \in Int /\ p \in Int /\ g \in Int /\ c \in Int
  <2>1. w \in Int /\ p \in Int /\ g \in Int
    BY <1>14, SumInt
  <2>2. c \in Nat
    <3> DEFINE soft == ClientSoft(d)
    <3>1. DOMAIN soft = Lit /\ \A l \in Lit : soft[l] \in Nat
      BY <1>1 DEF ClientSoft
    <3>2. IsFiniteSet(DOMAIN soft)
      BY <3>1, LitFinite
    <3> HIDE DEF soft
    <3>3. Cost(soft, m) \in Nat
      BY <3>1, <3>2, CostIsNatural
    <3> QED
      BY <3>3 DEF soft
  <2> QED
    BY <2>1, <2>2
<1> HIDE DEF w, p, g, pg, r, u, c
<1>20. w + (u + r) = c
  <2>1. w + (p + g) = 0
    BY <1>15, <1>16
  <2>2. u + r = (p + c) + g
    BY <1>17, <1>18
  <2>3. \A i, j, k, h \in Int : i + (j + k) = 0 => i + ((j + h) + k) = h
    OBVIOUS
  <2> QED
    BY <1>19, <2>1, <2>2, <2>3
<1> QED
  BY <1>3, <1>12, <1>20 DEF w, u, r, c

\* The reformulation is exact where the invariant holds.
LEMMA ExactNow ==
  ASSUME IndInv
  PROVE  ExactReformulation
<1> SUFFICES ASSUME NEW m \in hard, SatisfiesAll(m, Relied)
             PROVE  engine.cost + Residual(engine, m) = Cost(ClientSoft(declared), m)
  BY DEF ExactReformulation
<1>1. Sound(engine, hard, LitsOf(Relied), declared) /\ hard \subseteq Assignment
  BY DEF IndInv, EngineInv, ClientInv
<1>2. \A x \in LitsOf(Relied) : m \in x.sat
  BY <1>1, AssumedHold
<1> QED
  BY <1>1, <1>2, ChargedPlusOwed

\* The reformulation is exact, however many calls charged and took back.
THEOREM ReformulationIsExact == Spec => []ExactReformulation
<1>1. IndInv => ExactReformulation
  BY ExactNow
<1> QED
  BY <1>1, Invariance, PTL

(***************************************************************************)
(* What an assignment still owes.                                          *)
(***************************************************************************)
\* What the last outputs of the totalizers leave to be introduced, per output.
LEMMA ExcessOwed ==
  ASSUME NEW e, NEW H, NEW A, NEW d, Sound(e, H, A, d), NEW m, NEW L, L = LastOutputs(e),
         NEW R, \A l \in L : R[l] = e.swgt[l] * Excess(l, m)
  PROVE  IsFiniteSet(L) /\ \A l \in L : R[l] \in Nat
<1> DEFINE D == DOMAIN e.log
<1>1. Counters(e, e.log, D)
  BY SoundCounters
<1>2. L \subseteq DOMAIN e.swgt
  BY DEF LastOutputs
<1>3. IsFiniteSet(L)
  BY <1>1, <1>2, FS_Subset DEF Counters
<1>4. ASSUME NEW l \in L PROVE R[l] \in Nat
  <2>1. PICK i \in D : l \in e.log[i].created
    BY <1>1, <1>2 DEF Counters
  <2>2. Bearer(l) /\ IsSum(l) /\ e.log[i].wdelta[l] = e.swgt[l]
    BY <1>1, <1>2, <2>1 DEF Counters
  <2>3. IsEntry(e.log[i])
    BY DEF Sound, Chained
  <2>4. l \in Given(e.log[i])
    BY <2>1, <2>3 DEF IsEntry
  <2>5. e.swgt[l] \in Nat
    BY <2>2, <2>3, <2>4, ChangeType DEF Change, Given
  <2>6. Excess(l, m) \in Nat
    BY <2>2, ExcessType
  <2>7. PICK a, x : a = e.swgt[l] /\ x = Excess(l, m)
    OBVIOUS
  <2>8. a \in Nat /\ x \in Nat /\ R[l] = a * x
    BY <2>5, <2>6, <2>7
  <2> QED
    BY <2>8
<1> QED
  BY <1>3, <1>4

\* What an assignment leaves unpaid.
LEMMA UnpaidOwed ==
  ASSUME NEW e, IsEngine(e), NEW m
  PROVE  IsFiniteSet(Unpaid(e, m)) /\ \A l \in Unpaid(e, m) : e.wght[l] \in Nat
<1>1. Unpaid(e, m) \subseteq DOMAIN e.wght
  BY DEF Unpaid, Weighted
<1> QED
  BY <1>1, FS_Subset DEF IsEngine, PositiveWeights

\* No assignment owes less than nothing.
LEMMA ResidualType ==
  ASSUME NEW e, NEW H, NEW A, NEW d, Sound(e, H, A, d), NEW m
  PROVE  Residual(e, m) \in Nat
<1> DEFINE L == LastOutputs(e)
           R == [l \in L |-> e.swgt[l] * Excess(l, m)]
           S == Unpaid(e, m)
           u == SumFunctionOnSet(e.wght, S)
           r == SumFunctionOnSet(R, L)
<1>1. Residual(e, m) = u + r
  BY DEF Residual, SumFunction
<1>2. \A l \in L : R[l] = e.swgt[l] * Excess(l, m)
  OBVIOUS
<1> HIDE DEF L, R, S
<1>3. IsFiniteSet(L) /\ \A l \in L : R[l] \in Nat
  BY <1>2, ExcessOwed DEF L
<1>4. IsFiniteSet(S) /\ \A l \in S : e.wght[l] \in Nat
  BY UnpaidOwed DEF Sound, S
<1>5. u \in Nat /\ r \in Nat
  BY <1>3, <1>4, SumNat
<1> QED
  BY <1>1, <1>5

\* A last output that weighs nothing any more has no output left after it: a
\* consequence that takes its weight introduces the next one.
LEMMA SpentHasNoNext ==
  ASSUME NEW e, NEW H, NEW A, NEW d, Sound(e, H, A, d),
         NEW l \in LastOutputs(e), l \notin Weighted(e)
  PROVE  ~HasNextOutput(l)
<1> DEFINE log == e.log
           D == DOMAIN log
           F == [i \in D |-> Change(log[i], l)]
<1>0. Counters(e, log, D)
  BY SoundCounters
<1>1. Counters(e, log, D) /\ IsFiniteSet(D)
  BY <1>0 DEF Counters
<1>2. l \in DOMAIN e.swgt /\ NextOutput(l) \notin DOMAIN e.swgt
  BY DEF LastOutputs
<1>3. PICK i \in D : l \in log[i].created
  BY <1>1, <1>2 DEF Counters
<1>4. Chained(log, D, d) /\ Ledger(e, log, D, d) /\ \A j \in D : IsEntry(log[j])
  BY DEF Sound, Chained
<1>5. l \in Given(log[i]) /\ IsSum(l)
  BY <1>3, <1>4 DEF IsEntry
<1>6. l \notin Originals
  BY <1>4, <1>5 DEF IsEntry
<1>7. Changes(log, D, l) = 0
  <2>1. WeightIn(e, l) = Declared(d, l) + Changes(log, D, l)
    BY <1>4 DEF Ledger
  <2>2. WeightIn(e, l) = 0 /\ Declared(d, l) = 0
    BY <1>6 DEF WeightIn, Weighted, Declared
  <2>3. Changes(log, D, l) \in Int
    BY <1>1, <1>4, ChangesType
  <2> QED
    BY <2>1, <2>2, <2>3
<1>8. \E j \in D : l \in Taken(log[j])
  <2> SUFFICES ASSUME \A j \in D : l \notin Taken(log[j])
               PROVE  FALSE
    OBVIOUS
  <2>1. \A j \in D : Change(log[j], l) \in Nat
    BY <1>4, ChangeType DEF Taken, Change
  <2>2. \A j \in D : F[j] \in Nat /\ F[j] = Change(log[j], l)
    BY <2>1
  <2>3. Changes(log, D, l) = SumFunctionOnSet(F, D)
    BY DEF Changes
  <2>4. F[i] > 0
    BY <1>4, <1>5, <2>2, ChangeType
  <2> HIDE DEF F, D, log
  <2>5. F[i] <= SumFunctionOnSet(F, D)
    BY <1>1, <2>2, SumNat
  <2> QED
    BY <1>7, <2>2, <2>3, <2>4, <2>5
<1>9. HasNextOutput(l) => \E j \in D : NextOutput(l) \in log[j].created
  BY <1>4, <1>5, <1>8 DEF Chained
<1>10. DOMAIN e.swgt = UNION {log[j].created : j \in D}
  BY <1>4 DEF Ledger
<1> QED
  BY <1>2, <1>9, <1>10

\* An assignment that satisfies every weighted literal owes nothing.
LEMMA NothingOwed ==
  ASSUME NEW e, NEW H, NEW A, NEW d, Sound(e, H, A, d), NEW m,
         \A x \in Weighted(e) : m \in x.sat
  PROVE  Residual(e, m) = 0
<1> DEFINE L == LastOutputs(e)
           R == [l \in L |-> e.swgt[l] * Excess(l, m)]
           S == Unpaid(e, m)
           u == SumFunctionOnSet(e.wght, S)
           r == SumFunctionOnSet(R, L)
<1>1. Residual(e, m) = u + r
  BY DEF Residual, SumFunction
<1>2. \A l \in L : R[l] = e.swgt[l] * Excess(l, m)
  OBVIOUS
<1>3. S = {}
  BY DEF Unpaid
<1>4. ASSUME NEW l \in L PROVE R[l] = 0
  <2>1. Bearer(l) /\ IsSum(l) /\ e.swgt[l] \in Int
    BY SoundCounters DEF LastOutputs, Counters
  <2>2. IsFiniteSet(l.over) /\ l.bnd \in Nat /\ l = AtMostFalse(l.over, l.bnd)
    BY <2>1, NextFields
  <2> DEFINE T == {k \in l.over : m \notin k.sat}
             n == Cardinality(T)
  <2>3. n \in Nat /\ n <= Cardinality(l.over) /\ Cardinality(l.over) \in Nat
    <3>1. T \subseteq l.over
      OBVIOUS
    <3> HIDE DEF T
    <3> QED
      BY <2>2, <3>1, FS_Subset, FS_CardinalityType
  <2>4. Excess(l, m) = IF n > l.bnd + 1 THEN n - (l.bnd + 1) ELSE 0
    BY DEF Excess
  <2>5. CASE l \in Weighted(e)
    <3>1. m \in l.sat
      BY <2>5
    <3>2. l.sat = {k \in Assignment : Cardinality({y \in l.over : k \notin y.sat}) <= l.bnd}
      BY <2>2, TotalizerFields
    <3>3. n <= l.bnd
      BY <3>1, <3>2
    <3> HIDE DEF n
    <3>4. Excess(l, m) = 0
      BY <2>2, <2>3, <2>4, <3>3
    <3> QED
      BY <1>2, <2>1, <3>4
  <2>6. CASE l \notin Weighted(e)
    <3>1. ~(l.bnd + 1 < Cardinality(l.over))
      BY <2>6, SpentHasNoNext DEF HasNextOutput
    <3> HIDE DEF n
    <3>2. Excess(l, m) = 0
      BY <2>2, <2>3, <2>4, <3>1
    <3> QED
      BY <1>2, <2>1, <3>2
  <2> QED
    BY <2>5, <2>6
<1>5. u = 0
  BY <1>3, SumEmpty
<1> HIDE DEF L, R
<1>6. IsFiniteSet(L)
  BY <1>2, ExcessOwed DEF L
<1>7. r = 0
  BY <1>4, <1>6, SumZero
<1> QED
  BY <1>1, <1>5, <1>7

(***************************************************************************)
(* core-trail implements the contract of ipamir.h.                         *)
(***************************************************************************)
\* What solve and the client agree on.
Control ==
  /\ hard_clause \subseteq Lit
  /\ state \in {"INPUT", "UNSAT", "OPTIMAL", "SOLVING"}
  /\ state = "SOLVING" <=> pc # "idle"

\* The steps of the search that do not end the call.
LEMMA SearchGoesOnSilently ==
  ASSUME Search
  PROVE  /\ pc # "idle" /\ UNCHANGED <<profile, hard_clause, hard, term_cb>>
         /\ \/ pc' # "idle" /\ UNCHANGED <<assumptions, state>>
            \/ pc' = "idle" /\ assumptions' = {} /\ state' \in {"INPUT", "UNSAT", "OPTIMAL"}
<1> USE DEF client, Return, Unsat
<1>1. CASE CallbackStops \/ Rollback \/ CancelContradiction
  BY <1>1 DEF CallbackStops, Rollback, CancelContradiction
<1>2. CASE BootUnsat \/ BootSat \/ NextLevel
  BY <1>2 DEF BootUnsat, BootSat, NextLevel, NextLevelTo
<1>3. CASE Finish
  BY <1>3 DEF Finish
<1>4. CASE Preprocess
  BY <1>4 DEF Preprocess, UnitsFromBase, UnitFromHard, StartClique, ContinueClique,
              CliqueRound, Charged, Charging
<1>5. CASE StartReplay \/ EndReplay
  BY <1>5 DEF StartReplay, EndReplay
<1>6. CASE ReplayCore
  BY <1>6 DEF ReplayCore
<1>7. CASE StratumSolved
  BY <1>7 DEF StratumSolved
<1>8. CASE ChargeCore
  BY <1>8 DEF ChargeCore, Charged, Charging
<1> QED
  BY <1>1, <1>2, <1>3, <1>4, <1>5, <1>6, <1>7, <1>8 DEF Search, Replay

\* A call leaves a state of ipamir.h, and only a call in progress is solving.
LEMMA ControlHolds == Spec => []Control
<1>1. Init => Control
  BY DEF Init, Control
<1>2. Control /\ [Next]_vars => Control'
  <2> SUFFICES ASSUME Control, [Next]_vars PROVE Control'
    OBVIOUS
  <2>1. ASSUME NEW l \in Lit, AddHard(l) PROVE Control'
    BY <2>1 DEF Control, AddHard, Input
  <2>2. CASE FinishHard
    BY <2>2 DEF Control, FinishHard, Input
  <2>3. ASSUME NEW l, NEW w, AddSoftLit(l, w) PROVE Control'
    BY <2>3 DEF Control, AddSoftLit, Input, client
  <2>4. ASSUME NEW l, Assume(l) PROVE Control'
    BY <2>4 DEF Control, Assume, Input
  <2>5. CASE SetTerminate
    BY <2>5 DEF Control, SetTerminate
  <2>6. CASE SolveCalled
    BY <2>6 DEF Control, SolveCalled, client
  <2>7. CASE Search
    BY <2>7, SearchGoesOnSilently DEF Control
  <2>8. CASE UNCHANGED vars
    BY <2>8 DEF Control, vars, client
  <2> QED
    BY <2>1, <2>2, <2>3, <2>4, <2>5, <2>6, <2>7, <2>8 DEF Next, Client
<1> QED
  BY <1>1, <1>2, PTL DEF Spec

\* The contract's instance data are the solver's own.
LEMMA SameData ==
  /\ Contract!Lit = Lit
  /\ Contract!Assignment = Assignment
  /\ \A m, l : Contract!Holds(m, l) <=> Holds(m, l)
  /\ \A m, c : Contract!SatisfiesClause(m, c) <=> SatisfiesClause(m, c)
  /\ \A m, ls : Contract!SatisfiesAll(m, ls) <=> SatisfiesAll(m, ls)
  /\ \A m, value : Contract!Completes(m, value) <=> Completes(m, value)
  BY DEF Contract!Lit, Lit, Contract!Assignment, Assignment, Contract!Holds, Holds,
         Contract!SatisfiesClause, SatisfiesClause, Contract!SatisfiesAll, SatisfiesAll,
         Contract!Completes, Completes

\* The contract prices an assignment as the model does.
LEMMA SameCost == ASSUME NEW soft, NEW m PROVE Contract!Cost(soft, m) = Cost(soft, m)
<1>1. ASSUME NEW f PROVE Contract!TotalWeight(f) = TotalWeight(f)
  BY DEF Contract!TotalWeight, TotalWeight, Contract!Restrict, Restrict,
         Contract!SumFunction, SumFunction, Contract!SumFunctionOnSet, SumFunctionOnSet,
         Contract!FoldFunctionOnSet, FoldFunctionOnSet, Contract!MapThenFoldSet, MapThenFoldSet
<1>2. {l \in DOMAIN soft : Contract!Holds(m, l)} = {l \in DOMAIN soft : Holds(m, l)}
  BY SameData
<1> QED
  BY <1>1, <1>2 DEF Contract!Cost, Cost, Contract!Restrict, Restrict

\* During a call the weights of the last one have taken effect.
LEMMA WeightsInEffect ==
  ASSUME IndInv, Solving
  PROVE  ClientSoft(Over(transition, declared)) = ClientSoft(declared)
<1>1. transition = NoLits
  BY DEF IndInv, WeightsInv
<1> QED
  BY <1>1 DEF Over, NoLits, ClientSoft

\* A core of the assumptions and the impossible literals leaves no solution.
LEMMA CoreOfBase ==
  ASSUME IndInv, Solving, NEW core, core \subseteq Base, ~Satisfiable(core)
  PROVE  \A m \in hard : ~SatisfiesAll(m, assumptions)
<1> SUFFICES ASSUME NEW m \in hard, SatisfiesAll(m, assumptions) PROVE FALSE
  OBVIOUS
<1>1. Sound(engine, hard, Assumed, declared) /\ hard \subseteq Assignment
  BY SearchFacts
<1>2. Assumed = LitsOf(assumptions)
  BY DEF Assumed, LitsOf
<1>3. \A x \in Assumed : m \in x.sat
  BY <1>1, <1>2, AssumedHold
<1>4. \A i \in DOMAIN engine.log : \A x \in Units(engine.log[i]) : m \in x.sat
  BY <1>1, <1>3, UnitsFollow
<1>5. \A x \in engine.impossible : m \in x.sat
  BY <1>1, <1>4 DEF Sound, Ledger
<1>6. m \in hard \cap ModelsOf(core)
  BY <1>1, <1>3, <1>5 DEF ModelsOf, Base
<1> QED
  BY <1>6 DEF Satisfiable

\* Where the search refutes the assumptions, no solution exists.
LEMMA RefutedRightly ==
  ASSUME IndInv, BootUnsat \/ ReplayCore \/ EndReplay \/ ChargeCore, pc' = "idle",
         profile.replay # 0
  PROVE  (\A m \in hard : ~SatisfiesAll(m, assumptions)) /\ Solving /\ Unsat /\ UNCHANGED weights
         /\ engine'.cost = engine.cost /\ engine'.wght = engine.wght /\ engine'.swgt = engine.swgt
<1>1. CASE BootUnsat
  <2>1. Solving /\ ~Satisfiable(Base) /\ Unsat /\ UNCHANGED <<weights, engine>>
    BY <1>1 DEF BootUnsat, Solving
  <2> QED
    BY <2>1, CoreOfBase
<1>2. CASE ReplayCore
  <2> DEFINE i == Min(Replayable)
             core == history[i].core
  <2>1. pc = "replay" /\ Replayable # {} /\ core \subseteq Base /\ Unsat /\ UNCHANGED <<weights, engine>>
    BY <1>2 DEF ReplayCore
  <2>2. i \in DOMAIN history
    BY <2>1, FirstReplayable DEF IndInv, HistoryInv, Replayable
  <2>3. ~Satisfiable(core)
    BY <2>2 DEF IndInv, HistoryInv, Epochs, IsEpoch, Satisfiable
  <2>4. Solving
    BY <2>1 DEF Solving
  <2> HIDE DEF core
  <2> QED
    BY <2>1, <2>3, <2>4, CoreOfBase
<1>3. CASE EndReplay
  BY <1>3 DEF EndReplay
<1>4. CASE ChargeCore
  <2>1. pc = "loop"
    BY <1>4 DEF ChargeCore
  <2>2. PICK core \in Cores :
          IF core \subseteq Base
          THEN /\ Unsat /\ engine' = [engine EXCEPT !.thrown = @ \/ core = {}]
               /\ UNCHANGED <<weights, history, cursor, model>>
          ELSE Charged(ProcessCore(engine, core, Base, strata.level), "loop")
    BY <1>4 DEF ChargeCore
  <2>3. /\ core \subseteq Base /\ Unsat /\ UNCHANGED weights
        /\ engine' = [engine EXCEPT !.thrown = @ \/ core = {}]
    BY <1>4, <2>2 DEF Charged, Charging
  <2>4. ~Satisfiable(core) /\ Solving
    BY <2>1 DEF Cores, Solving
  <2>5. engine'.cost = engine.cost /\ engine'.wght = engine.wght /\ engine'.swgt = engine.swgt
    <3>1. DOMAIN engine = {"cost", "wght", "active", "impossible", "swgt", "bnds", "bnds_history",
                           "original", "log", "thrown"}
      BY <2>4, SearchFacts DEF IsEngine, EngineRecord
    <3>2. PICK b : engine' = [engine EXCEPT !.thrown = b]
      BY <2>3
    <3> QED
      BY <3>1, <3>2
  <2> QED
    BY <2>3, <2>4, <2>5, CoreOfBase
<1> QED
  BY <1>1, <1>2, <1>3, <1>4

\* What solve answers with satisfies the assumptions and owes nothing.
LEMMA SettledRightly ==
  ASSUME IndInv, Finish
  PROVE  /\ Solving /\ UNCHANGED weights /\ engine'.cost = engine.cost
         /\ engine'.wght = engine.wght /\ engine'.swgt = engine.swgt
         /\ model' \in hard /\ SatisfiesAll(model', assumptions)
         /\ Residual(engine, model') = 0
<1>1. /\ pc = "stratum" /\ strata.done >= Cardinality(Levels)
      /\ engine' = [engine EXCEPT !.thrown = \/ @
                                             \/ engine.active # Weighted(engine)
                                             \/ \E l \in Weighted(engine) : engine.wght[l] <= 0]
      /\ model' \in hard \cap ModelsOf(Queried) /\ UNCHANGED weights
  BY DEF Finish
<1>2. Solving
  BY <1>1 DEF Solving
<1>3. /\ Ranked(engine, strata) /\ IsEngine(engine)
      /\ Sound(engine, hard, Assumed, declared) /\ hard \subseteq Assignment
  BY <1>1, <1>2, SearchFacts DEF IndInv, StrataInv
<1>4. Waiting = {}
  BY <1>1, <1>3, NothingWaits
<1>5. engine'.cost = engine.cost /\ engine'.wght = engine.wght /\ engine'.swgt = engine.swgt
  <2>1. DOMAIN engine = {"cost", "wght", "active", "impossible", "swgt", "bnds", "bnds_history",
                         "original", "log", "thrown"}
    BY <1>3 DEF IsEngine, EngineRecord
  <2>2. PICK b : engine' = [engine EXCEPT !.thrown = b]
    BY <1>1
  <2> QED
    BY <2>1, <2>2
<1>6. \A x \in Assumed \cup engine.active : model' \in x.sat
  BY <1>1 DEF ModelsOf, Queried, Base
<1>7. SatisfiesAll(model', assumptions)
  <2>1. \A l \in assumptions : model' \in Orig(l).sat
    BY <1>6 DEF Assumed
  <2> QED
    BY <2>1, OrigFields DEF SatisfiesAll
<1>8. \A x \in Weighted(engine) : model' \in x.sat
  BY <1>4, <1>6 DEF Waiting
<1>9. Residual(engine, model') = 0
  BY <1>3, <1>8, NothingOwed
<1> QED
  BY <1>1, <1>2, <1>5, <1>7, <1>9

\* The client's calls are calls of the contract.
LEMMA CallsMapped ==
  ASSUME \A p \in Profiles : {} \notin p.clauses,
         IndInv, Control, Client
  PROVE  Contract!Next
<1> USE DEF search, weights, client
<1>0. profile \in Profiles /\ DOMAIN transition \subseteq DOMAIN declared
  BY DEF IndInv, ClientInv, WeightsInv
<1>1. ASSUME Input, term_cb' = term_cb PROVE Contract!Input
  BY <1>1 DEF Input, Control, Contract!Input, Contract!Callable, Readable, Contract!NoValue
<1>2. ASSUME NEW l \in Lit, AddHard(l) PROVE Contract!AddHard(l)
  <2>1. Contract!Input
    BY <1>1, <1>2 DEF AddHard, Input, Contract!Input
  <2> QED
    BY <1>2, <2>1 DEF AddHard, Contract!AddHard
<1>3. ASSUME FinishHard PROVE Contract!FinishHard
  <2>1. Contract!Input
    BY <1>1, <1>3 DEF FinishHard
  <2>2. hard_clause # {}
    BY <1>0, <1>3 DEF FinishHard
  <2>3. hard' = {m \in hard : Contract!SatisfiesClause(m, hard_clause)}
    BY <1>3, <2>2, SameData DEF FinishHard
  <2> QED
    BY <1>3, <2>1, <2>3 DEF FinishHard, Contract!FinishHard
<1>4. ASSUME NEW l \in profile.assumed, Assume(l) PROVE l \in Lit /\ Contract!Assume(l)
  <2>1. Contract!Input
    BY <1>1, <1>4 DEF Assume
  <2>2. l \in Lit
    BY <1>0, <1>4, CoreTrailAssumption
  <2> QED
    BY <1>4, <2>1, <2>2 DEF Assume, Contract!Assume
<1>5. ASSUME NEW s \in profile.softs, AddSoftLit(s[1], s[2])
      PROVE  \E l \in Lit, w \in Weight : Contract!AddSoftLit(l, w)
  <2>1. PICK l, w : l = s[1] /\ w = s[2]
    OBVIOUS
  <2>2. s \in Lit \X Weight
    BY <1>0, <1>5, CoreTrailAssumption
  <2>3. l \in Lit /\ w \in Weight /\ w \in Nat /\ AddSoftLit(l, w)
    BY <1>5, <2>1, <2>2, WeightAssumption
  <2>4. \A k \in Lit : -k = -l <=> k = l
    BY <2>3, LitNotZero
  <2> DEFINE over == Over(transition, declared)
             soft == ClientSoft(over)
             after == ClientSoft(Over(transition', declared'))
  <2>5. /\ DOMAIN over = DOMAIN declared
        /\ \A x \in DOMAIN declared : over[x] = IF x \in DOMAIN transition THEN transition[x]
                                               ELSE declared[x]
    BY <1>0 DEF Over
  <2>6. \A k \in Lit : soft[k] = IF -k \in DOMAIN declared
                                 THEN IF -k \in DOMAIN transition THEN transition[-k]
                                      ELSE declared[-k]
                                 ELSE 0
    BY <2>5 DEF ClientSoft
  <2>7. after = [k \in Lit |-> IF k = l THEN w ELSE soft[k]]
    <3>1. PICK dt, dd : dt = transition' /\ dd = declared'
      OBVIOUS
    <3>2. /\ DOMAIN Over(dt, dd) = DOMAIN dt \cup DOMAIN dd
          /\ \A x \in DOMAIN dt \cup DOMAIN dd :
               Over(dt, dd)[x] = IF x \in DOMAIN dt THEN dt[x] ELSE dd[x]
      BY DEF Over
    <3>3. after = [k \in Lit |-> IF -k \in DOMAIN dt \cup DOMAIN dd
                                 THEN IF -k \in DOMAIN dt THEN dt[-k] ELSE dd[-k]
                                 ELSE 0]
      BY <3>1, <3>2 DEF ClientSoft
    <3>4. CASE -l \in DOMAIN declared
      <4>1. dd = declared
        BY <2>3, <3>1, <3>4 DEF AddSoftLit
      <4>2. CASE w = declared[-l]
        <5>1. dt = Drop(transition, {-l})
          BY <2>3, <3>1, <3>4, <4>2 DEF AddSoftLit
        <5>2. DOMAIN dt = DOMAIN transition \ {-l} /\ \A x \in DOMAIN dt : dt[x] = transition[x]
          BY <5>1 DEF Drop, Restrict
        <5> HIDE DEF soft, after
        <5> QED
          BY <1>0, <2>4, <2>6, <3>3, <3>4, <4>1, <4>2, <5>2
      <4>3. CASE w # declared[-l]
        <5>1. dt = Over(Maps(-l, w), transition)
          BY <2>3, <3>1, <3>4, <4>3 DEF AddSoftLit
        <5>2. /\ DOMAIN dt = DOMAIN transition \cup {-l}
              /\ \A x \in DOMAIN dt : dt[x] = IF x = -l THEN w ELSE transition[x]
          BY <5>1 DEF Over, Maps
        <5> HIDE DEF soft, after
        <5> QED
          BY <1>0, <2>4, <2>6, <3>3, <3>4, <4>1, <5>2
      <4> QED
        BY <4>2, <4>3
    <3>5. CASE -l \notin DOMAIN declared /\ w = 0
      <4>1. dt = transition /\ dd = declared
        BY <2>3, <3>1, <3>5 DEF AddSoftLit
      <4> HIDE DEF soft, after
      <4> QED
        BY <1>0, <2>4, <2>6, <3>3, <3>5, <4>1
    <3>6. CASE -l \notin DOMAIN declared /\ w > 0
      <4>1. dt = transition /\ dd = Over(Maps(-l, w), declared)
        BY <2>3, <3>1, <3>6 DEF AddSoftLit
      <4>2. /\ DOMAIN dd = DOMAIN declared \cup {-l}
            /\ \A x \in DOMAIN dd : dd[x] = IF x = -l THEN w ELSE declared[x]
        BY <4>1 DEF Over, Maps
      <4> HIDE DEF soft, after
      <4> QED
        BY <1>0, <2>4, <2>6, <3>3, <3>6, <4>1, <4>2
    <3>7. -l \in DOMAIN declared \/ w = 0 \/ w > 0
      BY <2>3
    <3> QED
      BY <3>4, <3>5, <3>6, <3>7
  <2>8. after = [soft EXCEPT ![l] = w]
    <3>1. soft = [k \in Lit |-> soft[k]] /\ DOMAIN soft = Lit
      BY DEF ClientSoft
    <3> HIDE DEF soft, after
    <3> QED
      BY <2>3, <2>7, <3>1
  <2>9. Contract!Input
    BY <1>1, <2>3 DEF AddSoftLit
  <2>10. Contract!AddSoftLit(l, w)
    BY <2>3, <2>8, <2>9 DEF AddSoftLit, Contract!AddSoftLit
  <2> QED
    BY <2>3, <2>10
<1>6. ASSUME SetTerminate PROVE Contract!SetTerminate
  <2>1. state \in Contract!Callable /\ term_cb' \in BOOLEAN
    BY <1>6 DEF SetTerminate, Control, Contract!Callable
  <2> QED
    BY <1>6, <2>1 DEF SetTerminate, Contract!SetTerminate, Readable
<1>7. ASSUME SolveCalled PROVE Contract!SolveCalled
  BY <1>7 DEF SolveCalled, Control, Contract!SolveCalled, Contract!Callable, Readable,
              Contract!NoValue
<1> QED
  BY <1>2, <1>3, <1>4, <1>5, <1>6, <1>7, SameData DEF Client, Contract!Next

\* The solutions the contract speaks of.
LEMMA ContractSolutions ==
  Contract!Solutions = {m \in hard : SatisfiesAll(m, assumptions)}
  BY SameData DEF Contract!Solutions

\* A step of the search that does not return is invisible to the client.
LEMMA SilentMapped ==
  ASSUME IndInv, Control, Search, pc' # "idle"
  PROVE  UNCHANGED Contract!vars
<1>1. /\ pc # "idle" /\ UNCHANGED <<hard_clause, hard, term_cb>>
      /\ UNCHANGED <<assumptions, state>>
  BY SearchGoesOnSilently
<1>2. ~Readable /\ ~Readable'
  BY <1>1 DEF Control, Readable
<1>3. ClientSoft(Over(transition, declared))' = ClientSoft(Over(transition, declared))
  <2>1. CASE Rollback
    <3>1. PICK o, dt, dd : /\ o = Over(transition, declared) /\ dt = transition'
                           /\ dd = declared'
      OBVIOUS
    <3>2. DOMAIN dt = {} /\ dd = o
      BY <2>1, <3>1 DEF Rollback, NoLits
    <3>3. ClientSoft(Over(dt, dd)) = ClientSoft(o)
      BY <3>2 DEF ClientSoft, Over
    <3> QED
      BY <3>1, <3>3
  <2>2. CASE ~Rollback
    <3> USE DEF weights, client
    <3>1. CASE CallbackStops \/ CancelContradiction \/ BootUnsat \/ BootSat \/ NextLevel \/ Finish
      BY <3>1 DEF CallbackStops, CancelContradiction, BootUnsat, BootSat, NextLevel,
                  NextLevelTo, Finish
    <3>2. CASE Preprocess
      BY <3>2 DEF Preprocess, UnitsFromBase, UnitFromHard, StartClique, ContinueClique,
                  CliqueRound, Charged, Charging
    <3>3. CASE Replay
      BY <3>3 DEF Replay, StartReplay, EndReplay, ReplayCore
    <3>4. CASE StratumSolved \/ ChargeCore
      BY <3>4 DEF StratumSolved, ChargeCore, Charged, Charging
    <3> QED
      BY <2>2, <3>1, <3>2, <3>3, <3>4 DEF Search
  <2> QED
    BY <2>1, <2>2
<1> QED
  BY <1>1, <1>2, <1>3 DEF Contract!vars, Readable

\* A call ends where the callback stops it, a core refutes the assumptions, or
\* the strata are used up.
LEMMA WhereItReturns ==
  ASSUME Search, pc' = "idle"
  PROVE  \/ CallbackStops
         \/ BootUnsat \/ ReplayCore \/ EndReplay \/ ChargeCore
         \/ Finish
<1>1. CASE Rollback \/ CancelContradiction \/ BootSat \/ NextLevel
  BY <1>1 DEF Rollback, CancelContradiction, BootSat, NextLevel, NextLevelTo
<1>2. CASE Preprocess
  BY <1>2 DEF Preprocess, UnitsFromBase, UnitFromHard, StartClique, ContinueClique,
              CliqueRound, Charged, Charging
<1>3. CASE StartReplay \/ StratumSolved
  BY <1>3 DEF StartReplay, StratumSolved
<1> QED
  BY <1>1, <1>2, <1>3 DEF Search, Replay

\* What a step that returns leaves for the client to read.
LEMMA ReturnMapped ==
  ASSUME Control, Search, pc' = "idle", UNCHANGED weights,
         Contract!Optimal \/ Contract!Infeasible \/ Contract!Interrupted
  PROVE  Contract!SolveReturns
<1>1. /\ pc # "idle" /\ UNCHANGED <<hard_clause, hard, term_cb>>
      /\ assumptions' = {}
  BY SearchGoesOnSilently
<1>2. state = "SOLVING"
  BY <1>1 DEF Control
<1>3. ClientSoft(Over(transition, declared))' = ClientSoft(Over(transition, declared))
  BY DEF weights
<1> QED
  BY <1>1, <1>2, <1>3 DEF Contract!SolveReturns

\* 30 comes with a solution of the reported cost that nothing beats.
LEMMA FinishMapped ==
  ASSUME IndInv, Control, Finish
  PROVE  Contract!Optimal /\ UNCHANGED weights
<1>1. /\ Solving /\ UNCHANGED weights /\ engine'.cost = engine.cost
      /\ model' \in hard /\ SatisfiesAll(model', assumptions)
      /\ Residual(engine, model') = 0
  BY SettledRightly
<1>2. state' = "OPTIMAL"
  BY DEF Finish, Return
<1>3. /\ Sound(engine, hard, LitsOf(assumptions), declared) /\ hard \subseteq Assignment
  BY <1>1, SearchFacts DEF Assumed, LitsOf
<1>4. \A m \in Contract!Solutions :
        /\ engine.cost + Residual(engine, m) = Cost(ClientSoft(declared), m)
        /\ Residual(engine, m) \in Nat
  <2> TAKE m \in Contract!Solutions
  <2>1. m \in hard /\ m \in Assignment /\ SatisfiesAll(m, assumptions)
    BY <1>3, ContractSolutions
  <2>2. \A x \in LitsOf(assumptions) : m \in x.sat
    BY <2>1, AssumedHold
  <2> QED
    BY <1>3, <2>1, <2>2, ChargedPlusOwed, ResidualType
<1>5. \A m : Contract!Cost(ClientSoft(Over(transition, declared)), m) = Cost(ClientSoft(declared), m)
  BY <1>1, SameCost, WeightsInEffect
<1>6. engine.cost \in Nat
  BY <1>3 DEF Sound, IsEngine
<1>7. model' \in Contract!Solutions
  BY <1>1, ContractSolutions
<1>8. engine.cost = Cost(ClientSoft(declared), model')
  BY <1>1, <1>4, <1>6, <1>7
<1>9. \A m \in Contract!Solutions : engine.cost <= Cost(ClientSoft(declared), m)
  <2> TAKE m \in Contract!Solutions
  <2>1. PICK r : r = Residual(engine, m)
    OBVIOUS
  <2>2. r \in Nat /\ engine.cost + r = Cost(ClientSoft(declared), m)
    BY <1>4, <2>1
  <2> QED
    BY <1>6, <2>2
<1>10. Readable'
  BY <1>2 DEF Readable
<1>11. Completes(model', [v \in Var |-> IF ~Readable' THEN 0 ELSE IF v \in model' THEN 1 ELSE -1])
  BY <1>10 DEF Completes
<1>12. Contract!ReportsSolution
  BY <1>1, <1>5, <1>7, <1>8, <1>10, <1>11, SameData DEF Contract!ReportsSolution
<1>13. Contract!Optimal
  BY <1>1, <1>2, <1>5, <1>9, <1>10, <1>12 DEF Contract!Optimal
<1> QED
  BY <1>1, <1>13

\* Every step of the search is one the contract allows.
LEMMA SearchMapped ==
  ASSUME \A p \in Profiles : p.replay # 0, IndInv, Control, Search
  PROVE  Contract!Next \/ UNCHANGED Contract!vars
<1>1. CASE pc' # "idle"
  BY <1>1, SilentMapped
<1>2. CASE pc' = "idle" /\ CallbackStops
  <2>1. state' = "INPUT" /\ term_cb /\ UNCHANGED weights
    BY <1>2 DEF CallbackStops, Return
  <2>2. Contract!Interrupted
    BY <2>1 DEF Contract!Interrupted, Contract!ReportsNothing, Readable, Contract!NoValue
  <2> QED
    BY <1>2, <2>1, <2>2, ReturnMapped DEF Contract!Next
<1>3. CASE pc' = "idle" /\ (BootUnsat \/ ReplayCore \/ EndReplay \/ ChargeCore)
  <2>1. profile.replay # 0
    BY DEF IndInv, ClientInv
  <2>2. (\A m \in hard : ~SatisfiesAll(m, assumptions)) /\ Unsat /\ UNCHANGED weights
    BY <1>3, <2>1, RefutedRightly
  <2>3. Contract!Solutions = {} /\ state' = "UNSAT"
    BY <2>2, ContractSolutions DEF Unsat, Return
  <2>4. Contract!Infeasible
    BY <2>3 DEF Contract!Infeasible, Contract!ReportsNothing, Readable, Contract!NoValue
  <2> QED
    BY <1>3, <2>2, <2>4, ReturnMapped DEF Contract!Next
<1>4. CASE pc' = "idle" /\ Finish
  BY <1>4, FinishMapped, ReturnMapped DEF Contract!Next
<1> QED
  BY <1>1, <1>2, <1>3, <1>4, WhereItReturns

\* The empty instance is the contract's.
LEMMA InitMapped ==
  ASSUME Init
  PROVE  Contract!Init
<1>1. ClientSoft(Over(transition, declared)) = [l \in Contract!Lit |-> 0]
  <2>1. DOMAIN Over(NoLits, NoLits) = {}
    BY DEF Over, NoLits
  <2> QED
    BY <2>1, SameData DEF Init, ClientSoft
<1> QED
  BY <1>1, SameData DEF Init, Contract!Init, Readable, Contract!NoValue

\* core-trail answers as ipamir.h says, for every instance and sequence of calls,
\* if it keeps at least one epoch of cores and no client adds an empty clause.
THEOREM ContractMet ==
  ASSUME \A p \in Profiles : p.replay # 0 /\ {} \notin p.clauses
  PROVE  Spec => MeetsContract
<1>1. Init => Contract!Init
  BY InitMapped
<1>2. IndInv /\ Control /\ [Next]_vars => [Contract!Next]_(Contract!vars)
  <2> SUFFICES ASSUME IndInv, Control, [Next]_vars
               PROVE  [Contract!Next]_(Contract!vars)
    OBVIOUS
  <2>1. CASE Client
    BY <2>1, CallsMapped
  <2>2. CASE Search
    BY <2>2, SearchMapped
  <2>3. CASE UNCHANGED vars
    BY <2>3 DEF vars, client, weights, search, Contract!vars, Readable
  <2> QED
    BY <2>1, <2>2, <2>3 DEF Next
<1> QED
  BY <1>1, <1>2, Invariance, ControlHolds, PTL DEF Spec, MeetsContract, Contract!Spec

(***************************************************************************)
(* core-trail is core-guided.                                              *)
(***************************************************************************)
\* Charging a core does not lower the cost.
LEMMA ProcessCoreAdds ==
  ASSUME NEW e, NEW f, NEW H, NEW A, NEW d, Sound(e, H, A, d), Sound(f, H, A, d),
         NEW core, NEW base, core \ base \subseteq e.active, core \ base # {},
         NEW level, f = ProcessCore(e, core, base, level)
  PROVE  e.cost <= f.cost
<1> DEFINE lits == core \ base
<1>1. IsEngine(e) /\ EngineRecord(e)
  BY DEF Sound, IsEngine
<1>3. lits \in SUBSET Weighted(e) /\ lits # {} /\ lits \subseteq e.active
  BY <1>1 DEF IsEngine
<1>4. Chargeable(e, lits)
  <2> HIDE DEF lits
  <2> QED
    BY <1>3, ChargeableIf
<1>2. \E c : AfterCharge(e, f, c)
  <2>1. CASE \E l \in lits : lits = {l} /\ ~IsSum(l)
    <3>1. PICK l : f = ChargeUnit(e, core, l)
      BY <1>4, <2>1 DEF ProcessCore
    <3> QED
      BY <1>1, <3>1, UnitFields
  <2>2. CASE ~ \E l \in lits : lits = {l} /\ ~IsSum(l)
    <3>1. f = ChargeMany(e, core, lits, level)
      BY <1>4, <2>2 DEF ProcessCore
    <3>2. PICK w : w = LeastWeight(e, lits)
      OBVIOUS
    <3> HIDE DEF lits
    <3>4. LiveRoots(e, lits) = {} /\ Fresh(e, lits) \cap e.bnds = {}
      BY <1>3, <3>2, FreshFacts DEF Sound, IsEngine
    <3> QED
      BY <1>1, <3>1, <3>2, <3>4, ManyFields
  <2> QED
    BY <2>1, <2>2
<1> QED
  BY <1>2, ChargeAdds

\* Nor does cancelling a contradiction.
LEMMA CancelledAdds ==
  ASSUME NEW e, NEW f, NEW H, NEW A, NEW d, Sound(e, H, A, d), Sound(f, H, A, d),
         NEW base, NEW l, f = Cancelled(e, base, l)
  PROVE  e.cost <= f.cost
<1>1. EngineRecord(e)
  BY DEF Sound, IsEngine
<1>2. PICK core, lits : f = Cancel(e, core, lits)
  BY DEF Cancelled
<1>3. PICK w : w = LeastWeight(e, lits)
  OBVIOUS
<1>4. \E c : AfterCharge(e, f, c)
  BY <1>1, <1>2, <1>3, CancelFields
<1> QED
  BY <1>4, ChargeAdds

\* Nor does a round over a clique.
LEMMA CliqueAdds ==
  ASSUME NEW e, NEW f, NEW H, NEW A, NEW d, Sound(e, H, A, d), Sound(f, H, A, d),
         NEW q, NEW level, f = ProcessClique(e, q, level)
  PROVE  e.cost <= f.cost
<1>1. EngineRecord(e)
  BY DEF Sound, IsEngine
<1>2. PICK w : w = LeastWeight(e, q)
  OBVIOUS
<1>3. \E c : AfterCharge(e, f, c)
  BY <1>1, <1>2, CliqueFields
<1> QED
  BY <1>3, ChargeAdds

\* A step that leaves the client's side as it is, and what it does to the cost.
ChargesAlike ==
  /\ UNCHANGED <<profile, hard, assumptions, weights, last_assumptions, state, model>>
  /\ Solving /\ Solving'
  /\ engine.cost <= engine'.cost

\* A core charged within a stratum.
LEMMA CoreCharges ==
  ASSUME IndInv, IndInv', pc \in Within, Solving', NEW core, NEW base,
         core \ base \subseteq engine.active, core \ base # {},
         engine' = ProcessCore(engine, core, base, strata.level),
         UNCHANGED <<profile, hard, assumptions, weights, last_assumptions, state, model>>
  PROVE  ChargesAlike
<1>1. PICK f : f = engine'
  OBVIOUS
<1>2. Solving
  BY DEF Within, Solving
<1>3. Sound(engine, hard, Assumed, declared) /\ IsEngine(engine)
  BY <1>2, SearchFacts
<1>4. Sound(f, hard, Assumed, declared)
  <2>1. Sound(engine', hard', LitsOf(Relied)', declared')
    BY DEF IndInv, EngineInv
  <2>2. LitsOf(Relied)' = Assumed /\ hard' = hard /\ declared' = declared
    BY DEF LitsOf, Relied, Assumed, weights
  <2> QED
    BY <1>1, <2>1, <2>2
<1>6. engine.cost <= f.cost
  BY <1>1, <1>3, <1>4, ProcessCoreAdds
<1> QED
  BY <1>1, <1>2, <1>6 DEF ChargesAlike

\* The steps of the search that charge.
LEMMA ChargingSteps ==
  ASSUME IndInv, IndInv', pc' # "idle",
         CancelContradiction \/ Preprocess \/ ReplayCore \/ ChargeCore
  PROVE  ChargesAlike
<1> USE DEF client
<1>0. Solving' <=> pc' \notin {"idle", "start"}
  BY DEF Solving
<1>1. CASE CancelContradiction
  <2>1. /\ pc \in {"boot", "activated", "loop"} /\ pc' = pc
        /\ UNCHANGED <<profile, hard, assumptions, weights, last_assumptions, state, model>>
    BY <1>1 DEF CancelContradiction
  <2>2. Solving /\ Solving'
    BY <2>1 DEF Solving
  <2>3. PICK l : engine' = Cancelled(engine, Base, l)
    BY <1>1 DEF CancelContradiction
  <2>4. PICK f : f = engine'
    OBVIOUS
  <2>5. Sound(engine, hard, Assumed, declared) /\ Sound(f, hard, Assumed, declared)
    <3>1. Sound(engine', hard', LitsOf(Relied)', declared')
      BY DEF IndInv, EngineInv
    <3>2. LitsOf(Relied)' = Assumed /\ hard' = hard /\ declared' = declared
      BY <2>1, <2>2 DEF LitsOf, Relied, Assumed, weights
    <3> QED
      BY <2>2, <2>4, <3>1, <3>2, SearchFacts
  <2>6. engine.cost <= f.cost
    BY <2>3, <2>4, <2>5, CancelledAdds
  <2> QED
    BY <2>1, <2>2, <2>4, <2>6 DEF ChargesAlike
<1>2. CASE UnitsFromBase
  <2>1. pc = "activated" /\ pc' = "units"
        /\ UNCHANGED <<profile, hard, assumptions, weights, last_assumptions, state, model>>
    BY <1>2 DEF UnitsFromBase, Charged, Charging
  <2>2. Solving /\ Solving' /\ pc \in Within
    BY <2>1 DEF Solving, Within
  <2>3. PICK b, g : /\ b = (engine.thrown \/ ~Satisfiable(Base))
                    /\ g = [engine EXCEPT !.thrown = b]
    OBVIOUS
  <2>4. PICK forced \in SUBSET Forced : Charged(UnitsCharged(g, Base, strata.level, forced), "units")
    BY <1>2, <2>3 DEF UnitsFromBase, UnitsCharged
  <2>5. /\ Sound(g, hard, Assumed, declared) /\ g.cost = engine.cost
        /\ g.active = engine.active /\ g.impossible = engine.impossible
    BY <2>2, <2>3, BaseStands
  <2>6. PICK B, f : B = Base /\ f = UnitsCharged(g, B, strata.level, forced)
    OBVIOUS
  <2>7. /\ B = Assumed \cup g.impossible /\ forced \subseteq g.active \ B
        /\ \A x \in forced : ~IsSum(x) /\ hard \cap ModelsOf(B \cup {x}) = {}
    BY <2>4, <2>5, <2>6 DEF Base, Forced, Selectors, Satisfiable
  <2>8. UnitsTaken(g, f, hard, Assumed, declared, forced)
    BY <2>2, <2>5, <2>6, <2>7, SearchFacts, UnitsSound
  <2>9. engine' = f
    BY <2>4, <2>6 DEF Charged, Charging
  <2> QED
    BY <2>1, <2>2, <2>5, <2>8, <2>9 DEF ChargesAlike, UnitsTaken, WithoutUnits
<1>3. CASE UnitFromHard
  <2>1. pc \in Within /\ pc' = "conflicts"
        /\ UNCHANGED <<profile, hard, assumptions, weights, last_assumptions, state, model>>
    BY <1>3 DEF UnitFromHard, Charged, Charging, Within
  <2>2. PICK l \in Selectors : engine' = ProcessCore(engine, {l}, {}, strata.level)
    BY <1>3 DEF UnitFromHard, Charged, Charging
  <2>3. PICK core, base : core = {l} /\ base = {}
    OBVIOUS
  <2>4. core \ base \subseteq engine.active /\ core \ base # {}
    BY <2>2, <2>3 DEF Selectors
  <2> QED
    BY <1>0, <2>1, <2>2, <2>3, <2>4, CoreCharges
<1>4. CASE StartClique \/ ContinueClique
  <2>1. pc \in Within
    BY <1>4 DEF StartClique, ContinueClique, Within
  <2>2. PICK q : CliqueRound(q)
    BY <1>4 DEF StartClique, ContinueClique
  <2>3. /\ engine' = ProcessClique(engine, q, strata.level) /\ pc' = "cliques"
        /\ UNCHANGED <<profile, hard, assumptions, weights, last_assumptions, state, model>>
    BY <2>2 DEF CliqueRound, Charging
  <2>4. Solving /\ Solving'
    BY <2>1, <2>3 DEF Solving, Within
  <2>5. PICK f : f = engine'
    OBVIOUS
  <2>6. Sound(engine, hard, Assumed, declared) /\ Sound(f, hard, Assumed, declared)
    <3>1. Sound(engine', hard', LitsOf(Relied)', declared')
      BY DEF IndInv, EngineInv
    <3>2. LitsOf(Relied)' = Assumed /\ hard' = hard /\ declared' = declared
      BY <2>3, <2>4 DEF LitsOf, Relied, Assumed, weights
    <3> QED
      BY <2>4, <2>5, <3>1, <3>2, SearchFacts
  <2>7. engine.cost <= f.cost
    BY <2>3, <2>5, <2>6, CliqueAdds
  <2> QED
    BY <2>3, <2>4, <2>5, <2>7 DEF ChargesAlike
<1>5. CASE ReplayCore
  <2> DEFINE i == Min(Replayable)
             c == history[i].core
  <2>1. /\ pc = "replay" /\ Replayable # {} /\ UNCHANGED <<weights, model>>
        /\ IF c \subseteq Base
           THEN Unsat /\ UNCHANGED <<engine, history, cursor>>
           ELSE /\ engine' = ProcessCore(engine, c, Base, strata.level)
                /\ UNCHANGED <<client, last_assumptions, pc, state>>
    BY <1>5 DEF ReplayCore
  <2>2. i \in Replayable
    BY <2>1, FirstReplayable DEF IndInv, HistoryInv
  <2>3. PICK core : core = c
    OBVIOUS
  <2> HIDE DEF i, c
  <2>4. /\ ~(core \subseteq Base) /\ engine' = ProcessCore(engine, core, Base, strata.level)
        /\ UNCHANGED <<profile, hard, assumptions, weights, last_assumptions, state, model>>
    BY <2>1, <2>3 DEF Unsat, Return
  <2>5. core \ Base \subseteq engine.active /\ core \ Base # {}
    BY <2>2, <2>3, <2>4 DEF Replayable, Queried, c
  <2>6. pc \in Within
    BY <2>1 DEF Within
  <2>7. Solving'
    BY <1>0, <2>1, <2>3, <2>4
  <2> QED
    BY <2>4, <2>5, <2>6, <2>7, CoreCharges
<1>6. CASE ChargeCore
  <2>1. pc = "loop" /\ pc \in Within
    BY <1>6 DEF ChargeCore, Within
  <2>2. PICK core \in Cores :
          IF core \subseteq Base
          THEN /\ Unsat /\ engine' = [engine EXCEPT !.thrown = @ \/ core = {}]
               /\ UNCHANGED <<weights, history, cursor, model>>
          ELSE Charged(ProcessCore(engine, core, Base, strata.level), "loop")
    BY <1>6 DEF ChargeCore
  <2>3. ~(core \subseteq Base) /\ Charged(ProcessCore(engine, core, Base, strata.level), "loop")
    BY <2>2 DEF Unsat, Return
  <2>4. /\ engine' = ProcessCore(engine, core, Base, strata.level) /\ pc' = "loop"
        /\ UNCHANGED <<profile, hard, assumptions, weights, last_assumptions, state, model>>
    BY <2>3 DEF Charged, Charging
  <2>5. core \ Base \subseteq engine.active /\ core \ Base # {}
    BY <2>2, <2>3 DEF Cores, Queried
  <2> QED
    BY <1>0, <2>1, <2>4, <2>5, CoreCharges
<1> QED
  BY <1>1, <1>2, <1>3, <1>4, <1>5, <1>6 DEF Preprocess

\* What an assignment costs.
LEMMA PriceType ==
  ASSUME NEW e, NEW H, NEW A, NEW d, Sound(e, H, A, d), NEW m
  PROVE  Cost(ClientSoft(d), m) \in Nat
<1>1. PICK soft : soft = ClientSoft(d)
  OBVIOUS
<1>2. DOMAIN soft = Lit /\ \A l \in Lit : soft[l] \in Nat
  BY <1>1 DEF ClientSoft, Sound
<1> QED
  BY <1>1, <1>2, LitFinite, CostIsNatural

\* What an assignment costs and owes.
LEMMA CostAndDebt ==
  ASSUME IndInv, NEW m
  PROVE  Residual(engine, m) \in Nat /\ Cost(ClientSoft(declared), m) \in Nat /\ engine.cost \in Nat
  BY ResidualType, PriceType DEF IndInv, EngineInv, Sound, IsEngine

\* What is owed depends on the weights alone.
LEMMA SameDebt ==
  ASSUME NEW e, NEW f, f.wght = e.wght, f.swgt = e.swgt, NEW m
  PROVE  Residual(f, m) = Residual(e, m)
<1>1. Unpaid(f, m) = Unpaid(e, m)
  BY DEF Unpaid, Weighted
<1>2. LastOutputs(f) = LastOutputs(e)
  BY DEF LastOutputs
<1> QED
  BY <1>1, <1>2 DEF Residual

\* A charge is one of the abstract solver.
LEMMA ChargeMapped ==
  ASSUME IndInv, IndInv', ChargesAlike
  PROVE  Abstraction!Charge
<1>1. PICK o, p : o = [m \in Assignment |-> Residual(engine, m)]
                  /\ p = [m \in Assignment |-> Cost(ClientSoft(declared), m)]
  OBVIOUS
<1>2. PICK n : n = [m \in Assignment |-> Residual(engine, m)]'
  OBVIOUS
<1>3. PICK c, d : c = engine.cost /\ d = engine'.cost
  OBVIOUS
<1>4. c \in Nat /\ d \in Nat /\ c <= d
  BY <1>3, CostAndDebt DEF ChargesAlike, IndInv, EngineInv, Sound, IsEngine
<1>5. n \in [Assignment -> Nat]
  <2>1. \A m \in Assignment : Residual(engine', m) \in Nat
    <3> TAKE m \in Assignment
    <3>1. Sound(engine', hard', LitsOf(Relied)', declared')
      BY DEF IndInv, EngineInv
    <3> QED
      BY <3>1, ResidualType
  <2> QED
    BY <1>2, <2>1
<1>6. Relied' = Relied /\ hard' = hard /\ declared' = declared
  BY DEF ChargesAlike, Relied, weights
<1>7. \A m \in hard : SatisfiesAll(m, Relied) => n[m] = o[m] - (d - c)
  <2> SUFFICES ASSUME NEW m \in hard, SatisfiesAll(m, Relied)
               PROVE  n[m] = o[m] - (d - c)
    OBVIOUS
  <2>1. m \in Assignment
    BY DEF IndInv, ClientInv
  <2>2. PICK q : q = Cost(ClientSoft(declared), m)
    OBVIOUS
  <2>3. c + o[m] = q
    BY <1>1, <1>3, <2>1, <2>2, ExactNow DEF ExactReformulation
  <2>4. d + n[m] = q
    <3>1. Sound(engine', hard', LitsOf(Relied)', declared')
      BY DEF IndInv, EngineInv
    <3>2. LitsOf(Relied)' = LitsOf(Relied)
      BY <1>6 DEF LitsOf
    <3>3. Sound(engine', hard, LitsOf(Relied), declared) /\ hard \subseteq Assignment
      BY <1>6, <3>1, <3>2 DEF IndInv, ClientInv
    <3>4. \A x \in LitsOf(Relied) : m \in x.sat
      BY <2>1, AssumedHold
    <3>5. engine'.cost + Residual(engine', m) = Cost(ClientSoft(declared), m)
      BY <3>3, <3>4, ChargedPlusOwed
    <3> QED
      BY <1>2, <1>3, <2>1, <2>2, <3>5
  <2>5. o[m] \in Nat /\ n[m] \in Nat
    BY <1>1, <1>5, <2>1, CostAndDebt
  <2> QED
    BY <1>4, <2>3, <2>4, <2>5
<1>8. \A m \in Abstraction!Solutions : n[m] = o[m] - (d - c)
  BY <1>7 DEF Abstraction!Solutions
<1>9. /\ [m \in Assignment |-> Cost(ClientSoft(declared), m)]' = p
      /\ {m \in Assignment : SatisfiesAll(m, Relied)}' = {m \in Assignment : SatisfiesAll(m, Relied)}
  BY <1>1, <1>6
<1>10. UNCHANGED <<hard, state, model>> /\ Solving /\ Solving'
  BY DEF ChargesAlike
<1> QED
  BY <1>1, <1>2, <1>3, <1>4, <1>5, <1>8, <1>9, <1>10 DEF Abstraction!Charge

\* What an assignment owes and costs grows by the same.
Grows(e, f, d, c, m) ==
  /\ Residual(f, m) - Residual(e, m) = Cost(ClientSoft(c), m) - Cost(ClientSoft(d), m)
  /\ Cost(ClientSoft(c), m) >= Cost(ClientSoft(d), m)

\* Of a literal declared for the first time, an assignment owes what it costs.
LEMMA NewDebt ==
  ASSUME NEW e, NEW H, NEW A, NEW d, Sound(e, H, A, d), NEW l \in Lit, l \notin DOMAIN d,
         NEW w \in Nat, w > 0,
         NEW f, f = [e EXCEPT !.wght = Over(Maps(Orig(l), w), @),
                              !.active = @ \cup {Orig(l)},
                              !.original = @ \cup {Orig(l)}],
         NEW c, c = Over(Maps(l, w), d), NEW m \in Assignment
  PROVE  Grows(e, f, d, c, m)
<1> DEFINE o == Orig(l)
           log == e.log
           D == DOMAIN log
           P == [i \in D |-> UnmetIn(log[i], m)]
<1>1. Sound(f, H, A, c)
  BY DeclareSound
<1>2. IsEngine(e) /\ IsEngine(f) /\ Ledger(e, log, D, d) /\ Chained(log, D, d) /\ IsFiniteSet(D)
  BY <1>1, SoundLog DEF Sound, LogOf
<1>3. PICK wt, ac, og : /\ wt = Over(Maps(o, w), e.wght) /\ ac = e.active \cup {o}
                       /\ og = e.original \cup {o}
  OBVIOUS
<1>4. SameBut(e, f, wt, ac, og)
  BY <1>2, <1>3, WeightsAndActive DEF IsEngine
<1>5. f.wght = wt /\ f.swgt = e.swgt /\ f.log = log
  BY <1>4, Zenon DEF SameBut
<1>6. o \in Originals /\ o.name = l
  BY OrigFields DEF Originals
<1>7. o \notin Weighted(e)
  <2>1. \A i \in D : IsEntry(log[i]) /\ o \notin DOMAIN log[i].wdelta
    <3> TAKE i \in D
    <3>1. IsEntry(log[i]) /\ o \notin Taken(log[i])
      BY <1>2 DEF Chained
    <3>2. o \notin Given(log[i])
      BY <1>6, <3>1 DEF IsEntry
    <3> QED
      BY <3>1, <3>2 DEF Given
  <2>2. Changes(log, D, o) = 0
    BY <1>2, <2>1, NoChanges
  <2>3. Declared(d, o) = 0
    BY <1>6 DEF Declared
  <2>4. WeightIn(e, o) = Declared(d, o) + Changes(log, D, o)
    BY <1>2 DEF Ledger
  <2>5. WeightIn(e, o) = 0
    BY <2>2, <2>3, <2>4
  <2> QED
    BY <1>2, <2>5 DEF IsEngine, PositiveWeights, WeightIn, Weighted
<1>8. /\ Weighted(f) = Weighted(e) \cup {o} /\ f.wght[o] = w
      /\ \A x \in Weighted(e) : f.wght[x] = e.wght[x]
  BY <1>3, <1>5, <1>7 DEF Over, Maps, Weighted
<1>9. \A i \in D : P[i] = UnmetIn(log[i], m) /\ P[i] \in Int
  BY <1>2, UnmetInt DEF Chained
<1> HIDE DEF P, o
<1> DEFINE p == SumFunctionOnSet(P, D)
           ue == SumFunctionOnSet(e.wght, Unpaid(e, m))
           uf == SumFunctionOnSet(f.wght, Unpaid(f, m))
           ce == Cost(ClientSoft(d), m)
           cf == Cost(ClientSoft(c), m)
           X == [k \in LastOutputs(e) |-> e.swgt[k] * Excess(k, m)]
           r == SumFunctionOnSet(X, LastOutputs(e))
<1>10. p \in Int
  BY <1>2, <1>9, SumInt DEF Integral
<1>11. p + ce = ue /\ p + cf = uf
  <2>1. PICK q : q = p
    OBVIOUS
  <2>2. UnmetBalance(e, D, d, m, q)
    BY <1>9, <2>1, UnmetSummed
  <2>3. UnmetBalance(f, D, c, m, q)
    BY <1>1, <1>5, <1>9, <2>1, UnmetSummed
  <2> QED
    BY <2>1, <2>2, <2>3 DEF UnmetBalance
<1>12. Residual(e, m) = ue + r
  BY DEF Residual, SumFunction
<1>13. Residual(f, m) = uf + r
  <2>1. LastOutputs(f) = LastOutputs(e)
    BY <1>5 DEF LastOutputs
  <2> QED
    BY <1>5, <2>1 DEF Residual, SumFunction
<1>14. r \in Int
  <2>1. PICK L, R : L = LastOutputs(e) /\ R = X
    OBVIOUS
  <2>2. \A k \in L : R[k] = e.swgt[k] * Excess(k, m)
    BY <2>1
  <2>3. IsFiniteSet(L) /\ \A k \in L : R[k] \in Nat
    BY <2>1, <2>2, ExcessOwed
  <2> QED
    BY <2>1, <2>3, SumNat
<1>15. ce \in Int /\ cf \in Int
  BY <1>1, PriceType
<1>16. uf >= ue
  <2>1. IsFiniteSet(Unpaid(e, m)) /\ \A k \in Unpaid(e, m) : e.wght[k] \in Nat
    BY <1>2, UnpaidOwed
  <2>2. PICK S : S = Unpaid(e, m)
    OBVIOUS
  <2>3. Integral(e.wght, S) /\ o \notin S /\ \A x \in S : f.wght[x] = e.wght[x]
    BY <1>7, <1>8, <2>1, <2>2 DEF Integral, Unpaid
  <2>4. SumFunctionOnSet(e.wght, S) \in Int
    BY <2>3, SumInt
  <2>5. CASE m \in o.sat
    <3>1. Unpaid(f, m) = S
      BY <1>8, <2>2, <2>5 DEF Unpaid
    <3>2. SumFunctionOnSet(f.wght, S) = SumFunctionOnSet(e.wght, S)
      BY <2>3, SumSame
    <3> QED
      BY <2>2, <2>4, <3>1, <3>2
  <2>6. CASE m \notin o.sat
    <3>1. Unpaid(f, m) = S \cup {o}
      BY <1>8, <2>2, <2>6 DEF Unpaid
    <3>2. SumFunctionOnSet(f.wght, S \cup {o}) = SumFunctionOnSet(e.wght, S) + w
      BY <1>8, <2>3, SumExtend
    <3>3. ue = SumFunctionOnSet(e.wght, S) /\ uf = SumFunctionOnSet(f.wght, S \cup {o})
      BY <2>2, <3>1
    <3> HIDE DEF ue, uf
    <3> QED
      BY <2>4, <3>2, <3>3
  <2> QED
    BY <2>5, <2>6
<1> HIDE DEF p, ue, uf, ce, cf, r
<1>17. /\ (uf + r) - (ue + r) = cf - ce
       /\ cf >= ce
  <2>1. ue = p + ce /\ uf = p + cf
    BY <1>11
  <2> QED
    BY <1>10, <1>14, <1>15, <1>16, <2>1
<1>18. ce = Cost(ClientSoft(d), m) /\ cf = Cost(ClientSoft(c), m)
  BY DEF ce, cf
<1> QED
  BY <1>12, <1>13, <1>17, <1>18, Zenon DEF Grows

\* What the abstract solver sees of a step that leaves the objective as it is.
LEMMA SameObjective ==
  ASSUME declared' = declared, engine'.wght = engine.wght, engine'.swgt = engine.swgt
  PROVE  /\ [m \in Assignment |-> Cost(ClientSoft(declared), m)]'
              = [m \in Assignment |-> Cost(ClientSoft(declared), m)]
         /\ [m \in Assignment |-> Residual(engine, m)]' = [m \in Assignment |-> Residual(engine, m)]
<1>1. PICK f : f = engine'
  OBVIOUS
<1>2. \A m \in Assignment : Residual(f, m) = Residual(engine, m)
  BY <1>1, SameDebt
<1> QED
  BY <1>1, <1>2

\* A call of the client between two solves.
LEMMA InputGuided ==
  ASSUME Input, UNCHANGED <<last_assumptions, model>>, engine'.cost = engine.cost
  PROVE  Abstraction!Input
<1>1. ~Solving /\ ~Solving' /\ Relied = last_assumptions /\ Relied' = last_assumptions
  BY DEF Input, Solving, Relied
<1>2. {m \in Assignment : SatisfiesAll(m, Relied)}' = {m \in Assignment : SatisfiesAll(m, Relied)}
  BY <1>1
<1> QED
  BY <1>1, <1>2 DEF Input, Abstraction!Input

\* A soft literal: a new one is declared, a new weight of a known one waits.
LEMMA SoftGuided ==
  ASSUME IndInv, NEW s \in profile.softs, AddSoftLit(s[1], s[2])
  PROVE  Abstraction!Next
<1>1. PICK l, w : l = -s[1] /\ w = s[2]
  OBVIOUS
<1>2. s \in Lit \X Weight
  BY CoreTrailAssumption DEF IndInv, ClientInv
<1>3. l \in Lit /\ w \in Nat
  BY <1>1, <1>2, WeightAssumption, LitNotZero
<1>4. /\ Input /\ UNCHANGED <<hard, last_assumptions, model>>
      /\ \/ UNCHANGED <<declared, engine>>
         \/ /\ l \notin DOMAIN declared /\ w > 0
            /\ declared' = Over(Maps(l, w), declared)
            /\ engine' = [engine EXCEPT !.wght     = Over(Maps(Orig(l), w), @),
                                        !.active   = @ \cup {Orig(l)},
                                        !.original = @ \cup {Orig(l)}]
  BY <1>1 DEF AddSoftLit, client
<1>5. Sound(engine, hard, LitsOf(Relied), declared)
  BY DEF IndInv, EngineInv
<1>6. CASE UNCHANGED <<declared, engine>>
  <2>1. Abstraction!Input
    BY <1>4, <1>6, InputGuided
  <2> QED
    BY <1>4, <1>6, <2>1, SameObjective DEF Abstraction!Defer, Abstraction!Next
<1>7. CASE ~ UNCHANGED <<declared, engine>>
  <2>1. PICK f, c : /\ f = [engine EXCEPT !.wght     = Over(Maps(Orig(l), w), @),
                                          !.active   = @ \cup {Orig(l)},
                                          !.original = @ \cup {Orig(l)}]
                    /\ c = Over(Maps(l, w), declared)
    OBVIOUS
  <2>2. l \notin DOMAIN declared /\ w > 0 /\ engine' = f /\ declared' = c
    BY <1>4, <1>7, <2>1
  <2>3. Sound(f, hard, LitsOf(Relied), c)
    BY <1>3, <1>5, <2>1, <2>2, DeclareSound
  <2>4. f.cost = engine.cost
    <3>1. PICK wt, ac, og : /\ wt = Over(Maps(Orig(l), w), engine.wght)
                            /\ ac = engine.active \cup {Orig(l)}
                            /\ og = engine.original \cup {Orig(l)}
      OBVIOUS
    <3>2. SameBut(engine, f, wt, ac, og)
      BY <1>5, <2>1, <3>1, WeightsAndActive DEF Sound, IsEngine
    <3> QED
      BY <3>2 DEF SameBut
  <2>5. Abstraction!Input
    BY <1>4, <2>2, <2>4, InputGuided
  <2>6. PICK o, p, q, r :
          /\ o = [m \in Assignment |-> Residual(engine, m)]
          /\ p = [m \in Assignment |-> Cost(ClientSoft(declared), m)]
          /\ q = [m \in Assignment |-> Residual(f, m)]
          /\ r = [m \in Assignment |-> Cost(ClientSoft(c), m)]
    OBVIOUS
  <2>7. q \in [Assignment -> Nat] /\ r \in [Assignment -> Nat]
    <3>1. \A m \in Assignment : Residual(f, m) \in Nat
      BY <2>3, ResidualType
    <3>2. \A m \in Assignment : Cost(ClientSoft(c), m) \in Nat
      BY <2>3, PriceType
    <3> QED
      BY <2>6, <3>1, <3>2
  <2>8. \A m \in Assignment : r[m] >= p[m] /\ q[m] - o[m] = r[m] - p[m]
    <3> TAKE m \in Assignment
    <3>1. Grows(engine, f, declared, c, m)
      <4>1. PICK a : a = LitsOf(Relied)
        OBVIOUS
      <4>2. Sound(engine, hard, a, declared)
        BY <1>5, <4>1
      <4>3. l \in Lit /\ l \notin DOMAIN declared /\ w \in Nat /\ w > 0
        BY <1>3, <2>2
      <4> QED
        BY <2>1, <4>2, <4>3, NewDebt
    <3>2. /\ o[m] = Residual(engine, m) /\ q[m] = Residual(f, m)
          /\ p[m] = Cost(ClientSoft(declared), m) /\ r[m] = Cost(ClientSoft(c), m)
      BY <2>6
    <3> QED
      BY <3>1, <3>2, Zenon DEF Grows
  <2>9. /\ [m \in Assignment |-> Residual(engine, m)]' = q
        /\ [m \in Assignment |-> Cost(ClientSoft(declared), m)]' = r
    BY <2>2, <2>6
  <2>10. Abstraction!Declare
    BY <1>4, <2>5, <2>6, <2>7, <2>8, <2>9 DEF Abstraction!Declare
  <2> QED
    BY <2>10 DEF Abstraction!Next
<1> QED
  BY <1>6, <1>7

\* The client's calls are calls of the abstract solver.
LEMMA ClientGuided ==
  ASSUME IndInv, Control, Client
  PROVE  Abstraction!Next \/ UNCHANGED Abstraction!vars
<1>1. ASSUME NEW l \in Lit, AddHard(l) PROVE Abstraction!Defer
  <2>1. Input /\ UNCHANGED <<hard, declared, engine, last_assumptions, model>>
    BY <1>1 DEF AddHard, weights, search
  <2> QED
    BY <2>1, InputGuided, SameObjective DEF Abstraction!Defer
<1>2. CASE FinishHard
  <2>1. Input /\ hard' \subseteq hard /\ UNCHANGED <<declared, engine, last_assumptions, model>>
    BY <1>2 DEF FinishHard, weights, search
  <2>2. Abstraction!Harden
    BY <2>1, InputGuided, SameObjective DEF Abstraction!Harden
  <2> QED
    BY <2>2 DEF Abstraction!Next
<1>3. ASSUME NEW l \in profile.assumed, Assume(l) PROVE Abstraction!Defer
  <2>1. Input /\ UNCHANGED <<hard, declared, engine, last_assumptions, model>>
    BY <1>3 DEF Assume, weights, search
  <2> QED
    BY <2>1, InputGuided, SameObjective DEF Abstraction!Defer
<1>4. CASE SetTerminate
  <2>1. UNCHANGED <<hard, weights, search, assumptions, pc, state>>
    BY <1>4 DEF SetTerminate
  <2> QED
    BY <2>1 DEF weights, search, Abstraction!vars, Relied, Solving
<1>5. CASE SolveCalled
  <2>1. /\ pc = "idle" /\ pc' = "start" /\ state' = "SOLVING"
        /\ UNCHANGED <<hard, declared, engine, last_assumptions, model>>
    BY <1>5 DEF SolveCalled, client, weights, search
  <2>2. ~Solving /\ ~Solving' /\ Relied = last_assumptions /\ Relied' = last_assumptions
    BY <2>1 DEF Solving, Relied
  <2>3. {m \in Assignment : SatisfiesAll(m, Relied)}' = {m \in Assignment : SatisfiesAll(m, Relied)}
    BY <2>1, <2>2
  <2>4. Abstraction!Defer
    BY <2>1, <2>2, <2>3, SameObjective DEF Abstraction!Defer, Abstraction!Input
  <2> QED
    BY <2>4 DEF Abstraction!Next
<1> QED
  BY <1>1, <1>2, <1>3, <1>4, <1>5, SoftGuided DEF Client, Abstraction!Next

\* A call starts: what is charged and owed then adds up to the new prices.
LEMMA RollbackGuided ==
  ASSUME IndInv, IndInv', Control, Rollback
  PROVE  Abstraction!Begin
<1>1. /\ pc = "start" /\ pc' = "boot" /\ UNCHANGED <<hard, assumptions, model, state>>
  BY DEF Rollback, client
<1>2. ~Solving /\ Solving' /\ state = "SOLVING" /\ Relied' = assumptions
  BY <1>1 DEF Solving, Control, Relied
<1>3. PICK e, d, a : e = engine' /\ d = declared' /\ a = LitsOf(assumptions)
  OBVIOUS
<1>4. Sound(e, hard, a, d) /\ hard \subseteq Assignment
  <2>1. Sound(engine', hard', LitsOf(Relied)', declared')
    BY DEF IndInv, EngineInv
  <2>2. LitsOf(Relied)' = LitsOf(assumptions)
    BY <1>2 DEF LitsOf
  <2> QED
    BY <1>1, <1>3, <2>1, <2>2 DEF IndInv, ClientInv
<1>5. PICK q, r, s :
        /\ q = [m \in Assignment |-> Residual(e, m)]
        /\ r = [m \in Assignment |-> Cost(ClientSoft(d), m)]
        /\ s = {m \in Assignment : SatisfiesAll(m, assumptions)}
  OBVIOUS
<1>6. /\ [m \in Assignment |-> Residual(engine, m)]' = q
      /\ [m \in Assignment |-> Cost(ClientSoft(declared), m)]' = r
      /\ {m \in Assignment : SatisfiesAll(m, Relied)}' = s
  BY <1>2, <1>3, <1>5
<1>7. q \in [Assignment -> Nat] /\ r \in [Assignment -> Nat] /\ e.cost \in Nat
  <2>1. \A m \in Assignment : Residual(e, m) \in Nat /\ Cost(ClientSoft(d), m) \in Nat
    BY <1>4, ResidualType, PriceType
  <2> QED
    BY <1>4, <1>5, <2>1 DEF Sound, IsEngine
<1>8. \A m \in hard \cap s : e.cost + q[m] = r[m]
  <2> TAKE m \in hard \cap s
  <2>1. m \in Assignment /\ SatisfiesAll(m, assumptions)
    BY <1>5
  <2>2. \A x \in a : m \in x.sat
    BY <1>3, <2>1, AssumedHold
  <2>3. e.cost + Residual(e, m) = Cost(ClientSoft(d), m)
    BY <1>4, <2>2, ChargedPlusOwed
  <2> QED
    BY <1>5, <2>1, <2>3
<1>9. s \in SUBSET Assignment
  BY <1>5
<1> QED
  BY <1>1, <1>2, <1>3, <1>6, <1>7, <1>8, <1>9 DEF Abstraction!Begin

\* A call ends with what its assumptions are worth for the next one.
LEMMA ReturnGuided ==
  ASSUME Solving, pc' = "idle", NEW a \in {"OPTIMAL", "UNSAT"}, state' = a,
         last_assumptions' = assumptions,
         UNCHANGED <<hard, weights>>, engine'.cost = engine.cost,
         engine'.wght = engine.wght, engine'.swgt = engine.swgt
  PROVE  Abstraction!Return(a)
<1>1. ~Solving' /\ Relied = assumptions /\ Relied' = assumptions
  BY DEF Solving, Relied
<1>2. {m \in Assignment : SatisfiesAll(m, Relied)}' = {m \in Assignment : SatisfiesAll(m, Relied)}
  BY <1>1
<1> QED
  BY <1>1, <1>2, SameObjective DEF Abstraction!Return, weights

\* A call that refutes the assumptions.
LEMMA RefuteGuided ==
  ASSUME IndInv, Control, BootUnsat \/ ReplayCore \/ EndReplay \/ ChargeCore, pc' = "idle",
         profile.replay # 0
  PROVE  Abstraction!Refute
<1>1. /\ \A m \in hard : ~SatisfiesAll(m, assumptions)
      /\ Solving /\ Unsat /\ UNCHANGED weights
      /\ engine'.cost = engine.cost /\ engine'.wght = engine.wght /\ engine'.swgt = engine.swgt
  BY RefutedRightly
<1>2. hard' = hard /\ model' = model
  BY DEF BootUnsat, ReplayCore, EndReplay, ChargeCore, Charged, Charging, client, Unsat, Return
<1>3. Abstraction!Return("UNSAT")
  BY <1>1, <1>2, ReturnGuided DEF Unsat, Return
<1>4. Abstraction!Solutions = {}
  BY <1>1 DEF Abstraction!Solutions, Relied
<1> QED
  BY <1>1, <1>2, <1>3, <1>4 DEF Abstraction!Refute

\* A call that settles on an assignment.
LEMMA FinishGuided ==
  ASSUME IndInv, Control, Finish
  PROVE  Abstraction!Settle
<1>1. /\ Solving /\ UNCHANGED weights /\ engine'.cost = engine.cost
      /\ engine'.wght = engine.wght /\ engine'.swgt = engine.swgt
      /\ model' \in hard /\ SatisfiesAll(model', assumptions)
      /\ Residual(engine, model') = 0
  BY SettledRightly
<1>2. /\ pc' = "idle" /\ state' = "OPTIMAL" /\ last_assumptions' = assumptions /\ hard' = hard
  BY DEF Finish, Return
<1>3. Abstraction!Return("OPTIMAL")
  BY <1>1, <1>2, ReturnGuided
<1>4. PICK n : n = model'
  OBVIOUS
<1>5. n \in Assignment /\ n \in hard /\ SatisfiesAll(n, Relied) /\ Residual(engine, n) = 0
  BY <1>1, <1>4 DEF IndInv, ClientInv, Relied
<1>6. n \in Abstraction!Solutions /\ [m \in Assignment |-> Residual(engine, m)][n] = 0
  BY <1>5 DEF Abstraction!Solutions
<1> QED
  BY <1>1, <1>3, <1>4, <1>6 DEF Abstraction!Settle

\* The steps that charge nothing and do not return.
LEMMA OtherwiseSilent ==
  ASSUME IndInv, Control,
         CallbackStops \/ BootSat \/ NextLevel \/ StratumSolved \/ StartReplay
           \/ (EndReplay /\ pc' # "idle")
  PROVE  UNCHANGED Abstraction!vars
<1>1. UNCHANGED <<hard, weights, last_assumptions, model>>
  BY DEF CallbackStops, Return, BootSat, NextLevel, NextLevelTo, StratumSolved, StartReplay,
         EndReplay, client, search, weights, Unsat
<1>2. /\ engine'.cost = engine.cost /\ engine'.wght = engine.wght /\ engine'.swgt = engine.swgt
  <2>1. CASE UNCHANGED engine
    BY <2>1
  <2>2. CASE ~ UNCHANGED engine
    <3>1. BootSat \/ NextLevel
      BY <2>2 DEF CallbackStops, StratumSolved, StartReplay, EndReplay, search
    <3>2. PICK b : engine' = [engine EXCEPT !.active = b]
      BY <3>1 DEF BootSat, NextLevel, NextLevelTo
    <3>3. DOMAIN engine = {"cost", "wght", "active", "impossible", "swgt", "bnds", "bnds_history",
                           "original", "log", "thrown"}
      BY DEF IndInv, EngineInv, Sound, IsEngine, EngineRecord
    <3> QED
      BY <3>2, <3>3
  <2> QED
    BY <2>1, <2>2
<1>3. CASE CallbackStops
  <2>1. pc = "start" /\ pc' = "idle" /\ state = "SOLVING" /\ state' = "INPUT"
    BY <1>3 DEF CallbackStops, Return, Control
  <2>2. ~Solving /\ ~Solving' /\ Relied' = Relied
    BY <1>1, <2>1 DEF Solving, Relied
  <2>3. {m \in Assignment : SatisfiesAll(m, Relied)}' = {m \in Assignment : SatisfiesAll(m, Relied)}
    BY <2>2
  <2> QED
    BY <1>1, <1>2, <2>1, <2>2, <2>3, SameObjective DEF Abstraction!vars, weights
<1>4. CASE ~CallbackStops
  <2>1. Solving /\ Solving' /\ UNCHANGED <<assumptions, state>>
    BY <1>4 DEF BootSat, NextLevel, NextLevelTo, StratumSolved, StartReplay, EndReplay,
                Solving, client, Unsat, Return
  <2>2. {m \in Assignment : SatisfiesAll(m, Relied)}' = {m \in Assignment : SatisfiesAll(m, Relied)}
    BY <2>1 DEF Relied
  <2> QED
    BY <1>1, <1>2, <2>1, <2>2, SameObjective DEF Abstraction!vars, weights
<1> QED
  BY <1>3, <1>4

\* Every step of the search is one of the abstract solver, or invisible to it.
LEMMA SearchGuided ==
  ASSUME \A p \in Profiles : p.replay # 0, IndInv, IndInv', Control, Search
  PROVE  Abstraction!Next \/ UNCHANGED Abstraction!vars
<1>1. profile.replay # 0
  BY DEF IndInv, ClientInv
<1>2. CASE Rollback
  BY <1>2, RollbackGuided DEF Abstraction!Next
<1>3. CASE Finish
  BY <1>3, FinishGuided DEF Abstraction!Next
<1>4. CASE pc' = "idle" /\ (BootUnsat \/ ReplayCore \/ EndReplay \/ ChargeCore)
  BY <1>1, <1>4, RefuteGuided DEF Abstraction!Next
<1>5. CASE pc' # "idle" /\ (CancelContradiction \/ Preprocess \/ ReplayCore \/ ChargeCore)
  <2>1. Abstraction!Charge
    BY <1>5, ChargingSteps, ChargeMapped
  <2> QED
    BY <2>1 DEF Abstraction!Next
<1>6. CASE \/ CallbackStops \/ BootSat \/ NextLevel \/ StratumSolved \/ StartReplay
           \/ (EndReplay /\ pc' # "idle")
  BY <1>6, OtherwiseSilent
<1>7. BootUnsat => pc' = "idle"
  BY DEF BootUnsat, Unsat, Return
<1>8. CancelContradiction \/ Preprocess => pc' # "idle"
  BY WhereItReturns DEF CancelContradiction, Preprocess, UnitsFromBase, UnitFromHard, StartClique,
         ContinueClique, CliqueRound, Charged, Charging
<1> QED
  BY <1>2, <1>3, <1>4, <1>5, <1>6, <1>7, <1>8 DEF Search, Replay

\* The empty instance is the abstract solver's.
LEMMA InitGuided ==
  ASSUME Init
  PROVE  Abstraction!Init
<1>1. IndInv
  BY InitHolds
<1>2. /\ hard = Assignment /\ engine = EmptyEngine /\ last_assumptions = {} /\ pc = "idle"
      /\ model = {} /\ state = "INPUT"
  BY DEF Init
<1>3. ~Solving /\ Relied = {}
  BY <1>2 DEF Solving, Relied
<1>4. {m \in Assignment : SatisfiesAll(m, Relied)} = Assignment
  BY <1>3 DEF SatisfiesAll
<1>5. Weighted(engine) = {} /\ engine.cost = 0
  BY <1>2 DEF EmptyEngine, Weighted, NoLits
<1>6. \A m \in Assignment : Residual(engine, m) = 0
  BY <1>1, <1>5, NothingOwed DEF IndInv, EngineInv
<1>7. \A m \in Assignment : Cost(ClientSoft(declared), m) = 0
  <2> TAKE m \in Assignment
  <2>1. engine.cost + Residual(engine, m) = Cost(ClientSoft(declared), m)
    BY <1>1, <1>2, <1>4, ExactNow DEF ExactReformulation
  <2> QED
    BY <1>5, <1>6, <2>1
<1>8. {} \in Assignment
  BY DEF Assignment
<1> QED
  BY <1>2, <1>3, <1>4, <1>5, <1>6, <1>7, <1>8 DEF Abstraction!Init, Abstraction!Free

\* core-trail implements the abstract core-guided solver: a charge takes the same
\* from every solution, and only the start of a call takes charges back.
THEOREM CoreGuidedImplemented ==
  ASSUME \A p \in Profiles : p.replay # 0
  PROVE  Spec => IsCoreGuided
<1>1. Init => Abstraction!Init
  BY InitGuided
<1>2. IndInv /\ IndInv' /\ Control /\ [Next]_vars => [Abstraction!Next]_(Abstraction!vars)
  <2> SUFFICES ASSUME IndInv, IndInv', Control, [Next]_vars
               PROVE  [Abstraction!Next]_(Abstraction!vars)
    OBVIOUS
  <2>1. CASE Client
    BY <2>1, ClientGuided
  <2>2. CASE Search
    BY <2>2, SearchGuided
  <2>3. CASE UNCHANGED vars
    BY <2>3 DEF vars, client, weights, search, Abstraction!vars, Relied, Solving
  <2> QED
    BY <2>1, <2>2, <2>3 DEF Next
<1> QED
  BY <1>1, <1>2, Invariance, ControlHolds, PTL DEF Spec, IsCoreGuided, Abstraction!Spec
====
