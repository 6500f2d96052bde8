------------------------------ MODULE RC2Engine ------------------------------
(***************************************************************************)
(* The reformulated objective of the incremental core-guided solver        *)
(* (maxsat/core-trail/src/core/rc2_solver.cc) and the operations on it:    *)
(* charging a core, charging an at-most-one clique, cancelling literals    *)
(* that contradict, and undoing all of that ("disabling consequences")     *)
(* when the next call changes what it relied on.                           *)
(*                                                                         *)
(* The integer a literal has in the SAT solver is abstracted to what the   *)
(* literal means: a record that carries the assignments it is true in when *)
(* the solver chooses the auxiliary variables of the totalizers and of the *)
(* clique selectors in the best way the encodings (itot.hh, dag.hh) allow. *)
(* The counter cache (dag.hh) and the selector cache return the same       *)
(* literal for the same inputs, as equal records are the same literal.     *)
(***************************************************************************)
EXTENDS MaxSatInstance, SequencesExt

(***************************************************************************)
(* Objective literals.                                                     *)
(***************************************************************************)
Orig(l) ==
  [name |-> l, pos |-> TRUE, over |-> {}, bnd |-> 0,
   sat |-> {m \in Assignment : Holds(m, l)}]

\* Totalizer output: at most b literals of the core are false.
AtMostFalse(core, b) ==
  [name |-> 0, pos |-> TRUE, over |-> core, bnd |-> b,
   sat |-> {m \in Assignment : Cardinality({l \in core : m \notin l.sat}) <= b}]

\* Clique selector: some literal of the clique is true.
AnyOf(clique) ==
  [name |-> 0, pos |-> TRUE, over |-> clique, bnd |-> 0,
   sat |-> UNION {l.sat : l \in clique}]

Neg(l) ==
  [l EXCEPT !.name = -@,
            !.pos  = IF l.name = 0 THEN ~@ ELSE @,
            !.sat  = Assignment \ @]

IsSum(l) == l.bnd > 0

\* The next output of a sum's totalizer, which increases its bound by one.
NextOutput(l) == AtMostFalse(l.over, l.bnd + 1)

HasNextOutput(l) == l.bnd + 1 < Cardinality(l.over)

ModelsOf(lits) == {m \in Assignment : \A l \in lits : m \in l.sat}

(***************************************************************************)
(* The engine: wght_, sels_ and sums_ (together `active'), impossible_lits_, *)
(* swgt_, cost_, and lit_to_consequence_ as the sequence `log', oldest     *)
(* first.  Of bnds_, bnds_history_ and original_wght_ only the keys: a     *)
(* literal fixes its bound and its totalizer.  tobj_ and                   *)
(* lit_to_totalizerid_ are written and erased with swgt_.                  *)
(*                                                                         *)
(* `thrown' is set where a consistency check on this state throws a        *)
(* runtime_error: rc2_solver.cc 489-535 and 549-567 (rollback), 655 (base),*)
(* 1063 and 1092 (cores), 1155, 1161, 1186 and 1187 (totalizer counters)   *)
(* and 1655-1669 (end of the strata).  The checks without a disjunct here  *)
(* do not depend on this state: 301, 1124, 1211 and 1649 test what the same *)
(* function has just bounded or set, 816 and 1001 are switched off (hard_, *)
(* trim_), 1355 and 1360 need a literal twice in a core, 1183-1185, 1233,  *)
(* 1265 and 1281 the values of keys that are checked above; 60, 163 and    *)
(* 170 reject options, and those from 1713 on what a client passes, an     *)
(* abnormal status or a reading without an answer.                         *)
(***************************************************************************)
NoLits == [l \in {} |-> 0]

EmptyEngine ==
  [cost |-> 0, wght |-> NoLits, active |-> {}, impossible |-> {},
   swgt |-> NoLits, bnds |-> {}, bnds_history |-> {}, original |-> {},
   log |-> <<>>, thrown |-> FALSE]

Weighted(e) == DOMAIN e.wght

\* The function that maps only x, and f with the values of g where f has none
\* (:> and @@ of the TLC module, of which the provers have no definition).
Maps(x, y) == [k \in {x} |-> y]

Over(f, g) == [x \in DOMAIN f \cup DOMAIN g |-> IF x \in DOMAIN f THEN f[x] ELSE g[x]]

\* f without the arguments in S.
Drop(f, S) == Restrict(f, DOMAIN f \ S)

LeastWeight(e, lits) == Min({e.wght[l] : l \in lits})

\* A consequence: the charge, its core, the change of every weight, and the
\* literals taken out of and put into the active sets.
Consequence(core, w, wdelta, removed, added, created) ==
  [core |-> core, weight |-> w, wdelta |-> wdelta, removed |-> removed,
   added |-> added, created |-> created]

\* Take w from every literal of `lits': those left without weight are garbage,
\* those left below the current level are deactivated.
Dead(e, lits, w) == {l \in lits : e.wght[l] = w}

Lowered(e, lits, w, level) ==
  {l \in lits : e.wght[l] # w /\ e.wght[l] - w < level}

Reduced(e, lits, w) ==
  [l \in Weighted(e) \ Dead(e, lits, w) |->
     IF l \in lits THEN e.wght[l] - w ELSE e.wght[l]]

(***************************************************************************)
(* process_core: charge the core `core', a set of literals that cannot all *)
(* be true, of which `base' are assumptions or impossible literals.        *)
(***************************************************************************)
ChargeUnit(e, core, l) ==
  LET w == e.wght[l] IN
  [e EXCEPT !.cost         = @ + w,
            !.wght         = Drop(@, {l}),
            !.active       = @ \ {l},
            !.impossible   = @ \cup {Neg(l)},
            !.bnds         = @ \ {l},
            !.bnds_history = @ \cup (e.bnds \cap {l}),
            !.log          = Append(@, Consequence(core, w, [k \in {l} |-> -w],
                                                   {l}, {Neg(l)}, {}))]

Complementary(lits) == \E l \in lits : lits = {l, Neg(l)}

ChargeMany(e, core, lits, level) ==
  LET w       == LeastWeight(e, lits)
      dead    == Dead(e, lits, w)
      nexts   == {l \in lits : IsSum(l) /\ HasNextOutput(l)
                                        /\ NextOutput(l) \notin DOMAIN e.swgt}
      root    == IF Cardinality(lits) > 1 /\ ~Complementary(lits)
                 THEN {AtMostFalse(lits, 1)} ELSE {}
      live    == root \cap e.bnds
      weights == [k \in {NextOutput(l) : l \in nexts} \cup (root \ live) |->
                    IF k \in root THEN w
                    ELSE e.swgt[CHOOSE l \in nexts : NextOutput(l) = k]]
      created == DOMAIN weights
      delta   == Over(weights, [l \in lits |-> -w])
  IN [e EXCEPT
        !.cost         = @ + w,
        !.wght         = Over(weights, Reduced(e, lits, w)),
        !.active       = (@ \ (dead \cup Lowered(e, lits, w, level))) \cup created \cup live,
        !.swgt         = Over(weights, @),
        !.bnds         = (@ \cup created) \ dead,
        !.bnds_history = @ \cup ((e.bnds \cup created) \cap dead),
        !.log          = Append(@, Consequence(core, w, delta, dead,
                                               created \cup (live \ e.active), created)),
        !.thrown       = \/ @
                         \/ \E k \in live : k \notin DOMAIN e.swgt \cap Weighted(e) \/ e.swgt[k] # w
                         \/ \E l \in nexts : NextOutput(l) \in e.bnds]

\* What handle_core and update_sum look up: a weight for every literal, and the
\* totalizer and bound of each that is not an active selector.
Chargeable(e, lits) ==
  /\ lits \subseteq Weighted(e)
  /\ \A l \in lits : l \in (e.active \cap e.original) \cup (e.bnds \cap DOMAIN e.swgt)

\* Mutant: the consequence remembers the reduced core only.
ProcessReducedCore(e, core, base, level) ==
  LET lits == core \ base IN
  IF \E l \in lits : lits = {l} /\ ~IsSum(l)
  THEN ChargeUnit(e, lits, CHOOSE l \in lits : TRUE)
  ELSE ChargeMany(e, lits, lits, level)

ProcessCore(e, core, base, level) ==
  LET lits == core \ base IN
  IF ~Chargeable(e, lits) THEN [e EXCEPT !.thrown = TRUE]
  ELSE IF \E l \in lits : lits = {l} /\ ~IsSum(l)
  THEN ChargeUnit(e, core, CHOOSE l \in lits : TRUE)
  ELSE ChargeMany(e, core, lits, level)

(***************************************************************************)
(* process_am1: one round over a clique of which at most one literal can   *)
(* be true.  CliqueRest is what the next round works on.                   *)
(***************************************************************************)
ProcessClique(e, clique, level) ==
  LET w       == LeastWeight(e, clique)
      dead    == Dead(e, clique, w)
      sel     == AnyOf(clique)
      penalty == w * (Cardinality(clique) - 1)
      delta   == Over(Maps(sel, w), [l \in clique |-> -w])
  IN [e EXCEPT
        !.cost   = @ + penalty,
        !.wght   = Over(Maps(sel, w), Reduced(e, clique, w)),
        !.active = (@ \ (dead \cup Lowered(e, clique, w, level)))
                     \cup (IF w >= level THEN {sel} ELSE {}),
        !.bnds         = @ \ dead,
        !.bnds_history = @ \cup (e.bnds \cap dead),
        !.original     = @ \cup {sel},
        !.log    = Append(@, Consequence(clique, penalty, delta, dead, {sel}, {}))]

CliqueRest(e, clique) == clique \ Dead(e, clique, LeastWeight(e, clique))

(***************************************************************************)
(* remove_contradictory_objective_assumptions: two complementary active    *)
(* literals cancel, an active literal a base literal negates is charged.   *)
(***************************************************************************)
Cancel(e, core, lits) ==
  LET w    == LeastWeight(e, lits)
      dead == Dead(e, lits, w)
  IN [e EXCEPT
        !.cost   = @ + w,
        !.wght   = Reduced(e, lits, w),
        !.active = @ \ dead,
        !.bnds         = @ \ dead,
        !.bnds_history = @ \cup (e.bnds \cap dead),
        !.log    = Append(@, Consequence(core, w, [l \in lits |-> -w], dead, {}, {}))]

ClashingPairs(e, base) ==
  {l \in e.active \ base : Neg(l) \in e.active \ base}

ClashingWithBase(e, base) ==
  {l \in e.active \ base : Neg(l) \in base}

\* Complementary pairs go first.
Cancellable(e, base) ==
  IF ClashingPairs(e, base) # {} THEN ClashingPairs(e, base)
                                 ELSE ClashingWithBase(e, base)

\* Mutant: cancelling is free.
CancelledFree(e, base, l) ==
  [(IF Neg(l) \in base THEN Cancel(e, {l, Neg(l)}, {l})
                       ELSE Cancel(e, {l, Neg(l)}, {l, Neg(l)})) EXCEPT !.cost = e.cost]

Cancelled(e, base, l) ==
  IF Neg(l) \in base THEN Cancel(e, {l, Neg(l)}, {l})
                     ELSE Cancel(e, {l, Neg(l)}, {l, Neg(l)})

(***************************************************************************)
(* disable_old_consequences.                                               *)
(***************************************************************************)
Taken(c) == {l \in DOMAIN c.wdelta : c.wdelta[l] < 0}

\* The consequences whose core holds a conflicting literal, a literal added by
\* a disabled consequence, or one whose weight a disabled consequence reduced:
\* each round adds those the last one found, and one round per consequence is
\* enough.
Marked(log, conflicting, D) ==
  conflicting \cup UNION {log[i].added \cup Taken(log[i]) : i \in D}

\* Mutant: what a disabled consequence added or took does not conflict.
ToDisableDirectly(log, conflicting) ==
  {i \in DOMAIN log : log[i].core \cap conflicting # {}}

ToDisable(log, conflicting) ==
  FoldLeft(LAMBDA D, c : {i \in DOMAIN log : log[i].core \cap Marked(log, conflicting, D) # {}},
           {}, log)

\* Undo one consequence: weights a delta cancels are erased, weights that were
\* erased come back.
Restored(e, c, l) == (IF l \in Weighted(e) THEN e.wght[l] ELSE 0) - c.wdelta[l]

\* What c took out that comes back as a sum: the literals that are no selectors
\* and not among the active ones.
RestoredSums(e, c) == {l \in c.removed : l \notin e.original \cup (e.active \ c.added)}

\* Mutant: impossible literals outlive the assumptions that made them so.
UndoKeepsImpossible(e, c) ==
  LET back == [l \in DOMAIN c.wdelta |-> Restored(e, c, l)]
      sums == RestoredSums(e, c)
  IN [e EXCEPT !.active = (@ \ c.added) \cup c.removed,
               !.cost   = @ - c.weight,
               !.wght   = Drop(Over(back, @), {l \in DOMAIN back : back[l] = 0}),
               !.swgt   = Drop(@, c.created),
               !.bnds   = (@ \cup sums) \ c.created,
               !.bnds_history = @ \ (sums \ e.bnds)]

Undo(e, c) ==
  LET back == [l \in DOMAIN c.wdelta |-> Restored(e, c, l)]
      sums == RestoredSums(e, c)
  IN [e EXCEPT
     !.active       = (@ \ c.added) \cup c.removed,
     !.impossible   = @ \ c.added,
     !.cost         = @ - c.weight,
     !.wght         = Drop(Over(back, @), {l \in DOMAIN back : back[l] = 0}),
     !.swgt         = Drop(@, c.created),
     !.bnds         = (@ \cup sums) \ c.created,
     !.bnds_history = @ \ (sums \ e.bnds),
     !.thrown       = \/ @
                      \/ ~(sums \ e.bnds \subseteq e.bnds_history)
                      \/ ~(sums \subseteq DOMAIN e.swgt)
                      \/ \E l \in DOMAIN back : back[l] < 0
                      \/ \E l \in DOMAIN back \ (Weighted(e) \cup Taken(c)) : TRUE
                      \/ ~(c.created \subseteq DOMAIN e.swgt)]

\* The entries of the log at the indices idx, in the order of the log.
Sublog(log, idx) ==
  LET nth(i) == CHOOSE k \in idx : Cardinality({j \in idx : j <= k}) = i
  IN  [i \in 1..Cardinality(idx) |-> log[nth(i)]]

\* What the rollback checks at its end.
InOrder(e) ==
  /\ e.active \subseteq Weighted(e)
  /\ \A l \in Weighted(e) : e.wght[l] > 0
  /\ \A l \in e.active : IF IsSum(l) THEN l \in DOMAIN e.swgt \cap e.bnds
                                     ELSE l \in e.original

\* Disabled consequences are undone newest first.
Disable(e, idx) ==
  LET undone == FoldLeft(Undo, e, Reverse(Sublog(e.log, idx))) IN
  [undone EXCEPT
     !.log    = Sublog(e.log, DOMAIN e.log \ idx),
     !.thrown = @ \/ (idx # {} /\ ~InOrder(undone))]

(***************************************************************************)
(* What the reformulation stands for.  Assignment m leaves every weighted  *)
(* literal it falsifies unpaid, and every output of a totalizer that is    *)
(* not introduced yet: those above the last introduced output l.           *)
(***************************************************************************)
Unpaid(e, m) == {l \in Weighted(e) : m \notin l.sat}

LastOutputs(e) == {l \in DOMAIN e.swgt : NextOutput(l) \notin DOMAIN e.swgt}

Excess(l, m) ==
  LET false == Cardinality({k \in l.over : m \notin k.sat})
  IN  IF false > l.bnd + 1 THEN false - (l.bnd + 1) ELSE 0

Residual(e, m) ==
  SumFunctionOnSet(e.wght, Unpaid(e, m))
    + SumFunction([l \in LastOutputs(e) |-> e.swgt[l] * Excess(l, m)])
=============================================================================
