---------------------------- MODULE LocalSearch ----------------------------
(***************************************************************************)
(* Aperture's local search over soft literals (maxsat/NuWeighting.cc, the  *)
(* branch for instances that are not read from a WCNF file): how the       *)
(* clauses, the soft literals and the assumptions of a solve become an     *)
(* instance of hard and soft clauses, and what a solution of it saves.     *)
(*                                                                         *)
(* A soft literal that occurs once, and not negated, is taken for the      *)
(* relaxation literal of its clause: the clause without it becomes soft.   *)
(***************************************************************************)
EXTENDS MaxSatInstance, SequencesExt, Stepping

\* The literals of a clause and the soft literals are sequences, for the code
\* reads them in order; `encoded' holds the literals in clauses of encoders.
SoftLits(soft) == {soft[i][2] : i \in DOMAIN soft}

WeightIn(soft, l) == soft[CHOOSE i \in DOMAIN soft : soft[i][2] = l][1]

(***************************************************************************)
(* targets_num_appearences: how often a soft literal occurs, 2 or more as  *)
(* soon as its negation occurs.                                            *)
(***************************************************************************)
Appearances(clauses, soft, encoded) ==
  [l \in SoftLits(soft) |->
     LET occurs(k) == UNION {{<<i, j>> : j \in {n \in DOMAIN clauses[i] :
                                                   clauses[i][n] = k}} :
                               i \in DOMAIN clauses}
     IN  IF occurs(-l) # {} \/ -l \in encoded THEN 2 ELSE Cardinality(occurs(l))]

(***************************************************************************)
(* Reading one clause.  The record r holds what the loop over its literals *)
(* knows of it, and what it has changed for the clauses after it.          *)
(***************************************************************************)
ClauseStart(r) ==
  [r EXCEPT !.lits = {}, !.redundant = FALSE, !.assumedTrue = FALSE,
            !.soft = FALSE, !.weight = 0, !.relaxedBy = 0, !.relaxAssumed = FALSE]

\* The literal occurs once: the clause's relaxation, unless it has one already.
TakeRelaxation(r, l, soft, assumed) ==
  LET w == WeightIn(soft, l)
      relaxed ==
        IF r.relaxedBy # 0
        THEN [r EXCEPT !.soft = FALSE,
                       !.appearances = [@ EXCEPT ![l] = 2, ![r.relaxedBy] = 2],
                       !.relaxAssumed = FALSE]
        ELSE IF -l \notin SoftLits(soft)
        THEN [r EXCEPT !.soft = TRUE, !.relaxedBy = l,
                       !.relaxAssumed = {l, -l} \cap assumed # {}]
        ELSE r
  IN  IF l \in assumed
      THEN [relaxed EXCEPT !.unsat = @ + w]
      ELSE [relaxed EXCEPT !.weight = @ + w]

ReadLiteral(r, l, soft, assumed) ==
  LET assumedFalse == -l \in assumed
      seen == IF l \in assumed /\ ~assumedFalse
              THEN [r EXCEPT !.redundant = TRUE, !.assumedTrue = TRUE]
              ELSE r
  IN  CASE l \in SoftLits(soft) /\ r.appearances[l] = 1 ->
             TakeRelaxation(seen, l, soft, assumed)
        [] assumedFalse -> seen
        [] OTHER -> [seen EXCEPT !.lits = @ \cup {l},
                                 !.redundant = @ \/ -l \in seen.lits]

(***************************************************************************)
(* A clause is kept, soft or hard, or nothing of it is: then its weight    *)
(* may count as lost, and its relaxation literal is made false at once.    *)
(***************************************************************************)
FinishClause(r) ==
  IF ~r.redundant /\ r.lits # {}
  THEN [r EXCEPT !.kept = Append(@, [lits |-> r.lits, hard |-> ~r.soft,
                                     weight |-> IF r.soft THEN r.weight ELSE 0,
                                     relaxedBy |-> IF r.soft THEN r.relaxedBy ELSE 0])]
  ELSE [r EXCEPT !.unsat = IF r.soft /\ (r.assumedTrue \/ r.lits = {})
                           THEN @ + r.weight ELSE @,
                 !.dropped = IF r.soft /\ r.lits # {} /\ ~r.relaxAssumed
                             THEN @ \cup {r.relaxedBy} ELSE @]

ReadClause(r, clause, soft, assumed) ==
  Step(FinishClause,
       FoldLeft(LAMBDA s, l : Step(LAMBDA t : ReadLiteral(t, l, soft, assumed), s),
                ClauseStart(r), clause))

\* A soft literal that relaxes no clause is the soft unit clause of its negation.
ReadSoft(r, wl, soft, assumed) ==
  LET w == wl[1]
      l == wl[2]
  IN  CASE r.appearances[l] = 1 /\ -l \notin SoftLits(soft) -> r
        [] l \in assumed -> [r EXCEPT !.unsat = @ + w]
        [] -l \in assumed -> r
        [] OTHER -> [r EXCEPT !.kept = Append(@, [lits |-> {-l}, hard |-> FALSE,
                                                  weight |-> w, relaxedBy |-> 0])]

Instance(clauses, soft, assumed, encoded) ==
  LET start == [appearances |-> Appearances(clauses, soft, encoded),
                kept |-> <<>>, unsat |-> 0, dropped |-> {}, lits |-> {},
                redundant |-> FALSE, assumedTrue |-> FALSE, soft |-> FALSE,
                weight |-> 0, relaxedBy |-> 0, relaxAssumed |-> FALSE]
      read == FoldLeft(LAMBDA r, c : Step(LAMBDA s : ReadClause(s, c, soft, assumed), r),
                       start, clauses)
  IN  FoldLeft(LAMBDA r, wl : Step(LAMBDA s : ReadSoft(s, wl, soft, assumed), r),
               read, soft)

(***************************************************************************)
(* The search flips variables of the kept clauses only.                    *)
(***************************************************************************)
Flippable(inst) ==
  {VarOf(l) : l \in UNION {inst.kept[i].lits : i \in DOMAIN inst.kept}}

\* hard_unsat_nb = 0
HardSatisfied(inst, m) ==
  \A i \in DOMAIN inst.kept :
    inst.kept[i].hard => SatisfiesClause(m, inst.kept[i].lits)

\* soft_unsat_weight + unsat_assumps_soft_weight
FullUnsatWeight(inst, m) ==
  FoldLeft(LAMBDA sum, k : IF k.hard \/ SatisfiesClause(m, k.lits)
                           THEN sum ELSE sum + k.weight,
           inst.unsat, inst.kept)

\* Makes the literals of a set true in an assignment.
MakeTrue(m, lits) ==
  (m \ {-l : l \in {k \in lits : k < 0}}) \cup {l \in lits : l > 0}

\* The relaxation literal of a kept clause is true iff the rest of it is not.
RelaxationsFor(inst, m) ==
  {IF SatisfiesClause(m, k.lits) THEN -k.relaxedBy ELSE k.relaxedBy :
     k \in {inst.kept[i] : i \in {j \in DOMAIN inst.kept :
                                    inst.kept[j].relaxedBy # 0}}}

\* Mutant: the relaxation literals are left as they are.
SavedUnrelaxed(inst, m) == m

\* SaveSolutionAndValue: the assignment found, with its relaxation literals.
SavedSolution(inst, m) == MakeTrue(m, RelaxationsFor(inst, m))
=============================================================================
