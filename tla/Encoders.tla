------------------------------ MODULE Encoders ------------------------------
(***************************************************************************)
(* Aperture's pseudo-Boolean encoders (Aperture/src/constraints): the      *)
(* generalized totalizer and the adder with its comparator.  An encoding   *)
(* under construction is a record of the next variable NewVar will give,   *)
(* the clauses added, and what is left to encode; the operators below are  *)
(* one merge of two totalizer nodes, one gate of the adder, and the folds  *)
(* that build a whole encoding.                                            *)
(*                                                                         *)
(* A weighted literal is a pair <<weight, literal>>.  EncodeTotalizer with *)
(* leq_simplification is the generalized totalizer with weight 1: output i *)
(* of a node is its output of weight i + 1.                                *)
(***************************************************************************)
EXTENDS Integers, FiniteSets, SequencesExt, Stepping

CONSTANT kNumBitsInWeight   \* the width of a weight, 64 in the code

ASSUME WidthAssumption == kNumBitsInWeight \in Nat \ {0}

(***************************************************************************)
(* Unit propagation, by which the SAT solver reads an encoding: the        *)
(* literals the clauses force when those of `given' hold.                  *)
(***************************************************************************)
Propagated(clauses, given) ==
  LET Unit(known) == {l \in UNION clauses :
                        \E c \in clauses : l \in c /\ \A k \in c \ {l} : -k \in known}
      rounds == Cardinality({IF l > 0 THEN l ELSE -l : l \in UNION clauses})
      known[n \in 0 .. rounds] ==
        IF n = 0 THEN given
        ELSE UNION {before \cup Unit(before) : before \in {known[n - 1]}}
  IN  known[rounds]

Conflicting(lits) == \E l \in lits : -l \in lits

VarsOf(lits) == {IF l > 0 THEN l ELSE -l : l \in lits}

\* The variables propagation leaves open can be given values.
Extends(clauses, given) ==
  \E known \in {Propagated(clauses, given)} :
    /\ ~Conflicting(known)
    /\ \E true \in SUBSET (VarsOf(UNION clauses) \ VarsOf(known)) :
         \A c \in clauses : \E l \in c : \/ l \in known
                                         \/ l \in true
                                         \/ l < 0 /\ -l \notin known \cup true

(***************************************************************************)
(* The totalizer.  A node maps each weight it can stand for to the literal *)
(* that is true when the leaves below weigh at least that much; weights    *)
(* from the limit up are one.                                              *)
(***************************************************************************)
CheckRhsSimplification(limit, w) == IF w < limit THEN w ELSE limit

MergedWeights(left, right, limit) ==
  {CheckRhsSimplification(limit, w) :
     w \in DOMAIN left \cup DOMAIN right
             \cup {l + r : l \in DOMAIN left, r \in DOMAIN right}}

\* NewVar for each weight of the merged node; the code takes the weights in
\* the order it meets them, here they are taken in increasing order.
MergedNode(weights, next) ==
  [w \in weights |-> next + Cardinality({u \in weights : u < w})]

\* Mutants: the limit of the unweighted totalizer's zero-based loops applied to
\* weights, and the comparison the other way round.
PairsBelowByOne(left, right, limit) ==
  {p \in (DOMAIN left) \X (DOMAIN right) : p[1] + 1 < limit /\ p[2] + 1 < limit}

PairsNotBelow(left, right, limit) ==
  {p \in (DOMAIN left) \X (DOMAIN right) : p[1] >= limit \/ p[2] >= limit}

\* "The (-sw v pw') clauses are sufficient" for a pair with a side at the limit.
PairsBelow(left, right, limit) ==
  {p \in (DOMAIN left) \X (DOMAIN right) : p[1] < limit /\ p[2] < limit}

MergeClauses(left, right, parent, limit) ==
  {{-left[p[1]], -right[p[2]], parent[CheckRhsSimplification(limit, p[1] + p[2])]} :
     p \in PairsBelow(left, right, limit)}
  \cup {{-left[w], parent[CheckRhsSimplification(limit, w)]} : w \in DOMAIN left}
  \cup {{-right[w], parent[CheckRhsSimplification(limit, w)]} : w \in DOMAIN right}

\* The clauses of an encoding with a selector are off while the selector holds.
Selected(clauses, selector) ==
  IF selector = 0 THEN clauses ELSE {c \cup {selector} : c \in clauses}

\* Pop two nodes from the front of the queue, push their parent at the back.
AddAndMerge(e) ==
  LET left == e.queue[1]
      right == e.queue[2]
      parent == MergedNode(MergedWeights(left, right, e.limit), e.next)
  IN  [e EXCEPT !.queue = Append(SubSeq(@, 3, Len(@)), parent),
                !.next = @ + Cardinality(DOMAIN parent),
                !.clauses = @ \cup Selected(MergeClauses(left, right, parent, e.limit),
                                            e.selector)]

Before(a, b) == a[1] < b[1] \/ (a[1] = b[1] /\ a[2] < b[2])

\* Each of a set of weighted literals at its rank.
SortedWLits(wlits) ==
  [i \in 1 .. Cardinality(wlits) |->
     CHOOSE wl \in wlits : Cardinality({u \in wlits : Before(u, wl)}) = i - 1]

\* rhs is the largest cost the encoding has to tell from the costs below it.
InitGenTotalizer(wlits, next, selector, rhs) ==
  [queue    |-> [i \in 1 .. Cardinality(wlits) |->
                   LET wl == SortedWLits(wlits)[i] IN [w \in {wl[1]} |-> wl[2]]],
   next     |-> next,
   clauses  |-> {},
   selector |-> selector,
   limit    |-> rhs + 1]

EncodeGenTotalizer(wlits, next, selector, rhs) ==
  FoldLeft(LAMBDA e, i : Step(AddAndMerge, e),
           InitGenTotalizer(wlits, next, selector, rhs),
           [i \in 1 .. Cardinality(wlits) - 1 |-> i])

\* The assumptions LSU makes to leave only costs below value: on a generalized
\* totalizer the outputs of every weight the cost must not reach, otherwise the
\* output of the cost itself.
BoundWithTotalizer(tot, value, weighted) ==
  IF weighted THEN {-tot[w] : w \in {u \in DOMAIN tot : u >= value}} ELSE {-tot[value]}

(***************************************************************************)
(* The size of a totalizer, counted without building it.  Despite the name *)
(* the answer is TRUE when the encoding stays within the threshold.        *)
(***************************************************************************)
InitCount(wlits, rhs) ==
  [queue |-> [i \in 1 .. Cardinality(wlits) |-> {SortedWLits(wlits)[i][1]}],
   limit |-> rhs + 1,
   count |-> 0,
   widest |-> 0]

\* Mutant: pairs at the limit are counted although no clause is added for them.
CountAllPairs(c) ==
  LET left == c.queue[1]
      right == c.queue[2]
      node == [w \in left \cup right |-> w]
      pairs == Cardinality(left) * Cardinality(right)
  IN  [c EXCEPT !.queue = Append(SubSeq(@, 3, Len(@)),
                                 MergedWeights(Restrict(node, left),
                                               Restrict(node, right), c.limit)),
                !.count = @ + Cardinality(left) + Cardinality(right) + pairs]

CountAndMerge(c) ==
  LET left == c.queue[1]
      right == c.queue[2]
      parent_size == Cardinality(left) + Cardinality(right)
                       + Cardinality(left) * Cardinality(right)
      node == [w \in left \cup right |-> w]
  IN  [c EXCEPT !.queue = Append(SubSeq(@, 3, Len(@)),
                                 MergedWeights(Restrict(node, left),
                                               Restrict(node, right), c.limit)),
                !.count = @ + Cardinality(left) + Cardinality(right)
                            + Cardinality(PairsBelow(Restrict(node, left),
                                                     Restrict(node, right), c.limit)),
                !.widest = IF @ < parent_size THEN parent_size ELSE @]

Counted(wlits, rhs) ==
  FoldLeft(LAMBDA c, i : Step(CountAndMerge, c), InitCount(wlits, rhs),
           [i \in 1 .. Cardinality(wlits) - 1 |-> i])

IsLeqGenTotExceedsThr(wlits, rhs, threshold) ==
  LET c == Counted(wlits, rhs) IN c.widest <= threshold /\ c.count <= threshold

\* Without weights only the clauses count: a merged node is no wider than the
\* two it is made of, of which each output already has a clause.
IsLeqTotExceedsThr(wlits, rhs, threshold) == Counted(wlits, rhs).count <= threshold

(***************************************************************************)
(* The adder.  Bucket i holds literals of weight 2^i; full and half adders *)
(* reduce it to at most one, which becomes an output bit.                  *)
(***************************************************************************)
Bit(w, i) == (w \div 2^i) % 2

FullAdderSum(x, y, z, s) ==
  {{-x, -y, -z, s}, {-x, y, z, s}, {x, -y, z, s}, {x, y, -z, s},
   {x, y, z, -s}, {x, -y, -z, -s}, {-x, y, -z, -s}, {-x, -y, z, -s}}

\* Mutant: one pair of inputs does not carry.
FullAdderCarryMissing(x, y, z, c) ==
  {{-y, -z, c}, {-x, -z, c}, {y, z, -c}, {x, z, -c}, {x, y, -c}}

FullAdderCarry(x, y, z, c) ==
  {{-y, -z, c}, {-x, -z, c}, {-x, -y, c}, {y, z, -c}, {x, z, -c}, {x, y, -c}}

HalfAdderSum(x, y, s) == {{-x, y, s}, {x, -y, s}, {-x, -y, -s}, {x, y, -s}}

HalfAdderCarry(x, y, c) == {{x, -c}, {y, -c}, {-x, -y, c}}

\* The literals enter a bucket in the order of wlits; any order will do.
InitAdder(wlits, next) ==
  [buckets |-> [i \in 0 .. kNumBitsInWeight |->
                  LET in == {wl \in wlits : i < kNumBitsInWeight /\ Bit(wl[1], i) = 1}
                  IN  [k \in 1 .. Cardinality(in) |-> SortedWLits(in)[k][2]]],
   bit     |-> 0,
   next    |-> next,
   clauses |-> {},
   output  |-> <<>>]

\* The adder with the `in' front literals of the current bucket replaced by a
\* sum at its back and a carry at the back of the next bucket.
Gate(e, in, clauses) ==
  LET here == e.buckets[e.bit]
      above == e.buckets[e.bit + 1]
  IN  [e EXCEPT !.buckets = [@ EXCEPT ![e.bit] = Append(SubSeq(here, in + 1, Len(here)), e.next),
                                      ![e.bit + 1] = Append(above, e.next + 1)],
                !.next = @ + 2,
                !.clauses = @ \cup clauses]

AdderDone(e) == e.bit = kNumBitsInWeight

AdderStep(e) ==
  LET b == e.buckets[e.bit]
  IN  CASE Len(b) >= 3 ->
             Gate(e, 3, FullAdderSum(b[1], b[2], b[3], e.next)
                          \cup FullAdderCarry(b[1], b[2], b[3], e.next + 1))
        [] Len(b) = 2 ->
             Gate(e, 2, HalfAdderSum(b[1], b[2], e.next)
                          \cup HalfAdderCarry(b[1], b[2], e.next + 1))
        [] Len(b) = 1 ->
             [e EXCEPT !.output = Append(@, <<b[1], e.bit>>),
                       !.buckets = [@ EXCEPT ![e.bit] = <<>>],
                       !.bit = @ + 1]
        [] OTHER -> [e EXCEPT !.bit = @ + 1]

\* Every full adder leaves one literal less, a bucket has at most one half adder.
EncodeAdder(wlits, next) ==
  FoldLeft(LAMBDA e, i : Step(LAMBDA a : IF AdderDone(a) THEN a ELSE AdderStep(a), e),
           InitAdder(wlits, next),
           [i \in 1 .. (Cardinality(wlits) + 2) * kNumBitsInWeight |-> i])

(***************************************************************************)
(* The comparator: bound bits b beside the bits a of the adder, and prefix *)
(* bits p: p_i says that a and b agree above bit i.  Bit i of the adder    *)
(* has its real weight with it, and so has bit i of the bound.             *)
(***************************************************************************)
LessThanOrEqualBits(e) ==
  LET n == Len(e.output)
      a(i) == e.output[i][1]
      b(i) == e.next + i - 1
      p(i) == e.next + n + i - 1
  IN  [next    |-> e.next + 2 * n,
       bound   |-> [i \in 1 .. n |-> <<b(i), e.output[i][2]>>],
       clauses |-> e.clauses
         \cup (UNION {{{-p(i), p(i + 1)},
                       {-p(i), -a(i + 1), b(i + 1)},
                       {-p(i), a(i + 1), -b(i + 1)},
                       {a(i + 1), b(i + 1), -p(i + 1), p(i)},
                       {-a(i + 1), -b(i + 1), -p(i + 1), p(i)},
                       {-p(i), -a(i), b(i)}} : i \in 1 .. n - 1})
         \cup (IF n = 0 THEN {} ELSE {{p(n)}, {-p(n), -a(n), b(n)}})]

\* Mutant: bit i of the bound is taken for bit i of the weight.
UpdateLEQBoundByPosition(bound, w) ==
  {IF Bit(w, i - 1) = 1 THEN bound[i][1] ELSE -bound[i][1] : i \in DOMAIN bound}

\* The assumptions that set the bound; a bit of it that no output bit has is lost.
UpdateLEQBound(bound, w) ==
  {IF Bit(w, bound[i][2]) = 1 THEN bound[i][1] ELSE -bound[i][1] : i \in DOMAIN bound}
=============================================================================
