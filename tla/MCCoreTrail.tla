---------------------------- MODULE MCCoreTrail ----------------------------
EXTENDS CoreTrail

\* Vertex cover of a triangle; leaving a node out of it forces the other two into
\* it, for one call.
Covers ==
  [clauses    |-> {{1, 2}, {2, 3}, {1, 3}},
   softs      |-> {<<1, 1>>, <<2, 1>>, <<3, 1>>},
   assumed    |-> {-1, -2},
   terminates |-> FALSE,
   replay     |-> 1,
   maxAssumed |-> 1,
   maxSolves  |-> 2]

\* Both literals of a variable are soft, with different weights; an exclusive or,
\* and a unit clause that contradicts an assumption.
Opposed ==
  [clauses    |-> {{1}, {1, 2}, {-1, -2}},
   softs      |-> {<<1, 1>>, <<-1, 2>>, <<2, 1>>},
   assumed    |-> {2},
   terminates |-> TRUE,
   replay     |-> 2,
   maxAssumed |-> 1,
   maxSolves  |-> 2]

\* Two strata of weights, and a literal whose weight changes and is retracted.
Reweights ==
  [clauses    |-> {{1, 2}, {2, 3}},
   softs      |-> {<<1, 1>>, <<1, 2>>, <<1, 0>>, <<2, 1>>, <<3, 2>>},
   assumed    |-> {},
   terminates |-> FALSE,
   replay     |-> 1,
   maxAssumed |-> 0,
   maxSolves  |-> 2]

\* Weights of which charges leave remainders between two strata.
Uneven ==
  [clauses    |-> {{1, 2}, {1, 3}},
   softs      |-> {<<1, 5>>, <<2, 2>>, <<3, 5>>, <<-3, 1>>},
   assumed    |-> {},
   terminates |-> FALSE,
   replay     |-> 1,
   maxAssumed |-> 0,
   maxSolves  |-> 1]

\* The triangle with a cheap node: a clique that outlives its first charge.
CheapNode ==
  [clauses    |-> {{1, 2}, {2, 3}, {1, 3}},
   softs      |-> {<<1, 1>>, <<2, 2>>, <<3, 2>>},
   assumed    |-> {},
   terminates |-> FALSE,
   replay     |-> 1,
   maxAssumed |-> 0,
   maxSolves  |-> 1]

AllProfiles == {Covers, Opposed, Reweights, Uneven, CheapNode}

\* The clause no assignment satisfies.
EmptyClause ==
  {[Uneven EXCEPT !.clauses = {{}}, !.softs = {}]}

\* The option core_replay=0.
NoReplay ==
  {[Uneven EXCEPT !.clauses = {}, !.softs = {<<1, 1>>}, !.replay = 0]}
=============================================================================
