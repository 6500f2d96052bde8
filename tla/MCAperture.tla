----------------------------- MODULE MCAperture -----------------------------
EXTENDS Aperture

AddHardCall(l) == [call |-> "add_hard", lit |-> l]
SoftCall(l, w) == [call |-> "add_soft_lit", lit |-> l, weight |-> w]
AssumeCall(l) == [call |-> "assume", lit |-> l]
TerminateCall(s) == [call |-> "set_terminate", state |-> s]
Solve == <<{[call |-> "solve"]}>>

HardClause(lits) ==
  [i \in 1 .. Len(lits) + 1 |->
     {AddHardCall(IF i <= Len(lits) THEN lits[i] ELSE 0)}]

\* Vertex cover of a triangle with a tail, with a node to leave out, a node that gets dearer and a
\* callback that comes or goes in the second solve.
CoverScript ==
  HardClause(<<1, 2>>) \o HardClause(<<2, 3>>) \o HardClause(<<1, 3>>)
  \o HardClause(<<3, 4>>)
  \o <<{SoftCall(1, 1), SoftCall(1, 2)}, {SoftCall(2, 1)}, {SoftCall(3, 2)},
       {Skip, TerminateCall("client")}>>
  \o Solve
  \o <<{Skip, AssumeCall(-1), AssumeCall(-2)}, {Skip, SoftCall(2, 2)},
       {Skip, TerminateCall("none")}>>
  \o Solve

\* A solve may come first, of nothing or of a soft literal whose variable does not
\* exist.  Then two clauses relaxed by literals of their own, one of which may be
\* assumed, and two that are hard; in the last solve a weight may change, a node
\* is left out and a literal may be assumed that makes the instance infeasible.
RelaxedScript ==
  <<{Skip, SoftCall(3, 1)}, {Skip, [call |-> "solve"]}>>
  \o HardClause(<<3, 1>>) \o HardClause(<<4, -1, 2>>)
  \o HardClause(<<-2, 1>>) \o HardClause(<<-1, -2>>)
  \o <<{SoftCall(3, 1)}, {SoftCall(4, 1), SoftCall(4, 2)}, {Skip, SoftCall(2, 1)},
       {Skip, AssumeCall(3)}, {Skip, TerminateCall("client")}>>
  \o Solve
  \o <<{Skip, SoftCall(3, 2)}>> \o HardClause(<<-1>>) \o <<{Skip, AssumeCall(1)}>>
  \o Solve

AllScripts == {CoverScript, RelaxedScript}

\* A clause of two soft literals that occur nowhere else.
TwoRelaxations ==
  {HardClause(<<1, 2>>) \o <<{SoftCall(1, 1)}, {SoftCall(2, 1)}>> \o Solve}

\* The soft clause (1 or 3) is hardened by an assumption; 1 is dear.
Hardened ==
  {HardClause(<<3, 1>>) \o HardClause(<<-1, 2>>)
     \o <<{SoftCall(3, 1)}, {SoftCall(1, 2)}, {AssumeCall(-3)}>> \o Solve}

\* The clause that 3 relaxes is satisfied by an assumption.
Satisfied ==
  {HardClause(<<3, 1>>)
     \o <<{SoftCall(3, 1)}, {AssumeCall(1)}, {TerminateCall("client")}>> \o Solve}

\* A solution of cost 0 exists, and there is no callback.
Free == {HardClause(<<1, 2>>) \o <<{SoftCall(1, 1)}>> \o Solve}

\* A callback for a vertex cover.
Callback ==
  {HardClause(<<1, 2>>)
     \o <<{SoftCall(1, 1)}, {SoftCall(2, 1)}, {TerminateCall("client")}>> \o Solve}

\* A vertex cover to which a node is added after the first solve.
NewVariable ==
  {HardClause(<<1, 2>>) \o <<{SoftCall(1, 1)}, {SoftCall(2, 1)}>> \o Solve
     \o HardClause(<<-3>>) \o Solve}
=============================================================================
