---------------------------- MODULE MCSolver2022 ----------------------------
EXTENDS Solver2022

MCHardLit == {1, 2, -2}

\* One polarity of each variable is soft.
MCSoftLit == {1, -2}

MCAssumeLit == {-1, 2}

\* A variable whose two literals are both soft.
BothPolarities == {1, -1}
=============================================================================
