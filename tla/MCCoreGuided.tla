---------------------------- MODULE MCCoreGuided ----------------------------
EXTENDS CoreGuided, TLC

CONSTANTS m1, m2

MCModel == {m1, m2}

Symmetric == Permutations(MCModel)
=============================================================================
