---------------------------- MODULE MCPythonSolve ----------------------------
EXTENDS PythonSolve

CONSTANTS t1, t2

OneThread == {t1}

TwoThreads == {t1, t2}
=============================================================================
