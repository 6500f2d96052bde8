---------------------------- MODULE MCWCNFRunner ----------------------------
EXTENDS WCNFRunner, TLC

\* A path of three variables, a vertex of which is dear.
PathClauses == {{1, 2}, {2, 3}}
PathSoft == (1 :> 1) @@ (2 :> 3) @@ (3 :> 1)
=============================================================================
