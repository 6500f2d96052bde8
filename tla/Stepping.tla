------------------------------ MODULE Stepping ------------------------------
(***************************************************************************)
(* A fold hands each step the fold of what comes before it, unevaluated;   *)
(* where a step looks at its argument more than once that takes            *)
(* exponential time.  Step has it evaluated once.                          *)
(***************************************************************************)
Step(Op(_), e) == CHOOSE after \in {Op(before) : before \in {e}} : TRUE
=============================================================================
