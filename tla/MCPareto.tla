------------------------------ MODULE MCPareto ------------------------------
EXTENDS ParetoApps

\* Solutions with up to 3 literals of the increasing objective false and 2 of the other.
AllInstances == SUBSET ((0 .. IncSize) \X (0 .. 2))

\* Fewer samples excused never allow a smaller rule; the rule without features has
\* size 0 and misclassifies at most every sample.
AllRuleSets ==
  LET sizes == {s \in [SUBSET Sample -> {0, 1, 3, 4, Infinite}] : s[Sample] = 0}
      monotone == {s \in sizes : \A n, m \in SUBSET Sample : n \subseteq m => s[n] >= s[m]}
  IN  {{<<n, s[n]>> : n \in {m \in SUBSET Sample : s[m] # Infinite}} : s \in monotone}
=============================================================================
