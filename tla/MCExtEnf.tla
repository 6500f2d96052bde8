------------------------------ MODULE MCExtEnf ------------------------------
EXTENDS ExtEnf

\* One argument to enforce, or two, in every framework: the attacks between two of
\* these are read as well, and count for nothing.  With none to enforce, every
\* argument has to become one that no set can defend, in a framework close to that.
AllFrameworks ==
  [enforce : {{1}, {1, 2}}, given : SUBSET (Arg \X Arg)]
    \cup [enforce : {{}},
          given : {{<<1, 2>>, <<2, 1>>, <<3, 3>>} \cup A : A \in SUBSET {<<2, 2>>, <<3, 1>>}}]
=============================================================================
