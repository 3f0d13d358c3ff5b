----------------------------- MODULE MCScaffolder -----------------------------
\* Instances of Scaffolder.  Tasks, requests, names and workers are only
\* compared for equality.
EXTENDS ScaffolderRefinement, TLC

ScaffolderSymmetry ==
    Permutations(Tasks) \cup Permutations(Requests) \cup Permutations(Workers)
=============================================================================
