------------------------------ MODULE MCFnLife -------------------------------
EXTENDS FnLife, TLC

Symmetry == Permutations(DepPods)

\* a bound on the faults together: a restart of the gate, or an error and a killed pod
RestartAlone == fnrestarts = 0 \/ fnfaults + kills = 0
=============================================================================
