---------------------------- MODULE MCGuardedOps ----------------------------
\* Small instances of GuardedOps for TLC.
EXTENDS GuardedOps, TLC

Symmetry == Permutations(Tasks) \cup Permutations(Arcs)
=============================================================================
