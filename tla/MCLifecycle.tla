----------------------------- MODULE MCLifecycle -----------------------------
EXTENDS Lifecycle
Symmetry == Permutations(Processes)
=============================================================================
