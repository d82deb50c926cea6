-------------------------- MODULE MCClientWrapper --------------------------
EXTENDS ClientWrapper, TLC
CONSTANTS a1, a2, s1, s2, c1, c2, f1, f2
AllThreads == AppThreads \cup SubThreads
Symmetry == Permutations(AppThreads) \cup Permutations(Channels)
=============================================================================
