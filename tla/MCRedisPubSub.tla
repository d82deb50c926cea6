--------------------------- MODULE MCRedisPubSub ---------------------------
EXTENDS DeliveryRefinement, RedisPubSubClaims, TLC
CONSTANTS a1, a2, s1, s2, c1, c2, f1, f2
AllThreads == AppThreads \cup SubThreads
Symmetry == Permutations(AppThreads) \cup Permutations(Callbacks) \cup Permutations(SubThreads)
=============================================================================
