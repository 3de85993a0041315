---------------------------- MODULE MCRedisBroker ---------------------------
EXTENDS RedisBroker

OneKind == [j \in Job |-> CHOOSE k \in Kind : TRUE]
Symmetry == Permutations(Process) \cup Permutations(Routine)
=============================================================================
