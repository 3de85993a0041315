----------------------------- MODULE MCMemBroker ----------------------------
EXTENDS MemBroker

OneKind == [j \in Job |-> CHOOSE k \in Kind : TRUE]
Symmetry == Permutations(Routine) \cup Permutations(Sender) \cup Permutations(Job)
=============================================================================
