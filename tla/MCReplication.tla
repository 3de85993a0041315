---------------------------- MODULE MCReplication ---------------------------
EXTENDS Replication

CONSTANTS alice, bob

\* The replication with no deletion and no failure.
EditsOnly ==
    \A m \in Member :
        /\ \A l \in doc[m] : ~l.del
        /\ ~dropped[m] /\ jobs[m] \subseteq {0}
        /\ \A n \in Targets(m) : rep[m][n].st # "failed"
=============================================================================
