\* Three tokens are enough: the key is free when one is drawn, and each of the
\* two processes has at most one.  No symmetry, which is unsound for liveness.
SPECIFICATION FairSpec
CONSTANTS
    s1 = s1
    s2 = s2
    g1 = g1
    g2 = g2
    Stack = {s1, s2}
    Thread <- Threads
    Token = {k1, k2, k3}
    NoToken = NoToken
    TTL = 3
    MaxLate = 1
INVARIANTS
    TypeOK
    CountsMatch
    LeaseExclusion
    LongOperationKeepsLease
PROPERTIES
    ImplementsRWLock
    LockReturns
    AbandonedKeyFreed
