\* Two processes compete for the lists, and two goroutines for the slot of their
\* process.  The contention of two jobs is in MCRedisBrokerLive and MCMemBroker.
SPECIFICATION Spec
CONSTANTS
    Process = {p1, p2}
    Kind = {k}
    Routine = {r1, r2}
    Job = {j1}
    NoJob = none
    MaxExecCount = 2
    NbSlots = 1
    KindOf <- OneKind
    Manual = {}
SYMMETRY Symmetry
INVARIANTS TypeOK NoSendOnClosed ShutdownLeavesNothing OnePlace ExecBound NoJobLost
PROPERTIES FinalStateKept
