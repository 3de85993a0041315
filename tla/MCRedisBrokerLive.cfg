\* No symmetry, which is unsound for liveness.
SPECIFICATION FairSpec
CONSTANTS
    Process = {p1}
    Kind = {k}
    Routine = {r1}
    Job = {j1, j2}
    NoJob = none
    MaxExecCount = 1
    NbSlots = 1
    KindOf <- OneKind
    Manual = {j2}
PROPERTIES NoStarvation ShutdownEnds TasksEnd
