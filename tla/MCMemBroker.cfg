\* Two goroutines and two jobs, that compete for the only slot of the process.
SPECIFICATION Spec
CONSTANTS
    Process = {p1}
    Kind = {k}
    Routine = {r1, r2}
    Job = {j1, j2}
    NoJob = none
    MaxExecCount = 1
    NbSlots = 1
    KindOf <- OneKind
    Sender = {i1, i2}
SYMMETRY Symmetry
INVARIANTS TypeOK OneSender NoJobLost SlotsConserved EachTaskCancellable
