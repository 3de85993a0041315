SPECIFICATION Spec
CONSTANTS
    Process = {p1, p2}
    At = {}
    Cron = {}
    Event = {}
    Webhook = {w}
    Debounced = {w}
    NoTrigger = none
    Retry = 1
    MaxStall = 1
    AtDelays <- Dates
    Periods = {1}
    Debounce = 1
    MaxTriggers = 1
    MaxRev = 1
    MaxFires = 2
SYMMETRY Symmetry
INVARIANT CrashLosesNoCall
