\* No symmetry, which is unsound for liveness.
SPECIFICATION FairSpec
CONSTANTS
    Process = {p1}
    At = {a}
    Cron = {c}
    Event = {e}
    Webhook = {}
    Debounced = {e}
    NoTrigger = none
    Retry = 1
    MaxStall = 1
    AtDelays <- Dates
    Periods = {1}
    Debounce = 1
    MaxTriggers = 1
    MaxRev = 2
    MaxFires = 1
PROPERTIES TimedRuns OrphanDatesCleaned
