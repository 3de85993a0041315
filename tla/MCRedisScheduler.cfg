\* One trigger of any kind; v has no debounce.
SPECIFICATION Spec
CONSTANTS
    Process = {p1, p2}
    At = {a}
    Cron = {c}
    Event = {e}
    Webhook = {w, v}
    Debounced = {e, w}
    NoTrigger = none
    Retry = 1
    MaxStall = 1
    AtDelays <- Dates
    Periods = {1}
    Debounce = 1
    MaxTriggers = 1
    MaxRev = 2
    MaxFires = 2
CONSTRAINT WebhookUntilFault
SYMMETRY Symmetry
INVARIANTS TypeOK TimedNotLost CallsCovered
