\* Three changes, with no deletion, no failure and no job given up.
SPECIFICATION Spec
CONSTANTS
    alice = alice
    bob = bob
    Owner = alice
    Recipient = {bob}
    MaxDepth = 100
    MaxRetries = 5
    MaxExecCount = 2
    MaxEvents = 3
    None = none
CONSTRAINT EditsOnly
INVARIANT Converge
