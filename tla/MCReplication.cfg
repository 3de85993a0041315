\* The owner and one recipient, from the initial replication; two events, each
\* one a change, a deletion or a failed call.
SPECIFICATION FairSpec
CONSTANTS
    alice = alice
    bob = bob
    Owner = alice
    Recipient = {bob}
    MaxDepth = 100
    MaxRetries = 2
    MaxExecCount = 2
    MaxEvents = 2
    None = none
INVARIANTS TypeOK NoChangeForgotten LinearConverges RefsFollow
PROPERTIES RevsKept Quiesces
