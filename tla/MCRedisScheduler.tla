-------------------------- MODULE MCRedisScheduler --------------------------
EXTENDS RedisScheduler, TLC

Symmetry == Permutations(Process)
Dates == {-1, 1}

\* CallsCovered, the only property about webhooks, speaks of the behaviours before the
\* first fault: with a webhook, the exploration stops there.
WebhookUntilFault ==
    crashed \/ erred => \A t \in Webhook : rev[t] = 0
=============================================================================
