---------------------------- MODULE MCRedisLock -----------------------------
(* Two goroutines in one process, that share its lock object, and one in   *)
(* another process.                                                        *)
EXTENDS RedisLock

CONSTANTS s1, s2, g1, g2

Threads == {<<s1, g1>>, <<s1, g2>>, <<s2, g1>>}
=============================================================================
