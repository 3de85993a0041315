------------------------------- MODULE RWLock -------------------------------
(***************************************************************************)
(* What pkg/lock promises to its callers (ErrorRWLocker in lock.go): one   *)
(* writer alone, or any number of readers.  The in-memory lock (memLock,   *)
(* simple_mem.go) is exactly this, a sync.RWMutex; the redis lock of one   *)
(* cozy-stack process is shown to implement it in RedisLock.               *)
(***************************************************************************)
CONSTANT Thread    \* the goroutines of one process that may use the lock

VARIABLES writers, \* the goroutines inside Lock() .. Unlock()
          readers  \* the goroutines inside RLock() .. RUnlock()

rwVars == <<writers, readers>>

RWInit == writers = {} /\ readers = {}

Lock(t) ==
    /\ writers = {} /\ readers = {}
    /\ writers' = {t}
    /\ UNCHANGED readers

RLock(t) ==
    /\ writers = {} /\ t \notin readers
    /\ readers' = readers \cup {t}
    /\ UNCHANGED writers

Unlock(t) ==
    /\ t \in writers
    /\ writers' = writers \ {t}
    /\ UNCHANGED readers

RUnlock(t) ==
    /\ t \in readers
    /\ readers' = readers \ {t}
    /\ UNCHANGED writers

\* The process dies: its locks live in its memory and are gone with it.
Restart == writers' = {} /\ readers' = {}

RWNext ==
    \/ \E t \in Thread : Lock(t) \/ RLock(t) \/ Unlock(t) \/ RUnlock(t)
    \/ Restart

RWSpec == RWInit /\ [][RWNext]_rwVars
=============================================================================
