----------------------------- MODULE RedisLock ------------------------------
(***************************************************************************)
(* The distributed read/write lock of pkg/lock/simple_redis.go and the     *)
(* long operation lock of pkg/lock/lock.go, for ONE lock name.             *)
(*                                                                         *)
(* Each cozy-stack process s has one redisLock object for the name (it is  *)
(* cached in RedisLockGetter.locks), shared by its goroutines; redis has   *)
(* one key for the name, with a value (the token of its owner) and a time  *)
(* to live.  The fields of the object only change under its mutex rl.mu,   *)
(* which is held across the single redis command of each attempt, so an    *)
(* attempt is one atomic step, at the moment redis runs the command.       *)
(*                                                                         *)
(* Time is discrete: one Tick is a third of LockTimeout, the period of the *)
(* ticker of a long operation.  A redis command may fail, and a command    *)
(* that failed for the client may or may not have been executed.           *)
(***************************************************************************)
EXTENDS Integers, FiniteSets

CONSTANTS
    Stack,       \* the cozy-stack processes
    Thread,      \* the goroutines: a process, and a name in it
    Token,       \* the random values that identify a lock owner
    NoToken,     \* the empty string of rl.token, and the absence of the key
    TTL,         \* LockTimeout, in ticks
    MaxLate      \* how late a renewal may run after its tick (scheduling delay)

ASSUME LockAssumption ==
    /\ IsFiniteSet(Stack) /\ IsFiniteSet(Thread)
    /\ \A t \in Thread : t[1] \in Stack
    /\ NoToken \notin Token
    /\ TTL \in Nat /\ MaxLate \in Nat
    /\ MaxLate + 1 < TTL

Off == -1        \* no renewal goroutine
Period == 1      \* timeout / 3
Modes == {"read", "write", "long"}

VARIABLES
    key,     \* value of the redis key, NoToken when it does not exist
    ttl,     \* ticks before redis expires the key
    readers, \* rl.readers of each process: -1 for a writer, or the readers
    token,   \* rl.token of each process
    pc,      \* what each goroutine is doing with the lock
    mode,    \* how it wants, or has, the lock
    wait,    \* ticks before it gives up (stop := now + timeout)
    renew,   \* ticks since the last renewal of its long operation, or Off
    lost     \* history: the holders whose lease ran out while they held

vars == <<key, ttl, readers, token, pc, mode, wait, renew, lost>>

Holders(s) == {t \in Thread : t[1] = s /\ pc[t] = "held"}
Writers(s) == {t \in Holders(s) : mode[t] # "read"}
Readers(s) == {t \in Holders(s) : mode[t] = "read"}

\* The token drawn in Lock and RLock is 20 random characters: it is nobody's.
\* It is drawn here by the attempt that sends it, as a call sends it to redis
\* successfully at most once.
FreshToken == Token \ ({key} \cup {token[s] : s \in Stack})

Init ==
    /\ key = NoToken /\ ttl = 0
    /\ readers = [s \in Stack |-> 0]
    /\ token = [s \in Stack |-> NoToken]
    /\ pc = [t \in Thread |-> "idle"]
    /\ mode = [t \in Thread |-> "read"]
    /\ wait = [t \in Thread |-> 0]
    /\ renew = [t \in Thread |-> Off]
    /\ lost = {}

-----------------------------------------------------------------------------
(* Entering Lock() or RLock(), directly or through a longOperation.        *)

\* Mutant of Enter: the deadline is one retry too far.
EnterLate(t, m) ==
    /\ pc[t] = "idle"
    /\ pc' = [pc EXCEPT ![t] = "trying"]
    /\ mode' = [mode EXCEPT ![t] = m]
    /\ wait' = [wait EXCEPT ![t] = TTL + 1]
    /\ UNCHANGED <<key, ttl, readers, token, renew, lost>>

\* The call starts and computes its deadline.
Enter(t, m) ==
    /\ pc[t] = "idle"
    /\ pc' = [pc EXCEPT ![t] = "trying"]
    /\ mode' = [mode EXCEPT ![t] = m]
    /\ wait' = [wait EXCEPT ![t] = TTL]
    /\ UNCHANGED <<key, ttl, readers, token, renew, lost>>

\* A call that returns without the lock (error, or too many retries).
Leave(t) ==
    /\ pc' = [pc EXCEPT ![t] = "idle"]
    /\ wait' = [wait EXCEPT ![t] = 0]
    /\ mode' = [mode EXCEPT ![t] = "read"]
    /\ UNCHANGED <<readers, token, renew, lost>>

\* A call that returns nil; a long operation then starts its ticker.
Enters(t) ==
    /\ pc' = [pc EXCEPT ![t] = "held"]
    /\ wait' = [wait EXCEPT ![t] = 0]
    /\ renew' = [renew EXCEPT ![t] = IF mode[t] = "long" THEN 0 ELSE Off]
    /\ UNCHANGED <<mode, lost>>

\* Mutant of FailedAttempt: no deadline.
RetryForEver(t) == UNCHANGED <<key, ttl, readers, token, pc, mode, wait, renew, lost>>

\* An attempt that found the lock taken: sleep and retry, or give up when the
\* deadline has passed.
FailedAttempt(t) ==
    /\ UNCHANGED <<key, ttl>>
    /\ IF wait[t] = 0 THEN Leave(t)
                      ELSE UNCHANGED <<readers, token, pc, mode, wait, renew, lost>>

\* rl.obtains: SET NX of the token with the timeout.
Obtains(t, n) ==
    LET s == t[1] IN
    /\ key = NoToken
    /\ key' \in FreshToken /\ ttl' = TTL
    /\ token' = [token EXCEPT ![s] = key']
    /\ readers' = [readers EXCEPT ![s] = n]
    /\ Enters(t)

\* SETNX or a script failed for the client: redis may have run it or not.
ObtainsError(t) ==
    /\ \/ UNCHANGED <<key, ttl>>
       \/ key = NoToken /\ key' \in FreshToken /\ ttl' = TTL
    /\ Leave(t)

\* Mutant of ObtainsWriting: a writer does not look at the readers of its own
\* process, it trusts redis.
ObtainsWritingUnchecked(t) ==
    /\ pc[t] = "trying" /\ mode[t] # "read"
    /\ \/ Obtains(t, -1)
       \/ key # NoToken /\ FailedAttempt(t)

ObtainsWriting(t) ==
    LET s == t[1] IN
    /\ pc[t] = "trying" /\ mode[t] # "read"
    /\ \/ readers[s] # 0 /\ FailedAttempt(t)
       \/ readers[s] = 0 /\ Obtains(t, -1)
       \/ readers[s] = 0 /\ key # NoToken /\ FailedAttempt(t)

\* rl.extends: the script prolongs the key only when it has our token.
Owns(s) == token[s] # NoToken /\ key = token[s]

\* Mutant of JoinsReaders: the new reader is not counted.
JoinsUncounted(t) ==
    /\ Owns(t[1])
    /\ ttl' = TTL
    /\ Enters(t)
    /\ UNCHANGED <<key, token, readers>>

\* Mutant of JoinsReaders: the script prolongs the key whatever its token.
JoinsAnyKey(t) ==
    LET s == t[1] IN
    /\ key # NoToken
    /\ ttl' = TTL
    /\ readers' = [readers EXCEPT ![s] = @ + 1]
    /\ Enters(t)
    /\ UNCHANGED <<key, token>>

\* A reader joins the readers of its process, and prolongs their lease.
JoinsReaders(t) ==
    LET s == t[1] IN
    /\ Owns(s)
    /\ ttl' = TTL
    /\ readers' = [readers EXCEPT ![s] = @ + 1]
    /\ Enters(t)
    /\ UNCHANGED <<key, token>>

\* The script failed for the client, after or before it prolonged the lease.
ExtendsError(t) ==
    /\ token[t[1]] # NoToken
    /\ UNCHANGED key
    /\ \/ UNCHANGED ttl
       \/ Owns(t[1]) /\ ttl' = TTL
    /\ Leave(t)

ExtendsOrObtainsReading(t) ==
    LET s == t[1] IN
    /\ pc[t] = "trying" /\ mode[t] = "read"
    /\ \/ readers[s] < 0 /\ FailedAttempt(t)
       \/ readers[s] >= 0 /\ JoinsReaders(t)
       \/ readers[s] >= 0 /\ ~Owns(s) /\ Obtains(t, readers[s] + 1)
       \/ readers[s] >= 0 /\ ~Owns(s) /\ key # NoToken /\ FailedAttempt(t)

\* An attempt that redis answers, and one that it does not: the call returns
\* the error.
Answered(t) == ObtainsWriting(t) \/ ExtendsOrObtainsReading(t)

AttemptError(t) ==
    LET s == t[1] IN
    /\ pc[t] = "trying"
    /\ \/ mode[t] # "read" /\ readers[s] = 0 /\ ObtainsError(t)
       \/ mode[t] = "read" /\ readers[s] >= 0 /\ ExtendsError(t)
       \/ mode[t] = "read" /\ readers[s] >= 0 /\ ~Owns(s) /\ ObtainsError(t)

Attempt(t) == Answered(t) \/ AttemptError(t)

-----------------------------------------------------------------------------
(* Releasing.                                                              *)

\* Mutant of Release: DEL without the comparison of luaRelease.
ReleaseAnyKey(s) ==
    /\ key' = NoToken /\ ttl' = 0
    /\ readers' = [readers EXCEPT ![s] = 0]
    /\ token' = [token EXCEPT ![s] = NoToken]

\* The last owner in the process runs luaRelease, which deletes the key only if
\* it has our token, and forgets the lock whether or not the script worked.
Release(s) ==
    /\ \/ Owns(s) /\ key' = NoToken /\ ttl' = 0
       \/ UNCHANGED <<key, ttl>>       \* not ours any more, or redis failed
    /\ readers' = [readers EXCEPT ![s] = 0]
    /\ token' = [token EXCEPT ![s] = NoToken]

\* The refusals of rl.unlock: `Invalid unlocking`, the lock is kept.
InvalidUnlocking(t) ==
    \/ mode[t] # "read" /\ readers[t[1]] > 0
    \/ mode[t] = "read" /\ readers[t[1]] < 0

Unlock(t) ==
    LET s == t[1] IN
    /\ pc[t] = "held"
    /\ pc' = [pc EXCEPT ![t] = "idle"]
    /\ renew' = [renew EXCEPT ![t] = Off]
    /\ lost' = lost \ {t}
    /\ mode' = [mode EXCEPT ![t] = "read"]
    /\ \/ /\ InvalidUnlocking(t)
          /\ UNCHANGED <<key, ttl, readers, token>>
       \/ /\ ~InvalidUnlocking(t)
          /\ mode[t] = "read" /\ readers[s] > 1
          /\ readers' = [readers EXCEPT ![s] = @ - 1]
          /\ UNCHANGED <<key, ttl, token>>
       \/ /\ ~InvalidUnlocking(t)
          /\ mode[t] # "read" \/ readers[s] <= 1
          /\ Release(s)
    /\ UNCHANGED <<wait>>

-----------------------------------------------------------------------------
(* The renewal goroutine of a long operation, and time.                    *)

\* Mutant of Extend: the key is checked but its expiration is not moved.
ExtendChecksOnly(t) ==
    LET s == t[1] IN
    /\ renew[t] >= Period
    /\ UNCHANGED <<key, ttl, readers, token, pc, mode, wait, lost>>
    /\ renew' = [renew EXCEPT ![t] = IF Owns(s) THEN 0 ELSE Off]

\* The ticker fired: Extend() under l.mu.  When it fails (redis error, or the
\* key is no longer ours) the goroutine logs, returns and never renews again.
Extend(t) ==
    LET s == t[1] IN
    /\ renew[t] >= Period
    /\ UNCHANGED <<key, readers, token, pc, mode, wait, lost>>
    /\ \/ Owns(s) /\ ttl' = TTL /\ renew' = [renew EXCEPT ![t] = 0]
       \/ ~Owns(s) /\ UNCHANGED ttl /\ renew' = [renew EXCEPT ![t] = Off]
       \/ /\ UNCHANGED ttl \/ (Owns(s) /\ ttl' = TTL)   \* redis failed
          /\ renew' = [renew EXCEPT ![t] = Off]

\* When the key expires, those who hold the lock through it have lost it.
LeaseHolders == UNION {Holders(s) : s \in {r \in Stack : Owns(r)}}

Tick ==
    /\ \A t \in Thread : pc[t] = "trying" => wait[t] > 0
    /\ \A t \in Thread : renew[t] < Period + MaxLate
    /\ wait' = [t \in Thread |-> IF pc[t] = "trying" THEN wait[t] - 1 ELSE wait[t]]
    /\ renew' = [t \in Thread |-> IF renew[t] = Off THEN Off ELSE renew[t] + 1]
    /\ IF ttl > 1
       THEN ttl' = ttl - 1 /\ UNCHANGED <<key, lost>>
       ELSE /\ ttl' = 0 /\ key' = NoToken
            /\ lost' = lost \cup LeaseHolders
    /\ UNCHANGED <<readers, token, pc, mode>>

\* The process dies and restarts with no lock object; its key stays in redis.
Crash(s) ==
    /\ readers' = [readers EXCEPT ![s] = 0]
    /\ token' = [token EXCEPT ![s] = NoToken]
    /\ pc' = [t \in Thread |-> IF t[1] = s THEN "idle" ELSE pc[t]]
    /\ mode' = [t \in Thread |-> IF t[1] = s THEN "read" ELSE mode[t]]
    /\ wait' = [t \in Thread |-> IF t[1] = s THEN 0 ELSE wait[t]]
    /\ renew' = [t \in Thread |-> IF t[1] = s THEN Off ELSE renew[t]]
    /\ lost' = {t \in lost : t[1] # s}
    /\ UNCHANGED <<key, ttl>>

Next ==
    \/ \E t \in Thread, m \in Modes : Enter(t, m)
    \/ \E t \in Thread : Attempt(t)
    \/ \E t \in Thread : Unlock(t)
    \/ \E t \in Thread : Extend(t)
    \/ Tick
    \/ \E s \in Stack : Crash(s)

(* The runtime schedules a goroutine whose sleep is over, and time passes; *)
(* nothing forces a caller to enter or to release the lock, nor redis to   *)
(* fail.                                                                   *)
Fairness ==
    /\ WF_vars(Tick)
    /\ \A t \in Thread : WF_vars(Answered(t)) /\ WF_vars(Extend(t))

Spec == Init /\ [][Next]_vars
FairSpec == Spec /\ Fairness

-----------------------------------------------------------------------------
(* Properties.                                                             *)

\* Type correctness of the lock objects, of redis and of the callers.
TypeOK ==
    /\ key \in Token \cup {NoToken} /\ ttl \in 0..TTL
    /\ readers \in [Stack -> Int]
    /\ token \in [Stack -> Token \cup {NoToken}]
    /\ pc \in [Thread -> {"idle", "trying", "held"}]
    /\ mode \in [Thread -> Modes]
    /\ wait \in [Thread -> 0..TTL]
    /\ renew \in [Thread -> {Off} \cup 0..(Period + MaxLate)]
    /\ lost \in SUBSET Thread

\* The counter of redisLock always says who is inside, in spite of redis
\* errors, expired leases and readers that join: -1 for exactly one writer,
\* else the number of readers.  The refusals of rl.unlock are unreachable and
\* no unlock forgets a reader that is still inside.
CountsOf(s) ==
    \/ /\ readers[s] = -1 /\ Readers(s) = {}
       /\ \E t \in Thread : Writers(s) = {t}
    \/ readers[s] = Cardinality(Readers(s)) /\ Writers(s) = {}

CountsMatch == \A s \in Stack : CountsOf(s)

Conflict(t, u) == t # u /\ (t[1] # u[1] \/ mode[t] # "read" \/ mode[u] # "read")

\* Mutual exclusion across processes: two goroutines are inside with
\* conflicting modes (readers of two processes conflict too, see the comment
\* of RLock) only after the lease of one of them ran out under it.  Releases,
\* renewals and failed commands of a former owner never free the new owner's
\* key.
LeaseExclusion ==
    \A t, u \in Thread :
        pc[t] = "held" /\ pc[u] = "held" /\ Conflict(t, u) => {t, u} \cap lost # {}

\* A long operation whose renewal goroutine is alive has never lost its lease,
\* however late the ticker is within MaxLate: LongOperation's promise to
\* `refresh the lock in redis to avoid its automatic expiration`.
LongOperationKeepsLease ==
    \A t \in Thread : renew[t] # Off => pc[t] = "held" /\ t \notin lost

\* Every Lock or RLock returns, with the lock or an error: no caller waits for
\* ever behind a holder that is stuck or a process that died.
LockReturns == \A t \in Thread : (pc[t] = "trying") ~> (pc[t] # "trying")

\* A key that nobody holds the lock through is freed without any help: after
\* a crash, a failed release, or a SETNX that failed for its client only.
Abandoned == key # NoToken /\ \A s \in Stack : token[s] # key
AbandonedKeyFreed == Abandoned ~> (key = NoToken)

\* Each process' lock implements the reader/writer lock of RWLock.
Process(s) == INSTANCE RWLock WITH
    Thread <- {t \in Thread : t[1] = s},
    writers <- Writers(s),
    readers <- Readers(s)

ImplementsRWLock ==
    /\ \A s \in Stack : Process(s)!RWInit
    /\ [][\A s \in Stack : Process(s)!RWNext \/ UNCHANGED Process(s)!rwVars]_vars
=============================================================================
