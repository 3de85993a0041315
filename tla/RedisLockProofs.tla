-------------------------- MODULE RedisLockProofs ---------------------------
(***************************************************************************)
(* Proofs about RedisLock, for any number of processes and goroutines, any *)
(* LockTimeout and any lateness of the ticker that leaves one period of    *)
(* margin (LockAssumption).                                                *)
(***************************************************************************)
EXTENDS RedisLock, FiniteSetTheorems, TLAPS

(* The inductive invariant: next to the counters, why a lease is exclusive *)
(* (tokens are unique, a holder that has not lost its lease owns the key)  *)
(* and why a renewed lease does not run out (ttl is at least what is left  *)
(* since the last renewal).                                                *)
KeyExpires == key = NoToken <=> ttl = 0

TokensDistinct ==
    \A s, r \in Stack : s # r /\ token[s] # NoToken => token[s] # token[r]

HoldersOwn == \A t \in Thread : pc[t] = "held" /\ t \notin lost => Owns(t[1])

LostWereHolding == \A t \in lost : pc[t] = "held"

RenewalsInTime ==
    \A t \in Thread : renew[t] # Off =>
        /\ pc[t] = "held" /\ mode[t] = "long" /\ t \notin lost
        /\ ttl + renew[t] >= TTL

IInv ==
    /\ TypeOK
    /\ CountsMatch
    /\ KeyExpires
    /\ TokensDistinct
    /\ HoldersOwn
    /\ LostWereHolding
    /\ RenewalsInTime

-----------------------------------------------------------------------------
LEMMA ThreadStack == \A t \in Thread : t[1] \in Stack
  BY LockAssumption

LEMMA ThreadsFinite == IsFiniteSet(Thread)
  BY LockAssumption

\* The sets that CountsMatch counts are finite.
LEMMA ReadersFinite ==
    ASSUME NEW s \in Stack
    PROVE  /\ IsFiniteSet(Readers(s))
           /\ Cardinality(Readers(s)) \in Nat
  <1>1. Readers(s) \in SUBSET Thread
    BY DEF Readers, Holders
  <1>2. QED
    BY <1>1, ThreadsFinite, FS_Subset, FS_CardinalityType

(* The four outcomes of an attempt.                                        *)

\* The caller still has no lock; redis may have executed the failed command.
NotGained(t) ==
    /\ pc[t] = "trying"
    /\ \/ UNCHANGED <<pc, mode, wait>>
       \/ /\ pc' = [pc EXCEPT ![t] = "idle"]
          /\ mode' = [mode EXCEPT ![t] = "read"]
          /\ wait' = [wait EXCEPT ![t] = 0]
    /\ \/ UNCHANGED <<key, ttl>>
       \/ key = NoToken /\ key' \in FreshToken /\ ttl' = TTL
       \/ key # NoToken /\ key' = key /\ ttl' = TTL
    /\ UNCHANGED <<readers, token, renew, lost>>

GainedWriting(t) ==
    pc[t] = "trying" /\ mode[t] # "read" /\ readers[t[1]] = 0 /\ Obtains(t, -1)

Joined(t) ==
    pc[t] = "trying" /\ mode[t] = "read" /\ readers[t[1]] >= 0 /\ JoinsReaders(t)

GainedReading(t) ==
    /\ pc[t] = "trying" /\ mode[t] = "read" /\ readers[t[1]] >= 0
    /\ Obtains(t, readers[t[1]] + 1)

LEMMA AttemptOutcomes ==
    ASSUME NEW t \in Thread, Attempt(t)
    PROVE  NotGained(t) \/ GainedWriting(t) \/ Joined(t) \/ GainedReading(t)
  <1>1. CASE pc[t] = "trying" /\ FailedAttempt(t)
    BY <1>1 DEF FailedAttempt, Leave, NotGained
  <1>2. CASE pc[t] = "trying" /\ ObtainsError(t)
    BY <1>2 DEF ObtainsError, Leave, NotGained
  <1>3. CASE pc[t] = "trying" /\ ExtendsError(t)
    BY <1>3 DEF ExtendsError, Owns, Leave, NotGained
  <1>4. QED
    BY <1>1, <1>2, <1>3 DEF Attempt, Answered, AttemptError, ObtainsWriting, ExtendsOrObtainsReading,
       GainedWriting, Joined, GainedReading

\* Type correctness is inductive on its own.
LEMMA TypeInductive == TypeOK /\ [Next]_vars => TypeOK'
  <1> SUFFICES ASSUME TypeOK, [Next]_vars PROVE TypeOK'
    OBVIOUS
  <1> USE LockAssumption, ThreadStack DEF TypeOK, Modes, Off, Period, FreshToken
  <1>1. ASSUME NEW t \in Thread, NEW m \in Modes, Enter(t, m) PROVE TypeOK'
    BY <1>1 DEF Enter
  <1>2. ASSUME NEW t \in Thread, NotGained(t) PROVE TypeOK'
    BY <1>2 DEF NotGained
  <1>3. ASSUME NEW t \in Thread, GainedWriting(t) \/ Joined(t) \/ GainedReading(t)
        PROVE TypeOK'
    BY <1>3 DEF GainedWriting, Joined, GainedReading, Obtains, JoinsReaders, Enters
  <1>4. ASSUME NEW t \in Thread, Unlock(t) PROVE TypeOK'
    BY <1>4 DEF Unlock, Release
  <1>5. ASSUME NEW t \in Thread, Extend(t) PROVE TypeOK'
    BY <1>5 DEF Extend
  <1>6. CASE Tick
    <2>1. LeaseHolders \in SUBSET Thread
      BY DEF LeaseHolders, Holders
    <2>2. QED
      BY <1>6, <2>1 DEF Tick
  <1>7. ASSUME NEW s \in Stack, Crash(s) PROVE TypeOK'
    BY <1>7 DEF Crash
  <1>8. CASE UNCHANGED vars
    BY <1>8 DEF vars
  <1>9. QED
    BY <1>1, <1>2, <1>3, <1>4, <1>5, <1>6, <1>7, <1>8, AttemptOutcomes DEF Next

-----------------------------------------------------------------------------
(* What each kind of step does to the holders of a process.                *)

\* A process whose holders and counter do not change still counts right.
LEMMA CountsFrame ==
    ASSUME NEW r \in Stack, CountsOf(r),
           Readers(r)' = Readers(r), Writers(r)' = Writers(r),
           readers'[r] = readers[r]
    PROVE  CountsOf(r)'
  BY DEF CountsOf

\* A step of t that changes neither who holds nor how changes no holders.
LEMMA HoldersFrame ==
    ASSUME TypeOK, TypeOK', NEW r \in Stack,
           \A u \in Thread : u[1] = r =>
               /\ (pc[u] = "held") <=> (pc'[u] = "held")
               /\ pc[u] = "held" => mode'[u] = mode[u]
    PROVE  Readers(r)' = Readers(r) /\ Writers(r)' = Writers(r)
  BY DEF Readers, Writers, Holders

\* A writer enters a process where nobody is inside.
LEMMA CountsEnterWriting ==
    ASSUME TypeOK, TypeOK', CountsMatch, NEW t \in Thread, GainedWriting(t)
    PROVE  CountsMatch'
  <1> SUFFICES ASSUME NEW r \in Stack PROVE CountsOf(r)'
    BY DEF CountsMatch
  <1>1. CountsOf(r) /\ t[1] \in Stack
    BY ThreadStack DEF CountsMatch
  <1>2. CASE r # t[1]
    <2>1. Readers(r)' = Readers(r) /\ Writers(r)' = Writers(r)
      BY <1>2, HoldersFrame DEF GainedWriting, Obtains, Enters, TypeOK
    <2>2. QED
      BY <1>1, <1>2, <2>1, CountsFrame DEF GainedWriting, Obtains, TypeOK
  <1>3. CASE r = t[1]
    <2>1. Readers(r) = {} /\ Writers(r) = {}
      BY <1>1, <1>3, ReadersFinite, FS_EmptySet DEF CountsOf, GainedWriting
    <2>2. Readers(r)' = {} /\ Writers(r)' = {t}
      BY <1>3, <2>1 DEF Readers, Writers, Holders, GainedWriting, Obtains, Enters, TypeOK
    <2>3. readers'[r] = -1
      BY <1>3 DEF GainedWriting, Obtains, TypeOK
    <2>4. QED
      BY <2>2, <2>3 DEF CountsOf
  <1>4. QED
    BY <1>2, <1>3

\* A reader enters a process where no writer is inside.
LEMMA CountsEnterReading ==
    ASSUME TypeOK, TypeOK', CountsMatch, NEW t \in Thread,
           pc[t] = "trying", mode[t] = "read", readers[t[1]] >= 0, Enters(t),
           readers' = [readers EXCEPT ![t[1]] = @ + 1]
    PROVE  CountsMatch'
  <1> SUFFICES ASSUME NEW r \in Stack PROVE CountsOf(r)'
    BY DEF CountsMatch
  <1>1. CountsOf(r) /\ t[1] \in Stack
    BY ThreadStack DEF CountsMatch
  <1>2. CASE r # t[1]
    <2>1. Readers(r)' = Readers(r) /\ Writers(r)' = Writers(r)
      BY <1>2, HoldersFrame DEF Enters, TypeOK
    <2>2. QED
      BY <1>1, <1>2, <2>1, CountsFrame DEF TypeOK
  <1>3. CASE r = t[1]
    <2>1. readers[r] = Cardinality(Readers(r)) /\ Writers(r) = {}
      BY <1>1, <1>3 DEF CountsOf
    <2>2. t \notin Readers(r)
      BY DEF Readers, Holders
    <2>3. Readers(r)' = Readers(r) \cup {t} /\ Writers(r)' = {}
      BY <1>3, <2>1 DEF Readers, Writers, Holders, Enters, TypeOK
    <2>4. Cardinality(Readers(r) \cup {t}) = Cardinality(Readers(r)) + 1
      BY <2>2, ReadersFinite, FS_AddElement
    <2>5. readers'[r] = readers[r] + 1
      BY <1>3 DEF TypeOK
    <2>6. QED
      BY <2>1, <2>3, <2>4, <2>5 DEF CountsOf
  <1>4. QED
    BY <1>2, <1>3

\* The holder that releases is counted, so rl.unlock never refuses, and it
\* forgets the lock only when it is the last one inside.
LEMMA CountsUnlock ==
    ASSUME TypeOK, TypeOK', CountsMatch, NEW t \in Thread, Unlock(t)
    PROVE  CountsMatch'
  <1> SUFFICES ASSUME NEW r \in Stack PROVE CountsOf(r)'
    BY DEF CountsMatch
  <1>1. CountsOf(r) /\ t[1] \in Stack
    BY ThreadStack DEF CountsMatch
  <1>2. CASE r # t[1]
    <2>1. Readers(r)' = Readers(r) /\ Writers(r)' = Writers(r)
      BY <1>2, HoldersFrame DEF Unlock, TypeOK
    <2>2. QED
      BY <1>1, <1>2, <2>1, CountsFrame DEF Unlock, Release, TypeOK
  <1>3. CASE r = t[1] /\ mode[t] # "read"
    <2>1. t \in Writers(r)
      BY <1>3 DEF Writers, Holders, Unlock
    <2>2. readers[r] = -1 /\ Readers(r) = {} /\ Writers(r) = {t}
      BY <1>1, <2>1 DEF CountsOf
    <2>3. Readers(r)' = {} /\ Writers(r)' = {}
      BY <1>3, <2>2 DEF Readers, Writers, Holders, Unlock, TypeOK
    <2>4. readers'[r] = 0
      BY <1>3, <2>2 DEF Unlock, InvalidUnlocking, Release, TypeOK
    <2>5. QED
      BY <2>3, <2>4, FS_EmptySet DEF CountsOf
  <1>4. CASE r = t[1] /\ mode[t] = "read"
    <2>1. t \in Readers(r)
      BY <1>4 DEF Readers, Holders, Unlock
    <2>2. readers[r] = Cardinality(Readers(r)) /\ Writers(r) = {}
      BY <1>1, <2>1 DEF CountsOf
    <2>3. Readers(r)' = Readers(r) \ {t} /\ Writers(r)' = {}
      BY <1>4, <2>2 DEF Readers, Writers, Holders, Unlock, TypeOK
    <2>4. Cardinality(Readers(r) \ {t}) = Cardinality(Readers(r)) - 1
      BY <2>1, ReadersFinite, FS_RemoveElement
    <2>5. readers[r] \in Nat /\ readers[r] >= 1
      BY <2>1, <2>2, <2>4, ReadersFinite, FS_EmptySet
    <2>6. readers'[r] = readers[r] - 1
      BY <1>4, <2>5 DEF Unlock, InvalidUnlocking, Release, TypeOK
    <2>7. QED
      BY <2>2, <2>3, <2>4, <2>6 DEF CountsOf
  <1>5. QED
    BY <1>2, <1>3, <1>4

LEMMA CountsInductive == TypeOK /\ CountsMatch /\ [Next]_vars => CountsMatch'
  <1> SUFFICES ASSUME TypeOK, CountsMatch, [Next]_vars PROVE CountsMatch'
    OBVIOUS
  <1>0. TypeOK'
    BY TypeInductive
  <1>1. ASSUME \A r \in Stack : /\ Readers(r)' = Readers(r) /\ Writers(r)' = Writers(r)
                               /\ readers'[r] = readers[r]
        PROVE  CountsMatch'
    BY <1>1, CountsFrame DEF CountsMatch
  <1>2. ASSUME NEW t \in Thread, NEW m \in Modes, Enter(t, m) PROVE CountsMatch'
    <2>1. \A r \in Stack : Readers(r)' = Readers(r) /\ Writers(r)' = Writers(r)
      BY <1>0, <1>2, HoldersFrame DEF Enter, TypeOK
    <2>2. QED
      BY <1>1, <1>2, <2>1 DEF Enter
  <1>3. ASSUME NEW t \in Thread, NotGained(t) PROVE CountsMatch'
    <2>1. \A r \in Stack : Readers(r)' = Readers(r) /\ Writers(r)' = Writers(r)
      BY <1>0, <1>3, HoldersFrame DEF NotGained, TypeOK
    <2>2. QED
      BY <1>1, <1>3, <2>1 DEF NotGained
  <1>4. ASSUME NEW t \in Thread, GainedWriting(t) PROVE CountsMatch'
    BY <1>0, <1>4, CountsEnterWriting
  <1>5. ASSUME NEW t \in Thread, Joined(t) PROVE CountsMatch'
    BY <1>0, <1>5, CountsEnterReading DEF Joined, JoinsReaders
  <1>6. ASSUME NEW t \in Thread, GainedReading(t) PROVE CountsMatch'
    BY <1>0, <1>6, CountsEnterReading DEF GainedReading, Obtains
  <1>7. ASSUME NEW t \in Thread, Unlock(t) PROVE CountsMatch'
    BY <1>0, <1>7, CountsUnlock
  <1>8. ASSUME NEW t \in Thread, Extend(t) PROVE CountsMatch'
    <2>1. \A r \in Stack : Readers(r)' = Readers(r) /\ Writers(r)' = Writers(r)
      BY <1>0, <1>8, HoldersFrame DEF Extend, TypeOK
    <2>2. QED
      BY <1>1, <1>8, <2>1 DEF Extend
  <1>9. CASE Tick
    <2>1. \A r \in Stack : Readers(r)' = Readers(r) /\ Writers(r)' = Writers(r)
      BY <1>0, <1>9, HoldersFrame DEF Tick, TypeOK
    <2>2. QED
      BY <1>1, <1>9, <2>1 DEF Tick
  <1>10. ASSUME NEW s \in Stack, Crash(s) PROVE CountsMatch'
    <2> SUFFICES ASSUME NEW r \in Stack PROVE CountsOf(r)'
      BY DEF CountsMatch
    <2>1. CASE r = s
      <3>1. Readers(r)' = {} /\ Writers(r)' = {} /\ readers'[r] = 0
        BY <1>10, <2>1 DEF Readers, Writers, Holders, Crash, TypeOK
      <3>2. QED
        BY <3>1, FS_EmptySet DEF CountsOf
    <2>2. CASE r # s
      <3>1. Readers(r)' = Readers(r) /\ Writers(r)' = Writers(r)
        BY <1>0, <1>10, <2>2, HoldersFrame DEF Crash, TypeOK
      <3>2. QED
        BY <1>10, <2>2, <3>1, CountsFrame DEF CountsMatch, Crash, TypeOK
    <2>3. QED
      BY <2>1, <2>2
  <1>11. CASE UNCHANGED vars
    <2>1. \A r \in Stack : Readers(r)' = Readers(r) /\ Writers(r)' = Writers(r)
      BY <1>0, <1>11, HoldersFrame DEF vars, TypeOK
    <2>2. QED
      BY <1>1, <1>11, <2>1 DEF vars
  <1>12. QED
    BY <1>2, <1>3, <1>4, <1>5, <1>6, <1>7, <1>8, <1>9, <1>10, <1>11, AttemptOutcomes DEF Next

-----------------------------------------------------------------------------
(* The lease.                                                              *)

Lease ==
    /\ KeyExpires
    /\ TokensDistinct
    /\ HoldersOwn
    /\ LostWereHolding
    /\ RenewalsInTime

\* In a process whose counter is 0 nobody is inside, and a releasing writer, or
\* a last reader, is the only holder.
LEMMA AloneInside ==
    ASSUME TypeOK, CountsMatch, NEW t \in Thread, pc[t] = "held",
           mode[t] # "read" \/ readers[t[1]] <= 1
    PROVE  \A u \in Thread : u[1] = t[1] /\ pc[u] = "held" => u = t
  <1> DEFINE s == t[1]
  <1>1. CountsOf(s) /\ s \in Stack
    BY ThreadStack DEF CountsMatch
  <1>2. CASE mode[t] # "read"
    <2>1. t \in Writers(s)
      BY <1>2 DEF Writers, Holders
    <2>2. Readers(s) = {} /\ Writers(s) = {t}
      BY <1>1, <2>1 DEF CountsOf
    <2>3. QED
      BY <2>2 DEF Readers, Writers, Holders
  <1>3. CASE mode[t] = "read"
    <2>1. t \in Readers(s)
      BY <1>3 DEF Readers, Holders
    <2>2. readers[s] = Cardinality(Readers(s)) /\ Writers(s) = {}
      BY <1>1, <2>1 DEF CountsOf
    <2>3. IsFiniteSet(Readers(s)) /\ Cardinality(Readers(s)) \in Nat
      BY <1>1, ReadersFinite
    <2>4. Cardinality(Readers(s)) # 0
      BY <2>1, <2>3, FS_EmptySet
    <2>5. Cardinality(Readers(s)) = 1
      BY <1>3, <2>2, <2>3, <2>4
    <2>6. Readers(s) = {t}
      BY <2>1, <2>3, <2>5, FS_Singleton
    <2>7. QED
      BY <2>2, <2>6 DEF Readers, Writers, Holders
  <1>4. QED
    BY <1>2, <1>3

LEMMA NobodyInside ==
    ASSUME TypeOK, CountsMatch, NEW s \in Stack, readers[s] = 0
    PROVE  \A u \in Thread : u[1] = s => pc[u] # "held"
  <1>1. CountsOf(s)
    BY DEF CountsMatch
  <1>2. Readers(s) = {} /\ Writers(s) = {}
    BY <1>1, ReadersFinite, FS_EmptySet DEF CountsOf
  <1>3. QED
    BY <1>2 DEF Readers, Writers, Holders

\* When the key does not exist, every holder has lost its lease.
LEMMA NoKeyAllLost ==
    ASSUME TypeOK, HoldersOwn, key = NoToken
    PROVE  \A u \in Thread : pc[u] = "held" => u \in lost
  BY DEF HoldersOwn, Owns

LEMMA LeaseObtains ==
    ASSUME TypeOK, TypeOK', Lease, NEW t \in Thread, NEW n, pc[t] = "trying", Obtains(t, n)
    PROVE  Lease'
  <1> USE LockAssumption DEF Obtains, Enters, FreshToken
  <1>0. t[1] \in Stack /\ key' \in Token /\ key' # NoToken /\ key = NoToken
    BY ThreadStack
  <1>1. KeyExpires'
    BY <1>0 DEF KeyExpires
  <1>2. TokensDistinct'
    BY <1>0 DEF Lease, TokensDistinct, TypeOK
  <1>3. \A u \in Thread : pc[u] = "held" => u \in lost
    BY <1>0, NoKeyAllLost DEF Lease
  <1>4. HoldersOwn'
    BY <1>0, <1>3 DEF HoldersOwn, Owns, TypeOK
  <1>5. LostWereHolding'
    BY DEF Lease, LostWereHolding, TypeOK
  <1>6. t \notin lost
    BY DEF Lease, LostWereHolding
  <1>7. RenewalsInTime'
    <2>1. \A u \in Thread : renew[u] = Off
      BY <1>3 DEF Lease, RenewalsInTime
    <2>2. QED
      BY <1>6, <2>1 DEF RenewalsInTime, TypeOK, Off
  <1>8. QED
    BY <1>1, <1>2, <1>4, <1>5, <1>7 DEF Lease

LEMMA LeaseUnlock ==
    ASSUME TypeOK, TypeOK', CountsMatch, Lease, NEW t \in Thread, Unlock(t)
    PROVE  Lease'
  <1>0. t[1] \in Stack /\ pc[t] = "held"
    BY ThreadStack DEF Unlock
  <1>1. CASE UNCHANGED <<key, ttl, token>>
    <2>1. KeyExpires' /\ TokensDistinct'
      BY <1>1 DEF Lease, KeyExpires, TokensDistinct
    <2>2. HoldersOwn' /\ LostWereHolding'
      BY <1>1 DEF Lease, HoldersOwn, LostWereHolding, Unlock, TypeOK, Owns
    <2>3. RenewalsInTime'
      BY <1>1 DEF Lease, RenewalsInTime, Unlock, TypeOK, Off
    <2>4. QED
      BY <2>1, <2>2, <2>3 DEF Lease
  <1>2. CASE Release(t[1]) /\ (mode[t] # "read" \/ readers[t[1]] <= 1)
    <2>1. \A u \in Thread : u[1] = t[1] /\ pc[u] = "held" => u = t
      BY <1>0, <1>2, AloneInside
    <2>2. KeyExpires'
      BY <1>2 DEF Lease, KeyExpires, Release
    <2>3. TokensDistinct'
      BY <1>0, <1>2 DEF Lease, TokensDistinct, Release, TypeOK
    <2>4. ASSUME NEW u \in Thread, pc'[u] = "held"
          PROVE  /\ u # t /\ u[1] # t[1] /\ u[1] \in Stack /\ pc[u] = "held"
                 /\ mode'[u] = mode[u] /\ renew'[u] = renew[u]
                 /\ u \in lost' <=> u \in lost
                 /\ token'[u[1]] = token[u[1]]
      BY <1>0, <1>2, <2>1, <2>4, ThreadStack DEF Unlock, Release, TypeOK
    <2>5. ASSUME NEW u \in Thread, pc'[u] = "held", u \notin lost
          PROVE  UNCHANGED <<key, ttl>>
      BY <1>0, <1>2, <2>4, <2>5 DEF Lease, HoldersOwn, Owns, TokensDistinct, Release
    <2>6. HoldersOwn'
      BY <2>4, <2>5 DEF Lease, HoldersOwn, Owns
    <2>7. LostWereHolding'
      BY DEF Lease, LostWereHolding, Unlock, TypeOK
    <2>8. RenewalsInTime'
      <3> SUFFICES ASSUME NEW u \in Thread, renew'[u] # Off
                   PROVE  /\ pc'[u] = "held" /\ mode'[u] = "long" /\ u \notin lost'
                          /\ ttl' + renew'[u] >= TTL
        BY DEF RenewalsInTime
      <3>1. u # t /\ renew'[u] = renew[u] /\ pc'[u] = pc[u]
        BY DEF Unlock, TypeOK
      <3>2. /\ pc[u] = "held" /\ mode[u] = "long" /\ u \notin lost
            /\ ttl + renew[u] >= TTL
        BY <3>1 DEF Lease, RenewalsInTime
      <3>3. QED
        BY <3>1, <3>2, <2>4, <2>5
    <2>9. QED
      BY <2>2, <2>3, <2>6, <2>7, <2>8 DEF Lease
  <1>3. QED
    BY <1>1, <1>2 DEF Unlock

\* Time: a lease that a live renewal goroutine keeps is at least two ticks away
\* from its end whenever time may pass.
LEMMA LeaseTick == ASSUME TypeOK, TypeOK', Lease, Tick PROVE Lease'
  <1> USE LockAssumption
  <1>1. TokensDistinct'
    BY DEF Lease, TokensDistinct, Tick
  <1>2. CASE ttl > 1
    <2>1. ttl' = ttl - 1 /\ ttl \in Nat /\ UNCHANGED <<key, token, pc, mode, lost>>
      BY <1>2 DEF Tick, TypeOK
    <2>2. KeyExpires'
      BY <1>2, <2>1 DEF Lease, KeyExpires
    <2>3. HoldersOwn' /\ LostWereHolding'
      BY <2>1 DEF Lease, HoldersOwn, LostWereHolding, Owns
    <2>4. RenewalsInTime'
      <3> SUFFICES ASSUME NEW u \in Thread, renew'[u] # Off
                   PROVE  /\ pc[u] = "held" /\ mode[u] = "long" /\ u \notin lost
                          /\ ttl' + renew'[u] >= TTL
        BY <2>1 DEF RenewalsInTime
      <3>1. renew[u] # Off /\ renew'[u] = renew[u] + 1
        BY DEF Tick, TypeOK
      <3>2. renew[u] \in Nat
        BY <3>1 DEF TypeOK, Off, Period
      <3>3. QED
        BY <2>1, <3>1, <3>2 DEF Lease, RenewalsInTime
    <2>5. QED
      BY <1>1, <2>2, <2>3, <2>4 DEF Lease
  <1>3. CASE ~(ttl > 1)
    <2>1. /\ ttl' = 0 /\ key' = NoToken /\ UNCHANGED <<token, pc, mode>>
          /\ lost' = lost \cup LeaseHolders
      BY <1>3 DEF Tick
    <2>2. KeyExpires'
      BY <2>1 DEF KeyExpires
    <2>3. \A u \in Thread : renew[u] = Off
      <3> SUFFICES ASSUME NEW u \in Thread, renew[u] # Off PROVE FALSE
        OBVIOUS
      <3>1. renew[u] \in Nat /\ ttl \in Nat /\ renew[u] < Period + MaxLate
        BY DEF TypeOK, Off, Period, Tick
      <3>2. ttl + renew[u] >= TTL
        BY DEF Lease, RenewalsInTime
      <3>3. QED
        BY <1>3, <3>1, <3>2 DEF Period
    <2>4. ASSUME NEW u \in Thread, pc[u] = "held" PROVE u \in lost'
      <3>1. CASE u \in lost
        BY <2>1, <3>1
      <3>2. CASE u \notin lost
        <4>1. Owns(u[1]) /\ u[1] \in Stack
          BY <2>4, <3>2, ThreadStack DEF Lease, HoldersOwn
        <4>2. u \in Holders(u[1])
          BY <2>4 DEF Holders
        <4>3. u \in LeaseHolders
          BY <4>1, <4>2 DEF LeaseHolders
        <4>4. QED
          BY <2>1, <4>3
      <3>3. QED
        BY <3>1, <3>2
    <2>5. HoldersOwn'
      BY <2>1, <2>4 DEF HoldersOwn
    <2>6. LostWereHolding'
      BY <2>1 DEF Lease, LostWereHolding, LeaseHolders, Holders
    <2>7. RenewalsInTime'
      BY <2>3 DEF RenewalsInTime, Tick
    <2>8. QED
      BY <1>1, <2>2, <2>5, <2>6, <2>7 DEF Lease
  <1>4. QED
    BY <1>2, <1>3

\* A step that neither gives the lock nor takes it from a holder.
KeepsLease ==
    /\ UNCHANGED <<token, lost>>
    /\ \/ UNCHANGED <<key, ttl>>
       \/ key = NoToken /\ key' \in Token /\ ttl' = TTL
       \/ key # NoToken /\ key' = key /\ ttl' = TTL
    /\ \A u \in Thread : pc'[u] = "held" => pc[u] = "held" /\ mode'[u] = mode[u]
    /\ \A u \in Thread : pc[u] = "held" => pc'[u] = "held"
    /\ \A u \in Thread : renew'[u] # Off =>
           renew'[u] = renew[u] \/ (renew[u] # Off /\ ttl' = TTL /\ renew'[u] = 0)

\* The steps that leave tokens, holders and losses alone, and at most create the
\* key or prolong it.
LEMMA LeaseKept ==
    ASSUME TypeOK, TypeOK', Lease, KeepsLease
    PROVE  Lease'
  <1> USE DEF KeepsLease
  <1> USE LockAssumption
  <1>1. KeyExpires'
    BY DEF Lease, KeyExpires
  <1>2. TokensDistinct'
    BY DEF Lease, TokensDistinct
  <1>3. HoldersOwn'
    BY DEF Lease, HoldersOwn, Owns
  <1>4. LostWereHolding'
    BY DEF Lease, LostWereHolding, TypeOK
  <1>5. RenewalsInTime'
    <2> SUFFICES ASSUME NEW u \in Thread, renew'[u] # Off
                 PROVE  /\ pc'[u] = "held" /\ mode'[u] = "long" /\ u \notin lost'
                        /\ ttl' + renew'[u] >= TTL
      BY DEF RenewalsInTime
    <2>1. renew[u] # Off
      OBVIOUS
    <2>2. /\ pc[u] = "held" /\ mode[u] = "long" /\ u \notin lost
          /\ ttl + renew[u] >= TTL
      BY <2>1 DEF Lease, RenewalsInTime
    <2>3. ttl' \in Nat /\ ttl \in 0..TTL /\ renew'[u] \in Nat /\ renew[u] \in Nat
      BY <2>1 DEF TypeOK, Off, Period
    <2>4. QED
      BY <2>2, <2>3
  <1>6. QED
    BY <1>1, <1>2, <1>3, <1>4, <1>5 DEF Lease

LEMMA LeaseJoined ==
    ASSUME TypeOK, TypeOK', Lease, NEW t \in Thread, Joined(t)
    PROVE  Lease'
  <1> USE LockAssumption DEF Joined, JoinsReaders, Enters
  <1>1. KeyExpires' /\ TokensDistinct'
    BY DEF Lease, KeyExpires, TokensDistinct, Owns
  <1>2. HoldersOwn' /\ LostWereHolding'
    BY DEF Lease, HoldersOwn, LostWereHolding, Owns, TypeOK
  <1>3. RenewalsInTime'
    <2> SUFFICES ASSUME NEW u \in Thread, renew'[u] # Off
                 PROVE  /\ pc'[u] = "held" /\ mode'[u] = "long" /\ u \notin lost'
                        /\ ttl' + renew'[u] >= TTL
      BY DEF RenewalsInTime
    <2>1. u # t /\ renew'[u] = renew[u] /\ pc'[u] = pc[u]
      BY DEF TypeOK
    <2>2. renew[u] \in Nat
      BY <2>1 DEF TypeOK, Off, Period
    <2>3. QED
      BY <2>1, <2>2 DEF Lease, RenewalsInTime
  <1>4. QED
    BY <1>1, <1>2, <1>3 DEF Lease

LEMMA LeaseCrash ==
    ASSUME TypeOK, TypeOK', Lease, NEW s \in Stack, Crash(s)
    PROVE  Lease'
  <1> USE DEF Crash
  <1>1. KeyExpires' /\ TokensDistinct'
    BY DEF Lease, KeyExpires, TokensDistinct, TypeOK
  <1>2. HoldersOwn'
    BY ThreadStack DEF Lease, HoldersOwn, Owns, TypeOK
  <1>3. LostWereHolding'
    BY DEF Lease, LostWereHolding, TypeOK
  <1>4. RenewalsInTime'
    BY DEF Lease, RenewalsInTime, TypeOK
  <1>5. QED
    BY <1>1, <1>2, <1>3, <1>4 DEF Lease

LEMMA LeaseInductive == TypeOK /\ CountsMatch /\ Lease /\ [Next]_vars => Lease'
  <1> SUFFICES ASSUME TypeOK, CountsMatch, Lease, [Next]_vars PROVE Lease'
    OBVIOUS
  <1>0. TypeOK'
    BY TypeInductive
  <1>1. ASSUME NEW t \in Thread, NEW m \in Modes, Enter(t, m) PROVE Lease'
    <2>1. UNCHANGED <<token, lost>>
      BY <1>1 DEF Enter
    <2>2. \/ UNCHANGED <<key, ttl>>
          \/ key = NoToken /\ key' \in Token /\ ttl' = TTL
          \/ key # NoToken /\ key' = key /\ ttl' = TTL
      BY <1>1 DEF Enter
    <2>3. \A u \in Thread : pc'[u] = "held" => pc[u] = "held" /\ mode'[u] = mode[u]
      BY <1>1 DEF Enter, TypeOK
    <2>4. \A u \in Thread : pc[u] = "held" => pc'[u] = "held"
      BY <1>1 DEF Enter, TypeOK
    <2>5. \A u \in Thread : renew'[u] # Off =>
              renew'[u] = renew[u] \/ (renew[u] # Off /\ ttl' = TTL /\ renew'[u] = 0)
      BY <1>1 DEF Enter
    <2>6. QED
      <3>1. KeepsLease
        BY <2>1, <2>2, <2>3, <2>4, <2>5 DEF KeepsLease
      <3>2. QED
        BY <1>0, <3>1, LeaseKept
  <1>2. ASSUME NEW t \in Thread, NotGained(t) PROVE Lease'
    <2>1. UNCHANGED <<token, lost>>
      BY <1>2 DEF NotGained
    <2>2. \/ UNCHANGED <<key, ttl>>
          \/ key = NoToken /\ key' \in Token /\ ttl' = TTL
          \/ key # NoToken /\ key' = key /\ ttl' = TTL
      BY <1>2 DEF NotGained, FreshToken
    <2>3. \A u \in Thread : pc'[u] = "held" => pc[u] = "held" /\ mode'[u] = mode[u]
      BY <1>2 DEF NotGained, TypeOK
    <2>4. \A u \in Thread : pc[u] = "held" => pc'[u] = "held"
      BY <1>2 DEF NotGained, TypeOK
    <2>5. \A u \in Thread : renew'[u] # Off =>
              renew'[u] = renew[u] \/ (renew[u] # Off /\ ttl' = TTL /\ renew'[u] = 0)
      BY <1>2 DEF NotGained
    <2>6. QED
      <3>1. KeepsLease
        BY <2>1, <2>2, <2>3, <2>4, <2>5 DEF KeepsLease
      <3>2. QED
        BY <1>0, <3>1, LeaseKept
  <1>3. ASSUME NEW t \in Thread, GainedWriting(t) \/ GainedReading(t) PROVE Lease'
    BY <1>0, <1>3, LeaseObtains DEF GainedWriting, GainedReading
  <1>4. ASSUME NEW t \in Thread, Joined(t) PROVE Lease'
    BY <1>0, <1>4, LeaseJoined
  <1>5. ASSUME NEW t \in Thread, Unlock(t) PROVE Lease'
    BY <1>0, <1>5, LeaseUnlock
  <1>6. ASSUME NEW t \in Thread, Extend(t) PROVE Lease'
    <2>1. UNCHANGED <<token, lost>>
      BY <1>6 DEF Extend
    <2>2. \/ UNCHANGED <<key, ttl>>
          \/ key = NoToken /\ key' \in Token /\ ttl' = TTL
          \/ key # NoToken /\ key' = key /\ ttl' = TTL
      BY <1>6 DEF Extend, Owns
    <2>3. \A u \in Thread : pc'[u] = "held" => pc[u] = "held" /\ mode'[u] = mode[u]
      BY <1>6 DEF Extend
    <2>4. \A u \in Thread : pc[u] = "held" => pc'[u] = "held"
      BY <1>6 DEF Extend
    <2>5. \A u \in Thread : renew'[u] # Off =>
              renew'[u] = renew[u] \/ (renew[u] # Off /\ ttl' = TTL /\ renew'[u] = 0)
      BY <1>6 DEF Extend, TypeOK, Off, Period
    <2>6. QED
      <3>1. KeepsLease
        BY <2>1, <2>2, <2>3, <2>4, <2>5 DEF KeepsLease
      <3>2. QED
        BY <1>0, <3>1, LeaseKept
  <1>7. CASE Tick
    BY <1>0, <1>7, LeaseTick
  <1>8. ASSUME NEW s \in Stack, Crash(s) PROVE Lease'
    BY <1>0, <1>8, LeaseCrash
  <1>9. CASE UNCHANGED vars
    <2>1. KeepsLease
      BY <1>9 DEF vars, KeepsLease
    <2>2. QED
      BY <1>0, <2>1, LeaseKept
  <1>10. QED
    BY <1>1, <1>2, <1>3, <1>4, <1>5, <1>6, <1>7, <1>8, <1>9, AttemptOutcomes DEF Next

-----------------------------------------------------------------------------
LEMMA InitIInv == Init => TypeOK /\ CountsMatch /\ Lease
  <1> SUFFICES ASSUME Init PROVE TypeOK /\ CountsMatch /\ Lease
    OBVIOUS
  <1> USE LockAssumption DEF Init
  <1>1. TypeOK
    <2>1. key \in Token \cup {NoToken} /\ ttl \in 0..TTL /\ lost \in SUBSET Thread
      OBVIOUS
    <2>2. readers \in [Stack -> Int] /\ token \in [Stack -> Token \cup {NoToken}]
      OBVIOUS
    <2>3. pc \in [Thread -> {"idle", "trying", "held"}] /\ mode \in [Thread -> Modes]
      BY DEF Modes
    <2>4. wait \in [Thread -> 0..TTL]
      OBVIOUS
    <2>5. renew \in [Thread -> {Off} \cup 0..(Period + MaxLate)]
      OBVIOUS
    <2>6. QED
      BY <2>1, <2>2, <2>3, <2>4, <2>5 DEF TypeOK
  <1>2. CountsMatch
    <2> SUFFICES ASSUME NEW r \in Stack PROVE CountsOf(r)
      BY DEF CountsMatch
    <2>1. Readers(r) = {} /\ Writers(r) = {}
      BY DEF Readers, Writers, Holders
    <2>2. QED
      BY <2>1, FS_EmptySet DEF CountsOf
  <1>3. Lease
    BY DEF Lease, KeyExpires, TokensDistinct, HoldersOwn, LostWereHolding, RenewalsInTime
  <1>4. QED
    BY <1>1, <1>2, <1>3

\* The inductive invariant holds in every behaviour of the lock.
THEOREM Invariance == Spec => []IInv
  <1>1. Init => IInv
    BY InitIInv DEF IInv, Lease
  <1>2. IInv /\ [Next]_vars => IInv'
    BY TypeInductive, CountsInductive, LeaseInductive DEF IInv, Lease
  <1>3. QED
    BY <1>1, <1>2, PTL DEF Spec

\* The counter of each redisLock always matches the goroutines inside.
THEOREM CountsAlwaysMatch == Spec => []CountsMatch
  <1>1. IInv => CountsMatch
    BY DEF IInv
  <1>2. QED
    BY <1>1, Invariance, PTL

\* Two conflicting holders at the same time only after a lease was lost.
THEOREM MutualExclusionUnderLease == Spec => []LeaseExclusion
  <1>1. IInv => LeaseExclusion
    <2> SUFFICES ASSUME IInv, NEW t \in Thread, NEW u \in Thread,
                        pc[t] = "held", pc[u] = "held", Conflict(t, u),
                        t \notin lost, u \notin lost
                 PROVE  FALSE
      BY DEF LeaseExclusion
    <2>1. Owns(t[1]) /\ Owns(u[1]) /\ t[1] \in Stack /\ u[1] \in Stack
      BY ThreadStack DEF IInv, HoldersOwn
    <2>2. t[1] = u[1]
      BY <2>1 DEF IInv, TokensDistinct, Owns
    <2>3. CASE mode[t] # "read"
      BY <2>2, <2>3, AloneInside DEF IInv, Conflict
    <2>4. CASE mode[u] # "read"
      BY <2>2, <2>4, AloneInside DEF IInv, Conflict
    <2>5. QED
      BY <2>2, <2>3, <2>4 DEF Conflict
  <1>2. QED
    BY <1>1, Invariance, PTL

\* A long operation keeps its lease as long as its renewal goroutine lives.
THEOREM LongOperationsKeepLease == Spec => []LongOperationKeepsLease
  <1>1. IInv => LongOperationKeepsLease
    BY DEF IInv, RenewalsInTime, LongOperationKeepsLease
  <1>2. QED
    BY <1>1, Invariance, PTL

-----------------------------------------------------------------------------
(* Refinement: the goroutines of one process see a reader/writer lock.     *)

Steps(s) == Process(s)!RWNext \/ UNCHANGED Process(s)!rwVars

LEMMA SameHoldersStutter ==
    ASSUME NEW r \in Stack, Readers(r)' = Readers(r), Writers(r)' = Writers(r)
    PROVE  Steps(r)
  BY DEF Steps, Process!rwVars

\* A step of t leaves the holders of the other processes alone.
LEMMA OthersStutter ==
    ASSUME TypeOK, TypeOK', NEW t \in Thread, NEW r \in Stack, r # t[1],
           \A u \in Thread : u # t => pc'[u] = pc[u] /\ mode'[u] = mode[u]
    PROVE  Steps(r)
  <1>1. \A u \in Thread : u[1] = r => pc'[u] = pc[u] /\ mode'[u] = mode[u]
    OBVIOUS
  <1>2. QED
    BY <1>1, HoldersFrame, SameHoldersStutter

LEMMA WriterRefines ==
    ASSUME TypeOK, TypeOK', CountsMatch, NEW t \in Thread, GainedWriting(t), NEW r \in Stack
    PROVE  Steps(r)
  <1>1. CASE r # t[1]
    BY <1>1, OthersStutter DEF GainedWriting, Obtains, Enters, TypeOK
  <1>2. CASE r = t[1]
    <2>1. Readers(r) = {} /\ Writers(r) = {}
      BY <1>2, ReadersFinite, FS_EmptySet DEF CountsMatch, CountsOf, GainedWriting
    <2>2. Readers(r)' = Readers(r) /\ Writers(r)' = {t}
      BY <1>2, <2>1 DEF Readers, Writers, Holders, GainedWriting, Obtains, Enters, TypeOK
    <2>3. Process(r)!Lock(t)
      BY <2>1, <2>2 DEF Process!Lock
    <2>4. QED
      BY <1>2, <2>3 DEF Steps, Process!RWNext
  <1>3. QED
    BY <1>1, <1>2

LEMMA ReaderRefines ==
    ASSUME TypeOK, TypeOK', CountsMatch, NEW t \in Thread, NEW r \in Stack,
           pc[t] = "trying", mode[t] = "read", readers[t[1]] >= 0, Enters(t)
    PROVE  Steps(r)
  <1>1. CASE r # t[1]
    BY <1>1, OthersStutter DEF Enters, TypeOK
  <1>2. CASE r = t[1]
    <2>1. Writers(r) = {}
      BY <1>2 DEF CountsMatch, CountsOf
    <2>2. t \notin Readers(r)
      BY DEF Readers, Holders
    <2>3. Readers(r)' = Readers(r) \cup {t} /\ Writers(r)' = Writers(r)
      BY <1>2, <2>1 DEF Readers, Writers, Holders, Enters, TypeOK
    <2>4. Process(r)!RLock(t)
      BY <2>1, <2>2, <2>3 DEF Process!RLock
    <2>5. QED
      BY <1>2, <2>4 DEF Steps, Process!RWNext
  <1>3. QED
    BY <1>1, <1>2

LEMMA UnlockRefines ==
    ASSUME TypeOK, TypeOK', NEW t \in Thread, Unlock(t), NEW r \in Stack
    PROVE  Steps(r)
  <1>1. CASE r # t[1]
    BY <1>1, OthersStutter DEF Unlock, TypeOK
  <1>2. CASE r = t[1] /\ mode[t] # "read"
    <2>1. /\ t \in Writers(r) /\ Readers(r)' = Readers(r)
          /\ Writers(r)' = Writers(r) \ {t}
      BY <1>2 DEF Readers, Writers, Holders, Unlock, TypeOK
    <2>2. Process(r)!Unlock(t)
      BY <2>1 DEF Process!Unlock
    <2>3. QED
      BY <1>2, <2>2 DEF Steps, Process!RWNext
  <1>3. CASE r = t[1] /\ mode[t] = "read"
    <2>1. /\ t \in Readers(r) /\ Writers(r)' = Writers(r)
          /\ Readers(r)' = Readers(r) \ {t}
      BY <1>3 DEF Readers, Writers, Holders, Unlock, TypeOK
    <2>2. Process(r)!RUnlock(t)
      BY <2>1 DEF Process!RUnlock
    <2>3. QED
      BY <1>3, <2>2 DEF Steps, Process!RWNext
  <1>4. QED
    BY <1>1, <1>2, <1>3

LEMMA CrashRefines ==
    ASSUME TypeOK, TypeOK', NEW s \in Stack, Crash(s), NEW r \in Stack
    PROVE  Steps(r)
  <1>1. CASE r = s
    <2>1. Readers(r)' = {} /\ Writers(r)' = {}
      BY <1>1 DEF Readers, Writers, Holders, Crash, TypeOK
    <2>2. QED
      BY <2>1 DEF Steps, Process!RWNext, Process!Restart
  <1>2. CASE r # s
    BY <1>2, HoldersFrame, SameHoldersStutter DEF Crash, TypeOK
  <1>3. QED
    BY <1>1, <1>2

LEMMA StepRefines ==
    ASSUME IInv, [Next]_vars, NEW r \in Stack
    PROVE  Steps(r)
  <1>0. TypeOK /\ TypeOK' /\ CountsMatch
    BY TypeInductive DEF IInv
  <1>1. ASSUME NEW t \in Thread, NEW m \in Modes, Enter(t, m) PROVE Steps(r)
    BY <1>0, <1>1, HoldersFrame, SameHoldersStutter DEF Enter, TypeOK
  <1>2. ASSUME NEW t \in Thread, Attempt(t) PROVE Steps(r)
    <2>1. CASE NotGained(t)
      BY <1>0, <2>1, HoldersFrame, SameHoldersStutter DEF NotGained, TypeOK
    <2>2. CASE GainedWriting(t)
      BY <1>0, <2>2, WriterRefines
    <2>3. CASE Joined(t) \/ GainedReading(t)
      BY <1>0, <2>3, ReaderRefines DEF Joined, GainedReading, JoinsReaders, Obtains
    <2>4. QED
      BY <1>2, <2>1, <2>2, <2>3, AttemptOutcomes
  <1>3. ASSUME NEW t \in Thread, Unlock(t) PROVE Steps(r)
    BY <1>0, <1>3, UnlockRefines
  <1>4. ASSUME NEW t \in Thread, Extend(t) PROVE Steps(r)
    BY <1>0, <1>4, HoldersFrame, SameHoldersStutter DEF Extend, TypeOK
  <1>5. CASE Tick
    BY <1>0, <1>5, HoldersFrame, SameHoldersStutter DEF Tick, TypeOK
  <1>6. ASSUME NEW s \in Stack, Crash(s) PROVE Steps(r)
    BY <1>0, <1>6, CrashRefines
  <1>7. CASE UNCHANGED vars
    BY <1>0, <1>7, HoldersFrame, SameHoldersStutter DEF vars, TypeOK
  <1>8. QED
    BY <1>1, <1>2, <1>3, <1>4, <1>5, <1>6, <1>7 DEF Next

\* The redis lock of each process implements the reader/writer lock that
\* ErrorRWLocker promises to the goroutines of the process, through redis
\* errors, expired leases, renewals and crashes.
THEOREM RefinesRWLock == Spec => ImplementsRWLock
  <1>1. Init => \A s \in Stack : Process(s)!RWInit
    BY DEF Init, Process!RWInit, Writers, Readers, Holders
  <1>2. IInv /\ [Next]_vars =>
            [\A s \in Stack : Process(s)!RWNext \/ UNCHANGED Process(s)!rwVars]_vars
    BY StepRefines DEF Steps
  <1>3. QED
    BY <1>1, <1>2, Invariance, PTL DEF Spec, ImplementsRWLock

\* The types of the lock objects, of redis and of the callers.
THEOREM TypeCorrect == Spec => []TypeOK
  <1>1. IInv => TypeOK
    BY DEF IInv
  <1>2. QED
    BY <1>1, Invariance, PTL
=============================================================================
