------------------------ MODULE RedisSchedulerProofs ------------------------
(***************************************************************************)
(* No @at or cron trigger is lost by the redis scheduler, and no call of a *)
(* debounced one but those deleted between LRANGE and DEL, for any number  *)
(* of processes and triggers, any periods, delays and bounds.              *)
(*                                                                         *)
(* TimedNotLost is not inductive alone: a step that takes a trigger out of *)
(* redis (the end of a deletion, the unlisting of a debounced trigger)     *)
(* must be known to work on a trigger that has no document any more, or    *)
(* that is not a timed one, and a deleted document must not come back.     *)
(***************************************************************************)
EXTENDS RedisScheduler, TLAPS

Labels == {"idle", "poll", "fetch", "unlist", "payload", "erase", "push",
           "delete", "unschedule", "readd"}
Locals == [now: Int, trig: Trigger \cup {NoTrigger}, score: Int, rev: Int, every: Int,
           hand: SUBSET Nat]
Requests == [op: {"add", "rebuild", "delete", "update"}, every: Periods]
ZSet(z) == DOMAIN z \subseteq Trigger /\ z \in [DOMAIN z -> Int]

\* The types that the argument needs: documents and requests, the sorted sets,
\* the poll loops.
StoreTypes ==
    /\ docs \subseteq Trigger
    /\ rev \in [Trigger -> Nat]
    /\ every \in [Trigger -> Periods]
    /\ api \in [Trigger -> SUBSET Requests]
    /\ payload \in [Trigger -> SUBSET Nat]
    /\ fired \in [Trigger -> Nat]
RedisTypes == ZSet(waiting) /\ ZSet(sched)
LoopTypes == pc \in [Process -> Labels] /\ poll \in [Process -> Locals]

\* A trigger that has, had or is about to have something in redis was created.
Created ==
    /\ \A t \in Trigger : t \in docs \cup expected => rev[t] > 0
    /\ \A t \in Trigger : api[t] # {} => rev[t] > 0

\* The end of a deletion works on a trigger whose document is gone for good.
DeletesGone ==
    /\ \A t \in Trigger : \A r \in api[t] : r.op = "delete" => t \notin docs
    /\ \A p \in Process : pc[p] = "unschedule" =>
          poll[p].trig \notin docs /\ rev[poll[p].trig] > 0

\* Only an @event or @webhook trigger leaves `scheduling` before its job.
UnlistsFired == \A p \in Process : pc[p] = "unlist" => poll[p].trig \in Fired

\* A process past luaPoll has a trigger in hand.
HoldsTrigger == \A p \in Process : pc[p] \notin {"idle", "poll"} => poll[p].trig \in Trigger

Types == StoreTypes /\ RedisTypes /\ LoopTypes
Rules == Created /\ DeletesGone /\ UnlistsFired /\ HoldsTrigger
IInv == Types /\ Rules /\ TimedNotLost

-----------------------------------------------------------------------------
(* Sorted sets.                                                            *)

LEMMA ZSetOps ==
    ASSUME NEW z, ZSet(z), NEW t \in Trigger, NEW d \in Int
    PROVE  /\ ZSet(ZAdd(z, t, d)) /\ DOMAIN ZAdd(z, t, d) = DOMAIN z \cup {t}
           /\ ZSet(ZRem(z, t)) /\ DOMAIN ZRem(z, t) = DOMAIN z \ {t}
           /\ ZSet(ZAddNX(z, t, d)) /\ DOMAIN ZAddNX(z, t, d) = DOMAIN z \cup {t}
  BY DEF ZSet, ZAdd, ZRem, ZAddNX

\* addToRedis keeps what is in redis, and puts a timed trigger there.
LEMMA AddToRedisKeeps ==
    ASSUME RedisTypes, NEW t \in Trigger, NEW prev \in Int, NEW e \in Int,
           AddToRedis(t, prev, e)
    PROVE  /\ RedisTypes'
           /\ \A u \in Trigger : u \in DOMAIN waiting \cup DOMAIN sched
                                 => u \in DOMAIN waiting' \cup DOMAIN sched'
           /\ t \in Timed => t \in DOMAIN waiting'
  <1>1. CASE t \in At
    <2>1. PICK d \in AtDelays : waiting' = ZAdd(waiting, t, d)
      BY <1>1, SchedulerAssumption DEF AddToRedis, Timed, Fired
    <2>2. sched' = ZRem(sched, t) /\ d \in Int
      BY <1>1, SchedulerAssumption DEF AddToRedis, Timed, Fired
    <2>3. ZSet(waiting') /\ DOMAIN waiting' = DOMAIN waiting \cup {t}
      BY <2>1, <2>2, ZSetOps DEF RedisTypes
    <2>4. ZSet(sched') /\ DOMAIN sched' = DOMAIN sched \ {t}
      BY <2>2, ZSetOps DEF RedisTypes
    <2>5. QED
      BY <2>3, <2>4 DEF RedisTypes
  <1>2. CASE t \in Cron
    <2>1. NextExecution(e, prev) \in Int
      BY DEF NextExecution
    <2>2. waiting' = ZAdd(waiting, t, NextExecution(e, prev)) /\ sched' = ZRem(sched, t)
      BY <1>2, SchedulerAssumption DEF AddToRedis, Timed, Fired
    <2>3. ZSet(waiting') /\ DOMAIN waiting' = DOMAIN waiting \cup {t}
      BY <2>1, <2>2, ZSetOps DEF RedisTypes
    <2>4. ZSet(sched') /\ DOMAIN sched' = DOMAIN sched \ {t}
      BY <2>1, <2>2, ZSetOps DEF RedisTypes
    <2>5. QED
      BY <2>3, <2>4 DEF RedisTypes
  <1>3. CASE t \in Fired
    BY <1>3, SchedulerAssumption DEF AddToRedis, Timed, Fired, RedisTypes
  <1>4. QED
    BY <1>1, <1>2, <1>3 DEF Trigger, Timed

\* deleteTrigger removes nothing but its trigger.
LEMMA RemoveFromRedisKeeps ==
    ASSUME RedisTypes, NEW t \in Trigger, RemoveFromRedis(t)
    PROVE  /\ RedisTypes'
           /\ \A u \in Trigger : u # t /\ u \in DOMAIN waiting \cup DOMAIN sched
                                 => u \in DOMAIN waiting' \cup DOMAIN sched'
  <1>1. CASE t \in Timed
    <2>1. waiting' = ZRem(waiting, t) /\ sched' = ZRem(sched, t)
      BY <1>1, SchedulerAssumption DEF RemoveFromRedis, Fired
    <2>2. 0 \in Int
      OBVIOUS
    <2>3. ZSet(waiting') /\ DOMAIN waiting' = DOMAIN waiting \ {t}
      BY <2>1, <2>2, ZSetOps DEF RedisTypes
    <2>4. ZSet(sched') /\ DOMAIN sched' = DOMAIN sched \ {t}
      BY <2>1, <2>2, ZSetOps DEF RedisTypes
    <2>5. QED
      BY <2>3, <2>4 DEF RedisTypes
  <1>2. CASE t \in Fired
    BY <1>2, SchedulerAssumption DEF RemoveFromRedis, Fired, RedisTypes
  <1>3. QED
    BY <1>1, <1>2 DEF Trigger

-----------------------------------------------------------------------------
(* What a step must do to keep the invariant.                              *)

KeepsRedis(S) ==
    \A u \in Timed \ S : u \in DOMAIN waiting \cup DOMAIN sched
                        => u \in DOMAIN waiting' \cup DOMAIN sched'

\* A step of process p to label l, with local variables v.
Moves(p, l, v) ==
    /\ l \in Labels /\ v \in Locals
    /\ pc' = [pc EXCEPT ![p] = l] /\ poll' = [poll EXCEPT ![p] = v]
    /\ UNCHANGED <<rev, every, api, fired>>
    /\ docs' \subseteq docs /\ expected' \subseteq expected
    /\ payload' \in [Trigger -> SUBSET Nat]
    /\ l \notin {"idle", "poll"} => v.trig \in Trigger
    /\ l = "unlist" => v.trig \in Fired
    /\ l = "unschedule" => v.trig \notin docs' /\ rev[v.trig] > 0

LEMMA MovesKeep ==
    ASSUME IInv, NEW p \in Process, NEW l, NEW v, Moves(p, l, v)
    PROVE  StoreTypes' /\ LoopTypes' /\ Rules'
  <1> USE DEF IInv, Types
  <1>1. StoreTypes'
    BY DEF StoreTypes, Moves
  <1>2. LoopTypes'
    BY DEF LoopTypes, Moves
  <1>3. /\ pc'[p] = l /\ poll'[p] = v
        /\ \A q \in Process \ {p} : pc'[q] = pc[q] /\ poll'[q] = poll[q]
    BY DEF LoopTypes, Moves
  <1>4. Created'
    BY DEF Rules, Created, Moves
  <1>5. DeletesGone'
    <2>1. \A t \in Trigger : \A r \in api'[t] : r.op = "delete" => t \notin docs'
      BY DEF Rules, DeletesGone, Moves
    <2>2. ASSUME NEW q \in Process, pc'[q] = "unschedule"
          PROVE  poll'[q].trig \notin docs' /\ rev'[poll'[q].trig] > 0
      <3>1. CASE q = p
        BY <1>3, <2>2, <3>1 DEF Moves
      <3>2. CASE q # p
        BY <1>3, <2>2, <3>2 DEF Moves, Rules, DeletesGone
      <3>3. QED
        BY <3>1, <3>2
    <2>3. QED
      BY <2>1, <2>2 DEF DeletesGone
  <1>6. UnlistsFired'
    BY <1>3 DEF UnlistsFired, Rules, Moves
  <1>7. HoldsTrigger'
    BY <1>3 DEF HoldsTrigger, Rules, Moves
  <1>8. QED
    BY <1>1, <1>2, <1>4, <1>5, <1>6, <1>7 DEF Rules

\* Together: a move that takes from redis only triggers that are not tracked.
LEMMA MovesInv ==
    ASSUME IInv, NEW p \in Process, NEW l, NEW v, Moves(p, l, v), RedisTypes',
           NEW S, KeepsRedis(S), \A u \in S : u \notin Timed \cap expected' \cap docs'
    PROVE  IInv'
  <1>1. StoreTypes' /\ LoopTypes' /\ Rules'
    BY MovesKeep
  <1>2. TimedNotLost'
    BY DEF TimedNotLost, KeepsRedis, IInv, Moves
  <1>3. QED
    BY <1>1, <1>2 DEF IInv, Types

\* A step of the API or of a firer that is not a creation: what it deletes in
\* redis has no document, what it announces was created.
LEMMA StoreKeeps ==
    ASSUME IInv, StoreTypes', RedisTypes', UNCHANGED <<pc, poll>>,
           docs' \subseteq docs,
           \A t \in Trigger : rev'[t] >= rev[t],
           \A t \in Trigger : t \in expected' \ expected =>
               rev[t] > 0 /\ (t \in Timed => t \in DOMAIN waiting' \cup DOMAIN sched'),
           \A t \in Trigger : api'[t] # {} => api[t] # {} \/ t \in docs,
           \A t \in Trigger : \A r \in api'[t] : r.op = "delete" => r \in api[t] \/ t \notin docs',
           NEW S, KeepsRedis(S), \A u \in S : u \notin docs
    PROVE  IInv'
  <1> USE DEF IInv, Types, StoreTypes
  <1>1. LoopTypes'
    BY DEF LoopTypes
  <1>2. Created'
    BY DEF Created, Rules
  <1>3. DeletesGone'
    <2>1. \A t \in Trigger : \A r \in api'[t] : r.op = "delete" => t \notin docs'
      BY DEF Rules, DeletesGone
    <2>2. ASSUME NEW q \in Process, pc[q] = "unschedule"
          PROVE  poll[q].trig \notin docs' /\ rev'[poll[q].trig] > 0
      <3>1. poll[q].trig \in Trigger
        BY <2>2 DEF Rules, HoldsTrigger
      <3>2. QED
        BY <2>2, <3>1 DEF Rules, DeletesGone
    <2>3. QED
      BY <2>1, <2>2 DEF DeletesGone
  <1>4. UnlistsFired' /\ HoldsTrigger'
    BY DEF Rules, UnlistsFired, HoldsTrigger
  <1>5. TimedNotLost'
    BY DEF TimedNotLost, KeepsRedis, Trigger
  <1>6. QED
    BY <1>1, <1>2, <1>3, <1>4, <1>5 DEF Rules

-----------------------------------------------------------------------------
(* The actions.                                                            *)

LEMMA CreateInv == ASSUME IInv, NEW t \in Trigger, CreateTrigger(t) PROVE IInv'
  <1> USE DEF CreateTrigger, Pending, history
  <1>1. StoreTypes'
    BY DEF IInv, Types, StoreTypes, Requests
  <1>2. RedisTypes' /\ LoopTypes'
    BY DEF IInv, Types, RedisTypes, LoopTypes
  <1>3. t \notin expected /\ t \notin docs /\ api[t] = {}
    BY DEF IInv, Types, StoreTypes, Rules, Created
  <1>4. Created'
    BY DEF IInv, Types, StoreTypes, Rules, Created
  <1>5. DeletesGone'
    <2>1. \A u \in Trigger : \A r \in api'[u] : r.op = "delete" => u \notin docs'
      BY <1>3 DEF IInv, Types, StoreTypes, Rules, DeletesGone
    <2>2. ASSUME NEW q \in Process, pc[q] = "unschedule"
          PROVE  poll[q].trig \notin docs' /\ rev'[poll[q].trig] > 0
      <3>1. poll[q].trig \in Trigger /\ rev[poll[q].trig] > 0 /\ poll[q].trig \notin docs
        BY <2>2 DEF IInv, Rules, HoldsTrigger, DeletesGone
      <3>2. QED
        BY <3>1 DEF IInv, Types, StoreTypes
    <2>3. QED
      BY <2>1, <2>2 DEF DeletesGone
  <1>6. UnlistsFired' /\ HoldsTrigger'
    BY DEF IInv, Rules, UnlistsFired, HoldsTrigger
  <1>7. TimedNotLost'
    BY <1>3 DEF IInv, TimedNotLost
  <1>8. QED
    BY <1>1, <1>2, <1>4, <1>5, <1>6, <1>7 DEF IInv, Types, Rules

LEMMA DeleteDocInv == ASSUME IInv, NEW t \in Trigger, DeleteDoc(t) PROVE IInv'
  <1> USE DEF DeleteDoc, Pending, history
  <1>1. StoreTypes'
    BY DEF IInv, Types, StoreTypes, Requests
  <1>2. RedisTypes' /\ KeepsRedis({})
    BY DEF IInv, Types, RedisTypes, KeepsRedis
  <1>3. \A u \in Trigger : api'[u] # {} => api[u] # {} \/ u \in docs
    BY DEF IInv, Types, StoreTypes
  <1>4. \A u \in Trigger : \A r \in api'[u] : r.op = "delete" => r \in api[u] \/ u \notin docs'
    BY DEF IInv, Types, StoreTypes
  <1>5. \A u \in Trigger : rev'[u] >= rev[u]
    BY DEF IInv, Types, StoreTypes
  <1>6. QED
    BY <1>1, <1>2, <1>3, <1>4, <1>5, StoreKeeps

LEMMA UpdateDocInv ==
    ASSUME IInv, NEW t \in Trigger, UpdateCronDoc(t) \/ UpdateMessage(t) \/ RebuildRead(t)
    PROVE  IInv'
  <1> USE DEF UpdateCronDoc, UpdateMessage, RebuildRead, Pending, history, couch
  <1>1. StoreTypes'
    BY DEF IInv, Types, StoreTypes, Requests
  <1>2. RedisTypes' /\ KeepsRedis({}) /\ UNCHANGED <<pc, poll, docs, expected>>
    BY DEF IInv, Types, RedisTypes, KeepsRedis
  <1>3. \A u \in Trigger : api'[u] # {} => api[u] # {} \/ u \in docs
    BY DEF IInv, Types, StoreTypes
  <1>4. \A u \in Trigger : \A r \in api'[u] : r.op = "delete" => r \in api[u] \/ u \notin docs'
    BY DEF IInv, Types, StoreTypes
  <1>5. \A u \in Trigger : rev'[u] >= rev[u]
    BY DEF IInv, Types, StoreTypes
  <1>6. QED
    BY <1>1, <1>2, <1>3, <1>4, <1>5, StoreKeeps

\* A request served, or lost: it leaves the set of requests.
LEMMA ServedKeeps ==
    ASSUME IInv, NEW t \in Trigger, NEW r \in api[t], Served(t, r),
           UNCHANGED <<docs, rev, every, payload, fired>>
    PROVE  /\ StoreTypes'
           /\ rev[t] > 0 /\ (r.op = "delete" => t \notin docs)
           /\ \A u \in Trigger : api'[u] # {} => api[u] # {} \/ u \in docs
           /\ \A u \in Trigger : \A q \in api'[u] : q.op = "delete" => q \in api[u] \/ u \notin docs'
           /\ \A u \in Trigger : rev'[u] >= rev[u]
  <1>1. StoreTypes'
    BY DEF IInv, Types, StoreTypes, Served
  <1>2. rev[t] > 0 /\ (r.op = "delete" => t \notin docs)
    BY DEF IInv, Rules, Created, DeletesGone
  <1>3. \A u \in Trigger : api'[u] \subseteq api[u] /\ rev'[u] = rev[u] /\ rev[u] \in Nat
    BY DEF IInv, Types, StoreTypes, Served
  <1>4. QED
    BY <1>1, <1>2, <1>3

LEMMA AddInRedisInv == ASSUME IInv, NEW t \in Trigger, AddInRedis(t) PROVE IInv'
  <1>1. PICK r \in api[t] : Served(t, r) /\ AddToRedis(t, 0, r.every)
    BY DEF AddInRedis
  <1>2. UNCHANGED <<docs, rev, every, payload, fired, pc, poll>> /\ expected' = expected \cup {t}
    BY DEF AddInRedis, couch
  <1>3. r.every \in Int
    <2>1. r \in Requests
      BY DEF IInv, Types, StoreTypes
    <2>2. Periods \subseteq Int
      BY SchedulerAssumption
    <2>3. QED
      BY <2>1, <2>2 DEF Requests
  <1>4. /\ RedisTypes' /\ (t \in Timed => t \in DOMAIN waiting')
        /\ \A u \in Trigger : u \in DOMAIN waiting \cup DOMAIN sched
                              => u \in DOMAIN waiting' \cup DOMAIN sched'
    <2>1. RedisTypes /\ 0 \in Int
      BY DEF IInv, Types
    <2>2. QED
      BY <1>1, <1>3, <2>1, AddToRedisKeeps
  <1>5. KeepsRedis({})
    BY <1>4 DEF KeepsRedis, Trigger
  <1>6. QED
    <2>1. /\ StoreTypes' /\ rev[t] > 0
          /\ \A u \in Trigger : api'[u] # {} => api[u] # {} \/ u \in docs
          /\ \A u \in Trigger : \A q \in api'[u] : q.op = "delete" => q \in api[u] \/ u \notin docs'
          /\ \A u \in Trigger : rev'[u] >= rev[u]
      BY <1>1, <1>2, ServedKeeps
    <2>2. \A u \in Trigger : u \in expected' \ expected =>
              rev[u] > 0 /\ (u \in Timed => u \in DOMAIN waiting' \cup DOMAIN sched')
      BY <1>2, <1>4, <2>1
    <2>3. docs' \subseteq docs /\ UNCHANGED <<pc, poll>>
      BY <1>2
    <2>4. QED
      BY <1>4, <1>5, <2>1, <2>2, <2>3, StoreKeeps

LEMMA DeleteInRedisInv == ASSUME IInv, NEW t \in Trigger, DeleteInRedis(t) PROVE IInv'
  <1>1. PICK r \in api[t] : r.op = "delete" /\ Served(t, r)
    BY DEF DeleteInRedis
  <1>2. UNCHANGED <<docs, rev, every, payload, fired, pc, poll, expected>> /\ RemoveFromRedis(t)
    BY DEF DeleteInRedis, couch, history
  <1>3. /\ RedisTypes'
        /\ \A u \in Trigger : u # t /\ u \in DOMAIN waiting \cup DOMAIN sched
                              => u \in DOMAIN waiting' \cup DOMAIN sched'
    BY <1>2, RemoveFromRedisKeeps DEF IInv, Types
  <1>4. KeepsRedis({t})
    BY <1>3 DEF KeepsRedis, Trigger
  <1>5. QED
    BY <1>1, <1>2, <1>3, <1>4, ServedKeeps, StoreKeeps

LEMMA UpdateInRedisInv == ASSUME IInv, NEW t \in Trigger, UpdateInRedis(t) PROVE IInv'
  <1>1. PICK r \in api[t] : Served(t, r) /\ waiting' = ZAdd(waiting, t, r.every)
    BY DEF UpdateInRedis
  <1>2. /\ UNCHANGED <<docs, rev, every, payload, fired, pc, poll>>
        /\ expected' = expected \cup {t} /\ sched' = ZRem(sched, t)
    BY DEF UpdateInRedis, couch
  <1>3. r.every \in Int
    <2>1. r \in Requests
      BY DEF IInv, Types, StoreTypes
    <2>2. Periods \subseteq Int
      BY SchedulerAssumption
    <2>3. QED
      BY <2>1, <2>2 DEF Requests
  <1>4. ZSet(waiting') /\ DOMAIN waiting' = DOMAIN waiting \cup {t}
    BY <1>1, <1>3, ZSetOps DEF IInv, Types, RedisTypes
  <1>5. ZSet(sched') /\ DOMAIN sched' = DOMAIN sched \ {t}
    BY <1>2, <1>3, ZSetOps DEF IInv, Types, RedisTypes
  <1>6. RedisTypes' /\ KeepsRedis({}) /\ t \in DOMAIN waiting'
    BY <1>4, <1>5 DEF RedisTypes, KeepsRedis
  <1>7. QED
    <2>1. /\ StoreTypes' /\ rev[t] > 0
          /\ \A u \in Trigger : api'[u] # {} => api[u] # {} \/ u \in docs
          /\ \A u \in Trigger : \A q \in api'[u] : q.op = "delete" => q \in api[u] \/ u \notin docs'
          /\ \A u \in Trigger : rev'[u] >= rev[u]
      BY <1>1, <1>2, ServedKeeps
    <2>2. \A u \in Trigger : u \in expected' \ expected =>
              rev[u] > 0 /\ (u \in Timed => u \in DOMAIN waiting' \cup DOMAIN sched')
      BY <1>2, <1>6, <2>1
    <2>3. docs' \subseteq docs /\ UNCHANGED <<pc, poll>>
      BY <1>2
    <2>4. QED
      BY <1>6, <2>1, <2>2, <2>3, StoreKeeps

LEMMA RequestLostInv == ASSUME IInv, NEW t \in Trigger, RequestLost(t) PROVE IInv'
  <1>1. PICK r \in api[t] : Served(t, r)
    BY DEF RequestLost
  <1>2. UNCHANGED <<docs, rev, every, payload, fired, pc, poll, expected, waiting, sched>>
    BY DEF RequestLost, couch, history
  <1>3. RedisTypes' /\ KeepsRedis({})
    BY <1>2 DEF IInv, Types, RedisTypes, KeepsRedis
  <1>4. QED
    BY <1>1, <1>2, <1>3, ServedKeeps, StoreKeeps

LEMMA FireInv == ASSUME IInv, NEW t \in Trigger, FireStep(t) PROVE IInv'
  <1>1. UNCHANGED <<docs, rev, every, api, pc, poll, expected, sched>>
    BY DEF FireStep, Match, Fire, FireFails, Arm, ArmFails, couch, history
  <1>2. StoreTypes'
    BY DEF IInv, Types, StoreTypes, FireStep, Match, Fire, FireFails, Arm, ArmFails, couch, history
  <1>3. waiting' = waiting \/ waiting' = ZAddNX(waiting, t, Debounce)
    BY DEF FireStep, Match, Fire, FireFails, Arm, ArmFails
  <1>4. ZSet(waiting') /\ DOMAIN waiting \subseteq DOMAIN waiting'
    <2>1. ZSet(waiting) /\ Debounce \in Int
      BY SchedulerAssumption DEF IInv, Types, RedisTypes
    <2>2. /\ ZSet(ZAddNX(waiting, t, Debounce))
          /\ DOMAIN ZAddNX(waiting, t, Debounce) = DOMAIN waiting \cup {t}
      BY <2>1, ZSetOps
    <2>3. QED
      BY <1>3, <2>1, <2>2
  <1>5. RedisTypes' /\ KeepsRedis({})
    BY <1>1, <1>4 DEF IInv, Types, RedisTypes, KeepsRedis
  <1>6. \A u \in Trigger : rev'[u] >= rev[u]
    BY <1>1 DEF IInv, Types, StoreTypes
  <1>7. QED
    BY <1>1, <1>2, <1>5, <1>6, StoreKeeps

LEMMA LocalsFields ==
    ASSUME NEW v \in Locals
    PROVE  /\ \A t \in Trigger, d \in Int :
                [v EXCEPT !.trig = t, !.score = d] \in Locals
                /\ [v EXCEPT !.trig = t, !.score = d].trig = t
           /\ \A r \in Int, e \in Int :
                [v EXCEPT !.rev = r, !.every = e] \in Locals
                /\ [v EXCEPT !.rev = r, !.every = e].trig = v.trig
           /\ \A h \in SUBSET Nat :
                [v EXCEPT !.hand = h] \in Locals /\ [v EXCEPT !.hand = h].trig = v.trig
           /\ NoPoll \in Locals /\ [NoPoll EXCEPT !.now = v.now] \in Locals
  <1>1. \A t \in Trigger, d \in Int :
             [v EXCEPT !.trig = t, !.score = d] \in Locals
             /\ [v EXCEPT !.trig = t, !.score = d].trig = t
    BY DEF Locals
  <1>2. \A r \in Int, e \in Int :
             [v EXCEPT !.rev = r, !.every = e] \in Locals
             /\ [v EXCEPT !.rev = r, !.every = e].trig = v.trig
    BY DEF Locals
  <1>3. \A h \in SUBSET Nat :
             [v EXCEPT !.hand = h] \in Locals /\ [v EXCEPT !.hand = h].trig = v.trig
    BY DEF Locals
  <1>4. NoPoll \in Locals /\ v.now \in Int
    BY DEF Locals, NoPoll
  <1>5. [NoPoll EXCEPT !.now = v.now] \in Locals
    BY <1>4 DEF Locals
  <1>6. QED
    BY <1>1, <1>2, <1>3, <1>4, <1>5

\* The steps that leave redis, the documents and the requests alone.
LEMMA LocalInv ==
    ASSUME IInv, NEW p \in Process, StartPoll(p) \/ ReadPayload(p) \/ ErasePayload(p)
                                      \/ ReadPayloadFails(p) \/ PushJob(p) \/ Crash(p)
    PROVE  IInv'
  <1>1. /\ UNCHANGED <<docs, rev, every, api, fired, expected, waiting, sched>>
        /\ payload' \in [Trigger -> SUBSET Nat]
    BY DEF StartPoll, ReadPayload, ErasePayload, ReadPayloadFails, PushJob, Crash, couch,
           history, IInv, Types, StoreTypes
  <1>2. RedisTypes' /\ KeepsRedis({})
    BY <1>1 DEF IInv, Types, RedisTypes, KeepsRedis
  <1>3. poll[p] \in Locals /\ pc[p] \in Labels
    BY DEF IInv, Types, LoopTypes
  <1>4. pc[p] \notin {"idle", "poll"} => poll[p].trig \in Trigger
    BY DEF IInv, Rules, HoldsTrigger
  <1>5. CASE StartPoll(p)
    <2>1. Moves(p, "poll", poll[p])
      BY <1>1, <1>3, <1>5 DEF Moves, StartPoll, Goto, Labels, IInv, Types, LoopTypes
    <2>2. QED
      BY <1>2, <2>1, MovesInv
  <1>6. CASE ReadPayload(p)
    <2> DEFINE v == [poll[p] EXCEPT !.hand = payload[poll[p].trig]]
    <2>1. v \in Locals /\ v.trig = poll[p].trig /\ poll[p].trig \in Trigger
      <3>1. poll[p].trig \in Trigger
        BY <1>4, <1>6 DEF ReadPayload
      <3>2. payload[poll[p].trig] \in SUBSET Nat
        BY <3>1 DEF IInv, Types, StoreTypes
      <3>3. QED
        BY <1>3, <3>1, <3>2, LocalsFields
    <2>2. poll' = [poll EXCEPT ![p] = v] /\ pc' = [pc EXCEPT ![p] = "erase"]
      BY <1>6 DEF ReadPayload, Goto, IInv, Types, LoopTypes
    <2>3. Moves(p, "erase", v)
      BY <1>1, <2>1, <2>2 DEF Moves, Labels
    <2>4. QED
      BY <1>2, <2>3, MovesInv
  <1>7. CASE ErasePayload(p)
    <2>1. Moves(p, "push", poll[p])
      BY <1>1, <1>3, <1>4, <1>7
      DEF Moves, ErasePayload, Goto, Labels, IInv, Types, LoopTypes
    <2>2. QED
      BY <1>2, <2>1, MovesInv
  <1>10. CASE ReadPayloadFails(p)
    <2> DEFINE v == [poll[p] EXCEPT !.hand = {}]
    <2>1. v \in Locals /\ v.trig = poll[p].trig /\ poll[p].trig \in Trigger
      BY <1>3, <1>4, <1>10, LocalsFields DEF ReadPayloadFails
    <2>2. poll' = [poll EXCEPT ![p] = v] /\ pc' = [pc EXCEPT ![p] = "push"]
      BY <1>10 DEF ReadPayloadFails, Goto, IInv, Types, LoopTypes
    <2>3. Moves(p, "push", v)
      BY <1>1, <2>1, <2>2 DEF Moves, Labels
    <2>4. QED
      BY <1>2, <2>3, MovesInv
  <1>8. CASE PushJob(p)
    <2>1. CASE Loop(p)
      <3>1. Moves(p, "poll", [NoPoll EXCEPT !.now = poll[p].now])
        BY <1>1, <1>3, <2>1, LocalsFields DEF Moves, Loop, Goto, Labels
      <3>2. QED
        BY <1>2, <3>1, MovesInv
    <2>2. ASSUME NEW l \in {"delete", "readd"}, Goto(p, l), UNCHANGED poll PROVE IInv'
      <3>1. Moves(p, l, poll[p])
        BY <1>1, <1>3, <1>4, <1>8, <2>2
        DEF Moves, PushJob, Goto, Labels, IInv, Types, LoopTypes
      <3>2. QED
        BY <1>2, <3>1, MovesInv
    <2>3. QED
      BY <1>8, <2>1, <2>2 DEF PushJob
  <1>9. CASE Crash(p)
    <2>1. Moves(p, "idle", NoPoll)
      BY <1>1, <1>3, <1>9, LocalsFields DEF Moves, Crash, Return, Goto, Labels
    <2>2. QED
      BY <1>2, <2>1, MovesInv
  <1>11. QED
    BY <1>5, <1>6, <1>7, <1>8, <1>9, <1>10

LEMMA LuaPollInv == ASSUME IInv, NEW p \in Process, LuaPoll(p) PROVE IInv'
  <1>1. UNCHANGED <<docs, rev, every, api, fired, expected, payload>>
    BY DEF LuaPoll, couch, history
  <1>2. poll[p] \in Locals /\ payload \in [Trigger -> SUBSET Nat] /\ ZSet(waiting) /\ ZSet(sched)
    BY DEF IInv, Types, LoopTypes, StoreTypes, RedisTypes
  <1>3. poll[p].now \in Int
    BY <1>2 DEF Locals
  <1>4. ASSUME NEW t \in Trigger, NEW d \in Int, Takes(p, t, d), RedisTypes', KeepsRedis({})
        PROVE  IInv'
    <2> DEFINE v == [poll[p] EXCEPT !.trig = t, !.score = d]
    <2>1. v \in Locals /\ v.trig = t
      BY <1>2 DEF Locals
    <2>2. pc' = [pc EXCEPT ![p] = "fetch"] /\ poll' = [poll EXCEPT ![p] = v]
      BY <1>4 DEF Takes, Goto
    <2>3. Moves(p, "fetch", v)
      BY <1>1, <1>2, <2>1, <2>2 DEF Moves, Labels
    <2>4. QED
      BY <1>4, <2>3, MovesInv
  <1>5. ASSUME NEW t \in First(sched, poll[p].now - Retry), Takes(p, t, sched[t]),
               sched' = ZAdd(sched, t, poll[p].now), UNCHANGED waiting
        PROVE  IInv'
    <2>1. t \in DOMAIN sched /\ t \in Trigger /\ sched[t] \in Int
      BY <1>2, <1>5 DEF First, ZSet
    <2>2. ZSet(sched') /\ DOMAIN sched' = DOMAIN sched \cup {t}
      BY <1>2, <1>3, <1>5, <2>1, ZSetOps
    <2>3. RedisTypes' /\ KeepsRedis({})
      BY <1>2, <1>5, <2>2 DEF RedisTypes, KeepsRedis
    <2>4. QED
      BY <1>4, <1>5, <2>1, <2>3
  <1>6. ASSUME NEW t \in First(waiting, poll[p].now), Takes(p, t, waiting[t]),
               waiting' = ZRem(waiting, t), sched' = ZAdd(sched, t, waiting[t])
        PROVE  IInv'
    <2>1. t \in DOMAIN waiting /\ t \in Trigger /\ waiting[t] \in Int
      BY <1>2, <1>6 DEF First, ZSet
    <2>2. ZSet(sched') /\ DOMAIN sched' = DOMAIN sched \cup {t}
      BY <1>2, <1>6, <2>1, ZSetOps
    <2>3. ZSet(waiting') /\ DOMAIN waiting' = DOMAIN waiting \ {t}
      BY <1>2, <1>6, <2>1, ZSetOps
    <2>4. RedisTypes' /\ KeepsRedis({})
      BY <2>2, <2>3 DEF RedisTypes, KeepsRedis
    <2>5. QED
      BY <1>4, <1>6, <2>1, <2>4
  <1>7. ASSUME Return(p), UNCHANGED <<waiting, sched>> PROVE IInv'
    <2>1. RedisTypes' /\ KeepsRedis({})
      BY <1>7, <1>2 DEF RedisTypes, KeepsRedis
    <2>2. Moves(p, "idle", NoPoll)
      BY <1>1, <1>2, <1>7, LocalsFields DEF Moves, Return, Goto, Labels
    <2>3. QED
      BY <2>1, <2>2, MovesInv
  <1>8. QED
    BY <1>5, <1>6, <1>7 DEF LuaPoll

\* The steps that take the trigger in hand out of `scheduling`.
LEMMA ZRemInv ==
    ASSUME IInv, NEW p \in Process, NEW l \in Labels, NEW v \in Locals, Moves(p, l, v),
           NEW t \in Trigger, sched' = ZRem(sched, t), UNCHANGED waiting,
           t \notin Timed \cap expected' \cap docs'
    PROVE  IInv'
  <1>1. ZSet(waiting) /\ ZSet(sched) /\ 0 \in Int
    BY DEF IInv, Types, RedisTypes
  <1>2. ZSet(sched') /\ DOMAIN sched' = DOMAIN sched \ {t}
    BY <1>1, ZSetOps
  <1>3. RedisTypes' /\ KeepsRedis({t})
    BY <1>1, <1>2 DEF RedisTypes, KeepsRedis
  <1>4. QED
    BY <1>3, MovesInv

LEMMA GetTriggerInv == ASSUME IInv, NEW p \in Process, GetTrigger(p) PROVE IInv'
  <1> DEFINE t == poll[p].trig
  <1>1. UNCHANGED <<docs, rev, every, api, fired, expected, payload, waiting>>
    BY DEF GetTrigger, couch, history
  <1>2. poll[p] \in Locals /\ payload \in [Trigger -> SUBSET Nat] /\ t \in Trigger
    BY DEF GetTrigger, IInv, Types, LoopTypes, StoreTypes, Rules, HoldsTrigger
  <1>3. CASE t \notin docs
    <2>1. sched' = ZRem(sched, t) /\ Return(p)
      BY <1>3 DEF GetTrigger
    <2>2. Moves(p, "idle", NoPoll)
      BY <1>1, <1>2, <2>1, LocalsFields DEF Moves, Return, Goto, Labels
    <2>3. QED
      BY <1>1, <1>2, <1>3, <2>1, <2>2, LocalsFields, ZRemInv DEF Labels
  <1>4. CASE t \in docs
    <2> DEFINE l == IF t \in Fired THEN "unlist" ELSE "push"
               v == [poll[p] EXCEPT !.rev = rev[t], !.every = every[t]]
    <2>1. rev[t] \in Int /\ every[t] \in Int
      <3>1. rev[t] \in Nat /\ every[t] \in Periods
        BY <1>2 DEF IInv, Types, StoreTypes
      <3>2. \A e \in Periods : e \in Int
        BY SchedulerAssumption
      <3>3. every[t] \in Int
        BY <3>1, <3>2
      <3>4. QED
        BY <3>1, <3>3
    <2>2. v \in Locals /\ v.trig = t
      <3>1. ASSUME NEW r \in Int, NEW e \in Int
            PROVE  /\ [poll[p] EXCEPT !.rev = r, !.every = e] \in Locals
                   /\ [poll[p] EXCEPT !.rev = r, !.every = e].trig = poll[p].trig
        BY <1>2 DEF Locals
      <3>2. QED
        BY <2>1, <3>1
    <2>3. pc' = [pc EXCEPT ![p] = l] /\ poll' = [poll EXCEPT ![p] = v] /\ UNCHANGED sched
      BY <1>4 DEF GetTrigger, Goto, IInv, Types, LoopTypes
    <2>4. Moves(p, l, v)
      BY <1>1, <1>2, <2>2, <2>3 DEF Moves, Labels
    <2>5. RedisTypes' /\ KeepsRedis({})
      BY <1>1, <2>3 DEF RedisTypes, KeepsRedis, IInv, Types
    <2>6. QED
      BY <2>4, <2>5, MovesInv
  <1>5. QED
    BY <1>3, <1>4

LEMMA UnlistInv == ASSUME IInv, NEW p \in Process, Unlist(p) PROVE IInv'
  <1> DEFINE l == IF poll[p].trig \in Webhook THEN "payload" ELSE "push"
  <1>1. poll[p] \in Locals /\ payload \in [Trigger -> SUBSET Nat] /\ poll[p].trig \in Trigger
    BY DEF Unlist, IInv, Types, LoopTypes, StoreTypes, Rules, HoldsTrigger
  <1>2. poll[p].trig \in Fired
    BY DEF Unlist, IInv, Rules, UnlistsFired
  <1>3. Moves(p, l, poll[p])
    BY <1>1 DEF Moves, Unlist, Goto, Labels, couch, history, IInv, Types, LoopTypes
  <1>4. poll[p].trig \notin Timed
    BY <1>2, SchedulerAssumption
  <1>5. l \in Labels /\ sched' = ZRem(sched, poll[p].trig) /\ UNCHANGED waiting
    BY DEF Labels, Unlist
  <1>6. QED
    BY <1>1, <1>3, <1>4, <1>5, ZRemInv

LEMMA PushRefusedInv == ASSUME IInv, NEW p \in Process, PushRefused(p) PROVE IInv'
  <1> DEFINE t == poll[p].trig
             v == [NoPoll EXCEPT !.now = poll[p].now]
  <1>1. poll[p] \in Locals /\ payload \in [Trigger -> SUBSET Nat] /\ t \in Trigger
    BY DEF PushRefused, IInv, Types, LoopTypes, StoreTypes, Rules, HoldsTrigger
  <1>2. sched' = ZRem(sched, t) /\ expected' = expected \ {t} /\ UNCHANGED waiting
    BY DEF PushRefused
  <1>3. UNCHANGED <<docs, rev, every, api, fired, payload>>
    BY DEF PushRefused, couch
  <1>4. Moves(p, "poll", v) \/ Moves(p, "idle", NoPoll)
    BY <1>1, <1>2, <1>3, LocalsFields DEF PushRefused, Moves, Loop, Return, Goto, Labels
  <1>5. v \in Locals /\ NoPoll \in Locals /\ "poll" \in Labels /\ "idle" \in Labels
    BY <1>1, LocalsFields DEF Labels
  <1>6. QED
    BY <1>1, <1>2, <1>4, <1>5, ZRemInv

LEMMA DeleteAtInv == ASSUME IInv, NEW p \in Process, DeleteAt(p) PROVE IInv'
  <1>1. /\ poll[p] \in Locals /\ payload \in [Trigger -> SUBSET Nat]
        /\ poll[p].trig \in Trigger /\ NoPoll \in Locals
    BY LocalsFields DEF DeleteAt, IInv, Types, LoopTypes, StoreTypes, Rules, HoldsTrigger
  <1>2. UNCHANGED <<rev, every, api, fired, expected, payload, waiting, sched>>
    BY DEF DeleteAt, history
  <1>3. RedisTypes' /\ KeepsRedis({})
    BY <1>2 DEF RedisTypes, KeepsRedis, IInv, Types
  <1>4. poll[p].trig \in docs => rev[poll[p].trig] > 0
    BY <1>1 DEF IInv, Rules, Created
  <1>5. Moves(p, "unschedule", poll[p]) \/ Moves(p, "idle", NoPoll)
    BY <1>1, <1>2, <1>4
    DEF DeleteAt, Moves, Return, Goto, Labels, IInv, Types, LoopTypes
  <1>6. QED
    BY <1>3, <1>5, MovesInv

LEMMA UnscheduleInv ==
    ASSUME IInv, NEW p \in Process, NEW l \in Labels, NEW v \in Locals, Moves(p, l, v),
           pc[p] = "unschedule", RemoveFromRedis(poll[p].trig)
    PROVE  IInv'
  <1>1. poll[p].trig \in Trigger /\ poll[p].trig \notin docs /\ RedisTypes
    BY DEF IInv, Types, Rules, HoldsTrigger, DeletesGone
  <1>2. RedisTypes' /\ KeepsRedis({poll[p].trig})
    BY <1>1, RemoveFromRedisKeeps DEF KeepsRedis, Trigger
  <1>3. poll[p].trig \notin docs'
    BY <1>1 DEF Moves
  <1>4. QED
    BY <1>2, <1>3, MovesInv

LEMMA ReaddInv ==
    ASSUME IInv, NEW p \in Process, NEW l \in Labels, NEW v \in Locals, Moves(p, l, v),
           pc[p] = "readd", AddToRedis(poll[p].trig, poll[p].score, poll[p].every)
    PROVE  IInv'
  <1>1. poll[p].trig \in Trigger /\ RedisTypes /\ poll[p].score \in Int /\ poll[p].every \in Int
    BY DEF IInv, Types, LoopTypes, Locals, Rules, HoldsTrigger
  <1>2. RedisTypes' /\ KeepsRedis({})
    BY <1>1, AddToRedisKeeps DEF KeepsRedis, Trigger
  <1>3. QED
    BY <1>2, MovesInv

LEMMA FailsInv == ASSUME IInv, NEW p \in Process, Fails(p) PROVE IInv'
  <1> DEFINE t == poll[p].trig
  <1>1. /\ poll[p] \in Locals /\ payload \in [Trigger -> SUBSET Nat]
        /\ t \in Trigger /\ NoPoll \in Locals /\ "idle" \in Labels
    BY LocalsFields DEF Fails, IInv, Types, LoopTypes, StoreTypes, Rules, HoldsTrigger, Labels
  <1>2. Moves(p, "idle", NoPoll)
    BY <1>1 DEF Fails, Moves, Return, Goto, Labels
  <1>3. CASE UNCHANGED <<waiting, sched>>
    <2>1. RedisTypes' /\ KeepsRedis({})
      BY <1>3 DEF RedisTypes, KeepsRedis, IInv, Types
    <2>2. QED
      BY <1>2, <2>1, MovesInv
  <1>4. CASE pc[p] = "unlist" /\ sched' = ZRem(sched, t) /\ UNCHANGED waiting
    <2>1. t \notin Timed
      BY <1>4, SchedulerAssumption DEF IInv, Rules, UnlistsFired
    <2>2. QED
      BY <1>1, <1>2, <1>4, <2>1, ZRemInv
  <1>5. CASE pc[p] = "unschedule" /\ RemoveFromRedis(t)
    BY <1>1, <1>2, <1>5, UnscheduleInv
  <1>6. CASE pc[p] = "readd" /\ AddToRedis(t, poll[p].score, poll[p].every)
    BY <1>1, <1>2, <1>6, ReaddInv
  <1>7. QED
    BY <1>3, <1>4, <1>5, <1>6 DEF Fails

LEMMA PollInv ==
    ASSUME IInv, NEW p \in Process, PollStep(p) \/ PollFailure(p) PROVE IInv'
  <1> DEFINE v == [NoPoll EXCEPT !.now = poll[p].now]
  <1>1. /\ v \in Locals /\ "poll" \in Labels
        /\ payload \in [Trigger -> SUBSET Nat]
    BY LocalsFields DEF IInv, Types, LoopTypes, StoreTypes, Labels
  <1>2. CASE Unschedule(p)
    <2>1. Moves(p, "poll", v)
      BY <1>1, <1>2 DEF Unschedule, Moves, Loop, Goto, couch, history
    <2>2. QED
      BY <1>1, <1>2, <2>1, UnscheduleInv DEF Unschedule
  <1>3. CASE Readd(p)
    <2>1. Moves(p, "poll", v)
      BY <1>1, <1>3 DEF Readd, Moves, Loop, Goto, couch, history
    <2>2. QED
      BY <1>1, <1>3, <2>1, ReaddInv DEF Readd
  <1>4. QED
    BY <1>2, <1>3, LocalInv, LuaPollInv, GetTriggerInv, UnlistInv, PushRefusedInv,
       DeleteAtInv, FailsInv DEF PollStep, PollFailure

LEMMA TickInv == ASSUME IInv, Tick PROVE IInv'
  <1>1. UNCHANGED <<docs, rev, every, api, fired, expected, payload, pc>>
    BY DEF Tick, couch, history
  <1>2. /\ DOMAIN waiting' = DOMAIN waiting /\ DOMAIN sched' = DOMAIN sched
        /\ \A t \in DOMAIN waiting : waiting'[t] = Earlier(waiting[t])
        /\ \A t \in DOMAIN sched : sched'[t] = Earlier(sched[t])
    BY DEF Tick
  <1>3. \A x \in Int : Earlier(x) \in Int
    BY SchedulerAssumption DEF Earlier, Floor
  <1>4. RedisTypes'
    <2>1. /\ waiting' = [t \in DOMAIN waiting |-> Earlier(waiting[t])]
          /\ sched' = [t \in DOMAIN sched |-> Earlier(sched[t])]
      BY DEF Tick
    <2>2. QED
      BY <1>2, <1>3, <2>1 DEF IInv, Types, RedisTypes, ZSet
  <1>5. ASSUME NEW p \in Process PROVE poll'[p] \in Locals /\ poll'[p].trig = poll[p].trig
    <2>1. poll[p] \in Locals
      BY DEF IInv, Types, LoopTypes
    <2>2. ASSUME NEW n \in Int, NEW d \in Int
          PROVE  /\ [poll[p] EXCEPT !.now = n, !.score = d] \in Locals
                 /\ [poll[p] EXCEPT !.now = n, !.score = d].trig = poll[p].trig
      BY <2>1 DEF Locals
    <2>3. /\ poll[p].now - 1 \in Int
          /\ (IF poll[p].trig = NoTrigger THEN 0 ELSE Earlier(poll[p].score)) \in Int
      BY <1>3, <2>1 DEF Locals
    <2>4. \/ poll'[p] = poll[p]
          \/ poll'[p] = [poll[p] EXCEPT !.now = poll[p].now - 1,
                           !.score = IF poll[p].trig = NoTrigger THEN 0
                                     ELSE Earlier(poll[p].score)]
      BY DEF Tick
    <2>5. QED
      BY <2>1, <2>2, <2>3, <2>4
  <1>6. LoopTypes'
    <2>1. poll' = [p \in Process |-> poll'[p]]
      BY DEF Tick
    <2>2. QED
      BY <1>1, <1>5, <2>1 DEF LoopTypes, IInv, Types
  <1>7. StoreTypes' /\ Created'
    BY <1>1 DEF IInv, Types, StoreTypes, Rules, Created
  <1>8. DeletesGone' /\ UnlistsFired' /\ HoldsTrigger'
    BY <1>1, <1>5 DEF IInv, Rules, DeletesGone, UnlistsFired, HoldsTrigger
  <1>9. TimedNotLost'
    BY <1>1, <1>2 DEF IInv, TimedNotLost
  <1>10. QED
    BY <1>4, <1>6, <1>7, <1>8, <1>9 DEF IInv, Types, Rules

-----------------------------------------------------------------------------
LEMMA InitIInv == Init => IInv
  <1> SUFFICES ASSUME Init PROVE IInv
    OBVIOUS
  <1>1. StoreTypes
    BY DEF StoreTypes, Init
  <1>2. RedisTypes
    BY DEF RedisTypes, ZSet, Init
  <1>3. LoopTypes
    BY DEF LoopTypes, Labels, Locals, NoPoll, Init
  <1>4. Rules
    BY DEF Rules, Created, DeletesGone, UnlistsFired, HoldsTrigger, Init
  <1>5. TimedNotLost
    BY DEF TimedNotLost, Init
  <1>6. QED
    BY <1>1, <1>2, <1>3, <1>4, <1>5 DEF IInv, Types

\* The inductive invariant holds in every behaviour of the scheduler.
THEOREM Invariance == Spec => []IInv
  <1>1. IInv /\ [Next]_vars => IInv'
    <2> SUFFICES ASSUME IInv, [Next]_vars PROVE IInv'
      OBVIOUS
    <2>1. ASSUME NEW t \in Trigger, ApiStep(t) PROVE IInv'
      BY <2>1, CreateInv, DeleteDocInv, UpdateDocInv, AddInRedisInv, DeleteInRedisInv,
         UpdateInRedisInv, RequestLostInv DEF ApiStep
    <2>2. CASE UNCHANGED vars
      BY <2>2 DEF vars, IInv, Types, StoreTypes, RedisTypes, LoopTypes, Rules, Created,
                  DeletesGone, UnlistsFired, HoldsTrigger, TimedNotLost
    <2>3. QED
      BY <2>1, <2>2, FireInv, PollInv, TickInv DEF Next
  <1>2. QED
    BY InitIInv, <1>1, PTL DEF Spec

\* No @at or cron trigger that redis was told of disappears from the two sorted
\* sets while its document exists, whatever crashes, fails or races.
THEOREM TimedTriggersNotLost == Spec => []TimedNotLost
  <1>1. IInv => TimedNotLost
    BY DEF IInv
  <1>2. QED
    BY <1>1, Invariance, PTL

-----------------------------------------------------------------------------
(* The calls of the debounced triggers.                                    *)

\* What TypeOK says and Types does not: the bounds of revisions and calls.
\* A call that is being fired has not reached the bound.
FireBounds ==
    /\ rev \in [Trigger -> 0..MaxRev]
    /\ hash \subseteq Event /\ firing \subseteq Fired /\ expected \subseteq Trigger
    /\ payload \in [Trigger -> SUBSET (1..MaxFires)]
    /\ arming \in [Trigger -> SUBSET (1..MaxFires)]
    /\ fired \in [Trigger -> 0..MaxFires] /\ done \in [Trigger -> SUBSET (1..MaxFires)]
    /\ unread \in [Trigger -> SUBSET (1..MaxFires)]
    /\ crashed \in BOOLEAN /\ erred \in BOOLEAN
    /\ \A p \in Process : poll[p].hand \subseteq 1..MaxFires
    /\ \A t \in firing : fired[t] < MaxFires

\* No trigger is called before it is created.
FiredCreated == \A t \in Trigger : t \in firing \/ fired[t] > 0 => rev[t] > 0

\* Covered is not inductive: a process that has polled the trigger and not yet
\* loaded it may fail without a trace.  The trigger is then in `scheduling`, or
\* another process has taken it from there, or a call is about to schedule it.
InRedis(t) == t \in DOMAIN waiting \cup DOMAIN sched
Awaits(t) == InRedis(t) \/ arming[t] # {}
Safe(t, f) ==
    \/ f \in done[t]
    \/ \E p \in Process : /\ Handles(p, t) /\ pc[p] \in {"erase", "push"}
                          /\ t \in Event \/ f \in poll[p].hand
    \/ /\ t \in Event \/ f \in payload[t]
       /\ Awaits(t) \/ \E p \in Process : Handles(p, t) /\ pc[p] \in {"unlist", "payload"}
CallsSafe ==
    ~crashed /\ ~erred =>
        \A t \in Debounced \cap docs : \A f \in Calls(t) \ unread[t] : Safe(t, f)

CallInv == FireBounds /\ FiredCreated /\ CallsSafe

\* The commands on a timed trigger do not move the others.
LEMMA RedisFired ==
    ASSUME RedisTypes, NEW t \in Trigger,
           \/ \E prev, e \in Int : AddToRedis(t, prev, e)
           \/ RemoveFromRedis(t)
    PROVE  /\ hash \subseteq Event => hash' \subseteq Event
           /\ \A u \in Fired : InRedis(u) => InRedis(u)'
  <1>1. CASE t \in Fired
    BY <1>1, SchedulerAssumption
       DEF AddToRedis, RemoveFromRedis, Timed, Fired, InRedis
  <1>2. CASE t \in Timed
    <2>1. hash' = hash
      BY <1>2, SchedulerAssumption DEF AddToRedis, RemoveFromRedis, Timed, Fired
    <2>2. /\ sched' = ZRem(sched, t)
          /\ \/ waiting' = waiting
             \/ waiting' = ZRem(waiting, t)
             \/ \E d : waiting' = ZAdd(waiting, t, d)
      BY <1>2, SchedulerAssumption DEF AddToRedis, RemoveFromRedis, Timed, Fired
    <2>3. \A u \in Fired : u # t
      BY <1>2, SchedulerAssumption
    <2>4. /\ DOMAIN sched' = DOMAIN sched \ {t}
          /\ DOMAIN waiting \ {t} \subseteq DOMAIN waiting'
      BY <2>2 DEF ZRem, ZAdd
    <2>5. QED
      BY <2>1, <2>3, <2>4 DEF InRedis
  <1>3. QED
    BY <1>1, <1>2 DEF Trigger

\* A call stays safe when the poll loops do not move.
LEMMA SafeStays ==
    ASSUME NEW t \in Fired, NEW f, Safe(t, f), done[t] \subseteq done'[t],
           payload[t] \subseteq payload'[t], Awaits(t) => Awaits(t)', UNCHANGED pc,
           \A p \in Process : poll'[p].trig = poll[p].trig /\ poll'[p].hand = poll[p].hand
    PROVE  Safe(t, f)'
  <1>1. CASE f \in done[t]
    BY <1>1 DEF Safe
  <1>2. ASSUME NEW p \in Process, Handles(p, t), pc[p] \in {"erase", "push"},
               t \in Event \/ f \in poll[p].hand
        PROVE  Safe(t, f)'
    BY <1>2 DEF Safe, Handles
  <1>3. CASE /\ t \in Event \/ f \in payload[t]
             /\ Awaits(t) \/ \E p \in Process : Handles(p, t) /\ pc[p] \in {"unlist", "payload"}
    BY <1>3 DEF Safe, Handles
  <1>4. QED
    BY <1>1, <1>2, <1>3 DEF Safe

\* A call stays safe when a process that does not have its trigger moves.
LEMMA SafeMoves ==
    ASSUME LoopTypes, NEW p \in Process, NEW l, NEW v,
           pc' = [pc EXCEPT ![p] = l], poll' = [poll EXCEPT ![p] = v],
           NEW t \in Fired, NEW f, Safe(t, f), done[t] \subseteq done'[t],
           payload[t] \subseteq payload'[t], Awaits(t) => Awaits(t)',
           pc[p] \notin {"unlist", "payload", "erase", "push"} \/ poll[p].trig # t
    PROVE  Safe(t, f)'
  <1>1. \A q \in Process : q # p => pc'[q] = pc[q] /\ poll'[q] = poll[q]
    BY DEF LoopTypes
  <1>2. CASE f \in done[t]
    BY <1>2 DEF Safe
  <1>3. ASSUME NEW q \in Process, Handles(q, t), pc[q] \in {"erase", "push"},
               t \in Event \/ f \in poll[q].hand
        PROVE  Safe(t, f)'
    <2>1. q # p
      BY <1>3 DEF Handles
    <2>2. QED
      BY <1>1, <1>3, <2>1 DEF Safe, Handles
  <1>4. CASE (t \in Event \/ f \in payload[t]) /\ Awaits(t)
    BY <1>4 DEF Safe
  <1>5. ASSUME t \in Event \/ f \in payload[t],
               NEW q \in Process, Handles(q, t), pc[q] \in {"unlist", "payload"}
        PROVE  Safe(t, f)'
    <2>1. q # p
      BY <1>5 DEF Handles
    <2>2. QED
      BY <1>1, <1>5, <2>1 DEF Safe, Handles
  <1>6. QED
    BY <1>2, <1>3, <1>4, <1>5 DEF Safe

\* The requests of the API, which do not touch the calls.
LEMMA ApiCalls == ASSUME IInv, CallInv, NEW t \in Trigger, ApiStep(t) PROVE CallInv'
  <1>1. UNCHANGED <<payload, firing, arming, pc, poll, fired, done, unread, crashed, erred>>
    BY DEF ApiStep, CreateTrigger, DeleteDoc, UpdateCronDoc, UpdateMessage, RebuildRead,
           AddInRedis, DeleteInRedis, UpdateInRedis, RequestLost, firers, history
  <1>2. /\ \/ UNCHANGED rev
           \/ rev[t] = 0 /\ rev' = [rev EXCEPT ![t] = 1]
           \/ rev[t] < MaxRev /\ rev' = [rev EXCEPT ![t] = rev[t] + 1]
        /\ expected' \in {expected, expected \cup {t}}
        /\ docs' \subseteq docs \/ (docs' = docs \cup {t} /\ rev[t] = 0)
    BY DEF ApiStep, CreateTrigger, DeleteDoc, UpdateCronDoc, UpdateMessage, RebuildRead,
           AddInRedis, DeleteInRedis, UpdateInRedis, RequestLost, history, couch
  <1>3. /\ hash \subseteq Event => hash' \subseteq Event
        /\ \A u \in Fired : InRedis(u) => InRedis(u)'
    <2>1. RedisTypes /\ \A u \in Trigger : \A r \in api[u] : r.every \in Int
      <3>1. \A u \in Trigger : \A r \in api[u] : r \in Requests
        BY DEF IInv, Types, StoreTypes
      <3>2. \A r \in Requests : r.every \in Int
        <4>1. \A e \in Periods : e \in Int
          BY SchedulerAssumption
        <4>2. QED
          BY <4>1 DEF Requests
      <3>3. QED
        BY <3>1, <3>2 DEF IInv, Types
    <2>2. CASE AddInRedis(t)
      <3>1. PICK r \in api[t] : AddToRedis(t, 0, r.every)
        BY <2>2 DEF AddInRedis
      <3>2. 0 \in Int /\ r.every \in Int
        BY <2>1
      <3>3. QED
        BY <2>1, <3>1, <3>2, RedisFired
    <2>3. CASE DeleteInRedis(t)
      BY <2>1, <2>3, RedisFired DEF DeleteInRedis
    <2>4. CASE UpdateInRedis(t)
      <3>1. PICK r \in api[t] : r.op = "update" /\ waiting' = ZAdd(waiting, t, r.every)
        BY <2>4 DEF UpdateInRedis
      <3>2. hash' = hash /\ sched' = ZRem(sched, t) /\ r.every \in Int
        BY <2>1, <2>4 DEF UpdateInRedis
      <3>3. DOMAIN waiting' = DOMAIN waiting \cup {t} /\ DOMAIN sched' = DOMAIN sched \ {t}
        BY <3>1, <3>2 DEF ZAdd, ZRem
      <3>4. QED
        BY <3>2, <3>3 DEF InRedis
    <2>5. CASE UNCHANGED <<waiting, sched, hash>>
      BY <2>5 DEF InRedis
    <2>6. QED
      BY <2>2, <2>3, <2>4, <2>5 DEF ApiStep, CreateTrigger, DeleteDoc, UpdateCronDoc,
         UpdateMessage, RebuildRead, RequestLost
  <1>4. rev' \in [Trigger -> 0..MaxRev] /\ \A u \in Trigger : rev[u] > 0 => rev'[u] > 0
    BY <1>2, SchedulerAssumption DEF CallInv, FireBounds
  <1>5. FireBounds'
    BY <1>1, <1>2, <1>3, <1>4 DEF CallInv, FireBounds
  <1>6. FiredCreated'
    BY <1>1, <1>4 DEF CallInv, FiredCreated
  <1>7. CallsSafe'
    <2> SUFFICES ASSUME ~crashed, ~erred, NEW u \in Debounced \cap docs',
                        NEW f \in Calls(u) \ unread[u]
                 PROVE  Safe(u, f)'
      BY <1>1 DEF CallsSafe, Calls
    <2>1. u \in Fired /\ u \in Trigger
      BY SchedulerAssumption DEF Trigger
    <2>2. fired[u] > 0 /\ fired[u] \in Nat
      BY <2>1 DEF CallInv, FireBounds, Calls
    <2>3. u \in docs
      BY <1>2, <2>1, <2>2 DEF CallInv, FiredCreated
    <2>4. Safe(u, f) /\ (Awaits(u) => Awaits(u)')
      BY <1>1, <1>3, <2>1, <2>3 DEF CallInv, CallsSafe, Awaits
    <2>5. QED
      BY <1>1, <2>1, <2>4, SafeStays
  <1>8. QED
    BY <1>5, <1>6, <1>7 DEF CallInv

\* A call is fired: it is followed by a job, or the trigger is in `triggers` or
\* about to be.
LEMMA FireCalls == ASSUME IInv, CallInv, NEW t \in Trigger, FireStep(t) PROVE CallInv'
  <1>1. /\ UNCHANGED <<docs, rev, hash, sched, pc, poll, expected, crashed, unread>>
        /\ waiting' = waiting \/ waiting' = ZAddNX(waiting, t, Debounce)
    BY DEF FireStep, Match, Fire, FireFails, Arm, ArmFails, couch, history
  <1>2. DOMAIN waiting \subseteq DOMAIN waiting'
    BY <1>1 DEF ZAddNX, ZAdd
  <1>3. CASE Match(t) \/ FireFails(t)
    <2>1. /\ UNCHANGED <<payload, arming, fired, done>>
          /\ UNCHANGED <<waiting, erred>> \/ erred' = TRUE
          /\ \/ firing' = firing \cup {t} /\ t \in docs \cap Fired /\ fired[t] < MaxFires
             \/ firing' = firing \ {t}
      BY <1>3 DEF Match, FireFails, history
    <2>2. FireBounds'
      BY <1>1, <2>1 DEF CallInv, FireBounds
    <2>3. FiredCreated'
      BY <1>1, <2>1 DEF CallInv, FiredCreated, IInv, Rules, Created
    <2>4. CASE erred'
      BY <2>2, <2>3, <2>4 DEF CallInv, CallsSafe
    <2>5. CASE UNCHANGED <<waiting, erred>>
      <3>1. CallsSafe'
        BY <1>1, <2>1, <2>5 DEF CallInv, CallsSafe, Calls, Safe, Handles, Awaits, InRedis
      <3>2. QED
        BY <2>2, <2>3, <3>1 DEF CallInv
    <2>6. QED
      BY <2>1, <2>4, <2>5
  <1>4. CASE Arm(t) \/ ArmFails(t)
    <2>1. PICK f \in arming[t] : arming' = [arming EXCEPT ![t] = arming[t] \ {f}]
      BY <1>4 DEF Arm, ArmFails
    <2>2. /\ UNCHANGED <<payload, firing, fired, done>>
          /\ \/ erred' = TRUE
             \/ UNCHANGED erred /\ waiting' = ZAddNX(waiting, t, Debounce)
      BY <1>4 DEF Arm, ArmFails, history
    <2>3. FireBounds'
      BY <1>1, <2>1, <2>2 DEF CallInv, FireBounds
    <2>4. FiredCreated'
      BY <1>1, <2>2 DEF CallInv, FiredCreated
    <2>5. CASE erred'
      BY <2>3, <2>4, <2>5 DEF CallInv, CallsSafe
    <2>6. CASE UNCHANGED erred /\ waiting' = ZAddNX(waiting, t, Debounce)
      <3>1. ASSUME NEW u \in Trigger PROVE Awaits(u) => Awaits(u)'
        <4>1. CASE u = t
          BY <2>6, <4>1 DEF Awaits, InRedis, ZAddNX, ZAdd
        <4>2. CASE u # t
          BY <1>1, <1>2, <2>1, <4>2 DEF Awaits, InRedis, CallInv, FireBounds
        <4>3. QED
          BY <4>1, <4>2
      <3>2. CallsSafe'
        <4> SUFFICES ASSUME ~crashed, ~erred, NEW u \in Debounced \cap docs,
                            NEW f2 \in Calls(u) \ unread[u]
                     PROVE  Safe(u, f2)'
          BY <1>1, <2>2, <2>6 DEF CallsSafe, Calls
        <4>1. u \in Fired /\ u \in Trigger
          BY SchedulerAssumption DEF Trigger
        <4>2. Safe(u, f2)
          BY DEF CallInv, CallsSafe
        <4>3. QED
          BY <1>1, <2>2, <3>1, <4>1, <4>2, SafeStays
      <3>3. QED
        BY <2>3, <2>4, <3>2 DEF CallInv
    <2>7. QED
      BY <2>2, <2>5, <2>6
  <1>5. CASE Fire(t)
    <2>1. t \in firing /\ t \in Fired /\ fired[t] < MaxFires /\ fired[t] \in Nat /\ rev[t] > 0
      BY <1>5 DEF Fire, CallInv, FireBounds, FiredCreated
    <2> DEFINE n == fired[t] + 1
    <2>2. /\ firing' = firing \ {t} /\ fired' = [fired EXCEPT ![t] = n] /\ n \in 1..MaxFires
          /\ fired'[t] = n
      BY <1>5, <2>1, SchedulerAssumption DEF Fire, CallInv, FireBounds
    <2>3. /\ UNCHANGED payload \/ payload' = [payload EXCEPT ![t] = payload[t] \cup {n}]
          /\ UNCHANGED arming \/ arming' = [arming EXCEPT ![t] = arming[t] \cup {n}]
          /\ UNCHANGED done \/ done' = [done EXCEPT ![t] = done[t] \cup {n}]
          /\ UNCHANGED erred
      BY <1>5, <2>2 DEF Fire
    <2>4. FireBounds'
      BY <1>1, <2>2, <2>3 DEF CallInv, FireBounds
    <2>5. FiredCreated'
      BY <1>1, <2>1, <2>2 DEF CallInv, FiredCreated, FireBounds
    <2>6. CallsSafe'
      <3> SUFFICES ASSUME ~crashed, ~erred, NEW u \in Debounced \cap docs,
                          NEW f \in Calls(u)' \ unread[u]
                   PROVE  Safe(u, f)'
        BY <1>1, <2>3 DEF CallsSafe
      <3>1. u \in Fired /\ u \in Trigger
        BY SchedulerAssumption DEF Trigger
      <3>2. /\ done[u] \subseteq done'[u] /\ payload[u] \subseteq payload'[u]
            /\ Awaits(u) => Awaits(u)'
        BY <1>1, <1>2, <2>3, <3>1 DEF CallInv, FireBounds, Awaits, InRedis
      <3>3. CASE f \in Calls(u)
        <4>1. Safe(u, f)
          BY <3>3 DEF CallInv, CallsSafe
        <4>2. QED
          BY <1>1, <3>1, <3>2, <4>1, SafeStays
      <3>4. CASE f \notin Calls(u)
        <4>1. u = t
          BY <2>2, <3>1, <3>4 DEF CallInv, FireBounds, Calls
        <4>2. f = n
          BY <2>1, <2>2, <3>4, <4>1 DEF Calls
        <4>3. CASE t \in Event
          <5>1. waiting' = ZAddNX(waiting, t, Debounce)
            BY <1>5, <4>1, <4>3, SchedulerAssumption DEF Fire
          <5>2. QED
            BY <4>1, <4>3, <5>1 DEF Safe, Awaits, InRedis, ZAddNX, ZAdd
        <4>4. CASE t \in Webhook
          <5>1. /\ payload' = [payload EXCEPT ![t] = payload[t] \cup {n}]
                /\ arming' = [arming EXCEPT ![t] = arming[t] \cup {n}]
            BY <1>5, <2>2, <4>1, <4>4, SchedulerAssumption DEF Fire
          <5>2. n \in payload'[t] /\ n \in arming'[t]
            BY <5>1 DEF CallInv, FireBounds
          <5>3. QED
            BY <4>1, <4>2, <5>2 DEF Safe, Awaits
        <4>5. QED
          BY <2>1, <4>3, <4>4 DEF Fired
      <3>5. QED
        BY <3>3, <3>4
    <2>7. QED
      BY <2>4, <2>5, <2>6 DEF CallInv
  <1>6. QED
    BY <1>3, <1>4, <1>5 DEF FireStep

PollMove(p, l, v) == pc' = [pc EXCEPT ![p] = l] /\ poll' = [poll EXCEPT ![p] = v]

LEMMA HandFields ==
    ASSUME NEW v \in Locals
    PROVE  /\ NoPoll.hand = {} /\ [NoPoll EXCEPT !.now = v.now].hand = {}
  BY DEF Locals, NoPoll

LEMMA PollShape ==
    ASSUME IInv, CallInv, NEW p \in Process, PollStep(p) \/ PollFailure(p)
    PROVE  \E l, v : PollMove(p, l, v) /\ v.hand \subseteq 1..MaxFires
  <1>1. /\ poll[p] \in Locals /\ poll = [poll EXCEPT ![p] = poll[p]]
        /\ poll[p].hand \subseteq 1..MaxFires
    BY DEF IInv, Types, LoopTypes, CallInv, FireBounds
  <1>2. CASE (\E l : Goto(p, l)) /\ UNCHANGED poll
    BY <1>1, <1>2 DEF Goto, PollMove
  <1>3. CASE Return(p) \/ Loop(p)
    BY <1>1, <1>3, HandFields DEF Goto, Return, Loop, PollMove
  <1>4. CASE \E t, d : Takes(p, t, d)
    <2>1. PICK t, d : Takes(p, t, d)
      BY <1>4
    <2> DEFINE v == [poll[p] EXCEPT !.trig = t, !.score = d]
    <2>2. PollMove(p, "fetch", v)
      BY <2>1 DEF Takes, Goto, PollMove
    <2>3. v.hand = poll[p].hand
      BY <1>1 DEF Locals
    <2> HIDE DEF v
    <2>4. QED
      BY <1>1, <2>2, <2>3
  <1>5. CASE /\ \E l : Goto(p, l)
             /\ \E r, e : poll' = [poll EXCEPT ![p] = [poll[p] EXCEPT !.rev = r, !.every = e]]
    <2>1. PICK l, r, e : Goto(p, l) /\ poll' = [poll EXCEPT ![p] = [poll[p] EXCEPT !.rev = r, !.every = e]]
      BY <1>5
    <2> DEFINE v == [poll[p] EXCEPT !.rev = r, !.every = e]
    <2>2. PollMove(p, l, v)
      BY <2>1 DEF Goto, PollMove
    <2>3. v.hand = poll[p].hand
      BY <1>1 DEF Locals
    <2> HIDE DEF v
    <2>4. QED
      BY <1>1, <2>2, <2>3
  <1>6. CASE ReadPayload(p)
    <2>1. poll[p].trig \in Trigger
      BY <1>6 DEF ReadPayload, IInv, Rules, HoldsTrigger
    <2>2. payload[poll[p].trig] \subseteq 1..MaxFires
      BY <2>1 DEF CallInv, FireBounds
    <2> DEFINE v == [poll[p] EXCEPT !.hand = payload[poll[p].trig]]
    <2>3. PollMove(p, "erase", v)
      BY <1>6 DEF ReadPayload, Goto, PollMove
    <2>4. v.hand = payload[poll[p].trig]
      BY <1>1 DEF Locals
    <2> HIDE DEF v
    <2>5. QED
      BY <2>2, <2>3, <2>4
  <1>7. CASE GetTrigger(p)
    BY <1>3, <1>5, <1>7 DEF GetTrigger
  <1>8. CASE LuaPoll(p)
    BY <1>3, <1>4, <1>8 DEF LuaPoll
  <1>9. CASE PushJob(p) \/ PushRefused(p) \/ DeleteAt(p)
    BY <1>2, <1>3, <1>9 DEF PushJob, PushRefused, DeleteAt
  <1>10. CASE StartPoll(p) \/ Unlist(p) \/ ErasePayload(p)
    BY <1>2, <1>10 DEF StartPoll, Unlist, ErasePayload
  <1>13. CASE ReadPayloadFails(p)
    <2> DEFINE v == [poll[p] EXCEPT !.hand = {}]
    <2>1. PollMove(p, "push", v)
      BY <1>13 DEF ReadPayloadFails, Goto, PollMove
    <2>2. v.hand = {}
      BY <1>1 DEF Locals
    <2> HIDE DEF v
    <2>3. QED
      BY <2>1, <2>2
  <1>11. CASE Unschedule(p) \/ Readd(p) \/ Fails(p) \/ Crash(p)
    BY <1>3, <1>11 DEF Unschedule, Readd, Fails, Crash
  <1>12. QED
    BY <1>6, <1>7, <1>8, <1>9, <1>10, <1>11, <1>13 DEF PollStep, PollFailure

LEMMA PollBounds ==
    ASSUME IInv, CallInv, NEW p \in Process, PollStep(p) \/ PollFailure(p)
    PROVE  FireBounds' /\ FiredCreated' /\ UNCHANGED <<rev, fired, firing, arming>>
  <1> DEFINE t == poll[p].trig
  <1>1. /\ UNCHANGED <<rev, fired, firing, arming>>
        /\ expected' \subseteq expected
        /\ crashed' \in {crashed, TRUE}
    BY DEF PollStep, PollFailure, StartPoll, LuaPoll, GetTrigger, Unlist, ReadPayload,
           ErasePayload, PushJob, DeleteAt, Unschedule, Readd, ReadPayloadFails, PushRefused,
           Fails, Crash,
           couch, firers, history
  <1>2. payload' = payload \/ payload' = [payload EXCEPT ![t] = {}]
    BY DEF PollStep, PollFailure, StartPoll, LuaPoll, GetTrigger, Unlist, ReadPayload,
           ErasePayload, PushJob, DeleteAt, Unschedule, Readd, ReadPayloadFails, PushRefused,
           Fails, Crash
  <1>3. erred' \in BOOLEAN
    BY DEF PollStep, PollFailure, StartPoll, LuaPoll, GetTrigger, Unlist, ReadPayload,
           ErasePayload, PushJob, DeleteAt, Unschedule, Readd, ReadPayloadFails, PushRefused,
           Fails, Crash,
           history, CallInv, FireBounds
  <1>4. done' \in [Trigger -> SUBSET (1..MaxFires)]
    <2>1. CASE PushJob(p)
      <3>1. t \in Trigger
        BY <2>1 DEF PushJob, IInv, Rules, HoldsTrigger
      <3>2. 1..fired[t] \subseteq 1..MaxFires /\ poll[p].hand \subseteq 1..MaxFires
        BY <3>1, SchedulerAssumption DEF CallInv, FireBounds
      <3>3. done' = [done EXCEPT ![t] = done[t] \cup IF t \in Event THEN 1..fired[t] ELSE poll[p].hand]
        BY <2>1 DEF PushJob
      <3>4. QED
        BY <3>1, <3>2, <3>3 DEF CallInv, FireBounds
    <2>2. CASE UNCHANGED done
      BY <2>2 DEF CallInv, FireBounds
    <2>3. QED
      BY <2>1, <2>2
         DEF PollStep, PollFailure, StartPoll, LuaPoll, GetTrigger, Unlist, ReadPayload, ErasePayload,
             DeleteAt, Unschedule, Readd, ReadPayloadFails, PushRefused, Fails, Crash, history
  <1>5. hash' \subseteq Event
    <2>1. CASE UNCHANGED hash
      BY <2>1 DEF CallInv, FireBounds
    <2>2. CASE /\ pc[p] \in {"unschedule", "readd"}
               /\ RemoveFromRedis(t) \/ AddToRedis(t, poll[p].score, poll[p].every)
      <3>1. t \in Trigger /\ poll[p].score \in Int /\ poll[p].every \in Int /\ RedisTypes
        BY <2>2 DEF IInv, Types, LoopTypes, Locals, Rules, HoldsTrigger
      <3>2. QED
        BY <2>2, <3>1, RedisFired DEF CallInv, FireBounds
    <2>3. QED
      BY <2>1, <2>2
         DEF PollStep, PollFailure, StartPoll, LuaPoll, GetTrigger, Unlist, ReadPayload,
             ErasePayload, PushJob, DeleteAt, Unschedule, Readd, ReadPayloadFails, PushRefused,
           Fails, Crash
  <1>6. \A q \in Process : poll'[q].hand \subseteq 1..MaxFires
    <2>1. PICK l, v : PollMove(p, l, v) /\ v.hand \subseteq 1..MaxFires
      BY PollShape
    <2>2. QED
      BY <2>1 DEF PollMove, IInv, Types, LoopTypes, CallInv, FireBounds
  <1>7. unread' \in [Trigger -> SUBSET (1..MaxFires)]
    <2>1. CASE ErasePayload(p)
      <3>1. t \in Trigger
        BY <2>1 DEF ErasePayload, IInv, Rules, HoldsTrigger
      <3>2. unread' = [unread EXCEPT ![t] = unread[t] \cup (payload[t] \ poll[p].hand)]
        BY <2>1 DEF ErasePayload
      <3>3. QED
        BY <3>1, <3>2 DEF CallInv, FireBounds
    <2>2. CASE UNCHANGED unread
      BY <2>2 DEF CallInv, FireBounds
    <2>3. QED
      BY <2>1, <2>2
         DEF PollStep, PollFailure, StartPoll, LuaPoll, GetTrigger, Unlist, ReadPayload, PushJob,
             DeleteAt, Unschedule, Readd, ReadPayloadFails, PushRefused, Fails, Crash, history
  <1>8. FireBounds'
    BY <1>1, <1>2, <1>3, <1>4, <1>5, <1>6, <1>7 DEF CallInv, FireBounds
  <1>9. QED
    BY <1>1, <1>8 DEF CallInv, FiredCreated

\* The processes that have no call in hand, or the call of another trigger.
LEMMA OtherCalls ==
    ASSUME IInv, CallInv, NEW p \in Process, PollStep(p) \/ PollFailure(p),
           ~crashed', ~erred', NEW u \in Fired \cap docs', NEW f, Safe(u, f),
           pc[p] \notin {"unlist", "payload", "erase", "push"} \/ poll[p].trig # u
    PROVE  Safe(u, f)'
  <1> DEFINE t == poll[p].trig
  <1>1. PICK l, v : PollMove(p, l, v)
    BY PollShape
  <1>2. u \in Trigger /\ RedisTypes /\ LoopTypes
    BY DEF Trigger, IInv, Types
  <1>3. done[u] \subseteq done'[u]
    <2>1. done' = done \/ \E S : done' = [done EXCEPT ![t] = done[t] \cup S]
      BY DEF PollStep, PollFailure, StartPoll, LuaPoll, GetTrigger, Unlist, ReadPayload,
             ErasePayload, PushJob, DeleteAt, Unschedule, Readd, ReadPayloadFails, PushRefused,
             Fails, Crash, history
    <2>2. QED
      BY <1>2, <2>1 DEF CallInv, FireBounds
  <1>4. payload[u] \subseteq payload'[u]
    <2>1. \/ payload' = payload
          \/ pc[p] \in {"payload", "erase"} /\ payload' = [payload EXCEPT ![t] = {}]
      BY DEF PollStep, PollFailure, StartPoll, LuaPoll, GetTrigger, Unlist, ReadPayload,
             ErasePayload, PushJob, DeleteAt, Unschedule, Readd, ReadPayloadFails, PushRefused,
           Fails, Crash
    <2>2. QED
      BY <1>2, <2>1 DEF CallInv, FireBounds
  <1>5. InRedis(u) => InRedis(u)'
    <2>1. CASE UNCHANGED <<waiting, sched>>
      BY <2>1 DEF InRedis
    <2>2. CASE \E w, d : sched' = ZAdd(sched, w, d) /\ (UNCHANGED waiting \/ waiting' = ZRem(waiting, w))
      BY <2>2 DEF InRedis, ZAdd, ZRem
    <2>3. CASE sched' = ZRem(sched, t) /\ UNCHANGED waiting /\ t # u
      BY <2>3 DEF InRedis, ZRem
    <2>4. CASE /\ pc[p] \in {"unschedule", "readd"}
               /\ RemoveFromRedis(t) \/ AddToRedis(t, poll[p].score, poll[p].every)
      <3>1. t \in Trigger /\ poll[p].score \in Int /\ poll[p].every \in Int
        BY <2>4 DEF IInv, Types, LoopTypes, Locals, Rules, HoldsTrigger
      <3>2. QED
        BY <1>2, <2>4, <3>1, RedisFired
    <2>5. CASE LuaPoll(p)
      BY <2>1, <2>2, <2>5 DEF LuaPoll
    <2>6. CASE GetTrigger(p)
      BY <2>1, <2>3, <2>6 DEF GetTrigger, couch
    <2>7. CASE Unlist(p)
      BY <2>3, <2>7 DEF Unlist
    <2>8. CASE PushRefused(p)
      BY <2>3, <2>8, SchedulerAssumption DEF PushRefused
    <2>9. CASE Fails(p)
      BY <2>1, <2>3, <2>4, <2>9 DEF Fails
    <2>10. CASE Unschedule(p) \/ Readd(p)
      BY <2>4, <2>10 DEF Unschedule, Readd
    <2>11. QED
      BY <2>1, <2>5, <2>6, <2>7, <2>8, <2>9, <2>10
         DEF PollStep, PollFailure, StartPoll, ReadPayload, ErasePayload, PushJob, DeleteAt,
             ReadPayloadFails, Crash
  <1>6. Awaits(u) => Awaits(u)'
    BY <1>5, PollBounds DEF Awaits
  <1>7. QED
    BY <1>1, <1>2, <1>3, <1>4, <1>6, SafeMoves DEF PollMove

\* The process that takes the trigger of a call, its payload and its job.
LEMMA OwnCalls ==
    ASSUME IInv, CallInv, NEW p \in Process, PollStep(p) \/ PollFailure(p),
           ~crashed', ~erred', NEW u \in Fired \cap docs',
           NEW f \in Calls(u) \ unread'[u], Safe(u, f),
           pc[p] \in {"unlist", "payload", "erase", "push"}, poll[p].trig = u
    PROVE  Safe(u, f)'
  <1>1. PICK l, v : PollMove(p, l, v)
    BY PollShape
  <1>2. /\ pc'[p] = l /\ poll'[p] = v /\ poll[p] \in Locals
        /\ \A q \in Process : q # p => pc'[q] = pc[q] /\ poll'[q] = poll[q]
    BY <1>1 DEF PollMove, IInv, Types, LoopTypes
  <1>3. Unlist(p) \/ ReadPayload(p) \/ ErasePayload(p) \/ PushJob(p)
    <2>1. u \notin Timed
      BY SchedulerAssumption
    <2>2. ~Fails(p) /\ ~Crash(p) /\ ~ReadPayloadFails(p) /\ ~PushRefused(p)
      BY <2>1 DEF Fails, Crash, ReadPayloadFails, PushRefused
    <2>3. QED
      BY <2>2 DEF PollStep, PollFailure, StartPoll, LuaPoll, GetTrigger, DeleteAt, Unschedule, Readd
  <1>4. u \in Trigger /\ done[u] \subseteq done'[u]
    <2>1. u \in Trigger
      BY DEF Trigger
    <2>2. done' = done \/ \E S : done' = [done EXCEPT ![u] = done[u] \cup S]
      BY <1>3 DEF Unlist, ReadPayload, ErasePayload, PushJob, history
    <2>3. QED
      BY <2>1, <2>2 DEF CallInv, FireBounds
  <1>5. CASE f \in done[u]
    BY <1>4, <1>5 DEF Safe
  <1>6. ASSUME NEW q \in Process, q # p, Handles(q, u), pc[q] \in {"erase", "push"},
               u \in Event \/ f \in poll[q].hand
        PROVE  Safe(u, f)'
    BY <1>2, <1>6 DEF Safe, Handles
  <1>7. CASE Unlist(p)
    <2>1. UNCHANGED <<poll, payload>> /\ l = IF u \in Webhook THEN "payload" ELSE "push"
      BY <1>2, <1>7 DEF Unlist, Goto, IInv, Types, LoopTypes
    <2>2. CASE u \in Event
      <3>1. l = "push" /\ Handles(p, u)'
        BY <2>1, <2>2, SchedulerAssumption DEF Handles
      <3>2. QED
        BY <1>2, <2>2, <3>1 DEF Safe
    <2>3. CASE u \in Webhook /\ f \in payload[u]
      <3>1. l = "payload" /\ Handles(p, u)' /\ f \in payload'[u]
        BY <2>1, <2>3 DEF Handles
      <3>2. QED
        BY <1>2, <3>1 DEF Safe
    <2>4. u \in Event \/ u \in Webhook
      BY DEF Fired
    <2>5. CASE \E q \in Process : /\ Handles(q, u) /\ pc[q] \in {"erase", "push"}
                                  /\ u \in Event \/ f \in poll[q].hand
      BY <1>6, <1>7, <2>5 DEF Unlist
    <2>6. QED
      BY <1>5, <2>2, <2>3, <2>4, <2>5 DEF Safe
  <1>8. CASE ReadPayload(p)
    <2>1. l = "erase" /\ v = [poll[p] EXCEPT !.hand = payload[u]]
      BY <1>2, <1>8 DEF ReadPayload, Goto, IInv, Types, LoopTypes
    <2>2. v.trig = u /\ v.hand = payload[u]
      BY <1>2, <2>1 DEF Locals
    <2>3. CASE u \in Event \/ f \in payload[u]
      BY <1>2, <2>1, <2>2, <2>3 DEF Safe, Handles
    <2>4. CASE \E q \in Process : /\ Handles(q, u) /\ pc[q] \in {"erase", "push"}
                                  /\ u \in Event \/ f \in poll[q].hand
      BY <1>6, <1>8, <2>4 DEF ReadPayload
    <2>5. QED
      BY <1>5, <2>3, <2>4 DEF Safe
  <1>11. CASE ErasePayload(p)
    <2>1. /\ l = "push" /\ v = poll[p]
          /\ f \notin payload[u] \ poll[p].hand
      BY <1>2, <1>4, <1>11 DEF ErasePayload, Goto, IInv, Types, LoopTypes, CallInv, FireBounds
    <2>2. CASE u \in Event \/ f \in poll[p].hand
      BY <1>2, <2>1, <2>2 DEF Safe, Handles
    <2>3. CASE f \in payload[u]
      BY <2>1, <2>2, <2>3
    <2>4. CASE \E q \in Process : /\ Handles(q, u) /\ pc[q] \in {"erase", "push"}
                                  /\ u \in Event \/ f \in poll[q].hand
      BY <1>6, <2>2, <2>4
    <2>5. QED
      BY <1>5, <2>2, <2>3, <2>4 DEF Safe
  <1>9. CASE PushJob(p)
    <2>1. /\ done' = [done EXCEPT ![u] = done[u] \cup IF u \in Event THEN 1..fired[u] ELSE poll[p].hand]
          /\ UNCHANGED <<payload, arming, waiting, sched>> /\ pc[p] = "push"
      BY <1>9 DEF PushJob, firers
    <2>2. CASE u \in Event \/ f \in poll[p].hand
      <3>1. f \in done'[u]
        BY <1>4, <2>1, <2>2 DEF CallInv, FireBounds, Calls
      <3>2. QED
        BY <3>1 DEF Safe
    <2>3. CASE (u \in Event \/ f \in payload[u]) /\ Awaits(u)
      BY <2>1, <2>3 DEF Safe, Awaits, InRedis
    <2>4. ASSUME NEW q \in Process, Handles(q, u), pc[q] \in {"unlist", "payload"},
                 u \in Event \/ f \in payload[u]
          PROVE  Safe(u, f)'
      BY <1>2, <2>1, <2>4 DEF Safe, Handles
    <2>5. CASE \E q \in Process : /\ Handles(q, u) /\ pc[q] \in {"erase", "push"}
                                  /\ u \in Event \/ f \in poll[q].hand
      BY <1>6, <2>2, <2>5
    <2>6. QED
      BY <1>5, <2>2, <2>3, <2>4, <2>5 DEF Safe
  <1>12. QED
    BY <1>3, <1>7, <1>8, <1>9, <1>11

LEMMA PollCalls == ASSUME IInv, CallInv, NEW p \in Process, PollStep(p) \/ PollFailure(p) PROVE CallInv'
  <1>1. FireBounds' /\ FiredCreated' /\ UNCHANGED fired
    BY PollBounds
  <1>2. docs' \subseteq docs /\ (crashed => crashed') /\ (erred => erred')
    <2>1. docs' \subseteq docs
      BY DEF PollStep, PollFailure, StartPoll, LuaPoll, GetTrigger, Unlist, ReadPayload,
             ErasePayload, PushJob, DeleteAt, Unschedule, Readd, ReadPayloadFails, PushRefused,
           Fails, Crash, couch
    <2>2. CASE Fails(p)
      BY <2>1, <2>2 DEF Fails
    <2>3. CASE UNCHANGED <<crashed, erred>>
      BY <2>1, <2>3
    <2>4. CASE ReadPayloadFails(p) \/ Crash(p)
      BY <2>1, <2>4 DEF ReadPayloadFails, Crash
    <2>5. QED
      BY <2>2, <2>3, <2>4
         DEF PollStep, PollFailure, StartPoll, LuaPoll, GetTrigger, Unlist, ReadPayload,
             ErasePayload, PushJob, DeleteAt, Unschedule, Readd, PushRefused, history
  <1>3. CallsSafe'
    <2> SUFFICES ASSUME ~crashed', ~erred', NEW u \in Debounced \cap docs',
                        NEW f \in Calls(u) \ unread'[u]
                 PROVE  Safe(u, f)'
      BY <1>1 DEF CallsSafe, Calls
    <2>1. u \in Fired \cap docs' /\ u \in Trigger
      BY SchedulerAssumption DEF Trigger
    <2>2. unread[u] \subseteq unread'[u]
      <3>1. \/ unread' = unread
            \/ \E t, S : unread' = [unread EXCEPT ![t] = unread[t] \cup S]
        BY DEF PollStep, PollFailure, StartPoll, LuaPoll, GetTrigger, Unlist, ReadPayload,
               ErasePayload, PushJob, DeleteAt, Unschedule, Readd, ReadPayloadFails,
               PushRefused, Fails, Crash, history
      <3>2. QED
        BY <2>1, <3>1 DEF CallInv, FireBounds
    <2>3. Safe(u, f)
      BY <1>2, <2>2 DEF CallInv, CallsSafe
    <2>4. QED
      BY <2>1, <2>3, OtherCalls, OwnCalls
  <1>4. QED
    BY <1>1, <1>3 DEF CallInv

LEMMA TickCalls == ASSUME IInv, CallInv, Tick PROVE CallInv'
  <1>1. /\ UNCHANGED <<docs, rev, hash, payload, firing, arming, pc, fired, done, unread,
                      expected, crashed, erred>>
        /\ DOMAIN waiting' = DOMAIN waiting /\ DOMAIN sched' = DOMAIN sched
    BY DEF Tick, couch, firers, history
  <1>2. ASSUME NEW p \in Process
        PROVE  poll'[p].trig = poll[p].trig /\ poll'[p].hand = poll[p].hand
    <2>1. poll[p] \in Locals
      BY DEF IInv, Types, LoopTypes
    <2>2. poll'[p] = poll[p] \/ \E n, d : poll'[p] = [poll[p] EXCEPT !.now = n, !.score = d]
      BY DEF Tick
    <2>3. QED
      BY <2>1, <2>2 DEF Locals
  <1>3. FireBounds'
    BY <1>1, <1>2 DEF CallInv, FireBounds
  <1>4. FiredCreated'
    BY <1>1 DEF CallInv, FiredCreated
  <1>5. CallsSafe'
    <2> SUFFICES ASSUME ~crashed, ~erred, NEW u \in Debounced \cap docs,
                        NEW f \in Calls(u) \ unread[u]
                 PROVE  Safe(u, f)'
      BY <1>1 DEF CallsSafe, Calls
    <2>1. Safe(u, f) /\ u \in Fired /\ (Awaits(u) => Awaits(u)')
      BY <1>1, SchedulerAssumption DEF CallInv, CallsSafe, Awaits, InRedis
    <2>2. QED
      BY <1>1, <1>2, <2>1, SafeStays
  <1>6. QED
    BY <1>3, <1>4, <1>5 DEF CallInv

LEMMA InitCalls == ASSUME Init PROVE CallInv
  <1>1. FireBounds
    <2>1. 0 \in 0..MaxRev /\ 0 \in 0..MaxFires
      BY SchedulerAssumption
    <2>2. \A p \in Process : poll[p].hand = {}
      BY DEF Init, NoPoll
    <2>3. QED
      BY <2>1, <2>2 DEF Init, FireBounds
  <1>2. FiredCreated /\ CallsSafe
    BY DEF Init, FiredCreated, CallsSafe, Calls
  <1>3. QED
    BY <1>1, <1>2 DEF CallInv

LEMMA StutterCalls == ASSUME CallInv, UNCHANGED vars PROVE CallInv'
  <1>1. FireBounds' /\ FiredCreated'
    BY DEF vars, CallInv, FireBounds, FiredCreated
  <1>2. CallsSafe'
    BY DEF vars, CallInv, CallsSafe, Calls, Safe, Handles, Awaits, InRedis
  <1>3. QED
    BY <1>1, <1>2 DEF CallInv

\* The two invariants together: the calls rely on what IInv says of the polls.
THEOREM CallInvariance == Spec => []CallInv
  <1>1. IInv /\ CallInv /\ [Next]_vars => CallInv'
    BY ApiCalls, FireCalls, PollCalls, TickCalls, StutterCalls DEF Next
  <1>2. Init => CallInv
    BY InitCalls
  <1>3. QED
    BY <1>1, <1>2, Invariance, PTL DEF Spec

\* CouchDB, redis, the requests and the poll loops always have values of their
\* types, and no trigger has more calls or revisions than the bounds.
THEOREM TypeCorrect == Spec => []TypeOK
  <1>1. IInv /\ CallInv => TypeOK
    <2> SUFFICES ASSUME IInv, CallInv PROVE TypeOK
      OBVIOUS
    <2>1. /\ DOMAIN waiting \subseteq Trigger /\ waiting \in [DOMAIN waiting -> Int]
          /\ DOMAIN sched \subseteq Trigger /\ sched \in [DOMAIN sched -> Int]
      BY DEF IInv, Types, RedisTypes, ZSet
    <2>2. poll \in [Process -> [now: Int, trig: Trigger \cup {NoTrigger}, score: Int,
                                rev: Int, every: Int, hand: SUBSET (1..MaxFires)]]
      BY DEF IInv, Types, LoopTypes, Locals, CallInv, FireBounds
    <2>3. QED
      BY <2>1, <2>2 DEF IInv, Types, StoreTypes, LoopTypes, Labels, Requests, CallInv, FireBounds, TypeOK
  <1>2. QED
    BY <1>1, Invariance, CallInvariance, PTL

\* The debounce loses no event and no payload of a webhook call, however the calls
\* and the polls of the processes interleave, command by command, except the
\* payloads that come between LRANGE and DEL of a poll, unless a process dies or a
\* command fails after the payload is in the list or the trigger left `scheduling`.
THEOREM CallsNotLost == Spec => []CallsCovered
  <1>1. CallInv => CallsCovered
    BY DEF CallInv, CallsSafe, CallsCovered, Safe, Covered, Takeable, Awaits, InRedis
  <1>2. QED
    BY <1>1, CallInvariance, PTL
=============================================================================
