--------------------------- MODULE RedisScheduler ---------------------------
(***************************************************************************)
(* The scheduler shared by several cozy-stack processes                    *)
(* (model/job/redis_scheduler.go), for a set of triggers.                  *)
(*                                                                         *)
(* A trigger is a CouchDB document and, when it waits for a date, a member *)
(* of the redis sorted set `triggers`, moved to `scheduling` while a       *)
(* process handles it.  Every process polls these sets in a loop of steps  *)
(* (luaPoll, load the document, push a job, reschedule or delete), the API *)
(* adds, updates and deletes triggers in two steps (CouchDB, then redis),  *)
(* and realtime events and webhook calls are debounced through the same    *)
(* sets.  One step is one command or script sent to redis or CouchDB.      *)
(*                                                                         *)
(* A pipeline is not a transaction: commands of other clients may come     *)
(* between its own.  The two pipelines on the payloads of a webhook, of    *)
(* fire and of PollScheduler, are made command by command.  The pipelines  *)
(* on the sorted sets (addToRedis, UpdateCron, deleteTrigger) are one step:*)
(* this is an ASSUMPTION of the module, which redis most often makes true  *)
(* as they are short, but does not promise.                                *)
(*                                                                         *)
(* All dates are relative to the present, and below Floor they are alike   *)
(* for every comparison the code makes, so time is not bounded.            *)
(***************************************************************************)
EXTENDS Integers, FiniteSets

CONSTANTS
    Process,              \* the cozy-stack processes
    At, Cron,             \* @at and @in triggers; @cron, @every, @daily...
    Event, Webhook,       \* @event and @webhook triggers
    Debounced,            \* those of the last two that have a debounce
    NoTrigger,
    Retry,                \* the 10 seconds of luaPoll, in ticks
    MaxStall,             \* bound: ticks that one PollScheduler call may last
    AtDelays,             \* delays before the date of an @at trigger
    Periods,              \* delays between the executions of a cron trigger
    Debounce,             \* the debounce delay
    MaxTriggers,          \* bound: triggers ever created
    MaxRev,               \* bound: revisions of a trigger document
    MaxFires              \* bound: events or webhook calls for a trigger

Timed == At \cup Cron
Fired == Event \cup Webhook
Trigger == Timed \cup Fired
Floor == -(MaxStall + Retry)

ASSUME SchedulerAssumption ==
    /\ At \cap Cron = {} /\ Timed \cap Fired = {} /\ Event \cap Webhook = {}
    /\ Debounced \subseteq Fired
    /\ NoTrigger \notin Trigger
    /\ Retry \in Nat \ {0} /\ MaxStall \in Nat /\ Debounce \in Nat
    /\ MaxTriggers \in Nat /\ MaxRev \in Nat \ {0} /\ MaxFires \in Nat
    /\ AtDelays \subseteq Int /\ \A d \in AtDelays : d >= Floor
    /\ Periods \subseteq 1..(MaxStall + Retry - 1) /\ Periods # {}

VARIABLES
    docs,      \* the triggers whose document exists in CouchDB
    rev,       \* revision of each document, 0 before its creation
    every,     \* period in the arguments of each cron trigger
    waiting,   \* the sorted set `triggers`: member -> date
    sched,     \* the sorted set `scheduling`: member -> date
    hash,      \* members of the `events-` hashes
    payload,   \* the `payload-` list of each webhook, as a set of calls
    api,       \* API requests done in CouchDB but not yet in redis
    firing,    \* fired triggers whose document has been loaded by the firer
    arming,    \* calls whose payload is in the list, with ZADD NX still to come
    pc,        \* what the poll loop of each process does next
    poll,      \* its local variables
    fired,     \* history: number of calls of each trigger
    done,      \* history: the calls followed by a job
    unread,    \* history: the calls deleted from the list by a poll that had not
               \* read them
    expected,  \* history: the triggers that redis was told and not denied
    crashed,   \* history: a process died while it polled
    erred      \* history: the pipeline of a call failed halfway, or a command after a
               \* debounced trigger was taken

vars == <<docs, rev, every, waiting, sched, hash, payload, api, firing, arming, pc, poll,
          fired, done, unread, expected, crashed, erred>>
couch == <<docs, rev, every>>
firers == <<firing, arming>>
history == <<fired, done, unread, expected, crashed, erred>>

NoPoll == [now |-> 0, trig |-> NoTrigger, score |-> 0, rev |-> 0, every |-> 0,
           hand |-> {}]
Earlier(x) == IF x > Floor THEN x - 1 ELSE Floor

Init ==
    /\ docs = {}
    /\ rev = [t \in Trigger |-> 0]
    /\ every \in [Trigger -> Periods]
    /\ waiting = [t \in {} |-> 0] /\ sched = [t \in {} |-> 0]
    /\ hash = {} /\ payload = [t \in Trigger |-> {}]
    /\ api = [t \in Trigger |-> {}]
    /\ firing = {} /\ arming = [t \in Trigger |-> {}]
    /\ pc = [p \in Process |-> "idle"]
    /\ poll = [p \in Process |-> NoPoll]
    /\ fired = [t \in Trigger |-> 0] /\ done = [t \in Trigger |-> {}]
    /\ unread = [t \in Trigger |-> {}]
    /\ expected = {}
    /\ crashed = FALSE /\ erred = FALSE

-----------------------------------------------------------------------------
(* Sorted sets of redis.                                                   *)

ZAdd(z, t, d) == [u \in DOMAIN z \cup {t} |-> IF u = t THEN d ELSE z[u]]
ZAddNX(z, t, d) == IF t \in DOMAIN z THEN z ELSE ZAdd(z, t, d)
ZRem(z, t) == [u \in DOMAIN z \ {t} |-> z[u]]

\* ZRANGEBYSCORE z 0 max LIMIT 0 1: a member with the least score, up to max.
First(z, max) ==
    {t \in DOMAIN z : z[t] <= max /\ \A u \in DOMAIN z : z[t] <= z[u]}

\* The next date of a cron trigger, from its previous one.
NextExecution(e, prev) == IF prev + e < 0 THEN e ELSE prev + e

\* addToRedis, for a trigger loaded with period e.
AddToRedis(t, prev, e) ==
    \/ /\ t \in At
       /\ \E d \in AtDelays : waiting' = ZAdd(waiting, t, d)
       /\ sched' = ZRem(sched, t) /\ UNCHANGED hash
    \/ /\ t \in Cron
       /\ waiting' = ZAdd(waiting, t, NextExecution(e, prev))
       /\ sched' = ZRem(sched, t) /\ UNCHANGED hash
    \/ t \in Event /\ hash' = hash \cup {t} /\ UNCHANGED <<waiting, sched>>
    \/ t \in Webhook /\ UNCHANGED <<waiting, sched, hash>>

\* The redis half of deleteTrigger.
RemoveFromRedis(t) ==
    \/ /\ t \in Timed
       /\ waiting' = ZRem(waiting, t) /\ sched' = ZRem(sched, t) /\ UNCHANGED hash
    \/ t \in Event /\ hash' = hash \ {t} /\ UNCHANGED <<waiting, sched>>
    \/ t \in Webhook /\ UNCHANGED <<waiting, sched, hash>>

-----------------------------------------------------------------------------
(* The API: each request is a step in CouchDB, then one in redis.          *)

Pending(t, op, e) == api' = [api EXCEPT ![t] = @ \cup {[op |-> op, every |-> e]}]
Served(t, r) == r \in api[t] /\ api' = [api EXCEPT ![t] = @ \ {r}]

\* AddTrigger: createTrigger.
CreateTrigger(t) ==
    /\ rev[t] = 0 /\ Cardinality({u \in Trigger : rev[u] > 0}) < MaxTriggers
    /\ docs' = docs \cup {t}
    /\ rev' = [rev EXCEPT ![t] = 1]
    /\ Pending(t, "add", every[t])
    /\ UNCHANGED <<every, waiting, sched, hash, payload, firers, pc, poll, history>>

\* DeleteTrigger: the document is deleted first.
DeleteDoc(t) ==
    /\ t \in docs
    /\ docs' = docs \ {t}
    /\ Pending(t, "delete", every[t])
    /\ UNCHANGED <<rev, every, waiting, sched, hash, payload, firers, pc, poll, history>>

\* UpdateCron: the document gets its new period.
UpdateCronDoc(t) ==
    /\ t \in docs \cap Cron /\ rev[t] < MaxRev
    /\ rev' = [rev EXCEPT ![t] = @ + 1]
    /\ \E e \in Periods : every' = [every EXCEPT ![t] = e] /\ Pending(t, "update", e)
    /\ UNCHANGED <<docs, waiting, sched, hash, payload, firers, pc, poll, history>>

\* UpdateMessage only writes the document, which gets a new revision: the polls
\* compare it for timed triggers only.
UpdateMessage(t) ==
    /\ t \in docs \cap Timed /\ rev[t] < MaxRev
    /\ rev' = [rev EXCEPT ![t] = @ + 1]
    /\ UNCHANGED <<docs, every, waiting, sched, hash, payload, api, firers, pc, poll, history>>

\* RebuildRedis has read the document.
RebuildRead(t) ==
    /\ t \in docs
    /\ Pending(t, "rebuild", every[t])
    /\ UNCHANGED <<couch, waiting, sched, hash, payload, firers, pc, poll, history>>

\* The redis half of AddTrigger and RebuildRedis.
AddInRedis(t) ==
    /\ \E r \in api[t] :
         r.op \in {"add", "rebuild"} /\ Served(t, r) /\ AddToRedis(t, 0, r.every)
    /\ expected' = expected \cup {t}
    /\ UNCHANGED <<couch, payload, firers, pc, poll, fired, done, unread, crashed, erred>>

DeleteInRedis(t) ==
    /\ \E r \in api[t] : r.op = "delete" /\ Served(t, r)
    /\ RemoveFromRedis(t)
    /\ UNCHANGED <<couch, payload, firers, pc, poll, history>>

UpdateInRedis(t) ==
    /\ \E r \in api[t] :
         r.op = "update" /\ Served(t, r) /\ waiting' = ZAdd(waiting, t, r.every)
    /\ sched' = ZRem(sched, t)
    /\ expected' = expected \cup {t}
    /\ UNCHANGED <<couch, hash, payload, firers, pc, poll, fired, done, unread, crashed, erred>>

\* The process of the request dies, or redis refuses its command.
RequestLost(t) ==
    /\ \E r \in api[t] : Served(t, r)
    /\ UNCHANGED <<couch, waiting, sched, hash, payload, firers, pc, poll, history>>

-----------------------------------------------------------------------------
(* Events and webhooks.                                                    *)

\* eventLoop found the trigger in the hash, or the handler of the webhook
\* loaded it.
Match(t) ==
    /\ t \in docs \cap Fired /\ (t \in Event => t \in hash)
    /\ fired[t] < MaxFires
    /\ firing' = firing \cup {t}
    /\ UNCHANGED <<couch, waiting, sched, hash, payload, api, arming, pc, poll, history>>

\* fire, and the end of eventLoop: push a job now; or schedule the trigger unless
\* it already is, which for a webhook comes after RPUSH of its payload (Arm).
Fire(t) ==
    /\ t \in firing /\ firing' = firing \ {t}
    /\ fired' = [fired EXCEPT ![t] = @ + 1]
    /\ \/ /\ t \notin Debounced
          /\ done' = [done EXCEPT ![t] = @ \cup {fired'[t]}]
          /\ UNCHANGED <<waiting, payload, arming>>
       \/ /\ t \in Debounced \cap Event
          /\ waiting' = ZAddNX(waiting, t, Debounce)
          /\ UNCHANGED <<payload, arming, done>>
       \/ /\ t \in Debounced \cap Webhook
          /\ payload' = [payload EXCEPT ![t] = @ \cup {fired'[t]}]
          /\ arming' = [arming EXCEPT ![t] = @ \cup {fired'[t]}]
          /\ UNCHANGED <<waiting, done>>
    /\ UNCHANGED <<couch, sched, hash, api, pc, poll, unread, expected, crashed, erred>>

\* The job is refused, or redis fails: the call is only logged.  The ZADD NX may
\* have been executed.
FireFails(t) ==
    /\ t \in firing /\ firing' = firing \ {t}
    /\ \/ UNCHANGED <<waiting, erred>>
       \/ t \in Debounced /\ waiting' = ZAddNX(waiting, t, Debounce) /\ erred' = TRUE
    /\ UNCHANGED <<couch, sched, hash, payload, api, arming, pc, poll,
                   fired, done, unread, expected, crashed>>

\* The second command of the pipeline of fire, for the call f.
Arm(t) ==
    /\ \E f \in arming[t] : arming' = [arming EXCEPT ![t] = @ \ {f}]
    /\ waiting' = ZAddNX(waiting, t, Debounce)
    /\ UNCHANGED <<couch, sched, hash, payload, api, firing, pc, poll, history>>

\* It fails, or the process dies: the payload stays in the list, with no date.
ArmFails(t) ==
    /\ \E f \in arming[t] : arming' = [arming EXCEPT ![t] = @ \ {f}]
    /\ erred' = TRUE
    /\ UNCHANGED <<couch, waiting, sched, hash, payload, api, firing, pc, poll,
                   fired, done, unread, expected, crashed>>

-----------------------------------------------------------------------------
(* PollScheduler.                                                          *)

Goto(p, l) == pc' = [pc EXCEPT ![p] = l]
Return(p) == Goto(p, "idle") /\ poll' = [poll EXCEPT ![p] = NoPoll]
Loop(p) == Goto(p, "poll") /\ poll' = [poll EXCEPT ![p] = [NoPoll EXCEPT !.now = poll[p].now]]

\* The ticker of pollLoop.
StartPoll(p) ==
    /\ pc[p] = "idle"
    /\ Goto(p, "poll") /\ UNCHANGED poll
    /\ UNCHANGED <<couch, waiting, sched, hash, payload, api, firers, history>>

\* Mutant of Takes: the two results of the script are swapped.
TakesSwapped(p, t, score) ==
    /\ Goto(p, "fetch")
    /\ poll' = [poll EXCEPT ![p] = [@ EXCEPT !.trig = score, !.score = t]]

Takes(p, t, score) ==
    /\ Goto(p, "fetch")
    /\ poll' = [poll EXCEPT ![p] = [@ EXCEPT !.trig = t, !.score = score]]

\* Mutant of LuaPoll: a due trigger leaves `triggers` without joining `scheduling`.
LuaPollForgets(p) ==
    LET now == poll[p].now
        late == First(sched, now - Retry)
        due == First(waiting, now)
    IN
    /\ pc[p] = "poll"
    /\ \/ \E t \in late :
            Takes(p, t, sched[t]) /\ sched' = ZAdd(sched, t, now) /\ UNCHANGED waiting
       \/ /\ late = {}
          /\ \E t \in due :
               Takes(p, t, waiting[t]) /\ waiting' = ZRem(waiting, t) /\ UNCHANGED sched
       \/ late = {} /\ due = {} /\ Return(p) /\ UNCHANGED <<waiting, sched>>
    /\ UNCHANGED <<couch, hash, payload, api, firers, history>>

\* Mutant of LuaPoll: the script never looks at `scheduling`.
LuaPollNoRetry(p) ==
    LET due == First(waiting, poll[p].now) IN
    /\ pc[p] = "poll"
    /\ \/ \E t \in due :
            /\ Takes(p, t, waiting[t])
            /\ waiting' = ZRem(waiting, t)
            /\ sched' = ZAdd(sched, t, waiting[t])
       \/ due = {} /\ Return(p) /\ UNCHANGED <<waiting, sched>>
    /\ UNCHANGED <<couch, hash, payload, api, firers, history>>

\* The script retries a trigger of `scheduling` before it takes a new one.
LuaPoll(p) ==
    LET now == poll[p].now
        late == First(sched, now - Retry)
        due == First(waiting, now)
    IN
    /\ pc[p] = "poll"
    /\ \/ \E t \in late :
            Takes(p, t, sched[t]) /\ sched' = ZAdd(sched, t, now) /\ UNCHANGED waiting
       \/ /\ late = {}
          /\ \E t \in due :
               /\ Takes(p, t, waiting[t])
               /\ waiting' = ZRem(waiting, t)
               /\ sched' = ZAdd(sched, t, waiting[t])
       \/ late = {} /\ due = {} /\ Return(p) /\ UNCHANGED <<waiting, sched>>
    /\ UNCHANGED <<couch, hash, payload, api, firers, history>>

\* Mutant of GetTrigger: not found is an error like another.
GetTriggerKeeps(p) ==
    LET t == poll[p].trig IN
    /\ pc[p] = "fetch"
    /\ \/ t \notin docs /\ Return(p)
       \/ /\ t \in docs
          /\ Goto(p, IF t \in Fired THEN "unlist" ELSE "push")
          /\ poll' = [poll EXCEPT ![p] = [@ EXCEPT !.rev = rev[t], !.every = every[t]]]
    /\ UNCHANGED <<couch, waiting, sched, hash, payload, api, firers, history>>

\* GetTrigger: a trigger without document is forgotten.
GetTrigger(p) ==
    LET t == poll[p].trig IN
    /\ pc[p] = "fetch"
    /\ \/ /\ t \notin docs
          /\ sched' = ZRem(sched, t) /\ Return(p)
       \/ /\ t \in docs
          /\ Goto(p, IF t \in Fired THEN "unlist" ELSE "push")
          /\ poll' = [poll EXCEPT ![p] = [@ EXCEPT !.rev = rev[t], !.every = every[t]]]
          /\ UNCHANGED sched
    /\ UNCHANGED <<couch, waiting, hash, payload, api, firers, history>>

\* A debounced trigger leaves `scheduling` before its job is pushed.
Unlist(p) ==
    /\ pc[p] = "unlist"
    /\ sched' = ZRem(sched, poll[p].trig)
    /\ Goto(p, IF poll[p].trig \in Webhook THEN "payload" ELSE "push")
    /\ UNCHANGED <<couch, waiting, hash, payload, api, firers, poll, history>>

\* Mutant of ReadPayload: the list is deleted, then read.
ReadPayloadDeleted(p) ==
    /\ pc[p] = "payload"
    /\ payload' = [payload EXCEPT ![poll[p].trig] = {}]
    /\ Goto(p, "erase")
    /\ UNCHANGED <<couch, waiting, sched, hash, api, firers, poll, history>>

\* LRANGE of the payloads.
ReadPayload(p) ==
    /\ pc[p] = "payload"
    /\ poll' = [poll EXCEPT ![p] = [@ EXCEPT !.hand = payload[poll[p].trig]]]
    /\ Goto(p, "erase")
    /\ UNCHANGED <<couch, waiting, sched, hash, payload, api, firers, history>>

\* DEL of the payloads, those that came after LRANGE included.
ErasePayload(p) ==
    LET t == poll[p].trig IN
    /\ pc[p] = "erase"
    /\ payload' = [payload EXCEPT ![t] = {}]
    /\ unread' = [unread EXCEPT ![t] = @ \cup (payload[t] \ poll[p].hand)]
    /\ Goto(p, "push")
    /\ UNCHANGED <<couch, waiting, sched, hash, api, firers, poll, fired, done, expected,
                   crashed, erred>>

\* One of the two commands fails, executed or not: the job goes without payloads.
ReadPayloadFails(p) ==
    /\ pc[p] \in {"payload", "erase"}
    /\ payload' \in {payload, [payload EXCEPT ![poll[p].trig] = {}]}
    /\ poll' = [poll EXCEPT ![p] = [@ EXCEPT !.hand = {}]]
    /\ Goto(p, "push")
    /\ erred' = TRUE
    /\ UNCHANGED <<couch, waiting, sched, hash, api, firers, fired, done, unread,
                   expected, crashed>>

\* The broker accepts the job.
PushJob(p) ==
    LET t == poll[p].trig IN
    /\ pc[p] = "push"
    /\ done' = [done EXCEPT ![t] = @ \cup IF t \in Event THEN 1..fired[t] ELSE poll[p].hand]
    /\ \/ t \in Fired /\ Loop(p)
       \/ t \in At /\ Goto(p, "delete") /\ UNCHANGED poll
       \/ t \in Cron /\ Goto(p, "readd") /\ UNCHANGED poll
    /\ UNCHANGED <<couch, waiting, sched, hash, payload, api, firers, fired, unread,
                   expected, crashed, erred>>

\* The broker refuses it for good (limits; unknown worker, for a cron), and a
\* timed trigger is removed from redis.
PushRefused(p) ==
    LET t == poll[p].trig IN
    /\ pc[p] = "push" /\ t \in Timed
    /\ sched' = ZRem(sched, t)
    /\ expected' = expected \ {t}
    /\ IF t \in Cron THEN Loop(p) ELSE Return(p)
    /\ UNCHANGED <<couch, waiting, hash, payload, api, firers, fired, done, unread,
                   crashed, erred>>

\* @at: the document is deleted with the revision that was loaded.
DeleteAt(p) ==
    LET t == poll[p].trig IN
    /\ pc[p] = "delete"
    /\ \/ /\ t \in docs /\ rev[t] = poll[p].rev
          /\ docs' = docs \ {t}
          /\ Goto(p, "unschedule") /\ UNCHANGED poll
       \/ /\ t \notin docs \/ rev[t] # poll[p].rev   \* not found, or conflict
          /\ Return(p) /\ UNCHANGED docs
    /\ UNCHANGED <<rev, every, waiting, sched, hash, payload, api, firers, history>>

Unschedule(p) ==
    /\ pc[p] = "unschedule"
    /\ RemoveFromRedis(poll[p].trig)
    /\ Loop(p)
    /\ UNCHANGED <<couch, payload, api, firers, history>>

\* Cron: back to `triggers`, from the date that was polled.
Readd(p) ==
    /\ pc[p] = "readd"
    /\ AddToRedis(poll[p].trig, poll[p].score, poll[p].every)
    /\ Loop(p)
    /\ UNCHANGED <<couch, payload, api, firers, history>>

\* Redis, CouchDB or the broker fails, and PollScheduler returns the error;
\* the command that failed may have been executed or not.
Fails(p) ==
    LET t == poll[p].trig IN
    /\ pc[p] \in {"fetch", "unlist", "push", "delete", "unschedule", "readd"}
    /\ \/ UNCHANGED <<docs, waiting, sched, hash>>
       \/ pc[p] = "unlist" /\ sched' = ZRem(sched, t) /\ UNCHANGED <<docs, waiting, hash>>
       \/ pc[p] = "delete" /\ docs' = docs \ {t} /\ UNCHANGED <<waiting, sched, hash>>
       \/ pc[p] = "unschedule" /\ RemoveFromRedis(t) /\ UNCHANGED docs
       \/ pc[p] = "readd" /\ AddToRedis(t, poll[p].score, poll[p].every) /\ UNCHANGED docs
    /\ erred' = (erred \/ (pc[p] \in {"unlist", "push"} /\ t \in Fired))
    /\ Return(p)
    /\ UNCHANGED <<rev, every, payload, api, firers, fired, done, unread, expected, crashed>>

Crash(p) ==
    /\ pc[p] # "idle"
    /\ Return(p)
    /\ crashed' = TRUE
    /\ UNCHANGED <<couch, waiting, sched, hash, payload, api, firers, fired, done, unread,
                   expected, erred>>

Tick ==
    /\ \A p \in Process : pc[p] # "idle" => poll[p].now > -MaxStall
    /\ waiting' = [t \in DOMAIN waiting |-> Earlier(waiting[t])]
    /\ sched' = [t \in DOMAIN sched |-> Earlier(sched[t])]
    /\ poll' = [p \in Process |->
                  IF pc[p] = "idle" THEN poll[p]
                  ELSE [poll[p] EXCEPT !.now = @ - 1,
                                       !.score = IF poll[p].trig = NoTrigger THEN 0
                                                 ELSE Earlier(@)]]
    /\ UNCHANGED <<couch, hash, payload, api, firers, pc, history>>

-----------------------------------------------------------------------------
ApiStep(t) ==
    \/ CreateTrigger(t) \/ DeleteDoc(t) \/ UpdateCronDoc(t) \/ UpdateMessage(t)
    \/ RebuildRead(t) \/ AddInRedis(t) \/ DeleteInRedis(t) \/ UpdateInRedis(t)
    \/ RequestLost(t)

FireStep(t) == Match(t) \/ Fire(t) \/ FireFails(t) \/ Arm(t) \/ ArmFails(t)

PollStep(p) ==
    \/ StartPoll(p) \/ LuaPoll(p) \/ GetTrigger(p) \/ Unlist(p) \/ ReadPayload(p)
    \/ ErasePayload(p) \/ PushJob(p) \/ DeleteAt(p) \/ Unschedule(p) \/ Readd(p)

PollFailure(p) == ReadPayloadFails(p) \/ PushRefused(p) \/ Fails(p) \/ Crash(p)

Next ==
    \/ \E t \in Trigger : ApiStep(t) \/ FireStep(t)
    \/ \E p \in Process : PollStep(p) \/ PollFailure(p)
    \/ Tick

(* Processes keep polling and clocks advance.  Crashes and failures of     *)
(* redis, CouchDB and the broker do not strike a poll, a load or a push    *)
(* for ever, nor all the other steps of a process together.  The redis keys*)
(* are rebuilt by hand (cmd/fix.go) or after a move, not always.          *)
Fairness ==
    /\ WF_vars(Tick)
    /\ <>[][\A t \in Trigger : ~RebuildRead(t)]_vars
    /\ \A p \in Process :
        /\ WF_vars(StartPoll(p)) /\ SF_vars(LuaPoll(p)) /\ SF_vars(GetTrigger(p))
        /\ SF_vars(PushJob(p))
        /\ SF_vars(\/ Unlist(p) \/ ReadPayload(p) \/ ErasePayload(p)
                   \/ DeleteAt(p) \/ Unschedule(p) \/ Readd(p))

Spec == Init /\ [][Next]_vars
FairSpec == Spec /\ Fairness

-----------------------------------------------------------------------------
(* Properties.                                                             *)

\* Type correctness of CouchDB, redis, the requests and the poll loops.
TypeOK ==
    /\ docs \subseteq Trigger
    /\ rev \in [Trigger -> 0..MaxRev]
    /\ every \in [Trigger -> Periods]
    /\ DOMAIN waiting \subseteq Trigger /\ waiting \in [DOMAIN waiting -> Int]
    /\ DOMAIN sched \subseteq Trigger /\ sched \in [DOMAIN sched -> Int]
    /\ hash \subseteq Event
    /\ payload \in [Trigger -> SUBSET (1..MaxFires)]
    /\ api \in [Trigger -> SUBSET [op: {"add", "rebuild", "delete", "update"}, every: Periods]]
    /\ firing \subseteq Fired
    /\ arming \in [Trigger -> SUBSET (1..MaxFires)]
    /\ pc \in [Process -> {"idle", "poll", "fetch", "unlist", "payload", "erase", "push",
                           "delete", "unschedule", "readd"}]
    /\ poll \in [Process -> [now: Int, trig: Trigger \cup {NoTrigger}, score: Int,
                             rev: Int, every: Int, hand: SUBSET (1..MaxFires)]]
    /\ fired \in [Trigger -> 0..MaxFires] /\ done \in [Trigger -> SUBSET (1..MaxFires)]
    /\ unread \in [Trigger -> SUBSET (1..MaxFires)]
    /\ expected \subseteq Trigger
    /\ crashed \in BOOLEAN /\ erred \in BOOLEAN

\* An @at or cron trigger that redis was told of, and whose document exists, is
\* in one of the two sorted sets at every moment: whatever crashes or fails
\* while it is polled, rescheduled, updated or rebuilt, `this trigger won't be
\* lost` (docs/jobs.md, Multi-stack).  It is stated under the assumption that the
\* pipelines on the sorted sets are not cut: UpdateCron takes the trigger out of
\* both before it puts it back.
TimedNotLost ==
    \A t \in Timed \cap expected \cap docs : t \in DOMAIN waiting \cup DOMAIN sched

\* Something has the trigger, and will look at its payloads.
Handles(p, t) == poll[p].trig = t
Takeable(t) ==
    \/ t \in DOMAIN waiting \cup DOMAIN sched
    \/ arming[t] # {}
    \/ \E p \in Process : Handles(p, t) /\ pc[p] \in {"fetch", "unlist", "payload"}

\* The call f of a debounced trigger is behind a job, or on its way to one.
Covered(t, f) ==
    \/ f \in done[t]
    \/ \E p \in Process : /\ Handles(p, t) /\ pc[p] \in {"erase", "push"}
                          /\ t \in Event \/ f \in poll[p].hand
    \/ Takeable(t) /\ (t \in Event \/ f \in payload[t])

Calls(t) == 1..fired[t]

\* The debounce loses no event, and no payload of a webhook call but those that
\* come between LRANGE and DEL of a poll, however calls, polls and retries of
\* several processes interleave, when nothing fails after the payload is in the
\* list or the trigger has left `scheduling`.
CallsCovered ==
    ~crashed /\ ~erred =>
        \A t \in Debounced \cap docs : \A f \in Calls(t) \ unread[t] : Covered(t, f)

\* docs/jobs.md, Multi-stack: `even if a stack crash during processing a
\* trigger, this trigger won't be lost`, for debounced triggers too.
CrashLosesNoCall ==
    ~erred => \A t \in Debounced \cap docs : \A f \in Calls(t) \ unread[t] : Covered(t, f)

\* The date of a trigger without a document (a deletion that raced with a poll, a
\* call or an update, or was cut by a crash) does not stay in the sorted sets.
OrphanDate(t) == rev[t] > 0 /\ t \notin docs /\ t \in DOMAIN waiting \cup DOMAIN sched
OrphanDatesCleaned == \A t \in Trigger : OrphanDate(t) ~> ~OrphanDate(t)

\* A job of the trigger has just been pushed, and its effects are not yet done.
JustPushed(t) == \E p \in Process : Handles(p, t) /\ pc[p] \in {"delete", "readd"}

\* A timed trigger runs, again and again for a cron, until it is deleted or
\* its job is refused for good.
TimedRuns ==
    \A t \in Timed :
        t \in docs \cap expected ~> JustPushed(t) \/ t \notin docs \cap expected
=============================================================================
