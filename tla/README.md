# A formal model of cozy-stack

cozy-stack is the server of the Cozy personal cloud. One deployment is a set of
identical processes that share CouchDB (the documents), redis (locks, queues,
schedules) and an object storage. A process without redis runs alone
("monolithic") and keeps the same things in memory. This directory has TLA+
models of the parts of the stack in which the processes, their goroutines, the
clock and their failures meet: the **locks**, the **scheduler of triggers**, the
**brokers of jobs**, the **worker pools**, the **purge of jobs**, the
**replication of shared documents** between instances, and the **virtual file
system**.

- [Inventory](#inventory)
- [Plan](#plan)
- [The modules](#the-modules)
- [Runs](#runs)
- [Fairness](#fairness)
- [Proofs](#proofs)
- [What disagrees with the code's own words](#what-disagrees-with-the-codes-own-words)
- [What is not modelled](#what-is-not-modelled)

## Inventory

| component | state | operations | what makes it correct |
|---|---|---|---|
| locks (`pkg/lock`) | per process and name: `readers`, `token`; in redis: a key with a value and an expiration | Lock, RLock, Unlock, RUnlock; the renewal ticker of LongOperation | one writer or readers only; an owner whose lease expired never harms the next one; nobody waits for ever |
| redis scheduler (`model/job/redis_scheduler.go`) | trigger documents; sorted sets `triggers` and `scheduling`; `events-` hashes; `payload-` lists | AddTrigger, DeleteTrigger, UpdateCron, UpdateMessage, RebuildRedis; eventLoop, fire; PollScheduler | a trigger is not lost and is executed; debounced calls end up in jobs; no date stays without its trigger |
| redis broker (`model/job/redis_broker.go`) | two redis lists for each worker type; a poll loop for each type and process | PushJob, pollLoop, ShutdownWorkers | a job goes to one process, is not lost, is not starved; shutdown is orderly and ends |
| in-memory broker (`model/job/mem_broker.go`) | a list, a flag and a `send` goroutine for each worker type | Enqueue, send, close, ShutdownWorkers | no lost wake-up, one sender |
| worker pools (`model/job/worker.go`) | goroutines, channels, slots, retries; job documents | work, runTask, task.run, exec, Shutdown | bounded executions, conserved slots, final states stay, every task can be cancelled and ends |
| jobs API (`web/jobs/jobs.go`) | job documents | purgeJobs, cleanJobs | lists are complete under concurrent writes, the purge spares what it must |
| in-memory scheduler (`model/job/mem_scheduler.go`, `trigger_*.go`) | a goroutine and a channel for each trigger | Schedule, Unschedule, Fire | no deadlock between firing and unscheduling |
| realtime hub (`pkg/realtime`) | topics, subscribers, channels; redis pub/sub | Publish, Subscribe, Close | events reach the subscribers in order; no send on a closed channel |
| sharing (`model/sharing`) | members, credentials, `io.cozy.shared` revisions | invite, accept, revoke, replicate, upload | instances converge; a revoked member gets nothing |
| files (`model/vfs`) | the tree in CouchDB, contents in a storage | create, overwrite, move, trash, versions | the index and the storage agree, whatever fails between the two |
| message queue (`pkg/rabbitmq`) | connections, channels, deliveries | consume, ack, reject, reconnect | each delivery is settled once |
| notes, office, moves, instances, applications, sessions, permissions, AI indexing, notifications, mails, web API, command line | see `PROJECT.json` | | |

How they interact: the web API and the workers call the **scheduler** to add,
update, fire and delete triggers; a poll of the scheduler calls **PushJob** of
the broker; the poll loops of the **broker** give jobs to the **worker pools**;
a worker updates the job document, and after a `BadTriggerError` calls
DeleteTrigger of the scheduler. CouchDB writes publish **realtime** events, and
the scheduler subscribes to them for @event triggers; this is also how a change of
a shared document becomes a share-track job. The **virtual file system**,
**sharing**, notes and others take the locks around their changes, but read most
of what they need before. The virtual file system pushes trash-files jobs, and
its workers erase the contents.

What is hard here: several processes poll the same redis keys without a
coordinator; almost every operation is a CouchDB write followed by a redis write
(or the reverse), and either may fail, or be cut by a crash; leases expire under
their owners; retries by timeout race with slow owners; requests delete what a
poll has just loaded; shutdown has to unwind poll loops, channels and tasks in
the right order. Two members of a sharing change the same document while jobs
carry older changes in both directions. A file is a document and an object that
no transaction ties together. `PROJECT.json` lists these hazards one by one, each at its line
with the properties that cover it.

## Plan

1. *Done.* Locks: `RWLock`, `RedisLock`, `RedisLockProofs`.
2. *Done.* Scheduler: `RedisScheduler`, `RedisSchedulerProofs`.
3. *Done.* Jobs: `Worker`, extended by `RedisBroker` and `MemBroker`; `JobsPurge`.
4. *Done for one document that is not a file.* Replication: `RevsTree`, extended
   by `Replication`.
5. *Done for Swift, without quotas.* Files: `VFS`.
6. `MemScheduler`: one goroutine for each trigger. A debounced webhook holds its
   mutex while it sends on an unbuffered channel (`trigger_webhook.go:63`), and
   Unschedule takes the same mutex (`trigger_webhook.go:37`): can both wait for
   ever?
7. `Realtime`: topics and subscribers, and the hub over redis.
8. `Sharing`: states of members, invitation, acceptance, revocation; then the
   replication of files, which composes `Replication` and `VFS`.
9. *Done.* Proofs: `RedisLockProofs`, `RedisSchedulerProofs`, `WorkerProofs` extended
   by `RedisBrokerProofs` and `MemBrokerProofs`, `JobsPurgeProofs`,
   `ReplicationProofs`, `VFSProofs`. What is left to the model checker, and why, is
   under [Proofs](#only-model-checked).

Theorems come where an argument, not a bound, is what convinces: exclusion up to
lost leases, triggers that are never lost, jobs in one place, changes that are not forgotten,
contents that are never erased while a file or a version needs them.

## The modules

Each definition is tied to the lines it models by the `map` of `PROJECT.json`.
Operators whose comment starts with `Mutant of` are faulty variants of the next
definition, used only to show that the properties notice such a fault.

### RWLock and RedisLock

`RWLock` is the promise of `ErrorRWLocker`: a writer alone or any number of
readers. The in-memory lock is exactly this (`sync.RWMutex`).

`RedisLock` is one lock name of `simple_redis.go`, for the processes `Stack` and
their goroutines. `readers[s]` and `token[s]` are the fields of the `redisLock`
object of the process, `key` and `ttl` the redis key. `rl.mu` is held across the
single redis command of each attempt, so an attempt is one step: `ObtainsWriting`
and `ExtendsOrObtainsReading`. Every command may fail for the client and yet have
been executed (`ObtainsError`, `ExtendsError`, `Release`, `Extend`). `Tick` is
the clock: deadlines of the callers, expiration of the key, tickers of the long
operations. A renewal runs at most `MaxLate` ticks after its time. `Crash` is the
death of a process; its key stays. The history variable `lost` is the set of
holders whose lease expired under them: the code cannot know, and exclusion is
stated up to it. The token of a call is drawn when it is sent.

### RedisScheduler

One step is one command or script. The code groups some commands with `Pipeline()`,
which is not MULTI/EXEC: redis may run the commands of other clients between them,
and one may fail alone. The two pipelines on the payloads are therefore made
command by command: `Fire` (RPUSH) then `Arm` (ZADD NX) for a call, `ReadPayload`
(LRANGE) then `ErasePayload` (DEL) for a poll. The pipelines on the sorted sets
(addToRedis, UpdateCron, deleteTrigger) are one step, and this is an **assumption**:
`TimedNotLost` would not hold in the middle of the one of UpdateCron, which takes the
trigger out of both sets before it puts it back, nor after an error of its last
command alone.

`waiting` and `sched` are the sorted sets `triggers` and `scheduling`, `api` the
requests that wrote CouchDB and not yet redis, `firing` the calls that have loaded
their trigger, `arming` those whose payload is in the list and whose ZADD NX is still
to come, `pc` and `poll` the loop of each process through PollScheduler: `LuaPoll`,
`GetTrigger`, `Unlist`, `ReadPayload`, `ErasePayload`, `PushJob`, then `DeleteAt` and
`Unschedule` (@at), or `Readd` (cron). `Fails` is an error at any of these steps, with
the command executed or not; `ReadPayloadFails`, `FireFails` and `ArmFails` are the
errors of the pipelines on payloads; `RequestLost` and `Crash` cut requests and polls.

Dates are relative to the present: a tick lowers them, down to `Floor`, below
which all dates compare alike in the code. So time is unbounded. A call of
PollScheduler lasts at most `MaxStall` ticks. Bounds, in guards: `MaxTriggers`
created, `MaxRev` revisions of a document, `MaxFires` calls. A payload list is
modelled as the set of its calls. The parsing of trigger arguments is left out:
a cron is a period, an @at a delay of `AtDelays`.

History variables: `fired` and `done` (the calls, and those followed by a job),
`unread` (the calls that a DEL removed from the list, of which the LRANGE of the same
poll had not returned the payload), `expected` (triggers that redis was told of and
that were not refused for good), `crashed` and `erred` (which faults struck).

### Worker, RedisBroker, MemBroker

`Worker` has no specification of its own: it holds the state and steps of the
pools, and the two brokers extend it. `task[g]` is a goroutine of a pool together
with its task goroutine: `ack` (AckConsumed), `next` (nextDelay), `slot`, `exec`,
`over` (the result is ready), `retire` (DeleteTrigger). `slots` is the channel of
slots shared by the pools of a process; `closing` the number of messages that
Shutdown sent on `w.closing`. `doc` and `stale` are the job documents and whether
the copy in memory has an old revision: a write with an old revision is refused,
a deleted document is created again. `CleanJob` and `PurgeJob` are the requests
that change documents under the workers. Delays, timeouts and messages are left
out: a timeout is one of the errors with which an execution may end.

`RedisBroker` adds PushJob in its steps (document, LPUSH), the poll loops, with
BRPOP on the two lists in an order drawn for each call, and ShutdownWorkers, which
waits for the loops, then shuts down the pools. `Crash` and `Exit` restart the
process with an empty memory; the lists survive. `excused` is a history variable:
the jobs hit by a failure, a crash, a missed deadline or a deliberate drop.
Identifiers of jobs are used again once a job is nowhere and has no document.

`MemBroker` adds the list, the flag `run`, the `send` goroutines, and a shutdown
that tells `send` and, at the same time, closes its channel (`SendPanics`).

### JobsPurge

GetAllJobs by pages whose start key is the last job of the previous page (`Pages`
is what CouchDB may answer: the first rows from the start key), then the three filters of purgeJobs, then the deletion by chunks with the revisions
that were listed, while other actors create, update and delete jobs. The four
states are treated alike by the code, and two are modelled. As in the code, the
jobs kept for each type and state are the *first* ones by date.

### RevsTree and Replication

`RevsTree` has the operations of `revisions.go` on the tree of revisions that an
io.cozy.shared document keeps. A tree is a function from places to revisions; a
place is the sequence of branches taken from the root, and the main branch is the
one of first branches.

`Replication` is one shared document, in the CouchDB of each member (`doc`, the
leaves with their ancestors) and in its io.cozy.shared (`ref`). `Write` is a change
or a deletion by a user. `TrackReads` and `TrackWrites` are the two halves of
UpdateShared, which a share-track job makes without the lock of ApplyBulkDocs:
between the two, the other may write the reference. `StartJob`, `Collect` (changes
feed, `_revs_diff` and `_bulk_get`), `Apply` or `Filtered`, `SaveRef` and `Finish`
are a share-replicate job and the handler that answers it; `CallFails` is a lost
request, a lost answer or a late one, after which the handler goes on. `behind` has
the targets whose `last_seq` is before the last change of the reference. A write
pushes its job at once, a job may be delayed and overtaken, and equal events or
jobs that wait are one. The identifiers of two revisions of the same generation
are compared by CouchDB; the later one wins, which loses nothing since the members
are free to write in any order. `MaxDepth` is 100 as in the code and is not reached.
History variables: `hasty` (a deletion overtook a change that was not tracked yet)
and `dropped` (a job used all its tries, or the write of a reference was refused and
only logged).

### VFS

`docs` is io.cozy.files, `objects` the Swift container, `versions`
io.cozy.files.versions, `journals` the trash-files jobs. A handler reads documents
(`AsksPatch`, `AsksTrash`, `AsksUpload`...), then makes its changes under the lock
of the VFS, from what it has read (`Patch`, `TrashIt`, `CloseUpload`...). The lock is
`RedisLock`, of which only the exclusion is kept: a section is one step. Its body is
a list of writes (`Put`, `Delete`, `MoveDir`, `ObjectDelete`, ...), a record each.
`Refused` says when CouchDB refuses one, `Written` what it does, `Step` puts both
together and `Run` makes a list of them. `After` is the state once all are made, or up
to the first that is refused and then the clean-up of the code (`undo`); `Dies` stops
after any of them. What the code computes with a loop or a walk is a recursive function
over a finite range: `Run`, the documents below a directory (`Under`), the versions
that are left (`Only`). A request that has read nothing is at `Unread`, and at `Over`
when it has ended. The worker TrashFiles has no lock, and is retried
when Swift fails in the middle. A directory restored from the trash may have to
make its old parents first: `MkdirAll` makes each one in a section of its own, and
when it loses a race it looks for the name twice in the path, as `vfs.go:559` does.

A name is what the client gave with the suffixes that were added to it, and a path
a sequence of names. An object is named by its file and its upload
(`MakeObjectNameV3`). BulkUpdateDocs and BulkDeleteDocs are one write. The checks
that CreateFile makes under the lock before an upload are merged with what it reads.
Clients do not put anything in the trash themselves. History variables: `stale` (a
section wrote documents from a directory that had changed since it was read), `cut`
(an interruption), `midway` (a revert changed the file and its version was gone).

## Runs

| run | instance | shows |
|---|---|---|
| `lock` | 2 processes, with 2 goroutines and 1, 3 tokens, TTL 3, lateness 1 | counters match, exclusion up to lost leases, long operations keep their lease, each process implements `RWLock`, every Lock and RLock returns, a key without owner is freed |
| `sched` | 2 processes; a trigger of any kind, 2 revisions, 2 calls; with a webhook, up to the first fault | timed triggers stay in a sorted set, whatever crashes and fails; calls are covered, but for payloads deleted unread |
| `sched_live` | 1 process; an @at, a cron or a debounced @event, 2 revisions, 1 call | timed triggers run; dates without a trigger are cleaned |
| `sched_crash` | 2 processes, 1 debounced @webhook | counterexample, see below |
| `broker` | 2 processes of 2 goroutines and 1 slot, 1 job, 2 executions | one place for a job, bounded executions, none lost, shutdown order, final states |
| `broker_live` | 1 process, 1 goroutine, 2 jobs (one manual), 1 execution | no starvation; shutdown and tasks end |
| `mem_broker` | 1 process, 2 goroutines, 1 slot, 2 jobs, 2 senders | one sender, no job lost, slots conserved, every task can be cancelled |
| `purge` | 3 identifiers, 3 dates, pages of 2, chunks of 1, 1 job kept | lists are complete; the purge deletes exactly what it must |
| `sharing` | an owner and a recipient, 2 events (change, deletion, failed call), 2 tries of each job | no change forgotten, no revision vanishes, members without conflict converge, references have all conflicts, the exchange stops |
| `sharing_conflict` | the same members, 3 changes, no failure | counterexample, see below |
| `vfs` | 3 requests of any kind, 2 names, at most 2 versions | unique names, contents present, no leak, a sound tree |
| `vfs_clean` | the same | counterexample, see below |

Why these bounds are enough to be interesting. Locks: two goroutines in a process
are needed for readers that join, two processes for takeovers; the key is free when
a token is drawn, and each of the two processes remembers at most one, so three
tokens always leave a fresh one; TTL 3 is the ratio of the code (a renewal every
third of the timeout). Scheduler: two processes make retries and double handling
possible; one tick for the retry delay and for the stall are enough for a retry to
hit a live handler; `-1` in the delays is an @at date in the past; two revisions
make a conflict; two calls make a payload list with a call before and one after it
is read, and the second one may come between LRANGE and DEL. `CallsCovered` only
speaks of what happens before the first fault, and nothing else is said of webhooks, so
the exploration stops there for them (`WebhookUntilFault`). For the dates without a
trigger, an @event stands for webhooks too: deleteTrigger removes the date of neither. The interplay of two triggers in the sorted sets is not explored. Brokers:
two processes compete for the lists; two jobs and one goroutine put a poll loop in
front of a busy pool; two goroutines and one slot make tasks compete; two executions
make a retry. Two senders are needed for one to start while another one ends.
Purge: a page of two is one job and the start key of the next page, so every job is
once at the edge. Replication: the first replication takes place in each run, so two
events make a change during it and one after, two changes of the same revision, or a
failure between two exchanges. Files: three requests put a second change between
what a request reads and what it writes, and let a third one meet the result; two
names make moves that collide and moves that do not; the initial directory has a
sub-directory and a file with a version, and is in the trash or not.

Where deadlock is not checked, the system ends: once the request of `purge` has
ended and no identifier is left, and once the requests of `vfs` and `vfs_clean` are
over, nothing more happens. Symmetry is used for invariants and for the action
property of `vfs_clean` only.

## Fairness

- *Locks.* Time passes, and the runtime runs a goroutine whose sleep is over
  (`WF` of `Tick`, `Answered`, `Extend`). Nothing forces a caller to enter or to
  release, nor redis to fail, nor a process to survive.
- *Scheduler.* Clocks advance, processes poll again and again (they are restarted
  by the init system), and failures do not strike the same step for ever (`SF` of
  the poll, of the load and of the push, one for all the other steps of a process
  together). RebuildRedis is run by hand (`cmd/fix.go`) or after a
  move, so in the end it is not run: otherwise it could postpone an @in trigger
  for ever. Nothing forces a request to finish.
- *Broker.* The runtime schedules all goroutines; an execution ends at the latest
  with its context. A job in a list that comes first in a BRPOP again and again is
  popped (`SF` for each order: the order is drawn at random for each call, and
  redis answers before the timeout). A task that competes for slots gets one
  (`SF`: the channel of slots is first come, first served). A process is not shut
  down for ever again (`<>[]`), and `Exit` follows a shutdown. Deadlines are
  never forced, so `ShutdownEnds` holds without their help.
- *Replication.* As long as there is a job, an event or a reference to write, some
  step of a job is made: the brokers run every job, and a call ends with an answer or
  an error. It is one weak fairness for all steps together, not one for each; users
  may stop at any time, and failures are bounded by `MaxEvents`.

## Proofs

Every theorem is of the form `Spec => []Inv`, `Spec => [][A]_vars` or a refinement,
for every value of the constants that the module's `ASSUME` allows. An inductive
invariant is checked by TLC on the instance of the runs first; its proof has one
lemma for each action.

### Locks

`RedisLockProofs`, for all finite sets of processes and goroutines, all tokens, and
all `TTL` and `MaxLate` with `MaxLate + 1 < TTL` (`LockAssumption`):

- `CountsAlwaysMatch`: `CountsMatch` is inductive with the types. One lemma for
  each way in and out changes the set of holders and the counter together.
- `MutualExclusionUnderLease`: exclusion is not inductive. It needs that a holder
  that is not `lost` owns the redis key (`HoldersOwn`), that two processes never
  have the same token (`TokensDistinct`), that the key exists exactly while its
  time to live is positive (`KeyExpires`), and the counters, so that the key freed
  by a release has no other holder behind it.
- `LongOperationsKeepLease`: `RenewalsInTime` bounds the age of the last renewal
  by what is left of the lease, so the key cannot expire between two renewals.
- `RefinesRWLock`: the lock of each process implements `RWLock` for its goroutines.
  The counters say who is inside, so a writer enters an empty lock and a reader one
  without a writer; each step adds or removes one holder of one process, or leaves
  the holders of all processes alone. A crash empties one process.
- `TypeCorrect`, and `Invariance`: the conjunction `IInv` of all these.

### Scheduler

`RedisSchedulerProofs`, for all sets of processes and triggers of each kind, all
delays and periods within `SchedulerAssumption`:

- `TimedTriggersNotLost`: an @at or cron trigger that redis was told of, and whose
  document exists, is in a sorted set, the pipelines on the sorted sets being one step
  (see [RedisScheduler](#redisscheduler)). The steps that remove a trigger from the
  sets are harmless because of what the loop that takes them knows: `Rules` says
  that a loop that removes a trigger before its push handles an @event or a
  webhook (`UnlistsFired`), that a redis deletion is only pending or under way
  for a document that is gone for ever (`DeletesGone`, `Created`), and that a loop
  past `luaPoll` handles a trigger (`HoldsTrigger`). One lemma for each action,
  over the frame lemmas `MovesKeep`, `StoreKeeps` and `LocalInv`.
- `CallsNotLost` (`CallsCovered`): when nothing crashes or fails, a call of a debounced
  trigger has its job, or will have it, with every interleaving of the commands of
  calls and polls. The one exception is `unread`, the payloads deleted between LRANGE
  and DEL, which the code does lose
  ([below](#what-disagrees-with-the-codes-own-words)). This is not inductive: a process
  that has polled the trigger and not loaded it may give up without an error that counts,
  so what it is about to do is worth nothing. `CallsSafe` says that the trigger is then
  still in a sorted set, or that a call is about to put it there (`Awaits`), or that
  another process is between its removal from `scheduling` and its push. A payload is
  safe from its RPUSH, before the date is there, thanks to `arming`; a DEL moves what is
  in the list to the hand of the poll that has read it, or to `unread`. `FiredCreated`
  is needed for the calls of a trigger whose document is new.
- `TypeCorrect`, `Invariance` (`IInv`) and `CallInvariance` (`CallInv`).

### Pools and brokers

`WorkerProofs` has lemmas only, since `Worker` has no specification. They say what a
step of a goroutine does, for any processes and jobs, any finite sets of worker types
and goroutines, and any numbers of slots and executions (`WorkerAssumption`): each keeps
`PoolInv` (types, slots, the messages left on `w.closing`, what a closed or stopped
pool is) and `JobInv` (the executions counted in the goroutine and in the history,
one goroutine for a job), and `WorkerEffect` bounds what it does to the other
goroutines and jobs. Three counting arguments carry them: a slot is taken or given
back with the one goroutine that enters or leaves `exec`; a message is taken
by a goroutine that leaves the set of those to cancel, which includes the ones that are
about to start their task (`Cancels`, a strengthening of `EachTaskCancellable`); and
`nextDelay` has compared the count of an execution that is still to be made.

`RedisBrokerProofs` adds the places. `BrokerInv` says in which list a job may be
(`RightList`, `ListedOnce`), that a loop has a job exactly between BRPOP and the send,
that the places exclude each other, that a job is not yet executed before its last
place, and in which order a shutdown closes things. `JobsInOnePlace` turns this into the
sum of `OnePlace` with the cardinality theorems. From the same invariant:
`JobsNotLost`, `ExecutionsBounded`, `NoSendPanics`, `OrderlyShutdown`, `SlotsAddUp`,
`TasksCancellable`, `TypeCorrect`, and the action property `FinalStates`.

`MemBrokerProofs` does the same for the queue in memory. `SendersNotLost` needs that,
while the broker runs, `q.run` is true exactly when there is a sender, that a queue
with jobs has it set, and that nobody closes the queue (`SenderRule`). It proves `JobsNotLost`,
`ExecutionsBounded`, `SlotsAddUp`, `TasksCancellable` and `TypeCorrect` as well.

### Purge

`JobsPurgeProofs`, for any finite set of identifiers, any `PageSize` above 1 (with
pages of 1 GetAllJobs would stop at the first), `MaxKept` and `ChunkSize`:

- `JobsAllListed` (`ListComplete`): the keys of the list increase and are below the
  start key of the next page, below which every job that nobody touched is listed.
- `PurgesExactly` (`PurgeExact`): what GetLastsJobs returned is no longer in the state once
  the request deletes, so the invariant has it as a witness (`Kept`): no job of it is
  doomed or deleted, and the other old ones are doomed, deleted or have changed. That a
  deletion spares what has changed since the list needs `SteadyJobs`. The limits
  follow from the cardinalities of finite sets.

### Replication

`ReplicationProofs`, for any set of recipients and all bounds of retries, executions
and events (`ReplicationAssumption`):

- `ChangesNotForgotten` (`NoChangeForgotten`): the end of a replication that went well
  may leave a target behind, when the reference has changed after it was read.
  `StaleHasJob` says that the job of that change then waits, as it cannot start before
  the end of the running one; `RunIdle`, that only a running job replicates.
- `RetriesBounded`: the last conjunct of `TypeOK`, that retryWorker stops.
- `RepInvariant`: the conjunction `RepInv`.

The assumptions on constants are what the code gives: finite sets, positive sizes, and
markers (`NoJob`, `Off`, `None`) that are not values.

### Files

`VFSProofs`, for any number of requests and names, any `MaxNumber`, and directories of
any depth (`VFSAssumption`):

- `TypeCorrect` and `NamesUnique` (`UniqueNames`). A request writes what it has made
  from documents read before it took the lock, so uniqueness is not inductive. The
  invariant `VInv` says when that is harmless: a document with the revision that a request
  has read *is* the document it has read (`Agrees`), and the ids that a request may still
  create are known nowhere (`Unborn`, `Known`: neither a document, nor a version, nor a
  journal, nor a read document has them). So a put that CouchDB accepts replaces exactly
  the document that was read, or creates it (`PutIsFresh`): a document that stays at
  its place needs no check of its name, and one that moves was checked under the
  lock.
- `ContentKept` (`ContentPresent`): the contents of files and versions are in Swift. The
  invariant `CInv` adds that the versions are of different objects, that the files of a
  journal are gone, that the object of a request that has not used it is named by
  nothing (`Used`), and that no version has the object of its file (`Backed`): to clean
  an old version does not touch the file, which is what a reverted file relies on.
  `midway` is the exception: a revert of which the version was gone, or that died before
  it deleted it.
- `Inductive`: both invariants.

A section is a list of writes of which any prefix may be the last (`Dies`) and any write
may be refused. The lemmas speak of its *trace*, the states after each write: `SectionOutcome`
turns a section into a trace, its last state and maybe the undo; `TraceStep` gives the
effect of each write. `Sound` is what the states of a trace satisfy in the middle of a
section, and `Safe` what each write must respect to keep it (`SafeWritten`, `SoundTrace`,
`SoundOutcome`); there is one lemma for each operation, which shows that its writes are
safe at the point they are made. The delicate ones are the end of an upload, where the
old content is erased or becomes a version and old versions are cleaned, and the revert,
whose put shares the object of the version with the file until the version is deleted.
For the upload, nothing is refused after its put (`UploadCleans`), so its undo
never erases the content of a file. What `Run`, `Under` and `Only` compute is proved by
an induction over a set of numbers (`SetInduction`, `BoundedInduction`), since
the library's induction theorems take an operator as a parameter.

### Only model-checked

- Liveness, everywhere: fairness and ENABLED are out of the prover's reach.
- Of the files, `NoLeak`, `TreeSound` and `CleansOnlyTrash`. The last two are about paths
  as deep as the tree, which MoveDir changes for all the directories below one at once: they
  need an induction over the depth of a tree for each operation, under the exemptions
  `stale` and `cut`.
- Of the replication, what is about the trees of revisions: the rest of `TypeOK`
  (`IsTree`, and the shapes next to it), `RevsKept`, `LinearConverges`, `RefsFollow`. `EnsureMaxDepth`
  and `InsertChain` are folds over the nodes of a tree and the revisions of a chain, which
  move whole branches; what they return is proved by induction over data.
- The three runs that end with a counterexample.

## What disagrees with the code's own words

- `sched_crash`: `docs/jobs.md` (1145-1147) says that a trigger is not lost if a
  stack crashes while it processes it. A debounced @event or @webhook trigger is
  removed from `scheduling` (`redis_scheduler.go:312`) before its payloads are
  read and its job pushed; a crash in between loses the calls.
- `sharing_conflict`: `docs/sharing-design.md` (216-220) says that a conflict is
  propagated to the other members and that all converge to the same revisions. When
  the event of a local change is tracked after the document of the other member was
  applied, `RevsTree.Add` raises the local revision inside the main branch
  (`revisions.go:131`) instead of making a branch; the replicator sends only the last
  revision of the main branch, so the other member never gets the local one.
- `vfs_clean`: `docs/workers.md` (345-346) says that the clean-old-trashed worker
  deletes what is in the trash for too long. It destroys the items of a list; a
  directory restored since it was listed loses its content, because destroyDir
  walks the directory as it is now and does not look at its revision
  (`impl_v3.go:390`).

Not the subject of a run:

- `docs/jobs.md` (1037-1039) says that the body of a webhook request will be available
  to the konnector or to the service, and `docs/konnectors-workflow.md` (864-865) that
  with a debounce it is in `payloads`. A poll reads the list and deletes it with a
  pipeline that is not a transaction (`redis_scheduler.go:317-320`): a payload pushed
  between LRANGE and DEL is deleted unread. Its call still schedules a job, which does
  not have it. The model has these payloads in `unread`, which `CallsCovered` excepts.
- The comment of `luaPoll` (`redis_scheduler.go:38-40`) retries a trigger that stays
  in `scheduling` for more than 10 seconds. The script gives the trigger its due
  date as a score, so a trigger polled late is retried while its first handler
  works, and its job is pushed twice.
- DeleteTrigger of an @event trigger that is cut after CouchDB leaves its entry of the
  `events-` hash for ever (`redis_scheduler.go:483-485`): eventLoop finds no document
  and only logs it (177-181). The `payload-` list of a webhook that is deleted with
  pending calls stays too. `OrphanDatesCleaned` speaks of the dates in the sorted sets
  only.
- A call whose RPUSH succeeds and whose ZADD NX fails (`ArmFails`) leaves a payload
  without a date until the next call; the error is only logged.
- The in-memory broker closes the channel of jobs while `send` may be blocked on it
  (the action `SendPanics`); the panic kills the process and its tasks.
- A revert reads its version before the lock: when that version is deleted
  meanwhile, the file points to a content that is gone (`impl_v3.go:640`, the history
  variable `midway`).
- EnsureErased deletes the versions before the objects (`impl_v3.go:491`): when Swift
  fails in between, the retry no longer finds the objects of the versions (`cut`).
- A MkdirAll that loses a race looks for the name twice in the path (`vfs.go:559`),
  so it fails unless such a directory exists, in which case it goes on there.
- The comment of GetLastsJobs (`broker.go:451`) speaks
  of the *last* jobs of each state, but the jobs are sorted by increasing date and
  the first ones are taken (`broker.go:442`, `broker.go:457`), so the purge keeps
  the oldest ones. The properties of `purge` speak of how many are kept.

## What is not modelled

In the modelled parts: the Lua and HTTP transport, logs and metrics, the content
of messages, rate limits other than their effect (a refused push), trigger
arguments, CleanRedis, ShutdownScheduler (a process that never takes another step),
malformed trigger documents and design documents in a list of jobs, a WorkerInit
that fails (the stack does not start), the jobs for client workers (they get a
document and are never put in a list: `redis_broker.go:242`, `mem_broker.go:222`), the
legacy @event triggers for thumbnails. cleanJobs is reduced to its effect on one
document.

In the replication: files and their contents, several documents and their order,
the rules of a sharing (which document is shared, read-only members, revocation),
the death of a process, the acceptance of a sharing. In the files: quotas, thumbnails,
references, archives, encryption, the dissociation and the imports of sharings, fsck
as an operation (`TreeSound` says what it checks), the answers of CouchDB that are
lost after a write, the tagged versions (which detectVersionsToClean spares), the afero
and S3 (`vfss3`) back ends and the older Swift layouts.

The other components are listed in `PROJECT.json` with the reason: planned (steps
6 to 8), input and output, or functions of their input without a history.
