----------------------------- MODULE RedisBroker ----------------------------
(***************************************************************************)
(* The broker that distributes jobs among cozy-stack processes             *)
(* (model/job/redis_broker.go), on top of the worker pools of Worker.      *)
(*                                                                         *)
(* A pushed job is a document in CouchDB, then an element of a redis list: *)
(* one list per worker type for ordinary jobs and one for manual jobs.  In *)
(* each process a poll loop per worker type pops an element, loads the     *)
(* document, and sends it on the channel of the pool.  ShutdownWorkers     *)
(* waits for the poll loops, then for the pools, within a deadline.        *)
(***************************************************************************)
EXTENDS Worker, SequencesExt

CONSTANTS
    KindOf,       \* worker type of each job
    Manual        \* the jobs that go in the prioritized list

ASSUME BrokerAssumption == KindOf \in [Job -> Kind] /\ Manual \subseteq Job

Lists == Kind \X {"", "/p0"}     \* the keys j/<type> and j/<type>/p0
ListOf(j) == <<KindOf[j], IF j \in Manual THEN "/p0" ELSE "">>

VARIABLES
    lists,    \* the redis lists: LPUSH at the head, BRPOP at the end
    push,     \* <<process, step>> of the PushJob call of each job, or <<>>
    running,  \* b.running of each process
    loop,     \* what the poll loop of each pool does next
    hand,     \* the job it has popped
    down,     \* progress of ShutdownWorkers
    client    \* is the redis client of the process open?

redisVars == <<lists, push, running, loop, hand, down, client>>
vars == <<workerVars, redisVars>>

PoolsOf(p) == {w \in Pool : w[1] = p}
Listed(j) == Contains(lists[ListOf(j)], j)
InHand(j) == \E w \in Pool : hand[w] = j
Held(j) == \E g \in Worker : Holds(g, j)
Known(j) == push[j] # <<>> \/ Listed(j) \/ InHand(j) \/ Held(j)

Init ==
    /\ WorkerInit
    /\ lists = [l \in Lists |-> <<>>]
    /\ push = [j \in Job |-> <<>>]
    /\ running = [p \in Process |-> TRUE]
    /\ loop = [w \in Pool |-> "check"]
    /\ hand = [w \in Pool |-> NoJob]
    /\ down = [p \in Process |-> "no"]
    /\ client = [p \in Process |-> TRUE]

-----------------------------------------------------------------------------
(* PushJob.                                                                *)

\* The broker runs and the request is not refused (unknown worker, limits,
\* BeforeHook).  A name is used again for a new job once nothing remains of the
\* previous one.
PushJob(p, j) ==
    /\ running[p]
    /\ doc[j] = "none" /\ ~Known(j)
    /\ push' = [push EXCEPT ![j] = <<p, "create">>]
    /\ stale' = stale \ {j}
    /\ runs' = [runs EXCEPT ![j] = 0] /\ excused' = excused \ {j}
    /\ UNCHANGED <<doc, task, slots, pools, lists, running, loop, hand, down, client>>

\* job.Create, or its failure: the caller gets an error.
Create(j) ==
    /\ push[j] # <<>> /\ push[j][2] = "create"
    /\ \/ /\ doc' = [doc EXCEPT ![j] = "queued"]
          /\ push' = [push EXCEPT ![j] = <<@[1], "lpush">>]
       \/ push' = [push EXCEPT ![j] = <<>>] /\ UNCHANGED doc
    /\ UNCHANGED <<stale, task, slots, pools, history,
                   lists, running, loop, hand, down, client>>

\* LPUSH; when it fails for the caller, it may still have been executed.
LPush(j) ==
    LET p == push[j][1]
        l == ListOf(j)
    IN
    /\ push[j] # <<>> /\ push[j][2] = "lpush"
    /\ push' = [push EXCEPT ![j] = <<>>]
    /\ \/ /\ client[p]
          /\ lists' = [lists EXCEPT ![l] = <<j>> \o @]
          /\ UNCHANGED excused
       \/ UNCHANGED lists /\ excused' = excused \cup {j}
    /\ UNCHANGED <<couch, task, slots, pools, runs, running, loop, hand, down, client>>

-----------------------------------------------------------------------------
(* pollLoop.                                                               *)

LoopGoto(w, l) == loop' = [loop EXCEPT ![w] = l]

\* Mutant of CheckRunning: the loop never looks at b.running.
CheckNothing(w) ==
    /\ loop[w] = "check"
    /\ LoopGoto(w, "brpop")
    /\ UNCHANGED <<workerVars, lists, push, running, hand, down, client>>

CheckRunning(w) ==
    /\ loop[w] = "check"
    /\ LoopGoto(w, IF running[w[1]] THEN "brpop" ELSE "ending")
    /\ UNCHANGED <<workerVars, lists, push, running, hand, down, client>>

\* Mutant of Pop: the element is read and stays in its list.
PopKeeps(w, l) ==
    /\ loop[w] = "brpop" /\ lists[l] # <<>>
    /\ hand' = [hand EXCEPT ![w] = Last(lists[l])]
    /\ LoopGoto(w, "get")
    /\ UNCHANGED <<workerVars, lists, push, running, down, client>>

\* BRPOP takes the oldest element of the first list, or else of the second.
Pop(w, l) ==
    /\ loop[w] = "brpop" /\ lists[l] # <<>>
    /\ lists' = [lists EXCEPT ![l] = Front(@)]
    /\ \/ /\ hand' = [hand EXCEPT ![w] = Last(lists[l])]
          /\ LoopGoto(w, "get") /\ UNCHANGED excused
       \/ /\ excused' = excused \cup {Last(lists[l])}   \* the reply is lost
          /\ LoopGoto(w, "check") /\ UNCHANGED hand
    /\ UNCHANGED <<couch, task, slots, pools, runs, push, running, down, client>>

\* Mutant of BRPop: the manual list always comes first.
BRPopManualFirst(w, first) ==
    LET l == IF lists[<<w[2], "/p0">>] # <<>> THEN "/p0" ELSE "" IN
    Pop(w, <<w[2], l>>)

\* The order of the two lists is drawn at random for each call.
BRPop(w, first) ==
    LET k == w[2]
        second == IF first = "" THEN "/p0" ELSE ""
    IN
    \/ Pop(w, <<k, first>>)
    \/ lists[<<k, first>>] = <<>> /\ Pop(w, <<k, second>>)

\* Nothing came before the timeout, or the command failed.
BRPopTimeout(w) ==
    /\ loop[w] = "brpop"
    /\ LoopGoto(w, "check")
    /\ UNCHANGED <<workerVars, lists, push, running, hand, down, client>>

\* The document is loaded; a job that has none is dropped, and so is a job
\* whose document could not be read.
Get(w) ==
    LET j == hand[w] IN
    /\ loop[w] = "get"
    /\ \/ /\ doc[j] # "none"
          /\ stale' = stale \ {j}
          /\ LoopGoto(w, "send") /\ UNCHANGED <<hand, excused>>
       \/ /\ hand' = [hand EXCEPT ![w] = NoJob]
          /\ LoopGoto(w, "check")
          /\ excused' = excused \cup {j}
          /\ UNCHANGED stale
    /\ UNCHANGED <<doc, task, slots, pools, runs, lists, push, running, down, client>>

\* ch <- job, when a goroutine of the pool is ready to receive.
Send(w) ==
    /\ loop[w] = "send"
    /\ \E r \in Routine : Receive(<<w, r>>, hand[w])
    /\ hand' = [hand EXCEPT ![w] = NoJob]
    /\ LoopGoto(w, "check")
    /\ UNCHANGED <<couch, slots, pools, history, lists, push, running, down, client>>

\* The deferred message on b.closed is received by ShutdownWorkers.
Closed(w) ==
    /\ loop[w] = "ending" /\ down[w[1]] = "loops"
    /\ LoopGoto(w, "ended")
    /\ UNCHANGED <<workerVars, lists, push, running, hand, down, client>>

-----------------------------------------------------------------------------
(* ShutdownWorkers.                                                        *)

Down(p, d) == down' = [down EXCEPT ![p] = d]

ShutdownWorkers(p) ==
    /\ running[p]
    /\ running' = [running EXCEPT ![p] = FALSE]
    /\ Down(p, "loops")
    /\ UNCHANGED <<workerVars, lists, push, loop, hand, client>>

\* Mutant of LoopsEnded: the pools are closed without waiting for the loops.
LoopsNotWaited(p) ==
    /\ down[p] = "loops"
    /\ Down(p, "workers")
    /\ UNCHANGED <<workerVars, lists, push, running, loop, hand, client>>

LoopsEnded(p) ==
    /\ down[p] = "loops"
    /\ \A w \in PoolsOf(p) : loop[w] = "ended"
    /\ Down(p, "workers")
    /\ UNCHANGED <<workerVars, lists, push, running, loop, hand, client>>

\* The context is done while the loops are waited for.
ShutdownExpires(p) ==
    /\ down[p] = "loops"
    /\ Down(p, "failed")
    /\ client' = [client EXCEPT ![p] = FALSE]
    /\ UNCHANGED <<workerVars, lists, push, running, loop, hand>>

\* Each pool is shut down by its own goroutine.
StopPool(w) == down[w[1]] = "workers" /\ StopWorker(w) /\ UNCHANGED redisVars
PoolStopped(w) == Stopped(w) /\ UNCHANGED redisVars
PoolExpires(w) == StopExpires(w) /\ UNCHANGED redisVars

ShutdownReturns(p) ==
    /\ down[p] = "workers"
    /\ \A w \in PoolsOf(p) : stop[w] \in {"ok", "late"}
    /\ Down(p, IF \A w \in PoolsOf(p) : stop[w] = "ok" THEN "ok" ELSE "failed")
    /\ client' = [client EXCEPT ![p] = FALSE]
    /\ UNCHANGED <<workerVars, lists, push, running, loop, hand>>

-----------------------------------------------------------------------------
(* The end of a process; it is started again.                              *)

Pushing(p) == {j \in Job : push[j] # <<>> /\ push[j][1] = p}
InMemory(p) ==
    {j \in Job : \/ \E w \in PoolsOf(p) : hand[w] = j
                 \/ \E g \in WorkersOf(p) : Holds(g, j)}

Restart(p, hit) ==
    /\ DiesWith(p)
    /\ excused' = excused \cup hit
    /\ push' = [j \in Job |-> IF j \in Pushing(p) THEN <<>> ELSE push[j]]
    /\ running' = [running EXCEPT ![p] = TRUE]
    /\ loop' = [w \in Pool |-> IF w[1] = p THEN "check" ELSE loop[w]]
    /\ hand' = [w \in Pool |-> IF w[1] = p THEN NoJob ELSE hand[w]]
    /\ Down(p, "no")
    /\ client' = [client EXCEPT ![p] = TRUE]
    /\ UNCHANGED <<couch, runs, lists>>

Crash(p) == Restart(p, Pushing(p) \cup InMemory(p))

\* The command returns after the shutdown.  Requests of the web server that are
\* still pushing a job are cut.
Exit(p) ==
    \/ down[p] = "ok" /\ Restart(p, Pushing(p))
    \/ down[p] = "failed" /\ Restart(p, Pushing(p) \cup InMemory(p))

-----------------------------------------------------------------------------
LoopStep(w) ==
    \/ CheckRunning(w) \/ (\E first \in {"", "/p0"} : BRPop(w, first))
    \/ BRPopTimeout(w) \/ Get(w) \/ Send(w) \/ Closed(w)

ShutdownStep(p) ==
    \/ ShutdownWorkers(p) \/ LoopsEnded(p) \/ ShutdownExpires(p) \/ ShutdownReturns(p)
    \/ \E w \in PoolsOf(p) : StopPool(w) \/ PoolStopped(w) \/ PoolExpires(w)

Next ==
    \/ \E p \in Process, j \in Job : PushJob(p, j)
    \/ \E j \in Job : Create(j) \/ LPush(j)
    \/ \E j \in Job : (CleanJob(j) \/ PurgeJob(j)) /\ UNCHANGED redisVars
    \/ \E w \in Pool : LoopStep(w)
    \/ \E g \in Worker : WorkerStep(g) /\ UNCHANGED redisVars
    \/ \E p \in Process : ShutdownStep(p) \/ Crash(p) \/ Exit(p)

Spec == Init /\ [][Next]_vars

(* The runtime schedules every goroutine; an execution ends, at the latest *)
(* when its context times out.  The order of the lists is drawn at random, *)
(* so each one is first again and again, and a job that is there is popped *)
(* before the timeout of a BRPOP.  A process that was shut down is started *)
(* again, and it is not always being shut down.  Nothing forces a request, *)
(* an error, a crash or a deadline.                                        *)
LoopProgress(w) ==
    CheckRunning(w) \/ BRPopTimeout(w) \/ Get(w) \/ Send(w) \/ Closed(w)
ShutdownProgress(p) ==
    \/ LoopsEnded(p) \/ ShutdownReturns(p) \/ Exit(p)
    \/ \E w \in PoolsOf(p) : StopPool(w) \/ PoolStopped(w)

Fairness ==
    /\ \A w \in Pool :
        /\ WF_vars(LoopProgress(w))
        /\ \A first \in {"", "/p0"} : SF_vars(BRPop(w, first))
    /\ \A g \in Worker : SF_vars(WorkerProgress(g) /\ UNCHANGED redisVars)
    /\ \A p \in Process :
        WF_vars(ShutdownProgress(p)) /\ <>[][~ShutdownWorkers(p)]_vars

FairSpec == Spec /\ Fairness

-----------------------------------------------------------------------------
(* Properties.                                                             *)

\* Type correctness of CouchDB, redis, the poll loops and the pools.
TypeOK ==
    /\ WorkerTypeOK
    /\ lists \in [Lists -> Seq(Job)]
    /\ push \in [Job -> {<<>>} \cup (Process \X {"create", "lpush"})]
    /\ running \in [Process -> BOOLEAN] /\ client \in [Process -> BOOLEAN]
    /\ loop \in [Pool -> {"check", "brpop", "get", "send", "ending", "ended"}]
    /\ hand \in [Pool -> Job \cup {NoJob}]
    /\ down \in [Process -> {"no", "loops", "workers", "ok", "failed"}]

\* A job is in one place only: being pushed, once in a list, in the hand of one
\* poll loop or of one goroutine.  No two processes ever execute the same job.
Places(j) ==
    Cardinality({i \in DOMAIN lists[ListOf(j)] : lists[ListOf(j)][i] = j})
    + Cardinality({w \in Pool : hand[w] = j})
    + Cardinality({g \in Worker : Holds(g, j)})
    + (IF push[j] = <<>> THEN 0 ELSE 1)

OnePlace == \A j \in Job : Places(j) <= 1

\* Without a failure, a crash, a missed deadline or a deliberate drop, a job
\* whose document says queued or running is really on its way: interleaving of
\* pushes, polls, tasks, retries and an orderly shutdown loses no job, and no
\* document stays for ever in a state that is not final.
NoJobLost ==
    \A j \in Job : doc[j] \in {"queued", "running"} /\ j \notin excused => Known(j)

\* `Shutdown is used to close the worker, waiting for all tasks to end`: the
\* channel of a pool is closed only after its poll loop has ended, so no loop
\* sends on a closed channel, which would panic.
NoSendOnClosed == \A w \in Pool : chan[w] = "closed" => loop[w] = "ended"

\* An orderly shutdown leaves no job in the memory of the process.
ShutdownLeavesNothing == \A p \in Process : down[p] = "ok" => InMemory(p) = {}

\* A job that ended keeps its final state: a slow task, a retry or a late poll
\* never changes it, nor the end of a task that an administrator already said
\* done.  (A job said done before a poll loop loaded it does come back.)
Ended(j) ==
    doc[j] \in {"done", "errored"} /\ (~Known(j) \/ (Held(j) /\ j \in stale))
FinalStateKept == [][\A j \in Job : Ended(j) => doc'[j] \in {doc[j], "none"}]_vars

\* The comment of pollLoop: `By randomizing the order we make sure we avoid such
\* starvation`.  A job of either list is popped in the end, even if jobs of the
\* other list never stop coming.
NoStarvation == \A j \in Job : Listed(j) ~> ~Listed(j)

\* ShutdownWorkers returns, without the help of its deadline.
ShutdownEnds ==
    \A p \in Process : down[p] \in {"loops", "workers"} ~> down[p] \notin {"loops", "workers"}

\* Each goroutine that took a job is free again in the end: slots, retries and
\* cancellations never block it for ever.
TasksEnd == \A g \in Worker : (task[g].pc \in Busy) ~> (task[g].pc \notin Busy)
=============================================================================
