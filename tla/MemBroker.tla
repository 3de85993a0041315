------------------------------ MODULE MemBroker -----------------------------
(***************************************************************************)
(* The broker of a monolithic stack (model/job/mem_broker.go), on top of   *)
(* the worker pools of Worker.                                             *)
(*                                                                         *)
(* Each worker type has a memQueue: a list under a mutex, and a goroutine  *)
(* (send) that lives as long as the list has jobs and sends them on the    *)
(* channel of the pool.  A shutdown tells the goroutine on q.closed and,   *)
(* concurrently, closes the channel.                                       *)
(***************************************************************************)
EXTENDS Worker, SequencesExt

CONSTANTS
    KindOf,   \* worker type of each job
    Sender    \* names of the goroutines that run send

Off == "off"     \* a goroutine that has not started, or has ended

ASSUME MemAssumption ==
    /\ KindOf \in [Job -> Kind] /\ IsFiniteSet(Sender)
    /\ Off \notin Job \cup {NoJob}

VARIABLES
    queue,    \* q.list of each pool
    run,      \* q.run
    sender,   \* the send goroutines: their job, NoJob between two, or Off
    closers,  \* goroutines waiting to send on q.closed
    push,     \* <<process, step>> of the PushJob call of each job, or <<>>
    running,  \* b.running
    down,     \* progress of ShutdownWorkers
    toClose   \* queues that it has yet to close

memVars == <<queue, run, sender, closers, push, running, down, toClose>>
vars == <<workerVars, memVars>>

Alive(w) == {i \in Sender : sender[w][i] # Off}
PoolsOf(p) == {w \in Pool : w[1] = p}
Queued(j) == \E w \in Pool : Contains(queue[w], j)
Sending(j) == \E w \in Pool, i \in Sender : sender[w][i] = j
Held(j) == \E g \in Worker : Holds(g, j)
Known(j) == push[j] # <<>> \/ Queued(j) \/ Sending(j) \/ Held(j)

Init ==
    /\ WorkerInit
    /\ queue = [w \in Pool |-> <<>>]
    /\ run = [w \in Pool |-> FALSE]
    /\ sender = [w \in Pool |-> [i \in Sender |-> Off]]
    /\ closers = [w \in Pool |-> 0]
    /\ push = [j \in Job |-> <<>>]
    /\ running = [p \in Process |-> TRUE]
    /\ down = [p \in Process |-> "no"] /\ toClose = {}

-----------------------------------------------------------------------------
(* PushJob, and the queue.                                                 *)

PushJob(p, j) ==
    /\ running[p]
    /\ doc[j] = "none" /\ ~Known(j)
    /\ push' = [push EXCEPT ![j] = <<p, "create">>]
    /\ stale' = stale \ {j}
    /\ runs' = [runs EXCEPT ![j] = 0] /\ excused' = excused \ {j}
    /\ UNCHANGED <<doc, task, slots, pools, queue, run, sender, closers, running, down, toClose>>

Create(j) ==
    /\ push[j] # <<>> /\ push[j][2] = "create"
    /\ \/ /\ doc' = [doc EXCEPT ![j] = "queued"]
          /\ push' = [push EXCEPT ![j] = <<@[1], "enqueue">>]
       \/ push' = [push EXCEPT ![j] = <<>>] /\ UNCHANGED doc
    /\ UNCHANGED <<stale, task, slots, pools, history,
                   queue, run, sender, closers, running, down, toClose>>

Starts(w) ==
    \E i \in Sender \ Alive(w) : sender' = [sender EXCEPT ![w] = [@ EXCEPT ![i] = NoJob]]

\* Mutant of Enqueue: a goroutine for each job.
EnqueueStarts(j) ==
    LET w == <<push[j][1], KindOf[j]>> IN
    /\ push[j] # <<>> /\ push[j][2] = "enqueue"
    /\ push' = [push EXCEPT ![j] = <<>>]
    /\ queue' = [queue EXCEPT ![w] = Append(@, j)]
    /\ run' = [run EXCEPT ![w] = TRUE]
    /\ Starts(w)
    /\ UNCHANGED <<workerVars, closers, running, down, toClose>>

\* Enqueue starts a goroutine when none runs.
Enqueue(j) ==
    LET w == <<push[j][1], KindOf[j]>> IN
    /\ push[j] # <<>> /\ push[j][2] = "enqueue"
    /\ push' = [push EXCEPT ![j] = <<>>]
    /\ queue' = [queue EXCEPT ![w] = Append(@, j)]
    /\ run' = [run EXCEPT ![w] = TRUE]
    /\ IF run[w] THEN UNCHANGED sender ELSE Starts(w)
    /\ UNCHANGED <<workerVars, closers, running, down, toClose>>

Sends(w, i, j) == sender' = [sender EXCEPT ![w] = [@ EXCEPT ![i] = j]]

\* Mutant of Take: a job is removed and not sent.
TakeDrops(w, i) ==
    /\ sender[w][i] = NoJob
    /\ \/ /\ queue[w] # <<>> /\ run[w]
          /\ queue' = [queue EXCEPT ![w] = Tail(@)]
          /\ UNCHANGED <<run, sender>>
       \/ /\ queue[w] = <<>> \/ ~run[w]
          /\ run' = [run EXCEPT ![w] = FALSE]
          /\ Sends(w, i, Off) /\ UNCHANGED queue
    /\ UNCHANGED <<workerVars, closers, push, running, down, toClose>>

\* The goroutine takes the next job, or ends: both under q.jmu.
Take(w, i) ==
    /\ sender[w][i] = NoJob
    /\ \/ /\ queue[w] # <<>> /\ run[w]
          /\ Sends(w, i, Head(queue[w]))
          /\ queue' = [queue EXCEPT ![w] = Tail(@)]
          /\ UNCHANGED run
       \/ /\ queue[w] = <<>> \/ ~run[w]
          /\ run' = [run EXCEPT ![w] = FALSE]
          /\ Sends(w, i, Off) /\ UNCHANGED queue
    /\ UNCHANGED <<workerVars, closers, push, running, down, toClose>>

\* The select of send: a worker receives the job.
SendJob(w, i) ==
    /\ sender[w][i] \in Job
    /\ \E r \in Routine : Receive(<<w, r>>, sender[w][i])
    /\ Sends(w, i, NoJob)
    /\ UNCHANGED <<couch, slots, pools, history, queue, run, closers, push, running, down, toClose>>

\* The select of send: the queue is closed, and the job is dropped.
SendClosed(w, i) ==
    /\ sender[w][i] \in Job /\ closers[w] > 0
    /\ closers' = [closers EXCEPT ![w] = @ - 1]
    /\ excused' = excused \cup {sender[w][i]}
    /\ Sends(w, i, Off)
    /\ UNCHANGED <<couch, task, slots, pools, runs, queue, run, push, running, down, toClose>>

-----------------------------------------------------------------------------
(* ShutdownWorkers.                                                        *)

ShutdownWorkers(p) ==
    /\ running[p]
    /\ running' = [running EXCEPT ![p] = FALSE]
    /\ down' = [down EXCEPT ![p] = "closing"]
    /\ toClose' = toClose \cup PoolsOf(p)
    /\ UNCHANGED <<workerVars, queue, run, sender, closers, push>>

\* close, under q.jmu: a goroutine will tell send, if it runs.
CloseQueue(w) ==
    /\ w \in toClose
    /\ toClose' = toClose \ {w}
    /\ run' = [run EXCEPT ![w] = FALSE]
    /\ closers' = [closers EXCEPT ![w] = IF run[w] THEN @ + 1 ELSE @]
    /\ UNCHANGED <<workerVars, queue, sender, push, running, down>>

StopPool(w) ==
    /\ down[w[1]] = "closing" /\ PoolsOf(w[1]) \cap toClose = {}
    /\ StopWorker(w)
    /\ UNCHANGED memVars
PoolStopped(w) == Stopped(w) /\ UNCHANGED memVars
PoolExpires(w) == StopExpires(w) /\ UNCHANGED memVars

ShutdownReturns(p) ==
    /\ down[p] = "closing"
    /\ \A w \in PoolsOf(p) : stop[w] \in {"ok", "late"}
    /\ down' = [down EXCEPT ![p] = IF \A w \in PoolsOf(p) : stop[w] = "ok"
                                   THEN "ok" ELSE "failed"]
    /\ UNCHANGED <<workerVars, queue, run, sender, closers, push, running, toClose>>

-----------------------------------------------------------------------------
(* The end of the process, and its next start: the queues were in memory.  *)

InMemory(p) ==
    {j \in Job : \/ push[j] # <<>> /\ push[j][1] = p
                 \/ \E w \in PoolsOf(p) : Contains(queue[w], j)
                 \/ \E w \in PoolsOf(p), i \in Sender : sender[w][i] = j
                 \/ \E g \in WorkersOf(p) : Holds(g, j)}

Restart(p) ==
    /\ DiesWith(p)
    /\ excused' = excused \cup InMemory(p)
    /\ queue' = [w \in Pool |-> IF w[1] = p THEN <<>> ELSE queue[w]]
    /\ run' = [w \in Pool |-> w[1] # p /\ run[w]]
    /\ sender' = [w \in Pool |-> IF w[1] = p THEN [i \in Sender |-> Off] ELSE sender[w]]
    /\ closers' = [w \in Pool |-> IF w[1] = p THEN 0 ELSE closers[w]]
    /\ push' = [j \in Job |-> IF j \in InMemory(p) THEN <<>> ELSE push[j]]
    /\ running' = [running EXCEPT ![p] = TRUE]
    /\ down' = [down EXCEPT ![p] = "no"] /\ toClose' = toClose \ PoolsOf(p)
    /\ UNCHANGED <<couch, runs>>

Crash(p) == Restart(p)
Exit(p) == down[p] \in {"ok", "failed"} /\ Restart(p)

\* The select of send on a channel that Worker.Shutdown has closed: the
\* goroutine panics, and the process dies with its tasks.
SendsOnClosed(w, i) == sender[w][i] \in Job /\ chan[w] = "closed"
SendPanics(w, i) == SendsOnClosed(w, i) /\ Restart(w[1])

-----------------------------------------------------------------------------
SenderProgress(w, i) == Take(w, i) \/ SendJob(w, i) \/ SendClosed(w, i)

ShutdownProgress(p) ==
    \/ ShutdownReturns(p) \/ Exit(p)
    \/ \E w \in PoolsOf(p) : CloseQueue(w) \/ StopPool(w) \/ PoolStopped(w)

Next ==
    \/ \E p \in Process, j \in Job : PushJob(p, j)
    \/ \E j \in Job : Create(j) \/ Enqueue(j)
    \/ \E j \in Job : (CleanJob(j) \/ PurgeJob(j)) /\ UNCHANGED memVars
    \/ \E w \in Pool, i \in Sender : SenderProgress(w, i) \/ SendPanics(w, i)
    \/ \E g \in Worker : WorkerStep(g) /\ UNCHANGED memVars
    \/ \E w \in Pool : PoolExpires(w)
    \/ \E p \in Process : ShutdownWorkers(p) \/ ShutdownProgress(p) \/ Crash(p)

Spec == Init /\ [][Next]_vars

-----------------------------------------------------------------------------
(* Properties.                                                             *)

\* Type correctness of CouchDB, the queues and the pools.
TypeOK ==
    /\ WorkerTypeOK
    /\ queue \in [Pool -> Seq(Job)]
    /\ run \in [Pool -> BOOLEAN]
    /\ sender \in [Pool -> [Sender -> Job \cup {NoJob, Off}]]
    /\ closers \in [Pool -> Nat]
    /\ push \in [Job -> {<<>>} \cup (Process \X {"create", "enqueue"})]
    /\ running \in [Process -> BOOLEAN]
    /\ down \in [Process -> {"no", "closing", "ok", "failed"}]
    /\ toClose \subseteq Pool

\* No wake-up is lost between Enqueue and the end of send: while the broker
\* runs, a queue that has jobs has one goroutine to send them, never two, so
\* jobs of a type are sent in the order in which they were queued.
OneSender ==
    \A w \in Pool : running[w[1]] =>
        /\ Cardinality(Alive(w)) <= 1
        /\ queue[w] # <<>> => Alive(w) # {}

\* Without a failure, a crash or a shutdown, a job whose document says queued
\* or running is on its way.
NoJobLost ==
    \A j \in Job : doc[j] \in {"queued", "running"} /\ j \notin excused => Known(j)
=============================================================================
