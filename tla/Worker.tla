------------------------------- MODULE Worker -------------------------------
(***************************************************************************)
(* The worker pools of the job system (model/job/worker.go): what a Worker *)
(* does with the jobs that a broker sends on its channel, in each process  *)
(* and for each worker type.                                               *)
(*                                                                         *)
(* A pool has Concurrency goroutines that range over the channel of jobs.  *)
(* A goroutine notes in CouchDB that the job is running, runs it in a task *)
(* goroutine (retries, slots shared by the pools of the process), and then *)
(* notes its end.  Shutdown closes the channel, cancels the tasks and      *)
(* waits for the goroutines.                                               *)
(*                                                                         *)
(* The module has no specification of its own: RedisBroker and MemBroker   *)
(* extend it with the ways jobs come in and processes stop.                *)
(***************************************************************************)
EXTENDS Integers, FiniteSets, Sequences

CONSTANTS
    Process,       \* the cozy-stack processes
    Kind,          \* the worker types
    Routine,       \* goroutines of a pool: Cardinality(Routine) = Concurrency
    Job, NoJob,
    MaxExecCount,  \* of the configuration, after defaultedConf
    NbSlots        \* jobs.workers in the configuration file, 0 for no limit

ASSUME WorkerAssumption ==
    /\ NoJob \notin Job
    /\ IsFiniteSet(Kind) /\ IsFiniteSet(Routine) /\ Routine # {}
    /\ MaxExecCount \in Nat \ {0} /\ NbSlots \in Nat

Pool == Process \X Kind
Worker == Pool \X Routine
Concurrency == Cardinality(Routine)

VARIABLES
    doc,      \* state of the document of each job in CouchDB, or "none"
    stale,    \* jobs whose copy in memory has an old revision
    task,     \* what each worker goroutine and its task goroutine do
    slots,    \* free slots of each process
    chan,     \* the channel of jobs of each pool, "open" or "closed"
    closing,  \* number of messages in the channel w.closing of each pool
    stop,     \* progress of Worker.Shutdown
    runs,     \* history: executions of each job
    excused   \* history: jobs hit by a failure or dropped on purpose

couch == <<doc, stale>>
pools == <<chan, closing, stop>>
history == <<runs, excused>>
workerVars == <<couch, task, slots, pools, history>>

Idle == [pc |-> "idle", job |-> NoJob, execs |-> 0, err |-> "nil", cancelled |-> FALSE]
Running == {"next", "slot", "exec", "over"}   \* the task goroutine exists
Busy == {"ack", "retire"} \cup Running
Holds(g, j) == task[g].pc \in Busy /\ task[g].job = j
WorkersOf(p) == {g \in Worker : g[1][1] = p}

WorkerInit ==
    /\ doc = [j \in Job |-> "none"] /\ stale = {}
    /\ task = [g \in Worker |-> Idle]
    /\ slots = [p \in Process |-> NbSlots]
    /\ chan = [w \in Pool |-> "open"]
    /\ closing = [w \in Pool |-> 0]
    /\ stop = [w \in Pool |-> "up"]
    /\ runs = [j \in Job |-> 0] /\ excused = {}

Goto(g, pc) == task' = [task EXCEPT ![g] = [@ EXCEPT !.pc = pc]]
Free(g) == task' = [task EXCEPT ![g] = Idle]

-----------------------------------------------------------------------------
(* The document of a job: Job.Update.                                      *)

\* The document is written when the copy in memory has its revision, and it is
\* created again when it has been deleted.
CanWrite(j) == j \notin stale \/ doc[j] = "none"
Writes(j, s) == doc' = [doc EXCEPT ![j] = s] /\ stale' = stale \ {j}

\* Mutant of Update: Update forces the write, whatever the revision.
UpdateForced(j, s) == Writes(j, s) /\ UNCHANGED excused

Update(j, s) ==
    /\ CanWrite(j) /\ Writes(j, s)
    /\ UNCHANGED excused

\* An error of CouchDB: a conflict, or a request that failed for its client.
UpdateError(j, s) ==
    \/ ~CanWrite(j) /\ UNCHANGED <<doc, stale, excused>>
    \/ /\ UNCHANGED <<doc, stale>> \/ (CanWrite(j) /\ Writes(j, s))
       /\ excused' = excused \cup {j}

-----------------------------------------------------------------------------
(* Worker.work and runTask.                                                *)

\* A goroutine receives a job from the channel.
Receive(g, j) ==
    /\ task[g].pc = "idle" /\ chan[g[1]] = "open"
    /\ task' = [task EXCEPT ![g] = [Idle EXCEPT !.pc = "ack", !.job = j]]

\* No domain, no instance or terms of services not signed: the job is dropped.
Skip(g) ==
    /\ task[g].pc = "ack"
    /\ excused' = excused \cup {task[g].job}
    /\ Free(g)
    /\ UNCHANGED <<couch, slots, pools, runs>>

\* When the update of AckConsumed fails, the job is not executed.
AckConsumed(g) ==
    LET j == task[g].job IN
    /\ task[g].pc = "ack"
    /\ \/ Update(j, "running") /\ Goto(g, "next")
       \/ UpdateError(j, "running") /\ Free(g)
    /\ UNCHANGED <<slots, pools, runs>>

\* WorkerStart returns an error, before the first execution.
StartFails(g) ==
    /\ task[g].pc = "next" /\ task[g].err = "nil"
    /\ \E e \in {"abort", "message", "bad", "fail"} :
         task' = [task EXCEPT ![g] = [@ EXCEPT !.pc = "over", !.err = e]]
    /\ UNCHANGED <<couch, slots, pools, history>>

Fatal == {"abort", "message", "bad"}   \* ErrAbort, ErrMessage*, BadTriggerError

\* Mutant of Retries: the first execution is not counted.
RetriesOneMore(g) == task[g].err \notin Fatal /\ task[g].execs <= MaxExecCount

Retries(g) == task[g].err \notin Fatal /\ task[g].execs < MaxExecCount

\* nextDelay, then the error hook, which lets a first execution go.
NextDelay(g) ==
    /\ task[g].pc = "next"
    /\ \/ Retries(g) /\ Goto(g, "slot")
       \/ (~Retries(g) \/ task[g].err # "nil") /\ Goto(g, "over")
    /\ UNCHANGED <<couch, slots, pools, history>>

\* exec: after the delay, a slot and the worker function.
ExecStart(g) ==
    LET p == g[1][1] IN
    /\ task[g].pc = "slot"
    /\ IF NbSlots = 0 THEN UNCHANGED slots
       ELSE slots[p] > 0 /\ slots' = [slots EXCEPT ![p] = @ - 1]
    /\ Goto(g, "exec")
    /\ runs' = [runs EXCEPT ![task[g].job] = @ + 1]
    /\ UNCHANGED <<couch, pools, excused>>

SlotBack(g) ==
    slots' = IF NbSlots = 0 THEN slots ELSE [slots EXCEPT ![g[1][1]] = @ + 1]

\* Mutant of ExecEnd: the slot is given back on success only.
ExecEndLeaks(g) ==
    /\ task[g].pc = "exec"
    /\ \/ /\ SlotBack(g)
          /\ task' = [task EXCEPT ![g] = [@ EXCEPT !.pc = "over", !.err = "nil"]]
       \/ /\ UNCHANGED slots
          /\ task' = [task EXCEPT ![g] = [@ EXCEPT !.pc = "next", !.err = "fail",
                                                   !.execs = task[g].execs + 1]]
    /\ UNCHANGED <<couch, pools, history>>

\* The function returns, panics, or gives up when its context is done; it may
\* have asked for no retry.
ExecEnd(g) ==
    /\ task[g].pc = "exec"
    /\ SlotBack(g)
    /\ \/ task' = [task EXCEPT ![g] = [@ EXCEPT !.pc = "over", !.err = "nil"]]
       \/ \E e \in Fatal \cup {"fail"}, pc \in {"next", "over"} :
            task' = [task EXCEPT ![g] = [@ EXCEPT !.pc = pc, !.err = e,
                                                  !.execs = task[g].execs + 1]]
    /\ UNCHANGED <<couch, pools, history>>

\* The select of runTask takes a message of w.closing, and cancels the task.
Cancel(g) ==
    LET w == g[1] IN
    /\ task[g].pc \in Running /\ ~task[g].cancelled
    /\ closing[w] > 0
    /\ closing' = [closing EXCEPT ![w] = @ - 1]
    /\ task' = [task EXCEPT ![g] = [@ EXCEPT !.cancelled = TRUE]]
    /\ UNCHANGED <<couch, slots, chan, stop, history>>

Final(g) == IF task[g].err \in {"nil", "abort"} THEN "done" ELSE "errored"

\* The result of the task is received: Ack or Nack, whose errors are logged.
Finish(g) ==
    LET j == task[g].job IN
    /\ task[g].pc = "over"
    /\ Update(j, Final(g)) \/ UpdateError(j, Final(g))
    /\ IF task[g].err = "bad" THEN Goto(g, "retire") ELSE Free(g)
    /\ UNCHANGED <<slots, pools, runs>>

\* DeleteTrigger of the scheduler, whose errors are ignored: for the triggers it
\* is one more request, DeleteDoc of RedisScheduler.
Retire(g) ==
    /\ task[g].pc = "retire"
    /\ Free(g)
    /\ UNCHANGED <<couch, slots, pools, history>>

\* The range over a closed channel ends, and the goroutine tells Shutdown.
LeaveRange(g) ==
    /\ task[g].pc = "idle" /\ chan[g[1]] = "closed"
    /\ Goto(g, "leaving")
    /\ UNCHANGED <<couch, slots, pools, history>>

Left(g) ==
    /\ task[g].pc = "leaving" /\ stop[g[1]] = "waiting"
    /\ Goto(g, "left")
    /\ UNCHANGED <<couch, slots, pools, history>>

-----------------------------------------------------------------------------
(* Worker.Shutdown.                                                        *)

\* Mutant of StopWorker: one message for the whole pool.
StopWorkerOnce(w) ==
    /\ stop[w] = "up"
    /\ chan' = [chan EXCEPT ![w] = "closed"]
    /\ closing' = [closing EXCEPT ![w] = 1]
    /\ stop' = [stop EXCEPT ![w] = "waiting"]
    /\ UNCHANGED <<couch, task, slots, history>>

StopWorker(w) ==
    /\ stop[w] = "up"
    /\ chan' = [chan EXCEPT ![w] = "closed"]
    /\ closing' = [closing EXCEPT ![w] = Concurrency]
    /\ stop' = [stop EXCEPT ![w] = "waiting"]
    /\ UNCHANGED <<couch, task, slots, history>>

\* Mutant of Stopped: one goroutine is enough.
StoppedEarly(w) ==
    /\ stop[w] = "waiting"
    /\ \E r \in Routine : task[<<w, r>>].pc = "left"
    /\ stop' = [stop EXCEPT ![w] = "ok"]
    /\ UNCHANGED <<couch, task, slots, chan, closing, history>>

\* Shutdown has heard of every goroutine, or its context is done.
Stopped(w) ==
    /\ stop[w] = "waiting"
    /\ \A r \in Routine : task[<<w, r>>].pc = "left"
    /\ stop' = [stop EXCEPT ![w] = "ok"]
    /\ UNCHANGED <<couch, task, slots, chan, closing, history>>

StopExpires(w) ==
    /\ stop[w] = "waiting"
    /\ stop' = [stop EXCEPT ![w] = "late"]
    /\ UNCHANGED <<couch, task, slots, chan, closing, history>>

-----------------------------------------------------------------------------
(* Requests of users and administrators on the documents.                  *)

\* POST /jobs/clean: a job running for an hour, or queued, is said done.  The
\* revision that was read is the one that is written.
CleanJob(j) ==
    /\ doc[j] \in {"queued", "running"}
    /\ doc' = [doc EXCEPT ![j] = "done"]
    /\ stale' = stale \cup {j}
    /\ UNCHANGED <<task, slots, pools, history>>

\* DELETE /jobs/purge, and the deletion of the database before an import.
PurgeJob(j) ==
    /\ doc[j] # "none"
    /\ doc' = [doc EXCEPT ![j] = "none"]
    /\ UNCHANGED <<stale, task, slots, pools, history>>

\* What the runtime makes a goroutine and its task do next.
WorkerProgress(g) ==
    \/ AckConsumed(g) \/ NextDelay(g) \/ ExecStart(g) \/ ExecEnd(g) \/ Finish(g)
    \/ Retire(g) \/ LeaveRange(g) \/ Left(g)

WorkerStep(g) == WorkerProgress(g) \/ Skip(g) \/ StartFails(g) \/ Cancel(g)

\* The goroutines of a process are gone, with its slots and its channels.
DiesWith(p) ==
    /\ task' = [g \in Worker |-> IF g[1][1] = p THEN Idle ELSE task[g]]
    /\ slots' = [slots EXCEPT ![p] = NbSlots]
    /\ chan' = [w \in Pool |-> IF w[1] = p THEN "open" ELSE chan[w]]
    /\ closing' = [w \in Pool |-> IF w[1] = p THEN 0 ELSE closing[w]]
    /\ stop' = [w \in Pool |-> IF w[1] = p THEN "up" ELSE stop[w]]

-----------------------------------------------------------------------------
(* Properties, shared by the two brokers.                                  *)

WorkerTypeOK ==
    /\ doc \in [Job -> {"none", "queued", "running", "done", "errored"}]
    /\ stale \subseteq Job
    /\ task \in [Worker -> [pc: Busy \cup {"idle", "leaving", "left"},
                            job: Job \cup {NoJob}, execs: 0..MaxExecCount,
                            err: Fatal \cup {"nil", "fail"}, cancelled: BOOLEAN]]
    /\ slots \in [Process -> 0..NbSlots]
    /\ chan \in [Pool -> {"open", "closed"}]
    /\ closing \in [Pool -> 0..Concurrency]
    /\ stop \in [Pool -> {"up", "waiting", "ok", "late"}]
    /\ runs \in [Job -> Nat] /\ excused \subseteq Job

\* Over its whole life, through crashes, restarts and retries, a job is
\* executed at most MaxExecCount times.
ExecBound == \A j \in Job : runs[j] <= MaxExecCount

\* The slots of a process are neither lost nor multiplied, whatever the way an
\* execution ends (success, error, panic, cancellation): the free ones and the
\* executions under way add up, so the hard limit of concurrent executions
\* holds and never shrinks.
Executing(p) == {g \in WorkersOf(p) : task[g].pc = "exec"}
SlotsConserved ==
    NbSlots > 0 => \A p \in Process : slots[p] + Cardinality(Executing(p)) = NbSlots

\* While Shutdown waits, there is a message on w.closing for each task that it
\* has not cancelled: none is left to run until its own timeout because another
\* goroutine of the pool took two.
ToCancel(w) == {r \in Routine : task[<<w, r>>].pc \in Running /\ ~task[<<w, r>>].cancelled}
EachTaskCancellable ==
    \A w \in Pool : stop[w] # "up" => closing[w] >= Cardinality(ToCancel(w))
=============================================================================
