---------------------------- MODULE WorkerProofs ----------------------------
(***************************************************************************)
(* What the steps of the worker pools keep true, for any number of         *)
(* processes, worker types and goroutines.  The two brokers extend Worker, *)
(* and their proofs extend this module: the lemmas speak of single steps,  *)
(* since Worker has no specification of its own.                           *)
(***************************************************************************)
EXTENDS Worker, FiniteSetTheorems, TLAPS

Tasks == [pc: Busy \cup {"idle", "leaving", "left"},
          job: Job \cup {NoJob}, execs: 0..MaxExecCount,
          err: Fatal \cup {"nil", "fail"}, cancelled: BOOLEAN]

\* WorkerTypeOK in two halves: the pools, and the jobs.
PoolTypes ==
    /\ task \in [Worker -> Tasks]
    /\ slots \in [Process -> 0..NbSlots]
    /\ chan \in [Pool -> {"open", "closed"}]
    /\ closing \in [Pool -> 0..Concurrency]
    /\ stop \in [Pool -> {"up", "waiting", "ok", "late"}]
JobTypes ==
    /\ doc \in [Job -> {"none", "queued", "running", "done", "errored"}]
    /\ stale \subseteq Job
    /\ runs \in [Job -> Nat] /\ excused \subseteq Job

-----------------------------------------------------------------------------
(* The rules of the pools.                                                 *)

\* An execution is counted when it ends, and nextDelay has checked the count.
ExecsLeft ==
    \A g \in Worker : task[g].pc \in {"slot", "exec"} => task[g].execs < MaxExecCount

\* The goroutines that a message of w.closing may still have to cancel: those
\* that run a task, and those that are about to.
Cancels(w) ==
    {r \in Routine : task[<<w, r>>].pc \in {"ack"} \cup Running /\ ~task[<<w, r>>].cancelled}
MessagesLeft == \A w \in Pool : stop[w] # "up" => closing[w] >= Cardinality(Cancels(w))

\* Shutdown starts by closing the channel, and ends well with everyone gone.
StopClosed == \A w \in Pool : stop[w] # "up" => chan[w] = "closed"
AllLeft == \A w \in Pool : stop[w] = "ok" => \A r \in Routine : task[<<w, r>>].pc = "left"

PoolRules == ExecsLeft /\ SlotsConserved /\ MessagesLeft /\ StopClosed /\ AllLeft
PoolInv == PoolTypes /\ PoolRules

-----------------------------------------------------------------------------
(* The rules of the jobs.                                                  *)

Live == {"queued", "running"}

\* What is known of the job of a goroutine: its executions are counted, and
\* its document is not left behind when the trigger is about to be deleted.
JobRule(g) ==
    task[g].pc \in Busy =>
        /\ task[g].job \in Job
        /\ task[g].pc = "ack" => task[g].execs = 0 /\ runs[task[g].job] = 0
        /\ task[g].pc \in {"next", "slot"} => runs[task[g].job] = task[g].execs
        /\ task[g].pc = "exec" => runs[task[g].job] = task[g].execs + 1
        /\ task[g].pc = "retire" => doc[task[g].job] \notin Live \/ task[g].job \in excused

\* A job is executed by one goroutine only.
HeldOnce == \A g, h \in Worker : \A j \in Job : Holds(g, j) /\ Holds(h, j) => g = h

\* The copy in memory only gets old when an administrator says the job done.
StaleEnded == \A j \in stale : doc[j] \notin Live

JobRules == (\A g \in Worker : JobRule(g)) /\ HeldOnce /\ StaleEnded /\ ExecBound
JobInv == JobTypes /\ JobRules

-----------------------------------------------------------------------------
LEMMA WorkerFields ==
    /\ \A g \in Worker : /\ g[1] \in Pool /\ g[2] \in Routine /\ g = <<g[1], g[2]>>
                         /\ g[1][1] \in Process
    /\ \A w \in Pool : w[1] \in Process /\ \A r \in Routine : <<w, r>> \in Worker
  BY DEF Worker, Pool

LEMMA TypesSplit == WorkerTypeOK <=> PoolTypes /\ JobTypes
  BY DEF WorkerTypeOK, PoolTypes, JobTypes, Tasks

LEMMA TaskFields ==
    ASSUME NEW t \in Tasks
    PROVE  /\ t.pc \in Busy \cup {"idle", "leaving", "left"} /\ t.job \in Job \cup {NoJob}
           /\ t.execs \in 0..MaxExecCount /\ t.err \in Fatal \cup {"nil", "fail"}
           /\ t.cancelled \in BOOLEAN
  BY DEF Tasks

LEMMA IdleTask == Idle \in Tasks /\ Idle.pc = "idle" /\ Idle.job = NoJob
  BY WorkerAssumption DEF Idle, Tasks

LEMMA RoutinesFinite ==
    /\ IsFiniteSet(Routine) /\ Concurrency \in Nat /\ Concurrency > 0
    /\ \A w \in Pool : /\ IsFiniteSet(Cancels(w)) /\ Cardinality(Cancels(w)) \in 0..Concurrency
                       /\ IsFiniteSet(ToCancel(w))
  <1>1. IsFiniteSet(Routine) /\ Concurrency \in Nat /\ Concurrency > 0
    BY WorkerAssumption, FS_CardinalityType, FS_EmptySet DEF Concurrency
  <1>2. ASSUME NEW w \in Pool
        PROVE  /\ IsFiniteSet(Cancels(w)) /\ Cardinality(Cancels(w)) \in 0..Concurrency
               /\ IsFiniteSet(ToCancel(w))
    <2>1. Cancels(w) \in SUBSET Routine /\ ToCancel(w) \in SUBSET Routine
      BY DEF Cancels, ToCancel
    <2>2. QED
      BY <1>1, <2>1, FS_Subset, FS_CardinalityType DEF Concurrency
  <1>3. QED
    BY <1>1, <1>2

LEMMA ExecutingFinite ==
    ASSUME NEW p \in Process
    PROVE  IsFiniteSet(Executing(p)) /\ Cardinality(Executing(p)) \in Nat
  <1> DEFINE all == ({p} \X Kind) \X Routine
  <1>1. IsFiniteSet({p} \X Kind)
    BY WorkerAssumption, FS_Singleton, FS_Product
  <1>2. IsFiniteSet(all)
    BY <1>1, WorkerAssumption, FS_Product
  <1>3. Executing(p) \in SUBSET all
    BY DEF Executing, WorkersOf, Worker, Pool
  <1>4. QED
    BY <1>2, <1>3, FS_Subset, FS_CardinalityType

\* The invariants imply the properties of the pools that the runs check.
LEMMA PoolInvImplies == PoolInv => SlotsConserved /\ EachTaskCancellable
  <1> SUFFICES ASSUME PoolInv PROVE EachTaskCancellable
    BY DEF PoolInv, PoolRules
  <1> SUFFICES ASSUME NEW w \in Pool, stop[w] # "up"
               PROVE  closing[w] >= Cardinality(ToCancel(w))
    BY DEF EachTaskCancellable
  <1>1. ToCancel(w) \in SUBSET Cancels(w)
    BY DEF ToCancel, Cancels
  <1>2. Cardinality(ToCancel(w)) <= Cardinality(Cancels(w))
    BY <1>1, RoutinesFinite, FS_Subset
  <1>3. closing[w] >= Cardinality(Cancels(w))
    BY DEF PoolInv, PoolRules, MessagesLeft
  <1>4. closing[w] \in Int /\ Cardinality(Cancels(w)) \in Int /\ Cardinality(ToCancel(w)) \in Int
    BY RoutinesFinite, FS_CardinalityType DEF PoolInv, PoolTypes
  <1>5. QED
    BY <1>2, <1>3, <1>4

-----------------------------------------------------------------------------
(* A step of one goroutine.                                                *)

Moves(g, t) == task' = [task EXCEPT ![g] = t]

LEMMA TaskMoves ==
    ASSUME PoolTypes, NEW g \in Worker, NEW t \in Tasks, Moves(g, t)
    PROVE  /\ task' \in [Worker -> Tasks] /\ task'[g] = t
           /\ \A h \in Worker : h # g => task'[h] = task[h]
  BY DEF Moves, PoolTypes

\* The free slots, when no execution starts or ends.
LEMMA SlotsKept ==
    ASSUME SlotsConserved, NEW S \in SUBSET Process, \A p \in S : slots'[p] = slots[p],
           \A g \in Worker : g[1][1] \in S => (task'[g].pc = "exec" <=> task[g].pc = "exec"),
           NbSlots > 0, NEW p \in S
    PROVE  slots'[p] + Cardinality(Executing(p))' = NbSlots
  <1>1. Executing(p)' = Executing(p)
    BY DEF Executing, WorkersOf
  <1>2. QED
    BY <1>1 DEF SlotsConserved

\* The messages that are left, when fewer goroutines need one.
LEMMA MessagesKept ==
    ASSUME PoolTypes, MessagesLeft, NEW w \in Pool,
           stop'[w] # "up" => stop[w] # "up", closing'[w] = closing[w],
           \A r \in Routine : r \in Cancels(w)' => r \in Cancels(w),
           stop'[w] # "up"
    PROVE  closing'[w] >= Cardinality(Cancels(w))'
  <1>1. Cancels(w)' \in SUBSET Cancels(w)
    BY DEF Cancels
  <1>2. Cardinality(Cancels(w)') <= Cardinality(Cancels(w)) /\ Cardinality(Cancels(w)') \in Nat
    BY <1>1, RoutinesFinite, FS_Subset, FS_CardinalityType
  <1>3. closing[w] >= Cardinality(Cancels(w)) /\ closing[w] \in Int /\ Cardinality(Cancels(w)) \in Int
    BY RoutinesFinite DEF MessagesLeft, PoolTypes
  <1>4. QED
    BY <1>2, <1>3

\* A goroutine that moves without a slot, a message nor the job of a channel.
LEMMA QuietMove ==
    ASSUME PoolInv, NEW g \in Worker, NEW t \in Tasks, Moves(g, t), UNCHANGED <<slots, pools>>,
           t.pc = "exec" <=> task[g].pc = "exec",
           t.pc \in {"ack"} \cup Running => task[g].pc \in {"ack"} \cup Running,
           t.cancelled = task[g].cancelled \/ t = Idle,
           t.pc \in {"slot", "exec"} => t.execs < MaxExecCount,
           task[g].pc = "left" => t.pc = "left"
    PROVE  PoolInv'
  <1>1. /\ task' \in [Worker -> Tasks] /\ task'[g] = t
        /\ \A h \in Worker : h # g => task'[h] = task[h]
    BY TaskMoves DEF PoolInv
  <1>2. UNCHANGED <<slots, chan, closing, stop>>
    BY DEF pools
  <1>3. PoolTypes'
    BY <1>1, <1>2 DEF PoolInv, PoolTypes
  <1>4. ExecsLeft' /\ StopClosed'
    BY <1>1, <1>2 DEF PoolInv, PoolRules, ExecsLeft, StopClosed
  <1>5. AllLeft'
    BY <1>1, <1>2, WorkerFields DEF PoolInv, PoolRules, AllLeft
  <1>6. SlotsConserved'
    BY <1>1, <1>2, SlotsKept, WorkerFields DEF PoolInv, PoolRules, SlotsConserved
  <1>7. MessagesLeft'
    <2> SUFFICES ASSUME NEW w \in Pool, stop'[w] # "up"
                 PROVE  closing'[w] >= Cardinality(Cancels(w))'
      BY DEF MessagesLeft
    <2>1. \A r \in Routine : r \in Cancels(w)' => r \in Cancels(w)
      BY <1>1, WorkerFields DEF Cancels, Idle, Running
    <2>2. QED
      BY <1>2, <2>1, MessagesKept DEF PoolInv, PoolRules
  <1>8. QED
    BY <1>3, <1>4, <1>5, <1>6, <1>7 DEF PoolInv, PoolRules

LEMMA ExecStartPool == ASSUME PoolInv, NEW g \in Worker, ExecStart(g) PROVE PoolInv'
  <1> DEFINE p == g[1][1]
             t == [task[g] EXCEPT !.pc = "exec"]
  <1>1. /\ t \in Tasks /\ t.pc = "exec" /\ t.cancelled = task[g].cancelled
        /\ t.execs = task[g].execs /\ task[g].pc = "slot"
    BY DEF PoolInv, PoolTypes, Tasks, ExecStart, Busy, Running
  <1>2. Moves(g, t)
    BY DEF ExecStart, Goto, Moves
  <1>3. /\ task' \in [Worker -> Tasks] /\ task'[g] = t
        /\ \A h \in Worker : h # g => task'[h] = task[h]
    BY <1>1, <1>2, TaskMoves DEF PoolInv
  <1>4. UNCHANGED <<chan, closing, stop>>
    BY DEF ExecStart, pools
  <1>5. PoolTypes'
    BY <1>3, <1>4, WorkerAssumption, WorkerFields DEF PoolInv, PoolTypes, ExecStart
  <1>6. ExecsLeft' /\ StopClosed'
    BY <1>1, <1>3, <1>4 DEF PoolInv, PoolRules, ExecsLeft, StopClosed
  <1>7. AllLeft'
    BY <1>1, <1>3, <1>4, WorkerFields DEF PoolInv, PoolRules, AllLeft
  <1>8. SlotsConserved'
    <2> SUFFICES ASSUME NbSlots > 0, NEW q \in Process
                 PROVE  slots'[q] + Cardinality(Executing(q))' = NbSlots
      BY DEF SlotsConserved
    <2>1. CASE q # p
      <3>1. Executing(q)' = Executing(q)
        BY <1>3, <2>1 DEF Executing, WorkersOf
      <3>2. slots'[q] = slots[q]
        BY <2>1 DEF ExecStart, PoolInv, PoolTypes
      <3>3. QED
        BY <3>1, <3>2 DEF PoolInv, PoolRules, SlotsConserved
    <2>2. CASE q = p
      <3>1. Executing(q)' = Executing(q) \cup {g} /\ g \notin Executing(q)
        BY <1>1, <1>3, <2>2 DEF Executing, WorkersOf
      <3>2. Cardinality(Executing(q))' = Cardinality(Executing(q)) + 1
        BY <3>1, ExecutingFinite, FS_AddElement
      <3>3. slots'[q] = slots[q] - 1 /\ slots[q] \in Int
        BY <2>2, WorkerAssumption DEF ExecStart, PoolInv, PoolTypes
      <3>4. slots[q] + Cardinality(Executing(q)) = NbSlots
        BY DEF PoolInv, PoolRules, SlotsConserved
      <3>5. QED
        BY <3>2, <3>3, <3>4, ExecutingFinite
    <2>3. QED
      BY <2>1, <2>2
  <1>9. MessagesLeft'
    <2> SUFFICES ASSUME NEW w \in Pool, stop'[w] # "up"
                 PROVE  closing'[w] >= Cardinality(Cancels(w))'
      BY DEF MessagesLeft
    <2>1. \A r \in Routine : r \in Cancels(w)' => r \in Cancels(w)
      BY <1>1, <1>3, WorkerFields DEF Cancels, Running
    <2>2. QED
      BY <1>4, <2>1, MessagesKept DEF PoolInv, PoolRules
  <1>10. QED
    BY <1>5, <1>6, <1>7, <1>8, <1>9 DEF PoolInv, PoolRules

LEMMA ExecEndPool == ASSUME PoolInv, NEW g \in Worker, ExecEnd(g) PROVE PoolInv'
  <1> DEFINE p == g[1][1]
  <1>1. PICK t \in Tasks : /\ Moves(g, t) /\ t.pc \in {"next", "over"}
                           /\ t.cancelled = task[g].cancelled
    <2>0. task[g] \in Tasks /\ task[g].pc = "exec"
      BY DEF PoolInv, PoolTypes, ExecEnd
    <2>1. task[g].execs + 1 \in 0..MaxExecCount
      <3>1. task[g].execs \in 0..MaxExecCount /\ MaxExecCount \in Nat
        BY <2>0, TaskFields, WorkerAssumption
      <3>2. task[g].execs < MaxExecCount
        BY <2>0 DEF PoolInv, PoolRules, ExecsLeft
      <3>3. QED
        BY <3>1, <3>2
    <2>2. CASE task' = [task EXCEPT ![g] = [@ EXCEPT !.pc = "over", !.err = "nil"]]
      <3> DEFINE t == [task[g] EXCEPT !.pc = "over", !.err = "nil"]
      <3>1. t \in Tasks /\ t.pc \in {"next", "over"} /\ t.cancelled = task[g].cancelled
        BY <2>0 DEF Tasks, Busy, Running
      <3>2. QED
        BY <2>2, <3>1 DEF Moves
    <2>3. ASSUME NEW e \in Fatal \cup {"fail"}, NEW pc \in {"next", "over"},
                 task' = [task EXCEPT ![g] = [@ EXCEPT !.pc = pc, !.err = e,
                                                       !.execs = task[g].execs + 1]]
          PROVE  \E t \in Tasks : /\ Moves(g, t) /\ t.pc \in {"next", "over"}
                                  /\ t.cancelled = task[g].cancelled
      <3> DEFINE t == [task[g] EXCEPT !.pc = pc, !.err = e, !.execs = task[g].execs + 1]
      <3>1. t \in Tasks /\ t.pc \in {"next", "over"} /\ t.cancelled = task[g].cancelled
        BY <2>0, <2>1 DEF Tasks, Busy, Running
      <3>2. Moves(g, t)
        BY <2>3 DEF Moves
      <3>3. QED
        BY <3>1, <3>2
    <2>4. QED
      BY <2>2, <2>3 DEF ExecEnd
  <1>2. task[g].pc = "exec"
    BY DEF ExecEnd
  <1>3. /\ task' \in [Worker -> Tasks] /\ task'[g] = t
        /\ \A h \in Worker : h # g => task'[h] = task[h]
    BY <1>1, TaskMoves, Zenon DEF PoolInv
  <1>4. UNCHANGED <<chan, closing, stop>>
    BY DEF ExecEnd, pools
  <1>5. SlotsConserved' /\ slots' \in [Process -> 0..NbSlots]
    <2>1. CASE NbSlots = 0
      <3>1. slots' = slots
        BY <2>1 DEF ExecEnd, SlotBack
      <3>2. QED
        BY <2>1, <3>1, SMTT(30) DEF SlotsConserved, PoolInv, PoolTypes
    <2>2. CASE NbSlots > 0
      <3>0. slots' = [slots EXCEPT ![p] = slots[p] + 1] /\ slots \in [Process -> 0..NbSlots]
        <4>1. SlotBack(g)
          BY DEF ExecEnd
        <4>2. slots \in [Process -> 0..NbSlots]
          BY DEF PoolInv, PoolTypes
        <4>3. slots' = [slots EXCEPT ![p] = slots[p] + 1]
          BY <2>2, <4>1 DEF SlotBack
        <4>4. QED
          BY <4>2, <4>3, Zenon
      <3>1. ASSUME NEW q \in Process
            PROVE  /\ slots'[q] + Cardinality(Executing(q))' = NbSlots
                   /\ slots'[q] \in 0..NbSlots
        <4>1. /\ slots[q] + Cardinality(Executing(q)) = NbSlots
              /\ slots[q] \in 0..NbSlots /\ Cardinality(Executing(q)) \in Nat
          BY <2>2, ExecutingFinite DEF PoolInv, PoolTypes, PoolRules, SlotsConserved
        <4>2. CASE q # p
          <5>1. Executing(q)' = Executing(q)
            BY <1>3, <4>2 DEF Executing, WorkersOf
          <5>2. slots'[q] = slots[q]
            BY <3>0, <4>2
          <5>3. QED
            BY <4>1, <5>1, <5>2
        <4>3. CASE q = p
          <5>1. Executing(q)' = Executing(q) \ {g} /\ g \in Executing(q)
            BY <1>1, <1>2, <1>3, <4>3 DEF Executing, WorkersOf
          <5>2. Cardinality(Executing(q))' = Cardinality(Executing(q)) - 1
            BY <5>1, ExecutingFinite, FS_RemoveElement
          <5>3. Cardinality(Executing(q)) > 0
            BY <5>1, <4>1, ExecutingFinite, FS_EmptySet
          <5>4. slots'[q] = slots[q] + 1
            BY <3>0, <4>3
          <5>5. QED
            BY <4>1, <5>2, <5>3, <5>4, WorkerAssumption
        <4>4. QED
          BY <4>2, <4>3
      <3>2. slots' = [q \in Process |-> slots'[q]]
        BY <3>0
      <3>3. QED
        BY <3>1, <3>2 DEF SlotsConserved
    <2>3. QED
      BY <2>1, <2>2, WorkerAssumption
  <1>6. PoolTypes'
    BY <1>3, <1>4, <1>5 DEF PoolInv, PoolTypes
  <1>7. ExecsLeft' /\ StopClosed'
    BY <1>1, <1>3, <1>4 DEF PoolInv, PoolRules, ExecsLeft, StopClosed
  <1>8. AllLeft'
    BY <1>2, <1>3, <1>4, WorkerFields DEF PoolInv, PoolRules, AllLeft
  <1>9. MessagesLeft'
    <2> SUFFICES ASSUME NEW w \in Pool, stop'[w] # "up"
                 PROVE  closing'[w] >= Cardinality(Cancels(w))'
      BY DEF MessagesLeft
    <2>1. \A r \in Routine : r \in Cancels(w)' => r \in Cancels(w)
      BY <1>1, <1>2, <1>3, WorkerFields DEF Cancels, Running
    <2>2. QED
      BY <1>4, <2>1, MessagesKept DEF PoolInv, PoolRules
  <1>10. QED
    BY <1>5, <1>6, <1>7, <1>8, <1>9, Zenon DEF PoolInv, PoolRules

LEMMA GotoQuiet ==
    ASSUME PoolInv, NEW g \in Worker, NEW pc \in Busy \cup {"idle", "leaving", "left"},
           Goto(g, pc), UNCHANGED <<slots, pools>>,
           pc # "exec", task[g].pc # "exec", task[g].pc # "left",
           pc \in Running => task[g].pc \in {"ack"} \cup Running, pc # "ack",
           pc = "slot" => task[g].execs < MaxExecCount
    PROVE  PoolInv'
  <1> DEFINE t == [task[g] EXCEPT !.pc = pc]
  <1>1. task[g] \in Tasks
    BY DEF PoolInv, PoolTypes
  <1>2. /\ t \in Tasks /\ t.pc = pc /\ t.cancelled = task[g].cancelled
        /\ t.execs = task[g].execs
    BY <1>1 DEF Tasks
  <1>3. Moves(g, t)
    BY DEF Goto, Moves
  <1>4. QED
    BY <1>2, <1>3, QuietMove

LEMMA FreeQuiet ==
    ASSUME PoolInv, NEW g \in Worker, Free(g), UNCHANGED <<slots, pools>>,
           task[g].pc # "exec", task[g].pc # "left"
    PROVE  PoolInv'
  <1>1. Moves(g, Idle)
    BY DEF Free, Moves
  <1>2. Idle \in Tasks /\ Idle.pc \notin {"exec", "slot", "ack"} \cup Running
    BY IdleTask DEF Running
  <1>3. QED
    BY <1>1, <1>2, QuietMove

LEMMA QuietPool ==
    ASSUME PoolInv, NEW g \in Worker,
           \/ Skip(g) \/ AckConsumed(g) \/ StartFails(g) \/ NextDelay(g) \/ Finish(g)
           \/ Retire(g) \/ LeaveRange(g) \/ Left(g)
    PROVE  PoolInv'
  <1>1. CASE Skip(g)
    BY <1>1, FreeQuiet DEF Skip
  <1>2. CASE AckConsumed(g)
    <2>1. task[g].pc = "ack" /\ UNCHANGED <<slots, pools>> /\ (Goto(g, "next") \/ Free(g))
      BY <1>2 DEF AckConsumed
    <2>2. "next" \in Busy \cup {"idle", "leaving", "left"}
      BY DEF Busy, Running
    <2>3. QED
      BY <2>1, <2>2, FreeQuiet, GotoQuiet DEF Running
  <1>3. CASE StartFails(g)
    <2>1. PICK e \in {"abort", "message", "bad", "fail"} :
            task' = [task EXCEPT ![g] = [@ EXCEPT !.pc = "over", !.err = e]]
      BY <1>3 DEF StartFails
    <2>2. task[g] \in Tasks /\ task[g].pc = "next" /\ UNCHANGED <<slots, pools>>
      BY <1>3 DEF StartFails, PoolInv, PoolTypes
    <2> DEFINE t == [task[g] EXCEPT !.pc = "over", !.err = e]
    <2>3. t \in Tasks /\ t.pc = "over" /\ t.cancelled = task[g].cancelled
      BY <2>2 DEF Tasks, Busy, Running, Fatal
    <2>4. Moves(g, t)
      BY <2>1 DEF Moves
    <2>5. QED
      BY <2>2, <2>3, <2>4, QuietMove DEF Running
  <1>4. CASE NextDelay(g)
    <2>1. /\ task[g].pc = "next" /\ UNCHANGED <<slots, pools>>
          /\ \/ Goto(g, "slot") /\ task[g].execs < MaxExecCount
             \/ Goto(g, "over")
      BY <1>4 DEF NextDelay, Retries
    <2>2. {"slot", "over"} \subseteq Busy \cup {"idle", "leaving", "left"}
      BY DEF Busy, Running
    <2>3. QED
      BY <2>1, <2>2, GotoQuiet DEF Running
  <1>5. CASE Finish(g)
    <2>1. task[g].pc = "over" /\ UNCHANGED <<slots, pools>> /\ (Goto(g, "retire") \/ Free(g))
      BY <1>5 DEF Finish
    <2>2. "retire" \in Busy \cup {"idle", "leaving", "left"} /\ "retire" \notin Running
      BY DEF Busy, Running
    <2>3. QED
      BY <2>1, <2>2, FreeQuiet, GotoQuiet
  <1>6. CASE Retire(g)
    BY <1>6, FreeQuiet DEF Retire
  <1>7. CASE LeaveRange(g)
    <2>1. "leaving" \notin Running
      BY DEF Running
    <2>2. QED
      BY <1>7, <2>1, GotoQuiet DEF LeaveRange
  <1>8. CASE Left(g)
    <2>1. "left" \notin Running
      BY DEF Running
    <2>2. QED
      BY <1>8, <2>1, GotoQuiet DEF Left
  <1>9. QED
    BY <1>1, <1>2, <1>3, <1>4, <1>5, <1>6, <1>7, <1>8

LEMMA CancelPool == ASSUME PoolInv, NEW g \in Worker, Cancel(g) PROVE PoolInv'
  <1> DEFINE w == g[1]
             t == [task[g] EXCEPT !.cancelled = TRUE]
  <1>1. task[g] \in Tasks /\ task[g].pc \in Running /\ ~task[g].cancelled
    BY DEF PoolInv, PoolTypes, Cancel
  <1>2. t \in Tasks /\ t.pc = task[g].pc /\ t.cancelled /\ t.execs = task[g].execs
    BY <1>1 DEF Tasks
  <1>3. Moves(g, t)
    BY DEF Cancel, Moves
  <1>4. /\ task' \in [Worker -> Tasks] /\ task'[g] = t
        /\ \A h \in Worker : h # g => task'[h] = task[h]
    BY <1>2, <1>3, TaskMoves DEF PoolInv
  <1>5. UNCHANGED <<slots, chan, stop>>
    BY DEF Cancel
  <1>6. /\ closing \in [Pool -> 0..Concurrency] /\ w \in Pool /\ closing[w] > 0
        /\ closing' = [closing EXCEPT ![w] = closing[w] - 1]
    BY WorkerFields DEF Cancel, PoolInv, PoolTypes
  <1>7. /\ closing' \in [Pool -> 0..Concurrency] /\ closing'[w] = closing[w] - 1
        /\ \A v \in Pool : v # w => closing'[v] = closing[v]
    BY <1>6, RoutinesFinite
  <1>8. PoolTypes'
    BY <1>4, <1>5, <1>7 DEF PoolInv, PoolTypes
  <1>9. ExecsLeft' /\ StopClosed'
    BY <1>2, <1>4, <1>5 DEF PoolInv, PoolRules, ExecsLeft, StopClosed
  <1>14. \A h \in Worker : task'[h].pc = task[h].pc
    BY <1>2, <1>4
  <1>10. AllLeft'
    BY <1>5, <1>14, WorkerFields DEF PoolInv, PoolRules, AllLeft
  <1>11. SlotsConserved'
    <2>2. \A p \in Process : Executing(p)' = Executing(p)
      BY <1>14 DEF Executing, WorkersOf
    <2>3. QED
      BY <1>5, <2>2 DEF PoolInv, PoolRules, SlotsConserved
  <1>12. MessagesLeft'
    <2> SUFFICES ASSUME NEW v \in Pool, stop'[v] # "up"
                 PROVE  closing'[v] >= Cardinality(Cancels(v))'
      BY DEF MessagesLeft
    <2>1. CASE v # w
      <3>1. \A r \in Routine : r \in Cancels(v)' => r \in Cancels(v)
        BY <1>4, <2>1, WorkerFields DEF Cancels
      <3>2. QED
        BY <1>5, <1>7, <2>1, <3>1, MessagesKept DEF PoolInv, PoolRules
    <2>2. CASE v = w
      <3>0. g = <<w, g[2]>> /\ g[2] \in Routine /\ \A r \in Routine : <<w, r>> \in Worker
        BY <1>6, WorkerFields
      <3>1. /\ g[2] \in Cancels(w) /\ g[2] \notin Cancels(w)'
            /\ \A r \in Routine : r # g[2] => (r \in Cancels(w)' <=> r \in Cancels(w))
        <4>1. g[2] \in Cancels(w) /\ g[2] \notin Cancels(w)'
          BY <1>1, <1>2, <1>4, <3>0 DEF Cancels
        <4>2. ASSUME NEW r \in Routine, r # g[2] PROVE task'[<<w, r>>] = task[<<w, r>>]
          BY <1>4, <3>0, <4>2
        <4>3. QED
          BY <4>1, <4>2 DEF Cancels
      <3>5. Cancels(w)' = Cancels(w) \ {g[2]}
        BY <3>1 DEF Cancels
      <3>2. Cardinality(Cancels(w)') = Cardinality(Cancels(w)) - 1
        <4>1. IsFiniteSet(Cancels(w)) /\ g[2] \in Cancels(w)
          BY <1>6, <3>1, RoutinesFinite
        <4>2. QED
          BY <3>5, <4>1, FS_RemoveElement
      <3>3. closing[w] >= Cardinality(Cancels(w))
        BY <1>5, <1>6, <2>2 DEF PoolInv, PoolRules, MessagesLeft
      <3>4. QED
        BY <1>6, <1>7, <2>2, <3>2, <3>3, RoutinesFinite
    <2>3. QED
      BY <2>1, <2>2
  <1>13. QED
    BY <1>8, <1>9, <1>10, <1>11, <1>12 DEF PoolInv, PoolRules

LEMMA WorkerPool == ASSUME PoolInv, NEW g \in Worker, WorkerStep(g) PROVE PoolInv'
  BY QuietPool, ExecStartPool, ExecEndPool, CancelPool DEF WorkerStep, WorkerProgress

\* A channel that has a receiver is open, so its pool is not being shut down.
LEMMA ReceivePool ==
    ASSUME PoolInv, NEW g \in Worker, NEW j \in Job \cup {NoJob}, Receive(g, j),
           UNCHANGED <<slots, pools>>
    PROVE  PoolInv'
  <1> DEFINE t == [Idle EXCEPT !.pc = "ack", !.job = j]
  <1>1. t \in Tasks /\ t.pc = "ack"
    <2>1. t.pc = "ack"
      BY DEF Idle
    <2>2. t \in Tasks
      BY IdleTask DEF Tasks, Busy
    <2>3. QED
      BY <2>1, <2>2
  <1>2. Moves(g, t) /\ task[g].pc = "idle" /\ chan[g[1]] = "open"
    BY DEF Receive, Moves
  <1>3. /\ task' \in [Worker -> Tasks] /\ task'[g] = t
        /\ \A h \in Worker : h # g => task'[h] = task[h]
    BY <1>1, <1>2, TaskMoves DEF PoolInv
  <1>4. UNCHANGED <<slots, chan, closing, stop>>
    BY DEF pools
  <1>5. PoolTypes'
    BY <1>3, <1>4 DEF PoolInv, PoolTypes
  <1>6. ExecsLeft' /\ StopClosed'
    BY <1>1, <1>3, <1>4 DEF PoolInv, PoolRules, ExecsLeft, StopClosed
  <1>7. AllLeft'
    BY <1>2, <1>3, <1>4, WorkerFields DEF PoolInv, PoolRules, AllLeft
  <1>8. SlotsConserved'
    <2>1. \A p \in Process : Executing(p)' = Executing(p)
      BY <1>1, <1>2, <1>3 DEF Executing, WorkersOf
    <2>2. QED
      BY <1>4, <2>1 DEF PoolInv, PoolRules, SlotsConserved
  <1>9. MessagesLeft'
    <2> SUFFICES ASSUME NEW w \in Pool, stop'[w] # "up"
                 PROVE  closing'[w] >= Cardinality(Cancels(w))'
      BY DEF MessagesLeft
    <2>1. w # g[1]
      BY <1>2, <1>4 DEF PoolInv, PoolRules, StopClosed
    <2>2. \A r \in Routine : r \in Cancels(w)' => r \in Cancels(w)
      BY <1>3, <2>1, WorkerFields DEF Cancels
    <2>3. QED
      BY <1>4, <2>2, MessagesKept DEF PoolInv, PoolRules
  <1>10. QED
    BY <1>5, <1>6, <1>7, <1>8, <1>9 DEF PoolInv, PoolRules

-----------------------------------------------------------------------------
(* The shutdown of a pool, and the end of a process.                       *)

LEMMA PoolFrame == ASSUME PoolInv, UNCHANGED <<task, slots, pools>> PROVE PoolInv'
  <1>1. UNCHANGED <<task, slots, chan, closing, stop>>
    BY DEF pools
  <1>2. PoolTypes' /\ ExecsLeft' /\ StopClosed' /\ AllLeft'
    BY <1>1 DEF PoolInv, PoolTypes, PoolRules, ExecsLeft, StopClosed, AllLeft
  <1>3. SlotsConserved'
    BY <1>1 DEF PoolInv, PoolRules, SlotsConserved, Executing, WorkersOf
  <1>4. MessagesLeft'
    BY <1>1 DEF PoolInv, PoolRules, MessagesLeft, Cancels
  <1>5. QED
    BY <1>2, <1>3, <1>4 DEF PoolInv, PoolRules

LEMMA SameTasks ==
    ASSUME UNCHANGED task
    PROVE  /\ ExecsLeft => ExecsLeft'
           /\ UNCHANGED slots => (SlotsConserved => SlotsConserved')
           /\ \A w \in Pool : Cancels(w)' = Cancels(w)
  BY DEF ExecsLeft, SlotsConserved, Executing, WorkersOf, Cancels

LEMMA StopWorkerPool == ASSUME PoolInv, NEW w \in Pool, StopWorker(w) PROVE PoolInv'
  <1>1. /\ UNCHANGED <<task, slots>>
        /\ chan' = [chan EXCEPT ![w] = "closed"]
        /\ closing' = [closing EXCEPT ![w] = Concurrency]
        /\ stop' = [stop EXCEPT ![w] = "waiting"]
    BY DEF StopWorker
  <1>2. PoolTypes'
    BY <1>1, RoutinesFinite DEF PoolInv, PoolTypes
  <1>3. ExecsLeft' /\ SlotsConserved'
    BY <1>1, SameTasks DEF PoolInv, PoolRules
  <1>4. StopClosed' /\ AllLeft'
    BY <1>1 DEF PoolInv, PoolTypes, PoolRules, StopClosed, AllLeft
  <1>5. ASSUME NEW v \in Pool, stop'[v] # "up"
        PROVE  closing'[v] >= Cardinality(Cancels(v))'
    <2>1. Cardinality(Cancels(v)') = Cardinality(Cancels(v))
      BY <1>1, SameTasks
    <2>2. CASE v = w
      <3>1. closing'[v] = Concurrency
        BY <1>1, <2>2 DEF PoolInv, PoolTypes
      <3>2. QED
        BY <2>1, <3>1, RoutinesFinite
    <2>3. CASE v # w
      <3>1. closing'[v] = closing[v] /\ stop'[v] = stop[v]
        BY <1>1, <2>3 DEF PoolInv, PoolTypes
      <3>2. QED
        BY <1>5, <2>1, <3>1 DEF PoolInv, PoolRules, MessagesLeft
    <2>4. QED
      BY <2>2, <2>3
  <1>6. QED
    BY <1>2, <1>3, <1>4, <1>5 DEF PoolInv, PoolRules, MessagesLeft

LEMMA StoppedPool ==
    ASSUME PoolInv, NEW w \in Pool, Stopped(w) \/ StopExpires(w) PROVE PoolInv'
  <1>1. UNCHANGED <<task, slots, chan, closing>> /\ stop[w] = "waiting"
    BY DEF Stopped, StopExpires
  <1>2. \/ stop' = [stop EXCEPT ![w] = "ok"] /\ \A r \in Routine : task[<<w, r>>].pc = "left"
        \/ stop' = [stop EXCEPT ![w] = "late"]
    BY DEF Stopped, StopExpires
  <1>3. PoolTypes'
    BY <1>1, <1>2 DEF PoolInv, PoolTypes
  <1>4. ExecsLeft' /\ SlotsConserved'
    BY <1>1, SameTasks DEF PoolInv, PoolRules
  <1>5. \A v \in Pool : v # w => stop'[v] = stop[v]
    BY <1>2 DEF PoolInv, PoolTypes
  <1>6. StopClosed'
    BY <1>1, <1>5 DEF PoolInv, PoolRules, StopClosed
  <1>7. AllLeft'
    BY <1>1, <1>2, <1>5 DEF PoolInv, PoolTypes, PoolRules, AllLeft
  <1>8. MessagesLeft'
    <2> SUFFICES ASSUME NEW v \in Pool, stop'[v] # "up"
                 PROVE  closing'[v] >= Cardinality(Cancels(v))'
      BY DEF MessagesLeft
    <2>1. stop[v] # "up"
      BY <1>1, <1>5
    <2>2. Cardinality(Cancels(v)') = Cardinality(Cancels(v)) /\ closing'[v] = closing[v]
      BY <1>1, SameTasks
    <2>3. QED
      BY <2>1, <2>2 DEF PoolInv, PoolRules, MessagesLeft
  <1>9. QED
    BY <1>3, <1>4, <1>6, <1>7, <1>8 DEF PoolInv, PoolRules

LEMMA DiesTasks ==
    ASSUME PoolTypes, NEW p \in Process, DiesWith(p)
    PROVE  /\ task' \in [Worker -> Tasks]
           /\ \A g \in Worker : task'[g] = IF g[1][1] = p THEN Idle ELSE task[g]
  BY IdleTask DEF DiesWith, PoolTypes

LEMMA DiesPool == ASSUME PoolInv, NEW p \in Process, DiesWith(p) PROVE PoolInv'
  <1>1. /\ task' \in [Worker -> Tasks]
        /\ \A g \in Worker : task'[g] = IF g[1][1] = p THEN Idle ELSE task[g]
    BY DiesTasks DEF PoolInv
  <1>2. /\ slots' = [slots EXCEPT ![p] = NbSlots]
        /\ chan' = [w \in Pool |-> IF w[1] = p THEN "open" ELSE chan[w]]
        /\ closing' = [w \in Pool |-> IF w[1] = p THEN 0 ELSE closing[w]]
        /\ stop' = [w \in Pool |-> IF w[1] = p THEN "up" ELSE stop[w]]
    BY DEF DiesWith
  <1>3. PoolTypes'
    BY <1>1, <1>2, RoutinesFinite, WorkerAssumption DEF PoolInv, PoolTypes
  <1>4. ExecsLeft'
    BY <1>1, IdleTask DEF PoolInv, PoolRules, ExecsLeft
  <1>5. StopClosed'
    BY <1>2 DEF PoolInv, PoolRules, StopClosed
  <1>6. ASSUME NEW w \in Pool, w[1] # p
        PROVE  \A r \in Routine : task'[<<w, r>>] = task[<<w, r>>]
    BY <1>1, <1>6, WorkerFields
  <1>7. AllLeft'
    BY <1>2, <1>6 DEF PoolInv, PoolRules, AllLeft
  <1>8. SlotsConserved'
    <2> SUFFICES ASSUME NbSlots > 0, NEW q \in Process
                 PROVE  slots'[q] + Cardinality(Executing(q)') = NbSlots
      BY DEF SlotsConserved
    <2>1. CASE q = p
      <3>1. Executing(q)' = {}
        BY <1>1, <2>1, IdleTask DEF Executing, WorkersOf
      <3>2. slots'[q] = NbSlots
        BY <1>2, <2>1 DEF PoolInv, PoolTypes
      <3>3. QED
        BY <3>1, <3>2, FS_EmptySet, WorkerAssumption
    <2>2. CASE q # p
      <3>1. Executing(q)' = Executing(q)
        BY <1>1, <2>2 DEF Executing, WorkersOf
      <3>2. slots'[q] = slots[q]
        BY <1>2, <2>2 DEF PoolInv, PoolTypes
      <3>3. QED
        BY <3>1, <3>2 DEF PoolInv, PoolRules, SlotsConserved
    <2>3. QED
      BY <2>1, <2>2
  <1>9. MessagesLeft'
    <2> SUFFICES ASSUME NEW w \in Pool, stop'[w] # "up"
                 PROVE  closing'[w] >= Cardinality(Cancels(w)')
      BY DEF MessagesLeft
    <2>1. w[1] # p /\ stop[w] # "up" /\ closing'[w] = closing[w]
      BY <1>2
    <2>2. Cancels(w)' = Cancels(w)
      BY <1>6, <2>1 DEF Cancels
    <2>3. QED
      BY <2>1, <2>2 DEF PoolInv, PoolRules, MessagesLeft
  <1>10. QED
    BY <1>3, <1>4, <1>5, <1>7, <1>8, <1>9 DEF PoolInv, PoolRules

-----------------------------------------------------------------------------
(* What a step of a goroutine does to the jobs.                            *)

\* The broker relies on this: a goroutine only touches the job it holds, it
\* lets a job go with an excuse or with a document that is not left behind, and
\* it never rewrites the final state that an administrator gave to the job.
WorkerEffect(g) ==
    /\ \A h \in Worker : h # g => task'[h] = task[h]
    /\ excused \subseteq excused'
    /\ \A j \in Job : Holds(g, j)' => Holds(g, j)
    /\ \A j \in Job : ~Holds(g, j) =>
         /\ doc'[j] = doc[j] /\ runs'[j] = runs[j]
         /\ j \in stale' <=> j \in stale
         /\ j \in excused' <=> j \in excused
    /\ \A j \in Job : Holds(g, j) /\ ~Holds(g, j)' /\ doc'[j] \in Live => j \in excused'
    /\ \A j \in Job : Holds(g, j) /\ j \in stale /\ doc[j] # "none" => doc'[j] = doc[j]

\* The step of a goroutine on its job, in terms of what changes.
LEMMA JobStep ==
    ASSUME PoolInv, JobInv, NEW g \in Worker, NEW t \in Tasks, Moves(g, t),
           task[g].pc \in Busy, t.pc \in Busy => t.job = task[g].job,
           JobTypes', excused \subseteq excused',
           \A i \in Job : i # task[g].job => /\ doc'[i] = doc[i] /\ runs'[i] = runs[i]
                                             /\ i \in stale' <=> i \in stale
                                             /\ i \in excused' <=> i \in excused,
           task[g].job \in stale' => doc'[task[g].job] \notin Live,
           task[g].job \in stale /\ doc[task[g].job] # "none" =>
               doc'[task[g].job] = doc[task[g].job],
           runs'[task[g].job] <= MaxExecCount,
           t.pc \notin Busy => doc'[task[g].job] \notin Live \/ task[g].job \in excused',
           JobRule(g)'
    PROVE  JobInv' /\ WorkerEffect(g)
  <1> DEFINE j == task[g].job
  <1>1. task'[g] = t /\ \A h \in Worker : h # g => task'[h] = task[h]
    BY TaskMoves DEF PoolInv
  <1>2. j \in Job /\ Holds(g, j) /\ \A i \in Job : i # j => ~Holds(g, i)
    BY DEF JobInv, JobRules, JobRule, Holds
  <1>3. \A h \in Worker : h # g => ~Holds(h, j)
    BY <1>2 DEF JobInv, JobRules, HeldOnce
  <1>4. ASSUME NEW h \in Worker PROVE JobRule(h)'
    <2>1. CASE h # g
      <3>1. task[h].pc \in Busy => task[h].job # j /\ task[h].job \in Job
        BY <1>3, <2>1 DEF Holds, JobInv, JobRules, JobRule
      <3>2. QED
        BY <1>1, <2>1, <3>1 DEF JobRule, JobInv, JobRules
    <2>2. QED
      BY <2>1
  <1>5. \A h \in Worker : \A i \in Job : Holds(h, i)' => Holds(h, i)
    BY <1>1 DEF Holds
  <1>6. HeldOnce'
    BY <1>5 DEF HeldOnce, JobInv, JobRules
  <1>7. StaleEnded'
    BY DEF StaleEnded, JobInv, JobRules, JobTypes
  <1>8. ExecBound'
    BY DEF ExecBound, JobInv, JobRules
  <1>9. JobInv'
    BY <1>4, <1>6, <1>7, <1>8 DEF JobInv, JobRules
  <1>10. ~Holds(g, j)' => t.pc \notin Busy
    BY <1>1 DEF Holds
  <1>11. WorkerEffect(g)
    BY <1>1, <1>2, <1>5, <1>10 DEF WorkerEffect
  <1>12. QED
    BY <1>9, <1>11

\* The requests of Job.Update leave the other documents alone, and what their
\* errors leave behind is excused or is not a live document.
LEMMA UpdateEffect ==
    ASSUME JobTypes, StaleEnded, NEW j \in Job,
           NEW s \in {"none", "queued", "running", "done", "errored"},
           Update(j, s) \/ UpdateError(j, s)
    PROVE  /\ doc' \in [Job -> {"none", "queued", "running", "done", "errored"}]
           /\ stale' \subseteq Job /\ excused' \subseteq Job /\ excused \subseteq excused'
           /\ \A i \in Job : i # j => /\ doc'[i] = doc[i]
                                      /\ i \in stale' <=> i \in stale
                                      /\ i \in excused' <=> i \in excused
           /\ j \in stale' => doc'[j] \notin Live
           /\ j \in stale /\ doc[j] # "none" => doc'[j] = doc[j]
           /\ s \notin Live \/ UpdateError(j, s) => doc'[j] \notin Live \/ j \in excused'
  <1>1. UNCHANGED <<doc, stale>> \/ (CanWrite(j) /\ Writes(j, s))
    BY DEF Update, UpdateError
  <1>2. excused' = excused \/ excused' = excused \cup {j}
    BY DEF Update, UpdateError
  <1>3. excused' \subseteq Job /\ excused \subseteq excused'
        /\ \A i \in Job : i # j => (i \in excused' <=> i \in excused)
    BY <1>2 DEF JobTypes
  <1>4. UpdateError(j, s) => j \in excused' \/ (UNCHANGED <<doc, stale>> /\ j \in stale)
    BY DEF UpdateError, CanWrite
  <1>5. CASE UNCHANGED <<doc, stale>>
    <2>1. s \notin Live /\ Update(j, s) => doc'[j] \notin Live
      BY DEF Update, Writes, JobTypes
    <2>2. QED
      BY <1>3, <1>4, <1>5, <2>1 DEF JobTypes, StaleEnded
  <1>6. CASE CanWrite(j) /\ Writes(j, s)
    <2>1. doc' = [doc EXCEPT ![j] = s] /\ stale' = stale \ {j} /\ (j \notin stale \/ doc[j] = "none")
      BY <1>6 DEF CanWrite, Writes
    <2>2. doc'[j] = s
      BY <2>1 DEF JobTypes
    <2>3. QED
      BY <1>3, <1>4, <2>1, <2>2 DEF JobTypes, StaleEnded
  <1>7. QED
    BY <1>1, <1>5, <1>6

\* A goroutine that is not at work moves: nothing happens to the jobs.
LEMMA AwayStep ==
    ASSUME PoolInv, JobInv, NEW g \in Worker, NEW t \in Tasks, Moves(g, t),
           task[g].pc \notin Busy, t.pc \notin Busy, UNCHANGED <<couch, history>>
    PROVE  JobInv' /\ WorkerEffect(g)
  <1>1. task'[g] = t /\ \A h \in Worker : h # g => task'[h] = task[h]
    BY TaskMoves DEF PoolInv
  <1>2. UNCHANGED <<doc, stale, runs, excused>>
    BY DEF couch, history
  <1>3. JobTypes' /\ StaleEnded' /\ ExecBound'
    BY <1>2 DEF JobInv, JobRules, JobTypes, StaleEnded, ExecBound
  <1>4. \A h \in Worker : JobRule(h)'
    BY <1>1, <1>2 DEF JobInv, JobRules, JobRule
  <1>5. \A h \in Worker : \A i \in Job : Holds(h, i)' => Holds(h, i)
    BY <1>1 DEF Holds
  <1>6. HeldOnce'
    BY <1>5 DEF HeldOnce, JobInv, JobRules
  <1>7. \A i \in Job : ~Holds(g, i)
    BY DEF Holds
  <1>8. QED
    BY <1>1, <1>2, <1>3, <1>4, <1>5, <1>6, <1>7 DEF JobInv, JobRules, WorkerEffect

\* A goroutine moves with its job, whose document and history do not change.
LEMMA SameJobStep ==
    ASSUME PoolInv, JobInv, NEW g \in Worker, NEW t \in Tasks, Moves(g, t),
           task[g].pc \in Busy, t.pc \in Busy => t.job = task[g].job,
           UNCHANGED <<couch, history>>,
           t.pc \notin Busy => task[g].pc = "retire",
           t.pc \in Busy =>
              \/ t.pc = task[g].pc /\ t.execs = task[g].execs
              \/ t.pc = "slot" /\ task[g].pc = "next" /\ t.execs = task[g].execs
              \/ t.pc = "next" /\ task[g].pc = "exec" /\ t.execs = task[g].execs + 1
              \/ t.pc = "over"
    PROVE  JobInv' /\ WorkerEffect(g)
  <1>1. task'[g] = t
    BY TaskMoves DEF PoolInv
  <1>2. UNCHANGED <<doc, stale, runs, excused>>
    BY DEF couch, history
  <1>3. JobTypes' /\ excused \subseteq excused'
    BY <1>2 DEF JobInv, JobTypes
  <1>4. JobRule(g) /\ task[g].job \in Job
    BY DEF JobInv, JobRules, JobRule
  <1>5. JobRule(g)'
    BY <1>1, <1>2, <1>4 DEF JobRule
  <1>6. task[g].job \in stale => doc[task[g].job] \notin Live
    BY DEF JobInv, JobRules, StaleEnded
  <1>7. runs[task[g].job] <= MaxExecCount
    BY <1>4 DEF JobInv, JobRules, ExecBound
  <1>8. t.pc \notin Busy => doc[task[g].job] \notin Live \/ task[g].job \in excused
    BY <1>4 DEF JobRule
  <1>9. QED
    BY <1>2, <1>3, <1>5, <1>6, <1>7, <1>8, JobStep

LEMMA StillJobs ==
    ASSUME PoolInv, JobInv, NEW g \in Worker,
           \/ StartFails(g) \/ NextDelay(g) \/ ExecEnd(g) \/ Cancel(g) \/ Retire(g)
           \/ LeaveRange(g) \/ Left(g)
    PROVE  JobInv' /\ WorkerEffect(g)
  <1>1. task[g] \in Tasks
    BY DEF PoolInv, PoolTypes
  <1>2. ASSUME NEW pc \in Busy \cup {"idle", "leaving", "left"}, Goto(g, pc)
        PROVE  \E t \in Tasks : /\ t.pc = pc /\ t.job = task[g].job /\ t.execs = task[g].execs
                                /\ Moves(g, t)
    <2> DEFINE t == [task[g] EXCEPT !.pc = pc]
    <2>1. t \in Tasks /\ t.pc = pc /\ t.job = task[g].job /\ t.execs = task[g].execs
      BY <1>1 DEF Tasks
    <2>2. Moves(g, t)
      BY <1>2 DEF Goto, Moves
    <2>3. QED
      BY <2>1, <2>2
  <1>3. /\ "next" \in Busy /\ "slot" \in Busy /\ "exec" \in Busy /\ "over" \in Busy
        /\ "retire" \in Busy /\ "idle" \notin Busy /\ "leaving" \notin Busy /\ "left" \notin Busy
    BY DEF Busy, Running
  <1>4. CASE StartFails(g)
    <2>1. PICK e \in {"abort", "message", "bad", "fail"} :
            task' = [task EXCEPT ![g] = [@ EXCEPT !.pc = "over", !.err = e]]
      BY <1>4 DEF StartFails
    <2> DEFINE t == [task[g] EXCEPT !.pc = "over", !.err = e]
    <2>2. t \in Tasks /\ t.pc = "over" /\ t.job = task[g].job
      BY <1>1, <1>3 DEF Tasks, Fatal
    <2>3. Moves(g, t)
      BY <2>1 DEF Moves
    <2>4. task[g].pc = "next" /\ UNCHANGED <<couch, history>>
      BY <1>4 DEF StartFails
    <2>5. QED
      BY <1>3, <2>2, <2>3, <2>4, SameJobStep
  <1>5. CASE NextDelay(g)
    <2>1. task[g].pc = "next" /\ UNCHANGED <<couch, history>> /\ (Goto(g, "slot") \/ Goto(g, "over"))
      BY <1>5 DEF NextDelay
    <2>2. QED
      BY <1>2, <1>3, <2>1, SameJobStep
  <1>6. CASE ExecEnd(g)
    <2>1. task[g].pc = "exec" /\ UNCHANGED <<couch, history>>
      BY <1>6 DEF ExecEnd
    <2>2. CASE task' = [task EXCEPT ![g] = [@ EXCEPT !.pc = "over", !.err = "nil"]]
      <3> DEFINE t == [task[g] EXCEPT !.pc = "over", !.err = "nil"]
      <3>1. t \in Tasks /\ t.pc = "over" /\ t.job = task[g].job
        BY <1>1, <1>3 DEF Tasks
      <3>2. Moves(g, t)
        BY <2>2 DEF Moves
      <3>3. QED
        BY <1>3, <2>1, <3>1, <3>2, SameJobStep
    <2>3. ASSUME NEW e \in Fatal \cup {"fail"}, NEW pc \in {"next", "over"},
                 task' = [task EXCEPT ![g] = [@ EXCEPT !.pc = pc, !.err = e,
                                                       !.execs = task[g].execs + 1]]
          PROVE  JobInv' /\ WorkerEffect(g)
      <3> DEFINE t == [task[g] EXCEPT !.pc = pc, !.err = e, !.execs = task[g].execs + 1]
      <3>1. task[g].execs + 1 \in 0..MaxExecCount
        <4>1. task[g].execs \in 0..MaxExecCount /\ MaxExecCount \in Nat
          BY <1>1, TaskFields, WorkerAssumption
        <4>2. task[g].execs < MaxExecCount
          BY <2>1 DEF PoolInv, PoolRules, ExecsLeft
        <4>3. QED
          BY <4>1, <4>2
      <3>2. t \in Tasks /\ t.pc = pc /\ t.job = task[g].job /\ t.execs = task[g].execs + 1
        BY <1>1, <1>3, <3>1 DEF Tasks
      <3>3. Moves(g, t)
        BY <2>3 DEF Moves
      <3>4. QED
        BY <1>3, <2>1, <3>2, <3>3, SameJobStep
    <2>4. QED
      BY <1>6, <2>2, <2>3 DEF ExecEnd
  <1>7. CASE Cancel(g)
    <2> DEFINE t == [task[g] EXCEPT !.cancelled = TRUE]
    <2>1. t \in Tasks /\ t.pc = task[g].pc /\ t.job = task[g].job /\ t.execs = task[g].execs
      BY <1>1 DEF Tasks
    <2>2. Moves(g, t) /\ task[g].pc \in Busy /\ UNCHANGED <<couch, history>>
      BY <1>7 DEF Cancel, Moves, Busy
    <2>3. QED
      BY <2>1, <2>2, SameJobStep
  <1>8. CASE Retire(g)
    <2>1. /\ task[g].pc = "retire" /\ UNCHANGED <<couch, history>> /\ Moves(g, Idle)
          /\ Idle \in Tasks /\ Idle.pc = "idle"
      BY <1>8, IdleTask DEF Retire, Free, Moves
    <2>2. QED
      BY <1>3, <2>1, SameJobStep
  <1>9. CASE LeaveRange(g)
    <2>1. task[g].pc = "idle" /\ UNCHANGED <<couch, history>> /\ Goto(g, "leaving")
      BY <1>9 DEF LeaveRange
    <2>2. QED
      BY <1>2, <1>3, <2>1, AwayStep
  <1>10. CASE Left(g)
    <2>1. task[g].pc = "leaving" /\ UNCHANGED <<couch, history>> /\ Goto(g, "left")
      BY <1>10 DEF Left
    <2>2. QED
      BY <1>2, <1>3, <2>1, AwayStep
  <1>11. QED
    BY <1>4, <1>5, <1>6, <1>7, <1>8, <1>9, <1>10

LEMMA SkipJobs == ASSUME PoolInv, JobInv, NEW g \in Worker, Skip(g)
                  PROVE  JobInv' /\ WorkerEffect(g)
  <1>1. /\ task[g].pc = "ack" /\ excused' = excused \cup {task[g].job}
        /\ UNCHANGED <<doc, stale, runs>>
    BY DEF Skip, couch
  <1>2. Idle \in Tasks /\ Moves(g, Idle) /\ Idle.pc \notin Busy /\ task[g].pc \in Busy
    BY <1>1, IdleTask DEF Skip, Free, Moves, Busy, Running
  <1>3. task[g].job \in Job
    BY <1>2 DEF JobInv, JobRules, JobRule
  <1>4. JobTypes' /\ excused \subseteq excused'
    BY <1>1, <1>3 DEF JobInv, JobTypes
  <1>5. task'[g] = Idle
    BY <1>2, TaskMoves DEF PoolInv
  <1>6. JobRule(g)'
    BY <1>2, <1>5 DEF JobRule
  <1>7. task[g].job \in stale => doc[task[g].job] \notin Live
    BY DEF JobInv, JobRules, StaleEnded
  <1>8. runs[task[g].job] <= MaxExecCount
    BY <1>3 DEF JobInv, JobRules, ExecBound
  <1>9. QED
    BY <1>1, <1>2, <1>4, <1>6, <1>7, <1>8, JobStep

LEMMA ExecStartJobs == ASSUME PoolInv, JobInv, NEW g \in Worker, ExecStart(g)
                       PROVE  JobInv' /\ WorkerEffect(g)
  <1> DEFINE j == task[g].job
             t == [task[g] EXCEPT !.pc = "exec"]
  <1>1. task[g].pc = "slot" /\ runs' = [runs EXCEPT ![j] = @ + 1] /\ Moves(g, t)
    BY DEF ExecStart, Goto, Moves
  <1>2. UNCHANGED <<doc, stale, excused>>
    BY DEF ExecStart, couch
  <1>3. task[g] \in Tasks /\ "exec" \in Busy /\ "slot" \in Busy
    BY DEF PoolInv, PoolTypes, Busy, Running
  <1>4. t \in Tasks /\ t.pc = "exec" /\ t.job = j /\ t.execs = task[g].execs
    BY <1>3 DEF Tasks
  <1>5. JobRule(g) /\ j \in Job /\ runs[j] = task[g].execs
    BY <1>1, <1>3 DEF JobInv, JobRules, JobRule
  <1>6. runs'[j] = task[g].execs + 1 /\ \A i \in Job : i # j => runs'[i] = runs[i]
    BY <1>1, <1>5 DEF JobInv, JobTypes
  <1>7. task[g].execs \in 0..MaxExecCount /\ MaxExecCount \in Nat
    BY <1>3, TaskFields, WorkerAssumption
  <1>8. task[g].execs < MaxExecCount
    BY <1>1 DEF PoolInv, PoolRules, ExecsLeft
  <1>9. runs'[j] <= MaxExecCount
    BY <1>6, <1>7, <1>8
  <1>10. JobTypes' /\ excused \subseteq excused'
    BY <1>1, <1>2, <1>5 DEF JobInv, JobTypes
  <1>11. task'[g] = t
    BY <1>1, <1>4, TaskMoves DEF PoolInv
  <1>12. JobRule(g)'
    BY <1>4, <1>5, <1>6, <1>11 DEF JobRule
  <1>13. j \in stale => doc[j] \notin Live
    BY DEF JobInv, JobRules, StaleEnded
  <1>14. QED
    BY <1>1, <1>2, <1>3, <1>4, <1>6, <1>9, <1>10, <1>12, <1>13, JobStep

\* A goroutine that writes the document of its job, and goes on or not.
LEMMA WritesJobs ==
    ASSUME PoolInv, JobInv, NEW g \in Worker, NEW t \in Tasks, Moves(g, t),
           NEW s \in {"none", "queued", "running", "done", "errored"},
           Update(task[g].job, s) \/ UpdateError(task[g].job, s),
           UNCHANGED runs, task[g].pc \in Busy, t.pc \in Busy => t.job = task[g].job,
           t.pc \notin Busy => s \notin Live \/ UpdateError(task[g].job, s),
           t.pc \in Busy => \/ t.pc = "next" /\ task[g].pc = "ack" /\ t.execs = task[g].execs
                            \/ t.pc = "retire" /\ s \notin Live
    PROVE  JobInv' /\ WorkerEffect(g)
  <1> DEFINE j == task[g].job
  <1>1. JobRule(g) /\ j \in Job /\ StaleEnded /\ JobTypes
    BY DEF JobInv, JobRules, JobRule
  <1>2. /\ doc' \in [Job -> {"none", "queued", "running", "done", "errored"}]
        /\ stale' \subseteq Job /\ excused' \subseteq Job /\ excused \subseteq excused'
        /\ \A i \in Job : i # j => /\ doc'[i] = doc[i]
                                   /\ i \in stale' <=> i \in stale
                                   /\ i \in excused' <=> i \in excused
        /\ j \in stale' => doc'[j] \notin Live
        /\ j \in stale /\ doc[j] # "none" => doc'[j] = doc[j]
        /\ s \notin Live \/ UpdateError(j, s) => doc'[j] \notin Live \/ j \in excused'
    BY <1>1, UpdateEffect
  <1>3. task'[g] = t
    BY TaskMoves DEF PoolInv
  <1>4. JobTypes'
    BY <1>1, <1>2 DEF JobTypes
  <1>5. JobRule(g)'
    BY <1>1, <1>2, <1>3 DEF JobRule
  <1>6. runs'[j] <= MaxExecCount
    BY <1>1 DEF JobInv, JobRules, ExecBound
  <1>7. QED
    BY <1>2, <1>4, <1>5, <1>6, JobStep

LEMMA AckConsumedJobs == ASSUME PoolInv, JobInv, NEW g \in Worker, AckConsumed(g)
                         PROVE  JobInv' /\ WorkerEffect(g)
  <1>1. task[g].pc = "ack" /\ UNCHANGED runs /\ task[g] \in Tasks
    BY DEF AckConsumed, PoolInv, PoolTypes
  <1>2. "ack" \in Busy /\ "next" \in Busy /\ "idle" \notin Busy
    BY DEF Busy, Running
  <1>3. CASE Update(task[g].job, "running") /\ Goto(g, "next")
    <2> DEFINE t == [task[g] EXCEPT !.pc = "next"]
    <2>1. t \in Tasks /\ t.pc = "next" /\ t.job = task[g].job /\ t.execs = task[g].execs
      BY <1>1, <1>2 DEF Tasks
    <2>2. Moves(g, t)
      BY <1>3 DEF Goto, Moves
    <2>3. QED
      BY <1>1, <1>2, <1>3, <2>1, <2>2, WritesJobs
  <1>4. CASE UpdateError(task[g].job, "running") /\ Free(g)
    <2>1. Moves(g, Idle) /\ Idle \in Tasks /\ Idle.pc \notin Busy
      BY <1>2, <1>4, IdleTask DEF Free, Moves
    <2>2. QED
      BY <1>1, <1>2, <1>4, <2>1, WritesJobs
  <1>5. QED
    BY <1>3, <1>4 DEF AckConsumed

LEMMA FinishJobs == ASSUME PoolInv, JobInv, NEW g \in Worker, Finish(g)
                    PROVE  JobInv' /\ WorkerEffect(g)
  <1>1. task[g].pc = "over" /\ UNCHANGED runs /\ task[g] \in Tasks
    BY DEF Finish, PoolInv, PoolTypes
  <1>2. "over" \in Busy /\ "retire" \in Busy /\ "idle" \notin Busy
    BY DEF Busy, Running
  <1>3. Final(g) \in {"done", "errored"} /\ Final(g) \notin Live
    BY DEF Final, Live
  <1>4. /\ Update(task[g].job, Final(g)) \/ UpdateError(task[g].job, Final(g))
        /\ Goto(g, "retire") \/ Free(g)
    BY DEF Finish
  <1>5. CASE Goto(g, "retire")
    <2> DEFINE t == [task[g] EXCEPT !.pc = "retire"]
    <2>1. t \in Tasks /\ t.pc = "retire" /\ t.job = task[g].job
      BY <1>1, <1>2 DEF Tasks
    <2>2. Moves(g, t)
      BY <1>5 DEF Goto, Moves
    <2>3. QED
      BY <1>1, <1>2, <1>3, <1>4, <2>1, <2>2, WritesJobs
  <1>6. CASE Free(g)
    <2>1. Moves(g, Idle) /\ Idle \in Tasks /\ Idle.pc \notin Busy
      BY <1>2, <1>6, IdleTask DEF Free, Moves
    <2>2. QED
      BY <1>1, <1>2, <1>3, <1>4, <2>1, WritesJobs
  <1>7. QED
    BY <1>4, <1>5, <1>6

LEMMA WorkerJobs == ASSUME PoolInv, JobInv, NEW g \in Worker, WorkerStep(g)
                    PROVE  JobInv' /\ WorkerEffect(g)
  BY StillJobs, SkipJobs, ExecStartJobs, AckConsumedJobs, FinishJobs
     DEF WorkerStep, WorkerProgress

-----------------------------------------------------------------------------
(* What the brokers and the administrators do to the jobs of the pools.    *)

LEMMA WorkerInitInv ==
    ASSUME WorkerInit
    PROVE  PoolInv /\ JobInv /\ \A g \in Worker : \A j \in Job : ~Holds(g, j)
  <1>1. \A g \in Worker : task[g] = Idle
    BY DEF WorkerInit
  <1>2. Idle \in Tasks /\ Idle.pc = "idle" /\ Idle.pc \notin Busy /\ Idle.pc \notin Running
    BY IdleTask DEF Busy, Running
  <1>3. PoolTypes
    BY <1>2, WorkerAssumption, RoutinesFinite DEF WorkerInit, PoolTypes
  <1>4. ExecsLeft /\ MessagesLeft /\ StopClosed /\ AllLeft
    <2>1. \A w \in Pool : stop[w] = "up"
      BY DEF WorkerInit
    <2>2. MessagesLeft /\ StopClosed /\ AllLeft
      BY <2>1 DEF MessagesLeft, StopClosed, AllLeft
    <2>3. ExecsLeft
      BY <1>1, <1>2 DEF ExecsLeft
    <2>4. QED
      BY <2>2, <2>3
  <1>5. SlotsConserved
    <2> SUFFICES ASSUME NEW p \in Process PROVE slots[p] + Cardinality(Executing(p)) = NbSlots
      BY DEF SlotsConserved
    <2>1. Executing(p) = {}
      BY <1>1, <1>2 DEF Executing, WorkersOf
    <2>2. QED
      BY <2>1, FS_EmptySet, WorkerAssumption DEF WorkerInit
  <1>6. JobTypes /\ StaleEnded /\ ExecBound
    BY WorkerAssumption DEF WorkerInit, JobTypes, StaleEnded, ExecBound
  <1>7. \A g \in Worker : JobRule(g) /\ \A j \in Job : ~Holds(g, j)
    BY <1>1, <1>2 DEF JobRule, Holds
  <1>8. HeldOnce
    BY <1>7 DEF HeldOnce
  <1>9. QED
    BY <1>3, <1>4, <1>5, <1>6, <1>7, <1>8 DEF PoolInv, PoolRules, JobInv, JobRules

LEMMA JobFrame ==
    ASSUME JobInv, UNCHANGED task, JobTypes', StaleEnded', ExecBound',
           \A j \in Job : (\E g \in Worker : Holds(g, j)) =>
               /\ runs'[j] = runs[j]
               /\ j \in excused => j \in excused'
               /\ doc'[j] \notin Live \/ doc'[j] = doc[j]
    PROVE  JobInv'
  <1>1. HeldOnce'
    BY DEF JobInv, JobRules, HeldOnce, Holds
  <1>2. ASSUME NEW g \in Worker PROVE JobRule(g)'
    <2>1. JobRule(g) /\ (task[g].pc \in Busy => Holds(g, task[g].job) /\ task[g].job \in Job)
      BY DEF JobInv, JobRules, JobRule, Holds
    <2>2. QED
      BY <2>1 DEF JobRule
  <1>3. QED
    BY <1>1, <1>2 DEF JobInv, JobRules

LEMMA ReceiveJobs ==
    ASSUME PoolInv, JobInv, NEW g \in Worker, NEW j \in Job, Receive(g, j),
           UNCHANGED <<couch, history>>, runs[j] = 0, \A h \in Worker : ~Holds(h, j)
    PROVE  /\ JobInv'
           /\ \A h \in Worker : \A i \in Job : Holds(h, i)' <=> Holds(h, i) \/ (h = g /\ i = j)
  <1> DEFINE t == [Idle EXCEPT !.pc = "ack", !.job = j]
  <1>1. t.pc = "ack" /\ t.job = j /\ t.execs = 0 /\ "ack" \in Busy /\ "idle" \notin Busy
    BY DEF Idle, Busy, Running
  <1>2. t \in Tasks
    BY IdleTask, <1>1 DEF Tasks
  <1>3. Moves(g, t) /\ task[g].pc = "idle"
    BY DEF Receive, Moves
  <1>4. task'[g] = t /\ \A h \in Worker : h # g => task'[h] = task[h]
    BY <1>2, <1>3, TaskMoves DEF PoolInv
  <1>5. UNCHANGED <<doc, stale, runs, excused>>
    BY DEF couch, history
  <1>6. \A h \in Worker : \A i \in Job : Holds(h, i)' <=> Holds(h, i) \/ (h = g /\ i = j)
    BY <1>1, <1>3, <1>4 DEF Holds
  <1>7. JobTypes' /\ StaleEnded' /\ ExecBound'
    BY <1>5 DEF JobInv, JobRules, JobTypes, StaleEnded, ExecBound
  <1>8. HeldOnce'
    BY <1>6 DEF JobInv, JobRules, HeldOnce
  <1>9. ASSUME NEW h \in Worker PROVE JobRule(h)'
    <2>1. CASE h = g
      <3>1. task'[h].pc = "ack" /\ task'[h].job = j /\ task'[h].execs = 0
        BY <1>1, <1>4, <2>1
      <3>2. QED
        BY <1>5, <3>1 DEF JobRule
    <2>2. CASE h # g
      <3>1. JobRule(h) /\ task'[h] = task[h]
        BY <1>4, <2>2 DEF JobInv, JobRules
      <3>2. QED
        BY <1>5, <3>1 DEF JobRule
    <2>3. QED
      BY <2>1, <2>2
  <1>10. QED
    BY <1>6, <1>7, <1>8, <1>9 DEF JobInv, JobRules

LEMMA DiesJobs ==
    ASSUME PoolInv, JobInv, NEW p \in Process, DiesWith(p), UNCHANGED <<couch, runs>>,
           excused \subseteq excused', excused' \subseteq Job
    PROVE  /\ JobInv'
           /\ \A g \in Worker : \A j \in Job : Holds(g, j)' <=> Holds(g, j) /\ g[1][1] # p
  <1>1. \A g \in Worker : task'[g] = IF g[1][1] = p THEN Idle ELSE task[g]
    BY DiesTasks DEF PoolInv
  <1>2. Idle.pc \notin Busy
    BY IdleTask DEF Busy, Running
  <1>3. \A g \in Worker : \A j \in Job : Holds(g, j)' <=> Holds(g, j) /\ g[1][1] # p
    BY <1>1, <1>2 DEF Holds
  <1>4. UNCHANGED <<doc, stale, runs>>
    BY DEF couch
  <1>5. JobTypes' /\ StaleEnded' /\ ExecBound'
    BY <1>4 DEF JobInv, JobRules, JobTypes, StaleEnded, ExecBound
  <1>6. HeldOnce'
    BY <1>3 DEF JobInv, JobRules, HeldOnce
  <1>7. \A g \in Worker : JobRule(g)'
    BY <1>1, <1>2, <1>4 DEF JobInv, JobRules, JobRule
  <1>8. QED
    BY <1>3, <1>5, <1>6, <1>7 DEF JobInv, JobRules

\* An administrator says a job done, or deletes its document.
LEMMA AdminJobs ==
    ASSUME JobInv, NEW j \in Job, CleanJob(j) \/ PurgeJob(j)
    PROVE  /\ JobInv' /\ UNCHANGED <<task, slots, pools, runs, excused>>
           /\ \A i \in Job : doc'[i] \in Live => doc[i] \in Live /\ doc'[i] = doc[i]
           /\ \A i \in Job : doc[i] \in {"done", "errored"} => doc'[i] \in {doc[i], "none"}
           /\ \A i \in Job : doc[i] = "none" => doc'[i] = "none" /\ (i \in stale' => i \in stale)
  <1>1. UNCHANGED <<task, slots, pools, runs, excused>>
    BY DEF CleanJob, PurgeJob, history
  <1>2. \/ /\ doc' = [doc EXCEPT ![j] = "done"] /\ stale' = stale \cup {j} /\ doc[j] \in Live
        \/ doc' = [doc EXCEPT ![j] = "none"] /\ stale' = stale
    BY DEF CleanJob, PurgeJob, Live
  <1>3. JobTypes' /\ StaleEnded' /\ \A i \in Job : doc'[i] \in Live => doc'[i] = doc[i]
    BY <1>1, <1>2 DEF JobInv, JobTypes, JobRules, StaleEnded, Live
  <1>4. ExecBound'
    BY <1>1 DEF JobInv, JobRules, ExecBound
  <1>5. JobInv'
    BY <1>1, <1>3, <1>4, JobFrame
  <1>6. \A i \in Job : doc[i] \in {"done", "errored"} => doc'[i] \in {doc[i], "none"}
    BY <1>2 DEF JobInv, JobTypes, Live
  <1>7. \A i \in Job : doc[i] = "none" => doc'[i] = "none" /\ (i \in stale' => i \in stale)
    BY <1>2 DEF JobInv, JobTypes, Live
  <1>8. QED
    BY <1>1, <1>3, <1>5, <1>6, <1>7
=============================================================================
