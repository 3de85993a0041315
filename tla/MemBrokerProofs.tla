--------------------------- MODULE MemBrokerProofs --------------------------
(***************************************************************************)
(* Proofs about MemBroker: while the broker runs, a queue that has jobs    *)
(* has exactly one goroutine that sends them, and no job is lost.          *)
(***************************************************************************)
EXTENDS MemBroker, WorkerProofs

QueueTypes ==
    /\ queue \in [Pool -> Seq(Job)]
    /\ run \in [Pool -> BOOLEAN]
    /\ sender \in [Pool -> [Sender -> Job \cup {NoJob, Off}]]
    /\ closers \in [Pool -> Nat]
    /\ push \in [Job -> {<<>>} \cup (Process \X {"create", "enqueue"})]
    /\ running \in [Process -> BOOLEAN]
    /\ down \in [Process -> {"no", "closing", "ok", "failed"}]
    /\ toClose \subseteq Pool

-----------------------------------------------------------------------------
(* The send goroutines.                                                    *)

\* While the broker runs, q.run says whether the queue has its goroutine, and
\* nobody closes the queue.
SenderRule(w) ==
    running[w[1]] =>
        /\ run[w] <=> Alive(w) # {}
        /\ \A i, k \in Alive(w) : i = k
        /\ queue[w] # <<>> => run[w]
        /\ closers[w] = 0 /\ w \notin toClose

SenderRules == \A w \in Pool : SenderRule(w)

-----------------------------------------------------------------------------
(* The places of a job.                                                    *)

QueuedOnce ==
    \A v, w \in Pool : \A i \in DOMAIN queue[v], k \in DOMAIN queue[w] :
        queue[v][i] = queue[w][k] => v = w /\ i = k

SentOnce ==
    \A v, w \in Pool : \A i, k \in Sender :
        sender[v][i] = sender[w][k] /\ sender[v][i] \in Job => v = w /\ i = k

PlaceRule(j) ==
    /\ push[j] # <<>> => ~Queued(j) /\ ~Sending(j) /\ ~Held(j)
    /\ Queued(j) => ~Sending(j) /\ ~Held(j)
    /\ Sending(j) => ~Held(j)
    /\ push[j] # <<>> \/ Queued(j) \/ Sending(j) => runs[j] = 0
    /\ push[j] # <<>> /\ push[j][2] = "create" => doc[j] = "none" /\ j \notin stale
    /\ doc[j] \in Live /\ j \notin excused => Known(j)

PlaceRules == QueuedOnce /\ SentOnce /\ \A j \in Job : PlaceRule(j)

MemInv == PoolInv /\ JobInv /\ QueueTypes /\ SenderRules /\ PlaceRules

-----------------------------------------------------------------------------
(* The queues.                                                             *)

LEMMA AppendFields ==
    ASSUME NEW S, NEW s \in Seq(S), NEW x \in S
    PROVE  /\ Append(s, x) \in Seq(S) /\ Append(s, x) # <<>> /\ Len(s) \in Nat
           /\ DOMAIN s = 1..Len(s) /\ DOMAIN Append(s, x) = 1..(Len(s) + 1)
           /\ \A i \in 1..Len(s) : Append(s, x)[i] = s[i]
           /\ Append(s, x)[Len(s) + 1] = x
  OBVIOUS

LEMMA TailFields ==
    ASSUME NEW S, NEW s \in Seq(S), s # <<>>
    PROVE  /\ Tail(s) \in Seq(S) /\ Len(s) \in Nat /\ Len(s) >= 1
           /\ DOMAIN s = 1..Len(s) /\ DOMAIN Tail(s) = 1..(Len(s) - 1)
           /\ \A i \in 1..(Len(s) - 1) : i + 1 \in 1..Len(s) /\ Tail(s)[i] = s[i + 1]
           /\ Head(s) = s[1] /\ Head(s) \in S
  OBVIOUS

LEMMA QueuedAt ==
    ASSUME NEW s \in Seq(Job), NEW j
    PROVE  Contains(s, j) <=> \E i \in DOMAIN s : s[i] = j
  <1>1. DOMAIN s = 1..Len(s)
    OBVIOUS
  <1>2. QED
    BY <1>1 DEF Contains

LEMMA QueueAppend ==
    ASSUME queue \in [Pool -> Seq(Job)], QueuedOnce, NEW w \in Pool, NEW j \in Job, ~Queued(j),
           queue' = [queue EXCEPT ![w] = Append(queue[w], j)]
    PROVE  /\ queue' \in [Pool -> Seq(Job)] /\ QueuedOnce' /\ queue'[w] # <<>>
           /\ \A v \in Pool : v # w => queue'[v] = queue[v]
           /\ \A i \in Job : Queued(i)' <=> Queued(i) \/ i = j
  <1> DEFINE s == queue[w]
             t == Append(s, j)
             n == Len(s) + 1
  <1>1. s \in Seq(Job)
    OBVIOUS
  <1>2. /\ t \in Seq(Job) /\ t # <<>> /\ Len(s) \in Nat
        /\ DOMAIN s = 1..Len(s) /\ DOMAIN t = 1..n
        /\ (\A i \in 1..Len(s) : t[i] = s[i]) /\ t[n] = j
    BY <1>1, AppendFields
  <1>3. n \in DOMAIN t /\ \A i \in DOMAIN t : i \in DOMAIN s \/ i = n
    BY <1>2
  <1>4. \A i \in DOMAIN s : i \in DOMAIN t /\ t[i] = s[i]
    BY <1>2
  <1>5. t[n] = j
    BY <1>2
  <1> HIDE DEF t, n
  <1>6. /\ queue' \in [Pool -> Seq(Job)] /\ queue'[w] = t /\ t \in Seq(Job)
        /\ \A v \in Pool : v # w => queue'[v] = queue[v]
    BY <1>2 DEF t
  <1>7. \A v \in Pool : \A i \in DOMAIN queue[v] : queue[v][i] # j
    BY QueuedAt DEF Queued
  <1>8. ASSUME NEW v \in Pool, NEW i \in DOMAIN queue'[v]
        PROVE  \/ i \in DOMAIN queue[v] /\ queue'[v][i] = queue[v][i]
               \/ v = w /\ i = n /\ queue'[v][i] = j
    <2>1. CASE v = w
      BY <1>3, <1>4, <1>5, <1>6, <2>1
    <2>2. CASE v # w
      BY <1>6, <2>2
    <2>3. QED
      BY <2>1, <2>2
  <1>9. QueuedOnce'
    <2> SUFFICES ASSUME NEW v \in Pool, NEW u \in Pool, NEW i \in DOMAIN queue'[v],
                        NEW k \in DOMAIN queue'[u], queue'[v][i] = queue'[u][k]
                 PROVE  v = u /\ i = k
      BY DEF QueuedOnce
    <2>1. \/ i \in DOMAIN queue[v] /\ queue'[v][i] = queue[v][i]
          \/ v = w /\ i = n /\ queue'[v][i] = j
      BY <1>8
    <2>2. \/ k \in DOMAIN queue[u] /\ queue'[u][k] = queue[u][k]
          \/ u = w /\ k = n /\ queue'[u][k] = j
      BY <1>8
    <2>3. QED
      BY <1>7, <2>1, <2>2 DEF QueuedOnce
  <1>10. ASSUME NEW i \in Job PROVE Queued(i)' <=> Queued(i) \/ i = j
    <2>1. Queued(i) <=> \E v \in Pool : \E k \in DOMAIN queue[v] : queue[v][k] = i
      BY QueuedAt DEF Queued
    <2>2. Queued(i)' <=> \E v \in Pool : \E k \in DOMAIN queue'[v] : queue'[v][k] = i
      <3>1. ASSUME NEW v \in Pool
            PROVE  Contains(queue'[v], i) <=> \E k \in DOMAIN queue'[v] : queue'[v][k] = i
        <4>1. queue'[v] \in Seq(Job)
          BY <1>6
        <4>2. QED
          BY <4>1, QueuedAt
      <3>2. QED
        BY <3>1 DEF Queued
    <2>3. Queued(i)' => Queued(i) \/ i = j
      BY <1>8, <2>1, <2>2
    <2>4. i = j => Queued(i)'
      BY <1>3, <1>5, <1>6, <2>2
    <2>5. ASSUME NEW v \in Pool, NEW k \in DOMAIN queue[v], queue[v][k] = i
          PROVE  k \in DOMAIN queue'[v] /\ queue'[v][k] = i
      <3>1. CASE v = w
        BY <1>4, <1>6, <2>5, <3>1
      <3>2. CASE v # w
        BY <1>6, <2>5, <3>2
      <3>3. QED
        BY <3>1, <3>2
    <2>6. QED
      BY <2>1, <2>2, <2>3, <2>4, <2>5
  <1>11. QED
    BY <1>2, <1>6, <1>9, <1>10 DEF t

LEMMA QueueTake ==
    ASSUME queue \in [Pool -> Seq(Job)], QueuedOnce, NEW w \in Pool, queue[w] # <<>>,
           queue' = [queue EXCEPT ![w] = Tail(queue[w])]
    PROVE  /\ queue' \in [Pool -> Seq(Job)] /\ QueuedOnce'
           /\ Head(queue[w]) \in Job /\ Queued(Head(queue[w]))
           /\ \A v \in Pool : v # w => queue'[v] = queue[v]
           /\ \A i \in Job : Queued(i)' <=> Queued(i) /\ i # Head(queue[w])
  <1> DEFINE s == queue[w]
             t == Tail(s)
             j == Head(s)
  <1>1. s \in Seq(Job)
    OBVIOUS
  <1>2. /\ t \in Seq(Job) /\ Len(s) \in Nat /\ Len(s) >= 1
        /\ DOMAIN s = 1..Len(s) /\ DOMAIN t = 1..(Len(s) - 1)
        /\ \A i \in 1..(Len(s) - 1) : i + 1 \in 1..Len(s) /\ t[i] = s[i + 1]
        /\ j = s[1] /\ j \in Job
    BY <1>1, TailFields
  <1>3. /\ 1 \in DOMAIN s /\ s[1] = j
        /\ \A i \in DOMAIN t : i + 1 \in DOMAIN s /\ t[i] = s[i + 1] /\ i + 1 # 1 /\ i \in Nat
        /\ \A i \in DOMAIN s : i # 1 => i \in Nat /\ i - 1 \in DOMAIN t /\ t[i - 1] = s[i]
    BY <1>2
  <1> HIDE DEF t, j
  <1>4. /\ queue' \in [Pool -> Seq(Job)] /\ queue'[w] = t /\ t \in Seq(Job)
        /\ \A v \in Pool : v # w => queue'[v] = queue[v]
    BY <1>2 DEF t
  <1>5. Queued(j)
    BY <1>1, <1>3, QueuedAt DEF Queued
  <1>6. ASSUME NEW v \in Pool, v # w, NEW i \in DOMAIN queue[v] PROVE queue[v][i] # j
    BY <1>3, <1>6 DEF QueuedOnce
  <1>7. ASSUME NEW i \in DOMAIN t PROVE t[i] # j
    BY <1>3 DEF QueuedOnce
  <1>8. QueuedOnce'
    <2> SUFFICES ASSUME NEW v \in Pool, NEW u \in Pool, NEW i \in DOMAIN queue'[v],
                        NEW k \in DOMAIN queue'[u], queue'[v][i] = queue'[u][k]
                 PROVE  v = u /\ i = k
      BY DEF QueuedOnce
    <2>1. CASE v = w /\ u = w
      <3>1. /\ i + 1 \in DOMAIN s /\ k + 1 \in DOMAIN s /\ s[i + 1] = s[k + 1]
            /\ i \in Nat /\ k \in Nat
        BY <1>3, <1>4, <2>1
      <3>2. i + 1 = k + 1
        BY <3>1 DEF QueuedOnce
      <3>3. QED
        BY <2>1, <3>1, <3>2
    <2>2. CASE v # w /\ u # w
      BY <1>4, <2>2 DEF QueuedOnce
    <2>3. CASE v = w /\ u # w
      <3>1. i + 1 \in DOMAIN queue[v] /\ k \in DOMAIN queue[u] /\ queue[v][i + 1] = queue[u][k]
        BY <1>3, <1>4, <2>3
      <3>2. QED
        BY <2>3, <3>1 DEF QueuedOnce
    <2>4. CASE v # w /\ u = w
      <3>1. i \in DOMAIN queue[v] /\ k + 1 \in DOMAIN queue[u] /\ queue[v][i] = queue[u][k + 1]
        BY <1>3, <1>4, <2>4
      <3>2. QED
        BY <2>4, <3>1 DEF QueuedOnce
    <2>5. QED
      BY <2>1, <2>2, <2>3, <2>4
  <1>9. ASSUME NEW i \in Job PROVE Queued(i)' <=> Queued(i) /\ i # j
    <2>1. Queued(i) <=> \E v \in Pool : \E k \in DOMAIN queue[v] : queue[v][k] = i
      BY QueuedAt DEF Queued
    <2>2. Queued(i)' <=> \E v \in Pool : \E k \in DOMAIN queue'[v] : queue'[v][k] = i
      <3>1. ASSUME NEW v \in Pool
            PROVE  Contains(queue'[v], i) <=> \E k \in DOMAIN queue'[v] : queue'[v][k] = i
        <4>1. queue'[v] \in Seq(Job)
          BY <1>4
        <4>2. QED
          BY <4>1, QueuedAt
      <3>2. QED
        BY <3>1 DEF Queued
    <2>3. ASSUME NEW v \in Pool, NEW k \in DOMAIN queue'[v], queue'[v][k] = i
          PROVE  i # j /\ \E m \in DOMAIN queue[v] : queue[v][m] = i
      <3>1. CASE v = w
        BY <1>3, <1>4, <1>7, <2>3, <3>1
      <3>2. CASE v # w
        BY <1>4, <1>6, <2>3, <3>2
      <3>3. QED
        BY <3>1, <3>2
    <2>4. ASSUME NEW v \in Pool, NEW k \in DOMAIN queue[v], queue[v][k] = i, i # j
          PROVE  \E m \in DOMAIN queue'[v] : queue'[v][m] = i
      <3>1. CASE v = w
        BY <1>3, <1>4, <2>4, <3>1
      <3>2. CASE v # w
        BY <1>4, <2>4, <3>2
      <3>3. QED
        BY <3>1, <3>2
    <2>5. QED
      BY <2>1, <2>2, <2>3, <2>4
  <1>10. QED
    BY <1>2, <1>4, <1>5, <1>8, <1>9 DEF j

-----------------------------------------------------------------------------
(* A send goroutine takes a job, or lets it go.                            *)

LEMMA SenderSet ==
    ASSUME sender \in [Pool -> [Sender -> Job \cup {NoJob, Off}]], NEW w \in Pool,
           NEW i \in Sender, NEW x \in Job \cup {NoJob, Off}, Sends(w, i, x)
    PROVE  /\ sender' \in [Pool -> [Sender -> Job \cup {NoJob, Off}]] /\ sender'[w][i] = x
           /\ \A v \in Pool : \A k \in Sender : v # w \/ k # i => sender'[v][k] = sender[v][k]
  <1>1. /\ sender'[w] = [sender[w] EXCEPT ![i] = x]
        /\ \A v \in Pool : v # w => sender'[v] = sender[v]
        /\ sender' \in [Pool -> [Sender -> Job \cup {NoJob, Off}]]
    BY DEF Sends
  <1>2. sender[w] \in [Sender -> Job \cup {NoJob, Off}]
    OBVIOUS
  <1>3. sender'[w][i] = x /\ \A k \in Sender : k # i => sender'[w][k] = sender[w][k]
    BY <1>1, <1>2
  <1>4. QED
    BY <1>1, <1>3

LEMMA SenderJob ==
    ASSUME sender \in [Pool -> [Sender -> Job \cup {NoJob, Off}]], SentOnce, NEW w \in Pool,
           NEW i \in Sender, NEW x \in Job \cup {NoJob, Off}, Sends(w, i, x),
           x \in Job => sender[w][i] \notin Job /\ ~Sending(x)
    PROVE  /\ SentOnce'
           /\ \A j \in Job : Sending(j)' <=> (Sending(j) /\ j # sender[w][i]) \/ j = x
  <1>1. /\ sender' \in [Pool -> [Sender -> Job \cup {NoJob, Off}]] /\ sender'[w][i] = x
        /\ \A v \in Pool : \A k \in Sender : v # w \/ k # i => sender'[v][k] = sender[v][k]
    BY SenderSet
  <1>2. NoJob \notin Job /\ Off \notin Job
    BY WorkerAssumption, MemAssumption
  <1>3. x \in Job => \A v \in Pool, k \in Sender : sender[v][k] # x
    BY DEF Sending
  <1>4. SentOnce'
    <2> SUFFICES ASSUME NEW v \in Pool, NEW u \in Pool, NEW m \in Sender, NEW k \in Sender,
                        sender'[v][m] = sender'[u][k], sender'[v][m] \in Job
                 PROVE  v = u /\ m = k
      BY DEF SentOnce
    <2>1. CASE v = w /\ m = i
      BY <1>1, <1>3, <2>1
    <2>2. CASE u = w /\ k = i
      BY <1>1, <1>3, <2>2
    <2>3. CASE ~(v = w /\ m = i) /\ ~(u = w /\ k = i)
      BY <1>1, <2>3 DEF SentOnce
    <2>4. QED
      BY <2>1, <2>2, <2>3
  <1>5. ASSUME NEW j \in Job PROVE Sending(j)' <=> (Sending(j) /\ j # sender[w][i]) \/ j = x
    <2>1. Sending(j)' => (Sending(j) /\ j # sender[w][i]) \/ j = x
      <3> SUFFICES ASSUME NEW v \in Pool, NEW k \in Sender, sender'[v][k] = j, j # x
                   PROVE  Sending(j) /\ j # sender[w][i]
        BY DEF Sending
      <3>1. v # w \/ k # i
        BY <1>1
      <3>2. sender[v][k] = j
        BY <1>1, <3>1
      <3>3. QED
        BY <3>1, <3>2 DEF Sending, SentOnce
    <2>2. Sending(j) /\ j # sender[w][i] => Sending(j)'
      <3> SUFFICES ASSUME NEW v \in Pool, NEW k \in Sender, sender[v][k] = j, j # sender[w][i]
                   PROVE  Sending(j)'
        BY DEF Sending
      <3>1. sender'[v][k] = j
        BY <1>1
      <3>2. QED
        BY <3>1 DEF Sending
    <2>3. j = x => Sending(j)'
      BY <1>1 DEF Sending
    <2>4. QED
      BY <2>1, <2>2, <2>3
  <1>6. QED
    BY <1>4, <1>5

LEMMA SenderAlive ==
    ASSUME sender \in [Pool -> [Sender -> Job \cup {NoJob, Off}]], NEW w \in Pool,
           NEW i \in Sender, NEW x \in Job \cup {NoJob, Off}, Sends(w, i, x)
    PROVE  /\ \A v \in Pool : v # w => Alive(v)' = Alive(v)
           /\ Alive(w)' = IF x = Off THEN Alive(w) \ {i} ELSE Alive(w) \cup {i}
  <1>1. /\ sender'[w][i] = x
        /\ \A v \in Pool : \A k \in Sender : v # w \/ k # i => sender'[v][k] = sender[v][k]
    BY SenderSet
  <1>2. QED
    BY <1>1 DEF Alive

-----------------------------------------------------------------------------
(* What does not change.                                                   *)

LEMMA SameQueues ==
    ASSUME UNCHANGED queue
    PROVE  (\A j \in Job : Queued(j)' <=> Queued(j)) /\ (QueuedOnce => QueuedOnce')
  BY DEF Queued, QueuedOnce

LEMMA SameSenders ==
    ASSUME UNCHANGED sender
    PROVE  /\ \A j \in Job : Sending(j)' <=> Sending(j)
           /\ SentOnce => SentOnce'
           /\ \A w \in Pool : Alive(w)' = Alive(w)
  BY DEF Sending, SentOnce, Alive

LEMMA SameHeld == ASSUME UNCHANGED task PROVE \A j \in Job : Held(j)' <=> Held(j)
  BY DEF Held, Holds

LEMMA SameSending ==
    ASSUME SenderRules, UNCHANGED <<queue, run, sender, closers, running, toClose>>
    PROVE  SenderRules'
  <1>1. ASSUME NEW w \in Pool PROVE SenderRule(w)'
    <2>1. Alive(w)' = Alive(w) /\ SenderRule(w)
      BY SameSenders DEF SenderRules
    <2>2. QED
      BY <2>1 DEF SenderRule
  <1>2. QED
    BY <1>1 DEF SenderRules

\* A job that stays where it is.
LEMMA SamePlace ==
    ASSUME NEW j \in Job, PlaceRule(j), push'[j] = push[j], Queued(j)' <=> Queued(j),
           Sending(j)' <=> Sending(j), Held(j)' <=> Held(j), runs'[j] = runs[j],
           doc'[j] = doc[j] \/ (doc'[j] \notin Live /\ doc[j] # "none"),
           j \in stale' /\ doc[j] = "none" => j \in stale,
           j \in excused => j \in excused'
    PROVE  PlaceRule(j)'
  BY DEF PlaceRule, Known

\* Nothing happens to the jobs.
LEMMA SameJobs ==
    ASSUME MemInv, UNCHANGED <<couch, task, history, queue, push, sender>>
    PROVE  JobInv' /\ PlaceRules'
  <1>1. UNCHANGED <<doc, stale, runs, excused>>
    BY DEF couch, history
  <1>2. JobTypes' /\ StaleEnded' /\ ExecBound'
    BY <1>1 DEF MemInv, JobInv, JobRules, JobTypes, StaleEnded, ExecBound
  <1>3. JobInv'
    BY <1>1, <1>2, JobFrame DEF MemInv
  <1>4. QueuedOnce' /\ SentOnce'
    BY SameQueues, SameSenders DEF MemInv, PlaceRules
  <1>5. \A i \in Job : PlaceRule(i)'
    BY <1>1, SameQueues, SameSenders, SameHeld, SamePlace DEF MemInv, PlaceRules
  <1>6. QED
    BY <1>3, <1>4, <1>5 DEF PlaceRules

-----------------------------------------------------------------------------
(* The push of a job, and the requests of administrators.                  *)

LEMMA PushJobInv == ASSUME MemInv, NEW p \in Process, NEW j \in Job, PushJob(p, j) PROVE MemInv'
  <1>1. /\ doc[j] = "none" /\ ~Known(j)
        /\ push' = [push EXCEPT ![j] = <<p, "create">>]
        /\ stale' = stale \ {j}
        /\ runs' = [runs EXCEPT ![j] = 0] /\ excused' = excused \ {j}
        /\ UNCHANGED <<doc, task, slots, pools>>
        /\ UNCHANGED <<queue, run, sender, closers, running, down, toClose>>
    BY DEF PushJob
  <1>2. PoolInv'
    BY <1>1, PoolFrame DEF MemInv
  <1>3. JobTypes' /\ StaleEnded' /\ ExecBound'
    BY <1>1, WorkerAssumption
       DEF MemInv, JobInv, JobRules, JobTypes, StaleEnded, ExecBound
  <1>4. \A i \in Job : i # j => runs'[i] = runs[i] /\ (i \in excused => i \in excused')
    BY <1>1 DEF MemInv, JobInv, JobTypes
  <1>5. \A g \in Worker : ~Holds(g, j)
    BY <1>1 DEF Known, Held
  <1>6. JobInv'
    BY <1>1, <1>3, <1>4, <1>5, JobFrame DEF MemInv
  <1>7. \A i \in Job : i # j => push'[i] = push[i]
    BY <1>1 DEF MemInv, QueueTypes
  <1>8. QueueTypes'
    BY <1>1 DEF MemInv, QueueTypes
  <1>9. SenderRules'
    BY <1>1, SameSending DEF MemInv
  <1>10. QueuedOnce' /\ SentOnce'
    BY <1>1, SameQueues, SameSenders DEF MemInv, PlaceRules
  <1>11. ASSUME NEW i \in Job PROVE PlaceRule(i)'
    <2>1. (Queued(i)' <=> Queued(i)) /\ (Sending(i)' <=> Sending(i)) /\ (Held(i)' <=> Held(i))
      BY <1>1, SameQueues, SameSenders, SameHeld
    <2>2. CASE i # j
      BY <1>1, <1>4, <1>7, <2>1, <2>2, SamePlace DEF MemInv, PlaceRules
    <2>3. CASE i = j
      <3>1. ~Queued(i)' /\ ~Sending(i)' /\ ~Held(i)' /\ doc'[i] = "none" /\ i \notin stale'
        BY <1>1, <2>1, <2>3 DEF Known
      <3>2. runs'[i] = 0
        BY <1>1, <2>3 DEF MemInv, JobInv, JobTypes
      <3>3. QED
        BY <3>1, <3>2 DEF PlaceRule, Live
    <2>4. QED
      BY <2>2, <2>3
  <1>12. QED
    BY <1>2, <1>6, <1>8, <1>9, <1>10, <1>11 DEF MemInv, PlaceRules

LEMMA CreateInv == ASSUME MemInv, NEW j \in Job, Create(j) PROVE MemInv'
  <1>1. /\ push[j] # <<>> /\ push[j][2] = "create"
        /\ \/ /\ doc' = [doc EXCEPT ![j] = "queued"]
              /\ push' = [push EXCEPT ![j] = <<push[j][1], "enqueue">>]
           \/ push' = [push EXCEPT ![j] = <<>>] /\ UNCHANGED doc
        /\ UNCHANGED <<stale, task, slots, pools, runs, excused>>
        /\ UNCHANGED <<queue, run, sender, closers, running, down, toClose>>
    BY DEF Create, history
  <1>2. PlaceRule(j) /\ push[j][1] \in Process
    BY <1>1 DEF MemInv, PlaceRules, QueueTypes
  <1>3. ~Held(j) /\ ~Queued(j) /\ ~Sending(j) /\ doc[j] = "none" /\ j \notin stale /\ runs[j] = 0
    BY <1>1, <1>2 DEF PlaceRule
  <1>4. \A i \in Job : i # j => doc'[i] = doc[i] /\ push'[i] = push[i]
    BY <1>1 DEF MemInv, JobInv, JobTypes, QueueTypes
  <1>5. JobTypes'
    BY <1>1 DEF MemInv, JobInv, JobTypes
  <1>6. StaleEnded' /\ ExecBound'
    BY <1>1, <1>3, <1>4 DEF MemInv, JobInv, JobTypes, JobRules, StaleEnded, ExecBound
  <1>7. PoolInv' /\ JobInv'
    <2>1. \A g \in Worker : ~Holds(g, j)
      BY <1>3 DEF Held
    <2>2. QED
      BY <1>1, <1>4, <1>5, <1>6, <2>1, PoolFrame, JobFrame DEF MemInv
  <1>8. QueueTypes'
    <2>1. <<push[j][1], "enqueue">> \in Process \X {"create", "enqueue"}
      BY <1>2
    <2>2. push \in [Job -> {<<>>} \cup (Process \X {"create", "enqueue"})]
      BY DEF MemInv, QueueTypes
    <2>3. push' \in [Job -> {<<>>} \cup (Process \X {"create", "enqueue"})]
      BY <1>1, <2>1, <2>2
    <2>4. QED
      BY <1>1, <2>3 DEF MemInv, QueueTypes
  <1>9. SenderRules' /\ QueuedOnce' /\ SentOnce'
    BY <1>1, SameSending, SameQueues, SameSenders DEF MemInv, PlaceRules
  <1>10. ASSUME NEW i \in Job PROVE PlaceRule(i)'
    <2>1. (Queued(i)' <=> Queued(i)) /\ (Sending(i)' <=> Sending(i)) /\ (Held(i)' <=> Held(i))
      BY <1>1, SameQueues, SameSenders, SameHeld
    <2>2. CASE i # j
      BY <1>1, <1>4, <2>1, <2>2, SamePlace DEF MemInv, PlaceRules
    <2>3. CASE i = j
      <3>1. ~Queued(i)' /\ ~Sending(i)' /\ ~Held(i)' /\ runs'[i] = 0
        BY <1>1, <1>3, <2>1, <2>3
      <3>2. (push'[i] = <<>> /\ doc'[i] = "none") \/ push'[i] = <<push[j][1], "enqueue">>
        BY <1>1, <1>3, <2>3 DEF MemInv, QueueTypes
      <3>3. \/ push'[i] = <<>> /\ doc'[i] = "none"
            \/ push'[i] # <<>> /\ push'[i][2] = "enqueue"
        <4>1. <<push[j][1], "enqueue">> # <<>> /\ <<push[j][1], "enqueue">>[2] = "enqueue"
          OBVIOUS
        <4>2. QED
          BY <3>2, <4>1, Zenon
      <3>4. "none" \notin Live
        BY DEF Live
      <3>5. QED
        BY <3>1, <3>3, <3>4 DEF PlaceRule, Known
    <2>4. QED
      BY <2>2, <2>3
  <1>11. QED
    BY <1>7, <1>8, <1>9, <1>10 DEF MemInv, PlaceRules

LEMMA AdminInv ==
    ASSUME MemInv, NEW j \in Job, CleanJob(j) \/ PurgeJob(j), UNCHANGED memVars PROVE MemInv'
  <1>1. /\ JobInv' /\ UNCHANGED <<task, slots, pools, runs, excused>>
        /\ \A i \in Job : doc'[i] \in Live => doc[i] \in Live /\ doc'[i] = doc[i]
        /\ \A i \in Job : doc[i] = "none" => doc'[i] = "none" /\ (i \in stale' => i \in stale)
    BY AdminJobs DEF MemInv
  <1>2. UNCHANGED <<queue, run, sender, closers, push, running, down, toClose>>
    BY Zenon DEF memVars
  <1>3. PoolInv'
    BY <1>1, PoolFrame DEF MemInv
  <1>4. QueueTypes' /\ SenderRules' /\ QueuedOnce' /\ SentOnce'
    BY <1>2, SameSending, SameQueues, SameSenders DEF MemInv, QueueTypes, PlaceRules
  <1>5. ASSUME NEW i \in Job PROVE PlaceRule(i)'
    <2>1. (Queued(i)' <=> Queued(i)) /\ (Sending(i)' <=> Sending(i)) /\ (Held(i)' <=> Held(i))
      BY <1>1, <1>2, SameQueues, SameSenders, SameHeld
    <2>2. PlaceRule(i)
      BY DEF MemInv, PlaceRules
    <2>3. QED
      BY <1>1, <1>2, <2>1, <2>2, SamePlace
  <1>6. QED
    BY <1>1, <1>3, <1>4, <1>5 DEF MemInv, PlaceRules

-----------------------------------------------------------------------------
(* The queue and its goroutine.                                            *)

LEMMA EnqueueInv == ASSUME MemInv, NEW j \in Job, Enqueue(j) PROVE MemInv'
  <1>4. PICK w \in Pool : w = <<push[j][1], KindOf[j]>> /\ w[1] \in Process
    <2>1. push[j] # <<>>
      BY DEF Enqueue
    <2>2. push[j][1] \in Process
      BY <2>1 DEF MemInv, QueueTypes
    <2>3. <<push[j][1], KindOf[j]>> \in Pool
      BY <2>2, MemAssumption DEF Pool
    <2>4. QED
      BY <2>2, <2>3, WorkerFields
  <1>1. /\ push[j] # <<>> /\ push' = [push EXCEPT ![j] = <<>>]
        /\ queue' = [queue EXCEPT ![w] = Append(queue[w], j)]
        /\ run' = [run EXCEPT ![w] = TRUE]
        /\ IF run[w] THEN UNCHANGED sender ELSE Starts(w)
        /\ UNCHANGED <<workerVars, closers, running, down, toClose>>
    BY <1>4 DEF Enqueue
  <1>2. UNCHANGED <<doc, stale, task, slots, pools, runs, excused>>
    BY <1>1 DEF workerVars, couch, history
  <1>3. ~Held(j) /\ ~Queued(j) /\ ~Sending(j) /\ runs[j] = 0
    BY <1>1 DEF MemInv, PlaceRules, PlaceRule
  <1>5. /\ queue' \in [Pool -> Seq(Job)] /\ QueuedOnce' /\ queue'[w] # <<>>
        /\ \A v \in Pool : v # w => queue'[v] = queue[v]
        /\ \A i \in Job : Queued(i)' <=> Queued(i) \/ i = j
    BY <1>1, <1>3, <1>4, QueueAppend DEF MemInv, QueueTypes, PlaceRules
  <1>6. /\ push'[j] = <<>> /\ \A i \in Job : i # j => push'[i] = push[i]
        /\ run'[w] = TRUE /\ \A v \in Pool : v # w => run'[v] = run[v]
    BY <1>1, <1>4 DEF MemInv, QueueTypes
  <1>7. /\ sender' \in [Pool -> [Sender -> Job \cup {NoJob, Off}]] /\ SentOnce'
        /\ \A i \in Job : Sending(i)' <=> Sending(i)
        /\ \A v \in Pool : v # w => Alive(v)' = Alive(v)
        /\ \/ run[w] /\ UNCHANGED sender
           \/ \E i \in Sender : Alive(w)' = Alive(w) \cup {i} /\ ~run[w]
    <2>1. CASE run[w]
      BY <1>1, <2>1, SameSenders DEF MemInv, QueueTypes, PlaceRules
    <2>2. CASE ~run[w]
      <3>1. PICK i \in Sender : sender[w][i] = Off /\ Sends(w, i, NoJob)
        BY <1>1, <2>2 DEF Starts, Alive, Sends
      <3>2. NoJob \notin Job /\ Off \notin Job /\ NoJob # Off
        BY WorkerAssumption, MemAssumption
      <3>3. sender' \in [Pool -> [Sender -> Job \cup {NoJob, Off}]]
        BY <1>4, <3>1, SenderSet DEF MemInv, QueueTypes
      <3>4. SentOnce' /\ \A k \in Job : Sending(k)' <=> (Sending(k) /\ k # Off) \/ k = NoJob
        BY <1>4, <3>1, <3>2, SenderJob DEF MemInv, QueueTypes, PlaceRules
      <3>5. (\A v \in Pool : v # w => Alive(v)' = Alive(v)) /\ Alive(w)' = Alive(w) \cup {i}
        BY <1>4, <3>1, <3>2, SenderAlive DEF MemInv, QueueTypes
      <3>6. QED
        BY <2>2, <3>2, <3>3, <3>4, <3>5
    <2>3. QED
      BY <2>1, <2>2
  <1>8. PoolInv' /\ JobInv'
    <2>1. JobTypes' /\ StaleEnded' /\ ExecBound'
      BY <1>2 DEF MemInv, JobInv, JobRules, JobTypes, StaleEnded, ExecBound
    <2>2. QED
      BY <1>2, <2>1, PoolFrame, JobFrame DEF MemInv
  <1>9. QueueTypes'
    BY <1>1, <1>5, <1>7 DEF MemInv, QueueTypes
  <1>10. ASSUME NEW v \in Pool PROVE SenderRule(v)'
    <2>1. SenderRule(v) /\ UNCHANGED <<closers, running, toClose>>
      BY <1>1 DEF MemInv, SenderRules
    <2>2. CASE v # w
      BY <1>5, <1>6, <1>7, <2>1, <2>2 DEF SenderRule
    <2>3. CASE v = w /\ run[w] /\ UNCHANGED sender
      <3>1. Alive(v)' = Alive(v)
        BY <2>3, SameSenders
      <3>2. QED
        BY <1>6, <2>1, <2>3, <3>1 DEF SenderRule
    <2>4. CASE v = w /\ ~run[w] /\ \E i \in Sender : Alive(v)' = Alive(v) \cup {i}
      BY <1>6, <2>1, <2>4 DEF SenderRule
    <2>5. QED
      BY <1>7, <2>2, <2>3, <2>4
  <1>11. ASSUME NEW i \in Job PROVE PlaceRule(i)'
    <2>1. Held(i)' <=> Held(i)
      BY <1>2, SameHeld
    <2>2. CASE i # j
      BY <1>2, <1>5, <1>6, <1>7, <2>1, <2>2, SamePlace DEF MemInv, PlaceRules
    <2>3. CASE i = j
      <3>1. push'[i] = <<>> /\ Queued(i)' /\ ~Sending(i)' /\ ~Held(i)' /\ runs'[i] = 0
        BY <1>2, <1>3, <1>5, <1>6, <1>7, <2>1, <2>3
      <3>2. QED
        BY <3>1 DEF PlaceRule, Known
    <2>4. QED
      BY <2>2, <2>3
  <1>12. QED
    BY <1>5, <1>7, <1>8, <1>9, <1>10, <1>11 DEF MemInv, SenderRules, PlaceRules

\* The sender of a queue that runs is the only one, and the queue has no closer.
LEMMA TakeInv ==
    ASSUME MemInv, NEW w \in Pool, NEW i \in Sender, Take(w, i) PROVE MemInv'
  <1>1. sender[w][i] = NoJob /\ UNCHANGED <<workerVars, closers, push, running, down, toClose>>
    BY DEF Take
  <1>2. UNCHANGED <<doc, stale, task, slots, pools, runs, excused>>
    BY <1>1 DEF workerVars, couch, history
  <1>3. NoJob \notin Job /\ Off \notin Job /\ NoJob # Off
    BY WorkerAssumption, MemAssumption
  <1>4. PoolInv' /\ JobInv'
    <2>1. JobTypes' /\ StaleEnded' /\ ExecBound'
      BY <1>2 DEF MemInv, JobInv, JobRules, JobTypes, StaleEnded, ExecBound
    <2>2. QED
      BY <1>2, <2>1, PoolFrame, JobFrame DEF MemInv
  <1>5. i \in Alive(w)
    BY <1>1, <1>3 DEF Alive
  <1>6. /\ sender \in [Pool -> [Sender -> Job \cup {NoJob, Off}]] /\ SentOnce
        /\ queue \in [Pool -> Seq(Job)] /\ QueuedOnce /\ run \in [Pool -> BOOLEAN]
    BY DEF MemInv, QueueTypes, PlaceRules
  <1>7. CASE /\ queue[w] # <<>> /\ run[w] /\ Sends(w, i, Head(queue[w]))
             /\ queue' = [queue EXCEPT ![w] = Tail(queue[w])] /\ UNCHANGED run
    <2>1. PICK j \in Job : j = Head(queue[w]) /\ Queued(j)
      BY <1>6, <1>7, QueueTake
    <2>2. /\ queue' \in [Pool -> Seq(Job)] /\ QueuedOnce'
          /\ \A v \in Pool : v # w => queue'[v] = queue[v]
          /\ \A k \in Job : Queued(k)' <=> Queued(k) /\ k # j
      BY <1>6, <1>7, <2>1, QueueTake
    <2>3. push[j] = <<>> /\ ~Sending(j) /\ ~Held(j) /\ runs[j] = 0
      BY <2>1 DEF MemInv, PlaceRules, PlaceRule
    <2>4. Sends(w, i, j)
      BY <1>7, <2>1
    <2>5. SentOnce' /\ \A k \in Job : Sending(k)' <=> Sending(k) \/ k = j
      BY <1>1, <1>3, <1>6, <2>3, <2>4, SenderJob
    <2>6. sender' \in [Pool -> [Sender -> Job \cup {NoJob, Off}]]
      BY <1>6, <2>4, SenderSet
    <2>7. \A v \in Pool : Alive(v)' = Alive(v)
      <3>1. (\A v \in Pool : v # w => Alive(v)' = Alive(v)) /\ Alive(w)' = Alive(w) \cup {i}
        BY <1>3, <1>6, <2>4, SenderAlive
      <3>2. Alive(w) \cup {i} = Alive(w)
        BY <1>5
      <3>3. QED
        BY <3>1, <3>2
    <2>8. QueueTypes'
      BY <1>1, <1>7, <2>2, <2>6 DEF MemInv, QueueTypes
    <2>9. ASSUME NEW v \in Pool PROVE SenderRule(v)'
      <3>1. /\ SenderRule(v) /\ Alive(v)' = Alive(v) /\ run'[v] = run[v]
            /\ queue'[v] # <<>> => queue[v] # <<>>
            /\ UNCHANGED <<closers, running, toClose>>
        BY <1>1, <1>7, <2>2, <2>7 DEF MemInv, SenderRules
      <3>2. QED
        BY <3>1 DEF SenderRule
    <2>10. ASSUME NEW k \in Job PROVE PlaceRule(k)'
      <3>1. Held(k)' <=> Held(k)
        BY <1>2, SameHeld
      <3>2. CASE k # j
        BY <1>1, <1>2, <2>2, <2>5, <3>1, <3>2, SamePlace DEF MemInv, PlaceRules
      <3>3. CASE k = j
        <4>1. push'[k] = <<>> /\ ~Queued(k)' /\ Sending(k)' /\ ~Held(k)' /\ runs'[k] = 0
          BY <1>1, <1>2, <2>2, <2>3, <2>5, <3>1, <3>3
        <4>2. QED
          BY <4>1 DEF PlaceRule, Known
      <3>4. QED
        BY <3>2, <3>3
    <2>11. QED
      BY <1>4, <2>2, <2>5, <2>8, <2>9, <2>10 DEF MemInv, SenderRules, PlaceRules
  <1>8. CASE /\ queue[w] = <<>> \/ ~run[w]
             /\ run' = [run EXCEPT ![w] = FALSE] /\ Sends(w, i, Off) /\ UNCHANGED queue
    <2>1. SentOnce' /\ \A k \in Job : Sending(k)' <=> Sending(k)
      BY <1>1, <1>3, <1>6, <1>8, SenderJob
    <2>2. sender' \in [Pool -> [Sender -> Job \cup {NoJob, Off}]]
      BY <1>6, <1>8, SenderSet
    <2>3. (\A v \in Pool : v # w => Alive(v)' = Alive(v)) /\ Alive(w)' = Alive(w) \ {i}
      BY <1>6, <1>8, SenderAlive
    <2>4. run'[w] = FALSE /\ \A v \in Pool : v # w => run'[v] = run[v]
      BY <1>6, <1>8
    <2>5. QueueTypes'
      BY <1>1, <1>8, <2>2 DEF MemInv, QueueTypes
    <2>6. ASSUME NEW v \in Pool PROVE SenderRule(v)'
      <3>1. SenderRule(v) /\ UNCHANGED <<queue, closers, running, toClose>>
        BY <1>1, <1>8 DEF MemInv, SenderRules
      <3>2. CASE v # w
        BY <2>3, <2>4, <3>1, <3>2 DEF SenderRule
      <3>3. CASE v = w
        <4>1. SUFFICES ASSUME running[w[1]] PROVE Alive(w)' = {} /\ queue[w] = <<>>
          BY <2>4, <3>1, <3>3 DEF SenderRule
        <4>2. run[w] /\ \A k \in Alive(w) : k = i
          BY <1>5, <3>1, <3>3, <4>1 DEF SenderRule
        <4>3. QED
          BY <1>8, <2>3, <4>2
      <3>4. QED
        BY <3>2, <3>3
    <2>7. QueuedOnce' /\ \A k \in Job : Queued(k)' <=> Queued(k)
      BY <1>6, <1>8, SameQueues
    <2>8. \A k \in Job : PlaceRule(k)'
      BY <1>1, <1>2, <2>1, <2>7, SameHeld, SamePlace DEF MemInv, PlaceRules
    <2>9. QED
      BY <1>4, <2>1, <2>5, <2>6, <2>7, <2>8 DEF MemInv, SenderRules, PlaceRules
  <1>9. QED
    BY <1>7, <1>8 DEF Take

LEMMA SendJobInv ==
    ASSUME MemInv, NEW w \in Pool, NEW i \in Sender, SendJob(w, i) PROVE MemInv'
  <1>1. PICK j \in Job : j = sender[w][i]
    BY DEF SendJob
  <1>2. PICK r \in Routine : Receive(<<w, r>>, j)
    BY <1>1 DEF SendJob
  <1> DEFINE g == <<w, r>>
  <1>3. /\ Sends(w, i, NoJob) /\ UNCHANGED <<couch, slots, pools, history>>
        /\ UNCHANGED <<queue, run, closers, push, running, down, toClose>>
    BY DEF SendJob
  <1>4. UNCHANGED <<doc, stale, runs, excused>> /\ g \in Worker
    BY <1>3, WorkerFields DEF couch, history
  <1>5. Sending(j) /\ NoJob \notin Job /\ Off \notin Job /\ NoJob # Off
    BY <1>1, WorkerAssumption, MemAssumption DEF Sending
  <1>6. push[j] = <<>> /\ ~Queued(j) /\ ~Held(j) /\ runs[j] = 0
    BY <1>5 DEF MemInv, PlaceRules, PlaceRule
  <1>7. sender \in [Pool -> [Sender -> Job \cup {NoJob, Off}]] /\ SentOnce
    BY DEF MemInv, QueueTypes, PlaceRules
  <1>8. SentOnce' /\ \A k \in Job : Sending(k)' <=> Sending(k) /\ k # j
    BY <1>1, <1>3, <1>5, <1>7, SenderJob
  <1>9. sender' \in [Pool -> [Sender -> Job \cup {NoJob, Off}]]
    BY <1>3, <1>7, SenderSet
  <1>10. i \in Alive(w)
    BY <1>1, <1>5 DEF Alive
  <1>11. \A v \in Pool : Alive(v)' = Alive(v)
    <2>1. (\A v \in Pool : v # w => Alive(v)' = Alive(v)) /\ Alive(w)' = Alive(w) \cup {i}
      BY <1>3, <1>5, <1>7, SenderAlive
    <2>2. Alive(w) \cup {i} = Alive(w)
      BY <1>10
    <2>3. QED
      BY <2>1, <2>2
  <1>12. PoolInv'
    BY <1>2, <1>3, <1>4, ReceivePool DEF MemInv
  <1>13. /\ JobInv'
         /\ \A h \in Worker : \A k \in Job : Holds(h, k)' <=> Holds(h, k) \/ (h = g /\ k = j)
    <2>1. \A h \in Worker : ~Holds(h, j)
      BY <1>6 DEF Held
    <2>2. QED
      BY <1>2, <1>3, <1>4, <1>6, <2>1, ReceiveJobs DEF MemInv
  <1>14. \A k \in Job : Held(k)' <=> Held(k) \/ k = j
    BY <1>4, <1>13 DEF Held
  <1>15. QueueTypes'
    BY <1>3, <1>9 DEF MemInv, QueueTypes
  <1>16. ASSUME NEW v \in Pool PROVE SenderRule(v)'
    <2>1. SenderRule(v) /\ Alive(v)' = Alive(v)
      BY <1>11 DEF MemInv, SenderRules
    <2>2. QED
      BY <1>3, <2>1 DEF SenderRule
  <1>17. QueuedOnce' /\ \A k \in Job : Queued(k)' <=> Queued(k)
    BY <1>3, SameQueues DEF MemInv, PlaceRules
  <1>18. ASSUME NEW k \in Job PROVE PlaceRule(k)'
    <2>1. CASE k # j
      BY <1>3, <1>4, <1>8, <1>14, <1>17, <2>1, SamePlace DEF MemInv, PlaceRules
    <2>2. CASE k = j
      <3>1. push'[k] = <<>> /\ ~Queued(k)' /\ ~Sending(k)' /\ Held(k)'
        BY <1>3, <1>6, <1>8, <1>14, <1>17, <2>2
      <3>2. QED
        BY <3>1 DEF PlaceRule, Known
    <2>3. QED
      BY <2>1, <2>2
  <1>19. QED
    BY <1>8, <1>12, <1>13, <1>15, <1>16, <1>17, <1>18 DEF MemInv, SenderRules, PlaceRules

LEMMA SendClosedInv ==
    ASSUME MemInv, NEW w \in Pool, NEW i \in Sender, SendClosed(w, i) PROVE MemInv'
  <1>1. PICK j \in Job : j = sender[w][i]
    BY DEF SendClosed
  <1>2. /\ closers[w] > 0 /\ closers' = [closers EXCEPT ![w] = closers[w] - 1]
        /\ excused' = excused \cup {j} /\ Sends(w, i, Off)
        /\ UNCHANGED <<doc, stale, task, slots, pools, runs>>
        /\ UNCHANGED <<queue, run, push, running, down, toClose>>
    BY <1>1 DEF SendClosed, couch
  <1>3. Sending(j) /\ NoJob \notin Job /\ Off \notin Job /\ NoJob # Off
    BY <1>1, WorkerAssumption, MemAssumption DEF Sending
  <1>4. push[j] = <<>> /\ ~Queued(j) /\ ~Held(j)
    BY <1>3 DEF MemInv, PlaceRules, PlaceRule
  <1>5. sender \in [Pool -> [Sender -> Job \cup {NoJob, Off}]] /\ SentOnce
    BY DEF MemInv, QueueTypes, PlaceRules
  <1>6. SentOnce' /\ \A k \in Job : Sending(k)' <=> Sending(k) /\ k # j
    BY <1>1, <1>2, <1>3, <1>5, SenderJob
  <1>7. sender' \in [Pool -> [Sender -> Job \cup {NoJob, Off}]]
    BY <1>2, <1>5, SenderSet
  <1>8. \A v \in Pool : v # w => Alive(v)' = Alive(v)
    BY <1>2, <1>5, SenderAlive
  <1>9. JobTypes' /\ StaleEnded' /\ ExecBound'
    BY <1>2 DEF MemInv, JobInv, JobRules, JobTypes, StaleEnded, ExecBound
  <1>10. PoolInv' /\ JobInv'
    BY <1>2, <1>9, PoolFrame, JobFrame DEF MemInv
  <1>11. closers' \in [Pool -> Nat] /\ \A v \in Pool : v # w => closers'[v] = closers[v]
    BY <1>2 DEF MemInv, QueueTypes
  <1>12. QueueTypes'
    BY <1>2, <1>7, <1>11 DEF MemInv, QueueTypes
  <1>13. ASSUME NEW v \in Pool PROVE SenderRule(v)'
    <2>1. SenderRule(v) /\ closers[w] # 0
      BY <1>2 DEF MemInv, SenderRules, QueueTypes
    <2>2. CASE v = w
      BY <1>2, <2>1, <2>2 DEF SenderRule
    <2>3. CASE v # w
      BY <1>2, <1>8, <1>11, <2>1, <2>3 DEF SenderRule
    <2>4. QED
      BY <2>2, <2>3
  <1>14. QueuedOnce' /\ \A k \in Job : (Queued(k)' <=> Queued(k)) /\ (Held(k)' <=> Held(k))
    BY <1>2, SameQueues, SameHeld DEF MemInv, PlaceRules
  <1>15. ASSUME NEW k \in Job PROVE PlaceRule(k)'
    <2>1. CASE k # j
      BY <1>2, <1>6, <1>14, <2>1, SamePlace DEF MemInv, PlaceRules
    <2>2. CASE k = j
      <3>1. push'[k] = <<>> /\ ~Queued(k)' /\ ~Sending(k)' /\ k \in excused'
        BY <1>2, <1>4, <1>6, <1>14, <2>2
      <3>2. QED
        BY <3>1 DEF PlaceRule
    <2>3. QED
      BY <2>1, <2>2
  <1>16. QED
    BY <1>6, <1>10, <1>12, <1>13, <1>14, <1>15 DEF MemInv, SenderRules, PlaceRules

-----------------------------------------------------------------------------
(* The pools, the shutdown and the end of a process.                       *)

LEMMA WorkerStepInv ==
    ASSUME MemInv, NEW g \in Worker, WorkerStep(g), UNCHANGED memVars PROVE MemInv'
  <1>1. PoolInv' /\ JobInv' /\ WorkerEffect(g)
    BY WorkerPool, WorkerJobs DEF MemInv
  <1>2. UNCHANGED <<queue, run, sender, closers, push, running, down, toClose>>
    BY Zenon DEF memVars
  <1>3. SenderRules'
    BY <1>2, SameSending DEF MemInv
  <1>4. QueueTypes' /\ QueuedOnce' /\ SentOnce'
    BY <1>2, SameQueues, SameSenders DEF MemInv, QueueTypes, PlaceRules
  <1>5. ASSUME NEW i \in Job PROVE PlaceRule(i)'
    <2>1. (Queued(i)' <=> Queued(i)) /\ (Sending(i)' <=> Sending(i)) /\ push'[i] = push[i]
      BY <1>2, SameQueues, SameSenders
    <2>2. \A h \in Worker : h # g => (Holds(h, i)' <=> Holds(h, i))
      BY <1>1 DEF WorkerEffect, Holds
    <2>3. PlaceRule(i)
      BY DEF MemInv, PlaceRules
    <2>4. CASE ~Holds(g, i)
      <3>1. Held(i)' <=> Held(i)
        BY <1>1, <2>2, <2>4 DEF WorkerEffect, Held
      <3>2. QED
        BY <1>1, <2>1, <2>3, <2>4, <3>1, SamePlace DEF WorkerEffect
    <2>5. CASE Holds(g, i)
      <3>1. push[i] = <<>> /\ ~Queued(i) /\ ~Sending(i)
        BY <2>3, <2>5 DEF PlaceRule, Held
      <3>2. doc'[i] \in Live /\ i \notin excused' => Held(i)'
        BY <1>1, <2>5 DEF WorkerEffect, Held
      <3>3. QED
        BY <2>1, <3>1, <3>2 DEF PlaceRule, Known
    <2>6. QED
      BY <2>4, <2>5
  <1>6. QED
    BY <1>1, <1>3, <1>4, <1>5 DEF MemInv, PlaceRules

LEMMA ShutdownInv ==
    ASSUME MemInv, NEW p \in Process, ShutdownWorkers(p) \/ ShutdownReturns(p) PROVE MemInv'
  <1>1. UNCHANGED <<workerVars, queue, run, sender, closers, push>>
    BY DEF ShutdownWorkers, ShutdownReturns
  <1>2. UNCHANGED <<couch, task, slots, pools, history>>
    BY <1>1 DEF workerVars
  <1>3. PoolInv' /\ JobInv' /\ PlaceRules'
    BY <1>1, <1>2, PoolFrame, SameJobs DEF MemInv
  <1>4. /\ \/ UNCHANGED <<running, toClose>>
           \/ running' = [running EXCEPT ![p] = FALSE] /\ toClose' = toClose \cup PoolsOf(p)
        /\ \E d \in {"closing", "ok", "failed"} : down' = [down EXCEPT ![p] = d]
    BY DEF ShutdownWorkers, ShutdownReturns
  <1>5. QueueTypes'
    <2>1. running' \in [Process -> BOOLEAN] /\ toClose' \subseteq Pool
      BY <1>4 DEF MemInv, QueueTypes, PoolsOf
    <2>2. down' \in [Process -> {"no", "closing", "ok", "failed"}]
      BY <1>4 DEF MemInv, QueueTypes
    <2>3. QED
      BY <1>1, <2>1, <2>2 DEF MemInv, QueueTypes
  <1>6. ASSUME NEW w \in Pool PROVE SenderRule(w)'
    <2>1. SenderRule(w) /\ w[1] \in Process /\ Alive(w)' = Alive(w)
      BY <1>1, WorkerFields, SameSenders DEF MemInv, SenderRules
    <2>2. running'[w[1]] => running[w[1]] /\ (w \in toClose' => w \in toClose)
      BY <1>4, <2>1 DEF MemInv, QueueTypes, PoolsOf
    <2>3. QED
      BY <1>1, <2>1, <2>2 DEF SenderRule
  <1>7. QED
    BY <1>3, <1>5, <1>6 DEF MemInv, SenderRules

\* close comes after the broker has stopped.
LEMMA CloseQueueInv == ASSUME MemInv, NEW w \in Pool, CloseQueue(w) PROVE MemInv'
  <1>1. /\ w \in toClose /\ toClose' = toClose \ {w}
        /\ run' = [run EXCEPT ![w] = FALSE]
        /\ closers' = [closers EXCEPT ![w] = IF run[w] THEN closers[w] + 1 ELSE closers[w]]
        /\ UNCHANGED <<workerVars, queue, sender, push, running, down>>
    BY DEF CloseQueue
  <1>2. UNCHANGED <<couch, task, slots, pools, history>>
    BY <1>1 DEF workerVars
  <1>3. PoolInv' /\ JobInv' /\ PlaceRules'
    BY <1>1, <1>2, PoolFrame, SameJobs DEF MemInv
  <1>4. QueueTypes'
    BY <1>1 DEF MemInv, QueueTypes
  <1>5. ~running[w[1]]
    BY <1>1 DEF MemInv, SenderRules, SenderRule
  <1>6. ASSUME NEW v \in Pool PROVE SenderRule(v)'
    <2>1. SenderRule(v) /\ Alive(v)' = Alive(v)
      BY <1>1, SameSenders DEF MemInv, SenderRules
    <2>2. CASE v = w
      BY <1>1, <1>5, <2>2 DEF SenderRule
    <2>3. CASE v # w
      <3>1. run'[v] = run[v] /\ closers'[v] = closers[v]
        BY <1>1, <2>3 DEF MemInv, QueueTypes
      <3>2. QED
        BY <1>1, <2>1, <3>1 DEF SenderRule
    <2>4. QED
      BY <2>2, <2>3
  <1>7. QED
    BY <1>3, <1>4, <1>6 DEF MemInv, SenderRules

LEMMA StopInv ==
    ASSUME MemInv, NEW w \in Pool, StopPool(w) \/ PoolStopped(w) \/ PoolExpires(w)
    PROVE  MemInv'
  <1>1. UNCHANGED <<queue, run, sender, closers, push, running, down, toClose>>
    BY DEF StopPool, PoolStopped, PoolExpires, memVars
  <1>2. UNCHANGED <<couch, task, history>>
    BY DEF StopPool, PoolStopped, PoolExpires, StopWorker, Stopped, StopExpires
  <1>3. PoolInv'
    BY StopWorkerPool, StoppedPool DEF MemInv, StopPool, PoolStopped, PoolExpires
  <1>4. JobInv' /\ PlaceRules' /\ SenderRules'
    BY <1>1, <1>2, SameJobs, SameSending DEF MemInv
  <1>5. QueueTypes'
    BY <1>1 DEF MemInv, QueueTypes
  <1>6. QED
    BY <1>3, <1>4, <1>5 DEF MemInv

\* The process dies with its queues and its goroutines, and starts again.
LEMMA RestartInv == ASSUME MemInv, NEW p \in Process, Restart(p) PROVE MemInv'
  <1> DEFINE M == InMemory(p)
  <1>1. /\ DiesWith(p) /\ UNCHANGED <<couch, runs>>
        /\ excused' = excused \cup M
        /\ queue' = [w \in Pool |-> IF w[1] = p THEN <<>> ELSE queue[w]]
        /\ run' = [w \in Pool |-> w[1] # p /\ run[w]]
        /\ sender' = [w \in Pool |-> IF w[1] = p THEN [i \in Sender |-> Off] ELSE sender[w]]
        /\ closers' = [w \in Pool |-> IF w[1] = p THEN 0 ELSE closers[w]]
        /\ push' = [j \in Job |-> IF j \in M THEN <<>> ELSE push[j]]
        /\ running' = [running EXCEPT ![p] = TRUE]
        /\ down' = [down EXCEPT ![p] = "no"] /\ toClose' = toClose \ PoolsOf(p)
    BY DEF Restart
  <1>2. PoolInv'
    BY <1>1, DiesPool DEF MemInv
  <1>3. excused \subseteq excused' /\ excused' \subseteq Job
    BY <1>1 DEF MemInv, JobInv, JobTypes, InMemory
  <1>4. /\ JobInv'
        /\ \A g \in Worker : \A j \in Job : Holds(g, j)' <=> Holds(g, j) /\ g[1][1] # p
    BY <1>1, <1>3, DiesJobs DEF MemInv
  <1>5. QueueTypes'
    BY <1>1 DEF MemInv, QueueTypes
  <1>6. ASSUME NEW w \in Pool PROVE SenderRule(w)'
    <2>1. SenderRule(w) /\ w[1] \in Process
      BY WorkerFields DEF MemInv, SenderRules
    <2>2. CASE w[1] = p
      <3>1. queue'[w] = <<>> /\ run'[w] = FALSE /\ closers'[w] = 0 /\ w \notin toClose'
        BY <1>1, <2>2 DEF PoolsOf
      <3>2. Alive(w)' = {}
        BY <1>1, <2>2 DEF Alive
      <3>3. QED
        BY <3>1, <3>2 DEF SenderRule
    <2>3. CASE w[1] # p
      <3>1. /\ queue'[w] = queue[w] /\ run'[w] = run[w] /\ closers'[w] = closers[w]
            /\ w \in toClose' => w \in toClose
        BY <1>1, <2>3 DEF MemInv, QueueTypes
      <3>2. running'[w[1]] = running[w[1]]
        BY <1>1, <2>1, <2>3 DEF MemInv, QueueTypes
      <3>3. Alive(w)' = Alive(w)
        BY <1>1, <2>3 DEF Alive
      <3>4. QED
        BY <2>1, <3>1, <3>2, <3>3 DEF SenderRule
    <2>4. QED
      BY <2>2, <2>3
  <1>7. QueuedOnce'
    <2>1. \A w \in Pool : \A i \in DOMAIN queue'[w] : queue'[w] = queue[w]
      BY <1>1
    <2>2. QED
      BY <2>1 DEF MemInv, PlaceRules, QueuedOnce
  <1>8. SentOnce'
    <2>1. \A w \in Pool : \A i \in Sender : sender'[w][i] \in Job => sender'[w][i] = sender[w][i]
      BY <1>1, MemAssumption
    <2>2. QED
      BY <2>1 DEF MemInv, PlaceRules, SentOnce
  <1>9. ASSUME NEW i \in Job PROVE PlaceRule(i)'
    <2>1. PlaceRule(i) /\ UNCHANGED <<doc, stale, runs>>
      BY <1>1 DEF MemInv, PlaceRules, couch
    <2>2. push'[i] # <<>> => push'[i] = push[i]
      BY <1>1
    <2>3. ASSUME NEW w \in Pool PROVE Contains(queue'[w], i) <=> Contains(queue[w], i) /\ w[1] # p
      <3>1. CASE w[1] = p
        <4>1. queue'[w] = <<>> /\ <<>> \in Seq(Job)
          BY <1>1, <3>1
        <4>2. QED
          BY <3>1, <4>1 DEF Contains
      <3>2. CASE w[1] # p
        BY <1>1, <3>2
      <3>3. QED
        BY <3>1, <3>2
    <2>4. \A w \in Pool : \A k \in Sender : sender'[w][k] = i <=> sender[w][k] = i /\ w[1] # p
      BY <1>1, MemAssumption
    <2>5. /\ Queued(i)' => Queued(i)
          /\ Sending(i)' => Sending(i)
          /\ Held(i)' => Held(i)
      BY <1>4, <2>3, <2>4 DEF Queued, Sending, Held
    <2>6. Known(i) /\ i \notin M => Known(i)'
      <3>1. SUFFICES ASSUME Known(i), i \notin M PROVE Known(i)'
        OBVIOUS
      <3>2. push[i] # <<>> => push'[i] # <<>>
        BY <1>1, <3>1
      <3>3. Queued(i) => Queued(i)'
        BY <2>3, <3>1 DEF Queued, InMemory, PoolsOf
      <3>4. Sending(i) => Sending(i)'
        BY <2>4, <3>1 DEF Sending, InMemory, PoolsOf
      <3>5. Held(i) => Held(i)'
        BY <1>4, <3>1 DEF Held, InMemory, WorkersOf
      <3>6. QED
        BY <3>1, <3>2, <3>3, <3>4, <3>5 DEF Known
    <2>7. QED
      BY <1>1, <2>1, <2>2, <2>5, <2>6 DEF PlaceRule
  <1>10. QED
    BY <1>2, <1>4, <1>5, <1>6, <1>7, <1>8, <1>9 DEF MemInv, SenderRules, PlaceRules

-----------------------------------------------------------------------------
(* The invariant, and what it implies.                                     *)

LEMMA InitInv == ASSUME Init PROVE MemInv
  <1>1. PoolInv /\ JobInv /\ \A g \in Worker : \A j \in Job : ~Holds(g, j)
    BY WorkerInitInv DEF Init
  <1>2. QueueTypes
    BY DEF Init, QueueTypes
  <1>3. \A w \in Pool : /\ queue[w] = <<>> /\ DOMAIN queue[w] = {} /\ run[w] = FALSE
                        /\ closers[w] = 0 /\ \A i \in Sender : sender[w][i] = Off
    BY DEF Init
  <1>4. SenderRules
    BY <1>3 DEF Init, SenderRules, SenderRule, Alive
  <1>5. QueuedOnce
    BY <1>3 DEF QueuedOnce
  <1>6. SentOnce
    BY <1>3, MemAssumption DEF SentOnce
  <1>7. ASSUME NEW j \in Job PROVE PlaceRule(j)
    <2>1. <<>> \in Seq(Job) /\ ~Contains(<<>>, j)
      BY DEF Contains
    <2>2. ~Queued(j)
      BY <1>3, <2>1 DEF Queued
    <2>3. push[j] = <<>> /\ ~Sending(j) /\ ~Held(j) /\ doc[j] = "none"
      BY <1>1, <1>3, MemAssumption DEF Init, WorkerInit, Sending, Held
    <2>4. QED
      BY <2>2, <2>3 DEF PlaceRule, Live
  <1>8. QED
    BY <1>1, <1>2, <1>4, <1>5, <1>6, <1>7 DEF MemInv, PlaceRules

LEMMA StutterInv == ASSUME MemInv, UNCHANGED vars PROVE MemInv'
  <1>1. /\ UNCHANGED <<couch, task, slots, pools, history>>
        /\ UNCHANGED <<queue, run, sender, closers, push, running, down, toClose>>
    BY DEF vars, workerVars, memVars
  <1>2. PoolInv' /\ JobInv' /\ PlaceRules' /\ SenderRules'
    BY <1>1, PoolFrame, SameJobs, SameSending DEF MemInv
  <1>3. QueueTypes'
    BY <1>1 DEF MemInv, QueueTypes
  <1>4. QED
    BY <1>2, <1>3 DEF MemInv

LEMMA NextInv == ASSUME MemInv, [Next]_vars PROVE MemInv'
  <1>1. CASE \E p \in Process, j \in Job : PushJob(p, j)
    BY <1>1, PushJobInv
  <1>2. CASE \E j \in Job : Create(j) \/ Enqueue(j)
    BY <1>2, CreateInv, EnqueueInv
  <1>3. CASE \E j \in Job : (CleanJob(j) \/ PurgeJob(j)) /\ UNCHANGED memVars
    BY <1>3, AdminInv
  <1>4. CASE \E w \in Pool, i \in Sender : SenderProgress(w, i)
    BY <1>4, TakeInv, SendJobInv, SendClosedInv DEF SenderProgress
  <1>5. CASE \E w \in Pool, i \in Sender : SendPanics(w, i)
    BY <1>5, RestartInv, WorkerFields DEF SendPanics
  <1>6. CASE \E g \in Worker : WorkerStep(g) /\ UNCHANGED memVars
    BY <1>6, WorkerStepInv
  <1>7. CASE \E w \in Pool : PoolExpires(w)
    BY <1>7, StopInv
  <1>8. CASE \E p \in Process : ShutdownWorkers(p) \/ ShutdownProgress(p) \/ Crash(p)
    <2>1. PICK p \in Process : ShutdownWorkers(p) \/ ShutdownProgress(p) \/ Crash(p)
      BY <1>8
    <2>2. CASE ShutdownWorkers(p) \/ ShutdownReturns(p)
      BY <2>2, ShutdownInv
    <2>3. CASE Crash(p) \/ Exit(p)
      BY <2>3, RestartInv DEF Crash, Exit
    <2>4. CASE \E w \in PoolsOf(p) : CloseQueue(w) \/ StopPool(w) \/ PoolStopped(w)
      BY <2>4, CloseQueueInv, StopInv DEF PoolsOf
    <2>5. QED
      BY <2>1, <2>2, <2>3, <2>4 DEF ShutdownProgress
  <1>9. QED
    BY <1>1, <1>2, <1>3, <1>4, <1>5, <1>6, <1>7, <1>8, StutterInv DEF Next

\* MemInv is inductive, so it is an invariant of the broker.
THEOREM MemInvariant == Spec => []MemInv
  <1>1. Init => MemInv
    BY InitInv
  <1>2. MemInv /\ [Next]_vars => MemInv'
    BY NextInv
  <1>3. QED
    BY <1>1, <1>2, PTL DEF Spec

LEMMA OneAtMost == ASSUME NEW S, \A x, y \in S : x = y PROVE Cardinality(S) <= 1
  <1>1. CASE S = {}
    BY <1>1, FS_EmptySet
  <1>2. CASE S # {}
    <2>1. PICK x : x \in S
      BY <1>2
    <2>2. S = {x}
      BY <2>1
    <2>3. QED
      BY <2>2, FS_Singleton
  <1>3. QED
    BY <1>1, <1>2

LEMMA Consequences ==
    ASSUME MemInv
    PROVE  TypeOK /\ OneSender /\ NoJobLost /\ ExecBound /\ SlotsConserved /\ EachTaskCancellable
  <1>1. TypeOK
    BY TypesSplit DEF MemInv, PoolInv, JobInv, QueueTypes, TypeOK
  <1>2. OneSender
    <2> SUFFICES ASSUME NEW w \in Pool, running[w[1]]
                 PROVE  Cardinality(Alive(w)) <= 1 /\ (queue[w] # <<>> => Alive(w) # {})
      BY DEF OneSender
    <2>1. (\A i, k \in Alive(w) : i = k) /\ (queue[w] # <<>> => Alive(w) # {})
      BY DEF MemInv, SenderRules, SenderRule
    <2>2. QED
      BY <2>1, OneAtMost
  <1>3. NoJobLost
    BY DEF MemInv, PlaceRules, PlaceRule, NoJobLost, Live
  <1>4. ExecBound
    BY DEF MemInv, JobInv, JobRules
  <1>5. QED
    BY <1>1, <1>2, <1>3, <1>4, PoolInvImplies DEF MemInv

-----------------------------------------------------------------------------
(* The theorems.                                                           *)

\* The documents, the queues, their goroutines, the pools and the shutdowns
\* always have values of their types.
THEOREM TypeCorrect == Spec => []TypeOK
  BY MemInvariant, Consequences, PTL

\* Whatever jobs are queued while send is about to end, a broker that runs has
\* one goroutine for a queue with jobs, and never two for a queue: q.run, under
\* q.jmu, is enough.
THEOREM SendersNotLost == Spec => []OneSender
  BY MemInvariant, Consequences, PTL

\* A job whose document says queued or running, and that no failure, crash or
\* shutdown excuses, is being pushed, queued, sent or executed.
THEOREM JobsNotLost == Spec => []NoJobLost
  BY MemInvariant, Consequences, PTL

\* A job is executed at most MaxExecCount times, across the ends of the process.
THEOREM ExecutionsBounded == Spec => []ExecBound
  BY MemInvariant, Consequences, PTL

\* The slots of a process that are free, and those of its executions, add up.
THEOREM SlotsAddUp == Spec => []SlotsConserved
  BY MemInvariant, Consequences, PTL

\* A shutdown has a message of w.closing for each task that it must cancel.
THEOREM TasksCancellable == Spec => []EachTaskCancellable
  BY MemInvariant, Consequences, PTL
=============================================================================
