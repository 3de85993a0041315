-------------------------- MODULE RedisBrokerProofs -------------------------
(***************************************************************************)
(* Proofs about RedisBroker, for any processes, worker types, goroutines   *)
(* and jobs: a job is in one place only, none is lost, none is executed    *)
(* too often, and an orderly shutdown leaves nothing behind.               *)
(***************************************************************************)
EXTENDS RedisBroker, WorkerProofs

RedisTypes ==
    /\ lists \in [Lists -> Seq(Job)]
    /\ push \in [Job -> {<<>>} \cup (Process \X {"create", "lpush"})]
    /\ running \in [Process -> BOOLEAN] /\ client \in [Process -> BOOLEAN]
    /\ loop \in [Pool -> {"check", "brpop", "get", "send", "ending", "ended"}]
    /\ hand \in [Pool -> Job \cup {NoJob}]
    /\ down \in [Process -> {"no", "loops", "workers", "ok", "failed"}]

-----------------------------------------------------------------------------
(* The poll loops and the shutdown.                                        *)

\* A poll loop has a job between BRPOP and the send, and no other time.
HandRule(w) == IF loop[w] \in {"get", "send"} THEN hand[w] \in Job ELSE hand[w] = NoJob

\* The pools are stopped after the end of the loops, and a shutdown that went
\* well has stopped them all.
LoopRule(w) ==
    /\ chan[w] = "closed" => loop[w] = "ended"
    /\ down[w[1]] \in {"workers", "ok"} => loop[w] = "ended"
    /\ down[w[1]] = "ok" => stop[w] = "ok"

LoopRules == \A w \in Pool : HandRule(w) /\ LoopRule(w)

-----------------------------------------------------------------------------
(* The places of a job.                                                    *)

\* A list has the jobs of its worker type and priority, each of them once.
RightList == \A l \in Lists : \A i \in DOMAIN lists[l] : ListOf(lists[l][i]) = l
ListedOnce ==
    \A l \in Lists : \A i, k \in DOMAIN lists[l] : lists[l][i] = lists[l][k] => i = k
HandOnce == \A v, w \in Pool : hand[v] = hand[w] /\ hand[v] # NoJob => v = w

\* The places exclude each other, a job is executed in the last one only, its
\* document is created once, and a live document has a job on its way.
PlaceRule(j) ==
    /\ push[j] # <<>> => ~Listed(j) /\ ~InHand(j) /\ ~Held(j)
    /\ Listed(j) => ~InHand(j) /\ ~Held(j)
    /\ InHand(j) => ~Held(j)
    /\ push[j] # <<>> \/ Listed(j) \/ InHand(j) => runs[j] = 0
    /\ push[j] # <<>> /\ push[j][2] = "create" => doc[j] = "none" /\ j \notin stale
    /\ doc[j] \in Live /\ j \notin excused => Known(j)

PlaceRules == RightList /\ ListedOnce /\ HandOnce /\ \A j \in Job : PlaceRule(j)

BrokerInv == PoolInv /\ JobInv /\ RedisTypes /\ LoopRules /\ PlaceRules

-----------------------------------------------------------------------------
(* The lists.                                                              *)

LEMMA FrontLast ==
    ASSUME NEW S, NEW s \in Seq(S), s # <<>>
    PROVE  /\ Front(s) \in Seq(S) /\ Len(s) \in Nat /\ Len(s) >= 1
           /\ DOMAIN s = 1..Len(s) /\ DOMAIN Front(s) = 1..(Len(s) - 1)
           /\ \A i \in 1..(Len(s) - 1) : Front(s)[i] = s[i]
           /\ Last(s) = s[Len(s)] /\ Last(s) \in S
  <1>1. Len(s) \in Nat /\ Len(s) >= 1 /\ DOMAIN s = 1..Len(s)
    OBVIOUS
  <1>2. Front(s) = [i \in 1..(Len(s) - 1) |-> s[i]]
    BY <1>1 DEF Front
  <1>3. \A i \in 1..(Len(s) - 1) : s[i] \in S
    BY <1>1
  <1>4. Front(s) \in Seq(S) /\ DOMAIN Front(s) = 1..(Len(s) - 1)
    BY <1>1, <1>2, <1>3
  <1>5. Last(s) = s[Len(s)] /\ Last(s) \in S
    BY <1>1 DEF Last
  <1>6. QED
    BY <1>1, <1>2, <1>4, <1>5

LEMMA PushedFirst ==
    ASSUME NEW S, NEW s \in Seq(S), NEW x \in S
    PROVE  /\ <<x>> \o s \in Seq(S) /\ DOMAIN s = 1..Len(s) /\ Len(s) \in Nat
           /\ DOMAIN (<<x>> \o s) = 1..(Len(s) + 1)
           /\ (<<x>> \o s)[1] = x
           /\ \A i \in 2..(Len(s) + 1) : i - 1 \in 1..Len(s) /\ (<<x>> \o s)[i] = s[i - 1]
  OBVIOUS

LEMMA ListOfType == \A j \in Job : ListOf(j) \in Lists
  BY BrokerAssumption DEF ListOf, Lists

LEMMA ContainsAt ==
    ASSUME NEW s \in Seq(Job), NEW j
    PROVE  Contains(s, j) <=> \E i \in DOMAIN s : s[i] = j
  <1>1. DOMAIN s = 1..Len(s)
    OBVIOUS
  <1>2. QED
    BY <1>1 DEF Contains

\* LPUSH of a job that is not in the list.
LEMMA ListPush ==
    ASSUME lists \in [Lists -> Seq(Job)], RightList, ListedOnce, NEW j \in Job, ~Listed(j),
           lists' = [lists EXCEPT ![ListOf(j)] = <<j>> \o lists[ListOf(j)]]
    PROVE  /\ lists' \in [Lists -> Seq(Job)] /\ RightList' /\ ListedOnce'
           /\ \A i \in Job : Listed(i)' <=> Listed(i) \/ i = j
  <1> DEFINE l == ListOf(j)
             s == lists[l]
             t == <<j>> \o s
  <1>1. l \in Lists /\ s \in Seq(Job)
    BY ListOfType
  <1>2. /\ t \in Seq(Job) /\ DOMAIN s = 1..Len(s) /\ Len(s) \in Nat
        /\ DOMAIN t = 1..(Len(s) + 1) /\ t[1] = j
        /\ \A i \in 2..(Len(s) + 1) : i - 1 \in 1..Len(s) /\ t[i] = s[i - 1]
    BY <1>1, PushedFirst
  <1> HIDE DEF t
  <1>3. lists'[l] = t /\ \A m \in Lists : m # l => lists'[m] = lists[m]
    BY <1>1 DEF t
  <1>4. lists' \in [Lists -> Seq(Job)]
    BY <1>1, <1>2 DEF t
  <1>5. \A i \in DOMAIN s : s[i] # j
    BY <1>1, ContainsAt DEF Listed
  <1>6. \A i \in DOMAIN t : i = 1 \/ i \in 2..(Len(s) + 1)
    BY <1>2
  <1>11. 1 \in DOMAIN t /\ \A i \in 2..(Len(s) + 1) : t[i] # j
    <2>1. 1 \in DOMAIN t
      BY <1>2
    <2>2. \A i \in 2..(Len(s) + 1) : i - 1 \in DOMAIN s /\ t[i] = s[i - 1]
      BY <1>2
    <2>3. QED
      BY <1>5, <2>1, <2>2
  <1>7. RightList'
    <2> SUFFICES ASSUME NEW m \in Lists, NEW i \in DOMAIN lists'[m]
                 PROVE  ListOf(lists'[m][i]) = m
      BY DEF RightList, ListOf
    <2>1. CASE m # l
      BY <1>3, <2>1 DEF RightList
    <2>2. CASE m = l
      <3>1. i \in DOMAIN t /\ lists'[m][i] = t[i]
        BY <1>3, <2>2
      <3>2. t[i] = j \/ \E k \in DOMAIN s : t[i] = s[k]
        BY <1>2, <1>6, <3>1
      <3>3. QED
        BY <1>1, <2>2, <3>1, <3>2 DEF RightList
    <2>3. QED
      BY <2>1, <2>2
  <1>8. ListedOnce'
    <2> SUFFICES ASSUME NEW m \in Lists, NEW i \in DOMAIN lists'[m], NEW k \in DOMAIN lists'[m],
                        lists'[m][i] = lists'[m][k]
                 PROVE  i = k
      BY DEF ListedOnce
    <2>1. CASE m # l
      BY <1>3, <2>1 DEF ListedOnce
    <2>2. CASE m = l
      <3>1. i \in DOMAIN t /\ k \in DOMAIN t /\ t[i] = t[k]
        BY <1>3, <2>2
      <3>2. CASE i = 1 \/ k = 1
        BY <1>2, <1>11, <1>6, <3>1, <3>2
      <3>3. CASE i # 1 /\ k # 1
        <4>1. i \in 2..(Len(s) + 1) /\ k \in 2..(Len(s) + 1)
          BY <1>6, <3>1, <3>3
        <4>2. i - 1 \in DOMAIN s /\ k - 1 \in DOMAIN s /\ s[i - 1] = s[k - 1]
          BY <1>2, <3>1, <4>1
        <4>3. i - 1 = k - 1
          BY <1>1, <4>2 DEF ListedOnce
        <4>4. QED
          BY <4>1, <4>3, <1>2
      <3>4. QED
        BY <3>2, <3>3
    <2>3. QED
      BY <2>1, <2>2
  <1>9. ASSUME NEW i \in Job PROVE Listed(i)' <=> Listed(i) \/ i = j
    <2>1. CASE ListOf(i) # l
      BY <1>3, <2>1, ListOfType DEF Listed, ListOf
    <2>2. CASE ListOf(i) = l
      <3>1. Listed(i)' <=> \E k \in DOMAIN t : t[k] = i
        <4>1. Listed(i)' <=> Contains(lists'[ListOf(i)], i)
          BY DEF Listed, ListOf
        <4>2. QED
          <5>1. Listed(i)' <=> Contains(t, i)
            BY <1>3, <2>2, <4>1
          <5>2. QED
            BY <1>2, <5>1, ContainsAt
      <3>2. Listed(i) <=> \E k \in DOMAIN s : s[k] = i
        BY <1>1, <2>2, ContainsAt DEF Listed
      <3>3. (\E k \in DOMAIN t : t[k] = i) => (\E k \in DOMAIN s : s[k] = i) \/ i = j
        BY <1>2, <1>6
      <3>4. ASSUME NEW k \in DOMAIN s PROVE k + 1 \in DOMAIN t /\ t[k + 1] = s[k]
        <4>1. k + 1 \in 2..(Len(s) + 1) /\ (k + 1) - 1 = k
          BY <1>2
        <4>2. QED
          BY <1>2, <4>1
      <3>5. i = j => \E k \in DOMAIN t : t[k] = i
        BY <1>2, <1>11
      <3>6. QED
        BY <3>1, <3>2, <3>3, <3>4, <3>5
    <2>3. QED
      BY <2>1, <2>2
  <1>10. QED
    BY <1>4, <1>7, <1>8, <1>9

\* BRPOP.
LEMMA ListPop ==
    ASSUME lists \in [Lists -> Seq(Job)], RightList, ListedOnce, NEW l \in Lists,
           lists[l] # <<>>, lists' = [lists EXCEPT ![l] = Front(lists[l])]
    PROVE  /\ lists' \in [Lists -> Seq(Job)] /\ RightList' /\ ListedOnce'
           /\ Last(lists[l]) \in Job /\ ListOf(Last(lists[l])) = l /\ Listed(Last(lists[l]))
           /\ \A i \in Job : Listed(i)' <=> Listed(i) /\ i # Last(lists[l])
  <1> DEFINE s == lists[l]
             t == Front(s)
             j == Last(s)
  <1>1. s \in Seq(Job)
    OBVIOUS
  <1>2. /\ t \in Seq(Job) /\ Len(s) \in Nat /\ Len(s) >= 1
        /\ DOMAIN s = 1..Len(s) /\ DOMAIN t = 1..(Len(s) - 1)
        /\ \A i \in 1..(Len(s) - 1) : t[i] = s[i]
        /\ j = s[Len(s)] /\ j \in Job
    BY <1>1, FrontLast
  <1> HIDE DEF t, j
  <1>3. lists'[l] = t /\ \A m \in Lists : m # l => lists'[m] = lists[m]
    BY DEF t
  <1>4. lists' \in [Lists -> Seq(Job)]
    BY <1>2 DEF t
  <1>5. Len(s) \in DOMAIN s /\ \A i \in DOMAIN t : i \in DOMAIN s /\ t[i] = s[i] /\ i # Len(s)
    BY <1>2
  <1>6. ListOf(j) = l
    BY <1>2, <1>5 DEF RightList
  <1>7. \A i \in DOMAIN s : i \in DOMAIN t \/ i = Len(s)
    BY <1>2
  <1>8. RightList'
    <2> SUFFICES ASSUME NEW m \in Lists, NEW i \in DOMAIN lists'[m]
                 PROVE  ListOf(lists'[m][i]) = m
      BY DEF RightList, ListOf
    <2>1. i \in DOMAIN lists[m] /\ lists'[m][i] = lists[m][i]
      BY <1>3, <1>5
    <2>2. QED
      BY <2>1 DEF RightList
  <1>9. ListedOnce'
    <2> SUFFICES ASSUME NEW m \in Lists, NEW i \in DOMAIN lists'[m], NEW k \in DOMAIN lists'[m],
                        lists'[m][i] = lists'[m][k]
                 PROVE  i = k
      BY DEF ListedOnce
    <2>1. /\ i \in DOMAIN lists[m] /\ lists'[m][i] = lists[m][i]
          /\ k \in DOMAIN lists[m] /\ lists'[m][k] = lists[m][k]
      BY <1>3, <1>5
    <2>2. QED
      BY <2>1 DEF ListedOnce
  <1>10. Listed(j)
    BY <1>1, <1>2, <1>5, <1>6, ContainsAt DEF Listed
  <1>11. ASSUME NEW i \in Job PROVE Listed(i)' <=> Listed(i) /\ i # j
    <2>1. Listed(i)' <=> Contains(lists'[ListOf(i)], i)
      BY DEF Listed, ListOf
    <2>2. CASE ListOf(i) # l
      BY <1>3, <1>6, <2>1, <2>2, ListOfType DEF Listed
    <2>3. CASE ListOf(i) = l
      <3>1. Listed(i)' <=> \E k \in DOMAIN t : t[k] = i
        BY <1>2, <1>3, <2>1, <2>3, ContainsAt
      <3>2. Listed(i) <=> \E k \in DOMAIN s : s[k] = i
        BY <1>1, <2>3, ContainsAt DEF Listed
      <3>3. \A k \in DOMAIN t : t[k] # j
        BY <1>2, <1>5 DEF ListedOnce
      <3>4. (\E k \in DOMAIN t : t[k] = i) => (\E k \in DOMAIN s : s[k] = i) /\ i # j
        BY <1>5, <3>3
      <3>5. (\E k \in DOMAIN s : s[k] = i) /\ i # j => \E k \in DOMAIN t : t[k] = i
        BY <1>2, <1>5, <1>7
      <3>6. QED
        BY <3>1, <3>2, <3>4, <3>5
    <2>4. QED
      BY <2>2, <2>3
  <1>12. QED
    BY <1>2, <1>4, <1>6, <1>8, <1>9, <1>10, <1>11 DEF j

-----------------------------------------------------------------------------
(* What does not change.                                                   *)

LEMMA SameLists ==
    ASSUME UNCHANGED lists
    PROVE  /\ \A j \in Job : Listed(j)' <=> Listed(j)
           /\ RightList => RightList'
           /\ ListedOnce => ListedOnce'
  BY DEF Listed, ListOf, RightList, ListedOnce

LEMMA SameHands ==
    ASSUME UNCHANGED hand
    PROVE  (\A j \in Job : InHand(j)' <=> InHand(j)) /\ (HandOnce => HandOnce')
  BY DEF InHand, HandOnce

LEMMA SameHeld == ASSUME UNCHANGED task PROVE \A j \in Job : Held(j)' <=> Held(j)
  BY DEF Held, Holds

LEMMA SameLoops ==
    ASSUME LoopRules, UNCHANGED <<pools, loop, hand, down>> PROVE LoopRules'
  BY DEF LoopRules, HandRule, LoopRule, pools

\* A job that stays where it is.
LEMMA SamePlace ==
    ASSUME NEW j \in Job, PlaceRule(j), push'[j] = push[j], Listed(j)' <=> Listed(j),
           InHand(j)' <=> InHand(j), Held(j)' <=> Held(j), runs'[j] = runs[j],
           doc'[j] = doc[j] \/ (doc'[j] \notin Live /\ doc[j] # "none"), 
           j \in stale' /\ doc[j] = "none" => j \in stale,
           j \in excused => j \in excused'
    PROVE  PlaceRule(j)'
  BY DEF PlaceRule, Known

-----------------------------------------------------------------------------
(* The push of a job, and the requests of administrators.                  *)

LEMMA PushJobInv ==
    ASSUME BrokerInv, NEW p \in Process, NEW j \in Job, PushJob(p, j) PROVE BrokerInv'
  <1>1. /\ running[p] /\ doc[j] = "none" /\ ~Known(j)
        /\ push' = [push EXCEPT ![j] = <<p, "create">>]
        /\ stale' = stale \ {j}
        /\ runs' = [runs EXCEPT ![j] = 0] /\ excused' = excused \ {j}
        /\ UNCHANGED <<doc, task, slots, pools, lists, running, loop, hand, down, client>>
    BY DEF PushJob
  <1>2. PoolInv'
    BY <1>1, PoolFrame DEF BrokerInv
  <1>3. JobTypes' /\ StaleEnded' /\ ExecBound'
    BY <1>1, WorkerAssumption
       DEF BrokerInv, JobInv, JobRules, JobTypes, StaleEnded, ExecBound
  <1>4. \A i \in Job : i # j => runs'[i] = runs[i] /\ (i \in excused => i \in excused')
    BY <1>1 DEF BrokerInv, JobInv, JobTypes
  <1>5. \A g \in Worker : ~Holds(g, j)
    BY <1>1 DEF Known, Held
  <1>6. JobInv'
    BY <1>1, <1>3, <1>4, <1>5, JobFrame DEF BrokerInv
  <1>7. push'[j] = <<p, "create">> /\ \A i \in Job : i # j => push'[i] = push[i]
    BY <1>1 DEF BrokerInv, RedisTypes
  <1>8. RedisTypes'
    BY <1>1 DEF BrokerInv, RedisTypes
  <1>9. LoopRules'
    BY <1>1, SameLoops DEF BrokerInv
  <1>10. RightList' /\ ListedOnce' /\ HandOnce'
    BY <1>1, SameLists, SameHands DEF BrokerInv, PlaceRules
  <1>11. ASSUME NEW i \in Job PROVE PlaceRule(i)'
    <2>1. (Listed(i)' <=> Listed(i)) /\ (InHand(i)' <=> InHand(i)) /\ (Held(i)' <=> Held(i))
      BY <1>1, SameLists, SameHands, SameHeld
    <2>2. CASE i # j
      BY <1>1, <1>4, <1>7, <2>1, <2>2, SamePlace DEF BrokerInv, PlaceRules
    <2>3. CASE i = j
      <3>1. ~Listed(i)' /\ ~InHand(i)' /\ ~Held(i)' /\ doc'[i] = "none" /\ i \notin stale'
        BY <1>1, <2>1, <2>3 DEF Known
      <3>2. runs'[i] = 0
        BY <1>1, <2>3 DEF BrokerInv, JobInv, JobTypes
      <3>3. QED
        BY <3>1, <3>2 DEF PlaceRule, Live
    <2>4. QED
      BY <2>2, <2>3
  <1>12. QED
    BY <1>2, <1>6, <1>8, <1>9, <1>10, <1>11 DEF BrokerInv, PlaceRules

LEMMA CreateInv == ASSUME BrokerInv, NEW j \in Job, Create(j) PROVE BrokerInv'
  <1>1. /\ push[j] # <<>> /\ push[j][2] = "create"
        /\ \/ /\ doc' = [doc EXCEPT ![j] = "queued"]
              /\ push' = [push EXCEPT ![j] = <<push[j][1], "lpush">>]
           \/ push' = [push EXCEPT ![j] = <<>>] /\ UNCHANGED doc
        /\ UNCHANGED <<stale, task, slots, pools, runs, excused,
                       lists, running, loop, hand, down, client>>
    BY DEF Create, history
  <1>2. PlaceRule(j) /\ push[j][1] \in Process
    BY <1>1 DEF BrokerInv, PlaceRules, RedisTypes
  <1>3. ~Held(j) /\ ~Listed(j) /\ ~InHand(j) /\ doc[j] = "none" /\ j \notin stale /\ runs[j] = 0
    BY <1>1, <1>2 DEF PlaceRule
  <1>4. \A i \in Job : i # j => doc'[i] = doc[i] /\ push'[i] = push[i]
    BY <1>1 DEF BrokerInv, JobInv, JobTypes, RedisTypes
  <1>5. JobTypes'
    BY <1>1 DEF BrokerInv, JobInv, JobTypes
  <1>6. StaleEnded' /\ ExecBound'
    BY <1>1, <1>3, <1>4 DEF BrokerInv, JobInv, JobTypes, JobRules, StaleEnded, ExecBound
  <1>7. PoolInv' /\ JobInv'
    <2>1. \A g \in Worker : ~Holds(g, j)
      BY <1>3 DEF Held
    <2>2. QED
      BY <1>1, <1>4, <1>5, <1>6, <2>1, PoolFrame, JobFrame DEF BrokerInv
  <1>8. RedisTypes'
    BY <1>1, <1>2 DEF BrokerInv, RedisTypes
  <1>9. LoopRules' /\ RightList' /\ ListedOnce' /\ HandOnce'
    BY <1>1, SameLoops, SameLists, SameHands DEF BrokerInv, PlaceRules
  <1>10. ASSUME NEW i \in Job PROVE PlaceRule(i)'
    <2>1. (Listed(i)' <=> Listed(i)) /\ (InHand(i)' <=> InHand(i)) /\ (Held(i)' <=> Held(i))
      BY <1>1, SameLists, SameHands, SameHeld
    <2>2. CASE i # j
      BY <1>1, <1>4, <2>1, <2>2, SamePlace DEF BrokerInv, PlaceRules
    <2>3. CASE i = j
      <3>1. ~Listed(i)' /\ ~InHand(i)' /\ ~Held(i)' /\ runs'[i] = 0
        BY <1>1, <1>3, <2>1, <2>3
      <3>2. (push'[i] = <<>> /\ doc'[i] = "none") \/ push'[i] = <<push[j][1], "lpush">>
        BY <1>1, <1>3, <2>3 DEF BrokerInv, RedisTypes
      <3>3. \/ push'[i] = <<>> /\ doc'[i] = "none"
            \/ push'[i] # <<>> /\ push'[i][2] = "lpush"
        <4>1. <<push[j][1], "lpush">> # <<>> /\ <<push[j][1], "lpush">>[2] = "lpush"
          OBVIOUS
        <4>2. QED
          BY <3>2, <4>1, Zenon
      <3>4. "none" \notin Live
        BY DEF Live
      <3>5. QED
        BY <3>1, <3>3, <3>4 DEF PlaceRule, Known
    <2>4. QED
      BY <2>2, <2>3
  <1>11. QED
    BY <1>7, <1>8, <1>9, <1>10 DEF BrokerInv, PlaceRules

LEMMA LPushInv == ASSUME BrokerInv, NEW j \in Job, LPush(j) PROVE BrokerInv'
  <1>1. /\ push[j] # <<>> /\ push' = [push EXCEPT ![j] = <<>>]
        /\ \/ /\ lists' = [lists EXCEPT ![ListOf(j)] = <<j>> \o lists[ListOf(j)]]
              /\ UNCHANGED excused
           \/ UNCHANGED lists /\ excused' = excused \cup {j}
        /\ UNCHANGED <<doc, stale, task, slots, pools, runs, running, loop, hand, down, client>>
    BY DEF LPush, couch
  <1>2. ~Held(j) /\ ~Listed(j) /\ ~InHand(j) /\ runs[j] = 0
    BY <1>1 DEF BrokerInv, PlaceRules, PlaceRule
  <1>3. push'[j] = <<>> /\ \A i \in Job : i # j => push'[i] = push[i]
    BY <1>1 DEF BrokerInv, RedisTypes
  <1>4. /\ lists' \in [Lists -> Seq(Job)] /\ RightList' /\ ListedOnce'
        /\ \A i \in Job : i # j => (Listed(i)' <=> Listed(i))
        /\ Listed(j)' \/ j \in excused'
    <2>1. CASE lists' = [lists EXCEPT ![ListOf(j)] = <<j>> \o lists[ListOf(j)]]
      BY <1>2, <2>1, ListPush DEF BrokerInv, RedisTypes, PlaceRules
    <2>2. CASE UNCHANGED lists /\ excused' = excused \cup {j}
      BY <2>2, SameLists DEF BrokerInv, RedisTypes, PlaceRules
    <2>3. QED
      BY <1>1, <2>1, <2>2
  <1>5. JobTypes' /\ StaleEnded' /\ ExecBound' /\ excused \subseteq excused'
    BY <1>1 DEF BrokerInv, JobInv, JobRules, JobTypes, StaleEnded, ExecBound
  <1>6. PoolInv' /\ JobInv'
    BY <1>1, <1>5, PoolFrame, JobFrame DEF BrokerInv
  <1>7. RedisTypes'
    BY <1>1, <1>4 DEF BrokerInv, RedisTypes
  <1>8. LoopRules' /\ HandOnce'
    BY <1>1, SameLoops, SameHands DEF BrokerInv, PlaceRules
  <1>9. ASSUME NEW i \in Job PROVE PlaceRule(i)'
    <2>1. (InHand(i)' <=> InHand(i)) /\ (Held(i)' <=> Held(i))
      BY <1>1, SameHands, SameHeld
    <2>2. CASE i # j
      BY <1>1, <1>3, <1>4, <1>5, <2>1, <2>2, SamePlace DEF BrokerInv, PlaceRules
    <2>3. CASE i = j
      BY <1>1, <1>2, <1>3, <1>4, <2>1, <2>3 DEF PlaceRule, Known
    <2>4. QED
      BY <2>2, <2>3
  <1>10. QED
    BY <1>4, <1>6, <1>7, <1>8, <1>9 DEF BrokerInv, PlaceRules

LEMMA AdminInv ==
    ASSUME BrokerInv, NEW j \in Job, CleanJob(j) \/ PurgeJob(j), UNCHANGED redisVars
    PROVE  BrokerInv'
  <1>1. /\ JobInv' /\ UNCHANGED <<task, slots, pools, runs, excused>>
        /\ \A i \in Job : doc'[i] \in Live => doc[i] \in Live /\ doc'[i] = doc[i]
        /\ \A i \in Job : doc[i] \in {"done", "errored"} => doc'[i] \in {doc[i], "none"}
        /\ \A i \in Job : doc[i] = "none" => doc'[i] = "none" /\ (i \in stale' => i \in stale)
    BY AdminJobs DEF BrokerInv
  <1>2. UNCHANGED <<lists, push, running, loop, hand, down, client>>
    BY DEF redisVars
  <1>3. PoolInv'
    BY <1>1, PoolFrame DEF BrokerInv
  <1>4. RedisTypes' /\ LoopRules' /\ RightList' /\ ListedOnce' /\ HandOnce'
    BY <1>1, <1>2, SameLoops, SameLists, SameHands DEF BrokerInv, RedisTypes, PlaceRules
  <1>5. ASSUME NEW i \in Job PROVE PlaceRule(i)'
    <2>1. (Listed(i)' <=> Listed(i)) /\ (InHand(i)' <=> InHand(i)) /\ (Held(i)' <=> Held(i))
      BY <1>1, <1>2, SameLists, SameHands, SameHeld
    <2>2. PlaceRule(i)
      BY DEF BrokerInv, PlaceRules
    <2>3. QED
      BY <1>1, <1>2, <2>1, <2>2, SamePlace
  <1>6. QED
    BY <1>1, <1>3, <1>4, <1>5 DEF BrokerInv, PlaceRules

-----------------------------------------------------------------------------
(* The poll loops.                                                         *)

\* The hand of a poll loop that takes a job, and that lets it go.
LEMMA HandTakes ==
    ASSUME hand \in [Pool -> Job \cup {NoJob}], HandOnce, NEW w \in Pool, NEW j \in Job,
           hand[w] = NoJob, ~InHand(j), hand' = [hand EXCEPT ![w] = j]
    PROVE  /\ hand' \in [Pool -> Job \cup {NoJob}] /\ HandOnce' /\ hand'[w] = j
           /\ \A v \in Pool : v # w => hand'[v] = hand[v]
           /\ \A i \in Job : InHand(i)' <=> InHand(i) \/ i = j
  <1>1. /\ hand' \in [Pool -> Job \cup {NoJob}] /\ hand'[w] = j
        /\ \A v \in Pool : v # w => hand'[v] = hand[v]
    OBVIOUS
  <1>2. HandOnce'
    BY <1>1 DEF HandOnce, InHand
  <1>3. \A i \in Job : InHand(i)' <=> InHand(i) \/ i = j
    BY <1>1, WorkerAssumption DEF InHand
  <1>4. QED
    BY <1>1, <1>2, <1>3

LEMMA HandDrops ==
    ASSUME hand \in [Pool -> Job \cup {NoJob}], HandOnce, NEW w \in Pool, hand[w] \in Job,
           hand' = [hand EXCEPT ![w] = NoJob]
    PROVE  /\ hand' \in [Pool -> Job \cup {NoJob}] /\ HandOnce' /\ hand'[w] = NoJob
           /\ \A v \in Pool : v # w => hand'[v] = hand[v]
           /\ \A i \in Job : InHand(i)' <=> InHand(i) /\ i # hand[w]
  <1>1. /\ hand' \in [Pool -> Job \cup {NoJob}] /\ hand'[w] = NoJob
        /\ \A v \in Pool : v # w => hand'[v] = hand[v]
    OBVIOUS
  <1>2. HandOnce'
    BY <1>1 DEF HandOnce
  <1>3. \A i \in Job : InHand(i)' <=> InHand(i) /\ i # hand[w]
    BY <1>1, WorkerAssumption DEF InHand, HandOnce
  <1>4. QED
    BY <1>1, <1>2, <1>3

\* A loop that goes on has not ended, so its pool is not being stopped.
LEMMA LoopMoves ==
    ASSUME BrokerInv, NEW w \in Pool, loop[w] # "ended",
           NEW l \in {"check", "brpop", "get", "send", "ending", "ended"}, LoopGoto(w, l),
           UNCHANGED <<pools, down>>, \A v \in Pool : v # w => hand'[v] = hand[v],
           IF l \in {"get", "send"} THEN hand'[w] \in Job ELSE hand'[w] = NoJob
    PROVE  LoopRules' /\ loop' \in [Pool -> {"check", "brpop", "get", "send", "ending", "ended"}]
  <1>1. loop' = [loop EXCEPT ![w] = l] /\ UNCHANGED <<chan, stop, down>>
    BY DEF LoopGoto, pools
  <1>2. /\ loop' \in [Pool -> {"check", "brpop", "get", "send", "ending", "ended"}]
        /\ loop'[w] = l /\ \A v \in Pool : v # w => loop'[v] = loop[v]
    BY <1>1 DEF BrokerInv, RedisTypes
  <1>3. ASSUME NEW v \in Pool PROVE HandRule(v)' /\ LoopRule(v)'
    <2>1. HandRule(v) /\ LoopRule(v)
      BY DEF BrokerInv, LoopRules
    <2>2. CASE v = w
      BY <1>1, <1>2, <2>1, <2>2 DEF HandRule, LoopRule
    <2>3. CASE v # w
      BY <1>1, <1>2, <2>1, <2>3 DEF HandRule, LoopRule
    <2>4. QED
      BY <2>2, <2>3
  <1>4. QED
    BY <1>2, <1>3 DEF LoopRules

LEMMA LoopOnly ==
    ASSUME BrokerInv, NEW w \in Pool, loop[w] \in {"check", "brpop", "ending"},
           NEW l \in {"check", "brpop", "ending", "ended"}, LoopGoto(w, l),
           UNCHANGED <<workerVars, lists, push, running, hand, down, client>>
    PROVE  BrokerInv'
  <1>1. UNCHANGED <<doc, stale, task, slots, pools, runs, excused>>
    BY DEF workerVars, couch, history
  <1>2. hand[w] = NoJob
    BY DEF BrokerInv, LoopRules, HandRule
  <1>3. LoopRules' /\ loop' \in [Pool -> {"check", "brpop", "get", "send", "ending", "ended"}]
    BY <1>1, <1>2, LoopMoves
  <1>4. JobTypes' /\ StaleEnded' /\ ExecBound'
    BY <1>1 DEF BrokerInv, JobInv, JobRules, JobTypes, StaleEnded, ExecBound
  <1>5. PoolInv' /\ JobInv'
    BY <1>1, <1>4, PoolFrame, JobFrame DEF BrokerInv
  <1>6. RedisTypes'
    BY <1>3 DEF BrokerInv, RedisTypes
  <1>7. RightList' /\ ListedOnce' /\ HandOnce'
    BY SameLists, SameHands DEF BrokerInv, PlaceRules
  <1>8. \A i \in Job : PlaceRule(i)'
    BY <1>1, SameLists, SameHands, SameHeld, SamePlace DEF BrokerInv, PlaceRules
  <1>9. QED
    BY <1>3, <1>5, <1>6, <1>7, <1>8 DEF BrokerInv, PlaceRules

LEMMA PopInv ==
    ASSUME BrokerInv, NEW w \in Pool, NEW l \in Lists, Pop(w, l) PROVE BrokerInv'
  <1> DEFINE j == Last(lists[l])
  <1>1. /\ loop[w] = "brpop" /\ lists[l] # <<>>
        /\ lists' = [lists EXCEPT ![l] = Front(lists[l])]
        /\ UNCHANGED <<doc, stale, task, slots, pools, runs, push, running, down, client>>
    BY DEF Pop, couch
  <1>2. \/ hand' = [hand EXCEPT ![w] = j] /\ LoopGoto(w, "get") /\ UNCHANGED excused
        \/ excused' = excused \cup {j} /\ LoopGoto(w, "check") /\ UNCHANGED hand
    BY DEF Pop
  <1>3. /\ lists' \in [Lists -> Seq(Job)] /\ RightList' /\ ListedOnce'
        /\ j \in Job /\ ListOf(j) = l /\ Listed(j)
        /\ \A i \in Job : Listed(i)' <=> Listed(i) /\ i # j
    BY <1>1, ListPop DEF BrokerInv, RedisTypes, PlaceRules
  <1> HIDE DEF j
  <1>4. hand[w] = NoJob /\ hand \in [Pool -> Job \cup {NoJob}] /\ HandOnce
    BY <1>1 DEF BrokerInv, LoopRules, HandRule, RedisTypes, PlaceRules
  <1>5. push[j] = <<>> /\ ~InHand(j) /\ ~Held(j) /\ runs[j] = 0
    BY <1>3 DEF BrokerInv, PlaceRules, PlaceRule
  <1>6. /\ hand' \in [Pool -> Job \cup {NoJob}] /\ HandOnce'
        /\ \A v \in Pool : v # w => hand'[v] = hand[v]
        /\ \A i \in Job : i # j => (InHand(i)' <=> InHand(i))
        /\ \A i \in Job : i = j => InHand(i)' \/ i \in excused'
    <2>1. CASE hand' = [hand EXCEPT ![w] = j]
      BY <1>3, <1>4, <1>5, <2>1, HandTakes
    <2>2. CASE UNCHANGED hand /\ excused' = excused \cup {j}
      BY <1>4, <2>2, SameHands
    <2>3. QED
      BY <1>2, <2>1, <2>2
  <1>7. LoopRules' /\ loop' \in [Pool -> {"check", "brpop", "get", "send", "ending", "ended"}]
    <2>1. CASE hand' = [hand EXCEPT ![w] = j] /\ LoopGoto(w, "get")
      <3>1. hand'[w] = j
        BY <1>4, <2>1
      <3>2. QED
        BY <1>1, <1>3, <1>6, <2>1, <3>1, LoopMoves
    <2>2. CASE LoopGoto(w, "check") /\ UNCHANGED hand
      <3>1. hand'[w] = NoJob /\ loop[w] # "ended" /\ UNCHANGED <<pools, down>>
        BY <1>1, <1>4, <2>2
      <3>2. QED
        BY <1>6, <2>2, <3>1, LoopMoves
    <2>3. QED
      BY <1>2, <2>1, <2>2
  <1>8. JobTypes' /\ StaleEnded' /\ ExecBound' /\ excused \subseteq excused'
    BY <1>1, <1>2, <1>3 DEF BrokerInv, JobInv, JobRules, JobTypes, StaleEnded, ExecBound
  <1>9. PoolInv' /\ JobInv'
    BY <1>1, <1>8, PoolFrame, JobFrame DEF BrokerInv
  <1>10. RedisTypes'
    BY <1>1, <1>3, <1>6, <1>7 DEF BrokerInv, RedisTypes
  <1>11. ASSUME NEW i \in Job PROVE PlaceRule(i)'
    <2>1. Held(i)' <=> Held(i)
      BY <1>1, SameHeld
    <2>2. CASE i # j
      BY <1>1, <1>3, <1>6, <1>8, <2>1, <2>2, SamePlace DEF BrokerInv, PlaceRules
    <2>3. CASE i = j
      <3>1. push'[i] = <<>> /\ ~Listed(i)' /\ ~Held(i)' /\ runs'[i] = 0
        BY <1>1, <1>3, <1>5, <2>1, <2>3
      <3>2. InHand(i)' \/ i \in excused'
        BY <1>6, <2>3
      <3>3. QED
        BY <3>1, <3>2 DEF PlaceRule, Known
    <2>4. QED
      BY <2>2, <2>3
  <1>12. QED
    BY <1>3, <1>6, <1>7, <1>9, <1>10, <1>11 DEF BrokerInv, PlaceRules

LEMMA GetInv == ASSUME BrokerInv, NEW w \in Pool, Get(w) PROVE BrokerInv'
  <1> DEFINE j == hand[w]
  <1>1. /\ loop[w] = "get"
        /\ UNCHANGED <<doc, task, slots, pools, runs, lists, push, running, down, client>>
    BY DEF Get
  <1>2. \/ stale' = stale \ {j} /\ LoopGoto(w, "send") /\ UNCHANGED <<hand, excused>>
        \/ /\ hand' = [hand EXCEPT ![w] = NoJob] /\ LoopGoto(w, "check")
           /\ excused' = excused \cup {j} /\ UNCHANGED stale
    BY DEF Get
  <1>3. j \in Job /\ hand \in [Pool -> Job \cup {NoJob}] /\ HandOnce
    BY <1>1 DEF BrokerInv, LoopRules, HandRule, RedisTypes, PlaceRules
  <1>4. InHand(j)
    BY <1>3 DEF InHand
  <1>5. push[j] = <<>> /\ ~Listed(j) /\ ~Held(j) /\ runs[j] = 0
    BY <1>3, <1>4 DEF BrokerInv, PlaceRules, PlaceRule
  <1>6. /\ hand' \in [Pool -> Job \cup {NoJob}] /\ HandOnce'
        /\ \A v \in Pool : v # w => hand'[v] = hand[v]
        /\ \A i \in Job : i # j => (InHand(i)' <=> InHand(i))
        /\ \A i \in Job : i = j => InHand(i)' \/ i \in excused'
    <2>1. CASE hand' = [hand EXCEPT ![w] = NoJob] /\ excused' = excused \cup {j}
      BY <1>3, <2>1, HandDrops
    <2>2. CASE UNCHANGED hand
      BY <1>3, <1>4, <2>2, SameHands
    <2>3. QED
      BY <1>2, <2>1, <2>2
  <1>7. LoopRules' /\ loop' \in [Pool -> {"check", "brpop", "get", "send", "ending", "ended"}]
    <2>1. CASE hand' = [hand EXCEPT ![w] = NoJob] /\ LoopGoto(w, "check")
      <3>1. hand'[w] = NoJob
        BY <1>3, <2>1
      <3>2. QED
        BY <1>1, <1>6, <2>1, <3>1, LoopMoves
    <2>2. CASE LoopGoto(w, "send") /\ UNCHANGED hand
      BY <1>1, <1>3, <2>2, LoopMoves
    <2>3. QED
      BY <1>2, <2>1, <2>2
  <1>8. /\ stale' \subseteq stale /\ excused' \subseteq Job /\ excused \subseteq excused'
    BY <1>2, <1>3 DEF BrokerInv, JobInv, JobTypes
  <1>9. JobTypes' /\ StaleEnded' /\ ExecBound'
    BY <1>1, <1>8 DEF BrokerInv, JobInv, JobRules, JobTypes, StaleEnded, ExecBound
  <1>10. PoolInv' /\ JobInv'
    BY <1>1, <1>8, <1>9, PoolFrame, JobFrame DEF BrokerInv
  <1>11. RedisTypes'
    BY <1>1, <1>6, <1>7 DEF BrokerInv, RedisTypes
  <1>12. RightList' /\ ListedOnce'
    BY <1>1, SameLists DEF BrokerInv, PlaceRules
  <1>13. ASSUME NEW i \in Job PROVE PlaceRule(i)'
    <2>1. (Held(i)' <=> Held(i)) /\ (Listed(i)' <=> Listed(i))
      BY <1>1, SameHeld, SameLists
    <2>2. CASE i # j
      BY <1>1, <1>6, <1>8, <2>1, <2>2, SamePlace DEF BrokerInv, PlaceRules
    <2>3. CASE i = j
      <3>1. push'[i] = <<>> /\ ~Listed(i)' /\ ~Held(i)' /\ runs'[i] = 0
        BY <1>1, <1>5, <2>1, <2>3
      <3>2. InHand(i)' \/ i \in excused'
        BY <1>6, <2>3
      <3>3. QED
        BY <3>1, <3>2 DEF PlaceRule, Known
    <2>4. QED
      BY <2>2, <2>3
  <1>14. QED
    BY <1>6, <1>7, <1>10, <1>11, <1>12, <1>13 DEF BrokerInv, PlaceRules

LEMMA SendInv == ASSUME BrokerInv, NEW w \in Pool, Send(w) PROVE BrokerInv'
  <1> DEFINE j == hand[w]
  <1>1. PICK r \in Routine : Receive(<<w, r>>, j)
    BY DEF Send
  <1> DEFINE g == <<w, r>>
  <1>2. /\ loop[w] = "send" /\ hand' = [hand EXCEPT ![w] = NoJob] /\ LoopGoto(w, "check")
        /\ UNCHANGED <<couch, slots, pools, history, lists, push, running, down, client>>
    BY DEF Send
  <1>3. UNCHANGED <<doc, stale, runs, excused>> /\ g \in Worker
    BY <1>2, WorkerFields DEF couch, history
  <1>4. j \in Job /\ hand \in [Pool -> Job \cup {NoJob}] /\ HandOnce
    BY <1>2 DEF BrokerInv, LoopRules, HandRule, RedisTypes, PlaceRules
  <1>5. InHand(j)
    BY <1>4 DEF InHand
  <1>6. push[j] = <<>> /\ ~Listed(j) /\ ~Held(j) /\ runs[j] = 0
    BY <1>4, <1>5 DEF BrokerInv, PlaceRules, PlaceRule
  <1>7. /\ hand' \in [Pool -> Job \cup {NoJob}] /\ HandOnce' /\ hand'[w] = NoJob
        /\ \A v \in Pool : v # w => hand'[v] = hand[v]
        /\ \A i \in Job : InHand(i)' <=> InHand(i) /\ i # j
    BY <1>2, <1>4, HandDrops
  <1>8. LoopRules' /\ loop' \in [Pool -> {"check", "brpop", "get", "send", "ending", "ended"}]
    BY <1>2, <1>7, LoopMoves
  <1>9. PoolInv'
    BY <1>1, <1>2, <1>3, <1>4, ReceivePool DEF BrokerInv
  <1>10. /\ JobInv'
         /\ \A h \in Worker : \A i \in Job : Holds(h, i)' <=> Holds(h, i) \/ (h = g /\ i = j)
    <2>1. \A h \in Worker : ~Holds(h, j)
      BY <1>6 DEF Held
    <2>2. QED
      BY <1>1, <1>2, <1>3, <1>4, <1>6, <2>1, ReceiveJobs DEF BrokerInv
  <1>11. \A i \in Job : Held(i)' <=> Held(i) \/ i = j
    BY <1>3, <1>10 DEF Held
  <1>12. RedisTypes'
    BY <1>2, <1>7, <1>8 DEF BrokerInv, RedisTypes
  <1>13. RightList' /\ ListedOnce' /\ \A i \in Job : Listed(i)' <=> Listed(i)
    BY <1>2, SameLists DEF BrokerInv, PlaceRules
  <1>14. ASSUME NEW i \in Job PROVE PlaceRule(i)'
    <2>1. CASE i # j
      BY <1>2, <1>3, <1>7, <1>11, <1>13, <2>1, SamePlace DEF BrokerInv, PlaceRules
    <2>2. CASE i = j
      BY <1>2, <1>3, <1>6, <1>7, <1>11, <1>13, <2>2 DEF PlaceRule, Known
    <2>3. QED
      BY <2>1, <2>2
  <1>15. QED
    BY <1>7, <1>8, <1>9, <1>10, <1>12, <1>13, <1>14 DEF BrokerInv, PlaceRules

LEMMA LoopStepInv == ASSUME BrokerInv, NEW w \in Pool, LoopStep(w) PROVE BrokerInv'
  <1>1. CASE CheckRunning(w) \/ BRPopTimeout(w) \/ Closed(w)
    BY <1>1, LoopOnly DEF CheckRunning, BRPopTimeout, Closed
  <1>2. ASSUME NEW first \in {"", "/p0"}, BRPop(w, first) PROVE BrokerInv'
    <2>1. \E l \in {"", "/p0"} : Pop(w, <<w[2], l>>)
      BY <1>2 DEF BRPop
    <2>2. \A l \in {"", "/p0"} : <<w[2], l>> \in Lists
      BY DEF Lists, Pool
    <2>3. QED
      BY <2>1, <2>2, PopInv
  <1>3. QED
    BY <1>1, <1>2, GetInv, SendInv DEF LoopStep

-----------------------------------------------------------------------------
(* The pools, the shutdown and the end of a process.                       *)

LEMMA WorkerStepInv ==
    ASSUME BrokerInv, NEW g \in Worker, WorkerStep(g), UNCHANGED redisVars PROVE BrokerInv'
  <1>1. PoolInv' /\ JobInv' /\ WorkerEffect(g)
    BY WorkerPool, WorkerJobs DEF BrokerInv
  <1>2. UNCHANGED <<lists, push, running, loop, hand, down, client>>
    BY Zenon DEF redisVars
  <1>3. UNCHANGED <<chan, stop>>
    BY DEF WorkerStep, WorkerProgress, AckConsumed, NextDelay, ExecStart, ExecEnd, Finish,
           Retire, LeaveRange, Left, Skip, StartFails, Cancel, pools
  <1>4. LoopRules'
    BY <1>2, <1>3 DEF BrokerInv, LoopRules, HandRule, LoopRule
  <1>5. RedisTypes' /\ RightList' /\ ListedOnce' /\ HandOnce'
    BY <1>2, SameLists, SameHands DEF BrokerInv, RedisTypes, PlaceRules
  <1>6. ASSUME NEW i \in Job PROVE PlaceRule(i)'
    <2>1. (Listed(i)' <=> Listed(i)) /\ (InHand(i)' <=> InHand(i)) /\ push'[i] = push[i]
      BY <1>2, SameLists, SameHands
    <2>2. \A h \in Worker : h # g => (Holds(h, i)' <=> Holds(h, i))
      BY <1>1 DEF WorkerEffect, Holds
    <2>3. PlaceRule(i)
      BY DEF BrokerInv, PlaceRules
    <2>4. CASE ~Holds(g, i)
      <3>1. Held(i)' <=> Held(i)
        BY <1>1, <2>2, <2>4 DEF WorkerEffect, Held
      <3>2. QED
        BY <1>1, <2>1, <2>3, <2>4, <3>1, SamePlace DEF WorkerEffect
    <2>5. CASE Holds(g, i)
      <3>1. push[i] = <<>> /\ ~Listed(i) /\ ~InHand(i)
        BY <2>3, <2>5 DEF PlaceRule, Held
      <3>2. doc'[i] \in Live /\ i \notin excused' => Held(i)'
        BY <1>1, <2>5 DEF WorkerEffect, Held
      <3>3. QED
        BY <2>1, <3>1, <3>2 DEF PlaceRule, Known
    <2>6. QED
      BY <2>4, <2>5
  <1>7. QED
    BY <1>1, <1>4, <1>5, <1>6 DEF BrokerInv, PlaceRules

\* Nothing happens to the jobs.
LEMMA SameJobs ==
    ASSUME BrokerInv, UNCHANGED <<couch, task, history, lists, push, hand>>
    PROVE  JobInv' /\ PlaceRules'
  <1>1. UNCHANGED <<doc, stale, runs, excused>>
    BY DEF couch, history
  <1>2. JobTypes' /\ StaleEnded' /\ ExecBound'
    BY <1>1 DEF BrokerInv, JobInv, JobRules, JobTypes, StaleEnded, ExecBound
  <1>3. JobInv'
    BY <1>1, <1>2, JobFrame DEF BrokerInv
  <1>4. RightList' /\ ListedOnce' /\ HandOnce'
    BY SameLists, SameHands DEF BrokerInv, PlaceRules
  <1>5. \A i \in Job : PlaceRule(i)'
    BY <1>1, SameLists, SameHands, SameHeld, SamePlace DEF BrokerInv, PlaceRules
  <1>6. QED
    BY <1>3, <1>4, <1>5 DEF PlaceRules

LEMMA ShutdownInv ==
    ASSUME BrokerInv, NEW p \in Process,
           ShutdownWorkers(p) \/ LoopsEnded(p) \/ ShutdownExpires(p) \/ ShutdownReturns(p)
    PROVE  BrokerInv'
  <1>1. UNCHANGED <<workerVars, lists, push, loop, hand>>
    BY DEF ShutdownWorkers, LoopsEnded, ShutdownExpires, ShutdownReturns
  <1>2. UNCHANGED <<couch, task, slots, pools, chan, stop, history>>
    BY <1>1 DEF workerVars, pools
  <1>3. PoolInv' /\ JobInv' /\ PlaceRules'
    BY <1>1, <1>2, PoolFrame, SameJobs DEF BrokerInv
  <1>4. /\ running' = running \/ running' = [running EXCEPT ![p] = FALSE]
        /\ client' = client \/ client' = [client EXCEPT ![p] = FALSE]
    BY DEF ShutdownWorkers, LoopsEnded, ShutdownExpires, ShutdownReturns
  <1>5. PICK d \in {"loops", "workers", "ok", "failed"} :
          /\ down' = [down EXCEPT ![p] = d]
          /\ d \in {"workers", "ok"} => \A w \in PoolsOf(p) : loop[w] = "ended"
          /\ d = "ok" => \A w \in PoolsOf(p) : stop[w] = "ok"
    <2>1. CASE ShutdownWorkers(p)
      BY <2>1 DEF ShutdownWorkers, Down
    <2>2. CASE LoopsEnded(p)
      BY <2>2 DEF LoopsEnded, Down
    <2>3. CASE ShutdownExpires(p)
      BY <2>3 DEF ShutdownExpires, Down
    <2>4. CASE ShutdownReturns(p)
      <3>1. \A w \in PoolsOf(p) : loop[w] = "ended"
        BY <2>4 DEF ShutdownReturns, BrokerInv, LoopRules, LoopRule, PoolsOf
      <3>2. QED
        BY <2>4, <3>1 DEF ShutdownReturns, Down
    <2>5. QED
      BY <2>1, <2>2, <2>3, <2>4
  <1>6. RedisTypes'
    BY <1>1, <1>4, <1>5 DEF BrokerInv, RedisTypes
  <1>7. down'[p] = d /\ \A q \in Process : q # p => down'[q] = down[q]
    BY <1>5 DEF BrokerInv, RedisTypes
  <1>8. ASSUME NEW w \in Pool PROVE HandRule(w)' /\ LoopRule(w)'
    <2>1. HandRule(w) /\ LoopRule(w) /\ w[1] \in Process
      BY WorkerFields DEF BrokerInv, LoopRules
    <2>2. CASE w[1] = p
      BY <1>1, <1>2, <1>5, <1>7, <2>1, <2>2 DEF HandRule, LoopRule, PoolsOf
    <2>3. CASE w[1] # p
      BY <1>1, <1>2, <1>7, <2>1, <2>3 DEF HandRule, LoopRule
    <2>4. QED
      BY <2>2, <2>3
  <1>9. QED
    BY <1>3, <1>6, <1>8 DEF BrokerInv, LoopRules

LEMMA StopInv ==
    ASSUME BrokerInv, NEW w \in Pool, StopPool(w) \/ PoolStopped(w) \/ PoolExpires(w)
    PROVE  BrokerInv'
  <1>1. UNCHANGED <<lists, push, running, loop, hand, down, client>>
    BY DEF StopPool, PoolStopped, PoolExpires, redisVars
  <1>2. UNCHANGED <<couch, task, history>>
    BY DEF StopPool, PoolStopped, PoolExpires, StopWorker, Stopped, StopExpires
  <1>3. PoolInv'
    BY StopWorkerPool, StoppedPool DEF BrokerInv, StopPool, PoolStopped, PoolExpires
  <1>4. JobInv' /\ PlaceRules'
    BY <1>1, <1>2, SameJobs
  <1>5. RedisTypes'
    BY <1>1 DEF BrokerInv, RedisTypes
  <1>6. /\ stop[w] # "ok"
        /\ \A v \in Pool : v # w => chan'[v] = chan[v] /\ stop'[v] = stop[v]
        /\ chan'[w] = "closed" => chan[w] = "closed" \/ down[w[1]] = "workers"
    <2>1. CASE StopPool(w)
      BY <2>1 DEF StopPool, StopWorker, BrokerInv, PoolInv, PoolTypes
    <2>2. CASE PoolStopped(w) \/ PoolExpires(w)
      BY <2>2 DEF PoolStopped, PoolExpires, Stopped, StopExpires, BrokerInv, PoolInv, PoolTypes
    <2>3. QED
      BY <2>1, <2>2
  <1>7. ASSUME NEW v \in Pool PROVE HandRule(v)' /\ LoopRule(v)'
    <2>1. HandRule(v) /\ LoopRule(v)
      BY DEF BrokerInv, LoopRules
    <2>2. CASE v = w
      BY <1>1, <1>6, <2>1, <2>2 DEF HandRule, LoopRule
    <2>3. CASE v # w
      BY <1>1, <1>6, <2>1, <2>3 DEF HandRule, LoopRule
    <2>4. QED
      BY <2>2, <2>3
  <1>8. QED
    BY <1>3, <1>4, <1>5, <1>7 DEF BrokerInv, LoopRules

\* After an orderly shutdown nothing is left in the memory of the process.
LEMMA LeftNothing == ASSUME BrokerInv, NEW p \in Process, down[p] = "ok" PROVE InMemory(p) = {}
  <1>1. \A w \in PoolsOf(p) : hand[w] = NoJob /\ stop[w] = "ok"
    BY DEF BrokerInv, LoopRules, LoopRule, HandRule, PoolsOf
  <1>2. ASSUME NEW g \in WorkersOf(p), NEW j \in Job PROVE ~Holds(g, j)
    <2>1. g \in Worker /\ g[1] \in PoolsOf(p) /\ g[1] \in Pool /\ g[2] \in Routine
          /\ g = <<g[1], g[2]>>
      BY WorkerFields DEF WorkersOf, PoolsOf
    <2>2. task[<<g[1], g[2]>>].pc = "left"
      BY <1>1, <2>1 DEF BrokerInv, PoolInv, PoolRules, AllLeft
    <2>3. task[g].pc = "left"
      BY <2>1, <2>2
    <2>4. QED
      BY <2>3 DEF Holds, Busy, Running
  <1>3. QED
    BY <1>1, <1>2, WorkerAssumption DEF InMemory

LEMMA RestartInv ==
    ASSUME BrokerInv, NEW p \in Process, NEW hit \in SUBSET Job, Restart(p, hit),
           Pushing(p) \subseteq hit, InMemory(p) \subseteq hit
    PROVE  BrokerInv'
  <1>1. /\ DiesWith(p) /\ UNCHANGED <<couch, runs, lists>>
        /\ excused' = excused \cup hit
        /\ push' = [j \in Job |-> IF j \in Pushing(p) THEN <<>> ELSE push[j]]
        /\ running' = [running EXCEPT ![p] = TRUE]
        /\ loop' = [w \in Pool |-> IF w[1] = p THEN "check" ELSE loop[w]]
        /\ hand' = [w \in Pool |-> IF w[1] = p THEN NoJob ELSE hand[w]]
        /\ down' = [down EXCEPT ![p] = "no"]
        /\ client' = [client EXCEPT ![p] = TRUE]
    BY DEF Restart, Down
  <1>2. PoolInv'
    BY <1>1, DiesPool DEF BrokerInv
  <1>3. excused \subseteq excused' /\ excused' \subseteq Job
    BY <1>1 DEF BrokerInv, JobInv, JobTypes
  <1>4. /\ JobInv'
        /\ \A g \in Worker : \A j \in Job : Holds(g, j)' <=> Holds(g, j) /\ g[1][1] # p
    BY <1>1, <1>3, DiesJobs DEF BrokerInv
  <1>5. RedisTypes'
    BY <1>1 DEF BrokerInv, RedisTypes
  <1>6. ASSUME NEW w \in Pool PROVE HandRule(w)' /\ LoopRule(w)'
    <2>1. /\ HandRule(w) /\ LoopRule(w) /\ w[1] \in Process
          /\ chan'[w] = IF w[1] = p THEN "open" ELSE chan[w]
          /\ stop'[w] = IF w[1] = p THEN "up" ELSE stop[w]
      BY <1>1, WorkerFields DEF BrokerInv, LoopRules, DiesWith
    <2>2. down'[w[1]] = IF w[1] = p THEN "no" ELSE down[w[1]]
      BY <1>1, <2>1 DEF BrokerInv, RedisTypes
    <2>3. CASE w[1] = p
      <3>1. loop'[w] = "check" /\ hand'[w] = NoJob
        BY <1>1, <2>3
      <3>2. QED
        BY <2>1, <2>2, <2>3, <3>1 DEF HandRule, LoopRule
    <2>4. CASE w[1] # p
      <3>1. loop'[w] = loop[w] /\ hand'[w] = hand[w]
        BY <1>1, <2>4
      <3>2. QED
        BY <2>1, <2>2, <2>4, <3>1 DEF HandRule, LoopRule
    <2>5. QED
      BY <2>3, <2>4
  <1>7. RightList' /\ ListedOnce' /\ \A i \in Job : Listed(i)' <=> Listed(i)
    BY <1>1, SameLists DEF BrokerInv, PlaceRules
  <1>8. HandOnce'
    BY <1>1 DEF BrokerInv, PlaceRules, HandOnce
  <1>9. ASSUME NEW i \in Job PROVE PlaceRule(i)'
    <2>1. PlaceRule(i) /\ UNCHANGED <<doc, stale, runs>>
      BY <1>1 DEF BrokerInv, PlaceRules, couch
    <2>2. push'[i] # <<>> => push'[i] = push[i]
      BY <1>1
    <2>3. InHand(i)' => InHand(i)
      BY <1>1, WorkerAssumption DEF InHand
    <2>4. Held(i)' => Held(i)
      BY <1>4 DEF Held
    <2>5. Known(i) /\ i \notin hit => Known(i)'
      <3>1. SUFFICES ASSUME Known(i), i \notin hit PROVE Known(i)'
        OBVIOUS
      <3>2. i \notin Pushing(p) /\ i \notin InMemory(p)
        BY <3>1
      <3>3. push[i] # <<>> => push'[i] # <<>>
        BY <1>1, <3>2
      <3>4. InHand(i) => InHand(i)'
        BY <1>1, <3>2 DEF InHand, InMemory, PoolsOf
      <3>5. Held(i) => Held(i)'
        BY <1>4, <3>2 DEF Held, InMemory, WorkersOf
      <3>6. QED
        BY <1>7, <3>1, <3>3, <3>4, <3>5 DEF Known
    <2>6. QED
      BY <1>1, <1>7, <2>1, <2>2, <2>3, <2>4, <2>5 DEF PlaceRule
  <1>10. QED
    BY <1>2, <1>4, <1>5, <1>6, <1>7, <1>8, <1>9 DEF BrokerInv, LoopRules, PlaceRules

LEMMA EndInv == ASSUME BrokerInv, NEW p \in Process, Crash(p) \/ Exit(p) PROVE BrokerInv'
  <1>1. Pushing(p) \subseteq Job /\ InMemory(p) \subseteq Job
    BY DEF Pushing, InMemory
  <1>2. CASE Restart(p, Pushing(p) \cup InMemory(p))
    BY <1>1, <1>2, RestartInv
  <1>3. CASE down[p] = "ok" /\ Restart(p, Pushing(p))
    BY <1>1, <1>3, LeftNothing, RestartInv
  <1>4. QED
    BY <1>2, <1>3 DEF Crash, Exit

-----------------------------------------------------------------------------
(* The invariant, and what it implies.                                     *)

LEMMA InitInv == ASSUME Init PROVE BrokerInv
  <1>1. PoolInv /\ JobInv /\ \A g \in Worker : \A j \in Job : ~Holds(g, j)
    BY WorkerInitInv DEF Init
  <1>2. RedisTypes
    BY DEF Init, RedisTypes
  <1>3. LoopRules
    <2>1. \A w \in Pool : /\ chan[w] = "open" /\ loop[w] = "check" /\ hand[w] = NoJob
                          /\ down[w[1]] = "no"
      BY WorkerFields DEF Init, WorkerInit
    <2>2. QED
      BY <2>1 DEF LoopRules, HandRule, LoopRule
  <1>4. \A l \in Lists : lists[l] = <<>> /\ DOMAIN lists[l] = {}
    BY DEF Init
  <1>5. RightList /\ ListedOnce /\ HandOnce
    BY <1>4 DEF Init, RightList, ListedOnce, HandOnce
  <1>6. ASSUME NEW j \in Job PROVE PlaceRule(j)
    <2>1. lists[ListOf(j)] = <<>> /\ <<>> \in Seq(Job)
      BY <1>4, ListOfType
    <2>2. ~Listed(j)
      BY <2>1 DEF Listed, Contains
    <2>3. push[j] = <<>> /\ ~InHand(j) /\ ~Held(j) /\ doc[j] = "none"
      BY <1>1, WorkerAssumption DEF Init, WorkerInit, InHand, Held
    <2>4. QED
      BY <2>2, <2>3 DEF PlaceRule, Live
  <1>7. QED
    BY <1>1, <1>2, <1>3, <1>5, <1>6 DEF BrokerInv, PlaceRules

LEMMA StutterInv == ASSUME BrokerInv, UNCHANGED vars PROVE BrokerInv'
  <1>1. /\ UNCHANGED <<couch, task, slots, pools, history>>
        /\ UNCHANGED <<lists, push, running, loop, hand, down, client>>
    BY DEF vars, workerVars, redisVars
  <1>2. PoolInv' /\ JobInv' /\ PlaceRules' /\ LoopRules'
    BY <1>1, PoolFrame, SameJobs, SameLoops DEF BrokerInv
  <1>3. RedisTypes'
    BY <1>1 DEF BrokerInv, RedisTypes
  <1>4. QED
    BY <1>2, <1>3 DEF BrokerInv

\* The steps of the broker that are not steps of one job or of one pool.
LEMMA ShutdownStepInv == ASSUME BrokerInv, NEW p \in Process, ShutdownStep(p) PROVE BrokerInv'
  BY ShutdownInv, StopInv DEF ShutdownStep, PoolsOf

LEMMA NextInv == ASSUME BrokerInv, [Next]_vars PROVE BrokerInv'
  <1>1. CASE \E p \in Process, j \in Job : PushJob(p, j)
    BY <1>1, PushJobInv
  <1>2. CASE \E j \in Job : Create(j) \/ LPush(j)
    BY <1>2, CreateInv, LPushInv
  <1>3. CASE \E j \in Job : (CleanJob(j) \/ PurgeJob(j)) /\ UNCHANGED redisVars
    BY <1>3, AdminInv
  <1>4. CASE \E w \in Pool : LoopStep(w)
    BY <1>4, LoopStepInv
  <1>5. CASE \E g \in Worker : WorkerStep(g) /\ UNCHANGED redisVars
    BY <1>5, WorkerStepInv
  <1>6. CASE \E p \in Process : ShutdownStep(p) \/ Crash(p) \/ Exit(p)
    BY <1>6, ShutdownStepInv, EndInv
  <1>7. QED
    BY <1>1, <1>2, <1>3, <1>4, <1>5, <1>6, StutterInv DEF Next

\* BrokerInv is inductive, so it is an invariant of the broker.
THEOREM BrokerInvariant == Spec => []BrokerInv
  <1>1. Init => BrokerInv
    BY InitInv
  <1>2. BrokerInv /\ [Next]_vars => BrokerInv'
    BY NextInv
  <1>3. QED
    BY <1>1, <1>2, PTL DEF Spec

LEMMA OneOrNone ==
    ASSUME NEW S, \A x, y \in S : x = y
    PROVE  /\ Cardinality(S) \in {0, 1}
           /\ S = {} => Cardinality(S) = 0
  <1>1. CASE S = {}
    BY <1>1, FS_EmptySet
  <1>2. CASE S # {}
    <2>1. PICK x : x \in S
      BY <1>2
    <2>2. S = {x}
      BY <2>1
    <2>3. QED
      BY <1>2, <2>2, FS_Singleton
  <1>3. QED
    BY <1>1, <1>2

LEMMA OnePlaceOnly == BrokerInv => OnePlace
  <1> SUFFICES ASSUME BrokerInv, NEW j \in Job PROVE Places(j) <= 1
    BY DEF OnePlace
  <1> DEFINE L == {i \in DOMAIN lists[ListOf(j)] : lists[ListOf(j)][i] = j}
             H == {w \in Pool : hand[w] = j}
             K == {g \in Worker : Holds(g, j)}
  <1>1. PlaceRule(j) /\ ListOf(j) \in Lists /\ lists[ListOf(j)] \in Seq(Job)
    BY ListOfType DEF BrokerInv, PlaceRules, RedisTypes
  <1>2. \A x, y \in L : x = y
    BY <1>1 DEF BrokerInv, PlaceRules, ListedOnce
  <1>3. \A x, y \in H : x = y
    BY WorkerAssumption DEF BrokerInv, PlaceRules, HandOnce
  <1>4. \A x, y \in K : x = y
    BY DEF BrokerInv, JobInv, JobRules, HeldOnce
  <1>5. /\ L # {} => Listed(j)
        /\ H # {} => InHand(j)
        /\ K # {} => Held(j)
    BY <1>1, ContainsAt DEF Listed, InHand, Held
  <1>6. /\ push[j] # <<>> => L = {} /\ H = {} /\ K = {}
        /\ L # {} => H = {} /\ K = {}
        /\ H # {} => K = {}
    BY <1>1, <1>5 DEF PlaceRule, Listed, InHand, Held
  <1>7. /\ Cardinality(L) \in {0, 1} /\ (L = {} => Cardinality(L) = 0)
        /\ Cardinality(H) \in {0, 1} /\ (H = {} => Cardinality(H) = 0)
        /\ Cardinality(K) \in {0, 1} /\ (K = {} => Cardinality(K) = 0)
    BY <1>2, <1>3, <1>4, OneOrNone
  <1>8. Places(j) = Cardinality(L) + Cardinality(H) + Cardinality(K)
                    + (IF push[j] = <<>> THEN 0 ELSE 1)
    BY DEF Places
  <1> HIDE DEF L, H, K
  <1>9. QED
    BY <1>6, <1>7, <1>8

LEMMA Consequences ==
    ASSUME BrokerInv
    PROVE  /\ TypeOK /\ NoSendOnClosed /\ ShutdownLeavesNothing /\ OnePlace
           /\ ExecBound /\ NoJobLost /\ SlotsConserved /\ EachTaskCancellable
  <1>1. TypeOK
    BY TypesSplit DEF BrokerInv, PoolInv, JobInv, RedisTypes, TypeOK
  <1>2. NoSendOnClosed
    BY DEF BrokerInv, LoopRules, LoopRule, NoSendOnClosed
  <1>3. ShutdownLeavesNothing
    BY LeftNothing DEF ShutdownLeavesNothing
  <1>4. ExecBound
    BY DEF BrokerInv, JobInv, JobRules
  <1>5. NoJobLost
    BY DEF BrokerInv, PlaceRules, PlaceRule, NoJobLost, Live
  <1>6. QED
    BY <1>1, <1>2, <1>3, <1>4, <1>5, OnePlaceOnly, PoolInvImplies DEF BrokerInv

-----------------------------------------------------------------------------
(* The theorems.                                                           *)

\* The documents, the redis lists, the poll loops, the pools and the shutdowns
\* always have values of their types: no counter of executions, slots or
\* messages of w.closing leaves its range.
THEOREM TypeCorrect == Spec => []TypeOK
  BY BrokerInvariant, Consequences, PTL

\* A job that was pushed is in one place only: no two lists, poll loops or
\* goroutines, of whatever processes, ever have the same job.
THEOREM JobsInOnePlace == Spec => []OnePlace
  BY BrokerInvariant, Consequences, PTL

\* A job whose document says queued or running, and that no failure, crash,
\* missed deadline or drop excuses, is being pushed, listed, polled or executed.
THEOREM JobsNotLost == Spec => []NoJobLost
  BY BrokerInvariant, Consequences, PTL

\* Whatever the retries, the crashes and the restarts of the processes, a job is
\* executed at most MaxExecCount times.
THEOREM ExecutionsBounded == Spec => []ExecBound
  BY BrokerInvariant, Consequences, PTL

\* The channel of a pool is closed only when its poll loop has ended, so that
\* no `ch <- job` of pollLoop panics.
THEOREM NoSendPanics == Spec => []NoSendOnClosed
  BY BrokerInvariant, Consequences, PTL

\* When ShutdownWorkers returns without error, neither a poll loop nor a
\* goroutine of the process has a job.
THEOREM OrderlyShutdown == Spec => []ShutdownLeavesNothing
  BY BrokerInvariant, Consequences, PTL

\* The free slots of a process and its executions add up to jobs.workers.
THEOREM SlotsAddUp == Spec => []SlotsConserved
  BY BrokerInvariant, Consequences, PTL

\* Worker.Shutdown has left a message for every task that it must cancel.
THEOREM TasksCancellable == Spec => []EachTaskCancellable
  BY BrokerInvariant, Consequences, PTL

LEMMA StepKeepsEnd ==
    ASSUME BrokerInv, [Next]_vars, NEW j \in Job, Ended(j) PROVE doc'[j] \in {doc[j], "none"}
  <1>1. doc[j] \in {"done", "errored"} /\ (~Known(j) \/ (Held(j) /\ j \in stale))
    BY DEF Ended
  <1>2. CASE UNCHANGED doc
    BY <1>2
  <1>3. ASSUME NEW i \in Job, Create(i) PROVE doc'[j] \in {doc[j], "none"}
    <2>1. doc[i] = "none"
      BY <1>3 DEF Create, BrokerInv, PlaceRules, PlaceRule
    <2>2. doc'[j] = doc[j]
      BY <1>1, <1>3, <2>1 DEF Create, BrokerInv, JobInv, JobTypes
    <2>3. QED
      BY <2>2
  <1>4. ASSUME NEW i \in Job, CleanJob(i) \/ PurgeJob(i) PROVE doc'[j] \in {doc[j], "none"}
    BY <1>1, <1>4, AdminJobs DEF BrokerInv
  <1>5. ASSUME NEW g \in Worker, WorkerStep(g) PROVE doc'[j] \in {doc[j], "none"}
    <2>1. WorkerEffect(g)
      BY <1>5, WorkerJobs DEF BrokerInv
    <2>2. Holds(g, j) => Known(j)
      BY DEF Known, Held
    <2>3. Holds(g, j) => j \in stale /\ doc[j] # "none"
      BY <1>1, <2>2
    <2>4. QED
      BY <2>1, <2>3 DEF WorkerEffect
  <1>6. ASSUME NEW p \in Process, NEW i \in Job, PushJob(p, i) PROVE UNCHANGED doc
    BY <1>6 DEF PushJob
  <1>7. ASSUME NEW w \in Pool, LoopStep(w) PROVE UNCHANGED doc
    BY <1>7 DEF LoopStep, CheckRunning, BRPop, Pop, BRPopTimeout, Get, Send, Closed,
                workerVars, couch
  <1>8. ASSUME NEW p \in Process, ShutdownStep(p) PROVE UNCHANGED doc
    BY <1>8 DEF ShutdownStep, ShutdownWorkers, LoopsEnded, ShutdownExpires, ShutdownReturns,
                StopPool, PoolStopped, PoolExpires, StopWorker, Stopped, StopExpires,
                workerVars, couch
  <1>9. ASSUME NEW p \in Process, Crash(p) \/ Exit(p) PROVE UNCHANGED doc
    BY <1>9 DEF Crash, Exit, Restart, couch
  <1>10. CASE UNCHANGED vars
    BY <1>10 DEF vars, workerVars, couch
  <1>11. QED
    <2>1. CASE \E p \in Process, i \in Job : PushJob(p, i)
      BY <1>2, <1>6, <2>1
    <2>2. CASE \E i \in Job : Create(i) \/ LPush(i)
      <3>1. ASSUME NEW i \in Job, LPush(i) PROVE UNCHANGED doc
        BY <3>1 DEF LPush, couch
      <3>2. QED
        BY <1>2, <1>3, <2>2, <3>1
    <2>3. CASE \E i \in Job : (CleanJob(i) \/ PurgeJob(i)) /\ UNCHANGED redisVars
      BY <1>4, <2>3
    <2>4. CASE \E w \in Pool : LoopStep(w)
      BY <1>2, <1>7, <2>4
    <2>5. CASE \E g \in Worker : WorkerStep(g) /\ UNCHANGED redisVars
      BY <1>5, <2>5
    <2>6. CASE \E p \in Process : ShutdownStep(p) \/ Crash(p) \/ Exit(p)
      BY <1>2, <1>8, <1>9, <2>6
    <2>7. QED
      BY <1>2, <1>10, <2>1, <2>2, <2>3, <2>4, <2>5, <2>6 DEF Next

\* A job that ended keeps its final state: no late poll, retry or task writes
\* over it, nor over what an administrator said of a job that still runs.
THEOREM FinalStates == Spec => FinalStateKept
  <1>1. BrokerInv /\ [Next]_vars => [\A j \in Job : Ended(j) => doc'[j] \in {doc[j], "none"}]_vars
    BY StepKeepsEnd
  <1>2. QED
    BY <1>1, BrokerInvariant, PTL DEF Spec, FinalStateKept
=============================================================================
