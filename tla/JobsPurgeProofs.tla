--------------------------- MODULE JobsPurgeProofs --------------------------
(***************************************************************************)
(* GetAllJobs lists every job, and a purge deletes exactly what it must,   *)
(* for any number of jobs, any sizes of pages and chunks, and whatever is  *)
(* created, changed and deleted meanwhile.                                 *)
(*                                                                         *)
(* For the list, the keys increase up to the start key of the next page,   *)
(* and what did not change below it is listed.  For the purge, the jobs    *)
(* that GetLastsJobs returned are a witness: none of them is deleted, and  *)
(* the old ones that are not among them are deleted, changed or doomed.    *)
(***************************************************************************)
EXTENDS JobsPurge, FiniteSetTheorems, SequenceTheorems, TLAPS

Keys == {x[1] : x \in Listed}

PurgeTypes ==
    /\ used \subseteq Id /\ DOMAIN jobs \subseteq used /\ jobs \in [DOMAIN jobs -> JobDoc]
    /\ steady \subseteq used
    /\ startkey \in Nat /\ list \in Seq(Id \X JobDoc)
    /\ pc \in {"page", "choose", "delete", "done", "failed"}
    /\ doomed \subseteq Listed /\ gone \subseteq Keys
    /\ pc \in {"page", "choose"} => gone = {}
    /\ pc = "done" => doomed = {}

\* The keys of the list increase, and are before the next page.
Increasing ==
    /\ \A k, l \in DOMAIN list : k < l => list[k][1] < list[l][1]
    /\ pc = "page" => \A k \in DOMAIN list : list[k][1] < startkey

\* A job that nobody has touched is in the database, as it was listed.
SteadyJobs ==
    /\ steady \ gone \subseteq DOMAIN jobs
    /\ \A x \in Listed : x[1] \in steady \ gone => jobs[x[1]] = x[2]

\* The pages have listed all the jobs before their start key.
Covered ==
    /\ pc = "page" => \A i \in steady : i < startkey => i \in Keys
    /\ pc \in {"choose", "delete", "done"} => steady \ gone \subseteq Keys

\* What the deletions owe to the jobs that GetLastsJobs returned.
Spares(kept) ==
    /\ GetLastsJobs(kept)
    /\ \A x \in kept : x \notin doomed /\ x[1] \notin gone
    /\ \A x \in FilterJobsBeforeDate \ kept :
          x[2].kind \in Workers => x \in doomed \/ x[1] \in gone \/ x[1] \notin steady
OldOnly ==
    /\ \A x \in doomed : DateOf(x) < Before /\ x[2].kind \in Workers
    /\ \A i \in gone : \E x \in Listed : x[1] = i /\ DateOf(x) < Before /\ x[2].kind \in Workers
Kept == pc \in {"delete", "done"} \/ gone # {} => \E kept \in SUBSET Listed : Spares(kept)

PurgeInv == PurgeTypes /\ Increasing /\ SteadyJobs /\ Covered /\ OldOnly /\ Kept

-----------------------------------------------------------------------------
LEMMA Numbers ==
    /\ Id \subseteq Nat /\ PageSize \in Nat /\ PageSize > 1
    /\ MaxKept \in Nat /\ MaxKept > 0
  BY PurgeAssumption

LEMMA ListShape ==
    ASSUME list \in Seq(Id \X JobDoc)
    PROVE  /\ \A k \in DOMAIN list : k \in Nat /\ list[k] \in Id \X JobDoc /\ list[k] \in Listed
           /\ \A x \in Listed : x \in Id \X JobDoc /\ \E k \in DOMAIN list : x = list[k]
           /\ Len(list) \in Nat /\ DOMAIN list = 1 .. Len(list)
  BY DEF Listed

\* A key is listed once.
LEMMA OneRow ==
    ASSUME PurgeTypes, Increasing, NEW x \in Listed, NEW y \in Listed, x[1] = y[1]
    PROVE  x = y
  <1>1. PICK k \in DOMAIN list, l \in DOMAIN list : x = list[k] /\ y = list[l]
    BY ListShape DEF PurgeTypes
  <1>2. k \in Nat /\ l \in Nat /\ list[k][1] \in Nat /\ list[l][1] \in Nat
    BY ListShape, Numbers DEF PurgeTypes
  <1>3. ~(k < l) /\ ~(l < k)
    BY <1>1, <1>2 DEF Increasing
  <1>4. QED
    BY <1>1, <1>2, <1>3

LEMMA ListedFinite == ASSUME list \in Seq(Id \X JobDoc) PROVE IsFiniteSet(Listed)
  <1>1. IsFiniteSet(DOMAIN list)
    BY ListShape, FS_Interval
  <1>2. list \in Surjection(DOMAIN list, Listed)
    BY ListShape DEF Listed, Surjection
  <1>3. QED
    BY <1>1, <1>2, FS_Surjection

\* The deletions of others, and the changes of states.
LEMMA TouchInv ==
    ASSUME PurgeInv, NEW i, steady' = steady \ {i}, DOMAIN jobs' \subseteq used,
           jobs' \in [DOMAIN jobs' -> JobDoc], steady' \ gone \subseteq DOMAIN jobs', \A k \in steady' \ gone : jobs'[k] = jobs[k],
           UNCHANGED <<used, startkey, list, doomed, pc, gone>>
    PROVE  PurgeInv'
  <1>1. Listed' = Listed /\ Keys' = Keys
    BY DEF Listed, Keys
  <1>2. PurgeTypes' /\ Increasing'
    BY <1>1 DEF PurgeInv, PurgeTypes, Increasing
  <1>3. SteadyJobs'
    BY <1>1 DEF PurgeInv, SteadyJobs
  <1>4. Covered'
    BY <1>1 DEF PurgeInv, Covered
  <1>5. OldOnly'
    BY <1>1 DEF PurgeInv, OldOnly, DateOf
  <1>6. \A kept : Spares(kept) => Spares(kept)'
    <2>1. \A kept : GetLastsJobs(kept)' = GetLastsJobs(kept)
      BY <1>1 DEF GetLastsJobs, Filters, Candidates, DateOf
    <2>2. FilterJobsBeforeDate' = FilterJobsBeforeDate
      BY <1>1 DEF FilterJobsBeforeDate, DateOf
    <2>3. QED
      BY <2>1, <2>2 DEF Spares
  <1>7. Kept'
    BY <1>1, <1>6 DEF PurgeInv, Kept
  <1>8. QED
    BY <1>2, <1>3, <1>4, <1>5, <1>7 DEF PurgeInv

LEMMA UpdateInv == ASSUME PurgeInv, NEW i \in Id, UpdateJob(i) PROVE PurgeInv'
  <1>1. /\ jobs' = [jobs EXCEPT ![i] = [jobs[i] EXCEPT !.state = "done"]] /\ steady' = steady \ {i}
        /\ UNCHANGED <<used, startkey, list, doomed, pc, gone>>
    BY DEF UpdateJob
  <1>2. DOMAIN jobs' = DOMAIN jobs /\ \A k \in DOMAIN jobs : k # i => jobs'[k] = jobs[k]
    BY <1>1
  <1>3. jobs' \in [DOMAIN jobs' -> JobDoc]
    BY <1>1, <1>2 DEF PurgeInv, PurgeTypes, JobDoc, State
  <1>4. QED
    BY <1>1, <1>2, <1>3, TouchInv DEF PurgeInv, PurgeTypes, SteadyJobs

LEMMA DeleteInv == ASSUME PurgeInv, NEW i \in Id, DeleteJob(i) PROVE PurgeInv'
  <1>1. /\ jobs' = [k \in DOMAIN jobs \ {i} |-> jobs[k]] /\ steady' = steady \ {i}
        /\ UNCHANGED <<used, startkey, list, doomed, pc, gone>>
    BY DEF DeleteJob
  <1>2. DOMAIN jobs' = DOMAIN jobs \ {i} /\ \A k \in DOMAIN jobs : k # i => jobs'[k] = jobs[k]
    BY <1>1
  <1>3. QED
    BY <1>1, <1>2, TouchInv DEF PurgeInv, PurgeTypes, SteadyJobs

\* The steps that leave the list alone.
LEMMA SameList ==
    ASSUME list' = list
    PROVE  /\ Listed' = Listed /\ Keys' = Keys /\ FilterJobsBeforeDate' = FilterJobsBeforeDate
           /\ \A kept : GetLastsJobs(kept)' = GetLastsJobs(kept)
  <1>1. Listed' = Listed /\ Keys' = Keys
    BY DEF Listed, Keys
  <1>2. QED
    BY <1>1 DEF GetLastsJobs, Filters, Candidates, DateOf, FilterJobsBeforeDate

LEMMA CreateInv == ASSUME PurgeInv, NEW i \in Id, CreateJob(i) PROVE PurgeInv'
  <1>1. PICK d \in JobDoc : jobs' = [k \in DOMAIN jobs \cup {i} |-> IF k = i THEN d ELSE jobs[k]]
    BY DEF CreateJob
  <1>2. /\ i \notin used /\ used' = used \cup {i}
        /\ UNCHANGED <<startkey, list, doomed, pc, steady, gone>>
    BY DEF CreateJob
  <1>3. /\ Listed' = Listed /\ Keys' = Keys /\ FilterJobsBeforeDate' = FilterJobsBeforeDate
        /\ \A kept : GetLastsJobs(kept)' = GetLastsJobs(kept)
    BY <1>2, SameList
  <1>4. DOMAIN jobs' = DOMAIN jobs \cup {i} /\ \A k \in DOMAIN jobs : k # i => jobs'[k] = jobs[k]
    BY <1>1
  <1>5. PurgeTypes'
    BY <1>1, <1>2, <1>3, <1>4 DEF PurgeInv, PurgeTypes
  <1>6. Increasing' /\ Covered'
    BY <1>2, <1>3 DEF PurgeInv, Increasing, Covered
  <1>7. SteadyJobs'
    BY <1>2, <1>3, <1>4 DEF PurgeInv, PurgeTypes, SteadyJobs
  <1>8. OldOnly' /\ \A kept : Spares(kept)' = Spares(kept)
    BY <1>2, <1>3 DEF PurgeInv, OldOnly, DateOf, Spares
  <1>9. Kept'
    BY <1>2, <1>3, <1>8 DEF PurgeInv, Kept
  <1>10. QED
    BY <1>5, <1>6, <1>7, <1>8, <1>9 DEF PurgeInv

-----------------------------------------------------------------------------
(* A page.                                                                 *)

\* m rows are appended to the list.
Appends(rows, m) ==
    /\ Len(list') = Len(list) + m /\ DOMAIN list' = 1 .. Len(list) + m
    /\ \A k \in DOMAIN list : list'[k] = list[k]
    /\ \A k \in 1 .. m : list'[Len(list) + k] = <<rows[k], jobs[rows[k]]>>
    /\ list' \in Seq(Id \X JobDoc)

LEMMA AppendRows ==
    ASSUME PurgeTypes, NEW n \in Nat, NEW m \in 0 .. n,
           NEW rows \in [1 .. n -> DOMAIN jobs],
           NEW part, part = [k \in 1 .. m |-> rows[k]], list' = list \o Docs(part)
    PROVE  Appends(rows, m)
  <1>1. Docs(part) = [k \in 1 .. m |-> <<rows[k], jobs[rows[k]]>>]
    BY DEF Docs
  <1>2. \A k \in 1 .. m : <<rows[k], jobs[rows[k]]>> \in Id \X JobDoc
    BY DEF PurgeTypes
  <1>3. PICK new : new = Docs(part)
    OBVIOUS
  <1>4. m \in Nat /\ new \in [1 .. m -> Id \X JobDoc]
    BY <1>1, <1>2, <1>3
  <1>5. new \in Seq(Id \X JobDoc) /\ Len(new) = m
    BY <1>4
  <1>6. list \in Seq(Id \X JobDoc) /\ list' = list \o new
    BY <1>3 DEF PurgeTypes
  <1>7. /\ list' \in Seq(Id \X JobDoc) /\ Len(list') = Len(list) + Len(new)
        /\ \A k \in 1 .. Len(list) + Len(new) :
              list'[k] = IF k <= Len(list) THEN list[k] ELSE new[k - Len(list)]
    <2>1. PICK S : S = Id \X JobDoc
      OBVIOUS
    <2>2. list \in Seq(S) /\ new \in Seq(S)
      BY <1>5, <1>6, <2>1
    <2>3. /\ list \o new \in Seq(S) /\ Len(list \o new) = Len(list) + Len(new)
          /\ \A k \in 1 .. Len(list) + Len(new) :
                (list \o new)[k] = IF k <= Len(list) THEN list[k] ELSE new[k - Len(list)]
      BY <2>2, ConcatProperties, Zenon
    <2>4. QED
      BY <1>6, <2>1, <2>3, Zenon
  <1>8. /\ Len(list) \in Nat /\ DOMAIN list = 1 .. Len(list)
        /\ DOMAIN list' = 1 .. Len(list) + m
    BY <1>5, <1>6, <1>7, LenProperties
  <1>9. \A k \in DOMAIN list : list'[k] = list[k]
    BY <1>4, <1>5, <1>7, <1>8
  <1>10. \A k \in 1 .. m : list'[Len(list) + k] = new[k]
    <2>1. \A l \in Nat, k \in 1 .. m : l + k \in 1 .. l + m /\ ~(l + k <= l) /\ (l + k) - l = k
      BY <1>4
    <2>2. QED
      BY <1>5, <1>7, <1>8, <2>1
  <1>11. QED
    BY <1>1, <1>3, <1>5, <1>7, <1>8, <1>9, <1>10 DEF Appends

\* n rows are read and m of them are kept.
ReadsPage(rows, n, m) ==
    /\ \A k \in 1 .. n : rows[k] >= startkey
    /\ \A k, l \in 1 .. n : k < l => rows[k] < rows[l]
    /\ \A i \in DOMAIN jobs : i >= startkey =>
          (\E k \in 1 .. n : rows[k] = i) \/ (n = PageSize /\ \A k \in 1 .. n : rows[k] < i)
    /\ \/ n <= 1 /\ m = n /\ pc' = "choose" /\ startkey' = startkey
       \/ n > 1 /\ m = n - 1 /\ pc' = pc /\ startkey' = rows[n]

LEMMA PageShape ==
    ASSUME PurgeInv, Page, pc' # "failed" \/ list' # list \/ startkey' # startkey
    PROVE  \E n \in 0 .. PageSize : \E rows \in [1 .. n -> DOMAIN jobs], m \in 0 .. n :
               ReadsPage(rows, n, m) /\ Appends(rows, m)
  <1>1. PICK rows \in Pages :
            \/ /\ Len(rows) <= 1 /\ list' = list \o Docs(rows)
               /\ pc' = "choose" /\ startkey' = startkey
            \/ /\ Len(rows) > 1 /\ list' = list \o Docs(Front(rows))
               /\ startkey' = rows[Len(rows)] /\ pc' = pc
    BY DEF Page
  <1>2. PICK n \in 0 .. PageSize : rows \in [1 .. n -> {i \in DOMAIN jobs : i >= startkey}]
    BY <1>1 DEF Pages
  <1>3. FirstRows(rows)
    BY <1>1 DEF Pages
  <1>4. n \in Nat /\ Len(rows) = n /\ DOMAIN rows = 1 .. n /\ rows \in [1 .. n -> DOMAIN jobs]
    BY <1>2, Numbers
  <1>5. \A k \in 1 .. n : rows[k] >= startkey
    BY <1>2
  <1>6. CASE n <= 1 /\ list' = list \o Docs(rows) /\ pc' = "choose" /\ startkey' = startkey
    <2>1. rows = [k \in 1 .. n |-> rows[k]] /\ n \in 0 .. n
      BY <1>4
    <2>2. Appends(rows, n)
      BY <1>4, <1>6, <2>1, AppendRows DEF PurgeInv
    <2>3. ReadsPage(rows, n, n)
      BY <1>3, <1>4, <1>5, <1>6 DEF FirstRows, ReadsPage
    <2>4. QED
      BY <1>4, <2>1, <2>2, <2>3
  <1>7. CASE /\ n > 1 /\ list' = list \o Docs(Front(rows))
             /\ pc' = pc /\ startkey' = rows[n]
    <2>1. Front(rows) = [k \in 1 .. n - 1 |-> rows[k]] /\ n - 1 \in 0 .. n
      BY <1>4, <1>7 DEF Front
    <2>2. Appends(rows, n - 1)
      BY <1>4, <1>7, <2>1, AppendRows DEF PurgeInv
    <2>3. ReadsPage(rows, n, n - 1)
      BY <1>3, <1>4, <1>5, <1>7 DEF FirstRows, ReadsPage
    <2>4. QED
      BY <1>4, <2>1, <2>2, <2>3
  <1>8. QED
    BY <1>1, <1>4, <1>6, <1>7

LEMMA PageInv == ASSUME PurgeInv, Page PROVE PurgeInv'
  <1>1. pc = "page" /\ gone = {} /\ UNCHANGED <<jobs, used, doomed, steady, gone>>
    BY DEF Page, PurgeInv, PurgeTypes
  <1>2. CASE pc' = "failed" /\ list' = list /\ startkey' = startkey
    <2>1. Listed' = Listed /\ Keys' = Keys
      BY <1>2, SameList
    <2>2. PurgeTypes' /\ Increasing' /\ SteadyJobs' /\ Covered'
      BY <1>1, <1>2, <2>1 DEF PurgeInv, PurgeTypes, Increasing, SteadyJobs, Covered
    <2>3. OldOnly' /\ Kept'
      BY <1>1, <1>2, <2>1 DEF PurgeInv, OldOnly, DateOf, Kept
    <2>4. QED
      BY <2>2, <2>3 DEF PurgeInv
  <1>3. CASE ~(pc' = "failed" /\ list' = list /\ startkey' = startkey)
    <2>1. PICK n \in 0 .. PageSize : \E rows \in [1 .. n -> DOMAIN jobs], m \in 0 .. n :
              ReadsPage(rows, n, m) /\ Appends(rows, m)
      BY <1>3, PageShape
    <2>2. PICK rows \in [1 .. n -> DOMAIN jobs], m \in 0 .. n :
              ReadsPage(rows, n, m) /\ Appends(rows, m)
      BY <2>1
    <2>3. /\ n \in Nat /\ m \in Nat /\ m <= n /\ Len(list) \in Nat /\ DOMAIN list = 1 .. Len(list)
          /\ startkey \in Nat /\ \A k \in 1 .. n : rows[k] \in Nat /\ rows[k] \in Id
          /\ \A k \in DOMAIN list : list[k][1] \in Nat
      BY <2>2, Numbers, ListShape DEF PurgeInv, PurgeTypes
    <2>4. \A k \in DOMAIN list' : \/ k \in DOMAIN list /\ list'[k] = list[k]
                                  \/ \E l \in 1 .. m : /\ k = Len(list) + l
                                                       /\ list'[k] = <<rows[l], jobs[rows[l]]>>
      <3>1. TAKE k \in DOMAIN list'
      <3>2. CASE k \in DOMAIN list
        BY <2>2, <3>2 DEF Appends
      <3>3. CASE k \notin DOMAIN list
        <4>1. k \in 1 .. Len(list) + m
          BY <2>2, <3>1 DEF Appends
        <4>2. k - Len(list) \in 1 .. m /\ k = Len(list) + (k - Len(list))
          BY <2>3, <3>3, <4>1
        <4>3. list'[Len(list) + (k - Len(list))] = <<rows[k - Len(list)], jobs[rows[k - Len(list)]]>>
          BY <2>2, <4>2 DEF Appends
        <4>4. QED
          BY <4>2, <4>3
      <3>4. QED
        BY <3>2, <3>3
    <2>5. \A x : x \in Listed' <=> x \in Listed \/ \E l \in 1 .. m : x = <<rows[l], jobs[rows[l]]>>
      <3>1. \A k \in DOMAIN list : k \in DOMAIN list' /\ list'[k] = list[k]
        BY <2>2, <2>3 DEF Appends
      <3>2. \A l \in 1 .. m : /\ Len(list) + l \in DOMAIN list'
                              /\ list'[Len(list) + l] = <<rows[l], jobs[rows[l]]>>
        BY <2>2, <2>3 DEF Appends
      <3>3. ASSUME NEW x \in Listed'
            PROVE  x \in Listed \/ \E l \in 1 .. m : x = <<rows[l], jobs[rows[l]]>>
        <4>1. PICK k \in DOMAIN list' : x = list'[k]
          BY <3>3 DEF Listed
        <4>2. QED
          BY <2>4, <4>1 DEF Listed
      <3>4. Listed \subseteq Listed'
        BY <3>1 DEF Listed
      <3>5. \A l \in 1 .. m : <<rows[l], jobs[rows[l]]>> \in Listed'
        BY <3>2 DEF Listed
      <3>6. QED
        BY <3>3, <3>4, <3>5
    <2>6. Keys \subseteq Keys' /\ \A l \in 1 .. m : rows[l] \in Keys'
      <3>1. \A l \in 1 .. m : <<rows[l], jobs[rows[l]]>> \in Listed' /\ <<rows[l], jobs[rows[l]]>>[1] = rows[l]
        BY <2>5
      <3>2. QED
        BY <2>5, <3>1 DEF Keys
    <2>7. PurgeTypes'
      <3>1. startkey' \in Nat /\ list' \in Seq(Id \X JobDoc) /\ pc' \in {"page", "choose"}
        BY <1>1, <2>2, <2>3 DEF ReadsPage, Appends
      <3>2. QED
        BY <1>1, <2>5, <2>6, <3>1 DEF PurgeInv, PurgeTypes
    <2>8. Increasing'
      <3>1. \A k \in DOMAIN list : list[k][1] < startkey
        BY <1>1 DEF PurgeInv, Increasing
      <3>2. \A k \in 1 .. n : startkey <= rows[k]
        BY <2>2, <2>3 DEF ReadsPage
      <3>3. \A k, l \in DOMAIN list' : k < l => list'[k][1] < list'[l][1]
        <4>1. SUFFICES ASSUME NEW k \in DOMAIN list', NEW l \in DOMAIN list', k < l
                       PROVE  list'[k][1] < list'[l][1]
          OBVIOUS
        <4>2. CASE k \in DOMAIN list /\ l \in DOMAIN list
          BY <2>2, <4>1, <4>2 DEF Appends, PurgeInv, Increasing
        <4>3. CASE k \in DOMAIN list /\ l \notin DOMAIN list
          <5>1. PICK j \in 1 .. m : list'[l] = <<rows[j], jobs[rows[j]]>>
            BY <2>4, <4>3
          <5>2. list'[k][1] < startkey /\ startkey <= rows[j] /\ rows[j] \in Nat /\ list'[k][1] \in Nat
            BY <2>2, <2>3, <3>1, <3>2, <4>3 DEF Appends
          <5>3. list'[l][1] = rows[j]
            BY <5>1
          <5>4. QED
            BY <2>3, <5>2, <5>3
        <4>4. CASE k \notin DOMAIN list
          <5>1. PICK i \in 1 .. m : k = Len(list) + i /\ list'[k] = <<rows[i], jobs[rows[i]]>>
            BY <2>4, <4>4
          <5>2. l \notin DOMAIN list
            BY <2>2, <2>3, <4>1, <5>1 DEF Appends
          <5>3. PICK j \in 1 .. m : l = Len(list) + j /\ list'[l] = <<rows[j], jobs[rows[j]]>>
            BY <2>4, <5>2
          <5>4. i < j /\ i \in 1 .. n /\ j \in 1 .. n
            BY <2>3, <4>1, <5>1, <5>3
          <5>5. rows[i] < rows[j] /\ list'[k][1] = rows[i] /\ list'[l][1] = rows[j]
            BY <2>2, <5>1, <5>3, <5>4 DEF ReadsPage
          <5>6. QED
            BY <5>5
        <4>5. QED
          BY <4>2, <4>3, <4>4
      <3>4. ASSUME pc' = "page", NEW k \in DOMAIN list' PROVE list'[k][1] < startkey'
        <4>1. n > 1 /\ m = n - 1 /\ startkey' = rows[n] /\ n \in 1 .. n
          BY <2>2, <2>3, <3>4 DEF ReadsPage
        <4>2. CASE k \in DOMAIN list
          <5>1. list'[k][1] < startkey /\ list'[k][1] \in Nat /\ startkey <= rows[n]
            BY <2>2, <2>3, <3>1, <3>2, <4>1, <4>2 DEF Appends
          <5>2. QED
            BY <2>3, <4>1, <5>1
        <4>3. CASE k \notin DOMAIN list
          <5>1. PICK j \in 1 .. m : list'[k] = <<rows[j], jobs[rows[j]]>>
            BY <2>4, <4>3
          <5>2. j < n /\ j \in 1 .. n
            BY <2>3, <4>1
          <5>3. rows[j] < rows[n] /\ list'[k][1] = rows[j]
            BY <2>2, <4>1, <5>1, <5>2 DEF ReadsPage
          <5>4. QED
            BY <4>1, <5>3
        <4>4. QED
          BY <4>2, <4>3
      <3>5. QED
        BY <3>3, <3>4 DEF Increasing
    <2>9. SteadyJobs'
      BY <1>1, <2>5 DEF PurgeInv, SteadyJobs
    <2>10. Covered'
      <3>1. ASSUME NEW i \in steady, i < startkey' \/ pc' = "choose" PROVE i \in Keys'
        <4>1. i \in DOMAIN jobs /\ i \in Nat
          BY <1>1, <3>1, Numbers DEF PurgeInv, SteadyJobs, PurgeTypes
        <4>2. CASE i < startkey
          BY <1>1, <2>6, <4>2 DEF PurgeInv, Covered
        <4>3. CASE i >= startkey
          <5>1. PICK k \in 1 .. n : rows[k] = i
            <6>1. \/ \E k \in 1 .. n : rows[k] = i
                  \/ n = PageSize /\ \A k \in 1 .. n : rows[k] < i
              BY <2>2, <4>1, <4>3 DEF ReadsPage
            <6>2. CASE n <= 1
              BY <2>3, <6>1, <6>2, Numbers
            <6>3. CASE n > 1
              <7>1. startkey' = rows[n] /\ pc' = "page" /\ n \in 1 .. n
                BY <1>1, <2>2, <2>3, <6>3 DEF ReadsPage
              <7>2. i < rows[n] /\ rows[n] \in Nat
                BY <2>3, <3>1, <7>1
              <7>3. QED
                BY <4>1, <6>1, <7>1, <7>2
            <6>4. QED
              BY <2>3, <6>2, <6>3
          <5>2. k \in 1 .. m
            <6>1. CASE n <= 1
              BY <2>2, <2>3, <6>1 DEF ReadsPage
            <6>2. CASE n > 1
              <7>1. startkey' = rows[n] /\ pc' = "page" /\ m = n - 1
                BY <1>1, <2>2, <2>3, <6>2 DEF ReadsPage
              <7>2. i < rows[n]
                BY <3>1, <7>1
              <7>3. k # n
                BY <4>1, <5>1, <7>2
              <7>4. QED
                BY <2>3, <7>1, <7>3
            <6>3. QED
              BY <2>3, <6>1, <6>2
          <5>3. QED
            BY <2>6, <5>1, <5>2
        <4>4. QED
          BY <2>3, <4>1, <4>2, <4>3
      <3>2. pc' \in {"page", "choose"}
        BY <1>1, <2>2 DEF ReadsPage
      <3>3. QED
        BY <1>1, <3>1, <3>2 DEF Covered
    <2>11. OldOnly' /\ Kept'
      <3>1. pc' \in {"page", "choose"}
        BY <1>1, <2>2 DEF ReadsPage
      <3>2. QED
        BY <1>1, <3>1 DEF PurgeInv, OldOnly, DateOf, Kept
    <2>12. QED
      BY <2>7, <2>8, <2>9, <2>10, <2>11 DEF PurgeInv
  <1>4. QED
    BY <1>2, <1>3

-----------------------------------------------------------------------------
(* The choice and the deletions.                                           *)

LEMMA ChooseInv == ASSUME PurgeInv, Choose PROVE PurgeInv'
  <1>1. PICK kept \in SUBSET Listed :
            /\ GetLastsJobs(kept)
            /\ doomed' = {x \in FilterJobsBeforeDate \ kept : x[2].kind \in Workers}
    BY DEF Choose
  <1>2. /\ pc = "choose" /\ pc' = "delete" /\ gone = {}
        /\ UNCHANGED <<jobs, used, startkey, list, steady, gone>>
    BY DEF Choose, PurgeInv, PurgeTypes
  <1>3. /\ Listed' = Listed /\ Keys' = Keys /\ FilterJobsBeforeDate' = FilterJobsBeforeDate
        /\ \A k : GetLastsJobs(k)' = GetLastsJobs(k)
    BY <1>2, SameList
  <1>4. doomed' \subseteq Listed /\ \A x \in doomed' : DateOf(x) < Before /\ x[2].kind \in Workers
    BY <1>1 DEF FilterJobsBeforeDate
  <1>5. PurgeTypes'
    BY <1>2, <1>3, <1>4 DEF PurgeInv, PurgeTypes
  <1>6. Increasing' /\ SteadyJobs' /\ Covered'
    BY <1>2, <1>3 DEF PurgeInv, Increasing, SteadyJobs, Covered
  <1>7. OldOnly'
    BY <1>2, <1>4 DEF OldOnly, DateOf
  <1>8. Spares(kept)'
    BY <1>1, <1>2, <1>3 DEF Spares
  <1>9. Kept'
    BY <1>3, <1>8 DEF Kept
  <1>10. QED
    BY <1>5, <1>6, <1>7, <1>9 DEF PurgeInv

LEMMA ChunkInv ==
    ASSUME PurgeInv, pc = "delete", NEW chunk \in SUBSET doomed, Deletes(chunk),
           UNCHANGED <<used, startkey, list, steady, pc>>
    PROVE  PurgeInv'
  <1> DEFINE same == {y \in chunk : y[1] \in DOMAIN jobs /\ jobs[y[1]] = y[2]}
             hit == {x[1] : x \in same}
  <1>1. /\ jobs' = [i \in DOMAIN jobs \ hit |-> jobs[i]]
        /\ gone' = gone \cup hit /\ doomed' = doomed \ chunk
    BY DEF Deletes
  <1>2. DOMAIN jobs' = DOMAIN jobs \ hit /\ \A i \in DOMAIN jobs \ hit : jobs'[i] = jobs[i]
    BY <1>1
  <1>3. /\ chunk \subseteq Listed /\ doomed \subseteq Listed
        /\ \A i \in hit : \E x \in chunk : x[1] = i
        /\ \A x \in chunk : x[1] \in DOMAIN jobs /\ jobs[x[1]] = x[2] => x[1] \in hit
    BY DEF PurgeInv, PurgeTypes
  <1> HIDE DEF same, hit
  <1>4. /\ Listed' = Listed /\ Keys' = Keys /\ FilterJobsBeforeDate' = FilterJobsBeforeDate
        /\ \A k : GetLastsJobs(k)' = GetLastsJobs(k)
    BY SameList
  <1>5. hit \subseteq Keys
    BY <1>3 DEF Keys
  <1>6. PurgeTypes'
    BY <1>1, <1>2, <1>4, <1>5 DEF PurgeInv, PurgeTypes
  <1>7. Increasing' /\ Covered'
    BY <1>1, <1>4 DEF PurgeInv, Increasing, Covered
  <1>8. SteadyJobs'
    BY <1>1, <1>2, <1>4 DEF PurgeInv, SteadyJobs
  <1>9. OldOnly'
    BY <1>1, <1>3, <1>4 DEF PurgeInv, OldOnly, DateOf
  <1>10. PICK kept \in SUBSET Listed : Spares(kept)
    BY DEF PurgeInv, Kept
  <1>11. ASSUME NEW x \in kept PROVE x \notin doomed' /\ x[1] \notin gone'
    <2>1. x \notin doomed /\ x[1] \notin gone /\ x \in Listed
      BY <1>10, <1>11 DEF Spares
    <2>2. ASSUME x[1] \in hit PROVE FALSE
      <3>1. PICK y \in chunk : y[1] = x[1]
        BY <1>3, <2>2
      <3>2. y = x
        BY <1>3, <2>1, <3>1, OneRow DEF PurgeInv
      <3>3. QED
        BY <2>1, <3>1, <3>2
    <2>3. QED
      BY <1>1, <2>1, <2>2
  <1>12. ASSUME NEW x \in FilterJobsBeforeDate \ kept, x[2].kind \in Workers
         PROVE  x \in doomed' \/ x[1] \in gone' \/ x[1] \notin steady
    <2>1. x \in doomed \/ x[1] \in gone \/ x[1] \notin steady
      BY <1>10, <1>12 DEF Spares
    <2>2. x \in Listed
      BY <1>12 DEF FilterJobsBeforeDate
    <2>3. ASSUME x \in chunk, x[1] \in steady, x[1] \notin gone PROVE x[1] \in hit
      BY <1>3, <2>2, <2>3 DEF PurgeInv, SteadyJobs
    <2>4. QED
      BY <1>1, <2>1, <2>3
  <1>13. Spares(kept)'
    BY <1>4, <1>10, <1>11, <1>12 DEF Spares
  <1>14. Kept'
    BY <1>4, <1>13 DEF Kept
  <1>15. QED
    BY <1>6, <1>7, <1>8, <1>9, <1>14 DEF PurgeInv

LEMMA DeleteChunkInv == ASSUME PurgeInv, DeleteChunk PROVE PurgeInv'
  <1>1. pc = "delete" /\ UNCHANGED <<used, startkey, list, steady>>
    BY DEF DeleteChunk
  <1>2. CASE \E chunk \in SUBSET doomed : Deletes(chunk) /\ UNCHANGED pc
    BY <1>1, <1>2, ChunkInv
  <1>3. CASE /\ (doomed = {} /\ pc' = "done") \/ pc' = "failed"
             /\ UNCHANGED <<jobs, doomed, gone>>
    <2>1. /\ Listed' = Listed /\ Keys' = Keys /\ FilterJobsBeforeDate' = FilterJobsBeforeDate
          /\ \A k : GetLastsJobs(k)' = GetLastsJobs(k)
      BY <1>1, SameList
    <2>2. PurgeTypes' /\ Increasing' /\ SteadyJobs' /\ Covered'
      BY <1>1, <1>3, <2>1 DEF PurgeInv, PurgeTypes, Increasing, SteadyJobs, Covered
    <2>3. OldOnly' /\ \A k : Spares(k)' = Spares(k)
      BY <1>1, <1>3, <2>1 DEF PurgeInv, OldOnly, DateOf, Spares
    <2>4. Kept'
      BY <1>1, <2>1, <2>3 DEF PurgeInv, Kept
    <2>5. QED
      BY <2>2, <2>3, <2>4 DEF PurgeInv
  <1>4. QED
    BY <1>2, <1>3 DEF DeleteChunk

-----------------------------------------------------------------------------
LEMMA InitInv == ASSUME Init PROVE PurgeInv
  <1>1. list = <<>> /\ DOMAIN list = {} /\ list \in Seq(Id \X JobDoc)
    BY DEF Init
  <1>2. Listed = {} /\ Keys = {}
    BY <1>1 DEF Listed, Keys
  <1>3. DOMAIN jobs = used /\ jobs \in [used -> JobDoc]
    BY DEF Init
  <1>4. PurgeTypes
    BY <1>1, <1>2, <1>3 DEF Init, PurgeTypes
  <1>5. Increasing /\ SteadyJobs /\ OldOnly /\ Kept
    BY <1>1, <1>2, <1>3 DEF Init, Increasing, SteadyJobs, OldOnly, Kept
  <1>6. Covered
    BY Numbers DEF Init, Covered
  <1>7. QED
    BY <1>4, <1>5, <1>6 DEF PurgeInv

LEMMA StutterInv == ASSUME PurgeInv, UNCHANGED vars PROVE PurgeInv'
  <1>1. UNCHANGED <<jobs, used, startkey, list, doomed, pc, steady, gone>>
    BY DEF vars
  <1>2. /\ Listed' = Listed /\ Keys' = Keys /\ FilterJobsBeforeDate' = FilterJobsBeforeDate
        /\ \A k : GetLastsJobs(k)' = GetLastsJobs(k)
    BY <1>1, SameList
  <1>3. PurgeTypes' /\ Increasing' /\ SteadyJobs' /\ Covered'
    BY <1>1, <1>2 DEF PurgeInv, PurgeTypes, Increasing, SteadyJobs, Covered
  <1>4. OldOnly' /\ \A k : Spares(k)' = Spares(k)
    BY <1>1, <1>2 DEF PurgeInv, OldOnly, DateOf, Spares
  <1>5. Kept'
    BY <1>1, <1>2, <1>4 DEF PurgeInv, Kept
  <1>6. QED
    BY <1>3, <1>4, <1>5 DEF PurgeInv

\* PurgeInv is inductive, so it is an invariant of a purge.
THEOREM PurgeInvariant == Spec => []PurgeInv
  <1>1. PurgeInv /\ [Next]_vars => PurgeInv'
    <2> SUFFICES ASSUME PurgeInv, [Next]_vars PROVE PurgeInv'
      OBVIOUS
    <2>1. QED
      BY StutterInv, CreateInv, UpdateInv, DeleteInv, PageInv, ChooseInv, DeleteChunkInv DEF Next
  <1>2. Init => PurgeInv
    BY InitInv
  <1>3. QED
    BY <1>1, <1>2, PTL DEF Spec

LEMMA InvLists == ASSUME PurgeInv PROVE ListComplete
  <1>1. ASSUME NEW k \in DOMAIN list, NEW l \in DOMAIN list, list[k][1] = list[l][1] PROVE k = l
    <2>1. k \in Nat /\ l \in Nat /\ list[k][1] \in Nat
      BY ListShape, Numbers DEF PurgeInv, PurgeTypes
    <2>2. ~(k < l) /\ ~(l < k)
      BY <1>1, <2>1 DEF PurgeInv, Increasing
    <2>3. QED
      BY <2>1, <2>2
  <1>2. ASSUME NEW i \in Keys PROVE \E k \in DOMAIN list : list[k][1] = i
    BY <1>2, ListShape DEF Keys, PurgeInv, PurgeTypes
  <1>3. QED
    BY <1>1, <1>2 DEF ListComplete, PurgeInv, Covered

\* GetAllJobs lists no job twice, and every job that was there and did not change,
\* whatever is created, updated and deleted between two pages.
THEOREM JobsAllListed == Spec => []ListComplete
  <1>1. PurgeInv => ListComplete
    BY InvLists
  <1>2. QED
    BY <1>1, PurgeInvariant, PTL

\* The limits of a type and a state, from the jobs that GetLastsJobs returned.
LEMMA Limits ==
    ASSUME PurgeInv, NEW w \in Workers, NEW s \in State, NEW kept \in SUBSET Listed, Spares(kept)
    PROVE  LET all == Candidates(w, s)
               left == {x \in all : x[1] \notin gone}
               old == {x \in left : DateOf(x) < Before /\ x[1] \in steady}
           IN  /\ left = all \/ Cardinality(left) >= MaxKept
               /\ pc = "done" => Cardinality(old) <= MaxKept
  <1> DEFINE all == Candidates(w, s)
             left == {x \in all : x[1] \notin gone}
             old == {x \in left : DateOf(x) < Before /\ x[1] \in steady}
             mine == kept \cap all
  <1>1. /\ mine \subseteq left /\ left \subseteq all /\ old \subseteq left
        /\ mine \subseteq all /\ all \subseteq Listed
    BY DEF Candidates, Spares
  <1>2. IsFiniteSet(all)
    BY <1>1, ListedFinite, FS_Subset DEF PurgeInv, PurgeTypes
  <1>3. /\ IsFiniteSet(left) /\ IsFiniteSet(mine) /\ Cardinality(all) \in Nat
        /\ Cardinality(mine) \in Nat /\ Cardinality(left) \in Nat
    BY <1>1, <1>2, FS_Subset, FS_CardinalityType
  <1>4. Cardinality(mine) = IF Cardinality(all) < MaxKept THEN Cardinality(all) ELSE MaxKept
    BY DEF Spares, GetLastsJobs, Filters
  <1>5. pc = "done" => old \subseteq mine
    <2>1. SUFFICES ASSUME pc = "done", NEW x \in old PROVE x \in kept
      BY <1>1
    <2>2. /\ x \in FilterJobsBeforeDate /\ x[2].kind \in Workers /\ doomed = {}
          /\ x[1] \notin gone /\ x[1] \in steady
      BY <2>1 DEF Candidates, FilterJobsBeforeDate, PurgeInv, PurgeTypes
    <2>3. QED
      BY <2>2 DEF Spares
  <1> HIDE DEF all, left, old, mine
  <1>6. left = all \/ Cardinality(left) >= MaxKept
    <2>1. CASE Cardinality(all) < MaxKept
      <3>1. mine = all
        BY <1>1, <1>2, <1>4, <2>1, FS_Subset
      <3>2. QED
        BY <1>1, <3>1
    <2>2. CASE ~(Cardinality(all) < MaxKept)
      <3>1. Cardinality(mine) <= Cardinality(left)
        BY <1>1, <1>3, FS_Subset
      <3>2. QED
        BY <1>4, <2>2, <3>1
    <2>3. QED
      BY <2>1, <2>2
  <1>7. pc = "done" => Cardinality(old) <= MaxKept
    <2>1. ASSUME pc = "done" PROVE Cardinality(old) <= Cardinality(mine) /\ Cardinality(old) \in Nat
      BY <1>3, <1>5, <2>1, FS_Subset, FS_CardinalityType
    <2>2. Cardinality(mine) <= MaxKept
      BY <1>3, <1>4, Numbers
    <2>3. QED
      BY <1>3, <2>1, <2>2, Numbers
  <1>8. QED
    BY <1>6, <1>7 DEF all, left, old

LEMMA InvPurges == ASSUME PurgeInv PROVE PurgeExact
  <1>1. ASSUME NEW i \in gone
        PROVE  \E k \in DOMAIN list :
                   list[k][1] = i /\ list[k][2].date < Before /\ list[k][2].kind \in Workers
    BY <1>1, ListShape DEF PurgeInv, OldOnly, DateOf, PurgeTypes
  <1>2. ASSUME NEW w \in Workers, NEW s \in State
        PROVE  LET all == Candidates(w, s)
                   left == {x \in all : x[1] \notin gone}
                   old == {x \in left : DateOf(x) < Before /\ x[1] \in steady}
               IN  /\ left = all \/ Cardinality(left) >= MaxKept
                   /\ pc = "done" => Cardinality(old) <= MaxKept
    <2>1. CASE pc = "done" \/ gone # {}
      BY <2>1, Limits DEF PurgeInv, Kept
    <2>2. CASE pc # "done" /\ gone = {}
      BY <2>2
    <2>3. QED
      BY <2>1, <2>2
  <1>3. QED
    BY <1>1, <1>2 DEF PurgeExact

\* A purge deletes only old jobs of the workers of the request, keeps MaxKept jobs of
\* each type and state, or all of them, and leaves no more old ones when it succeeds.
THEOREM PurgesExactly == Spec => []PurgeExact
  <1>1. PurgeInv => PurgeExact
    BY InvPurges
  <1>2. QED
    BY <1>1, PurgeInvariant, PTL
=============================================================================
