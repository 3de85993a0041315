----------------------------- MODULE JobsPurge ------------------------------
(***************************************************************************)
(* The purge of the old jobs of an instance: purgeJobs (web/jobs/jobs.go)  *)
(* with GetAllJobs, FilterJobsBeforeDate and GetLastsJobs                  *)
(* (model/job/broker.go).                                                  *)
(*                                                                         *)
(* The jobs are listed page by page, the start key of a page being the     *)
(* last job of the previous one, while other requests and workers create,  *)
(* update and delete jobs.  What has to go is computed from the list, and  *)
(* deleted by chunks with the revisions of the list.                       *)
(***************************************************************************)
EXTENDS Integers, FiniteSets, Sequences, SequencesExt

CONSTANTS
    Id,          \* identifiers of jobs: numbers, ordered like CouchDB's keys
    Date,        \* the dates of queuing
    Kind,        \* the worker types
    PageSize,    \* 10001 in GetAllJobs
    MaxKept,     \* defaultMaxLimits: 50 for each state
    ChunkSize,   \* 1000 in purgeJobs
    Before,      \* the date before which jobs are old
    Workers      \* the worker types of the request

ASSUME PurgeAssumption ==
    /\ Id \subseteq Nat /\ IsFiniteSet(Id) /\ Date \subseteq Nat
    /\ PageSize \in Nat \ {0, 1} /\ MaxKept \in Nat \ {0} /\ ChunkSize \in Nat \ {0}
    /\ Before \in Nat /\ Workers \subseteq Kind

State == {"queued", "done"}   \* two of the four states, which are treated alike
JobDoc == [date: Date, state: State, kind: Kind]

VARIABLES
    jobs,      \* the database of the jobs: identifier -> document
    used,      \* the identifiers already given
    startkey,  \* of the next page, 0 for the empty one
    list,      \* finalJobs: sequence of <<identifier, document>>
    doomed,    \* elements of the list still to delete
    pc,        \* what the request does next
    steady,    \* history: the jobs of the first page, or later, not touched since
    gone       \* history: the jobs deleted by this purge

vars == <<jobs, used, startkey, list, doomed, pc, steady, gone>>

Init ==
    /\ used \in SUBSET Id
    /\ jobs \in [used -> JobDoc]
    /\ startkey = 0 /\ list = <<>> /\ doomed = {} /\ pc = "page"
    /\ steady = used /\ gone = {}

-----------------------------------------------------------------------------
(* What happens meanwhile.                                                 *)

CreateJob(i) ==
    /\ i \notin used
    /\ used' = used \cup {i}
    /\ \E d \in JobDoc : jobs' = [k \in DOMAIN jobs \cup {i} |-> IF k = i THEN d ELSE jobs[k]]
    /\ UNCHANGED <<startkey, list, doomed, pc, steady, gone>>

\* A worker changes the state of a job, which gets a new revision.
UpdateJob(i) ==
    /\ i \in DOMAIN jobs /\ jobs[i].state = "queued"
    /\ jobs' = [jobs EXCEPT ![i].state = "done"]
    /\ steady' = steady \ {i}
    /\ UNCHANGED <<used, startkey, list, doomed, pc, gone>>

\* Another request deletes the job.
DeleteJob(i) ==
    /\ i \in DOMAIN jobs
    /\ jobs' = [k \in DOMAIN jobs \ {i} |-> jobs[k]]
    /\ steady' = steady \ {i}
    /\ UNCHANGED <<used, startkey, list, doomed, pc, gone>>

-----------------------------------------------------------------------------
(* GetAllJobs.                                                             *)

\* The first PageSize rows of _all_docs from the start key, in the order of the keys.
FirstRows(rows) ==
    /\ \A k, l \in DOMAIN rows : k < l => rows[k] < rows[l]
    /\ \A i \in DOMAIN jobs : i >= startkey =>
          \/ \E k \in DOMAIN rows : rows[k] = i
          \/ Len(rows) = PageSize /\ \A k \in DOMAIN rows : rows[k] < i
Pages ==
    {rows \in UNION {[1 .. n -> {i \in DOMAIN jobs : i >= startkey}] : n \in 0 .. PageSize} :
        FirstRows(rows)}
Docs(rows) == [k \in DOMAIN rows |-> <<rows[k], jobs[rows[k]]>>]

\* Mutant of Page: the last job of a page is kept, and is also the first one of
\* the next page.
PageOverlaps ==
    /\ pc = "page"
    /\ \E rows \in Pages :
          /\ list' = list \o Docs(rows)
          /\ IF Len(rows) <= 1 THEN pc' = "choose" /\ UNCHANGED startkey
             ELSE startkey' = rows[Len(rows)] /\ UNCHANGED pc
    /\ UNCHANGED <<jobs, used, doomed, steady, gone>>

\* One request, unless CouchDB fails; the last job of a page waits for the next
\* page, where it is the first.
Page ==
    /\ pc = "page"
    /\ \/ \E rows \in Pages :
             \/ /\ Len(rows) <= 1
                /\ list' = list \o Docs(rows)
                /\ pc' = "choose" /\ UNCHANGED startkey
             \/ /\ Len(rows) > 1
                /\ list' = list \o Docs(Front(rows))
                /\ startkey' = rows[Len(rows)]
                /\ UNCHANGED pc
       \/ pc' = "failed" /\ UNCHANGED <<startkey, list>>
    /\ UNCHANGED <<jobs, used, doomed, steady, gone>>

-----------------------------------------------------------------------------
(* purgeJobs.                                                              *)

Listed == {list[k] : k \in DOMAIN list}
DateOf(x) == x[2].date

FilterJobsBeforeDate == {x \in Listed : DateOf(x) < Before}

\* GetLastsJobs and FilterByWorkerAndState: the jobs of a type in a state are
\* sorted by date, the oldest first, and the first MaxKept ones are returned;
\* jobs with the same date are in any order.
Candidates(w, s) == {x \in Listed : x[2].kind = w /\ x[2].state = s}

\* Mutant of Filters: the limit is for the jobs that are left out.
FiltersRest(kept, w, s) ==
    LET all == Candidates(w, s) IN
    /\ kept \subseteq all
    /\ Cardinality(all \ kept) = IF Cardinality(all) < MaxKept THEN Cardinality(all) ELSE MaxKept
    /\ \A x \in kept, y \in all \ kept : DateOf(x) <= DateOf(y)

Filters(kept, w, s) ==
    LET all == Candidates(w, s) IN
    /\ kept \subseteq all
    /\ Cardinality(kept) = IF Cardinality(all) < MaxKept THEN Cardinality(all) ELSE MaxKept
    /\ \A x \in kept, y \in all \ kept : DateOf(x) <= DateOf(y)

GetLastsJobs(kept) ==
    /\ kept \subseteq {x \in Listed : x[2].kind \in Workers}
    /\ \A w \in Workers, s \in State : Filters(kept \cap Candidates(w, s), w, s)

Choose ==
    /\ pc = "choose"
    /\ \E kept \in SUBSET Listed :
         /\ GetLastsJobs(kept)
         /\ doomed' = {x \in FilterJobsBeforeDate \ kept : x[2].kind \in Workers}
    /\ pc' = "delete"
    /\ UNCHANGED <<jobs, used, startkey, list, steady, gone>>

\* BulkDeleteDocs: a document that has another revision is left alone.
Deletes(chunk) ==
    LET hit == {x[1] : x \in {y \in chunk : y[1] \in DOMAIN jobs /\ jobs[y[1]] = y[2]}} IN
    /\ jobs' = [i \in DOMAIN jobs \ hit |-> jobs[i]]
    /\ gone' = gone \cup hit
    /\ doomed' = doomed \ chunk

\* One chunk; the request ends after the last one, or when CouchDB fails.
DeleteChunk ==
    /\ pc = "delete"
    /\ \/ /\ doomed # {}
          /\ \E chunk \in SUBSET doomed :
               /\ Cardinality(chunk) = IF Cardinality(doomed) < ChunkSize
                                       THEN Cardinality(doomed) ELSE ChunkSize
               /\ Deletes(chunk)
          /\ UNCHANGED pc
       \/ doomed = {} /\ pc' = "done" /\ UNCHANGED <<jobs, doomed, gone>>
       \/ pc' = "failed" /\ UNCHANGED <<jobs, doomed, gone>>
    /\ UNCHANGED <<used, startkey, list, steady>>

Next ==
    \/ \E i \in Id : CreateJob(i) \/ UpdateJob(i) \/ DeleteJob(i)
    \/ Page \/ Choose \/ DeleteChunk

Spec == Init /\ [][Next]_vars

-----------------------------------------------------------------------------
(* Properties.                                                             *)

\* Whatever is created, updated and deleted between two pages, GetAllJobs lists
\* no job twice, and lists every job that was there and did not change.
ListComplete ==
    /\ \A k, l \in DOMAIN list : list[k][1] = list[l][1] => k = l
    /\ pc \in {"choose", "delete", "done"} =>
          \A i \in steady \ gone : \E k \in DOMAIN list : list[k][1] = i

\* What a purge deletes: only jobs that it has listed as old and of a worker of
\* the request, whatever is created and changed meanwhile; `We also want to keep a
\* minimum number of jobs for each state`: of the jobs of a type in a state, MaxKept
\* survive, or all of them; and if it succeeds, at most MaxKept of the old ones do,
\* among the ones that did not change.
PurgeExact ==
    /\ \A i \in gone : \E k \in DOMAIN list :
          list[k][1] = i /\ list[k][2].date < Before /\ list[k][2].kind \in Workers
    /\ \A w \in Workers, s \in State :
          LET all == Candidates(w, s)
              left == {x \in all : x[1] \notin gone}
              old == {x \in left : DateOf(x) < Before /\ x[1] \in steady}
          IN  /\ left = all \/ Cardinality(left) >= MaxKept
              /\ pc = "done" => Cardinality(old) <= MaxKept
=============================================================================
