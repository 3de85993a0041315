-------------------------- MODULE ReplicationProofs -------------------------
(***************************************************************************)
(* No change of a reference is forgotten by the share-replicate workers,   *)
(* for any number of recipients, retries, changes and failures.            *)
(*                                                                         *)
(* NoChangeForgotten is not inductive alone: the end of a replication that *)
(* went well may leave a target behind, when the reference has changed     *)
(* after it was read.  The job of that change must then still be waiting,  *)
(* because only one job of the sharing runs at a time.                     *)
(***************************************************************************)
EXTENDS Replication, TLAPS

RepStates == {"idle", "read", "sent", "applying", "ok", "failed"}

RepShape(r) ==
    /\ DOMAIN r = {"st", "msg", "fresh"}
    /\ r.st \in RepStates /\ r.fresh \in BOOLEAN

\* The types that the argument needs; a job counts less than MaxRetries errors.
JobTypes ==
    /\ behind \in [Member -> SUBSET Member] /\ \A m \in Member : behind[m] \subseteq Targets(m)
    /\ jobs \in [Member -> SUBSET (0 .. MaxRetries - 1)]
    /\ run \in [Member -> (0 .. MaxRetries - 1) \cup {None}]
    /\ dropped \in [Member -> BOOLEAN]
RepTypes ==
    /\ DOMAIN rep = Member
    /\ \A m \in Member : DOMAIN rep[m] = Targets(m) /\ \A n \in Targets(m) : RepShape(rep[m][n])
SaveTypes ==
    /\ DOMAIN save = Member
    /\ \A n \in Member : save[n] # None => save[n].from \in Member /\ n \in Targets(save[n].from)

\* ReplicateTo is only called by a running job.
RunIdle == \A m \in Member : run[m] = None => \A n \in Targets(m) : rep[m][n].st = "idle"

\* The change that makes a reference stale has pushed a job, which waits for the
\* end of the running one.
StaleHasJob ==
    \A m \in Member : \A n \in Targets(m) :
        rep[m][n].st \in {"sent", "applying", "ok"} /\ ~rep[m][n].fresh => jobs[m] # {}

RepInv == JobTypes /\ RepTypes /\ SaveTypes /\ RunIdle /\ StaleHasJob /\ NoChangeForgotten

-----------------------------------------------------------------------------
LEMMA TargetMembers == \A m \in Member : Targets(m) \subseteq Member /\ m \notin Targets(m)
  BY ReplicationAssumption DEF Targets, Member

LEMMA Retries == 0 \in 0 .. MaxRetries - 1 /\ None \notin 0 .. MaxRetries - 1 /\ MaxRetries \in Nat
  BY ReplicationAssumption

LEMMA IdleShape ==
    /\ RepShape(Idle) /\ Idle.st = "idle"
    /\ RepShape([Idle EXCEPT !.st = "read"]) /\ [Idle EXCEPT !.st = "read"].st = "read"
    /\ RepShape([Idle EXCEPT !.st = "failed"]) /\ [Idle EXCEPT !.st = "failed"].st = "failed"
  BY DEF Idle, RepShape, RepStates

\* The answers of the targets, when a reference gets stale.
LEMMA StaleShape ==
    ASSUME NEW r, \A n \in DOMAIN r : RepShape(r[n])
    PROVE  /\ DOMAIN Stale(r) = DOMAIN r
           /\ \A n \in DOMAIN r : RepShape(Stale(r)[n]) /\ Stale(r)[n].st = r[n].st
  BY DEF Stale, RepShape

\* One answer changes.
Answers(m, n, x) == rep' = [rep EXCEPT ![m] = [rep[m] EXCEPT ![n] = x]]

LEMMA OneAnswer ==
    ASSUME RepTypes, NEW m \in Member, NEW n \in Targets(m), NEW x, RepShape(x), Answers(m, n, x)
    PROVE  /\ RepTypes' /\ rep'[m][n] = x
           /\ \A k \in Member : \A l \in Targets(k) : k # m \/ l # n => rep'[k][l] = rep[k][l]
  <1>1. /\ DOMAIN rep' = Member /\ rep'[m] = [rep[m] EXCEPT ![n] = x]
        /\ \A k \in Member : k # m => rep'[k] = rep[k]
    BY DEF RepTypes, Answers
  <1>2. DOMAIN rep'[m] = Targets(m) /\ rep'[m][n] = x /\ \A l \in Targets(m) : l # n => rep'[m][l] = rep[m][l]
    BY <1>1 DEF RepTypes
  <1>3. QED
    BY <1>1, <1>2 DEF RepTypes

\* A step that changes the answer of one target, and no job.
LEMMA AnswerInv ==
    ASSUME RepInv, NEW m \in Member, NEW n \in Targets(m), NEW x, RepShape(x), Answers(m, n, x),
           rep[m][n].st # "idle",
           x.st \in {"sent", "applying", "ok"} /\ ~x.fresh => jobs[m] # {},
           UNCHANGED <<behind, jobs, run, dropped>>, SaveTypes'
    PROVE  RepInv'
  <1>1. /\ RepTypes' /\ rep'[m][n] = x
        /\ \A k \in Member : \A l \in Targets(k) : k # m \/ l # n => rep'[k][l] = rep[k][l]
    <2>1. RepTypes
      BY DEF RepInv
    <2>2. QED
      BY <2>1, OneAnswer, Zenon
  <1>2. run[m] # None
    BY DEF RepInv, RunIdle
  <1>3. JobTypes' /\ NoChangeForgotten'
    BY DEF RepInv, JobTypes, NoChangeForgotten
  <1>4. RunIdle'
    BY <1>1, <1>2 DEF RepInv, RunIdle
  <1>5. StaleHasJob'
    BY <1>1 DEF RepInv, StaleHasJob
  <1>6. QED
    BY <1>1, <1>3, <1>4, <1>5 DEF RepInv

\* A write of the reference of m: whatever its targets have answered, a job waits.
LEMMA WriteInv ==
    ASSUME RepInv, NEW m \in Member, NEW new, WriteRef(m, new), UNCHANGED run,
           dropped' \in [Member -> BOOLEAN], \A k \in Member : dropped[k] => dropped'[k],
           SaveTypes', RepTypes',
           \A k \in Member : \A n \in Targets(k) :
               /\ rep'[k][n].st = rep[k][n].st \/ (rep[k][n].st = "applying" /\ rep'[k][n].st = "ok")
               /\ k # m => rep'[k][n].fresh = rep[k][n].fresh
    PROVE  RepInv'
  <1>1. /\ behind' = [behind EXCEPT ![m] = Targets(m)]
        /\ jobs' = [jobs EXCEPT ![m] = jobs[m] \cup {0}]
    BY DEF WriteRef
  <1>2. /\ jobs'[m] # {} /\ behind'[m] = Targets(m)
        /\ \A k \in Member : k # m => jobs'[k] = jobs[k] /\ behind'[k] = behind[k]
    BY <1>1 DEF RepInv, JobTypes
  <1>3. JobTypes'
    BY <1>1, <1>2, TargetMembers, Retries DEF RepInv, JobTypes
  <1>4. NoChangeForgotten'
    BY <1>2 DEF RepInv, NoChangeForgotten
  <1>5. RunIdle'
    BY DEF RepInv, RunIdle
  <1>6. StaleHasJob'
    BY <1>2 DEF RepInv, StaleHasJob
  <1>7. QED
    BY <1>3, <1>4, <1>5, <1>6 DEF RepInv

\* The steps of the users and of the share-track worker that leave the jobs alone.
LEMMA QuietInv ==
    ASSUME RepInv, UNCHANGED <<save, behind, jobs, run, rep>>,
           dropped' \in [Member -> BOOLEAN], \A k \in Member : dropped[k] => dropped'[k]
    PROVE  RepInv'
  BY DEF RepInv, JobTypes, RepTypes, SaveTypes, RunIdle, StaleHasJob, NoChangeForgotten

-----------------------------------------------------------------------------
(* The actions.                                                            *)

LEMMA RetriedDrops ==
    ASSUME RepInv, NEW m \in Member, NEW evt, Retried(m, evt)
    PROVE  dropped' \in [Member -> BOOLEAN] /\ \A k \in Member : dropped[k] => dropped'[k]
  <1>1. PICK b \in BOOLEAN : dropped' = [dropped EXCEPT ![m] = dropped[m] \/ b]
    BY DEF Retried
  <1>2. QED
    BY <1>1 DEF RepInv, JobTypes

LEMMA TrackInv == ASSUME RepInv, NEW m \in Member, Track(m) PROVE RepInv'
  <1>1. dropped \in [Member -> BOOLEAN]
    BY DEF RepInv, JobTypes
  <1>2. CASE TrackWrites(m)
    <2>1. /\ WriteRef(m, track[m].new) /\ UNCHANGED <<run, dropped>>
          /\ rep' = [rep EXCEPT ![m] = Stale(rep[m])]
          /\ save' = [save EXCEPT ![m] = IF save[m] = None THEN None
                                         ELSE [save[m] EXCEPT !.fresh = FALSE]]
      BY <1>2 DEF TrackWrites
    <2>2. SaveTypes'
      BY <2>1 DEF RepInv, SaveTypes
    <2>3. /\ DOMAIN rep' = Member /\ rep'[m] = Stale(rep[m])
          /\ \A k \in Member : k # m => rep'[k] = rep[k]
      BY <2>1 DEF RepInv, RepTypes
    <2>4. /\ DOMAIN rep'[m] = Targets(m)
          /\ \A n \in Targets(m) : RepShape(rep'[m][n]) /\ rep'[m][n].st = rep[m][n].st
      BY <2>3, StaleShape DEF RepInv, RepTypes
    <2>5. RepTypes'
      BY <2>3, <2>4 DEF RepInv, RepTypes
    <2>6. QED
      BY <1>1, <2>1, <2>2, <2>3, <2>4, <2>5, WriteInv
  <1>3. CASE TrackConflicts(m)
    BY <1>3, RetriedDrops, QuietInv DEF TrackConflicts, repVars
  <1>4. CASE \E evt \in events[m] : TrackFails(m, evt)
    BY <1>4, RetriedDrops, QuietInv DEF TrackFails, repVars
  <1>5. CASE \E evt \in events[m] : TrackIgnores(m, evt) \/ TrackReads(m, evt)
    BY <1>1, <1>5, QuietInv DEF TrackIgnores, TrackReads, jobVars, repVars
  <1>6. QED
    BY <1>2, <1>3, <1>4, <1>5 DEF Track

LEMMA UserInv == ASSUME RepInv, NEW m \in Member, NEW verb, Write(m, verb) PROVE RepInv'
  BY QuietInv DEF Write, jobVars, repVars, RepInv, JobTypes

LEMMA StartInv == ASSUME RepInv, NEW m \in Member, StartJob(m) PROVE RepInv'
  <1>1. PICK e \in jobs[m] : /\ run' = [run EXCEPT ![m] = e]
                             /\ jobs' = [jobs EXCEPT ![m] = jobs[m] \ {e}]
    BY DEF StartJob
  <1>2. /\ rep' = [rep EXCEPT ![m] = [n \in Targets(m) |-> [Idle EXCEPT !.st = "read"]]]
        /\ UNCHANGED <<save, behind, dropped>>
    BY DEF StartJob
  <1>3. e \in 0 .. MaxRetries - 1 /\ e # None
    BY <1>1, Retries DEF RepInv, JobTypes
  <1>4. JobTypes'
    BY <1>1, <1>2, <1>3 DEF RepInv, JobTypes
  <1>5. /\ DOMAIN rep' = Member /\ DOMAIN rep'[m] = Targets(m)
        /\ \A n \in Targets(m) : rep'[m][n] = [Idle EXCEPT !.st = "read"]
        /\ \A k \in Member : k # m => rep'[k] = rep[k]
    BY <1>2 DEF RepInv, RepTypes
  <1>6. \A n \in Targets(m) : RepShape(rep'[m][n]) /\ rep'[m][n].st = "read"
    BY <1>5, IdleShape
  <1>7. RepTypes' /\ SaveTypes'
    BY <1>2, <1>5, <1>6 DEF RepInv, RepTypes, SaveTypes
  <1>8. run'[m] # None /\ \A k \in Member : k # m => run'[k] = run[k] /\ jobs'[k] = jobs[k]
    BY <1>1, <1>3 DEF RepInv, JobTypes
  <1>9. RunIdle'
    BY <1>5, <1>8 DEF RepInv, RunIdle
  <1>10. StaleHasJob'
    BY <1>5, <1>6, <1>8 DEF RepInv, StaleHasJob
  <1>11. NoChangeForgotten'
    BY <1>2, <1>8 DEF RepInv, NoChangeForgotten
  <1>12. QED
    BY <1>4, <1>7, <1>9, <1>10, <1>11 DEF RepInv

LEMMA FreshAnswer ==
    \A y : \A s \in {"ok", "sent"} :
        RepShape([st |-> s, msg |-> y, fresh |-> TRUE]) /\ [st |-> s, msg |-> y, fresh |-> TRUE].fresh
  BY DEF RepShape, RepStates

LEMMA CollectInv == ASSUME RepInv, NEW m \in Member, NEW n \in Targets(m), Collect(m, n) PROVE RepInv'
  <1>1. /\ rep[m][n].st # "idle" /\ UNCHANGED <<save, behind, jobs, run, dropped>>
        /\ SaveTypes'
    BY DEF Collect, RepInv, SaveTypes
  <1>2. PICK x : RepShape(x) /\ x.fresh /\ Answers(m, n, x)
    <2>1. CASE n \notin behind[m] \/ Missing(m, n) = {}
      <3>1. Answers(m, n, [st |-> "ok", msg |-> None, fresh |-> TRUE])
        BY <2>1 DEF Collect, Answers
      <3>2. QED
        BY <3>1, FreshAnswer
    <2>2. CASE ~(n \notin behind[m] \/ Missing(m, n) = {})
      <3>1. PICK y : Answers(m, n, [st |-> "sent", msg |-> y, fresh |-> TRUE])
        BY <2>2 DEF Collect, Answers
      <3>2. QED
        BY <3>1, FreshAnswer
    <2>3. QED
      BY <2>1, <2>2
  <1>3. QED
    BY <1>1, <1>2, AnswerInv

LEMMA SentInv ==
    ASSUME RepInv, NEW m \in Member, NEW n \in Targets(m), Apply(m, n) \/ Filtered(m, n)
    PROVE  RepInv'
  <1>1. PICK s \in {"applying", "ok"} :
            rep' = [rep EXCEPT ![m] = [rep[m] EXCEPT ![n] =
                        [rep[m][n] EXCEPT !.st = s, !.msg = None]]]
    BY DEF Apply, Filtered
  <1>2. rep[m][n].st = "sent" /\ UNCHANGED <<behind, jobs, run, dropped>>
    BY DEF Apply, Filtered
  <1>3. n \in Member /\ RepShape(rep[m][n]) /\ s \in RepStates
    BY TargetMembers DEF RepInv, RepTypes, RepStates
  <1>4. SaveTypes'
    <2>1. CASE Filtered(m, n)
      BY <2>1 DEF Filtered, RepInv, SaveTypes
    <2>2. CASE Apply(m, n)
      <3>1. PICK new, b : save' = [save EXCEPT ![n] = [from |-> m, new |-> new, fresh |-> b]]
        BY <2>2 DEF Apply
      <3>2. QED
        BY <1>3, <3>1 DEF RepInv, SaveTypes
    <2>3. QED
      BY <2>1, <2>2
  <1>5. PICK x : /\ RepShape(x) /\ x.st = s /\ x.fresh = rep[m][n].fresh
                 /\ Answers(m, n, x)
    <2>1. PICK r : r = rep[m][n]
      OBVIOUS
    <2> DEFINE x == [r EXCEPT !.st = s, !.msg = None]
    <2>2. RepShape(x) /\ x.st = s /\ x.fresh = r.fresh
      BY <1>3, <2>1 DEF RepShape
    <2>3. Answers(m, n, x)
      BY <1>1, <2>1 DEF Answers
    <2> HIDE DEF x
    <2>4. QED
      BY <2>1, <2>2, <2>3
  <1>6. ~x.fresh => jobs[m] # {}
    BY <1>2, <1>5 DEF RepInv, StaleHasJob
  <1>7. QED
    BY <1>2, <1>4, <1>5, <1>6, AnswerInv

LEMMA CallFailsInv ==
    ASSUME RepInv, NEW m \in Member, NEW n \in Targets(m), CallFails(m, n) PROVE RepInv'
  <1>1. /\ Answers(m, n, [Idle EXCEPT !.st = "failed"])
        /\ rep[m][n].st # "idle" /\ UNCHANGED <<save, behind, jobs, run, dropped>>
    BY DEF CallFails, Answers
  <1>2. SaveTypes'
    BY <1>1 DEF RepInv, SaveTypes
  <1>3. QED
    BY <1>1, <1>2, IdleShape, AnswerInv

LEMMA SaveRefInv == ASSUME RepInv, NEW n \in Member, SaveRef(n) PROVE RepInv'
  <1>1. PICK m \in Member : m = save[n].from /\ n \in Targets(m)
    BY DEF SaveRef, RepInv, SaveTypes
  <1> DEFINE x == [rep[m][n] EXCEPT !.st = "ok"]
             r == IF rep[m][n].st = "applying"
                  THEN [rep EXCEPT ![m] = [rep[m] EXCEPT ![n] = x]] ELSE rep
  <1>2. m # n /\ RepShape(rep[m][n]) /\ "ok" \in RepStates
    BY <1>1, TargetMembers DEF RepInv, RepTypes, RepStates
  <1>3. RepShape(x) /\ x.st = "ok" /\ x.fresh = rep[m][n].fresh
    <2>1. PICK y : y = rep[m][n]
      OBVIOUS
    <2>2. RepShape([y EXCEPT !.st = "ok"]) /\ [y EXCEPT !.st = "ok"].st = "ok"
          /\ [y EXCEPT !.st = "ok"].fresh = y.fresh
      BY <1>2, <2>1 DEF RepShape
    <2>3. QED
      BY <2>1, <2>2
  <1>4. SaveTypes' /\ UNCHANGED run
    BY DEF SaveRef, RepInv, SaveTypes
  <1>5. dropped' \in [Member -> BOOLEAN] /\ \A k \in Member : dropped[k] => dropped'[k]
    <2>1. dropped' = [dropped EXCEPT ![n] = dropped[n] \/ ~save[n].fresh]
      BY DEF SaveRef
    <2>2. QED
      BY <2>1 DEF RepInv, JobTypes
  <1>6. \/ WriteRef(n, save[n].new) /\ rep' = [r EXCEPT ![n] = Stale(r[n])]
        \/ rep' = r /\ UNCHANGED <<behind, jobs>>
    BY <1>1 DEF SaveRef
  <1> HIDE DEF x
  <1>7. /\ DOMAIN r = Member
        /\ \A k \in Member : DOMAIN r[k] = Targets(k)
        /\ \A k \in Member : \A l \in Targets(k) :
              /\ RepShape(r[k][l]) /\ r[k][l].fresh = rep[k][l].fresh
              /\ r[k][l].st = rep[k][l].st \/ (rep[k][l].st = "applying" /\ r[k][l].st = "ok")
    <2>1. RepTypes
      BY DEF RepInv
    <2>2. CASE rep[m][n].st # "applying"
      BY <2>1, <2>2 DEF RepTypes
    <2>3. CASE rep[m][n].st = "applying"
      <3>1. /\ r = [rep EXCEPT ![m] = [rep[m] EXCEPT ![n] = x]] /\ DOMAIN r = Member
            /\ r[m] = [rep[m] EXCEPT ![n] = x] /\ \A k \in Member : k # m => r[k] = rep[k]
        BY <2>1, <2>3 DEF RepTypes
      <3>2. /\ DOMAIN r[m] = Targets(m) /\ r[m][n] = x
            /\ \A l \in Targets(m) : l # n => r[m][l] = rep[m][l]
        BY <1>1, <2>1, <3>1 DEF RepTypes
      <3> HIDE DEF r
      <3>3. QED
        BY <1>3, <2>1, <2>3, <3>1, <3>2 DEF RepTypes
    <2>4. QED
      BY <2>2, <2>3
  <1> HIDE DEF r
  <1>8. CASE WriteRef(n, save[n].new) /\ rep' = [r EXCEPT ![n] = Stale(r[n])]
    <2>1. /\ DOMAIN rep' = Member /\ rep'[n] = Stale(r[n])
          /\ \A k \in Member : k # n => rep'[k] = r[k]
      BY <1>7, <1>8
    <2>2. /\ DOMAIN rep'[n] = Targets(n)
          /\ \A l \in Targets(n) : RepShape(rep'[n][l]) /\ rep'[n][l].st = r[n][l].st
      BY <1>7, <2>1, StaleShape
    <2>3. RepTypes'
      BY <1>7, <2>1, <2>2 DEF RepTypes
    <2>4. \A k \in Member : \A l \in Targets(k) :
             /\ rep'[k][l].st = rep[k][l].st \/ (rep[k][l].st = "applying" /\ rep'[k][l].st = "ok")
             /\ k # n => rep'[k][l].fresh = rep[k][l].fresh
      BY <1>7, <2>1, <2>2
    <2>5. QED
      BY <1>4, <1>5, <1>8, <2>3, <2>4, WriteInv
  <1>9. CASE rep' = r /\ UNCHANGED <<behind, jobs>>
    <2>1. RepTypes'
      BY <1>7, <1>9 DEF RepTypes
    <2>2. JobTypes' /\ NoChangeForgotten'
      BY <1>4, <1>5, <1>9 DEF RepInv, JobTypes, NoChangeForgotten
    <2>3. RunIdle'
      BY <1>4, <1>7, <1>9 DEF RepInv, RunIdle
    <2>4. StaleHasJob'
      BY <1>7, <1>9 DEF RepInv, StaleHasJob
    <2>5. QED
      BY <1>4, <2>1, <2>2, <2>3, <2>4 DEF RepInv
  <1>10. QED
    BY <1>6, <1>8, <1>9

\* The end of a job: a target that is left behind has failed, and there is another
\* try, or its answer is about an old reference, and a job waits.
LEMMA FinishInv == ASSUME RepInv, NEW m \in Member, Finish(m) PROVE RepInv'
  <1>1. /\ run[m] # None /\ \A n \in Targets(m) : rep[m][n].st \in {"ok", "failed"}
        /\ behind' = [behind EXCEPT ![m] = {n \in behind[m] : ~Reached(m, n)}]
        /\ jobs' = [jobs EXCEPT ![m] = IF Again(m) THEN jobs[m] \cup {run[m] + 1} ELSE jobs[m]]
        /\ dropped' = [dropped EXCEPT ![m] = dropped[m] \/ (Failed(m) /\ ~Again(m))]
        /\ run' = [run EXCEPT ![m] = None]
        /\ rep' = [rep EXCEPT ![m] = [n \in Targets(m) |-> Idle]]
        /\ UNCHANGED save
    BY DEF Finish
  <1>2. Again(m) => run[m] + 1 \in 0 .. MaxRetries - 1
    BY <1>1, Retries DEF Again, RepInv, JobTypes
  <1>3. JobTypes'
    <2>1. behind' \in [Member -> SUBSET Member] /\ \A k \in Member : behind'[k] \subseteq Targets(k)
      BY <1>1 DEF RepInv, JobTypes
    <2>2. jobs' \in [Member -> SUBSET (0 .. MaxRetries - 1)]
      BY <1>1, <1>2 DEF RepInv, JobTypes
    <2>3. run' \in [Member -> (0 .. MaxRetries - 1) \cup {None}] /\ dropped' \in [Member -> BOOLEAN]
      BY <1>1 DEF RepInv, JobTypes
    <2>4. QED
      BY <2>1, <2>2, <2>3 DEF JobTypes
  <1>4. /\ DOMAIN rep' = Member /\ DOMAIN rep'[m] = Targets(m)
        /\ \A n \in Targets(m) : rep'[m][n] = Idle
        /\ \A k \in Member : k # m => rep'[k] = rep[k]
    BY <1>1 DEF RepInv, RepTypes
  <1>5. RepTypes' /\ SaveTypes'
    BY <1>1, <1>4, IdleShape DEF RepInv, RepTypes, SaveTypes
  <1>6. \A k \in Member : k # m => /\ run'[k] = run[k] /\ jobs'[k] = jobs[k]
                                  /\ behind'[k] = behind[k] /\ dropped'[k] = dropped[k]
    BY <1>1 DEF RepInv, JobTypes
  <1>7. RunIdle' /\ StaleHasJob'
    BY <1>4, <1>6, IdleShape DEF RepInv, RunIdle, StaleHasJob
  <1>8. behind'[m] # {} => jobs'[m] # {} \/ dropped'[m]
    <2>1. /\ jobs'[m] = IF Again(m) THEN jobs[m] \cup {run[m] + 1} ELSE jobs[m]
          /\ behind'[m] = {n \in behind[m] : ~Reached(m, n)}
      BY <1>1 DEF RepInv, JobTypes
    <2>2. Failed(m) /\ ~Again(m) => dropped'[m]
      BY <1>1 DEF RepInv, JobTypes
    <2>3. CASE Failed(m)
      BY <2>1, <2>2, <2>3
    <2>4. CASE ~Failed(m)
      <3>1. SUFFICES ASSUME NEW n \in behind[m], ~Reached(m, n) PROVE jobs[m] # {}
        BY <2>1
      <3>2. n \in Targets(m) /\ rep[m][n].st = "ok" /\ ~rep[m][n].fresh
        BY <1>1, <2>4, <3>1 DEF Failed, Reached, RepInv, JobTypes
      <3>3. QED
        BY <3>2 DEF RepInv, StaleHasJob
    <2>5. QED
      BY <2>3, <2>4
  <1>9. NoChangeForgotten'
    BY <1>6, <1>8 DEF RepInv, NoChangeForgotten
  <1>10. QED
    BY <1>3, <1>5, <1>7, <1>9 DEF RepInv

-----------------------------------------------------------------------------
LEMMA InitInv == ASSUME Init PROVE RepInv
  <1>1. Owner \in Member /\ Targets(Owner) = Recipient
    BY DEF Member, Targets
  <1>2. JobTypes
    BY <1>1, Retries, TargetMembers DEF Init, JobTypes
  <1>3. RepTypes /\ RunIdle /\ StaleHasJob /\ SaveTypes
    BY IdleShape DEF Init, RepTypes, RunIdle, StaleHasJob, SaveTypes
  <1>4. NoChangeForgotten
    BY DEF Init, NoChangeForgotten
  <1>5. QED
    BY <1>2, <1>3, <1>4 DEF RepInv

\* RepInv is inductive, so it is an invariant of the replication.
THEOREM RepInvariant == Spec => []RepInv
  <1>1. RepInv /\ [Next]_vars => RepInv'
    <2> SUFFICES ASSUME RepInv, [Next]_vars PROVE RepInv'
      OBVIOUS
    <2>1. CASE UNCHANGED vars
      BY <2>1, QuietInv DEF vars, RepInv, JobTypes
    <2>2. ASSUME NEW m \in Member, Replicate(m) PROVE RepInv'
      BY <2>2, StartInv, FinishInv, SaveRefInv, CollectInv, SentInv DEF Replicate
    <2>3. QED
      BY <2>1, <2>2, UserInv, TrackInv, CallFailsInv DEF Next, Done
  <1>2. Init => RepInv
    BY InitInv
  <1>3. QED
    BY <1>1, <1>2, PTL DEF Spec

\* As long as a target has not been sent the last change of a reference, a
\* share-replicate job waits or runs, unless one has used all its tries.
THEOREM ChangesNotForgotten == Spec => []NoChangeForgotten
  <1>1. RepInv => NoChangeForgotten
    BY DEF RepInv
  <1>2. QED
    BY <1>1, RepInvariant, PTL

\* retryWorker stops: no share-replicate job counts MaxRetries errors.
THEOREM RetriesBounded == Spec => [](\A m \in Member : jobs[m] \subseteq 0 .. MaxRetries - 1)
  <1>1. RepInv => \A m \in Member : jobs[m] \subseteq 0 .. MaxRetries - 1
    BY DEF RepInv, JobTypes
  <1>2. QED
    BY <1>1, RepInvariant, PTL
=============================================================================
