----------------------------- MODULE Replication ----------------------------
(***************************************************************************)
(* The replication of a shared document between the members of a sharing   *)
(* (model/sharing/replicator.go, shared.go), for a document that is not a  *)
(* file.                                                                   *)
(*                                                                         *)
(* Each member has the document in its CouchDB, and a reference to it in   *)
(* io.cozy.shared: a tree of the revisions it knows and a removed flag.  A *)
(* local change of the document makes an event, which a share-track job    *)
(* writes in the reference (UpdateShared).  A change of the reference      *)
(* makes a share-replicate job, which sends the last revision of the main  *)
(* branch to the other members (the owner sends to the recipients, the     *)
(* recipients to the owner).  The receiver writes the document in CouchDB, *)
(* makes an event, and then writes its reference (ApplyBulkDocs).          *)
(***************************************************************************)
EXTENDS RevsTree

CONSTANTS
    Owner, Recipient,   \* the members of the sharing
    MaxRetries,         \* number of failures that make a replication stop
    MaxExecCount,       \* executions of a share-track job
    MaxEvents,          \* bound: changes made by the users, and calls that fail
    None

ASSUME ReplicationAssumption ==
    /\ Owner \notin Recipient
    /\ {MaxRetries, MaxExecCount} \subseteq Nat \ {0} /\ MaxEvents \in Nat
    /\ None \notin Nat

Member == {Owner} \cup Recipient
Targets(m) == IF m = Owner THEN Recipient ELSE {Owner}

VARIABLES
    doc,      \* CouchDB: the leaves of the document, with their ancestors
    ref,      \* io.cozy.shared: revs and removed, or None
    events,   \* share-track jobs to run
    track,    \* what UpdateShared is about to write
    save,     \* the reference that ApplyBulkDocs is about to write
    behind,   \* the targets whose last_seq is before the last change of ref
    jobs,     \* share-replicate jobs to run, by their number of errors
    run,      \* the running share-replicate job, or None
    rep,      \* ReplicateTo, for each target of the running job
    happened, \* number of changes and failures
    hasty,    \* was the document deleted with a change of it still to track?
    dropped   \* has a job used all its tries, or a write of ref been refused?

docVars == <<doc, events, happened, hasty>>
repVars == <<behind, jobs, run, rep>>
jobVars == <<repVars, dropped>>
vars == <<doc, ref, events, track, save, behind, jobs, run, rep, happened, hasty, dropped>>

Idle == [st |-> "idle", msg |-> None, fresh |-> FALSE]
First == <<1, 0>>

\* The owner has indexed the document, and the recipients have none yet.
Init ==
    /\ doc = [m \in Member |-> IF m = Owner THEN {[path |-> <<First>>, del |-> FALSE]} ELSE {}]
    /\ ref = [m \in Member |-> IF m = Owner THEN [revs |-> Root(First), removed |-> FALSE]
                               ELSE None]
    /\ events = [m \in Member |-> {}]
    /\ track = [m \in Member |-> None]
    /\ save = [m \in Member |-> None]
    /\ behind = [m \in Member |-> IF m = Owner THEN Recipient ELSE {}]
    /\ jobs = [m \in Member |-> IF m = Owner THEN {0} ELSE {}]
    /\ run = [m \in Member |-> None]
    /\ rep = [m \in Member |-> [n \in Targets(m) |-> Idle]]
    /\ hasty = FALSE /\ happened = 0
    /\ dropped = [m \in Member |-> FALSE]

-----------------------------------------------------------------------------
(* CouchDB.                                                                *)

LastRev(leaf) == leaf.path[Len(leaf.path)]
Visible(D) == {l \in D : ~l.del}
Winner(D) ==
    CHOOSE l \in Visible(D) : \A k \in Visible(D) : ~RevLess(LastRev(l), LastRev(k))

InPath(rev, leaf) == \E i \in DOMAIN leaf.path : leaf.path[i] = rev
UpTo(leaf, rev) == SubSeq(leaf.path, 1, CHOOSE i \in DOMAIN leaf.path : leaf.path[i] = rev)
Known(D, rev) == \E l \in D : InPath(rev, l)

\* _bulk_get with the revisions.
GetRev(D, rev) ==
    LET l == CHOOSE l \in D : InPath(rev, l)
    IN  [path |-> UpTo(l, rev), del |-> l.del /\ LastRev(l) = rev]

\* _bulk_docs with new_edits false: the chain is merged in the tree.
Merge(D, new) ==
    LET over == {l \in D : InPath(new.path[1], l)}
        path == IF over = {} THEN new.path
                ELSE UpTo(CHOOSE l \in over : TRUE, new.path[1]) \o Tail(new.path)
    IN  IF \E l \in D : IsPrefix(path, l.path) THEN D
        ELSE {l \in D : ~IsPrefix(l.path, path)} \cup {[path |-> path, del |-> new.del]}

\* A user changes or deletes the document: the winning leaf has a child.  Of two
\* revisions of a generation, the later wins: neither member knew the other one.
NewRev(D) ==
    LET g == Gen(LastRev(Winner(D))) + 1
        same == {r \in UNION {UNION {ToSet(l.path) : l \in doc[n]} : n \in Member} : Gen(r) = g}
    IN  <<g, Cardinality(same)>>
Write(m, verb) ==
    LET w == Winner(doc[m])
        rev == NewRev(doc[m])
    IN
    /\ happened < MaxEvents
    /\ Visible(doc[m]) # {}
    /\ doc' = [doc EXCEPT ![m] = (@ \ {w}) \cup
                  {[path |-> Append(w.path, rev), del |-> verb = "DELETED"]}]
    /\ events' = [events EXCEPT ![m] = @ \cup
                  {[verb |-> verb, rev |-> rev, old |-> TRUE, tries |-> 0]}]
    /\ happened' = happened + 1
    /\ hasty' = (hasty \/ (verb = "DELETED"
                                            /\ ~(events[m] = {} /\ track[m] = None /\ save[m] = None)))
    /\ UNCHANGED <<ref, track, save, jobVars>>

-----------------------------------------------------------------------------
(* The share-track worker.                                                 *)

\* Mutant of WriteRef: the trigger is for CREATED only.
WriteRefCreated(m, new) ==
    /\ ref' = [ref EXCEPT ![m] = new]
    /\ behind' = [behind EXCEPT ![m] = Targets(m)]
    /\ jobs' = [jobs EXCEPT ![m] = IF ref[m] = None THEN @ \cup {0} ELSE @]

\* A write of io.cozy.shared makes the references read before it stale, and the
\* trigger on io.cozy.shared pushes a share-replicate job.
WriteRef(m, new) ==
    /\ ref' = [ref EXCEPT ![m] = new]
    /\ behind' = [behind EXCEPT ![m] = Targets(m)]
    /\ jobs' = [jobs EXCEPT ![m] = @ \cup {0}]

Stale(r) == [n \in DOMAIN r |-> [r[n] EXCEPT !.fresh = FALSE]]

\* addMissingRevsToChain: the revisions between the tree and rev are taken from
\* the document of CouchDB, if it has enough of them.
Lacks(m, rev) == Generation(ref[m].revs) < Gen(rev) - 1
CanFill(m, rev) ==
    Visible(doc[m]) # {} /\ Len(Winner(doc[m]).path) >= Gen(rev) - 1
WithMissing(m, rev) ==
    LET high == Generation(ref[m].revs)
        path == Winner(doc[m]).path
    IN  IF Lacks(m, rev)
        THEN [i \in 1 .. Gen(rev) - 1 - high |-> <<high + i, path[high + i][2]>>] \o <<rev>>
        ELSE <<rev>>

Retried(m, evt) ==
    LET again == evt.tries + 1 < MaxExecCount
    IN  /\ events' = [events EXCEPT ![m] = (@ \ {evt}) \cup
                         IF again THEN {[evt EXCEPT !.tries = @ + 1]} ELSE {}]
        /\ dropped' = [dropped EXCEPT ![m] = @ \/ ~again]

\* A deletion is ignored when there is no reference, or a removed one.
Tracked(m) == IF ref[m] = None THEN FALSE ELSE ~ref[m].removed
Ignored(m, evt) == evt.verb = "DELETED" /\ ~Tracked(m)
Unfillable(m, evt) ==
    evt.old /\ ref[m] # None /\ Lacks(m, evt.rev) /\ ~CanFill(m, evt.rev)

TrackIgnores(m, evt) ==
    /\ track[m] = None /\ evt \in events[m]
    /\ Ignored(m, evt)
    /\ events' = [events EXCEPT ![m] = @ \ {evt}]
    /\ UNCHANGED <<doc, ref, track, save, happened, hasty, jobVars>>

TrackFails(m, evt) ==
    /\ track[m] = None /\ evt \in events[m]
    /\ ~Ignored(m, evt) /\ Unfillable(m, evt)
    /\ Retried(m, evt)
    /\ UNCHANGED <<doc, ref, track, save, happened, hasty, repVars>>

\* Mutant of NewRevs: the tree starts again at each local change.
NewRevsReset(m, evt) ==
    IF ref[m] = None \/ evt.old THEN Root(evt.rev)
    ELSE IF evt.rev \in RevsIn(ref[m].revs) THEN ref[m].revs
    ELSE Add(ref[m].revs, evt.rev)

\* UpdateShared, up to the write of the reference.
NewRevs(m, evt) ==
    IF ref[m] = None THEN Root(evt.rev)
    ELSE IF evt.old THEN InsertChain(ref[m].revs, WithMissing(m, evt.rev))
    ELSE IF evt.rev \in RevsIn(ref[m].revs) THEN ref[m].revs
    ELSE Add(ref[m].revs, evt.rev)
TrackReads(m, evt) ==
    /\ track[m] = None /\ evt \in events[m]
    /\ ~Ignored(m, evt) /\ ~Unfillable(m, evt)
    /\ events' = [events EXCEPT ![m] = @ \ {evt}]
    /\ track' = [track EXCEPT ![m] =
            [evt |-> evt, fresh |-> TRUE,
             new |-> [revs |-> NewRevs(m, evt), removed |-> evt.verb = "DELETED"]]]
    /\ UNCHANGED <<doc, ref, save, happened, hasty, jobVars>>

TrackWrites(m) ==
    /\ track[m] # None /\ track[m].fresh
    /\ WriteRef(m, track[m].new)
    /\ track' = [track EXCEPT ![m] = None]
    /\ save' = [save EXCEPT ![m] = IF @ = None THEN None ELSE [@ EXCEPT !.fresh = FALSE]]
    /\ rep' = [rep EXCEPT ![m] = Stale(@)]
    /\ UNCHANGED <<docVars, run, dropped>>

TrackConflicts(m) ==
    /\ track[m] # None /\ ~track[m].fresh
    /\ Retried(m, track[m].evt)
    /\ track' = [track EXCEPT ![m] = None]
    /\ UNCHANGED <<doc, ref, save, happened, hasty, repVars>>

-----------------------------------------------------------------------------
(* The share-replicate worker.                                             *)

\* Replicate, under the lock of the sharing.
StartJob(m) ==
    /\ run[m] = None
    /\ \E e \in jobs[m] :
          /\ run' = [run EXCEPT ![m] = e]
          /\ jobs' = [jobs EXCEPT ![m] = @ \ {e}]
    /\ rep' = [rep EXCEPT ![m] = [n \in Targets(m) |-> [Idle EXCEPT !.st = "read"]]]
    /\ UNCHANGED <<docVars, ref, track, save, behind, dropped>>

\* revsChainToStruct keeps the generation of the last revision only.
Renumbered(chain) ==
    LET g == Gen(chain[Len(chain)])
    IN  [k \in DOMAIN chain |-> <<g + k - Len(chain), chain[k][2]>>]

\* Mutant of Missing: _revs_diff is not called.
MissingAlways(m, n) ==
    LET last == MainBranch(ref[m].revs)[MainLength(ref[m].revs) + 1]
    IN  IF ref[m].removed
        THEN {[path |-> Renumbered(MainBranch(ref[m].revs)), del |-> TRUE]}
        ELSE IF ~Known(doc[m], last) THEN {} ELSE {GetRev(doc[m], last)}

\* callChangesFeed, callRevsDiff and getMissingDocs: what must be sent to n.
Missing(m, n) ==
    LET last == MainBranch(ref[m].revs)[MainLength(ref[m].revs) + 1]
    IN  IF ref[m].removed
        THEN {[path |-> Renumbered(MainBranch(ref[m].revs)), del |-> TRUE]}
        ELSE IF \/ ~Known(doc[m], last)
                \/ ref[n] # None /\ last \in RevsIn(ref[n].revs)
        THEN {}
        ELSE {GetRev(doc[m], last)}

Collect(m, n) ==
    /\ rep[m][n].st = "read"
    /\ rep' = [rep EXCEPT ![m][n] =
            IF n \notin behind[m] \/ Missing(m, n) = {}
            THEN [st |-> "ok", msg |-> None, fresh |-> TRUE]
            ELSE [st |-> "sent", msg |-> CHOOSE x \in Missing(m, n) : TRUE, fresh |-> TRUE]]
    /\ UNCHANGED <<docVars, ref, track, save, behind, jobs, run, dropped>>

\* filterDocsToAdd and filterDocsToUpdate: is the document of msg kept?
Kept(n, msg) ==
    IF Visible(doc[n]) = {} THEN ~msg.del ELSE Tracked(n)
RefAfter(n, msg) ==
    LET rev == LastRev(msg)
    IN  IF Visible(doc[n]) = {} THEN [revs |-> Root(rev), removed |-> FALSE]
        ELSE [revs |-> IF rev \in RevsIn(ref[n].revs) THEN ref[n].revs
                       ELSE InsertChain(ref[n].revs, msg.path),
              removed |-> msg.del]

\* ApplyBulkDocs, under its lock: the document and its event, and then the
\* reference.  A new reference conflicts with one that exists.
Apply(m, n) ==
    LET msg == rep[m][n].msg
    IN  /\ rep[m][n].st = "sent" /\ save[n] = None
        /\ Kept(n, msg)
        /\ doc' = [doc EXCEPT ![n] = Merge(@, msg)]
        /\ events' = [events EXCEPT ![n] = @ \cup
                {[verb |-> IF msg.del THEN "DELETED" ELSE "UPDATED",
                  rev |-> LastRev(msg), old |-> FALSE, tries |-> 0]}]
        /\ save' = [save EXCEPT ![n] =
                [from |-> m, new |-> RefAfter(n, msg),
                 fresh |-> Visible(doc[n]) # {} \/ ref[n] = None]]
        /\ rep' = [rep EXCEPT ![m][n] = [rep[m][n] EXCEPT !.st = "applying", !.msg = None]]
        /\ UNCHANGED <<ref, track, happened, hasty, behind, jobs, run, dropped>>

Filtered(m, n) ==
    /\ rep[m][n].st = "sent" /\ save[n] = None
    /\ ~Kept(n, rep[m][n].msg)
    /\ rep' = [rep EXCEPT ![m][n] = [rep[m][n] EXCEPT !.st = "ok", !.msg = None]]
    /\ UNCHANGED <<docVars, ref, track, save, behind, jobs, run, dropped>>

\* A conflict of BulkUpdateDocs is only logged.
SaveRef(n) ==
    LET m == save[n].from
        Answered(r) ==
            IF r[m][n].st = "applying" THEN [r EXCEPT ![m][n].st = "ok"] ELSE r
    IN  /\ save[n] # None
        /\ save' = [save EXCEPT ![n] = None]
        /\ IF save[n].fresh
           THEN /\ WriteRef(n, save[n].new)
                /\ track' = [track EXCEPT ![n] =
                        IF @ = None THEN None ELSE [@ EXCEPT !.fresh = FALSE]]
                /\ rep' = [Answered(rep) EXCEPT ![n] = Stale(@)]
           ELSE /\ rep' = Answered(rep)
                /\ UNCHANGED <<ref, behind, jobs, track>>
        /\ dropped' = [dropped EXCEPT ![n] = @ \/ ~save[n].fresh]
        /\ UNCHANGED <<docVars, run>>

\* The call fails: a request or its answer is lost, or the answer comes too late.
CallFails(m, n) ==
    /\ happened < MaxEvents
    /\ rep[m][n].st \in {"read", "applying"}
    /\ rep' = [rep EXCEPT ![m][n] = [Idle EXCEPT !.st = "failed"]]
    /\ happened' = happened + 1
    /\ UNCHANGED <<doc, events, hasty, ref, track, save, behind, jobs, run, dropped>>

Failed(m) == \E n \in Targets(m) : rep[m][n].st = "failed"

\* Mutant of Again: the number of errors is not looked at.
AgainAlways(m) == Failed(m)

\* retryWorker: another job, unless the number of errors has reached MaxRetries.
Again(m) == Failed(m) /\ run[m] + 1 # MaxRetries

\* Mutant of Reached: the last_seq is the one of the end of the call.
ReachedNow(m, n) == rep[m][n].st = "ok"

\* UpdateLastSequenceNumber saves the last_seq that was read before the call.
Reached(m, n) == rep[m][n].st = "ok" /\ rep[m][n].fresh

\* The end of Replicate, when each target has answered or failed.
Finish(m) ==
    /\ run[m] # None
    /\ \A n \in Targets(m) : rep[m][n].st \in {"ok", "failed"}
    /\ behind' = [behind EXCEPT ![m] = {n \in @ : ~Reached(m, n)}]
    /\ jobs' = [jobs EXCEPT ![m] = IF Again(m) THEN @ \cup {run[m] + 1} ELSE @]
    /\ dropped' = [dropped EXCEPT ![m] = @ \/ (Failed(m) /\ ~Again(m))]
    /\ run' = [run EXCEPT ![m] = None]
    /\ rep' = [rep EXCEPT ![m] = [n \in Targets(m) |-> Idle]]
    /\ UNCHANGED <<docVars, ref, track, save>>

-----------------------------------------------------------------------------
Quiet ==
    \A m \in Member :
        /\ events[m] = {} /\ track[m] = None /\ save[m] = None
        /\ jobs[m] = {} /\ run[m] = None
Done == Quiet /\ UNCHANGED vars

Track(m) ==
    \/ \E evt \in events[m] : TrackIgnores(m, evt) \/ TrackFails(m, evt) \/ TrackReads(m, evt)
    \/ TrackWrites(m) \/ TrackConflicts(m)
Replicate(m) ==
    \/ StartJob(m) \/ Finish(m) \/ SaveRef(m)
    \/ \E n \in Targets(m) :
          Collect(m, n) \/ Apply(m, n) \/ Filtered(m, n)

Next ==
    \/ \E m \in Member :
          \/ \E verb \in {"UPDATED", "DELETED"} : Write(m, verb)
          \/ Track(m) \/ Replicate(m)
          \/ \E n \in Targets(m) : CallFails(m, n)
    \/ Done

Spec == Init /\ [][Next]_vars

\* The queues and the locks serve every job (RedisBroker, RedisLock), and a call
\* ends, with an answer or an error: as long as there is work, some is done.  It
\* is the weak fairness of these steps, one of which is enabled unless Quiet.
FairSpec ==
    Spec /\ ([]<>Quiet \/ []<><<\E m \in Member : Track(m) \/ Replicate(m)>>_vars)

-----------------------------------------------------------------------------
(* Properties.                                                             *)

Orderly == \A m \in Member : ~dropped[m]
LeafRevs(m) == {LastRev(l) : l \in Visible(doc[m])}
Agree == \A m, n \in Member : LeafRevs(m) = LeafRevs(n)
Paths == UNION {{l.path : l \in doc[m]} : m \in Member}
Linear == \A p, q \in Paths : IsPrefix(p, q) \/ IsPrefix(q, p)

\* Shapes, with the bounds that the code sets: a share-track job is executed
\* MaxExecCount times, and a share-replicate job counts less than MaxRetries
\* errors.
TypeOK ==
    \A m \in Member :
        /\ \A l \in doc[m] : Len(l.path) > 0 /\ l.del \in BOOLEAN
        /\ ref[m] # None => IsTree(ref[m].revs) /\ ref[m].removed \in BOOLEAN
        /\ \A evt \in events[m] : evt.tries \in 0 .. MaxExecCount - 1
        /\ behind[m] \subseteq Targets(m)
        /\ jobs[m] \subseteq 0 .. MaxRetries - 1

\* No change of io.cozy.shared is forgotten: as long as a target has not been
\* sent the last one, a share-replicate job waits or runs, through the failures
\* of calls and the changes made during a replication.
NoChangeForgotten ==
    \A m \in Member : behind[m] # {} => jobs[m] # {} \/ run[m] # None \/ dropped[m]

\* UpdateShared and ApplyBulkDocs write the same reference, each from what it
\* read, under different locks: none of them makes the other's revisions vanish.
RevsKept ==
    [][\A m \in Member : ref[m] # None =>
          /\ ref'[m] # None
          /\ RevsIn(ref[m].revs) \subseteq RevsIn(ref'[m].revs)]_vars

\* When the members never change the same revision, and no job or reference was
\* dropped, they all have the same document in the end, even if jobs are run out
\* of order, calls fail and are made again, and changes are made during a
\* replication.  (A document deleted while a change of it is not tracked yet is
\* not always deleted for the others.)
\* The references are single branches with no hole: CheckShared would find nothing.
LinearConverges ==
    Quiet /\ Linear /\ Orderly /\ ~hasty =>
        /\ Agree
        /\ \A m \in Member : ref[m] # None =>
              /\ Consecutive(ref[m].revs)
              /\ \A p \in DOMAIN ref[m].revs : p = Main(Len(p))

\* Even with conflicts, the reference of a document has, in the end, all the
\* revisions that are in conflict in CouchDB.
RefsFollow ==
    Quiet /\ Orderly => \A m \in Member : doc[m] # {} =>
        ref[m] # None /\ LeafRevs(m) \subseteq RevsIn(ref[m].revs)

\* The members do not send each other the same revisions for ever: each applied
\* document writes a reference, which starts a replication the other way.
Quiesces == <>[]Quiet

\* docs/sharing-design.md:219: `Eventually, all members converge to the same
\* state with the same docs and the same revisions histories`, stated for
\* changes that are not deletions, when every job is run to its end.
Converge ==
    Quiet /\ Orderly /\ (\A m \in Member : \A l \in doc[m] : ~l.del) => Agree
=============================================================================
