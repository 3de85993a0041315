-------------------------------- MODULE VFS --------------------------------
(***************************************************************************)
(* The virtual file system of an instance (model/vfs, vfsswift, and the    *)
(* handlers of web/files): the directories and files are documents of      *)
(* CouchDB, the contents are objects of Swift.                             *)
(*                                                                         *)
(* A request reads some documents, and later makes its changes in a        *)
(* section protected by the lock of the VFS (RedisLock): what it has read  *)
(* may have changed in between.  A section is a list of writes, made one   *)
(* after the other; the first one that is refused ends it, and the process *)
(* may die between two of them.                                            *)
(***************************************************************************)
EXTENDS Naturals, FiniteSets, SequencesExt

CONSTANTS
    Root, Trash,        \* the ids of the two directories that always exist
    DirA, DirB, FileF,  \* the ids of a directory, and of a directory and a file in it
    Request,            \* the requests; also the ids of the documents they create
    Name,               \* the names that clients give
    MaxNumber,          \* fs.versioning.max_number_of_versions_to_keep
    None

\* The ids of the first documents, and of the directories that MkdirAll makes.
FirstId == {Root, Trash, DirA, DirB, FileF}
MadeId == Request \X (Nat \ {0})

ASSUME VFSAssumption ==
    /\ Root \notin {Trash, DirA, DirB, FileF} /\ Trash \notin {DirA, DirB, FileF}
    /\ DirA \notin {DirB, FileF} /\ DirB # FileF
    /\ \A r \in Request : r \notin FirstId \cup {0, 1}
    /\ \A x \in FirstId \cup Request : x \notin MadeId
    /\ None \notin FirstId \cup Request \cup {0, 1} /\ None \notin MadeId
    /\ MaxNumber \in Nat /\ Name # {}

VARIABLES
    docs,      \* io.cozy.files: from the ids to the documents
    objects,   \* the container of Swift: pairs of a file id and an internal id
    versions,  \* io.cozy.files.versions, from the oldest to the newest
    journals,  \* trash-files jobs: the files to erase
    req,       \* what each request has read, Unread before it and Over after
    stale,     \* has a section used a directory that had changed since it was read?
    cut,       \* has a process died in a section?
    midway     \* has a revert changed the file and not deleted the version?

data == <<docs, objects, versions, journals>>
ghosts == <<stale, cut, midway>>
vars == <<data, req, ghosts>>

-----------------------------------------------------------------------------
(* Documents.  A name is a sequence: what the client gave, and the         *)
(* suffixes added to avoid a conflict.  A path is a sequence of names.     *)

TrashName == <<Trash>>
TrashPath == <<TrashName>>
InTrash(path) == IsPrefix(TrashPath, path)

DirDoc(parent, name, path) ==
    [kind |-> "dir", parent |-> parent, name |-> name, path |-> path,
     trashed |-> FALSE, obj |-> None, restore |-> None, rev |-> 1]
FileDoc(parent, name, obj) ==
    [kind |-> "file", parent |-> parent, name |-> name, path |-> <<>>,
     trashed |-> FALSE, obj |-> obj, restore |-> None, rev |-> 1]
NoDoc == [kind |-> "none"]   \* a document that a request has not read

Rev(D, id) == IF id \in DOMAIN D THEN D[id].rev ELSE 0
IsDir(D, id) == id \in DOMAIN D /\ D[id].kind = "dir"
IsFile(D, id) == id \in DOMAIN D /\ D[id].kind = "file"
DirsAt(D, path) == {d \in DOMAIN D : D[d].kind = "dir" /\ D[d].path = path}
Taken(D, parent, name) == \E x \in DOMAIN D : D[x].parent = parent /\ D[x].name = name

\* FilePath, for a file or a directory whose parent exists.
PathIn(D, doc) == Append(D[doc.parent].path, doc.name)

\* What walk visits below id: with a cycle, it visits id again.
Under(D, id) ==
    LET found[k \in 0 .. Cardinality(DOMAIN D)] ==
            IF k = 0 THEN {}
            ELSE LET above == found[k - 1] \cup {id} IN {x \in DOMAIN D : D[x].parent \in above}
    IN  found[Cardinality(DOMAIN D)]

\* tryOrUseSuffix, stripConflictSuffix
Free(D, parent, name) ==
    IF ~Taken(D, parent, name) THEN name
    ELSE Append(name, CHOOSE k \in 1 .. Cardinality(DOMAIN D) :
                          ~Taken(D, parent, Append(name, k)))
StripAlways(name) == Front(name)   \* mutant of Strip
Strip(name) == IF Len(name) > 1 THEN Front(name) ELSE name

\* What a request has read: a document, the directory where it puts something,
\* the names of the directories to make there, a version; and what it will write.
Reading(op, id, snap) ==
    [op |-> op, id |-> id, snap |-> snap, at |-> None, todo |-> <<>>, ver |-> None, new |-> None]
Unread == Reading("none", None, NoDoc)
Over == Reading("over", None, NoDoc)

\* The root and the trash, a directory with a sub-directory and a file, which has
\* one old version; the directory may be in the trash.
Init ==
    /\ \E n \in Name \ {Trash}, trashed \in BOOLEAN :
          LET path == IF trashed THEN <<TrashName, <<n>>>> ELSE <<<<n>>>>
              A == [DirDoc(IF trashed THEN Trash ELSE Root, <<n>>, path) EXCEPT
                       !.restore = IF trashed THEN <<>> ELSE None]
          IN  docs = [x \in FirstId |->
                         CASE x = Root -> DirDoc(None, <<>>, <<>>)
                           [] x = Trash -> DirDoc(Root, TrashName, TrashPath)
                           [] x = DirA -> A
                           [] x = DirB -> DirDoc(DirA, <<n>>, Append(path, <<n>>))
                           [] x = FileF -> [FileDoc(DirB, <<n>>, 1) EXCEPT !.trashed = trashed]]
    /\ objects = {<<FileF, 0>>, <<FileF, 1>>}
    /\ versions = <<[file |-> FileF, obj |-> 0, by |-> None]>>
    /\ journals = {}
    /\ req = [r \in Request |-> Unread]
    /\ stale = FALSE /\ cut = FALSE /\ midway = FALSE

-----------------------------------------------------------------------------
(* The writes of a section.                                                *)

Check(holds) == [do |-> "check", holds |-> holds]
Put(id, doc) == [do |-> "put", id |-> id, doc |-> doc]         \* refused without the last rev
Delete(id, rev) == [do |-> "delete", id |-> id, rev |-> rev]   \* refused without the last rev
BatchDelete(D) == [do |-> "batch", of |-> D]                   \* skips the other revs
SetTrashed(id, trashed) == [do |-> "set", id |-> id, trashed |-> trashed]
MoveDir(from, to) == [do |-> "move", from |-> from, to |-> to]
ObjectPut(o) == [do |-> "store", obj |-> o]
ObjectDelete(os) == [do |-> "erase", of |-> os]
CreateVersion(v) == [do |-> "version", ver |-> v]              \* refused when the id exists
DeleteVersion(v) == [do |-> "unversion", ver |-> v]            \* refused when it is gone
BatchDeleteVersions(vs) == [do |-> "unversions", of |-> vs]
Push(journal) == [do |-> "push", journal |-> journal]
Nothing == Check(TRUE)

\* setTrashedForFilesInsideDir
WithTrashed(D, id, trashed) ==
    [x \in DOMAIN D |->
        IF x \in Under(D, id) /\ D[x].kind = "file" /\ D[x].trashed # trashed
        THEN [D[x] EXCEPT !.trashed = trashed, !.rev = @ + 1] ELSE D[x]]

\* Mutant of Moved: the depth of the children is lost.
MovedFlat(D, from, to) ==
    [x \in DOMAIN D |->
        IF D[x].kind = "dir" /\ IsStrictPrefix(from, D[x].path)
        THEN [D[x] EXCEPT !.path = Append(to, D[x].name), !.rev = @ + 1] ELSE D[x]]

\* MoveDir: the directories are selected by their paths.
Moved(D, from, to) ==
    [x \in DOMAIN D |->
        IF D[x].kind = "dir" /\ IsStrictPrefix(from, D[x].path)
        THEN [D[x] EXCEPT !.path = to \o SubSeq(@, Len(from) + 1, Len(@)), !.rev = @ + 1]
        ELSE D[x]]

\* The versions of vs, in their order, that are in a set.
Only(vs, keep) ==
    LET upto[n \in 0 .. Len(vs)] ==
            IF n = 0 THEN <<>>
            ELSE IF vs[n] \in keep THEN Append(upto[n - 1], vs[n]) ELSE upto[n - 1]
    IN  upto[Len(vs)]

Without(D, gone) == [x \in DOMAIN D \ gone |-> D[x]]
HasVersion(vs, v) == \E i \in DOMAIN vs : vs[i] = v

Refused(s, w) ==
    CASE w.do = "check" -> ~w.holds
      [] w.do = "put" -> Rev(s.docs, w.id) + 1 # w.doc.rev
      [] w.do = "delete" -> Rev(s.docs, w.id) # w.rev
      [] w.do = "set" -> w.id \in Under(s.docs, w.id)
      [] w.do = "version" ->
            \E i \in DOMAIN s.vers : s.vers[i].file = w.ver.file /\ s.vers[i].obj = w.ver.obj
      [] w.do = "unversion" -> ~HasVersion(s.vers, w.ver)
      [] OTHER -> FALSE

Written(s, w) ==
    CASE w.do = "put" -> [s EXCEPT !.docs = [x \in DOMAIN @ \cup {w.id} |->
                                                IF x = w.id THEN w.doc ELSE @[x]]]
      [] w.do = "delete" -> [s EXCEPT !.docs = Without(@, {w.id})]
      [] w.do = "batch" -> [s EXCEPT !.docs = Without(@, {x \in DOMAIN w.of :
                                                            Rev(s.docs, x) = w.of[x].rev})]
      [] w.do = "set" -> [s EXCEPT !.docs = WithTrashed(@, w.id, w.trashed)]
      [] w.do = "move" -> [s EXCEPT !.docs = Moved(@, w.from, w.to)]
      [] w.do = "store" -> [s EXCEPT !.objs = @ \cup {w.obj}]
      [] w.do = "erase" -> [s EXCEPT !.objs = @ \ w.of]
      [] w.do = "version" -> [s EXCEPT !.vers = Append(@, w.ver)]
      [] w.do = "unversion" -> [s EXCEPT !.vers = Only(@, ToSet(@) \ {w.ver})]
      [] w.do = "unversions" -> [s EXCEPT !.vers = Only(@, ToSet(@) \ w.of)]
      [] w.do = "push" -> [s EXCEPT !.jobs = @ \cup {w.journal}]
      [] OTHER -> s

\* One write after the others: nothing is done once one was refused.
Step(s, w) ==
    IF ~s.ok THEN s ELSE IF Refused(s, w) THEN [s EXCEPT !.ok = FALSE] ELSE Written(s, w)
Run(s, writes) ==
    LET upto[n \in 0 .. Len(writes)] == IF n = 0 THEN s ELSE Step(upto[n - 1], writes[n])
    IN  upto[Len(writes)]

Now == [docs |-> docs, objs |-> objects, vers |-> versions, jobs |-> journals, ok |-> TRUE]

\* The state after some writes; undo is the write which is done when one is refused.
After(writes, undo) ==
    LET end == Run(Now, writes)
    IN  IF end.ok THEN end ELSE [Written(end, undo) EXCEPT !.ok = FALSE]

Becomes(s) ==
    /\ docs' = s.docs /\ objects' = s.objs /\ versions' = s.vers /\ journals' = s.jobs

\* What the request has read of the directories is no longer true.
Outdated(q) ==
    \/ q.at # None /\ (~IsDir(docs, q.at.id) \/ docs[q.at.id].path # q.at.path)
    \/ q.snap.kind = "dir" /\ Rev(docs, q.id) # q.snap.rev

\* The whole section of r; undo is for a refused write.
Ends(r, writes, undo, next) ==
    LET end == After(writes, undo) IN
    /\ Becomes(end)
    /\ req' = [req EXCEPT ![r] = IF end.ok THEN next ELSE Over]
    /\ stale' = (stale \/ (end.docs # docs /\ Outdated(req[r])))
    /\ midway' = (midway \/ (req[r].op = "revert" /\ end.ok /\ ~HasVersion(versions, req[r].ver)))
    /\ UNCHANGED cut

\* The process dies in the section of r.
Dies(r, writes) ==
    \E n \in 1 .. Len(writes) - 1 :
        /\ Becomes(After(SubSeq(writes, 1, n), Nothing))
        /\ data' # data
        /\ req' = [req EXCEPT ![r] = Over]
        /\ cut' = TRUE /\ midway' = (midway \/ req[r].op = "revert") /\ UNCHANGED stale

Section(r, writes, undo) == Ends(r, writes, undo, Over) \/ Dies(r, writes)

-----------------------------------------------------------------------------
(* Requests.                                                               *)

Reads(d) == [id |-> d, path |-> docs[d].path]

Idle(r) == req[r].op = "none"

Asks(r, q) ==
    /\ req' = [req EXCEPT ![r] = q]
    /\ UNCHANGED <<data, ghosts>>

Ready(r, op) == req[r].op = op

\* The directories where clients put things are not in the trash.
Place == {d \in DOMAIN docs : docs[d].kind = "dir" /\ ~InTrash(docs[d].path)}
Files == {f \in DOMAIN docs : IsFile(docs, f) /\ IsDir(docs, docs[f].parent)}
Dirs == {d \in DOMAIN docs \ {Root, Trash} : docs[d].kind = "dir"}
PathOf(x) == IF docs[x].kind = "dir" THEN docs[x].path ELSE PathIn(docs, docs[x])

-----------------------------------------------------------------------------
(* Creation of a directory.                                                *)

AsksCreateDir(r) ==
    /\ Idle(r)
    /\ \E d \in Place, n \in Name :
           Asks(r, [Reading("mkdir", r, NoDoc) EXCEPT
                       !.at = Reads(d), !.new = DirDoc(d, <<n>>, Append(docs[d].path, <<n>>))])

CreateDir(r) ==
    LET new == req[r].new IN
    /\ Ready(r, "mkdir")
    /\ Ends(r, <<Check(~Taken(docs, new.parent, new.name)), Put(r, new)>>, Nothing, Over)

-----------------------------------------------------------------------------
(* Change of a name or of a parent, trash and restore.                     *)

\* A document with another place.
Placed(doc, parent, name, path) ==
    [doc EXCEPT !.parent = parent, !.name = name, !.rev = @ + 1,
                !.path = IF doc.kind = "dir" THEN path ELSE @]
SamePlace(old, new) == old.parent = new.parent /\ old.name = new.name

\* UpdateFileDoc
FileWrites(id, old, new) ==
    <<Check(SamePlace(old, new) \/ ~Taken(docs, new.parent, new.name)), Put(id, new)>>

If(holds, write) == IF holds THEN <<write>> ELSE <<>>

\* UpdateDirDoc
DirWrites(id, old, new) ==
    <<Check(SamePlace(old, new) \/ ~IsStrictPrefix(old.path, new.path)),
      Check(SamePlace(old, new) \/ ~Taken(docs, new.parent, new.name))>>
    \o If(~InTrash(old.path) /\ InTrash(new.path), SetTrashed(id, TRUE))
    \o If(old.path # new.path, MoveDir(old.path, new.path))
    \o <<Put(id, new)>>
    \o If(InTrash(old.path) /\ ~InTrash(new.path), SetTrashed(id, FALSE))

Writes(id, old, new) ==
    IF old.kind = "dir" THEN DirWrites(id, old, new) ELSE FileWrites(id, old, new)

\* ModifyDirMetadata, ModifyFileMetadata
AsksPatch(r) ==
    /\ Idle(r)
    /\ \E x \in Dirs \cup Files :
           LET old == docs[x] IN
           \E d \in Place \cup {old.parent}, n \in {<<m>> : m \in Name} \cup {old.name} :
               /\ d # old.parent => IF old.kind = "file" THEN ~old.trashed ELSE ~InTrash(old.path)
               /\ Asks(r, [Reading("patch", x, old) EXCEPT
                              !.at = IF d = old.parent THEN None ELSE Reads(d),
                              !.new = Placed(old, d, n, Append(
                                  IF d = old.parent THEN Front(old.path) ELSE docs[d].path, n))])

Patch(r) ==
    LET q == req[r] IN
    /\ Ready(r, "patch")
    /\ Section(r, If(q.new.kind = "file", Check(IsDir(docs, q.new.parent)))
                  \o Writes(q.id, q.snap, q.new),
               Nothing)

\* TrashDir, TrashFile
AsksTrash(r) ==
    /\ Idle(r)
    /\ \E x \in Dirs \cup Files :
           /\ ~InTrash(PathOf(x)) \/ (IsFile(docs, x) /\ ~docs[x].trashed)
           /\ Asks(r, [Reading("trash", x, docs[x]) EXCEPT
                          !.new = [docs[x] EXCEPT !.restore = Front(PathOf(x)),
                                                  !.trashed = docs[x].kind = "file"]])

TrashIt(r) ==
    LET q == req[r]
        name == Free(docs, Trash, q.snap.name)
    IN  /\ Ready(r, "trash")
        /\ Section(r, Writes(q.id, q.snap,
                             Placed(q.new, Trash, name, Append(TrashPath, name))),
                      Nothing)

\* getRestoreDir: where a document with this path in the trash was.
RestorePath(doc, path, top) ==
    IF doc.restore # None THEN doc.restore
    ELSE IF Len(path) > 2 /\ top.restore # None
    THEN top.restore \o <<top.name>> \o SubSeq(path, 3, Len(path) - 1)
    ELSE <<>>

\* RestoreDir, RestoreFile: MkdirAll starts from the last directory that exists.
AsksRestore(r) ==
    /\ Idle(r)
    /\ \E x \in Dirs \cup Files :
           /\ InTrash(PathOf(x))
           /\ \E t \in IF docs[x].restore = None /\ Len(PathOf(x)) > 2
                       THEN DirsAt(docs, SubSeq(PathOf(x), 1, 2)) ELSE {x} :
                 LET path == RestorePath(docs[x], PathOf(x), docs[t]) IN
                 \E k \in 0 .. Len(path) :
                     /\ \A n \in k + 1 .. Len(path) : DirsAt(docs, SubSeq(path, 1, n)) = {}
                     /\ \E d \in DirsAt(docs, SubSeq(path, 1, k)) :
                           Asks(r, [Reading("restore", x, docs[x]) EXCEPT
                                       !.at = Reads(d), !.todo = SubSeq(path, k + 1, Len(path)),
                                       !.new = [docs[x] EXCEPT !.restore = None,
                                                               !.trashed = FALSE]])

\* One directory of MkdirAll.  When the name has been taken meanwhile, the path
\* which is looked at has this name twice.
MkdirAll(r) ==
    LET q == req[r]
        name == Head(q.todo)
        path == Append(q.at.path, name)
        id == <<r, Len(q.todo)>>
        found == DirsAt(docs, Append(path, name))
        On(at) == [q EXCEPT !.at = at, !.todo = Tail(@)]
    IN  /\ Ready(r, "restore") /\ q.todo # <<>>
        /\ \/ /\ ~Taken(docs, q.at.id, name)
              /\ Ends(r, <<Put(id, DirDoc(q.at.id, name, path))>>, Nothing,
                      On([id |-> id, path |-> path]))
           \/ /\ Taken(docs, q.at.id, name)
              /\ \/ \E d \in found : req' = [req EXCEPT ![r] = On(Reads(d))]
                 \/ found = {} /\ req' = [req EXCEPT ![r] = Over]
              /\ UNCHANGED <<data, ghosts>>

Restore(r) ==
    LET q == req[r]
        name == Free(docs, q.at.id, Strip(q.snap.name))
    IN  /\ Ready(r, "restore") /\ q.todo = <<>>
        /\ Section(r, Writes(q.id, q.snap,
                             Placed(q.new, q.at.id, name, Append(q.at.path, name))),
                      Nothing)

-----------------------------------------------------------------------------
(* Contents.                                                               *)

\* Mutant of ObjectOf: a file keeps the same object.
SameObject(q, r) == <<q.id, IF q.snap.kind # "none" THEN q.snap.obj ELSE r>>
\* MakeObjectNameV3: each upload has an object of its own.
ObjectOf(q, r) == <<q.id, r>>

ObjectsOf(vs) == {<<vs[i].file, vs[i].obj>> : i \in DOMAIN vs}
VersionsFor(vs, files) == Only(vs, {v \in ToSet(vs) : v.file \in files})

\* CreateFile: a new file, or a new content for a file.
AsksUpload(r) ==
    \/ /\ Idle(r)
       /\ \E d \in Place, n \in Name :
             /\ ~Taken(docs, d, <<n>>)
             /\ Asks(r, [Reading("upload", r, NoDoc) EXCEPT
                            !.at = Reads(d),
                            !.new = FileDoc(d, <<n>>, r)])
    \/ /\ Idle(r)
       /\ \E f \in Files :
             /\ ~InTrash(PathOf(f))
             /\ Asks(r, [Reading("upload", f, docs[f]) EXCEPT
                            !.new = [FileDoc(docs[f].parent, docs[f].name, r) EXCEPT
                                         !.rev = docs[f].rev + 1]])

\* The content is in Swift before the lock is taken.
StoreObject(r) ==
    /\ Ready(r, "upload")
    /\ objects' = objects \cup {ObjectOf(req[r], r)}
    /\ req' = [req EXCEPT ![r].op = "stored"]
    /\ UNCHANGED <<docs, versions, journals, ghosts>>

\* The content is not the one that was announced.
AbortUpload(r) ==
    /\ Ready(r, "stored")
    /\ objects' = objects \ {ObjectOf(req[r], r)}
    /\ req' = [req EXCEPT ![r] = Over]
    /\ UNCHANGED <<docs, versions, journals, ghosts>>

\* detectVersionsToClean: how many of the old versions are cleaned.
TooMany(olds, keep) == Len(olds) + 1 + (IF keep THEN 1 ELSE 0) - MaxNumber
ToClean(olds, keep) ==
    IF MaxNumber = 0 THEN olds
    ELSE IF olds = <<>> THEN <<>>
    ELSE SubSeq(olds, 1,
                  IF TooMany(olds, keep) <= Len(olds)
                  THEN TooMany(olds, keep) ELSE Len(olds))

\* cleanOldVersion, for each of some versions
CleanOldVersions(vs) ==
    [i \in 1 .. 2 * Len(vs) |->
        LET v == vs[(i + 1) \div 2]
        IN  IF i % 2 = 1 THEN DeleteVersion(v) ELSE ObjectDelete({<<v.file, v.obj>>})]

\* The old content becomes a version, or is deleted when it is the same as the new one
\* or is too close to the last version.
VersionWrites(q, r, close, same) ==
    LET olds == VersionsFor(versions, {q.id})
        candidate == [file |-> q.id, obj |-> q.snap.obj, by |-> r]
        known == MaxNumber > 0 /\ \E i \in DOMAIN olds : olds[i].obj = candidate.obj
        keep == MaxNumber > 0 /\ (olds = <<>> \/ ~close)
        clean == IF known THEN <<>> ELSE ToClean(olds, keep)
    IN  If(keep /\ ~known /\ ~same, CreateVersion(candidate))
        \o If(same \/ (~keep /\ ~known), ObjectDelete({<<q.id, q.snap.obj>>}))
        \o CleanOldVersions(clean)

\* Mutant of NewName: the second check is forgotten.
NameUnchecked(q) == TRUE
NewName(q) == q.snap.kind # "none" \/ ~Taken(docs, q.new.parent, q.new.name)

\* Close
CloseUpload(r) ==
    LET q == req[r]
        trashed == IsDir(docs, q.new.parent) /\ InTrash(docs[q.new.parent].path)
    IN  /\ Ready(r, "stored")
        /\ \E close \in BOOLEAN, same \in BOOLEAN :
              Section(r, <<Check(NewName(q)), Check(IsDir(docs, q.new.parent)),
                           Put(q.id, [q.new EXCEPT !.trashed = trashed])>>
                         \o (IF q.snap.kind = "none" THEN <<>> ELSE VersionWrites(q, r, close, same)),
                      ObjectDelete({ObjectOf(q, r)}))

\* CopyFile, of a file that is not in the trash.
AsksCopy(r) ==
    /\ Idle(r)
    /\ \E f \in Files, d \in Place, n \in Name :
           /\ ~docs[f].trashed /\ ~Taken(docs, d, <<n>>)
           /\ Asks(r, [Reading("copy", f, docs[f]) EXCEPT
                          !.at = Reads(d),
                          !.new = FileDoc(d, <<n>>, r)])

CopyFile(r) ==
    LET q == req[r] IN
    /\ Ready(r, "copy")
    /\ Section(r, <<Check(~Taken(docs, q.new.parent, q.new.name)),
                    Check(<<q.id, q.snap.obj>> \in objects), ObjectPut(<<r, r>>),
                    Check(IsDir(docs, q.new.parent)), Put(r, q.new)>>,
               ObjectDelete({<<r, r>>}))

-----------------------------------------------------------------------------
(* Destruction.                                                            *)

\* Mutant of Erased: the old versions are forgotten.
ErasedWithout(journal) == <<ObjectDelete(journal.objs)>>
\* EnsureErased
Erased(journal) ==
    LET vs == VersionsFor(versions, journal.files)
    IN  <<BatchDeleteVersions(ToSet(vs)), ObjectDelete(journal.objs \cup ObjectsOf(vs))>>

\* An item that someone destroys, and an item of the list of the clean-old-trashed worker.
AsksDestroy(r) ==
    \/ /\ Idle(r)
       /\ \E x \in Files \cup Dirs \cup {Trash} : Asks(r, Reading("destroy", x, docs[x]))
    \/ /\ Idle(r)
       /\ \E x \in Files \cup Dirs :
             /\ docs[x].parent = Trash
             /\ Asks(r, Reading("clean", x, docs[x]))

\* destroyDir; only the content of the trash is destroyed.  The revision of the
\* directory is not looked at before its content is deleted.
DestroyDir(r, q) ==
    LET content == Under(docs, q.id)
        files == {x \in content : docs[x].kind = "file"}
        journal == [files |-> files, objs |-> {<<f, docs[f].obj>> : f \in files}]
        gone == [x \in content \cup ({q.id} \ {Trash}) |-> IF x = q.id THEN q.snap ELSE docs[x]]
    IN  Section(r, <<Check(q.id \notin content), BatchDelete(gone)>>
                   \o (IF files = {} THEN <<>>
                       ELSE IF q.op = "clean" THEN Erased(journal) ELSE <<Push(journal)>>), Nothing)

DestroyFile(r, q) ==
    LET vs == VersionsFor(versions, {q.id})
    IN  Section(r, <<Check(IsDir(docs, q.snap.parent)), Delete(q.id, q.snap.rev),
                     BatchDeleteVersions(ToSet(vs)),
                     ObjectDelete(ObjectsOf(vs) \cup {<<q.id, q.snap.obj>>})>>,
                Nothing)

Destroy(r) ==
    /\ Ready(r, "destroy") \/ Ready(r, "clean")
    /\ IF req[r].snap.kind = "dir" THEN DestroyDir(r, req[r]) ELSE DestroyFile(r, req[r])

\* The trash-files worker, without the lock.  It is retried when Swift fails.
TrashFiles ==
    \E journal \in journals :
        /\ \/ /\ Becomes([After(Erased(journal), Nothing) EXCEPT !.jobs = @ \ {journal}])
              /\ UNCHANGED cut
           \/ /\ versions # After(Erased(journal), Nothing).vers
              /\ Becomes(After(SubSeq(Erased(journal), 1, 1), Nothing))
              /\ cut' = TRUE
        /\ UNCHANGED <<req, stale, midway>>

-----------------------------------------------------------------------------
(* Versions.                                                               *)

AsksVersion(r) ==
    /\ Idle(r)
    /\ \E i \in DOMAIN versions, op \in {"revert", "cleanversion"} :
           /\ versions[i].file \in Files
           /\ Asks(r, [Reading(op, versions[i].file, docs[versions[i].file]) EXCEPT
                          !.ver = versions[i]])

\* RevertFileVersion: that the version cannot be deleted changes nothing.
Revert(r) ==
    LET q == req[r]
        save == [file |-> q.id, obj |-> q.snap.obj, by |-> r]
    IN  /\ Ready(r, "revert")
        /\ Section(r, <<CreateVersion(save), Check(IsDir(docs, q.snap.parent)),
                        Put(q.id, [q.snap EXCEPT !.obj = q.ver.obj, !.rev = @ + 1]),
                        BatchDeleteVersions({q.ver})>>,
                   BatchDeleteVersions({save}))

DeleteFileVersion(r) ==
    /\ Ready(r, "cleanversion")
    /\ Section(r, CleanOldVersions(<<req[r].ver>>), Nothing)

ClearOldVersions(r) ==
    \/ Idle(r) /\ Asks(r, Reading("clearversions", None, NoDoc))
    \/ /\ Ready(r, "clearversions")
       /\ Section(r, <<BatchDeleteVersions(ToSet(versions)),
                       ObjectDelete(ObjectsOf(versions))>>, Nothing)

-----------------------------------------------------------------------------
Next ==
    \/ TrashFiles
    \/ \E r \in Request :
          \/ AsksCreateDir(r) \/ CreateDir(r)
          \/ AsksPatch(r) \/ Patch(r)
          \/ AsksTrash(r) \/ TrashIt(r)
          \/ AsksRestore(r) \/ MkdirAll(r) \/ Restore(r)
          \/ AsksUpload(r) \/ StoreObject(r) \/ AbortUpload(r) \/ CloseUpload(r)
          \/ AsksCopy(r) \/ CopyFile(r)
          \/ AsksDestroy(r) \/ Destroy(r)
          \/ AsksVersion(r) \/ Revert(r) \/ DeleteFileVersion(r)
          \/ ClearOldVersions(r)

Spec == Init /\ [][Next]_vars

-----------------------------------------------------------------------------
(* Properties.                                                             *)

Id == FirstId \cup Request \cup MadeId

\* The documents and the objects have the shape the code gives them; every
\* document but the root has a name.
TypeOK ==
    /\ DOMAIN docs \subseteq Id /\ {Root, Trash} \subseteq DOMAIN docs
    /\ \A x \in DOMAIN docs :
          /\ docs[x].kind \in {"dir", "file"}
          /\ docs[x].trashed \in BOOLEAN /\ docs[x].rev \in Nat \ {0}
          /\ x # Root => docs[x].parent \in Id /\ docs[x].name # <<>>
          /\ (docs[x].kind = "file") = (docs[x].obj # None)
    /\ objects \subseteq Id \X ({0, 1} \cup Request)
    /\ \A i \in DOMAIN versions :
          <<versions[i].file, versions[i].obj>> \in Id \X ({0, 1} \cup Request)
    /\ \A r \in Request : req[r].id \in Id \cup {None}
    /\ {stale, cut, midway} \subseteq BOOLEAN

\* Two documents never have the same parent and the same name, whatever the
\* requests have read before they take the lock: the checks of CreateDir, CreateFile,
\* Close, CopyFile, UpdateFileDoc and UpdateDirDoc.
UniqueNames ==
    \A x, y \in DOMAIN docs :
        docs[x].parent = docs[y].parent /\ docs[x].name = docs[y].name => x = y

\* The content of every file and of every version is in Swift: an upload that loses
\* a race, a version that is cleaned and a retried erasure delete only their own objects.
\* Reverting to a version that has just been deleted is the exception.
ContentPresent ==
    midway \/ /\ \A f \in DOMAIN docs : docs[f].kind = "file" => <<f, docs[f].obj>> \in objects
              /\ ObjectsOf(versions) \subseteq objects

\* When nothing is interrupted, no object stays in Swift without a file, a version
\* of it, an upload or a trash-files job that will erase it: the losers of races
\* delete what they have stored, and the jobs erase the versions too.
NoLeak ==
    cut \/ objects \subseteq
              {<<f, docs[f].obj>> : f \in DOMAIN docs}
              \cup ObjectsOf(VersionsFor(versions,
                                         DOMAIN docs \cup UNION {j.files : j \in journals}))
              \cup {ObjectOf(req[r], r) : r \in {x \in Request : Ready(x, "stored")}}
              \cup UNION {j.objs : j \in journals}

\* As long as no section has used a directory that had changed since it was read,
\* and no process has died in a section, the directories are a tree, their paths are
\* those of their parents with their names, and the files below the trash, and only
\* they, are trashed.  This is what fsck checks.
TreeSound ==
    stale \/ cut \/ \A x \in DOMAIN docs \ {Root} :
        /\ IsDir(docs, docs[x].parent) /\ x \notin Under(docs, x)
        /\ docs[x].kind = "dir" => docs[x].path = PathIn(docs, docs[x])
        /\ docs[x].kind = "file" => docs[x].trashed = InTrash(PathIn(docs, docs[x]))

\* The clean-old-trashed worker only destroys what is in the trash
\* (docs/workers.md): a directory that was restored since it was listed is kept.
CleansOnlyTrash ==
    [][\A r \in Request, x \in DOMAIN docs \ DOMAIN docs' :
          ~stale /\ ~cut /\ Ready(r, "clean") /\ req'[r] # req[r] => InTrash(PathOf(x))]_vars
=============================================================================
