--------------------------- MODULE PublishedFiles ---------------------------
(***************************************************************************)
(* Published files and directories of one storage root: the create,        *)
(* rename and delete handlers of internal/httpapi/published.go and the     *)
(* startup pass of internal/publishedrecovery, over the files, directories *)
(* and object_cleanup_jobs tables and the object store.                    *)
(*                                                                         *)
(* Every database statement is atomic and checks what its triggers check;  *)
(* every handler is a sequence of such statements, so what a preflight     *)
(* read has seen may be stale when the write it allowed happens.           *)
(***************************************************************************)
EXTENDS Naturals, FiniteSets

CONSTANTS
    Paths,      \* logical paths, without the root
    Parent,     \* [Paths -> Paths \cup {Top}]: path.Dir
    Above,      \* [Paths -> SUBSET Paths]: every proper ancestor but the root
    Like,       \* [Paths -> SUBSET Paths]: every p with "q LIKE p || '/%'"
    Top,        \* "/"
    Keys,       \* object keys (bounds the objects that exist at one time)
    MaxId,      \* bound on row ids
    Handlers,   \* request goroutines
    Procs,      \* operating-system processes
    Home,       \* [Handlers -> Procs]
    PageLimit,  \* --recover-limit
    MaxMishaps, \* bound on crashes and dropped or unrecorded failures together
    None

Actors == Handlers \cup Procs
RowIds == 1..MaxId

Files == [path: Paths, key: Keys, state: {"active", "deleting"}]
Ops == {"create", "rename", "mkdir", "delete", "rmdir", "job", "tombstone"}
Frames == [op: Ops \cup {None}, id: RowIds \cup {None}, path: Paths \cup {None},
           old: Paths \cup {None}, key: Keys \cup {None}]
Todos == [jobs: SUBSET Keys, tombstones: SUBSET (RowIds \X Keys)]

Points == {"idle", "parent", "free", "object", "insert", "enqueue", "begin", "remove",
           "finalize", "complete", "rename", "mkdir", "empty", "rmdir",
           "jobs", "scan", "tombstones", "scan2"}

ASSUME PublishedAssumption ==
    /\ Home \in [Handlers -> Procs]
    /\ Handlers \cap Procs = {}
    /\ MaxId \in Nat /\ PageLimit \in Nat /\ MaxMishaps \in Nat
    /\ Top \notin Paths
    /\ Parent \in [Paths -> Paths \cup {Top}]
    /\ Above \in [Paths -> SUBSET Paths]
    /\ Like \in [Paths -> SUBSET Paths]
    /\ \A p \in Paths : Above[p] \subseteq Like[p]
    /\ \A p \in Paths :
          Above[p] = IF Parent[p] = Top THEN {} ELSE Above[Parent[p]] \cup {Parent[p]}
    /\ None \notin Paths \cup Keys \cup Actors
    /\ None \notin Ops
    /\ None \notin RowIds
    /\ None \notin Files

VARIABLES
    file,    \* the files table: [RowIds -> Files | None]
    dir,     \* the directories table: [RowIds -> Paths | None]
    jobs,    \* object_cleanup_jobs: keys
    objects, \* keys of the objects on disk
    mode,    \* [Procs -> "down" | "recovering" | "serving"]
    pc, frame, \* each goroutine's position and local variables
    todo,    \* a recovery pass's lists
    crashes, faults

tables == <<file, dir, jobs>>
bounds == <<crashes, faults>>
vars == <<file, dir, jobs, objects, mode, pc, frame, todo, crashes, faults>>

Blank == [op |-> None, id |-> None, path |-> None, old |-> None, key |-> None]
NoTodo == [jobs |-> {}, tombstones |-> {}]

ProcOf(a) == IF a \in Handlers THEN Home[a] ELSE a
HandlersOf(p) == {h \in Handlers : Home[h] = p}

Active(i) == file[i] # None /\ file[i].state = "active"
Tombstone(i) == file[i] # None /\ file[i].state = "deleting"

\* Paths of file rows, tombstones included (UNIQUE (root_id, logical_path)).
FilePaths == {file[i].path : i \in {j \in RowIds : file[j] # None}}
DirPaths == {dir[i] : i \in {j \in RowIds : dir[j] # None}}

\* Nothing lies below p, tombstones included: DirectoryEmpty compares prefixes, the
\* trigger on deletion uses LIKE, which ignores case and knows wildcards.
EmptyBelow(p) == \A q \in FilePaths \cup DirPaths : p \notin Above[q]
UnlikeBelow(p) == \A q \in FilePaths \cup DirPaths : p \notin Like[q]

\* INTEGER PRIMARY KEY: one more than the largest id in the table.
NextId(table, i) ==
    /\ table[i] = None
    /\ \A j \in RowIds : table[j] # None => j < i
    /\ i = 1 \/ (i - 1 \in RowIds /\ table[i - 1] # None)

Init ==
    /\ file = [i \in RowIds |-> None]
    /\ dir = [i \in RowIds |-> None]
    /\ jobs = {}
    /\ objects = {}
    /\ mode = [p \in Procs |-> "down"]
    /\ pc = [a \in Actors |-> "idle"]
    /\ frame = [a \in Actors |-> Blank]
    /\ todo = [p \in Procs |-> NoTodo]
    /\ crashes = 0
    /\ faults = 0

-----------------------------------------------------------------------------
(* Control                                                                  *)

Goto(a, l) == pc' = [pc EXCEPT ![a] = l]

\* A request is answered; a recovery pass goes on with the list it is in.
Return(a) ==
    /\ pc' = [pc EXCEPT ![a] = IF a \in Handlers THEN "idle"
                               ELSE IF frame[a].op = "job" THEN "scan" ELSE "scan2"]
    /\ frame' = [frame EXCEPT ![a] = Blank]

\* After recovery a server serves, a --recover-only process exits.
EndRecovery(p) ==
    /\ mode' = [mode EXCEPT ![p] = IF HandlersOf(p) = {} THEN "down" ELSE "serving"]
    /\ pc' = [pc EXCEPT ![p] = "idle"]
    /\ frame' = [frame EXCEPT ![p] = Blank]
    /\ todo' = [todo EXCEPT ![p] = NoTodo]

Idle(h) == pc[h] = "idle" /\ mode[Home[h]] = "serving"

Fault == crashes + faults < MaxMishaps /\ faults' = faults + 1

\* A database or context error, or a statement that matches no row, before any
\* effect: a handler answers with an error, a recovery pass ends.  At "insert" an
\* error leads to compensation, at "enqueue" to EnqueueFails.
Abandon(a) ==
    /\ \/ /\ a \in Handlers
          /\ pc[a] \in {"parent", "free", "object", "begin", "finalize", "complete",
                        "rename", "mkdir", "empty", "rmdir"}
          /\ Return(a) /\ UNCHANGED <<mode, todo>>
       \/ /\ a \in Procs
          /\ pc[a] \in {"jobs", "scan", "tombstones", "scan2", "finalize", "complete"}
          /\ EndRecovery(a)
    /\ UNCHANGED <<tables, objects, bounds>>

-----------------------------------------------------------------------------
(* Preflight reads                                                          *)

BeginCreate(h) ==
    /\ Idle(h)
    /\ \E p \in Paths, op \in {"create", "mkdir"} :
          frame' = [frame EXCEPT ![h] = [Blank EXCEPT !.op = op, !.path = p]]
    /\ Goto(h, "parent")
    /\ UNCHANGED <<tables, objects, mode, todo, bounds>>

\* FileByID sees active files only.
BeginRename(h) ==
    /\ Idle(h)
    /\ \E i \in RowIds, p \in Paths :
          /\ Active(i)
          /\ frame' = [frame EXCEPT ![h] = [Blank EXCEPT !.op = "rename", !.id = i,
                                               !.old = file[i].path, !.path = p]]
    /\ Goto(h, "free")
    /\ UNCHANGED <<tables, objects, mode, todo, bounds>>

\* path.Dir of the destination must be the root or a directory.
CheckParent(h) ==
    /\ pc[h] = "parent"
    /\ \/ /\ Parent[frame[h].path] \in DirPaths \cup {Top}
          /\ Goto(h, IF frame[h].op = "rename" THEN "rename" ELSE "free")
          /\ UNCHANGED frame
       \/ Parent[frame[h].path] \notin DirPaths \cup {Top} /\ Return(h)
    /\ UNCHANGED <<tables, objects, mode, todo, bounds>>

\* FileByRootAndPath(destination) must find nothing; it sees active files only.
CheckFree(h) ==
    LET taken == \E i \in RowIds : Active(i) /\ file[i].path = frame[h].path IN
    /\ pc[h] = "free"
    /\ \/ /\ ~taken
          /\ Goto(h, CASE frame[h].op = "create" -> "object"
                       [] frame[h].op = "mkdir" -> "mkdir"
                       [] frame[h].op = "rename" -> "parent")
          /\ UNCHANGED frame
       \/ taken /\ Return(h)
    /\ UNCHANGED <<tables, objects, mode, todo, bounds>>

-----------------------------------------------------------------------------
(* Creating and renaming                                                    *)

\* CreateContent names its object with 32 random bytes.
FreshKeys == {k \in Keys : /\ k \notin objects \cup jobs
                           /\ \A i \in RowIds : file[i] # None => file[i].key # k
                           /\ \A a \in Actors : frame[a].key # k
                           /\ \A p \in Procs : /\ k \notin todo[p].jobs
                                               /\ \A t \in todo[p].tombstones : t[2] # k}

\* Faulty variant: the key is assigned to a shadowing variable.
CreateObjectShadowed(h) ==
    /\ pc[h] = "object"
    /\ \E k \in FreshKeys : objects' = objects \cup {k}
    /\ Goto(h, "insert")
    /\ UNCHANGED <<tables, mode, frame, todo, bounds>>

CreateObject(h) ==
    /\ pc[h] = "object"
    /\ \E k \in FreshKeys :
          /\ objects' = objects \cup {k}
          /\ frame' = [frame EXCEPT ![h].key = k]
    /\ Goto(h, "insert")
    /\ UNCHANGED <<tables, mode, todo, bounds>>

\* CreateContent: writing fails and so does the removal, whose result is dropped.
CreateContentFails(h) ==
    /\ pc[h] = "object"
    /\ Fault
    /\ \E k \in FreshKeys : objects' = objects \cup {k}
    /\ Return(h)
    /\ UNCHANGED <<tables, mode, todo, crashes>>

\* INSERT INTO files: the path is no file's (UNIQUE) and no directory's (trigger).
InsertFileRow(p, k) ==
    /\ p \notin FilePaths \cup DirPaths
    /\ \E i \in RowIds :
          /\ NextId(file, i)
          /\ file' = [file EXCEPT ![i] = [path |-> p, key |-> k, state |-> "active"]]

CreateFile(h) ==
    /\ pc[h] = "insert"
    /\ InsertFileRow(frame[h].path, frame[h].key)
    /\ Return(h)
    /\ UNCHANGED <<dir, jobs, objects, mode, todo, bounds>>

\* Faulty variant: nothing is done about the object.
CreateFileFailsSilently(h) ==
    /\ pc[h] = "insert"
    /\ Return(h)
    /\ UNCHANGED <<tables, objects, mode, todo, bounds>>

\* Path taken meanwhile, or a database error.
CreateFileFails(h) ==
    /\ pc[h] = "insert"
    /\ Goto(h, "enqueue")
    /\ UNCHANGED <<tables, objects, mode, frame, todo, bounds>>

EnqueueObjectCleanup(h) ==
    /\ pc[h] = "enqueue"
    /\ jobs' = jobs \cup {frame[h].key}
    /\ Goto(h, "remove")
    /\ UNCHANGED <<file, dir, objects, mode, frame, todo, bounds>>

\* The request's context is cancelled: the cleanup is not recorded and the object
\* stays.
EnqueueFails(h) ==
    /\ pc[h] = "enqueue"
    /\ Fault
    /\ Return(h)
    /\ UNCHANGED <<tables, objects, mode, todo, crashes>>

\* An upload session publishes: its object and its row, or neither.
UploadPublishes(h) ==
    /\ Idle(h)
    /\ \E p \in Paths, k \in FreshKeys :
          /\ InsertFileRow(p, k)
          /\ objects' = objects \cup {k}
    /\ UNCHANGED <<dir, jobs, mode, pc, frame, todo, bounds>>

\* UPDATE files SET logical_path: the row must still be active and have its old
\* path, and no other file may have the new one.  No trigger looks at directories.
RenameFile(h) ==
    LET i == frame[h].id IN
    /\ pc[h] = "rename"
    /\ Active(i) /\ file[i].path = frame[h].old
    /\ frame[h].path \notin FilePaths
    /\ file' = [file EXCEPT ![i].path = frame[h].path]
    /\ Return(h)
    /\ UNCHANGED <<dir, jobs, objects, mode, todo, bounds>>

\* Faulty variant: the trigger on parents is missing.
ParentUnchecked(p) == TRUE

\* directories_parent_directory_exists: below the root, or LIKE below some directory.
ParentExists(p) == Parent[p] = Top \/ Like[p] \cap DirPaths # {}

CreateDirectory(h) ==
    LET p == frame[h].path IN
    /\ pc[h] = "mkdir"
    /\ p \notin FilePaths \cup DirPaths
    /\ ParentExists(p)
    /\ \E i \in RowIds : NextId(dir, i) /\ dir' = [dir EXCEPT ![i] = p]
    /\ Return(h)
    /\ UNCHANGED <<file, jobs, objects, mode, todo, bounds>>

-----------------------------------------------------------------------------
(* Deleting                                                                 *)

BeginDelete(h) ==
    /\ Idle(h)
    /\ \E i \in RowIds :
          /\ Active(i)
          /\ frame' = [frame EXCEPT ![h] =
                          [Blank EXCEPT !.op = "delete", !.id = i, !.key = file[i].key]]
    /\ Goto(h, "begin")
    /\ UNCHANGED <<tables, objects, mode, todo, bounds>>

\* Faulty variant: the row stays active.
Untouched(f) == f

Tombstoned(f) == [f EXCEPT !.state = "deleting"]

BeginFileDelete(h) ==
    LET i == frame[h].id IN
    /\ pc[h] = "begin"
    /\ Active(i) /\ file[i].key = frame[h].key
    /\ file' = [file EXCEPT ![i] = Tombstoned(@)]
    /\ Goto(h, "remove")
    /\ UNCHANGED <<dir, jobs, objects, mode, frame, todo, bounds>>

\* ObjectStore.Remove: an object that is already gone is an error.
RemoveObject(a) ==
    LET k == frame[a].key IN
    /\ pc[a] = "remove"
    /\ \/ /\ k \in objects
          /\ objects' = objects \ {k}
          /\ Goto(a, IF frame[a].op \in {"create", "job"} THEN "complete" ELSE "finalize")
          /\ UNCHANGED frame
       \/ k \notin objects /\ Return(a) /\ UNCHANGED objects
    /\ UNCHANGED <<tables, mode, todo, bounds>>

\* Remove reports an error, with the object (the unlink failed) or without (the
\* directory could not be synced).
RemoveFails(a) ==
    /\ pc[a] = "remove"
    /\ Fault
    /\ objects' \in {objects, objects \ {frame[a].key}}
    /\ Return(a)
    /\ UNCHANGED <<tables, mode, todo, crashes>>

\* The tombstone goes; in recovery a row that is already gone is no error.
FinalizeFileDelete(a) ==
    LET i == frame[a].id IN
    /\ pc[a] = "finalize"
    /\ \/ /\ Tombstone(i) /\ file[i].key = frame[a].key
          /\ file' = [file EXCEPT ![i] = None]
       \/ ~(Tombstone(i) /\ file[i].key = frame[a].key) /\ UNCHANGED file
    /\ Return(a)
    /\ UNCHANGED <<dir, jobs, objects, mode, todo, bounds>>

CompleteObjectCleanup(a) ==
    /\ pc[a] = "complete"
    /\ jobs' = jobs \ {frame[a].key}
    /\ Return(a)
    /\ UNCHANGED <<file, dir, objects, mode, todo, bounds>>

BeginRmdir(h) ==
    /\ Idle(h)
    /\ \E i \in RowIds :
          /\ dir[i] # None
          /\ frame' = [frame EXCEPT ![h] = [Blank EXCEPT !.op = "rmdir", !.id = i, !.path = dir[i]]]
    /\ Goto(h, "empty")
    /\ UNCHANGED <<tables, objects, mode, todo, bounds>>

\* DirectoryEmpty looks below the path that was read.
DirectoryEmpty(h) ==
    /\ pc[h] = "empty"
    /\ \/ EmptyBelow(frame[h].path) /\ Goto(h, "rmdir") /\ UNCHANGED frame
       \/ ~EmptyBelow(frame[h].path) /\ Return(h)
    /\ UNCHANGED <<tables, objects, mode, todo, bounds>>

\* DELETE FROM directories: the trigger looks below the row's own path.
DeleteDirectory(h) ==
    LET i == frame[h].id IN
    /\ pc[h] = "rmdir"
    /\ dir[i] # None /\ UnlikeBelow(dir[i])
    /\ dir' = [dir EXCEPT ![i] = None]
    /\ Return(h)
    /\ UNCHANGED <<file, jobs, objects, mode, todo, bounds>>

-----------------------------------------------------------------------------
(* Recovery                                                                 *)

Boot(p) ==
    /\ mode[p] = "down"
    /\ mode' = [mode EXCEPT ![p] = "recovering"]
    /\ Goto(p, "jobs")
    /\ UNCHANGED <<tables, objects, frame, todo, bounds>>

\* Faulty variant: one item less than there is room for.
ShortPage(S, all) ==
    S \subseteq all /\ Cardinality(S) + 1 >= Cardinality(all) /\ Cardinality(S) <= PageLimit

\* LIMIT: everything, or as many as the limit allows.
Page(S, all) ==
    /\ S \subseteq all
    /\ IF Cardinality(all) <= PageLimit THEN S = all ELSE Cardinality(S) = PageLimit

ObjectCleanupJobs(p) ==
    /\ pc[p] = "jobs"
    /\ \E S \in SUBSET jobs : Page(S, jobs) /\ todo' = [todo EXCEPT ![p].jobs = S]
    /\ Goto(p, "scan")
    /\ UNCHANGED <<tables, objects, mode, frame, bounds>>

ScanJob(p) ==
    /\ pc[p] = "scan"
    /\ \/ \E k \in todo[p].jobs :
             /\ todo' = [todo EXCEPT ![p].jobs = @ \ {k}]
             /\ frame' = [frame EXCEPT ![p] = [Blank EXCEPT !.op = "job", !.key = k]]
             /\ Goto(p, "remove")
       \/ todo[p].jobs = {} /\ Goto(p, "tombstones") /\ UNCHANGED <<frame, todo>>
    /\ UNCHANGED <<tables, objects, mode, bounds>>

DeletingFiles(p) ==
    LET all == {<<i, file[i].key>> : i \in {j \in RowIds : Tombstone(j)}} IN
    /\ pc[p] = "tombstones"
    /\ \E S \in SUBSET all : Page(S, all) /\ todo' = [todo EXCEPT ![p].tombstones = S]
    /\ Goto(p, "scan2")
    /\ UNCHANGED <<tables, objects, mode, frame, bounds>>

ScanTombstone(p) ==
    /\ pc[p] = "scan2"
    /\ \E t \in todo[p].tombstones :
          /\ todo' = [todo EXCEPT ![p].tombstones = @ \ {t}]
          /\ frame' = [frame EXCEPT ![p] =
                          [Blank EXCEPT !.op = "tombstone", !.id = t[1], !.key = t[2]]]
    /\ Goto(p, "remove")
    /\ UNCHANGED <<tables, objects, mode, bounds>>

FinishRecovery(p) ==
    /\ pc[p] = "scan2" /\ todo[p].tombstones = {}
    /\ EndRecovery(p)
    /\ UNCHANGED <<tables, objects, bounds>>

Crash(p) ==
    /\ mode[p] # "down"
    /\ crashes + faults < MaxMishaps
    /\ crashes' = crashes + 1
    /\ mode' = [mode EXCEPT ![p] = "down"]
    /\ pc' = [a \in Actors |-> IF ProcOf(a) = p THEN "idle" ELSE pc[a]]
    /\ frame' = [a \in Actors |-> IF ProcOf(a) = p THEN Blank ELSE frame[a]]
    /\ todo' = [todo EXCEPT ![p] = NoTodo]
    /\ UNCHANGED <<tables, objects, faults>>

-----------------------------------------------------------------------------
Creating(h) ==
    \/ BeginCreate(h) \/ CheckParent(h) \/ CheckFree(h) \/ CreateObject(h)
    \/ CreateContentFails(h) \/ CreateFile(h) \/ CreateFileFails(h)
    \/ EnqueueObjectCleanup(h) \/ EnqueueFails(h) \/ CreateDirectory(h) \/ UploadPublishes(h)

Changing(h) ==
    \/ BeginRename(h) \/ RenameFile(h) \/ BeginDelete(h) \/ BeginFileDelete(h)
    \/ BeginRmdir(h) \/ DirectoryEmpty(h) \/ DeleteDirectory(h)

Removing(a) ==
    \/ RemoveObject(a) \/ RemoveFails(a) \/ FinalizeFileDelete(a) \/ CompleteObjectCleanup(a)
    \/ Abandon(a)

Recovering(p) ==
    \/ Boot(p) \/ ObjectCleanupJobs(p) \/ ScanJob(p) \/ DeletingFiles(p) \/ ScanTombstone(p)
    \/ FinishRecovery(p) \/ Crash(p)

Next ==
    \/ \E h \in Handlers : Creating(h) \/ Changing(h)
    \/ \E a \in Actors : Removing(a)
    \/ \E p \in Procs : Recovering(p)

Spec == Init /\ [][Next]_vars

-----------------------------------------------------------------------------
(* Properties                                                               *)

\* The shapes of all variables.
TypeOK ==
    /\ file \in [RowIds -> Files \cup {None}]
    /\ dir \in [RowIds -> Paths \cup {None}]
    /\ jobs \subseteq Keys
    /\ objects \subseteq Keys
    /\ mode \in [Procs -> {"down", "recovering", "serving"}]
    /\ pc \in [Actors -> Points]
    /\ frame \in [Actors -> Frames]
    /\ todo \in [Procs -> Todos]
    /\ crashes \in Nat /\ faults \in Nat

\* published.go:402-406 and storage.CreateContent: what a reader can look up has
\* its object, although deletions, compensations and recovery passes of several
\* processes remove objects without holding any lock.
ActiveHasObject == \A i \in RowIds : Active(i) => file[i].key \in objects

\* published.go:161-162: as long as no process crashed and no cleanup went
\* unrecorded, an object without a row is on the list of cleanup jobs or in the
\* hands of the handler that created it: storage is never lost.
NothingLost ==
    crashes = 0 /\ faults = 0 =>
        \A k \in objects :
            \/ \E i \in RowIds : file[i] # None /\ file[i].key = k
            \/ k \in jobs
            \/ \E h \in Handlers : frame[h].key = k /\ pc[h] \in {"insert", "enqueue"}

\* 008_published_parent_invariant.sql:7-13 and directories_must_be_empty: whichever
\* of "create child" and "delete parent" commits first, the triggers leave no
\* directory without one that it is LIKE below.  (The comment at lines 1-4 promises that
\* its own parent remains, which the trigger does not look at.)
DirectoriesRooted ==
    \A i \in RowIds : dir[i] # None =>
        \/ Parent[dir[i]] = Top
        \/ \E q \in Like[dir[i]] : q \in DirPaths

\* README.md:74: a startup pass with room for everything, and without a failing
\* removal, leaves no object of a deleted file and none of a recorded cleanup.
RecoveryReclaims ==
    [][\A p \in Procs :
        (/\ FinishRecovery(p) /\ mode'[p] = "serving" /\ faults = 0
         /\ PageLimit >= MaxId /\ PageLimit >= Cardinality(Keys)) =>
            /\ jobs \cap objects = {}
            /\ \A i \in RowIds : Tombstone(i) => file[i].key \notin objects]_vars

\* docs/operations.md:125: a deletion that was interrupted is retried until its
\* row is gone: a tombstone still has the object a retry begins with, or is being
\* finalized.
TombstonesRetryable ==
    \A i \in RowIds : Tombstone(i) =>
        \/ file[i].key \in objects
        \/ \E a \in Actors : pc[a] = "finalize" /\ frame[a].id = i /\ frame[a].key = file[i].key
=============================================================================
