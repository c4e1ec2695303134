--------------------------- MODULE UploadSessions ---------------------------
(***************************************************************************)
(* Resumable uploads: internal/upload/session.go with the repository and   *)
(* object-store operations it calls, run by several operating-system       *)
(* processes over one SQLite database and one storage root.                *)
(*                                                                         *)
(* A process first reconciles (Recover, on its main goroutine), then       *)
(* serves requests on its handlers; a process without handlers is a        *)
(* --recover-only run.  A crash is a process crash: database and file      *)
(* system keep what was written, advisory locks are released.              *)
(***************************************************************************)
EXTENDS Naturals, Sequences, FiniteSets

CONSTANTS
    Ids,        \* upload session ids
    Paths,      \* logical paths of one storage root
    Keys,       \* object keys (bounds the objects that exist at one time)
    Data,       \* units of content
    MaxLength,  \* bound on a declared length
    Handlers,   \* request goroutines
    Procs,      \* operating-system processes, each with its main goroutine
    Home,       \* [Handlers -> Procs]
    PageLimit,  \* --recover-limit
    MaxCrashes, \* bound on process crashes
    MaxFaults,  \* bound on storage calls that fail after taking effect or are ignored
    None,       \* "no such row, file, object or owner"
    Hole        \* the zero byte a truncate beyond the end of a file leaves

Actors == Handlers \cup Procs

Content == Seq(Data \cup {Hole})
Statuses == {"active", "cancelled", "cleanup_pending"}
Rows == [status: Statuses, offset: 0..MaxLength, length: 0..MaxLength, path: Paths]
Files == [key: Keys, size: Nat, from: Ids]
Ops == {"create", "write", "complete", "publish", "cancel", "expire", "recover"}
Frames == [op: Ops \cup {None}, id: Ids \cup {None}, snap: Rows \cup {None},
           data: Content, key: Keys \cup {None}]
Todos == [page: SUBSET Ids, names: SUBSET Ids]

Points == {"idle", "staged", "blocked", "locked", "copied", "cleaning", "unlinked",
           "hashed", "renamed", "rollback", "rows", "names", "scan", "sidecar",
           "orphan", "doomed"}

ASSUME UploadAssumption ==
    /\ Home \in [Handlers -> Procs]
    /\ Handlers \cap Procs = {}
    /\ MaxLength \in Nat /\ PageLimit \in Nat /\ MaxCrashes \in Nat /\ MaxFaults \in Nat
    /\ None \notin Ids \cup Keys \cup Actors \cup Paths \cup Ops
    /\ None \notin Rows
    /\ None \notin Files
    /\ None \notin Content
    /\ Hole \notin Data

VARIABLES
    row,       \* upload_sessions: [Ids -> Rows | None]
    expired,   \* sessions whose expires_at has passed
    part,      \* staging/<id>.part: content or None
    sidecars,  \* sessions whose staging/<id>.part.lock exists (never removed)
    lock,      \* owner of that sidecar's flock (and of the process mutex)
    objects,   \* objects/<key>: content or None
    files,     \* the files table
    mode,      \* [Procs -> "down" | "recovering" | "serving"]
    pc, frame, \* each goroutine's position and local variables
    todo,      \* a recovery run's page of rows and list of names
    acked,     \* history: bytes acknowledged to the client
    born,      \* history: sessions whose row was inserted
    crashes, faults

store == <<row, expired, part, sidecars, objects, files>>
local == <<pc, frame, todo>>
ghost == <<acked, born>>
bounds == <<crashes, faults>>
vars == <<row, expired, part, sidecars, lock, objects, files, mode, pc, frame, todo,
          acked, born, crashes, faults>>

Blank == [op |-> None, id |-> None, snap |-> None, data |-> <<>>, key |-> None]
NoTodo == [page |-> {}, names |-> {}]

ProcOf(a) == IF a \in Handlers THEN Home[a] ELSE a
HandlersOf(p) == {h \in Handlers : Home[h] = p}

Min2(m, n) == IF m < n THEN m ELSE n
Max2(m, n) == IF m < n THEN n ELSE m

\* ftruncate: cuts, or extends with zero bytes.
Truncated(s, n) == [i \in 1..n |-> IF i <= Len(s) THEN s[i] ELSE Hole]

\* Seek to off and write d.
Patched(s, off, d) ==
    [i \in 1..Max2(Len(s), off + Len(d)) |->
        IF i \in (off + 1)..(off + Len(d)) THEN d[i - off]
        ELSE IF i <= Len(s) THEN s[i] ELSE Hole]

\* Faulty variant: the status is not asked for.
LiveWhateverStatus(i, r) == i \notin expired

\* status = 'active' and expires_at > now, for a row read as r.
Live(i, r) == r.status = "active" /\ i \notin expired

Init ==
    /\ row = [i \in Ids |-> None]
    /\ expired = {}
    /\ part = [i \in Ids |-> None]
    /\ sidecars = {}
    /\ lock = [i \in Ids |-> None]
    /\ objects = [k \in Keys |-> None]
    /\ files = [p \in Paths |-> None]
    /\ mode = [p \in Procs |-> "down"]
    /\ pc = [a \in Actors |-> "idle"]
    /\ frame = [a \in Actors |-> Blank]
    /\ todo = [p \in Procs |-> NoTodo]
    /\ acked = [i \in Ids |-> <<>>]
    /\ born = {}
    /\ crashes = 0
    /\ faults = 0

-----------------------------------------------------------------------------
(* Locks and returns                                                        *)

\* A call ends: a handler has answered its request, a recovery run goes on to
\* its next item.
Return(a) ==
    /\ pc' = [pc EXCEPT ![a] = IF a \in Procs THEN "scan" ELSE "idle"]
    /\ frame' = [frame EXCEPT ![a] = Blank]

\* After startup recovery, finished or failed, a server serves; a
\* --recover-only process exits.
EndRecovery(p) ==
    /\ mode' = [mode EXCEPT ![p] = IF HandlersOf(p) = {} THEN "down" ELSE "serving"]
    /\ pc' = [pc EXCEPT ![p] = "idle"]
    /\ frame' = [frame EXCEPT ![p] = Blank]
    /\ todo' = [todo EXCEPT ![p] = NoTodo]

Goto(a, l) == pc' = [pc EXCEPT ![a] = l]

Unlock(i) == lock' = [lock EXCEPT ![i] = None]

\* Faulty variant: the lock is kept.
ReturnHoldingLock(a) == Return(a) /\ UNCHANGED lock

UnlockAndReturn(a) == Unlock(frame[a].id) /\ Return(a)

\* Faulty variant: only the process mutex, which another process does not see.
MutexFree(a, i) == lock[i] = None \/ ProcOf(lock[i]) # ProcOf(a)

\* The flock is free (the process mutex alone would not see another process).
LockFree(a, i) == lock[i] = None

\* A storage call whose failure the code cannot undo or does not look at.
Fault == faults < MaxFaults /\ faults' = faults + 1

\* withLifecycleLock up to fn: mutex, row, flock, row again.
Acquire(a) ==
    LET i == frame[a].id IN
    /\ pc[a] = "blocked"
    /\ row[i] # None
    /\ LockFree(a, i)
    /\ lock' = [lock EXCEPT ![i] = a]
    /\ sidecars' = sidecars \cup {i}
    /\ frame' = [frame EXCEPT ![a].snap = row[i]]
    /\ Goto(a, "locked")
    /\ UNCHANGED <<row, expired, part, objects, files, mode, todo, ghost, bounds>>

\* ... whose first or second read finds no row.
AcquireGone(a) ==
    /\ pc[a] = "blocked"
    /\ row[frame[a].id] = None
    /\ Return(a)
    /\ UNCHANGED <<store, lock, mode, todo, ghost, bounds>>

\* A database or context error ends the call where it is, locked or still
\* waiting; in a recovery run it ends the run.
GiveUp(a) ==
    /\ \/ a \in Procs /\ EndRecovery(a)
       \/ a \in Handlers /\ Return(a) /\ UNCHANGED <<mode, todo>>
    /\ UNCHANGED <<store, ghost, bounds>>

AcquireFails(a) ==
    /\ pc[a] = "blocked"
    /\ GiveUp(a)
    /\ UNCHANGED lock

Abandon(a) ==
    /\ pc[a] \in {"locked", "cleaning", "unlinked", "orphan", "doomed"}
    /\ Unlock(frame[a].id)
    /\ GiveUp(a)

-----------------------------------------------------------------------------
(* Create                                                                   *)

\* A random id names nothing that exists or that anybody remembers.
FreshIds == {i \in Ids : /\ i \notin born \cup sidecars
                         /\ part[i] = None
                         /\ \A a \in Actors : frame[a].id # i
                         /\ \A p \in Procs : i \notin todo[p].names}

CreatePart(h) ==
    /\ pc[h] = "idle" /\ mode[Home[h]] = "serving"
    /\ \E i \in FreshIds :
          /\ part' = [part EXCEPT ![i] = <<>>]
          /\ frame' = [frame EXCEPT ![h] = [Blank EXCEPT !.op = "create", !.id = i]]
    /\ Goto(h, "staged")
    /\ UNCHANGED <<row, expired, sidecars, lock, objects, files, mode, todo, ghost, bounds>>

InsertRow(h) ==
    LET i == frame[h].id IN
    /\ pc[h] = "staged"
    /\ \E n \in 0..MaxLength, p \in Paths :
          row' = [row EXCEPT ![i] = [status |-> "active", offset |-> 0, length |-> n, path |-> p]]
    /\ born' = born \cup {i}
    /\ Return(h)
    /\ UNCHANGED <<expired, part, sidecars, lock, objects, files, mode, todo, acked, bounds>>

InsertFails(h) ==
    /\ pc[h] = "staged"
    /\ part' = [part EXCEPT ![frame[h].id] = None]
    /\ Return(h)
    /\ UNCHANGED <<row, expired, sidecars, lock, objects, files, mode, todo, ghost, bounds>>

\* ... and the removal of the part, whose result is dropped, fails too.
InsertFailsLeavingPart(h) ==
    /\ pc[h] = "staged"
    /\ Fault
    /\ Return(h)
    /\ UNCHANGED <<store, lock, mode, todo, ghost, crashes>>

Expire(i) ==
    /\ row[i] # None /\ i \notin expired
    /\ expired' = expired \cup {i}
    /\ UNCHANGED <<row, part, sidecars, lock, objects, files, mode, local, ghost, bounds>>

-----------------------------------------------------------------------------
(* Requests on a session                                                    *)

\* sessionFor: Get reads the row without a lock and cleans up a dead session.
Arrive(h) ==
    /\ pc[h] = "idle" /\ mode[Home[h]] = "serving"
    /\ \E i \in Ids, op \in {"write", "complete", "cancel"} :
          /\ row[i] # None
          /\ frame' = [frame EXCEPT ![h] =
                          [Blank EXCEPT !.op = IF Live(i, row[i]) THEN op ELSE "expire",
                                        !.id = i]]
    /\ Goto(h, "blocked")
    /\ UNCHANGED <<store, lock, mode, todo, ghost, bounds>>

\* HEAD, and any request for a session that does not exist, changes nothing.
Answer(h) ==
    /\ pc[h] = "idle" /\ mode[Home[h]] = "serving"
    /\ UNCHANGED vars

\* Faulty variant: an offset before the recorded one is accepted as well.
OffsetReached(off, s) == off <= s.offset

\* The offset check of Write.
OffsetMatches(off, s) == off = s.offset

\* Faulty variant: the byte read to notice a body that is too large is kept.
FitsOneOver(s, d) == Len(d) <= s.length - s.offset + 1

\* ErrTooLarge otherwise.
Fits(s, d) == Len(d) <= s.length - s.offset

\* Write: the client's offset must be the recorded one; whatever follows the
\* recorded offset is cut off, and at most one byte too many is taken.
WriteBody(h) ==
    LET i == frame[h].id
        s == frame[h].snap
    IN
    /\ pc[h] = "locked" /\ frame[h].op = "write"
    /\ part[i] # None
    /\ Live(i, s)
    /\ \E off \in 0..MaxLength :
          /\ OffsetMatches(off, s)
          /\ \E n \in 0..(s.length - off + 1) : \E d \in [1..n -> Data] :
                /\ part' = [part EXCEPT ![i] = Patched(Truncated(@, s.offset), off, d)]
                /\ frame' = [frame EXCEPT ![h].data = d]
    /\ Goto(h, "copied")
    /\ UNCHANGED <<row, expired, sidecars, lock, objects, files, mode, todo, ghost, bounds>>

\* ErrOffset, or a part that cannot be opened.
WriteRefused(h) ==
    LET i == frame[h].id
        s == frame[h].snap
    IN
    /\ pc[h] = "locked" /\ frame[h].op = "write"
    /\ \/ part[i] = None
       \/ Live(i, s) /\ \E off \in 0..MaxLength : off # s.offset
    /\ UnlockAndReturn(h)
    /\ UNCHANGED <<store, mode, todo, ghost, bounds>>

\* The offset compare-and-swap: its commit is the acknowledgement.
WriteCommit(h) ==
    LET i == frame[h].id
        s == frame[h].snap
        n == Len(frame[h].data)
    IN
    /\ pc[h] = "copied"
    /\ Fits(s, frame[h].data)
    /\ row[i] # None /\ row[i].offset = s.offset
    /\ row' = [row EXCEPT ![i].offset = s.offset + n]
    /\ acked' = [acked EXCEPT ![i] = @ \o frame[h].data]
    /\ UnlockAndReturn(h)
    /\ UNCHANGED <<expired, part, sidecars, objects, files, mode, todo, born, bounds>>

\* Client gone, body too large, sync or CAS failed: cut back to the offset,
\* through the open file handle.
WriteUndone(h) ==
    LET i == frame[h].id
        s == frame[h].snap
    IN
    /\ pc[h] = "copied"
    /\ part' = [part EXCEPT ![i] = IF @ = None THEN None ELSE Truncated(@, s.offset)]
    /\ UnlockAndReturn(h)
    /\ UNCHANGED <<row, expired, sidecars, objects, files, mode, todo, ghost, bounds>>

\* The same, when the truncate (whose result is dropped) does nothing.
WriteNotUndone(h) ==
    /\ pc[h] = "copied"
    /\ Fault
    /\ UnlockAndReturn(h)
    /\ UNCHANGED <<store, mode, todo, ghost, crashes>>

-----------------------------------------------------------------------------
(* Complete                                                                 *)

\* What each critical section of Complete asks of session i, read as s: that the
\* row is live and complete and that its part exists.
Completable(i, s) == Live(i, s) /\ s.offset = s.length /\ part[i] # None
\* Faulty variant: the size of the part is not compared.
HashableAnySize(i, s) == Completable(i, s)

\* The first critical section also compares the size.
Hashable(i, s) == Completable(i, s) /\ Len(part[i]) = s.length

HashStaging(h) ==
    LET i == frame[h].id IN
    /\ pc[h] = "locked" /\ frame[h].op = "complete"
    /\ Hashable(i, frame[h].snap)
    /\ frame' = [frame EXCEPT ![h].data = part[i], ![h].snap = None]
    /\ Goto(h, "hashed")
    /\ Unlock(i)
    /\ UNCHANGED <<store, mode, todo, ghost, bounds>>

\* ErrIncomplete, ErrNotFound or a missing part, in either critical section.
CompleteRefused(h) ==
    LET i == frame[h].id
        s == frame[h].snap
    IN
    /\ pc[h] = "locked" /\ frame[h].op \in {"complete", "publish"}
    /\ ~(IF frame[h].op = "complete" THEN Hashable(i, s) ELSE Completable(i, s))
    /\ UnlockAndReturn(h)
    /\ UNCHANGED <<store, mode, todo, ghost, bounds>>

ChecksumAccepted(h) ==
    /\ pc[h] = "hashed"
    /\ frame' = [frame EXCEPT ![h].op = "publish"]
    /\ Goto(h, "blocked")
    /\ UNCHANGED <<store, lock, mode, todo, ghost, bounds>>

ChecksumRefused(h) ==
    /\ pc[h] = "hashed"
    /\ Return(h)
    /\ UNCHANGED <<store, lock, mode, todo, ghost, bounds>>

\* PublishStaging names its object with 32 random bytes.
FreshKeys == {k \in Keys : objects[k] = None /\ \A p \in Paths : files[p] # None => files[p].key # k}

\* The rename of PublishStaging to a fresh key k.
MovePart(i, k) ==
    /\ objects' = [objects EXCEPT ![k] = part[i]]
    /\ part' = [part EXCEPT ![i] = None]

MayPublish(h) ==
    /\ pc[h] = "locked" /\ frame[h].op = "publish"
    /\ Completable(frame[h].id, frame[h].snap)

PublishStaging(h) ==
    /\ MayPublish(h)
    /\ \E k \in FreshKeys :
          /\ MovePart(frame[h].id, k)
          /\ frame' = [frame EXCEPT ![h].key = k]
    /\ Goto(h, "renamed")
    /\ UNCHANGED <<row, expired, sidecars, lock, files, mode, todo, ghost, bounds>>

\* A directory fsync fails after the rename: Complete returns, nothing is undone.
PublishUnsynced(h) ==
    /\ MayPublish(h)
    /\ \E k \in FreshKeys : MovePart(frame[h].id, k)
    /\ Fault
    /\ UnlockAndReturn(h)
    /\ UNCHANGED <<row, expired, sidecars, files, mode, todo, ghost, crashes>>

\* Faulty variant: the path may be taken.
PathIgnored(p) == TRUE

\* files is UNIQUE (root_id, logical_path).
PathFree(p) == files[p] = None

\* CompleteUpload's transaction: the session must still be active and unexpired,
\* the path must be free.
CommitFile(h) ==
    LET i == frame[h].id
        s == frame[h].snap
    IN
    /\ pc[h] = "renamed"
    /\ row[i] # None /\ Live(i, row[i])
    /\ PathFree(s.path)
    /\ row' = [row EXCEPT ![i] = None]
    /\ files' = [files EXCEPT ![s.path] = [key |-> frame[h].key, size |-> s.length, from |-> i]]
    /\ UnlockAndReturn(h)
    /\ UNCHANGED <<expired, part, sidecars, objects, mode, todo, ghost, bounds>>

\* Faulty variant: the part is not brought back.
CommitFailsUnrestored(h) ==
    /\ pc[h] = "renamed"
    /\ UnlockAndReturn(h)
    /\ UNCHANGED <<store, mode, todo, ghost, bounds>>

\* Faulty variant: the file row survives the failed transaction.
CommitFailsLate(h) ==
    /\ pc[h] = "renamed"
    /\ PathFree(frame[h].snap.path)
    /\ files' = [files EXCEPT ![frame[h].snap.path] =
                    [key |-> frame[h].key, size |-> frame[h].snap.length, from |-> frame[h].id]]
    /\ Goto(h, "rollback")
    /\ UNCHANGED <<row, expired, part, sidecars, objects, lock, mode, frame, todo, ghost, bounds>>

\* Conflict, expiry, cancelled context or a database error rolls it back.
CommitFails(h) ==
    /\ pc[h] = "renamed"
    /\ Goto(h, "rollback")
    /\ UNCHANGED <<store, lock, mode, frame, todo, ghost, bounds>>

RestorePublished(h) ==
    LET k == frame[h].key IN
    /\ pc[h] = "rollback"
    /\ part' = [part EXCEPT ![frame[h].id] = objects[k]]
    /\ objects' = [objects EXCEPT ![k] = None]
    /\ UnlockAndReturn(h)
    /\ UNCHANGED <<row, expired, sidecars, files, mode, todo, ghost, bounds>>

RestoreFails(h) ==
    /\ pc[h] = "rollback"
    /\ Fault
    /\ UnlockAndReturn(h)
    /\ UNCHANGED <<store, mode, todo, ghost, crashes>>

-----------------------------------------------------------------------------
(* Cleanup: Cancel, an expired session, a session recovery will not keep    *)

\* Faulty variant: any size of the part will do.
RecoverableAnySize(i, r) == Live(i, r) /\ part[i] # None

\* recoverableStaging.
Recoverable(i, r) == Live(i, r) /\ part[i] # None /\ Len(part[i]) = r.offset

MustClean(a) ==
    LET i == frame[a].id
        s == frame[a].snap
    IN
    \/ frame[a].op = "cancel"
    \/ frame[a].op = "expire" /\ ~Live(i, s)
    \/ frame[a].op = "write" /\ part[i] # None /\ ~Live(i, s)
    \/ frame[a].op = "recover" /\ ~Recoverable(i, s)

StartCleanup(a) ==
    /\ pc[a] = "locked"
    /\ MustClean(a)
    /\ Goto(a, "cleaning")
    /\ UNCHANGED <<store, lock, mode, frame, todo, ghost, bounds>>

KeepSession(a) ==
    /\ pc[a] = "locked"
    /\ frame[a].op \in {"expire", "recover"}
    /\ ~MustClean(a)
    /\ UnlockAndReturn(a)
    /\ UNCHANGED <<store, mode, todo, ghost, bounds>>

\* cleanupLocked's status compare-and-swaps.
MarkStatus(a) ==
    LET i == frame[a].id IN
    /\ pc[a] = "cleaning"
    /\ \E to \in {"cancelled", "cleanup_pending"} :
          /\ frame[a].snap.status = IF to = "cancelled" THEN "active" ELSE "cancelled"
          /\ row[i] # None /\ row[i].status = frame[a].snap.status
          /\ row' = [row EXCEPT ![i].status = to]
          /\ frame' = [frame EXCEPT ![a].snap.status = to]
    /\ UNCHANGED <<expired, part, sidecars, lock, objects, files, mode, pc, todo, ghost, bounds>>

\* Faulty variant: the part goes before the intent is persisted.
UnlinkFirst(s) == TRUE

\* Intent is persisted before the unlink.
UnlinkReady(s) == s.status = "cleanup_pending"

\* RemoveStaging: a part that is already gone is no error.
Unlink(a) ==
    /\ pc[a] = "cleaning"
    /\ UnlinkReady(frame[a].snap)
    /\ part' = [part EXCEPT ![frame[a].id] = None]
    /\ Goto(a, "unlinked")
    /\ UNCHANGED <<row, expired, sidecars, lock, objects, files, mode, frame, todo, ghost, bounds>>

DeleteRow(a) ==
    /\ pc[a] = "unlinked"
    /\ row' = [row EXCEPT ![frame[a].id] = None]
    /\ UnlockAndReturn(a)
    /\ UNCHANGED <<expired, part, sidecars, objects, files, mode, todo, ghost, bounds>>

-----------------------------------------------------------------------------
(* Processes and recovery                                                   *)

Boot(p) ==
    /\ mode[p] = "down"
    /\ mode' = [mode EXCEPT ![p] = "recovering"]
    /\ Goto(p, "rows")
    /\ UNCHANGED <<store, lock, frame, todo, ghost, bounds>>

RowIds == {i \in Ids : row[i] # None}

\* UploadSessions(limit).  Ids are random, so any page is possible.
ListRows(p) ==
    /\ pc[p] = "rows"
    /\ \E S \in SUBSET RowIds :
          /\ Cardinality(S) = Min2(PageLimit, Cardinality(RowIds))
          /\ todo' = [todo EXCEPT ![p].page = S]
    /\ Goto(p, "names")
    /\ UNCHANGED <<store, lock, mode, frame, ghost, bounds>>

\* StagingNames(limit - len(sessions)): directory entries, sidecars included,
\* in no particular order; only parts that are not of the page are kept.
Entries == {<<i, "part">> : i \in {j \in Ids : part[j] # None}} \cup {<<i, "lock">> : i \in sidecars}

ListNames(p) ==
    LET page == todo[p].page IN
    /\ pc[p] = "names"
    /\ \E E \in SUBSET Entries :
          /\ Cardinality(E) = Min2(PageLimit - Cardinality(page), Cardinality(Entries))
          /\ todo' = [todo EXCEPT ![p].names = {i \in Ids \ page : <<i, "part">> \in E}]
    /\ Goto(p, "scan")
    /\ UNCHANGED <<store, lock, mode, frame, ghost, bounds>>

ScanRow(p) ==
    /\ pc[p] = "scan"
    /\ \E i \in todo[p].page :
          /\ todo' = [todo EXCEPT ![p].page = @ \ {i}]
          /\ frame' = [frame EXCEPT ![p] = [Blank EXCEPT !.op = "recover", !.id = i]]
    /\ Goto(p, "blocked")
    /\ UNCHANGED <<store, lock, mode, ghost, bounds>>

\* A name without a row is an orphan candidate.
ScanName(p) ==
    /\ pc[p] = "scan"
    /\ todo[p].page = {}
    /\ \E i \in todo[p].names :
          /\ todo' = [todo EXCEPT ![p].names = @ \ {i}]
          /\ \/ row[i] # None /\ UNCHANGED <<pc, frame>>
             \/ /\ row[i] = None
                /\ frame' = [frame EXCEPT ![p] = [Blank EXCEPT !.op = "recover", !.id = i]]
                /\ Goto(p, "sidecar")
    /\ UNCHANGED <<store, lock, mode, ghost, bounds>>

LockSidecar(p) ==
    LET i == frame[p].id IN
    /\ pc[p] = "sidecar"
    /\ LockFree(p, i)
    /\ lock' = [lock EXCEPT ![i] = p]
    /\ sidecars' = sidecars \cup {i}
    /\ Goto(p, "orphan")
    /\ UNCHANGED <<row, expired, part, objects, files, mode, frame, todo, ghost, bounds>>

RecheckRow(p) ==
    /\ pc[p] = "orphan"
    /\ \/ /\ row[frame[p].id] = None
          /\ Goto(p, "doomed")
          /\ UNCHANGED <<lock, frame>>
       \/ /\ row[frame[p].id] # None
          /\ UnlockAndReturn(p)
    /\ UNCHANGED <<store, mode, todo, ghost, bounds>>

RemoveOrphan(p) ==
    /\ pc[p] = "doomed"
    /\ part' = [part EXCEPT ![frame[p].id] = None]
    /\ UnlockAndReturn(p)
    /\ UNCHANGED <<row, expired, sidecars, objects, files, mode, todo, ghost, bounds>>

FinishRecovery(p) ==
    /\ pc[p] = "scan" /\ todo[p] = NoTodo
    /\ EndRecovery(p)
    /\ UNCHANGED <<store, lock, ghost, bounds>>

\* Recover returns an error before or between items.
RecoveryFails(p) ==
    /\ pc[p] \in {"rows", "names", "sidecar"} \/ (pc[p] = "scan" /\ todo[p] # NoTodo)
    /\ EndRecovery(p)
    /\ UNCHANGED <<store, lock, ghost, bounds>>

Crash(p) ==
    /\ mode[p] # "down"
    /\ crashes < MaxCrashes
    /\ crashes' = crashes + 1
    /\ mode' = [mode EXCEPT ![p] = "down"]
    /\ pc' = [a \in Actors |-> IF ProcOf(a) = p THEN "idle" ELSE pc[a]]
    /\ frame' = [a \in Actors |-> IF ProcOf(a) = p THEN Blank ELSE frame[a]]
    /\ lock' = [i \in Ids |-> IF lock[i] # None /\ ProcOf(lock[i]) = p THEN None ELSE lock[i]]
    /\ todo' = [todo EXCEPT ![p] = NoTodo]
    /\ UNCHANGED <<store, ghost, faults>>

-----------------------------------------------------------------------------
Locking(a) == Acquire(a) \/ AcquireGone(a) \/ AcquireFails(a) \/ Abandon(a)

Cleaning(a) ==
    StartCleanup(a) \/ KeepSession(a) \/ MarkStatus(a) \/ Unlink(a) \/ DeleteRow(a)

Requesting(h) == CreatePart(h) \/ Arrive(h) \/ Answer(h)

Creating(h) == InsertRow(h) \/ InsertFails(h) \/ InsertFailsLeavingPart(h)

Writing(h) ==
    WriteBody(h) \/ WriteRefused(h) \/ WriteCommit(h) \/ WriteUndone(h) \/ WriteNotUndone(h)

Completing(h) ==
    \/ HashStaging(h) \/ CompleteRefused(h) \/ ChecksumAccepted(h) \/ ChecksumRefused(h)
    \/ PublishStaging(h) \/ PublishUnsynced(h) \/ CommitFile(h) \/ CommitFails(h)
    \/ RestorePublished(h) \/ RestoreFails(h)

Recovering(p) ==
    \/ ListRows(p) \/ ListNames(p) \/ ScanRow(p) \/ ScanName(p) \/ LockSidecar(p)
    \/ RecheckRow(p) \/ RemoveOrphan(p) \/ FinishRecovery(p) \/ RecoveryFails(p)

Next ==
    \/ \E a \in Actors : Locking(a) \/ Cleaning(a)
    \/ \E h \in Handlers : Requesting(h) \/ Creating(h) \/ Writing(h) \/ Completing(h)
    \/ \E p \in Procs : Boot(p) \/ Recovering(p) \/ Crash(p)
    \/ \E i \in Ids : Expire(i)

Spec == Init /\ [][Next]_vars

\* Steps a goroutine takes by itself once it has begun a call.  Requests, boots,
\* crashes, expiry and failing calls are the environment's and never required.
Proceeding(a) ==
    \/ AcquireGone(a) \/ Cleaning(a)
    \/ a \in Handlers /\ (InsertRow(a) \/ Writing(a) \/ Completing(a))
    \/ a \in Procs /\ Recovering(a)

\* Go schedules every runnable goroutine; its mutex (starvation mode) and the
\* kernel's queue of flock waiters give a lock that is released again and again
\* to every waiter in the end.
Fairness ==
    \A a \in Actors :
        /\ WF_vars(Proceeding(a))
        /\ SF_vars(Acquire(a))
        /\ a \in Procs => SF_vars(LockSidecar(a))

FairSpec == Spec /\ Fairness

-----------------------------------------------------------------------------
(* Properties                                                               *)

\* The shapes of all variables.
TypeOK ==
    /\ row \in [Ids -> Rows \cup {None}]
    /\ expired \subseteq Ids
    /\ part \in [Ids -> Content \cup {None}]
    /\ sidecars \subseteq Ids
    /\ lock \in [Ids -> Actors \cup {None}]
    /\ objects \in [Keys -> Content \cup {None}]
    /\ files \in [Paths -> Files \cup {None}]
    /\ mode \in [Procs -> {"down", "recovering", "serving"}]
    /\ pc \in [Actors -> Points]
    /\ frame \in [Actors -> Frames]
    /\ todo \in [Procs -> Todos]
    /\ acked \in [Ids -> Seq(Data)]
    /\ born \subseteq Ids
    /\ crashes \in Nat /\ faults \in Nat

\* Positions at which a goroutine relies on the row it read under the lock.
Inside == {"locked", "copied", "cleaning", "unlinked", "renamed", "rollback"}

\* Positions that hold a flock, and those whose frame names a session.
Holding == Inside \cup {"orphan", "doomed"}
Naming == Holding \cup {"staged", "blocked", "hashed", "sidecar"}

\* Positions between the rename of a part and the end of its transaction.
Publishing == {"renamed", "rollback"}

\* session.go:86-87 and 163-165: whatever another goroutine or process does in
\* the meantime, the row a critical section decided on is still the row in the
\* database when it acts.
SnapshotCurrent ==
    \A a \in Actors : pc[a] \in Inside => row[frame[a].id] = frame[a].snap

\* repository.go:892-894: file metadata never points at an object that is not
\* there, across failed transactions, restores and crashes.
FileHasObject ==
    \A p \in Paths : files[p] # None => objects[files[p].key] # None

-----------------------------------------------------------------------------
(* What makes SnapshotCurrent and FileHasObject inductive                   *)

\* Frames are filled in as far as their position needs.
FramesFilled ==
    \A a \in Actors :
        /\ pc[a] \in Naming => frame[a].id \in Ids
        /\ pc[a] \in Inside => frame[a].snap \in Rows
        /\ pc[a] = "copied" => frame[a].data \in Seq(Data)
        /\ pc[a] \in Publishing => frame[a].key \in Keys

\* A flock has one holder, and that is who acts under it.
LocksHeld == \A a \in Actors : pc[a] \in Holding => lock[frame[a].id] = a

\* The session a handler is creating has no row and no other creator.
StagedFresh ==
    /\ \A i \in Ids : row[i] # None => i \in born
    /\ \A a \in Actors : pc[a] = "staged" =>
          /\ frame[a].id \notin born
          /\ \A b \in Actors : pc[b] = "staged" /\ frame[b].id = frame[a].id => b = a

\* An object being published exists and belongs to its publisher alone.
ObjectsOwned ==
    \A a \in Actors : pc[a] \in Publishing =>
        /\ objects[frame[a].key] # None
        /\ \A p \in Paths : files[p] # None => files[p].key # frame[a].key
        /\ \A b \in Actors : pc[b] \in Publishing /\ frame[b].key = frame[a].key => b = a

TypeInv == TypeOK /\ FramesFilled
LockInv == TypeInv /\ LocksHeld /\ SnapshotCurrent /\ StagedFresh
ObjectInv == LockInv /\ ObjectsOwned /\ FileHasObject

-----------------------------------------------------------------------------
\* A visible file is the upload its client was told about: its object holds the
\* acknowledged bytes in order, all of the declared length and nothing else.
PublishedExactlyAcked ==
    \A p \in Paths : files[p] # None =>
        /\ objects[files[p].key] = acked[files[p].from]
        /\ Len(acked[files[p].from]) = files[p].size

\* session.go:188-195: the object being published is the content whose SHA-256 the
\* first critical section computed and the client accepted, although the lock was
\* free in between.
PublishesWhatWasHashed ==
    \A h \in Handlers : pc[h] \in Publishing => objects[frame[h].key] = frame[h].data

\* The Upload-Offset a client resumes from counts exactly the bytes it was told
\* were stored, and they are the first bytes of the part, whatever an
\* interrupted PATCH left behind them.
AckedBytesKept ==
    \A i \in Ids : row[i] # None =>
        /\ row[i].offset = Len(acked[i])
        /\ part[i] # None => /\ Len(part[i]) >= row[i].offset
                             /\ SubSeq(part[i], 1, row[i].offset) = acked[i]

\* session.go:206-208 and 241-242: while a session is active its bytes are in its
\* part, or in the hands of the one goroutine that is publishing it.
ActiveHasBytes ==
    \A i \in Ids : row[i] # None /\ row[i].status = "active" /\ part[i] = None =>
        \E h \in Handlers : /\ pc[h] \in Publishing
                            /\ frame[h].id = i
                            /\ objects[frame[h].key] # None

\* An object no file names belongs to a publication still in progress: failed
\* commits leak nothing.
NoStrayObject ==
    \A k \in Keys : objects[k] # None =>
        \/ \E p \in Paths : files[p] # None /\ files[p].key = k
        \/ \E h \in Handlers : pc[h] \in Publishing /\ frame[h].key = k

\* A recovery run that saw everything (its page and its listing fit the limit)
\* and met no error leaves a server only resumable sessions, and no part
\* without a session.
RecoveryConverges ==
    [][\A p \in Procs :
        (FinishRecovery(p) /\ mode'[p] = "serving" /\ PageLimit >= 3 * Cardinality(Ids)) =>
            \A i \in Ids :
                /\ row[i] # None /\ i \notin expired =>
                      /\ row[i].status = "active"
                      /\ part[i] # None /\ Len(part[i]) = row[i].offset
                /\ part[i] # None => row[i] # None]_vars

\* session.go:88-117: no path through a critical section keeps its lock, so no
\* request and no recovery run waits for ever, in any process.
EveryCallReturns == \A a \in Actors : pc[a] # "idle" ~> pc[a] = "idle"

\* The upload's abstract promise, seen through the rows, the parts and the objects.
OpenRow(i) == row[i] # None /\ row[i].status = "active"

Contract == INSTANCE UploadContract WITH
    fate <- [i \in Ids |-> IF OpenRow(i) THEN "open"
                           ELSE IF \E p \in Paths : files[p] # None /\ files[p].from = i
                                THEN "published"
                           ELSE IF i \in born THEN "closed" ELSE "unborn"],
    length <- [i \in Ids |-> IF OpenRow(i) THEN row[i].length ELSE 0],
    dest <- [i \in Ids |-> IF OpenRow(i) THEN row[i].path ELSE None],
    visible <- [p \in Paths |-> IF files[p] = None THEN None ELSE objects[files[p].key]]

\* Every interleaving of requests, recovery, expiry, failed calls and crashes is
\* one of the abstract upload: bytes only appended, one atomic publication of all
\* of them, nothing visible from a session that was cancelled or lost.
ImplementsContract == Contract!Spec
=============================================================================
