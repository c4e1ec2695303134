# Verification of SafeFileHub

SafeFileHub is a file server in Go: SQLite for metadata, opaque objects on a
local file system for content, one or more server processes over one data
directory, and `--recover-only` maintenance runs beside them. This directory
holds TLA+ models of its core, the TLC configurations that check them on small
instances, and theorems checked by TLAPS. `PROJECT.json` lists components,
runs, the source lines every definition stands for, hazards, findings and
theorems. Paths below are relative to `src/`.

## 1. Inventory

| component | state | operations | interacts with | hard behaviour | what makes it correct |
|---|---|---|---|---|---|
| **Upload sessions** `internal/upload/session.go`, `httpapi/uploads.go` | row of `upload_sessions`, `staging/<id>.part`, `.part.lock` sidecar | Create, Get, Write (PATCH), Complete, Cancel, cleanup of expired sessions, Recover | object store, repository, limiter, MD5 queue (a completed file gets a task) | two lock layers, lock released between hashing and publishing, crash between any two steps, dropped error results | acknowledged bytes kept; exactly those published, once; nothing visible from a failed session; recovery converges |
| **Object store** `internal/storage/objects_unix.go` | files under `staging/` and `objects/`, flocks | staging write/hash/remove, PublishStaging, RestorePublished, Create/Open/Remove | everything that holds bytes | fsync failing after rename; rename and metadata are not one step | metadata never dangles; failed commits leak nothing |
| **Published files** `httpapi/published.go` | `files` (with tombstones), `directories`, `object_cleanup_jobs`, objects | create, rename, delete, mkdir, rmdir | triggers of migrations 007 and 008, object store | every handler is several statements; preflight reads go stale; removals take no lock | what can be looked up has its object; no storage lost; no orphaned directory |
| **Published recovery** `internal/publishedrecovery` | lists read once, with a limit | retry cleanup jobs, finish tombstones | as above, in several processes | races with live handlers; items that fail for ever | reclaims what is recorded; never hits a live object |
| **MD5 queue** `internal/checksum`, repository | `md5_tasks` (state, lease, attempts) | claim, complete, fail, requeue, recover | files, workers | leases expiring under a live worker, file deleted while hashed, poison tasks | one digest per file, of its content; workers keep running |
| **Upload admission** `internal/limits/limiter.go`, `httpapi/middleware.go` | global slots, per-user and per-address counts; timer, watcher and read deadline of a body | TryAcquire, Release, Read, refresh, interrupt, stop | upload handlers, the connection | slot and counts taken in two steps; timer, cancellation, data and the end of the handler race | limits kept; slots come back from stalled peers; the next request has no deadline |
| **Download limits, ranges** `limits/download.go`, `download/range.go` | bytes and opens per window | reserve, parse Range | downloads | integer edges | a served range lies inside the file |
| **Archive jobs** `internal/archive` | job map, queue channel, temporary zip files | create, cancel, download, Cleanup, worker, Close | object store, deletions, process end | creator, Cancel, Close and worker act on one job; objects go while they are zipped | no temporary file without a job; jobs end; what is delivered is whole |
| **Login sessions and users** `internal/auth`, `httpapi/server.go`, `httpapi/admin.go`, `cmd/safefilehub/bootstrap.go` | users, sessions in memory, the session collector | login, logout, use, expiry; create, disable, reset; collect, Close | every handler, a command-line reset in another process | a login or a second administrator between read and write; collectors overlapping with Close | a revoked or outdated login has no live session; one collector at a time |
| **Permissions** `internal/permission` | rules per user, root and prefix | Authorize | every handler | precedence of prefixes | longest matching rule decides |
| **Site settings** `httpapi/site_settings.go`, `internal/siteassets` | one settings row, asset rows, files, cleanup rows | PUT of the settings, upload, reset, serving, cleanup passes | browsers' caches, startup | read-modify-write of the whole row; files and rows change in several steps; reused ids | what is configured is served; no file is forgotten; an address keeps its picture |
| **Process lifecycle** `cmd/safefilehub/main.go` | mode of a process | recover, serve, exit | all | recovery beside running servers | recovery disturbs nothing live |

Path normalisation, password hashing, static pages, logging, metrics,
configuration, the migrations runner, the Windows stub and the benchmarks carry
no concurrent state of their own and are not modelled.

## 2. Modules

| module | what it is |
|---|---|
| `UploadContract` | the abstract upload: open, append, publish all or nothing, drop |
| `UploadSessions` | the detailed uploads: rows, parts, sidecars, flocks, objects, files, processes |
| `MCUploadSessions` | instances of it for TLC |
| `UploadSessionsProofs` | proofs of type correctness, of mutual exclusion on a session and of metadata integrity |
| `UploadContentProofs` | on top of it: what becomes of the bytes, the refinement of `UploadContract`, what recovery reaches |
| `PublishedFiles` | published files, directories, cleanup jobs, tombstones and their recovery |
| `MCPublishedFiles` | instances of it for TLC: trees of paths |
| `PublishedFilesProofs` | five theorems about it |
| `Md5Queue` | the MD5 workers of several processes over `md5_tasks`, while files come and go |
| `MCMd5Queue` | instances of it for TLC |
| `Md5QueueProofs` | five theorems about it |
| `ArchiveJobs`, `MCArchiveJobs`, `ArchiveJobsProofs` | the archive manager with its channel, workers and temporary files; five theorems |
| `UploadAdmission`, `MCUploadAdmission`, `UploadAdmissionProofs` | the upload limiter and the idle guard of request bodies; four theorems |
| `Accounts`, `MCAccounts`, `AccountsProofs` | accounts, login sessions and their collector; four theorems |
| `SiteSettings`, `MCSiteSettings`, `SiteSettingsProofs` | settings, branding assets and their cleanup; four theorems |

The uploads are composed with an abstract upload by refinement. The others
touch each other through tables and objects only, so a module carries the steps
its neighbours take on its own state: `UploadPublishes` in `PublishedFiles`,
`AddFile` and the deletion steps in `Md5Queue`, `RemoveObject` in `ArchiveJobs`.

### UploadSessions and the code

Every goroutine is an actor with a position `pc[a]` and local variables
`frame[a]`. Handlers run requests; each process's main goroutine runs Recover
first. A position is a point between two effects another goroutine can see:

* `Acquire`, `AcquireGone`, `AcquireFails`: `withLifecycleLock`, which takes
  the process mutex and the sidecar's flock and reads the row again. The two
  layers are one `lock[i]`: the mutex only orders the goroutines of a process
  before the same flock.
* `WriteBody`, `WriteCommit`, `WriteUndone`, `WriteNotUndone`: the body reaches
  the part before the offset reaches the row; an over-long body is cut off,
  and the cutting may fail with its error dropped.
* `HashStaging`, `ChecksumAccepted`/`ChecksumRefused`, `PublishStaging`,
  `CommitFile`/`CommitFails`, `RestorePublished`/`RestoreFails`: the two
  critical sections of Complete, with the lock free in between.
* `StartCleanup`, `MarkStatus`, `Unlink`, `DeleteRow`: cancel, expiry and
  recovery all go through `cleanupLocked`.
* `ListRows`, `ListNames`, `ScanRow`, `ScanName`, `LockSidecar`, `RecheckRow`,
  `RemoveOrphan`: Recover, interleaved with live requests of other processes.
* `Crash(p)`: any process at any position; its flocks go, files and rows stay.

Two history variables, `acked` (bytes the client was told are stored) and
`born` (rows ever inserted), are read by properties only.

Abstractions: content is a sequence over a small set `Data`; SHA-256 is taken
as injective, so "the hash matches" is "the content is equal"; a database
statement or transaction is one atomic step and is durable; a crash is of a
process, not of the machine. The check of the destination at session creation
is left out because it is arbitrarily stale by the time it matters: the
UNIQUE constraint decides (`PathFree`). The dry run of Recover changes nothing
and is left out.

### PublishedFiles and the code

Each handler is the sequence of its statements: `CheckParent` and `CheckFree`
are the preflight reads, `CreateObject` .. `CompleteObjectCleanup` the body of
createFile with its compensation, `BeginFileDelete`, `RemoveObject`,
`FinalizeFileDelete` the deletion, `DirectoryEmpty` and `DeleteDirectory` the
two statements of rmdir. Triggers and UNIQUE constraints are conjuncts of the
statement they guard. A recovery pass reads its two lists once (`Page` is the
LIMIT) and works through them. `UploadPublishes` is the only thing an upload
does to these tables.

Paths are model values with their parent, their ancestors (`Above`) and the
paths they are LIKE below (`Like`): the triggers compare with LIKE, which
ignores case and knows wildcards, while the handlers compare prefixes exactly.
Row ids are reused the way SQLite does without AUTOINCREMENT (`NextId`).
`CreateContentFails`, `EnqueueFails`, `RemoveFails` and `Crash` share one bound,
`MaxMishaps`. A request whose context is cancelled loses both its insert and
the record of its cleanup: that is `EnqueueFails`. Not in the model:
permissions, audit records, the listing, and file sizes. (createFile stores
Size 0 for a file created with content, published.go:159, and a download
compares that with the object's size.)

### Md5Queue and the code

`file` and `task` are the rows of `files` and `md5_tasks`; a row id that is
free is `None`. A process is at one position `at[p]` of Run and RunOnce:

* `Requeue`, `RequeueFails`: RequeueComputingMD5Tasks, with its LIMIT;
* `ClaimTask`, `ClaimFails`, `NoMoreTasks`, `Send`: the claim loop, one claim
  in its hands until a goroutine is free to take it;
* `EndBatch`: `wg.Wait()`, then the next batch or, after an error, the end of
  Run. startMD5Worker logs that error and nothing starts the worker again.

A goroutine goes through `process`: `Look` (FileByID), `Open`, `GiveUp`, and one
of `CompleteMD5Task`, `FailMD5Task` and `ReportFails`, each a transaction whose
WHERE clause is a guard (`Reportable`). The CHECK on `attempts` is
`WithinBound`: a task that has used its attempts and is pending again fails the
claim. `Lapse` is the passing of the lease: instead of a time a task has the
flag `stale`. `Stop` is a crash or a shutdown, which differ in nothing the
tables show.

`AddFile`, `BeginFileDelete`, `RemoveObject` and `FinalizeFileDelete` are what
uploads and deletions do to these rows, the ON DELETE CASCADE included; row ids
are reused as in `PublishedFiles`. The digest of an object is represented by
its key, so a digest is right when it equals the file's key. The history
variable `overlap` says that a claim has outlived its lease or its row, which
is when two goroutines may hold the same task. Left out: the order of due
tasks (any pending task may be claimed; `available_at` is the clock of whoever
wrote it), and the text in `md5_error`.

### ArchiveJobs and the code

A job's id names its creation (`call`), its request (`entries`) and its
temporary file. Sections under `Manager.mu` are one step; between them lie the
positions of the creator (`Register`, `Send` or `GiveUp`), of a worker
(`TakeTask`, `CreateTemp`, `WriteEntry`/`WriteFails`, `CloseZip`,
`FinishBuild`/`StatFails`) and of Close (`StartClose`, `CancelAll`,
`FinishClose`). `RemoveObject` is the deletion of a selected file, `Restart` the
end of the process: nothing looks into `TempDir` at startup. `Cleanup` is an
action although only tests call it, so that what it may remove is checked too;
no liveness property relies on it. Left out: paths, sizes and permissions, which
only refuse more, the client's own failures while it downloads, and the log.

### UploadAdmission and the code

A request goes through `TakeSlot`, `Admit` or `Refuse` (TryAcquire takes the
global slot before the mutex), `Protect`, reads, `Stop`, `ClearDeadline`,
`Release` and `FreeSlot`. Beside it runs its watcher (`WatchStops`,
`WatchTimer`, `WatchContext`, `Interrupt`), and the outside world fires the timer
and lets the deadline pass. A time is one of three values, `none`, `later` and
`past`. The history variable `overtaken` says that a read had data in hand when
the interrupt came. Only bodies with a read deadline are modelled, which is
what the server has; others are closed by the interrupt.

### Accounts and the code

A password is the number of its hash. `Authenticate`, `ScheduleGC` and
`CreateSession` are the three moments of a login; `ReadUser`, `Update` and
`RevokeUser` those of setUserDisabled and resetUserPassword, which write both
columns, one of them as it was read. `ResetInitialAdmin` is the command line in
another process. The collector is `Pass` and `CloseDone`, with `gcRunning` reset
a step before its channel is closed, and Close waits for the last one only. A
session remembers the hash of its login, and `excused` and `overtaken` mark the
sessions that no revocation is meant to reach or has reached; they are read by
properties only. The administrator's identity is left open. Left out:
permission rules, audit records, and requests that are already past
requireSession.

### SiteSettings and the code

`slot` is the settings row, `row` the table of assets by key. `ReadSettings` and
`WriteSettings` are the two halves of a PUT, which carries the asset references
it read; `Receive` .. `Replace` an upload, with the file before the row, and
`ReplaceFails`, `Discard`, `DiscardFails` its way back; `Reset` a transaction.
`ListKeys` .. `EndPass` are RecoverCleanup, run at the end of uploads and resets
and at startup. `LookUp` and `Serve` are a browser that keeps what it was sent
for a year. Row ids are handed out as SQLite does without AUTOINCREMENT
(`NewIds`). `mixed`, `missed` and `emptied` record what an overtaken PUT, a lost
file and a reset have done. The texts of the row, which the request carries
whole, and the pixels are left out; the order of cleanup keys is left open,
because their `created_at` is a wall clock's.

## 3. Runs

| run | instance | shows |
|---|---|---|
| `upload_server` | one server with two handlers, a recovery process, one session of at most two units, one crash | the row a critical section decided on is still current when it acts; acknowledged bytes stay; what is published is what was acknowledged and what was hashed; recovery leaves only resumable sessions; the whole refines `UploadContract` |
| `upload_rivals` | two sessions, one path, one server, no crash | the losing transaction gets its bytes back, leaks no object, and both sessions refine the contract |
| `upload_two_servers` | two servers with a handler each, one failing storage call | metadata never dangles; every call returns |
| `upload_orphan_race` | one server, one recovery process | **violation** of `ActiveHasBytes` |
| `published_server` | one server with two handlers, a recovery process, paths /a and /a/b, two keys, one mishap | what can be looked up has its object; nothing is lost; directories stay rooted; a startup pass reclaims |
| `published_tombstone` | the same without mishaps | **violation** of `TombstonesRetryable` |
| `md5_two_servers` | two servers with a goroutine each, two row ids, two uploads, two attempts, batches of two, one mishap | both tables tell one story; a result is final; claims are exclusive and digests right until a claim outlives its lease or its row |
| `md5_one_server` | one server with two goroutines, the same tables | a task is stuck only if the worker has ended with an error |
| `archive_jobs` | two archives of two files, one worker, one place in the channel, one mishap | jobs end, cancellation sticks, downloads are whole, temporary files have an owner |
| `upload_admission` | three uploads, two users, two addresses, two slots, two per user, one per address, one read each | counts are the leases; refusals have a cause; deadlines are right; slots come back |
| `accounts` | the initial and another account, one login and one administrator at a time beside the command line, two sessions, two passwords, two collectors, batches of one | only an overtaken login keeps an outdated session; changes last; one collector at a time, which ends |
| `site_settings` | three requests, two kinds, two keys, a startup pass, one browser, two mishaps | the configured is served; files are accounted for; addresses are fresh until a reset |

### Why the bounds are enough

Every conflict in the upload code is between at most two parties over one
session (a request and another request, an expiry or a recovery run) or
between two sessions over one path. One session of two units has every
relation between offset, part and declared length the code distinguishes:
empty, partial, complete, one too long. One crash is enough to put any
leftover in front of any later call, since after a restart the code keeps no
memory of how many crashes there were. In `PublishedFiles` two keys allow a
live object beside one being removed, two row ids allow reuse of an id, and
two handlers plus two recovering processes give every pair of actors. Depth
two has a directory with a parent; what the triggers make of deeper trees is
proved for every tree (`DirectoriesStayRooted`). `PageLimit` exceeds what the
instance can hold where a property speaks of complete passes.

In `Md5Queue` two row ids and two keys allow one file beside another and one
file after another in the same row; two attempts give a first and a last one;
batches of two let the claim loop wait with a claim while a goroutine works.
One mishap puts an ended process or a failed write at any point. The recovery
limit is 2 in the runs with two servers and 1, below the number of rows, in
those with one.

In `ArchiveJobs` the second job waits in the channel or before it while the
worker has the first, and two files give an archive that is half written. In
`UploadAdmission` the three requests meet each limit alone: two share a user,
two an address, and the third finds the slots taken; one read leaves the
watcher a moment before, during and after it. In `Accounts` batches of one make
a collector go round again, and a second collector overlaps with the first; two
passwords make an old and a new one. Two administrators at once are covered by
the theorem, not by the run. In `SiteSettings` two keys are a picture and its
successor, in the same or in another slot, and three requests an overtaken one,
the one that overtakes it, and a cleanup. The limit of one in the request passes
is below what can be queued.

All symmetry sets are sets of values that the specification only compares
(data, sessions, keys, handlers of one server, requests and kinds of asset). The
runs with a liveness property use none.

### Fairness

The runs `upload_two_servers`, `md5_one_server`, `archive_jobs`, `upload_admission`
and `accounts` assume fairness.

In `UploadSessions` a goroutine that has begun a call
goes on (`Proceeding`, weak): Go schedules runnable goroutines, and a body read
ends by timeout or disconnect. A waiter for a lock that is released again and
again gets it (strong): Go's mutex hands over to starving waiters and the
kernel queues flock waiters. Requests, boots, expiry, crashes and failures are
never required to happen.

In `Md5Queue` the worker's loop and its goroutines go on (weak), a lease that
was not used up runs out, and a server that is down is started again.
Uploads, deletions, and mishaps are not required to happen. A worker that has
ended with an error is not assumed to be restarted, since nothing in the code
does it; `TasksSettle` names that case.

In `ArchiveJobs` workers and a Close that was called go on; creators, Cleanup and
crashes owe nothing. In `UploadAdmission` handlers and watchers go on, timers
fire and deadlines pass; a peer owes no data. In `Accounts` collectors and the
end of Close go on.

## 4. Findings and their neighbours

Two disagreements between code and documentation have a run:

* `upload_orphan_race`: Recover re-checks an orphan part under the sidecar's
  lock (session.go:390), but Create takes no lock, so a session whose row
  appears after the re-check loses its part. Without a recovery process beside
  the server `ActiveHasBytes` holds (`upload_rivals`).
* `published_tombstone`: once the object of a tombstone is gone, Remove fails
  for ever and recovery never finalizes the row (recovery.go:50); the path
  stays occupied.

The following behaviours are in the models too. Properties name them as
exceptions, or the instances stay clear of them, so that what is claimed is
exactly what holds.

* Uploads: the second critical section of Complete compares offset and length
  in the row, not the size of the part (session.go:199). A PATCH of another
  process that dies with one byte too many in the part, between the sections,
  gets that byte published. `PublishedExactlyAcked` is checked with one serving
  process.
* Directories: the trigger of migration 008 accepts any ancestor, so a mkdir of
  /a/b/c can be left without /a/b. `DirectoriesRooted` is what remains true.
* MD5: a file deleted between the claim of its task and the report takes the
  task row along; the report finds no row, RunOnce returns ErrNotFound and Run
  ends until the process is restarted (worker.go:134). `TasksSettle` names the
  stopped worker.
* MD5: a report names a claim by file id and `computing` only
  (repository.go:1149). If the newest file is deleted while it is hashed, the
  next upload has its id and gets the digest of the old content.
  `DigestUnlessOverlap` holds up to there.
* MD5: a task that is requeued without a failure can reach `max_attempts` while
  pending; the next claim then violates the CHECK and ends every worker that
  tries. A late FailMD5Task makes a task pending that another server has claimed.
* Archives: a creator that gives up before its job is in the channel leaves it
  `running` and cancelled for ever; no worker sees it and Cleanup skips it.
  `RunningIsHeld` names the case. Cleanup has no caller outside tests, so
  artifacts live until Close, and files of a crashed process for ever. A
  selection that includes a tombstone whose object is gone fails as a whole.
* Accounts: a login that is overtaken by a revocation between Authenticate and
  Create leaves a live session of a disabled account for the session's 24 hours
  (server.go:146-151). `-reset-initial-admin` reaches no session of a running
  server. Two administrators' changes of one account can undo each other
  (admin.go:213-218); `ChangesLast` names the handler that had read too early.
* Settings: a PUT carries the references it read (site_settings.go:132-138). If
  an upload came in between, its slot goes back to NULL and row and file are
  never removed; if a reset and an upload did, the id may be that of another
  kind's picture; and if the row is gone, the foreign key refuses the PUT.
* Settings: after a reset the next asset gets the id of the last one while
  browsers keep that address for a year (site_settings.go:250). Replacing an
  asset is safe, because the insert comes before the delete.
* Settings: a failing chmod after the rename, a crash between file and row, and
  a failing removal of an unsaved asset each leave a file that nothing names.

## 5. Theorems

All proofs hold for arbitrary constants under the named assumptions
`UploadAssumption`, `PublishedAssumption`, `QueueAssumption`, `ArchiveAssumption`,
`AdmissionAssumption`, `AccountsAssumption` and `SiteAssumption`, which only say that the sets are
disjoint from the "nothing" values, that bounds are naturals and sets whose
members are counted are finite, that handlers are not processes, that each of
them has a home, and that `Above` follows from `Parent`.

* `TypeCorrect` (UploadSessionsProofs), `PublishedTypes` (PublishedFilesProofs):
  the type invariants. TypeOK is not inductive: what is written to a row comes
  from local variables, so `FramesFilled` says which of them a position has set.
* `SnapshotsStayCurrent`: at every step of a critical section the row read
  under the flock is the row in the database. Invariant `LockInv`: whoever
  acts under a lock holds it (`LocksHeld`); the only unlocked write, the
  insert, meets no row (`StagedFresh`).
* `FilesKeepTheirObjects`: a files row written by an upload names an existing
  object. Invariant `ObjectInv`: an object in mid-publication exists and has
  one owner (`ObjectsOwned`).
* `AcknowledgedStays`, `PublishedHoldsAcknowledged`: for any number of servers,
  crashes and undone failures, the part of a session that has its row begins with
  every acknowledged byte, and a published object begins with them too and
  belongs to a complete session. Invariant `KeptInv`: row offsets equal the
  acknowledged lengths, parts, copies and objects start with the acknowledged
  bytes (`OffsetsAcked`, `PartsKept`, `CopiesExact`, `ObjectsKept`, `FilesKept`).
  The offset alone would not do: `WriteBody` truncates to it before it seeks, so
  the proof rests on two lemmas about `Truncated` and `Patched`.
* `PublishedIsAcknowledged`, `PublishedIsHashed` (`SingleServer`, `faults = 0`):
  a file is exactly the acknowledged and hashed content. Invariant `ExactInv`:
  once a client's content is accepted, the part is the acknowledged content and
  nothing else unless a PATCH is at work on it (`HashesExact`), and the lock that
  the second section takes tells it that none is.
* `FailedCommitsLeakNothing` (`crashes = 0`, `faults = 0`): every object has a
  row or a publication in progress (`StrayInv`).
* `ActiveSessionsHaveBytes` (`OneProcess`, `crashes = 0`, `faults = 0`): an active
  session has its part. Invariant `BytesInv` with `Modes`: recovery and requests
  of one process never overlap, because main.go recovers before it listens.
* `RowsOutliveParts`: a row never goes before its part (`ReclaimedInv`), so
  whatever a crash leaves behind is found from the database.
* `UploadsImplementContract` (`SingleServer`, `[](faults = 0)`):
  `ImplementsContract`, the refinement. `InsertRow` opens, `WriteCommit` appends,
  `CommitFile` publishes, `DeleteRow` or a status change drops; every other step
  is a stutter. The mapping is proved from `ExactInv` and `ReclaimedInv`.
* `RecoverySettlesEverything` (`SingleServer`, `Ids` finite): `RecoveryConverges`.
  Invariant `RecoveryInv`: every session is settled, on the run's lists, or in its
  hands (`Covered`); while the server that takes requests recovers, no step
  unsettles one (`SettledStays`), also not a step of another recovery process.
* `NoLockIsLeft`: a flock that is taken belongs to a live goroutine in its critical
  section (`Owned`), so no path leaves a lock behind and a goroutine that waits
  holds none. This is the safety part of `EveryCallReturns`; that holders go on
  is the fairness assumed there.
* `ActiveFilesHaveObjects`: a published file that can be looked up has its
  object. Removals take no lock, so the invariant follows every key a removal
  may be aimed at, now or after a restart (`Condemned`), and shows that no
  active row and no creation in progress ever has one; rows and creations
  never share a key (`KeysUnique`, `NewSafe`).
* `NothingIsLost`: without crashes and unrecorded cleanups, every object has a
  row, a cleanup job, or its creator. It rests on objects going before the
  metadata that names them (`GoneFirst`).
* `RecoveryLeavesNoGarbage` (`SingleServer`, `Keys` finite): `RecoveryReclaims`. What
  is due is on the pass's list or in its hands (`Covered`), and nothing becomes due
  while the server recovers (`Shrinking`).
* `DirectoriesStayRooted`: under any matching relation `Like` that extends the
  ancestor relation, no directory is left without one the triggers accept as
  its ancestor. The statement with the direct parent is
  false (section 4).
* `QueueTypes`: the shapes of the MD5 tables, and no task is claimed more than
  `max_attempts` times. The strengthening `Filled` says which of a worker's
  variables its position has set.
* `TablesAlwaysAgree`, `ResultsStayFinal`: `files.md5_status` follows the task
  through any order of late reports, and a terminal result stays while the file
  has its row. `TablesAgree` is inductive with the types; finality needs it,
  because a file without a task must be one whose digest nobody writes.
* `ClaimsAreExclusive`: until a claim outlives its lease or its row, no two
  claim loops or goroutines hold one task. Invariant `HeldComputing`: what is
  in somebody's hands is computing and its lease runs, so it is neither
  requeued nor claimed again.
* `DigestsAreRight`: until then every digest is that of the file's own object.
  Invariant `KeyCurrent`: the key a goroutine has read is the key of the row
  its task belongs to.
* `ArchiveJobsProofs`: `TypeCorrect`, `RunningHeld`, `FilesOwned`, `Whole`,
  `CancelStays`. The invariant says where a job of each `call` can be (`Places`,
  `Lives`): in the channel once at most, with one worker at most, and never
  both, so that no two builds share a file; and what is in the file a worker is
  building (`Building`), so that what a broken build leaves is never kept.
* `UploadAdmissionProofs`: `TypeCorrect`, which includes the three limits,
  `Counts`, `Deadlines`, `Refusals`. Counts are cardinalities of sets of
  positions (`CountsExact`); each step adds or removes one request. Deadlines
  rest on what a position knows of its watcher and timer (`Body`).
* `AccountsProofs`: `TypeCorrect`, `SessionsRevoked`, `Collectors`,
  `ChangesStay`. Sessions and logins between check and session are followed
  alike (`LoginsCurrent`), an administrator who has updated is known to be about
  to revoke (`AdminsSane`), and no password is newer than `hashes`
  (`HashesCounted`). `gcRunning` and `gcDone` speak of the one collector in
  its loop (`OneCollector`), and a collector was started for sessions that
  exist (`DueDrawn`).
* `SiteSettingsProofs`: `TypeCorrect`, `Serves`, `Accounted`, `Addresses`. Ids
  are injective (`Ids`), the file of a row is on disk and not queued, and a slot
  that no overtaken PUT has mixed up names a row of its kind (`Rows`); a key in a
  handler's hands belongs to nobody else (`Hands`); until a reset a browser keeps
  nothing newer than the newest row (`Fresh`).

Some upload theorems carry hypotheses. They are not for the provers' sake:
without them the property is false, and each names a situation the code allows.

* `SingleServer`: the handlers all run in one process (any number of
  `--recover-only` processes may run beside it). This is what
  `deploy/safefilehub.service.example` and the Dockerfile run. With a second server a PATCH that dies between the two sections of
  the first server's Complete has its surplus byte published
  (section 4), and a second server's request may leave new work behind
  while the first recovers.
* `OneProcess`: no recovery process beside the server. With one, a part can be
  removed while its session is created (`upload_orphan_race`).
* `faults = 0`: no storage call failed whose failure the code cannot undo or does
  not look at; `crashes = 0`: no process died. A truncation that fails with its error
  dropped leaves a byte too many (session.go:141-152), a crash between rename
  and commit leaves an object.
* `Ids` or `Keys` finite: a page limit is compared with their cardinality.

Each proof has one step per action; steps that only move an actor go through a
shared lemma (`ActorStep`, `KeepStep`, `LockStep`, ...). The type invariants of
`ArchiveJobs`, `Accounts` and `SiteSettings` are theorems, and the runs of these
modules do not check them again.

Left to TLC: liveness (`EveryCallReturns`, `TasksSettle`, `Ends`, `SlotsComeBack`,
`CollectorsEnd`). Liveness under fairness, ENABLED and induction over data are
beyond the installed provers. Every other property of a passing run is stated by a
theorem.

## 6. Faulty variants

Beside the definitions of the models stand variants marked "Faulty variant": a
dropped check, a wrong order, a missing reset (`OffsetReached`, `UnlinkFirst`, `MutexFree`, `CreateObjectShadowed`,
`ParentUnchecked`, ...). `PROJECT.json` pairs each with the property that
catches it. No specification uses them.

## 7. Not modelled, and what is left

* Permission rules, Range headers, path normalisation, ICO and image headers are
  pure functions of one input that table-driven tests reach; the models leave
  open whether a request is allowed or an input is valid.
* The download limits (`limits/download.go`) are counters of the shape of
  `UploadAdmission`, without its two-step acquisition.
* Audit records, logs, metrics, the listing and the web interface are read by
  nothing that is modelled.
* Configuration, storage root and root permissions are set up by sequential
  statements before anything runs; the Windows store returns errors only.

Next would be safety parts of the other liveness properties, as `NoLockIsLeft` is
for `EveryCallReturns`, and a composition of `Accounts` with the requests that are
past requireSession when they are revoked.

## 8. Running

`tlc -config UploadServer.cfg MCUploadSessions` (and likewise for the other
configurations: those starting with `Upload` except `UploadAdmission.cfg` go
with `MCUploadSessions`, those with `Published` with `MCPublishedFiles`, those
with `Md5` with `MCMd5Queue`, and the other four with the MC module of their
name);
`tlapm UploadSessionsProofs.tla`, `tlapm UploadContentProofs.tla`,
and likewise for the other modules with `Proofs` in their name. The largest run,
`md5_two_servers`, has 4.3 million states and takes about two minutes.
