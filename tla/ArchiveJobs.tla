------------------------------ MODULE ArchiveJobs ------------------------------
(***************************************************************************)
(* ZIP archives: internal/archive's Manager with its map of jobs, its      *)
(* bounded channel of tasks and its workers, and the handlers that create, *)
(* cancel and download archives.                                           *)
(*                                                                         *)
(* A job's id is drawn at random for its creation, so that the create call *)
(* in progress, its request and its temporary file are named by the id.    *)
(* Sections under the mutex are one step; what happens between two of them *)
(* is not.  Only the handlers and the process lifecycle are actors here;   *)
(* Cleanup, an operation of Manager that only tests call, is one too.      *)
(***************************************************************************)
EXTENDS Naturals, FiniteSets, Sequences

CONSTANTS
    Jobs,       \* job ids (bounds the number of archives asked for)
    Keys,       \* object keys of the files that can be selected
    Workers,    \* Options.Workers goroutines, and as many places in the channel
    MaxFiles,   \* Options.MaxFiles
    MaxMishaps, \* bound on crashes and failing file operations together
    None

Statuses == {"running", "complete", "cancelled", "failed"}

ASSUME ArchiveAssumption ==
    /\ IsFiniteSet(Workers) /\ Workers # {}
    /\ MaxFiles \in Nat \ {0} /\ MaxMishaps \in Nat
    /\ None \notin Jobs \cup Statuses

VARIABLES
    objects,   \* objects that can still be opened
    job,       \* Manager.jobs: [Jobs -> Statuses | None]
    cancelled, \* jobs whose context is cancelled
    queue,     \* the channel of tasks
    call,      \* where the createArchive call of each id is
    entries,   \* the files it selected
    at,        \* where each worker is
    task,      \* the job in its hands
    broken,    \* its build has met an error
    temps,     \* jobs whose temporary file is on disk
    zip,       \* the entries written to it
    short,     \* jobs of which a download delivered less than was selected (history)
    closing,   \* how far Close has got
    strays,    \* files of an earlier process or of a failed stat (history)
    mishaps

manager == <<job, cancelled, queue, closing>>
calls == <<call, entries>>
builds == <<at, task, broken>>
disk == <<temps, zip, strays>>
vars == <<objects, job, cancelled, queue, call, entries, at, task, broken, temps, zip, short,
          closing, strays, mishaps>>

Mishap == mishaps < MaxMishaps /\ mishaps' = mishaps + 1

Known(j) == job[j] # None
Is(j, status) == job[j] = status

Init ==
    /\ objects = Keys
    /\ job = [j \in Jobs |-> None] /\ cancelled = {} /\ queue = <<>>
    /\ call = [j \in Jobs |-> "new"]
    /\ entries = [j \in Jobs |-> {}]
    /\ at = [w \in Workers |-> "idle"]
    /\ task = [w \in Workers |-> None]
    /\ broken = [w \in Workers |-> FALSE]
    /\ temps = {}
    /\ zip = [j \in Jobs |-> {}]
    /\ short = {}
    /\ closing = "open"
    /\ strays = {}
    /\ mishaps = 0

\* A deletion reaches the object of a selected file.  FilesUnderRoot also selects
\* files whose object is gone already.
RemoveObject(k) ==
    /\ k \in objects
    /\ objects' = objects \ {k}
    /\ UNCHANGED <<manager, calls, builds, disk, short, mishaps>>

-----------------------------------------------------------------------------
(* Creating, cancelling and downloading                                     *)

\* validate: the selection is neither empty nor too large.  Its checks of paths and
\* sizes, and the authorizer, refuse more.
Acceptable(E) == E # {} /\ Cardinality(E) <= MaxFiles

\* select { case <-m.closed: ... default: }
StillOpen == closing = "open"

\* The first section of create.
Register(j) ==
    /\ call[j] = "new"
    /\ \/ /\ StillOpen
          /\ \E E \in SUBSET Keys :
                /\ Acceptable(E)
                /\ entries' = [entries EXCEPT ![j] = E]
          /\ job' = [job EXCEPT ![j] = "running"]
          /\ call' = [call EXCEPT ![j] = "sending"]
       \/ /\ closing # "open"
          /\ call' = [call EXCEPT ![j] = "refused"]
          /\ UNCHANGED <<entries, job>>
    /\ UNCHANGED <<objects, cancelled, queue, builds, disk, short, closing, mishaps>>

\* make(chan task, options.Workers)
HasRoom == Len(queue) < Cardinality(Workers)

\* case m.tasks <- task
Send(j) ==
    /\ call[j] = "sending"
    /\ HasRoom
    /\ queue' = Append(queue, j)
    /\ call' = [call EXCEPT ![j] = "answered"]
    /\ UNCHANGED <<objects, job, cancelled, entries, builds, disk, short, closing, mishaps>>

\* Cancel has an effect on a running job only.
CancelledWith(S) == cancelled \cup {j \in S : Is(j, "running")}

\* case <-ctx.Done() (a client may hang up at any time), case <-m.closed: the job is
\* cancelled but stays in the map.
GiveUp(j) ==
    /\ call[j] = "sending"
    /\ cancelled' = CancelledWith({j})
    /\ call' = [call EXCEPT ![j] = "refused"]
    /\ UNCHANGED <<objects, job, queue, entries, builds, disk, short, closing, mishaps>>

\* cancelArchive: the owner knows the id once the call has been answered.
Cancel(j) ==
    /\ call[j] = "answered"
    /\ j \notin cancelled /\ Is(j, "running")
    /\ cancelled' = CancelledWith({j})
    /\ UNCHANGED <<objects, job, queue, calls, builds, disk, short, closing, mishaps>>

\* downloadArchive asks OwnedBy, Job and Open in turn; Open decides.
Download(j) ==
    /\ call[j] = "answered"
    /\ Is(j, "complete") /\ j \in temps
    /\ short' = IF zip[j] = entries[j] THEN short ELSE short \cup {j}
    /\ UNCHANGED <<objects, manager, calls, builds, disk, mishaps>>

-----------------------------------------------------------------------------
(* Workers                                                                  *)

\* case t := <-m.tasks
TakeTask(w) ==
    /\ at[w] = "idle"
    /\ queue # <<>>
    /\ at' = [at EXCEPT ![w] = "create"]
    /\ task' = [task EXCEPT ![w] = Head(queue)]
    /\ queue' = Tail(queue)
    /\ UNCHANGED <<objects, job, cancelled, calls, broken, disk, short, closing, mishaps>>

\* case <-m.closed, even with tasks in the channel.
Leave(w) ==
    /\ at[w] = "idle" /\ closing # "open"
    /\ at' = [at EXCEPT ![w] = "gone"]
    /\ UNCHANGED <<objects, manager, calls, task, broken, disk, short, mishaps>>

CreateTemp(w) ==
    /\ at[w] = "create"
    /\ \/ /\ temps' = temps \cup {task[w]}
          /\ zip' = [zip EXCEPT ![task[w]] = {}]
          /\ at' = [at EXCEPT ![w] = "zip"]
          /\ UNCHANGED <<broken, mishaps>>
       \/ /\ Mishap
          /\ at' = [at EXCEPT ![w] = "finish"]
          /\ broken' = [broken EXCEPT ![w] = TRUE]
          /\ UNCHANGED <<temps, zip>>
    /\ UNCHANGED <<objects, manager, calls, task, strays, short>>

Unwritten(j) == entries[j] \ zip[j]

\* One turn of writeZip's loop; the order of the entries is left open.
WriteEntry(w) ==
    LET j == task[w] IN
    /\ at[w] = "zip" /\ j \notin cancelled
    /\ \E k \in Unwritten(j) \cap objects : zip' = [zip EXCEPT ![j] = @ \cup {k}]
    /\ UNCHANGED <<objects, manager, calls, builds, temps, strays, short, mishaps>>

\* The context is cancelled, an object is missing, or the file cannot be written.
WriteFails(w) ==
    LET j == task[w] IN
    /\ at[w] = "zip"
    /\ \/ (j \in cancelled \/ Unwritten(j) \ objects # {}) /\ UNCHANGED mishaps
       \/ Mishap
    /\ at' = [at EXCEPT ![w] = "finish"]
    /\ broken' = [broken EXCEPT ![w] = TRUE]
    /\ UNCHANGED <<objects, manager, calls, task, disk, short>>

CloseZip(w) ==
    /\ at[w] = "zip"
    /\ Unwritten(task[w]) = {}
    /\ at' = [at EXCEPT ![w] = "finish"]
    /\ UNCHANGED <<objects, manager, calls, task, broken, disk, short, mishaps>>

\* Faulty variant: a cancelled build returns without a word.
OutcomeUntold(j, failed) ==
    IF j \in cancelled THEN "running" ELSE IF failed THEN "failed" ELSE "complete"

\* Faulty variant: only the context is looked at.
OutcomeIgnoringErrors(j, failed) == IF j \in cancelled THEN "cancelled" ELSE "complete"

\* Faulty variant: the context is left to writeZip.
OutcomeIgnoringContext(j, failed) == IF failed THEN "failed" ELSE "complete"

Outcome(j, failed) ==
    IF j \in cancelled THEN "cancelled" ELSE IF failed THEN "failed" ELSE "complete"

\* Faulty variant: the file is removed after an error only.
KeepsUnlessFailed(status) == status # "failed"

\* os.Remove(f.Name()) on every way out but the last.
Keeps(status) == status = "complete"

NextTask(w) ==
    /\ at' = [at EXCEPT ![w] = "idle"]
    /\ task' = [task EXCEPT ![w] = None]
    /\ broken' = [broken EXCEPT ![w] = FALSE]

\* The last section of build.
FinishBuild(w) ==
    LET j == task[w]
        outcome == Outcome(j, broken[w])
    IN
    /\ at[w] = "finish"
    /\ IF Known(j)
       THEN /\ job' = [job EXCEPT ![j] = outcome]
            /\ temps' = IF Keeps(outcome) THEN temps ELSE temps \ {j}
       ELSE temps' = temps \ {j} /\ UNCHANGED job
    /\ NextTask(w)
    /\ UNCHANGED <<objects, cancelled, queue, calls, zip, strays, short, closing, mishaps>>

\* os.Stat fails: the file is left where it is.
StatFails(w) ==
    LET j == task[w] IN
    /\ at[w] = "finish"
    /\ Known(j) /\ j \notin cancelled /\ ~broken[w]
    /\ Mishap
    /\ job' = [job EXCEPT ![j] = "failed"]
    /\ strays' = strays \cup {j}
    /\ NextTask(w)
    /\ UNCHANGED <<objects, cancelled, queue, calls, temps, zip, short, closing>>

-----------------------------------------------------------------------------
(* Cleanup, Close and restarts                                              *)

\* Cleanup and Close remove a job's file if it has one.
Collected(S) == temps \ {j \in S : Is(j, "complete")}

\* Cleanup(now): any finished jobs may be the ones whose time has come.
Cleanup ==
    \E S \in SUBSET {j \in Jobs : Known(j) /\ ~Is(j, "running")} :
        /\ S # {}
        /\ temps' = Collected(S)
        /\ job' = [j \in Jobs |-> IF j \in S THEN None ELSE job[j]]
        /\ UNCHANGED <<objects, cancelled, queue, calls, builds, zip, strays, short, closing, mishaps>>

\* close(m.closed)
StartClose ==
    /\ closing = "open"
    /\ closing' = "closed"
    /\ UNCHANGED <<objects, job, cancelled, queue, calls, builds, disk, short, mishaps>>

CancelAll ==
    /\ closing = "closed"
    /\ closing' = "waiting"
    /\ cancelled' = cancelled \cup {j \in Jobs : Known(j)}
    /\ UNCHANGED <<objects, job, queue, calls, builds, disk, short, mishaps>>

\* wg.Wait(), then the last section.
FinishClose ==
    /\ closing = "waiting"
    /\ \A w \in Workers : at[w] = "gone"
    /\ closing' = "done"
    /\ temps' = Collected(Jobs)
    /\ job' = [j \in Jobs |-> None]
    /\ UNCHANGED <<objects, cancelled, queue, calls, builds, zip, strays, short, mishaps>>

\* The process ends, after Close or by a crash, and another one starts.  Nothing
\* looks at the files that are in TempDir then.
Restart ==
    /\ (closing = "done" /\ UNCHANGED mishaps) \/ Mishap
    /\ job' = [j \in Jobs |-> None]
    /\ cancelled' = {} /\ queue' = <<>>
    /\ call' = [j \in Jobs |-> IF call[j] = "sending" THEN "refused" ELSE call[j]]
    /\ at' = [w \in Workers |-> "idle"]
    /\ task' = [w \in Workers |-> None]
    /\ broken' = [w \in Workers |-> FALSE]
    /\ closing' = "open"
    /\ strays' = strays \cup temps
    /\ UNCHANGED <<objects, entries, temps, zip, short>>

-----------------------------------------------------------------------------
Creating(j) == Register(j) \/ Send(j) \/ GiveUp(j)

Working(w) ==
    \/ TakeTask(w) \/ Leave(w) \/ CreateTemp(w) \/ WriteEntry(w) \/ WriteFails(w)
    \/ CloseZip(w) \/ FinishBuild(w) \/ StatFails(w)

Closing == CancelAll \/ FinishClose

Next ==
    \/ \E k \in Keys : RemoveObject(k)
    \/ \E j \in Jobs : Creating(j) \/ Cancel(j) \/ Download(j)
    \/ \E w \in Workers : Working(w)
    \/ Cleanup \/ StartClose \/ Closing \/ Restart

Spec == Init /\ [][Next]_vars

\* The scheduler runs every worker, and Close once it is called.
Fairness == (\A w \in Workers : WF_vars(Working(w))) /\ WF_vars(Closing)

FairSpec == Spec /\ Fairness

-----------------------------------------------------------------------------
(* Properties                                                               *)

\* The shapes of all variables; the channel never holds more than it has room for.
TypeOK ==
    /\ objects \subseteq Keys
    /\ job \in [Jobs -> Statuses \cup {None}]
    /\ cancelled \subseteq Jobs /\ short \subseteq Jobs /\ strays \subseteq Jobs /\ temps \subseteq Jobs
    /\ queue \in Seq(Jobs) /\ Len(queue) <= Cardinality(Workers)
    /\ call \in [Jobs -> {"new", "sending", "answered", "refused"}]
    /\ entries \in [Jobs -> SUBSET Keys]
    /\ at \in [Workers -> {"idle", "create", "zip", "finish", "gone"}]
    /\ task \in [Workers -> Jobs \cup {None}]
    /\ broken \in [Workers -> BOOLEAN]
    /\ zip \in [Jobs -> SUBSET Keys]
    /\ closing \in {"open", "closed", "waiting", "done"}
    /\ mishaps \in Nat

Queued(j) == \E i \in DOMAIN queue : queue[i] = j
InBuild(j) == \E w \in Workers : task[w] = j

\* archive.go:164-173: a job that shows as running is in someone's hands: its
\* creator's, the channel's or a worker's.  The one exception is what a creator that
\* has given up leaves behind: cancelled, seen by no worker, in the map until Close.
RunningIsHeld ==
    \A j \in Jobs : Is(j, "running") =>
        call[j] = "sending" \/ Queued(j) \/ InBuild(j) \/ (call[j] = "refused" /\ j \in cancelled)

\* archive.go:69-70, 99-117: a temporary file is that of a finished job or of a build
\* in progress, and after Close there are neither.  What a crash or a failing stat
\* leaves in TempDir is beyond the manager's reach.
FilesAccounted ==
    /\ \A j \in temps : Is(j, "complete") \/ InBuild(j) \/ j \in strays
    /\ closing = "done" => \A j \in Jobs : ~Known(j) /\ ~InBuild(j)

\* archive.go:195-237, 302-310: whatever is deleted, cancelled, expired or closed
\* meanwhile, the file of a complete job is there and has every selected entry, and
\* so has every download.
DownloadsWhole ==
    /\ \A j \in Jobs : Is(j, "complete") => j \in temps /\ zip[j] = entries[j]
    /\ short = {}

\* archive.go:213-219: a job cancelled while it runs never becomes complete or failed.
CancelSticks ==
    [][\A j \in Jobs : j \in cancelled /\ Is(j, "running") =>
            job'[j] \in {"running", "cancelled", None}]_vars

\* archive.go:99-117, 184-193: a job whose creation was answered stops running, with
\* any number of others before it in the channel, and Close returns.
Ends ==
    /\ \A j \in Jobs : (call[j] = "answered") ~> ~Is(j, "running")
    /\ (closing = "closed") ~> (closing \in {"done", "open"})
=============================================================================
