------------------------------- MODULE Md5Queue -------------------------------
(***************************************************************************)
(* The MD5 task queue: internal/checksum's worker, one per server process, *)
(* over the md5_tasks table, while files are uploaded and deleted.         *)
(*                                                                         *)
(* A worker's Run repeats RunOnce: requeue what was claimed longer than a  *)
(* lease ago, then claim due tasks one by one and hand each to one of a    *)
(* few goroutines, wait for them, and end for good if one of them (or a    *)
(* claim) reported an error.  Every repository call is one transaction.    *)
(* The MD5 of an object is represented by the object's key.                *)
(***************************************************************************)
EXTENDS Naturals, FiniteSets

CONSTANTS
    Keys,           \* object keys (bounds the number of uploads)
    MaxId,          \* bound on row ids
    Procs,          \* server processes over one data directory
    Hashers,        \* the goroutines RunOnce starts
    Home,           \* [Hashers -> Procs]
    MaxAttempts,    \* max_attempts, 3 for every task
    MaxTasksPerRun, \* Options.MaxTasksPerRun
    RecoveryLimit,  \* Options.RecoveryLimit
    MaxMishaps,     \* bound on process ends and failing writes together
    None

RowIds == 1..MaxId
Workers == Procs \cup Hashers

Files == [key: Keys, state: {"active", "deleting"},
          md5: {"disabled", "pending", "ready", "failed"}, digest: Keys \cup {None}]
Tasks == [status: {"pending", "computing", "failed", "complete"},
          attempts: 0..MaxAttempts, stale: BOOLEAN]

ASSUME QueueAssumption ==
    /\ Home \in [Hashers -> Procs]
    /\ Procs \cap Hashers = {}
    /\ MaxId \in Nat /\ MaxMishaps \in Nat
    /\ MaxAttempts \in Nat \ {0}
    /\ MaxTasksPerRun \in Nat \ {0} /\ RecoveryLimit \in Nat \ {0}
    /\ None \notin Keys \cup RowIds \cup Files \cup Tasks

VARIABLES
    file,    \* the files table: [RowIds -> Files | None]
    task,    \* the md5_tasks table; stale: claimed_at is longer ago than a lease
    objects, \* keys of the objects on disk
    born,    \* keys ever given out (random, never repeated)
    at,      \* where each process's Run is
    left,    \* claims left in its batch
    failed,  \* an error is waiting to be returned by its RunOnce
    claim,   \* the task in the hands of each claim loop and goroutine: RowIds | None
    pc, key, \* each goroutine's position, and the object key it has read
    overlap, \* a claim has outlived its lease or its row (history, for properties)
    mishaps

store == <<file, objects, born>>
loop == <<at, left, failed>>
hands == <<pc, key>>
vars == <<file, task, objects, born, at, left, failed, claim, pc, key, overlap, mishaps>>

HashersOf(p) == {w \in Hashers : Home[w] = p}
Active(i) == file[i] # None /\ file[i].state = "active"
Tombstone(i) == file[i] # None /\ file[i].state = "deleting"
Held(i) == \E x \in Workers : claim[x] = i

Mishap == mishaps < MaxMishaps /\ mishaps' = mishaps + 1

Init ==
    /\ file = [i \in RowIds |-> None]
    /\ task = [i \in RowIds |-> None]
    /\ objects = {} /\ born = {}
    /\ at = [p \in Procs |-> "down"]
    /\ left = [p \in Procs |-> 0]
    /\ failed = [p \in Procs |-> FALSE]
    /\ claim = [x \in Workers |-> None]
    /\ pc = [w \in Hashers |-> "idle"]
    /\ key = [w \in Hashers |-> None]
    /\ overlap = FALSE
    /\ mishaps = 0

-----------------------------------------------------------------------------
(* Files come and go                                                        *)

\* INTEGER PRIMARY KEY: one more than the largest id in the table.
NextId(i) ==
    /\ file[i] = None
    /\ \A j \in RowIds : file[j] # None => j < i
    /\ i = 1 \/ (i - 1 \in RowIds /\ file[i - 1] # None)

NewTask == [status |-> "pending", attempts |-> 0, stale |-> FALSE]

\* CompleteUpload reads md5_enabled in its own transaction, so any value will do;
\* a file that is created by other means has no task.
AddFile ==
    \E k \in Keys \ born, i \in RowIds, enabled \in BOOLEAN :
        /\ NextId(i)
        /\ born' = born \cup {k}
        /\ objects' = objects \cup {k}
        /\ file' = [file EXCEPT ![i] =
              [key |-> k, state |-> "active",
               md5 |-> IF enabled THEN "pending" ELSE "disabled", digest |-> None]]
        /\ task' = [task EXCEPT ![i] = IF enabled THEN NewTask ELSE None]
        /\ overlap' = (overlap \/ Held(i))
        /\ UNCHANGED <<loop, claim, hands, mishaps>>

BeginFileDelete ==
    \E i \in RowIds :
        /\ Active(i)
        /\ file' = [file EXCEPT ![i].state = "deleting"]
        /\ UNCHANGED <<task, objects, born, loop, claim, hands, overlap, mishaps>>

RemoveObject ==
    \E i \in RowIds :
        /\ Tombstone(i) /\ file[i].key \in objects
        /\ objects' = objects \ {file[i].key}
        /\ UNCHANGED <<file, task, born, loop, claim, hands, overlap, mishaps>>

\* The row goes and, ON DELETE CASCADE, its task.
FinalizeFileDelete ==
    \E i \in RowIds :
        /\ Tombstone(i) /\ file[i].key \notin objects
        /\ file' = [file EXCEPT ![i] = None]
        /\ task' = [task EXCEPT ![i] = None]
        /\ UNCHANGED <<objects, born, loop, claim, hands, overlap, mishaps>>

\* Five minutes have passed since the claim.
Lapse(i) ==
    /\ task[i] # None /\ task[i].status = "computing" /\ ~task[i].stale
    /\ task' = [task EXCEPT ![i].stale = TRUE]
    /\ overlap' = (overlap \/ Held(i))
    /\ UNCHANGED <<store, loop, claim, hands, mishaps>>

-----------------------------------------------------------------------------
(* RunOnce                                                                  *)

\* Faulty variant: nothing is ever taken back.
NeverLapsed(i) == FALSE

\* Faulty variant: claimed_at is not looked at.
AnyComputing(i) == task[i] # None /\ task[i].status = "computing"

Lapsed(i) == task[i] # None /\ task[i].status = "computing" /\ task[i].stale

\* RequeueComputingMD5Tasks: all of them, or as many as the limit allows.
Requeue(p) ==
    LET all == {i \in RowIds : Lapsed(i)} IN
    /\ at[p] = "recover"
    /\ \E S \in SUBSET all :
          /\ IF Cardinality(all) <= RecoveryLimit THEN S = all
                                                  ELSE Cardinality(S) = RecoveryLimit
          /\ task' = [i \in RowIds |->
                IF i \in S THEN [task[i] EXCEPT !.status = "pending", !.stale = FALSE]
                           ELSE task[i]]
    /\ at' = [at EXCEPT ![p] = "claim"]
    /\ left' = [left EXCEPT ![p] = MaxTasksPerRun]
    /\ UNCHANGED <<store, failed, claim, hands, overlap, mishaps>>

\* "recover md5 tasks": Run returns at once.
RequeueFails(p) ==
    /\ at[p] = "recover"
    /\ Mishap
    /\ at' = [at EXCEPT ![p] = "stopped"]
    /\ UNCHANGED <<store, task, left, failed, claim, hands, overlap>>

Claiming(p) == at[p] = "claim" /\ left[p] > 0

Pending(i) == task[i] # None /\ task[i].status = "pending"

\* Faulty variant: the table does not check it.
Unbounded(i) == TRUE

\* CHECK (attempts <= max_attempts), after attempts + 1.
WithinBound(i) == task[i].attempts < MaxAttempts

\* ClaimMD5Task.  ORDER BY available_at is left open: the times come from the clocks
\* of several processes.
ClaimTask(p) ==
    /\ Claiming(p)
    /\ \E i \in RowIds :
          /\ Pending(i) /\ WithinBound(i)
          /\ task' = [task EXCEPT ![i] = [status |-> "computing", stale |-> FALSE,
                                          attempts |-> @.attempts + 1]]
          /\ claim' = [claim EXCEPT ![p] = i]
    /\ at' = [at EXCEPT ![p] = "send"]
    /\ left' = [left EXCEPT ![p] = @ - 1]
    /\ UNCHANGED <<store, failed, hands, overlap, mishaps>>

\* The due task has no attempt left, or the statement fails.
ClaimFails(p) ==
    /\ Claiming(p)
    /\ \/ (\E i \in RowIds : Pending(i) /\ ~WithinBound(i)) /\ UNCHANGED mishaps
       \/ Mishap
    /\ failed' = [failed EXCEPT ![p] = TRUE]
    /\ at' = [at EXCEPT ![p] = "wait"]
    /\ UNCHANGED <<store, task, left, claim, hands, overlap>>

\* Nothing due, or the batch is full.
NoMoreTasks(p) ==
    /\ at[p] = "claim"
    /\ left[p] = 0 \/ ~\E i \in RowIds : Pending(i)
    /\ at' = [at EXCEPT ![p] = "wait"]
    /\ UNCHANGED <<store, task, left, failed, claim, hands, overlap, mishaps>>

\* jobs <- t
Send(p) ==
    /\ at[p] = "send"
    /\ \E w \in HashersOf(p) :
          /\ pc[w] = "idle"
          /\ claim' = [claim EXCEPT ![w] = claim[p], ![p] = None]
          /\ pc' = [pc EXCEPT ![w] = "look"]
    /\ at' = [at EXCEPT ![p] = "claim"]
    /\ UNCHANGED <<store, task, left, failed, key, overlap, mishaps>>

\* wg.Wait(), then Run returns the error or sleeps until the next batch.
EndBatch(p) ==
    /\ at[p] = "wait"
    /\ \A w \in HashersOf(p) : pc[w] = "idle"
    /\ at' = [at EXCEPT ![p] = IF failed[p] THEN "stopped" ELSE "recover"]
    /\ UNCHANGED <<store, task, left, failed, claim, hands, overlap, mishaps>>

Boot(p) ==
    /\ at[p] = "down"
    /\ at' = [at EXCEPT ![p] = "recover"]
    /\ UNCHANGED <<store, task, left, failed, claim, hands, overlap, mishaps>>

\* The process dies, or it shuts down: with the context cancelled no repository
\* call has an effect any more.  What is claimed stays computing.
Stop(p) ==
    /\ at[p] # "down"
    /\ Mishap
    /\ at' = [at EXCEPT ![p] = "down"]
    /\ failed' = [failed EXCEPT ![p] = FALSE]
    /\ claim' = [x \in Workers |-> IF x = p \/ x \in HashersOf(p) THEN None ELSE claim[x]]
    /\ pc' = [w \in Hashers |-> IF w \in HashersOf(p) THEN "idle" ELSE pc[w]]
    /\ key' = [w \in Hashers |-> IF w \in HashersOf(p) THEN None ELSE key[w]]
    /\ UNCHANGED <<store, task, left, overlap>>

-----------------------------------------------------------------------------
(* process                                                                  *)

\* The goroutine is done with its task.
Done(w) ==
    /\ pc' = [pc EXCEPT ![w] = "idle"]
    /\ claim' = [claim EXCEPT ![w] = None]
    /\ key' = [key EXCEPT ![w] = None]

\* FileByID sees active files only; a file that is gone is no error.
Look(w) ==
    /\ pc[w] = "look"
    /\ \/ /\ Active(claim[w])
          /\ key' = [key EXCEPT ![w] = file[claim[w]].key]
          /\ pc' = [pc EXCEPT ![w] = "open"]
          /\ UNCHANGED claim
       \/ ~Active(claim[w]) /\ Done(w)
    /\ UNCHANGED <<store, task, loop, overlap, mishaps>>

\* Open and read; an object that is open stays readable when it is removed.
Open(w) ==
    /\ pc[w] = "open"
    /\ key[w] \in objects
    /\ pc' = [pc EXCEPT ![w] = "complete"]
    /\ UNCHANGED <<store, task, loop, claim, key, overlap, mishaps>>

\* The object is missing, or the database or the object cannot be read.
GiveUp(w) ==
    /\ pc[w] \in {"look", "open"}
    /\ pc' = [pc EXCEPT ![w] = "fail"]
    /\ UNCHANGED <<store, task, loop, claim, key, overlap, mishaps>>

\* Faulty variant: WHERE status='computing' is missing.
AnyTask(i) == task[i] # None

\* WHERE file_id=? AND status='computing', whoever claimed it.
Reportable(i) == task[i] # None /\ task[i].status = "computing"

\* Faulty variant: WHERE id=? is missing.
DigestEverywhere(i, d) == [j \in RowIds |-> IF file[j] = None \/ task[j] = None THEN file[j]
                                           ELSE [file[j] EXCEPT !.md5 = "ready", !.digest = d]]

\* UPDATE files SET md5_status='ready', md5_digest=?
SetDigest(i, d) == [file EXCEPT ![i].md5 = "ready", ![i].digest = d]

CompleteMD5Task(w) ==
    LET i == claim[w] IN
    /\ pc[w] = "complete"
    /\ Reportable(i)
    /\ task' = [task EXCEPT ![i].status = "complete"]
    /\ file' = SetDigest(i, key[w])
    /\ Done(w)
    /\ UNCHANGED <<objects, born, loop, overlap, mishaps>>

\* Faulty variant: the file is told of the retry whatever the task became.
AlwaysPending(t) == "pending"

\* CASE WHEN attempts>=max_attempts
AfterFailure(t) == IF t.attempts >= MaxAttempts THEN "failed" ELSE "pending"

\* The files row follows what the tasks row has become.
FileAfterFailure(t) == AfterFailure(t)

FailMD5Task(w) ==
    LET i == claim[w] IN
    /\ pc[w] = "fail"
    /\ Reportable(i)
    /\ task' = [task EXCEPT ![i].status = AfterFailure(task[i]), ![i].stale = FALSE]
    /\ file' = [file EXCEPT ![i].md5 = FileAfterFailure(task[i])]
    /\ Done(w)
    /\ UNCHANGED <<objects, born, loop, overlap, mishaps>>

\* No computing task with this id, or the transaction fails: RunOnce will return
\* the error.
ReportFails(w) ==
    /\ pc[w] \in {"complete", "fail"}
    /\ \/ ~Reportable(claim[w]) /\ UNCHANGED mishaps
       \/ Mishap
    /\ failed' = [failed EXCEPT ![Home[w]] = TRUE]
    /\ Done(w)
    /\ UNCHANGED <<store, task, at, left, overlap>>

-----------------------------------------------------------------------------
Running(p) ==
    \/ Requeue(p) \/ RequeueFails(p) \/ ClaimTask(p) \/ ClaimFails(p) \/ NoMoreTasks(p)
    \/ Send(p) \/ EndBatch(p)

Hashing(w) ==
    \/ Look(w) \/ Open(w) \/ GiveUp(w) \/ CompleteMD5Task(w) \/ FailMD5Task(w)
    \/ ReportFails(w)

Outside == AddFile \/ BeginFileDelete \/ RemoveObject \/ FinalizeFileDelete

Next ==
    \/ Outside
    \/ \E i \in RowIds : Lapse(i)
    \/ \E p \in Procs : Running(p) \/ Boot(p) \/ Stop(p)
    \/ \E w \in Hashers : Hashing(w)

Spec == Init /\ [][Next]_vars

\* Time passes, servers are restarted, the scheduler runs every goroutine.
Fairness ==
    /\ \A i \in RowIds : WF_vars(Lapse(i))
    /\ \A p \in Procs : WF_vars(Running(p)) /\ WF_vars(Boot(p))
    /\ \A w \in Hashers : WF_vars(Hashing(w))

FairSpec == Spec /\ Fairness

-----------------------------------------------------------------------------
(* Properties                                                               *)

\* The shapes of all variables; no task is claimed more than max_attempts times.
TypeOK ==
    /\ file \in [RowIds -> Files \cup {None}]
    /\ task \in [RowIds -> Tasks \cup {None}]
    /\ objects \subseteq Keys /\ born \subseteq Keys
    /\ at \in [Procs -> {"down", "recover", "claim", "send", "wait", "stopped"}]
    /\ left \in [Procs -> 0..MaxTasksPerRun]
    /\ failed \in [Procs -> BOOLEAN]
    /\ claim \in [Workers -> RowIds \cup {None}]
    /\ pc \in [Hashers -> {"idle", "look", "open", "complete", "fail"}]
    /\ key \in [Hashers -> Keys \cup {None}]
    /\ overlap \in BOOLEAN
    /\ mishaps \in Nat

\* repository.go:1135-1187: files.md5_status, which readers are shown, and the task
\* tell one story, whichever goroutines of whichever processes report in which order.
TablesAgree ==
    \A i \in RowIds :
        IF task[i] = None THEN file[i] = None \/ file[i].md5 = "disabled"
        ELSE /\ file[i] # None
             /\ file[i].md5 = IF task[i].status = "complete" THEN "ready"
                              ELSE IF task[i].status = "failed" THEN "failed" ELSE "pending"
             /\ task[i].status = "failed" => task[i].attempts = MaxAttempts

\* repository.go:1119-1120: as long as no claim outlives its lease or its row, no two
\* claim loops or goroutines have the same task in their hands.
ClaimedOnce ==
    ~overlap => \A x, y \in Workers : claim[x] = claim[y] /\ claim[x] # None => x = y

\* worker.go:1: the digest shown for a file is the MD5 of its upload; which is not so
\* when a report on a deleted file meets the next file that has its id ...
DigestOfContent ==
    \A i \in RowIds : file[i] # None /\ file[i].md5 = "ready" => file[i].digest = file[i].key

\* ... and is so as long as no claim outlives its lease or its row.
DigestUnlessOverlap == ~overlap => DigestOfContent

\* worker.go:160-162: a terminal result is not overwritten by a late report, for as
\* long as the file is there.
ResultsAreFinal ==
    [][\A i \in RowIds :
        (/\ task[i] # None /\ task[i].status \in {"complete", "failed"}
         /\ file'[i] # None /\ file'[i].key = file[i].key) =>
            task'[i] = task[i] /\ file'[i].md5 = file[i].md5 /\ file'[i].digest = file[i].digest]_vars

\* worker.go:80-82: with leases and restarts, a task is stuck only if every worker
\* has ended with an error.
Waiting(i) == task[i] # None /\ task[i].status \in {"pending", "computing"}
AllStopped == \A p \in Procs : at[p] = "stopped"
TasksSettle == \A i \in RowIds : Waiting(i) ~> (~Waiting(i) \/ AllStopped)
=============================================================================
