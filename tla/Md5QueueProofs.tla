---------------------------- MODULE Md5QueueProofs ----------------------------
(***************************************************************************)
(* Theorems about Md5Queue for any number of files, keys, processes and    *)
(* goroutines, any bounds, and any number of process ends and failures.    *)
(*                                                                         *)
(* Types need to know who has a task in hand (Filled) and that a task has  *)
(* a file (TablesAgree); exclusive claims need that a task in hand stays   *)
(* computing within its lease (HeldComputing), digests that the key read   *)
(* is still the row's (KeyCurrent).                                        *)
(***************************************************************************)
EXTENDS Md5Queue, TLAPS

\* Who has a task in hand: a goroutine that is not idle, a claim loop that sends.
Filled ==
    /\ \A w \in Hashers : IF pc[w] = "idle" THEN claim[w] = None ELSE claim[w] \in RowIds
    /\ \A p \in Procs : IF at[p] = "send" THEN claim[p] \in RowIds ELSE claim[p] = None

TypeInv == TypeOK /\ Filled /\ TablesAgree

\* One row of the two tables.
Agrees(f, t) ==
    IF t = None THEN f = None \/ f.md5 = "disabled"
    ELSE /\ f # None
         /\ f.md5 = IF t.status = "complete" THEN "ready"
                    ELSE IF t.status = "failed" THEN "failed" ELSE "pending"
         /\ t.status = "failed" => t.attempts = MaxAttempts

\* As long as no claim has outlived its lease or its row: a task in hand is
\* computing, within its lease, or gone, ...
HeldComputing == ~overlap => \A x \in Workers :
    claim[x] # None /\ task[claim[x]] # None =>
        task[claim[x]].status = "computing" /\ ~task[claim[x]].stale

\* ... and the key a goroutine has read is the row's, if there is one.
KeyCurrent == ~overlap => \A w \in Hashers :
    pc[w] \in {"open", "complete"} /\ file[claim[w]] # None => key[w] = file[claim[w]].key

ClaimInv == TypeInv /\ ClaimedOnce /\ HeldComputing
DigestInv == ClaimInv /\ KeyCurrent /\ DigestUnlessOverlap

-----------------------------------------------------------------------------
(* Types, and the agreement of the tables                                   *)

LEMMA AgreesByRow == TablesAgree <=> \A i \in RowIds : Agrees(file[i], task[i])
    BY DEF TablesAgree, Agrees

\* No record and no id is None.
LEMMA NoneApart == None \notin RowIds /\ None \notin Files /\ None \notin Tasks
    BY QueueAssumption

\* The columns of files and md5_tasks that are ever updated.
LEMMA FileUpdates ==
    ASSUME NEW f \in Files
    PROVE  /\ LET g == [f EXCEPT !.state = "deleting"]
              IN  g \in Files /\ g.key = f.key /\ g.md5 = f.md5 /\ g.digest = f.digest
           /\ \A m \in {"disabled", "pending", "ready", "failed"} :
                 LET g == [f EXCEPT !.md5 = m]
                 IN  g \in Files /\ g.key = f.key /\ g.md5 = m /\ g.digest = f.digest
           /\ \A d \in Keys \cup {None} :
                 LET g == [f EXCEPT !.md5 = "ready", !.digest = d]
                 IN  g \in Files /\ g.key = f.key /\ g.md5 = "ready" /\ g.digest = d
    BY DEF Files

LEMMA TaskUpdates ==
    ASSUME NEW t \in Tasks
    PROVE  /\ \A s \in {"pending", "computing", "failed", "complete"} :
                 LET u == [t EXCEPT !.status = s, !.stale = FALSE]
                 IN  u \in Tasks /\ u.status = s /\ u.attempts = t.attempts
           /\ LET u == [t EXCEPT !.status = "complete"]
              IN  u \in Tasks /\ u.status = "complete" /\ u.attempts = t.attempts
           /\ LET u == [t EXCEPT !.stale = TRUE]
              IN  u \in Tasks /\ u.status = t.status /\ u.attempts = t.attempts
    BY DEF Tasks

\* A goroutine that gives its task back.
LEMMA DoneTyped ==
    ASSUME TypeInv, NEW w \in Hashers, Done(w), at' = at
    PROVE  /\ claim' \in [Workers -> RowIds \cup {None}]
           /\ pc' \in [Hashers -> {"idle", "look", "open", "complete", "fail"}]
           /\ key' \in [Hashers -> Keys \cup {None}]
           /\ Filled'
<1>1. /\ claim \in [Workers -> RowIds \cup {None}]
      /\ pc \in [Hashers -> {"idle", "look", "open", "complete", "fail"}]
      /\ key \in [Hashers -> Keys \cup {None}]
      /\ Filled /\ w \in Workers /\ w \notin Procs
    BY QueueAssumption DEF TypeInv, TypeOK, Workers
<1>2. Filled'
    BY <1>1, QueueAssumption DEF Done, Filled, Workers
<1> QED BY <1>1, <1>2 DEF Done

\* A goroutine that moves on with its task.
LEMMA MoveTyped ==
    ASSUME TypeInv, NEW w \in Hashers, pc[w] # "idle", NEW l \in {"look", "open", "complete", "fail"},
           pc' = [pc EXCEPT ![w] = l], at' = at, claim' = claim
    PROVE  /\ pc' \in [Hashers -> {"idle", "look", "open", "complete", "fail"}]
           /\ Filled'
    BY DEF TypeInv, TypeOK, Filled

\* Updating one row of both tables.
LEMMA RowTyped ==
    ASSUME TypeInv, NEW i \in RowIds,
           NEW f \in Files \cup {None}, NEW t \in Tasks \cup {None}, Agrees(f, t),
           file' = [file EXCEPT ![i] = f], task' = [task EXCEPT ![i] = t]
    PROVE  /\ file' \in [RowIds -> Files \cup {None}]
           /\ task' \in [RowIds -> Tasks \cup {None}]
           /\ TablesAgree'
<1>1. file \in [RowIds -> Files \cup {None}] /\ task \in [RowIds -> Tasks \cup {None}]
    BY DEF TypeInv, TypeOK
<1>2. \A j \in RowIds : Agrees(file[j], task[j])
    BY AgreesByRow DEF TypeInv
<1>3. \A j \in RowIds : Agrees(file'[j], task'[j])
    <2> TAKE j \in RowIds
    <2>1. CASE j = i
        BY <2>1, <1>1
    <2>2. CASE j # i
        BY <2>2, <1>1, <1>2
    <2> QED BY <2>1, <2>2
<1>4. TablesAgree'
    BY <1>3 DEF TablesAgree, Agrees
<1> QED BY <1>1, <1>4

\* Every step keeps the shapes and the agreement: one case per action.
LEMMA TypeInvStep == TypeInv /\ [Next]_vars => TypeInv'
<1> SUFFICES ASSUME TypeInv, [Next]_vars
             PROVE  TypeInv'
    OBVIOUS
<1> USE NoneApart
<1>0. /\ TypeOK /\ Filled /\ TablesAgree
      /\ file \in [RowIds -> Files \cup {None}] /\ task \in [RowIds -> Tasks \cup {None}]
      /\ \A i \in RowIds : Agrees(file[i], task[i])
    BY AgreesByRow DEF TypeInv, TypeOK
<1>1. CASE AddFile
    <2>1. PICK k \in Keys \ born, i \in RowIds, enabled \in BOOLEAN :
              /\ NextId(i)
              /\ born' = born \cup {k} /\ objects' = objects \cup {k}
              /\ file' = [file EXCEPT ![i] =
                    [key |-> k, state |-> "active",
                     md5 |-> IF enabled THEN "pending" ELSE "disabled", digest |-> None]]
              /\ task' = [task EXCEPT ![i] = IF enabled THEN NewTask ELSE None]
              /\ overlap' = (overlap \/ Held(i))
        BY <1>1 DEF AddFile
    <2> DEFINE f == [key |-> k, state |-> "active",
                     md5 |-> IF enabled THEN "pending" ELSE "disabled", digest |-> None]
               t == IF enabled THEN NewTask ELSE None
    <2>2. f \in Files /\ t \in Tasks \cup {None}
        BY QueueAssumption DEF Files, Tasks, NewTask
    <2>6. Agrees(f, t)
        <3>4. NewTask \in Tasks
            BY QueueAssumption DEF Tasks, NewTask
        <3>5. \A g \in Files : g # None
            BY NoneApart
        <3>1. f # None /\ NewTask # None
            BY <2>2, <3>4, <3>5, NoneApart
        <3>2. CASE enabled
            BY <3>1, <3>2 DEF Agrees, NewTask
        <3>3. CASE ~enabled
            BY <3>3 DEF Agrees
        <3> QED BY <3>2, <3>3
    <2>3. file' = [file EXCEPT ![i] = f] /\ task' = [task EXCEPT ![i] = t]
        BY <2>1
    <2> HIDE DEF f, t
    <2>4. /\ file' \in [RowIds -> Files \cup {None}] /\ task' \in [RowIds -> Tasks \cup {None}]
          /\ TablesAgree'
        BY <2>2, <2>3, <2>6, RowTyped
    <2>5. overlap' \in BOOLEAN
        BY <2>1, <1>0 DEF TypeOK
    <2> QED BY <1>0, <1>1, <2>1, <2>4, <2>5 DEF TypeInv, TypeOK, Filled, AddFile, loop, hands
<1>2. CASE BeginFileDelete
    <2>1. PICK i \in RowIds : Active(i) /\ file' = [file EXCEPT ![i].state = "deleting"]
        BY <1>2 DEF BeginFileDelete
    <2> DEFINE f == [file[i] EXCEPT !.state = "deleting"]
    <2>6. file[i] \in Files
        BY <1>0, <2>1 DEF Active
    <2>2. f \in Files /\ f.md5 = file[i].md5
        BY <2>6, FileUpdates
    <2>3. Agrees(f, task[i]) /\ task[i] \in Tasks \cup {None}
        <3>1. f # None /\ Agrees(file[i], task[i]) /\ file[i] # None
            BY <1>0, <2>1, <2>2 DEF Active
        <3> QED BY <1>0, <2>2, <3>1 DEF Agrees
    <2>4. file' = [file EXCEPT ![i] = f] /\ task' = [task EXCEPT ![i] = task[i]]
        BY <1>0, <1>2, <2>1 DEF BeginFileDelete
    <2> HIDE DEF f
    <2>5. /\ file' \in [RowIds -> Files \cup {None}] /\ task' \in [RowIds -> Tasks \cup {None}]
          /\ TablesAgree'
        BY <2>2, <2>3, <2>4, RowTyped
    <2> QED BY <1>0, <1>2, <2>5 DEF TypeInv, TypeOK, Filled, BeginFileDelete, loop, hands
<1>3. CASE RemoveObject
    BY <1>0, <1>3 DEF TypeInv, TypeOK, Filled, TablesAgree, RemoveObject, loop, hands
<1>4. CASE FinalizeFileDelete
    <2>1. PICK i \in RowIds : /\ file' = [file EXCEPT ![i] = None]
                              /\ task' = [task EXCEPT ![i] = None]
        BY <1>4 DEF FinalizeFileDelete
    <2>2. Agrees(None, None)
        BY DEF Agrees
    <2>3. /\ file' \in [RowIds -> Files \cup {None}] /\ task' \in [RowIds -> Tasks \cup {None}]
          /\ TablesAgree'
        BY <2>1, <2>2, RowTyped
    <2> QED BY <1>0, <1>4, <2>3 DEF TypeInv, TypeOK, Filled, FinalizeFileDelete, loop, hands
<1>5. ASSUME NEW i \in RowIds, Lapse(i) PROVE TypeInv'
    <2> DEFINE t == [task[i] EXCEPT !.stale = TRUE]
    <2>6. task[i] \in Tasks
        BY <1>0, <1>5 DEF Lapse
    <2>1. t \in Tasks /\ t.status = task[i].status /\ t.attempts = task[i].attempts
        BY <2>6, TaskUpdates
    <2>2. Agrees(file[i], t) /\ file[i] \in Files \cup {None}
        BY <1>0, <1>5, <2>1 DEF Agrees, Lapse
    <2>3. file' = [file EXCEPT ![i] = file[i]] /\ task' = [task EXCEPT ![i] = t]
        BY <1>0, <1>5 DEF Lapse, store
    <2> HIDE DEF t
    <2>4. /\ file' \in [RowIds -> Files \cup {None}] /\ task' \in [RowIds -> Tasks \cup {None}]
          /\ TablesAgree'
        BY <2>1, <2>2, <2>3, RowTyped
    <2>5. overlap' \in BOOLEAN
        BY <1>0, <1>5 DEF TypeOK, Lapse
    <2> QED BY <1>0, <1>5, <2>4, <2>5 DEF TypeInv, TypeOK, Filled, Lapse, store, loop, hands
<1>6. ASSUME NEW p \in Procs, Requeue(p) PROVE TypeInv'
    <2>1. PICK S \in SUBSET {i \in RowIds : Lapsed(i)} :
              task' = [i \in RowIds |->
                 IF i \in S THEN [task[i] EXCEPT !.status = "pending", !.stale = FALSE]
                            ELSE task[i]]
        BY <1>6 DEF Requeue
    <2>2. \A i \in RowIds : task'[i] \in Tasks \cup {None} /\ Agrees(file'[i], task'[i])
        <3> TAKE i \in RowIds
        <3>1. file'[i] = file[i]
            BY <1>6 DEF Requeue, store
        <3>2. CASE i \in S
            <4>1. task[i] \in Tasks /\ task[i].status = "computing"
                BY <1>0, <2>1, <3>2 DEF Lapsed
            <4>2. /\ task'[i] = [task[i] EXCEPT !.status = "pending", !.stale = FALSE]
                  /\ task'[i] \in Tasks /\ task'[i].status = "pending"
                BY <2>1, <3>2, <4>1, TaskUpdates DEF Tasks
            <4> QED BY <1>0, <3>1, <4>1, <4>2 DEF Agrees
        <3>3. CASE i \notin S
            BY <1>0, <2>1, <3>1, <3>3
        <3> QED BY <3>2, <3>3
    <2>3. TablesAgree' /\ task' \in [RowIds -> Tasks \cup {None}]
        BY <2>1, <2>2 DEF TablesAgree, Agrees
    <2>4. at' \in [Procs -> {"down", "recover", "claim", "send", "wait", "stopped"}] /\ Filled'
        BY <1>0, <1>6 DEF Requeue, TypeOK, Filled, hands
    <2>5. left' \in [Procs -> 0..MaxTasksPerRun]
        <3>1. MaxTasksPerRun \in 0..MaxTasksPerRun
            BY QueueAssumption
        <3> QED BY <1>0, <1>6, <3>1 DEF Requeue, TypeOK
    <2> QED BY <1>0, <1>6, <2>3, <2>4, <2>5 DEF TypeInv, TypeOK, Requeue, store, hands
<1>7. ASSUME NEW p \in Procs, RequeueFails(p) \/ NoMoreTasks(p) \/ EndBatch(p) \/ Boot(p)
             PROVE TypeInv'
    <2>1. /\ at' \in [Procs -> {"down", "recover", "claim", "send", "wait", "stopped"}]
          /\ mishaps' \in Nat
        BY <1>0, <1>7 DEF RequeueFails, NoMoreTasks, EndBatch, Boot, Mishap, TypeOK
    <2>2. at[p] # "send" /\ at'[p] # "send" /\ \A q \in Procs : q # p => at'[q] = at[q]
        BY <1>0, <1>7 DEF RequeueFails, NoMoreTasks, EndBatch, Boot, TypeOK
    <2>3. Filled'
        BY <1>0, <1>7, <2>2 DEF RequeueFails, NoMoreTasks, EndBatch, Boot, Filled, hands
    <2> QED BY <1>0, <1>7, <2>1, <2>3 DEF RequeueFails, NoMoreTasks, EndBatch, Boot, TypeInv, TypeOK,
                                          TablesAgree, store, hands
<1>8. ASSUME NEW p \in Procs, ClaimTask(p) PROVE TypeInv'
    <2>1. PICK i \in RowIds :
              /\ Pending(i) /\ WithinBound(i)
              /\ task' = [task EXCEPT ![i] = [status |-> "computing", stale |-> FALSE,
                                              attempts |-> @.attempts + 1]]
              /\ claim' = [claim EXCEPT ![p] = i]
        BY <1>8 DEF ClaimTask
    <2> DEFINE t == [status |-> "computing", stale |-> FALSE, attempts |-> task[i].attempts + 1]
    <2>2. task[i] \in Tasks /\ task[i].status = "pending" /\ task[i].attempts < MaxAttempts
        BY <1>0, <2>1 DEF Pending, WithinBound
    <2>3. t \in Tasks
        BY <2>2, QueueAssumption DEF Tasks
    <2>4. Agrees(file[i], t) /\ file[i] \in Files \cup {None}
        BY <1>0, <2>2, <2>3 DEF Agrees
    <2>5. file' = [file EXCEPT ![i] = file[i]] /\ task' = [task EXCEPT ![i] = t]
        BY <1>0, <1>8, <2>1 DEF ClaimTask, store
    <2> HIDE DEF t
    <2>6. /\ file' \in [RowIds -> Files \cup {None}] /\ task' \in [RowIds -> Tasks \cup {None}]
          /\ TablesAgree'
        BY <2>3, <2>4, <2>5, RowTyped
    <2>7. /\ at' \in [Procs -> {"down", "recover", "claim", "send", "wait", "stopped"}]
          /\ left' \in [Procs -> 0..MaxTasksPerRun]
          /\ claim' \in [Workers -> RowIds \cup {None}]
        BY <1>0, <1>8, <2>1, QueueAssumption DEF ClaimTask, Claiming, TypeOK, Workers
    <2>8. Filled'
        BY <1>0, <1>8, <2>1, QueueAssumption DEF ClaimTask, TypeOK, Filled, Workers, hands
    <2> QED BY <1>0, <1>8, <2>6, <2>7, <2>8 DEF TypeInv, TypeOK, ClaimTask, store, hands
<1>9. ASSUME NEW p \in Procs, ClaimFails(p) PROVE TypeInv'
    <2>1. /\ at' \in [Procs -> {"down", "recover", "claim", "send", "wait", "stopped"}]
          /\ failed' \in [Procs -> BOOLEAN] /\ mishaps' \in Nat
        BY <1>0, <1>9 DEF ClaimFails, Mishap, TypeOK
    <2>2. Filled'
        BY <1>0, <1>9 DEF ClaimFails, Claiming, Filled, TypeOK, hands
    <2> QED BY <1>0, <1>9, <2>1, <2>2 DEF TypeInv, TypeOK, ClaimFails, TablesAgree, store, hands
<1>10. ASSUME NEW p \in Procs, Send(p) PROVE TypeInv'
    <2>1. PICK w \in HashersOf(p) : /\ pc[w] = "idle"
                                    /\ claim' = [claim EXCEPT ![w] = claim[p], ![p] = None]
                                    /\ pc' = [pc EXCEPT ![w] = "look"]
        BY <1>10 DEF Send
    <2>2. w \in Hashers /\ w # p /\ p \in Workers /\ w \in Workers /\ claim[p] \in RowIds
        BY <1>0, <1>10, <2>1, QueueAssumption DEF HashersOf, Workers, Filled, Send
    <2>3. /\ claim' \in [Workers -> RowIds \cup {None}]
          /\ pc' \in [Hashers -> {"idle", "look", "open", "complete", "fail"}]
          /\ at' \in [Procs -> {"down", "recover", "claim", "send", "wait", "stopped"}]
        BY <1>0, <1>10, <2>1, <2>2 DEF Send, TypeOK
    <2>4. Filled'
        BY <1>0, <1>10, <2>1, <2>2, QueueAssumption DEF Send, TypeOK, Filled, Workers
    <2> QED BY <1>0, <1>10, <2>3, <2>4 DEF TypeInv, TypeOK, Send, TablesAgree, store
<1>11. ASSUME NEW p \in Procs, Stop(p) PROVE TypeInv'
    <2>1. /\ claim' \in [Workers -> RowIds \cup {None}]
          /\ pc' \in [Hashers -> {"idle", "look", "open", "complete", "fail"}]
          /\ key' \in [Hashers -> Keys \cup {None}]
          /\ at' \in [Procs -> {"down", "recover", "claim", "send", "wait", "stopped"}]
          /\ failed' \in [Procs -> BOOLEAN] /\ mishaps' \in Nat
        BY <1>0, <1>11 DEF Stop, Mishap, TypeOK
    <2>2. Filled'
        BY <1>0, <1>11, QueueAssumption DEF Stop, TypeOK, Filled, Workers, HashersOf
    <2> QED BY <1>0, <1>11, <2>1, <2>2 DEF TypeInv, TypeOK, Stop, TablesAgree, store
<1>12. ASSUME NEW w \in Hashers, Look(w) PROVE TypeInv'
    <2>1. CASE Done(w)
        BY <1>0, <1>12, <2>1, DoneTyped DEF TypeInv, TypeOK, Look, TablesAgree, store, loop
    <2>2. CASE ~Done(w)
        <3>1. /\ Active(claim[w]) /\ claim[w] \in RowIds
              /\ key' = [key EXCEPT ![w] = file[claim[w]].key]
              /\ pc' = [pc EXCEPT ![w] = "open"]
            BY <1>0, <1>12, <2>2 DEF Look, Filled
        <3>2. file[claim[w]].key \in Keys
            BY <1>0, <3>1 DEF Active, Files
        <3>3. key' \in [Hashers -> Keys \cup {None}]
            BY <1>0, <3>1, <3>2 DEF TypeOK
        <3>4. /\ pc' \in [Hashers -> {"idle", "look", "open", "complete", "fail"}] /\ Filled'
            BY <1>12, <2>2, <3>1, MoveTyped DEF Look, loop
        <3> QED BY <1>0, <1>12, <2>2, <3>3, <3>4 DEF TypeInv, TypeOK, Look, TablesAgree, store, loop
    <2> QED BY <2>1, <2>2
<1>13. ASSUME NEW w \in Hashers, Open(w) \/ GiveUp(w) PROVE TypeInv'
    <2>1. /\ pc' \in [Hashers -> {"idle", "look", "open", "complete", "fail"}] /\ Filled'
        BY <1>13, MoveTyped DEF Open, GiveUp, loop
    <2> QED BY <1>0, <1>13, <2>1 DEF TypeInv, TypeOK, Open, GiveUp, TablesAgree, store, loop
<1>14. ASSUME NEW w \in Hashers, CompleteMD5Task(w) PROVE TypeInv'
    <2> DEFINE i == claim[w]
               f == [file[i] EXCEPT !.md5 = "ready", !.digest = key[w]]
               t == [task[i] EXCEPT !.status = "complete"]
    <2>1. i \in RowIds /\ task[i] \in Tasks /\ file[i] \in Files /\ key[w] \in Keys \cup {None}
        BY <1>0, <1>14 DEF CompleteMD5Task, Reportable, Filled, Agrees, TypeOK
    <2>6. f \in Files /\ f.md5 = "ready"
        BY <2>1 DEF Files
    <2>7. t \in Tasks /\ t.status = "complete"
        BY <2>1, TaskUpdates
    <2>2. f \in Files /\ t \in Tasks /\ f.md5 = "ready" /\ t.status = "complete"
        BY <2>6, <2>7
    <2>3. Agrees(f, t)
        BY <2>2 DEF Agrees
    <2>4. file' = [file EXCEPT ![i] = f] /\ task' = [task EXCEPT ![i] = t]
        BY <1>0, <1>14, <2>1 DEF CompleteMD5Task, SetDigest
    <2> HIDE DEF f, t, i
    <2>5. /\ file' \in [RowIds -> Files \cup {None}] /\ task' \in [RowIds -> Tasks \cup {None}]
          /\ TablesAgree'
        BY <2>1, <2>2, <2>3, <2>4, RowTyped
    <2> QED BY <1>0, <1>14, <2>5, DoneTyped DEF TypeInv, TypeOK, CompleteMD5Task, loop
<1>15. ASSUME NEW w \in Hashers, FailMD5Task(w) PROVE TypeInv'
    <2> DEFINE i == claim[w]
               m == AfterFailure(task[i])
               f == [file[i] EXCEPT !.md5 = m]
               t == [task[i] EXCEPT !.status = m, !.stale = FALSE]
    <2>1. i \in RowIds /\ task[i] \in Tasks /\ file[i] \in Files
        BY <1>0, <1>15 DEF FailMD5Task, Reportable, Filled, Agrees
    <2>2. m = IF task[i].attempts >= MaxAttempts THEN "failed" ELSE "pending"
        BY DEF AfterFailure
    <2>8. f \in Files /\ f.md5 = m
        BY <2>1, <2>2 DEF Files
    <2>9. t \in Tasks /\ t.status = m /\ t.attempts = task[i].attempts
        BY <2>1, <2>2 DEF Tasks
    <2>3. f \in Files /\ t \in Tasks /\ f.md5 = m /\ t.status = m /\ t.attempts = task[i].attempts
        BY <2>8, <2>9
    <2>4. task[i].attempts \in 0..MaxAttempts
        BY <2>1 DEF Tasks
    <2>5. Agrees(f, t)
        BY <2>2, <2>3, <2>4, QueueAssumption DEF Agrees
    <2>6. file' = [file EXCEPT ![i] = f] /\ task' = [task EXCEPT ![i] = t]
        BY <1>0, <1>15, <2>1 DEF FailMD5Task, FileAfterFailure
    <2> HIDE DEF f, t, m, i
    <2>7. /\ file' \in [RowIds -> Files \cup {None}] /\ task' \in [RowIds -> Tasks \cup {None}]
          /\ TablesAgree'
        BY <2>1, <2>3, <2>5, <2>6, RowTyped
    <2> QED BY <1>0, <1>15, <2>7, DoneTyped DEF TypeInv, TypeOK, FailMD5Task, loop
<1>16. ASSUME NEW w \in Hashers, ReportFails(w) PROVE TypeInv'
    <2>1. failed' \in [Procs -> BOOLEAN] /\ mishaps' \in Nat
        <3>1. Home[w] \in Procs
            BY QueueAssumption
        <3> QED BY <1>0, <1>16, <3>1 DEF ReportFails, Mishap, TypeOK
    <2> QED BY <1>0, <1>16, <2>1, DoneTyped DEF TypeInv, TypeOK, ReportFails, TablesAgree, store
<1>17. CASE UNCHANGED vars
    BY <1>0, <1>17 DEF vars, TypeInv, TypeOK, Filled, TablesAgree
<1> QED BY <1>1, <1>2, <1>3, <1>4, <1>5, <1>6, <1>7, <1>8, <1>9, <1>10, <1>11, <1>12, <1>13,
           <1>14, <1>15, <1>16, <1>17 DEF Next, Outside, Running, Hashing

-----------------------------------------------------------------------------
(* Claims                                                                   *)

\* Tasks are given back at most, and those still in hand are untouched or gone.
LEMMA ClaimsShrink ==
    ASSUME ClaimInv, ~overlap' => ~overlap,
           \A x \in Workers : claim'[x] = claim[x] \/ claim'[x] = None,
           ~overlap' => \A x \in Workers :
               claim'[x] # None /\ task'[claim'[x]] # None => task'[claim'[x]] = task[claim'[x]]
    PROVE  ClaimedOnce' /\ HeldComputing'
<1>1. ClaimedOnce'
    BY DEF ClaimInv, ClaimedOnce
<1>2. HeldComputing'
    <2> SUFFICES ASSUME ~overlap', NEW x \in Workers, claim'[x] # None, task'[claim'[x]] # None
                 PROVE  task'[claim'[x]].status = "computing" /\ ~task'[claim'[x]].stale
        BY DEF HeldComputing
    <2>1. claim'[x] = claim[x] /\ task'[claim'[x]] = task[claim[x]]
        OBVIOUS
    <2> QED BY <2>1 DEF ClaimInv, HeldComputing
<1> QED BY <1>1, <1>2

\* A goroutine that gives back the task it has reported on.
LEMMA ReportShrinks ==
    ASSUME ClaimInv, NEW w \in Hashers, claim[w] \in RowIds, Done(w), UNCHANGED overlap,
           NEW t, task' = [task EXCEPT ![claim[w]] = t]
    PROVE  ClaimedOnce' /\ HeldComputing'
<1>1. w \in Workers /\ claim \in [Workers -> RowIds \cup {None}]
    BY DEF Workers, ClaimInv, TypeInv, TypeOK
<1>2. claim'[w] = None /\ \A x \in Workers : x # w => claim'[x] = claim[x]
    BY <1>1 DEF Done
<1>3. ASSUME ~overlap', NEW x \in Workers, claim'[x] # None
      PROVE  task'[claim'[x]] = task[claim'[x]]
    <2>1. x # w /\ claim'[x] = claim[x] /\ claim[x] \in RowIds
        BY <1>1, <1>2, <1>3
    <2>2. claim[x] # claim[w]
        BY <1>1, <1>3, <2>1, NoneApart DEF ClaimInv, ClaimedOnce
    <2> QED BY <2>1, <2>2 DEF ClaimInv, TypeInv, TypeOK
<1> QED BY <1>2, <1>3, ClaimsShrink

LEMMA ClaimInvStep == ClaimInv /\ [Next]_vars => ClaimInv'
<1> SUFFICES ASSUME ClaimInv, [Next]_vars
             PROVE  ClaimedOnce' /\ HeldComputing'
    BY TypeInvStep DEF ClaimInv
<1> DEFINE Goal == ClaimedOnce' /\ HeldComputing'
<1>0. /\ TypeOK /\ Filled /\ ClaimedOnce /\ HeldComputing
      /\ claim \in [Workers -> RowIds \cup {None}] /\ task \in [RowIds -> Tasks \cup {None}]
      /\ \A x \in Workers : claim[x] # None => claim[x] \in RowIds
    BY DEF ClaimInv, TypeInv, TypeOK
<1>1. CASE AddFile
    <2>1. PICK i \in RowIds, t \in {NewTask, None} :
              task' = [task EXCEPT ![i] = t] /\ overlap' = (overlap \/ Held(i))
        BY <1>1 DEF AddFile
    <2>2. claim' = claim
        BY <1>1 DEF AddFile
    <2>3. ASSUME ~overlap', NEW x \in Workers, claim[x] # None
          PROVE  task'[claim[x]] = task[claim[x]]
        <3>1. claim[x] # i /\ claim[x] \in RowIds
            BY <1>0, <2>1, <2>3 DEF Held
        <3> QED BY <1>0, <2>1, <3>1
    <2>4. ~overlap' => ~overlap
        BY <2>1
    <2> QED BY <2>2, <2>3, <2>4, ClaimsShrink
<1>2. CASE BeginFileDelete \/ RemoveObject
    BY <1>2, ClaimsShrink DEF BeginFileDelete, RemoveObject
<1>3. CASE FinalizeFileDelete
    <2>1. PICK i \in RowIds : task' = [task EXCEPT ![i] = None]
        BY <1>3 DEF FinalizeFileDelete
    <2>2. \A j \in RowIds : task'[j] # None => task'[j] = task[j]
        BY <1>0, <2>1
    <2>3. claim' = claim /\ overlap' = overlap
        BY <1>3 DEF FinalizeFileDelete
    <2> QED BY <1>0, <2>2, <2>3, ClaimsShrink
<1>4. ASSUME NEW i \in RowIds, Lapse(i) PROVE Goal
    <2>1. ASSUME ~overlap', NEW x \in Workers, claim[x] # None
          PROVE  task'[claim[x]] = task[claim[x]]
        <3>1. claim[x] # i
            BY <1>4, <2>1 DEF Lapse, Held
        <3> QED BY <1>0, <1>4, <2>1, <3>1 DEF Lapse
    <2>2. claim' = claim /\ (~overlap' => ~overlap)
        BY <1>4 DEF Lapse
    <2> QED BY <2>1, <2>2, ClaimsShrink
<1>5. ASSUME NEW p \in Procs, Requeue(p) PROVE Goal
    <2>1. PICK S \in SUBSET {i \in RowIds : Lapsed(i)} :
              task' = [i \in RowIds |->
                 IF i \in S THEN [task[i] EXCEPT !.status = "pending", !.stale = FALSE]
                            ELSE task[i]]
        BY <1>5 DEF Requeue
    <2>2. claim' = claim /\ overlap' = overlap
        BY <1>5 DEF Requeue
    <2>3. ASSUME ~overlap, NEW x \in Workers, claim[x] # None
          PROVE  task'[claim[x]] = task[claim[x]]
        <3>1. claim[x] \notin S
            BY <1>0, <2>1, <2>3 DEF HeldComputing, Lapsed
        <3> QED BY <1>0, <2>1, <2>3, <3>1
    <2> QED BY <2>2, <2>3, ClaimsShrink
<1>6. ASSUME NEW p \in Procs,
             RequeueFails(p) \/ ClaimFails(p) \/ NoMoreTasks(p) \/ EndBatch(p) \/ Boot(p)
      PROVE  Goal
    BY <1>6, ClaimsShrink DEF RequeueFails, ClaimFails, NoMoreTasks, EndBatch, Boot
<1>7. ASSUME NEW p \in Procs, ClaimTask(p) PROVE Goal
    <2>1. PICK i \in RowIds :
              /\ Pending(i)
              /\ task' = [task EXCEPT ![i] = [status |-> "computing", stale |-> FALSE,
                                              attempts |-> @.attempts + 1]]
              /\ claim' = [claim EXCEPT ![p] = i]
        BY <1>7 DEF ClaimTask
    <2>2. p \in Workers /\ overlap' = overlap
        BY <1>7 DEF ClaimTask, Workers
    <2>3. claim'[p] = i /\ \A x \in Workers : x # p => claim'[x] = claim[x]
        BY <1>0, <2>1, <2>2
    <2>4. task'[i].status = "computing" /\ ~task'[i].stale /\ \A j \in RowIds : j # i => task'[j] = task[j]
        BY <1>0, <2>1
    <2>5. ~overlap => \A x \in Workers : claim[x] # i
        BY <1>0, <2>1, NoneApart DEF Pending, HeldComputing
    <2>6. ClaimedOnce'
        BY <1>0, <2>2, <2>3, <2>5 DEF ClaimedOnce
    <2>7. HeldComputing'
        <3> SUFFICES ASSUME ~overlap, NEW x \in Workers, claim'[x] # None, task'[claim'[x]] # None
                     PROVE  task'[claim'[x]].status = "computing" /\ ~task'[claim'[x]].stale
            BY <2>2 DEF HeldComputing
        <3>1. CASE x = p
            BY <2>3, <2>4, <3>1
        <3>2. CASE x # p
            BY <1>0, <2>3, <2>4, <2>5, <3>2 DEF HeldComputing
        <3> QED BY <3>1, <3>2
    <2> QED BY <2>6, <2>7
<1>8. ASSUME NEW p \in Procs, Send(p) PROVE Goal
    <2>1. PICK w \in HashersOf(p) : /\ pc[w] = "idle"
                                    /\ claim' = [claim EXCEPT ![w] = claim[p], ![p] = None]
        BY <1>8 DEF Send
    <2>2. w \in Workers /\ p \in Workers /\ w # p /\ claim[w] = None /\ claim[p] \in RowIds
        BY <1>0, <1>8, <2>1, QueueAssumption DEF HashersOf, Workers, Filled, Send
    <2>3. /\ claim'[w] = claim[p] /\ claim'[p] = None
          /\ \A x \in Workers : x # p /\ x # w => claim'[x] = claim[x]
        BY <1>0, <2>1, <2>2
    <2>4. task' = task /\ overlap' = overlap
        BY <1>8 DEF Send
    <2>5. ClaimedOnce'
        <3> SUFFICES ASSUME ~overlap, NEW x \in Workers, NEW y \in Workers,
                            claim'[x] = claim'[y], claim'[x] # None
                     PROVE  x = y
            BY <2>4 DEF ClaimedOnce
        <3>1. x # p /\ y # p
            BY <2>3
        <3>2. CASE x = w \/ y = w
            BY <1>0, <2>2, <2>3, <3>1, <3>2 DEF ClaimedOnce
        <3>3. CASE x # w /\ y # w
            BY <1>0, <2>3, <3>1, <3>3 DEF ClaimedOnce
        <3> QED BY <3>2, <3>3
    <2>6. HeldComputing'
        <3> SUFFICES ASSUME ~overlap, NEW x \in Workers, claim'[x] # None, task[claim'[x]] # None
                     PROVE  task[claim'[x]].status = "computing" /\ ~task[claim'[x]].stale
            BY <2>4 DEF HeldComputing
        <3>1. PICK y \in Workers : claim'[x] = claim[y]
            BY <2>2, <2>3
        <3> QED BY <1>0, <3>1 DEF HeldComputing
    <2> QED BY <2>5, <2>6
<1>9. ASSUME NEW p \in Procs, Stop(p) PROVE Goal
    BY <1>0, <1>9, ClaimsShrink DEF Stop
<1>10. ASSUME NEW w \in Hashers, Look(w) \/ Open(w) \/ GiveUp(w) \/ ReportFails(w) PROVE Goal
    <2>1. task' = task /\ overlap' = overlap
        BY <1>10 DEF Look, Open, GiveUp, ReportFails
    <2>2. claim' = claim \/ claim' = [claim EXCEPT ![w] = None]
        BY <1>10 DEF Look, Open, GiveUp, ReportFails, Done
    <2> QED BY <1>0, <2>1, <2>2, ClaimsShrink
<1>11. ASSUME NEW w \in Hashers, CompleteMD5Task(w) PROVE Goal
    <2>1. claim[w] \in RowIds
        BY <1>0, <1>11 DEF Filled, CompleteMD5Task
    <2>2. task' = [task EXCEPT ![claim[w]] = [task[claim[w]] EXCEPT !.status = "complete"]]
        BY <1>0, <1>11, <2>1 DEF CompleteMD5Task
    <2> QED BY <1>11, <2>1, <2>2, ReportShrinks DEF CompleteMD5Task
<1>12. ASSUME NEW w \in Hashers, FailMD5Task(w) PROVE Goal
    <2>1. claim[w] \in RowIds
        BY <1>0, <1>12 DEF Filled, FailMD5Task
    <2> DEFINE t == [task[claim[w]] EXCEPT !.status = AfterFailure(task[claim[w]]), !.stale = FALSE]
    <2>2. task' = [task EXCEPT ![claim[w]] = t]
        BY <1>0, <1>12, <2>1 DEF FailMD5Task
    <2> HIDE DEF t
    <2> QED BY <1>12, <2>1, <2>2, ReportShrinks DEF FailMD5Task
<1>13. CASE UNCHANGED vars
    BY <1>0, <1>13 DEF vars, ClaimedOnce, HeldComputing
<1> QED BY <1>1, <1>2, <1>3, <1>4, <1>5, <1>6, <1>7, <1>8, <1>9, <1>10, <1>11, <1>12, <1>13
        DEF Next, Outside, Running, Hashing

-----------------------------------------------------------------------------
(* Digests                                                                  *)

\* Rows keep their keys while somebody has read them.
LEMMA KeysStay ==
    ASSUME DigestInv, ~overlap' => ~overlap,
           \A w \in Hashers : pc'[w] \in {"open", "complete"} =>
               pc[w] \in {"open", "complete"} /\ key'[w] = key[w] /\ claim'[w] = claim[w],
           ~overlap' => \A w \in Hashers :
               claim[w] # None /\ file'[claim[w]] # None =>
                   file[claim[w]] # None /\ file'[claim[w]].key = file[claim[w]].key
    PROVE  KeyCurrent'
<1> SUFFICES ASSUME ~overlap', NEW w \in Hashers, pc'[w] \in {"open", "complete"},
                    file'[claim'[w]] # None
             PROVE  key'[w] = file'[claim'[w]].key
    BY DEF KeyCurrent
<1>1. pc[w] \in {"open", "complete"} /\ key'[w] = key[w] /\ claim'[w] = claim[w]
    OBVIOUS
<1>2. claim[w] # None
    BY <1>1, NoneApart DEF DigestInv, ClaimInv, TypeInv, Filled
<1> QED BY <1>1, <1>2 DEF DigestInv, KeyCurrent

\* No row becomes ready.
LEMMA DigestsStay ==
    ASSUME DigestInv, ~overlap' => ~overlap,
           \A i \in RowIds : file'[i] # None /\ file'[i].md5 = "ready" =>
               /\ file[i] # None /\ file[i].md5 = "ready"
               /\ file'[i].key = file[i].key /\ file'[i].digest = file[i].digest
    PROVE  DigestUnlessOverlap'
    BY DEF DigestInv, DigestUnlessOverlap, DigestOfContent

LEMMA DigestInvStep == DigestInv /\ [Next]_vars => DigestInv'
<1> SUFFICES ASSUME DigestInv, [Next]_vars
             PROVE  KeyCurrent' /\ DigestUnlessOverlap'
    BY ClaimInvStep DEF DigestInv
<1> DEFINE Goal == KeyCurrent' /\ DigestUnlessOverlap'
<1>0. /\ TypeOK /\ Filled /\ KeyCurrent /\ DigestUnlessOverlap
      /\ file \in [RowIds -> Files \cup {None}]
      /\ pc \in [Hashers -> {"idle", "look", "open", "complete", "fail"}]
      /\ \A w \in Hashers : w \in Workers /\ (claim[w] # None => claim[w] \in RowIds)
    BY DEF DigestInv, ClaimInv, TypeInv, TypeOK, Workers
<1>1. CASE AddFile
    <2>7. PICK k \in Keys \ born, i \in RowIds, enabled \in BOOLEAN :
              /\ file' = [file EXCEPT ![i] =
                    [key |-> k, state |-> "active",
                     md5 |-> IF enabled THEN "pending" ELSE "disabled", digest |-> None]]
              /\ overlap' = (overlap \/ Held(i))
        BY <1>1 DEF AddFile
    <2>1. /\ \A j \in RowIds : j # i => file'[j] = file[j]
          /\ file'[i].md5 # "ready"
          /\ overlap' = (overlap \/ Held(i))
        BY <1>0, <2>7
    <2>2. pc' = pc /\ key' = key /\ claim' = claim
        BY <1>1 DEF AddFile, hands
    <2>3. ASSUME ~overlap', NEW w \in Hashers, claim[w] # None
          PROVE  file'[claim[w]] = file[claim[w]]
        <3>1. claim[w] # i
            BY <1>0, <2>1, <2>3 DEF Held
        <3> QED BY <1>0, <2>1, <2>3, <3>1
    <2>4. KeyCurrent'
        BY <2>1, <2>2, <2>3, KeysStay
    <2>5. \A j \in RowIds : file'[j].md5 = "ready" => file'[j] = file[j]
        BY <1>0, <2>1
    <2>6. DigestUnlessOverlap'
        BY <2>1, <2>5, DigestsStay
    <2> QED BY <2>4, <2>6
<1>2. CASE BeginFileDelete
    <2>1. PICK i \in RowIds : Active(i) /\ file' = [file EXCEPT ![i].state = "deleting"]
        BY <1>2 DEF BeginFileDelete
    <2>2. file[i] \in Files /\ file[i] # None
        BY <1>0, <2>1 DEF Active
    <2>3. LET g == file'[i] IN g.key = file[i].key /\ g.md5 = file[i].md5 /\ g.digest = file[i].digest
        BY <1>0, <2>1, <2>2 DEF Files
    <2>4. \A j \in RowIds : j # i => file'[j] = file[j]
        BY <1>0, <2>1
    <2>5. pc' = pc /\ key' = key /\ claim' = claim /\ overlap' = overlap
        BY <1>2 DEF BeginFileDelete, hands
    <2> QED BY <1>0, <2>2, <2>3, <2>4, <2>5, KeysStay, DigestsStay
<1>3. CASE FinalizeFileDelete
    <2>1. PICK i \in RowIds : file' = [file EXCEPT ![i] = None]
        BY <1>3 DEF FinalizeFileDelete
    <2>2. \A j \in RowIds : file'[j] # None => file'[j] = file[j]
        BY <1>0, <2>1
    <2>3. pc' = pc /\ key' = key /\ claim' = claim /\ overlap' = overlap
        BY <1>3 DEF FinalizeFileDelete, hands
    <2> QED BY <1>0, <2>2, <2>3, KeysStay, DigestsStay
<1>4. ASSUME file' = file, hands' = hands, claim' = claim, ~overlap' => ~overlap
      PROVE  Goal
    BY <1>4, KeysStay, DigestsStay DEF hands
<1>13. CASE RemoveObject
    BY <1>4, <1>13 DEF RemoveObject
<1>14. ASSUME NEW i \in RowIds, Lapse(i) PROVE Goal
    BY <1>4, <1>14 DEF Lapse, store
<1>15. ASSUME NEW p \in Procs, Requeue(p) \/ RequeueFails(p) \/ ClaimFails(p) \/ NoMoreTasks(p)
                              \/ EndBatch(p) \/ Boot(p)
       PROVE  Goal
    BY <1>4, <1>15 DEF Requeue, RequeueFails, ClaimFails, NoMoreTasks, EndBatch, Boot, store
<1>16. ASSUME NEW p \in Procs, ClaimTask(p) PROVE Goal
    <2>1. /\ file' = file /\ pc' = pc /\ key' = key /\ overlap' = overlap
          /\ \E i \in RowIds : claim' = [claim EXCEPT ![p] = i]
        BY <1>16 DEF ClaimTask, hands, store
    <2>2. \A w \in Hashers : claim'[w] = claim[w]
        BY <1>0, <2>1, QueueAssumption DEF TypeOK, Workers
    <2> QED BY <2>1, <2>2, KeysStay, DigestsStay
<1>5. ASSUME NEW p \in Procs, Send(p) PROVE Goal
    <2>1. PICK w \in HashersOf(p) : /\ pc[w] = "idle"
                                    /\ claim' = [claim EXCEPT ![w] = claim[p], ![p] = None]
                                    /\ pc' = [pc EXCEPT ![w] = "look"]
        BY <1>5 DEF Send
    <2>2. file' = file /\ key' = key /\ overlap' = overlap
        BY <1>5 DEF Send, store
    <2>3. \A v \in Hashers : pc'[v] \in {"open", "complete"} => pc[v] = pc'[v] /\ v # w
        BY <1>0, <2>1 DEF HashersOf
    <2>4. \A v \in Hashers : v # w => claim'[v] = claim[v]
        BY <1>0, <2>1, QueueAssumption DEF TypeOK, Workers
    <2> QED BY <2>2, <2>3, <2>4, KeysStay, DigestsStay
<1>6. ASSUME NEW p \in Procs, Stop(p) PROVE Goal
    <2>1. file' = file /\ overlap' = overlap
        BY <1>6 DEF Stop, store
    <2>2. \A w \in Hashers : pc'[w] \in {"open", "complete"} =>
              pc[w] = pc'[w] /\ key'[w] = key[w] /\ claim'[w] = claim[w]
        BY <1>0, <1>6, QueueAssumption DEF Stop, HashersOf
    <2> QED BY <2>1, <2>2, KeysStay, DigestsStay
<1>7. ASSUME NEW w \in Hashers, Look(w) PROVE Goal
    <2>1. file' = file /\ overlap' = overlap
        BY <1>7 DEF Look, store
    <2>2. CASE Done(w)
        BY <1>0, <2>1, <2>2, KeysStay, DigestsStay DEF Done, TypeOK
    <2>3. CASE ~Done(w)
        <3>1. /\ key' = [key EXCEPT ![w] = file[claim[w]].key]
              /\ pc' = [pc EXCEPT ![w] = "open"] /\ claim' = claim
            BY <1>7, <2>3 DEF Look
        <3>2. KeyCurrent'
            BY <1>0, <2>1, <3>1 DEF KeyCurrent, TypeOK
        <3> QED BY <2>1, <3>2, DigestsStay
    <2> QED BY <2>2, <2>3
<1>8. ASSUME NEW w \in Hashers, Open(w) \/ GiveUp(w) PROVE Goal
    <2>1. file' = file /\ overlap' = overlap /\ key' = key /\ claim' = claim
        BY <1>8 DEF Open, GiveUp, store
    <2>2. \A v \in Hashers : pc'[v] \in {"open", "complete"} => pc[v] \in {"open", "complete"}
        BY <1>0, <1>8 DEF Open, GiveUp
    <2> QED BY <2>1, <2>2, KeysStay, DigestsStay
<1>9. ASSUME NEW w \in Hashers, CompleteMD5Task(w) PROVE Goal
    <2> DEFINE i == claim[w]
    <2>1. i \in RowIds /\ file[i] \in Files /\ file[i] # None /\ pc[w] = "complete"
        <3>1. TablesAgree
            BY DEF DigestInv, ClaimInv, TypeInv
        <3> QED BY <1>0, <1>9, <3>1 DEF CompleteMD5Task, Reportable, Filled, TablesAgree
    <2>2. file' = [file EXCEPT ![i].md5 = "ready", ![i].digest = key[w]] /\ overlap' = overlap
        BY <1>9 DEF CompleteMD5Task, SetDigest
    <2>3. LET g == file'[i] IN g.key = file[i].key /\ g.digest = key[w]
        BY <1>0, <2>1, <2>2 DEF Files
    <2>4. \A j \in RowIds : j # i => file'[j] = file[j]
        BY <1>0, <2>1, <2>2
    <2>5. \A v \in Hashers : pc'[v] \in {"open", "complete"} =>
              pc[v] = pc'[v] /\ key'[v] = key[v] /\ claim'[v] = claim[v]
        BY <1>0, <1>9 DEF CompleteMD5Task, Done, TypeOK
    <2> HIDE DEF i
    <2>6. KeyCurrent'
        BY <1>0, <2>1, <2>2, <2>3, <2>4, <2>5, KeysStay
    <2>7. ~overlap => key[w] = file[i].key
        BY <1>0, <2>1 DEF KeyCurrent, i
    <2>8. DigestUnlessOverlap'
        BY <1>0, <2>1, <2>2, <2>3, <2>4, <2>7 DEF DigestUnlessOverlap, DigestOfContent
    <2> QED BY <2>6, <2>8
<1>10. ASSUME NEW w \in Hashers, FailMD5Task(w) PROVE Goal
    <2> DEFINE i == claim[w]
    <2>1. i \in RowIds /\ file[i] \in Files /\ file[i] # None
        <3>1. TablesAgree
            BY DEF DigestInv, ClaimInv, TypeInv
        <3> QED BY <1>0, <1>10, <3>1 DEF FailMD5Task, Reportable, Filled, TablesAgree
    <2>2. PICK m \in {"pending", "failed"} : file' = [file EXCEPT ![i].md5 = m]
        BY <1>10 DEF FailMD5Task, FileAfterFailure, AfterFailure
    <2>3. LET g == file'[i] IN g.key = file[i].key /\ g.md5 # "ready"
        BY <1>0, <2>1, <2>2 DEF Files
    <2>4. \A j \in RowIds : j # i => file'[j] = file[j]
        BY <1>0, <2>1, <2>2
    <2>5. /\ \A v \in Hashers : pc'[v] \in {"open", "complete"} =>
                pc[v] = pc'[v] /\ key'[v] = key[v] /\ claim'[v] = claim[v]
          /\ overlap' = overlap
        BY <1>0, <1>10 DEF FailMD5Task, Done, TypeOK
    <2> HIDE DEF i
    <2> QED BY <1>0, <2>1, <2>3, <2>4, <2>5, KeysStay, DigestsStay
<1>11. ASSUME NEW w \in Hashers, ReportFails(w) PROVE Goal
    <2>1. /\ \A v \in Hashers : pc'[v] \in {"open", "complete"} =>
                pc[v] = pc'[v] /\ key'[v] = key[v] /\ claim'[v] = claim[v]
          /\ overlap' = overlap /\ file' = file
        BY <1>0, <1>11 DEF ReportFails, Done, TypeOK, store
    <2> QED BY <2>1, KeysStay, DigestsStay
<1>12. CASE UNCHANGED vars
    BY <1>0, <1>12 DEF vars, KeyCurrent, DigestUnlessOverlap, DigestOfContent
<1> QED BY <1>1, <1>2, <1>3, <1>5, <1>6, <1>7, <1>8, <1>9, <1>10, <1>11, <1>12, <1>13,
           <1>14, <1>15, <1>16 DEF Next, Outside, Running, Hashing

-----------------------------------------------------------------------------
(* Results                                                                  *)

\* What ResultsAreFinal says of a step.
Final == \A i \in RowIds :
    (/\ task[i] # None /\ task[i].status \in {"complete", "failed"}
     /\ file'[i] # None /\ file'[i].key = file[i].key) =>
        task'[i] = task[i] /\ file'[i].md5 = file[i].md5 /\ file'[i].digest = file[i].digest

LEMMA FinalStep == TypeInv /\ [Next]_vars => Final
<1> SUFFICES ASSUME TypeInv, [Next]_vars, NEW i \in RowIds,
                    task[i] # None, task[i].status \in {"complete", "failed"}, file'[i] # None
             PROVE  /\ task'[i] = task[i]
                    /\ file'[i].md5 = file[i].md5 /\ file'[i].digest = file[i].digest
    BY DEF Final
<1> DEFINE Goal == /\ task'[i] = task[i]
                   /\ file'[i].md5 = file[i].md5 /\ file'[i].digest = file[i].digest
<1>0. /\ Filled /\ file[i] # None /\ file[i] \in Files
      /\ file \in [RowIds -> Files \cup {None}] /\ task \in [RowIds -> Tasks \cup {None}]
    BY DEF TypeInv, TypeOK, TablesAgree
<1>1. CASE AddFile
    <2>1. PICK j \in RowIds : \E f, t : /\ NextId(j)
                                       /\ file' = [file EXCEPT ![j] = f]
                                       /\ task' = [task EXCEPT ![j] = t]
        BY <1>1 DEF AddFile
    <2> QED BY <1>0, <2>1 DEF NextId
<1>2. CASE BeginFileDelete
    <2>1. PICK j \in RowIds : file' = [file EXCEPT ![j].state = "deleting"]
        BY <1>2 DEF BeginFileDelete
    <2>2. file'[i].md5 = file[i].md5 /\ file'[i].digest = file[i].digest
        BY <1>0, <2>1 DEF Files
    <2> QED BY <1>2, <2>2 DEF BeginFileDelete
<1>3. CASE FinalizeFileDelete
    <2>1. PICK j \in RowIds : file' = [file EXCEPT ![j] = None] /\ task' = [task EXCEPT ![j] = None]
        BY <1>3 DEF FinalizeFileDelete
    <2> QED BY <1>0, <2>1
<1>4. ASSUME NEW j \in RowIds, Lapse(j) PROVE Goal
    BY <1>0, <1>4 DEF Lapse, store
<1>5. ASSUME NEW p \in Procs, Requeue(p) PROVE Goal
    <2>1. PICK S \in SUBSET {j \in RowIds : Lapsed(j)} :
              task' = [j \in RowIds |->
                 IF j \in S THEN [task[j] EXCEPT !.status = "pending", !.stale = FALSE]
                            ELSE task[j]]
        BY <1>5 DEF Requeue
    <2>2. i \notin S
        BY <2>1 DEF Lapsed
    <2> QED BY <1>5, <2>1, <2>2 DEF Requeue, store
<1>6. ASSUME NEW p \in Procs, ClaimTask(p) PROVE Goal
    <2>1. PICK j \in RowIds : Pending(j) /\ \E t : task' = [task EXCEPT ![j] = t]
        BY <1>6 DEF ClaimTask
    <2> QED BY <1>0, <1>6, <2>1 DEF Pending, ClaimTask, store
<1>7. ASSUME NEW w \in Hashers, CompleteMD5Task(w) PROVE Goal
    <2>1. claim[w] # i
        BY <1>7 DEF CompleteMD5Task, Reportable
    <2> QED BY <1>0, <1>7, <2>1 DEF CompleteMD5Task, SetDigest
<1>8. ASSUME NEW w \in Hashers, FailMD5Task(w) PROVE Goal
    <2>1. claim[w] # i
        BY <1>8 DEF FailMD5Task, Reportable
    <2> QED BY <1>0, <1>8, <2>1 DEF FailMD5Task
<1>9. CASE UNCHANGED <<file, task>>
    BY <1>9
<1> QED BY <1>1, <1>2, <1>3, <1>4, <1>5, <1>6, <1>7, <1>8, <1>9
        DEF Next, Outside, Running, Hashing, RemoveObject, RequeueFails, ClaimFails, NoMoreTasks,
            EndBatch, Boot, Send, Stop, Look, Open, GiveUp, ReportFails, vars, store

-----------------------------------------------------------------------------
(* Theorems                                                                 *)

LEMMA InvInit == Init => DigestInv
<1> SUFFICES ASSUME Init
             PROVE  DigestInv
    OBVIOUS
<1>1. TypeOK
    <2>1. 0 \in 0..MaxTasksPerRun
        BY QueueAssumption
    <2>2. left \in [Procs -> 0..MaxTasksPerRun]
        BY <2>1 DEF Init
    <2>3. mishaps \in Nat /\ overlap \in BOOLEAN /\ failed \in [Procs -> BOOLEAN]
        BY DEF Init
    <2> QED BY <2>2, <2>3 DEF Init, TypeOK
<1>2. Filled /\ TablesAgree
    BY DEF Init, Filled, TablesAgree, Workers
<1>3. ClaimedOnce /\ HeldComputing
    BY DEF Init, ClaimedOnce, HeldComputing
<1>4. KeyCurrent /\ DigestUnlessOverlap
    BY DEF Init, KeyCurrent, DigestUnlessOverlap, DigestOfContent
<1> QED BY <1>1, <1>2, <1>3, <1>4 DEF DigestInv, ClaimInv, TypeInv

LEMMA InvAlways == Spec => []DigestInv
<1>1. Init => DigestInv
    BY InvInit
<1>2. DigestInv /\ [Next]_vars => DigestInv'
    BY DigestInvStep
<1> QED BY <1>1, <1>2, PTL DEF Spec

\* The shapes of the tables and of every goroutine's variables; no task is claimed
\* more often than max_attempts (migration 009), however claims, leases, failures and
\* restarts of any number of servers interleave.
THEOREM QueueTypes == Spec => []TypeOK
<1>1. DigestInv => TypeOK
    BY DEF DigestInv, ClaimInv, TypeInv
<1> QED BY <1>1, InvAlways, PTL

\* repository.go:1135-1187: what a file row shows of its MD5 is what its task became.
THEOREM TablesAlwaysAgree == Spec => []TablesAgree
<1>1. DigestInv => TablesAgree
    BY DEF DigestInv, ClaimInv, TypeInv
<1> QED BY <1>1, InvAlways, PTL

\* repository.go:1119-1120: until a claim outlives its lease or its row, every task is
\* in at most one hand, over all goroutines of all servers.
THEOREM ClaimsAreExclusive == Spec => []ClaimedOnce
<1>1. DigestInv => ClaimedOnce
    BY DEF DigestInv, ClaimInv
<1> QED BY <1>1, InvAlways, PTL

\* worker.go:1: until a claim outlives its lease or its row, every digest shown is that
\* of the file's own object.
THEOREM DigestsAreRight == Spec => []DigestUnlessOverlap
<1>1. DigestInv => DigestUnlessOverlap
    BY DEF DigestInv
<1> QED BY <1>1, InvAlways, PTL

\* worker.go:160-162: while a file has its row, what its task came to stays, whoever
\* reports late.
THEOREM ResultsStayFinal == Spec => ResultsAreFinal
<1>1. DigestInv /\ [Next]_vars => [Final]_vars
    BY FinalStep DEF DigestInv, ClaimInv
<1>2. Spec => [][Final]_vars
    BY <1>1, InvAlways, PTL DEF Spec
<1> QED BY <1>2, PTL DEF ResultsAreFinal, Final
=============================================================================
