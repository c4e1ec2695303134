-------------------------- MODULE ArchiveJobsProofs --------------------------
(***************************************************************************)
(* Theorems about ArchiveJobs for any number of jobs, files and workers.   *)
(*                                                                         *)
(* What a build does to its job depends on the job being in no other       *)
(* hands (Places), on the map still having it (Lives) and on what is known *)
(* of its file on the way (Building).                                      *)
(***************************************************************************)
EXTENDS ArchiveJobs, FiniteSetTheorems, TLAPS

\* A job is in the channel once, or with one worker, and only when its creation has
\* been answered.
Places ==
    /\ \A w \in Workers : task[w] # None <=> at[w] \in {"create", "zip", "finish"}
    /\ \A v, w \in Workers : task[v] = task[w] /\ task[v] # None => v = w
    /\ \A i, k \in DOMAIN queue : queue[i] = queue[k] => i = k
    /\ \A j \in Jobs : ~(Queued(j) /\ InBuild(j))
    /\ \A j \in Jobs : Queued(j) \/ InBuild(j) => call[j] = "answered"

\* Until Close is done, a job that waits or is built is in the map and runs.
Lives ==
    /\ \A j \in Jobs : call[j] = "new" => job[j] = None
    /\ closing = "done" => (\A w \in Workers : at[w] = "gone") /\ (\A j \in Jobs : job[j] = None)
    /\ closing # "done" => \A j \in Jobs :
          call[j] = "sending" \/ Queued(j) \/ InBuild(j) => Is(j, "running")

\* A build without an error has a file, in the end with every entry.
Building ==
    \A w \in Workers :
        /\ at[w] \in {"idle", "create", "zip"} => ~broken[w]
        /\ at[w] \in {"zip", "finish"} /\ ~broken[w] => task[w] \in temps
        /\ at[w] = "zip" => zip[task[w]] \subseteq entries[task[w]]
        /\ at[w] = "finish" /\ ~broken[w] => zip[task[w]] = entries[task[w]]

Inv ==
    /\ TypeOK /\ Places /\ Lives /\ Building
    /\ RunningIsHeld /\ FilesAccounted /\ DownloadsWhole

-----------------------------------------------------------------------------
(* The channel                                                              *)

\* Sending adds one job at the end ...
LEMMA SendQueue ==
    ASSUME queue \in Seq(Jobs), NEW j \in Jobs, queue' = Append(queue, j)
    PROVE  /\ queue' \in Seq(Jobs) /\ Len(queue') = Len(queue) + 1
           /\ \A k \in Jobs : Queued(k)' <=> Queued(k) \/ k = j
<1>1. /\ queue' \in Seq(Jobs) /\ Len(queue') = Len(queue) + 1
      /\ \A i \in 1..Len(queue) : queue'[i] = queue[i]
      /\ queue'[Len(queue) + 1] = j
      /\ DOMAIN queue = 1..Len(queue) /\ DOMAIN queue' = 1..(Len(queue) + 1)
      /\ Len(queue) \in Nat
    OBVIOUS
<1>2. ASSUME NEW k \in Jobs PROVE Queued(k)' <=> Queued(k) \/ k = j
    BY <1>1 DEF Queued
<1> QED BY <1>1, <1>2

\* ... once, if it was not there.
LEMMA SendOnce ==
    ASSUME queue \in Seq(Jobs), NEW j \in Jobs, queue' = Append(queue, j), ~Queued(j),
           \A i, k \in DOMAIN queue : queue[i] = queue[k] => i = k
    PROVE  (\A i, k \in DOMAIN queue : queue[i] = queue[k] => i = k)'
<1>1. /\ \A i \in 1..Len(queue) : queue'[i] = queue[i]
      /\ queue'[Len(queue) + 1] = j
      /\ DOMAIN queue = 1..Len(queue) /\ DOMAIN queue' = 1..(Len(queue) + 1)
      /\ Len(queue) \in Nat
    OBVIOUS
<1>2. \A i \in 1..Len(queue) : queue[i] # j
    BY <1>1 DEF Queued
<1>3. ASSUME NEW i \in DOMAIN queue', NEW k \in DOMAIN queue', queue'[i] = queue'[k]
      PROVE  i = k
    BY <1>1, <1>2, <1>3
<1> QED BY <1>3

\* Taking removes the first.
LEMMA TakeQueue ==
    ASSUME queue \in Seq(Jobs), queue # <<>>, queue' = Tail(queue),
           \A i, k \in DOMAIN queue : queue[i] = queue[k] => i = k
    PROVE  /\ Head(queue) \in Jobs /\ Queued(Head(queue))
           /\ queue' \in Seq(Jobs) /\ Len(queue') <= Len(queue)
           /\ (\A i, k \in DOMAIN queue : queue[i] = queue[k] => i = k)'
           /\ \A k \in Jobs : Queued(k)' <=> Queued(k) /\ k # Head(queue)
<1>1. /\ Len(queue) \in Nat \ {0} /\ DOMAIN queue = 1..Len(queue)
      /\ Head(queue) = queue[1] /\ 1 \in 1..Len(queue)
      /\ queue' \in Seq(Jobs) /\ Len(queue') = Len(queue) - 1
      /\ DOMAIN queue' = 1..(Len(queue) - 1)
      /\ \A i \in 1..(Len(queue) - 1) : queue'[i] = queue[i + 1] /\ i + 1 \in 1..Len(queue)
    OBVIOUS
<1>2. Head(queue) \in Jobs /\ Queued(Head(queue))
    BY <1>1 DEF Queued
<1>3. ASSUME NEW i \in DOMAIN queue', NEW k \in DOMAIN queue', queue'[i] = queue'[k]
      PROVE  i = k
    <2>1. queue[i + 1] = queue[k + 1] /\ i + 1 \in DOMAIN queue /\ k + 1 \in DOMAIN queue
        BY <1>1, <1>3
    <2>2. i + 1 = k + 1
        BY <2>1
    <2> QED BY <2>2, <1>1
<1>4. ASSUME NEW k \in Jobs, Queued(k)' PROVE Queued(k) /\ k # Head(queue)
    <2>1. PICK i \in DOMAIN queue' : queue'[i] = k
        BY <1>4 DEF Queued
    <2>2. i + 1 \in DOMAIN queue /\ queue[i + 1] = k /\ i \in Nat \ {0}
        BY <2>1, <1>1
    <2>3. queue[i + 1] # queue[1]
        BY <2>2, <1>1
    <2> QED BY <2>2, <2>3, <1>1 DEF Queued
<1>5. ASSUME NEW k \in Jobs, Queued(k), k # Head(queue) PROVE Queued(k)'
    <2>1. PICK i \in DOMAIN queue : queue[i] = k
        BY <1>5 DEF Queued
    <2>2. i # 1 /\ i - 1 \in 1..(Len(queue) - 1) /\ (i - 1) + 1 = i
        BY <2>1, <1>1, <1>5
    <2>3. queue'[i - 1] = k
        BY <2>1, <2>2, <1>1
    <2> QED BY <2>2, <2>3, <1>1 DEF Queued
<1> QED BY <1>1, <1>2, <1>3, <1>4, <1>5

-----------------------------------------------------------------------------
(* Hands                                                                    *)

LEMMA NoneApart == None \notin Jobs /\ None # "running" /\ None # "complete"
    BY ArchiveAssumption DEF Statuses

LEMMA InHand ==
    ASSUME TypeOK, Places
    PROVE  /\ \A w \in Workers : at[w] \in {"create", "zip", "finish"} => task[w] \in Jobs /\ InBuild(task[w])
           /\ \A w \in Workers : at[w] \in {"idle", "gone"} => task[w] = None
           /\ Cardinality(Workers) \in Nat
    BY NoneApart, ArchiveAssumption, FS_CardinalityType DEF TypeOK, Places, InBuild

\* A worker takes a job, ...
LEMMA Taken ==
    ASSUME TypeOK, NEW w \in Workers, task[w] = None, NEW j \in Jobs, task' = [task EXCEPT ![w] = j]
    PROVE  \A k \in Jobs : InBuild(k)' <=> InBuild(k) \/ k = j
    BY NoneApart DEF TypeOK, InBuild

\* ... and is done with it.
LEMMA Given ==
    ASSUME TypeOK, Places, NEW w \in Workers, task[w] \in Jobs, NextTask(w)
    PROVE  \A k \in Jobs : InBuild(k)' <=> InBuild(k) /\ k # task[w]
    BY NoneApart DEF TypeOK, Places, InBuild, NextTask

\* Nothing survives a process.
LEMMA Emptied ==
    ASSUME queue' = <<>>, task' = [w \in Workers |-> None]
    PROVE  /\ queue' \in Seq(Jobs) /\ Len(queue') = 0 /\ DOMAIN queue' = {}
           /\ \A j \in Jobs : ~Queued(j)' /\ ~InBuild(j)'
    BY NoneApart DEF Queued, InBuild

-----------------------------------------------------------------------------
(* Every step preserves each part                                           *)

\* Types.
LEMMA TypeStep == Inv /\ [Next]_vars => TypeOK'
<1> SUFFICES ASSUME Inv, [Next]_vars PROVE TypeOK'
    OBVIOUS
<1> USE DEF vars, manager, calls, builds, disk, Is
<1>a. TypeOK /\ Places /\ Lives /\ Building /\ FilesAccounted /\ RunningIsHeld /\ DownloadsWhole
    BY DEF Inv
<1>b. /\ \A w \in Workers : at[w] \in {"create", "zip", "finish"} => task[w] \in Jobs /\ InBuild(task[w])
      /\ \A w \in Workers : at[w] \in {"idle", "gone"} => task[w] = None
      /\ Cardinality(Workers) \in Nat
    BY <1>a, InHand
<1>1. ASSUME NEW k \in Keys, RemoveObject(k) PROVE TypeOK'
    BY <1>1, <1>a, <1>b, NoneApart DEF RemoveObject, TypeOK, Statuses
<1>2. ASSUME NEW j \in Jobs, Register(j) PROVE TypeOK'
    BY <1>2, <1>a, <1>b, NoneApart DEF Register, StillOpen, Acceptable, TypeOK, Statuses
<1>3. ASSUME NEW j \in Jobs, Send(j) PROVE TypeOK'
    <2>1. queue \in Seq(Jobs) /\ ~Queued(j) /\ Len(queue) \in Nat /\ queue' = Append(queue, j)
        BY <1>3, <1>a DEF Send, TypeOK, Places
    <2>2. (\A i, k \in DOMAIN queue : queue[i] = queue[k] => i = k)'
        BY <2>1, <1>a, SendOnce DEF Places
    <2>3. /\ queue' \in Seq(Jobs) /\ Len(queue') = Len(queue) + 1
          /\ \A k \in Jobs : Queued(k)' <=> Queued(k) \/ k = j
        BY <2>1, SendQueue
    <2>4. \A k \in Jobs : InBuild(k)' <=> InBuild(k)
        BY <1>3 DEF Send, InBuild
    <2> QED BY <1>3, <1>a, <1>b, <2>1, <2>2, <2>3, <2>4 DEF Send, HasRoom, TypeOK, Statuses
<1>4. ASSUME NEW j \in Jobs, GiveUp(j) PROVE TypeOK'
    BY <1>4, <1>a, <1>b, NoneApart DEF GiveUp, CancelledWith, TypeOK, Statuses
<1>5. ASSUME NEW j \in Jobs, Cancel(j) PROVE TypeOK'
    BY <1>5, <1>a, <1>b, NoneApart DEF Cancel, CancelledWith, TypeOK, Statuses
<1>6. ASSUME NEW j \in Jobs, Download(j) PROVE TypeOK'
    BY <1>6, <1>a, <1>b, NoneApart DEF Download, TypeOK, Statuses
<1>7. ASSUME NEW w \in Workers, TakeTask(w) PROVE TypeOK'
    <2>1. queue \in Seq(Jobs) /\ queue # <<>> /\ queue' = Tail(queue)
        BY <1>7, <1>a DEF TakeTask, TypeOK
    <2>2. /\ Head(queue) \in Jobs /\ Queued(Head(queue))
          /\ queue' \in Seq(Jobs) /\ Len(queue') <= Len(queue)
          /\ (\A i, k \in DOMAIN queue : queue[i] = queue[k] => i = k)'
          /\ \A k \in Jobs : Queued(k)' <=> Queued(k) /\ k # Head(queue)
        BY <2>1, <1>a, TakeQueue DEF Places
    <2>3. \A k \in Jobs : InBuild(k)' <=> InBuild(k) \/ k = Head(queue)
        BY <1>7, <1>a, <1>b, <2>2, Taken DEF TakeTask
    <2>4. Len(queue) \in Nat /\ Len(queue') \in Nat
        BY <2>1, <2>2
    <2> QED BY <1>7, <1>a, <1>b, <2>1, <2>2, <2>3, <2>4, NoneApart DEF TakeTask, TypeOK, Statuses
<1>8. ASSUME NEW w \in Workers, Leave(w) PROVE TypeOK'
    BY <1>8, <1>a, <1>b, NoneApart DEF Leave, TypeOK, Statuses
<1>9. ASSUME NEW w \in Workers, CreateTemp(w) PROVE TypeOK'
    <2>1. task[w] \in Jobs /\ {} \in SUBSET Keys
        BY <1>9, <1>b DEF CreateTemp
    <2>2. zip' \in [Jobs -> SUBSET Keys] /\ temps' \in SUBSET Jobs
        BY <1>9, <1>a, <2>1 DEF CreateTemp, TypeOK
    <2>3. at' \in [Workers -> {"idle", "create", "zip", "finish", "gone"}] /\ broken' \in [Workers -> BOOLEAN]
        BY <1>9, <1>a DEF CreateTemp, TypeOK
    <2>4. mishaps' \in Nat
        BY <1>9, <1>a DEF CreateTemp, TypeOK, Mishap
    <2> QED BY <1>9, <1>a, <2>2, <2>3, <2>4 DEF CreateTemp, TypeOK
<1>10. ASSUME NEW w \in Workers, WriteEntry(w) PROVE TypeOK'
    BY <1>10, <1>a, <1>b, NoneApart DEF WriteEntry, Unwritten, TypeOK, Statuses
<1>11. ASSUME NEW w \in Workers, WriteFails(w) PROVE TypeOK'
    BY <1>11, <1>a, <1>b, NoneApart DEF WriteFails, Mishap, TypeOK, Statuses
<1>12. ASSUME NEW w \in Workers, CloseZip(w) PROVE TypeOK'
    BY <1>12, <1>a, <1>b, NoneApart DEF CloseZip, Unwritten, TypeOK, Statuses
<1>13. ASSUME NEW w \in Workers, FinishBuild(w) PROVE TypeOK'
    <2>1. task[w] \in Jobs /\ \A k \in Jobs : InBuild(k)' <=> InBuild(k) /\ k # task[w]
        BY <1>13, <1>a, <1>b, Given DEF FinishBuild
    <2>2. \A k \in Jobs : Queued(k)' <=> Queued(k)
        BY <1>13 DEF FinishBuild, Queued
    <2>3. \A k \in Jobs : k # task[w] => job'[k] = job[k]
        BY <1>13, <1>a DEF FinishBuild, TypeOK
    <2>4. job'[task[w]] # "running" /\ call' = call /\ closing' = closing /\ queue' = queue
        BY <1>13, <1>a, <2>1, NoneApart DEF FinishBuild, NextTask, Outcome, Keeps, Known, TypeOK
    <2> QED BY <1>13, <1>a, <1>b, <2>1, <2>2, <2>3, <2>4, NoneApart DEF FinishBuild, NextTask,
               Outcome, Keeps, Known, TypeOK, Statuses
<1>14. ASSUME NEW w \in Workers, StatFails(w) PROVE TypeOK'
    <2>1. task[w] \in Jobs /\ \A k \in Jobs : InBuild(k)' <=> InBuild(k) /\ k # task[w]
        BY <1>14, <1>a, <1>b, Given DEF StatFails
    <2>2. \A k \in Jobs : Queued(k)' <=> Queued(k)
        BY <1>14 DEF StatFails, Queued
    <2>3. \A k \in Jobs : k # task[w] => job'[k] = job[k]
        BY <1>14, <1>a DEF StatFails, TypeOK
    <2>4. job'[task[w]] # "running" /\ call' = call /\ closing' = closing /\ queue' = queue
        BY <1>14, <1>a, <2>1, NoneApart DEF StatFails, NextTask, Mishap, Known, TypeOK
    <2> QED BY <1>14, <1>a, <1>b, <2>1, <2>2, <2>3, <2>4, NoneApart DEF StatFails, NextTask,
               Mishap, Known, TypeOK, Statuses
<1>15. ASSUME Cleanup PROVE TypeOK'
    BY <1>15, <1>a, <1>b, NoneApart DEF Cleanup, Collected, Known, TypeOK, Statuses
<1>16. ASSUME StartClose PROVE TypeOK'
    BY <1>16, <1>a, <1>b, NoneApart DEF StartClose, TypeOK, Statuses
<1>17. ASSUME CancelAll PROVE TypeOK'
    BY <1>17, <1>a, <1>b, NoneApart DEF CancelAll, Known, TypeOK, Statuses
<1>18. ASSUME FinishClose PROVE TypeOK'
    BY <1>18, <1>a, <1>b, NoneApart DEF FinishClose, Collected, TypeOK, Statuses
<1>19. ASSUME Restart PROVE TypeOK'
    <2>1. /\ queue' \in Seq(Jobs) /\ Len(queue') = 0 /\ DOMAIN queue' = {}
          /\ \A j \in Jobs : ~Queued(j)' /\ ~InBuild(j)'
        BY <1>19, Emptied DEF Restart
    <2> QED BY <1>19, <1>a, <1>b, <2>1, NoneApart DEF Restart, Mishap, TypeOK, Statuses
<1>20. CASE UNCHANGED vars
    BY <1>20, <1>a DEF TypeOK, Statuses
<1> QED BY <1>1, <1>2, <1>3, <1>4, <1>5, <1>6, <1>7, <1>8, <1>9, <1>10,
          <1>11, <1>12, <1>13, <1>14, <1>15, <1>16, <1>17, <1>18, <1>19, <1>20
       DEF Next, Creating, Working, Closing

\* A job changes hands, and is nowhere twice.
LEMMA PlacesStep == Inv /\ [Next]_vars => Places'
<1> SUFFICES ASSUME Inv, [Next]_vars PROVE Places'
    OBVIOUS
<1> USE DEF vars, manager, calls, builds, disk, Is
<1>a. TypeOK /\ Places /\ Lives /\ Building /\ FilesAccounted /\ RunningIsHeld /\ DownloadsWhole
    BY DEF Inv
<1>b. /\ \A w \in Workers : at[w] \in {"create", "zip", "finish"} => task[w] \in Jobs /\ InBuild(task[w])
      /\ \A w \in Workers : at[w] \in {"idle", "gone"} => task[w] = None
      /\ Cardinality(Workers) \in Nat
    BY <1>a, InHand
<1>1. ASSUME NEW k \in Keys, RemoveObject(k) PROVE Places'
    BY <1>1, <1>a, <1>b, NoneApart DEF RemoveObject, TypeOK, Places, InBuild, Queued
<1>2. ASSUME NEW j \in Jobs, Register(j) PROVE Places'
    BY <1>2, <1>a, <1>b, NoneApart DEF Register, StillOpen, Acceptable, TypeOK, Places, InBuild,
       Queued
<1>3. ASSUME NEW j \in Jobs, Send(j) PROVE Places'
    <2>1. queue \in Seq(Jobs) /\ ~Queued(j) /\ Len(queue) \in Nat /\ queue' = Append(queue, j)
        BY <1>3, <1>a DEF Send, TypeOK, Places
    <2>2. (\A i, k \in DOMAIN queue : queue[i] = queue[k] => i = k)'
        BY <2>1, <1>a, SendOnce DEF Places
    <2>3. /\ queue' \in Seq(Jobs) /\ Len(queue') = Len(queue) + 1
          /\ \A k \in Jobs : Queued(k)' <=> Queued(k) \/ k = j
        BY <2>1, SendQueue
    <2>4. \A k \in Jobs : InBuild(k)' <=> InBuild(k)
        BY <1>3 DEF Send, InBuild
    <2> QED BY <1>3, <1>a, <1>b, <2>1, <2>2, <2>3, <2>4 DEF Send, HasRoom, TypeOK, Places
<1>4. ASSUME NEW j \in Jobs, GiveUp(j) PROVE Places'
    BY <1>4, <1>a, <1>b, NoneApart DEF GiveUp, CancelledWith, TypeOK, Places, InBuild, Queued
<1>5. ASSUME NEW j \in Jobs, Cancel(j) PROVE Places'
    BY <1>5, <1>a, <1>b, NoneApart DEF Cancel, CancelledWith, TypeOK, Places, InBuild, Queued
<1>6. ASSUME NEW j \in Jobs, Download(j) PROVE Places'
    BY <1>6, <1>a, <1>b, NoneApart DEF Download, TypeOK, Places, InBuild, Queued
<1>7. ASSUME NEW w \in Workers, TakeTask(w) PROVE Places'
    <2>1. queue \in Seq(Jobs) /\ queue # <<>> /\ queue' = Tail(queue)
        BY <1>7, <1>a DEF TakeTask, TypeOK
    <2>2. /\ Head(queue) \in Jobs /\ Queued(Head(queue))
          /\ queue' \in Seq(Jobs) /\ Len(queue') <= Len(queue)
          /\ (\A i, k \in DOMAIN queue : queue[i] = queue[k] => i = k)'
          /\ \A k \in Jobs : Queued(k)' <=> Queued(k) /\ k # Head(queue)
        BY <2>1, <1>a, TakeQueue DEF Places
    <2>3. \A k \in Jobs : InBuild(k)' <=> InBuild(k) \/ k = Head(queue)
        BY <1>7, <1>a, <1>b, <2>2, Taken DEF TakeTask
    <2>4. Len(queue) \in Nat /\ Len(queue') \in Nat
        BY <2>1, <2>2
    <2> QED BY <1>7, <1>a, <1>b, <2>1, <2>2, <2>3, <2>4, NoneApart DEF TakeTask, TypeOK, Places
<1>8. ASSUME NEW w \in Workers, Leave(w) PROVE Places'
    BY <1>8, <1>a, <1>b, NoneApart DEF Leave, TypeOK, Places, InBuild, Queued
<1>9. ASSUME NEW w \in Workers, CreateTemp(w) PROVE Places'
    BY <1>9, <1>a, <1>b, NoneApart DEF CreateTemp, Mishap, TypeOK, Places, InBuild, Queued
<1>10. ASSUME NEW w \in Workers, WriteEntry(w) PROVE Places'
    BY <1>10, <1>a, <1>b, NoneApart DEF WriteEntry, Unwritten, TypeOK, Places, InBuild, Queued
<1>11. ASSUME NEW w \in Workers, WriteFails(w) PROVE Places'
    BY <1>11, <1>a, <1>b, NoneApart DEF WriteFails, Mishap, TypeOK, Places, InBuild, Queued
<1>12. ASSUME NEW w \in Workers, CloseZip(w) PROVE Places'
    BY <1>12, <1>a, <1>b, NoneApart DEF CloseZip, Unwritten, TypeOK, Places, InBuild, Queued
<1>13. ASSUME NEW w \in Workers, FinishBuild(w) PROVE Places'
    <2>1. task[w] \in Jobs /\ \A k \in Jobs : InBuild(k)' <=> InBuild(k) /\ k # task[w]
        BY <1>13, <1>a, <1>b, Given DEF FinishBuild
    <2>2. \A k \in Jobs : Queued(k)' <=> Queued(k)
        BY <1>13 DEF FinishBuild, Queued
    <2>3. \A k \in Jobs : k # task[w] => job'[k] = job[k]
        BY <1>13, <1>a DEF FinishBuild, TypeOK
    <2>4. job'[task[w]] # "running" /\ call' = call /\ closing' = closing /\ queue' = queue
        BY <1>13, <1>a, <2>1, NoneApart DEF FinishBuild, NextTask, Outcome, Keeps, Known, TypeOK
    <2> QED BY <1>13, <1>a, <1>b, <2>1, <2>2, <2>3, <2>4, NoneApart DEF FinishBuild, NextTask,
               Outcome, Keeps, Known, TypeOK, Places
<1>14. ASSUME NEW w \in Workers, StatFails(w) PROVE Places'
    <2>1. task[w] \in Jobs /\ \A k \in Jobs : InBuild(k)' <=> InBuild(k) /\ k # task[w]
        BY <1>14, <1>a, <1>b, Given DEF StatFails
    <2>2. \A k \in Jobs : Queued(k)' <=> Queued(k)
        BY <1>14 DEF StatFails, Queued
    <2>3. \A k \in Jobs : k # task[w] => job'[k] = job[k]
        BY <1>14, <1>a DEF StatFails, TypeOK
    <2>4. job'[task[w]] # "running" /\ call' = call /\ closing' = closing /\ queue' = queue
        BY <1>14, <1>a, <2>1, NoneApart DEF StatFails, NextTask, Mishap, Known, TypeOK
    <2> QED BY <1>14, <1>a, <1>b, <2>1, <2>2, <2>3, <2>4, NoneApart DEF StatFails, NextTask,
               Mishap, Known, TypeOK, Places
<1>15. ASSUME Cleanup PROVE Places'
    BY <1>15, <1>a, <1>b, NoneApart DEF Cleanup, Collected, Known, TypeOK, Places, InBuild, Queued
<1>16. ASSUME StartClose PROVE Places'
    BY <1>16, <1>a, <1>b, NoneApart DEF StartClose, TypeOK, Places, InBuild, Queued
<1>17. ASSUME CancelAll PROVE Places'
    BY <1>17, <1>a, <1>b, NoneApart DEF CancelAll, Known, TypeOK, Places, InBuild, Queued
<1>18. ASSUME FinishClose PROVE Places'
    BY <1>18, <1>a, <1>b, NoneApart DEF FinishClose, Collected, TypeOK, Places, InBuild, Queued
<1>19. ASSUME Restart PROVE Places'
    <2>1. /\ queue' \in Seq(Jobs) /\ Len(queue') = 0 /\ DOMAIN queue' = {}
          /\ \A j \in Jobs : ~Queued(j)' /\ ~InBuild(j)'
        BY <1>19, Emptied DEF Restart
    <2> QED BY <1>19, <1>a, <1>b, <2>1, NoneApart DEF Restart, Mishap, TypeOK, Places
<1>20. CASE UNCHANGED vars
    BY <1>20, <1>a DEF TypeOK, Places, InBuild, Queued
<1> QED BY <1>1, <1>2, <1>3, <1>4, <1>5, <1>6, <1>7, <1>8, <1>9, <1>10,
          <1>11, <1>12, <1>13, <1>14, <1>15, <1>16, <1>17, <1>18, <1>19, <1>20
       DEF Next, Creating, Working, Closing

\* The map follows.
LEMMA LivesStep == Inv /\ [Next]_vars => Lives'
<1> SUFFICES ASSUME Inv, [Next]_vars PROVE Lives'
    OBVIOUS
<1> USE DEF vars, manager, calls, builds, disk, Is
<1>a. TypeOK /\ Places /\ Lives /\ Building /\ FilesAccounted /\ RunningIsHeld /\ DownloadsWhole
    BY DEF Inv
<1>b. /\ \A w \in Workers : at[w] \in {"create", "zip", "finish"} => task[w] \in Jobs /\ InBuild(task[w])
      /\ \A w \in Workers : at[w] \in {"idle", "gone"} => task[w] = None
      /\ Cardinality(Workers) \in Nat
    BY <1>a, InHand
<1>1. ASSUME NEW k \in Keys, RemoveObject(k) PROVE Lives'
    BY <1>1, <1>a, <1>b, NoneApart DEF RemoveObject, TypeOK, Places, Lives, InBuild, Queued
<1>2. ASSUME NEW j \in Jobs, Register(j) PROVE Lives'
    BY <1>2, <1>a, <1>b, NoneApart DEF Register, StillOpen, Acceptable, TypeOK, Places, Lives,
       InBuild, Queued
<1>3. ASSUME NEW j \in Jobs, Send(j) PROVE Lives'
    <2>1. queue \in Seq(Jobs) /\ ~Queued(j) /\ Len(queue) \in Nat /\ queue' = Append(queue, j)
        BY <1>3, <1>a DEF Send, TypeOK, Places
    <2>2. (\A i, k \in DOMAIN queue : queue[i] = queue[k] => i = k)'
        BY <2>1, <1>a, SendOnce DEF Places
    <2>3. /\ queue' \in Seq(Jobs) /\ Len(queue') = Len(queue) + 1
          /\ \A k \in Jobs : Queued(k)' <=> Queued(k) \/ k = j
        BY <2>1, SendQueue
    <2>4. \A k \in Jobs : InBuild(k)' <=> InBuild(k)
        BY <1>3 DEF Send, InBuild
    <2> QED BY <1>3, <1>a, <1>b, <2>1, <2>2, <2>3, <2>4 DEF Send, HasRoom, TypeOK, Places, Lives
<1>4. ASSUME NEW j \in Jobs, GiveUp(j) PROVE Lives'
    BY <1>4, <1>a, <1>b, NoneApart DEF GiveUp, CancelledWith, TypeOK, Places, Lives, InBuild, Queued
<1>5. ASSUME NEW j \in Jobs, Cancel(j) PROVE Lives'
    BY <1>5, <1>a, <1>b, NoneApart DEF Cancel, CancelledWith, TypeOK, Places, Lives, InBuild, Queued
<1>6. ASSUME NEW j \in Jobs, Download(j) PROVE Lives'
    BY <1>6, <1>a, <1>b, NoneApart DEF Download, TypeOK, Places, Lives, InBuild, Queued
<1>7. ASSUME NEW w \in Workers, TakeTask(w) PROVE Lives'
    <2>1. queue \in Seq(Jobs) /\ queue # <<>> /\ queue' = Tail(queue)
        BY <1>7, <1>a DEF TakeTask, TypeOK
    <2>2. /\ Head(queue) \in Jobs /\ Queued(Head(queue))
          /\ queue' \in Seq(Jobs) /\ Len(queue') <= Len(queue)
          /\ (\A i, k \in DOMAIN queue : queue[i] = queue[k] => i = k)'
          /\ \A k \in Jobs : Queued(k)' <=> Queued(k) /\ k # Head(queue)
        BY <2>1, <1>a, TakeQueue DEF Places
    <2>3. \A k \in Jobs : InBuild(k)' <=> InBuild(k) \/ k = Head(queue)
        BY <1>7, <1>a, <1>b, <2>2, Taken DEF TakeTask
    <2>4. Len(queue) \in Nat /\ Len(queue') \in Nat
        BY <2>1, <2>2
    <2> QED BY <1>7, <1>a, <1>b, <2>1, <2>2, <2>3, <2>4, NoneApart DEF TakeTask, TypeOK, Places,
               Lives
<1>8. ASSUME NEW w \in Workers, Leave(w) PROVE Lives'
    BY <1>8, <1>a, <1>b, NoneApart DEF Leave, TypeOK, Places, Lives, InBuild, Queued
<1>9. ASSUME NEW w \in Workers, CreateTemp(w) PROVE Lives'
    BY <1>9, <1>a, <1>b, NoneApart DEF CreateTemp, Mishap, TypeOK, Places, Lives, InBuild, Queued
<1>10. ASSUME NEW w \in Workers, WriteEntry(w) PROVE Lives'
    BY <1>10, <1>a, <1>b, NoneApart DEF WriteEntry, Unwritten, TypeOK, Places, Lives, InBuild,
       Queued
<1>11. ASSUME NEW w \in Workers, WriteFails(w) PROVE Lives'
    BY <1>11, <1>a, <1>b, NoneApart DEF WriteFails, Mishap, TypeOK, Places, Lives, InBuild, Queued
<1>12. ASSUME NEW w \in Workers, CloseZip(w) PROVE Lives'
    BY <1>12, <1>a, <1>b, NoneApart DEF CloseZip, Unwritten, TypeOK, Places, Lives, InBuild, Queued
<1>13. ASSUME NEW w \in Workers, FinishBuild(w) PROVE Lives'
    <2>1. task[w] \in Jobs /\ \A k \in Jobs : InBuild(k)' <=> InBuild(k) /\ k # task[w]
        BY <1>13, <1>a, <1>b, Given DEF FinishBuild
    <2>2. \A k \in Jobs : Queued(k)' <=> Queued(k)
        BY <1>13 DEF FinishBuild, Queued
    <2>3. \A k \in Jobs : k # task[w] => job'[k] = job[k]
        BY <1>13, <1>a DEF FinishBuild, TypeOK
    <2>4. job'[task[w]] # "running" /\ call' = call /\ closing' = closing /\ queue' = queue
        BY <1>13, <1>a, <2>1, NoneApart DEF FinishBuild, NextTask, Outcome, Keeps, Known, TypeOK
    <2> QED BY <1>13, <1>a, <1>b, <2>1, <2>2, <2>3, <2>4, NoneApart DEF FinishBuild, NextTask,
               Outcome, Keeps, Known, TypeOK, Places, Lives
<1>14. ASSUME NEW w \in Workers, StatFails(w) PROVE Lives'
    <2>1. task[w] \in Jobs /\ \A k \in Jobs : InBuild(k)' <=> InBuild(k) /\ k # task[w]
        BY <1>14, <1>a, <1>b, Given DEF StatFails
    <2>2. \A k \in Jobs : Queued(k)' <=> Queued(k)
        BY <1>14 DEF StatFails, Queued
    <2>3. \A k \in Jobs : k # task[w] => job'[k] = job[k]
        BY <1>14, <1>a DEF StatFails, TypeOK
    <2>4. job'[task[w]] # "running" /\ call' = call /\ closing' = closing /\ queue' = queue
        BY <1>14, <1>a, <2>1, NoneApart DEF StatFails, NextTask, Mishap, Known, TypeOK
    <2> QED BY <1>14, <1>a, <1>b, <2>1, <2>2, <2>3, <2>4, NoneApart DEF StatFails, NextTask,
               Mishap, Known, TypeOK, Places, Lives
<1>15. ASSUME Cleanup PROVE Lives'
    BY <1>15, <1>a, <1>b, NoneApart DEF Cleanup, Collected, Known, TypeOK, Places, Lives, InBuild,
       Queued
<1>16. ASSUME StartClose PROVE Lives'
    BY <1>16, <1>a, <1>b, NoneApart DEF StartClose, TypeOK, Places, Lives, InBuild, Queued
<1>17. ASSUME CancelAll PROVE Lives'
    BY <1>17, <1>a, <1>b, NoneApart DEF CancelAll, Known, TypeOK, Places, Lives, InBuild, Queued
<1>18. ASSUME FinishClose PROVE Lives'
    BY <1>18, <1>a, <1>b, NoneApart DEF FinishClose, Collected, TypeOK, Places, Lives, InBuild,
       Queued
<1>19. ASSUME Restart PROVE Lives'
    <2>1. /\ queue' \in Seq(Jobs) /\ Len(queue') = 0 /\ DOMAIN queue' = {}
          /\ \A j \in Jobs : ~Queued(j)' /\ ~InBuild(j)'
        BY <1>19, Emptied DEF Restart
    <2> QED BY <1>19, <1>a, <1>b, <2>1, NoneApart DEF Restart, Mishap, TypeOK, Places, Lives
<1>20. CASE UNCHANGED vars
    BY <1>20, <1>a DEF TypeOK, Places, Lives, InBuild, Queued
<1> QED BY <1>1, <1>2, <1>3, <1>4, <1>5, <1>6, <1>7, <1>8, <1>9, <1>10,
          <1>11, <1>12, <1>13, <1>14, <1>15, <1>16, <1>17, <1>18, <1>19, <1>20
       DEF Next, Creating, Working, Closing

\* The file of a build.
LEMMA BuildingStep == Inv /\ [Next]_vars => Building'
<1> SUFFICES ASSUME Inv, [Next]_vars PROVE Building'
    OBVIOUS
<1> USE DEF vars, manager, calls, builds, disk, Is
<1>a. TypeOK /\ Places /\ Lives /\ Building /\ FilesAccounted /\ RunningIsHeld /\ DownloadsWhole
    BY DEF Inv
<1>b. /\ \A w \in Workers : at[w] \in {"create", "zip", "finish"} => task[w] \in Jobs /\ InBuild(task[w])
      /\ \A w \in Workers : at[w] \in {"idle", "gone"} => task[w] = None
      /\ Cardinality(Workers) \in Nat
    BY <1>a, InHand
<1>1. ASSUME NEW k \in Keys, RemoveObject(k) PROVE Building'
    BY <1>1, <1>a, <1>b, NoneApart DEF RemoveObject, TypeOK, Places, Lives, Building, InBuild,
       Queued
<1>2. ASSUME NEW j \in Jobs, Register(j) PROVE Building'
    BY <1>2, <1>a, <1>b, NoneApart DEF Register, StillOpen, Acceptable, TypeOK, Places, Lives,
       Building, InBuild, Queued
<1>3. ASSUME NEW j \in Jobs, Send(j) PROVE Building'
    <2>1. queue \in Seq(Jobs) /\ ~Queued(j) /\ Len(queue) \in Nat /\ queue' = Append(queue, j)
        BY <1>3, <1>a DEF Send, TypeOK, Places
    <2>2. (\A i, k \in DOMAIN queue : queue[i] = queue[k] => i = k)'
        BY <2>1, <1>a, SendOnce DEF Places
    <2>3. /\ queue' \in Seq(Jobs) /\ Len(queue') = Len(queue) + 1
          /\ \A k \in Jobs : Queued(k)' <=> Queued(k) \/ k = j
        BY <2>1, SendQueue
    <2>4. \A k \in Jobs : InBuild(k)' <=> InBuild(k)
        BY <1>3 DEF Send, InBuild
    <2> QED BY <1>3, <1>a, <1>b, <2>1, <2>2, <2>3, <2>4 DEF Send, HasRoom, TypeOK, Places, Lives,
               Building
<1>4. ASSUME NEW j \in Jobs, GiveUp(j) PROVE Building'
    BY <1>4, <1>a, <1>b, NoneApart DEF GiveUp, CancelledWith, TypeOK, Places, Lives, Building,
       InBuild, Queued
<1>5. ASSUME NEW j \in Jobs, Cancel(j) PROVE Building'
    BY <1>5, <1>a, <1>b, NoneApart DEF Cancel, CancelledWith, TypeOK, Places, Lives, Building,
       InBuild, Queued
<1>6. ASSUME NEW j \in Jobs, Download(j) PROVE Building'
    BY <1>6, <1>a, <1>b, NoneApart DEF Download, TypeOK, Places, Lives, Building, InBuild, Queued
<1>7. ASSUME NEW w \in Workers, TakeTask(w) PROVE Building'
    <2>1. queue \in Seq(Jobs) /\ queue # <<>> /\ queue' = Tail(queue)
        BY <1>7, <1>a DEF TakeTask, TypeOK
    <2>2. /\ Head(queue) \in Jobs /\ Queued(Head(queue))
          /\ queue' \in Seq(Jobs) /\ Len(queue') <= Len(queue)
          /\ (\A i, k \in DOMAIN queue : queue[i] = queue[k] => i = k)'
          /\ \A k \in Jobs : Queued(k)' <=> Queued(k) /\ k # Head(queue)
        BY <2>1, <1>a, TakeQueue DEF Places
    <2>3. \A k \in Jobs : InBuild(k)' <=> InBuild(k) \/ k = Head(queue)
        BY <1>7, <1>a, <1>b, <2>2, Taken DEF TakeTask
    <2>4. Len(queue) \in Nat /\ Len(queue') \in Nat
        BY <2>1, <2>2
    <2> QED BY <1>7, <1>a, <1>b, <2>1, <2>2, <2>3, <2>4, NoneApart DEF TakeTask, TypeOK, Places,
               Lives, Building
<1>8. ASSUME NEW w \in Workers, Leave(w) PROVE Building'
    BY <1>8, <1>a, <1>b, NoneApart DEF Leave, TypeOK, Places, Lives, Building, InBuild, Queued
<1>9. ASSUME NEW w \in Workers, CreateTemp(w) PROVE Building'
    BY <1>9, <1>a, <1>b, NoneApart DEF CreateTemp, Mishap, TypeOK, Places, Lives, Building,
       InBuild, Queued
<1>10. ASSUME NEW w \in Workers, WriteEntry(w) PROVE Building'
    BY <1>10, <1>a, <1>b, NoneApart DEF WriteEntry, Unwritten, TypeOK, Places, Lives, Building,
       InBuild, Queued
<1>11. ASSUME NEW w \in Workers, WriteFails(w) PROVE Building'
    BY <1>11, <1>a, <1>b, NoneApart DEF WriteFails, Mishap, TypeOK, Places, Lives, Building,
       InBuild, Queued
<1>12. ASSUME NEW w \in Workers, CloseZip(w) PROVE Building'
    <2>1. task[w] \in Jobs /\ zip[task[w]] \subseteq entries[task[w]] /\ entries[task[w]] \ zip[task[w]] = {}
        BY <1>12, <1>a, <1>b DEF CloseZip, Unwritten, Building
    <2>2. zip[task[w]] = entries[task[w]]
        BY <2>1
    <2> QED BY <1>12, <1>a, <2>2 DEF CloseZip, TypeOK, Building
<1>13. ASSUME NEW w \in Workers, FinishBuild(w) PROVE Building'
    <2>1. task[w] \in Jobs /\ \A k \in Jobs : InBuild(k)' <=> InBuild(k) /\ k # task[w]
        BY <1>13, <1>a, <1>b, Given DEF FinishBuild
    <2>2. \A k \in Jobs : Queued(k)' <=> Queued(k)
        BY <1>13 DEF FinishBuild, Queued
    <2>3. \A k \in Jobs : k # task[w] => job'[k] = job[k]
        BY <1>13, <1>a DEF FinishBuild, TypeOK
    <2>4. job'[task[w]] # "running" /\ call' = call /\ closing' = closing /\ queue' = queue
        BY <1>13, <1>a, <2>1, NoneApart DEF FinishBuild, NextTask, Outcome, Keeps, Known, TypeOK
    <2> QED BY <1>13, <1>a, <1>b, <2>1, <2>2, <2>3, <2>4, NoneApart DEF FinishBuild, NextTask,
               Outcome, Keeps, Known, TypeOK, Places, Lives, Building
<1>14. ASSUME NEW w \in Workers, StatFails(w) PROVE Building'
    <2>1. task[w] \in Jobs /\ \A k \in Jobs : InBuild(k)' <=> InBuild(k) /\ k # task[w]
        BY <1>14, <1>a, <1>b, Given DEF StatFails
    <2>2. \A k \in Jobs : Queued(k)' <=> Queued(k)
        BY <1>14 DEF StatFails, Queued
    <2>3. \A k \in Jobs : k # task[w] => job'[k] = job[k]
        BY <1>14, <1>a DEF StatFails, TypeOK
    <2>4. job'[task[w]] # "running" /\ call' = call /\ closing' = closing /\ queue' = queue
        BY <1>14, <1>a, <2>1, NoneApart DEF StatFails, NextTask, Mishap, Known, TypeOK
    <2> QED BY <1>14, <1>a, <1>b, <2>1, <2>2, <2>3, <2>4, NoneApart DEF StatFails, NextTask,
               Mishap, Known, TypeOK, Places, Lives, Building
<1>15. ASSUME Cleanup PROVE Building'
    BY <1>15, <1>a, <1>b, NoneApart DEF Cleanup, Collected, Known, TypeOK, Places, Lives, Building,
       InBuild, Queued
<1>16. ASSUME StartClose PROVE Building'
    BY <1>16, <1>a, <1>b, NoneApart DEF StartClose, TypeOK, Places, Lives, Building, InBuild, Queued
<1>17. ASSUME CancelAll PROVE Building'
    BY <1>17, <1>a, <1>b, NoneApart DEF CancelAll, Known, TypeOK, Places, Lives, Building, InBuild,
       Queued
<1>18. ASSUME FinishClose PROVE Building'
    BY <1>18, <1>a, <1>b, NoneApart DEF FinishClose, Collected, TypeOK, Places, Lives, Building,
       InBuild, Queued
<1>19. ASSUME Restart PROVE Building'
    <2>1. /\ queue' \in Seq(Jobs) /\ Len(queue') = 0 /\ DOMAIN queue' = {}
          /\ \A j \in Jobs : ~Queued(j)' /\ ~InBuild(j)'
        BY <1>19, Emptied DEF Restart
    <2> QED BY <1>19, <1>a, <1>b, <2>1, NoneApart DEF Restart, Mishap, TypeOK, Places, Lives,
               Building
<1>20. CASE UNCHANGED vars
    BY <1>20, <1>a DEF TypeOK, Places, Lives, Building, InBuild, Queued
<1> QED BY <1>1, <1>2, <1>3, <1>4, <1>5, <1>6, <1>7, <1>8, <1>9, <1>10,
          <1>11, <1>12, <1>13, <1>14, <1>15, <1>16, <1>17, <1>18, <1>19, <1>20
       DEF Next, Creating, Working, Closing

\* Who has a running job.
LEMMA HeldStep == Inv /\ [Next]_vars => RunningIsHeld'
<1> SUFFICES ASSUME Inv, [Next]_vars PROVE RunningIsHeld'
    OBVIOUS
<1> USE DEF vars, manager, calls, builds, disk, Is
<1>a. TypeOK /\ Places /\ Lives /\ Building /\ FilesAccounted /\ RunningIsHeld /\ DownloadsWhole
    BY DEF Inv
<1>b. /\ \A w \in Workers : at[w] \in {"create", "zip", "finish"} => task[w] \in Jobs /\ InBuild(task[w])
      /\ \A w \in Workers : at[w] \in {"idle", "gone"} => task[w] = None
      /\ Cardinality(Workers) \in Nat
    BY <1>a, InHand
<1>1. ASSUME NEW k \in Keys, RemoveObject(k) PROVE RunningIsHeld'
    BY <1>1, <1>a, <1>b, NoneApart DEF RemoveObject, TypeOK, Places, Lives, RunningIsHeld, InBuild,
       Queued
<1>2. ASSUME NEW j \in Jobs, Register(j) PROVE RunningIsHeld'
    BY <1>2, <1>a, <1>b, NoneApart DEF Register, StillOpen, Acceptable, TypeOK, Places, Lives,
       RunningIsHeld, InBuild, Queued
<1>3. ASSUME NEW j \in Jobs, Send(j) PROVE RunningIsHeld'
    <2>1. queue \in Seq(Jobs) /\ ~Queued(j) /\ Len(queue) \in Nat /\ queue' = Append(queue, j)
        BY <1>3, <1>a DEF Send, TypeOK, Places
    <2>2. (\A i, k \in DOMAIN queue : queue[i] = queue[k] => i = k)'
        BY <2>1, <1>a, SendOnce DEF Places
    <2>3. /\ queue' \in Seq(Jobs) /\ Len(queue') = Len(queue) + 1
          /\ \A k \in Jobs : Queued(k)' <=> Queued(k) \/ k = j
        BY <2>1, SendQueue
    <2>4. \A k \in Jobs : InBuild(k)' <=> InBuild(k)
        BY <1>3 DEF Send, InBuild
    <2> QED BY <1>3, <1>a, <1>b, <2>1, <2>2, <2>3, <2>4 DEF Send, HasRoom, TypeOK, Places, Lives,
               RunningIsHeld
<1>4. ASSUME NEW j \in Jobs, GiveUp(j) PROVE RunningIsHeld'
    BY <1>4, <1>a, <1>b, NoneApart DEF GiveUp, CancelledWith, TypeOK, Places, Lives, RunningIsHeld,
       InBuild, Queued
<1>5. ASSUME NEW j \in Jobs, Cancel(j) PROVE RunningIsHeld'
    BY <1>5, <1>a, <1>b, NoneApart DEF Cancel, CancelledWith, TypeOK, Places, Lives, RunningIsHeld,
       InBuild, Queued
<1>6. ASSUME NEW j \in Jobs, Download(j) PROVE RunningIsHeld'
    BY <1>6, <1>a, <1>b, NoneApart DEF Download, TypeOK, Places, Lives, RunningIsHeld, InBuild,
       Queued
<1>7. ASSUME NEW w \in Workers, TakeTask(w) PROVE RunningIsHeld'
    <2>1. queue \in Seq(Jobs) /\ queue # <<>> /\ queue' = Tail(queue)
        BY <1>7, <1>a DEF TakeTask, TypeOK
    <2>2. /\ Head(queue) \in Jobs /\ Queued(Head(queue))
          /\ queue' \in Seq(Jobs) /\ Len(queue') <= Len(queue)
          /\ (\A i, k \in DOMAIN queue : queue[i] = queue[k] => i = k)'
          /\ \A k \in Jobs : Queued(k)' <=> Queued(k) /\ k # Head(queue)
        BY <2>1, <1>a, TakeQueue DEF Places
    <2>3. \A k \in Jobs : InBuild(k)' <=> InBuild(k) \/ k = Head(queue)
        BY <1>7, <1>a, <1>b, <2>2, Taken DEF TakeTask
    <2>4. Len(queue) \in Nat /\ Len(queue') \in Nat
        BY <2>1, <2>2
    <2> QED BY <1>7, <1>a, <1>b, <2>1, <2>2, <2>3, <2>4, NoneApart DEF TakeTask, TypeOK, Places,
               Lives, RunningIsHeld
<1>8. ASSUME NEW w \in Workers, Leave(w) PROVE RunningIsHeld'
    BY <1>8, <1>a, <1>b, NoneApart DEF Leave, TypeOK, Places, Lives, RunningIsHeld, InBuild, Queued
<1>9. ASSUME NEW w \in Workers, CreateTemp(w) PROVE RunningIsHeld'
    BY <1>9, <1>a, <1>b, NoneApart DEF CreateTemp, Mishap, TypeOK, Places, Lives, RunningIsHeld,
       InBuild, Queued
<1>10. ASSUME NEW w \in Workers, WriteEntry(w) PROVE RunningIsHeld'
    BY <1>10, <1>a, <1>b, NoneApart DEF WriteEntry, Unwritten, TypeOK, Places, Lives,
       RunningIsHeld, InBuild, Queued
<1>11. ASSUME NEW w \in Workers, WriteFails(w) PROVE RunningIsHeld'
    BY <1>11, <1>a, <1>b, NoneApart DEF WriteFails, Mishap, TypeOK, Places, Lives, RunningIsHeld,
       InBuild, Queued
<1>12. ASSUME NEW w \in Workers, CloseZip(w) PROVE RunningIsHeld'
    BY <1>12, <1>a, <1>b, NoneApart DEF CloseZip, Unwritten, TypeOK, Places, Lives, RunningIsHeld,
       InBuild, Queued
<1>13. ASSUME NEW w \in Workers, FinishBuild(w) PROVE RunningIsHeld'
    <2>1. task[w] \in Jobs /\ \A k \in Jobs : InBuild(k)' <=> InBuild(k) /\ k # task[w]
        BY <1>13, <1>a, <1>b, Given DEF FinishBuild
    <2>2. \A k \in Jobs : Queued(k)' <=> Queued(k)
        BY <1>13 DEF FinishBuild, Queued
    <2>3. \A k \in Jobs : k # task[w] => job'[k] = job[k]
        BY <1>13, <1>a DEF FinishBuild, TypeOK
    <2>4. job'[task[w]] # "running" /\ call' = call /\ closing' = closing /\ queue' = queue
        BY <1>13, <1>a, <2>1, NoneApart DEF FinishBuild, NextTask, Outcome, Keeps, Known, TypeOK
    <2> QED BY <1>13, <1>a, <1>b, <2>1, <2>2, <2>3, <2>4, NoneApart DEF FinishBuild, NextTask,
               Outcome, Keeps, Known, TypeOK, Places, Lives, RunningIsHeld
<1>14. ASSUME NEW w \in Workers, StatFails(w) PROVE RunningIsHeld'
    <2>1. task[w] \in Jobs /\ \A k \in Jobs : InBuild(k)' <=> InBuild(k) /\ k # task[w]
        BY <1>14, <1>a, <1>b, Given DEF StatFails
    <2>2. \A k \in Jobs : Queued(k)' <=> Queued(k)
        BY <1>14 DEF StatFails, Queued
    <2>3. \A k \in Jobs : k # task[w] => job'[k] = job[k]
        BY <1>14, <1>a DEF StatFails, TypeOK
    <2>4. job'[task[w]] # "running" /\ call' = call /\ closing' = closing /\ queue' = queue
        BY <1>14, <1>a, <2>1, NoneApart DEF StatFails, NextTask, Mishap, Known, TypeOK
    <2> QED BY <1>14, <1>a, <1>b, <2>1, <2>2, <2>3, <2>4, NoneApart DEF StatFails, NextTask,
               Mishap, Known, TypeOK, Places, Lives, RunningIsHeld
<1>15. ASSUME Cleanup PROVE RunningIsHeld'
    BY <1>15, <1>a, <1>b, NoneApart DEF Cleanup, Collected, Known, TypeOK, Places, Lives,
       RunningIsHeld, InBuild, Queued
<1>16. ASSUME StartClose PROVE RunningIsHeld'
    BY <1>16, <1>a, <1>b, NoneApart DEF StartClose, TypeOK, Places, Lives, RunningIsHeld, InBuild,
       Queued
<1>17. ASSUME CancelAll PROVE RunningIsHeld'
    BY <1>17, <1>a, <1>b, NoneApart DEF CancelAll, Known, TypeOK, Places, Lives, RunningIsHeld,
       InBuild, Queued
<1>18. ASSUME FinishClose PROVE RunningIsHeld'
    BY <1>18, <1>a, <1>b, NoneApart DEF FinishClose, Collected, TypeOK, Places, Lives,
       RunningIsHeld, InBuild, Queued
<1>19. ASSUME Restart PROVE RunningIsHeld'
    <2>1. /\ queue' \in Seq(Jobs) /\ Len(queue') = 0 /\ DOMAIN queue' = {}
          /\ \A j \in Jobs : ~Queued(j)' /\ ~InBuild(j)'
        BY <1>19, Emptied DEF Restart
    <2> QED BY <1>19, <1>a, <1>b, <2>1, NoneApart DEF Restart, Mishap, TypeOK, Places, Lives,
               RunningIsHeld
<1>20. CASE UNCHANGED vars
    BY <1>20, <1>a DEF TypeOK, Places, Lives, RunningIsHeld, InBuild, Queued
<1> QED BY <1>1, <1>2, <1>3, <1>4, <1>5, <1>6, <1>7, <1>8, <1>9, <1>10,
          <1>11, <1>12, <1>13, <1>14, <1>15, <1>16, <1>17, <1>18, <1>19, <1>20
       DEF Next, Creating, Working, Closing

\* Whose the files are.
LEMMA FilesStep == Inv /\ [Next]_vars => FilesAccounted'
<1> SUFFICES ASSUME Inv, [Next]_vars PROVE FilesAccounted'
    OBVIOUS
<1> USE DEF vars, manager, calls, builds, disk, Is
<1>a. TypeOK /\ Places /\ Lives /\ Building /\ FilesAccounted /\ RunningIsHeld /\ DownloadsWhole
    BY DEF Inv
<1>b. /\ \A w \in Workers : at[w] \in {"create", "zip", "finish"} => task[w] \in Jobs /\ InBuild(task[w])
      /\ \A w \in Workers : at[w] \in {"idle", "gone"} => task[w] = None
      /\ Cardinality(Workers) \in Nat
    BY <1>a, InHand
<1>1. ASSUME NEW k \in Keys, RemoveObject(k) PROVE FilesAccounted'
    BY <1>1, <1>a, <1>b, NoneApart DEF RemoveObject, TypeOK, Places, Lives, FilesAccounted, Known,
       InBuild, Queued
<1>2. ASSUME NEW j \in Jobs, Register(j) PROVE FilesAccounted'
    BY <1>2, <1>a, <1>b, NoneApart DEF Register, StillOpen, Acceptable, TypeOK, Places, Lives,
       FilesAccounted, Known, InBuild, Queued
<1>3. ASSUME NEW j \in Jobs, Send(j) PROVE FilesAccounted'
    <2>1. queue \in Seq(Jobs) /\ ~Queued(j) /\ Len(queue) \in Nat /\ queue' = Append(queue, j)
        BY <1>3, <1>a DEF Send, TypeOK, Places
    <2>2. (\A i, k \in DOMAIN queue : queue[i] = queue[k] => i = k)'
        BY <2>1, <1>a, SendOnce DEF Places
    <2>3. /\ queue' \in Seq(Jobs) /\ Len(queue') = Len(queue) + 1
          /\ \A k \in Jobs : Queued(k)' <=> Queued(k) \/ k = j
        BY <2>1, SendQueue
    <2>4. \A k \in Jobs : InBuild(k)' <=> InBuild(k)
        BY <1>3 DEF Send, InBuild
    <2> QED BY <1>3, <1>a, <1>b, <2>1, <2>2, <2>3, <2>4 DEF Send, HasRoom, TypeOK, Places, Lives,
               FilesAccounted, Known
<1>4. ASSUME NEW j \in Jobs, GiveUp(j) PROVE FilesAccounted'
    BY <1>4, <1>a, <1>b, NoneApart DEF GiveUp, CancelledWith, TypeOK, Places, Lives,
       FilesAccounted, Known, InBuild, Queued
<1>5. ASSUME NEW j \in Jobs, Cancel(j) PROVE FilesAccounted'
    BY <1>5, <1>a, <1>b, NoneApart DEF Cancel, CancelledWith, TypeOK, Places, Lives,
       FilesAccounted, Known, InBuild, Queued
<1>6. ASSUME NEW j \in Jobs, Download(j) PROVE FilesAccounted'
    BY <1>6, <1>a, <1>b, NoneApart DEF Download, TypeOK, Places, Lives, FilesAccounted, Known,
       InBuild, Queued
<1>7. ASSUME NEW w \in Workers, TakeTask(w) PROVE FilesAccounted'
    <2>1. queue \in Seq(Jobs) /\ queue # <<>> /\ queue' = Tail(queue)
        BY <1>7, <1>a DEF TakeTask, TypeOK
    <2>2. /\ Head(queue) \in Jobs /\ Queued(Head(queue))
          /\ queue' \in Seq(Jobs) /\ Len(queue') <= Len(queue)
          /\ (\A i, k \in DOMAIN queue : queue[i] = queue[k] => i = k)'
          /\ \A k \in Jobs : Queued(k)' <=> Queued(k) /\ k # Head(queue)
        BY <2>1, <1>a, TakeQueue DEF Places
    <2>3. \A k \in Jobs : InBuild(k)' <=> InBuild(k) \/ k = Head(queue)
        BY <1>7, <1>a, <1>b, <2>2, Taken DEF TakeTask
    <2>4. Len(queue) \in Nat /\ Len(queue') \in Nat
        BY <2>1, <2>2
    <2> QED BY <1>7, <1>a, <1>b, <2>1, <2>2, <2>3, <2>4, NoneApart DEF TakeTask, TypeOK, Places,
               Lives, FilesAccounted, Known
<1>8. ASSUME NEW w \in Workers, Leave(w) PROVE FilesAccounted'
    BY <1>8, <1>a, <1>b, NoneApart DEF Leave, TypeOK, Places, Lives, FilesAccounted, Known,
       InBuild, Queued
<1>9. ASSUME NEW w \in Workers, CreateTemp(w) PROVE FilesAccounted'
    BY <1>9, <1>a, <1>b, NoneApart DEF CreateTemp, Mishap, TypeOK, Places, Lives, FilesAccounted,
       Known, InBuild, Queued
<1>10. ASSUME NEW w \in Workers, WriteEntry(w) PROVE FilesAccounted'
    BY <1>10, <1>a, <1>b, NoneApart DEF WriteEntry, Unwritten, TypeOK, Places, Lives,
       FilesAccounted, Known, InBuild, Queued
<1>11. ASSUME NEW w \in Workers, WriteFails(w) PROVE FilesAccounted'
    BY <1>11, <1>a, <1>b, NoneApart DEF WriteFails, Mishap, TypeOK, Places, Lives, FilesAccounted,
       Known, InBuild, Queued
<1>12. ASSUME NEW w \in Workers, CloseZip(w) PROVE FilesAccounted'
    BY <1>12, <1>a, <1>b, NoneApart DEF CloseZip, Unwritten, TypeOK, Places, Lives, FilesAccounted,
       Known, InBuild, Queued
<1>13. ASSUME NEW w \in Workers, FinishBuild(w) PROVE FilesAccounted'
    <2>1. task[w] \in Jobs /\ \A k \in Jobs : InBuild(k)' <=> InBuild(k) /\ k # task[w]
        BY <1>13, <1>a, <1>b, Given DEF FinishBuild
    <2>2. \A k \in Jobs : Queued(k)' <=> Queued(k)
        BY <1>13 DEF FinishBuild, Queued
    <2>3. \A k \in Jobs : k # task[w] => job'[k] = job[k]
        BY <1>13, <1>a DEF FinishBuild, TypeOK
    <2>4. job'[task[w]] # "running" /\ call' = call /\ closing' = closing /\ queue' = queue
        BY <1>13, <1>a, <2>1, NoneApart DEF FinishBuild, NextTask, Outcome, Keeps, Known, TypeOK
    <2> QED BY <1>13, <1>a, <1>b, <2>1, <2>2, <2>3, <2>4, NoneApart DEF FinishBuild, NextTask,
               Outcome, Keeps, Known, TypeOK, Places, Lives, FilesAccounted, Known
<1>14. ASSUME NEW w \in Workers, StatFails(w) PROVE FilesAccounted'
    <2>1. task[w] \in Jobs /\ \A k \in Jobs : InBuild(k)' <=> InBuild(k) /\ k # task[w]
        BY <1>14, <1>a, <1>b, Given DEF StatFails
    <2>2. \A k \in Jobs : Queued(k)' <=> Queued(k)
        BY <1>14 DEF StatFails, Queued
    <2>3. \A k \in Jobs : k # task[w] => job'[k] = job[k]
        BY <1>14, <1>a DEF StatFails, TypeOK
    <2>4. job'[task[w]] # "running" /\ call' = call /\ closing' = closing /\ queue' = queue
        BY <1>14, <1>a, <2>1, NoneApart DEF StatFails, NextTask, Mishap, Known, TypeOK
    <2> QED BY <1>14, <1>a, <1>b, <2>1, <2>2, <2>3, <2>4, NoneApart DEF StatFails, NextTask,
               Mishap, Known, TypeOK, Places, Lives, FilesAccounted, Known
<1>15. ASSUME Cleanup PROVE FilesAccounted'
    BY <1>15, <1>a, <1>b, NoneApart DEF Cleanup, Collected, Known, TypeOK, Places, Lives,
       FilesAccounted, Known, InBuild, Queued
<1>16. ASSUME StartClose PROVE FilesAccounted'
    BY <1>16, <1>a, <1>b, NoneApart DEF StartClose, TypeOK, Places, Lives, FilesAccounted, Known,
       InBuild, Queued
<1>17. ASSUME CancelAll PROVE FilesAccounted'
    BY <1>17, <1>a, <1>b, NoneApart DEF CancelAll, Known, TypeOK, Places, Lives, FilesAccounted,
       Known, InBuild, Queued
<1>18. ASSUME FinishClose PROVE FilesAccounted'
    BY <1>18, <1>a, <1>b, NoneApart DEF FinishClose, Collected, TypeOK, Places, Lives,
       FilesAccounted, Known, InBuild, Queued
<1>19. ASSUME Restart PROVE FilesAccounted'
    <2>1. /\ queue' \in Seq(Jobs) /\ Len(queue') = 0 /\ DOMAIN queue' = {}
          /\ \A j \in Jobs : ~Queued(j)' /\ ~InBuild(j)'
        BY <1>19, Emptied DEF Restart
    <2> QED BY <1>19, <1>a, <1>b, <2>1, NoneApart DEF Restart, Mishap, TypeOK, Places, Lives,
               FilesAccounted, Known
<1>20. CASE UNCHANGED vars
    BY <1>20, <1>a DEF TypeOK, Places, Lives, FilesAccounted, Known, InBuild, Queued
<1> QED BY <1>1, <1>2, <1>3, <1>4, <1>5, <1>6, <1>7, <1>8, <1>9, <1>10,
          <1>11, <1>12, <1>13, <1>14, <1>15, <1>16, <1>17, <1>18, <1>19, <1>20
       DEF Next, Creating, Working, Closing

\* What the files have.
LEMMA WholeStep == Inv /\ [Next]_vars => DownloadsWhole'
<1> SUFFICES ASSUME Inv, [Next]_vars PROVE DownloadsWhole'
    OBVIOUS
<1> USE DEF vars, manager, calls, builds, disk, Is
<1>a. TypeOK /\ Places /\ Lives /\ Building /\ FilesAccounted /\ RunningIsHeld /\ DownloadsWhole
    BY DEF Inv
<1>b. /\ \A w \in Workers : at[w] \in {"create", "zip", "finish"} => task[w] \in Jobs /\ InBuild(task[w])
      /\ \A w \in Workers : at[w] \in {"idle", "gone"} => task[w] = None
      /\ Cardinality(Workers) \in Nat
    BY <1>a, InHand
<1>1. ASSUME NEW k \in Keys, RemoveObject(k) PROVE DownloadsWhole'
    BY <1>1, <1>a, <1>b, NoneApart DEF RemoveObject, TypeOK, Places, Lives, Building,
       DownloadsWhole, InBuild, Queued
<1>2. ASSUME NEW j \in Jobs, Register(j) PROVE DownloadsWhole'
    BY <1>2, <1>a, <1>b, NoneApart DEF Register, StillOpen, Acceptable, TypeOK, Places, Lives,
       Building, DownloadsWhole, InBuild, Queued
<1>3. ASSUME NEW j \in Jobs, Send(j) PROVE DownloadsWhole'
    <2>1. queue \in Seq(Jobs) /\ ~Queued(j) /\ Len(queue) \in Nat /\ queue' = Append(queue, j)
        BY <1>3, <1>a DEF Send, TypeOK, Places
    <2>2. (\A i, k \in DOMAIN queue : queue[i] = queue[k] => i = k)'
        BY <2>1, <1>a, SendOnce DEF Places
    <2>3. /\ queue' \in Seq(Jobs) /\ Len(queue') = Len(queue) + 1
          /\ \A k \in Jobs : Queued(k)' <=> Queued(k) \/ k = j
        BY <2>1, SendQueue
    <2>4. \A k \in Jobs : InBuild(k)' <=> InBuild(k)
        BY <1>3 DEF Send, InBuild
    <2> QED BY <1>3, <1>a, <1>b, <2>1, <2>2, <2>3, <2>4 DEF Send, HasRoom, TypeOK, Places, Lives,
               Building, DownloadsWhole
<1>4. ASSUME NEW j \in Jobs, GiveUp(j) PROVE DownloadsWhole'
    BY <1>4, <1>a, <1>b, NoneApart DEF GiveUp, CancelledWith, TypeOK, Places, Lives, Building,
       DownloadsWhole, InBuild, Queued
<1>5. ASSUME NEW j \in Jobs, Cancel(j) PROVE DownloadsWhole'
    BY <1>5, <1>a, <1>b, NoneApart DEF Cancel, CancelledWith, TypeOK, Places, Lives, Building,
       DownloadsWhole, InBuild, Queued
<1>6. ASSUME NEW j \in Jobs, Download(j) PROVE DownloadsWhole'
    BY <1>6, <1>a, <1>b, NoneApart DEF Download, TypeOK, Places, Lives, Building, DownloadsWhole,
       InBuild, Queued
<1>7. ASSUME NEW w \in Workers, TakeTask(w) PROVE DownloadsWhole'
    <2>1. queue \in Seq(Jobs) /\ queue # <<>> /\ queue' = Tail(queue)
        BY <1>7, <1>a DEF TakeTask, TypeOK
    <2>2. /\ Head(queue) \in Jobs /\ Queued(Head(queue))
          /\ queue' \in Seq(Jobs) /\ Len(queue') <= Len(queue)
          /\ (\A i, k \in DOMAIN queue : queue[i] = queue[k] => i = k)'
          /\ \A k \in Jobs : Queued(k)' <=> Queued(k) /\ k # Head(queue)
        BY <2>1, <1>a, TakeQueue DEF Places
    <2>3. \A k \in Jobs : InBuild(k)' <=> InBuild(k) \/ k = Head(queue)
        BY <1>7, <1>a, <1>b, <2>2, Taken DEF TakeTask
    <2>4. Len(queue) \in Nat /\ Len(queue') \in Nat
        BY <2>1, <2>2
    <2> QED BY <1>7, <1>a, <1>b, <2>1, <2>2, <2>3, <2>4, NoneApart DEF TakeTask, TypeOK, Places,
               Lives, Building, DownloadsWhole
<1>8. ASSUME NEW w \in Workers, Leave(w) PROVE DownloadsWhole'
    BY <1>8, <1>a, <1>b, NoneApart DEF Leave, TypeOK, Places, Lives, Building, DownloadsWhole,
       InBuild, Queued
<1>9. ASSUME NEW w \in Workers, CreateTemp(w) PROVE DownloadsWhole'
    BY <1>9, <1>a, <1>b, NoneApart DEF CreateTemp, Mishap, TypeOK, Places, Lives, Building,
       DownloadsWhole, InBuild, Queued
<1>10. ASSUME NEW w \in Workers, WriteEntry(w) PROVE DownloadsWhole'
    BY <1>10, <1>a, <1>b, NoneApart DEF WriteEntry, Unwritten, TypeOK, Places, Lives, Building,
       DownloadsWhole, InBuild, Queued
<1>11. ASSUME NEW w \in Workers, WriteFails(w) PROVE DownloadsWhole'
    BY <1>11, <1>a, <1>b, NoneApart DEF WriteFails, Mishap, TypeOK, Places, Lives, Building,
       DownloadsWhole, InBuild, Queued
<1>12. ASSUME NEW w \in Workers, CloseZip(w) PROVE DownloadsWhole'
    BY <1>12, <1>a, <1>b, NoneApart DEF CloseZip, Unwritten, TypeOK, Places, Lives, Building,
       DownloadsWhole, InBuild, Queued
<1>13. ASSUME NEW w \in Workers, FinishBuild(w) PROVE DownloadsWhole'
    <2>1. task[w] \in Jobs /\ \A k \in Jobs : InBuild(k)' <=> InBuild(k) /\ k # task[w]
        BY <1>13, <1>a, <1>b, Given DEF FinishBuild
    <2>2. \A k \in Jobs : Queued(k)' <=> Queued(k)
        BY <1>13 DEF FinishBuild, Queued
    <2>3. \A k \in Jobs : k # task[w] => job'[k] = job[k]
        BY <1>13, <1>a DEF FinishBuild, TypeOK
    <2>4. job'[task[w]] # "running" /\ call' = call /\ closing' = closing /\ queue' = queue
        BY <1>13, <1>a, <2>1, NoneApart DEF FinishBuild, NextTask, Outcome, Keeps, Known, TypeOK
    <2> QED BY <1>13, <1>a, <1>b, <2>1, <2>2, <2>3, <2>4, NoneApart DEF FinishBuild, NextTask,
               Outcome, Keeps, Known, TypeOK, Places, Lives, Building, DownloadsWhole
<1>14. ASSUME NEW w \in Workers, StatFails(w) PROVE DownloadsWhole'
    <2>1. task[w] \in Jobs /\ \A k \in Jobs : InBuild(k)' <=> InBuild(k) /\ k # task[w]
        BY <1>14, <1>a, <1>b, Given DEF StatFails
    <2>2. \A k \in Jobs : Queued(k)' <=> Queued(k)
        BY <1>14 DEF StatFails, Queued
    <2>3. \A k \in Jobs : k # task[w] => job'[k] = job[k]
        BY <1>14, <1>a DEF StatFails, TypeOK
    <2>4. job'[task[w]] # "running" /\ call' = call /\ closing' = closing /\ queue' = queue
        BY <1>14, <1>a, <2>1, NoneApart DEF StatFails, NextTask, Mishap, Known, TypeOK
    <2> QED BY <1>14, <1>a, <1>b, <2>1, <2>2, <2>3, <2>4, NoneApart DEF StatFails, NextTask,
               Mishap, Known, TypeOK, Places, Lives, Building, DownloadsWhole
<1>15. ASSUME Cleanup PROVE DownloadsWhole'
    BY <1>15, <1>a, <1>b, NoneApart DEF Cleanup, Collected, Known, TypeOK, Places, Lives, Building,
       DownloadsWhole, InBuild, Queued
<1>16. ASSUME StartClose PROVE DownloadsWhole'
    BY <1>16, <1>a, <1>b, NoneApart DEF StartClose, TypeOK, Places, Lives, Building,
       DownloadsWhole, InBuild, Queued
<1>17. ASSUME CancelAll PROVE DownloadsWhole'
    BY <1>17, <1>a, <1>b, NoneApart DEF CancelAll, Known, TypeOK, Places, Lives, Building,
       DownloadsWhole, InBuild, Queued
<1>18. ASSUME FinishClose PROVE DownloadsWhole'
    BY <1>18, <1>a, <1>b, NoneApart DEF FinishClose, Collected, TypeOK, Places, Lives, Building,
       DownloadsWhole, InBuild, Queued
<1>19. ASSUME Restart PROVE DownloadsWhole'
    <2>1. /\ queue' \in Seq(Jobs) /\ Len(queue') = 0 /\ DOMAIN queue' = {}
          /\ \A j \in Jobs : ~Queued(j)' /\ ~InBuild(j)'
        BY <1>19, Emptied DEF Restart
    <2> QED BY <1>19, <1>a, <1>b, <2>1, NoneApart DEF Restart, Mishap, TypeOK, Places, Lives,
               Building, DownloadsWhole
<1>20. CASE UNCHANGED vars
    BY <1>20, <1>a DEF TypeOK, Places, Lives, Building, DownloadsWhole, InBuild, Queued
<1> QED BY <1>1, <1>2, <1>3, <1>4, <1>5, <1>6, <1>7, <1>8, <1>9, <1>10,
          <1>11, <1>12, <1>13, <1>14, <1>15, <1>16, <1>17, <1>18, <1>19, <1>20
       DEF Next, Creating, Working, Closing

-----------------------------------------------------------------------------
(* Theorems                                                                 *)

LEMMA InitInv == Init => Inv
<1> SUFFICES ASSUME Init PROVE Inv
    OBVIOUS
<1>1. TypeOK
    BY ArchiveAssumption, FS_CardinalityType DEF Init, TypeOK
<1>2. Places /\ Lives /\ Building
    BY NoneApart DEF Init, Places, Lives, Building, Queued, InBuild
<1>3. RunningIsHeld /\ FilesAccounted /\ DownloadsWhole
    BY NoneApart DEF Init, RunningIsHeld, FilesAccounted, DownloadsWhole, Is, Known, InBuild
<1> QED BY <1>1, <1>2, <1>3 DEF Inv

\* What is known of jobs, hands and files, together, is inductive.
THEOREM Invariance == Spec => []Inv
<1>1. Inv /\ [Next]_vars => Inv'
    BY TypeStep, PlacesStep, LivesStep, BuildingStep, HeldStep, FilesStep, WholeStep DEF Inv
<1> QED BY InitInv, <1>1, PTL DEF Spec

\* Types; the channel holds at most as many tasks as there are workers.
THEOREM TypeCorrect == Spec => []TypeOK
    BY Invariance, PTL DEF Inv

\* A job that shows as running is in the creator's, the channel's or a worker's
\* hands, or its creator has given up (archive.go:164-173).
THEOREM RunningHeld == Spec => []RunningIsHeld
    BY Invariance, PTL DEF Inv

\* Temporary files belong to finished jobs or to builds; Close leaves neither
\* (archive.go:99-117).
THEOREM FilesOwned == Spec => []FilesAccounted
    BY Invariance, PTL DEF Inv

\* Complete archives and what is downloaded have every selected entry
\* (archive.go:195-237).
THEOREM Whole == Spec => []DownloadsWhole
    BY Invariance, PTL DEF Inv

\* A cancelled job never becomes complete or failed (archive.go:213).
THEOREM CancelStays == Spec => CancelSticks
<1>1. Inv /\ [Next]_vars =>
        [\A j \in Jobs : j \in cancelled /\ Is(j, "running") =>
            job'[j] \in {"running", "cancelled", None}]_vars
    <2> SUFFICES ASSUME Inv, Next, NEW j \in Jobs, j \in cancelled, job[j] = "running"
                 PROVE  job'[j] \in {"running", "cancelled", None}
        BY DEF Is, vars
    <2>1. job \in [Jobs -> Statuses \cup {None}] /\ \A k \in Jobs : call[k] = "new" => job[k] = None
        BY DEF Inv, TypeOK, Lives
    <2>2. ASSUME NEW k \in Jobs, Register(k) PROVE job'[j] = "running"
        BY <2>1, <2>2, NoneApart DEF Register
    <2>3. ASSUME NEW w \in Workers, FinishBuild(w) PROVE job'[j] \in {"running", "cancelled"}
        BY <2>1, <2>3 DEF FinishBuild, Outcome
    <2>4. ASSUME NEW w \in Workers, StatFails(w) PROVE job'[j] = "running"
        BY <2>1, <2>4 DEF StatFails
    <2>5. CASE Cleanup
        BY <2>1, <2>5 DEF Cleanup
    <2>6. CASE FinishClose \/ Restart
        BY <2>1, <2>6 DEF FinishClose, Restart
    <2>7. CASE job' = job
        BY <2>7
    <2> QED BY <2>2, <2>3, <2>4, <2>5, <2>6, <2>7
            DEF Next, RemoveObject, Creating, Send, GiveUp, Cancel, Download, Working, TakeTask,
                Leave, CreateTemp, WriteEntry, WriteFails, CloseZip, StartClose, Closing, CancelAll,
                manager, calls, builds, disk
<1> QED BY Invariance, <1>1, PTL DEF Spec, CancelSticks
=============================================================================
