------------------------ MODULE PublishedFilesProofs ------------------------
(***************************************************************************)
(* Theorems about PublishedFiles for any tree of paths, any number of      *)
(* object keys, rows, handlers and processes, and any number of crashes.   *)
(*                                                                         *)
(* TypeOK needs FramesFilled.  DirectoriesRooted is inductive by itself.   *)
(* ActiveHasObject needs to know which keys a removal may be aimed at      *)
(* (Condemned) and that no two rows or creations share a key; NothingLost  *)
(* needs that an object is gone before its row or its job is.              *)
(* RecoveryReclaims needs that what a pass has not removed is still on its *)
(* lists or in its hands (Covered), and that nothing new becomes due while *)
(* the one server that takes requests recovers (Shrinking).                *)
(***************************************************************************)
EXTENDS PublishedFiles, FiniteSetTheorems, TLAPS

Choosing == {"parent", "free"}
Placing == Choosing \cup {"object", "insert", "rename", "mkdir"}
Making == {"insert", "enqueue"}

\* What a goroutine's position says of its local variables.
FramesFilled == \A a \in Actors :
    /\ pc[a] \in Placing => frame[a].path \in Paths
    /\ pc[a] \in Choosing => frame[a].op \in {"create", "mkdir", "rename"}
    /\ pc[a] \in Making => frame[a].key \in Keys
    /\ pc[a] = "begin" => frame[a].id \in RowIds

TypeInv == TypeOK /\ FramesFilled

\* The keys a removal may be aimed at, now or later.
Unlinking == {"enqueue", "remove", "finalize", "complete"}
Condemned == {k \in Keys :
    \/ k \in jobs
    \/ \E a \in Actors : frame[a].key = k /\ pc[a] \in Unlinking
    \/ \E p \in Procs : k \in todo[p].jobs \/ \E i \in RowIds : <<i, k>> \in todo[p].tombstones}

\* Every row has an object key of its own, ...
KeysUnique == \A i, j \in RowIds :
    file[i] # None /\ file[j] # None /\ file[i].key = file[j].key => i = j

\* ... an active row's object exists and nobody is after it, ...
ActiveSafe == \A i \in RowIds :
    Active(i) => file[i].key \in objects \ Condemned

\* ... and so does the object a handler is about to insert a row for.
NewSafe == \A h \in Handlers : pc[h] = "insert" =>
    /\ frame[h].key \in objects \ Condemned
    /\ \A i \in RowIds : file[i] # None => file[i].key # frame[h].key
    /\ \A g \in Handlers : pc[g] = "insert" /\ frame[g].key = frame[h].key => g = h

ObjectInv == TypeInv /\ KeysUnique /\ ActiveSafe /\ NewSafe

\* Metadata goes after the object it names.
GoneFirst == \A a \in Actors : pc[a] \in {"finalize", "complete"} => frame[a].key \notin objects

LostInv == TypeInv /\ GoneFirst /\ NothingLost

-----------------------------------------------------------------------------
(* Types                                                                    *)

\* A goroutine between two requests.
LEMMA BlankFrame == Blank \in Frames
    BY DEF Blank, Frames

\* A goroutine that moves to l with local variables f, which l must find filled in.
LEMMA StepTyped ==
    ASSUME TypeInv, NEW a \in Actors, NEW f \in Frames, NEW l \in Points,
           frame' = [frame EXCEPT ![a] = f], pc' = [pc EXCEPT ![a] = l],
           l \in Placing => f.path \in Paths,
           l \in Choosing => f.op \in {"create", "mkdir", "rename"},
           l \in Making => f.key \in Keys,
           l = "begin" => f.id \in RowIds
    PROVE  frame' \in [Actors -> Frames] /\ pc' \in [Actors -> Points] /\ FramesFilled'
<1>1. frame \in [Actors -> Frames] /\ pc \in [Actors -> Points] /\ FramesFilled
    BY DEF TypeInv, TypeOK
<1>2. \A b \in Actors : /\ b # a => frame'[b] = frame[b] /\ pc'[b] = pc[b]
                        /\ frame'[a] = f /\ pc'[a] = l
    BY <1>1
<1>3. FramesFilled'
    <2> SUFFICES ASSUME NEW b \in Actors
                 PROVE  /\ pc'[b] \in Placing => frame'[b].path \in Paths
                        /\ pc'[b] \in Choosing => frame'[b].op \in {"create", "mkdir", "rename"}
                        /\ pc'[b] \in Making => frame'[b].key \in Keys
                        /\ pc'[b] = "begin" => frame'[b].id \in RowIds
        BY DEF FramesFilled
    <2>1. CASE b = a
        BY <2>1, <1>2
    <2>2. CASE b # a
        BY <2>2, <1>1, <1>2 DEF FramesFilled
    <2> QED BY <2>1, <2>2
<1> QED BY <1>1, <1>3

\* ... that moves without touching them.
LEMMA GotoTyped ==
    ASSUME TypeInv, NEW a \in Actors, NEW l \in Points,
           frame' = frame, Goto(a, l),
           l \in Placing => frame[a].path \in Paths,
           l \in Choosing => frame[a].op \in {"create", "mkdir", "rename"},
           l \in Making => frame[a].key \in Keys,
           l = "begin" => frame[a].id \in RowIds
    PROVE  frame' \in [Actors -> Frames] /\ pc' \in [Actors -> Points] /\ FramesFilled'
<1>1. frame' = [frame EXCEPT ![a] = frame[a]] /\ frame[a] \in Frames
    BY DEF TypeInv, TypeOK
<1> QED BY <1>1, StepTyped DEF Goto

\* ... that answers its request or goes on with its list.
LEMMA ReturnTyped ==
    ASSUME TypeInv, NEW a \in Actors, Return(a)
    PROVE  frame' \in [Actors -> Frames] /\ pc' \in [Actors -> Points] /\ FramesFilled'
<1> DEFINE l == IF a \in Handlers THEN "idle"
                ELSE IF frame[a].op = "job" THEN "scan" ELSE "scan2"
<1>1. l \in Points /\ l \notin Placing /\ l \notin Choosing /\ l \notin Making
      /\ l # "begin"
    BY DEF Points, Placing, Choosing, Making
<1>2. frame' = [frame EXCEPT ![a] = Blank] /\ pc' = [pc EXCEPT ![a] = l]
    BY DEF Return
<1> HIDE DEF l
<1> QED BY <1>1, <1>2, BlankFrame, StepTyped

\* ... that ends its recovery pass.
LEMMA EndRecoveryTyped ==
    ASSUME TypeInv, NEW p \in Procs, EndRecovery(p)
    PROVE  /\ frame' \in [Actors -> Frames] /\ pc' \in [Actors -> Points] /\ FramesFilled'
           /\ mode' \in [Procs -> {"down", "recovering", "serving"}]
           /\ todo' \in [Procs -> Todos]
<1>1. p \in Actors /\ "idle" \in Points /\ "idle" \notin Placing /\ "idle" \notin Choosing
      /\ "idle" \notin Making
    BY DEF Actors, Points, Placing, Choosing, Making
<1>2. frame' = [frame EXCEPT ![p] = Blank] /\ pc' = [pc EXCEPT ![p] = "idle"]
    BY DEF EndRecovery
<1>3. frame' \in [Actors -> Frames] /\ pc' \in [Actors -> Points] /\ FramesFilled'
    BY <1>1, <1>2, BlankFrame, StepTyped
<1>4. NoTodo \in Todos
    BY DEF NoTodo, Todos
<1>5. mode' \in [Procs -> {"down", "recovering", "serving"}]
    BY DEF EndRecovery, TypeInv, TypeOK
<1>6. todo' \in [Procs -> Todos]
    BY <1>4 DEF EndRecovery, TypeInv, TypeOK
<1> QED BY <1>3, <1>5, <1>6

\* The local variables a request or a scan starts with.
LEMMA FrameUpdates ==
    ASSUME NEW f \in Frames
    PROVE  /\ \A k \in Keys : LET g == [f EXCEPT !.key = k]
                              IN  g \in Frames /\ g.key = k /\ g.path = f.path /\ g.op = f.op
           /\ \A i \in RowIds, k \in Keys, o \in Ops :
                [Blank EXCEPT !.op = o, !.id = i, !.key = k] \in Frames
           /\ \A i \in RowIds, p \in Paths :
                [Blank EXCEPT !.op = "rmdir", !.id = i, !.path = p] \in Frames
           /\ \A k \in Keys : [Blank EXCEPT !.op = "job", !.key = k] \in Frames
    BY DEF Frames, Ops, Blank

\* The two columns of a row that are ever updated.
LEMMA RowUpdates ==
    ASSUME NEW f \in Files
    PROVE  /\ \A p \in Paths : [f EXCEPT !.path = p] \in Files
           /\ Tombstoned(f) \in Files
    BY DEF Files, Tombstoned

\* An inserted row has the shape of a row.
LEMMA InsertTyped ==
    ASSUME TypeInv, NEW p \in Paths, NEW k \in Keys, InsertFileRow(p, k)
    PROVE  file' \in [RowIds -> Files \cup {None}]
<1>1. [path |-> p, key |-> k, state |-> "active"] \in Files
    BY DEF Files
<1> QED BY <1>1 DEF InsertFileRow, TypeInv, TypeOK

\* A recovery pass's lists, replaced one at a time.
LEMMA TodoUpdates ==
    ASSUME NEW t \in Todos
    PROVE  /\ \A S \in SUBSET Keys : [t EXCEPT !.jobs = S] \in Todos
           /\ \A S \in SUBSET (RowIds \X Keys) : [t EXCEPT !.tombstones = S] \in Todos
    BY DEF Todos

\* Every step keeps the shapes: one case per action.
LEMMA TypeInvStep == TypeInv /\ [Next]_vars => TypeInv'
<1> SUFFICES ASSUME TypeInv, [Next]_vars
             PROVE  TypeInv'
    OBVIOUS
<1> DEFINE Local == frame' \in [Actors -> Frames] /\ pc' \in [Actors -> Points] /\ FramesFilled'
<1>0. TypeOK /\ FramesFilled
    BY DEF TypeInv
<1>1. ASSUME NEW h \in Handlers, BeginCreate(h) PROVE TypeInv'
    <2>1. PICK p \in Paths, op \in {"create", "mkdir"} :
              frame' = [frame EXCEPT ![h] = [Blank EXCEPT !.op = op, !.path = p]]
        BY <1>1 DEF BeginCreate
    <2> DEFINE g == [Blank EXCEPT !.op = op, !.path = p]
    <2>2. g \in Frames /\ g.op = op /\ g.path = p
        BY <2>1 DEF Blank, Frames, Ops
    <2>3. frame' = [frame EXCEPT ![h] = g] /\ pc' = [pc EXCEPT ![h] = "parent"]
        BY <1>1, <2>1 DEF BeginCreate, Goto
    <2> HIDE DEF g
    <2>4. Local
        BY <2>1, <2>2, <2>3, StepTyped DEF Actors, Points, Placing, Choosing, Making
    <2> QED BY <1>0, <1>1, <2>4 DEF TypeInv, TypeOK, BeginCreate, tables, bounds
<1>2. ASSUME NEW h \in Handlers, BeginRename(h) PROVE TypeInv'
    <2>1. PICK i \in RowIds, p \in Paths :
              /\ Active(i)
              /\ frame' = [frame EXCEPT ![h] = [Blank EXCEPT !.op = "rename", !.id = i,
                                                  !.old = file[i].path, !.path = p]]
        BY <1>2 DEF BeginRename
    <2> DEFINE g == [Blank EXCEPT !.op = "rename", !.id = i, !.old = file[i].path, !.path = p]
    <2>2. file[i].path \in Paths
        BY <1>0, <2>1 DEF TypeOK, Active, Files
    <2>3. g \in Frames /\ g.op = "rename" /\ g.path = p
        BY <2>1, <2>2 DEF Blank, Frames, Ops
    <2>4. frame' = [frame EXCEPT ![h] = g] /\ pc' = [pc EXCEPT ![h] = "free"]
        BY <1>2, <2>1 DEF BeginRename, Goto
    <2> HIDE DEF g
    <2>5. Local
        BY <2>1, <2>3, <2>4, StepTyped DEF Actors, Points, Placing, Choosing, Making
    <2> QED BY <1>0, <1>2, <2>5 DEF TypeInv, TypeOK, BeginRename, tables, bounds
<1>3. ASSUME NEW h \in Handlers, CheckParent(h) PROVE TypeInv'
    <2> DEFINE l == IF frame[h].op = "rename" THEN "rename" ELSE "free"
    <2>1. ASSUME frame' = frame /\ Goto(h, l) PROVE Local
        BY <1>0, <1>3, <2>1, GotoTyped DEF CheckParent, Actors, FramesFilled, Points, Placing, Choosing, Making
    <2>2. ASSUME Return(h) PROVE Local
        BY <2>2, ReturnTyped DEF Actors
    <2>3. Local
        BY <1>3, <2>1, <2>2 DEF CheckParent
    <2> QED BY <1>0, <1>3, <2>3 DEF TypeInv, TypeOK, CheckParent, tables, bounds
<1>4. ASSUME NEW h \in Handlers, CheckFree(h) PROVE TypeInv'
    <2> DEFINE l == CASE frame[h].op = "create" -> "object"
                      [] frame[h].op = "mkdir" -> "mkdir"
                      [] frame[h].op = "rename" -> "parent"
    <2>0. /\ frame[h].op \in {"create", "mkdir", "rename"}
          /\ l = IF frame[h].op = "create" THEN "object"
                 ELSE IF frame[h].op = "mkdir" THEN "mkdir" ELSE "parent"
        BY <1>0, <1>4 DEF CheckFree, Actors, FramesFilled, Choosing
    <2>1. ASSUME frame' = frame /\ Goto(h, l) PROVE Local
        <3>1. l \in Points /\ l \notin Making /\ l # "begin" /\ frame[h].path \in Paths
            BY <1>0, <2>0, <1>4 DEF CheckFree, Actors, FramesFilled, Points, Placing, Choosing, Making
        <3> HIDE DEF l
        <3> QED BY <2>0, <2>1, <3>1, GotoTyped DEF Actors
    <2>2. ASSUME Return(h) PROVE Local
        BY <2>2, ReturnTyped DEF Actors
    <2>3. Local
        BY <1>4, <2>1, <2>2 DEF CheckFree
    <2> QED BY <1>0, <1>4, <2>3 DEF TypeInv, TypeOK, CheckFree, tables, bounds
<1>5. ASSUME NEW h \in Handlers, CreateObject(h) PROVE TypeInv'
    <2>1. PICK k \in FreshKeys : /\ objects' = objects \cup {k}
                                /\ frame' = [frame EXCEPT ![h].key = k]
        BY <1>5 DEF CreateObject
    <2> DEFINE g == [frame[h] EXCEPT !.key = k]
    <2>2. k \in Keys /\ frame[h] \in Frames /\ h \in Actors
        BY <1>0, <2>1 DEF FreshKeys, TypeOK, Actors
    <2>3. g \in Frames /\ g.key = k /\ g.path = frame[h].path
        BY <2>2, FrameUpdates
    <2>4. frame' = [frame EXCEPT ![h] = g] /\ pc' = [pc EXCEPT ![h] = "insert"]
        BY <1>0, <2>1, <1>5 DEF CreateObject, Goto, TypeOK
    <2>5. frame[h].path \in Paths
        BY <1>0, <1>5, <2>2 DEF CreateObject, FramesFilled, Placing
    <2> HIDE DEF g
    <2>6. Local
        BY <2>2, <2>3, <2>4, <2>5, StepTyped DEF Points, Placing, Choosing, Making
    <2> QED BY <1>0, <1>5, <2>1, <2>2, <2>6 DEF TypeInv, TypeOK, CreateObject, tables, bounds
<1>6. ASSUME NEW h \in Handlers, CreateContentFails(h) PROVE TypeInv'
    <2>1. Local
        BY <1>6, ReturnTyped DEF CreateContentFails, Actors
    <2>2. objects' \subseteq Keys /\ faults' \in Nat
        BY <1>0, <1>6 DEF CreateContentFails, FreshKeys, Fault, TypeOK
    <2> QED BY <1>0, <1>6, <2>1, <2>2 DEF TypeInv, TypeOK, CreateContentFails, tables
<1>7. ASSUME NEW h \in Handlers, CreateFile(h) PROVE TypeInv'
    <2>1. Local
        BY <1>7, ReturnTyped DEF CreateFile, Actors
    <2>2. frame[h].path \in Paths /\ frame[h].key \in Keys
        BY <1>0, <1>7 DEF CreateFile, Actors, FramesFilled, Placing, Making
    <2>3. file' \in [RowIds -> Files \cup {None}]
        BY <1>7, <2>2, InsertTyped DEF CreateFile
    <2> QED BY <1>0, <1>7, <2>1, <2>3 DEF TypeInv, TypeOK, CreateFile, bounds
<1>8. ASSUME NEW h \in Handlers, CreateFileFails(h) PROVE TypeInv'
    <2>1. Local
        BY <1>0, <1>8, GotoTyped DEF CreateFileFails, Actors, Points, Placing, Choosing, Making, FramesFilled
    <2> QED BY <1>0, <1>8, <2>1 DEF TypeInv, TypeOK, CreateFileFails, tables, bounds
<1>9. ASSUME NEW h \in Handlers, EnqueueObjectCleanup(h) PROVE TypeInv'
    <2>1. Local
        BY <1>0, <1>9, GotoTyped DEF EnqueueObjectCleanup, Actors, Points, Placing, Choosing, Making
    <2>2. frame[h].key \in Keys
        BY <1>0, <1>9 DEF EnqueueObjectCleanup, Actors, FramesFilled, Making
    <2> QED BY <1>0, <1>9, <2>1, <2>2 DEF TypeInv, TypeOK, EnqueueObjectCleanup, bounds
<1>10. ASSUME NEW h \in Handlers, EnqueueFails(h) PROVE TypeInv'
    <2>1. Local
        BY <1>10, ReturnTyped DEF EnqueueFails, Actors
    <2> QED BY <1>0, <1>10, <2>1 DEF TypeInv, TypeOK, EnqueueFails, Fault, tables
<1>11. ASSUME NEW h \in Handlers, CreateDirectory(h) PROVE TypeInv'
    <2>1. Local
        BY <1>11, ReturnTyped DEF CreateDirectory, Actors
    <2>2. frame[h].path \in Paths
        BY <1>0, <1>11 DEF CreateDirectory, Actors, FramesFilled, Placing
    <2>3. dir' \in [RowIds -> Paths \cup {None}]
        BY <1>0, <1>11, <2>2 DEF CreateDirectory, TypeOK
    <2> QED BY <1>0, <1>11, <2>1, <2>3 DEF TypeInv, TypeOK, CreateDirectory, bounds
<1>12. ASSUME NEW h \in Handlers, UploadPublishes(h) PROVE TypeInv'
    <2>1. PICK p \in Paths, k \in FreshKeys : InsertFileRow(p, k) /\ objects' = objects \cup {k}
        BY <1>12 DEF UploadPublishes
    <2>2. k \in Keys
        BY <2>1 DEF FreshKeys
    <2>3. file' \in [RowIds -> Files \cup {None}]
        BY <2>1, <2>2, InsertTyped
    <2>4. Local
        BY <1>0, <1>12 DEF UploadPublishes, TypeOK, FramesFilled
    <2> QED BY <1>0, <1>12, <2>1, <2>2, <2>3, <2>4 DEF TypeInv, TypeOK, UploadPublishes, bounds
<1>13. ASSUME NEW h \in Handlers, RenameFile(h) PROVE TypeInv'
    <2>1. Local
        BY <1>13, ReturnTyped DEF RenameFile, Actors
    <2> DEFINE i == frame[h].id
    <2>2. frame[h].path \in Paths /\ i \in RowIds \cup {None}
        BY <1>0, <1>13 DEF RenameFile, Actors, FramesFilled, Placing, TypeOK, Frames
    <2>3. i \in RowIds => file[i] \in Files
        BY <1>0, <1>13 DEF RenameFile, Active, TypeOK
    <2>4. i \in RowIds => [file[i] EXCEPT !.path = frame[h].path] \in Files
        BY <2>2, <2>3, RowUpdates
    <2>5. file' = [file EXCEPT ![i] = [file[i] EXCEPT !.path = frame[h].path]]
        BY <1>13 DEF RenameFile
    <2> HIDE DEF i
    <2>6. file' \in [RowIds -> Files \cup {None}]
        BY <1>0, <2>4, <2>5 DEF TypeOK
    <2> QED BY <1>0, <1>13, <2>1, <2>6 DEF TypeInv, TypeOK, RenameFile, bounds
<1>14. ASSUME NEW h \in Handlers, BeginDelete(h) PROVE TypeInv'
    <2>1. PICK i \in RowIds : /\ Active(i)
                             /\ frame' = [frame EXCEPT ![h] = [Blank EXCEPT !.op = "delete",
                                                                !.id = i, !.key = file[i].key]]
        BY <1>14 DEF BeginDelete
    <2> DEFINE g == [Blank EXCEPT !.op = "delete", !.id = i, !.key = file[i].key]
    <2>2. file[i].key \in Keys
        BY <1>0, <2>1 DEF TypeOK, Active, Files
    <2>3. g \in Frames /\ g.id = i
        BY <2>1, <2>2 DEF Blank, Frames, Ops
    <2>4. frame' = [frame EXCEPT ![h] = g] /\ pc' = [pc EXCEPT ![h] = "begin"]
        BY <1>14, <2>1 DEF BeginDelete, Goto
    <2> HIDE DEF g
    <2>5. Local
        BY <2>3, <2>4, StepTyped DEF Actors, Points, Placing, Choosing, Making
    <2> QED BY <1>0, <1>14, <2>5 DEF TypeInv, TypeOK, BeginDelete, tables, bounds
<1>15. ASSUME NEW h \in Handlers, BeginFileDelete(h) PROVE TypeInv'
    <2>1. Local
        BY <1>0, <1>15, GotoTyped DEF BeginFileDelete, Actors, Points, Placing, Choosing, Making
    <2> DEFINE i == frame[h].id
    <2>2. i \in RowIds => Tombstoned(file[i]) \in Files
        BY <1>0, <1>15, RowUpdates DEF BeginFileDelete, Active, TypeOK
    <2>3. file' = [file EXCEPT ![i] = Tombstoned(file[i])]
        BY <1>15 DEF BeginFileDelete
    <2> HIDE DEF i
    <2>4. file' \in [RowIds -> Files \cup {None}]
        BY <1>0, <2>2, <2>3 DEF TypeOK
    <2> QED BY <1>0, <1>15, <2>1, <2>4 DEF TypeInv, TypeOK, BeginFileDelete, bounds
<1>16. ASSUME NEW h \in Handlers, BeginRmdir(h) PROVE TypeInv'
    <2>1. PICK i \in RowIds : /\ dir[i] # None
                             /\ frame' = [frame EXCEPT ![h] = [Blank EXCEPT !.op = "rmdir",
                                                                !.id = i, !.path = dir[i]]]
        BY <1>16 DEF BeginRmdir
    <2> DEFINE g == [Blank EXCEPT !.op = "rmdir", !.id = i, !.path = dir[i]]
    <2>2. dir[i] \in Paths
        BY <1>0, <2>1 DEF TypeOK
    <2>3. g \in Frames
        BY <2>2, BlankFrame, FrameUpdates
    <2>4. frame' = [frame EXCEPT ![h] = g] /\ pc' = [pc EXCEPT ![h] = "empty"]
        BY <1>16, <2>1 DEF BeginRmdir, Goto
    <2> HIDE DEF g
    <2>5. Local
        BY <2>3, <2>4, StepTyped DEF Actors, Points, Placing, Choosing, Making
    <2> QED BY <1>0, <1>16, <2>5 DEF TypeInv, TypeOK, BeginRmdir, tables, bounds
<1>17. ASSUME NEW h \in Handlers, DirectoryEmpty(h) PROVE TypeInv'
    <2>1. ASSUME frame' = frame /\ Goto(h, "rmdir") PROVE Local
        BY <1>0, <1>17, <2>1, GotoTyped DEF Actors, Points, Placing, Choosing, Making
    <2>2. ASSUME Return(h) PROVE Local
        BY <2>2, ReturnTyped DEF Actors
    <2>3. Local
        BY <1>17, <2>1, <2>2 DEF DirectoryEmpty
    <2> QED BY <1>0, <1>17, <2>3 DEF TypeInv, TypeOK, DirectoryEmpty, tables, bounds
<1>18. ASSUME NEW h \in Handlers, DeleteDirectory(h) PROVE TypeInv'
    <2>1. Local
        BY <1>18, ReturnTyped DEF DeleteDirectory, Actors
    <2> QED BY <1>0, <1>18, <2>1 DEF TypeInv, TypeOK, DeleteDirectory, bounds
<1>19. ASSUME NEW a \in Actors, RemoveObject(a) PROVE TypeInv'
    <2>1. ASSUME frame' = frame /\ Goto(a, IF frame[a].op \in {"create", "job"} THEN "complete" ELSE "finalize")
         PROVE  Local
        BY <1>0, <1>19, <2>1, GotoTyped DEF Points, Placing, Choosing, Making
    <2>2. ASSUME Return(a) PROVE Local
        BY <2>2, ReturnTyped
    <2>3. Local
        BY <1>19, <2>1, <2>2 DEF RemoveObject
    <2>4. objects' \subseteq objects
        BY <1>19 DEF RemoveObject
    <2> QED BY <1>0, <1>19, <2>3, <2>4 DEF TypeInv, TypeOK, RemoveObject, tables, bounds
<1>20. ASSUME NEW a \in Actors, RemoveFails(a) PROVE TypeInv'
    <2>1. Local
        BY <1>20, ReturnTyped DEF RemoveFails
    <2>2. objects' \subseteq objects /\ faults' \in Nat
        BY <1>0, <1>20 DEF RemoveFails, Fault, TypeOK
    <2> QED BY <1>0, <1>20, <2>1, <2>2 DEF TypeInv, TypeOK, RemoveFails, tables
<1>21. ASSUME NEW a \in Actors, FinalizeFileDelete(a) PROVE TypeInv'
    <2>1. Local
        BY <1>21, ReturnTyped DEF FinalizeFileDelete, Actors
    <2> QED BY <1>0, <1>21, <2>1 DEF TypeInv, TypeOK, FinalizeFileDelete, bounds
<1>22. ASSUME NEW a \in Actors, CompleteObjectCleanup(a) PROVE TypeInv'
    <2>1. Local
        BY <1>22, ReturnTyped DEF CompleteObjectCleanup, Actors
    <2> QED BY <1>0, <1>22, <2>1 DEF TypeInv, TypeOK, CompleteObjectCleanup, bounds
<1>23. ASSUME NEW a \in Actors, Abandon(a) PROVE TypeInv'
    <2>1. CASE Return(a) /\ UNCHANGED <<mode, todo>>
        BY <1>0, <1>23, <2>1, ReturnTyped DEF Abandon, TypeInv, TypeOK, tables, bounds
    <2>2. CASE a \in Procs /\ EndRecovery(a)
        BY <1>0, <1>23, <2>2, EndRecoveryTyped DEF Abandon, TypeInv, TypeOK, tables, bounds
    <2> QED BY <1>23, <2>1, <2>2 DEF Abandon
<1>24. ASSUME NEW p \in Procs, Boot(p) PROVE TypeInv'
    <2>1. Local
        BY <1>0, <1>24, GotoTyped DEF Boot, Actors, Points, Placing, Choosing, Making, FramesFilled
    <2> QED BY <1>0, <1>24, <2>1 DEF TypeInv, TypeOK, Boot, tables, bounds
<1>25. ASSUME NEW p \in Procs, ObjectCleanupJobs(p) PROVE TypeInv'
    <2>1. Local
        BY <1>0, <1>25, GotoTyped DEF ObjectCleanupJobs, Actors, Points, Placing, Choosing, Making
    <2>2. PICK S \in SUBSET jobs : todo' = [todo EXCEPT ![p].jobs = S]
        BY <1>25 DEF ObjectCleanupJobs
    <2>3. [todo[p] EXCEPT !.jobs = S] \in Todos
        BY <1>0, <2>2, TodoUpdates DEF TypeOK
    <2>4. todo' \in [Procs -> Todos]
        BY <1>0, <2>2, <2>3 DEF TypeOK
    <2> QED BY <1>0, <1>25, <2>1, <2>4 DEF TypeInv, TypeOK, ObjectCleanupJobs, tables, bounds
<1>26. ASSUME NEW p \in Procs, ScanJob(p) PROVE TypeInv'
    <2>1. ASSUME \E k \in todo[p].jobs :
                  /\ todo' = [todo EXCEPT ![p].jobs = @ \ {k}]
                  /\ frame' = [frame EXCEPT ![p] = [Blank EXCEPT !.op = "job", !.key = k]]
                  /\ Goto(p, "remove")
         PROVE  Local /\ todo' \in [Procs -> Todos]
        <3>1. PICK k \in todo[p].jobs :
                  /\ todo' = [todo EXCEPT ![p] = [todo[p] EXCEPT !.jobs = todo[p].jobs \ {k}]]
                  /\ frame' = [frame EXCEPT ![p] = [Blank EXCEPT !.op = "job", !.key = k]]
                  /\ pc' = [pc EXCEPT ![p] = "remove"]
            BY <2>1 DEF Goto
        <3>2. todo[p] \in Todos /\ todo[p].jobs \in SUBSET Keys
            BY <1>0 DEF TypeOK, Todos
        <3> DEFINE g == [Blank EXCEPT !.op = "job", !.key = k]
        <3>3. g \in Frames
            BY <3>1, <3>2, BlankFrame, FrameUpdates
        <3> HIDE DEF g
        <3>4. Local
            BY <3>1, <3>3, StepTyped DEF Actors, Points, Placing, Choosing, Making, g
        <3>5. [todo[p] EXCEPT !.jobs = todo[p].jobs \ {k}] \in Todos
            BY <3>2, TodoUpdates
        <3>6. todo' \in [Procs -> Todos]
            BY <1>0, <3>1, <3>5 DEF TypeOK
        <3> QED BY <3>4, <3>6
    <2>2. ASSUME todo[p].jobs = {} /\ Goto(p, "tombstones") /\ UNCHANGED <<frame, todo>>
         PROVE  Local /\ todo' \in [Procs -> Todos]
        BY <1>0, <2>2, GotoTyped DEF Actors, TypeOK, Points, Placing, Choosing, Making
    <2>3. Local /\ todo' \in [Procs -> Todos]
        BY <1>26, <2>1, <2>2 DEF ScanJob
    <2> QED BY <1>0, <1>26, <2>3 DEF TypeInv, TypeOK, ScanJob, tables, bounds
<1>27. ASSUME NEW p \in Procs, DeletingFiles(p) PROVE TypeInv'
    <2>1. Local
        BY <1>0, <1>27, GotoTyped DEF DeletingFiles, Actors, Points, Placing, Choosing, Making
    <2> DEFINE all == {<<i, file[i].key>> : i \in {j \in RowIds : Tombstone(j)}}
    <2>2. PICK S \in SUBSET all : todo' = [todo EXCEPT ![p].tombstones = S]
        BY <1>27 DEF DeletingFiles
    <2>3. all \subseteq RowIds \X Keys
        BY <1>0 DEF TypeOK, Tombstone, Files
    <2> HIDE DEF all
    <2>4. [todo[p] EXCEPT !.tombstones = S] \in Todos
        BY <1>0, <2>2, <2>3, TodoUpdates DEF TypeOK
    <2>5. todo' \in [Procs -> Todos]
        BY <1>0, <2>2, <2>4 DEF TypeOK
    <2> QED BY <1>0, <1>27, <2>1, <2>5 DEF TypeInv, TypeOK, DeletingFiles, tables, bounds
<1>28. ASSUME NEW p \in Procs, ScanTombstone(p) PROVE TypeInv'
    <2>1. PICK t \in todo[p].tombstones :
              /\ todo' = [todo EXCEPT ![p] = [todo[p] EXCEPT !.tombstones = todo[p].tombstones \ {t}]]
              /\ frame' = [frame EXCEPT ![p] =
                              [Blank EXCEPT !.op = "tombstone", !.id = t[1], !.key = t[2]]]
        BY <1>28 DEF ScanTombstone
    <2>2. todo[p] \in Todos /\ todo[p].tombstones \in SUBSET (RowIds \X Keys)
        BY <1>0 DEF TypeOK, Todos
    <2> DEFINE g == [Blank EXCEPT !.op = "tombstone", !.id = t[1], !.key = t[2]]
    <2>3. t[1] \in RowIds /\ t[2] \in Keys
        BY <2>1, <2>2
    <2>4. g \in Frames
        BY <2>3, BlankFrame, FrameUpdates DEF Ops
    <2>5. frame' = [frame EXCEPT ![p] = g] /\ pc' = [pc EXCEPT ![p] = "remove"]
        BY <1>28, <2>1 DEF ScanTombstone, Goto
    <2> HIDE DEF g
    <2>6. Local
        BY <2>4, <2>5, StepTyped DEF Actors, Points, Placing, Choosing, Making
    <2>7. [todo[p] EXCEPT !.tombstones = todo[p].tombstones \ {t}] \in Todos
        BY <2>2, TodoUpdates
    <2>8. todo' \in [Procs -> Todos]
        BY <1>0, <2>1, <2>7 DEF TypeOK
    <2> QED BY <1>0, <1>28, <2>6, <2>8 DEF TypeInv, TypeOK, ScanTombstone, tables, bounds
<1>29. ASSUME NEW p \in Procs, FinishRecovery(p) PROVE TypeInv'
    <2> QED BY <1>0, <1>29, EndRecoveryTyped DEF TypeInv, TypeOK, FinishRecovery, tables, bounds
<1>30. ASSUME NEW p \in Procs, Crash(p) PROVE TypeInv'
    <2>1. "idle" \in Points /\ "idle" \notin Placing /\ "idle" \notin Choosing /\ "idle" \notin Making
        BY DEF Points, Placing, Choosing, Making
    <2>2. /\ pc' = [a \in Actors |-> IF ProcOf(a) = p THEN "idle" ELSE pc[a]]
          /\ frame' = [a \in Actors |-> IF ProcOf(a) = p THEN Blank ELSE frame[a]]
        BY <1>30 DEF Crash
    <2>3. Local
        BY <1>0, <2>1, <2>2, BlankFrame DEF TypeOK, FramesFilled
    <2>4. NoTodo \in Todos
        BY DEF NoTodo, Todos
    <2>5. todo' \in [Procs -> Todos]
        BY <1>0, <1>30, <2>4 DEF Crash, TypeOK
    <2> QED BY <1>0, <1>30, <2>3, <2>5 DEF TypeInv, TypeOK, Crash, tables
<1>31. ASSUME UNCHANGED vars PROVE TypeInv'
    BY <1>0, <1>31 DEF TypeInv, TypeOK, FramesFilled, vars
<1> QED BY <1>1, <1>2, <1>3, <1>4, <1>5, <1>6, <1>7, <1>8, <1>9, <1>10, <1>11,
          <1>12, <1>13, <1>14, <1>15, <1>16, <1>17, <1>18, <1>19, <1>20, <1>21,
          <1>22, <1>23, <1>24, <1>25, <1>26, <1>27, <1>28, <1>29, <1>30, <1>31
       DEF Next, Creating, Changing, Removing, Recovering

\* The tables are empty and every process is down at the start.
LEMMA TypeInvInit == Init => TypeInv
    BY BlankFrame DEF Init, TypeInv, TypeOK, FramesFilled, Points, Placing, Choosing, Making,
       NoTodo, Todos

\* 001_initial.sql, 006_directories.sql, 007_published_lifecycle.sql: rows, jobs and
\* the handlers' own variables keep their shapes.
THEOREM PublishedTypes == Spec => []TypeOK
<1>1. Init => TypeInv
    BY TypeInvInit
<1>2. TypeInv /\ [Next]_vars => TypeInv'
    BY TypeInvStep
<1>3. TypeInv => TypeOK
    BY DEF TypeInv
<1> QED BY <1>1, <1>2, <1>3, PTL DEF Spec

-----------------------------------------------------------------------------
(* Directories                                                              *)

\* Only mkdir and rmdir touch the directories table.
LEMMA DirectoryWriters ==
    ASSUME [Next]_vars
    PROVE  dir' = dir \/ \E h \in Handlers : CreateDirectory(h) \/ DeleteDirectory(h)
<1>1. ASSUME NEW h \in Handlers, Creating(h) PROVE dir' = dir \/ CreateDirectory(h)
    BY <1>1 DEF Creating, BeginCreate, CheckParent, CheckFree, CreateObject, CreateFile,
       CreateContentFails, CreateFileFails, EnqueueObjectCleanup, EnqueueFails, UploadPublishes, tables
<1>2. ASSUME NEW h \in Handlers, Changing(h) PROVE dir' = dir \/ DeleteDirectory(h)
    BY <1>2 DEF Changing, BeginRename, RenameFile, BeginDelete, BeginFileDelete, BeginRmdir,
       DirectoryEmpty, tables
<1>3. ASSUME NEW a \in Actors, Removing(a) PROVE dir' = dir
    BY <1>3 DEF Removing, RemoveObject, RemoveFails, FinalizeFileDelete,
       CompleteObjectCleanup, Abandon, tables
<1>4. ASSUME NEW p \in Procs, Recovering(p) PROVE dir' = dir
    BY <1>4 DEF Recovering, Boot, ObjectCleanupJobs, ScanJob, DeletingFiles, ScanTombstone,
       FinishRecovery, Crash, tables
<1>5. ASSUME UNCHANGED vars PROVE dir' = dir
    BY <1>5 DEF vars
<1> QED BY <1>1, <1>2, <1>3, <1>4, <1>5 DEF Next

\* 006_directories.sql and 008_published_parent_invariant.sql: however creations and
\* deletions of several processes interleave, no directory is left without one that
\* the triggers take for its ancestor.
THEOREM DirectoriesStayRooted == Spec => []DirectoriesRooted
<1> DEFINE Inv == TypeInv /\ DirectoriesRooted
<1>1. Init => Inv
    BY TypeInvInit DEF Init, DirectoriesRooted
<1>2. Inv /\ [Next]_vars => Inv'
    <2> SUFFICES ASSUME TypeInv, DirectoriesRooted, [Next]_vars
                 PROVE  DirectoriesRooted'
        BY TypeInvStep
    <2> USE DEF DirectoriesRooted, DirPaths
    <2>0. dir \in [RowIds -> Paths \cup {None}]
        BY DEF TypeInv, TypeOK
    <2>1. CASE dir' = dir
        BY <2>1
    <2>2. ASSUME NEW h \in Handlers, CreateDirectory(h) PROVE DirectoriesRooted'
        <3>1. PICK i \in RowIds : dir[i] = None /\ dir' = [dir EXCEPT ![i] = frame[h].path]
            BY <2>2 DEF CreateDirectory, NextId
        <3>2. DirPaths \subseteq DirPaths'
            BY <2>0, <3>1
        <3>3. ParentExists(frame[h].path)
            BY <2>2 DEF CreateDirectory
        <3>4. ASSUME NEW j \in RowIds, dir'[j] # None
              PROVE  Parent[dir'[j]] = Top \/ \E q \in Like[dir'[j]] : q \in DirPaths'
            <4>1. CASE j = i
                BY <2>0, <3>1, <3>2, <3>3, <4>1 DEF ParentExists
            <4>2. CASE j # i
                BY <2>0, <3>1, <3>2, <3>4, <4>2
            <4> QED BY <4>1, <4>2
        <3> QED BY <3>4
    <2>3. ASSUME NEW h \in Handlers, DeleteDirectory(h) PROVE DirectoriesRooted'
        <3> DEFINE i == frame[h].id
        <3>1. UnlikeBelow(dir[i]) /\ dir' = [dir EXCEPT ![i] = None]
            BY <2>3 DEF DeleteDirectory
        <3> HIDE DEF i
        <3>2. ASSUME NEW j \in RowIds, dir'[j] # None
              PROVE  Parent[dir'[j]] = Top \/ \E q \in Like[dir'[j]] : q \in DirPaths'
            <4>1. j # i /\ dir'[j] = dir[j] /\ dir[j] # None
                BY <2>0, <3>1, <3>2
            <4>2. dir[i] \notin Like[dir[j]]
                BY <3>1, <4>1 DEF UnlikeBelow
            <4>3. ASSUME NEW q \in Like[dir[j]], q \in DirPaths PROVE q \in DirPaths'
                <5>1. PICK k \in RowIds : dir[k] # None /\ dir[k] = q
                    BY <4>3
                <5>2. k # i
                    BY <4>2, <4>3, <5>1
                <5> QED BY <2>0, <3>1, <5>1, <5>2
            <4> QED BY <4>1, <4>3
        <3> QED BY <3>2
    <2> QED BY <2>1, <2>2, <2>3, DirectoryWriters
<1>3. Inv => DirectoriesRooted
    OBVIOUS
<1> QED BY <1>1, <1>2, <1>3, PTL DEF Spec

-----------------------------------------------------------------------------
(* Objects                                                                  *)

\* A step keeps ObjectInv if rows, creations and removals stem from those before it:
\* what it unlinks was condemned, and what it condemns no row or creation has.
LEMMA ObjectStep ==
    ASSUME ObjectInv, TypeInv',
           \A i \in RowIds : file'[i] # None =>
               /\ file[i] # None /\ file'[i].key = file[i].key
               /\ file'[i].state = "active" => file[i].state = "active",
           \A h \in Handlers : pc'[h] = "insert" =>
               pc[h] = "insert" /\ frame'[h].key = frame[h].key,
           objects \ objects' \subseteq Condemned,
           \A k \in Condemned' \ Condemned :
               /\ \A i \in RowIds : Active(i)' => file'[i].key # k
               /\ \A h \in Handlers : pc'[h] = "insert" => frame'[h].key # k
    PROVE  ObjectInv'
<1>1. KeysUnique'
    BY DEF ObjectInv, KeysUnique
<1>2. ActiveSafe'
    <2> SUFFICES ASSUME NEW i \in RowIds, Active(i)'
                 PROVE  file'[i].key \in objects' \ Condemned'
        BY DEF ActiveSafe, Active
    <2>1. Active(i) /\ file'[i].key = file[i].key
        BY DEF Active
    <2>2. file[i].key \in objects \ Condemned
        BY <2>1 DEF ObjectInv, ActiveSafe
    <2> QED BY <2>1, <2>2
<1>3. NewSafe'
    <2> SUFFICES ASSUME NEW h \in Handlers, pc'[h] = "insert"
                 PROVE  /\ frame'[h].key \in objects' \ Condemned'
                        /\ \A i \in RowIds : file'[i] # None => file'[i].key # frame'[h].key
                        /\ \A g \in Handlers :
                              pc'[g] = "insert" /\ frame'[g].key = frame'[h].key => g = h
        BY DEF NewSafe
    <2>1. pc[h] = "insert" /\ frame'[h].key = frame[h].key
        OBVIOUS
    <2>2. /\ frame[h].key \in objects \ Condemned
          /\ \A i \in RowIds : file[i] # None => file[i].key # frame[h].key
          /\ \A g \in Handlers : pc[g] = "insert" /\ frame[g].key = frame[h].key => g = h
        BY <2>1 DEF ObjectInv, NewSafe
    <2> QED BY <2>1, <2>2
<1> QED BY <1>1, <1>2, <1>3 DEF ObjectInv

\* The step of one actor that moves to l with local variables f, when whatever it
\* is to unlink, now or after a restart, is condemned already.
LEMMA ActorStep ==
    ASSUME ObjectInv, TypeInv', NEW a \in Actors, NEW f, NEW l,
           frame' = [frame EXCEPT ![a] = f], pc' = [pc EXCEPT ![a] = l],
           l = "insert" => pc[a] = "insert" /\ f.key = frame[a].key,
           l \in Unlinking /\ f.key \in Keys => f.key \in Condemned,
           jobs' \subseteq jobs \cup Condemned,
           \A p \in Procs : /\ todo'[p].jobs \subseteq todo[p].jobs \cup Condemned
                            /\ todo'[p].tombstones \subseteq todo[p].tombstones,
           objects \ objects' \subseteq Condemned,
           \A i \in RowIds : file'[i] # None =>
               /\ file[i] # None /\ file'[i].key = file[i].key
               /\ file'[i].state = "active" => file[i].state = "active"
    PROVE  ObjectInv'
<1>1. frame \in [Actors -> Frames] /\ pc \in [Actors -> Points]
    BY DEF ObjectInv, TypeInv, TypeOK
<1>2. \A b \in Actors : /\ b # a => frame'[b] = frame[b] /\ pc'[b] = pc[b]
                        /\ pc'[a] = l /\ frame'[a] = f
    BY <1>1
<1>3. \A h \in Handlers : pc'[h] = "insert" =>
          pc[h] = "insert" /\ frame'[h].key = frame[h].key
    BY <1>2 DEF Actors
<1>4. Condemned' \subseteq Condemned
    <2> SUFFICES ASSUME NEW k \in Condemned'
                 PROVE  k \in Condemned
        OBVIOUS
    <2>0. k \in Keys
        BY DEF Condemned
    <2>1. CASE k \in jobs'
        BY <2>0, <2>1 DEF Condemned
    <2>2. ASSUME NEW b \in Actors, frame'[b].key = k, pc'[b] \in Unlinking
          PROVE  k \in Condemned
        <3>1. CASE b = a
            BY <1>2, <2>0, <2>2, <3>1
        <3>2. CASE b # a
            BY <1>2, <2>0, <2>2, <3>2 DEF Condemned
        <3> QED BY <3>1, <3>2
    <2>3. ASSUME NEW p \in Procs, k \in todo'[p].jobs
          PROVE  k \in Condemned
        BY <2>0, <2>3 DEF Condemned
    <2>4. ASSUME NEW p \in Procs, NEW i \in RowIds, <<i, k>> \in todo'[p].tombstones
          PROVE  k \in Condemned
        BY <2>0, <2>4 DEF Condemned
    <2> QED BY <2>1, <2>2, <2>3, <2>4 DEF Condemned
<1> QED BY <1>3, <1>4, ObjectStep

\* ... that only returns, its request answered or its list continued.
LEMMA ReturnStep ==
    ASSUME ObjectInv, TypeInv', NEW a \in Actors, Return(a), todo' = todo,
           jobs' \subseteq jobs, objects \ objects' \subseteq Condemned,
           \A i \in RowIds : file'[i] # None =>
               /\ file[i] # None /\ file'[i].key = file[i].key
               /\ file'[i].state = "active" => file[i].state = "active"
    PROVE  ObjectInv'
<1> DEFINE l == IF a \in Handlers THEN "idle"
                ELSE IF frame[a].op = "job" THEN "scan" ELSE "scan2"
<1>1. l # "insert" /\ l \notin Unlinking
    BY DEF Unlinking
<1>2. frame' = [frame EXCEPT ![a] = Blank] /\ pc' = [pc EXCEPT ![a] = l]
    BY DEF Return
<1> HIDE DEF l
<1> QED BY <1>1, <1>2, ActorStep

\* ... that only moves to a point where nothing is unlinked.
LEMMA GotoStep ==
    ASSUME ObjectInv, TypeInv', NEW a \in Actors, NEW l, Goto(a, l),
           l \notin Unlinking, l # "insert",
           UNCHANGED <<file, jobs, objects, frame>>,
           \A p \in Procs : /\ todo'[p].jobs \subseteq todo[p].jobs \cup Condemned
                            /\ todo'[p].tombstones \subseteq todo[p].tombstones
    PROVE  ObjectInv'
<1>1. frame' = [frame EXCEPT ![a] = frame[a]]
    BY DEF ObjectInv, TypeInv, TypeOK
<1> QED BY <1>1, ActorStep DEF Goto

\* A row with a key that nobody else has: inserted by an upload or by its creator.
LEMMA InsertStep ==
    ASSUME ObjectInv, TypeInv', NEW p \in Paths, NEW k \in Keys, InsertFileRow(p, k),
           k \in objects', objects \subseteq objects', Condemned' \subseteq Condemned,
           k \notin Condemned,
           \A i \in RowIds : file[i] # None => file[i].key # k,
           \A h \in Handlers : pc'[h] = "insert" =>
               /\ pc[h] = "insert" /\ frame'[h].key = frame[h].key
               /\ frame[h].key # k
    PROVE  ObjectInv'
<1>1. PICK i \in RowIds :
          /\ file[i] = None
          /\ file' = [file EXCEPT ![i] = [path |-> p, key |-> k, state |-> "active"]]
    BY DEF InsertFileRow, NextId
<1>2. \A j \in RowIds : /\ j # i => file'[j] = file[j]
                        /\ file'[i].key = k
    BY <1>1 DEF ObjectInv, TypeInv, TypeOK
<1>3. KeysUnique'
    BY <1>2 DEF ObjectInv, KeysUnique
<1>4. ActiveSafe'
    BY <1>2 DEF ObjectInv, ActiveSafe, Active
<1>5. NewSafe'
    <2> SUFFICES ASSUME NEW h \in Handlers, pc'[h] = "insert"
                 PROVE  /\ frame'[h].key \in objects' \ Condemned'
                        /\ \A j \in RowIds : file'[j] # None => file'[j].key # frame'[h].key
                        /\ \A g \in Handlers :
                              pc'[g] = "insert" /\ frame'[g].key = frame'[h].key => g = h
        BY DEF NewSafe
    <2> QED BY <1>2 DEF ObjectInv, NewSafe
<1> QED BY <1>3, <1>4, <1>5 DEF ObjectInv

\* ... that ends its recovery pass.
LEMMA EndRecoveryStep ==
    ASSUME ObjectInv, TypeInv', NEW p \in Procs, EndRecovery(p),
           UNCHANGED <<file, jobs, objects>>
    PROVE  ObjectInv'
<1>1. "idle" # "insert" /\ "idle" \notin Unlinking
    BY DEF Unlinking
<1>2. frame' = [frame EXCEPT ![p] = Blank] /\ pc' = [pc EXCEPT ![p] = "idle"]
    BY DEF EndRecovery
<1>3. \A q \in Procs : /\ todo'[q].jobs \subseteq todo[q].jobs
                       /\ todo'[q].tombstones \subseteq todo[q].tombstones
    BY DEF EndRecovery, NoTodo, ObjectInv, TypeInv, TypeOK, Todos
<1> QED BY <1>1, <1>2, <1>3, ActorStep DEF Actors

\* Every step keeps rows, creations and removals apart: one case per action.
LEMMA ObjectInvStep == ObjectInv /\ [Next]_vars => ObjectInv'
<1> SUFFICES ASSUME ObjectInv, [Next]_vars
             PROVE  ObjectInv'
    OBVIOUS
<1>0. ObjectInv /\ TypeInv /\ TypeInv'
    BY TypeInvStep DEF ObjectInv
<1>1. ASSUME NEW h \in Handlers, BeginCreate(h) PROVE ObjectInv'
    <2>1. PICK f : frame' = [frame EXCEPT ![h] = f]
        BY <1>1 DEF BeginCreate
    <2>2. pc' = [pc EXCEPT ![h] = "parent"] /\ "parent" # "insert" /\ "parent" \notin Unlinking
        BY <1>1 DEF BeginCreate, Goto, Unlinking
    <2> QED BY <1>0, <1>1, <2>1, <2>2, ActorStep DEF BeginCreate, Actors, tables
<1>2. ASSUME NEW h \in Handlers, BeginRename(h) PROVE ObjectInv'
    <2>1. PICK f : frame' = [frame EXCEPT ![h] = f]
        BY <1>2 DEF BeginRename
    <2>2. pc' = [pc EXCEPT ![h] = "free"] /\ "free" # "insert" /\ "free" \notin Unlinking
        BY <1>2 DEF BeginRename, Goto, Unlinking
    <2> QED BY <1>0, <1>2, <2>1, <2>2, ActorStep DEF BeginRename, Actors, tables
<1>3. ASSUME NEW h \in Handlers, CheckParent(h) PROVE ObjectInv'
    <2>1. CASE Return(h)
        BY <1>0, <1>3, <2>1, ReturnStep DEF CheckParent, Actors, tables
    <2>2. CASE ~Return(h)
        <3>1. PICK l : Goto(h, l) /\ frame' = frame /\ l # "insert" /\ l \notin Unlinking
            BY <1>0, <1>3, <2>2 DEF CheckParent, Unlinking
        <3> QED BY <1>0, <1>3, <3>1, GotoStep DEF CheckParent, Actors, tables
    <2> QED BY <2>1, <2>2
<1>4. ASSUME NEW h \in Handlers, CheckFree(h) PROVE ObjectInv'
    <2>1. CASE Return(h)
        BY <1>0, <1>4, <2>1, ReturnStep DEF CheckFree, Actors, tables
    <2>2. CASE ~Return(h)
        <3>1. PICK l : Goto(h, l) /\ frame' = frame /\ l # "insert" /\ l \notin Unlinking
            BY <1>0, <1>4, <2>2 DEF CheckFree, Unlinking, FramesFilled, TypeInv, ObjectInv, Choosing, Actors
        <3> QED BY <1>0, <1>4, <3>1, GotoStep DEF CheckFree, Actors, tables
    <2> QED BY <2>1, <2>2
<1>5. ASSUME NEW h \in Handlers, CreateObject(h) PROVE ObjectInv'
    <2>1. PICK k \in FreshKeys : /\ objects' = objects \cup {k}
                                /\ frame' = [frame EXCEPT ![h].key = k]
        BY <1>5 DEF CreateObject
    <2>2. /\ k \in Keys /\ k \notin objects /\ k \notin jobs
          /\ \A i \in RowIds : file[i] # None => file[i].key # k
          /\ \A a \in Actors : frame[a].key # k
          /\ \A p \in Procs : k \notin todo[p].jobs /\ \A t \in todo[p].tombstones : t[2] # k
        BY <2>1 DEF FreshKeys
    <2>3. k \notin Condemned
        BY <2>2 DEF Condemned
    <2>4. \A b \in Actors : /\ b # h => frame'[b] = frame[b] /\ pc'[b] = pc[b]
                            /\ pc'[h] = "insert" /\ frame'[h].key = k
        BY <1>0, <1>5, <2>1 DEF CreateObject, Goto, TypeInv, TypeOK, Actors, Frames
    <2>5. file' = file /\ jobs' = jobs /\ todo' = todo /\ "insert" \notin Unlinking
        BY <1>5 DEF CreateObject, tables, Unlinking
    <2>6. Condemned' \subseteq Condemned
        BY <2>4, <2>5 DEF Condemned, Actors
    <2>7. KeysUnique' /\ ActiveSafe'
        BY <1>0, <2>1, <2>5, <2>6 DEF ObjectInv, KeysUnique, ActiveSafe, Active
    <2>8. NewSafe'
        <3> SUFFICES ASSUME NEW g \in Handlers, pc'[g] = "insert"
                     PROVE  /\ frame'[g].key \in objects' \ Condemned'
                            /\ \A i \in RowIds : file'[i] # None => file'[i].key # frame'[g].key
                            /\ \A c \in Handlers :
                                  pc'[c] = "insert" /\ frame'[c].key = frame'[g].key => c = g
            BY DEF NewSafe
        <3>1. CASE g = h
            BY <2>1, <2>2, <2>3, <2>4, <2>5, <2>6, <3>1 DEF Actors
        <3>2. CASE g # h
            <4>1. pc[g] = "insert" /\ frame'[g] = frame[g] /\ frame[g].key # k
                BY <2>2, <2>4, <3>2 DEF Actors
            <4>2. /\ frame[g].key \in objects \ Condemned
                  /\ \A i \in RowIds : file[i] # None => file[i].key # frame[g].key
                  /\ \A c \in Handlers : pc[c] = "insert" /\ frame[c].key = frame[g].key => c = g
                BY <1>0, <4>1 DEF ObjectInv, NewSafe
            <4>3. frame'[g].key \in objects' \ Condemned'
                <5>1. frame'[g].key = frame[g].key /\ objects \subseteq objects'
                    BY <2>1, <4>1
                <5>2. frame[g].key \in objects \ Condemned
                    BY <4>2
                <5> QED BY <2>6, <5>1, <5>2
            <4>4. ASSUME NEW c \in Handlers, pc'[c] = "insert", frame'[c].key = frame'[g].key
                  PROVE  c = g
                <5>1. c # h /\ c \in Actors
                    BY <2>4, <4>1, <4>4 DEF Actors
                <5> QED BY <2>4, <4>1, <4>2, <4>4, <5>1
            <4> QED BY <2>5, <4>1, <4>2, <4>3, <4>4
        <3> QED BY <3>1, <3>2
    <2> QED BY <1>0, <2>7, <2>8 DEF ObjectInv
<1>6. ASSUME NEW h \in Handlers, CreateContentFails(h) PROVE ObjectInv'
    <2>1. objects \subseteq objects'
        BY <1>6 DEF CreateContentFails
    <2> QED BY <1>0, <1>6, <2>1, ReturnStep DEF CreateContentFails, Actors, tables
<1>7. ASSUME NEW h \in Handlers, CreateFile(h) PROVE ObjectInv'
    <2> DEFINE k == frame[h].key
    <2>1. /\ frame[h].path \in Paths /\ k \in Keys /\ k \in objects /\ k \notin Condemned
          /\ \A i \in RowIds : file[i] # None => file[i].key # k
          /\ \A g \in Handlers : pc[g] = "insert" /\ frame[g].key = k => g = h
        BY <1>0, <1>7 DEF CreateFile, ObjectInv, NewSafe, FramesFilled, TypeInv, Placing, Making,
           Actors
    <2>2. \A b \in Actors : /\ b # h => frame'[b] = frame[b] /\ pc'[b] = pc[b]
                            /\ pc'[h] = "idle"
        BY <1>0, <1>7 DEF CreateFile, Return, TypeInv, TypeOK, Actors
    <2>3. "idle" \notin Unlinking /\ jobs' = jobs /\ todo' = todo /\ objects' = objects
        BY <1>7 DEF CreateFile, Unlinking
    <2>4. Condemned' \subseteq Condemned
        BY <2>2, <2>3 DEF Condemned, Actors
    <2>5. \A g \in Handlers : pc'[g] = "insert" =>
              pc[g] = "insert" /\ frame'[g].key = frame[g].key /\ frame[g].key # k
        BY <2>1, <2>2 DEF Actors
    <2>6. InsertFileRow(frame[h].path, k)
        BY <1>7 DEF CreateFile
    <2> HIDE DEF k
    <2> QED BY <1>0, <2>1, <2>3, <2>4, <2>5, <2>6, InsertStep
<1>8. ASSUME NEW h \in Handlers, CreateFileFails(h) PROVE ObjectInv'
    <2> DEFINE k == frame[h].key
    <2>1. /\ k \in objects /\ \A i \in RowIds : file[i] # None => file[i].key # k
          /\ \A g \in Handlers : pc[g] = "insert" /\ frame[g].key = k => g = h
        BY <1>0, <1>8 DEF CreateFileFails, ObjectInv, NewSafe
    <2>2. \A b \in Actors : /\ b # h => pc'[b] = pc[b]
                            /\ pc'[h] = "enqueue" /\ frame'[b] = frame[b]
        BY <1>0, <1>8 DEF CreateFileFails, Goto, TypeInv, TypeOK, Actors
    <2>3. file' = file /\ jobs' = jobs /\ todo' = todo /\ objects' = objects
        BY <1>8 DEF CreateFileFails, tables
    <2>4. Condemned' \subseteq Condemned \cup {k}
        BY <2>2, <2>3 DEF Condemned, Actors
    <2>5. \A g \in Handlers : pc'[g] = "insert" =>
              pc[g] = "insert" /\ frame'[g].key = frame[g].key /\ frame'[g].key # k
        BY <2>1, <2>2 DEF Actors
    <2>6. \A i \in RowIds : Active(i)' => file'[i].key # k
        BY <2>1, <2>3 DEF Active
    <2> HIDE DEF k
    <2> QED BY <1>0, <2>3, <2>4, <2>5, <2>6, ObjectStep
<1>9. ASSUME NEW h \in Handlers, EnqueueObjectCleanup(h) PROVE ObjectInv'
    <2>1. frame[h].key \in Keys
        BY <1>0, <1>9 DEF EnqueueObjectCleanup, FramesFilled, TypeInv, Making, Actors
    <2>2. frame[h].key \in Condemned
        BY <1>9, <2>1 DEF EnqueueObjectCleanup, Condemned, Unlinking, Actors
    <2>3. /\ frame' = [frame EXCEPT ![h] = frame[h]] /\ pc' = [pc EXCEPT ![h] = "remove"]
          /\ jobs' = jobs \cup {frame[h].key}
        BY <1>0, <1>9 DEF EnqueueObjectCleanup, Goto, TypeInv, TypeOK
    <2> QED BY <1>0, <1>9, <2>2, <2>3, ActorStep DEF EnqueueObjectCleanup, Actors
<1>10. ASSUME NEW h \in Handlers, EnqueueFails(h) PROVE ObjectInv'
    BY <1>0, <1>10, ReturnStep DEF EnqueueFails, Actors, tables
<1>11. ASSUME NEW h \in Handlers, CreateDirectory(h) PROVE ObjectInv'
    BY <1>0, <1>11, ReturnStep DEF CreateDirectory, Actors, tables
<1>12. ASSUME NEW h \in Handlers, UploadPublishes(h) PROVE ObjectInv'
    <2>1. PICK p \in Paths, k \in FreshKeys : InsertFileRow(p, k) /\ objects' = objects \cup {k}
        BY <1>12 DEF UploadPublishes
    <2>2. /\ k \in Keys /\ k \notin jobs
          /\ \A i \in RowIds : file[i] # None => file[i].key # k
          /\ \A a \in Actors : frame[a].key # k
          /\ \A q \in Procs : k \notin todo[q].jobs /\ \A t \in todo[q].tombstones : t[2] # k
        BY <2>1 DEF FreshKeys
    <2>3. k \notin Condemned
        BY <2>2 DEF Condemned
    <2>4. frame' = frame /\ pc' = pc /\ jobs' = jobs /\ todo' = todo
        BY <1>12 DEF UploadPublishes
    <2>5. Condemned' = Condemned
        BY <2>4 DEF Condemned
    <2> QED BY <1>0, <2>1, <2>2, <2>3, <2>4, <2>5, InsertStep DEF Actors
<1>13. ASSUME NEW h \in Handlers, RenameFile(h) PROVE ObjectInv'
    <2>1. \A i \in RowIds : file'[i] # None =>
              /\ file[i] # None /\ file'[i].key = file[i].key
              /\ file'[i].state = "active" => file[i].state = "active"
        BY <1>0, <1>13 DEF RenameFile, Active, TypeInv, TypeOK, Files
    <2> QED BY <1>0, <1>13, <2>1, ReturnStep DEF RenameFile, Actors
<1>14. ASSUME NEW h \in Handlers, BeginDelete(h) PROVE ObjectInv'
    <2>1. PICK f : frame' = [frame EXCEPT ![h] = f]
        BY <1>14 DEF BeginDelete
    <2>2. pc' = [pc EXCEPT ![h] = "begin"] /\ "begin" # "insert" /\ "begin" \notin Unlinking
        BY <1>14 DEF BeginDelete, Goto, Unlinking
    <2> QED BY <1>0, <1>14, <2>1, <2>2, ActorStep DEF BeginDelete, Actors, tables
<1>15. ASSUME NEW h \in Handlers, BeginFileDelete(h) PROVE ObjectInv'
    <2> DEFINE i == frame[h].id  k == frame[h].key
    <2>1. /\ Active(i) /\ file[i].key = k /\ file' = [file EXCEPT ![i] = Tombstoned(file[i])]
          /\ pc[h] = "begin" /\ pc' = [pc EXCEPT ![h] = "remove"]
          /\ frame' = frame /\ jobs' = jobs /\ todo' = todo /\ objects' = objects
        BY <1>15 DEF BeginFileDelete, Goto
    <2>2. i \in RowIds \cup {None} /\ file \in [RowIds -> Files \cup {None}]
          /\ pc \in [Actors -> Points] /\ h \in Actors
        BY <1>0 DEF TypeInv, TypeOK, Frames, Actors
    <2> HIDE DEF i, k
    <2>3. \A b \in Actors : /\ b # h => pc'[b] = pc[b]
                            /\ pc'[h] = "remove"
        BY <2>1, <2>2
    <2>4. \A j \in RowIds : /\ j # i => file'[j] = file[j]
                            /\ j = i => file[j] # None /\ file'[j] = Tombstoned(file[j])
                                        /\ file[j] \in Files
        BY <2>1, <2>2 DEF Active
    <2>5. \A j \in RowIds : file'[j] # None =>
              /\ file[j] # None /\ file'[j].key = file[j].key
              /\ file'[j].state = "active" => file[j].state = "active" /\ j # i
        BY <2>4 DEF Tombstoned, Files
    <2>6. i \in RowIds
        BY <1>0, <1>15 DEF BeginFileDelete, FramesFilled, TypeInv, Actors, i
    <2>7. Condemned' \subseteq Condemned \cup {k}
        BY <2>1, <2>3 DEF Condemned, Actors, k
    <2>8. \A j \in RowIds : Active(j)' => file'[j].key # k
        BY <1>0, <2>1, <2>2, <2>5, <2>6 DEF Active, ObjectInv, KeysUnique
    <2>9. \A g \in Handlers : pc'[g] = "insert" =>
              pc[g] = "insert" /\ frame'[g].key = frame[g].key /\ frame'[g].key # k
        BY <1>0, <2>1, <2>2, <2>3, <2>6 DEF Actors, Active, ObjectInv, NewSafe
    <2> QED BY <1>0, <2>1, <2>5, <2>7, <2>8, <2>9, ObjectStep
<1>16. ASSUME NEW h \in Handlers, BeginRmdir(h) PROVE ObjectInv'
    <2>1. PICK f : frame' = [frame EXCEPT ![h] = f]
        BY <1>16 DEF BeginRmdir
    <2>2. pc' = [pc EXCEPT ![h] = "empty"] /\ "empty" # "insert" /\ "empty" \notin Unlinking
        BY <1>16 DEF BeginRmdir, Goto, Unlinking
    <2> QED BY <1>0, <1>16, <2>1, <2>2, ActorStep DEF BeginRmdir, Actors, tables
<1>17. ASSUME NEW h \in Handlers, DirectoryEmpty(h) PROVE ObjectInv'
    <2>1. CASE Return(h)
        BY <1>0, <1>17, <2>1, ReturnStep DEF DirectoryEmpty, Actors, tables
    <2>2. CASE ~Return(h)
        <3>1. PICK l : Goto(h, l) /\ frame' = frame /\ l # "insert" /\ l \notin Unlinking
            BY <1>0, <1>17, <2>2 DEF DirectoryEmpty, Unlinking
        <3> QED BY <1>0, <1>17, <3>1, GotoStep DEF DirectoryEmpty, Actors, tables
    <2> QED BY <2>1, <2>2
<1>18. ASSUME NEW h \in Handlers, DeleteDirectory(h) PROVE ObjectInv'
    BY <1>0, <1>18, ReturnStep DEF DeleteDirectory, Actors, tables
<1>19. ASSUME NEW a \in Actors, RemoveObject(a) PROVE ObjectInv'
    <2>1. frame[a].key \in Keys => frame[a].key \in Condemned
        BY <1>19 DEF RemoveObject, Condemned, Unlinking
    <2>2. CASE frame[a].key \in objects
        <3>1. PICK l \in {"complete", "finalize"} : Goto(a, l) /\ frame' = frame
            BY <1>19, <2>2 DEF RemoveObject
        <3>2. frame' = [frame EXCEPT ![a] = frame[a]] /\ pc' = [pc EXCEPT ![a] = l]
            BY <1>0, <3>1 DEF Goto, TypeInv, TypeOK
        <3>3. objects' = objects \ {frame[a].key} /\ objects \subseteq Keys
            BY <1>0, <1>19, <2>2 DEF RemoveObject, TypeInv, TypeOK
        <3> QED BY <1>0, <1>19, <2>1, <3>1, <3>2, <3>3, ActorStep DEF RemoveObject, tables
    <2>3. CASE frame[a].key \notin objects
        BY <1>0, <1>19, <2>3, ReturnStep DEF RemoveObject, tables
    <2> QED BY <2>2, <2>3
<1>20. ASSUME NEW a \in Actors, RemoveFails(a) PROVE ObjectInv'
    <2>1. frame[a].key \in Keys => frame[a].key \in Condemned
        BY <1>20 DEF RemoveFails, Condemned, Unlinking
    <2>2. objects \subseteq Keys /\ objects' \in {objects, objects \ {frame[a].key}}
        BY <1>0, <1>20 DEF RemoveFails, TypeInv, TypeOK
    <2> QED BY <1>0, <1>20, <2>1, <2>2, ReturnStep DEF RemoveFails, tables
<1>21. ASSUME NEW a \in Actors, FinalizeFileDelete(a) PROVE ObjectInv'
    <2>1. \A i \in RowIds : file'[i] # None => file[i] # None /\ file'[i] = file[i]
        BY <1>0, <1>21 DEF FinalizeFileDelete, TypeInv, TypeOK
    <2> QED BY <1>0, <1>21, <2>1, ReturnStep DEF FinalizeFileDelete
<1>22. ASSUME NEW a \in Actors, CompleteObjectCleanup(a) PROVE ObjectInv'
    BY <1>0, <1>22, ReturnStep DEF CompleteObjectCleanup, Actors, tables
<1>23. ASSUME NEW a \in Actors, Abandon(a) PROVE ObjectInv'
    <2>1. CASE Return(a) /\ UNCHANGED <<mode, todo>>
        BY <1>0, <1>23, <2>1, ReturnStep DEF Abandon, tables
    <2>2. CASE a \in Procs /\ EndRecovery(a)
        BY <1>0, <1>23, <2>2, EndRecoveryStep DEF Abandon, tables
    <2> QED BY <1>23, <2>1, <2>2 DEF Abandon
<1>24. ASSUME NEW p \in Procs, Boot(p) PROVE ObjectInv'
    BY <1>0, <1>24, GotoStep DEF Boot, Actors, tables, Unlinking
<1>25. ASSUME NEW p \in Procs, ObjectCleanupJobs(p) PROVE ObjectInv'
    <2>1. PICK S \in SUBSET jobs : todo' = [todo EXCEPT ![p].jobs = S]
        BY <1>25 DEF ObjectCleanupJobs
    <2>2. jobs \subseteq Condemned
        BY <1>0 DEF Condemned, TypeInv, TypeOK
    <2>3. \A q \in Procs : /\ todo'[q].jobs \subseteq todo[q].jobs \cup Condemned
                           /\ todo'[q].tombstones \subseteq todo[q].tombstones
        BY <1>0, <2>1, <2>2 DEF TypeInv, TypeOK, Todos
    <2> QED BY <1>0, <1>25, <2>3, GotoStep DEF ObjectCleanupJobs, Actors, tables, Unlinking
<1>26. ASSUME NEW p \in Procs, ScanJob(p) PROVE ObjectInv'
    <2>0. todo \in [Procs -> Todos]
        BY <1>0 DEF TypeInv, TypeOK
    <2>1. CASE todo[p].jobs = {} /\ Goto(p, "tombstones") /\ UNCHANGED <<frame, todo>>
        BY <1>0, <1>26, <2>1, GotoStep DEF ScanJob, Actors, tables, Unlinking
    <2>2. CASE \E k \in todo[p].jobs :
                  /\ todo' = [todo EXCEPT ![p].jobs = @ \ {k}]
                  /\ frame' = [frame EXCEPT ![p] = [Blank EXCEPT !.op = "job", !.key = k]]
                  /\ Goto(p, "remove")
        <3>1. PICK k \in todo[p].jobs :
                  /\ todo' = [todo EXCEPT ![p].jobs = @ \ {k}]
                  /\ frame' = [frame EXCEPT ![p] = [Blank EXCEPT !.op = "job", !.key = k]]
                  /\ pc' = [pc EXCEPT ![p] = "remove"]
            BY <2>2 DEF Goto
        <3>2. k \in Condemned /\ [Blank EXCEPT !.op = "job", !.key = k].key = k
            BY <2>0, <3>1 DEF Condemned, Todos, Blank
        <3>3. \A q \in Procs : /\ todo'[q].jobs \subseteq todo[q].jobs
                               /\ todo'[q].tombstones \subseteq todo[q].tombstones
            BY <2>0, <3>1 DEF Todos
        <3> QED BY <1>0, <1>26, <3>1, <3>2, <3>3, ActorStep DEF ScanJob, Actors, tables
    <2> QED BY <1>26, <2>1, <2>2 DEF ScanJob
<1>27. ASSUME NEW p \in Procs, DeletingFiles(p) PROVE ObjectInv'
    <2> DEFINE all == {<<i, file[i].key>> : i \in {j \in RowIds : Tombstone(j)}}
    <2>1. PICK S \in SUBSET all : todo' = [todo EXCEPT ![p].tombstones = S]
        BY <1>27 DEF DeletingFiles
    <2>2. /\ pc' = [pc EXCEPT ![p] = "scan2"] /\ UNCHANGED <<file, jobs, objects, frame>>
          /\ "scan2" \notin Unlinking /\ "scan2" # "insert"
        BY <1>27 DEF DeletingFiles, Goto, tables, Unlinking
    <2>3. \A b \in Actors : /\ b # p => pc'[b] = pc[b]
                            /\ pc'[p] = "scan2"
        BY <1>0, <2>2 DEF TypeInv, TypeOK, Actors
    <2>4. \A q \in Procs : /\ todo'[q].jobs = todo[q].jobs
                           /\ todo'[q].tombstones \subseteq todo[q].tombstones \cup S
        BY <1>0, <2>1 DEF TypeInv, TypeOK, Todos
    <2>5. \A k \in Condemned' \ Condemned : \E i \in RowIds : Tombstone(i) /\ file[i].key = k
        <3> SUFFICES ASSUME NEW k \in Condemned', k \notin Condemned
                     PROVE  \E i \in RowIds : Tombstone(i) /\ file[i].key = k
            OBVIOUS
        <3>1. PICK q \in Procs, i \in RowIds :
                  <<i, k>> \in todo'[q].tombstones /\ <<i, k>> \notin todo[q].tombstones
            BY <2>2, <2>3, <2>4 DEF Condemned
        <3>2. <<i, k>> \in all
            BY <2>1, <2>4, <3>1
        <3> QED BY <3>2
    <2>6. \A k \in Condemned' \ Condemned : \A i \in RowIds : Active(i)' => file'[i].key # k
        BY <1>0, <2>2, <2>5 DEF ObjectInv, KeysUnique, Active, Tombstone
    <2>7. \A h \in Handlers : pc'[h] = "insert" =>
              pc[h] = "insert" /\ frame'[h].key = frame[h].key
        BY <2>2, <2>3 DEF Actors
    <2>8. \A k \in Condemned' \ Condemned :
              \A h \in Handlers : pc'[h] = "insert" => frame'[h].key # k
        BY <1>0, <2>5, <2>7 DEF ObjectInv, NewSafe, Tombstone
    <2> QED BY <1>0, <2>2, <2>6, <2>7, <2>8, ObjectStep
<1>28. ASSUME NEW p \in Procs, ScanTombstone(p) PROVE ObjectInv'
    <2>0. todo \in [Procs -> Todos]
        BY <1>0 DEF TypeInv, TypeOK
    <2>1. PICK t \in todo[p].tombstones :
              /\ todo' = [todo EXCEPT ![p].tombstones = @ \ {t}]
              /\ frame' = [frame EXCEPT ![p] =
                              [Blank EXCEPT !.op = "tombstone", !.id = t[1], !.key = t[2]]]
        BY <1>28 DEF ScanTombstone
    <2>2. t = <<t[1], t[2]>> /\ t[1] \in RowIds /\ t[2] \in Keys
        BY <2>0, <2>1 DEF Todos
    <2>3. t[2] \in Condemned
        BY <2>1, <2>2 DEF Condemned
    <2>4. [Blank EXCEPT !.op = "tombstone", !.id = t[1], !.key = t[2]].key = t[2]
        BY DEF Blank
    <2>5. \A q \in Procs : /\ todo'[q].jobs \subseteq todo[q].jobs
                           /\ todo'[q].tombstones \subseteq todo[q].tombstones
        BY <2>0, <2>1 DEF Todos
    <2>6. pc' = [pc EXCEPT ![p] = "remove"]
        BY <1>28 DEF ScanTombstone, Goto
    <2> QED BY <1>0, <1>28, <2>1, <2>3, <2>4, <2>5, <2>6, ActorStep
            DEF ScanTombstone, Actors, tables
<1>29. ASSUME NEW p \in Procs, FinishRecovery(p) PROVE ObjectInv'
    BY <1>0, <1>29, EndRecoveryStep DEF FinishRecovery, tables
<1>30. ASSUME NEW p \in Procs, Crash(p) PROVE ObjectInv'
    <2>1. \A a \in Actors : pc'[a] # "idle" => pc'[a] = pc[a] /\ frame'[a] = frame[a]
        BY <1>30 DEF Crash
    <2>2. UNCHANGED <<file, jobs, objects>> /\ "idle" \notin Unlinking
        BY <1>30 DEF Crash, tables, Unlinking
    <2>3. \A q \in Procs : /\ todo'[q].jobs \subseteq todo[q].jobs
                           /\ todo'[q].tombstones \subseteq todo[q].tombstones
        BY <1>0, <1>30 DEF Crash, NoTodo, TypeInv, TypeOK, Todos
    <2>4. Condemned' \subseteq Condemned
        BY <2>1, <2>2, <2>3 DEF Condemned
    <2> QED BY <1>0, <2>1, <2>2, <2>4, ObjectStep DEF Actors
<1>31. ASSUME UNCHANGED vars PROVE ObjectInv'
    BY <1>0, <1>31 DEF ObjectInv, KeysUnique, ActiveSafe, NewSafe, Condemned, Active, vars
<1> QED BY <1>1, <1>2, <1>3, <1>4, <1>5, <1>6, <1>7, <1>8, <1>9, <1>10, <1>11,
          <1>12, <1>13, <1>14, <1>15, <1>16, <1>17, <1>18, <1>19, <1>20, <1>21,
          <1>22, <1>23, <1>24, <1>25, <1>26, <1>27, <1>28, <1>29, <1>30, <1>31
       DEF Next, Creating, Changing, Removing, Recovering

\* There are no rows and no goroutines at the start.
LEMMA ObjectInvInit == Init => ObjectInv
    BY TypeInvInit DEF Init, ObjectInv, KeysUnique, ActiveSafe, NewSafe, Active, Actors

\* published.go:402-406 and recovery.go:23-58: a file that can be looked up has its
\* object, whoever deletes, compensates, recovers or crashes meanwhile.
THEOREM ActiveFilesHaveObjects == Spec => []ActiveHasObject
<1>1. Init => ObjectInv
    BY ObjectInvInit
<1>2. ObjectInv /\ [Next]_vars => ObjectInv'
    BY ObjectInvStep
<1>3. ObjectInv => ActiveHasObject
    BY DEF ObjectInv, ActiveSafe, ActiveHasObject
<1> QED BY <1>1, <1>2, <1>3, PTL DEF Spec

-----------------------------------------------------------------------------
(* Nothing is lost                                                          *)

\* The step of one actor that moves to l with local variables f, when every object
\* that loses its row, its job or its creator is gone, passed on, or a mishap.
LEMMA KeepStep ==
    ASSUME LostInv, TypeInv', NEW a \in Actors, NEW f, NEW l,
           frame' = [frame EXCEPT ![a] = f], pc' = [pc EXCEPT ![a] = l],
           l \in {"finalize", "complete"} => f.key \notin objects',
           objects' \subseteq objects,
           \A k \in jobs : k \in jobs' \/ k \notin objects',
           \A i \in RowIds : file[i] # None =>
               \/ file'[i] # None /\ file'[i].key = file[i].key
               \/ file[i].key \notin objects',
           crashes' = 0 /\ faults' = 0 => crashes = 0 /\ faults = 0,
           a \in Handlers /\ pc[a] \in Making =>
               \/ l \in Making /\ f.key = frame[a].key
               \/ frame[a].key \in jobs'
               \/ \E i \in RowIds : file'[i] # None /\ file'[i].key = frame[a].key
               \/ faults' # 0
    PROVE  LostInv'
<1>1. frame \in [Actors -> Frames] /\ pc \in [Actors -> Points]
    BY DEF LostInv, TypeInv, TypeOK
<1>2. \A b \in Actors : /\ b # a => frame'[b] = frame[b] /\ pc'[b] = pc[b]
                        /\ pc'[a] = l /\ frame'[a] = f
    BY <1>1
<1>3. GoneFirst'
    BY <1>2 DEF LostInv, GoneFirst
<1>4. NothingLost'
    <2> SUFFICES ASSUME crashes' = 0, faults' = 0, NEW k \in objects'
                 PROVE  \/ \E i \in RowIds : file'[i] # None /\ file'[i].key = k
                        \/ k \in jobs'
                        \/ \E h \in Handlers : frame'[h].key = k /\ pc'[h] \in {"insert", "enqueue"}
        BY DEF NothingLost
    <2>1. \/ \E i \in RowIds : file[i] # None /\ file[i].key = k
          \/ k \in jobs
          \/ \E h \in Handlers : frame[h].key = k /\ pc[h] \in {"insert", "enqueue"}
        BY DEF LostInv, NothingLost
    <2>2. ASSUME NEW h \in Handlers, frame[h].key = k, pc[h] \in {"insert", "enqueue"}
          PROVE  \/ \E i \in RowIds : file'[i] # None /\ file'[i].key = k
                 \/ k \in jobs'
                 \/ frame'[h].key = k /\ pc'[h] \in {"insert", "enqueue"}
        <3>1. CASE h = a
            BY <1>2, <2>2, <3>1 DEF Making, Actors
        <3>2. CASE h # a
            BY <1>2, <2>2, <3>2 DEF Actors
        <3> QED BY <3>1, <3>2
    <2> QED BY <2>1, <2>2
<1> QED BY <1>3, <1>4 DEF LostInv

\* ... that only returns.
LEMMA KeepReturn ==
    ASSUME LostInv, TypeInv', NEW a \in Actors, Return(a),
           objects' \subseteq objects,
           \A k \in jobs : k \in jobs' \/ k \notin objects',
           \A i \in RowIds : file[i] # None =>
               \/ file'[i] # None /\ file'[i].key = file[i].key
               \/ file[i].key \notin objects',
           crashes' = 0 /\ faults' = 0 => crashes = 0 /\ faults = 0,
           a \in Handlers /\ pc[a] \in Making =>
               \/ \E i \in RowIds : file'[i] # None /\ file'[i].key = frame[a].key
               \/ faults' # 0
    PROVE  LostInv'
<1> DEFINE l == IF a \in Handlers THEN "idle"
                ELSE IF frame[a].op = "job" THEN "scan" ELSE "scan2"
<1>1. l \notin {"finalize", "complete"}
    OBVIOUS
<1>2. frame' = [frame EXCEPT ![a] = Blank] /\ pc' = [pc EXCEPT ![a] = l]
    BY DEF Return
<1> HIDE DEF l
<1> QED BY <1>1, <1>2, KeepStep

\* ... that only moves.
LEMMA KeepGoto ==
    ASSUME LostInv, TypeInv', NEW a \in Actors, NEW l, Goto(a, l), a \in Handlers => pc[a] \notin Making,
           l \notin {"finalize", "complete"},
           UNCHANGED <<file, jobs, objects, frame, crashes, faults>>
    PROVE  LostInv'
<1>1. frame' = [frame EXCEPT ![a] = frame[a]]
    BY DEF LostInv, TypeInv, TypeOK
<1> QED BY <1>1, KeepStep DEF Goto

\* Every step keeps track of every object: one case per action.
LEMMA LostInvStep == LostInv /\ [Next]_vars => LostInv'
<1> SUFFICES ASSUME LostInv, [Next]_vars
             PROVE  LostInv'
    OBVIOUS
<1>0. LostInv /\ TypeInv /\ TypeInv'
    BY TypeInvStep DEF LostInv
<1>1. ASSUME NEW h \in Handlers, BeginCreate(h) PROVE LostInv'
    <2>1. PICK f : frame' = [frame EXCEPT ![h] = f]
        BY <1>1 DEF BeginCreate
    <2>2. pc[h] \notin Making /\ pc' = [pc EXCEPT ![h] = "parent"]
        BY <1>1 DEF BeginCreate, Idle, Goto, Making
    <2> QED BY <1>0, <1>1, <2>1, <2>2, KeepStep DEF BeginCreate, Actors, tables, bounds
<1>2. ASSUME NEW h \in Handlers, BeginRename(h) PROVE LostInv'
    <2>1. PICK f : frame' = [frame EXCEPT ![h] = f]
        BY <1>2 DEF BeginRename
    <2>2. pc[h] \notin Making /\ pc' = [pc EXCEPT ![h] = "free"]
        BY <1>2 DEF BeginRename, Idle, Goto, Making
    <2> QED BY <1>0, <1>2, <2>1, <2>2, KeepStep DEF BeginRename, Actors, tables, bounds
<1>3. ASSUME NEW h \in Handlers, CheckParent(h) PROVE LostInv'
    <2>1. pc[h] \notin Making
        BY <1>3 DEF CheckParent, Making
    <2>2. CASE Return(h)
        BY <1>0, <1>3, <2>1, <2>2, KeepReturn DEF CheckParent, Actors, tables, bounds
    <2>3. CASE ~Return(h)
        <3>1. PICK l : Goto(h, l) /\ frame' = frame /\ l \notin {"finalize", "complete"}
            BY <1>0, <1>3, <2>3 DEF CheckParent
        <3> QED BY <1>0, <1>3, <2>1, <3>1, KeepGoto DEF CheckParent, Actors, tables, bounds
    <2> QED BY <2>2, <2>3
<1>4. ASSUME NEW h \in Handlers, CheckFree(h) PROVE LostInv'
    <2>1. pc[h] \notin Making
        BY <1>4 DEF CheckFree, Making
    <2>2. CASE Return(h)
        BY <1>0, <1>4, <2>1, <2>2, KeepReturn DEF CheckFree, Actors, tables, bounds
    <2>3. CASE ~Return(h)
        <3>1. PICK l : Goto(h, l) /\ frame' = frame /\ l \notin {"finalize", "complete"}
            BY <1>0, <1>4, <2>3 DEF CheckFree, FramesFilled, TypeInv, LostInv, Choosing, Actors
        <3> QED BY <1>0, <1>4, <2>1, <3>1, KeepGoto DEF CheckFree, Actors, tables, bounds
    <2> QED BY <2>2, <2>3
<1>5. ASSUME NEW h \in Handlers, CreateObject(h) PROVE LostInv'
    <2>1. PICK k \in FreshKeys : /\ objects' = objects \cup {k}
                                /\ frame' = [frame EXCEPT ![h].key = k]
        BY <1>5 DEF CreateObject
    <2>2. k \in Keys /\ \A a \in Actors : frame[a].key # k
        BY <2>1 DEF FreshKeys
    <2>3. \A b \in Actors : /\ b # h => frame'[b] = frame[b] /\ pc'[b] = pc[b]
                            /\ pc'[h] = "insert" /\ frame'[h].key = k /\ pc[h] = "object"
        BY <1>0, <1>5, <2>1 DEF CreateObject, Goto, LostInv, TypeInv, TypeOK, Actors, Frames
    <2>4. GoneFirst'
        BY <1>0, <2>1, <2>2, <2>3 DEF LostInv, GoneFirst
    <2>5. UNCHANGED <<file, jobs, crashes, faults>>
        BY <1>5 DEF CreateObject, tables, bounds
    <2>6. NothingLost'
        <3> SUFFICES ASSUME crashes = 0, faults = 0, NEW x \in objects'
                     PROVE  \/ \E i \in RowIds : file[i] # None /\ file[i].key = x
                            \/ x \in jobs
                            \/ \E g \in Handlers : frame'[g].key = x /\ pc'[g] \in {"insert", "enqueue"}
            BY <2>5 DEF NothingLost
        <3>1. CASE x = k
            BY <2>3, <3>1 DEF Actors
        <3>2. CASE x # k
            <4>1. \/ \E i \in RowIds : file[i] # None /\ file[i].key = x
                  \/ x \in jobs
                  \/ \E g \in Handlers : frame[g].key = x /\ pc[g] \in {"insert", "enqueue"}
                BY <1>0, <2>1, <3>2 DEF LostInv, NothingLost
            <4>2. ASSUME NEW g \in Handlers, frame[g].key = x, pc[g] \in {"insert", "enqueue"}
                  PROVE  frame'[g].key = x /\ pc'[g] \in {"insert", "enqueue"}
                BY <2>3, <4>2 DEF Actors
            <4> QED BY <4>1, <4>2
        <3> QED BY <3>1, <3>2
    <2> QED BY <1>0, <2>4, <2>6 DEF LostInv
<1>6. ASSUME NEW h \in Handlers, CreateContentFails(h) PROVE LostInv'
    <2>1. PICK k \in FreshKeys : objects' = objects \cup {k}
        BY <1>6 DEF CreateContentFails
    <2>2. \A a \in Actors : frame[a].key # k
        BY <2>1 DEF FreshKeys
    <2>3. \A a \in Actors : pc'[a] \in {"finalize", "complete"} => pc'[a] = pc[a] /\ frame'[a] = frame[a]
        BY <1>0, <1>6 DEF CreateContentFails, Return, LostInv, TypeInv, TypeOK, Actors
    <2>4. GoneFirst'
        BY <1>0, <2>1, <2>2, <2>3 DEF LostInv, GoneFirst
    <2>5. faults' # 0
        BY <1>0, <1>6 DEF CreateContentFails, Fault, LostInv, TypeInv, TypeOK
    <2> QED BY <1>0, <2>4, <2>5 DEF LostInv, NothingLost
<1>7. ASSUME NEW h \in Handlers, CreateFile(h) PROVE LostInv'
    <2>1. PICK i \in RowIds : /\ file[i] = None
                            /\ file' = [file EXCEPT ![i] = [path |-> frame[h].path,
                                                            key |-> frame[h].key, state |-> "active"]]
        BY <1>7 DEF CreateFile, InsertFileRow, NextId
    <2>2. /\ \A j \in RowIds : file[j] # None => file'[j] = file[j]
          /\ file'[i] = [path |-> frame[h].path, key |-> frame[h].key, state |-> "active"]
        BY <1>0, <2>1 DEF LostInv, TypeInv, TypeOK
    <2>3. file'[i] \in Files /\ file'[i] # None
        <3>1. frame[h].path \in Paths /\ frame[h].key \in Keys
            BY <1>0, <1>7 DEF CreateFile, LostInv, TypeInv, FramesFilled, Placing, Making, Actors
        <3> QED BY <2>2, <3>1, PublishedAssumption DEF Files
    <2>4. Return(h) /\ UNCHANGED <<jobs, objects, crashes, faults>>
        BY <1>7 DEF CreateFile, bounds
    <2> QED BY <1>0, <2>2, <2>3, <2>4, KeepReturn DEF Actors
<1>8. ASSUME NEW h \in Handlers, CreateFileFails(h) PROVE LostInv'
    <2>1. frame' = [frame EXCEPT ![h] = frame[h]] /\ pc' = [pc EXCEPT ![h] = "enqueue"]
        BY <1>0, <1>8 DEF CreateFileFails, Goto, LostInv, TypeInv, TypeOK
    <2> QED BY <1>0, <1>8, <2>1, KeepStep DEF CreateFileFails, Actors, Making, tables, bounds
<1>9. ASSUME NEW h \in Handlers, EnqueueObjectCleanup(h) PROVE LostInv'
    <2>1. /\ frame' = [frame EXCEPT ![h] = frame[h]] /\ pc' = [pc EXCEPT ![h] = "remove"]
          /\ jobs' = jobs \cup {frame[h].key}
        BY <1>0, <1>9 DEF EnqueueObjectCleanup, Goto, LostInv, TypeInv, TypeOK
    <2> QED BY <1>0, <1>9, <2>1, KeepStep DEF EnqueueObjectCleanup, Actors, bounds
<1>10. ASSUME NEW h \in Handlers, EnqueueFails(h) PROVE LostInv'
    <2>1. faults' # 0
        BY <1>0, <1>10 DEF EnqueueFails, Fault, LostInv, TypeInv, TypeOK
    <2> QED BY <1>0, <1>10, <2>1, KeepReturn DEF EnqueueFails, Actors, tables
<1>11. ASSUME NEW h \in Handlers, CreateDirectory(h) PROVE LostInv'
    BY <1>0, <1>11, KeepReturn DEF CreateDirectory, Actors, Making, bounds
<1>12. ASSUME NEW h \in Handlers, UploadPublishes(h) PROVE LostInv'
    <2>1. PICK p \in Paths, k \in FreshKeys : InsertFileRow(p, k) /\ objects' = objects \cup {k}
        BY <1>12 DEF UploadPublishes
    <2>2. k \in Keys /\ \A a \in Actors : frame[a].key # k
        BY <2>1 DEF FreshKeys
    <2>3. PICK i \in RowIds :
              /\ file[i] = None
              /\ file' = [file EXCEPT ![i] = [path |-> p, key |-> k, state |-> "active"]]
        BY <2>1 DEF InsertFileRow, NextId
    <2>4. /\ \A j \in RowIds : file[j] # None => file'[j] = file[j]
          /\ file'[i].key = k /\ file'[i] \in Files
        BY <1>0, <2>2, <2>3 DEF LostInv, TypeInv, TypeOK, Files
    <2>5. file'[i] # None
        BY <2>4, PublishedAssumption
    <2>6. UNCHANGED <<pc, frame, jobs, crashes, faults>>
        BY <1>12 DEF UploadPublishes, bounds
    <2>7. GoneFirst'
        BY <1>0, <2>1, <2>2, <2>6 DEF LostInv, GoneFirst
    <2>8. NothingLost'
        BY <1>0, <2>1, <2>4, <2>5, <2>6 DEF LostInv, NothingLost
    <2> QED BY <1>0, <2>7, <2>8 DEF LostInv
<1>13. ASSUME NEW h \in Handlers, RenameFile(h) PROVE LostInv'
    <2>1. \A i \in RowIds : file[i] # None => file'[i] \in Files /\ file'[i].key = file[i].key
        BY <1>0, <1>13 DEF RenameFile, Active, LostInv, TypeInv, TypeOK, Files, FramesFilled,
           Placing, Actors
    <2>2. \A i \in RowIds : file[i] # None => file'[i] # None
        BY <2>1, PublishedAssumption
    <2> QED BY <1>0, <1>13, <2>1, <2>2, KeepReturn DEF RenameFile, Actors, Making, bounds
<1>14. ASSUME NEW h \in Handlers, BeginDelete(h) PROVE LostInv'
    <2>1. PICK f : frame' = [frame EXCEPT ![h] = f]
        BY <1>14 DEF BeginDelete
    <2>2. pc[h] \notin Making /\ pc' = [pc EXCEPT ![h] = "begin"]
        BY <1>14 DEF BeginDelete, Idle, Goto, Making
    <2> QED BY <1>0, <1>14, <2>1, <2>2, KeepStep DEF BeginDelete, Actors, tables, bounds
<1>15. ASSUME NEW h \in Handlers, BeginFileDelete(h) PROVE LostInv'
    <2>1. \A i \in RowIds : file[i] # None => file'[i] \in Files /\ file'[i].key = file[i].key
        BY <1>0, <1>15 DEF BeginFileDelete, Active, Tombstoned, LostInv, TypeInv, TypeOK, Files
    <2>2. \A i \in RowIds : file[i] # None => file'[i] # None
        BY <2>1, PublishedAssumption
    <2>3. /\ pc[h] \notin Making /\ pc' = [pc EXCEPT ![h] = "remove"]
          /\ frame' = [frame EXCEPT ![h] = frame[h]]
        BY <1>0, <1>15 DEF BeginFileDelete, Goto, Making, LostInv, TypeInv, TypeOK
    <2>4. UNCHANGED <<jobs, objects, crashes, faults>> /\ h \in Actors
        BY <1>15 DEF BeginFileDelete, bounds, Actors
    <2> QED BY <1>0, <2>1, <2>2, <2>3, <2>4, KeepStep
<1>16. ASSUME NEW h \in Handlers, BeginRmdir(h) PROVE LostInv'
    <2>1. PICK f : frame' = [frame EXCEPT ![h] = f]
        BY <1>16 DEF BeginRmdir
    <2>2. pc[h] \notin Making /\ pc' = [pc EXCEPT ![h] = "empty"]
        BY <1>16 DEF BeginRmdir, Idle, Goto, Making
    <2> QED BY <1>0, <1>16, <2>1, <2>2, KeepStep DEF BeginRmdir, Actors, tables, bounds
<1>17. ASSUME NEW h \in Handlers, DirectoryEmpty(h) PROVE LostInv'
    <2>1. pc[h] \notin Making
        BY <1>17 DEF DirectoryEmpty, Making
    <2>2. CASE Return(h)
        BY <1>0, <1>17, <2>1, <2>2, KeepReturn DEF DirectoryEmpty, Actors, tables, bounds
    <2>3. CASE ~Return(h)
        <3>1. PICK l : Goto(h, l) /\ frame' = frame /\ l \notin {"finalize", "complete"}
            BY <1>0, <1>17, <2>3 DEF DirectoryEmpty
        <3> QED BY <1>0, <1>17, <2>1, <3>1, KeepGoto DEF DirectoryEmpty, Actors, tables, bounds
    <2> QED BY <2>2, <2>3
<1>18. ASSUME NEW h \in Handlers, DeleteDirectory(h) PROVE LostInv'
    BY <1>0, <1>18, KeepReturn DEF DeleteDirectory, Actors, Making, bounds
<1>19. ASSUME NEW a \in Actors, RemoveObject(a) PROVE LostInv'
    <2>1. pc[a] \notin Making
        BY <1>19 DEF RemoveObject, Making
    <2>2. CASE frame[a].key \in objects
        <3>1. PICK l : Goto(a, l) /\ frame' = frame
            BY <1>19, <2>2 DEF RemoveObject
        <3>2. frame' = [frame EXCEPT ![a] = frame[a]] /\ pc' = [pc EXCEPT ![a] = l]
            BY <1>0, <3>1 DEF Goto, LostInv, TypeInv, TypeOK
        <3>3. objects' = objects \ {frame[a].key}
            BY <1>19, <2>2 DEF RemoveObject
        <3> QED BY <1>0, <1>19, <2>1, <3>2, <3>3, KeepStep DEF RemoveObject, tables, bounds
    <2>3. CASE frame[a].key \notin objects
        BY <1>0, <1>19, <2>1, <2>3, KeepReturn DEF RemoveObject, tables, bounds
    <2> QED BY <2>2, <2>3
<1>20. ASSUME NEW a \in Actors, RemoveFails(a) PROVE LostInv'
    <2>1. pc[a] \notin Making /\ faults' # 0 /\ objects' \subseteq objects
        BY <1>0, <1>20 DEF RemoveFails, Making, Fault, LostInv, TypeInv, TypeOK
    <2> QED BY <1>0, <1>20, <2>1, KeepReturn DEF RemoveFails, tables
<1>21. ASSUME NEW a \in Actors, FinalizeFileDelete(a) PROVE LostInv'
    <2>1. frame[a].key \notin objects /\ pc[a] \notin Making
        BY <1>0, <1>21 DEF FinalizeFileDelete, LostInv, GoneFirst, Making
    <2>2. \A i \in RowIds : file[i] # None =>
              (file'[i] # None /\ file'[i].key = file[i].key) \/ file[i].key = frame[a].key
        BY <1>0, <1>21 DEF FinalizeFileDelete, LostInv, TypeInv, TypeOK
    <2> QED BY <1>0, <1>21, <2>1, <2>2, KeepReturn DEF FinalizeFileDelete, bounds
<1>22. ASSUME NEW a \in Actors, CompleteObjectCleanup(a) PROVE LostInv'
    <2>1. frame[a].key \notin objects /\ pc[a] \notin Making /\ jobs' = jobs \ {frame[a].key}
        BY <1>0, <1>22 DEF CompleteObjectCleanup, LostInv, GoneFirst, Making
    <2> QED BY <1>0, <1>22, <2>1, KeepReturn DEF CompleteObjectCleanup, bounds
<1>23. ASSUME NEW a \in Actors, Abandon(a) PROVE LostInv'
    <2>1. pc[a] \notin Making
        BY <1>23 DEF Abandon, Making
    <2>2. CASE Return(a)
        BY <1>0, <1>23, <2>1, <2>2, KeepReturn DEF Abandon, tables, bounds
    <2>3. CASE a \in Procs /\ EndRecovery(a)
        BY <1>0, <1>23, <2>1, <2>3, KeepStep DEF EndRecovery, Abandon, tables, bounds
    <2> QED BY <1>23, <2>2, <2>3 DEF Abandon
<1>24. ASSUME NEW p \in Procs, ObjectCleanupJobs(p) PROVE LostInv'
    <2>1. pc[p] \notin Making
        BY <1>24 DEF ObjectCleanupJobs, Making
    <2> QED BY <1>0, <1>24, <2>1, KeepGoto DEF ObjectCleanupJobs, Actors, tables, bounds
<1>25. ASSUME NEW p \in Procs, DeletingFiles(p) PROVE LostInv'
    <2>1. pc[p] \notin Making
        BY <1>25 DEF DeletingFiles, Making
    <2> QED BY <1>0, <1>25, <2>1, KeepGoto DEF DeletingFiles, Actors, tables, bounds
<1>26. ASSUME NEW p \in Procs, ScanJob(p) PROVE LostInv'
    <2>1. pc[p] \notin Making
        BY <1>26 DEF ScanJob, Making
    <2>2. CASE Goto(p, "tombstones") /\ frame' = frame
        BY <1>0, <1>26, <2>1, <2>2, KeepGoto DEF ScanJob, Actors, tables, bounds
    <2>3. ASSUME NEW k, Goto(p, "remove"),
                 frame' = [frame EXCEPT ![p] = [Blank EXCEPT !.op = "job", !.key = k]]
          PROVE  LostInv'
        BY <1>0, <1>26, <2>1, <2>3, KeepStep DEF ScanJob, Goto, Actors, tables, bounds
    <2> QED BY <1>26, <2>2, <2>3 DEF ScanJob
<1>27. ASSUME NEW p \in Procs, ScanTombstone(p) PROVE LostInv'
    <2>1. pc[p] \notin Making /\ pc' = [pc EXCEPT ![p] = "remove"]
        BY <1>27 DEF ScanTombstone, Making, Goto
    <2>2. PICK t : frame' = [frame EXCEPT ![p] =
                                [Blank EXCEPT !.op = "tombstone", !.id = t[1], !.key = t[2]]]
        BY <1>27 DEF ScanTombstone
    <2> QED BY <1>0, <1>27, <2>1, <2>2, KeepStep DEF ScanTombstone, Actors, tables, bounds
<1>28. ASSUME NEW p \in Procs, Boot(p) PROVE LostInv'
    <2>1. PICK l : Goto(p, l) /\ l \notin {"finalize", "complete"}
        BY <1>28 DEF Boot
    <2>2. p \notin Handlers
        BY PublishedAssumption
    <2> QED BY <1>0, <1>28, <2>1, <2>2, KeepGoto DEF Boot, Actors, tables, bounds
<1>29. ASSUME NEW p \in Procs, FinishRecovery(p) PROVE LostInv'
    <2>1. pc[p] \notin Making
        BY <1>29 DEF FinishRecovery, Making
    <2> QED BY <1>0, <1>29, <2>1, KeepStep DEF FinishRecovery, EndRecovery, Actors, tables, bounds
<1>30. ASSUME NEW p \in Procs, Crash(p) PROVE LostInv'
    <2>1. crashes' # 0
        BY <1>0, <1>30 DEF Crash, LostInv, TypeInv, TypeOK
    <2>2. objects' = objects /\ \A a \in Actors :
              pc'[a] # "idle" => pc'[a] = pc[a] /\ frame'[a] = frame[a]
        BY <1>30 DEF Crash
    <2> QED BY <1>0, <2>1, <2>2 DEF LostInv, GoneFirst, NothingLost
<1>31. ASSUME UNCHANGED vars PROVE LostInv'
    BY <1>0, <1>31 DEF LostInv, GoneFirst, NothingLost, vars
<1> QED BY <1>1, <1>2, <1>3, <1>4, <1>5, <1>6, <1>7, <1>8, <1>9, <1>10, <1>11,
          <1>12, <1>13, <1>14, <1>15, <1>16, <1>17, <1>18, <1>19, <1>20, <1>21,
          <1>22, <1>23, <1>24, <1>25, <1>26, <1>27, <1>28, <1>29, <1>30, <1>31
       DEF Next, Creating, Changing, Removing, Recovering

\* published.go:161-176: without crashes and unrecorded cleanups every object has a
\* row, a cleanup job, or the handler that is creating it.
THEOREM NothingIsLost == Spec => []NothingLost
<1>1. Init => LostInv
    BY TypeInvInit DEF Init, LostInv, GoneFirst, NothingLost
<1>2. LostInv /\ [Next]_vars => LostInv'
    BY LostInvStep
<1>3. LostInv => NothingLost
    BY DEF LostInv
<1> QED BY <1>1, <1>2, <1>3, PTL DEF Spec

-----------------------------------------------------------------------------
(* Recovery                                                                 *)

\* All requests go to one server; --recover-only runs may run beside it.
SingleServer == \A g, h \in Handlers : Home[g] = Home[h]

\* A handler is at work only in a process that serves, a main goroutine exactly while
\* its process recovers, and what it removes is a job's or a tombstone's object.
Passing(p) ==
    /\ pc[p] = "remove" => frame[p].op \in {"job", "tombstone"}
    /\ pc[p] = "complete" => frame[p].op = "job"
    /\ pc[p] = "finalize" => frame[p].op = "tombstone"

Modes ==
    /\ \A h \in Handlers : pc[h] # "idle" => mode[Home[h]] = "serving"
    /\ \A p \in Procs : (pc[p] # "idle" <=> mode[p] = "recovering") /\ Passing(p)

Alone(a) == \A b \in Actors : b # a => pc'[b] = pc[b] /\ frame'[b] = frame[b]

\* A goroutine goes on with a request or a pass, or a handler begins a request.
Working(a) ==
    /\ Alone(a) /\ mode' = mode
    /\ a \in Handlers => pc[a] # "idle" \/ mode[Home[a]] = "serving"
    /\ a \in Procs => pc[a] # "idle" /\ pc'[a] # "idle" /\ Passing(a)'

LEMMA Returns ==
    ASSUME TypeInv, NEW a \in Actors, Return(a)
    PROVE  /\ Alone(a) /\ frame'[a] = Blank
           /\ pc'[a] = IF a \in Handlers THEN "idle"
                       ELSE IF frame[a].op = "job" THEN "scan" ELSE "scan2"
<1>1. pc \in [Actors -> Points] /\ frame \in [Actors -> Frames]
    BY DEF TypeInv, TypeOK
<1> QED BY <1>1 DEF Return, Alone

LEMMA ModeKinds ==
    ASSUME TypeInv, Modes, [Next]_vars
    PROVE  \/ \E a \in Actors : Working(a)
           \/ \E p \in Procs : Boot(p) \/ Crash(p) \/ (EndRecovery(p) /\ pc[p] # "idle")
           \/ UNCHANGED <<pc, frame, mode>>
<1> DEFINE Goal == \/ \E a \in Actors : Working(a)
                   \/ \E p \in Procs : Boot(p) \/ Crash(p) \/ (EndRecovery(p) /\ pc[p] # "idle")
                   \/ UNCHANGED <<pc, frame, mode>>
<1>0. /\ pc \in [Actors -> Points] /\ frame \in [Actors -> Frames]
      /\ Handlers \subseteq Actors /\ Procs \subseteq Actors /\ Actors = Handlers \cup Procs
      /\ \A p \in Procs : p \notin Handlers
    BY PublishedAssumption DEF TypeInv, TypeOK, Actors
<1> USE <1>0
<1>1. ASSUME NEW a \in Actors, Return(a), mode' = mode, pc[a] # "idle" PROVE Goal
    BY <1>1, Returns DEF Working, Passing
<1>2. ASSUME NEW h \in Handlers, Creating(h) PROVE Goal
    <2>1. CASE BeginCreate(h)
        BY <2>1 DEF BeginCreate, Idle, Goto, Working, Alone
    <2>2. CASE CheckParent(h)
        <3>1. CASE Return(h)
            BY <1>1, <2>2, <3>1 DEF CheckParent
        <3>2. CASE ~Return(h)
            <4>1. PICK l : Goto(h, l) /\ frame' = frame
                BY <2>2, <3>2 DEF CheckParent
            <4> QED BY <2>2, <4>1 DEF CheckParent, Goto, Working, Alone
        <3> QED BY <3>1, <3>2
    <2>3. CASE CheckFree(h)
        <3>1. CASE Return(h)
            BY <1>1, <2>3, <3>1 DEF CheckFree
        <3>2. CASE ~Return(h)
            <4>1. PICK l : Goto(h, l) /\ frame' = frame
                BY <2>3, <3>2 DEF CheckFree
            <4> QED BY <2>3, <4>1 DEF CheckFree, Goto, Working, Alone
        <3> QED BY <3>1, <3>2
    <2>4. CASE CreateObject(h) \/ CreateFileFails(h) \/ EnqueueObjectCleanup(h)
        BY <2>4 DEF CreateObject, CreateFileFails, EnqueueObjectCleanup, Goto, Working, Alone
    <2>5. CASE CreateContentFails(h) \/ CreateFile(h) \/ EnqueueFails(h) \/ CreateDirectory(h)
        BY <1>1, <2>5 DEF CreateContentFails, CreateFile, EnqueueFails, CreateDirectory
    <2>6. CASE UploadPublishes(h)
        BY <2>6 DEF UploadPublishes
    <2> QED BY <1>2, <2>1, <2>2, <2>3, <2>4, <2>5, <2>6 DEF Creating
<1>3. ASSUME NEW h \in Handlers, Changing(h) PROVE Goal
    <2>1. CASE BeginRename(h) \/ BeginDelete(h) \/ BeginRmdir(h)
        BY <2>1 DEF BeginRename, BeginDelete, BeginRmdir, Idle, Goto, Working, Alone
    <2>2. CASE RenameFile(h) \/ DeleteDirectory(h)
        BY <1>1, <2>2 DEF RenameFile, DeleteDirectory
    <2>3. CASE BeginFileDelete(h)
        BY <2>3 DEF BeginFileDelete, Goto, Working, Alone
    <2>4. CASE DirectoryEmpty(h)
        <3>1. CASE Return(h)
            BY <1>1, <2>4, <3>1 DEF DirectoryEmpty
        <3>2. CASE ~Return(h)
            BY <2>4, <3>2 DEF DirectoryEmpty, Goto, Working, Alone
        <3> QED BY <3>1, <3>2
    <2> QED BY <1>3, <2>1, <2>2, <2>3, <2>4 DEF Changing
<1>4. ASSUME NEW a \in Actors, Removing(a) PROVE Goal
    <2>1. CASE RemoveObject(a)
        <3>1. CASE Return(a)
            BY <1>1, <2>1, <3>1 DEF RemoveObject
        <3>2. CASE ~Return(a)
            <4>1. /\ Goto(a, IF frame[a].op \in {"create", "job"} THEN "complete" ELSE "finalize")
                  /\ frame' = frame /\ mode' = mode /\ pc[a] = "remove"
                BY <2>1, <3>2 DEF RemoveObject
            <4>2. a \in Procs => frame[a].op \in {"job", "tombstone"}
                BY <4>1 DEF Modes, Passing
            <4> QED BY <4>1, <4>2 DEF Goto, Working, Alone, Passing
        <3> QED BY <3>1, <3>2
    <2>2. CASE RemoveFails(a) \/ FinalizeFileDelete(a) \/ CompleteObjectCleanup(a)
        BY <1>1, <2>2 DEF RemoveFails, FinalizeFileDelete, CompleteObjectCleanup
    <2>3. CASE Abandon(a)
        BY <1>1, <2>3 DEF Abandon
    <2> QED BY <1>4, <2>1, <2>2, <2>3 DEF Removing
<1>5. ASSUME NEW p \in Procs, Recovering(p) PROVE Goal
    <2>1. CASE ObjectCleanupJobs(p) \/ DeletingFiles(p)
        BY <2>1 DEF ObjectCleanupJobs, DeletingFiles, Goto, Working, Alone, Passing
    <2>2. CASE ScanJob(p)
        <3>1. CASE Goto(p, "tombstones") /\ frame' = frame
            BY <2>2, <3>1 DEF ScanJob, Goto, Working, Alone, Passing
        <3>2. CASE ~(Goto(p, "tombstones") /\ frame' = frame)
            <4>1. PICK k \in todo[p].jobs :
                     /\ frame' = [frame EXCEPT ![p] = [Blank EXCEPT !.op = "job", !.key = k]]
                     /\ Goto(p, "remove")
                BY <2>2, <3>2 DEF ScanJob
            <4>2. frame'[p].op = "job"
                BY <4>1 DEF Blank
            <4> QED BY <2>2, <4>1, <4>2 DEF ScanJob, Goto, Working, Alone, Passing
        <3> QED BY <3>1, <3>2
    <2>3. CASE ScanTombstone(p)
        <3>1. PICK t \in todo[p].tombstones :
                 frame' = [frame EXCEPT ![p] =
                              [Blank EXCEPT !.op = "tombstone", !.id = t[1], !.key = t[2]]]
            BY <2>3 DEF ScanTombstone
        <3>2. frame'[p].op = "tombstone"
            BY <3>1 DEF Blank
        <3> QED BY <2>3, <3>1, <3>2 DEF ScanTombstone, Goto, Working, Alone, Passing
    <2>4. CASE FinishRecovery(p)
        BY <2>4 DEF FinishRecovery
    <2> QED BY <1>5, <2>1, <2>2, <2>3, <2>4 DEF Recovering
<1>6. ASSUME UNCHANGED vars PROVE Goal
    BY <1>6 DEF vars
<1> HIDE DEF Goal
<1>7. Goal
    BY <1>2, <1>3, <1>4, <1>5, <1>6 DEF Next
<1> QED BY <1>7 DEF Goal

LEMMA ModesStep ==
    ASSUME TypeInv, Modes, [Next]_vars
    PROVE  Modes'
<1>0. /\ pc \in [Actors -> Points] /\ frame \in [Actors -> Frames]
      /\ mode \in [Procs -> {"down", "recovering", "serving"}]
      /\ Handlers \subseteq Actors /\ Procs \subseteq Actors
      /\ \A p \in Procs : p \notin Handlers
      /\ \A h \in Handlers : Home[h] \in Procs
    BY PublishedAssumption DEF TypeInv, TypeOK, Actors
<1> USE <1>0
<1>1. ASSUME NEW a \in Actors, Working(a) PROVE Modes'
    BY <1>1 DEF Modes, Working, Alone, Passing
<1>2. ASSUME NEW p \in Procs, Boot(p) PROVE Modes'
    BY <1>2 DEF Modes, Boot, Goto, Passing
<1>3. ASSUME NEW p \in Procs, Crash(p) PROVE Modes'
    BY <1>3 DEF Modes, Crash, ProcOf, Passing
<1>4. ASSUME NEW p \in Procs, EndRecovery(p), pc[p] # "idle" PROVE Modes'
    BY <1>4 DEF Modes, EndRecovery, Passing
<1>5. ASSUME UNCHANGED <<pc, frame, mode>> PROVE Modes'
    BY <1>5 DEF Modes, Passing
<1> QED BY <1>1, <1>2, <1>3, <1>4, <1>5, ModeKinds

\* The recovery pass of a server whose limit leaves nothing out.
Thorough(p) ==
    /\ mode[p] = "recovering" /\ HandlersOf(p) # {}
    /\ PageLimit >= MaxId /\ PageLimit >= Cardinality(Keys)

\* The keys of recorded cleanups, and the tombstones, whose object is still there.
DueJobs == jobs \cap objects
DueTombstones == {t \in RowIds \X Keys : Tombstone(t[1]) /\ file[t[1]].key = t[2] /\ t[2] \in objects}

\* The list is behind the pass.
PastJobs(p) ==
    pc[p] \in {"tombstones", "scan2"} \/ (pc[p] \in {"remove", "finalize"} /\ frame[p].op = "tombstone")
Listed(p) == PastJobs(p) /\ pc[p] # "tombstones"

\* What is due is still on the pass's list, or in its hands.
Covered(p) ==
    /\ pc[p] # "jobs" => \A k \in DueJobs :
          k \in todo[p].jobs \/ (pc[p] = "remove" /\ frame[p].op = "job" /\ frame[p].key = k)
    /\ PastJobs(p) => todo[p].jobs = {}
    /\ Listed(p) => \A t \in DueTombstones :
          t \in todo[p].tombstones \/ (pc[p] = "remove" /\ frame[p].key = t[2])

RecoveryInv ==
    TypeInv /\ Modes /\ (faults = 0 => \A p \in Procs : Thorough(p) => Covered(p))

\* Nothing becomes due.
Shrinking == DueJobs' \subseteq DueJobs /\ DueTombstones' \subseteq DueTombstones

\* A server recovers before any of its handlers runs (main.go:133-170).
LEMMA OnlyRecovery ==
    ASSUME SingleServer, Modes, NEW p \in Procs, mode[p] = "recovering", HandlersOf(p) # {},
           [Next]_vars
    PROVE  (\E q \in Procs : Removing(q) \/ Recovering(q)) \/ UNCHANGED vars
<1>1. ASSUME NEW h \in Handlers PROVE pc[h] = "idle" /\ mode[Home[h]] # "serving"
    BY PublishedAssumption DEF SingleServer, Modes, HandlersOf
<1>2. ASSUME NEW h \in Handlers, Creating(h) PROVE FALSE
    BY <1>1, <1>2
       DEF Creating, BeginCreate, CheckParent, CheckFree, CreateObject, CreateContentFails,
           CreateFile, CreateFileFails, EnqueueObjectCleanup, EnqueueFails, CreateDirectory,
           UploadPublishes, Idle
<1>3. ASSUME NEW h \in Handlers, Changing(h) PROVE FALSE
    BY <1>1, <1>3
       DEF Changing, BeginRename, RenameFile, BeginDelete, BeginFileDelete, BeginRmdir,
           DirectoryEmpty, DeleteDirectory, Idle
<1>4. ASSUME NEW h \in Handlers, Removing(h) PROVE FALSE
    <2>1. h \notin Procs
        BY PublishedAssumption
    <2> QED BY <1>1, <1>4, <2>1
            DEF Removing, RemoveObject, RemoveFails, FinalizeFileDelete, CompleteObjectCleanup,
                Abandon
<1> QED BY <1>2, <1>3, <1>4 DEF Next, Actors

\* Recovery removes objects, jobs and tombstones and makes none.
LEMMA RecoveryShrinks ==
    ASSUME TypeInv, NEW q \in Procs, Removing(q) \/ Recovering(q)
    PROVE  Shrinking
<1> DEFINE Goal == Shrinking
<1>1. ASSUME jobs' \subseteq jobs, objects' \subseteq objects, file' = file PROVE Goal
    BY <1>1 DEF Shrinking, DueJobs, DueTombstones, Tombstone
<1>2. CASE FinalizeFileDelete(q)
    <2>1. PICK i : file' = file \/ file' = [file EXCEPT ![i] = None]
        BY <1>2 DEF FinalizeFileDelete
    <2>2. \A j \in RowIds : file'[j] # None => file'[j] = file[j]
        BY <2>1 DEF TypeInv, TypeOK
    <2>3. jobs' = jobs /\ objects' = objects
        BY <1>2 DEF FinalizeFileDelete
    <2> QED BY <2>2, <2>3 DEF Shrinking, DueJobs, DueTombstones, Tombstone
<1>3. CASE Removing(q) /\ ~FinalizeFileDelete(q)
    BY <1>1, <1>3 DEF Removing, RemoveObject, RemoveFails, CompleteObjectCleanup, Abandon, tables
<1>4. CASE Recovering(q)
    BY <1>1, <1>4
       DEF Recovering, Boot, ObjectCleanupJobs, ScanJob, DeletingFiles, ScanTombstone,
           FinishRecovery, Crash, tables
<1> QED BY <1>2, <1>3, <1>4

\* Two passes keep their own lists and positions.
LEMMA PassesApart ==
    ASSUME TypeInv, NEW p \in Procs, NEW q \in Procs, q # p, Removing(q) \/ Recovering(q)
    PROVE  pc'[p] = pc[p] /\ frame'[p] = frame[p] /\ todo'[p] = todo[p]
<1> DEFINE Goal == pc'[p] = pc[p] /\ frame'[p] = frame[p] /\ todo'[p] = todo[p]
<1>0. /\ pc \in [Actors -> Points] /\ frame \in [Actors -> Frames] /\ todo \in [Procs -> Todos]
      /\ p \in Actors /\ q \in Actors /\ p \notin Handlers
    BY PublishedAssumption DEF TypeInv, TypeOK, Actors
<1> USE <1>0
<1>1. ASSUME Return(q), todo' = todo PROVE Goal
    BY <1>1 DEF Return
<1>2. ASSUME EndRecovery(q) PROVE Goal
    BY <1>2 DEF EndRecovery
<1>3. CASE RemoveObject(q) \/ RemoveFails(q) \/ FinalizeFileDelete(q) \/ CompleteObjectCleanup(q)
    BY <1>1, <1>3 DEF RemoveObject, RemoveFails, FinalizeFileDelete, CompleteObjectCleanup, Goto
<1>4. CASE Abandon(q) \/ FinishRecovery(q)
    BY <1>1, <1>2, <1>4 DEF Abandon, FinishRecovery
<1>5. CASE Boot(q) \/ ObjectCleanupJobs(q) \/ ScanJob(q) \/ DeletingFiles(q) \/ ScanTombstone(q)
    BY <1>5 DEF Boot, ObjectCleanupJobs, ScanJob, DeletingFiles, ScanTombstone, Goto
<1>6. CASE Crash(q)
    BY <1>6 DEF Crash, ProcOf
<1> QED BY <1>3, <1>4, <1>5, <1>6 DEF Removing, Recovering

\* Both lists fit the limit, so they are read whole.
LEMMA ListedAll ==
    ASSUME TypeInv, IsFiniteSet(Keys), PageLimit >= MaxId, PageLimit >= Cardinality(Keys)
    PROVE  /\ \A S : Page(S, jobs) => S = jobs
           /\ LET all == {<<i, file[i].key>> : i \in {j \in RowIds : Tombstone(j)}}
              IN  \A S : Page(S, all) => S = all
<1> DEFINE all == {<<i, file[i].key>> : i \in {j \in RowIds : Tombstone(j)}}
           row == [t \in all |-> t[1]]
<1>0. PageLimit \in Nat /\ MaxId \in Nat /\ jobs \in SUBSET Keys
    BY PublishedAssumption DEF TypeInv, TypeOK
<1>1. Cardinality(jobs) <= PageLimit
    <2>1. /\ Cardinality(jobs) <= Cardinality(Keys)
          /\ Cardinality(jobs) \in Nat /\ Cardinality(Keys) \in Nat
        BY <1>0, FS_Subset, FS_CardinalityType
    <2> QED BY <1>0, <2>1
<1>2. Cardinality(all) <= PageLimit
    <2>1. IsFiniteSet(RowIds) /\ Cardinality(RowIds) = MaxId
        <3>1. IsFiniteSet(1..MaxId) /\ Cardinality(1..MaxId) = IF 1 > MaxId THEN 0 ELSE MaxId - 1 + 1
            BY <1>0, FS_Interval
        <3> QED BY <1>0, <3>1 DEF RowIds
    <2>2. row \in Injection(all, RowIds)
        <3>1. row \in [all -> RowIds] /\ \A s, t \in all : row[s] = row[t] => s = t
            OBVIOUS
        <3> QED BY <3>1 DEF Injection, IsInjective
    <2>3. IsFiniteSet(all) /\ Cardinality(all) <= Cardinality(RowIds)
        BY <2>1, <2>2, FS_Injection
    <2>4. Cardinality(all) \in Nat
        BY <2>3, FS_CardinalityType
    <2> QED BY <1>0, <2>1, <2>3, <2>4
<1> HIDE DEF all
<1>3. (\A S : Page(S, jobs) => S = jobs) /\ (\A S : Page(S, all) => S = all)
    BY <1>1, <1>2 DEF Page
<1> QED BY <1>3 DEF all

\* What others do leaves a thorough pass covered.
LEMMA CoveredByOthers ==
    ASSUME Shrinking, NEW p \in Procs, Covered(p),
           pc'[p] = pc[p], frame'[p] = frame[p], todo'[p] = todo[p]
    PROVE  Covered(p)'
<1>1. PastJobs(p)' = PastJobs(p) /\ Listed(p)' = Listed(p)
    BY DEF PastJobs, Listed
<1> QED BY <1>1 DEF Covered, Shrinking

\* The pass reads its lists, takes an item, removes its object, and goes on.
LEMMA PassCovers ==
    ASSUME TypeInv, Modes, IsFiniteSet(Keys), NEW p \in Procs, Thorough(p), Covered(p),
           Shrinking, faults' = 0, Thorough(p)', Removing(p) \/ Recovering(p)
    PROVE  Covered(p)'
<1>0. /\ pc \in [Actors -> Points] /\ frame \in [Actors -> Frames] /\ todo \in [Procs -> Todos]
      /\ mode \in [Procs -> {"down", "recovering", "serving"}]
      /\ p \in Actors /\ p \notin Handlers
    BY PublishedAssumption DEF TypeInv, TypeOK, Actors
<1> USE <1>0
<1>1. ~Boot(p) /\ ~Crash(p) /\ ~EndRecovery(p)
    BY DEF Thorough, Boot, Crash, EndRecovery
<1>2. CASE ObjectCleanupJobs(p)
    <2>1. todo' = [todo EXCEPT ![p].jobs = jobs]
        BY <1>2, ListedAll DEF ObjectCleanupJobs, Thorough
    <2>2. todo'[p].jobs = jobs /\ pc'[p] = "scan"
        BY <1>2, <2>1 DEF ObjectCleanupJobs, Goto, Todos
    <2> QED BY <2>2 DEF Covered, Shrinking, DueJobs, PastJobs, Listed
<1>3. CASE ScanJob(p)
    <2>1. pc[p] = "scan" /\ \A k \in DueJobs : k \in todo[p].jobs
        BY <1>3 DEF ScanJob, Covered
    <2>2. CASE todo[p].jobs = {} /\ Goto(p, "tombstones") /\ UNCHANGED <<frame, todo>>
        <3>1. pc'[p] = "tombstones" /\ todo' = todo /\ DueJobs' = {}
            BY <2>1, <2>2 DEF Goto, Shrinking
        <3> QED BY <2>2, <3>1 DEF Covered, PastJobs, Listed
    <2>3. ASSUME NEW k \in todo[p].jobs, todo' = [todo EXCEPT ![p].jobs = @ \ {k}],
                 frame' = [frame EXCEPT ![p] = [Blank EXCEPT !.op = "job", !.key = k]],
                 Goto(p, "remove")
          PROVE  Covered(p)'
        <3>1. frame'[p].op = "job" /\ frame'[p].key = k
            BY <2>3 DEF Blank
        <3>2. pc'[p] = "remove"
            BY <2>3 DEF Goto
        <3>3. todo'[p].jobs = todo[p].jobs \ {k}
            BY <2>3 DEF Todos
        <3> QED BY <2>1, <3>1, <3>2, <3>3 DEF Covered, Shrinking, PastJobs, Listed
    <2> QED BY <1>3, <2>2, <2>3 DEF ScanJob
<1>4. CASE DeletingFiles(p)
    <2> DEFINE all == {<<i, file[i].key>> : i \in {j \in RowIds : Tombstone(j)}}
    <2>1. PICK S : Page(S, all) /\ todo' = [todo EXCEPT ![p].tombstones = S]
        BY <1>4 DEF DeletingFiles
    <2>2. S = all
        BY <2>1, ListedAll DEF Thorough
    <2>3. /\ todo'[p].tombstones = all /\ todo'[p].jobs = todo[p].jobs
          /\ pc[p] = "tombstones" /\ pc'[p] = "scan2"
        BY <1>4, <2>1, <2>2 DEF DeletingFiles, Goto, Todos
    <2>4. DueTombstones \subseteq all
        <3> SUFFICES ASSUME NEW t \in DueTombstones PROVE t \in all
            OBVIOUS
        <3>1. t[1] \in RowIds /\ t = <<t[1], t[2]>> /\ Tombstone(t[1]) /\ file[t[1]].key = t[2]
            BY DEF DueTombstones
        <3> QED BY <3>1
    <2>5. todo[p].jobs = {} /\ DueJobs = {}
        BY <2>3 DEF Covered, PastJobs
    <2> QED BY <2>3, <2>4, <2>5 DEF Covered, Shrinking, PastJobs, Listed
<1>5. CASE ScanTombstone(p)
    <2>1. /\ pc[p] = "scan2" /\ todo[p].jobs = {} /\ DueJobs = {}
          /\ \A t \in DueTombstones : t \in todo[p].tombstones
        BY <1>5 DEF ScanTombstone, Covered, PastJobs, Listed
    <2>2. PICK t \in todo[p].tombstones :
             /\ todo' = [todo EXCEPT ![p].tombstones = @ \ {t}]
             /\ frame' = [frame EXCEPT ![p] =
                             [Blank EXCEPT !.op = "tombstone", !.id = t[1], !.key = t[2]]]
        BY <1>5 DEF ScanTombstone
    <2>3. frame'[p].op = "tombstone" /\ frame'[p].key = t[2]
        BY <2>2 DEF Blank
    <2>4. pc'[p] = "remove"
        BY <1>5 DEF ScanTombstone, Goto
    <2>5. todo'[p].tombstones = todo[p].tombstones \ {t} /\ todo'[p].jobs = {}
        BY <2>1, <2>2 DEF Todos
    <2> QED BY <2>1, <2>3, <2>4, <2>5 DEF Covered, Shrinking, PastJobs, Listed
<1>6. ASSUME Return(p), todo' = todo, pc[p] \in {"remove", "finalize", "complete"},
             pc[p] = "remove" => frame[p].key \notin objects'
      PROVE  Covered(p)'
    <2>1. pc'[p] = IF frame[p].op = "job" THEN "scan" ELSE "scan2"
        BY <1>6, Returns
    <2>2. pc[p] = "remove" => /\ frame[p].key \notin DueJobs'
                              /\ \A t \in DueTombstones' : t[2] # frame[p].key
        BY <1>6 DEF DueJobs, DueTombstones
    <2>3. \A k \in DueJobs' : k \in todo[p].jobs
        BY <1>6, <2>2 DEF Covered, Shrinking
    <2>4. CASE frame[p].op = "job"
        BY <1>6, <2>1, <2>3, <2>4 DEF Covered, PastJobs, Listed
    <2>5. CASE frame[p].op # "job"
        <3>1. PastJobs(p) /\ Listed(p)
            BY <1>6, <2>5 DEF Modes, Passing, PastJobs, Listed
        <3>2. todo[p].jobs = {} /\ \A t \in DueTombstones' : t \in todo[p].tombstones
            BY <1>6, <2>2, <3>1 DEF Covered, Shrinking
        <3> QED BY <1>6, <2>1, <2>3, <2>5, <3>2 DEF Covered, PastJobs, Listed
    <2> QED BY <2>4, <2>5
<1>7. CASE RemoveObject(p)
    <2>1. CASE Return(p)
        <3>1. todo' = todo /\ pc[p] = "remove" /\ frame[p].key \notin objects'
            BY <1>1, <1>7, <2>1 DEF RemoveObject, TypeInv, TypeOK
        <3> QED BY <1>6, <2>1, <3>1
    <2>2. CASE ~Return(p)
        <3>1. /\ pc'[p] = IF frame[p].op \in {"create", "job"} THEN "complete" ELSE "finalize"
              /\ frame' = frame /\ todo' = todo /\ pc[p] = "remove" /\ frame[p].key \notin objects'
            BY <1>7, <2>2 DEF RemoveObject, Goto
        <3>2. frame[p].op \in {"job", "tombstone"}
            BY <3>1 DEF Modes, Passing
        <3>3. /\ frame[p].key \notin DueJobs'
              /\ \A t \in DueTombstones' : t[2] # frame[p].key
            BY <3>1 DEF DueJobs, DueTombstones
        <3> QED BY <3>1, <3>2, <3>3 DEF Covered, Shrinking, PastJobs, Listed
    <2> QED BY <2>1, <2>2
<1>8. CASE FinalizeFileDelete(p) \/ CompleteObjectCleanup(p)
    BY <1>6, <1>8 DEF FinalizeFileDelete, CompleteObjectCleanup
<1>9. CASE RemoveFails(p)
    BY <1>9 DEF RemoveFails, Fault, TypeInv, TypeOK
<1> QED BY <1>1, <1>2, <1>3, <1>4, <1>5, <1>7, <1>8, <1>9
        DEF Removing, Recovering, Abandon, FinishRecovery

LEMMA CoveredStep ==
    ASSUME SingleServer, IsFiniteSet(Keys), RecoveryInv, [Next]_vars, faults' = 0,
           NEW p \in Procs, Thorough(p)'
    PROVE  Covered(p)'
<1>0. /\ p \in Actors /\ pc \in [Actors -> Points] /\ TypeInv /\ Modes
      /\ mode \in [Procs -> {"down", "recovering", "serving"}]
    BY DEF RecoveryInv, TypeInv, TypeOK, Actors
<1> USE <1>0
<1>1. CASE mode[p] # "recovering"
    <2>1. Boot(p)
        <3>1. mode'[p] = "recovering"
            BY DEF Thorough
        <3>2. PICK q \in Procs : Boot(q) \/ Crash(q) \/ EndRecovery(q)
            BY <1>1, <3>1, ModeKinds DEF Working
        <3> QED BY <1>1, <3>1, <3>2 DEF Boot, Crash, EndRecovery
    <2>2. pc'[p] = "jobs"
        BY <2>1 DEF Boot, Goto
    <2> QED BY <2>2 DEF Covered, PastJobs, Listed
<1>2. CASE mode[p] = "recovering"
    <2>1. (\E q \in Procs : Removing(q) \/ Recovering(q)) \/ UNCHANGED vars
        BY <1>2, OnlyRecovery DEF Thorough
    <2>2. faults = 0
        <3>1. CASE UNCHANGED vars
            BY <3>1 DEF vars
        <3>2. ASSUME NEW q \in Procs, Removing(q) PROVE faults = 0
            BY <3>2
               DEF Removing, RemoveObject, RemoveFails, Fault, FinalizeFileDelete,
                   CompleteObjectCleanup, Abandon, bounds, TypeInv, TypeOK
        <3>3. ASSUME NEW q \in Procs, Recovering(q) PROVE faults = 0
            BY <3>3
               DEF Recovering, Boot, ObjectCleanupJobs, ScanJob, DeletingFiles, ScanTombstone,
                   FinishRecovery, Crash, bounds
        <3> QED BY <2>1, <3>1, <3>2, <3>3
    <2>3. Thorough(p) /\ Covered(p)
        BY <1>2, <2>2 DEF Thorough, RecoveryInv
    <2>4. CASE UNCHANGED vars
        <3>1. Shrinking /\ pc' = pc /\ frame' = frame /\ todo' = todo
            BY <2>4 DEF vars, Shrinking, DueJobs, DueTombstones, Tombstone
        <3> QED BY <2>3, <3>1, CoveredByOthers
    <2>5. ASSUME NEW q \in Procs, Removing(q) \/ Recovering(q) PROVE Covered(p)'
        <3>1. Shrinking
            BY <2>5, RecoveryShrinks
        <3>2. CASE q = p
            BY <2>3, <2>5, <3>1, <3>2, PassCovers
        <3>3. CASE q # p
            BY <2>3, <2>5, <3>1, <3>3, PassesApart, CoveredByOthers
        <3> QED BY <3>2, <3>3
    <2> QED BY <2>1, <2>4, <2>5
<1> QED BY <1>1, <1>2

\* README.md:74 and publishedrecovery/recovery.go: a startup pass with room for everything and without a failing
\* removal leaves no object of a recorded cleanup and none of a deleted file by the time
\* the server serves, whatever the crashes before it and whatever pass runs beside it.
THEOREM RecoveryLeavesNoGarbage ==
    ASSUME SingleServer, IsFiniteSet(Keys)
    PROVE  Spec => RecoveryReclaims
<1>1. Init => RecoveryInv
    <2> SUFFICES ASSUME Init PROVE RecoveryInv
        OBVIOUS
    <2>1. (\A a \in Actors : pc[a] = "idle") /\ (\A p \in Procs : mode[p] = "down")
        BY DEF Init
    <2> QED BY <2>1, TypeInvInit DEF RecoveryInv, Modes, Passing, Thorough, Actors
<1>2. RecoveryInv /\ [Next]_vars => RecoveryInv'
    <2> SUFFICES ASSUME RecoveryInv, [Next]_vars PROVE RecoveryInv'
        OBVIOUS
    <2>1. TypeInv' /\ Modes'
        BY TypeInvStep, ModesStep DEF RecoveryInv
    <2>2. faults' = 0 => \A p \in Procs : Thorough(p)' => Covered(p)'
        BY CoveredStep
    <2> QED BY <2>1, <2>2 DEF RecoveryInv
<1>3. ASSUME RecoveryInv, NEW p \in Procs, FinishRecovery(p), mode'[p] = "serving", faults = 0,
             PageLimit >= MaxId, PageLimit >= Cardinality(Keys)
      PROVE  jobs \cap objects = {} /\ \A i \in RowIds : Tombstone(i) => file[i].key \notin objects
    <2>1. pc[p] = "scan2" /\ todo[p].tombstones = {}
        BY <1>3 DEF FinishRecovery
    <2>2. mode \in [Procs -> {"down", "recovering", "serving"}] /\ objects \subseteq Keys
        BY <1>3 DEF RecoveryInv, TypeInv, TypeOK
    <2>3. HandlersOf(p) # {}
        BY <1>3, <2>2 DEF FinishRecovery, EndRecovery
    <2>4. Covered(p)
        BY <1>3, <2>1, <2>3 DEF RecoveryInv, Modes, Thorough
    <2>5. DueJobs = {} /\ DueTombstones = {}
        BY <2>1, <2>4 DEF Covered, PastJobs, Listed
    <2>6. ASSUME NEW i \in RowIds, Tombstone(i), file[i].key \in objects PROVE FALSE
        <3>1. <<i, file[i].key>> \in DueTombstones
            BY <2>2, <2>6 DEF DueTombstones
        <3> QED BY <2>5, <3>1
    <2> QED BY <2>5, <2>6 DEF DueJobs
<1>4. RecoveryInv /\ [Next]_vars =>
        [\A p \in Procs :
            (/\ FinishRecovery(p) /\ mode'[p] = "serving" /\ faults = 0
             /\ PageLimit >= MaxId /\ PageLimit >= Cardinality(Keys)) =>
                /\ jobs \cap objects = {}
                /\ \A i \in RowIds : Tombstone(i) => file[i].key \notin objects]_vars
    BY <1>3
<1> QED BY <1>1, <1>2, <1>4, PTL DEF Spec, RecoveryReclaims
=============================================================================
