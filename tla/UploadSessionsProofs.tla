------------------------ MODULE UploadSessionsProofs ------------------------
(***************************************************************************)
(* Types, mutual exclusion and metadata of UploadSessions, for any sets of *)
(* sessions, handlers and processes and any number of crashes and faults.  *)
(*                                                                         *)
(* TypeOK is inductive once FramesFilled is added: what a goroutine stores *)
(* into the tables has the right shape because its own local variables do. *)
(* SnapshotCurrent needs to know that whoever acts under a lock holds it   *)
(* (LocksHeld), and that the one write to a row made without a lock, the   *)
(* insert, meets no row (StagedFresh).  FileHasObject needs to know that   *)
(* an object in the middle of a publication is named by nobody else        *)
(* (ObjectsOwned).                                                         *)
(***************************************************************************)
EXTENDS UploadSessions, SequenceTheorems, TLAPS

-----------------------------------------------------------------------------
(* Files, rows and frames                                                   *)

\* A truncated file is content again.
LEMMA TruncatedType ==
    ASSUME NEW s \in Content, NEW n \in Nat
    PROVE  Truncated(s, n) \in Content
<1>1. \A i \in 1..n : (IF i <= Len(s) THEN s[i] ELSE Hole) \in Data \cup {Hole}
    <2> TAKE i \in 1..n
    <2>1. CASE i <= Len(s)
        BY <2>1, ElementOfSeq DEF Content
    <2>2. CASE ~(i <= Len(s))
        BY <2>2
    <2> QED BY <2>1, <2>2
<1> QED BY <1>1, SeqDef DEF Truncated, Content

\* So is a file written to in the middle.
LEMMA PatchedType ==
    ASSUME NEW s \in Content, NEW d \in Content, NEW off \in Nat
    PROVE  Patched(s, off, d) \in Content
<1> DEFINE m == Max2(Len(s), off + Len(d))
<1>1. m \in Nat
    BY LenProperties DEF Max2, Content
<1>2. \A i \in 1..m : (IF i \in (off + 1)..(off + Len(d)) THEN d[i - off]
                        ELSE IF i <= Len(s) THEN s[i] ELSE Hole) \in Data \cup {Hole}
    <2> TAKE i \in 1..m
    <2>1. CASE i \in (off + 1)..(off + Len(d))
        <3>1. i - off \in 1..Len(d)
            BY <2>1, LenProperties DEF Content
        <3> QED BY <2>1, <3>1, ElementOfSeq DEF Content
    <2>2. CASE i \notin (off + 1)..(off + Len(d)) /\ i <= Len(s)
        BY <2>2, ElementOfSeq DEF Content
    <2>3. CASE i \notin (off + 1)..(off + Len(d)) /\ ~(i <= Len(s))
        BY <2>3
    <2> QED BY <2>1, <2>2, <2>3
<1> HIDE DEF m
<1>3. [i \in 1..m |-> IF i \in (off + 1)..(off + Len(d)) THEN d[i - off]
                      ELSE IF i <= Len(s) THEN s[i] ELSE Hole] \in Content
    BY <1>1, <1>2, SeqDef DEF Content
<1> QED BY <1>3 DEF Patched, m

\* The two columns that are ever updated.
LEMMA RowUpdates ==
    ASSUME NEW r \in Rows
    PROVE  /\ \A n \in 0..MaxLength : [r EXCEPT !.offset = n] \in Rows
           /\ \A t \in Statuses : [r EXCEPT !.status = t] \in Rows
    BY DEF Rows

\* A recovery run's lists, replaced one at a time.
LEMMA TodoUpdates ==
    ASSUME NEW t \in Todos, NEW I \in SUBSET Ids
    PROVE  [t EXCEPT !.page = I] \in Todos /\ [t EXCEPT !.names = I] \in Todos
    BY DEF Todos

\* A goroutine between two calls.
LEMMA BlankFrame == Blank \in Frames
    BY EmptySeq DEF Blank, Frames, Content

\* A goroutine that begins a call on a session.
LEMMA NewFrame ==
    ASSUME NEW o \in Ops, NEW i \in Ids
    PROVE  LET g == [Blank EXCEPT !.op = o, !.id = i]
           IN  g \in Frames /\ g.op = o /\ g.id = i
    BY BlankFrame DEF Frames, Blank

\* Assigning one local variable leaves the others alone.
LEMMA FrameUpdates ==
    ASSUME NEW f \in Frames
    PROVE  /\ \A s \in Rows \cup {None} :
                LET g == [f EXCEPT !.snap = s]
                IN  g \in Frames /\ g.snap = s
                    /\ g.op = f.op /\ g.id = f.id /\ g.data = f.data /\ g.key = f.key
           /\ \A d \in Content :
                LET g == [f EXCEPT !.data = d]
                IN  g \in Frames /\ g.data = d
                    /\ g.op = f.op /\ g.id = f.id /\ g.snap = f.snap /\ g.key = f.key
           /\ \A k \in Keys :
                LET g == [f EXCEPT !.key = k]
                IN  g \in Frames /\ g.key = k
                    /\ g.op = f.op /\ g.id = f.id /\ g.snap = f.snap /\ g.data = f.data
           /\ \A o \in Ops :
                LET g == [f EXCEPT !.op = o]
                IN  g \in Frames /\ g.op = o
                    /\ g.id = f.id /\ g.snap = f.snap /\ g.data = f.data /\ g.key = f.key
    BY DEF Frames

-----------------------------------------------------------------------------
(* How a step moves a goroutine                                             *)

\* A goroutine that moves to l with local variables f, which l must find filled in.
LEMMA StepTyped ==
    ASSUME TypeInv, NEW a \in Actors, NEW f \in Frames, NEW l \in Points,
           frame' = [frame EXCEPT ![a] = f], pc' = [pc EXCEPT ![a] = l],
           l \in Naming => f.id \in Ids,
           l \in Inside => f.snap \in Rows,
           l = "copied" => f.data \in Seq(Data),
           l \in Publishing => f.key \in Keys
    PROVE  frame' \in [Actors -> Frames] /\ pc' \in [Actors -> Points] /\ FramesFilled'
<1>1. frame \in [Actors -> Frames] /\ pc \in [Actors -> Points] /\ FramesFilled
    BY DEF TypeInv, TypeOK
<1>2. \A b \in Actors : /\ b # a => frame'[b] = frame[b] /\ pc'[b] = pc[b]
                        /\ frame'[a] = f /\ pc'[a] = l
    BY <1>1
<1>3. FramesFilled'
    <2> SUFFICES ASSUME NEW b \in Actors
                 PROVE  /\ pc'[b] \in Naming => frame'[b].id \in Ids
                        /\ pc'[b] \in Inside => frame'[b].snap \in Rows
                        /\ pc'[b] = "copied" => frame'[b].data \in Seq(Data)
                        /\ pc'[b] \in Publishing => frame'[b].key \in Keys
        BY DEF FramesFilled
    <2>1. CASE b = a
        BY <2>1, <1>2
    <2>2. CASE b # a
        BY <2>2, <1>1, <1>2 DEF FramesFilled
    <2> QED BY <2>1, <2>2
<1> QED BY <1>1, <1>3

\* ... that moves without touching them.
LEMMA GotoTyped ==
    ASSUME TypeInv, NEW a \in Actors, NEW l \in Points,
           frame' = frame, Goto(a, l),
           l \in Naming => frame[a].id \in Ids,
           l \in Inside => frame[a].snap \in Rows,
           l = "copied" => frame[a].data \in Seq(Data),
           l \in Publishing => frame[a].key \in Keys
    PROVE  frame' \in [Actors -> Frames] /\ pc' \in [Actors -> Points] /\ FramesFilled'
<1>1. frame' = [frame EXCEPT ![a] = frame[a]] /\ frame[a] \in Frames
    BY DEF TypeInv, TypeOK
<1> QED BY <1>1, StepTyped DEF Goto

\* ... that returns from its call.
LEMMA ReturnTyped ==
    ASSUME TypeInv, NEW a \in Actors, Return(a)
    PROVE  frame' \in [Actors -> Frames] /\ pc' \in [Actors -> Points] /\ FramesFilled'
<1> DEFINE l == IF a \in Procs THEN "scan" ELSE "idle"
<1>1. l \in Points /\ l \notin Naming /\ l \notin Inside /\ l # "copied" /\ l \notin Publishing
    BY DEF Points, Naming, Holding, Inside, Publishing
<1>2. frame' = [frame EXCEPT ![a] = Blank] /\ pc' = [pc EXCEPT ![a] = l]
    BY DEF Return
<1> HIDE DEF l
<1> QED BY <1>1, <1>2, BlankFrame, StepTyped

\* ... that ends its recovery run.
LEMMA EndRecoveryTyped ==
    ASSUME TypeInv, NEW p \in Procs, EndRecovery(p)
    PROVE  /\ frame' \in [Actors -> Frames] /\ pc' \in [Actors -> Points] /\ FramesFilled'
           /\ mode' \in [Procs -> {"down", "recovering", "serving"}]
           /\ todo' \in [Procs -> Todos]
<1>1. p \in Actors /\ "idle" \in Points /\ "idle" \notin Naming /\ "idle" \notin Inside
      /\ "idle" \notin Publishing
    BY DEF Actors, Points, Naming, Holding, Inside, Publishing
<1>2. frame' = [frame EXCEPT ![p] = Blank] /\ pc' = [pc EXCEPT ![p] = "idle"]
    BY DEF EndRecovery
<1>3. frame' \in [Actors -> Frames] /\ pc' \in [Actors -> Points] /\ FramesFilled'
    BY <1>1, <1>2, BlankFrame, StepTyped
<1>4. NoTodo \in Todos
    BY DEF NoTodo, Todos
<1>5. mode' \in [Procs -> {"down", "recovering", "serving"}]
    BY DEF EndRecovery, TypeInv, TypeOK
<1>6. todo' \in [Procs -> Todos]
    BY <1>4 DEF EndRecovery, TypeInv, TypeOK
<1> QED BY <1>3, <1>5, <1>6

-----------------------------------------------------------------------------
(* The actions that change more than a position                             *)

\* withLifecycleLock re-reads the row under the lock (session.go:105-113).
LEMMA AcquireTyped ==
    ASSUME TypeInv, NEW a \in Actors, Acquire(a)
    PROVE  TypeInv'
<1>1. frame' \in [Actors -> Frames] /\ pc' \in [Actors -> Points] /\ FramesFilled'
    <2> DEFINE g == [frame[a] EXCEPT !.snap = row[frame[a].id]]
    <2>1. frame[a] \in Frames /\ frame[a].id \in Ids /\ row[frame[a].id] \in Rows
        BY DEF Acquire, TypeInv, TypeOK, FramesFilled, Points, Naming, Holding, Inside,
               Publishing
    <2>2. g \in Frames /\ g.id = frame[a].id /\ g.snap = row[frame[a].id]
        BY <2>1, FrameUpdates
    <2>3. frame' = [frame EXCEPT ![a] = g] /\ pc' = [pc EXCEPT ![a] = "locked"]
        BY <2>1 DEF Acquire, Goto, TypeInv, TypeOK
    <2> HIDE DEF g
    <2> QED BY <2>1, <2>2, <2>3, StepTyped DEF Points, Naming, Holding, Inside, Publishing
<1>2. frame[a].id \in Ids
    BY DEF Acquire, TypeInv, TypeOK, FramesFilled, Points, Naming, Holding, Inside, Publishing
<1> QED BY <1>1, <1>2 DEF TypeInv, TypeOK, Acquire, Goto, ghost, bounds

\* A database or context error ends the wait for the lock (session.go:93-104).
LEMMA AcquireFailsTyped ==
    ASSUME TypeInv, NEW a \in Actors, AcquireFails(a)
    PROVE  TypeInv'
<1>1. frame' \in [Actors -> Frames] /\ pc' \in [Actors -> Points] /\ FramesFilled'
    BY EndRecoveryTyped, ReturnTyped DEF AcquireFails, GiveUp
<1>2. mode' \in [Procs -> {"down", "recovering", "serving"}] /\ todo' \in [Procs -> Todos]
    BY EndRecoveryTyped DEF AcquireFails, GiveUp, TypeInv, TypeOK
<1>3. lock' \in [Ids -> Actors \cup {None}]
    BY DEF AcquireFails, TypeInv, TypeOK
<1> QED BY <1>1, <1>2, <1>3 DEF TypeInv, TypeOK, AcquireFails, GiveUp, store, ghost, bounds

\* An error under the lock ends the call, or the recovery run.
LEMMA AbandonTyped ==
    ASSUME TypeInv, NEW a \in Actors, Abandon(a)
    PROVE  TypeInv'
<1>1. frame' \in [Actors -> Frames] /\ pc' \in [Actors -> Points] /\ FramesFilled'
    BY EndRecoveryTyped, ReturnTyped DEF Abandon, GiveUp
<1>2. mode' \in [Procs -> {"down", "recovering", "serving"}] /\ todo' \in [Procs -> Todos]
    BY EndRecoveryTyped DEF Abandon, GiveUp, TypeInv, TypeOK
<1>3. lock' \in [Ids -> Actors \cup {None}]
    BY DEF Abandon, Unlock, TypeInv, TypeOK
<1> QED BY <1>1, <1>2, <1>3 DEF TypeInv, TypeOK, Abandon, GiveUp, Unlock, store, ghost, bounds

\* cleanupLocked moves the row to its next status (session.go:244-257).
LEMMA MarkStatusTyped ==
    ASSUME TypeInv, NEW a \in Actors, MarkStatus(a)
    PROVE  TypeInv'
<1>1. frame' \in [Actors -> Frames] /\ pc' \in [Actors -> Points] /\ FramesFilled'
    <2>1. frame[a] \in Frames /\ frame[a].id \in Ids /\ frame[a].snap \in Rows
        BY DEF MarkStatus, TypeInv, TypeOK, FramesFilled, Points, Naming, Holding, Inside,
               Publishing
    <2>2. PICK to \in Statuses : frame' = [frame EXCEPT ![a].snap.status = to]
        BY DEF MarkStatus, Statuses
    <2> DEFINE r == [frame[a].snap EXCEPT !.status = to]
               g == [frame[a] EXCEPT !.snap = r]
    <2>3. r \in Rows
        BY <2>1, <2>2, RowUpdates
    <2>4. frame' = [frame EXCEPT ![a] = g] /\ pc' = [pc EXCEPT ![a] = "cleaning"]
        BY <2>2 DEF MarkStatus, TypeInv, TypeOK
    <2> HIDE DEF r
    <2>5. g \in Frames /\ g.id = frame[a].id /\ g.snap = r
        BY <2>1, <2>3, FrameUpdates
    <2> HIDE DEF g
    <2> QED BY <2>1, <2>3, <2>4, <2>5, StepTyped DEF Points, Naming, Holding, Inside, Publishing
<1>2. frame[a].id \in Ids
    BY DEF MarkStatus, TypeInv, TypeOK, FramesFilled, Points, Naming, Holding, Inside,
           Publishing
<1>3. row' \in [Ids -> Rows \cup {None}]
    <2>1. PICK to \in Statuses : row' = [row EXCEPT ![frame[a].id].status = to] /\ row[frame[a].id] # None
        BY DEF MarkStatus, Statuses
    <2>2. row \in [Ids -> Rows \cup {None}] /\ row[frame[a].id] \in Rows
        BY <1>2, <2>1 DEF TypeInv, TypeOK
    <2> QED BY <2>1, <2>2, RowUpdates
<1> QED BY <1>1, <1>2, <1>3 DEF TypeInv, TypeOK, MarkStatus, ghost, bounds

\* Create makes an empty part under a fresh id (session.go:61-65).
LEMMA CreatePartTyped ==
    ASSUME TypeInv, NEW h \in Handlers, CreatePart(h)
    PROVE  TypeInv'
<1>0. h \in Actors
    BY DEF Actors
<1>1. frame' \in [Actors -> Frames] /\ pc' \in [Actors -> Points] /\ FramesFilled'
    <2>1. PICK i \in FreshIds : frame' = [frame EXCEPT ![h] = [Blank EXCEPT !.op = "create", !.id = i]]
        BY DEF CreatePart
    <2> DEFINE g == [Blank EXCEPT !.op = "create", !.id = i]
    <2>2. g \in Frames /\ g.id = i /\ i \in Ids
        BY <2>1, NewFrame DEF Ops, FreshIds
    <2>3. frame' = [frame EXCEPT ![h] = g] /\ pc' = [pc EXCEPT ![h] = "staged"]
        BY <2>1 DEF CreatePart, Goto
    <2> HIDE DEF g
    <2> QED BY <1>0, <2>2, <2>3, StepTyped DEF Points, Naming, Holding, Inside, Publishing
<1>2. part' \in [Ids -> Content \cup {None}]
    BY EmptySeq DEF CreatePart, FreshIds, Content, TypeInv, TypeOK
<1> QED BY <1>0, <1>1, <1>2 DEF TypeInv, TypeOK, CreatePart, Goto, ghost, bounds

\* sessionFor resolves an id to a session (uploads.go:150-165).
LEMMA ArriveTyped ==
    ASSUME TypeInv, NEW h \in Handlers, Arrive(h)
    PROVE  TypeInv'
<1>0. h \in Actors
    BY DEF Actors
<1>1. frame' \in [Actors -> Frames] /\ pc' \in [Actors -> Points] /\ FramesFilled'
    <2>1. PICK i \in Ids, o \in Ops : frame' = [frame EXCEPT ![h] = [Blank EXCEPT !.op = o, !.id = i]]
        BY DEF Arrive, Ops
    <2> DEFINE g == [Blank EXCEPT !.op = o, !.id = i]
    <2>2. g \in Frames /\ g.id = i
        BY <2>1, NewFrame
    <2>3. frame' = [frame EXCEPT ![h] = g] /\ pc' = [pc EXCEPT ![h] = "blocked"]
        BY <2>1 DEF Arrive, Goto
    <2> HIDE DEF g
    <2> QED BY <1>0, <2>2, <2>3, StepTyped DEF Points, Naming, Holding, Inside, Publishing
<1> QED BY <1>0, <1>1 DEF TypeInv, TypeOK, Arrive, Goto, store, ghost, bounds

\* CreateUploadSession inserts an active row at offset 0 (repository.go:801).
LEMMA InsertRowTyped ==
    ASSUME TypeInv, NEW h \in Handlers, InsertRow(h)
    PROVE  TypeInv'
<1>0. h \in Actors
    BY DEF Actors
<1>1. frame' \in [Actors -> Frames] /\ pc' \in [Actors -> Points] /\ FramesFilled'
    BY <1>0, ReturnTyped DEF InsertRow
<1>2. row' \in [Ids -> Rows \cup {None}] /\ frame[h].id \in Ids
    <2>1. \A n \in 0..MaxLength, p \in Paths :
             [status |-> "active", offset |-> 0, length |-> n, path |-> p] \in Rows
        BY UploadAssumption DEF Rows, Statuses
    <2>2. frame[h].id \in Ids
        BY <1>0
           DEF InsertRow, TypeInv, TypeOK, FramesFilled, Points, Naming, Holding, Inside,
               Publishing
    <2>3. row \in [Ids -> Rows \cup {None}]
        BY DEF TypeInv, TypeOK
    <2> QED BY <2>1, <2>2, <2>3 DEF InsertRow
<1> QED BY <1>0, <1>1, <1>2 DEF TypeInv, TypeOK, InsertRow, bounds

\* Write truncates the part to the recorded offset and copies the body (session.go:137-149).
LEMMA WriteBodyTyped ==
    ASSUME TypeInv, NEW h \in Handlers, WriteBody(h)
    PROVE  TypeInv'
<1>0. h \in Actors
    BY DEF Actors
<1>1. frame' \in [Actors -> Frames] /\ pc' \in [Actors -> Points] /\ FramesFilled'
    <2>0a. PICK off \in 0..MaxLength, d \in Seq(Data) :
             /\ part' = [part EXCEPT ![frame[h].id] = Patched(Truncated(@, frame[h].snap.offset), off, d)]
             /\ frame' = [frame EXCEPT ![h].data = d]
        <3>1. frame[h].snap \in Rows
            BY <1>0
               DEF WriteBody, TypeInv, TypeOK, FramesFilled, Points, Naming, Holding, Inside,
                   Publishing
        <3>2. frame[h].snap.length \in Nat
            BY <3>1, UploadAssumption DEF Rows
        <3>3. \A off \in 0..MaxLength : 0..(frame[h].snap.length - off + 1) \subseteq Nat
            BY <3>2, UploadAssumption
        <3>4. \A n \in Nat : [1..n -> Data] \subseteq Seq(Data)
            BY SeqDef
        <3> QED BY <3>3, <3>4 DEF WriteBody
    <2>0. d \in Content
        BY SeqMonotonic DEF Content
    <2> DEFINE g == [frame[h] EXCEPT !.data = d]
    <2>1. frame[h] \in Frames /\ frame[h].id \in Ids /\ frame[h].snap \in Rows
        BY <1>0
           DEF WriteBody, TypeInv, TypeOK, FramesFilled, Points, Naming, Holding, Inside,
               Publishing
    <2>2. g \in Frames /\ g.id = frame[h].id /\ g.snap = frame[h].snap /\ g.data = d
        BY <2>0, <2>1, FrameUpdates
    <2>3. frame' = [frame EXCEPT ![h] = g] /\ pc' = [pc EXCEPT ![h] = "copied"]
        BY <1>0, <2>0a DEF WriteBody, Goto, TypeInv, TypeOK
    <2> HIDE DEF g
    <2> QED BY <1>0, <2>0a, <2>0, <2>1, <2>2, <2>3, StepTyped
       DEF Points, Naming, Holding, Inside, Publishing
<1>2. frame[h].id \in Ids /\ frame[h].snap \in Rows
    BY <1>0
       DEF WriteBody, TypeInv, TypeOK, FramesFilled, Points, Naming, Holding, Inside,
           Publishing
<1>3. part' \in [Ids -> Content \cup {None}]
    <2>1. PICK off \in 0..MaxLength, d \in Seq(Data) :
             /\ part' = [part EXCEPT ![frame[h].id] = Patched(Truncated(@, frame[h].snap.offset), off, d)]
             /\ frame' = [frame EXCEPT ![h].data = d]
        <3>1. frame[h].snap \in Rows
            BY <1>0
               DEF WriteBody, TypeInv, TypeOK, FramesFilled, Points, Naming, Holding, Inside,
                   Publishing
        <3>2. frame[h].snap.length \in Nat
            BY <3>1, UploadAssumption DEF Rows
        <3>3. \A off \in 0..MaxLength : 0..(frame[h].snap.length - off + 1) \subseteq Nat
            BY <3>2, UploadAssumption
        <3>4. \A n \in Nat : [1..n -> Data] \subseteq Seq(Data)
            BY SeqDef
        <3> QED BY <3>3, <3>4 DEF WriteBody
    <2>2. frame[h].snap.offset \in Nat /\ off \in Nat /\ d \in Content
        <3>1. frame[h].snap.offset \in Nat /\ off \in Nat
            BY <1>2 DEF Rows
        <3> QED BY <3>1, SeqMonotonic DEF Content
    <2>3. part \in [Ids -> Content \cup {None}] /\ part[frame[h].id] \in Content
        BY <1>2 DEF WriteBody, TypeInv, TypeOK
    <2>4. Patched(Truncated(part[frame[h].id], frame[h].snap.offset), off, d) \in Content
        BY <2>2, <2>3, TruncatedType, PatchedType
    <2> QED BY <2>1, <2>3, <2>4
<1> QED BY <1>0, <1>1, <1>2, <1>3 DEF TypeInv, TypeOK, WriteBody, Goto, ghost, bounds

\* The offset compare-and-swap never passes the declared length: Fits bounds
\* it (session.go:144-158).
LEMMA WriteCommitTyped ==
    ASSUME TypeInv, NEW h \in Handlers, WriteCommit(h)
    PROVE  TypeInv'
<1>0. h \in Actors
    BY DEF Actors
<1>1. frame' \in [Actors -> Frames] /\ pc' \in [Actors -> Points] /\ FramesFilled'
    BY <1>0, ReturnTyped DEF WriteCommit, UnlockAndReturn
<1>2. frame[h].id \in Ids /\ frame[h].snap \in Rows
    BY <1>0
       DEF WriteCommit, TypeInv, TypeOK, FramesFilled, Points, Naming, Holding, Inside,
           Publishing
<1>3. frame[h].data \in Seq(Data)
    BY <1>0
       DEF WriteCommit, TypeInv, TypeOK, FramesFilled, Points, Naming, Holding, Inside,
           Publishing
<1>4. frame[h].snap.offset + Len(frame[h].data) \in 0..MaxLength
    BY <1>2, <1>3, UploadAssumption, LenProperties DEF WriteCommit, Fits, Rows
<1>5. row' \in [Ids -> Rows \cup {None}]
    <2>1. row[frame[h].id] \in Rows /\ row \in [Ids -> Rows \cup {None}]
        BY <1>2 DEF WriteCommit, TypeInv, TypeOK
    <2> QED BY <1>2, <1>4, <2>1, RowUpdates DEF WriteCommit
<1>6. acked' \in [Ids -> Seq(Data)]
    BY <1>2, <1>3, ConcatProperties DEF WriteCommit, TypeInv, TypeOK
<1> QED BY <1>0, <1>1, <1>2, <1>3, <1>4, <1>5, <1>6
   DEF TypeInv, TypeOK, WriteCommit, UnlockAndReturn, Unlock, bounds

\* A failed Write cuts the part back (session.go:146-157).
LEMMA WriteUndoneTyped ==
    ASSUME TypeInv, NEW h \in Handlers, WriteUndone(h)
    PROVE  TypeInv'
<1>0. h \in Actors
    BY DEF Actors
<1>1. frame' \in [Actors -> Frames] /\ pc' \in [Actors -> Points] /\ FramesFilled'
    BY <1>0, ReturnTyped DEF WriteUndone, UnlockAndReturn
<1>2. frame[h].id \in Ids /\ frame[h].snap \in Rows
    BY <1>0
       DEF WriteUndone, TypeInv, TypeOK, FramesFilled, Points, Naming, Holding, Inside,
           Publishing
<1>3. part' \in [Ids -> Content \cup {None}]
    <2>1. frame[h].snap.offset \in Nat
        BY <1>2 DEF Rows
    <2>2. part \in [Ids -> Content \cup {None}]
        BY DEF TypeInv, TypeOK
    <2>3. (IF part[frame[h].id] = None THEN None
            ELSE Truncated(part[frame[h].id], frame[h].snap.offset)) \in Content \cup {None}
        BY <1>2, <2>1, <2>2, TruncatedType
    <2> QED BY <2>2, <2>3 DEF WriteUndone
<1> QED BY <1>0, <1>1, <1>2, <1>3
   DEF TypeInv, TypeOK, WriteUndone, UnlockAndReturn, Unlock, ghost, bounds

\* Complete's first critical section keeps the content it hashed (session.go:165-187).
LEMMA HashStagingTyped ==
    ASSUME TypeInv, NEW h \in Handlers, HashStaging(h)
    PROVE  TypeInv'
<1>0. h \in Actors
    BY DEF Actors
<1>1. frame' \in [Actors -> Frames] /\ pc' \in [Actors -> Points] /\ FramesFilled'
    <2> DEFINE f == [frame[h] EXCEPT !.data = part[frame[h].id]]
               g == [f EXCEPT !.snap = None]
    <2>1. frame[h] \in Frames /\ frame[h].id \in Ids /\ part[frame[h].id] \in Content
        BY <1>0
           DEF Hashable, Completable, HashStaging, TypeInv, TypeOK, FramesFilled, Points,
               Naming, Holding, Inside, Publishing
    <2>2. f \in Frames /\ f.id = frame[h].id
        BY <2>1, FrameUpdates
    <2>3. frame' = [frame EXCEPT ![h] = g] /\ pc' = [pc EXCEPT ![h] = "hashed"]
        BY <1>0 DEF HashStaging, Goto, TypeInv, TypeOK
    <2> HIDE DEF f
    <2>4. g \in Frames /\ g.id = frame[h].id
        BY <2>2, FrameUpdates
    <2> HIDE DEF g
    <2> QED BY <1>0, <2>1, <2>4, <2>3, StepTyped DEF Points, Naming, Holding, Inside, Publishing
<1> QED BY <1>0, <1>1 DEF TypeInv, TypeOK, HashStaging, Unlock, Goto, store, ghost, bounds

\* Complete goes on to its second critical section (session.go:188-194).
LEMMA ChecksumAcceptedTyped ==
    ASSUME TypeInv, NEW h \in Handlers, ChecksumAccepted(h)
    PROVE  TypeInv'
<1>0. h \in Actors
    BY DEF Actors
<1>1. frame' \in [Actors -> Frames] /\ pc' \in [Actors -> Points] /\ FramesFilled'
    <2> DEFINE g == [frame[h] EXCEPT !.op = "publish"]
    <2>1. frame[h] \in Frames /\ frame[h].id \in Ids
        BY <1>0
           DEF ChecksumAccepted, TypeInv, TypeOK, FramesFilled, Points, Naming, Holding,
               Inside, Publishing
    <2>2. g \in Frames /\ g.id = frame[h].id
        BY <2>1, FrameUpdates DEF Ops
    <2>3. frame' = [frame EXCEPT ![h] = g] /\ pc' = [pc EXCEPT ![h] = "blocked"]
        BY <1>0 DEF ChecksumAccepted, Goto, TypeInv, TypeOK
    <2> HIDE DEF g
    <2> QED BY <1>0, <2>1, <2>2, <2>3, StepTyped DEF Points, Naming, Holding, Inside, Publishing
<1> QED BY <1>0, <1>1 DEF TypeInv, TypeOK, ChecksumAccepted, Goto, store, ghost, bounds

\* PublishStaging renames the part to a fresh object (objects_unix.go:415).
LEMMA PublishStagingTyped ==
    ASSUME TypeInv, NEW h \in Handlers, PublishStaging(h)
    PROVE  TypeInv'
<1>0. h \in Actors
    BY DEF Actors
<1>1. frame' \in [Actors -> Frames] /\ pc' \in [Actors -> Points] /\ FramesFilled'
    <2>0. PICK k \in Keys : frame' = [frame EXCEPT ![h].key = k]
        BY DEF PublishStaging, FreshKeys
    <2> DEFINE g == [frame[h] EXCEPT !.key = k]
    <2>1. frame[h] \in Frames /\ frame[h].id \in Ids /\ frame[h].snap \in Rows
        BY <1>0
           DEF MayPublish, PublishStaging, TypeInv, TypeOK, FramesFilled, Points, Naming,
               Holding, Inside, Publishing
    <2>2. g \in Frames /\ g.id = frame[h].id /\ g.snap = frame[h].snap /\ g.key = k
        BY <2>0, <2>1, FrameUpdates
    <2>3. frame' = [frame EXCEPT ![h] = g] /\ pc' = [pc EXCEPT ![h] = "renamed"]
        BY <1>0, <2>0 DEF PublishStaging, Goto, TypeInv, TypeOK
    <2> HIDE DEF g
    <2> QED BY <1>0, <2>0, <2>1, <2>2, <2>3, StepTyped
       DEF Points, Naming, Holding, Inside, Publishing
<1>2. frame[h].id \in Ids
    BY <1>0
       DEF PublishStaging, MayPublish, TypeInv, TypeOK, FramesFilled, Points, Naming, Holding,
           Inside, Publishing
<1>3. part' \in [Ids -> Content \cup {None}] /\ objects' \in [Keys -> Content \cup {None}]
    BY <1>2 DEF PublishStaging, MovePart, FreshKeys, TypeInv, TypeOK
<1> QED BY <1>0, <1>1, <1>2, <1>3 DEF TypeInv, TypeOK, PublishStaging, Goto, ghost, bounds

\* PublishStaging renames, then a directory sync fails (objects_unix.go:440-452).
LEMMA PublishUnsyncedTyped ==
    ASSUME TypeInv, NEW h \in Handlers, PublishUnsynced(h)
    PROVE  TypeInv'
<1>0. h \in Actors
    BY DEF Actors
<1>1. frame' \in [Actors -> Frames] /\ pc' \in [Actors -> Points] /\ FramesFilled'
    BY <1>0, ReturnTyped DEF PublishUnsynced, UnlockAndReturn
<1>2. faults' \in Nat
    BY DEF PublishUnsynced, TypeInv, TypeOK, Fault
<1>3. frame[h].id \in Ids
    BY <1>0
       DEF PublishUnsynced, MayPublish, TypeInv, TypeOK, FramesFilled, Points, Naming,
           Holding, Inside, Publishing
<1>4. part' \in [Ids -> Content \cup {None}] /\ objects' \in [Keys -> Content \cup {None}]
    BY <1>3 DEF PublishUnsynced, MovePart, FreshKeys, TypeInv, TypeOK
<1> QED BY <1>0, <1>1, <1>2, <1>3, <1>4
   DEF TypeInv, TypeOK, PublishUnsynced, UnlockAndReturn, Unlock, Fault, ghost

\* CompleteUpload replaces the session row by a file row (repository.go:892).
LEMMA CommitFileTyped ==
    ASSUME TypeInv, NEW h \in Handlers, CommitFile(h)
    PROVE  TypeInv'
<1>0. h \in Actors
    BY DEF Actors
<1>1. frame' \in [Actors -> Frames] /\ pc' \in [Actors -> Points] /\ FramesFilled'
    BY <1>0, ReturnTyped DEF CommitFile, UnlockAndReturn
<1>2. frame[h].id \in Ids /\ frame[h].snap \in Rows
    BY <1>0
       DEF CommitFile, TypeInv, TypeOK, FramesFilled, Points, Naming, Holding, Inside,
           Publishing
<1>3. [key |-> frame[h].key, size |-> frame[h].snap.length, from |-> frame[h].id] \in Files
    <2>1. frame[h].key \in Keys
        BY <1>0
           DEF CommitFile, TypeInv, TypeOK, FramesFilled, Points, Naming, Holding, Inside,
               Publishing
    <2>2. frame[h].snap.length \in Nat
        BY <1>2, UploadAssumption DEF Rows
    <2> QED BY <1>2, <2>1, <2>2 DEF Files
<1>4. row' \in [Ids -> Rows \cup {None}]
    BY <1>2 DEF CommitFile, TypeInv, TypeOK
<1>5. files' \in [Paths -> Files \cup {None}]
    BY <1>3 DEF CommitFile, TypeInv, TypeOK
<1> QED BY <1>0, <1>1, <1>2, <1>3, <1>4, <1>5
   DEF TypeInv, TypeOK, CommitFile, UnlockAndReturn, Unlock, ghost, bounds

\* RestorePublished renames the object back (objects_unix.go:484).
LEMMA RestorePublishedTyped ==
    ASSUME TypeInv, NEW h \in Handlers, RestorePublished(h)
    PROVE  TypeInv'
<1>0. h \in Actors
    BY DEF Actors
<1>1. frame' \in [Actors -> Frames] /\ pc' \in [Actors -> Points] /\ FramesFilled'
    BY <1>0, ReturnTyped DEF RestorePublished, UnlockAndReturn
<1>2. frame[h].id \in Ids /\ frame[h].key \in Keys
    BY <1>0
       DEF RestorePublished, TypeInv, TypeOK, FramesFilled, Points, Naming, Holding, Inside,
           Publishing
<1>3. part' \in [Ids -> Content \cup {None}] /\ objects' \in [Keys -> Content \cup {None}]
    BY <1>2 DEF RestorePublished, TypeInv, TypeOK
<1> QED BY <1>0, <1>1, <1>2, <1>3
   DEF TypeInv, TypeOK, RestorePublished, UnlockAndReturn, Unlock, ghost, bounds

\* Recover reads one page of sessions (session.go:330).
LEMMA ListRowsTyped ==
    ASSUME TypeInv, NEW p \in Procs, ListRows(p)
    PROVE  TypeInv'
<1>0. p \in Actors
    BY DEF Actors
<1>1. frame' \in [Actors -> Frames] /\ pc' \in [Actors -> Points] /\ FramesFilled'
    BY <1>0, GotoTyped
       DEF ListRows, TypeInv, FramesFilled, Points, Naming, Holding, Inside, Publishing
<1>2. todo' \in [Procs -> Todos]
    <2>1. PICK I \in SUBSET Ids : todo' = [todo EXCEPT ![p].page = I]
        BY DEF ListRows, RowIds
    <2> DEFINE t == [todo[p] EXCEPT !.page = I]
    <2>2. todo \in [Procs -> Todos] /\ todo[p] \in Todos
        BY DEF TypeInv, TypeOK
    <2>3. t \in Todos
        BY <2>2, TodoUpdates
    <2>4. todo' = [todo EXCEPT ![p] = t]
        BY <2>1
    <2> HIDE DEF t
    <2> QED BY <2>2, <2>3, <2>4
<1> QED BY <1>0, <1>1, <1>2 DEF TypeInv, TypeOK, ListRows, Goto, store, ghost, bounds

\* Recover lists staging names within the rest of its limit (session.go:337).
LEMMA ListNamesTyped ==
    ASSUME TypeInv, NEW p \in Procs, ListNames(p)
    PROVE  TypeInv'
<1>0. p \in Actors
    BY DEF Actors
<1>1. frame' \in [Actors -> Frames] /\ pc' \in [Actors -> Points] /\ FramesFilled'
    BY <1>0, GotoTyped
       DEF ListNames, TypeInv, FramesFilled, Points, Naming, Holding, Inside, Publishing
<1>2. todo' \in [Procs -> Todos]
    <2>1. PICK I \in SUBSET Ids : todo' = [todo EXCEPT ![p].names = I]
        BY DEF ListNames
    <2> DEFINE t == [todo[p] EXCEPT !.names = I]
    <2>2. todo \in [Procs -> Todos] /\ todo[p] \in Todos
        BY DEF TypeInv, TypeOK
    <2>3. t \in Todos
        BY <2>2, TodoUpdates
    <2>4. todo' = [todo EXCEPT ![p] = t]
        BY <2>1
    <2> HIDE DEF t
    <2> QED BY <2>2, <2>3, <2>4
<1> QED BY <1>0, <1>1, <1>2 DEF TypeInv, TypeOK, ListNames, Goto, store, ghost, bounds

\* Recover takes the next row of its page (session.go:343).
LEMMA ScanRowTyped ==
    ASSUME TypeInv, NEW p \in Procs, ScanRow(p)
    PROVE  TypeInv'
<1>0. p \in Actors
    BY DEF Actors
<1>1. frame' \in [Actors -> Frames] /\ pc' \in [Actors -> Points] /\ FramesFilled'
    <2>1. PICK i \in Ids : frame' = [frame EXCEPT ![p] = [Blank EXCEPT !.op = "recover", !.id = i]]
        BY DEF ScanRow, TypeInv, TypeOK, Todos
    <2> DEFINE g == [Blank EXCEPT !.op = "recover", !.id = i]
    <2>2. g \in Frames /\ g.id = i
        BY <2>1, NewFrame DEF Ops
    <2>3. frame' = [frame EXCEPT ![p] = g] /\ pc' = [pc EXCEPT ![p] = "blocked"]
        BY <2>1 DEF ScanRow, Goto
    <2> HIDE DEF g
    <2> QED BY <1>0, <2>2, <2>3, StepTyped DEF Points, Naming, Holding, Inside, Publishing
<1>2. todo' \in [Procs -> Todos]
    <2>1. PICK i : todo' = [todo EXCEPT ![p].page = @ \ {i}]
        BY DEF ScanRow
    <2> DEFINE t == [todo[p] EXCEPT !.page = todo[p].page \ {i}]
    <2>2. todo \in [Procs -> Todos] /\ todo[p] \in Todos
        BY DEF TypeInv, TypeOK
    <2>3. t \in Todos
        <3>1. todo[p].page \ {i} \subseteq Ids
            BY <2>2 DEF Todos
        <3> QED BY <2>2, <3>1, TodoUpdates
    <2>4. todo' = [todo EXCEPT ![p] = t]
        BY <2>1
    <2> HIDE DEF t
    <2> QED BY <2>2, <2>3, <2>4
<1> QED BY <1>0, <1>1, <1>2 DEF TypeInv, TypeOK, ScanRow, Goto, store, ghost, bounds

\* Recover takes the next name of its listing (session.go:373).
LEMMA ScanNameTyped ==
    ASSUME TypeInv, NEW p \in Procs, ScanName(p)
    PROVE  TypeInv'
<1>0. p \in Actors
    BY DEF Actors
<1>1. frame' \in [Actors -> Frames] /\ pc' \in [Actors -> Points] /\ FramesFilled'
    <2>1. CASE UNCHANGED <<pc, frame>>
        BY <2>1 DEF TypeInv, TypeOK, FramesFilled
    <2>2. CASE Goto(p, "sidecar") /\ \E i \in Ids : frame' = [frame EXCEPT ![p] = [Blank EXCEPT !.op = "recover", !.id = i]]
        <3>1. PICK i \in Ids : frame' = [frame EXCEPT ![p] = [Blank EXCEPT !.op = "recover", !.id = i]]
            BY <2>2
        <3> DEFINE g == [Blank EXCEPT !.op = "recover", !.id = i]
        <3>2. g \in Frames /\ g.id = i
            BY <3>1, NewFrame DEF Ops
        <3>3. frame' = [frame EXCEPT ![p] = g] /\ pc' = [pc EXCEPT ![p] = "sidecar"]
            BY <2>2, <3>1 DEF Goto
        <3> HIDE DEF g
        <3> QED BY <1>0, <3>2, <3>3, StepTyped DEF Points, Naming, Holding, Inside, Publishing
    <2> QED BY <2>1, <2>2 DEF ScanName, TypeInv, TypeOK, Todos
<1>2. todo' \in [Procs -> Todos]
    <2>1. PICK i : todo' = [todo EXCEPT ![p].names = @ \ {i}]
        BY DEF ScanName
    <2> DEFINE t == [todo[p] EXCEPT !.names = todo[p].names \ {i}]
    <2>2. todo \in [Procs -> Todos] /\ todo[p] \in Todos
        BY DEF TypeInv, TypeOK
    <2>3. t \in Todos
        <3>1. todo[p].names \ {i} \subseteq Ids
            BY <2>2 DEF Todos
        <3> QED BY <2>2, <3>1, TodoUpdates
    <2>4. todo' = [todo EXCEPT ![p] = t]
        BY <2>1
    <2> HIDE DEF t
    <2> QED BY <2>2, <2>3, <2>4
<1> QED BY <1>0, <1>1, <1>2 DEF TypeInv, TypeOK, ScanName, Goto, store, ghost, bounds

\* Recover locks an orphan candidate (session.go:379).
LEMMA LockSidecarTyped ==
    ASSUME TypeInv, NEW p \in Procs, LockSidecar(p)
    PROVE  TypeInv'
<1>0. p \in Actors
    BY DEF Actors
<1>1. frame' \in [Actors -> Frames] /\ pc' \in [Actors -> Points] /\ FramesFilled'
    BY <1>0, GotoTyped
       DEF LockSidecar, TypeInv, FramesFilled, Points, Naming, Holding, Inside, Publishing
<1>2. frame[p].id \in Ids
    BY <1>0
       DEF LockSidecar, TypeInv, TypeOK, FramesFilled, Points, Naming, Holding, Inside,
           Publishing
<1> QED BY <1>0, <1>1, <1>2 DEF TypeInv, TypeOK, LockSidecar, Goto, ghost, bounds

\* Recover looks for a row again under the lock (session.go:389).
LEMMA RecheckRowTyped ==
    ASSUME TypeInv, NEW p \in Procs, RecheckRow(p)
    PROVE  TypeInv'
<1>0. p \in Actors
    BY DEF Actors
<1>1. frame' \in [Actors -> Frames] /\ pc' \in [Actors -> Points] /\ FramesFilled'
    <2>1. CASE Goto(p, "doomed") /\ UNCHANGED frame
        BY <1>0, <2>1, GotoTyped
           DEF RecheckRow, TypeInv, FramesFilled, Points, Naming, Holding, Inside, Publishing
    <2>2. CASE UnlockAndReturn(p)
        BY <1>0, <2>2, ReturnTyped DEF UnlockAndReturn
    <2> QED BY <2>1, <2>2 DEF RecheckRow
<1> QED BY <1>0, <1>1
   DEF TypeInv, TypeOK, RecheckRow, UnlockAndReturn, Unlock, Goto, store, ghost, bounds

\* Recover returns nil (session.go:411).
LEMMA FinishRecoveryTyped ==
    ASSUME TypeInv, NEW p \in Procs, FinishRecovery(p)
    PROVE  TypeInv'
<1>0. p \in Actors
    BY DEF Actors
<1>1. frame' \in [Actors -> Frames] /\ pc' \in [Actors -> Points] /\ FramesFilled'
    BY <1>0, EndRecoveryTyped DEF FinishRecovery
<1>2. mode' \in [Procs -> {"down", "recovering", "serving"}] /\ todo' \in [Procs -> Todos]
    BY EndRecoveryTyped DEF FinishRecovery
<1> QED BY <1>0, <1>1, <1>2 DEF TypeInv, TypeOK, FinishRecovery, store, ghost, bounds

\* Recover returns an error (session.go:330-412).
LEMMA RecoveryFailsTyped ==
    ASSUME TypeInv, NEW p \in Procs, RecoveryFails(p)
    PROVE  TypeInv'
<1>0. p \in Actors
    BY DEF Actors
<1>1. frame' \in [Actors -> Frames] /\ pc' \in [Actors -> Points] /\ FramesFilled'
    BY <1>0, EndRecoveryTyped DEF RecoveryFails
<1>2. mode' \in [Procs -> {"down", "recovering", "serving"}] /\ todo' \in [Procs -> Todos]
    BY EndRecoveryTyped DEF RecoveryFails
<1> QED BY <1>0, <1>1, <1>2 DEF TypeInv, TypeOK, RecoveryFails, store, ghost, bounds

\* A process crash resets its goroutines and frees its locks.
LEMMA CrashTyped ==
    ASSUME TypeInv, NEW p \in Procs, Crash(p)
    PROVE  TypeInv'
<1>1. /\ frame \in [Actors -> Frames] /\ pc \in [Actors -> Points] /\ FramesFilled
      /\ lock \in [Ids -> Actors \cup {None}] /\ crashes \in Nat
    BY DEF TypeInv, TypeOK
<1>2. \A a \in Actors : \/ pc'[a] = "idle" /\ frame'[a] = Blank
                        \/ pc'[a] = pc[a] /\ frame'[a] = frame[a]
    BY DEF Crash
<1>3. FramesFilled'
    <2>1. "idle" \notin Naming /\ "idle" \notin Inside /\ "idle" \notin Publishing
        BY DEF Naming, Holding, Inside, Publishing
    <2> QED BY <1>1, <1>2, <2>1 DEF FramesFilled
<1>4. frame' \in [Actors -> Frames]
    BY <1>1, BlankFrame DEF Crash
<1>5. pc' \in [Actors -> Points]
    BY <1>1 DEF Crash, Points
<1>6. lock' \in [Ids -> Actors \cup {None}]
    BY <1>1 DEF Crash
<1>7. todo' \in [Procs -> Todos]
    BY DEF Crash, NoTodo, Todos, TypeInv, TypeOK
<1>8. mode' \in [Procs -> {"down", "recovering", "serving"}] /\ crashes' \in Nat
    BY <1>1 DEF Crash, TypeInv, TypeOK
<1> QED BY <1>3, <1>4, <1>5, <1>6, <1>7, <1>8 DEF TypeInv, TypeOK, Crash, store, ghost

-----------------------------------------------------------------------------
(* Type correctness                                                         *)

\* No column, file, lock or local variable ever leaves its type: every step of
\* the uploads keeps TypeInv.
LEMMA TypeInvStep ==
    ASSUME TypeInv, [Next]_vars
    PROVE  TypeInv'
<1>1. ASSUME NEW a \in Actors, Acquire(a) PROVE TypeInv'
    BY <1>1, AcquireTyped
<1>2. ASSUME NEW a \in Actors, AcquireGone(a) PROVE TypeInv'
    BY <1>2, ReturnTyped DEF TypeInv, TypeOK, AcquireGone, store, ghost, bounds
<1>3. ASSUME NEW a \in Actors, AcquireFails(a) PROVE TypeInv'
    BY <1>3, AcquireFailsTyped
<1>4. ASSUME NEW a \in Actors, Abandon(a) PROVE TypeInv'
    BY <1>4, AbandonTyped
<1>5. ASSUME NEW a \in Actors, StartCleanup(a) PROVE TypeInv'
    BY <1>5, GotoTyped
       DEF TypeInv, TypeOK, FramesFilled, StartCleanup, Goto, store, ghost, bounds, 
                            Points, Naming, Holding, Inside, Publishing
<1>6. ASSUME NEW a \in Actors, KeepSession(a) PROVE TypeInv'
    BY <1>6, ReturnTyped
       DEF TypeInv, TypeOK, KeepSession, UnlockAndReturn, Unlock, store, ghost, bounds
<1>7. ASSUME NEW a \in Actors, MarkStatus(a) PROVE TypeInv'
    BY <1>7, MarkStatusTyped
<1>8. ASSUME NEW a \in Actors, Unlink(a) PROVE TypeInv'
    BY <1>8, GotoTyped DEF TypeInv, TypeOK, FramesFilled, Unlink, Goto, ghost, bounds, 
                            Points, Naming, Holding, Inside, Publishing
<1>9. ASSUME NEW a \in Actors, DeleteRow(a) PROVE TypeInv'
    BY <1>9, ReturnTyped DEF TypeInv, TypeOK, DeleteRow, UnlockAndReturn, Unlock, ghost, bounds
<1>10. ASSUME NEW h \in Handlers, CreatePart(h) PROVE TypeInv'
    BY <1>10, CreatePartTyped
<1>11. ASSUME NEW h \in Handlers, Arrive(h) PROVE TypeInv'
    BY <1>11, ArriveTyped
<1>12. ASSUME NEW h \in Handlers, InsertRow(h) PROVE TypeInv'
    BY <1>12, InsertRowTyped
<1>13. ASSUME NEW h \in Handlers, InsertFails(h) PROVE TypeInv'
    BY <1>13, ReturnTyped DEF Actors, TypeInv, TypeOK, InsertFails, ghost, bounds
<1>14. ASSUME NEW h \in Handlers, InsertFailsLeavingPart(h) PROVE TypeInv'
    <2>1. faults' \in Nat
        BY <1>14 DEF InsertFailsLeavingPart, Fault, TypeInv, TypeOK
    <2>2. frame' \in [Actors -> Frames] /\ pc' \in [Actors -> Points] /\ FramesFilled'
        BY <1>14, ReturnTyped DEF Actors, InsertFailsLeavingPart
    <2> QED BY <1>14, <2>1, <2>2
       DEF Actors, TypeInv, TypeOK, InsertFailsLeavingPart, store, ghost
<1>15. ASSUME NEW h \in Handlers, WriteBody(h) PROVE TypeInv'
    BY <1>15, WriteBodyTyped
<1>16. ASSUME NEW h \in Handlers, WriteRefused(h) PROVE TypeInv'
    BY <1>16, ReturnTyped
       DEF Actors, TypeInv, TypeOK, WriteRefused, UnlockAndReturn, Unlock, store, ghost, bounds
<1>17. ASSUME NEW h \in Handlers, WriteCommit(h) PROVE TypeInv'
    BY <1>17, WriteCommitTyped
<1>18. ASSUME NEW h \in Handlers, WriteUndone(h) PROVE TypeInv'
    BY <1>18, WriteUndoneTyped
<1>19. ASSUME NEW h \in Handlers, WriteNotUndone(h) PROVE TypeInv'
    <2>1. faults' \in Nat
        BY <1>19 DEF WriteNotUndone, Fault, TypeInv, TypeOK
    <2>2. frame' \in [Actors -> Frames] /\ pc' \in [Actors -> Points] /\ FramesFilled'
        BY <1>19, ReturnTyped DEF Actors, WriteNotUndone, UnlockAndReturn
    <2> QED BY <1>19, <2>1, <2>2
       DEF Actors, TypeInv, TypeOK, WriteNotUndone, UnlockAndReturn, Unlock, store, ghost
<1>20. ASSUME NEW h \in Handlers, HashStaging(h) PROVE TypeInv'
    BY <1>20, HashStagingTyped
<1>21. ASSUME NEW h \in Handlers, CompleteRefused(h) PROVE TypeInv'
    BY <1>21, ReturnTyped
       DEF Actors, TypeInv, TypeOK, CompleteRefused, UnlockAndReturn, Unlock, store, ghost,
           bounds
<1>22. ASSUME NEW h \in Handlers, ChecksumAccepted(h) PROVE TypeInv'
    BY <1>22, ChecksumAcceptedTyped
<1>23. ASSUME NEW h \in Handlers, ChecksumRefused(h) PROVE TypeInv'
    BY <1>23, ReturnTyped DEF Actors, TypeInv, TypeOK, ChecksumRefused, store, ghost, bounds
<1>24. ASSUME NEW h \in Handlers, PublishStaging(h) PROVE TypeInv'
    BY <1>24, PublishStagingTyped
<1>25. ASSUME NEW h \in Handlers, PublishUnsynced(h) PROVE TypeInv'
    BY <1>25, PublishUnsyncedTyped
<1>26. ASSUME NEW h \in Handlers, CommitFile(h) PROVE TypeInv'
    BY <1>26, CommitFileTyped
<1>27. ASSUME NEW h \in Handlers, CommitFails(h) PROVE TypeInv'
    BY <1>27, GotoTyped
       DEF Actors, TypeInv, TypeOK, FramesFilled, CommitFails, Goto, store, ghost, bounds, 
                            Points, Naming, Holding, Inside, Publishing
<1>28. ASSUME NEW h \in Handlers, RestorePublished(h) PROVE TypeInv'
    BY <1>28, RestorePublishedTyped
<1>29. ASSUME NEW h \in Handlers, RestoreFails(h) PROVE TypeInv'
    <2>1. faults' \in Nat
        BY <1>29 DEF RestoreFails, Fault, TypeInv, TypeOK
    <2>2. frame' \in [Actors -> Frames] /\ pc' \in [Actors -> Points] /\ FramesFilled'
        BY <1>29, ReturnTyped DEF Actors, RestoreFails, UnlockAndReturn
    <2> QED BY <1>29, <2>1, <2>2
       DEF Actors, TypeInv, TypeOK, RestoreFails, UnlockAndReturn, Unlock, store, ghost
<1>30. ASSUME NEW p \in Procs, Boot(p) PROVE TypeInv'
    BY <1>30, GotoTyped
       DEF Actors, TypeInv, TypeOK, FramesFilled, Boot, Goto, store, ghost, bounds, 
                            Points, Naming, Holding, Inside, Publishing
<1>31. ASSUME NEW p \in Procs, ListRows(p) PROVE TypeInv'
    BY <1>31, ListRowsTyped
<1>32. ASSUME NEW p \in Procs, ListNames(p) PROVE TypeInv'
    BY <1>32, ListNamesTyped
<1>33. ASSUME NEW p \in Procs, ScanRow(p) PROVE TypeInv'
    BY <1>33, ScanRowTyped
<1>34. ASSUME NEW p \in Procs, ScanName(p) PROVE TypeInv'
    BY <1>34, ScanNameTyped
<1>35. ASSUME NEW p \in Procs, LockSidecar(p) PROVE TypeInv'
    BY <1>35, LockSidecarTyped
<1>36. ASSUME NEW p \in Procs, RecheckRow(p) PROVE TypeInv'
    BY <1>36, RecheckRowTyped
<1>37. ASSUME NEW p \in Procs, RemoveOrphan(p) PROVE TypeInv'
    BY <1>37, ReturnTyped
       DEF Actors, TypeInv, TypeOK, RemoveOrphan, UnlockAndReturn, Unlock, ghost, bounds
<1>38. ASSUME NEW p \in Procs, FinishRecovery(p) PROVE TypeInv'
    BY <1>38, FinishRecoveryTyped
<1>39. ASSUME NEW p \in Procs, RecoveryFails(p) PROVE TypeInv'
    BY <1>39, RecoveryFailsTyped
<1>40. ASSUME NEW p \in Procs, Crash(p) PROVE TypeInv'
    BY <1>40, CrashTyped
<1>41. ASSUME NEW i \in Ids, Expire(i) PROVE TypeInv'
    BY <1>41 DEF TypeInv, TypeOK, FramesFilled, Expire, local, ghost, bounds
<1>42. CASE UNCHANGED vars
    BY <1>42 DEF TypeInv, TypeOK, FramesFilled, vars
<1> QED BY <1>1, <1>2, <1>3, <1>4, <1>5, <1>6, <1>7, <1>8, <1>9, <1>10, 
          <1>11, <1>12, <1>13, <1>14, <1>15, <1>16, <1>17, <1>18, <1>19, 
          <1>20, <1>21, <1>22, <1>23, <1>24, <1>25, <1>26, <1>27, <1>28, 
          <1>29, <1>30, <1>31, <1>32, <1>33, <1>34, <1>35, <1>36, <1>37, 
          <1>38, <1>39, <1>40, <1>41, <1>42
       DEF Next, Locking, Cleaning, Requesting, Answer, Creating, Writing, Completing,
           Recovering

\* All tables and goroutines start out empty.
LEMMA TypeInvInit == Init => TypeInv
<1> SUFFICES ASSUME Init
             PROVE  TypeInv
    OBVIOUS
<1>1. frame \in [Actors -> Frames] /\ pc \in [Actors -> Points]
    BY BlankFrame DEF Init, Points
<1>2. acked \in [Ids -> Seq(Data)]
    BY EmptySeq DEF Init
<1>3. todo \in [Procs -> Todos]
    BY DEF Init, NoTodo, Todos
<1>4. FramesFilled
    BY DEF Init, FramesFilled, Naming, Holding, Inside, Publishing
<1> QED BY <1>1, <1>2, <1>3, <1>4 DEF Init, TypeInv, TypeOK

\* Every row, part, object, lock and local variable of the uploads has its type
\* for ever; in particular an offset never passes its declared length.
THEOREM TypeCorrect == Spec => []TypeOK
<1>1. Init => TypeInv
    BY TypeInvInit
<1>2. TypeInv /\ [Next]_vars => TypeInv'
    BY TypeInvStep
<1>3. TypeInv => TypeOK
    BY DEF TypeInv
<1> QED BY <1>1, <1>2, <1>3, PTL DEF Spec

-----------------------------------------------------------------------------
(* Mutual exclusion on a session                                            *)

\* What a step of goroutine a must respect for locks and snapshots: it changes
\* locks and rows only of sessions that it has locked, or that nobody has.
LEMMA LockStep ==
    ASSUME LockInv, NEW a \in Actors,
           \A b \in Actors : b # a => pc'[b] = pc[b] /\ frame'[b] = frame[b],
           \A i \in Ids : lock'[i] = lock[i] \/ lock[i] = a \/ lock[i] = None,
           \A i \in Ids : row'[i] = row[i] \/ lock[i] = a \/ row[i] = None,
           pc'[a] \in Holding => lock'[frame'[a].id] = a,
           pc'[a] \in Inside => row'[frame'[a].id] = frame'[a].snap
    PROVE  LocksHeld' /\ SnapshotCurrent'
<1>1. None \notin Actors /\ None \notin Rows
    BY UploadAssumption
<1>2. ASSUME NEW b \in Actors, b # a, pc[b] \in Holding
      PROVE  frame[b].id \in Ids /\ lock[frame[b].id] = b /\ lock'[frame[b].id] = b
    BY <1>1, <1>2 DEF LockInv, TypeInv, FramesFilled, LocksHeld, Naming
<1>3. ASSUME NEW b \in Actors, b # a, pc[b] \in Inside
      PROVE  row'[frame[b].id] = row[frame[b].id] /\ row[frame[b].id] = frame[b].snap
    BY <1>1, <1>2, <1>3 DEF LockInv, TypeInv, FramesFilled, SnapshotCurrent, Holding
<1>4. LocksHeld'
    BY <1>2 DEF LocksHeld
<1>5. SnapshotCurrent'
    BY <1>3 DEF SnapshotCurrent
<1> QED BY <1>4, <1>5

\* A step that begins and ends no creation keeps the created session unknown.
LEMMA StagedStep ==
    ASSUME StagedFresh, NEW a \in Actors,
           \A b \in Actors : b # a => pc'[b] = pc[b] /\ frame'[b] = frame[b],
           pc'[a] # "staged", born' = born,
           \A i \in Ids : row'[i] # None => row[i] # None
    PROVE  StagedFresh'
BY DEF StagedFresh

\* A step inside, outside or out of a critical section that touches neither rows
\* nor locks.
LEMMA QuietLocks ==
    ASSUME LockInv, NEW a \in Actors,
           \A b \in Actors : b # a => pc'[b] = pc[b] /\ frame'[b] = frame[b],
           lock' = lock, row' = row, born' = born, pc'[a] # "staged",
           pc'[a] \in Holding => pc[a] \in Holding /\ frame'[a].id = frame[a].id,
           pc'[a] \in Inside => pc[a] \in Inside /\ frame'[a].snap = frame[a].snap
    PROVE  LocksHeld' /\ SnapshotCurrent' /\ StagedFresh'
<1>1. pc'[a] \in Holding => lock'[frame'[a].id] = a
    BY DEF LockInv, LocksHeld
<1>2. pc'[a] \in Inside => row'[frame'[a].id] = frame'[a].snap
    BY DEF LockInv, SnapshotCurrent, Holding
<1>3. LocksHeld' /\ SnapshotCurrent'
    BY <1>1, <1>2, LockStep
<1>4. StagedFresh'
    BY StagedStep DEF LockInv
<1> QED BY <1>3, <1>4

\* The last step of a critical section, which may change the row it locked.
LEMMA UnlockLocks ==
    ASSUME LockInv, NEW a \in Actors, pc[a] \in Holding, UnlockAndReturn(a), born' = born,
           \A i \in Ids : row'[i] = row[i] \/ i = frame[a].id,
           \A i \in Ids : row'[i] # None => row[i] # None
    PROVE  LocksHeld' /\ SnapshotCurrent' /\ StagedFresh'
<1>1. /\ pc \in [Actors -> Points] /\ frame \in [Actors -> Frames]
      /\ lock \in [Ids -> Actors \cup {None}]
    BY DEF LockInv, TypeInv, TypeOK
<1>2. lock[frame[a].id] = a
    BY DEF LockInv, LocksHeld
<1>3. \A b \in Actors : b # a => pc'[b] = pc[b] /\ frame'[b] = frame[b]
    BY <1>1 DEF UnlockAndReturn, Return
<1>4. pc'[a] \notin Holding /\ pc'[a] \notin Inside /\ pc'[a] # "staged"
    BY <1>1 DEF UnlockAndReturn, Return, Holding, Inside
<1>5. \A i \in Ids : lock'[i] = lock[i] \/ lock[i] = a \/ lock[i] = None
    BY <1>1, <1>2 DEF UnlockAndReturn, Unlock
<1>6. \A i \in Ids : row'[i] = row[i] \/ lock[i] = a \/ row[i] = None
    BY <1>2
<1>7. LocksHeld' /\ SnapshotCurrent'
    BY <1>3, <1>4, <1>5, <1>6, LockStep
<1>8. StagedFresh'
    BY <1>3, <1>4, StagedStep DEF LockInv
<1> QED BY <1>7, <1>8

\* withLifecycleLock re-reads the row under the lock (session.go:105-113).
LEMMA AcquireLocks ==
    ASSUME LockInv, NEW a \in Actors, Acquire(a)
    PROVE  LocksHeld' /\ SnapshotCurrent' /\ StagedFresh'
<1>1. /\ pc \in [Actors -> Points] /\ frame \in [Actors -> Frames]
      /\ lock \in [Ids -> Actors \cup {None}] /\ row \in [Ids -> Rows \cup {None}]
    BY DEF LockInv, TypeInv, TypeOK
<1>2. (pc[a] \in Naming => frame[a].id \in Ids) /\ (pc[a] \in Holding => lock[frame[a].id] = a)
      /\ (pc[a] \in Inside => row[frame[a].id] = frame[a].snap)
    BY DEF LockInv, TypeInv, FramesFilled, LocksHeld, SnapshotCurrent
<1>3. \A b \in Actors : b # a => pc'[b] = pc[b] /\ frame'[b] = frame[b]
    BY <1>1 DEF Acquire, Goto, ghost, bounds, LockFree
<1>4. \A i \in Ids : lock'[i] = lock[i] \/ lock[i] = a \/ lock[i] = None
    BY <1>1, <1>2
       DEF Acquire, Goto, ghost, bounds, LockFree, Points, Naming, Holding, Inside, Publishing
<1>5. \A i \in Ids : row'[i] = row[i] \/ lock[i] = a \/ row[i] = None
    BY <1>1, <1>2
       DEF Acquire, Goto, ghost, bounds, LockFree, Points, Naming, Holding, Inside, Publishing
<1>6. pc'[a] \in Holding => lock'[frame'[a].id] = a
    BY <1>1, <1>2
       DEF Acquire, Goto, ghost, bounds, LockFree, Points, Naming, Holding, Inside, Publishing
<1>7. pc'[a] \in Inside => row'[frame'[a].id] = frame'[a].snap
    BY <1>1, <1>2
       DEF Acquire, Goto, ghost, bounds, LockFree, Points, Naming, Holding, Inside, Publishing
<1>8. LocksHeld' /\ SnapshotCurrent'
    BY <1>3, <1>4, <1>5, <1>6, <1>7, LockStep
<1>9. pc'[a] # "staged" /\ born' = born /\ \A i \in Ids : row'[i] # None => row[i] # None
    BY <1>1, <1>2
       DEF Acquire, Goto, ghost, bounds, LockFree, Points, Naming, Holding, Inside, Publishing
<1>10. StagedFresh'
    BY <1>3, <1>9, StagedStep DEF LockInv
<1> QED BY <1>8, <1>10

\* An error under the lock ends the call, or the recovery run.
LEMMA AbandonLocks ==
    ASSUME LockInv, NEW a \in Actors, Abandon(a)
    PROVE  LocksHeld' /\ SnapshotCurrent' /\ StagedFresh'
<1>1. /\ pc \in [Actors -> Points] /\ frame \in [Actors -> Frames]
      /\ lock \in [Ids -> Actors \cup {None}] /\ row \in [Ids -> Rows \cup {None}]
    BY DEF LockInv, TypeInv, TypeOK
<1>2. (pc[a] \in Naming => frame[a].id \in Ids) /\ (pc[a] \in Holding => lock[frame[a].id] = a)
      /\ (pc[a] \in Inside => row[frame[a].id] = frame[a].snap)
    BY DEF LockInv, TypeInv, FramesFilled, LocksHeld, SnapshotCurrent
<1>3. \A b \in Actors : b # a => pc'[b] = pc[b] /\ frame'[b] = frame[b]
    BY <1>1 DEF Abandon, GiveUp, Unlock, Return, store, ghost, bounds, EndRecovery
<1>4. \A i \in Ids : lock'[i] = lock[i] \/ lock[i] = a \/ lock[i] = None
    BY <1>1, <1>2
       DEF Abandon, GiveUp, Unlock, Return, store, ghost, bounds, EndRecovery, Points, Naming,
           Holding, Inside, Publishing
<1>5. \A i \in Ids : row'[i] = row[i] \/ lock[i] = a \/ row[i] = None
    BY <1>1, <1>2
       DEF Abandon, GiveUp, Unlock, Return, store, ghost, bounds, EndRecovery, Points, Naming,
           Holding, Inside, Publishing
<1>6. pc'[a] \in Holding => lock'[frame'[a].id] = a
    BY <1>1, <1>2
       DEF Abandon, GiveUp, Unlock, Return, store, ghost, bounds, EndRecovery, Points, Naming,
           Holding, Inside, Publishing
<1>7. pc'[a] \in Inside => row'[frame'[a].id] = frame'[a].snap
    BY <1>1, <1>2
       DEF Abandon, GiveUp, Unlock, Return, store, ghost, bounds, EndRecovery, Points, Naming,
           Holding, Inside, Publishing
<1>8. LocksHeld' /\ SnapshotCurrent'
    BY <1>3, <1>4, <1>5, <1>6, <1>7, LockStep
<1>9. pc'[a] # "staged" /\ born' = born /\ \A i \in Ids : row'[i] # None => row[i] # None
    BY <1>1, <1>2
       DEF Abandon, GiveUp, Unlock, Return, store, ghost, bounds, EndRecovery, Points, Naming,
           Holding, Inside, Publishing
<1>10. StagedFresh'
    BY <1>3, <1>9, StagedStep DEF LockInv
<1> QED BY <1>8, <1>10

\* cleanupLocked moves the row to its next status (session.go:244-257).
LEMMA MarkStatusLocks ==
    ASSUME LockInv, NEW a \in Actors, MarkStatus(a)
    PROVE  LocksHeld' /\ SnapshotCurrent' /\ StagedFresh'
<1>1. /\ pc \in [Actors -> Points] /\ frame \in [Actors -> Frames]
      /\ lock \in [Ids -> Actors \cup {None}] /\ row \in [Ids -> Rows \cup {None}]
    BY DEF LockInv, TypeInv, TypeOK
<1>2. (pc[a] \in Naming => frame[a].id \in Ids) /\ (pc[a] \in Holding => lock[frame[a].id] = a)
      /\ (pc[a] \in Inside => row[frame[a].id] = frame[a].snap)
    BY DEF LockInv, TypeInv, FramesFilled, LocksHeld, SnapshotCurrent
<1>3. \A b \in Actors : b # a => pc'[b] = pc[b] /\ frame'[b] = frame[b]
    BY <1>1 DEF MarkStatus, ghost, bounds
<1>4. \A i \in Ids : lock'[i] = lock[i] \/ lock[i] = a \/ lock[i] = None
    BY <1>1, <1>2 DEF MarkStatus, ghost, bounds, Points, Naming, Holding, Inside, Publishing
<1>5. \A i \in Ids : row'[i] = row[i] \/ lock[i] = a \/ row[i] = None
    BY <1>1, <1>2 DEF MarkStatus, ghost, bounds, Points, Naming, Holding, Inside, Publishing
<1>6. pc'[a] \in Holding => lock'[frame'[a].id] = a
    BY <1>1, <1>2 DEF MarkStatus, ghost, bounds, Points, Naming, Holding, Inside, Publishing
<1>7. pc'[a] \in Inside => row'[frame'[a].id] = frame'[a].snap
    BY <1>1, <1>2 DEF MarkStatus, ghost, bounds, Points, Naming, Holding, Inside, Publishing
<1>8. LocksHeld' /\ SnapshotCurrent'
    BY <1>3, <1>4, <1>5, <1>6, <1>7, LockStep
<1>9. pc'[a] # "staged" /\ born' = born /\ \A i \in Ids : row'[i] # None => row[i] # None
    BY <1>1, <1>2 DEF MarkStatus, ghost, bounds, Points, Naming, Holding, Inside, Publishing
<1>10. StagedFresh'
    BY <1>3, <1>9, StagedStep DEF LockInv
<1> QED BY <1>8, <1>10

\* Create makes an empty part under a fresh id (session.go:61-65).
LEMMA CreatePartLocks ==
    ASSUME LockInv, NEW h \in Handlers, CreatePart(h)
    PROVE  LocksHeld' /\ SnapshotCurrent' /\ StagedFresh'
<1>0. h \in Actors
    BY DEF Actors
<1>1. /\ pc \in [Actors -> Points] /\ frame \in [Actors -> Frames]
      /\ lock \in [Ids -> Actors \cup {None}] /\ row \in [Ids -> Rows \cup {None}]
    BY DEF LockInv, TypeInv, TypeOK
<1>2. (pc[h] \in Naming => frame[h].id \in Ids) /\ (pc[h] \in Holding => lock[frame[h].id] = h)
      /\ (pc[h] \in Inside => row[frame[h].id] = frame[h].snap)
    BY <1>0 DEF LockInv, TypeInv, FramesFilled, LocksHeld, SnapshotCurrent
<1>3. \A b \in Actors : b # h => pc'[b] = pc[b] /\ frame'[b] = frame[b]
    BY <1>1 DEF CreatePart, Goto, ghost, bounds
<1>4. \A i \in Ids : lock'[i] = lock[i] \/ lock[i] = h \/ lock[i] = None
    BY <1>0, <1>1, <1>2
       DEF CreatePart, Goto, ghost, bounds, Points, Naming, Holding, Inside, Publishing
<1>5. \A i \in Ids : row'[i] = row[i] \/ lock[i] = h \/ row[i] = None
    BY <1>0, <1>1, <1>2
       DEF CreatePart, Goto, ghost, bounds, Points, Naming, Holding, Inside, Publishing
<1>6. pc'[h] \in Holding => lock'[frame'[h].id] = h
    BY <1>0, <1>1, <1>2
       DEF CreatePart, Goto, ghost, bounds, Points, Naming, Holding, Inside, Publishing
<1>7. pc'[h] \in Inside => row'[frame'[h].id] = frame'[h].snap
    BY <1>0, <1>1, <1>2
       DEF CreatePart, Goto, ghost, bounds, Points, Naming, Holding, Inside, Publishing
<1>8. LocksHeld' /\ SnapshotCurrent'
    BY <1>0, <1>3, <1>4, <1>5, <1>6, <1>7, LockStep
<1>9. PICK i \in FreshIds : frame' = [frame EXCEPT ![h] = [Blank EXCEPT !.op = "create", !.id = i]]
    BY DEF CreatePart
<1>10. StagedFresh'
    <2>0. [Blank EXCEPT !.op = "create", !.id = i].id = i
        BY NewFrame DEF FreshIds, Ops
    <2>1. i \notin born /\ frame'[h].id = i /\ \A b \in Actors : frame[b].id # i
        BY <1>0, <1>1, <1>9, <2>0 DEF FreshIds
    <2>2. row' = row /\ born' = born
        BY DEF CreatePart, ghost
    <2> QED BY <1>0, <1>1, <1>3, <2>1, <2>2 DEF StagedFresh, LockInv
<1> QED BY <1>8, <1>10

\* CreateUploadSession inserts an active row at offset 0 (repository.go:801).
LEMMA InsertRowLocks ==
    ASSUME LockInv, NEW h \in Handlers, InsertRow(h)
    PROVE  LocksHeld' /\ SnapshotCurrent' /\ StagedFresh'
<1>0. h \in Actors
    BY DEF Actors
<1>1. /\ pc \in [Actors -> Points] /\ frame \in [Actors -> Frames]
      /\ lock \in [Ids -> Actors \cup {None}] /\ row \in [Ids -> Rows \cup {None}]
    BY DEF LockInv, TypeInv, TypeOK
<1>2. (pc[h] \in Naming => frame[h].id \in Ids) /\ (pc[h] \in Holding => lock[frame[h].id] = h)
      /\ (pc[h] \in Inside => row[frame[h].id] = frame[h].snap)
    BY <1>0 DEF LockInv, TypeInv, FramesFilled, LocksHeld, SnapshotCurrent
<1>3. \A b \in Actors : b # h => pc'[b] = pc[b] /\ frame'[b] = frame[b]
    BY <1>1 DEF InsertRow, Return, bounds
<1>3a. row[frame[h].id] = None
    BY <1>0, <1>2 DEF InsertRow, LockInv, StagedFresh, Naming
<1>4. \A i \in Ids : lock'[i] = lock[i] \/ lock[i] = h \/ lock[i] = None
    BY <1>0, <1>1, <1>2, <1>3a
       DEF InsertRow, Return, bounds, Points, Naming, Holding, Inside, Publishing
<1>5. \A i \in Ids : row'[i] = row[i] \/ lock[i] = h \/ row[i] = None
    BY <1>0, <1>1, <1>2, <1>3a
       DEF InsertRow, Return, bounds, Points, Naming, Holding, Inside, Publishing
<1>6. pc'[h] \in Holding => lock'[frame'[h].id] = h
    BY <1>0, <1>1, <1>2, <1>3a
       DEF InsertRow, Return, bounds, Points, Naming, Holding, Inside, Publishing
<1>7. pc'[h] \in Inside => row'[frame'[h].id] = frame'[h].snap
    BY <1>0, <1>1, <1>2, <1>3a
       DEF InsertRow, Return, bounds, Points, Naming, Holding, Inside, Publishing
<1>8. LocksHeld' /\ SnapshotCurrent'
    BY <1>0, <1>3, <1>4, <1>5, <1>6, <1>7, LockStep
<1>9. /\ pc[h] = "staged" /\ pc'[h] # "staged" /\ frame[h].id \in Ids
      /\ born' = born \cup {frame[h].id}
      /\ \A i \in Ids : row'[i] # None => row[i] # None \/ i = frame[h].id
    BY <1>0, <1>1, <1>2 DEF InsertRow, Return, Points, Naming, Holding, Inside
<1>10. StagedFresh'
    <2>1. \A i \in Ids : row'[i] # None => i \in born'
        BY <1>9 DEF StagedFresh, LockInv
    <2>2. ASSUME NEW b \in Actors, pc'[b] = "staged"
          PROVE  b # h /\ pc[b] = "staged" /\ frame'[b] = frame[b] /\ frame[b].id \notin born'
        BY <1>0, <1>3, <1>9, <2>2 DEF StagedFresh, LockInv
    <2> QED BY <2>1, <2>2 DEF StagedFresh, LockInv
<1> QED BY <1>8, <1>10

\* Complete's first critical section keeps the content it hashed (session.go:165-187).
LEMMA HashStagingLocks ==
    ASSUME LockInv, NEW h \in Handlers, HashStaging(h)
    PROVE  LocksHeld' /\ SnapshotCurrent' /\ StagedFresh'
<1>0. h \in Actors
    BY DEF Actors
<1>1. /\ pc \in [Actors -> Points] /\ frame \in [Actors -> Frames]
      /\ lock \in [Ids -> Actors \cup {None}] /\ row \in [Ids -> Rows \cup {None}]
    BY DEF LockInv, TypeInv, TypeOK
<1>2. (pc[h] \in Naming => frame[h].id \in Ids) /\ (pc[h] \in Holding => lock[frame[h].id] = h)
      /\ (pc[h] \in Inside => row[frame[h].id] = frame[h].snap)
    BY <1>0 DEF LockInv, TypeInv, FramesFilled, LocksHeld, SnapshotCurrent
<1>3. \A b \in Actors : b # h => pc'[b] = pc[b] /\ frame'[b] = frame[b]
    BY <1>1 DEF HashStaging, Unlock, Goto, store, ghost, bounds
<1>4. \A i \in Ids : lock'[i] = lock[i] \/ lock[i] = h \/ lock[i] = None
    BY <1>0, <1>1, <1>2
       DEF HashStaging, Unlock, Goto, store, ghost, bounds, Points, Naming, Holding, Inside,
           Publishing
<1>5. \A i \in Ids : row'[i] = row[i] \/ lock[i] = h \/ row[i] = None
    BY <1>0, <1>1, <1>2
       DEF HashStaging, Unlock, Goto, store, ghost, bounds, Points, Naming, Holding, Inside,
           Publishing
<1>6. pc'[h] \in Holding => lock'[frame'[h].id] = h
    BY <1>0, <1>1, <1>2
       DEF HashStaging, Unlock, Goto, store, ghost, bounds, Points, Naming, Holding, Inside,
           Publishing
<1>7. pc'[h] \in Inside => row'[frame'[h].id] = frame'[h].snap
    BY <1>0, <1>1, <1>2
       DEF HashStaging, Unlock, Goto, store, ghost, bounds, Points, Naming, Holding, Inside,
           Publishing
<1>8. LocksHeld' /\ SnapshotCurrent'
    BY <1>0, <1>3, <1>4, <1>5, <1>6, <1>7, LockStep
<1>9. pc'[h] # "staged" /\ born' = born /\ \A i \in Ids : row'[i] # None => row[i] # None
    BY <1>0, <1>1, <1>2
       DEF HashStaging, Unlock, Goto, store, ghost, bounds, Points, Naming, Holding, Inside,
           Publishing
<1>10. StagedFresh'
    BY <1>0, <1>3, <1>9, StagedStep DEF LockInv
<1> QED BY <1>8, <1>10

\* Recover locks an orphan candidate (session.go:379).
LEMMA LockSidecarLocks ==
    ASSUME LockInv, NEW p \in Procs, LockSidecar(p)
    PROVE  LocksHeld' /\ SnapshotCurrent' /\ StagedFresh'
<1>0. p \in Actors
    BY DEF Actors
<1>1. /\ pc \in [Actors -> Points] /\ frame \in [Actors -> Frames]
      /\ lock \in [Ids -> Actors \cup {None}] /\ row \in [Ids -> Rows \cup {None}]
    BY DEF LockInv, TypeInv, TypeOK
<1>2. (pc[p] \in Naming => frame[p].id \in Ids) /\ (pc[p] \in Holding => lock[frame[p].id] = p)
      /\ (pc[p] \in Inside => row[frame[p].id] = frame[p].snap)
    BY <1>0 DEF LockInv, TypeInv, FramesFilled, LocksHeld, SnapshotCurrent
<1>3. \A b \in Actors : b # p => pc'[b] = pc[b] /\ frame'[b] = frame[b]
    BY <1>1 DEF LockSidecar, Goto, ghost, bounds, LockFree
<1>4. \A i \in Ids : lock'[i] = lock[i] \/ lock[i] = p \/ lock[i] = None
    BY <1>0, <1>1, <1>2
       DEF LockSidecar, Goto, ghost, bounds, LockFree, Points, Naming, Holding, Inside,
           Publishing
<1>5. \A i \in Ids : row'[i] = row[i] \/ lock[i] = p \/ row[i] = None
    BY <1>0, <1>1, <1>2
       DEF LockSidecar, Goto, ghost, bounds, LockFree, Points, Naming, Holding, Inside,
           Publishing
<1>6. pc'[p] \in Holding => lock'[frame'[p].id] = p
    BY <1>0, <1>1, <1>2
       DEF LockSidecar, Goto, ghost, bounds, LockFree, Points, Naming, Holding, Inside,
           Publishing
<1>7. pc'[p] \in Inside => row'[frame'[p].id] = frame'[p].snap
    BY <1>0, <1>1, <1>2
       DEF LockSidecar, Goto, ghost, bounds, LockFree, Points, Naming, Holding, Inside,
           Publishing
<1>8. LocksHeld' /\ SnapshotCurrent'
    BY <1>0, <1>3, <1>4, <1>5, <1>6, <1>7, LockStep
<1>9. pc'[p] # "staged" /\ born' = born /\ \A i \in Ids : row'[i] # None => row[i] # None
    BY <1>0, <1>1, <1>2
       DEF LockSidecar, Goto, ghost, bounds, LockFree, Points, Naming, Holding, Inside,
           Publishing
<1>10. StagedFresh'
    BY <1>0, <1>3, <1>9, StagedStep DEF LockInv
<1> QED BY <1>8, <1>10

\* Recover looks for a row again under the lock (session.go:389).
LEMMA RecheckRowLocks ==
    ASSUME LockInv, NEW p \in Procs, RecheckRow(p)
    PROVE  LocksHeld' /\ SnapshotCurrent' /\ StagedFresh'
<1>0. p \in Actors
    BY DEF Actors
<1>1. /\ pc \in [Actors -> Points] /\ frame \in [Actors -> Frames]
      /\ lock \in [Ids -> Actors \cup {None}] /\ row \in [Ids -> Rows \cup {None}]
    BY DEF LockInv, TypeInv, TypeOK
<1>2. (pc[p] \in Naming => frame[p].id \in Ids) /\ (pc[p] \in Holding => lock[frame[p].id] = p)
      /\ (pc[p] \in Inside => row[frame[p].id] = frame[p].snap)
    BY <1>0 DEF LockInv, TypeInv, FramesFilled, LocksHeld, SnapshotCurrent
<1>3. \A b \in Actors : b # p => pc'[b] = pc[b] /\ frame'[b] = frame[b]
    BY <1>1 DEF RecheckRow, UnlockAndReturn, Unlock, Return, Goto, store, ghost, bounds
<1>4. \A i \in Ids : lock'[i] = lock[i] \/ lock[i] = p \/ lock[i] = None
    BY <1>0, <1>1, <1>2
       DEF RecheckRow, UnlockAndReturn, Unlock, Return, Goto, store, ghost, bounds, Points,
           Naming, Holding, Inside, Publishing
<1>5. \A i \in Ids : row'[i] = row[i] \/ lock[i] = p \/ row[i] = None
    BY <1>0, <1>1, <1>2
       DEF RecheckRow, UnlockAndReturn, Unlock, Return, Goto, store, ghost, bounds, Points,
           Naming, Holding, Inside, Publishing
<1>6. pc'[p] \in Holding => lock'[frame'[p].id] = p
    BY <1>0, <1>1, <1>2
       DEF RecheckRow, UnlockAndReturn, Unlock, Return, Goto, store, ghost, bounds, Points,
           Naming, Holding, Inside, Publishing
<1>7. pc'[p] \in Inside => row'[frame'[p].id] = frame'[p].snap
    BY <1>0, <1>1, <1>2
       DEF RecheckRow, UnlockAndReturn, Unlock, Return, Goto, store, ghost, bounds, Points,
           Naming, Holding, Inside, Publishing
<1>8. LocksHeld' /\ SnapshotCurrent'
    BY <1>0, <1>3, <1>4, <1>5, <1>6, <1>7, LockStep
<1>9. pc'[p] # "staged" /\ born' = born /\ \A i \in Ids : row'[i] # None => row[i] # None
    BY <1>0, <1>1, <1>2
       DEF RecheckRow, UnlockAndReturn, Unlock, Return, Goto, store, ghost, bounds, Points,
           Naming, Holding, Inside, Publishing
<1>10. StagedFresh'
    BY <1>0, <1>3, <1>9, StagedStep DEF LockInv
<1> QED BY <1>8, <1>10

\* A process crash resets its goroutines and frees its locks.
LEMMA CrashLocks ==
    ASSUME LockInv, NEW p \in Procs, Crash(p)
    PROVE  LocksHeld' /\ SnapshotCurrent' /\ StagedFresh'
<1>1. /\ frame \in [Actors -> Frames] /\ pc \in [Actors -> Points]
      /\ lock \in [Ids -> Actors \cup {None}] /\ None \notin Actors
    BY UploadAssumption DEF LockInv, TypeInv, TypeOK
<1>2. "idle" \notin Holding /\ "idle" \notin Inside /\ "idle" \notin Naming
    BY DEF Naming, Holding, Inside
<1>3. \A a \in Actors : IF ProcOf(a) = p THEN pc'[a] = "idle"
                                          ELSE pc'[a] = pc[a] /\ frame'[a] = frame[a]
    BY DEF Crash
<1>4. \A i \in Ids : lock[i] # None /\ ProcOf(lock[i]) # p => lock'[i] = lock[i]
    BY DEF Crash
<1>5. row' = row /\ born' = born
    BY DEF Crash, store, ghost
<1>6. LocksHeld'
    <2> SUFFICES ASSUME NEW a \in Actors, pc'[a] \in Holding
                 PROVE  lock'[frame'[a].id] = a
        BY DEF LocksHeld
    <2>1. ProcOf(a) # p /\ pc[a] \in Holding /\ frame'[a] = frame[a]
        BY <1>2, <1>3
    <2>2. frame[a].id \in Ids /\ lock[frame[a].id] = a
        BY <2>1 DEF LockInv, TypeInv, FramesFilled, LocksHeld, Naming
    <2> QED BY <1>1, <1>4, <2>1, <2>2
<1>7. SnapshotCurrent'
    BY <1>2, <1>3, <1>5 DEF SnapshotCurrent, LockInv
<1>8. StagedFresh'
    BY <1>3, <1>5 DEF StagedFresh, LockInv
<1> QED BY <1>6, <1>7, <1>8

\* Whatever goroutine of whatever process moves, the lock invariants survive.
LEMMA LockInvStep ==
    ASSUME LockInv, [Next]_vars
    PROVE  LockInv'
<1> DEFINE Goal == LocksHeld' /\ SnapshotCurrent' /\ StagedFresh'
<1>1. /\ pc \in [Actors -> Points] /\ frame \in [Actors -> Frames]
      /\ row \in [Ids -> Rows \cup {None}]
    BY DEF LockInv, TypeInv, TypeOK
<1>2. ASSUME NEW a \in Actors, Acquire(a) PROVE Goal
    BY <1>2, AcquireLocks
<1>3. ASSUME NEW a \in Actors, AcquireGone(a) PROVE Goal
    BY <1>1, <1>3, QuietLocks
    DEF AcquireGone, Return, store, ghost, Holding, Inside
<1>4. ASSUME NEW a \in Actors, AcquireFails(a) PROVE Goal
    BY <1>1, <1>4, QuietLocks
    DEF AcquireFails, GiveUp, EndRecovery, Return, store, ghost, Holding, Inside
<1>5. ASSUME NEW a \in Actors, Abandon(a) PROVE Goal
    BY <1>5, AbandonLocks
<1>6. ASSUME NEW a \in Actors, StartCleanup(a) PROVE Goal
    BY <1>1, <1>6, QuietLocks
    DEF StartCleanup, Goto, store, ghost, Holding, Inside
<1>7. ASSUME NEW a \in Actors, KeepSession(a) PROVE Goal
    BY <1>1, <1>7, UnlockLocks
    DEF KeepSession, store, ghost, Holding, Inside
<1>8. ASSUME NEW a \in Actors, MarkStatus(a) PROVE Goal
    BY <1>8, MarkStatusLocks
<1>9. ASSUME NEW a \in Actors, Unlink(a) PROVE Goal
    BY <1>1, <1>9, QuietLocks
    DEF Unlink, Goto, ghost, Holding, Inside
<1>10. ASSUME NEW a \in Actors, DeleteRow(a) PROVE Goal
    BY <1>1, <1>10, UnlockLocks
    DEF DeleteRow, ghost, Holding, Inside
<1>11. ASSUME NEW h \in Handlers, CreatePart(h) PROVE Goal
    BY <1>11, CreatePartLocks
<1>12. ASSUME NEW h \in Handlers, Arrive(h) PROVE Goal
    BY <1>1, <1>12, QuietLocks
    DEF Actors, Arrive, Goto, store, ghost, Holding, Inside
<1>13. ASSUME NEW h \in Handlers, InsertRow(h) PROVE Goal
    BY <1>13, InsertRowLocks
<1>14. ASSUME NEW h \in Handlers, InsertFails(h) PROVE Goal
    BY <1>1, <1>14, QuietLocks
    DEF Actors, InsertFails, Return, ghost, Holding, Inside
<1>15. ASSUME NEW h \in Handlers, InsertFailsLeavingPart(h) PROVE Goal
    BY <1>1, <1>15, QuietLocks
    DEF Actors, InsertFailsLeavingPart, Return, store, ghost, Holding, Inside
<1>16. ASSUME NEW h \in Handlers, WriteBody(h) PROVE Goal
    BY <1>1, <1>16, QuietLocks
    DEF Actors, WriteBody, Goto, ghost, Holding, Inside
<1>17. ASSUME NEW h \in Handlers, WriteRefused(h) PROVE Goal
    BY <1>1, <1>17, UnlockLocks
    DEF Actors, WriteRefused, store, ghost, Holding, Inside
<1>18. ASSUME NEW h \in Handlers, WriteCommit(h) PROVE Goal
    BY <1>1, <1>18, UnlockLocks
    DEF Actors, WriteCommit, Holding, Inside
<1>19. ASSUME NEW h \in Handlers, WriteUndone(h) PROVE Goal
    BY <1>1, <1>19, UnlockLocks
    DEF Actors, WriteUndone, ghost, Holding, Inside
<1>20. ASSUME NEW h \in Handlers, WriteNotUndone(h) PROVE Goal
    BY <1>1, <1>20, UnlockLocks
    DEF Actors, WriteNotUndone, store, ghost, Holding, Inside
<1>21. ASSUME NEW h \in Handlers, HashStaging(h) PROVE Goal
    BY <1>21, HashStagingLocks
<1>22. ASSUME NEW h \in Handlers, CompleteRefused(h) PROVE Goal
    BY <1>1, <1>22, UnlockLocks
    DEF Actors, CompleteRefused, store, ghost, Holding, Inside
<1>23. ASSUME NEW h \in Handlers, ChecksumAccepted(h) PROVE Goal
    BY <1>1, <1>23, QuietLocks
    DEF Actors, ChecksumAccepted, Goto, store, ghost, Holding, Inside
<1>24. ASSUME NEW h \in Handlers, ChecksumRefused(h) PROVE Goal
    BY <1>1, <1>24, QuietLocks
    DEF Actors, ChecksumRefused, Return, store, ghost, Holding, Inside
<1>25. ASSUME NEW h \in Handlers, PublishStaging(h) PROVE Goal
    BY <1>1, <1>25, QuietLocks
    DEF Actors, PublishStaging, MayPublish, Goto, ghost, Holding, Inside
<1>26. ASSUME NEW h \in Handlers, PublishUnsynced(h) PROVE Goal
    BY <1>1, <1>26, UnlockLocks
    DEF Actors, PublishUnsynced, MayPublish, ghost, Holding, Inside
<1>27. ASSUME NEW h \in Handlers, CommitFile(h) PROVE Goal
    BY <1>1, <1>27, UnlockLocks
    DEF Actors, CommitFile, ghost, Holding, Inside
<1>28. ASSUME NEW h \in Handlers, CommitFails(h) PROVE Goal
    BY <1>1, <1>28, QuietLocks
    DEF Actors, CommitFails, Goto, store, ghost, Holding, Inside
<1>29. ASSUME NEW h \in Handlers, RestorePublished(h) PROVE Goal
    BY <1>1, <1>29, UnlockLocks
    DEF Actors, RestorePublished, ghost, Holding, Inside
<1>30. ASSUME NEW h \in Handlers, RestoreFails(h) PROVE Goal
    BY <1>1, <1>30, UnlockLocks
    DEF Actors, RestoreFails, store, ghost, Holding, Inside
<1>31. ASSUME NEW p \in Procs, Boot(p) PROVE Goal
    BY <1>1, <1>31, QuietLocks
    DEF Actors, Boot, Goto, store, ghost, Holding, Inside
<1>32. ASSUME NEW p \in Procs, ListRows(p) PROVE Goal
    BY <1>1, <1>32, QuietLocks
    DEF Actors, ListRows, Goto, store, ghost, Holding, Inside
<1>33. ASSUME NEW p \in Procs, ListNames(p) PROVE Goal
    BY <1>1, <1>33, QuietLocks
    DEF Actors, ListNames, Goto, store, ghost, Holding, Inside
<1>34. ASSUME NEW p \in Procs, ScanRow(p) PROVE Goal
    BY <1>1, <1>34, QuietLocks
    DEF Actors, ScanRow, Goto, store, ghost, Holding, Inside
<1>35. ASSUME NEW p \in Procs, ScanName(p) PROVE Goal
    BY <1>1, <1>35, QuietLocks
    DEF Actors, ScanName, Goto, store, ghost, Holding, Inside
<1>36. ASSUME NEW p \in Procs, LockSidecar(p) PROVE Goal
    BY <1>36, LockSidecarLocks
<1>37. ASSUME NEW p \in Procs, RecheckRow(p) PROVE Goal
    BY <1>37, RecheckRowLocks
<1>38. ASSUME NEW p \in Procs, RemoveOrphan(p) PROVE Goal
    BY <1>1, <1>38, UnlockLocks
    DEF Actors, RemoveOrphan, ghost, Holding, Inside
<1>39. ASSUME NEW p \in Procs, FinishRecovery(p) PROVE Goal
    BY <1>1, <1>39, QuietLocks
    DEF Actors, FinishRecovery, EndRecovery, store, ghost, Holding, Inside
<1>40. ASSUME NEW p \in Procs, RecoveryFails(p) PROVE Goal
    BY <1>1, <1>40, QuietLocks
    DEF Actors, RecoveryFails, EndRecovery, store, ghost, Holding, Inside
<1>41. ASSUME NEW p \in Procs, Crash(p) PROVE Goal
    BY <1>41, CrashLocks
<1>42. ASSUME NEW i \in Ids, Expire(i) PROVE Goal
    BY <1>42 DEF LockInv, LocksHeld, SnapshotCurrent, StagedFresh, Expire, local, ghost
<1>43. ASSUME UNCHANGED vars PROVE Goal
    BY <1>43 DEF LockInv, LocksHeld, SnapshotCurrent, StagedFresh, vars
<1> HIDE DEF Goal
<1>44. Goal
    BY <1>2, <1>3, <1>4, <1>5, <1>6, <1>7, <1>8, <1>9, <1>10, 
          <1>11, <1>12, <1>13, <1>14, <1>15, <1>16, <1>17, <1>18, <1>19, 
          <1>20, <1>21, <1>22, <1>23, <1>24, <1>25, <1>26, <1>27, <1>28, 
          <1>29, <1>30, <1>31, <1>32, <1>33, <1>34, <1>35, <1>36, <1>37, 
          <1>38, <1>39, <1>40, <1>41, <1>42, <1>43
       DEF Next, Locking, Cleaning, Requesting, Answer, Creating, Writing, Completing,
           Recovering
<1>45. TypeInv'
    BY TypeInvStep DEF LockInv
<1> QED BY <1>44, <1>45 DEF LockInv, Goal

\* No lock is held, no row read and no session being created at the start.
LEMMA LockInvInit == Init => LockInv
<1> SUFFICES ASSUME Init
             PROVE  LockInv
    OBVIOUS
<1>1. \A a \in Actors : pc[a] = "idle"
    BY DEF Init
<1> QED BY <1>1, TypeInvInit
   DEF Init, LockInv, LocksHeld, SnapshotCurrent, StagedFresh, Holding, Inside

\* session.go:86-87: mutual exclusion across goroutines and processes.  At every
\* point of every critical section the row that was read under the lock is the
\* row in the database.
THEOREM SnapshotsStayCurrent == Spec => []SnapshotCurrent
<1>1. Init => LockInv
    BY LockInvInit
<1>2. LockInv /\ [Next]_vars => LockInv'
    BY LockInvStep
<1>3. LockInv => SnapshotCurrent
    BY DEF LockInv
<1> QED BY <1>1, <1>2, <1>3, PTL DEF Spec

-----------------------------------------------------------------------------
(* File metadata and objects                                                *)

\* A step that changes neither objects nor files, and publishes nothing.
LEMMA ObjectStep ==
    ASSUME ObjectInv, NEW a \in Actors,
           \A b \in Actors : b # a => pc'[b] = pc[b] /\ frame'[b] = frame[b],
           pc'[a] \notin Publishing, objects' = objects, files' = files
    PROVE  ObjectsOwned' /\ FileHasObject'
BY DEF ObjectInv, ObjectsOwned, FileHasObject

\* PublishStaging renames the part to a fresh object (objects_unix.go:415).
LEMMA PublishStagingObjects ==
    ASSUME ObjectInv, NEW h \in Handlers, PublishStaging(h)
    PROVE  ObjectsOwned' /\ FileHasObject'
<1>0. h \in Actors
    BY DEF Actors
<1>1. pc \in [Actors -> Points] /\ frame \in [Actors -> Frames]
    BY DEF ObjectInv, LockInv, TypeInv, TypeOK
<1>2. \A b \in Actors : b # h => pc'[b] = pc[b] /\ frame'[b] = frame[b]
    BY <1>1 DEF PublishStaging, Goto, ghost, bounds
<1>3. PICK k \in FreshKeys : MovePart(frame[h].id, k) /\ frame' = [frame EXCEPT ![h].key = k]
    BY DEF PublishStaging
<1>4. k \in Keys /\ objects[k] = None /\ \A p \in Paths : files[p] # None => files[p].key # k
    BY DEF FreshKeys
<1>5. \A j \in Keys : j # k => objects'[j] = objects[j]
    BY <1>3 DEF MovePart, ObjectInv, LockInv, TypeInv, TypeOK
<1>6. files' = files
    BY DEF PublishStaging
<1>7. \A b \in Actors : pc[b] \in Publishing =>
         frame[b].key \in Keys /\ frame[b].key # k /\ objects'[frame[b].key] # None
    BY <1>4, <1>5 DEF ObjectInv, LockInv, TypeInv, FramesFilled, ObjectsOwned
<1>8. FileHasObject'
    <2>1. \A p \in Paths : files[p] # None => files[p].key \in Keys
        BY DEF ObjectInv, LockInv, TypeInv, TypeOK, Files
    <2> QED BY <1>4, <1>5, <1>6, <2>1 DEF FileHasObject, ObjectInv
<1>9. frame'[h].key = k /\ pc'[h] = "renamed"
    <2>1. frame'[h] = [frame[h] EXCEPT !.key = k]
        BY <1>0, <1>1, <1>3
    <2>2. frame[h] \in Frames /\ [frame[h] EXCEPT !.key = k].key = k
        BY <1>0, <1>1, <1>4, FrameUpdates
    <2> QED BY <1>0, <1>1, <2>1, <2>2 DEF PublishStaging, Goto
<1>10. objects'[k] # None
    <2>1. part[frame[h].id] # None
        BY DEF PublishStaging, MayPublish, Completable
    <2> QED BY <1>3, <1>4, <2>1 DEF MovePart, ObjectInv, LockInv, TypeInv, TypeOK
<1>11. ObjectsOwned'
    BY <1>2, <1>4, <1>6, <1>7, <1>9, <1>10 DEF ObjectsOwned, ObjectInv
<1> QED BY <1>8, <1>11

\* PublishStaging renames, then a directory sync fails (objects_unix.go:440-452).
LEMMA PublishUnsyncedObjects ==
    ASSUME ObjectInv, NEW h \in Handlers, PublishUnsynced(h)
    PROVE  ObjectsOwned' /\ FileHasObject'
<1>0. h \in Actors
    BY DEF Actors
<1>1. pc \in [Actors -> Points] /\ frame \in [Actors -> Frames]
    BY DEF ObjectInv, LockInv, TypeInv, TypeOK
<1>2. \A b \in Actors : b # h => pc'[b] = pc[b] /\ frame'[b] = frame[b]
    BY <1>1 DEF PublishUnsynced, UnlockAndReturn, Unlock, Return, Fault, ghost
<1>3. PICK k \in FreshKeys : MovePart(frame[h].id, k)
    BY DEF PublishUnsynced
<1>4. k \in Keys /\ objects[k] = None /\ \A p \in Paths : files[p] # None => files[p].key # k
    BY DEF FreshKeys
<1>5. \A j \in Keys : j # k => objects'[j] = objects[j]
    BY <1>3 DEF MovePart, ObjectInv, LockInv, TypeInv, TypeOK
<1>6. files' = files
    BY DEF PublishUnsynced
<1>7. \A b \in Actors : pc[b] \in Publishing =>
         frame[b].key \in Keys /\ frame[b].key # k /\ objects'[frame[b].key] # None
    BY <1>4, <1>5 DEF ObjectInv, LockInv, TypeInv, FramesFilled, ObjectsOwned
<1>8. FileHasObject'
    <2>1. \A p \in Paths : files[p] # None => files[p].key \in Keys
        BY DEF ObjectInv, LockInv, TypeInv, TypeOK, Files
    <2> QED BY <1>4, <1>5, <1>6, <2>1 DEF FileHasObject, ObjectInv
<1>9. pc'[h] \notin Publishing
    BY <1>0, <1>1
       DEF PublishUnsynced, UnlockAndReturn, Unlock, Return, Fault, ghost, Points, Naming,
           Holding, Inside, Publishing
<1>10. ObjectsOwned'
    BY <1>2, <1>6, <1>7, <1>9 DEF ObjectsOwned, ObjectInv
<1> QED BY <1>8, <1>10

\* CompleteUpload replaces the session row by a file row (repository.go:892).
LEMMA CommitFileObjects ==
    ASSUME ObjectInv, NEW h \in Handlers, CommitFile(h)
    PROVE  ObjectsOwned' /\ FileHasObject'
<1>0. h \in Actors
    BY DEF Actors
<1>1. pc \in [Actors -> Points] /\ frame \in [Actors -> Frames]
    BY DEF ObjectInv, LockInv, TypeInv, TypeOK
<1>2. \A b \in Actors : b # h => pc'[b] = pc[b] /\ frame'[b] = frame[b]
    BY <1>1 DEF CommitFile, UnlockAndReturn, Unlock, Return, ghost, bounds
<1>3. pc[h] \in Publishing /\ frame[h].key \in Keys /\ objects[frame[h].key] # None
    BY <1>0
       DEF CommitFile, Publishing, Naming, Holding, Inside, ObjectInv, LockInv, TypeInv,
           FramesFilled, ObjectsOwned
<1>4. pc'[h] \notin Publishing /\ objects' = objects
    BY <1>0, <1>1
       DEF CommitFile, UnlockAndReturn, Unlock, Return, ghost, bounds, Points, Naming,
           Holding, Inside, Publishing
<1>5. \A p \in Paths : files'[p] = files[p] \/ files'[p].key = frame[h].key
    <2>1. files \in [Paths -> Files \cup {None}]
        BY DEF ObjectInv, LockInv, TypeInv, TypeOK
    <2> QED BY <2>1 DEF CommitFile
<1>6. FileHasObject'
    BY <1>3, <1>4, <1>5 DEF FileHasObject, ObjectInv
<1>7. ObjectsOwned'
    BY <1>0, <1>2, <1>3, <1>4, <1>5 DEF ObjectsOwned, ObjectInv
<1> QED BY <1>6, <1>7

\* A rolled-back transaction leaves the object to its publisher (repository.go:892-942).
LEMMA CommitFailsObjects ==
    ASSUME ObjectInv, NEW h \in Handlers, CommitFails(h)
    PROVE  ObjectsOwned' /\ FileHasObject'
<1>0. h \in Actors
    BY DEF Actors
<1>1. pc \in [Actors -> Points] /\ frame \in [Actors -> Frames]
    BY DEF ObjectInv, LockInv, TypeInv, TypeOK
<1>2. \A b \in Actors : b # h => pc'[b] = pc[b] /\ frame'[b] = frame[b]
    BY <1>1 DEF CommitFails, Goto, store, ghost, bounds
<1>3. pc[h] \in Publishing /\ frame[h].key \in Keys /\ objects[frame[h].key] # None
    BY <1>0
       DEF CommitFails, Publishing, Naming, Holding, Inside, ObjectInv, LockInv, TypeInv,
           FramesFilled, ObjectsOwned
<1>4. pc'[h] \in Publishing /\ frame' = frame /\ objects' = objects /\ files' = files
    BY <1>0, <1>1 DEF CommitFails, Goto, Publishing, store
<1> QED BY <1>2, <1>3, <1>4 DEF ObjectInv, ObjectsOwned, FileHasObject

\* RestorePublished renames the object back (objects_unix.go:484).
LEMMA RestorePublishedObjects ==
    ASSUME ObjectInv, NEW h \in Handlers, RestorePublished(h)
    PROVE  ObjectsOwned' /\ FileHasObject'
<1>0. h \in Actors
    BY DEF Actors
<1>1. pc \in [Actors -> Points] /\ frame \in [Actors -> Frames]
    BY DEF ObjectInv, LockInv, TypeInv, TypeOK
<1>2. \A b \in Actors : b # h => pc'[b] = pc[b] /\ frame'[b] = frame[b]
    BY <1>1 DEF RestorePublished, UnlockAndReturn, Unlock, Return, ghost, bounds
<1>3. pc[h] \in Publishing /\ frame[h].key \in Keys /\ objects[frame[h].key] # None
    BY <1>0
       DEF RestorePublished, Publishing, Naming, Holding, Inside, ObjectInv, LockInv, TypeInv,
           FramesFilled, ObjectsOwned
<1>4. pc'[h] \notin Publishing /\ files' = files
    BY <1>0, <1>1
       DEF RestorePublished, UnlockAndReturn, Unlock, Return, ghost, bounds, Points, Naming,
           Holding, Inside, Publishing
<1>5. \A j \in Keys : j # frame[h].key => objects'[j] = objects[j]
    BY DEF RestorePublished, ObjectInv, LockInv, TypeInv, TypeOK
<1>6. FileHasObject'
    <2>1. \A p \in Paths : files[p] # None => files[p].key \in Keys
        BY DEF ObjectInv, LockInv, TypeInv, TypeOK, Files
    <2> QED BY <1>0, <1>3, <1>4, <1>5, <2>1 DEF FileHasObject, ObjectsOwned, ObjectInv
<1>7. ObjectsOwned'
    <2>1. \A b \in Actors : pc[b] \in Publishing => frame[b].key \in Keys
        BY DEF ObjectInv, LockInv, TypeInv, FramesFilled
    <2> QED BY <1>0, <1>2, <1>3, <1>4, <1>5, <2>1 DEF ObjectsOwned, ObjectInv
<1> QED BY <1>6, <1>7

\* Whatever goroutine of whatever process moves, objects stay owned and files
\* keep their objects.
LEMMA ObjectInvStep ==
    ASSUME ObjectInv, [Next]_vars
    PROVE  ObjectInv'
<1> DEFINE Goal == ObjectsOwned' /\ FileHasObject'
<1>1. pc \in [Actors -> Points] /\ frame \in [Actors -> Frames]
    BY DEF ObjectInv, LockInv, TypeInv, TypeOK
<1>2. ASSUME NEW a \in Actors, Acquire(a) PROVE Goal
    BY <1>1, <1>2, ObjectStep
    DEF Acquire, Goto, Publishing
<1>3. ASSUME NEW a \in Actors, AcquireGone(a) PROVE Goal
    BY <1>1, <1>3, ObjectStep
    DEF AcquireGone, Return, store, Publishing
<1>4. ASSUME NEW a \in Actors, AcquireFails(a) PROVE Goal
    BY <1>1, <1>4, ObjectStep
    DEF AcquireFails, GiveUp, Return, EndRecovery, store, Publishing
<1>5. ASSUME NEW a \in Actors, Abandon(a) PROVE Goal
    BY <1>1, <1>5, ObjectStep
    DEF Abandon, GiveUp, Return, EndRecovery, store, Publishing
<1>6. ASSUME NEW a \in Actors, StartCleanup(a) PROVE Goal
    BY <1>1, <1>6, ObjectStep
    DEF StartCleanup, Goto, store, Publishing
<1>7. ASSUME NEW a \in Actors, KeepSession(a) PROVE Goal
    BY <1>1, <1>7, ObjectStep
    DEF KeepSession, UnlockAndReturn, Return, store, Publishing
<1>8. ASSUME NEW a \in Actors, MarkStatus(a) PROVE Goal
    BY <1>1, <1>8, ObjectStep
    DEF MarkStatus, Publishing
<1>9. ASSUME NEW a \in Actors, Unlink(a) PROVE Goal
    BY <1>1, <1>9, ObjectStep
    DEF Unlink, Goto, Publishing
<1>10. ASSUME NEW a \in Actors, DeleteRow(a) PROVE Goal
    BY <1>1, <1>10, ObjectStep
    DEF DeleteRow, UnlockAndReturn, Return, Publishing
<1>11. ASSUME NEW h \in Handlers, CreatePart(h) PROVE Goal
    BY <1>1, <1>11, ObjectStep
    DEF Actors, CreatePart, Goto, Publishing
<1>12. ASSUME NEW h \in Handlers, Arrive(h) PROVE Goal
    BY <1>1, <1>12, ObjectStep
    DEF Actors, Arrive, Goto, store, Publishing
<1>13. ASSUME NEW h \in Handlers, InsertRow(h) PROVE Goal
    BY <1>1, <1>13, ObjectStep
    DEF Actors, InsertRow, Return, Publishing
<1>14. ASSUME NEW h \in Handlers, InsertFails(h) PROVE Goal
    BY <1>1, <1>14, ObjectStep
    DEF Actors, InsertFails, Return, Publishing
<1>15. ASSUME NEW h \in Handlers, InsertFailsLeavingPart(h) PROVE Goal
    BY <1>1, <1>15, ObjectStep
    DEF Actors, InsertFailsLeavingPart, Return, store, Publishing
<1>16. ASSUME NEW h \in Handlers, WriteBody(h) PROVE Goal
    BY <1>1, <1>16, ObjectStep
    DEF Actors, WriteBody, Goto, Publishing
<1>17. ASSUME NEW h \in Handlers, WriteRefused(h) PROVE Goal
    BY <1>1, <1>17, ObjectStep
    DEF Actors, WriteRefused, UnlockAndReturn, Return, store, Publishing
<1>18. ASSUME NEW h \in Handlers, WriteCommit(h) PROVE Goal
    BY <1>1, <1>18, ObjectStep
    DEF Actors, WriteCommit, UnlockAndReturn, Return, Publishing
<1>19. ASSUME NEW h \in Handlers, WriteUndone(h) PROVE Goal
    BY <1>1, <1>19, ObjectStep
    DEF Actors, WriteUndone, UnlockAndReturn, Return, Publishing
<1>20. ASSUME NEW h \in Handlers, WriteNotUndone(h) PROVE Goal
    BY <1>1, <1>20, ObjectStep
    DEF Actors, WriteNotUndone, UnlockAndReturn, Return, store, Publishing
<1>21. ASSUME NEW h \in Handlers, HashStaging(h) PROVE Goal
    BY <1>1, <1>21, ObjectStep
    DEF Actors, HashStaging, Goto, store, Publishing
<1>22. ASSUME NEW h \in Handlers, CompleteRefused(h) PROVE Goal
    BY <1>1, <1>22, ObjectStep
    DEF Actors, CompleteRefused, UnlockAndReturn, Return, store, Publishing
<1>23. ASSUME NEW h \in Handlers, ChecksumAccepted(h) PROVE Goal
    BY <1>1, <1>23, ObjectStep
    DEF Actors, ChecksumAccepted, Goto, store, Publishing
<1>24. ASSUME NEW h \in Handlers, ChecksumRefused(h) PROVE Goal
    BY <1>1, <1>24, ObjectStep
    DEF Actors, ChecksumRefused, Return, store, Publishing
<1>25. ASSUME NEW h \in Handlers, PublishStaging(h) PROVE Goal
    BY <1>25, PublishStagingObjects
<1>26. ASSUME NEW h \in Handlers, PublishUnsynced(h) PROVE Goal
    BY <1>26, PublishUnsyncedObjects
<1>27. ASSUME NEW h \in Handlers, CommitFile(h) PROVE Goal
    BY <1>27, CommitFileObjects
<1>28. ASSUME NEW h \in Handlers, CommitFails(h) PROVE Goal
    BY <1>28, CommitFailsObjects
<1>29. ASSUME NEW h \in Handlers, RestorePublished(h) PROVE Goal
    BY <1>29, RestorePublishedObjects
<1>30. ASSUME NEW h \in Handlers, RestoreFails(h) PROVE Goal
    BY <1>1, <1>30, ObjectStep
    DEF Actors, RestoreFails, UnlockAndReturn, Return, store, Publishing
<1>31. ASSUME NEW p \in Procs, Boot(p) PROVE Goal
    BY <1>1, <1>31, ObjectStep
    DEF Actors, Boot, Goto, store, Publishing
<1>32. ASSUME NEW p \in Procs, ListRows(p) PROVE Goal
    BY <1>1, <1>32, ObjectStep
    DEF Actors, ListRows, Goto, store, Publishing
<1>33. ASSUME NEW p \in Procs, ListNames(p) PROVE Goal
    BY <1>1, <1>33, ObjectStep
    DEF Actors, ListNames, Goto, store, Publishing
<1>34. ASSUME NEW p \in Procs, ScanRow(p) PROVE Goal
    BY <1>1, <1>34, ObjectStep
    DEF Actors, ScanRow, Goto, store, Publishing
<1>35. ASSUME NEW p \in Procs, ScanName(p) PROVE Goal
    BY <1>1, <1>35, ObjectStep
    DEF Actors, ScanName, Goto, store, Publishing
<1>36. ASSUME NEW p \in Procs, LockSidecar(p) PROVE Goal
    BY <1>1, <1>36, ObjectStep
    DEF Actors, LockSidecar, Goto, Publishing
<1>37. ASSUME NEW p \in Procs, RecheckRow(p) PROVE Goal
    BY <1>1, <1>37, ObjectStep
    DEF Actors, RecheckRow, UnlockAndReturn, Return, Goto, store, Publishing
<1>38. ASSUME NEW p \in Procs, RemoveOrphan(p) PROVE Goal
    BY <1>1, <1>38, ObjectStep
    DEF Actors, RemoveOrphan, UnlockAndReturn, Return, Publishing
<1>39. ASSUME NEW p \in Procs, FinishRecovery(p) PROVE Goal
    BY <1>1, <1>39, ObjectStep
    DEF Actors, FinishRecovery, EndRecovery, store, Publishing
<1>40. ASSUME NEW p \in Procs, RecoveryFails(p) PROVE Goal
    BY <1>1, <1>40, ObjectStep
    DEF Actors, RecoveryFails, EndRecovery, store, Publishing
<1>41. ASSUME NEW p \in Procs, Crash(p) PROVE Goal
    <2>1. \A a \in Actors : pc'[a] \in Publishing => pc[a] \in Publishing /\ frame'[a] = frame[a]
        BY <1>41 DEF Crash, Publishing
    <2>2. objects' = objects /\ files' = files
        BY <1>41 DEF Crash, store
    <2> QED BY <2>1, <2>2 DEF ObjectInv, ObjectsOwned, FileHasObject
<1>42. ASSUME NEW i \in Ids, Expire(i) PROVE Goal
    BY <1>42 DEF ObjectInv, ObjectsOwned, FileHasObject, Expire, local
<1>43. ASSUME UNCHANGED vars PROVE Goal
    BY <1>43 DEF ObjectInv, ObjectsOwned, FileHasObject, vars
<1> HIDE DEF Goal
<1>44. Goal
    BY <1>2, <1>3, <1>4, <1>5, <1>6, <1>7, <1>8, <1>9, <1>10, 
          <1>11, <1>12, <1>13, <1>14, <1>15, <1>16, <1>17, <1>18, <1>19, 
          <1>20, <1>21, <1>22, <1>23, <1>24, <1>25, <1>26, <1>27, <1>28, 
          <1>29, <1>30, <1>31, <1>32, <1>33, <1>34, <1>35, <1>36, <1>37, 
          <1>38, <1>39, <1>40, <1>41, <1>42, <1>43
       DEF Next, Locking, Cleaning, Requesting, Answer, Creating, Writing, Completing,
           Recovering
<1>45. LockInv'
    BY LockInvStep DEF ObjectInv
<1> QED BY <1>44, <1>45 DEF ObjectInv, Goal

\* There is no file and no publication at the start.
LEMMA ObjectInvInit == Init => ObjectInv
<1> SUFFICES ASSUME Init
             PROVE  ObjectInv
    OBVIOUS
<1>1. (\A a \in Actors : pc[a] = "idle") /\ (\A p \in Paths : files[p] = None)
    BY DEF Init
<1> QED BY <1>1, LockInvInit DEF ObjectInv, ObjectsOwned, FileHasObject, Publishing

\* repository.go:892-894: a file row always names an object that exists, however
\* publications, restores, conflicts and crashes interleave.
THEOREM FilesKeepTheirObjects == Spec => []FileHasObject
<1>1. Init => ObjectInv
    BY ObjectInvInit
<1>2. ObjectInv /\ [Next]_vars => ObjectInv'
    BY ObjectInvStep
<1>3. ObjectInv => FileHasObject
    BY DEF ObjectInv
<1> QED BY <1>1, <1>2, <1>3, PTL DEF Spec
=============================================================================
