------------------------- MODULE UploadContentProofs -------------------------
(***************************************************************************)
(* What uploads do with content, for any sets of sessions, handlers and    *)
(* processes, on top of UploadSessionsProofs:                              *)
(*                                                                         *)
(*   KeptInv       a part, an object and a file begin with what was        *)
(*                 acknowledged                                            *)
(*   ExactInv      and, with one server, hold nothing else                 *)
(*   StrayInv      every object has a file or a publication in progress    *)
(*   BytesInv      an active session has its part                          *)
(*   ReclaimedInv  a session's row does not go before its part             *)
(*   ContractInv   which together map every step to one of UploadContract  *)
(*   RecoveryInv   what a recovery run has not settled it still has on its *)
(*                 lists                                                   *)
(*   Owned         a taken flock belongs to a goroutine that does not wait *)
(***************************************************************************)
EXTENDS UploadSessionsProofs, FiniteSetTheorems

-----------------------------------------------------------------------------
(* Contents                                                                 *)

\* The content c begins with the bytes s.
StartsWith(c, s) == Len(s) <= Len(c) /\ \A j \in 1..Len(s) : c[j] = s[j]

LEMMA AckedContent == Seq(Data) \subseteq Content
<1> SUFFICES ASSUME NEW s \in Seq(Data) PROVE s \in Seq(Data \cup {Hole})
    BY DEF Content
<1>1. Len(s) \in Nat /\ s \in [1..Len(s) -> Data \cup {Hole}]
    BY LenProperties
<1> QED BY <1>1, SeqDef

LEMMA StartsWithFacts ==
    ASSUME NEW c \in Content, NEW s \in Content
    PROVE  /\ StartsWith(c, <<>>) /\ StartsWith(c, c) /\ StartsWith(s \o c, s)
           /\ StartsWith(c, s) /\ Len(c) = Len(s) => c = s
           /\ StartsWith(c, s) => SubSeq(c, 1, Len(s)) = s
<1> USE DEF StartsWith, Content
<1>1. StartsWith(c, <<>>) /\ StartsWith(c, c)
    BY EmptySeq, LenProperties
<1>2. StartsWith(s \o c, s)
    BY ConcatProperties, LenProperties
<1>3. ASSUME StartsWith(c, s), Len(c) = Len(s) PROVE c = s
    BY <1>3, SeqEqual, LenProperties
<1>4. ASSUME StartsWith(c, s) PROVE SubSeq(c, 1, Len(s)) = s
    <2>1. Len(s) \in 0..Len(c) /\ 1 \in 1..(Len(c) + 1)
        BY <1>4, LenProperties
    <2>2. /\ SubSeq(c, 1, Len(s)) \in Seq(Data \cup {Hole})
          /\ Len(SubSeq(c, 1, Len(s))) = Len(s)
          /\ \A j \in 1..Len(s) : SubSeq(c, 1, Len(s))[j] = c[j]
        BY <1>4, <2>1, SubSeqProperties, LenProperties
    <2> QED BY <1>4, <2>2, SeqEqual, LenProperties
<1> QED BY <1>1, <1>2, <1>3, <1>4

\* session.go:137-146: cutting a part back to the offset leaves what was acknowledged.
LEMMA TruncatedToAcked ==
    ASSUME NEW c \in Content, NEW s \in Content, StartsWith(c, s)
    PROVE  Truncated(c, Len(s)) = s
<1>1. Truncated(c, Len(s)) \in Content /\ Len(s) \in Nat
    BY LenProperties, TruncatedType DEF Content
<1>2. /\ Len(Truncated(c, Len(s))) = Len(s)
      /\ \A j \in 1..Len(s) : Truncated(c, Len(s))[j] = s[j]
    BY <1>1, LenProperties DEF Truncated, StartsWith, Content
<1> QED BY <1>1, <1>2, SeqEqual, LenProperties DEF Content

\* Writing at the end of a file appends.
LEMMA PatchedAtEnd ==
    ASSUME NEW s \in Content, NEW d \in Content
    PROVE  Patched(s, Len(s), d) = s \o d
<1> USE DEF Content
<1>1. Len(s) \in Nat /\ Len(d) \in Nat /\ Patched(s, Len(s), d) \in Content
    BY LenProperties, PatchedType
<1>2. Max2(Len(s), Len(s) + Len(d)) = Len(s) + Len(d)
    BY <1>1 DEF Max2
<1>3. /\ Len(Patched(s, Len(s), d)) = Len(s) + Len(d)
      /\ \A j \in 1..(Len(s) + Len(d)) :
            Patched(s, Len(s), d)[j] = IF j <= Len(s) THEN s[j] ELSE d[j - Len(s)]
    BY <1>1, <1>2, LenProperties DEF Patched
<1>4. /\ s \o d \in Content /\ Len(s \o d) = Len(s) + Len(d)
      /\ \A j \in 1..(Len(s) + Len(d)) :
            (s \o d)[j] = IF j <= Len(s) THEN s[j] ELSE d[j - Len(s)]
    BY ConcatProperties
<1> QED BY <1>1, <1>3, <1>4, SeqEqual

-----------------------------------------------------------------------------
(* Steps that store nothing                                                 *)

\* A handler that has hashed a part and not yet given up publishing it.
Hashed(h) ==
    \/ pc[h] = "hashed"
    \/ pc[h] \in {"blocked", "locked"} /\ frame[h].op = "publish"
    \/ pc[h] \in Publishing

\* Only goroutine a moves.
Alone(a) == \A b \in Actors : b # a => pc'[b] = pc[b] /\ frame'[b] = frame[b]

\* What is stored, and what the properties know of it.
stored == <<row, part, objects, files, acked, born, crashes, faults>>

\* A step of a that stores nothing and only moves a to where it has less in hand.
Quiet(a) ==
    /\ Alone(a)
    /\ UNCHANGED stored
    /\ pc'[a] \notin {"staged", "copied", "hashed", "unlinked"}
    /\ pc'[a] \in Publishing => pc[a] \in Publishing /\ frame'[a] = frame[a]
    /\ pc'[a] = "doomed" => row[frame'[a].id] = None
    /\ a \in Handlers => pc[a] # "copied" /\ (pc[a] \in Publishing => pc'[a] \in Publishing)
    /\ Hashed(a)' => Hashed(a) /\ frame'[a].id = frame[a].id /\ frame'[a].data = frame[a].data

\* The goroutine that returns is the only one that moves.
LEMMA Returns ==
    ASSUME TypeInv, NEW a \in Actors, Return(a)
    PROVE  Alone(a) /\ pc'[a] \in {"scan", "idle"} /\ frame'[a] = Blank /\ ~Hashed(a)'
<1>1. pc \in [Actors -> Points] /\ frame \in [Actors -> Frames]
    BY DEF TypeInv, TypeOK
<1> QED BY <1>1 DEF Return, Alone, Hashed, Publishing

\* So is the process that ends its recovery run.
LEMMA RecoveryEnds ==
    ASSUME TypeInv, NEW p \in Procs, EndRecovery(p)
    PROVE  Alone(p) /\ pc'[p] = "idle" /\ frame'[p] = Blank /\ ~Hashed(p)'
<1>1. pc \in [Actors -> Points] /\ frame \in [Actors -> Frames] /\ p \in Actors
    BY DEF TypeInv, TypeOK, Actors
<1> QED BY <1>1 DEF EndRecovery, Alone, Hashed, Publishing

LEMMA GivenUp ==
    ASSUME TypeInv, NEW a \in Actors, GiveUp(a)
    PROVE  Alone(a) /\ pc'[a] \in {"scan", "idle"} /\ ~Hashed(a)' /\ UNCHANGED stored
<1>1. CASE a \in Procs /\ EndRecovery(a)
    BY <1>1, RecoveryEnds DEF GiveUp, store, ghost, bounds, stored
<1>2. CASE Return(a)
    BY <1>2, Returns DEF GiveUp, store, ghost, bounds, stored
<1> QED BY <1>1, <1>2 DEF GiveUp

\* What remains when the quiet steps are set aside.
Storing ==
    \/ \E a \in Actors : MarkStatus(a) \/ Unlink(a) \/ DeleteRow(a)
    \/ \E h \in Handlers : CreatePart(h) \/ Creating(h)
    \/ \E h \in Handlers : WriteBody(h) \/ WriteCommit(h) \/ WriteUndone(h) \/ WriteNotUndone(h)
    \/ \E h \in Handlers : \/ HashStaging(h) \/ PublishStaging(h) \/ PublishUnsynced(h)
                           \/ CommitFile(h) \/ RestorePublished(h) \/ RestoreFails(h)
    \/ \E p \in Procs : RemoveOrphan(p) \/ Crash(p)

\* A step stores something, moves one goroutine quietly, or moves nobody.
LEMMA StepKinds ==
    ASSUME TypeInv, [Next]_vars
    PROVE  Storing \/ (\E a \in Actors : Quiet(a)) \/ UNCHANGED <<stored, pc, frame>>
<1> DEFINE Goal == (\E a \in Actors : Quiet(a)) \/ UNCHANGED <<stored, pc, frame>>
<1>0. /\ pc \in [Actors -> Points] /\ frame \in [Actors -> Frames]
      /\ Handlers \subseteq Actors /\ Procs \subseteq Actors
      /\ \A p \in Procs : p \notin Handlers
    BY UploadAssumption DEF TypeInv, TypeOK, Actors
<1> USE <1>0
<1>1. ASSUME NEW a \in Actors, Locking(a) PROVE Goal
    <2>1. CASE Acquire(a)
        <3>1. /\ frame'[a].op = frame[a].op /\ frame'[a].id = frame[a].id
              /\ frame'[a].data = frame[a].data
            BY <2>1 DEF Acquire, Frames
        <3>3. pc'[a] = "locked" /\ pc[a] = "blocked"
            BY <2>1 DEF Acquire, Goto
        <3>2. Alone(a) /\ UNCHANGED stored
            BY <2>1 DEF Acquire, Goto, Alone, stored, ghost, bounds
        <3> QED BY <3>1, <3>2, <3>3 DEF Quiet, Hashed, Publishing
    <2>2. CASE AcquireGone(a)
        BY <2>2, Returns DEF AcquireGone, Quiet, store, ghost, bounds, stored, Publishing
    <2>3. CASE AcquireFails(a)
        BY <2>3, GivenUp DEF AcquireFails, Quiet, Publishing
    <2>4. CASE Abandon(a)
        BY <2>4, GivenUp DEF Abandon, Quiet, Publishing
    <2> QED BY <1>1, <2>1, <2>2, <2>3, <2>4 DEF Locking
<1>2. ASSUME NEW a \in Actors, StartCleanup(a) \/ KeepSession(a) PROVE Goal
    <2>1. CASE StartCleanup(a)
        BY <2>1 DEF StartCleanup, Goto, Quiet, Alone, Hashed, store, ghost, bounds, stored, Publishing
    <2>2. CASE KeepSession(a)
        BY <2>2, Returns
           DEF KeepSession, UnlockAndReturn, Quiet, store, ghost, bounds, stored, Publishing
    <2> QED BY <1>2, <2>1, <2>2
<1>3. ASSUME NEW h \in Handlers, Arrive(h) \/ Answer(h) PROVE Goal
    <2>1. CASE Arrive(h)
        <3>1. PICK i \in Ids, o \in Ops \ {"publish"} :
                 frame' = [frame EXCEPT ![h] = [Blank EXCEPT !.op = o, !.id = i]]
            BY <2>1 DEF Arrive, Ops
        <3>2. [Blank EXCEPT !.op = o, !.id = i].op = o
            BY NewFrame
        <3>3. frame'[h].op # "publish" /\ pc'[h] = "blocked" /\ pc[h] = "idle"
            BY <2>1, <3>1, <3>2 DEF Arrive, Goto
        <3>4. Alone(h) /\ UNCHANGED stored
            BY <2>1 DEF Arrive, Goto, Alone, store, ghost, bounds, stored
        <3> QED BY <3>3, <3>4 DEF Quiet, Hashed, Publishing
    <2>2. CASE Answer(h)
        BY <2>2 DEF Answer, vars, stored
    <2> QED BY <1>3, <2>1, <2>2
<1>4. ASSUME NEW h \in Handlers, WriteRefused(h) \/ CompleteRefused(h) \/ ChecksumRefused(h) PROVE Goal
    BY <1>4, Returns
       DEF WriteRefused, CompleteRefused, ChecksumRefused, UnlockAndReturn, Quiet, store, ghost,
           bounds, stored, Publishing
<1>5. ASSUME NEW h \in Handlers, ChecksumAccepted(h) \/ CommitFails(h) PROVE Goal
    <2>1. CASE ChecksumAccepted(h)
        <3>1. /\ frame'[h].id = frame[h].id /\ frame'[h].data = frame[h].data
              /\ pc'[h] = "blocked" /\ pc[h] = "hashed"
            BY <2>1 DEF ChecksumAccepted, Goto, Frames
        <3>2. Alone(h) /\ UNCHANGED stored
            BY <2>1 DEF ChecksumAccepted, Goto, Alone, store, ghost, bounds, stored
        <3> QED BY <3>1, <3>2 DEF Quiet, Hashed, Publishing
    <2>2. CASE CommitFails(h)
        BY <2>2 DEF CommitFails, Goto, Quiet, Alone, Hashed, store, ghost, bounds, stored, Publishing
    <2> QED BY <1>5, <2>1, <2>2
<1>6. ASSUME NEW p \in Procs, Boot(p) \/ ListRows(p) \/ ListNames(p) PROVE Goal
    BY <1>6
       DEF Boot, ListRows, ListNames, Goto, Quiet, Alone, Hashed, store, ghost, bounds, stored,
           Publishing
<1>7. ASSUME NEW p \in Procs, ScanRow(p) \/ ScanName(p) PROVE Goal
    <2>1. CASE UNCHANGED <<pc, frame>>
        BY <1>7, <2>1 DEF ScanRow, ScanName, store, ghost, bounds, stored
    <2>2. CASE ~UNCHANGED <<pc, frame>>
        <3>1. PICK i \in Ids :
                 /\ frame' = [frame EXCEPT ![p] = [Blank EXCEPT !.op = "recover", !.id = i]]
                 /\ Goto(p, "blocked") \/ Goto(p, "sidecar")
            BY <1>7, <2>2 DEF ScanRow, ScanName, TypeInv, TypeOK, Todos
        <3>2. [Blank EXCEPT !.op = "recover", !.id = i].op = "recover"
            BY NewFrame DEF Ops
        <3>3. frame'[p].op # "publish" /\ pc'[p] \in {"blocked", "sidecar"}
            BY <3>1, <3>2 DEF Goto
        <3>4. Alone(p) /\ UNCHANGED stored
            BY <1>7, <3>1 DEF ScanRow, ScanName, Goto, Alone, store, ghost, bounds, stored
        <3> QED BY <3>3, <3>4 DEF Quiet, Hashed, Publishing
    <2> QED BY <2>1, <2>2
<1>8. ASSUME NEW p \in Procs, LockSidecar(p) PROVE Goal
    BY <1>8 DEF LockSidecar, Goto, Quiet, Alone, Hashed, ghost, bounds, stored, Publishing
<1>9. ASSUME NEW p \in Procs, RecheckRow(p) PROVE Goal
    <2>1. CASE Goto(p, "doomed") /\ frame' = frame
        <3>1. row[frame[p].id] = None
            BY <1>9, <2>1, Returns DEF RecheckRow, UnlockAndReturn, Goto
        <3> QED BY <1>9, <2>1, <3>1
            DEF RecheckRow, Goto, Quiet, Alone, Hashed, store, ghost, bounds, stored, Publishing
    <2>2. CASE Return(p)
        BY <1>9, <2>2, Returns DEF RecheckRow, Quiet, store, ghost, bounds, stored, Publishing
    <2> QED BY <1>9, <2>1, <2>2 DEF RecheckRow, UnlockAndReturn
<1>10. ASSUME NEW p \in Procs, FinishRecovery(p) \/ RecoveryFails(p) PROVE Goal
    BY <1>10, RecoveryEnds
       DEF FinishRecovery, RecoveryFails, Quiet, store, ghost, bounds, stored, Publishing
<1>11. ASSUME NEW i \in Ids, Expire(i) PROVE Goal
    BY <1>11 DEF Expire, local, ghost, bounds, stored
<1>12. ASSUME UNCHANGED vars PROVE Goal
    BY <1>12 DEF vars, stored
<1> HIDE DEF Goal
<1>13. ASSUME NEW a \in Actors, Locking(a) \/ Cleaning(a) PROVE Storing \/ Goal
    BY <1>1, <1>2, <1>13 DEF Cleaning, Storing
<1>14. ASSUME NEW h \in Handlers, Requesting(h) \/ Creating(h) \/ Writing(h) \/ Completing(h)
       PROVE  Storing \/ Goal
    BY <1>3, <1>4, <1>5, <1>14 DEF Requesting, Writing, Completing, Storing
<1>15. ASSUME NEW p \in Procs, Boot(p) \/ Recovering(p) \/ Crash(p) PROVE Storing \/ Goal
    BY <1>6, <1>7, <1>8, <1>9, <1>10, <1>15 DEF Recovering, Storing
<1>16. Storing \/ Goal
    BY <1>11, <1>12, <1>13, <1>14, <1>15 DEF Next
<1> QED BY <1>16 DEF Goal

-----------------------------------------------------------------------------
(* Acknowledged bytes                                                       *)

\* Creating, writing and publishing is the work of handlers.
HandlersOnly ==
    \A a \in Actors : pc[a] \in {"staged", "copied", "hashed"} \cup Publishing => a \in Handlers

\* A session counts what was acknowledged.
OffsetsAcked ==
    \A i \in Ids : /\ i \notin born => acked[i] = <<>>
                   /\ row[i] # None => row[i].offset = Len(acked[i])

\* Its part begins with it,
PartsKept ==
    \A i \in Ids : row[i] # None /\ part[i] # None => StartsWith(part[i], acked[i])

\* and holds exactly the new bytes behind it while a PATCH is about to commit.
CopiesExact ==
    \A a \in Actors : pc[a] = "copied" /\ part[frame[a].id] # None =>
        part[frame[a].id] = acked[frame[a].id] \o frame[a].data

\* The object of a publication, of a complete session, begins with it,
ObjectsKept ==
    \A a \in Actors : pc[a] \in Publishing =>
        /\ frame[a].snap.offset = frame[a].snap.length
        /\ StartsWith(objects[frame[a].key], acked[frame[a].id])

\* and so does that of a file, whose session is over.
FilesKept ==
    \A p \in Paths : files[p] # None =>
        /\ files[p].from \in born /\ row[files[p].from] = None
        /\ files[p].size = Len(acked[files[p].from])
        /\ StartsWith(objects[files[p].key], acked[files[p].from])

Kept == HandlersOnly /\ OffsetsAcked /\ PartsKept /\ CopiesExact /\ ObjectsKept /\ FilesKept
KeptInv == ObjectInv /\ Kept

\* What KeptInv says of the shapes.
LEMMA Shapes ==
    ASSUME KeptInv
    PROVE  /\ TypeInv
           /\ pc \in [Actors -> Points] /\ frame \in [Actors -> Frames]
           /\ row \in [Ids -> Rows \cup {None}] /\ lock \in [Ids -> Actors \cup {None}]
           /\ part \in [Ids -> Content \cup {None}] /\ objects \in [Keys -> Content \cup {None}]
           /\ files \in [Paths -> Files \cup {None}] /\ acked \in [Ids -> Seq(Data)]
           /\ \A i \in Ids : acked[i] \in Content
           /\ born \subseteq Ids /\ Handlers \subseteq Actors /\ Procs \subseteq Actors
           /\ None \notin Rows /\ None \notin Content /\ None \notin Files /\ None \notin Keys
           /\ None \notin Actors
           /\ \A p \in Paths : files[p] # None => files[p].from \in Ids /\ files[p].key \in Keys
    BY UploadAssumption, AckedContent
       DEF KeptInv, ObjectInv, LockInv, TypeInv, TypeOK, Actors, Files

\* What it says of a goroutine's position.
LEMMA Positions ==
    ASSUME KeptInv, NEW a \in Actors
    PROVE  /\ frame[a] \in Frames /\ pc[a] \in Points
           /\ pc[a] \in Naming => frame[a].id \in Ids
           /\ pc[a] \in Holding => lock[frame[a].id] = a
           /\ pc[a] \in Inside =>
                 /\ frame[a].snap \in Rows /\ row[frame[a].id] = frame[a].snap
                 /\ row[frame[a].id] # None /\ frame[a].id \in born
           /\ pc[a] \in Publishing => frame[a].key \in Keys /\ objects[frame[a].key] \in Content
           /\ pc[a] = "copied" => frame[a].data \in Seq(Data) /\ frame[a].data \in Content
<1>1. Inside \subseteq Holding /\ Holding \subseteq Naming /\ Publishing \subseteq Inside
    BY DEF Inside, Holding, Naming, Publishing
<1> QED BY <1>1, Shapes, AckedContent
       DEF KeptInv, ObjectInv, LockInv, TypeInv, TypeOK, FramesFilled, LocksHeld,
           SnapshotCurrent, StagedFresh, ObjectsOwned

\* Two goroutines never hold one session.
LEMMA OneHolder ==
    ASSUME KeptInv, NEW a \in Actors, NEW b \in Actors, pc[a] \in Holding, pc[b] \in Holding,
           frame[a].id = frame[b].id
    PROVE  a = b
    BY Positions

\* A step that acknowledges nothing, publishes nothing, and touches parts and
\* objects only to take them away or where nobody depends on them.
LEMMA KeepStep ==
    ASSUME KeptInv, NEW a \in Actors, Alone(a),
           acked' = acked, born' = born, files' = files,
           \A i \in Ids : row'[i] # None => row[i] # None /\ row'[i].offset = row[i].offset,
           \A i \in Ids : \/ part'[i] = part[i] \/ part'[i] = None
                          \/ row[i] = None /\ \A b \in Actors : frame[b].id # i,
           \A k \in Keys : \/ objects'[k] = objects[k]
                           \/ /\ \A p \in Paths : files[p] # None => files[p].key # k
                              /\ \A b \in Actors : b # a /\ pc[b] \in Publishing => frame[b].key # k,
           pc'[a] # "copied",
           pc'[a] \in {"staged", "hashed"} => a \in Handlers,
           pc'[a] \in Publishing => pc[a] \in Publishing /\ frame'[a] = frame[a] /\ objects' = objects
    PROVE  Kept'
<1> USE Shapes
<1>1. HandlersOnly'
    BY DEF KeptInv, Kept, HandlersOnly, Alone
<1>2. OffsetsAcked'
    BY DEF KeptInv, Kept, OffsetsAcked
<1>3. PartsKept'
    BY DEF KeptInv, Kept, PartsKept
<1>4. CopiesExact'
    <2> SUFFICES ASSUME NEW b \in Actors, pc'[b] = "copied", part'[frame'[b].id] # None
                 PROVE  part'[frame'[b].id] = acked'[frame'[b].id] \o frame'[b].data
        BY DEF CopiesExact
    <2>1. b # a /\ pc[b] = "copied" /\ frame'[b] = frame[b] /\ frame[b].id \in Ids
        BY Positions DEF Alone, Naming, Holding, Inside
    <2>2. part'[frame[b].id] = part[frame[b].id]
        BY <2>1
    <2>3. part[frame[b].id] = acked[frame[b].id] \o frame[b].data
        BY <2>1, <2>2 DEF KeptInv, Kept, CopiesExact
    <2> QED BY <2>1, <2>2, <2>3
<1>5. ObjectsKept'
    <2> SUFFICES ASSUME NEW b \in Actors, pc'[b] \in Publishing
                 PROVE  /\ frame'[b].snap.offset = frame'[b].snap.length
                        /\ StartsWith(objects'[frame'[b].key], acked'[frame'[b].id])
        BY DEF ObjectsKept
    <2>1. pc[b] \in Publishing /\ frame'[b] = frame[b] /\ frame[b].key \in Keys
        BY Positions DEF Alone
    <2>2. objects'[frame[b].key] = objects[frame[b].key]
        BY <2>1
    <2> QED BY <2>1, <2>2 DEF KeptInv, Kept, ObjectsKept
<1>6. FilesKept'
    BY DEF KeptInv, Kept, FilesKept
<1> QED BY <1>1, <1>2, <1>3, <1>4, <1>5, <1>6 DEF Kept

LEMMA QuietKept ==
    ASSUME KeptInv, NEW a \in Actors, Quiet(a)
    PROVE  Kept'
    BY KeepStep DEF Quiet, stored

LEMMA UnchangedKept ==
    ASSUME KeptInv, UNCHANGED <<stored, pc, frame>>
    PROVE  Kept'
    BY DEF KeptInv, Kept, HandlersOnly, OffsetsAcked, PartsKept, CopiesExact, ObjectsKept,
           FilesKept, stored

\* cleanupLocked: the row's status, the part, the row (session.go:239-257).
LEMMA CleaningKept ==
    ASSUME KeptInv, NEW a \in Actors, MarkStatus(a) \/ Unlink(a) \/ DeleteRow(a)
    PROVE  Kept'
<1> USE Shapes, Positions
<1>1. CASE MarkStatus(a)
    <2>1. Alone(a) /\ pc'[a] = "cleaning"
        BY <1>1 DEF MarkStatus, Alone
    <2>2. PICK to : row' = [row EXCEPT ![frame[a].id].status = to]
        BY <1>1 DEF MarkStatus
    <2>3. \A i \in Ids : row'[i] # None => row[i] # None /\ row'[i].offset = row[i].offset
        <3>1. row[frame[a].id] # None /\ frame[a].id \in Ids /\ pc[a] = "cleaning"
            BY <1>1 DEF MarkStatus, Naming, Holding, Inside
        <3>2. row[frame[a].id] \in Rows
            BY <3>1
        <3> QED BY <2>2, <3>1, <3>2 DEF Rows
    <2>4. /\ acked' = acked /\ born' = born /\ files' = files /\ part' = part
          /\ objects' = objects
        BY <1>1 DEF MarkStatus, ghost
    <2> QED BY <2>1, <2>3, <2>4, KeepStep DEF Publishing
<1>2. CASE Unlink(a)
    <2>1. Alone(a) /\ pc'[a] = "unlinked"
        BY <1>2 DEF Unlink, Goto, Alone
    <2>2. \A i \in Ids : part'[i] = part[i] \/ part'[i] = None
        BY <1>2 DEF Unlink
    <2>3. /\ acked' = acked /\ born' = born /\ files' = files /\ row' = row
          /\ objects' = objects
        BY <1>2 DEF Unlink, ghost
    <2> QED BY <2>1, <2>2, <2>3, KeepStep DEF Publishing
<1>3. CASE DeleteRow(a)
    <2>1. Alone(a) /\ pc'[a] \in {"scan", "idle"}
        BY <1>3, Returns DEF DeleteRow, UnlockAndReturn
    <2>2. \A i \in Ids : row'[i] = row[i] \/ row'[i] = None
        BY <1>3 DEF DeleteRow
    <2>3. /\ acked' = acked /\ born' = born /\ files' = files /\ part' = part
          /\ objects' = objects
        BY <1>3 DEF DeleteRow, ghost
    <2> QED BY <2>1, <2>2, <2>3, KeepStep DEF Publishing
<1> QED BY <1>1, <1>2, <1>3

\* Create makes a part that no session has yet (session.go:61-69).
LEMMA CreatingKept ==
    ASSUME KeptInv, NEW h \in Handlers,
           CreatePart(h) \/ InsertFails(h) \/ InsertFailsLeavingPart(h)
    PROVE  Kept'
<1> USE Shapes, Positions
<1>1. CASE CreatePart(h)
    <2>1. PICK i \in FreshIds : part' = [part EXCEPT ![i] = <<>>]
        BY <1>1 DEF CreatePart
    <2>2. i \in Ids /\ row[i] = None /\ \A b \in Actors : frame[b].id # i
        BY <2>1 DEF FreshIds, KeptInv, ObjectInv, LockInv, StagedFresh
    <2>3. \A j \in Ids : j # i => part'[j] = part[j]
        BY <2>1
    <2>4. Alone(h) /\ pc'[h] = "staged"
        BY <1>1 DEF CreatePart, Goto, Alone
    <2>5. /\ acked' = acked /\ born' = born /\ files' = files /\ row' = row
          /\ objects' = objects
        BY <1>1 DEF CreatePart, ghost
    <2> QED BY <2>2, <2>3, <2>4, <2>5, KeepStep DEF Publishing
<1>2. CASE InsertFails(h)
    <2>1. Alone(h) /\ pc'[h] \in {"scan", "idle"}
        BY <1>2, Returns DEF InsertFails
    <2>2. \A i \in Ids : part'[i] = part[i] \/ part'[i] = None
        BY <1>2 DEF InsertFails
    <2>3. /\ acked' = acked /\ born' = born /\ files' = files /\ row' = row
          /\ objects' = objects
        BY <1>2 DEF InsertFails, ghost
    <2> QED BY <2>1, <2>2, <2>3, KeepStep DEF Publishing
<1>3. CASE InsertFailsLeavingPart(h)
    <2>1. Alone(h) /\ pc'[h] \in {"scan", "idle"}
        BY <1>3, Returns DEF InsertFailsLeavingPart
    <2>2. UNCHANGED <<store, ghost>>
        BY <1>3 DEF InsertFailsLeavingPart
    <2> QED BY <2>1, <2>2, KeepStep DEF Publishing, store, ghost
<1> QED BY <1>1, <1>2, <1>3

\* CreateUploadSession inserts a session at offset 0, of which nothing is acknowledged.
LEMMA InsertRowKept ==
    ASSUME KeptInv, NEW h \in Handlers, InsertRow(h)
    PROVE  Kept'
<1> USE Shapes, Positions
<1>1. /\ Alone(h) /\ pc'[h] \in {"scan", "idle"} /\ pc[h] = "staged" /\ frame[h].id \in Ids
      /\ frame[h].id \notin born /\ row[frame[h].id] = None /\ acked[frame[h].id] = <<>>
    BY Returns
       DEF InsertRow, Naming, Holding, Inside, KeptInv, Kept, OffsetsAcked, ObjectInv, LockInv,
           StagedFresh
<1>2. /\ acked' = acked /\ files' = files /\ part' = part /\ objects' = objects
      /\ born' = born \cup {frame[h].id}
    BY DEF InsertRow
<1>3. /\ \A i \in Ids : i # frame[h].id => row'[i] = row[i]
      /\ row'[frame[h].id].offset = 0
    BY <1>1 DEF InsertRow
<1>4. HandlersOnly'
    BY <1>1 DEF KeptInv, Kept, HandlersOnly, Alone, Publishing
<1>5. OffsetsAcked'
    BY <1>1, <1>2, <1>3, EmptySeq DEF KeptInv, Kept, OffsetsAcked
<1>6. PartsKept'
    <2>1. part[frame[h].id] # None => StartsWith(part[frame[h].id], acked[frame[h].id])
        BY <1>1, StartsWithFacts
    <2> QED BY <1>2, <1>3, <2>1 DEF KeptInv, Kept, PartsKept
<1>7. \A b \in Actors : pc'[b] \in {"copied"} \cup Publishing =>
          b # h /\ pc[b] \in {"copied"} \cup Publishing /\ pc'[b] = pc[b] /\ frame'[b] = frame[b]
    BY <1>1 DEF Alone, Publishing
<1>8. CopiesExact'
    BY <1>2, <1>7 DEF KeptInv, Kept, CopiesExact
<1>9. ObjectsKept'
    BY <1>2, <1>7 DEF KeptInv, Kept, ObjectsKept
<1>10. FilesKept'
    BY <1>1, <1>2, <1>3 DEF KeptInv, Kept, FilesKept
<1> QED BY <1>4, <1>5, <1>6, <1>8, <1>9, <1>10 DEF Kept

\* A PATCH writes behind the acknowledged bytes and nowhere else (session.go:137-149).
LEMMA Written ==
    ASSUME KeptInv, NEW h \in Handlers, WriteBody(h)
    PROVE  /\ pc[h] = "locked" /\ frame[h].id \in Ids
           /\ \E d \in Seq(Data) : /\ part'[frame[h].id] = acked[frame[h].id] \o d
                                   /\ frame'[h].data = d
           /\ part[frame[h].id] # None /\ part'[frame[h].id] \in Content
           /\ frame'[h].id = frame[h].id
           /\ pc'[h] = "copied" /\ Alone(h)
           /\ \A j \in Ids : j # frame[h].id => part'[j] = part[j]
           /\ acked' = acked /\ born' = born /\ files' = files /\ row' = row /\ objects' = objects
<1> USE Shapes, Positions
<1> DEFINE i == frame[h].id
<1>1. /\ pc[h] = "locked" /\ i \in Ids /\ part[i] \in Content /\ part[i] # None /\ row[i] \in Rows
      /\ row[i] = frame[h].snap
    BY DEF WriteBody, Naming, Holding, Inside
<1>2. frame[h].snap.offset = Len(acked[i]) /\ StartsWith(part[i], acked[i])
    BY <1>1 DEF KeptInv, Kept, OffsetsAcked, PartsKept
<1>3. PICK off \in 0..MaxLength, d \in Seq(Data) :
         /\ off = frame[h].snap.offset
         /\ part' = [part EXCEPT ![i] = Patched(Truncated(@, frame[h].snap.offset), off, d)]
         /\ frame' = [frame EXCEPT ![h].data = d]
    <2>1. frame[h].snap.length \in Nat
        BY <1>1, UploadAssumption DEF Rows
    <2>2. \A off \in 0..MaxLength : \A n \in 0..(frame[h].snap.length - off + 1) :
              [1..n -> Data] \subseteq Seq(Data)
        BY <2>1, SeqDef, UploadAssumption
    <2> QED BY <2>2 DEF WriteBody, OffsetMatches
<1>4. d \in Content /\ part'[i] = acked[i] \o d /\ part'[i] \in Content
    <2>1. d \in Content /\ acked[i] \in Content
        BY <1>1, AckedContent
    <2>2. Truncated(part[i], frame[h].snap.offset) = acked[i]
        BY <1>1, <1>2, <2>1, TruncatedToAcked
    <2>3. part'[i] = Patched(acked[i], Len(acked[i]), d)
        BY <1>1, <1>2, <1>3, <2>2
    <2>4. part'[i] = acked[i] \o d
        BY <2>1, <2>3, PatchedAtEnd
    <2> QED BY <2>1, <2>4, ConcatProperties DEF Content
<1>5. frame'[h].data = d /\ frame'[h].id = i /\ pc'[h] = "copied" /\ Alone(h)
    BY <1>3, <1>4 DEF WriteBody, Goto, Alone, Frames
<1>6. /\ \A j \in Ids : j # i => part'[j] = part[j]
      /\ acked' = acked /\ born' = born /\ files' = files /\ row' = row /\ objects' = objects
    BY <1>3 DEF WriteBody, ghost
<1> QED BY <1>1, <1>4, <1>5, <1>6

LEMMA WriteBodyKept ==
    ASSUME KeptInv, NEW h \in Handlers, WriteBody(h)
    PROVE  Kept'
<1> USE Shapes, Positions
<1> DEFINE i == frame[h].id
<1>1. pc[h] = "locked" /\ i \in Ids
    BY Written
<1>4. PICK d \in Seq(Data) : part'[i] = acked[i] \o d /\ frame'[h].data = d
    BY Written
<1>5. d \in Content /\ frame'[h].id = i /\ pc'[h] = "copied" /\ Alone(h)
    BY Written, AckedContent
<1>6. /\ \A j \in Ids : j # i => part'[j] = part[j]
      /\ acked' = acked /\ born' = born /\ files' = files /\ row' = row /\ objects' = objects
    BY Written
<1>7. HandlersOnly'
    BY <1>5 DEF KeptInv, Kept, HandlersOnly, Alone, Publishing
<1>8. OffsetsAcked' /\ FilesKept'
    BY <1>6 DEF KeptInv, Kept, OffsetsAcked, FilesKept
<1>9. PartsKept'
    <2>1. StartsWith(part'[i], acked[i])
        BY <1>1, <1>4, <1>5, StartsWithFacts
    <2> HIDE DEF i
    <2> QED BY <1>6, <2>1 DEF KeptInv, Kept, PartsKept
<1>10. CopiesExact'
    <2> SUFFICES ASSUME NEW b \in Actors, pc'[b] = "copied", part'[frame'[b].id] # None
                 PROVE  part'[frame'[b].id] = acked'[frame'[b].id] \o frame'[b].data
        BY DEF CopiesExact
    <2>1. CASE b = h
        BY <1>4, <1>5, <1>6, <2>1
    <2>2. CASE b # h
        <3>1. pc[b] = "copied" /\ frame'[b] = frame[b] /\ frame[b].id \in Ids /\ frame[b].id # i
            BY <1>1, <1>5, <2>2, OneHolder DEF Alone, Naming, Holding, Inside
        <3>2. part'[frame[b].id] = part[frame[b].id]
            BY <1>6, <3>1
        <3>3. part[frame[b].id] = acked[frame[b].id] \o frame[b].data
            BY <3>1, <3>2 DEF KeptInv, Kept, CopiesExact
        <3> QED BY <1>6, <3>1, <3>2, <3>3
    <2> QED BY <2>1, <2>2
<1>11. ObjectsKept'
    BY <1>5, <1>6 DEF KeptInv, Kept, ObjectsKept, Alone, Publishing
<1> QED BY <1>7, <1>8, <1>9, <1>10, <1>11 DEF Kept

\* The end of a PATCH: its bytes are acknowledged with the offset, or cut off, or
\* stay behind the offset (session.go:147-158).
LEMMA WriteEndKept ==
    ASSUME KeptInv, NEW h \in Handlers, WriteCommit(h) \/ WriteUndone(h) \/ WriteNotUndone(h)
    PROVE  Kept'
<1> USE Shapes, Positions
<1> DEFINE i == frame[h].id
           d == frame[h].data
<1>1. /\ pc[h] = "copied" /\ i \in Ids /\ row[i] \in Rows /\ row[i] = frame[h].snap
      /\ d \in Seq(Data) /\ d \in Content /\ Alone(h) /\ pc'[h] \in {"scan", "idle"}
    BY Returns
       DEF WriteCommit, WriteUndone, WriteNotUndone, UnlockAndReturn, Naming, Holding, Inside
<1>2. /\ frame[h].snap.offset = Len(acked[i])
      /\ part[i] # None => part[i] \in Content /\ StartsWith(part[i], acked[i]) /\ part[i] = acked[i] \o d
    BY <1>1 DEF KeptInv, Kept, OffsetsAcked, PartsKept, CopiesExact
<1>3. CASE WriteNotUndone(h)
    <2>1. UNCHANGED <<store, ghost>>
        BY <1>3 DEF WriteNotUndone
    <2> QED BY <1>1, <2>1, KeepStep DEF Publishing, store, ghost
<1>4. \A b \in Actors : pc'[b] \in {"copied"} \cup Publishing =>
          /\ pc[b] = pc'[b] /\ frame'[b] = frame[b]
          /\ frame[b].id \in Ids /\ frame[b].id # i
    BY <1>1, OneHolder DEF Alone, Publishing, Naming, Holding, Inside
<1>5. HandlersOnly'
    BY <1>1 DEF KeptInv, Kept, HandlersOnly, Alone, Publishing
<1>6. CASE WriteUndone(h)
    <2>1. /\ \A j \in Ids : j # i => part'[j] = part[j]
          /\ part[i] # None => part'[i] = Truncated(part[i], Len(acked[i]))
          /\ part[i] = None => part'[i] = None
          /\ acked' = acked /\ born' = born /\ files' = files /\ row' = row /\ objects' = objects
        BY <1>1, <1>2, <1>6 DEF WriteUndone, ghost
    <2>2. part'[i] # None => StartsWith(part'[i], acked[i])
        <3>1. part[i] # None => Truncated(part[i], Len(acked[i])) = acked[i]
            BY <1>1, <1>2, TruncatedToAcked
        <3>2. StartsWith(acked[i], acked[i])
            BY <1>1, StartsWithFacts
        <3> QED BY <2>1, <3>1, <3>2
    <2> HIDE DEF i
    <2>3. PartsKept'
        BY <2>1, <2>2 DEF KeptInv, Kept, PartsKept
    <2>4. CopiesExact'
        <3> SUFFICES ASSUME NEW b \in Actors, pc'[b] = "copied", part'[frame'[b].id] # None
                     PROVE  part'[frame'[b].id] = acked'[frame'[b].id] \o frame'[b].data
            BY DEF CopiesExact
        <3>1. /\ pc[b] = "copied" /\ frame'[b] = frame[b]
              /\ part'[frame[b].id] = part[frame[b].id] /\ acked'[frame[b].id] = acked[frame[b].id]
            BY <1>4, <2>1
        <3>2. part[frame[b].id] = acked[frame[b].id] \o frame[b].data
            BY <3>1 DEF KeptInv, Kept, CopiesExact
        <3> QED BY <3>1, <3>2
    <2>5. OffsetsAcked' /\ FilesKept'
        BY <2>1 DEF KeptInv, Kept, OffsetsAcked, FilesKept
    <2>6. ObjectsKept'
        BY <1>4, <2>1 DEF KeptInv, Kept, ObjectsKept
    <2> QED BY <1>5, <2>3, <2>4, <2>5, <2>6 DEF Kept
<1>7. CASE WriteCommit(h)
    <2>1. /\ part' = part /\ born' = born /\ files' = files /\ objects' = objects
          /\ acked' = [acked EXCEPT ![i] = @ \o d]
          /\ row' = [row EXCEPT ![i].offset = frame[h].snap.offset + Len(d)]
        BY <1>7 DEF WriteCommit
    <2>2. /\ \A j \in Ids : j # i => acked'[j] = acked[j] /\ row'[j] = row[j]
          /\ acked'[i] = acked[i] \o d
          /\ row'[i].offset = frame[h].snap.offset + Len(d)
        BY <1>1, <2>1 DEF Rows
    <2>3. row'[i].offset = Len(acked'[i])
        BY <1>1, <1>2, <2>2, ConcatProperties DEF Content
    <2>4. i \in born
        BY <1>1 DEF Inside
    <2>5. part[i] # None => StartsWith(part[i], acked'[i])
        BY <1>1, <1>2, <2>2, StartsWithFacts
    <2> HIDE DEF i, d
    <2>6. OffsetsAcked'
        BY <1>1, <2>1, <2>2, <2>3, <2>4 DEF KeptInv, Kept, OffsetsAcked
    <2>7. PartsKept'
        BY <1>1, <2>1, <2>2, <2>5 DEF KeptInv, Kept, PartsKept
    <2>8. CopiesExact'
        <3> SUFFICES ASSUME NEW b \in Actors, pc'[b] = "copied", part'[frame'[b].id] # None
                     PROVE  part'[frame'[b].id] = acked'[frame'[b].id] \o frame'[b].data
            BY DEF CopiesExact
        <3>1. /\ pc[b] = "copied" /\ frame'[b] = frame[b]
              /\ part'[frame[b].id] = part[frame[b].id] /\ acked'[frame[b].id] = acked[frame[b].id]
            BY <1>4, <2>1, <2>2
        <3>2. part[frame[b].id] = acked[frame[b].id] \o frame[b].data
            BY <3>1 DEF KeptInv, Kept, CopiesExact
        <3> QED BY <3>1, <3>2
    <2>9. ObjectsKept'
        BY <1>4, <2>1, <2>2 DEF KeptInv, Kept, ObjectsKept
    <2>10. FilesKept'
        <3>1. \A p \in Paths : files[p] # None => files[p].from \in Ids \ {i}
            BY <1>1 DEF KeptInv, Kept, FilesKept
        <3> QED BY <2>1, <2>2, <3>1 DEF KeptInv, Kept, FilesKept
    <2> QED BY <1>5, <2>6, <2>7, <2>8, <2>9, <2>10 DEF Kept
<1> QED BY <1>3, <1>6, <1>7

\* Complete's first critical section only reads (session.go:165-187).
LEMMA HashStagingKept ==
    ASSUME KeptInv, NEW h \in Handlers, HashStaging(h)
    PROVE  Kept'
<1> USE Shapes
<1>1. Alone(h) /\ pc'[h] = "hashed" /\ UNCHANGED <<store, ghost>>
    BY DEF HashStaging, Goto, Alone
<1> QED BY <1>1, KeepStep DEF Publishing, store, ghost

\* What the rename of a complete part to a fresh object does (objects_unix.go:415-452).
LEMMA Published ==
    ASSUME KeptInv, NEW h \in Handlers, MayPublish(h), NEW k \in FreshKeys,
           MovePart(frame[h].id, k)
    PROVE  /\ k \in Keys /\ frame[h].id \in Ids
           /\ \A p \in Paths : files[p] # None => files[p].key # k
           /\ \A b \in Actors : pc[b] \in Publishing => frame[b].key # k
           /\ \A j \in Keys : j # k => objects'[j] = objects[j]
           /\ \A i \in Ids : i # frame[h].id => part'[i] = part[i]
           /\ part'[frame[h].id] = None
           /\ objects'[k] = part[frame[h].id] /\ objects'[k] \in Content
           /\ frame[h].snap.offset = frame[h].snap.length
           /\ row[frame[h].id] = frame[h].snap /\ row[frame[h].id] # None
           /\ StartsWith(objects'[k], acked[frame[h].id])
<1> USE Shapes, Positions
<1>1. /\ k \in Keys /\ objects[k] = None
      /\ \A p \in Paths : files[p] # None => files[p].key # k
    BY DEF FreshKeys
<1>2. /\ pc[h] = "locked" /\ frame[h].id \in Ids /\ part[frame[h].id] \in Content
      /\ frame[h].snap.offset = frame[h].snap.length
      /\ row[frame[h].id] = frame[h].snap /\ row[frame[h].id] # None
    BY DEF MayPublish, Completable, Naming, Holding, Inside
<1>3. StartsWith(part[frame[h].id], acked[frame[h].id])
    BY <1>2 DEF KeptInv, Kept, PartsKept
<1> QED BY <1>1, <1>2, <1>3 DEF MovePart

\* ... when it is not undone although the call fails.
LEMMA PublishUnsyncedKept ==
    ASSUME KeptInv, NEW h \in Handlers, PublishUnsynced(h)
    PROVE  Kept'
<1> USE Shapes
<1>1. PICK k \in FreshKeys : MovePart(frame[h].id, k)
    BY DEF PublishUnsynced
<1>2. Alone(h) /\ pc'[h] \in {"scan", "idle"} /\ MayPublish(h)
    BY Returns DEF PublishUnsynced, UnlockAndReturn
<1>3. acked' = acked /\ born' = born /\ files' = files /\ row' = row
    BY DEF PublishUnsynced, ghost
<1>4. \A i \in Ids : part'[i] = part[i] \/ part'[i] = None
    BY <1>1, <1>2, Published
<1>5. \A j \in Keys : \/ objects'[j] = objects[j]
                      \/ /\ \A p \in Paths : files[p] # None => files[p].key # j
                         /\ \A b \in Actors : b # h /\ pc[b] \in Publishing => frame[b].key # j
    BY <1>1, <1>2, Published
<1> QED BY <1>2, <1>3, <1>4, <1>5, KeepStep DEF Publishing

LEMMA PublishStagingKept ==
    ASSUME KeptInv, NEW h \in Handlers, PublishStaging(h)
    PROVE  Kept'
<1> USE Shapes
<1>1. PICK k \in FreshKeys : MovePart(frame[h].id, k) /\ frame' = [frame EXCEPT ![h].key = k]
    BY DEF PublishStaging
<1>2. Alone(h) /\ pc'[h] = "renamed" /\ MayPublish(h)
    BY DEF PublishStaging, Goto, Alone
<1>3. /\ frame'[h].key = k /\ frame'[h].id = frame[h].id /\ frame'[h].snap = frame[h].snap
    BY <1>1, Positions DEF Frames
<1>4. acked' = acked /\ born' = born /\ files' = files /\ row' = row
    BY DEF PublishStaging, ghost
<1>5. /\ k \in Keys /\ frame[h].snap.offset = frame[h].snap.length
      /\ \A p \in Paths : files[p] # None => files[p].key # k
      /\ \A b \in Actors : pc[b] \in Publishing => frame[b].key # k
      /\ \A j \in Keys : j # k => objects'[j] = objects[j]
      /\ \A i \in Ids : part'[i] = part[i] \/ part'[i] = None
      /\ StartsWith(objects'[k], acked[frame[h].id])
    BY <1>1, <1>2, Published
<1>6. HandlersOnly'
    BY <1>2 DEF KeptInv, Kept, HandlersOnly, Alone
<1>7. OffsetsAcked' /\ PartsKept'
    BY <1>4, <1>5 DEF KeptInv, Kept, OffsetsAcked, PartsKept
<1>8. CopiesExact'
    <2> SUFFICES ASSUME NEW b \in Actors, pc'[b] = "copied", part'[frame'[b].id] # None
                 PROVE  part'[frame'[b].id] = acked'[frame'[b].id] \o frame'[b].data
        BY DEF CopiesExact
    <2>1. /\ pc[b] = "copied" /\ frame'[b] = frame[b] /\ frame[b].id \in Ids
          /\ part'[frame[b].id] = part[frame[b].id]
        BY <1>2, <1>5, Positions DEF Alone, Naming, Holding, Inside
    <2>2. part[frame[b].id] = acked[frame[b].id] \o frame[b].data
        BY <2>1 DEF KeptInv, Kept, CopiesExact
    <2> QED BY <1>4, <2>1, <2>2
<1>9. ObjectsKept'
    <2> SUFFICES ASSUME NEW b \in Actors, pc'[b] \in Publishing
                 PROVE  /\ frame'[b].snap.offset = frame'[b].snap.length
                        /\ StartsWith(objects'[frame'[b].key], acked'[frame'[b].id])
        BY DEF ObjectsKept
    <2>1. CASE b = h
        BY <1>3, <1>4, <1>5, <2>1
    <2>2. CASE b # h
        <3>1. pc[b] \in Publishing /\ frame'[b] = frame[b] /\ frame[b].key \in Keys
            BY <1>2, <2>2, Positions DEF Alone
        <3> QED BY <1>4, <1>5, <3>1 DEF KeptInv, Kept, ObjectsKept
    <2> QED BY <2>1, <2>2
<1>10. FilesKept'
    BY <1>4, <1>5 DEF KeptInv, Kept, FilesKept
<1> QED BY <1>6, <1>7, <1>8, <1>9, <1>10 DEF Kept

\* CompleteUpload: the file takes the object, and the session is gone (repository.go:892-942).
LEMMA CommitFileKept ==
    ASSUME KeptInv, NEW h \in Handlers, CommitFile(h)
    PROVE  Kept'
<1> USE Shapes
<1> DEFINE i == frame[h].id
           f == [key |-> frame[h].key, size |-> frame[h].snap.length, from |-> i]
<1>1. /\ pc[h] = "renamed" /\ i \in Ids /\ i \in born /\ row[i] = frame[h].snap /\ row[i] # None
      /\ Alone(h) /\ pc'[h] \in {"scan", "idle"}
    BY Positions, Returns DEF CommitFile, UnlockAndReturn, Naming, Holding, Inside
<1>2. /\ frame[h].snap.length = Len(acked[i])
      /\ StartsWith(objects[frame[h].key], acked[i])
    BY <1>1 DEF KeptInv, Kept, OffsetsAcked, ObjectsKept, Publishing
<1>3. /\ acked' = acked /\ born' = born /\ part' = part /\ objects' = objects
      /\ row'[i] = None /\ \A j \in Ids : j # i => row'[j] = row[j]
      /\ files' = [files EXCEPT ![frame[h].snap.path] = f]
    BY <1>1 DEF CommitFile, ghost
<1>4. HandlersOnly'
    BY <1>1 DEF KeptInv, Kept, HandlersOnly, Alone, Publishing
<1>5. OffsetsAcked' /\ PartsKept'
    BY <1>3 DEF KeptInv, Kept, OffsetsAcked, PartsKept
<1>6. \A b \in Actors : pc'[b] \in {"copied"} \cup Publishing =>
          pc[b] = pc'[b] /\ frame'[b] = frame[b]
    BY <1>1 DEF Alone, Publishing
<1>7. CopiesExact'
    BY <1>3, <1>6 DEF KeptInv, Kept, CopiesExact
<1>8. ObjectsKept'
    BY <1>3, <1>6 DEF KeptInv, Kept, ObjectsKept
<1>9. FilesKept'
    <2> SUFFICES ASSUME NEW p \in Paths, files'[p] # None
                 PROVE  /\ files'[p].from \in born' /\ row'[files'[p].from] = None
                        /\ files'[p].size = Len(acked'[files'[p].from])
                        /\ StartsWith(objects'[files'[p].key], acked'[files'[p].from])
        BY DEF FilesKept
    <2>1. CASE files'[p] = f
        BY <1>1, <1>2, <1>3, <2>1
    <2>2. CASE files'[p] = files[p]
        <3>1. files[p].from \in Ids /\ row'[files[p].from] = None
            BY <1>1, <1>3, <2>2 DEF KeptInv, Kept, FilesKept
        <3> QED BY <1>3, <2>2, <3>1 DEF KeptInv, Kept, FilesKept
    <2> QED BY <1>3, <2>1, <2>2
<1> QED BY <1>4, <1>5, <1>7, <1>8, <1>9 DEF Kept

\* A failed publication gives the part its bytes back, or loses them (objects_unix.go:484).
LEMMA RestoreKept ==
    ASSUME KeptInv, NEW h \in Handlers, RestorePublished(h) \/ RestoreFails(h)
    PROVE  Kept'
<1> USE Shapes
<1> DEFINE i == frame[h].id
           k == frame[h].key
<1>1. /\ pc[h] = "rollback" /\ i \in Ids /\ k \in Keys /\ objects[k] \in Content
      /\ Alone(h) /\ pc'[h] \in {"scan", "idle"}
    BY Positions, Returns
       DEF RestorePublished, RestoreFails, UnlockAndReturn, Naming, Holding, Inside, Publishing
<1>2. CASE RestoreFails(h)
    <2>1. UNCHANGED <<store, ghost>>
        BY <1>2 DEF RestoreFails
    <2> QED BY <1>1, <2>1, KeepStep DEF Publishing, store, ghost
<1>3. CASE RestorePublished(h)
    <2>1. /\ part'[i] = objects[k] /\ \A j \in Ids : j # i => part'[j] = part[j]
          /\ objects'[k] = None /\ \A j \in Keys : j # k => objects'[j] = objects[j]
          /\ acked' = acked /\ born' = born /\ files' = files /\ row' = row
        BY <1>1, <1>3 DEF RestorePublished, ghost
    <2>2. /\ StartsWith(objects[k], acked[i])
          /\ \A p \in Paths : files[p] # None => files[p].key # k
          /\ \A b \in Actors : b # h /\ pc[b] \in Publishing => frame[b].key # k
        BY <1>1 DEF KeptInv, Kept, ObjectsKept, ObjectInv, ObjectsOwned, Publishing
    <2>3. \A b \in Actors : pc'[b] \in {"copied"} \cup Publishing =>
              /\ b # h /\ pc[b] = pc'[b] /\ frame'[b] = frame[b]
              /\ frame[b].id \in Ids /\ frame[b].id # i
        BY <1>1, Positions, OneHolder DEF Alone, Publishing, Naming, Holding, Inside
    <2> HIDE DEF i, k
    <2>4. HandlersOnly'
        BY <1>1 DEF KeptInv, Kept, HandlersOnly, Alone, Publishing
    <2>5. OffsetsAcked' /\ FilesKept'
        BY <2>1, <2>2 DEF KeptInv, Kept, OffsetsAcked, FilesKept
    <2>6. PartsKept'
        BY <2>1, <2>2 DEF KeptInv, Kept, PartsKept
    <2>7. CopiesExact'
        <3> SUFFICES ASSUME NEW b \in Actors, pc'[b] = "copied", part'[frame'[b].id] # None
                     PROVE  part'[frame'[b].id] = acked'[frame'[b].id] \o frame'[b].data
            BY DEF CopiesExact
        <3>1. pc[b] = "copied" /\ frame'[b] = frame[b] /\ part'[frame[b].id] = part[frame[b].id]
            BY <2>1, <2>3
        <3>2. part[frame[b].id] = acked[frame[b].id] \o frame[b].data
            BY <3>1 DEF KeptInv, Kept, CopiesExact
        <3> QED BY <2>1, <3>1, <3>2
    <2>8. ObjectsKept'
        <3> SUFFICES ASSUME NEW b \in Actors, pc'[b] \in Publishing
                     PROVE  /\ frame'[b].snap.offset = frame'[b].snap.length
                            /\ StartsWith(objects'[frame'[b].key], acked'[frame'[b].id])
            BY DEF ObjectsKept
        <3>1. /\ pc[b] \in Publishing /\ frame'[b] = frame[b] /\ frame[b].key \in Keys
              /\ objects'[frame[b].key] = objects[frame[b].key]
            BY <2>1, <2>2, <2>3, Positions
        <3> QED BY <2>1, <3>1 DEF KeptInv, Kept, ObjectsKept
    <2> QED BY <2>4, <2>5, <2>6, <2>7, <2>8 DEF Kept
<1> QED BY <1>2, <1>3

\* Recovery removes a part (session.go:392-396).
LEMMA RemoveOrphanKept ==
    ASSUME KeptInv, NEW p \in Procs, RemoveOrphan(p)
    PROVE  Kept'
<1> USE Shapes
<1>1. p \in Actors /\ Alone(p) /\ pc'[p] \in {"scan", "idle"}
    BY Returns DEF RemoveOrphan, UnlockAndReturn
<1>2. \A i \in Ids : part'[i] = part[i] \/ part'[i] = None
    BY DEF RemoveOrphan
<1>3. acked' = acked /\ born' = born /\ files' = files /\ row' = row /\ objects' = objects
    BY DEF RemoveOrphan, ghost
<1> QED BY <1>1, <1>2, <1>3, KeepStep DEF Publishing

\* A crash stores nothing, and the goroutines it ends need nothing any more.
LEMMA CrashKept ==
    ASSUME KeptInv, NEW p \in Procs, Crash(p)
    PROVE  Kept'
<1>1. \A a \in Actors : pc'[a] # "idle" => pc'[a] = pc[a] /\ frame'[a] = frame[a]
    BY DEF Crash
<1>2. UNCHANGED <<store, ghost>>
    BY DEF Crash
<1> QED BY <1>1, <1>2
   DEF KeptInv, Kept, HandlersOnly, OffsetsAcked, PartsKept, CopiesExact, ObjectsKept,
       FilesKept, store, ghost, Publishing

LEMMA KeptInvStep ==
    ASSUME KeptInv, [Next]_vars
    PROVE  KeptInv'
<1>1. TypeInv
    BY Shapes
<1>2. ASSUME Storing PROVE Kept'
    <2>1. ASSUME NEW a \in Actors, MarkStatus(a) \/ Unlink(a) \/ DeleteRow(a) PROVE Kept'
        BY <2>1, CleaningKept
    <2>2. ASSUME NEW h \in Handlers, CreatePart(h) \/ Creating(h) PROVE Kept'
        BY <2>2, CreatingKept, InsertRowKept DEF Creating
    <2>3. ASSUME NEW h \in Handlers,
                 WriteBody(h) \/ WriteCommit(h) \/ WriteUndone(h) \/ WriteNotUndone(h)
          PROVE  Kept'
        BY <2>3, WriteBodyKept, WriteEndKept
    <2>4. ASSUME NEW h \in Handlers,
                 \/ HashStaging(h) \/ PublishStaging(h) \/ PublishUnsynced(h)
                 \/ CommitFile(h) \/ RestorePublished(h) \/ RestoreFails(h)
          PROVE  Kept'
        BY <2>4, HashStagingKept, PublishStagingKept, PublishUnsyncedKept, CommitFileKept,
           RestoreKept
    <2>5. ASSUME NEW p \in Procs, RemoveOrphan(p) \/ Crash(p) PROVE Kept'
        BY <2>5, RemoveOrphanKept, CrashKept
    <2> QED BY <1>2, <2>1, <2>2, <2>3, <2>4, <2>5 DEF Storing
<1>3. Kept'
    BY <1>1, <1>2, StepKinds, QuietKept, UnchangedKept
<1>4. ObjectInv'
    BY ObjectInvStep DEF KeptInv
<1> QED BY <1>3, <1>4 DEF KeptInv

LEMMA KeptInvInit == Init => KeptInv
<1> SUFFICES ASSUME Init PROVE KeptInv
    OBVIOUS
<1>1. \A a \in Actors : pc[a] = "idle"
    BY DEF Init
<1> QED BY <1>1, ObjectInvInit
   DEF Init, KeptInv, Kept, HandlersOnly, OffsetsAcked, PartsKept, CopiesExact, ObjectsKept,
       FilesKept, Publishing

\* uploads.go:172-190: the offset a client resumes from counts the bytes that were
\* acknowledged to it, and they begin the part, whatever any process left behind them.
THEOREM AcknowledgedStays == Spec => []AckedBytesKept
<1>1. Init => KeptInv
    BY KeptInvInit
<1>2. KeptInv /\ [Next]_vars => KeptInv'
    BY KeptInvStep
<1>3. KeptInv => AckedBytesKept
    <2> SUFFICES ASSUME KeptInv, NEW i \in Ids, row[i] # None
                 PROVE  /\ row[i].offset = Len(acked[i])
                        /\ part[i] # None => /\ Len(part[i]) >= row[i].offset
                                             /\ SubSeq(part[i], 1, row[i].offset) = acked[i]
        BY DEF AckedBytesKept
    <2>1. /\ row[i].offset = Len(acked[i]) /\ acked[i] \in Content
          /\ part[i] # None => part[i] \in Content /\ StartsWith(part[i], acked[i])
        BY Shapes DEF KeptInv, Kept, OffsetsAcked, PartsKept
    <2>2. part[i] # None => Len(part[i]) >= row[i].offset
        BY <2>1 DEF StartsWith
    <2> QED BY <2>1, <2>2, StartsWithFacts
<1> QED BY <1>1, <1>2, <1>3, PTL DEF Spec

-----------------------------------------------------------------------------
(* Published content                                                        *)

\* One process serves; others only recover.  With two, a crash of the one can leave
\* an unfinished PATCH in a part that the other has hashed and is about to publish.
SingleServer == \A g, h \in Handlers : Home[g] = Home[h]

\* The content a client accepted is what was acknowledged, its session is complete,
\* and its part holds nothing else unless a PATCH is at work on it.
HashesExact ==
    \A h \in Handlers : Hashed(h) =>
        LET i == frame[h].id IN
        /\ i \in born
        /\ acked[i] = frame[h].data
        /\ row[i] # None => row[i].offset = row[i].length
        /\ row[i] # None /\ part[i] # None =>
              part[i] = acked[i] \/ \E g \in Handlers : pc[g] = "copied" /\ frame[g].id = i

\* Objects hold what was acknowledged and nothing else.
ObjectsExact ==
    /\ \A h \in Handlers : pc[h] \in Publishing => objects[frame[h].key] = acked[frame[h].id]
    /\ \A p \in Paths : files[p] # None => objects[files[p].key] = acked[files[p].from]

Exact == HashesExact /\ ObjectsExact
ExactInv == KeptInv /\ (faults = 0 => Exact)

LEMMA HashedNames ==
    ASSUME KeptInv, NEW h \in Handlers, Hashed(h)
    PROVE  frame[h].id \in Ids /\ acked[frame[h].id] \in Content
    BY Shapes, Positions DEF Hashed, Publishing, Naming, Holding, Inside

\* A step that acknowledges nothing, begins no publication, and leaves in a part
\* what was acknowledged or a PATCH at work.
LEMMA ExactStep ==
    ASSUME KeptInv, Exact, NEW a \in Actors, Alone(a),
           acked' = acked, files' = files, born \subseteq born',
           \A i \in born : row'[i] # None =>
               /\ row[i] # None /\ row'[i].offset = row[i].offset /\ row'[i].length = row[i].length
               /\ \/ part'[i] \in {part[i], None, acked[i]}
                  \/ a \in Handlers /\ pc'[a] = "copied" /\ frame'[a].id = i,
           a \in Handlers /\ pc[a] = "copied" => part'[frame[a].id] \in {None, acked[frame[a].id]},
           Hashed(a)' => /\ Hashed(a) /\ frame'[a].id = frame[a].id
                         /\ frame'[a].data = frame[a].data,
           \A k \in Keys : \/ objects'[k] = objects[k]
                           \/ /\ \A p \in Paths : files[p] # None => files[p].key # k
                              /\ \A b \in Actors : b # a /\ pc[b] \in Publishing => frame[b].key # k,
           pc'[a] \in Publishing => pc[a] \in Publishing /\ frame'[a] = frame[a] /\ objects' = objects
    PROVE  Exact'
<1> USE Shapes
<1>1. HashesExact'
    <2> SUFFICES ASSUME NEW h \in Handlers, Hashed(h)'
                 PROVE  LET i == frame'[h].id IN
                        /\ i \in born'
                        /\ acked'[i] = frame'[h].data
                        /\ row'[i] # None => row'[i].offset = row'[i].length
                        /\ row'[i] # None /\ part'[i] # None =>
                              \/ part'[i] = acked'[i]
                              \/ \E g \in Handlers : pc'[g] = "copied" /\ frame'[g].id = i
        BY DEF HashesExact
    <2> DEFINE i == frame[h].id
    <2>1. Hashed(h) /\ frame'[h].id = i /\ frame'[h].data = frame[h].data
        BY DEF Alone, Hashed
    <2>2. /\ i \in born /\ acked[i] = frame[h].data
          /\ row[i] # None => row[i].offset = row[i].length
          /\ row[i] # None /\ part[i] # None =>
                part[i] = acked[i] \/ \E g \in Handlers : pc[g] = "copied" /\ frame[g].id = i
        BY <2>1 DEF Exact, HashesExact
    <2> HIDE DEF i
    <2>3. ASSUME row'[i] # None, part'[i] # None, part'[i] # acked[i]
          PROVE  \E g \in Handlers : pc'[g] = "copied" /\ frame'[g].id = i
        <3>1. CASE part'[i] = part[i]
            <4>1. PICK g \in Handlers : pc[g] = "copied" /\ frame[g].id = i
                BY <2>2, <2>3, <3>1
            <4>2. g # a
                BY <2>3, <4>1
            <4> QED BY <4>1, <4>2 DEF Alone
        <3> QED BY <2>2, <2>3, <3>1
    <2> QED BY <2>1, <2>2, <2>3
<1>2. ASSUME NEW h \in Handlers, pc'[h] \in Publishing
      PROVE  objects'[frame'[h].key] = acked'[frame'[h].id]
    <2>1. pc[h] \in Publishing /\ frame'[h] = frame[h] /\ frame[h].key \in Keys
        BY <1>2, Positions DEF Alone
    <2>2. objects'[frame[h].key] = objects[frame[h].key]
        BY <1>2, <2>1
    <2> QED BY <2>1, <2>2 DEF Exact, ObjectsExact
<1>3. ASSUME NEW p \in Paths, files'[p] # None
      PROVE  objects'[files'[p].key] = acked'[files'[p].from]
    BY <1>3 DEF Exact, ObjectsExact
<1> QED BY <1>1, <1>2, <1>3 DEF Exact, ObjectsExact

LEMMA QuietExact ==
    ASSUME KeptInv, Exact, NEW a \in Actors, Quiet(a)
    PROVE  Exact'
    BY ExactStep DEF Quiet, stored

LEMMA UnchangedExact ==
    ASSUME Exact, UNCHANGED <<stored, pc, frame>>
    PROVE  Exact'
    BY DEF Exact, HashesExact, ObjectsExact, Hashed, stored

LEMMA CleaningExact ==
    ASSUME KeptInv, Exact, NEW a \in Actors, MarkStatus(a) \/ Unlink(a) \/ DeleteRow(a)
    PROVE  Exact'
<1> USE Shapes
<1>1. Alone(a) /\ pc'[a] \in {"cleaning", "unlinked", "scan", "idle"}
    BY Returns DEF MarkStatus, Unlink, DeleteRow, UnlockAndReturn, Goto, Alone
<1>2. ~Hashed(a)' /\ pc[a] # "copied" /\ pc'[a] \notin Publishing
    BY <1>1 DEF MarkStatus, Unlink, DeleteRow, Hashed, Publishing
<1>3. acked' = acked /\ files' = files /\ born' = born /\ objects' = objects
    BY DEF MarkStatus, Unlink, DeleteRow, ghost
<1>4. \A i \in Ids : part'[i] \in {part[i], None}
    BY DEF MarkStatus, Unlink, DeleteRow
<1>5. \A i \in Ids : row'[i] # None =>
          row[i] # None /\ row'[i].offset = row[i].offset /\ row'[i].length = row[i].length
    <2>1. CASE MarkStatus(a)
        <3>1. frame[a].id \in Ids /\ row[frame[a].id] \in Rows /\ row[frame[a].id] # None
            BY <2>1, Positions DEF MarkStatus, Naming, Holding, Inside
        <3>2. PICK to : row' = [row EXCEPT ![frame[a].id].status = to]
            BY <2>1 DEF MarkStatus
        <3> QED BY <3>1, <3>2 DEF Rows
    <2>2. CASE Unlink(a) \/ DeleteRow(a)
        BY <2>2 DEF Unlink, DeleteRow
    <2> QED BY <2>1, <2>2
<1> QED BY <1>1, <1>2, <1>3, <1>4, <1>5, ExactStep

LEMMA CreatingExact ==
    ASSUME KeptInv, Exact, NEW h \in Handlers, CreatePart(h) \/ InsertRow(h) \/ InsertFails(h)
    PROVE  Exact'
<1> USE Shapes
<1>1. Alone(h) /\ pc'[h] \in {"staged", "scan", "idle"}
    BY Returns DEF CreatePart, InsertRow, InsertFails, Goto, Alone
<1>2. ~Hashed(h)' /\ pc[h] # "copied" /\ pc'[h] \notin Publishing
    BY <1>1 DEF CreatePart, InsertRow, InsertFails, Hashed, Publishing
<1>3. acked' = acked /\ files' = files /\ born \subseteq born' /\ objects' = objects
    BY DEF CreatePart, InsertRow, InsertFails, ghost
<1>4. \A i \in born : part'[i] \in {part[i], None}
    BY DEF CreatePart, FreshIds, InsertRow, InsertFails
<1>5. \A i \in born : row'[i] = row[i]
    <2>1. CASE InsertRow(h)
        <3>1. frame[h].id \in Ids \ born
            BY <2>1, Positions
               DEF InsertRow, Naming, Holding, Inside, KeptInv, ObjectInv, LockInv, StagedFresh
        <3> QED BY <2>1, <3>1 DEF InsertRow
    <2> QED BY <2>1 DEF CreatePart, InsertFails
<1> QED BY <1>1, <1>2, <1>3, <1>4, <1>5, ExactStep

LEMMA WriteBodyExact ==
    ASSUME KeptInv, Exact, NEW h \in Handlers, WriteBody(h)
    PROVE  Exact'
<1> USE Shapes
<1>1. frame[h].id \in Ids /\ pc[h] = "locked"
    BY Positions DEF WriteBody, Naming, Holding, Inside
<1>2. Alone(h) /\ pc'[h] = "copied" /\ frame'[h].id = frame[h].id
    BY DEF WriteBody, Goto, Alone, Frames
<1>3. ~Hashed(h)' /\ pc'[h] \notin Publishing
    BY <1>2 DEF Hashed, Publishing
<1>4. acked' = acked /\ files' = files /\ born' = born /\ objects' = objects /\ row' = row
    BY DEF WriteBody, ghost
<1>5. \A i \in Ids : i # frame[h].id => part'[i] = part[i]
    BY DEF WriteBody
<1> QED BY <1>1, <1>2, <1>3, <1>4, <1>5, ExactStep

LEMMA WriteUndoneExact ==
    ASSUME KeptInv, Exact, NEW h \in Handlers, WriteUndone(h)
    PROVE  Exact'
<1> USE Shapes, Positions
<1> DEFINE i == frame[h].id
<1>1. /\ pc[h] = "copied" /\ i \in Ids /\ row[i] # None /\ row[i] = frame[h].snap
      /\ Alone(h) /\ pc'[h] \in {"scan", "idle"} /\ ~Hashed(h)'
    BY Returns DEF WriteUndone, UnlockAndReturn, Naming, Holding, Inside
<1>2. /\ frame[h].snap.offset = Len(acked[i])
      /\ part[i] # None => part[i] \in Content /\ StartsWith(part[i], acked[i])
    BY <1>1 DEF KeptInv, Kept, OffsetsAcked, PartsKept
<1>3. part[i] # None => Truncated(part[i], Len(acked[i])) = acked[i]
    BY <1>1, <1>2, TruncatedToAcked
<1>4. part'[i] \in {None, acked[i]} /\ \A j \in Ids : j # i => part'[j] = part[j]
    BY <1>1, <1>2, <1>3 DEF WriteUndone
<1>5. acked' = acked /\ files' = files /\ born' = born /\ objects' = objects /\ row' = row
    BY DEF WriteUndone, ghost
<1> HIDE DEF i
<1>6. \A j \in born : part'[j] \in {part[j], None, acked[j]}
    BY <1>4
<1> QED BY <1>1, <1>4, <1>5, <1>6, ExactStep DEF i, Publishing

\* A PATCH that appends to a session that somebody has hashed appends nothing.
LEMMA WriteCommitExact ==
    ASSUME KeptInv, Exact, NEW h \in Handlers, WriteCommit(h)
    PROVE  Exact'
<1> USE Shapes
<1> DEFINE i == frame[h].id
           d == frame[h].data
<1>1. /\ pc[h] = "copied" /\ i \in Ids /\ row[i] \in Rows /\ row[i] # None /\ i \in born
      /\ row[i] = frame[h].snap /\ d \in Seq(Data) /\ acked[i] \in Seq(Data)
    BY Positions DEF WriteCommit, Naming, Holding, Inside
<1>2. Alone(h) /\ pc'[h] \in {"scan", "idle"} /\ ~Hashed(h)' /\ pc'[h] \notin Publishing
    BY Returns DEF WriteCommit, UnlockAndReturn, Publishing
<1>3. /\ part' = part /\ born' = born /\ files' = files /\ objects' = objects
      /\ acked' = [acked EXCEPT ![i] = @ \o d]
      /\ row' = [row EXCEPT ![i].offset = frame[h].snap.offset + Len(d)]
      /\ Len(d) <= frame[h].snap.length - frame[h].snap.offset
    BY DEF WriteCommit, Fits
<1>4. /\ \A j \in Ids : j # i => acked'[j] = acked[j] /\ row'[j] = row[j]
      /\ acked'[i] = acked[i] \o d
      /\ row'[i].offset = row[i].offset + Len(d) /\ row'[i].length = row[i].length
    BY <1>1, <1>3 DEF Rows
<1>5. part[i] # None => part[i] = acked[i] \o d
    BY <1>1 DEF KeptInv, Kept, CopiesExact
<1>6. CASE \E g \in Handlers : Hashed(g) /\ frame[g].id = i
    <2>1. row[i].offset = row[i].length
        BY <1>1, <1>6 DEF Exact, HashesExact
    <2>2. row[i].offset \in Nat /\ Len(d) \in Nat
        BY <1>1, UploadAssumption, LenProperties DEF Rows
    <2>3. Len(d) = 0
        BY <1>1, <1>3, <2>1, <2>2
    <2>4. acked[i] \o d = acked[i]
        <3>1. d = <<>>
            BY <1>1, <2>3, EmptySeq
        <3> QED BY <1>1, <3>1, ConcatEmptySeq
    <2>5. acked' = acked
        BY <1>1, <1>3, <2>4
    <2>6. row'[i].offset = row[i].offset
        BY <1>4, <2>2, <2>3
    <2>7. \A j \in born : row'[j] # None =>
              row[j] # None /\ row'[j].offset = row[j].offset /\ row'[j].length = row[j].length
        BY <1>1, <1>4, <2>6
    <2>8. part'[i] \in {None, acked[i]}
        BY <1>3, <1>5, <2>4
    <2> QED BY <1>2, <1>3, <2>5, <2>7, <2>8, ExactStep
<1>7. CASE ~\E g \in Handlers : Hashed(g) /\ frame[g].id = i
    <2> HIDE DEF i, d
    <2>1. \A g \in Handlers : Hashed(g)' =>
              Hashed(g) /\ frame'[g] = frame[g] /\ frame[g].id \in Ids \ {i}
        BY <1>2, <1>7, HashedNames DEF Alone, Hashed
    <2>2. HashesExact'
        <3> SUFFICES ASSUME NEW g \in Handlers, Hashed(g)'
                     PROVE  LET j == frame'[g].id IN
                            /\ j \in born'
                            /\ acked'[j] = frame'[g].data
                            /\ row'[j] # None => row'[j].offset = row'[j].length
                            /\ row'[j] # None /\ part'[j] # None =>
                                  \/ part'[j] = acked'[j]
                                  \/ \E b \in Handlers : pc'[b] = "copied" /\ frame'[b].id = j
            BY DEF HashesExact
        <3> DEFINE j == frame[g].id
        <3>1. /\ Hashed(g) /\ frame'[g] = frame[g] /\ j \in Ids /\ j # i
              /\ acked'[j] = acked[j] /\ row'[j] = row[j] /\ part'[j] = part[j]
            BY <1>3, <1>4, <2>1
        <3>2. \A b \in Handlers : pc[b] = "copied" /\ frame[b].id = j =>
                  pc'[b] = "copied" /\ frame'[b].id = j
            BY <1>2, <3>1 DEF Alone, i
        <3>3. /\ j \in born /\ acked[j] = frame[g].data
              /\ row[j] # None => row[j].offset = row[j].length
              /\ row[j] # None /\ part[j] # None =>
                    part[j] = acked[j] \/ \E b \in Handlers : pc[b] = "copied" /\ frame[b].id = j
            BY <3>1 DEF Exact, HashesExact
        <3> QED BY <1>3, <3>1, <3>2, <3>3
    <2>3. ASSUME NEW g \in Handlers, pc'[g] \in Publishing
          PROVE  objects'[frame'[g].key] = acked'[frame'[g].id]
        <3>1. Hashed(g)' /\ pc[g] = pc'[g]
            BY <1>2, <2>3 DEF Hashed, Alone
        <3> QED BY <1>3, <1>4, <2>1, <2>3, <3>1 DEF Exact, ObjectsExact
    <2>4. ASSUME NEW p \in Paths, files'[p] # None
          PROVE  objects'[files'[p].key] = acked'[files'[p].from]
        <3>1. files[p].from \in Ids \ {i}
            BY <1>1, <1>3, <2>4 DEF KeptInv, Kept, FilesKept
        <3> QED BY <1>3, <1>4, <2>4, <3>1 DEF Exact, ObjectsExact
    <2> QED BY <2>2, <2>3, <2>4 DEF Exact, ObjectsExact
<1> QED BY <1>6, <1>7

\* The content whose checksum the client accepts is what was acknowledged to it.
LEMMA HashStagingExact ==
    ASSUME KeptInv, Exact, NEW h \in Handlers, HashStaging(h)
    PROVE  Exact'
<1> USE Shapes
<1> DEFINE i == frame[h].id
<1>1. /\ i \in Ids /\ i \in born /\ row[i] = frame[h].snap /\ row[i] # None /\ part[i] \in Content
      /\ row[i].offset = row[i].length /\ Len(part[i]) = row[i].length
    BY Positions DEF HashStaging, Hashable, Completable, Naming, Holding, Inside
<1>2. part[i] = acked[i]
    <2>1. Len(acked[i]) = Len(part[i]) /\ StartsWith(part[i], acked[i])
        BY <1>1 DEF KeptInv, Kept, OffsetsAcked, PartsKept
    <2> QED BY <1>1, <2>1, StartsWithFacts
<1>3. /\ pc[h] = "locked" /\ pc'[h] = "hashed" /\ Alone(h)
      /\ frame'[h].id = i /\ frame'[h].data = part[i]
    BY DEF HashStaging, Goto, Alone, Frames
<1>4. UNCHANGED <<store, ghost>>
    BY DEF HashStaging
<1>5. \A g \in Handlers : pc[g] = "copied" => pc'[g] = "copied" /\ frame'[g] = frame[g]
    BY <1>3 DEF Alone
<1>6. HashesExact'
    <2> SUFFICES ASSUME NEW g \in Handlers, Hashed(g)'
                 PROVE  LET j == frame'[g].id IN
                        /\ j \in born'
                        /\ acked'[j] = frame'[g].data
                        /\ row'[j] # None => row'[j].offset = row'[j].length
                        /\ row'[j] # None /\ part'[j] # None =>
                              \/ part'[j] = acked'[j]
                              \/ \E b \in Handlers : pc'[b] = "copied" /\ frame'[b].id = j
        BY DEF HashesExact
    <2>1. CASE g = h
        BY <1>1, <1>2, <1>3, <1>4, <2>1 DEF store, ghost
    <2>2. CASE g # h
        <3>1. Hashed(g) /\ frame'[g] = frame[g]
            BY <1>3, <2>2 DEF Alone, Hashed
        <3> QED BY <1>4, <1>5, <3>1 DEF Exact, HashesExact, store, ghost
    <2> QED BY <2>1, <2>2
<1>7. ObjectsExact'
    BY <1>3, <1>4 DEF Exact, ObjectsExact, Alone, store, ghost, Publishing
<1> QED BY <1>6, <1>7 DEF Exact

\* Under the lock nobody copies, so the part that is renamed is what was hashed.
LEMMA PublishStagingExact ==
    ASSUME KeptInv, Exact, NEW h \in Handlers, PublishStaging(h)
    PROVE  Exact'
<1> USE Shapes
<1> DEFINE i == frame[h].id
<1>1. PICK k \in FreshKeys : MovePart(i, k) /\ frame' = [frame EXCEPT ![h].key = k]
    BY DEF PublishStaging
<1>2. /\ Alone(h) /\ pc'[h] = "renamed" /\ MayPublish(h) /\ pc[h] = "locked"
      /\ frame'[h].key = k /\ frame'[h].id = i /\ frame'[h].data = frame[h].data
      /\ Hashed(h)
    BY <1>1, Positions DEF PublishStaging, MayPublish, Goto, Alone, Frames, Hashed
<1>3. acked' = acked /\ born' = born /\ files' = files /\ row' = row
    BY DEF PublishStaging, ghost
<1>4. /\ k \in Keys /\ i \in Ids /\ row[i] # None /\ part[i] # None
      /\ \A p \in Paths : files[p] # None => files[p].key # k
      /\ \A b \in Actors : pc[b] \in Publishing => frame[b].key # k
      /\ \A j \in Keys : j # k => objects'[j] = objects[j]
      /\ \A j \in Ids : j # i => part'[j] = part[j]
      /\ part'[i] = None /\ objects'[k] = part[i]
    BY <1>1, <1>2, Published DEF MayPublish, Completable
<1>5. part[i] = acked[i]
    <2>1. ASSUME NEW g \in Handlers, pc[g] = "copied", frame[g].id = i PROVE FALSE
        BY <1>2, <2>1, OneHolder DEF Holding, Inside
    <2> QED BY <1>2, <1>4, <2>1 DEF Exact, HashesExact
<1>6. HashesExact'
    <2> SUFFICES ASSUME NEW g \in Handlers, Hashed(g)'
                 PROVE  LET j == frame'[g].id IN
                        /\ j \in born'
                        /\ acked'[j] = frame'[g].data
                        /\ row'[j] # None => row'[j].offset = row'[j].length
                        /\ row'[j] # None /\ part'[j] # None =>
                              \/ part'[j] = acked'[j]
                              \/ \E b \in Handlers : pc'[b] = "copied" /\ frame'[b].id = j
        BY DEF HashesExact
    <2> DEFINE j == frame[g].id
    <2>1. Hashed(g) /\ frame'[g].id = j /\ frame'[g].data = frame[g].data
        BY <1>2 DEF Alone, Hashed
    <2>2. /\ j \in born /\ acked[j] = frame[g].data
          /\ row[j] # None => row[j].offset = row[j].length
          /\ row[j] # None /\ part[j] # None =>
                part[j] = acked[j] \/ \E b \in Handlers : pc[b] = "copied" /\ frame[b].id = j
        BY <2>1 DEF Exact, HashesExact
    <2>3. \A b \in Handlers : pc[b] = "copied" => pc'[b] = "copied" /\ frame'[b] = frame[b]
        BY <1>2 DEF Alone
    <2> HIDE DEF i, j
    <2> QED BY <1>3, <1>4, <2>1, <2>2, <2>3
<1>7. ASSUME NEW g \in Handlers, pc'[g] \in Publishing
      PROVE  objects'[frame'[g].key] = acked'[frame'[g].id]
    <2>1. CASE g = h
        BY <1>2, <1>3, <1>4, <1>5, <2>1
    <2>2. CASE g # h
        <3>1. pc[g] \in Publishing /\ frame'[g] = frame[g] /\ frame[g].key \in Keys \ {k}
            BY <1>2, <1>4, <1>7, <2>2, Positions DEF Alone
        <3> QED BY <1>3, <1>4, <3>1 DEF Exact, ObjectsExact
    <2> QED BY <2>1, <2>2
<1>8. ASSUME NEW p \in Paths, files'[p] # None
      PROVE  objects'[files'[p].key] = acked'[files'[p].from]
    BY <1>3, <1>4, <1>8 DEF Exact, ObjectsExact
<1> QED BY <1>6, <1>7, <1>8 DEF Exact, ObjectsExact

LEMMA CommitFileExact ==
    ASSUME KeptInv, Exact, NEW h \in Handlers, CommitFile(h)
    PROVE  Exact'
<1> USE Shapes
<1> DEFINE f == [key |-> frame[h].key, size |-> frame[h].snap.length, from |-> frame[h].id]
<1>1. /\ pc[h] = "renamed" /\ Alone(h) /\ pc'[h] \in {"scan", "idle"} /\ ~Hashed(h)'
    BY Returns DEF CommitFile, UnlockAndReturn
<1>2. /\ acked' = acked /\ born' = born /\ part' = part /\ objects' = objects
      /\ \A j \in Ids : row'[j] \in {row[j], None}
      /\ \A p \in Paths : files'[p] \in {files[p], f}
    BY DEF CommitFile, ghost
<1>3. HashesExact'
    <2> SUFFICES ASSUME NEW g \in Handlers, Hashed(g)'
                 PROVE  LET j == frame'[g].id IN
                        /\ j \in born'
                        /\ acked'[j] = frame'[g].data
                        /\ row'[j] # None => row'[j].offset = row'[j].length
                        /\ row'[j] # None /\ part'[j] # None =>
                              \/ part'[j] = acked'[j]
                              \/ \E b \in Handlers : pc'[b] = "copied" /\ frame'[b].id = j
        BY DEF HashesExact
    <2>1. Hashed(g) /\ frame'[g] = frame[g] /\ frame[g].id \in Ids
        BY <1>1, HashedNames DEF Alone, Hashed
    <2>2. \A b \in Handlers : pc[b] = "copied" => pc'[b] = "copied" /\ frame'[b] = frame[b]
        BY <1>1 DEF Alone
    <2> QED BY <1>2, <2>1, <2>2 DEF Exact, HashesExact
<1>4. ASSUME NEW g \in Handlers, pc'[g] \in Publishing
      PROVE  objects'[frame'[g].key] = acked'[frame'[g].id]
    BY <1>1, <1>2, <1>4 DEF Exact, ObjectsExact, Alone, Publishing
<1>5. ASSUME NEW p \in Paths, files'[p] # None
      PROVE  objects'[files'[p].key] = acked'[files'[p].from]
    <2>1. CASE files'[p] = f
        BY <1>1, <1>2, <2>1 DEF Exact, ObjectsExact, Publishing
    <2>2. CASE files'[p] = files[p]
        BY <1>2, <1>5, <2>2 DEF Exact, ObjectsExact
    <2> QED BY <1>2, <2>1, <2>2
<1> QED BY <1>3, <1>4, <1>5 DEF Exact, ObjectsExact

LEMMA RestoreExact ==
    ASSUME KeptInv, Exact, NEW h \in Handlers, RestorePublished(h)
    PROVE  Exact'
<1> USE Shapes
<1> DEFINE i == frame[h].id
           k == frame[h].key
<1>1. /\ pc[h] = "rollback" /\ i \in Ids /\ k \in Keys /\ objects[k] = acked[i]
      /\ Alone(h) /\ pc'[h] \in {"scan", "idle"} /\ ~Hashed(h)'
    BY Positions, Returns
       DEF RestorePublished, UnlockAndReturn, Naming, Holding, Inside, Publishing, Exact,
           ObjectsExact
<1>2. /\ acked' = acked /\ born' = born /\ files' = files /\ row' = row
      /\ part'[i] = acked[i] /\ \A j \in Ids : j # i => part'[j] = part[j]
      /\ \A j \in Keys : j # k => objects'[j] = objects[j]
    BY <1>1 DEF RestorePublished, ghost
<1>3. /\ \A p \in Paths : files[p] # None => files[p].key # k
      /\ \A b \in Actors : b # h /\ pc[b] \in Publishing => frame[b].key # k
    BY <1>1 DEF KeptInv, ObjectInv, ObjectsOwned, Publishing
<1> HIDE DEF i, k
<1>4. \A j \in born : part'[j] \in {part[j], None, acked[j]}
    BY <1>2
<1>5. \A j \in Keys : \/ objects'[j] = objects[j]
                      \/ /\ \A p \in Paths : files[p] # None => files[p].key # j
                         /\ \A b \in Actors : b # h /\ pc[b] \in Publishing => frame[b].key # j
    BY <1>2, <1>3
<1> QED BY <1>1, <1>2, <1>4, <1>5, ExactStep DEF Publishing

LEMMA RemoveOrphanExact ==
    ASSUME KeptInv, Exact, NEW p \in Procs, RemoveOrphan(p)
    PROVE  Exact'
<1> USE Shapes
<1>1. /\ p \in Actors /\ p \notin Handlers /\ Alone(p) /\ pc'[p] \in {"scan", "idle"}
      /\ ~Hashed(p)'
    BY Returns, UploadAssumption DEF RemoveOrphan, UnlockAndReturn
<1>2. \A i \in Ids : part'[i] \in {part[i], None}
    BY DEF RemoveOrphan
<1>3. acked' = acked /\ born' = born /\ files' = files /\ row' = row /\ objects' = objects
    BY DEF RemoveOrphan, ghost
<1> QED BY <1>1, <1>2, <1>3, ExactStep DEF Publishing

\* A crash ends a PATCH together with every handler that has hashed its part.
LEMMA CrashExact ==
    ASSUME SingleServer, KeptInv, Exact, NEW p \in Procs, Crash(p)
    PROVE  Exact'
<1>1. \A a \in Actors : pc'[a] # "idle" => pc'[a] = pc[a] /\ frame'[a] = frame[a] /\ ProcOf(a) # p
    BY DEF Crash
<1>2. \A a \in Actors : ProcOf(a) # p => pc'[a] = pc[a] /\ frame'[a] = frame[a]
    BY DEF Crash
<1>3. UNCHANGED <<store, ghost>> /\ Handlers \subseteq Actors
    BY Shapes DEF Crash
<1>4. HashesExact'
    <2> SUFFICES ASSUME NEW g \in Handlers, Hashed(g)'
                 PROVE  LET j == frame'[g].id IN
                        /\ j \in born'
                        /\ acked'[j] = frame'[g].data
                        /\ row'[j] # None => row'[j].offset = row'[j].length
                        /\ row'[j] # None /\ part'[j] # None =>
                              \/ part'[j] = acked'[j]
                              \/ \E b \in Handlers : pc'[b] = "copied" /\ frame'[b].id = j
        BY DEF HashesExact
    <2>1. pc'[g] = pc[g] /\ frame'[g] = frame[g] /\ Hashed(g) /\ Home[g] # p
        BY <1>1, <1>3 DEF Hashed, Publishing, ProcOf
    <2>2. \A b \in Handlers : pc'[b] = pc[b] /\ frame'[b] = frame[b]
        BY <1>2, <1>3, <2>1 DEF SingleServer, ProcOf
    <2> QED BY <1>3, <2>1, <2>2 DEF Exact, HashesExact, store, ghost
<1>5. ASSUME NEW g \in Handlers, pc'[g] \in Publishing
      PROVE  objects'[frame'[g].key] = acked'[frame'[g].id]
    BY <1>1, <1>3, <1>5 DEF Exact, ObjectsExact, store, ghost, Publishing
<1>6. ASSUME NEW q \in Paths, files'[q] # None
      PROVE  objects'[files'[q].key] = acked'[files'[q].from]
    BY <1>3, <1>6 DEF Exact, ObjectsExact, store, ghost
<1> QED BY <1>4, <1>5, <1>6 DEF Exact, ObjectsExact

\* No step takes a fault or a crash back.
LEMMA BoundsCount ==
    ASSUME TypeInv, [Next]_vars
    PROVE  /\ faults' = 0 => faults = 0
           /\ crashes' = 0 => crashes = 0
           /\ \A p \in Procs : Crash(p) => crashes' # 0
           /\ \A h \in Handlers : InsertFailsLeavingPart(h) \/ WriteNotUndone(h)
                                  \/ PublishUnsynced(h) \/ RestoreFails(h) => faults' # 0
<1>1. faults \in Nat /\ crashes \in Nat
    BY DEF TypeInv, TypeOK
<1>2. \A p \in Procs : Crash(p) => crashes' = crashes + 1 /\ faults' = faults
    BY DEF Crash
<1>3. ASSUME NEW h \in Handlers,
             InsertFailsLeavingPart(h) \/ WriteNotUndone(h) \/ PublishUnsynced(h) \/ RestoreFails(h)
      PROVE  faults' = faults + 1 /\ crashes' = crashes
    BY <1>3 DEF InsertFailsLeavingPart, WriteNotUndone, PublishUnsynced, RestoreFails, Fault
<1>4. \/ faults' = faults /\ crashes' = crashes
      \/ \E p \in Procs : Crash(p)
      \/ \E h \in Handlers : InsertFailsLeavingPart(h) \/ WriteNotUndone(h)
                             \/ PublishUnsynced(h) \/ RestoreFails(h)
    <2> DEFINE Same == faults' = faults /\ crashes' = crashes
    <2>1. ASSUME NEW a \in Actors, MarkStatus(a) \/ Unlink(a) \/ DeleteRow(a) PROVE Same
        BY <2>1 DEF MarkStatus, Unlink, DeleteRow, bounds
    <2>2. ASSUME NEW h \in Handlers, CreatePart(h) \/ InsertRow(h) \/ InsertFails(h) PROVE Same
        BY <2>2 DEF CreatePart, InsertRow, InsertFails, bounds
    <2>3. ASSUME NEW h \in Handlers, WriteBody(h) \/ WriteCommit(h) \/ WriteUndone(h) PROVE Same
        BY <2>3 DEF WriteBody, WriteCommit, WriteUndone, bounds
    <2>4. ASSUME NEW h \in Handlers,
                 HashStaging(h) \/ PublishStaging(h) \/ CommitFile(h) \/ RestorePublished(h)
          PROVE  Same
        BY <2>4 DEF HashStaging, PublishStaging, CommitFile, RestorePublished, bounds
    <2>5. ASSUME NEW p \in Procs, RemoveOrphan(p) PROVE Same
        BY <2>5 DEF RemoveOrphan, bounds
    <2>6. ASSUME (\E a \in Actors : Quiet(a)) \/ UNCHANGED <<stored, pc, frame>> PROVE Same
        BY <2>6 DEF Quiet, stored
    <2> HIDE DEF Same
    <2>7. \/ Same
          \/ \E p \in Procs : Crash(p)
          \/ \E h \in Handlers : InsertFailsLeavingPart(h) \/ WriteNotUndone(h)
                                 \/ PublishUnsynced(h) \/ RestoreFails(h)
        BY <2>1, <2>2, <2>3, <2>4, <2>5, <2>6, StepKinds DEF Storing, Creating
    <2> QED BY <2>7 DEF Same
<1> QED BY <1>1, <1>2, <1>3, <1>4

LEMMA ExactInvStep ==
    ASSUME SingleServer, ExactInv, [Next]_vars
    PROVE  ExactInv'
<1>1. KeptInv' /\ KeptInv /\ TypeInv
    BY KeptInvStep, Shapes DEF ExactInv
<1>2. SUFFICES ASSUME faults' = 0 PROVE Exact'
    BY <1>1 DEF ExactInv
<1>3. Exact
    BY <1>1, <1>2, BoundsCount DEF ExactInv
<1>4. ASSUME Storing PROVE Exact'
    <2>1. ASSUME NEW a \in Actors, MarkStatus(a) \/ Unlink(a) \/ DeleteRow(a) PROVE Exact'
        BY <1>1, <1>3, <2>1, CleaningExact
    <2>2. ASSUME NEW h \in Handlers, CreatePart(h) \/ Creating(h) PROVE Exact'
        BY <1>1, <1>2, <1>3, <2>2, BoundsCount, CreatingExact DEF Creating
    <2>3. ASSUME NEW h \in Handlers,
                 WriteBody(h) \/ WriteCommit(h) \/ WriteUndone(h) \/ WriteNotUndone(h)
          PROVE  Exact'
        BY <1>1, <1>2, <1>3, <2>3, BoundsCount, WriteBodyExact, WriteCommitExact,
           WriteUndoneExact
    <2>4. ASSUME NEW h \in Handlers,
                 \/ HashStaging(h) \/ PublishStaging(h) \/ PublishUnsynced(h)
                 \/ CommitFile(h) \/ RestorePublished(h) \/ RestoreFails(h)
          PROVE  Exact'
        BY <1>1, <1>2, <1>3, <2>4, BoundsCount, HashStagingExact, PublishStagingExact,
           CommitFileExact, RestoreExact
    <2>5. ASSUME NEW p \in Procs, RemoveOrphan(p) \/ Crash(p) PROVE Exact'
        BY <1>1, <1>3, <2>5, RemoveOrphanExact, CrashExact
    <2> QED BY <1>4, <2>1, <2>2, <2>3, <2>4, <2>5 DEF Storing
<1> QED BY <1>1, <1>3, <1>4, StepKinds, QuietExact, UnchangedExact

LEMMA ExactInvInit == Init => ExactInv
<1> SUFFICES ASSUME Init PROVE ExactInv
    OBVIOUS
<1>1. \A a \in Actors : pc[a] = "idle"
    BY DEF Init
<1>2. Handlers \subseteq Actors
    BY DEF Actors
<1> QED BY <1>1, <1>2, KeptInvInit
   DEF Init, ExactInv, Exact, HashesExact, ObjectsExact, Hashed, Publishing

\* repository.go:892-942: whatever requests, recovery runs and crashes interleave, a
\* visible file is exactly what its client was told had been stored, unless a storage
\* call has failed in a way the code does not undo.
THEOREM PublishedIsAcknowledged ==
    ASSUME SingleServer
    PROVE  Spec => [](faults = 0 => PublishedExactlyAcked)
<1>1. Init => ExactInv
    BY ExactInvInit
<1>2. ExactInv /\ [Next]_vars => ExactInv'
    BY ExactInvStep
<1>3. ExactInv => (faults = 0 => PublishedExactlyAcked)
    BY DEF ExactInv, KeptInv, Kept, FilesKept, Exact, ObjectsExact, PublishedExactlyAcked
<1> QED BY <1>1, <1>2, <1>3, PTL DEF Spec

\* session.go:188-195: Complete publishes the content whose checksum the client
\* accepted, although anybody may have held the lock in between.
THEOREM PublishedIsHashed ==
    ASSUME SingleServer
    PROVE  Spec => [](faults = 0 => PublishesWhatWasHashed)
<1>1. Init => ExactInv
    BY ExactInvInit
<1>2. ExactInv /\ [Next]_vars => ExactInv'
    BY ExactInvStep
<1>3. ExactInv => (faults = 0 => PublishesWhatWasHashed)
    BY DEF ExactInv, Exact, HashesExact, ObjectsExact, PublishesWhatWasHashed, Hashed
<1> QED BY <1>1, <1>2, <1>3, PTL DEF Spec

\* repository.go:892-942: with several servers, storage calls that fail and crashes
\* between any two steps, a visible file still holds everything that was acknowledged
\* for it, in order and from its first byte, and its session is over.
THEOREM PublishedHoldsAcknowledged == Spec => []FilesKept
<1>1. Init => KeptInv
    BY KeptInvInit
<1>2. KeptInv /\ [Next]_vars => KeptInv'
    BY KeptInvStep
<1>3. KeptInv => FilesKept
    BY DEF KeptInv, Kept
<1> QED BY <1>1, <1>2, <1>3, PTL DEF Spec

-----------------------------------------------------------------------------
(* Objects that nothing names                                               *)

StrayInv == KeptInv /\ (crashes = 0 /\ faults = 0 => NoStrayObject)

\* A step that creates no object and drops none that it was publishing.
LEMMA StrayStep ==
    ASSUME KeptInv, NoStrayObject, NEW a \in Actors, Alone(a), files' = files,
           \A k \in Keys : objects'[k] \in {objects[k], None},
           a \in Handlers /\ pc[a] \in Publishing =>
               \/ pc'[a] \in Publishing /\ frame'[a].key = frame[a].key
               \/ objects'[frame[a].key] = None
    PROVE  NoStrayObject'
<1> SUFFICES ASSUME NEW k \in Keys, objects'[k] # None
             PROVE  \/ \E p \in Paths : files'[p] # None /\ files'[p].key = k
                    \/ \E h \in Handlers : pc'[h] \in Publishing /\ frame'[h].key = k
    BY DEF NoStrayObject
<1>1. CASE \E p \in Paths : files[p] # None /\ files[p].key = k
    BY <1>1
<1>2. CASE \E h \in Handlers : pc[h] \in Publishing /\ frame[h].key = k
    <2>1. PICK h \in Handlers : pc[h] \in Publishing /\ frame[h].key = k
        BY <1>2
    <2>2. pc'[h] \in Publishing /\ frame'[h].key = k
        BY <2>1, Shapes DEF Alone
    <2> QED BY <2>2
<1> QED BY <1>1, <1>2 DEF NoStrayObject

LEMMA StrayInvStep ==
    ASSUME StrayInv, [Next]_vars
    PROVE  StrayInv'
<1>1. KeptInv' /\ KeptInv /\ TypeInv
    BY KeptInvStep, Shapes DEF StrayInv
<1> USE <1>1, Shapes
<1>2. SUFFICES ASSUME crashes' = 0, faults' = 0 PROVE NoStrayObject'
    BY DEF StrayInv
<1>3. NoStrayObject
    BY <1>2, BoundsCount DEF StrayInv
<1>4. ASSUME NEW a \in Actors, Quiet(a) PROVE NoStrayObject'
    BY <1>3, <1>4, StrayStep DEF Quiet, stored
<1>5. ASSUME UNCHANGED <<stored, pc, frame>> PROVE NoStrayObject'
    BY <1>3, <1>5 DEF NoStrayObject, stored
<1>6. ASSUME NEW a \in Actors, MarkStatus(a) \/ Unlink(a) \/ DeleteRow(a) PROVE NoStrayObject'
    <2>1. /\ Alone(a) /\ pc[a] \notin Publishing /\ files' = files /\ objects' = objects
        BY <1>6, Returns
           DEF MarkStatus, Unlink, DeleteRow, UnlockAndReturn, Goto, Alone, Publishing
    <2> QED BY <1>3, <2>1, StrayStep
<1>7. ASSUME NEW h \in Handlers, CreatePart(h) \/ InsertRow(h) \/ InsertFails(h)
      PROVE  NoStrayObject'
    <2>1. /\ Alone(h) /\ pc[h] \notin Publishing /\ files' = files /\ objects' = objects
        BY <1>7, Returns DEF CreatePart, InsertRow, InsertFails, Goto, Alone, Publishing
    <2> QED BY <1>3, <2>1, StrayStep
<1>8. ASSUME NEW h \in Handlers,
             WriteBody(h) \/ WriteCommit(h) \/ WriteUndone(h) \/ HashStaging(h)
      PROVE  NoStrayObject'
    <2>1. /\ Alone(h) /\ pc[h] \notin Publishing /\ files' = files /\ objects' = objects
        BY <1>8, Returns
           DEF WriteBody, WriteCommit, WriteUndone, HashStaging, UnlockAndReturn, Goto, Alone,
               Publishing, store
    <2> QED BY <1>3, <2>1, StrayStep
<1>9. ASSUME NEW h \in Handlers, PublishStaging(h) PROVE NoStrayObject'
    <2>1. PICK k \in FreshKeys : MovePart(frame[h].id, k) /\ frame' = [frame EXCEPT ![h].key = k]
        BY <1>9 DEF PublishStaging
    <2>2. /\ Alone(h) /\ pc'[h] \in Publishing /\ pc[h] \notin Publishing /\ frame'[h].key = k
          /\ files' = files
        BY <1>9, <2>1 DEF PublishStaging, MayPublish, Goto, Alone, Publishing, Frames
    <2>3. \A j \in Keys : j # k => objects'[j] = objects[j]
        BY <2>1 DEF MovePart
    <2> SUFFICES ASSUME NEW j \in Keys, objects'[j] # None
                 PROVE  \/ \E p \in Paths : files'[p] # None /\ files'[p].key = j
                        \/ \E g \in Handlers : pc'[g] \in Publishing /\ frame'[g].key = j
        BY DEF NoStrayObject
    <2>4. CASE j = k
        BY <2>2, <2>4
    <2>5. CASE j # k
        <3>1. \A g \in Handlers : pc[g] \in Publishing =>
                  pc'[g] \in Publishing /\ frame'[g].key = frame[g].key
            BY <2>2 DEF Alone
        <3> QED BY <1>3, <2>2, <2>3, <2>5, <3>1 DEF NoStrayObject
    <2> QED BY <2>4, <2>5
<1>10. ASSUME NEW h \in Handlers, CommitFile(h) PROVE NoStrayObject'
    <2> DEFINE q == frame[h].snap.path
    <2>1. /\ Alone(h) /\ objects' = objects /\ q \in Paths /\ files[q] = None
          /\ files'[q].key = frame[h].key /\ files'[q] # None
          /\ \A p \in Paths : p # q => files'[p] = files[p]
        <3>1. /\ pc[h] = "renamed" /\ frame[h].snap \in Rows /\ frame[h].key \in Keys
              /\ frame[h].id \in Ids
            BY <1>10, Positions DEF CommitFile, Naming, Holding, Inside, Publishing
        <3>2. [key |-> frame[h].key, size |-> frame[h].snap.length, from |-> frame[h].id] \in Files
            BY <3>1, UploadAssumption DEF Files, Rows
        <3> QED BY <1>10, <3>1, <3>2, Returns
            DEF CommitFile, PathFree, UnlockAndReturn, Rows
    <2> HIDE DEF q
    <2> SUFFICES ASSUME NEW j \in Keys, objects'[j] # None
                 PROVE  \/ \E p \in Paths : files'[p] # None /\ files'[p].key = j
                        \/ \E g \in Handlers : pc'[g] \in Publishing /\ frame'[g].key = j
        BY DEF NoStrayObject
    <2>2. CASE \E p \in Paths : files[p] # None /\ files[p].key = j
        BY <2>1, <2>2
    <2>3. CASE \E g \in Handlers : pc[g] \in Publishing /\ frame[g].key = j
        <3>1. PICK g \in Handlers : pc[g] \in Publishing /\ frame[g].key = j
            BY <2>3
        <3>2. CASE g = h
            BY <2>1, <3>1, <3>2
        <3>3. CASE g # h
            BY <2>1, <3>1, <3>3 DEF Alone
        <3> QED BY <3>2, <3>3
    <2> QED BY <1>3, <2>1, <2>2, <2>3 DEF NoStrayObject
<1>11. ASSUME NEW h \in Handlers, RestorePublished(h) PROVE NoStrayObject'
    <2>1. /\ Alone(h) /\ files' = files /\ frame[h].key \in Keys
          /\ objects' = [objects EXCEPT ![frame[h].key] = None]
        BY <1>11, Positions, Returns DEF RestorePublished, UnlockAndReturn, Publishing
    <2>2. /\ \A k \in Keys : objects'[k] \in {objects[k], None}
          /\ objects'[frame[h].key] = None
        BY <2>1
    <2> QED BY <1>3, <2>1, <2>2, StrayStep
<1>12. ASSUME NEW p \in Procs, RemoveOrphan(p) PROVE NoStrayObject'
    <2>1. Alone(p) /\ files' = files /\ objects' = objects /\ p \notin Handlers
        BY <1>12, Returns, UploadAssumption DEF RemoveOrphan, UnlockAndReturn
    <2> QED BY <1>3, <2>1, StrayStep
<1>13. ASSUME Storing PROVE NoStrayObject'
    <2>1. ASSUME NEW h \in Handlers,
                 \/ HashStaging(h) \/ PublishStaging(h) \/ PublishUnsynced(h)
                 \/ CommitFile(h) \/ RestorePublished(h) \/ RestoreFails(h)
          PROVE  NoStrayObject'
        BY <1>2, <1>8, <1>9, <1>10, <1>11, <2>1, BoundsCount
    <2>2. ASSUME NEW h \in Handlers,
                 \/ CreatePart(h) \/ Creating(h)
                 \/ WriteBody(h) \/ WriteCommit(h) \/ WriteUndone(h) \/ WriteNotUndone(h)
          PROVE  NoStrayObject'
        BY <1>2, <1>7, <1>8, <2>2, BoundsCount DEF Creating
    <2>3. ASSUME NEW p \in Procs, RemoveOrphan(p) \/ Crash(p) PROVE NoStrayObject'
        BY <1>2, <1>12, <2>3, BoundsCount
    <2> QED BY <1>6, <1>13, <2>1, <2>2, <2>3 DEF Storing
<1> QED BY <1>4, <1>5, <1>13, StepKinds

\* objects_unix.go:484-515: a publication that cannot commit gives its object back, so
\* that every object belongs to a file or to a publication still in progress, in any
\* number of processes, as long as none of them crashes and every undo succeeds.
THEOREM FailedCommitsLeakNothing == Spec => [](crashes = 0 /\ faults = 0 => NoStrayObject)
<1>1. Init => StrayInv
    <2> SUFFICES ASSUME Init PROVE StrayInv
        OBVIOUS
    <2> QED BY KeptInvInit DEF StrayInv, NoStrayObject, Init
<1>2. StrayInv /\ [Next]_vars => StrayInv'
    BY StrayInvStep
<1>3. StrayInv => (crashes = 0 /\ faults = 0 => NoStrayObject)
    BY DEF StrayInv
<1> QED BY <1>1, <1>2, <1>3, PTL DEF Spec

-----------------------------------------------------------------------------
(* Processes                                                                *)

\* A handler is at work only in a process that serves, a main goroutine exactly while
\* its process recovers, and what it does is recovery.
Modes ==
    /\ \A h \in Handlers : pc[h] # "idle" => mode[Home[h]] = "serving"
    /\ \A p \in Procs : /\ pc[p] # "idle" <=> mode[p] = "recovering"
                        /\ pc[p] \in Naming => frame[p].op = "recover"

\* Goroutine a goes on with a call, or a handler begins one.
Working(a) ==
    /\ Alone(a) /\ mode' = mode
    /\ a \in Handlers => pc[a] # "idle" \/ mode[Home[a]] = "serving"
    /\ a \in Procs => /\ pc[a] # "idle" /\ pc'[a] # "idle"
                      /\ pc'[a] \in Naming => \/ pc[a] \in Naming /\ frame'[a].op = frame[a].op
                                              \/ frame'[a].op = "recover"

LEMMA ModeKinds ==
    ASSUME TypeInv, [Next]_vars
    PROVE  \/ \E a \in Actors : Working(a)
           \/ \E p \in Procs : Boot(p) \/ Crash(p) \/ (EndRecovery(p) /\ pc[p] # "idle")
           \/ UNCHANGED <<pc, frame, mode>>
<1> DEFINE Ends == \E p \in Procs : Boot(p) \/ Crash(p) \/ (EndRecovery(p) /\ pc[p] # "idle")
           Same == UNCHANGED <<pc, frame, mode>>
           Works == \E a \in Actors : Working(a)
<1>0. /\ pc \in [Actors -> Points] /\ frame \in [Actors -> Frames]
      /\ Handlers \subseteq Actors /\ Procs \subseteq Actors
      /\ \A p \in Procs : p \notin Handlers
      /\ "scan" \notin Naming /\ "rows" \notin Naming /\ "names" \notin Naming
    BY UploadAssumption DEF TypeInv, TypeOK, Actors, Naming, Holding, Inside
<1> USE <1>0
<1>1. ASSUME NEW a \in Actors, Return(a), mode' = mode, pc[a] # "idle" PROVE Works
    <2>1. a \in Procs => pc'[a] = "scan"
        BY <1>1 DEF Return
    <2> QED BY <1>1, <2>1, Returns DEF Working
<1>2. ASSUME NEW a \in Actors, GiveUp(a), pc[a] # "idle" PROVE Works \/ Ends
    BY <1>1, <1>2 DEF GiveUp
<1>3. ASSUME NEW a \in Actors, Locking(a) PROVE Works \/ Ends
    <2>1. CASE Acquire(a)
        <3>1. Alone(a) /\ mode' = mode /\ pc[a] = "blocked" /\ pc'[a] = "locked"
            BY <2>1 DEF Acquire, Goto, Alone
        <3>2. frame'[a].op = frame[a].op
            BY <2>1 DEF Acquire, Frames
        <3> QED BY <3>1, <3>2 DEF Working, Naming, Holding, Inside
    <2>2. CASE AcquireGone(a)
        BY <1>1, <2>2 DEF AcquireGone
    <2>3. CASE AcquireFails(a) \/ Abandon(a)
        BY <1>2, <2>3 DEF AcquireFails, Abandon
    <2> QED BY <1>3, <2>1, <2>2, <2>3 DEF Locking
<1>4. ASSUME NEW a \in Actors, Cleaning(a) PROVE Works
    <2>1. CASE StartCleanup(a) \/ Unlink(a)
        <3>1. /\ Alone(a) /\ mode' = mode /\ pc[a] \in {"locked", "cleaning"}
              /\ pc'[a] # "idle" /\ frame' = frame
            BY <2>1 DEF StartCleanup, Unlink, Goto, Alone
        <3> QED BY <3>1 DEF Working, Naming, Holding, Inside
    <2>2. CASE MarkStatus(a)
        <3>1. Alone(a) /\ mode' = mode /\ pc[a] = "cleaning" /\ pc'[a] = "cleaning"
            BY <2>2 DEF MarkStatus, Alone
        <3>2. frame'[a].op = frame[a].op
            <4>1. PICK to : frame' = [frame EXCEPT ![a].snap.status = to]
                BY <2>2 DEF MarkStatus
            <4> QED BY <4>1 DEF Frames
        <3> QED BY <3>1, <3>2 DEF Working, Naming, Holding, Inside
    <2>3. CASE KeepSession(a) \/ DeleteRow(a)
        BY <1>1, <2>3 DEF KeepSession, DeleteRow, UnlockAndReturn
    <2> QED BY <1>4, <2>1, <2>2, <2>3 DEF Cleaning
<1>5. ASSUME NEW h \in Handlers, Requesting(h) PROVE Works \/ Same
    <2>1. CASE CreatePart(h) \/ Arrive(h)
        BY <2>1 DEF CreatePart, Arrive, Goto, Alone, Working
    <2>2. CASE Answer(h)
        BY <2>2 DEF Answer, vars
    <2> QED BY <1>5, <2>1, <2>2 DEF Requesting
<1>6. ASSUME NEW h \in Handlers, Creating(h) PROVE Works
    BY <1>1, <1>6 DEF Creating, InsertRow, InsertFails, InsertFailsLeavingPart
<1>7. ASSUME NEW h \in Handlers, Writing(h) PROVE Works
    <2>1. CASE WriteBody(h)
        BY <2>1 DEF WriteBody, Goto, Alone, Working
    <2>2. CASE WriteRefused(h) \/ WriteCommit(h) \/ WriteUndone(h) \/ WriteNotUndone(h)
        BY <1>1, <2>2 DEF WriteRefused, WriteCommit, WriteUndone, WriteNotUndone, UnlockAndReturn
    <2> QED BY <1>7, <2>1, <2>2 DEF Writing
<1>8. ASSUME NEW h \in Handlers, Completing(h) PROVE Works
    <2>1. CASE HashStaging(h) \/ ChecksumAccepted(h) \/ PublishStaging(h) \/ CommitFails(h)
        BY <2>1
           DEF HashStaging, ChecksumAccepted, PublishStaging, MayPublish, CommitFails, Goto,
               Alone, Working
    <2>2. CASE \/ CompleteRefused(h) \/ ChecksumRefused(h) \/ PublishUnsynced(h)
               \/ CommitFile(h) \/ RestorePublished(h) \/ RestoreFails(h)
        BY <1>1, <2>2
           DEF CompleteRefused, ChecksumRefused, PublishUnsynced, MayPublish, CommitFile,
               RestorePublished, RestoreFails, UnlockAndReturn
    <2> QED BY <1>8, <2>1, <2>2 DEF Completing
<1>9. ASSUME NEW p \in Procs, Recovering(p) PROVE Works \/ Ends \/ Same
    <2>1. CASE ListRows(p) \/ ListNames(p)
        BY <2>1 DEF ListRows, ListNames, Goto, Alone, Working
    <2>2. CASE ScanRow(p) \/ ScanName(p)
        <3>1. CASE UNCHANGED <<pc, frame>>
            BY <2>2, <3>1 DEF ScanRow, ScanName
        <3>2. CASE ~UNCHANGED <<pc, frame>>
            <4>1. PICK i \in Ids :
                     /\ frame' = [frame EXCEPT ![p] = [Blank EXCEPT !.op = "recover", !.id = i]]
                     /\ Goto(p, "blocked") \/ Goto(p, "sidecar")
                BY <2>2, <3>2 DEF ScanRow, ScanName, TypeInv, TypeOK, Todos
            <4>2. [Blank EXCEPT !.op = "recover", !.id = i].op = "recover"
                BY NewFrame DEF Ops
            <4>3. frame'[p].op = "recover" /\ pc'[p] # "idle" /\ pc[p] = "scan" /\ mode' = mode
                BY <2>2, <4>1, <4>2 DEF Goto, ScanRow, ScanName
            <4>4. Alone(p)
                BY <4>1 DEF Goto, Alone
            <4> QED BY <4>3, <4>4 DEF Working
        <3> QED BY <3>1, <3>2
    <2>3. CASE LockSidecar(p)
        BY <2>3 DEF LockSidecar, Goto, Alone, Working, Naming, Holding, Inside
    <2>4. CASE RecheckRow(p)
        <3>1. CASE Goto(p, "doomed") /\ frame' = frame
            BY <2>4, <3>1 DEF RecheckRow, Goto, Alone, Working, Naming, Holding, Inside
        <3>2. CASE Return(p)
            BY <1>1, <2>4, <3>2 DEF RecheckRow
        <3> QED BY <2>4, <3>1, <3>2 DEF RecheckRow, UnlockAndReturn
    <2>5. CASE RemoveOrphan(p)
        BY <1>1, <2>5 DEF RemoveOrphan, UnlockAndReturn
    <2>6. CASE FinishRecovery(p) \/ RecoveryFails(p)
        BY <2>6 DEF FinishRecovery, RecoveryFails
    <2> QED BY <1>9, <2>1, <2>2, <2>3, <2>4, <2>5, <2>6 DEF Recovering
<1>10. ASSUME (\E i \in Ids : Expire(i)) \/ UNCHANGED vars PROVE Same
    BY <1>10 DEF Expire, local, vars
<1> HIDE DEF Works, Ends, Same
<1>11. ASSUME NEW p \in Procs, Boot(p) \/ Crash(p) PROVE Ends
    BY <1>11 DEF Ends
<1>12. Works \/ Ends \/ Same
    BY <1>3, <1>4, <1>5, <1>6, <1>7, <1>8, <1>9, <1>10, <1>11 DEF Next
<1> QED BY <1>12 DEF Works, Ends, Same

LEMMA ModesStep ==
    ASSUME TypeInv, Modes, [Next]_vars
    PROVE  Modes'
<1>0. /\ pc \in [Actors -> Points] /\ frame \in [Actors -> Frames]
      /\ mode \in [Procs -> {"down", "recovering", "serving"}]
      /\ Handlers \subseteq Actors /\ Procs \subseteq Actors
      /\ \A p \in Procs : p \notin Handlers
      /\ \A h \in Handlers : Home[h] \in Procs
      /\ \A l \in {"idle", "rows"} : l \notin Naming
    BY UploadAssumption DEF TypeInv, TypeOK, Actors, Naming, Holding, Inside
<1> USE <1>0
<1>1. ASSUME NEW a \in Actors, Working(a) PROVE Modes'
    BY <1>1 DEF Modes, Working, Alone
<1>2. ASSUME NEW p \in Procs, Boot(p) PROVE Modes'
    BY <1>2 DEF Modes, Boot, Goto
<1>3. ASSUME NEW p \in Procs, Crash(p) PROVE Modes'
    BY <1>3 DEF Modes, Crash, ProcOf
<1>4. ASSUME NEW p \in Procs, EndRecovery(p), pc[p] # "idle" PROVE Modes'
    BY <1>4 DEF Modes, EndRecovery
<1>5. ASSUME UNCHANGED <<pc, frame, mode>> PROVE Modes'
    BY <1>5 DEF Modes
<1> QED BY <1>1, <1>2, <1>3, <1>4, <1>5, ModeKinds

-----------------------------------------------------------------------------
(* Where the bytes of an active session are                                 *)

\* The process that serves is the only one there is.
OneProcess == \A p, q \in Procs : p = q

\* Nobody creates or removes what another goroutine relies on being there or gone.
Undisturbed ==
    /\ \A a \in Actors : pc[a] = "staged" => part[frame[a].id] # None
    /\ \A p \in Procs : pc[p] = "doomed" => row[frame[p].id] = None

BytesInv == KeptInv /\ Modes /\ (crashes = 0 /\ faults = 0 => Undisturbed /\ ActiveHasBytes)

\* A step that makes no session active without its part and keeps a publication going.
LEMMA BytesStep ==
    ASSUME KeptInv, ActiveHasBytes, NEW a \in Actors, Alone(a),
           \A i \in Ids : row'[i] # None /\ row'[i].status = "active" /\ part'[i] = None =>
               row[i] # None /\ row[i].status = "active" /\ part[i] = None,
           a \in Handlers /\ pc[a] \in Publishing =>
               pc'[a] \in Publishing /\ frame'[a] = frame[a],
           objects' = objects
    PROVE  ActiveHasBytes'
<1> SUFFICES ASSUME NEW i \in Ids, row'[i] # None, row'[i].status = "active", part'[i] = None
             PROVE  \E h \in Handlers : /\ pc'[h] \in Publishing
                                        /\ frame'[h].id = i
                                        /\ objects'[frame'[h].key] # None
    BY DEF ActiveHasBytes
<1>1. PICK h \in Handlers : /\ pc[h] \in Publishing
                            /\ frame[h].id = i
                            /\ objects[frame[h].key] # None
    BY DEF ActiveHasBytes
<1>2. pc'[h] \in Publishing /\ frame'[h] = frame[h]
    BY <1>1, Shapes DEF Alone
<1> QED BY <1>1, <1>2

\* A step after which no new goroutine relies on anything, that keeps the parts that
\* are being created and gives no row to a session that has none.
LEMMA UndisturbedStep ==
    ASSUME KeptInv, Undisturbed, NEW a \in Actors, Alone(a),
           pc'[a] = "staged" => part'[frame'[a].id] # None,
           pc'[a] = "doomed" => row'[frame'[a].id] = None,
           \A i \in Ids \ born : part'[i] = None /\ part[i] # None =>
               \A b \in Actors : b # a /\ pc[b] = "staged" => frame[b].id # i,
           \A i \in Ids : row'[i] # None /\ row[i] = None =>
               \A p \in Procs : p # a /\ pc[p] = "doomed" => frame[p].id # i
    PROVE  Undisturbed'
<1> USE Shapes
<1>1. ASSUME NEW b \in Actors, pc'[b] = "staged" PROVE part'[frame'[b].id] # None
    <2>1. CASE b # a
        <3>1. /\ pc[b] = "staged" /\ frame'[b] = frame[b] /\ frame[b].id \in Ids \ born
              /\ part[frame[b].id] # None
            BY <1>1, <2>1, Positions
               DEF Alone, Naming, Undisturbed, KeptInv, ObjectInv, LockInv, StagedFresh
        <3> QED BY <2>1, <3>1
    <2> QED BY <1>1, <2>1
<1>2. ASSUME NEW p \in Procs, pc'[p] = "doomed" PROVE row'[frame'[p].id] = None
    <2>1. CASE p # a
        <3>1. /\ pc[p] = "doomed" /\ frame'[p] = frame[p] /\ frame[p].id \in Ids
              /\ row[frame[p].id] = None
            BY <1>2, <2>1, Positions DEF Alone, Naming, Holding, Undisturbed
        <3> QED BY <2>1, <3>1
    <2> QED BY <1>2, <2>1
<1> QED BY <1>1, <1>2 DEF Undisturbed

\* The offset's compare-and-swap leaves a session's row in place (session.go:147-158).
LEMMA RowStays ==
    ASSUME KeptInv, NEW h \in Handlers, WriteCommit(h)
    PROVE  /\ frame[h].id \in Ids /\ row[frame[h].id] \in Rows /\ row'[frame[h].id] \in Rows
           /\ row'[frame[h].id] # None
           /\ row'[frame[h].id].status = row[frame[h].id].status
           /\ row'[frame[h].id].length = row[frame[h].id].length
           /\ row'[frame[h].id].path = row[frame[h].id].path
<1> USE Shapes
<1> DEFINE r == frame[h].snap
           n == r.offset + Len(frame[h].data)
<1>1. /\ frame[h].id \in Ids /\ r \in Rows /\ row[frame[h].id] = r /\ frame[h].data \in Seq(Data)
    BY Positions DEF WriteCommit, Naming, Holding, Inside
<1>2. n \in 0..MaxLength
    <2>1. /\ r.offset \in Nat /\ r.length \in 0..MaxLength /\ Len(frame[h].data) \in Nat
          /\ Len(frame[h].data) <= r.length - r.offset
        BY <1>1, LenProperties, UploadAssumption DEF WriteCommit, Fits, Rows
    <2> QED BY <2>1, UploadAssumption
<1>3. /\ [r EXCEPT !.offset = n] \in Rows /\ [r EXCEPT !.offset = n].status = r.status
      /\ [r EXCEPT !.offset = n].length = r.length /\ [r EXCEPT !.offset = n].path = r.path
    BY <1>1, <1>2 DEF Rows
<1>4. row' = [row EXCEPT ![frame[h].id] = [r EXCEPT !.offset = n]]
    BY <1>1 DEF WriteCommit
<1> QED BY <1>1, <1>3, <1>4

\* Recovery and requests take turns in one process.
LEMMA TakingTurns ==
    ASSUME OneProcess, Modes, NEW h \in Handlers, pc[h] # "idle", NEW p \in Procs
    PROVE  pc[p] = "idle"
    BY UploadAssumption DEF OneProcess, Modes

LEMMA BytesInvStep ==
    ASSUME OneProcess, BytesInv, [Next]_vars
    PROVE  BytesInv'
<1>1. KeptInv' /\ KeptInv /\ TypeInv /\ Modes /\ Modes'
    BY KeptInvStep, ModesStep, Shapes DEF BytesInv
<1> USE <1>1, Shapes
<1> DEFINE Held == Undisturbed /\ ActiveHasBytes
<1>2. SUFFICES ASSUME crashes' = 0, faults' = 0 PROVE Held'
    BY DEF BytesInv
<1>3. Undisturbed /\ ActiveHasBytes
    BY <1>2, BoundsCount DEF BytesInv
<1>4. ASSUME NEW a \in Actors, Quiet(a) PROVE Held'
    <2>1. Undisturbed'
        BY <1>3, <1>4, UndisturbedStep DEF Quiet, stored
    <2>2. ActiveHasBytes'
        BY <1>3, <1>4, BytesStep DEF Quiet, stored
    <2> QED BY <2>1, <2>2
<1>5. ASSUME UNCHANGED <<stored, pc, frame>> PROVE Held'
    BY <1>3, <1>5 DEF Undisturbed, ActiveHasBytes, stored
<1>6. ASSUME NEW a \in Actors, MarkStatus(a) \/ Unlink(a) \/ DeleteRow(a) PROVE Held'
    <2>1. /\ Alone(a) /\ pc[a] \in {"cleaning", "unlinked"} /\ objects' = objects
          /\ pc'[a] \in {"cleaning", "unlinked", "scan", "idle"}
        BY <1>6, Returns DEF MarkStatus, Unlink, DeleteRow, UnlockAndReturn, Goto, Alone
    <2>2. /\ frame[a].id \in Ids /\ frame[a].id \in born /\ frame[a].snap \in Rows
          /\ row[frame[a].id] = frame[a].snap
        BY <2>1, Positions DEF Naming, Holding, Inside
    <2>3. /\ \A i \in Ids : i # frame[a].id => part'[i] = part[i] /\ row'[i] = row[i]
          /\ row'[frame[a].id] # None /\ row'[frame[a].id].status = "active" =>
                part'[frame[a].id] = part[frame[a].id] /\ row'[frame[a].id] = row[frame[a].id]
        <3>1. CASE MarkStatus(a)
            <4>1. PICK to \in {"cancelled", "cleanup_pending"} :
                     row' = [row EXCEPT ![frame[a].id].status = to]
                BY <3>1 DEF MarkStatus
            <4>2. row'[frame[a].id].status # "active"
                BY <2>2, <4>1 DEF Rows
            <4> QED BY <2>2, <3>1, <4>1, <4>2 DEF MarkStatus
        <3>2. CASE Unlink(a)
            BY <2>2, <3>2 DEF Unlink, UnlinkReady
        <3>3. CASE DeleteRow(a)
            BY <2>2, <3>3 DEF DeleteRow
        <3> QED BY <1>6, <3>1, <3>2, <3>3
    <2>4. ActiveHasBytes'
        BY <1>3, <2>1, <2>3, BytesStep DEF Publishing
    <2>5. Undisturbed'
        BY <1>3, <2>1, <2>2, <2>3, UndisturbedStep
    <2> QED BY <2>4, <2>5
<1>7. ASSUME NEW h \in Handlers, CreatePart(h) PROVE Held'
    <2>1. PICK i \in FreshIds : /\ part' = [part EXCEPT ![i] = <<>>]
                                /\ frame' = [frame EXCEPT ![h] = [Blank EXCEPT !.op = "create", !.id = i]]
        BY <1>7 DEF CreatePart
    <2>2. /\ Alone(h) /\ pc'[h] = "staged" /\ pc[h] = "idle" /\ objects' = objects /\ row' = row
        BY <1>7 DEF CreatePart, Goto, Alone
    <2>3. i \in Ids /\ frame'[h].id = i /\ <<>> \in Content
        <3>1. i \in Ids /\ "create" \in Ops
            BY DEF FreshIds, Ops
        <3>2. [Blank EXCEPT !.op = "create", !.id = i].id = i
            BY <3>1, NewFrame
        <3> QED BY <2>1, <3>1, <3>2, EmptySeq DEF Content
    <2>4. \A j \in Ids : part'[j] \in {part[j], <<>>}
        BY <2>1
    <2>5. ActiveHasBytes'
        BY <1>3, <2>2, <2>3, <2>4, BytesStep DEF Publishing
    <2>6. Undisturbed'
        BY <1>3, <2>1, <2>2, <2>3, <2>4, UndisturbedStep
    <2> QED BY <2>5, <2>6
<1>8. ASSUME NEW h \in Handlers, InsertRow(h) PROVE Held'
    <2>1. /\ Alone(h) /\ pc'[h] \in {"scan", "idle"} /\ pc[h] = "staged"
          /\ objects' = objects /\ part' = part /\ frame[h].id \in Ids
        BY <1>8, Returns, Positions DEF InsertRow, Naming
    <2>2. \A i \in Ids : i # frame[h].id => row'[i] = row[i]
        BY <1>8 DEF InsertRow
    <2>3. part[frame[h].id] # None
        BY <1>3, <2>1 DEF Undisturbed
    <2>4. ActiveHasBytes'
        BY <1>3, <2>1, <2>2, <2>3, BytesStep DEF Publishing
    <2>5. \A p \in Procs : pc[p] = "idle"
        BY <2>1, TakingTurns
    <2>6. Undisturbed'
        BY <1>3, <2>1, <2>5, UndisturbedStep
    <2> QED BY <2>4, <2>6
<1>9. ASSUME NEW h \in Handlers, InsertFails(h) PROVE Held'
    <2>1. /\ Alone(h) /\ pc'[h] \in {"scan", "idle"} /\ pc[h] = "staged"
          /\ objects' = objects /\ row' = row /\ frame[h].id \in Ids /\ row[frame[h].id] = None
          /\ \A b \in Actors : pc[b] = "staged" /\ frame[b].id = frame[h].id => b = h
        BY <1>9, Returns, Positions
           DEF InsertFails, Naming, KeptInv, ObjectInv, LockInv, StagedFresh
    <2>2. \A i \in Ids : i # frame[h].id => part'[i] = part[i]
        BY <1>9 DEF InsertFails
    <2>3. ActiveHasBytes'
        BY <1>3, <2>1, <2>2, BytesStep DEF Publishing
    <2>4. Undisturbed'
        BY <1>3, <2>1, <2>2, UndisturbedStep
    <2> QED BY <2>3, <2>4
<1>10. ASSUME NEW h \in Handlers,
              WriteBody(h) \/ WriteCommit(h) \/ WriteUndone(h) \/ HashStaging(h)
       PROVE  Held'
    <2>1. /\ Alone(h) /\ pc[h] \in {"locked", "copied"} /\ objects' = objects
          /\ pc'[h] \in {"copied", "hashed", "scan", "idle"}
        BY <1>10, Returns
           DEF WriteBody, WriteCommit, WriteUndone, HashStaging, UnlockAndReturn, Goto, Alone, store
    <2>2. frame[h].id \in Ids /\ row[frame[h].id] \in Rows /\ row[frame[h].id] # None
        BY <2>1, Positions DEF Naming, Holding, Inside
    <2>3. \A i \in Ids : part'[i] = None => part[i] = None
        <3>1. CASE WriteUndone(h)
            <4>1. frame[h].snap.offset \in Nat
                BY <2>1, Positions, UploadAssumption DEF Inside, Rows, Holding
            <4>2. part[frame[h].id] # None =>
                      Truncated(part[frame[h].id], frame[h].snap.offset) # None
                BY <2>2, <4>1, TruncatedType
            <4> QED BY <2>2, <3>1, <4>2 DEF WriteUndone
        <3>2. CASE WriteBody(h)
            BY <3>2, Written
        <3> QED BY <1>10, <3>1, <3>2 DEF WriteCommit, HashStaging, store
    <2>4. \A i \in Ids : /\ row'[i] # None <=> row[i] # None
                         /\ row[i] # None => row'[i].status = row[i].status
        <3>1. CASE WriteCommit(h)
            <4>1. PICK n : row' = [row EXCEPT ![frame[h].id].offset = n]
                BY <3>1 DEF WriteCommit
            <4> QED BY <2>2, <3>1, <4>1, RowStays DEF Rows
        <3> QED BY <1>10, <3>1 DEF WriteBody, WriteUndone, HashStaging, store
    <2>5. ActiveHasBytes'
        BY <1>3, <2>1, <2>3, <2>4, BytesStep DEF Publishing
    <2>6. Undisturbed'
        BY <1>3, <2>1, <2>3, <2>4, UndisturbedStep
    <2> QED BY <2>5, <2>6
<1>11. ASSUME NEW h \in Handlers, PublishStaging(h) PROVE Held'
    <2>1. PICK k \in FreshKeys : MovePart(frame[h].id, k) /\ frame' = [frame EXCEPT ![h].key = k]
        BY <1>11 DEF PublishStaging
    <2>2. /\ Alone(h) /\ pc'[h] = "renamed" /\ pc[h] = "locked" /\ MayPublish(h)
          /\ frame'[h].key = k /\ frame'[h].id = frame[h].id /\ row' = row
        BY <1>11, <2>1 DEF PublishStaging, MayPublish, Goto, Alone, Frames
    <2>3. /\ objects'[k] # None /\ frame[h].id \in born
          /\ \A j \in Keys : j # k => objects'[j] = objects[j]
          /\ \A i \in Ids : i # frame[h].id => part'[i] = part[i]
          /\ \A b \in Actors : pc[b] \in Publishing => frame[b].key \in Keys \ {k}
        BY <2>1, <2>2, Published, Positions DEF Inside
    <2>4. ActiveHasBytes'
        <3> SUFFICES ASSUME NEW i \in Ids, row'[i] # None, row'[i].status = "active", part'[i] = None
                     PROVE  \E g \in Handlers : /\ pc'[g] \in Publishing
                                                /\ frame'[g].id = i
                                                /\ objects'[frame'[g].key] # None
            BY DEF ActiveHasBytes
        <3>1. CASE i = frame[h].id
            BY <2>2, <2>3, <3>1 DEF Publishing
        <3>2. CASE i # frame[h].id
            <4>1. PICK g \in Handlers : /\ pc[g] \in Publishing
                                        /\ frame[g].id = i
                                        /\ objects[frame[g].key] # None
                BY <1>3, <2>2, <2>3, <3>2 DEF ActiveHasBytes
            <4>2. g # h
                BY <2>2, <4>1 DEF Publishing
            <4>3. pc'[g] = pc[g] /\ frame'[g] = frame[g] /\ objects'[frame[g].key] # None
                BY <2>2, <2>3, <4>1, <4>2 DEF Alone
            <4> QED BY <4>1, <4>3
        <3> QED BY <3>1, <3>2
    <2>5. \A i \in Ids \ born : part'[i] = part[i]
        BY <2>3
    <2>6. Undisturbed'
        BY <1>3, <2>2, <2>5, UndisturbedStep
    <2> QED BY <2>4, <2>6
<1>12. ASSUME NEW h \in Handlers, CommitFile(h) \/ RestorePublished(h) PROVE Held'
    <2> DEFINE i == frame[h].id
    <2>1. /\ Alone(h) /\ pc[h] \in Publishing /\ pc'[h] \in {"scan", "idle"}
          /\ i \in Ids /\ frame[h].key \in Keys /\ objects[frame[h].key] \in Content
        BY <1>12, Returns, Positions
           DEF CommitFile, RestorePublished, UnlockAndReturn, Publishing, Naming, Holding, Inside
    <2>2. \A g \in Handlers : g # h /\ pc[g] \in Publishing =>
              frame[g].key \in Keys \ {frame[h].key}
        BY <2>1, Positions DEF KeptInv, ObjectInv, ObjectsOwned
    <2>3. /\ \A j \in Ids : j # i => part'[j] = part[j] /\ row'[j] = row[j]
          /\ \A j \in Keys : j # frame[h].key => objects'[j] = objects[j]
          /\ row'[i] = None \/ part'[i] # None
          /\ \A j \in Ids : part'[j] = None => part[j] = None
          /\ \A j \in Ids : row'[j] \in {row[j], None}
        BY <1>12, <2>1 DEF CommitFile, RestorePublished
    <2> HIDE DEF i
    <2>4. ActiveHasBytes'
        <3> SUFFICES ASSUME NEW j \in Ids, row'[j] # None, row'[j].status = "active", part'[j] = None
                     PROVE  \E g \in Handlers : /\ pc'[g] \in Publishing
                                                /\ frame'[g].id = j
                                                /\ objects'[frame'[g].key] # None
            BY DEF ActiveHasBytes
        <3>1. PICK g \in Handlers : /\ pc[g] \in Publishing
                                    /\ frame[g].id = j
                                    /\ objects[frame[g].key] # None
            BY <1>3, <2>3 DEF ActiveHasBytes
        <3>2. g # h /\ pc'[g] = pc[g] /\ frame'[g] = frame[g]
            BY <2>1, <2>3, <3>1 DEF Alone, i
        <3> QED BY <2>2, <2>3, <3>1, <3>2
    <2>5. Undisturbed'
        BY <1>3, <2>1, <2>3, UndisturbedStep
    <2> QED BY <2>4, <2>5
<1>13. ASSUME NEW p \in Procs, RemoveOrphan(p) PROVE Held'
    <2>1. /\ Alone(p) /\ pc[p] = "doomed" /\ pc'[p] = "scan" /\ objects' = objects /\ row' = row
          /\ frame[p].id \in Ids /\ row[frame[p].id] = None /\ p \notin Handlers
        BY <1>3, <1>13, Returns, Positions, UploadAssumption
           DEF RemoveOrphan, UnlockAndReturn, Return, Naming, Holding, Undisturbed
    <2>2. \A i \in Ids : i # frame[p].id => part'[i] = part[i]
        BY <1>13 DEF RemoveOrphan
    <2>3. ActiveHasBytes'
        BY <1>3, <2>1, <2>2, BytesStep
    <2>4. \A b \in Actors : pc[b] # "staged"
        BY <2>1, TakingTurns DEF KeptInv, Kept, HandlersOnly
    <2>5. Undisturbed'
        BY <1>3, <2>1, <2>4, UndisturbedStep
    <2> QED BY <2>3, <2>5
<1> HIDE DEF Held
<1>14. ASSUME Storing PROVE Held'
    <2>1. ASSUME NEW h \in Handlers,
                 \/ HashStaging(h) \/ PublishStaging(h) \/ PublishUnsynced(h)
                 \/ CommitFile(h) \/ RestorePublished(h) \/ RestoreFails(h)
          PROVE  Held'
        BY <1>2, <1>10, <1>11, <1>12, <2>1, BoundsCount
    <2>2. ASSUME NEW h \in Handlers,
                 \/ CreatePart(h) \/ Creating(h)
                 \/ WriteBody(h) \/ WriteCommit(h) \/ WriteUndone(h) \/ WriteNotUndone(h)
          PROVE  Held'
        BY <1>2, <1>7, <1>8, <1>9, <1>10, <2>2, BoundsCount DEF Creating
    <2>3. ASSUME NEW p \in Procs, RemoveOrphan(p) \/ Crash(p) PROVE Held'
        BY <1>2, <1>13, <2>3, BoundsCount
    <2> QED BY <1>6, <1>14, <2>1, <2>2, <2>3 DEF Storing
<1> QED BY <1>4, <1>5, <1>14, StepKinds

LEMMA ModesInit == Init => Modes
<1> SUFFICES ASSUME Init PROVE Modes
    OBVIOUS
<1>1. "idle" \notin Naming /\ Handlers \subseteq Actors /\ Procs \subseteq Actors
    BY DEF Naming, Holding, Inside, Actors
<1> QED BY <1>1 DEF Init, Modes

\* session.go:206-208 and 241-242: where one process serves, the bytes of an active
\* session are in its part or in the hands of the goroutine that publishes it, through
\* every race of requests and recovery runs, as long as nothing crashes half way and
\* every undo succeeds.  (A --recover-only process beside it may remove the part of a
\* session that is just being created.)
THEOREM ActiveSessionsHaveBytes ==
    ASSUME OneProcess
    PROVE  Spec => [](crashes = 0 /\ faults = 0 => ActiveHasBytes)
<1>1. Init => BytesInv
    <2> SUFFICES ASSUME Init PROVE BytesInv
        OBVIOUS
    <2>1. \A a \in Actors : pc[a] = "idle"
        BY DEF Init
    <2> QED BY <2>1, KeptInvInit, ModesInit DEF BytesInv, Undisturbed, ActiveHasBytes, Init, Actors
<1>2. BytesInv /\ [Next]_vars => BytesInv'
    BY BytesInvStep
<1>3. BytesInv => (crashes = 0 /\ faults = 0 => ActiveHasBytes)
    BY DEF BytesInv
<1> QED BY <1>1, <1>2, <1>3, PTL DEF Spec

-----------------------------------------------------------------------------
(* Parts that are gone                                                      *)

\* A PATCH copies into an active session; a part is unlinked when its row says so; a
\* part that was renamed, unlinked or outlived by its row is not there.
Reclaimed ==
    /\ \A a \in Actors :
          /\ pc[a] = "copied" => frame[a].snap.status = "active"
          /\ pc[a] = "unlinked" => frame[a].snap.status = "cleanup_pending"
          /\ pc[a] \in Publishing \cup {"unlinked"} => part[frame[a].id] = None
    /\ \A i \in born : row[i] = None => part[i] = None

ReclaimedInv == KeptInv /\ Reclaimed

LEMMA ReclaimedStep ==
    ASSUME ReclaimedInv, NEW a \in Actors, Alone(a),
           pc'[a] = "copied" => frame'[a].snap.status = "active",
           pc'[a] = "unlinked" => frame'[a].snap.status = "cleanup_pending",
           pc'[a] \in Publishing \cup {"unlinked"} => part'[frame'[a].id] = None,
           \A i \in Ids : part'[i] # None =>
               \/ part[i] # None
               \/ i \notin born'
               \/ /\ row'[i] # None
                  /\ \A b \in Actors : b # a /\ pc[b] \in Holding => frame[b].id # i,
           \A i \in born' : row'[i] = None => i \in born /\ (row[i] = None \/ part'[i] = None),
           born \subseteq born'
    PROVE  Reclaimed'
<1> USE Shapes DEF ReclaimedInv
<1>1. ASSUME NEW b \in Actors, b # a, pc'[b] \in Publishing \cup {"unlinked"}
      PROVE  part'[frame'[b].id] = None
    <2>1. /\ pc[b] \in Publishing \cup {"unlinked"} /\ pc[b] \in Holding /\ frame'[b] = frame[b]
          /\ frame[b].id \in Ids /\ frame[b].id \in born /\ part[frame[b].id] = None
        BY <1>1, Positions DEF Alone, Publishing, Naming, Holding, Inside, Reclaimed
    <2> QED BY <1>1, <2>1
<1>2. ASSUME NEW b \in Actors
      PROVE  /\ pc'[b] = "copied" => frame'[b].snap.status = "active"
             /\ pc'[b] = "unlinked" => frame'[b].snap.status = "cleanup_pending"
             /\ pc'[b] \in Publishing \cup {"unlinked"} => part'[frame'[b].id] = None
    <2>1. CASE b = a
        BY <2>1
    <2>2. CASE b # a
        BY <1>1, <2>2 DEF Alone, Reclaimed
    <2> QED BY <2>1, <2>2
<1>3. ASSUME NEW i \in born', row'[i] = None PROVE part'[i] = None
    <2>1. i \in Ids
        BY <1>3
    <2> QED BY <1>3, <2>1 DEF Reclaimed
<1> QED BY <1>2, <1>3 DEF Reclaimed

LEMMA ReclaimedInvStep ==
    ASSUME ReclaimedInv, [Next]_vars
    PROVE  ReclaimedInv'
<1>1. KeptInv' /\ KeptInv /\ TypeInv
    BY KeptInvStep, Shapes DEF ReclaimedInv
<1> USE <1>1, Shapes
<1>2. SUFFICES Reclaimed'
    BY DEF ReclaimedInv
<1>3. ASSUME NEW a \in Actors, Quiet(a) PROVE Reclaimed'
    <2>1. /\ Alone(a) /\ part' = part /\ row' = row /\ born' = born
          /\ pc'[a] \notin {"copied", "unlinked"}
          /\ pc'[a] \in Publishing => pc[a] \in Publishing /\ frame'[a] = frame[a]
        BY <1>3 DEF Quiet, stored
    <2>2. pc'[a] \in Publishing => part'[frame'[a].id] = None
        BY <2>1 DEF ReclaimedInv, Reclaimed
    <2> QED BY <2>1, <2>2, ReclaimedStep
<1>4. ASSUME UNCHANGED <<stored, pc, frame>> PROVE Reclaimed'
    BY <1>4 DEF ReclaimedInv, Reclaimed, stored
<1>5. ASSUME NEW a \in Actors, MarkStatus(a) \/ Unlink(a) \/ DeleteRow(a) PROVE Reclaimed'
    <2>1. /\ Alone(a) /\ pc[a] \in {"cleaning", "unlinked"} /\ born' = born
          /\ frame[a].id \in Ids /\ frame[a].snap \in Rows
        BY <1>5, Returns, Positions
           DEF MarkStatus, Unlink, DeleteRow, UnlockAndReturn, Goto, Alone, Naming, Holding,
               Inside, ghost
    <2>2. CASE MarkStatus(a)
        <3>1. part' = part /\ pc'[a] = "cleaning" /\ \A i \in Ids : row'[i] = None => row[i] = None
            <4>1. PICK to \in {"cancelled", "cleanup_pending"} :
                     row' = [row EXCEPT ![frame[a].id].status = to]
                BY <2>2 DEF MarkStatus
            <4>2. row[frame[a].id] \in Rows /\ to \in Statuses
                BY <2>1, <2>2 DEF MarkStatus, Statuses
            <4>3. [row[frame[a].id] EXCEPT !.status = to] \in Rows
                BY <4>2, RowUpdates
            <4> QED BY <2>1, <2>2, <4>1, <4>2, <4>3 DEF MarkStatus
        <3> QED BY <2>1, <3>1, ReclaimedStep DEF Publishing
    <2>3. CASE Unlink(a)
        BY <2>1, <2>3, ReclaimedStep DEF Unlink, UnlinkReady, Goto, Publishing
    <2>4. CASE DeleteRow(a)
        <3>1. /\ part' = part /\ pc'[a] \in {"scan", "idle"} /\ part[frame[a].id] = None
              /\ \A i \in Ids : row'[i] = row[i] \/ i = frame[a].id
            BY <2>1, <2>4, Returns DEF DeleteRow, UnlockAndReturn, ReclaimedInv, Reclaimed
        <3> QED BY <2>1, <3>1, ReclaimedStep DEF Publishing
    <2> QED BY <1>5, <2>2, <2>3, <2>4
<1>6. ASSUME NEW h \in Handlers, CreatePart(h) \/ InsertFails(h) \/ InsertFailsLeavingPart(h)
      PROVE  Reclaimed'
    <2>1. /\ Alone(h) /\ pc'[h] \in {"staged", "scan", "idle"} /\ row' = row /\ born' = born
        BY <1>6, Returns
           DEF CreatePart, InsertFails, InsertFailsLeavingPart, Goto, Alone, ghost, store
    <2>2. \A i \in born : part'[i] # None => part[i] # None
        BY <1>6 DEF CreatePart, FreshIds, InsertFails, InsertFailsLeavingPart, store
    <2> QED BY <2>1, <2>2, ReclaimedStep DEF Publishing
<1>7. ASSUME NEW h \in Handlers, InsertRow(h) PROVE Reclaimed'
    <2>1. /\ Alone(h) /\ pc'[h] \in {"scan", "idle"} /\ part' = part /\ frame[h].id \in Ids
          /\ born' = born \cup {frame[h].id} /\ \A i \in Ids : i # frame[h].id => row'[i] = row[i]
        BY <1>7, Returns, Positions DEF InsertRow, Naming
    <2>2. row'[frame[h].id] # None
        <3>1. PICK n \in 0..MaxLength, p \in Paths :
                 row' = [row EXCEPT ![frame[h].id] =
                            [status |-> "active", offset |-> 0, length |-> n, path |-> p]]
            BY <1>7 DEF InsertRow
        <3>2. [status |-> "active", offset |-> 0, length |-> n, path |-> p] \in Rows
            BY UploadAssumption DEF Rows, Statuses
        <3> QED BY <2>1, <3>1, <3>2
    <2> QED BY <2>1, <2>2, ReclaimedStep DEF Publishing
<1>8. ASSUME NEW h \in Handlers, WriteBody(h) PROVE Reclaimed'
    <2>1. frame[h].snap.status = "active" /\ frame'[h].snap = frame[h].snap
        BY <1>8, Positions DEF WriteBody, Live, Frames
    <2> QED BY <1>8, <2>1, Written, ReclaimedStep DEF Publishing
<1>9. ASSUME NEW h \in Handlers, WriteCommit(h) \/ WriteUndone(h) \/ WriteNotUndone(h)
      PROVE  Reclaimed'
    <2>1. /\ Alone(h) /\ pc'[h] \in {"scan", "idle"} /\ born' = born
          /\ \A i \in Ids : part'[i] # None => part[i] # None
        BY <1>9, Returns
           DEF WriteCommit, WriteUndone, WriteNotUndone, UnlockAndReturn, ghost, store
    <2>2. \A i \in Ids : row'[i] = None => row[i] = None
        <3>1. CASE WriteCommit(h)
            <4>1. PICK n : row' = [row EXCEPT ![frame[h].id].offset = n]
                BY <3>1 DEF WriteCommit
            <4>2. frame[h].id \in Ids /\ row'[frame[h].id] # None
                BY <3>1, RowStays
            <4> QED BY <4>1, <4>2
        <3> QED BY <1>9, <3>1 DEF WriteUndone, WriteNotUndone, store
    <2> QED BY <2>1, <2>2, ReclaimedStep DEF Publishing
<1>10. ASSUME NEW h \in Handlers, HashStaging(h) PROVE Reclaimed'
    <2>1. /\ Alone(h) /\ pc'[h] = "hashed" /\ born' = born /\ part' = part /\ row' = row
        BY <1>10 DEF HashStaging, Goto, Alone, ghost, store
    <2> QED BY <2>1, ReclaimedStep DEF Publishing
<1>11. ASSUME NEW h \in Handlers, PublishStaging(h) \/ PublishUnsynced(h) PROVE Reclaimed'
    <2>1. /\ Alone(h) /\ pc'[h] \in {"renamed", "scan", "idle"} /\ born' = born /\ row' = row
          /\ MayPublish(h) /\ frame[h].id \in Ids
        BY <1>11, Returns, Positions
           DEF PublishStaging, PublishUnsynced, MayPublish, UnlockAndReturn, Goto, Alone, ghost,
               Naming, Holding, Inside
    <2>2. PICK k \in FreshKeys : MovePart(frame[h].id, k)
        BY <1>11 DEF PublishStaging, PublishUnsynced
    <2>3. /\ part'[frame[h].id] = None
          /\ \A i \in Ids : part'[i] # None => part[i] # None
        BY <2>1, <2>2 DEF MovePart
    <2>4. pc'[h] = "renamed" => frame'[h].id = frame[h].id
        <3>1. CASE PublishStaging(h)
            BY <3>1, Positions DEF PublishStaging, Frames
        <3>2. CASE PublishUnsynced(h)
            BY <3>2, Returns DEF PublishUnsynced, UnlockAndReturn
        <3> QED BY <1>11, <3>1, <3>2
    <2> QED BY <2>1, <2>3, <2>4, ReclaimedStep DEF Publishing
<1>12. ASSUME NEW h \in Handlers, CommitFile(h) \/ RestorePublished(h) \/ RestoreFails(h)
       PROVE  Reclaimed'
    <2>1. /\ Alone(h) /\ pc'[h] \in {"scan", "idle"} /\ pc[h] \in Publishing /\ born' = born
          /\ frame[h].id \in Ids /\ row[frame[h].id] # None /\ part[frame[h].id] = None
          /\ lock[frame[h].id] = h
        BY <1>12, Returns, Positions
           DEF CommitFile, RestorePublished, RestoreFails, UnlockAndReturn, ghost, Publishing,
               Naming, Holding, Inside, ReclaimedInv, Reclaimed
    <2>2. CASE CommitFile(h) \/ RestoreFails(h)
        BY <2>1, <2>2, ReclaimedStep DEF CommitFile, RestoreFails, store, Publishing
    <2>3. CASE RestorePublished(h)
        <3>1. \A b \in Actors : b # h /\ pc[b] \in Holding => frame[b].id # frame[h].id
            BY <2>1, Positions
        <3>2. /\ row' = row /\ \A i \in Ids : i # frame[h].id => part'[i] = part[i]
            BY <2>3 DEF RestorePublished
        <3> QED BY <2>1, <3>1, <3>2, ReclaimedStep DEF Publishing
    <2> QED BY <1>12, <2>2, <2>3
<1>13. ASSUME NEW p \in Procs, RemoveOrphan(p) PROVE Reclaimed'
    <2>1. /\ p \in Actors /\ Alone(p) /\ pc'[p] \in {"scan", "idle"} /\ born' = born /\ row' = row
          /\ \A i \in Ids : part'[i] # None => part[i] # None
        BY <1>13, Returns DEF RemoveOrphan, UnlockAndReturn, ghost
    <2> QED BY <2>1, ReclaimedStep DEF Publishing
<1>14. ASSUME NEW p \in Procs, Crash(p) PROVE Reclaimed'
    <2>1. \A a \in Actors : pc'[a] # "idle" => pc'[a] = pc[a] /\ frame'[a] = frame[a]
        BY <1>14 DEF Crash
    <2>2. UNCHANGED <<store, ghost>>
        BY <1>14 DEF Crash
    <2> QED BY <2>1, <2>2 DEF ReclaimedInv, Reclaimed, store, ghost, Publishing
<1>15. ASSUME Storing PROVE Reclaimed'
    <2>1. ASSUME NEW h \in Handlers,
                 \/ HashStaging(h) \/ PublishStaging(h) \/ PublishUnsynced(h)
                 \/ CommitFile(h) \/ RestorePublished(h) \/ RestoreFails(h)
          PROVE  Reclaimed'
        BY <1>10, <1>11, <1>12, <2>1
    <2>2. ASSUME NEW h \in Handlers,
                 \/ CreatePart(h) \/ Creating(h)
                 \/ WriteBody(h) \/ WriteCommit(h) \/ WriteUndone(h) \/ WriteNotUndone(h)
          PROVE  Reclaimed'
        BY <1>6, <1>7, <1>8, <1>9, <2>2 DEF Creating
    <2>3. ASSUME NEW p \in Procs, RemoveOrphan(p) \/ Crash(p) PROVE Reclaimed'
        BY <1>13, <1>14, <2>3
    <2> QED BY <1>5, <1>15, <2>1, <2>2, <2>3 DEF Storing
<1> QED BY <1>3, <1>4, <1>15, StepKinds

LEMMA ReclaimedInvInit == Init => ReclaimedInv
<1> SUFFICES ASSUME Init PROVE ReclaimedInv
    OBVIOUS
<1>1. \A a \in Actors : pc[a] = "idle"
    BY DEF Init
<1> QED BY <1>1, KeptInvInit DEF Init, ReclaimedInv, Reclaimed, Publishing

\* session.go:239-257 and repository.go:937: a session's row never goes before its
\* part, so that what a crash leaves behind is always found from the database; only a
\* part that never had a row has to be found by its name.
THEOREM RowsOutliveParts == Spec => []Reclaimed
<1>1. Init => ReclaimedInv
    BY ReclaimedInvInit
<1>2. ReclaimedInv /\ [Next]_vars => ReclaimedInv'
    BY ReclaimedInvStep
<1>3. ReclaimedInv => Reclaimed
    BY DEF ReclaimedInv
<1> QED BY <1>1, <1>2, <1>3, PTL DEF Spec

-----------------------------------------------------------------------------
(* The abstract upload                                                      *)

\* What the refinement needs of the state.
ContractInv == ExactInv /\ ReclaimedInv

Named(i) == \E p \in Paths : files[p] # None /\ files[p].from = i

\* The contract's view of a session and of a path.
FateOf(i) == IF OpenRow(i) THEN "open" ELSE IF Named(i) THEN "published"
             ELSE IF i \in born THEN "closed" ELSE "unborn"
LengthOf(i) == IF OpenRow(i) THEN row[i].length ELSE 0
DestOf(i) == IF OpenRow(i) THEN row[i].path ELSE None
VisibleAt(p) == IF files[p] = None THEN None ELSE objects[files[p].key]

\* Everything the contract sees is as it was.
Unseen ==
    /\ \A i \in Ids : FateOf(i)' = FateOf(i) /\ LengthOf(i)' = LengthOf(i) /\ DestOf(i)' = DestOf(i)
    /\ acked' = acked
    /\ \A p \in Paths : VisibleAt(p)' = VisibleAt(p)

LEMMA UnseenStutters ==
    ASSUME Unseen
    PROVE  UNCHANGED Contract!vars
    BY DEF Unseen, Contract!vars, FateOf, LengthOf, DestOf, VisibleAt, Named

\* A step that opens, closes and publishes nothing.
LEMMA HiddenStep ==
    ASSUME KeptInv, acked' = acked, born' = born, files' = files,
           \A i \in Ids : /\ OpenRow(i)' <=> OpenRow(i)
                          /\ OpenRow(i) => row'[i].length = row[i].length /\ row'[i].path = row[i].path,
           \A p \in Paths : files[p] # None => objects'[files[p].key] = objects[files[p].key]
    PROVE  Unseen
    BY DEF Unseen, FateOf, LengthOf, DestOf, VisibleAt, Named

\* Only session i is seen to change.
Others(i) ==
    \A j \in Ids \ {i} :
        FateOf(j)' = FateOf(j) /\ LengthOf(j)' = LengthOf(j) /\ DestOf(j)' = DestOf(j)

\* The contract's variables.
Fates == [i \in Ids |-> FateOf(i)]
Lengths == [i \in Ids |-> LengthOf(i)]
Dests == [i \in Ids |-> DestOf(i)]
Visible == [p \in Paths |-> VisibleAt(p)]

\* How a change of session i looks in them.
LEMMA SeenChange ==
    ASSUME NEW i \in Ids, Others(i)
    PROVE  /\ Fates[i] = FateOf(i) /\ Fates' = [Fates EXCEPT ![i] = FateOf(i)']
           /\ Lengths[i] = LengthOf(i) /\ Lengths' = [Lengths EXCEPT ![i] = LengthOf(i)']
           /\ Dests[i] = DestOf(i) /\ Dests' = [Dests EXCEPT ![i] = DestOf(i)']
    BY DEF Others, Fates, Lengths, Dests

LEMMA SeenOpen ==
    ASSUME NEW i \in Ids, NEW n \in 0..MaxLength, NEW p \in Paths,
           Fates[i] = "unborn", Fates' = [Fates EXCEPT ![i] = "open"],
           Lengths' = [Lengths EXCEPT ![i] = n], Dests' = [Dests EXCEPT ![i] = p],
           acked' = acked, Visible' = Visible
    PROVE  Contract!Open(i)
    BY DEF Contract!Open, Fates, Lengths, Dests, Visible, FateOf, LengthOf, DestOf, VisibleAt, Named

LEMMA SeenAppend ==
    ASSUME NEW i \in Ids, NEW n \in 1..(Lengths[i] - Len(acked[i])), NEW d \in [1..n -> Data],
           Fates[i] = "open", Fates' = Fates, Lengths' = Lengths, Dests' = Dests,
           acked' = [acked EXCEPT ![i] = @ \o d], Visible' = Visible
    PROVE  Contract!Append_(i)
    BY DEF Contract!Append_, Fates, Lengths, Dests, Visible, FateOf, LengthOf, DestOf, VisibleAt, Named

LEMMA SeenPublish ==
    ASSUME NEW i \in Ids, Fates[i] = "open", Len(acked[i]) = Lengths[i],
           Visible[Dests[i]] = None, Visible' = [Visible EXCEPT ![Dests[i]] = acked[i]],
           Fates' = [Fates EXCEPT ![i] = "published"],
           Lengths' = [Lengths EXCEPT ![i] = 0], Dests' = [Dests EXCEPT ![i] = None],
           acked' = acked
    PROVE  Contract!Publish(i)
    BY DEF Contract!Publish, Fates, Lengths, Dests, Visible, FateOf, LengthOf, DestOf, VisibleAt, Named

LEMMA SeenDrop ==
    ASSUME NEW i \in Ids, Fates[i] = "open", Fates' = [Fates EXCEPT ![i] = "closed"],
           Lengths' = [Lengths EXCEPT ![i] = 0], Dests' = [Dests EXCEPT ![i] = None],
           acked' = acked, Visible' = Visible
    PROVE  Contract!Drop(i)
    BY DEF Contract!Drop, Fates, Lengths, Dests, Visible, FateOf, LengthOf, DestOf, VisibleAt, Named

LEMMA ContractInit == Init => Contract!Init
    BY DEF Init, Contract!Init, OpenRow

\* CreateUploadSession's insert is the contract's Open.
LEMMA InsertRowOpens ==
    ASSUME ContractInv, NEW h \in Handlers, InsertRow(h)
    PROVE  Contract!Next
<1> USE Shapes DEF ContractInv, ReclaimedInv
<1>0. PICK i \in Ids : i = frame[h].id
    BY Positions DEF InsertRow, Naming
<1>1. PICK n \in 0..MaxLength, p \in Paths :
         row' = [row EXCEPT ![i] = [status |-> "active", offset |-> 0, length |-> n, path |-> p]]
    BY <1>0 DEF InsertRow
<1>2. /\ i \in Ids /\ i \notin born /\ row[i] = None /\ born' = born \cup {i}
      /\ acked' = acked /\ files' = files /\ objects' = objects
    BY <1>0, Positions DEF InsertRow, Naming, KeptInv, ObjectInv, LockInv, StagedFresh
<1>3. [status |-> "active", offset |-> 0, length |-> n, path |-> p] \in Rows
    BY UploadAssumption DEF Rows, Statuses
<1>4. /\ OpenRow(i)' /\ ~OpenRow(i) /\ ~Named(i)
      /\ row'[i].length = n /\ row'[i].path = p
      /\ \A j \in Ids : j # i => row'[j] = row[j]
    BY <1>1, <1>2, <1>3 DEF OpenRow, Named, KeptInv, Kept, FilesKept
<1>5. Contract!Open(i)
    <2>1. Others(i)
        BY <1>2, <1>4 DEF Others, FateOf, LengthOf, DestOf, OpenRow, Named
    <2>2. /\ FateOf(i) = "unborn" /\ FateOf(i)' = "open"
          /\ LengthOf(i)' = n /\ DestOf(i)' = p
        BY <1>2, <1>4 DEF FateOf, LengthOf, DestOf
    <2>3. Visible' = Visible
        BY <1>2 DEF Visible, VisibleAt
    <2> QED BY <1>2, <2>1, <2>2, <2>3, SeenChange, SeenOpen
<1> QED BY <1>2, <1>5 DEF Contract!Next

\* The commit of a PATCH is the contract's append.
LEMMA WriteCommitAppends ==
    ASSUME ContractInv, NEW h \in Handlers, WriteCommit(h)
    PROVE  Contract!Next \/ Unseen
<1> USE Shapes DEF ContractInv, ReclaimedInv
<1>0. PICK i \in Ids, d \in Seq(Data) : i = frame[h].id /\ d = frame[h].data
    BY Positions DEF WriteCommit, Naming, Holding, Inside
<1>1. /\ pc[h] = "copied" /\ i \in Ids /\ row[i] \in Rows /\ row[i] # None /\ d \in Seq(Data)
      /\ row[i] = frame[h].snap /\ row[i].status = "active" /\ acked[i] \in Seq(Data)
      /\ row[i].offset = Len(acked[i])
    BY <1>0, Positions
       DEF WriteCommit, Naming, Holding, Inside, Reclaimed, KeptInv, Kept, OffsetsAcked
<1>2. /\ born' = born /\ files' = files /\ objects' = objects
      /\ acked' = [acked EXCEPT ![i] = @ \o d]
      /\ Len(d) <= row[i].length - Len(acked[i])
      /\ \A j \in Ids : j # i => row'[j] = row[j]
    BY <1>0, <1>1 DEF WriteCommit, Fits
<1>3. /\ row'[i] # None /\ row'[i].status = "active"
      /\ row'[i].length = row[i].length /\ row'[i].path = row[i].path
    BY <1>0, <1>1, RowStays
<1>4. Len(d) \in Nat /\ Len(acked[i]) \in Nat /\ row[i].length \in Nat
    BY <1>1, LenProperties, UploadAssumption DEF Rows
<1>5. CASE Len(d) = 0
    <2>1. acked[i] \o d = acked[i]
        <3>1. d = <<>>
            BY <1>1, <1>5, EmptySeq
        <3> QED BY <1>1, <3>1, ConcatEmptySeq
    <2>2. acked' = acked
        BY <1>1, <1>2, <2>1
    <2> QED BY <1>1, <1>2, <1>3, <2>2, HiddenStep DEF OpenRow
<1>6. CASE Len(d) # 0
    <2>1. Len(d) \in 1..(row[i].length - Len(acked[i])) /\ d \in [1..Len(d) -> Data]
        BY <1>1, <1>2, <1>4, <1>6, LenProperties
    <2>2. Contract!Append_(i)
        <3>1. OpenRow(i) /\ OpenRow(i)' /\ \A j \in Ids : OpenRow(j)' <=> OpenRow(j)
            BY <1>1, <1>2, <1>3 DEF OpenRow
        <3>2. Fates' = Fates /\ Lengths' = Lengths /\ Dests' = Dests /\ Visible' = Visible
            BY <1>1, <1>2, <1>3, <3>1
               DEF Fates, Lengths, Dests, Visible, FateOf, LengthOf, DestOf, VisibleAt, Named
        <3>3. Fates[i] = "open" /\ Lengths[i] = row[i].length
            BY <3>1 DEF Fates, Lengths, FateOf, LengthOf
        <3> QED BY <1>2, <2>1, <3>2, <3>3, SeenAppend
    <2> QED BY <1>1, <2>2 DEF Contract!Next
<1> QED BY <1>5, <1>6

\* The transaction that inserts the file and deletes the session is the contract's
\* publication.
LEMMA CommitFilePublishes ==
    ASSUME ContractInv, Exact, NEW h \in Handlers, CommitFile(h)
    PROVE  Contract!Next
<1> USE Shapes DEF ContractInv, ReclaimedInv
<1>0. PICK i \in Ids, q \in Paths, f \in Files :
         /\ i = frame[h].id /\ q = frame[h].snap.path
         /\ f = [key |-> frame[h].key, size |-> frame[h].snap.length, from |-> i]
    <2>1. /\ frame[h].id \in Ids /\ frame[h].key \in Keys /\ frame[h].snap.path \in Paths
          /\ frame[h].snap.length \in Nat
        BY Positions, UploadAssumption DEF CommitFile, Naming, Holding, Inside, Publishing, Rows
    <2> QED BY <2>1 DEF Files
<1>1. /\ pc[h] = "renamed" /\ i \in Ids /\ row[i] \in Rows /\ row[i] # None
      /\ row[i] = frame[h].snap /\ f.key = frame[h].key /\ f.from = i
    BY <1>0, Positions DEF CommitFile, Naming, Holding, Inside
<1>2. f # None
    BY <1>0
<1>3. /\ row[i].status = "active" /\ files[q] = None
      /\ row' = [row EXCEPT ![i] = None] /\ files' = [files EXCEPT ![q] = f]
      /\ acked' = acked /\ born' = born /\ objects' = objects
    BY <1>0, <1>1 DEF CommitFile, Live, PathFree, ghost
<1>4. objects[f.key] = acked[i] /\ Len(acked[i]) = row[i].length
    BY <1>0, <1>1 DEF Exact, ObjectsExact, Publishing, KeptInv, Kept, OffsetsAcked, ObjectsKept
<1>5. /\ row'[i] = None /\ \A j \in Ids : j # i => row'[j] = row[j]
      /\ files'[q] = f /\ \A p \in Paths : p # q => files'[p] = files[p]
    BY <1>1, <1>3
<1>6. /\ Named(i)' /\ \A j \in Ids : j # i => (Named(j)' <=> Named(j))
    BY <1>1, <1>2, <1>3, <1>5 DEF Named
<1>7. row[i].path = q
    BY <1>0, <1>1
<1>8. Contract!Publish(i)
    <2>1. Others(i)
        BY <1>3, <1>5, <1>6 DEF Others, FateOf, LengthOf, DestOf, OpenRow
    <2>2. /\ FateOf(i) = "open" /\ LengthOf(i) = row[i].length /\ DestOf(i) = q
          /\ FateOf(i)' = "published" /\ LengthOf(i)' = 0 /\ DestOf(i)' = None
        BY <1>1, <1>3, <1>5, <1>6, <1>7 DEF FateOf, LengthOf, DestOf, OpenRow
    <2>3. Visible[q] = None /\ Visible' = [Visible EXCEPT ![q] = acked[i]]
        BY <1>2, <1>3, <1>4, <1>5 DEF Visible, VisibleAt
    <2> QED BY <1>3, <1>4, <2>1, <2>2, <2>3, SeenChange, SeenPublish
<1> QED BY <1>1, <1>8 DEF Contract!Next

\* cleanupLocked's first compare-and-swap is the contract's end of an open session; what
\* follows it is not seen.
LEMMA CleaningDrops ==
    ASSUME ContractInv, NEW a \in Actors, MarkStatus(a) \/ Unlink(a) \/ DeleteRow(a)
    PROVE  Contract!Next \/ Unseen
<1> USE Shapes DEF ContractInv, ReclaimedInv
<1>0. PICK i \in Ids : i = frame[a].id
    BY Positions DEF MarkStatus, Unlink, DeleteRow, Naming, Holding, Inside
<1>1. /\ i \in Ids /\ i \in born /\ row[i] \in Rows /\ row[i] = frame[a].snap /\ row[i] # None
      /\ born' = born /\ acked' = acked /\ files' = files /\ objects' = objects
    BY <1>0, Positions DEF MarkStatus, Unlink, DeleteRow, Naming, Holding, Inside, ghost
<1>2. ~Named(i)
    BY <1>1 DEF Named, KeptInv, Kept, FilesKept
<1>3. CASE MarkStatus(a)
    <2>1. PICK to \in {"cancelled", "cleanup_pending"} :
             /\ frame[a].snap.status = IF to = "cancelled" THEN "active" ELSE "cancelled"
             /\ row' = [row EXCEPT ![i].status = to]
        BY <1>0, <1>3 DEF MarkStatus
    <2>2. /\ row'[i].status = to /\ \A j \in Ids : j # i => row'[j] = row[j]
        BY <1>1, <2>1 DEF Rows
    <2>3. ~OpenRow(i)'
        BY <2>2 DEF OpenRow
    <2>4. CASE OpenRow(i)
        <3>1. Contract!Drop(i)
            <4>1. Others(i)
                BY <1>1, <2>2 DEF Others, FateOf, LengthOf, DestOf, OpenRow, Named
            <4>2. Named(i)' <=> Named(i)
                BY <1>1 DEF Named
            <4>3. /\ FateOf(i) = "open" /\ FateOf(i)' = "closed"
                  /\ LengthOf(i)' = 0 /\ DestOf(i)' = None
                BY <1>1, <1>2, <2>3, <2>4, <4>2 DEF FateOf, LengthOf, DestOf
            <4>4. Visible' = Visible
                BY <1>1 DEF Visible, VisibleAt
            <4> QED BY <1>1, <4>1, <4>3, <4>4, SeenChange, SeenDrop
        <3> QED BY <1>1, <3>1 DEF Contract!Next
    <2>5. CASE ~OpenRow(i)
        BY <1>1, <2>2, <2>3, <2>5, HiddenStep DEF OpenRow
    <2> QED BY <2>4, <2>5
<1>4. CASE Unlink(a)
    <2>1. row' = row
        BY <1>4 DEF Unlink
    <2> QED BY <1>1, <2>1, HiddenStep DEF OpenRow
<1>5. CASE DeleteRow(a)
    <2>1. row[i].status = "cleanup_pending" /\ row' = [row EXCEPT ![i] = None]
        BY <1>0, <1>1, <1>5 DEF DeleteRow, Reclaimed
    <2>2. ~OpenRow(i) /\ ~OpenRow(i)' /\ \A j \in Ids : j # i => row'[j] = row[j]
        BY <1>1, <2>1 DEF OpenRow
    <2> QED BY <1>1, <2>2, HiddenStep DEF OpenRow
<1> QED BY <1>3, <1>4, <1>5

\* No other step is seen.
LEMMA RestHidden ==
    ASSUME ContractInv
    PROVE  /\ \A a \in Actors : Quiet(a) => Unseen
           /\ UNCHANGED <<stored, pc, frame>> => Unseen
           /\ \A h \in Handlers :
                 \/ CreatePart(h) \/ InsertFails(h) \/ InsertFailsLeavingPart(h)
                 \/ WriteBody(h) \/ WriteUndone(h) \/ WriteNotUndone(h) \/ HashStaging(h)
                 \/ PublishStaging(h) \/ PublishUnsynced(h) \/ RestorePublished(h) \/ RestoreFails(h)
                 => Unseen
           /\ \A p \in Procs : RemoveOrphan(p) \/ Crash(p) => Unseen
<1> USE Shapes DEF ContractInv, ReclaimedInv
<1> DEFINE Same == UNCHANGED <<row, acked, born, files, objects>>
<1>1. Same => Unseen
    BY HiddenStep DEF OpenRow
<1>2. ASSUME NEW a \in Actors, Quiet(a) PROVE Same
    BY <1>2 DEF Quiet, stored
<1>3. UNCHANGED <<stored, pc, frame>> => Same
    BY DEF stored
<1>4. ASSUME NEW h \in Handlers,
             \/ CreatePart(h) \/ InsertFails(h) \/ InsertFailsLeavingPart(h)
             \/ WriteBody(h) \/ WriteUndone(h) \/ WriteNotUndone(h) \/ HashStaging(h)
             \/ RestoreFails(h)
      PROVE  Same
    BY <1>4
       DEF CreatePart, InsertFails, InsertFailsLeavingPart, WriteBody, WriteUndone,
           WriteNotUndone, HashStaging, RestoreFails, store, ghost
<1>5. ASSUME NEW p \in Procs, RemoveOrphan(p) \/ Crash(p) PROVE Same
    BY <1>5 DEF RemoveOrphan, Crash, store, ghost
<1>6. ASSUME NEW h \in Handlers, PublishStaging(h) \/ PublishUnsynced(h) PROVE Unseen
    <2>1. PICK k \in FreshKeys : MovePart(frame[h].id, k)
        BY <1>6 DEF PublishStaging, PublishUnsynced
    <2>2. UNCHANGED <<row, acked, born, files>>
        BY <1>6 DEF PublishStaging, PublishUnsynced, ghost
    <2>3. \A p \in Paths : files[p] # None => objects'[files[p].key] = objects[files[p].key]
        BY <2>1 DEF MovePart, FreshKeys
    <2> QED BY <2>2, <2>3, HiddenStep DEF OpenRow
<1>7. ASSUME NEW h \in Handlers, RestorePublished(h) PROVE Unseen
    <2>1. UNCHANGED <<row, acked, born, files>> /\ objects' = [objects EXCEPT ![frame[h].key] = None]
        BY <1>7 DEF RestorePublished, ghost
    <2>2. \A p \in Paths : files[p] # None => files[p].key # frame[h].key
        BY <1>7 DEF RestorePublished, KeptInv, ObjectInv, ObjectsOwned, Publishing
    <2>3. \A p \in Paths : files[p] # None => objects'[files[p].key] = objects[files[p].key]
        BY <2>1, <2>2
    <2> QED BY <2>1, <2>3, HiddenStep DEF OpenRow
<1> HIDE DEF Same
<1> QED BY <1>1, <1>2, <1>3, <1>4, <1>5, <1>6, <1>7

LEMMA ContractStep ==
    ASSUME ContractInv, Exact, [Next]_vars
    PROVE  [Contract!Next]_(Contract!vars)
<1> USE Shapes DEF ContractInv, ReclaimedInv
<1>1. ASSUME Storing PROVE Contract!Next \/ Unseen
    <2>1. ASSUME NEW h \in Handlers,
                 \/ HashStaging(h) \/ PublishStaging(h) \/ PublishUnsynced(h)
                 \/ CommitFile(h) \/ RestorePublished(h) \/ RestoreFails(h)
          PROVE  Contract!Next \/ Unseen
        BY <2>1, RestHidden, CommitFilePublishes
    <2>2. ASSUME NEW h \in Handlers,
                 \/ CreatePart(h) \/ Creating(h)
                 \/ WriteBody(h) \/ WriteCommit(h) \/ WriteUndone(h) \/ WriteNotUndone(h)
          PROVE  Contract!Next \/ Unseen
        BY <2>2, RestHidden, InsertRowOpens, WriteCommitAppends DEF Creating
    <2>3. ASSUME NEW p \in Procs, RemoveOrphan(p) \/ Crash(p) PROVE Unseen
        BY <2>3, RestHidden
    <2>4. ASSUME NEW a \in Actors, MarkStatus(a) \/ Unlink(a) \/ DeleteRow(a)
          PROVE  Contract!Next \/ Unseen
        BY <2>4, CleaningDrops
    <2> QED BY <1>1, <2>1, <2>2, <2>3, <2>4 DEF Storing
<1>2. Contract!Next \/ Unseen
    BY <1>1, StepKinds, RestHidden
<1> QED BY <1>2, UnseenStutters

\* Every behaviour of requests, recovery, expiry, failed calls and crashes is one of the
\* abstract upload: bytes are only appended, a session ends as one file with all of them
\* or as nothing, unless a storage call has failed in a way the code does not undo.
THEOREM UploadsImplementContract ==
    ASSUME SingleServer
    PROVE  Spec /\ [](faults = 0) => ImplementsContract
<1>1. Init => ContractInv
    BY ExactInvInit, ReclaimedInvInit DEF ContractInv
<1>2. ContractInv /\ [Next]_vars => ContractInv'
    BY ExactInvStep, ReclaimedInvStep DEF ContractInv
<1>3. ContractInv /\ faults = 0 /\ [Next]_vars => [Contract!Next]_(Contract!vars)
    BY ContractStep DEF ContractInv, ExactInv
<1>4. Init => Contract!Init
    BY ContractInit
<1> QED BY <1>1, <1>2, <1>3, <1>4, PTL DEF Spec, ImplementsContract, Contract!Spec

-----------------------------------------------------------------------------
(* Recovery                                                                 *)

\* Session i is resumable, or there is nothing left of it, or it has expired since, and
\* nobody is about to change that.
Settled(i) ==
    /\ row[i] # None /\ i \notin expired =>
          /\ row[i].status = "active"
          /\ part[i] # None /\ Len(part[i]) = row[i].offset
          /\ \A a \in Actors : pc[a] \in {"cleaning", "unlinked", "doomed"} => frame[a].id # i
    /\ part[i] # None => row[i] # None

\* The recovery run of a server whose limit leaves nothing out.
Thorough(p) ==
    mode[p] = "recovering" /\ HandlersOf(p) # {} /\ PageLimit >= 3 * Cardinality(Ids)

\* What it has not settled it has still on its lists or in hand.
Covered(p) ==
    /\ pc[p] \in {"sidecar", "orphan", "doomed"} => row[frame[p].id] = None
    /\ pc[p] = "names" => \A i \in Ids : row[i] # None => i \in todo[p].page
    /\ pc[p] \notin {"rows", "names"} =>
          /\ \A i \in todo[p].names : row[i] = None
          /\ \A i \in Ids : \/ i \in todo[p].page \cup todo[p].names
                            \/ pc[p] \in Naming /\ frame[p].id = i
                            \/ Settled(i)

\* Only sessions that once had a row are on a page or waited for.
PagesBorn ==
    \A p \in Procs : todo[p].page \subseteq born /\ (pc[p] = "blocked" => frame[p].id \in born)

RecoveryInv ==
    ReclaimedInv /\ Modes /\ PagesBorn /\ \A p \in Procs : Thorough(p) => Covered(p)

\* A server recovers before any of its handlers runs (main.go:133-170).
LEMMA OnlyRecovery ==
    ASSUME SingleServer, Modes, NEW p \in Procs, mode[p] = "recovering", HandlersOf(p) # {},
           [Next]_vars
    PROVE  \/ \E q \in Procs : Locking(q) \/ Cleaning(q) \/ Boot(q) \/ Recovering(q) \/ Crash(q)
           \/ \E i \in Ids : Expire(i)
           \/ UNCHANGED vars
<1>1. ASSUME NEW h \in Handlers PROVE pc[h] = "idle" /\ mode[Home[h]] # "serving"
    BY UploadAssumption DEF SingleServer, Modes, HandlersOf
<1>2. ASSUME NEW h \in Handlers, Locking(h) \/ Cleaning(h) PROVE FALSE
    BY <1>1, <1>2
       DEF Locking, Acquire, AcquireGone, AcquireFails, Abandon, Cleaning, StartCleanup,
           KeepSession, MarkStatus, Unlink, DeleteRow
<1>3. ASSUME NEW h \in Handlers, Requesting(h) \/ Creating(h) PROVE UNCHANGED vars
    BY <1>1, <1>3
       DEF Requesting, CreatePart, Arrive, Answer, Creating, InsertRow, InsertFails,
           InsertFailsLeavingPart
<1>4. ASSUME NEW h \in Handlers, Writing(h) \/ Completing(h) PROVE FALSE
    BY <1>1, <1>4
       DEF Writing, WriteBody, WriteRefused, WriteCommit, WriteUndone, WriteNotUndone,
           Completing, HashStaging, CompleteRefused, ChecksumAccepted, ChecksumRefused,
           PublishStaging, PublishUnsynced, MayPublish, CommitFile, CommitFails,
           RestorePublished, RestoreFails
<1> QED BY <1>2, <1>3, <1>4 DEF Next, Actors

\* A step of q that changes neither rows nor parts nor what is being cleaned.
Idling(q) ==
    /\ Alone(q)
    /\ row' = row /\ part' = part /\ expired' = expired
    /\ pc'[q] \notin {"cleaning", "unlinked", "doomed"}

LEMMA RecoveringKinds ==
    ASSUME TypeInv, NEW q \in Procs,
           Locking(q) \/ Cleaning(q) \/ Boot(q) \/ Recovering(q) \/ Crash(q)
    PROVE  \/ Idling(q) \/ Crash(q)
           \/ StartCleanup(q) \/ MarkStatus(q) \/ Unlink(q) \/ DeleteRow(q)
           \/ pc[q] = "orphan" /\ RecheckRow(q) /\ Goto(q, "doomed") /\ frame' = frame
           \/ RemoveOrphan(q)
<1>0. /\ pc \in [Actors -> Points] /\ frame \in [Actors -> Frames] /\ q \in Actors
    BY DEF TypeInv, TypeOK, Actors
<1> USE <1>0
<1>1. ASSUME Return(q), UNCHANGED store PROVE Idling(q)
    BY <1>1, Returns DEF Idling, store
<1>2. ASSUME GiveUp(q) PROVE Idling(q)
    BY <1>2, GivenUp DEF Idling, GiveUp, store
<1>3. ASSUME EndRecovery(q), UNCHANGED store PROVE Idling(q)
    BY <1>3, RecoveryEnds DEF Idling, store
<1>4. CASE Locking(q)
    <2>1. CASE Acquire(q)
        BY <2>1 DEF Acquire, Goto, Alone, Idling
    <2>2. CASE AcquireGone(q) \/ AcquireFails(q) \/ Abandon(q)
        BY <1>1, <1>2, <2>2 DEF AcquireGone, AcquireFails, Abandon
    <2> QED BY <1>4, <2>1, <2>2 DEF Locking
<1>5. CASE Cleaning(q)
    BY <1>1, <1>5 DEF Cleaning, KeepSession, UnlockAndReturn
<1>6. CASE Boot(q)
    BY <1>6 DEF Boot, Goto, Alone, Idling, store
<1>7. CASE Recovering(q)
    <2>1. CASE ListRows(q) \/ ListNames(q) \/ ScanRow(q) \/ LockSidecar(q)
        BY <2>1 DEF ListRows, ListNames, ScanRow, LockSidecar, Goto, Alone, Idling, store
    <2>2. CASE ScanName(q)
        BY <2>2 DEF ScanName, Goto, Alone, Idling, store
    <2>3. CASE RecheckRow(q)
        BY <1>1, <2>3 DEF RecheckRow, UnlockAndReturn
    <2>4. CASE FinishRecovery(q) \/ RecoveryFails(q)
        BY <1>3, <2>4 DEF FinishRecovery, RecoveryFails
    <2> QED BY <1>7, <2>1, <2>2, <2>3, <2>4 DEF Recovering
<1> QED BY <1>4, <1>5, <1>6, <1>7

\* While a server recovers no session gets a row, and what is settled stays so,
\* whatever recovery runs beside it and whatever expires.
LEMMA SettledStays ==
    ASSUME ReclaimedInv, Modes, NEW i \in Ids,
           \/ \E q \in Procs : Locking(q) \/ Cleaning(q) \/ Boot(q) \/ Recovering(q) \/ Crash(q)
           \/ \E j \in Ids : Expire(j)
           \/ UNCHANGED vars
    PROVE  /\ row'[i] # None => row[i] # None
           /\ Settled(i) => Settled(i)'
<1> USE Shapes, Positions DEF ReclaimedInv
<1> DEFINE Goal == (row'[i] # None => row[i] # None) /\ (Settled(i) => Settled(i)')
<1>1. ASSUME NEW j \in Ids, Expire(j) PROVE Goal
    BY <1>1 DEF Expire, local, Settled
<1>2. ASSUME UNCHANGED vars PROVE Goal
    BY <1>2 DEF vars, Settled
<1>3. ASSUME NEW q \in Procs, Idling(q) PROVE Goal
    BY <1>3 DEF Idling, Alone, Settled
<1>4. ASSUME NEW q \in Procs, Crash(q) PROVE Goal
    <2>1. UNCHANGED store /\ \A a \in Actors : pc'[a] # "idle" => pc'[a] = pc[a] /\ frame'[a] = frame[a]
        BY <1>4 DEF Crash
    <2> QED BY <2>1 DEF Settled, store
<1>5. ASSUME NEW q \in Procs, StartCleanup(q) PROVE Goal
    <2>1. /\ Alone(q) /\ frame' = frame /\ row' = row /\ part' = part /\ expired' = expired
          /\ pc[q] = "locked" /\ frame[q].op = "recover" /\ row[frame[q].id] = frame[q].snap
          /\ ~Recoverable(frame[q].id, frame[q].snap)
        BY <1>5
           DEF StartCleanup, MustClean, Goto, Alone, store, Modes, Naming, Holding, Inside
    <2>2. Settled(i) /\ row[i] # None /\ i \notin expired => frame[q].id # i
        BY <2>1 DEF Settled, Recoverable, Live
    <2> QED BY <2>1, <2>2 DEF Settled, Alone
<1>6. ASSUME NEW q \in Procs, MarkStatus(q) \/ Unlink(q) \/ DeleteRow(q) PROVE Goal
    <2>1. /\ Alone(q) /\ pc[q] \in {"cleaning", "unlinked"} /\ frame[q].id \in Ids
          /\ row[frame[q].id] # None /\ expired' = expired
          /\ frame'[q].id = frame[q].id \/ pc'[q] \notin {"cleaning", "unlinked", "doomed"}
        <3>1. MarkStatus(q) => frame'[q].id = frame[q].id
            BY DEF MarkStatus, Frames
        <3> QED BY <1>6, <3>1, Returns
            DEF MarkStatus, Unlink, DeleteRow, UnlockAndReturn, Goto, Alone, Naming, Holding, Inside
    <2>2. \A j \in Ids : j # frame[q].id => row'[j] = row[j] /\ part'[j] = part[j]
        BY <1>6 DEF MarkStatus, Unlink, DeleteRow
    <2>3. Settled(frame[q].id) => frame[q].id \in expired
        BY <2>1 DEF Settled
    <2>4. part'[frame[q].id] # None => row'[frame[q].id] # None
        <3>1. CASE MarkStatus(q)
            <4>1. PICK to \in Statuses : row' = [row EXCEPT ![frame[q].id].status = to]
                BY <3>1 DEF MarkStatus, Statuses
            <4>2. [row[frame[q].id] EXCEPT !.status = to] \in Rows
                BY <2>1, RowUpdates
            <4> QED BY <2>1, <4>1, <4>2
        <3>2. CASE Unlink(q) \/ DeleteRow(q)
            BY <2>1, <3>2 DEF Unlink, DeleteRow, Reclaimed
        <3> QED BY <1>6, <3>1, <3>2
    <2>5. CASE i = frame[q].id
        BY <2>1, <2>3, <2>4, <2>5 DEF Settled
    <2>6. CASE i # frame[q].id
        BY <2>1, <2>2, <2>6 DEF Settled, Alone
    <2> QED BY <2>5, <2>6
<1>7. ASSUME NEW q \in Procs, RecheckRow(q), Goto(q, "doomed"), frame' = frame PROVE Goal
    <2>1. /\ Alone(q) /\ pc[q] = "orphan" /\ row[frame[q].id] = None /\ row' = row /\ part' = part
          /\ expired' = expired
        BY <1>7, Returns DEF RecheckRow, UnlockAndReturn, Goto, Alone, store
    <2> QED BY <1>7, <2>1 DEF Settled, Alone
<1>8. ASSUME NEW q \in Procs, RemoveOrphan(q) PROVE Goal
    <2>1. /\ Alone(q) /\ pc[q] = "doomed" /\ pc'[q] \in {"scan", "idle"} /\ frame[q].id \in Ids
          /\ row' = row /\ expired' = expired /\ part'[frame[q].id] = None
          /\ \A j \in Ids : j # frame[q].id => part'[j] = part[j]
        BY <1>8, Returns DEF RemoveOrphan, UnlockAndReturn, Naming, Holding
    <2>2. CASE i = frame[q].id
        BY <2>1, <2>2 DEF Settled
    <2>3. CASE i # frame[q].id
        BY <2>1, <2>3 DEF Settled, Alone
    <2> QED BY <2>2, <2>3
<1> HIDE DEF Goal
<1>9. Goal
    BY <1>1, <1>2, <1>3, <1>4, <1>5, <1>6, <1>7, <1>8, RecoveringKinds
<1> QED BY <1>9 DEF Goal

\* What others do leaves a thorough run covered.
LEMMA CoveredByOthers ==
    ASSUME ReclaimedInv, NEW p \in Procs, Covered(p),
           pc'[p] = pc[p], frame'[p] = frame[p], todo'[p] = todo[p],
           \A i \in Ids : /\ row'[i] # None => row[i] # None
                          /\ Settled(i) => Settled(i)'
    PROVE  Covered(p)'
<1>1. /\ pc[p] \in {"sidecar", "orphan", "doomed"} => frame[p].id \in Ids
      /\ todo[p].names \subseteq Ids
    BY Shapes, Positions DEF ReclaimedInv, Naming, Holding, TypeInv, TypeOK, Todos
<1> QED BY <1>1 DEF Covered

\* A page and a listing that fit the limit are complete (session.go:330-352).
LEMMA ListedAll ==
    ASSUME TypeInv, IsFiniteSet(Ids), PageLimit >= 3 * Cardinality(Ids)
    PROVE  /\ \A S \in SUBSET RowIds :
                 Cardinality(S) = Min2(PageLimit, Cardinality(RowIds)) => S = RowIds
           /\ \A T \in SUBSET Ids, E \in SUBSET Entries :
                 Cardinality(E) = Min2(PageLimit - Cardinality(T), Cardinality(Entries)) => E = Entries
<1>0. PageLimit \in Nat /\ Cardinality(Ids) \in Nat /\ RowIds \in SUBSET Ids
      /\ Entries \in SUBSET (Ids \X {"part", "lock"})
    BY UploadAssumption, FS_CardinalityType DEF RowIds, Entries, TypeInv, TypeOK
<1>1. IsFiniteSet(RowIds) /\ Cardinality(RowIds) <= Cardinality(Ids) /\ Cardinality(RowIds) \in Nat
    BY <1>0, FS_Subset, FS_CardinalityType
<1>2. /\ IsFiniteSet({"part", "lock"}) /\ Cardinality({"part", "lock"}) = 2
    <2>1. IsFiniteSet({"part"}) /\ Cardinality({"part"}) = 1
        BY FS_Singleton
    <2>2. {"part", "lock"} = {"part"} \cup {"lock"} /\ "lock" \notin {"part"}
        OBVIOUS
    <2> QED BY <2>1, <2>2, FS_AddElement
<1>3. /\ IsFiniteSet(Ids \X {"part", "lock"})
      /\ Cardinality(Ids \X {"part", "lock"}) = Cardinality(Ids) * 2
    BY <1>2, FS_Product
<1>4. /\ IsFiniteSet(Entries) /\ Cardinality(Entries) <= Cardinality(Ids) * 2
      /\ Cardinality(Entries) \in Nat
    BY <1>0, <1>3, FS_Subset, FS_CardinalityType
<1>5. ASSUME NEW S \in SUBSET RowIds, Cardinality(S) = Min2(PageLimit, Cardinality(RowIds))
      PROVE  S = RowIds
    <2>1. Cardinality(S) = Cardinality(RowIds)
        BY <1>0, <1>1, <1>5 DEF Min2
    <2> QED BY <1>1, <2>1, FS_Subset
<1>6. ASSUME NEW T \in SUBSET Ids, NEW E \in SUBSET Entries,
             Cardinality(E) = Min2(PageLimit - Cardinality(T), Cardinality(Entries))
      PROVE  E = Entries
    <2>1. Cardinality(T) \in Nat /\ Cardinality(T) <= Cardinality(Ids)
        BY FS_Subset, FS_CardinalityType
    <2>2. Cardinality(E) = Cardinality(Entries)
        BY <1>0, <1>4, <1>6, <2>1 DEF Min2
    <2> QED BY <1>4, <2>2, FS_Subset
<1> QED BY <1>5, <1>6

\* The run's own lists.
LEMMA ListingCovers ==
    ASSUME ReclaimedInv, IsFiniteSet(Ids), NEW p \in Procs, Thorough(p), Covered(p),
           ListRows(p) \/ ListNames(p)
    PROVE  Covered(p)'
<1> USE Shapes DEF ReclaimedInv
<1>0. p \in Actors /\ pc' \in [Actors -> Points] /\ todo \in [Procs -> Todos] /\ todo[p].page \subseteq Ids
    BY DEF TypeInv, TypeOK, Todos, ListRows, ListNames, Goto, Points
<1>1. CASE ListRows(p)
    <2>1. PICK S \in SUBSET RowIds :
             /\ Cardinality(S) = Min2(PageLimit, Cardinality(RowIds))
             /\ todo' = [todo EXCEPT ![p].page = S]
        BY <1>1 DEF ListRows
    <2>2. S = RowIds
        BY <2>1, ListedAll DEF Thorough
    <2>3. todo'[p].page = RowIds /\ pc'[p] = "names" /\ row' = row
        BY <1>0, <1>1, <2>1, <2>2 DEF ListRows, Goto, store, Todos
    <2> QED BY <2>3 DEF Covered, RowIds
<1>2. CASE ListNames(p)
    <2>1. PICK E \in SUBSET Entries :
             /\ Cardinality(E) = Min2(PageLimit - Cardinality(todo[p].page), Cardinality(Entries))
             /\ todo' = [todo EXCEPT ![p].names = {i \in Ids \ todo[p].page : <<i, "part">> \in E}]
        BY <1>2 DEF ListNames
    <2>2. E = Entries
        BY <1>0, <2>1, ListedAll DEF Thorough
    <2>3. \A i \in Ids : <<i, "part">> \in Entries <=> part[i] # None
        BY DEF Entries
    <2>4. /\ todo'[p].page = todo[p].page
          /\ todo'[p].names = {i \in Ids \ todo[p].page : part[i] # None}
          /\ pc'[p] = "scan" /\ pc[p] = "names" /\ row' = row /\ part' = part /\ expired' = expired
        BY <1>0, <1>2, <2>1, <2>2, <2>3 DEF ListNames, Goto, store, Todos
    <2>5. \A i \in Ids \ todo[p].page : row[i] = None
        BY <2>4 DEF Covered
    <2>6. \A i \in Ids \ todo[p].page : part[i] = None => Settled(i)'
        BY <2>4, <2>5 DEF Settled
    <2> QED BY <2>4, <2>5, <2>6 DEF Covered
<1> QED BY <1>1, <1>2

\* An item moves from a list into the run's hands.
LEMMA ScanningCovers ==
    ASSUME ReclaimedInv, NEW p \in Procs, Covered(p), ScanRow(p) \/ ScanName(p),
           \A i \in Ids : Settled(i) => Settled(i)'
    PROVE  Covered(p)'
<1> USE Shapes DEF ReclaimedInv
<1>0. /\ p \in Actors /\ todo \in [Procs -> Todos] /\ pc[p] = "scan" /\ row' = row
      /\ todo[p].page \subseteq Ids /\ todo[p].names \subseteq Ids
      /\ "scan" \notin Naming /\ "blocked" \in Naming /\ "sidecar" \in Naming
    BY DEF TypeInv, TypeOK, Todos, ScanRow, ScanName, store, Naming, Holding, Inside
<1>1. \A i \in Ids : i \in todo[p].page \cup todo[p].names \/ Settled(i)'
    BY <1>0 DEF Covered
<1>2. \A i \in todo[p].names : row[i] = None
    BY <1>0 DEF Covered
<1>3. ASSUME NEW i \in Ids PROVE [Blank EXCEPT !.op = "recover", !.id = i].id = i
    BY NewFrame DEF Ops
<1>4. CASE ScanRow(p)
    <2>1. PICK i \in todo[p].page :
             /\ todo' = [todo EXCEPT ![p].page = @ \ {i}]
             /\ frame' = [frame EXCEPT ![p] = [Blank EXCEPT !.op = "recover", !.id = i]]
        BY <1>4 DEF ScanRow
    <2>2. /\ todo'[p].page = todo[p].page \ {i} /\ todo'[p].names = todo[p].names
          /\ frame'[p].id = i /\ pc'[p] = "blocked"
        <3>1. frame'[p].id = i
            BY <1>0, <1>3, <2>1
        <3>2. pc'[p] = "blocked"
            BY <1>0, <1>4 DEF ScanRow, Goto
        <3>3. todo'[p].page = todo[p].page \ {i} /\ todo'[p].names = todo[p].names
            BY <1>0, <2>1 DEF Todos
        <3> QED BY <3>1, <3>2, <3>3
    <2> QED BY <1>0, <1>1, <1>2, <2>2 DEF Covered
<1>5. CASE ScanName(p)
    <2>1. PICK i \in todo[p].names :
             /\ todo' = [todo EXCEPT ![p].names = @ \ {i}]
             /\ \/ row[i] # None
                \/ /\ row[i] = None
                   /\ frame' = [frame EXCEPT ![p] = [Blank EXCEPT !.op = "recover", !.id = i]]
                   /\ Goto(p, "sidecar")
        BY <1>5 DEF ScanName
    <2>2. /\ todo'[p].page = todo[p].page /\ todo'[p].names = todo[p].names \ {i}
          /\ frame'[p].id = i /\ pc'[p] = "sidecar" /\ row[i] = None
        <3>1. row[i] = None
            BY <1>2
        <3>2. frame'[p].id = i
            BY <1>0, <1>3, <2>1, <3>1
        <3>3. pc'[p] = "sidecar"
            BY <1>0, <2>1, <3>1 DEF Goto
        <3>4. todo'[p].page = todo[p].page /\ todo'[p].names = todo[p].names \ {i}
            BY <1>0, <2>1 DEF Todos
        <3> QED BY <3>1, <3>2, <3>3, <3>4
    <2> QED BY <1>0, <1>1, <1>2, <2>2 DEF Covered
<1> QED BY <1>4, <1>5

\* The run goes on with the item in its hands, or settles it.
LEMMA ItemCovers ==
    ASSUME ReclaimedInv, Modes, PagesBorn, NEW p \in Procs, Covered(p), Thorough(p)',
           \/ Locking(p) \/ Cleaning(p) \/ LockSidecar(p) \/ RecheckRow(p) \/ RemoveOrphan(p),
           \A i \in Ids : /\ row'[i] # None => row[i] # None
                          /\ Settled(i) => Settled(i)'
    PROVE  Covered(p)'
<1> USE Shapes, Positions DEF ReclaimedInv
<1>0. /\ p \in Actors /\ p \notin Handlers /\ todo \in [Procs -> Todos]
      /\ todo[p].page \subseteq Ids /\ todo[p].names \subseteq Ids
      /\ "scan" \notin Naming /\ "scan" \notin {"rows", "names"}
      /\ "rows" \notin Naming /\ "names" \notin Naming
    BY UploadAssumption DEF TypeInv, TypeOK, Todos, Naming, Holding, Inside
<1>1. ~EndRecovery(p)
    BY DEF EndRecovery, Thorough, TypeInv, TypeOK
<1>2. ASSUME pc[p] \in Naming, pc'[p] \in Naming, frame'[p].id = frame[p].id, todo' = todo,
             pc'[p] \in {"sidecar", "orphan", "doomed"} => pc[p] \in {"sidecar", "orphan", "doomed"}
      PROVE  Covered(p)'
    BY <1>0, <1>2 DEF Covered
<1>3. ASSUME NEW i \in Ids, i = frame[p].id, pc[p] \in Naming, Return(p), todo' = todo, Settled(i)'
      PROVE  Covered(p)'
    <2>1. pc'[p] = "scan"
        BY <1>0, <1>3 DEF Return
    <2>2. pc[p] \notin {"rows", "names"}
        BY <1>0, <1>3
    <2>3. \A j \in todo[p].names : row'[j] = None
        BY <1>0, <2>2 DEF Covered
    <2>4. \A j \in Ids : j \in todo[p].page \cup todo[p].names \/ Settled(j)'
        BY <1>3, <2>2 DEF Covered
    <2> QED BY <1>0, <1>3, <2>1, <2>3, <2>4 DEF Covered
<1>4. CASE Locking(p)
    <2>1. CASE Acquire(p)
        <3>1. frame'[p].id = frame[p].id
            BY <1>0, <2>1 DEF Acquire, Frames
        <3>2. pc[p] = "blocked" /\ pc'[p] = "locked" /\ todo' = todo
            BY <1>0, <2>1 DEF Acquire, Goto
        <3> QED BY <1>2, <3>1, <3>2 DEF Naming, Holding, Inside
    <2>2. CASE AcquireGone(p)
        <3>1. pc[p] = "blocked" /\ frame[p].id \in born /\ born \subseteq Ids
            BY <2>2 DEF AcquireGone, PagesBorn, TypeInv, TypeOK
        <3>2. PICK i \in Ids : i = frame[p].id
            BY <3>1
        <3>3. /\ i \in born /\ row[i] = None /\ Return(p) /\ todo' = todo
              /\ row' = row /\ part' = part
            BY <2>2, <3>1, <3>2 DEF AcquireGone, store
        <3>4. part[i] = None
            BY <3>3 DEF Reclaimed
        <3>5. Settled(i)'
            BY <3>3, <3>4 DEF Settled
        <3> QED BY <1>3, <3>1, <3>2, <3>3, <3>5 DEF Naming
    <2>3. CASE AcquireFails(p) \/ Abandon(p)
        BY <1>0, <1>1, <2>3 DEF AcquireFails, Abandon, GiveUp
    <2> QED BY <1>4, <2>1, <2>2, <2>3 DEF Locking
<1>5. CASE Cleaning(p)
    <2>1. CASE StartCleanup(p) \/ MarkStatus(p) \/ Unlink(p)
        <3>1. frame'[p].id = frame[p].id
            <4>1. CASE MarkStatus(p)
                BY <1>0, <4>1 DEF MarkStatus, Frames
            <4> QED BY <2>1, <4>1 DEF StartCleanup, Unlink
        <3>2. /\ pc[p] \in {"locked", "cleaning"} /\ pc'[p] \in {"cleaning", "unlinked"}
              /\ todo' = todo
            BY <1>0, <2>1 DEF StartCleanup, MarkStatus, Unlink, Goto
        <3> QED BY <1>2, <3>1, <3>2 DEF Naming, Holding, Inside
    <2>2. CASE KeepSession(p)
        <3>1. pc[p] = "locked" /\ pc[p] \in Naming /\ frame[p].id \in Ids
            BY <2>2 DEF KeepSession, Naming, Holding, Inside
        <3>2. PICK i \in Ids : i = frame[p].id
            BY <3>1
        <3>3. /\ row[i] = frame[p].snap /\ row[i] # None /\ Recoverable(i, frame[p].snap)
              /\ Return(p) /\ todo' = todo /\ UNCHANGED store
            BY <2>2, <3>1, <3>2
               DEF KeepSession, MustClean, UnlockAndReturn, Modes, Naming, Holding, Inside
        <3>4. \A a \in Actors : pc[a] \in {"cleaning", "unlinked", "doomed"} => frame[a].id # i
            BY <1>0, <3>1, <3>2 DEF Holding, Inside
        <3>5. Settled(i)
            BY <3>3, <3>4 DEF Settled, Recoverable, Live
        <3> QED BY <1>3, <3>1, <3>2, <3>3, <3>5
    <2>3. CASE DeleteRow(p)
        <3>1. pc[p] = "unlinked" /\ pc[p] \in Naming /\ frame[p].id \in Ids
            BY <2>3 DEF DeleteRow, Naming, Holding, Inside
        <3>2. PICK i \in Ids : i = frame[p].id
            BY <3>1
        <3>3. /\ part[i] = None /\ Return(p) /\ todo' = todo /\ row'[i] = None /\ part' = part
            BY <2>3, <3>1, <3>2 DEF DeleteRow, UnlockAndReturn, Reclaimed, TypeInv, TypeOK
        <3>4. Settled(i)'
            BY <3>3 DEF Settled
        <3> QED BY <1>3, <3>1, <3>2, <3>3, <3>4
    <2> QED BY <1>5, <2>1, <2>2, <2>3 DEF Cleaning
<1>6. CASE LockSidecar(p)
    <2>1. pc[p] = "sidecar" /\ pc'[p] = "orphan" /\ frame' = frame /\ todo' = todo
        BY <1>0, <1>6 DEF LockSidecar, Goto
    <2> QED BY <1>2, <2>1 DEF Naming, Holding, Inside
<1>7. CASE RecheckRow(p)
    <2>1. pc[p] = "orphan" /\ row[frame[p].id] = None
        BY <1>7 DEF RecheckRow, Covered
    <2>2. pc'[p] = "doomed" /\ frame' = frame /\ todo' = todo
        BY <1>0, <1>7, <2>1 DEF RecheckRow, Goto
    <2> QED BY <1>2, <2>1, <2>2 DEF Naming, Holding, Inside
<1>8. CASE RemoveOrphan(p)
    <2>1. pc[p] = "doomed" /\ pc[p] \in Naming /\ frame[p].id \in Ids /\ row[frame[p].id] = None
        BY <1>8 DEF RemoveOrphan, Naming, Holding, Inside, Covered
    <2>2. PICK i \in Ids : i = frame[p].id
        BY <2>1
    <2>3. Return(p) /\ todo' = todo /\ row'[i] = None /\ part'[i] = None
        BY <1>8, <2>1, <2>2 DEF RemoveOrphan, UnlockAndReturn, TypeInv, TypeOK
    <2>4. Settled(i)'
        BY <2>3 DEF Settled
    <2> QED BY <1>3, <2>1, <2>2, <2>3, <2>4
<1> QED BY <1>4, <1>5, <1>6, <1>7, <1>8

\* What a handler does leaves the lists of a recovery run alone.
LEMMA HandlersApart ==
    ASSUME TypeInv, NEW h \in Handlers, Requesting(h) \/ Creating(h) \/ Writing(h) \/ Completing(h)
    PROVE  todo' = todo /\ born \subseteq born' /\ (Alone(h) \/ UNCHANGED <<pc, frame>>)
<1>0. pc \in [Actors -> Points] /\ frame \in [Actors -> Frames] /\ h \in Actors
    BY DEF TypeInv, TypeOK, Actors
<1> USE <1>0
<1>1. CASE Requesting(h)
    BY <1>1 DEF Requesting, CreatePart, Arrive, Answer, Goto, Alone, ghost, vars
<1>2. CASE Creating(h)
    BY <1>2, Returns DEF Creating, InsertRow, InsertFails, InsertFailsLeavingPart, ghost
<1>3. CASE Writing(h)
    <2>1. CASE WriteBody(h)
        BY <2>1 DEF WriteBody, Goto, Alone, ghost
    <2>2. CASE WriteRefused(h) \/ WriteCommit(h) \/ WriteUndone(h) \/ WriteNotUndone(h)
        BY <2>2, Returns
           DEF WriteRefused, WriteCommit, WriteUndone, WriteNotUndone, UnlockAndReturn, ghost
    <2> QED BY <1>3, <2>1, <2>2 DEF Writing
<1>4. CASE Completing(h)
    <2>1. CASE HashStaging(h) \/ ChecksumAccepted(h) \/ PublishStaging(h) \/ CommitFails(h)
        BY <2>1
           DEF HashStaging, ChecksumAccepted, PublishStaging, MayPublish, CommitFails, Goto,
               Alone, ghost
    <2>2. CASE \/ CompleteRefused(h) \/ ChecksumRefused(h) \/ PublishUnsynced(h)
               \/ CommitFile(h) \/ RestorePublished(h) \/ RestoreFails(h)
        BY <2>2, Returns
           DEF CompleteRefused, ChecksumRefused, PublishUnsynced, MayPublish, CommitFile,
               RestorePublished, RestoreFails, UnlockAndReturn, ghost
    <2> QED BY <1>4, <2>1, <2>2 DEF Completing
<1> QED BY <1>1, <1>2, <1>3, <1>4

\* A page is filled from the rows, and a run waits for a session of its page.
LEMMA PagesStep ==
    ASSUME TypeInv, [Next]_vars, NEW p \in Procs
    PROVE  /\ todo'[p].page \subseteq todo[p].page \cup RowIds
           /\ pc'[p] = "blocked" => \/ pc[p] = "blocked" /\ frame'[p].id = frame[p].id
                                    \/ frame'[p].id \in todo[p].page
           /\ born \subseteq born'
<1> DEFINE Goal == /\ todo'[p].page \subseteq todo[p].page \cup RowIds
                   /\ pc'[p] = "blocked" => \/ pc[p] = "blocked" /\ frame'[p].id = frame[p].id
                                            \/ frame'[p].id \in todo[p].page
                   /\ born \subseteq born'
<1>0. /\ pc \in [Actors -> Points] /\ frame \in [Actors -> Frames] /\ todo \in [Procs -> Todos]
      /\ p \in Actors /\ p \notin Handlers
    BY UploadAssumption DEF TypeInv, TypeOK, Actors
<1> USE <1>0
<1>1. ASSUME NEW a \in Actors, Alone(a), todo' = todo, born' = born, pc'[a] # "blocked" PROVE Goal
    BY <1>1 DEF Alone
<1>2. ASSUME NEW a \in Actors, Return(a), todo' = todo, born' = born PROVE Goal
    BY <1>1, <1>2, Returns
<1>3. ASSUME NEW q \in Procs, EndRecovery(q), born' = born PROVE Goal
    <2>1. todo'[p].page \subseteq todo[p].page
        BY <1>3 DEF EndRecovery, NoTodo
    <2> QED BY <1>3, <2>1, RecoveryEnds DEF Alone
<1>4. ASSUME NEW a \in Actors, GiveUp(a) PROVE Goal
    BY <1>2, <1>3, <1>4 DEF GiveUp, ghost
<1>5. ASSUME NEW a \in Actors, Locking(a) PROVE Goal
    <2>1. CASE Acquire(a)
        BY <1>1, <2>1 DEF Acquire, Goto, Alone, ghost
    <2>2. CASE AcquireGone(a) \/ AcquireFails(a) \/ Abandon(a)
        BY <1>2, <1>4, <2>2 DEF AcquireGone, AcquireFails, Abandon, ghost
    <2> QED BY <1>5, <2>1, <2>2 DEF Locking
<1>6. ASSUME NEW a \in Actors, Cleaning(a) PROVE Goal
    <2>1. CASE StartCleanup(a) \/ MarkStatus(a) \/ Unlink(a)
        BY <1>1, <2>1 DEF StartCleanup, MarkStatus, Unlink, Goto, Alone, ghost
    <2>2. CASE KeepSession(a) \/ DeleteRow(a)
        BY <1>2, <2>2 DEF KeepSession, DeleteRow, UnlockAndReturn, ghost
    <2> QED BY <1>6, <2>1, <2>2 DEF Cleaning
<1>7. ASSUME NEW h \in Handlers, Requesting(h) \/ Creating(h) \/ Writing(h) \/ Completing(h)
      PROVE  Goal
    BY <1>7, HandlersApart DEF Alone
<1>8. ASSUME NEW q \in Procs, Boot(q) PROVE Goal
    BY <1>1, <1>8 DEF Boot, Goto, Alone, ghost, Actors
<1>9. ASSUME NEW q \in Procs, Crash(q) PROVE Goal
    BY <1>9 DEF Crash, NoTodo, ghost
<1>10. ASSUME NEW q \in Procs, Recovering(q) PROVE Goal
    <2>0. q \in Actors
        BY DEF Actors
    <2>1. CASE ListRows(q)
        <3>1. PICK S \in SUBSET RowIds : todo' = [todo EXCEPT ![q].page = S]
            BY <2>1 DEF ListRows
        <3>2. todo'[p].page \subseteq todo[p].page \cup RowIds
            BY <3>1 DEF Todos
        <3> QED BY <2>0, <2>1, <3>2 DEF ListRows, Goto, ghost
    <2>2. CASE ListNames(q)
        <3>1. PICK T : todo' = [todo EXCEPT ![q].names = T]
            BY <2>2 DEF ListNames
        <3>2. todo'[p].page = todo[p].page
            BY <3>1 DEF Todos
        <3> QED BY <2>0, <2>2, <3>2 DEF ListNames, Goto, ghost
    <2>3. CASE ScanRow(q)
        <3>1. PICK i \in todo[q].page :
                 /\ todo' = [todo EXCEPT ![q].page = @ \ {i}]
                 /\ frame' = [frame EXCEPT ![q] = [Blank EXCEPT !.op = "recover", !.id = i]]
            BY <2>3 DEF ScanRow
        <3>2. todo'[p].page \subseteq todo[p].page
            BY <3>1 DEF Todos
        <3>3. [Blank EXCEPT !.op = "recover", !.id = i].id = i
            BY NewFrame DEF Ops, TypeInv, TypeOK, Todos
        <3>4. q = p => frame'[p].id = i
            BY <3>1, <3>3
        <3>5. q # p => pc'[p] = pc[p] /\ frame'[p] = frame[p]
            BY <2>3, <3>1 DEF ScanRow, Goto
        <3> QED BY <2>3, <3>1, <3>2, <3>4, <3>5 DEF ScanRow, ghost
    <2>4. CASE ScanName(q)
        <3>1. PICK T : todo' = [todo EXCEPT ![q].names = T]
            BY <2>4 DEF ScanName
        <3>2. todo'[p].page = todo[p].page
            BY <3>1 DEF Todos
        <3>3. pc[q] = "scan" /\ (q # p => pc'[p] = pc[p] /\ frame'[p] = frame[p]) /\ born' = born
            BY <2>4 DEF ScanName, Goto, ghost
        <3>4. pc'[q] # "blocked"
            BY <2>0, <2>4 DEF ScanName, Goto
        <3> QED BY <3>2, <3>3, <3>4
    <2>5. CASE LockSidecar(q) \/ RemoveOrphan(q)
        BY <1>1, <1>2, <2>0, <2>5
           DEF LockSidecar, RemoveOrphan, UnlockAndReturn, Goto, Alone, ghost
    <2>6. CASE RecheckRow(q)
        <3>1. CASE Return(q)
            BY <1>2, <2>0, <2>6, <3>1 DEF RecheckRow, ghost
        <3>2. CASE Goto(q, "doomed") /\ frame' = frame
            BY <1>1, <2>0, <2>6, <3>2 DEF RecheckRow, Goto, Alone, ghost
        <3> QED BY <2>6, <3>1, <3>2 DEF RecheckRow, UnlockAndReturn
    <2>7. CASE FinishRecovery(q) \/ RecoveryFails(q)
        BY <1>3, <2>7 DEF FinishRecovery, RecoveryFails, ghost
    <2> QED BY <1>10, <2>1, <2>2, <2>3, <2>4, <2>5, <2>6, <2>7 DEF Recovering
<1>11. ASSUME (\E i \in Ids : Expire(i)) \/ UNCHANGED vars PROVE Goal
    BY <1>11 DEF Expire, local, ghost, vars
<1> HIDE DEF Goal
<1>12. Goal
    BY <1>5, <1>6, <1>7, <1>8, <1>9, <1>10, <1>11 DEF Next
<1> QED BY <1>12 DEF Goal

LEMMA PagesBornStep ==
    ASSUME KeptInv, PagesBorn, [Next]_vars
    PROVE  PagesBorn'
<1>1. RowIds \subseteq born
    BY DEF KeptInv, ObjectInv, LockInv, StagedFresh, RowIds
<1>2. TypeInv
    BY Shapes
<1>3. ASSUME NEW p \in Procs
      PROVE  todo'[p].page \subseteq born' /\ (pc'[p] = "blocked" => frame'[p].id \in born')
    BY <1>1, <1>2, PagesStep DEF PagesBorn
<1> QED BY <1>3 DEF PagesBorn

\* Two recovery runs keep their own lists and positions.
LEMMA RecoveriesApart ==
    ASSUME TypeInv, NEW p \in Procs, NEW q \in Procs, q # p,
           Locking(q) \/ Cleaning(q) \/ Boot(q) \/ Recovering(q) \/ Crash(q)
    PROVE  pc'[p] = pc[p] /\ frame'[p] = frame[p] /\ todo'[p] = todo[p]
<1> DEFINE Goal == pc'[p] = pc[p] /\ frame'[p] = frame[p] /\ todo'[p] = todo[p]
<1>0. /\ pc \in [Actors -> Points] /\ frame \in [Actors -> Frames] /\ todo \in [Procs -> Todos]
      /\ p \in Actors /\ q \in Actors /\ p \notin Handlers
    BY UploadAssumption DEF TypeInv, TypeOK, Actors
<1> USE <1>0
<1>1. ASSUME Return(q), todo' = todo PROVE Goal
    BY <1>1 DEF Return
<1>2. ASSUME EndRecovery(q) PROVE Goal
    BY <1>2 DEF EndRecovery
<1>3. CASE Locking(q)
    <2>1. CASE Acquire(q)
        BY <2>1 DEF Acquire, Goto
    <2>2. CASE AcquireGone(q) \/ AcquireFails(q) \/ Abandon(q)
        BY <1>1, <1>2, <2>2 DEF AcquireGone, AcquireFails, Abandon, GiveUp
    <2> QED BY <1>3, <2>1, <2>2 DEF Locking
<1>4. CASE Cleaning(q)
    <2>1. CASE StartCleanup(q) \/ MarkStatus(q) \/ Unlink(q)
        BY <2>1 DEF StartCleanup, MarkStatus, Unlink, Goto
    <2>2. CASE KeepSession(q) \/ DeleteRow(q)
        BY <1>1, <2>2 DEF KeepSession, DeleteRow, UnlockAndReturn
    <2> QED BY <1>4, <2>1, <2>2 DEF Cleaning
<1>5. CASE Boot(q) \/ Crash(q)
    BY <1>5 DEF Boot, Crash, Goto, ProcOf
<1>6. CASE Recovering(q)
    <2>1. CASE ListRows(q) \/ ListNames(q) \/ ScanRow(q) \/ LockSidecar(q)
        BY <2>1 DEF ListRows, ListNames, ScanRow, LockSidecar, Goto
    <2>2. CASE ScanName(q)
        BY <2>2 DEF ScanName, Goto
    <2>3. CASE RecheckRow(q) \/ RemoveOrphan(q)
        BY <1>1, <2>3 DEF RecheckRow, RemoveOrphan, UnlockAndReturn, Goto
    <2>4. CASE FinishRecovery(q) \/ RecoveryFails(q)
        BY <1>2, <2>4 DEF FinishRecovery, RecoveryFails
    <2> QED BY <1>6, <2>1, <2>2, <2>3, <2>4 DEF Recovering
<1> QED BY <1>3, <1>4, <1>5, <1>6

LEMMA CoveredStep ==
    ASSUME SingleServer, IsFiniteSet(Ids), RecoveryInv, [Next]_vars, NEW p \in Procs, Thorough(p)'
    PROVE  Covered(p)'
<1> USE Shapes DEF RecoveryInv, ReclaimedInv
<1>0. /\ p \in Actors /\ pc \in [Actors -> Points]
      /\ mode \in [Procs -> {"down", "recovering", "serving"}]
    BY DEF TypeInv, TypeOK
<1>1. CASE mode[p] # "recovering"
    <2>1. Boot(p)
        <3>1. mode'[p] = "recovering"
            BY DEF Thorough
        <3>2. PICK q \in Procs : Boot(q) \/ Crash(q) \/ EndRecovery(q)
            BY <1>1, <3>1, ModeKinds DEF Working
        <3> QED BY <1>0, <1>1, <3>1, <3>2 DEF Boot, Crash, EndRecovery
    <2>2. pc'[p] = "rows"
        BY <1>0, <2>1 DEF Boot, Goto
    <2> QED BY <2>2 DEF Covered
<1>2. CASE mode[p] = "recovering"
    <2>1. Thorough(p) /\ Covered(p)
        BY <1>2 DEF Thorough
    <2>2. \/ \E q \in Procs : Locking(q) \/ Cleaning(q) \/ Boot(q) \/ Recovering(q) \/ Crash(q)
          \/ \E i \in Ids : Expire(i)
          \/ UNCHANGED vars
        BY <1>2, <2>1, OnlyRecovery DEF Thorough
    <2>3. \A i \in Ids : (row'[i] # None => row[i] # None) /\ (Settled(i) => Settled(i)')
        BY <2>2, SettledStays
    <2>4. CASE (\E i \in Ids : Expire(i)) \/ UNCHANGED vars
        <3>1. pc' = pc /\ frame' = frame /\ todo' = todo
            BY <2>4 DEF Expire, local, vars
        <3> QED BY <2>1, <2>3, <3>1, CoveredByOthers
    <2>5. ASSUME NEW q \in Procs, q # p,
                 Locking(q) \/ Cleaning(q) \/ Boot(q) \/ Recovering(q) \/ Crash(q)
          PROVE  Covered(p)'
        <3>1. pc'[p] = pc[p] /\ frame'[p] = frame[p] /\ todo'[p] = todo[p]
            BY <2>5, RecoveriesApart
        <3> QED BY <2>1, <2>3, <3>1, CoveredByOthers
    <2>6. ASSUME Locking(p) \/ Cleaning(p) \/ Boot(p) \/ Recovering(p) \/ Crash(p)
          PROVE  Covered(p)'
        <3>1. ~Boot(p) /\ ~Crash(p) /\ ~EndRecovery(p)
            BY <1>0, <1>2 DEF Boot, Crash, EndRecovery, Thorough
        <3>2. CASE ListRows(p) \/ ListNames(p)
            BY <2>1, <3>2, ListingCovers
        <3>3. CASE ScanRow(p) \/ ScanName(p)
            BY <2>1, <2>3, <3>3, ScanningCovers
        <3>4. CASE Locking(p) \/ Cleaning(p) \/ LockSidecar(p) \/ RecheckRow(p) \/ RemoveOrphan(p)
            BY <2>1, <2>3, <3>4, ItemCovers
        <3> QED BY <2>6, <3>1, <3>2, <3>3, <3>4 DEF Recovering, FinishRecovery, RecoveryFails
    <2> QED BY <2>2, <2>4, <2>5, <2>6
<1> QED BY <1>1, <1>2

LEMMA RecoveryInvStep ==
    ASSUME SingleServer, IsFiniteSet(Ids), RecoveryInv, [Next]_vars
    PROVE  RecoveryInv'
<1>1. TypeInv /\ KeptInv
    BY Shapes DEF RecoveryInv, ReclaimedInv
<1>2. ReclaimedInv' /\ Modes' /\ PagesBorn'
    BY <1>1, ReclaimedInvStep, ModesStep, PagesBornStep DEF RecoveryInv
<1>3. \A p \in Procs : Thorough(p)' => Covered(p)'
    BY CoveredStep
<1> QED BY <1>2, <1>3 DEF RecoveryInv

LEMMA RecoveryInvInit == Init => RecoveryInv
<1> SUFFICES ASSUME Init PROVE RecoveryInv
    OBVIOUS
<1>1. /\ \A p \in Procs : mode[p] = "down" /\ pc[p] = "idle" /\ todo[p] = NoTodo
    BY DEF Init, Actors
<1> QED BY <1>1, ReclaimedInvInit, ModesInit DEF RecoveryInv, PagesBorn, Thorough, NoTodo

\* session.go:323-385: a startup recovery whose limit left nothing out and that met no
\* error has removed or finished every session that cannot be resumed and every part
\* without a session by the time the server serves (main.go:133-170), whatever the crash
\* before it interrupted, and whatever expires, or recovers beside it, meanwhile.
THEOREM RecoverySettlesEverything ==
    ASSUME SingleServer, IsFiniteSet(Ids)
    PROVE  Spec => RecoveryConverges
<1>1. ASSUME RecoveryInv, [Next]_vars, NEW p \in Procs, FinishRecovery(p), mode'[p] = "serving",
             PageLimit >= 3 * Cardinality(Ids), NEW i \in Ids
      PROVE  /\ row[i] # None /\ i \notin expired =>
                   /\ row[i].status = "active"
                   /\ part[i] # None /\ Len(part[i]) = row[i].offset
             /\ part[i] # None => row[i] # None
    <2>1. pc[p] = "scan" /\ todo[p].page = {} /\ todo[p].names = {}
        BY <1>1 DEF FinishRecovery, NoTodo
    <2>2. mode \in [Procs -> {"down", "recovering", "serving"}]
        BY <1>1, Shapes DEF RecoveryInv, ReclaimedInv, TypeInv, TypeOK
    <2>3. HandlersOf(p) # {}
        BY <1>1, <2>2 DEF FinishRecovery, EndRecovery
    <2>4. Covered(p)
        BY <1>1, <2>1, <2>3 DEF RecoveryInv, Modes, Thorough
    <2>5. Settled(i)
        BY <2>1, <2>4 DEF Covered, Naming, Holding, Inside
    <2> QED BY <2>5 DEF Settled
<1>2. Init => RecoveryInv
    BY RecoveryInvInit
<1>3. RecoveryInv /\ [Next]_vars => RecoveryInv'
    BY RecoveryInvStep
<1>4. RecoveryInv /\ [Next]_vars =>
        [\A p \in Procs :
            (FinishRecovery(p) /\ mode'[p] = "serving" /\ PageLimit >= 3 * Cardinality(Ids)) =>
                \A i \in Ids :
                    /\ row[i] # None /\ i \notin expired =>
                          /\ row[i].status = "active"
                          /\ part[i] # None /\ Len(part[i]) = row[i].offset
                    /\ part[i] # None => row[i] # None]_vars
    BY <1>1
<1> QED BY <1>2, <1>3, <1>4, PTL DEF Spec, RecoveryConverges

-----------------------------------------------------------------------------
(* Locks                                                                    *)

\* A flock that is taken belongs to a goroutine that is in its critical section on
\* that session, so to none that waits.
Owned == \A i \in Ids : lock[i] # None => pc[lock[i]] \in Holding /\ frame[lock[i]].id = i

\* ... and that is alive.
LocksOwned == Owned /\ \A i \in Ids : lock[i] # None => mode[ProcOf(lock[i])] # "down"

\* A step that locks and unlocks nothing leaves a critical section only if it is in none.
LEMMA OwnedKeeps ==
    ASSUME KeptInv, Owned, NEW a \in Actors, Alone(a), lock' = lock,
           pc[a] \in Holding => pc'[a] \in Holding /\ frame'[a].id = frame[a].id
    PROVE  Owned'
<1> SUFFICES ASSUME NEW i \in Ids, lock[i] # None
             PROVE  pc'[lock[i]] \in Holding /\ frame'[lock[i]].id = i
    BY DEF Owned
<1>1. lock[i] \in Actors /\ pc[lock[i]] \in Holding /\ frame[lock[i]].id = i
    BY Shapes DEF Owned
<1> QED BY <1>1 DEF Alone

\* A step that unlocks may go anywhere.
LEMMA OwnedUnlocks ==
    ASSUME KeptInv, Owned, NEW a \in Actors, Alone(a), Unlock(frame[a].id)
    PROVE  Owned'
<1> SUFFICES ASSUME NEW i \in Ids, lock'[i] # None
             PROVE  pc'[lock'[i]] \in Holding /\ frame'[lock'[i]].id = i
    BY DEF Owned
<1>1. i # frame[a].id /\ lock'[i] = lock[i]
    BY Shapes DEF Unlock
<1>2. lock[i] \in Actors /\ pc[lock[i]] \in Holding /\ frame[lock[i]].id = i
    BY <1>1, Shapes DEF Owned
<1>3. lock[i] # a
    BY <1>1, <1>2
<1> QED BY <1>1, <1>2, <1>3 DEF Alone

\* A step that locks was in no critical section.
LEMMA OwnedLocks ==
    ASSUME KeptInv, Owned, NEW a \in Actors, Alone(a), lock' = [lock EXCEPT ![frame[a].id] = a],
           pc[a] \notin Holding, pc'[a] \in Holding, frame'[a].id = frame[a].id
    PROVE  Owned'
<1> SUFFICES ASSUME NEW i \in Ids, lock'[i] # None
             PROVE  pc'[lock'[i]] \in Holding /\ frame'[lock'[i]].id = i
    BY DEF Owned
<1>1. CASE i = frame[a].id
    BY <1>1, Shapes
<1>2. CASE i # frame[a].id
    <2>1. /\ lock'[i] = lock[i] /\ lock[i] \in Actors
          /\ pc[lock[i]] \in Holding /\ frame[lock[i]].id = i
        BY <1>2, Shapes DEF Owned
    <2>2. lock[i] # a
        BY <2>1
    <2> QED BY <2>1, <2>2 DEF Alone
<1> QED BY <1>1, <1>2

LEMMA OwnedStep ==
    ASSUME KeptInv, Modes, Owned, [Next]_vars
    PROVE  Owned'
<1>0. /\ TypeInv /\ Handlers \subseteq Actors /\ Procs \subseteq Actors
      /\ pc \in [Actors -> Points] /\ frame \in [Actors -> Frames]
      /\ \A p \in Procs : p \notin Handlers
      /\ \A l \in {"idle", "staged", "blocked", "hashed", "rows", "names", "scan", "sidecar"} :
            l \notin Holding
      /\ \A l \in {"locked", "copied", "cleaning", "unlinked", "renamed", "rollback", "orphan", "doomed"} :
            l \in Holding
    BY Shapes, UploadAssumption DEF Holding, Inside
<1> USE <1>0
<1>1. ASSUME NEW a \in Actors, Return(a), lock' = lock, pc[a] \notin Holding PROVE Owned'
    BY <1>1, Returns, OwnedKeeps
<1>2. ASSUME NEW a \in Actors, UnlockAndReturn(a) PROVE Owned'
    BY <1>2, Returns, OwnedUnlocks DEF UnlockAndReturn
<1>3. ASSUME NEW a \in Actors, GiveUp(a) PROVE Alone(a)
    BY <1>3, GivenUp
<1>4. ASSUME NEW a \in Actors, Locking(a) PROVE Owned'
    <2>1. CASE Acquire(a)
        <3>1. frame'[a].id = frame[a].id
            BY <2>1 DEF Acquire, Frames
        <3>2. /\ Alone(a) /\ lock' = [lock EXCEPT ![frame[a].id] = a]
              /\ pc[a] = "blocked" /\ pc'[a] = "locked"
            BY <2>1 DEF Acquire, Goto, Alone
        <3> QED BY <3>1, <3>2, OwnedLocks
    <2>2. CASE AcquireGone(a)
        BY <1>1, <2>2 DEF AcquireGone
    <2>3. CASE AcquireFails(a)
        BY <1>3, <2>3, OwnedKeeps DEF AcquireFails
    <2>4. CASE Abandon(a)
        BY <1>3, <2>4, OwnedUnlocks DEF Abandon
    <2> QED BY <1>4, <2>1, <2>2, <2>3, <2>4 DEF Locking
<1>5. ASSUME NEW a \in Actors, Cleaning(a) PROVE Owned'
    <2>1. CASE StartCleanup(a) \/ Unlink(a)
        BY <2>1, OwnedKeeps DEF StartCleanup, Unlink, Goto, Alone
    <2>2. CASE MarkStatus(a)
        <3>1. frame'[a].id = frame[a].id /\ Alone(a) /\ pc' = pc /\ lock' = lock
            BY <2>2 DEF MarkStatus, Frames, Alone
        <3> QED BY <3>1, OwnedKeeps
    <2>3. CASE KeepSession(a) \/ DeleteRow(a)
        BY <1>2, <2>3 DEF KeepSession, DeleteRow
    <2> QED BY <1>5, <2>1, <2>2, <2>3 DEF Cleaning
<1>6. ASSUME NEW h \in Handlers, Requesting(h) PROVE Owned'
    <2>1. CASE CreatePart(h) \/ Arrive(h)
        <3>1. Alone(h) /\ lock' = lock /\ pc[h] = "idle"
            BY <2>1 DEF CreatePart, Arrive, Goto, Alone
        <3> QED BY <3>1, OwnedKeeps
    <2>2. CASE Answer(h)
        BY <2>2 DEF Answer, vars, Owned
    <2> QED BY <1>6, <2>1, <2>2 DEF Requesting
<1>7. ASSUME NEW h \in Handlers, Creating(h) PROVE Owned'
    BY <1>1, <1>7 DEF Creating, InsertRow, InsertFails, InsertFailsLeavingPart
<1>8. ASSUME NEW h \in Handlers, Writing(h) PROVE Owned'
    <2>1. CASE WriteBody(h)
        <3>1. Alone(h) /\ lock' = lock /\ pc[h] = "locked" /\ pc'[h] = "copied"
            BY <2>1 DEF WriteBody, Goto, Alone
        <3>2. frame'[h].id = frame[h].id
            <4>1. PICK d : frame' = [frame EXCEPT ![h].data = d]
                BY <2>1 DEF WriteBody
            <4> QED BY <4>1 DEF Frames
        <3> QED BY <3>1, <3>2, OwnedKeeps
    <2>2. CASE WriteRefused(h) \/ WriteCommit(h) \/ WriteUndone(h) \/ WriteNotUndone(h)
        BY <1>2, <2>2 DEF WriteRefused, WriteCommit, WriteUndone, WriteNotUndone
    <2> QED BY <1>8, <2>1, <2>2 DEF Writing
<1>9. ASSUME NEW h \in Handlers, Completing(h) PROVE Owned'
    <2>1. CASE HashStaging(h)
        <3>1. Alone(h)
            BY <2>1 DEF HashStaging, Goto, Alone
        <3> QED BY <2>1, <3>1, OwnedUnlocks DEF HashStaging
    <2>2. CASE ChecksumAccepted(h)
        <3>1. Alone(h) /\ lock' = lock /\ pc[h] = "hashed"
            BY <2>2 DEF ChecksumAccepted, Goto, Alone
        <3> QED BY <3>1, OwnedKeeps
    <2>3. CASE ChecksumRefused(h)
        BY <1>1, <2>3 DEF ChecksumRefused
    <2>4. CASE PublishStaging(h)
        <3>1. Alone(h) /\ lock' = lock /\ pc'[h] = "renamed"
            BY <2>4 DEF PublishStaging, Goto, Alone
        <3>2. frame'[h].id = frame[h].id
            <4>1. PICK k : frame' = [frame EXCEPT ![h].key = k]
                BY <2>4 DEF PublishStaging
            <4> QED BY <4>1 DEF Frames
        <3> QED BY <3>1, <3>2, OwnedKeeps
    <2>5. CASE CommitFails(h)
        BY <2>5, OwnedKeeps DEF CommitFails, Goto, Alone
    <2>6. CASE \/ CompleteRefused(h) \/ PublishUnsynced(h) \/ CommitFile(h)
               \/ RestorePublished(h) \/ RestoreFails(h)
        BY <1>2, <2>6
           DEF CompleteRefused, PublishUnsynced, CommitFile, RestorePublished, RestoreFails
    <2> QED BY <1>9, <2>1, <2>2, <2>3, <2>4, <2>5, <2>6 DEF Completing
<1>10. ASSUME NEW p \in Procs, Boot(p) PROVE Owned'
    <2>1. Alone(p) /\ lock' = lock /\ pc[p] = "idle"
        BY <1>10 DEF Boot, Goto, Alone, Modes
    <2> QED BY <1>10, <2>1, OwnedKeeps
<1>11. ASSUME NEW p \in Procs, Recovering(p) PROVE Owned'
    <2>1. CASE ListRows(p) \/ ListNames(p)
        <3>1. Alone(p) /\ lock' = lock /\ pc[p] \in {"rows", "names"}
            BY <2>1 DEF ListRows, ListNames, Goto, Alone
        <3> QED BY <3>1, OwnedKeeps
    <2>2. CASE ScanRow(p)
        <3>1. Alone(p) /\ lock' = lock /\ pc[p] = "scan"
            BY <2>2 DEF ScanRow, Goto, Alone
        <3> QED BY <3>1, OwnedKeeps
    <2>3. CASE ScanName(p)
        <3>1. Alone(p) /\ lock' = lock /\ pc[p] = "scan"
            BY <2>3 DEF ScanName, Goto, Alone
        <3> QED BY <3>1, OwnedKeeps
    <2>4. CASE LockSidecar(p)
        BY <2>4, OwnedLocks DEF LockSidecar, Goto, Alone
    <2>5. CASE RecheckRow(p)
        <3>1. CASE UnlockAndReturn(p)
            BY <1>2, <3>1
        <3>2. CASE Goto(p, "doomed") /\ UNCHANGED <<lock, frame>>
            BY <3>2, OwnedKeeps DEF Goto, Alone
        <3> QED BY <2>5, <3>1, <3>2 DEF RecheckRow
    <2>6. CASE RemoveOrphan(p)
        BY <1>2, <2>6 DEF RemoveOrphan
    <2>7. CASE FinishRecovery(p) \/ RecoveryFails(p)
        <3>1. EndRecovery(p) /\ lock' = lock /\ pc[p] \in {"rows", "names", "sidecar", "scan"}
            BY <2>7 DEF FinishRecovery, RecoveryFails
        <3> QED BY <3>1, RecoveryEnds, OwnedKeeps
    <2> QED BY <1>11, <2>1, <2>2, <2>3, <2>4, <2>5, <2>6, <2>7 DEF Recovering
<1>12. ASSUME NEW p \in Procs, Crash(p) PROVE Owned'
    BY <1>12, Shapes DEF Crash, Owned
<1>13. ASSUME (\E i \in Ids : Expire(i)) \/ UNCHANGED vars PROVE Owned'
    BY <1>13 DEF Expire, local, vars, Owned
<1>14. ASSUME NEW a \in Actors, Locking(a) \/ Cleaning(a) PROVE Owned'
    BY <1>4, <1>5, <1>14
<1>15. ASSUME NEW h \in Handlers, Requesting(h) \/ Creating(h) \/ Writing(h) \/ Completing(h)
       PROVE  Owned'
    BY <1>6, <1>7, <1>8, <1>9, <1>15
<1> QED BY <1>10, <1>11, <1>12, <1>13, <1>14, <1>15 DEF Next

\* session.go:88-117 and objects_unix.go:307: every path out of a critical section gives
\* its flock back, in any process and after any crash, and a goroutine that waits for a
\* session holds none.  So no two wait for each other, and nobody waits for a dead one.
THEOREM NoLockIsLeft == Spec => []LocksOwned
<1> DEFINE Inv == KeptInv /\ Modes /\ Owned
<1>1. Init => Inv
    <2> SUFFICES ASSUME Init PROVE Inv
        OBVIOUS
    <2>1. \A i \in Ids : lock[i] = None
        BY DEF Init
    <2> QED BY <2>1, KeptInvInit, ModesInit DEF Owned
<1>2. Inv /\ [Next]_vars => Inv'
    <2> SUFFICES ASSUME Inv, [Next]_vars PROVE Inv'
        OBVIOUS
    <2> QED BY KeptInvStep, ModesStep, OwnedStep, Shapes
<1>3. Inv => LocksOwned
    <2> SUFFICES ASSUME Inv, NEW i \in Ids, lock[i] # None PROVE mode[ProcOf(lock[i])] # "down"
        BY DEF LocksOwned
    <2>1. lock[i] \in Actors /\ pc[lock[i]] # "idle"
        BY Shapes DEF Owned, Holding, Inside
    <2> QED BY <2>1 DEF Modes, ProcOf, Actors
<1> QED BY <1>1, <1>2, <1>3, PTL DEF Spec
=============================================================================
