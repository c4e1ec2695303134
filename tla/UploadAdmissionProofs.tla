------------------------ MODULE UploadAdmissionProofs ------------------------
(***************************************************************************)
(* Theorems about UploadAdmission for any number of requests, users and    *)
(* addresses and any limits.                                               *)
(*                                                                         *)
(* The counts are cardinalities of sets of requests (CountsExact), which   *)
(* is also why they never go below 0.  What the deadline is depends on     *)
(* where handler and goroutine are (Body).                                 *)
(***************************************************************************)
EXTENDS UploadAdmission, FiniteSetTheorems, TLAPS

Before == {"new", "slot", "refused", "admitted"}
After == {"release", "free", "done"}

\* One request's deadline, goroutine and stopCh, along its handler.
Body ==
    \A r \in Requests :
        /\ pc[r] \in Before => deadline[r] = "none" /\ watch[r] = "none"
        /\ pc[r] \in After => deadline[r] = "none" /\ watch[r] = "done"
        /\ r \in stopped => pc[r] \in {"wait"} \cup After
        /\ pc[r] = "refresh" /\ watch[r] = "done" => r \in overtaken
        /\ pc[r] = "read" /\ watch[r] = "done" /\ r \notin overtaken => deadline[r] = "past"

Taken == Leased \cup Passing
LeasedBy(f, k) == {r \in Leased : f[r] = k}

\* The bounds TypeOK sets are those of the counts.
Inv == TypeOK /\ CountsExact /\ Body

-----------------------------------------------------------------------------
(* Counting                                                                 *)

LEMMA Finite ==
    /\ IsFiniteSet(Taken) /\ IsFiniteSet(Leased)
    /\ \A f, k : IsFiniteSet(LeasedBy(f, k))
<1>1. Taken \subseteq Requests /\ Leased \subseteq Requests
    BY DEF Taken, Leased, Passing
<1>2. ASSUME NEW f, NEW k PROVE LeasedBy(f, k) \subseteq Requests
    BY <1>1 DEF LeasedBy
<1> QED BY <1>1, <1>2, AdmissionAssumption, FS_Subset

\* One more, one less.
LEMMA Counted ==
    ASSUME NEW S, IsFiniteSet(S), NEW x
    PROVE  /\ Cardinality(S) \in Nat
           /\ x \notin S => Cardinality(S \cup {x}) = Cardinality(S) + 1
           /\ x \in S => Cardinality(S \ {x}) = Cardinality(S) - 1 /\ Cardinality(S) > 0
<1>1. Cardinality(S) \in Nat
    BY FS_CardinalityType
<1>2. x \notin S => Cardinality(S \cup {x}) = Cardinality(S) + 1
    BY FS_AddElement
<1>3. x \in S => Cardinality(S \ {x}) = Cardinality(S) - 1
    BY FS_RemoveElement
<1>4. x \in S => Cardinality(S) # 0
    BY FS_EmptySet
<1> QED BY <1>1, <1>2, <1>3, <1>4

\* What a change of one handler's place does to the sets that are counted.
LEMMA Moves ==
    ASSUME TypeOK, NEW r \in Requests,
           NEW l \in {"slot", "refused", "admitted", "read", "refresh", "stop", "wait",
                      "release", "free", "done"},
           Go(r, l)
    PROVE  /\ l \in {"slot", "free", "admitted", "read", "refresh", "stop", "wait", "release"}
                => Taken' = Taken \cup {r}
           /\ l \in {"refused", "done"} => Taken' = Taken \ {r}
           /\ l \in {"admitted", "read", "refresh", "stop", "wait", "release"} =>
                /\ Leased' = Leased \cup {r}
                /\ \A f, k : LeasedBy(f, k)' = IF f[r] = k THEN LeasedBy(f, k) \cup {r} ELSE LeasedBy(f, k)
           /\ l \in {"slot", "refused", "free", "done"} =>
                /\ Leased' = Leased \ {r}
                /\ \A f, k : LeasedBy(f, k)' = LeasedBy(f, k) \ {r}
<1>1. pc \in [Requests -> {"new", "slot", "refused", "admitted", "read", "refresh", "stop",
                            "wait", "release", "free", "done"}]
    BY DEF TypeOK
<1>2. pc' \in [Requests -> {"new", "slot", "refused", "admitted", "read", "refresh", "stop",
                            "wait", "release", "free", "done"}] /\ pc'[r] = l
      /\ \A q \in Requests \ {r} : pc'[q] = pc[q]
    BY <1>1 DEF Go
<1>3. l \in {"slot", "free", "admitted", "read", "refresh", "stop", "wait", "release"}
        => Taken' = Taken \cup {r}
    BY <1>2 DEF Taken, Leased, Passing
<1>4. l \in {"refused", "done"} => Taken' = Taken \ {r}
    BY <1>2 DEF Taken, Leased, Passing
<1>5. l \in {"admitted", "read", "refresh", "stop", "wait", "release"} => Leased' = Leased \cup {r}
    BY <1>2 DEF Leased
<1>6. l \in {"slot", "refused", "free", "done"} => Leased' = Leased \ {r}
    BY <1>2 DEF Leased
<1>7. ASSUME NEW f, NEW k, Leased' = Leased \cup {r}
      PROVE  LeasedBy(f, k)' = IF f[r] = k THEN LeasedBy(f, k) \cup {r} ELSE LeasedBy(f, k)
    BY <1>7 DEF LeasedBy
<1>8. ASSUME NEW f, NEW k, Leased' = Leased \ {r} PROVE LeasedBy(f, k)' = LeasedBy(f, k) \ {r}
    BY <1>8 DEF LeasedBy
<1> QED BY <1>3, <1>4, <1>5, <1>6, <1>7, <1>8

BySets ==
    /\ slots = Cardinality(Taken)
    /\ \A u \in Users : users[u] = Cardinality(LeasedBy(UserOf, u))
    /\ \A a \in Addresses : ips[a] = Cardinality(LeasedBy(AddressOf, a))

LEMMA CountsBySets == (CountsExact <=> BySets) /\ (CountsExact' <=> BySets')
    BY DEF CountsExact, BySets, Taken, LeasedBy

\* A handler that keeps its slot and its lease, if it has them, changes no count.
LEMMA Unmoved ==
    ASSUME Inv, UNCHANGED counts, NEW r \in Requests, NEW l, Go(r, l),
           \/ pc[r] \in {"admitted", "read", "refresh", "stop", "wait"}
              /\ l \in {"read", "refresh", "stop", "wait", "release"}
           \/ pc[r] = "new" /\ l = "refused"
    PROVE  CountsExact'
<1>1. pc \in [Requests -> {"new", "slot", "refused", "admitted", "read", "refresh", "stop",
                            "wait", "release", "free", "done"}]
    BY DEF Inv, TypeOK
<1>2. Leased' = Leased /\ Passing' = Passing
    BY <1>1 DEF Go, Leased, Passing
<1> QED BY <1>2 DEF Inv, CountsExact, counts

-----------------------------------------------------------------------------
(* Every step preserves each part                                           *)

\* The counts; the step that takes a slot, a lease or gives one back changes one set.
LEMMA CountsStep == Inv /\ [Next]_vars => CountsExact'
<1> SUFFICES ASSUME Inv, [Next]_vars PROVE CountsExact'
    OBVIOUS
<1>a. /\ TypeOK /\ slots = Cardinality(Taken)
      /\ \A u \in Users : users[u] = Cardinality(LeasedBy(UserOf, u))
      /\ \A a \in Addresses : ips[a] = Cardinality(LeasedBy(AddressOf, a))
      /\ CountsExact
    BY CountsBySets DEF Inv, BySets
<1>b. pc \in [Requests -> {"new", "slot", "refused", "admitted", "read", "refresh", "stop",
                            "wait", "release", "free", "done"}]
      /\ users \in [Users -> 0..PerUser] /\ ips \in [Addresses -> 0..PerIP]
    BY <1>a DEF TypeOK
<1>c. UserOf \in [Requests -> Users] /\ AddressOf \in [Requests -> Addresses]
    BY AdmissionAssumption
<1>1. ASSUME NEW r \in Requests, TakeSlot(r) PROVE CountsExact'
    <2>1. Go(r, "slot") /\ Taken' = Taken \cup {r} /\ r \notin Taken /\ r \notin Leased
        BY <1>1, <1>a, <1>b, Moves DEF TakeSlot, Taken, Leased, Passing
    <2>2. \A f, k : LeasedBy(f, k)' = LeasedBy(f, k)
        BY <2>1, <1>a, Moves DEF LeasedBy
    <2>3. Cardinality(Taken') = slots'
        BY <1>1, <1>a, <2>1, Finite, Counted DEF TakeSlot
    <2> QED BY <1>1, <1>a, <2>2, <2>3, CountsBySets DEF TakeSlot, BySets
<1>2. ASSUME NEW r \in Requests, NoSlot(r) PROVE CountsExact'
    <2>1. Go(r, "refused") /\ UNCHANGED counts
        BY <1>2 DEF NoSlot
    <2> QED BY <1>2, <2>1, Unmoved DEF NoSlot
<1>3. ASSUME NEW r \in Requests, ReadData(r) PROVE CountsExact'
    <2>1. Go(r, "refresh") /\ UNCHANGED counts
        BY <1>3 DEF ReadData
    <2> QED BY <1>3, <2>1, Unmoved DEF ReadData
<1>4. ASSUME NEW r \in Requests, ReadEnds(r) PROVE CountsExact'
    <2>1. Go(r, "stop") /\ UNCHANGED counts
        BY <1>4 DEF ReadEnds
    <2> QED BY <1>4, <2>1, Unmoved DEF ReadEnds
<1>5. ASSUME NEW r \in Requests, Admit(r) PROVE CountsExact'
    <2>1. Go(r, "admitted") /\ r \notin Leased /\ r \in Taken /\ Taken' = Taken
        BY <1>5, <1>a, <1>b, Moves DEF Admit, Within, Taken, Leased, Passing
    <2>2. /\ \A k \in Users : LeasedBy(UserOf, k)' =
                                IF UserOf[r] = k THEN LeasedBy(UserOf, k) \cup {r} ELSE LeasedBy(UserOf, k)
          /\ \A k \in Addresses : LeasedBy(AddressOf, k)' =
                                    IF AddressOf[r] = k THEN LeasedBy(AddressOf, k) \cup {r} ELSE LeasedBy(AddressOf, k)
        BY <2>1, <1>a, Moves DEF LeasedBy
    <2>3. /\ \A f, k : f[r] = k => (r \notin LeasedBy(f, k))
          /\ \A f, k : f[r] = k => Cardinality(LeasedBy(f, k) \cup {r}) = Cardinality(LeasedBy(f, k)) + 1
        <3> SUFFICES ASSUME NEW f, NEW k, f[r] = k
                     PROVE  /\ r \notin LeasedBy(f, k)
                            /\ Cardinality(LeasedBy(f, k) \cup {r}) = Cardinality(LeasedBy(f, k)) + 1
            OBVIOUS
        <3>1. r \notin LeasedBy(f, k) /\ IsFiniteSet(LeasedBy(f, k))
            BY <2>1, Finite DEF LeasedBy
        <3> QED BY <3>1, Counted
    <2>4. \A k \in Users : users'[k] = Cardinality(LeasedBy(UserOf, k)')
        BY <1>5, <1>a, <1>b, <1>c, <2>2, <2>3 DEF Admit, Within
    <2>5. \A k \in Addresses : ips'[k] = Cardinality(LeasedBy(AddressOf, k)')
        BY <1>5, <1>a, <1>b, <1>c, <2>2, <2>3 DEF Admit, Within
    <2>6. slots' = Cardinality(Taken')
        BY <1>5, <1>a, <2>1 DEF Admit, Within
    <2> QED BY <2>4, <2>5, <2>6, CountsBySets DEF BySets
<1>6. ASSUME NEW r \in Requests, Refuse(r) PROVE CountsExact'
    <2>1. Go(r, "refused") /\ Taken' = Taken \ {r} /\ r \in Taken /\ r \notin Leased
        BY <1>6, <1>a, <1>b, Moves DEF Refuse, SlotGivenBack, Taken, Leased, Passing
    <2>2. \A f, k : LeasedBy(f, k)' = LeasedBy(f, k)
        BY <2>1, <1>a, Moves DEF LeasedBy
    <2>3. Cardinality(Taken') = slots'
        BY <1>6, <1>a, <2>1, Finite, Counted DEF Refuse, SlotGivenBack
    <2> QED BY <1>6, <1>a, <2>2, <2>3, CountsBySets DEF Refuse, SlotGivenBack, BySets
<1>7. ASSUME NEW r \in Requests, Protect(r) PROVE CountsExact'
    <2>1. Go(r, "read") /\ UNCHANGED counts
        BY <1>7 DEF Protect
    <2> QED BY <1>7, <2>1, Unmoved DEF Protect
<1>8. ASSUME NEW r \in Requests, Refresh(r) PROVE CountsExact'
    <2>1. Go(r, "read") /\ UNCHANGED counts
        BY <1>8 DEF Refresh, Refreshed
    <2> QED BY <1>8, <2>1, Unmoved DEF Refresh, Refreshed
<1>9. ASSUME NEW r \in Requests, ReadTimesOut(r) PROVE CountsExact'
    <2>1. Go(r, "stop") /\ UNCHANGED counts
        BY <1>9 DEF ReadTimesOut
    <2> QED BY <1>9, <2>1, Unmoved DEF ReadTimesOut
<1>10. ASSUME NEW r \in Requests, Stop(r) PROVE CountsExact'
    <2>1. Go(r, "wait") /\ UNCHANGED counts
        BY <1>10 DEF Stop
    <2> QED BY <1>10, <2>1, Unmoved DEF Stop
<1>11. ASSUME NEW r \in Requests, ClearDeadline(r) PROVE CountsExact'
    <2>1. Go(r, "release") /\ UNCHANGED counts
        BY <1>11 DEF ClearDeadline, WatchDone
    <2> QED BY <1>11, <2>1, Unmoved DEF ClearDeadline, WatchDone
<1>12. ASSUME NEW r \in Requests, Release(r) PROVE CountsExact'
    <2>1. Go(r, "free") /\ r \in Leased /\ r \in Taken /\ Taken' = Taken
        BY <1>12, <1>a, <1>b, Moves DEF Release, CountedOut, Taken, Leased, Passing
    <2>2. /\ \A k \in Users : LeasedBy(UserOf, k)' =
                                IF UserOf[r] = k THEN LeasedBy(UserOf, k) \ {r} ELSE LeasedBy(UserOf, k)
          /\ \A k \in Addresses : LeasedBy(AddressOf, k)' =
                                    IF AddressOf[r] = k THEN LeasedBy(AddressOf, k) \ {r} ELSE LeasedBy(AddressOf, k)
        BY <2>1, <1>a, Moves DEF LeasedBy
    <2>3. /\ \A f, k : f[r] = k => (r \in LeasedBy(f, k))
          /\ \A f, k : f[r] = k => Cardinality(LeasedBy(f, k) \ {r}) = Cardinality(LeasedBy(f, k)) - 1
        <3> SUFFICES ASSUME NEW f, NEW k, f[r] = k
                     PROVE  /\ r \in LeasedBy(f, k)
                            /\ Cardinality(LeasedBy(f, k) \ {r}) = Cardinality(LeasedBy(f, k)) - 1
            OBVIOUS
        <3>1. r \in LeasedBy(f, k) /\ IsFiniteSet(LeasedBy(f, k))
            BY <2>1, Finite DEF LeasedBy
        <3> QED BY <3>1, Counted
    <2>4. \A k \in Users : users'[k] = Cardinality(LeasedBy(UserOf, k)')
        BY <1>12, <1>a, <1>b, <1>c, <2>2, <2>3 DEF Release, CountedOut
    <2>5. \A k \in Addresses : ips'[k] = Cardinality(LeasedBy(AddressOf, k)')
        BY <1>12, <1>a, <1>b, <1>c, <2>2, <2>3 DEF Release, CountedOut
    <2>6. slots' = Cardinality(Taken')
        BY <1>12, <1>a, <2>1 DEF Release, CountedOut
    <2> QED BY <2>4, <2>5, <2>6, CountsBySets DEF BySets
<1>13. ASSUME NEW r \in Requests, FreeSlot(r) PROVE CountsExact'
    <2>1. Go(r, "done") /\ Taken' = Taken \ {r} /\ r \in Taken /\ r \notin Leased
        BY <1>13, <1>a, <1>b, Moves DEF FreeSlot, SlotGivenBack, Taken, Leased, Passing
    <2>2. \A f, k : LeasedBy(f, k)' = LeasedBy(f, k)
        BY <2>1, <1>a, Moves DEF LeasedBy
    <2>3. Cardinality(Taken') = slots'
        BY <1>13, <1>a, <2>1, Finite, Counted DEF FreeSlot, SlotGivenBack
    <2> QED BY <1>13, <1>a, <2>2, <2>3, CountsBySets DEF FreeSlot, SlotGivenBack, BySets
<1>14. ASSUME NEW r \in Requests, WatchStops(r) PROVE CountsExact'
    BY <1>14, <1>a DEF WatchStops, guard, counts, CountsExact, Leased, Passing
<1>15. ASSUME NEW r \in Requests, WatchTimer(r) PROVE CountsExact'
    BY <1>15, <1>a DEF WatchTimer, guard, counts, CountsExact, Leased, Passing
<1>16. ASSUME NEW r \in Requests, Interrupt(r) PROVE CountsExact'
    BY <1>16, <1>a DEF Interrupt, InterruptedDeadline, guard, counts, CountsExact, Leased, Passing
<1>17. ASSUME NEW r \in Requests, WatchContext(r) PROVE CountsExact'
    BY <1>17, <1>a DEF WatchContext, guard, counts, CountsExact, Leased, Passing
<1>18. ASSUME NEW r \in Requests, TimerFires(r) PROVE CountsExact'
    BY <1>18, <1>a DEF TimerFires, guard, counts, CountsExact, Leased, Passing
<1>19. ASSUME NEW r \in Requests, DeadlinePasses(r) PROVE CountsExact'
    BY <1>19, <1>a DEF DeadlinePasses, guard, counts, CountsExact, Leased, Passing
<1>20. CASE UNCHANGED vars
    BY <1>20, <1>a DEF vars, counts, CountsExact, Leased, Passing
<1> QED BY <1>1, <1>2, <1>3, <1>4, <1>5, <1>6, <1>7, <1>8, <1>9, <1>10,
          <1>11, <1>12, <1>13, <1>14, <1>15, <1>16, <1>17, <1>18, <1>19, <1>20
       DEF Next, Handling, Watching

\* Types; what a caller gives back it has.
LEMMA TypeStep == Inv /\ [Next]_vars => TypeOK'
<1> SUFFICES ASSUME Inv, [Next]_vars PROVE TypeOK'
    OBVIOUS
<1>a. TypeOK /\ UserOf \in [Requests -> Users] /\ AddressOf \in [Requests -> Addresses]
      /\ Global \in Nat /\ PerUser \in Nat /\ PerIP \in Nat /\ MaxReads \in Nat
    BY AdmissionAssumption DEF Inv
<1>1. ASSUME NEW r \in Requests, TakeSlot(r) PROVE TypeOK'
    BY <1>1, <1>a DEF TakeSlot, Go, counts, guard, TypeOK
<1>2. ASSUME NEW r \in Requests, NoSlot(r) PROVE TypeOK'
    BY <1>2, <1>a DEF NoSlot, Go, counts, guard, TypeOK
<1>3. ASSUME NEW r \in Requests, ReadData(r) PROVE TypeOK'
    BY <1>3, <1>a DEF ReadData, Go, counts, guard, TypeOK
<1>4. ASSUME NEW r \in Requests, ReadEnds(r) PROVE TypeOK'
    BY <1>4, <1>a DEF ReadEnds, Go, counts, guard, TypeOK
<1>5. ASSUME NEW r \in Requests, Admit(r) PROVE TypeOK'
    BY <1>5, <1>a DEF Admit, Within, Go, counts, guard, TypeOK
<1>6. ASSUME NEW r \in Requests, Refuse(r) PROVE TypeOK'
    <2>1. r \in Taken
        BY <1>6 DEF Refuse, SlotGivenBack, Taken, Passing
    <2>2. slots > 0
        BY <2>1, CountsBySets, Finite, Counted DEF Inv, BySets
    <2> QED BY <1>6, <1>a, <2>2 DEF Refuse, SlotGivenBack, Go, guard, TypeOK
<1>7. ASSUME NEW r \in Requests, Protect(r) PROVE TypeOK'
    BY <1>7, <1>a DEF Protect, Go, counts, guard, TypeOK
<1>8. ASSUME NEW r \in Requests, Refresh(r) PROVE TypeOK'
    BY <1>8, <1>a DEF Refresh, Refreshed, Go, counts, guard, TypeOK
<1>9. ASSUME NEW r \in Requests, ReadTimesOut(r) PROVE TypeOK'
    BY <1>9, <1>a DEF ReadTimesOut, Go, counts, guard, TypeOK
<1>10. ASSUME NEW r \in Requests, Stop(r) PROVE TypeOK'
    BY <1>10, <1>a DEF Stop, Go, counts, guard, TypeOK
<1>11. ASSUME NEW r \in Requests, ClearDeadline(r) PROVE TypeOK'
    BY <1>11, <1>a DEF ClearDeadline, WatchDone, Go, counts, guard, TypeOK
<1>12. ASSUME NEW r \in Requests, Release(r) PROVE TypeOK'
    <2>1. r \in LeasedBy(UserOf, UserOf[r]) /\ r \in LeasedBy(AddressOf, AddressOf[r])
        BY <1>12, <1>a DEF Release, CountedOut, LeasedBy, Leased
    <2>2. users[UserOf[r]] > 0 /\ ips[AddressOf[r]] > 0
        BY <1>a, <2>1, CountsBySets, Finite, Counted DEF Inv, BySets
    <2> QED BY <1>12, <1>a, <2>2 DEF Release, CountedOut, Go, guard, TypeOK
<1>13. ASSUME NEW r \in Requests, FreeSlot(r) PROVE TypeOK'
    <2>1. r \in Taken
        BY <1>13 DEF FreeSlot, SlotGivenBack, Taken, Passing
    <2>2. slots > 0
        BY <2>1, CountsBySets, Finite, Counted DEF Inv, BySets
    <2> QED BY <1>13, <1>a, <2>2 DEF FreeSlot, SlotGivenBack, Go, guard, TypeOK
<1>14. ASSUME NEW r \in Requests, WatchStops(r) PROVE TypeOK'
    BY <1>14, <1>a DEF WatchStops, Go, counts, guard, TypeOK
<1>15. ASSUME NEW r \in Requests, WatchTimer(r) PROVE TypeOK'
    BY <1>15, <1>a DEF WatchTimer, Go, counts, guard, TypeOK
<1>16. ASSUME NEW r \in Requests, Interrupt(r) PROVE TypeOK'
    BY <1>16, <1>a DEF Interrupt, InterruptedDeadline, Go, counts, guard, TypeOK
<1>17. ASSUME NEW r \in Requests, WatchContext(r) PROVE TypeOK'
    BY <1>17, <1>a DEF WatchContext, Go, counts, guard, TypeOK
<1>18. ASSUME NEW r \in Requests, TimerFires(r) PROVE TypeOK'
    BY <1>18, <1>a DEF TimerFires, Go, counts, guard, TypeOK
<1>19. ASSUME NEW r \in Requests, DeadlinePasses(r) PROVE TypeOK'
    BY <1>19, <1>a DEF DeadlinePasses, Go, counts, guard, TypeOK
<1>20. CASE UNCHANGED vars
    BY <1>20, <1>a DEF vars, TypeOK
<1> QED BY <1>1, <1>2, <1>3, <1>4, <1>5, <1>6, <1>7, <1>8, <1>9, <1>10,
          <1>11, <1>12, <1>13, <1>14, <1>15, <1>16, <1>17, <1>18, <1>19, <1>20
       DEF Next, Handling, Watching

\* Deadlines.
LEMMA BodyStep == Inv /\ [Next]_vars => Body'
<1> SUFFICES ASSUME Inv, [Next]_vars PROVE Body'
    OBVIOUS
<1>a. TypeOK /\ Body
    BY DEF Inv
<1>1. ASSUME NEW r \in Requests, TakeSlot(r) PROVE Body'
    BY <1>1, <1>a DEF TakeSlot, Go, counts, guard, TypeOK, Body, Before, After
<1>2. ASSUME NEW r \in Requests, NoSlot(r) PROVE Body'
    BY <1>2, <1>a DEF NoSlot, Go, counts, guard, TypeOK, Body, Before, After
<1>3. ASSUME NEW r \in Requests, ReadData(r) PROVE Body'
    BY <1>3, <1>a DEF ReadData, Go, counts, guard, TypeOK, Body, Before, After
<1>4. ASSUME NEW r \in Requests, ReadEnds(r) PROVE Body'
    BY <1>4, <1>a DEF ReadEnds, Go, counts, guard, TypeOK, Body, Before, After
<1>5. ASSUME NEW r \in Requests, Admit(r) PROVE Body'
    BY <1>5, <1>a DEF Admit, Within, Go, counts, guard, TypeOK, Body, Before, After
<1>6. ASSUME NEW r \in Requests, Refuse(r) PROVE Body'
    BY <1>6, <1>a DEF Refuse, SlotGivenBack, Go, counts, guard, TypeOK, Body, Before, After
<1>7. ASSUME NEW r \in Requests, Protect(r) PROVE Body'
    BY <1>7, <1>a DEF Protect, Go, counts, guard, TypeOK, Body, Before, After
<1>8. ASSUME NEW r \in Requests, Refresh(r) PROVE Body'
    BY <1>8, <1>a DEF Refresh, Refreshed, Go, counts, guard, TypeOK, Body, Before, After
<1>9. ASSUME NEW r \in Requests, ReadTimesOut(r) PROVE Body'
    BY <1>9, <1>a DEF ReadTimesOut, Go, counts, guard, TypeOK, Body, Before, After
<1>10. ASSUME NEW r \in Requests, Stop(r) PROVE Body'
    BY <1>10, <1>a DEF Stop, Go, counts, guard, TypeOK, Body, Before, After
<1>11. ASSUME NEW r \in Requests, ClearDeadline(r) PROVE Body'
    BY <1>11, <1>a DEF ClearDeadline, WatchDone, Go, counts, guard, TypeOK, Body, Before, After
<1>12. ASSUME NEW r \in Requests, Release(r) PROVE Body'
    BY <1>12, <1>a DEF Release, CountedOut, Go, counts, guard, TypeOK, Body, Before, After
<1>13. ASSUME NEW r \in Requests, FreeSlot(r) PROVE Body'
    BY <1>13, <1>a DEF FreeSlot, SlotGivenBack, Go, counts, guard, TypeOK, Body, Before, After
<1>14. ASSUME NEW r \in Requests, WatchStops(r) PROVE Body'
    BY <1>14, <1>a DEF WatchStops, Go, counts, guard, TypeOK, Body, Before, After
<1>15. ASSUME NEW r \in Requests, WatchTimer(r) PROVE Body'
    BY <1>15, <1>a DEF WatchTimer, Go, counts, guard, TypeOK, Body, Before, After
<1>16. ASSUME NEW r \in Requests, Interrupt(r) PROVE Body'
    BY <1>16, <1>a DEF Interrupt, InterruptedDeadline, Go, counts, guard, TypeOK, Body, Before,
       After
<1>17. ASSUME NEW r \in Requests, WatchContext(r) PROVE Body'
    BY <1>17, <1>a DEF WatchContext, Go, counts, guard, TypeOK, Body, Before, After
<1>18. ASSUME NEW r \in Requests, TimerFires(r) PROVE Body'
    BY <1>18, <1>a DEF TimerFires, Go, counts, guard, TypeOK, Body, Before, After
<1>19. ASSUME NEW r \in Requests, DeadlinePasses(r) PROVE Body'
    BY <1>19, <1>a DEF DeadlinePasses, Go, counts, guard, TypeOK, Body, Before, After
<1>20. CASE UNCHANGED vars
    BY <1>20, <1>a DEF vars, Body
<1> QED BY <1>1, <1>2, <1>3, <1>4, <1>5, <1>6, <1>7, <1>8, <1>9, <1>10,
          <1>11, <1>12, <1>13, <1>14, <1>15, <1>16, <1>17, <1>18, <1>19, <1>20
       DEF Next, Handling, Watching

-----------------------------------------------------------------------------
(* Theorems                                                                 *)

LEMMA InitInv == Init => Inv
<1> SUFFICES ASSUME Init PROVE Inv
    OBVIOUS
<1>1. TypeOK /\ Body
    BY AdmissionAssumption DEF Init, TypeOK, Body, Before, After
<1>2. Taken = {} /\ \A f, k : LeasedBy(f, k) = {}
    BY DEF Init, Taken, LeasedBy, Leased, Passing
<1>3. CountsExact
    BY <1>2, CountsBySets, FS_EmptySet DEF Init, BySets
<1> QED BY <1>1, <1>3 DEF Inv

\* Types, counts and deadlines, together, are inductive.
THEOREM Invariance == Spec => []Inv
<1>1. Inv /\ [Next]_vars => Inv'
    BY TypeStep, CountsStep, BodyStep DEF Inv
<1> QED BY InitInv, <1>1, PTL DEF Spec

\* The three limits hold: no count leaves its range (limiter.go:39-56).
THEOREM TypeCorrect == Spec => []TypeOK
    BY Invariance, PTL DEF Inv

\* The counts are those of the leases (limiter.go:39-82).
THEOREM Counts == Spec => []CountsExact
    BY Invariance, PTL DEF Inv

\* No deadline survives its request, and interrupts hold (middleware.go:187-231).
THEOREM Deadlines == Spec => []DeadlinesRight
<1>1. Inv => DeadlinesRight
    BY DEF Inv, Body, DeadlinesRight, Before, After
<1> QED BY Invariance, <1>1, PTL

\* A refusal for want of a slot has a cause that is still there (limiter.go:41-45).
THEOREM Refusals == Spec => RefusalsHaveACause
<1>1. Inv /\ [Next]_vars =>
        [\A r \in Requests : pc[r] = "new" /\ pc'[r] = "refused" =>
            Cardinality(Leased) >= Global \/ Passing # {}]_vars
    <2> SUFFICES ASSUME Inv, Next, NEW r \in Requests, pc[r] = "new", pc'[r] = "refused"
                 PROVE  Cardinality(Leased) >= Global \/ Passing # {}
        BY DEF vars
    <2>1. pc \in [Requests -> {"new", "slot", "refused", "admitted", "read", "refresh", "stop",
                            "wait", "release", "free", "done"}]
          /\ slots = Cardinality(Leased \cup Passing) /\ Global \in Nat
        BY AdmissionAssumption DEF Inv, TypeOK, CountsExact
    <2>2. NoSlot(r)
        BY <2>1 DEF Next, Handling, Watching, Go, TakeSlot, NoSlot, ReadData, ReadEnds, Admit,
           Refuse,
                    Protect, Refresh, ReadTimesOut, Stop, ClearDeadline, Release, FreeSlot,
                    WatchStops, WatchTimer, WatchContext, Interrupt, TimerFires, DeadlinePasses
    <2>3. ASSUME Passing = {} PROVE Cardinality(Leased) = Global
        <3>1. Leased \cup Passing = Leased
            BY <2>3
        <3> QED BY <2>1, <2>2, <3>1 DEF NoSlot
    <2> QED BY <2>1, <2>3
<1> QED BY Invariance, <1>1, PTL DEF Spec, RefusalsHaveACause
=============================================================================
