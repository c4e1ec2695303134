-------------------------- MODULE SiteSettingsProofs --------------------------
(***************************************************************************)
(* Theorems about SiteSettings for any kinds, keys, requests, browsers and *)
(* limits.                                                                 *)
(*                                                                         *)
(* An id names one row and a slot names a row that exists (Ids).  A key    *)
(* goes through its life in one direction: fresh, held by the upload that  *)
(* drew it, in a row, queued, removed (Rows and Hands); nothing brings it  *)
(* back, and so a pass can remove what it listed however long ago.  What a *)
(* browser keeps was never above the largest id (Fresh).                   *)
(***************************************************************************)
EXTENDS SiteSettings, FiniteSetTheorems, TLAPS

\* TypeOK by what is typed.
TypeTables ==
    /\ slot \in [Kinds -> Nat] /\ row \in [Keys -> Nat]
    /\ kindOf \in [Keys -> Kinds \cup {None}]
    /\ cleanup \subseteq Keys /\ files \subseteq Keys /\ temps \subseteq Keys
    /\ mixed \subseteq Kinds /\ missed \subseteq Keys
    /\ emptied \in BOOLEAN /\ mishaps \in 0..MaxMishaps
TypeWork ==
    /\ at \in [Passes -> Places]
    /\ at[Startup] \in {"idle", "cleaning", "removing", "removed"}
    /\ seen \in [Requests -> [Kinds -> Nat]]
    /\ hand \in [Passes -> Keys \cup {None}]
    /\ \A r \in Requests : Held(r) => hand[r] \in Keys
TypeBatch ==
    /\ batch \in [Passes -> SUBSET Keys]
    /\ \A p \in Passes : Cardinality(batch[p]) <= Limit(p)
TypeReaders == asking \in [Browsers -> SUBSET Pairs] /\ cache \in [Browsers -> SUBSET Pairs]

Once(slots) == \A a, b \in Kinds : slots[a] # 0 /\ slots[a] = slots[b] => a = b

Ids ==
    /\ \A k, l \in Keys : row[k] # 0 /\ row[k] = row[l] => k = l
    /\ \A kind \in Kinds : slot[kind] = 0 \/ \E k \in Keys : row[k] = slot[kind]
    /\ Once(slot)
    /\ \A r \in Requests : Once(seen[r])

Rows ==
    /\ \A k \in Keys : row[k] # 0 => k \in files \ cleanup /\ kindOf[k] # None
    /\ \A kind \in Kinds, k \in Keys :
           slot[kind] # 0 /\ row[k] = slot[kind] /\ kind \notin mixed => kindOf[k] = kind

Drawn(k) == k \in Keys /\ kindOf[k] # None /\ row[k] = 0

Hands ==
    /\ \A k \in Keys : kindOf[k] = None => k \notin files \cup temps \cup cleanup
    /\ \A p \in Passes : \A k \in batch[p] : Drawn(k)
    /\ \A p \in Passes : hand[p] # None => kindOf[hand[p]] # None
    /\ \A p \in Passes : at[p] = "removed" => Drawn(hand[p]) /\ hand[p] \notin files
    /\ \A r \in Requests : Held(r) =>
           /\ Drawn(hand[r]) /\ hand[r] \notin cleanup
           /\ \A p \in Passes : hand[r] \notin batch[p] /\ (hand[p] = hand[r] => p = r)
           /\ IF at[r] = "receiving" THEN hand[r] \notin files ELSE hand[r] \in files \ temps

Fresh ==
    ~emptied =>
        \A b \in Browsers : \A pair \in asking[b] \cup cache[b] :
            /\ \A k \in Keys : row[k] = pair[1] => k = pair[2]
            /\ \E k \in Keys : row[k] >= pair[1]

Types == TypeTables /\ TypeWork /\ TypeBatch /\ TypeReaders

Inv == Types /\ Ids /\ Rows /\ Hands /\ NothingLost /\ Fresh

-----------------------------------------------------------------------------
(* What the steps do                                                       *)

LEMMA Batched ==
    ASSUME TypeTables, NEW p \in Passes, NEW keys \in Batches(p)
    PROVE  keys \subseteq cleanup /\ Cardinality(keys) <= Limit(p)
<1>1. Limit(p) \in Nat
    BY SiteAssumption DEF Limit
<1> QED BY <1>1 DEF Batches

LEMMA Fewer ==
    ASSUME NEW keys \in SUBSET Keys, NEW k, NEW n \in Nat, Cardinality(keys) <= n
    PROVE  Cardinality(keys \ {k}) <= n
<1>1. IsFiniteSet(keys)
    BY SiteAssumption, FS_Subset
<1>2. Cardinality(keys \ {k}) <= Cardinality(keys) /\ IsFiniteSet(keys \ {k})
    BY <1>1, FS_Subset, FS_CardinalityType
<1> QED BY <1>1, <1>2, FS_CardinalityType

\* The transaction of an upload: the new id is above all others.
Inserted(k, kind, id) ==
    /\ row[k] = 0 /\ k \in files \ temps /\ k \notin cleanup /\ kindOf[k] = kind
    /\ \A l \in Keys : row[l] < id
    /\ \A l \in Keys : row'[l] = IF l = k THEN id
                               ELSE IF slot[kind] # 0 /\ row[l] = slot[kind] THEN 0 ELSE row[l]
    /\ \A a \in Kinds : slot'[a] = IF a = kind THEN id ELSE slot[a]
    /\ \A l \in Keys : l \in cleanup' <=> l \in cleanup \/ (slot[kind] # 0 /\ row[l] = slot[kind])

LEMMA Inserts ==
    ASSUME Inv, NEW r \in Requests, Replace(r)
    PROVE  \E kind \in Kinds, id \in Nat \ {0} :
              /\ hand[r] \in Keys /\ Inserted(hand[r], kind, id)
              /\ row' \in [Keys -> Nat] /\ slot' \in [Kinds -> Nat]
              /\ cleanup' \subseteq Keys /\ mixed' = mixed \ {kind}
<1> DEFINE k == hand[r]
           kind == kindOf[k]
<1>1. Held(r) /\ at[r] = "stored"
    BY DEF Replace, Held
<1>2. k \in Keys /\ kind \in Kinds /\ row[k] = 0 /\ k \in files \ temps /\ k \notin cleanup
    BY <1>1 DEF Inv, Types, TypeTables, TypeWork, Hands, Drawn
<1>3. row \in [Keys -> Nat] /\ slot \in [Kinds -> Nat] /\ cleanup \subseteq Keys
    BY DEF Inv, Types, TypeTables
<1>4. PICK id \in NewIds(row) : /\ row' = [Without(kind) EXCEPT ![k] = id]
                                /\ slot' = [slot EXCEPT ![kind] = id]
                                /\ cleanup' = cleanup \cup Superseded(kind)
                                /\ mixed' = mixed \ {kind}
    BY DEF Replace, RowsAtInsert
<1>5. id \in Nat \ {0} /\ \A l \in Keys : row[l] < id
    BY <1>3, <1>4 DEF NewIds
<1>6. Without(kind) \in [Keys -> Nat]
    BY <1>3 DEF Without
<1>7. row' \in [Keys -> Nat] /\ slot' \in [Kinds -> Nat] /\ cleanup' \subseteq Keys
    BY <1>2, <1>3, <1>4, <1>5, <1>6 DEF Superseded
<1>8. Inserted(k, kind, id)
    BY <1>2, <1>3, <1>4, <1>5, <1>6 DEF Inserted, Without, Superseded
<1> QED BY <1>2, <1>4, <1>5, <1>7, <1>8

-----------------------------------------------------------------------------
(* Each part of Inv is kept by every step                                  *)

LEMMA TypeTablesStep ==
    ASSUME Inv, Next
    PROVE  TypeTables'
<1>1. \/ \E r \in Requests : WriteSettings(r)
      \/ \E r \in Requests, kind \in Kinds, k \in Keys : Receive(r, kind, k)
      \/ \E r \in Requests : Reject(r)
      \/ \E r \in Requests : Store(r)
      \/ \E r \in Requests : ChmodFails(r)
      \/ \E r \in Requests : Replace(r)
      \/ \E r \in Requests : Discard(r)
      \/ \E r \in Requests : DiscardFails(r)
      \/ \E r \in Requests, kind \in Kinds : Reset(r, kind)
      \/ \E p \in Passes, k \in Keys : RemoveFile(p, k)
      \/ \E p \in Passes : Complete(p)
      \/ Restart
      \/ UNCHANGED <<slot, row, kindOf, cleanup, files, temps, mixed, missed, emptied, mishaps>>
    BY DEF Next, Handling, Cleaning, ReadSettings, RefuseSettings, ReplaceFails, ListKeys,
       RemoveFails, EndPass, LookUp, Serve, table, disk, history
<1>2. ASSUME NEW r \in Requests, WriteSettings(r) PROVE TypeTables'
    BY <1>2, SiteAssumption DEF Inv, Types, TypeTables, TypeWork, Held, WriteSettings, Goes,
       Carried, Exist, NoSlots, Overtaken, Unslotted, disk
<1>3. ASSUME NEW r \in Requests, NEW kind \in Kinds, NEW k \in Keys, Receive(r, kind, k) PROVE TypeTables'
    BY <1>3, SiteAssumption DEF Inv, Types, TypeTables, TypeWork, Held, Receive, Goes, Begins,
       history
<1>4. ASSUME NEW r \in Requests, Reject(r) PROVE TypeTables'
    BY <1>4, SiteAssumption DEF Inv, Types, TypeTables, TypeWork, Held, Reject, Ends, Goes, table,
       history
<1>5. ASSUME NEW r \in Requests, Store(r) PROVE TypeTables'
    BY <1>5, SiteAssumption DEF Inv, Types, TypeTables, TypeWork, Held, Store, Goes, Rename, table,
       history
<1>6. ASSUME NEW r \in Requests, ChmodFails(r) PROVE TypeTables'
    BY <1>6, SiteAssumption DEF Inv, Types, TypeTables, TypeWork, Held, ChmodFails, Ends, Rename,
       Mishap, Goes, table
<1>7. ASSUME NEW r \in Requests, Replace(r) PROVE TypeTables'
    <2>1. PICK kind \in Kinds, id \in Nat \ {0} :
              /\ hand[r] \in Keys /\ Inserted(hand[r], kind, id)
              /\ row' \in [Keys -> Nat] /\ slot' \in [Kinds -> Nat]
              /\ cleanup' \subseteq Keys /\ mixed' = mixed \ {kind}
        BY <1>7, Inserts
    <2> QED BY <1>7, <2>1, SiteAssumption DEF Inv, Types, TypeTables, Inserted, Replace, Goes,
               Passes, table, disk, work, readers, history
<1>8. ASSUME NEW r \in Requests, Discard(r) PROVE TypeTables'
    BY <1>8, SiteAssumption DEF Inv, Types, TypeTables, TypeWork, Held, Discard, Ends, Goes, table,
       history
<1>9. ASSUME NEW r \in Requests, DiscardFails(r) PROVE TypeTables'
    BY <1>9, SiteAssumption DEF Inv, Types, TypeTables, TypeWork, Held, DiscardFails, Ends, Mishap,
       Goes, table, disk
<1>10. ASSUME NEW r \in Requests, NEW kind \in Kinds, Reset(r, kind) PROVE TypeTables'
    BY <1>10, SiteAssumption DEF Inv, Types, TypeTables, TypeWork, Held, Reset, Goes, Begins,
       Without, Superseded, disk
<1>11. ASSUME NEW p \in Passes, NEW k \in Keys, RemoveFile(p, k) PROVE TypeTables'
    BY <1>11, SiteAssumption DEF Inv, Types, TypeTables, TypeWork, Held, RemoveFile, Goes, Passes,
       table, history
<1>12. ASSUME NEW p \in Passes, Complete(p) PROVE TypeTables'
    BY <1>12, SiteAssumption DEF Inv, Types, TypeTables, TypeWork, Held, Complete, Goes, Passes,
       disk, history
<1>13. ASSUME Restart PROVE TypeTables'
    BY <1>13, SiteAssumption DEF Inv, Types, TypeTables, TypeWork, Held, Restart, Mishap, NoSlots,
       table, disk
<1>14. ASSUME UNCHANGED <<slot, row, kindOf, cleanup, files, temps, mixed, missed, emptied, mishaps>> PROVE TypeTables'
    BY <1>14 DEF Inv, Types, TypeTables
<1> QED BY <1>1, <1>2, <1>3, <1>4, <1>5, <1>6, <1>7, <1>8, <1>9, <1>10, <1>11, <1>12, <1>13, <1>14

LEMMA TypeWorkStep ==
    ASSUME Inv, Next
    PROVE  TypeWork'
<1>1. \/ \E r \in Requests : ReadSettings(r)
      \/ \E r \in Requests : WriteSettings(r)
      \/ \E r \in Requests : RefuseSettings(r)
      \/ \E r \in Requests, kind \in Kinds, k \in Keys : Receive(r, kind, k)
      \/ \E r \in Requests : Reject(r)
      \/ \E r \in Requests : Store(r)
      \/ \E r \in Requests : ChmodFails(r)
      \/ \E r \in Requests : Replace(r)
      \/ \E r \in Requests : ReplaceFails(r)
      \/ \E r \in Requests : Discard(r)
      \/ \E r \in Requests : DiscardFails(r)
      \/ \E r \in Requests, kind \in Kinds : Reset(r, kind)
      \/ \E p \in Passes : ListKeys(p)
      \/ \E p \in Passes, k \in Keys : RemoveFile(p, k)
      \/ \E p \in Passes : Complete(p)
      \/ \E p \in Passes : EndPass(p)
      \/ Restart
      \/ UNCHANGED <<at, seen, hand>>
    BY DEF Next, Handling, Cleaning, RemoveFails, LookUp, Serve, work
<1>2. ASSUME NEW r \in Requests, ReadSettings(r) PROVE TypeWork'
    BY <1>2, SiteAssumption DEF Inv, Types, TypeTables, TypeWork, Places, Held, TypeBatch, Limit,
       ReadSettings, Goes, Begins, Passes, table, disk, history
<1>3. ASSUME NEW r \in Requests, WriteSettings(r) PROVE TypeWork'
    BY <1>3, SiteAssumption DEF Inv, Types, TypeTables, TypeWork, Places, Held, TypeBatch, Limit,
       WriteSettings, Goes, Carried, Exist, NoSlots, Overtaken, Unslotted, Passes, disk
<1>4. ASSUME NEW r \in Requests, RefuseSettings(r) PROVE TypeWork'
    BY <1>4, SiteAssumption DEF Inv, Types, TypeTables, TypeWork, Places, Held, TypeBatch, Limit,
       RefuseSettings, Goes, NoSlots, Passes, table, disk, history
<1>5. ASSUME NEW r \in Requests, NEW kind \in Kinds, NEW k \in Keys, Receive(r, kind, k) PROVE TypeWork'
    BY <1>5, SiteAssumption DEF Inv, Types, TypeTables, TypeWork, Places, Held, TypeBatch, Limit,
       Receive, Goes, Begins, Passes, history
<1>6. ASSUME NEW r \in Requests, Reject(r) PROVE TypeWork'
    BY <1>6, SiteAssumption DEF Inv, Types, TypeTables, TypeWork, Places, Held, TypeBatch, Limit,
       Reject, Ends, Goes, Passes, table, history
<1>7. ASSUME NEW r \in Requests, Store(r) PROVE TypeWork'
    BY <1>7, SiteAssumption DEF Inv, Types, TypeTables, TypeWork, Places, Held, TypeBatch, Limit,
       Store, Goes, Rename, Passes, table, history
<1>8. ASSUME NEW r \in Requests, ChmodFails(r) PROVE TypeWork'
    BY <1>8, SiteAssumption DEF Inv, Types, TypeTables, TypeWork, Places, Held, TypeBatch, Limit,
       ChmodFails, Ends, Rename, Mishap, Goes, Passes, table
<1>9. ASSUME NEW r \in Requests, Replace(r) PROVE TypeWork'
    BY <1>9, SiteAssumption DEF Inv, Types, TypeTables, TypeWork, Places, Held, TypeBatch, Limit,
       Replace, Goes, Without, Superseded, Passes, disk
<1>10. ASSUME NEW r \in Requests, ReplaceFails(r) PROVE TypeWork'
    BY <1>10, SiteAssumption DEF Inv, Types, TypeTables, TypeWork, Places, Held, TypeBatch, Limit,
       ReplaceFails, Goes, Passes, table, disk, history
<1>11. ASSUME NEW r \in Requests, Discard(r) PROVE TypeWork'
    BY <1>11, SiteAssumption DEF Inv, Types, TypeTables, TypeWork, Places, Held, TypeBatch, Limit,
       Discard, Ends, Goes, Passes, table, history
<1>12. ASSUME NEW r \in Requests, DiscardFails(r) PROVE TypeWork'
    BY <1>12, SiteAssumption DEF Inv, Types, TypeTables, TypeWork, Places, Held, TypeBatch, Limit,
       DiscardFails, Ends, Mishap, Goes, Passes, table, disk
<1>13. ASSUME NEW r \in Requests, NEW kind \in Kinds, Reset(r, kind) PROVE TypeWork'
    BY <1>13, SiteAssumption DEF Inv, Types, TypeTables, TypeWork, Places, Held, TypeBatch, Limit,
       Reset, Goes, Begins, Without, Superseded, Passes, disk
<1>14. ASSUME NEW p \in Passes, ListKeys(p) PROVE TypeWork'
    BY <1>14, SiteAssumption DEF Inv, Types, TypeTables, TypeWork, Places, Held, TypeBatch, Limit,
       ListKeys, Goes, Batches, Passes, table, disk, history
<1>15. ASSUME NEW p \in Passes, NEW k \in Keys, RemoveFile(p, k) PROVE TypeWork'
    BY <1>15, SiteAssumption DEF Inv, Types, TypeTables, TypeWork, Places, Held, TypeBatch, Limit,
       RemoveFile, Goes, Passes, table, history
<1>16. ASSUME NEW p \in Passes, Complete(p) PROVE TypeWork'
    BY <1>16, SiteAssumption DEF Inv, Types, TypeTables, TypeWork, Places, Held, TypeBatch, Limit,
       Complete, Goes, Passes, disk, history
<1>17. ASSUME NEW p \in Passes, EndPass(p) PROVE TypeWork'
    BY <1>17, SiteAssumption DEF Inv, Types, TypeTables, TypeWork, Places, Held, TypeBatch, Limit,
       EndPass, Ends, Goes, Passes, table, disk, history
<1>18. ASSUME Restart PROVE TypeWork'
    BY <1>18, SiteAssumption DEF Inv, Types, TypeTables, TypeWork, Places, Held, TypeBatch, Limit,
       Restart, Mishap, NoSlots, Passes, table, disk
<1>19. ASSUME UNCHANGED <<at, seen, hand>> PROVE TypeWork'
    BY <1>19 DEF Inv, Types, TypeWork, Places, Held
<1> QED BY <1>1, <1>2, <1>3, <1>4, <1>5, <1>6, <1>7, <1>8, <1>9, <1>10, <1>11, <1>12, <1>13, <1>14,
           <1>15, <1>16, <1>17, <1>18, <1>19

LEMMA TypeBatchStep ==
    ASSUME Inv, Next
    PROVE  TypeBatch'
<1>1. \/ \E p \in Passes : ListKeys(p)
      \/ \E p \in Passes, k \in Keys : RemoveFile(p, k)
      \/ \E p \in Passes, k \in Keys : RemoveFails(p, k)
      \/ \E p \in Passes : EndPass(p)
      \/ Restart
      \/ UNCHANGED <<batch>>
    BY DEF Next, Handling, Cleaning, ReadSettings, WriteSettings, RefuseSettings, Receive, Reject,
       Store, ChmodFails, Replace, ReplaceFails, Discard, DiscardFails, Reset, Complete, LookUp, Serve, work
<1>2. ASSUME NEW p \in Passes, ListKeys(p) PROVE TypeBatch'
    <2>1. PICK keys \in Batches(p) : batch' = [batch EXCEPT ![p] = keys]
        BY <1>2 DEF ListKeys
    <2>2. keys \subseteq Keys /\ Cardinality(keys) <= Limit(p)
        BY <2>1, Batched DEF Inv, Types, TypeTables
    <2> QED BY <2>1, <2>2 DEF Inv, Types, TypeBatch, Limit
<1>3. ASSUME NEW p \in Passes, NEW k \in Keys, RemoveFile(p, k) PROVE TypeBatch'
    <2>1. batch' = [batch EXCEPT ![p] = batch[p] \ {k}]
        BY <1>3 DEF RemoveFile
    <2>2. batch[p] \ {k} \subseteq Keys /\ Cardinality(batch[p] \ {k}) <= Limit(p)
        BY Fewer, SiteAssumption DEF Inv, Types, TypeBatch, Limit
    <2> QED BY <2>1, <2>2 DEF Inv, Types, TypeBatch, Limit
<1>4. ASSUME NEW p \in Passes, NEW k \in Keys, RemoveFails(p, k) PROVE TypeBatch'
    <2>1. batch' = [batch EXCEPT ![p] = batch[p] \ {k}]
        BY <1>4 DEF RemoveFails
    <2>2. batch[p] \ {k} \subseteq Keys /\ Cardinality(batch[p] \ {k}) <= Limit(p)
        BY Fewer, SiteAssumption DEF Inv, Types, TypeBatch, Limit
    <2> QED BY <2>1, <2>2 DEF Inv, Types, TypeBatch, Limit
<1>5. ASSUME NEW p \in Passes, EndPass(p) PROVE TypeBatch'
    BY <1>5, SiteAssumption, FS_EmptySet DEF Inv, Types, TypeBatch, Limit, EndPass, Ends, Goes,
       Passes
<1>6. ASSUME Restart PROVE TypeBatch'
    BY <1>6, SiteAssumption, FS_EmptySet DEF Inv, Types, TypeBatch, Limit, Restart, Mishap, Held,
       NoSlots, Passes
<1>7. ASSUME UNCHANGED <<batch>> PROVE TypeBatch'
    BY <1>7 DEF Inv, Types, TypeBatch, Limit
<1> QED BY <1>1, <1>2, <1>3, <1>4, <1>5, <1>6, <1>7

LEMMA TypeReadersStep ==
    ASSUME Inv, Next
    PROVE  TypeReaders'
<1>1. \/ \E b \in Browsers, k \in Keys : LookUp(b, k)
      \/ \E b \in Browsers, k \in Keys : Serve(b, k)
      \/ Restart
      \/ UNCHANGED <<asking, cache>>
    BY DEF Next, Handling, Cleaning, ReadSettings, WriteSettings, RefuseSettings, Receive, Reject,
       Store, ChmodFails, Replace, ReplaceFails, Discard, DiscardFails, Reset, ListKeys, RemoveFile, RemoveFails, Complete, EndPass, readers
<1>2. ASSUME NEW b \in Browsers, NEW k \in Keys, LookUp(b, k) PROVE TypeReaders'
    BY <1>2, SiteAssumption DEF Inv, Types, TypeReaders, Pairs, TypeTables, LookUp, table, disk,
       history
<1>3. ASSUME NEW b \in Browsers, NEW k \in Keys, Serve(b, k) PROVE TypeReaders'
    BY <1>3, SiteAssumption DEF Inv, Types, TypeReaders, Pairs, TypeTables, Serve, table, disk,
       history
<1>4. ASSUME Restart PROVE TypeReaders'
    BY <1>4, SiteAssumption DEF Inv, Types, TypeReaders, Pairs, TypeTables, Restart, Mishap, Held,
       NoSlots, table, disk
<1>5. ASSUME UNCHANGED <<asking, cache>> PROVE TypeReaders'
    BY <1>5 DEF Inv, Types, TypeReaders, Pairs
<1> QED BY <1>1, <1>2, <1>3, <1>4, <1>5

LEMMA IdsStep ==
    ASSUME Inv, Next
    PROVE  Ids'
<1>1. \/ \E r \in Requests : ReadSettings(r)
      \/ \E r \in Requests : WriteSettings(r)
      \/ \E r \in Requests : RefuseSettings(r)
      \/ \E r \in Requests : Replace(r)
      \/ \E r \in Requests, kind \in Kinds : Reset(r, kind)
      \/ Restart
      \/ UNCHANGED <<slot, row, seen>>
    BY DEF Next, Handling, Cleaning, Receive, Reject, Store, ChmodFails, ReplaceFails, Discard,
       DiscardFails, ListKeys, RemoveFile, RemoveFails, Complete, EndPass, LookUp, Serve, table, work
<1>2. ASSUME NEW r \in Requests, ReadSettings(r) PROVE Ids'
    BY <1>2, SiteAssumption DEF Inv, Types, TypeTables, TypeWork, Held, Ids, Once, ReadSettings,
       Goes, Begins, table, disk, history
<1>3. ASSUME NEW r \in Requests, WriteSettings(r) PROVE Ids'
    BY <1>3, SiteAssumption DEF Inv, Types, TypeTables, TypeWork, Held, Ids, Once, WriteSettings,
       Goes, Carried, Exist, NoSlots, Overtaken, Unslotted, disk
<1>4. ASSUME NEW r \in Requests, RefuseSettings(r) PROVE Ids'
    BY <1>4, SiteAssumption DEF Inv, Types, TypeTables, TypeWork, Held, Ids, Once, RefuseSettings,
       Goes, NoSlots, table, disk, history
<1>5. ASSUME NEW r \in Requests, Replace(r) PROVE Ids'
    <2>1. PICK kind \in Kinds, id \in Nat \ {0} :
              /\ hand[r] \in Keys /\ Inserted(hand[r], kind, id)
              /\ row' \in [Keys -> Nat] /\ slot' \in [Kinds -> Nat]
              /\ cleanup' \subseteq Keys /\ mixed' = mixed \ {kind}
        BY <1>5, Inserts
    <2> QED BY <1>5, <2>1, SiteAssumption DEF Inv, Types, TypeTables, Ids, Once, Inserted, Replace,
               Goes, Passes, table, disk, work, readers, history
<1>6. ASSUME NEW r \in Requests, NEW kind \in Kinds, Reset(r, kind) PROVE Ids'
    BY <1>6, SiteAssumption DEF Inv, Types, TypeTables, TypeWork, Held, Ids, Once, Reset, Goes,
       Begins, Without, Superseded, disk
<1>7. ASSUME Restart PROVE Ids'
    BY <1>7, SiteAssumption DEF Inv, Types, TypeTables, TypeWork, Held, Ids, Once, Restart, Mishap,
       NoSlots, table, disk
<1>8. ASSUME UNCHANGED <<slot, row, seen>> PROVE Ids'
    BY <1>8 DEF Inv, Types, Ids, Once
<1> QED BY <1>1, <1>2, <1>3, <1>4, <1>5, <1>6, <1>7, <1>8

LEMMA RowsStep ==
    ASSUME Inv, Next
    PROVE  Rows'
<1>1. \/ \E r \in Requests : WriteSettings(r)
      \/ \E r \in Requests, kind \in Kinds, k \in Keys : Receive(r, kind, k)
      \/ \E r \in Requests : Store(r)
      \/ \E r \in Requests : ChmodFails(r)
      \/ \E r \in Requests : Replace(r)
      \/ \E r \in Requests : Discard(r)
      \/ \E r \in Requests, kind \in Kinds : Reset(r, kind)
      \/ \E p \in Passes, k \in Keys : RemoveFile(p, k)
      \/ \E p \in Passes : Complete(p)
      \/ UNCHANGED <<slot, row, kindOf, files, cleanup, mixed>>
    BY DEF Next, Handling, Cleaning, ReadSettings, RefuseSettings, Reject, ReplaceFails,
       DiscardFails, ListKeys, RemoveFails, EndPass, LookUp, Serve, Restart, table, disk, history
<1>2. ASSUME NEW r \in Requests, WriteSettings(r) PROVE Rows'
    BY <1>2, SiteAssumption DEF Inv, Types, TypeTables, TypeWork, Held, Rows, WriteSettings, Goes,
       Carried, Exist, NoSlots, Overtaken, Unslotted, disk
<1>3. ASSUME NEW r \in Requests, NEW kind \in Kinds, NEW k \in Keys, Receive(r, kind, k) PROVE Rows'
    BY <1>3, SiteAssumption DEF Inv, Types, TypeTables, TypeWork, Held, Rows, Receive, Goes,
       Begins, history
<1>4. ASSUME NEW r \in Requests, Store(r) PROVE Rows'
    BY <1>4, SiteAssumption DEF Inv, Types, TypeTables, TypeWork, Held, Rows, Store, Goes, Rename,
       table, history
<1>5. ASSUME NEW r \in Requests, ChmodFails(r) PROVE Rows'
    BY <1>5, SiteAssumption DEF Inv, Types, TypeTables, TypeWork, Held, Rows, ChmodFails, Ends,
       Rename, Mishap, Goes, table
<1>6. ASSUME NEW r \in Requests, Replace(r) PROVE Rows'
    <2>1. PICK kind \in Kinds, id \in Nat \ {0} :
              /\ hand[r] \in Keys /\ Inserted(hand[r], kind, id)
              /\ row' \in [Keys -> Nat] /\ slot' \in [Kinds -> Nat]
              /\ cleanup' \subseteq Keys /\ mixed' = mixed \ {kind}
        BY <1>6, Inserts
    <2> QED BY <1>6, <2>1, SiteAssumption DEF Inv, Types, TypeTables, TypeWork, Ids, Once, Rows,
               Hands, Drawn, Inserted, Replace, Goes, Passes, table, disk, work, readers, history
<1>7. ASSUME NEW r \in Requests, Discard(r) PROVE Rows'
    BY <1>7, SiteAssumption DEF Inv, Types, TypeTables, TypeWork, Held, TypeBatch, Limit, Hands,
       Drawn, Rows, Discard, Ends, Goes, table, history
<1>8. ASSUME NEW r \in Requests, NEW kind \in Kinds, Reset(r, kind) PROVE Rows'
    BY <1>8, SiteAssumption DEF Inv, Types, TypeTables, TypeWork, Held, Rows, Reset, Goes, Begins,
       Without, Superseded, disk
<1>9. ASSUME NEW p \in Passes, NEW k \in Keys, RemoveFile(p, k) PROVE Rows'
    BY <1>9, SiteAssumption DEF Inv, Types, TypeTables, TypeWork, Held, TypeBatch, Limit, Hands,
       Drawn, Rows, RemoveFile, Goes, Passes, table, history
<1>10. ASSUME NEW p \in Passes, Complete(p) PROVE Rows'
    BY <1>10, SiteAssumption DEF Inv, Types, TypeTables, TypeWork, Held, Rows, Complete, Goes,
       Passes, disk, history
<1>11. ASSUME UNCHANGED <<slot, row, kindOf, files, cleanup, mixed>> PROVE Rows'
    BY <1>11 DEF Inv, Types, Rows
<1> QED BY <1>1, <1>2, <1>3, <1>4, <1>5, <1>6, <1>7, <1>8, <1>9, <1>10, <1>11

LEMMA HandsStep ==
    ASSUME Inv, Next
    PROVE  Hands'
<1>1. \/ \E r \in Requests : ReadSettings(r)
      \/ \E r \in Requests : WriteSettings(r)
      \/ \E r \in Requests : RefuseSettings(r)
      \/ \E r \in Requests, kind \in Kinds, k \in Keys : Receive(r, kind, k)
      \/ \E r \in Requests : Reject(r)
      \/ \E r \in Requests : Store(r)
      \/ \E r \in Requests : ChmodFails(r)
      \/ \E r \in Requests : Replace(r)
      \/ \E r \in Requests : ReplaceFails(r)
      \/ \E r \in Requests : Discard(r)
      \/ \E r \in Requests : DiscardFails(r)
      \/ \E r \in Requests, kind \in Kinds : Reset(r, kind)
      \/ \E p \in Passes : ListKeys(p)
      \/ \E p \in Passes, k \in Keys : RemoveFile(p, k)
      \/ \E p \in Passes, k \in Keys : RemoveFails(p, k)
      \/ \E p \in Passes : Complete(p)
      \/ \E p \in Passes : EndPass(p)
      \/ Restart
      \/ UNCHANGED <<row, kindOf, files, temps, cleanup, hand, at, batch>>
    BY DEF Next, Handling, Cleaning, LookUp, Serve, table, disk, work
<1>2. ASSUME NEW r \in Requests, ReadSettings(r) PROVE Hands'
    BY <1>2, SiteAssumption DEF Inv, Types, TypeTables, TypeWork, Held, TypeBatch, Limit, Hands,
       Drawn, ReadSettings, Goes, Begins, Passes, table, disk, history
<1>3. ASSUME NEW r \in Requests, WriteSettings(r) PROVE Hands'
    BY <1>3, SiteAssumption DEF Inv, Types, TypeTables, TypeWork, Held, TypeBatch, Limit, Hands,
       Drawn, WriteSettings, Goes, Carried, Exist, NoSlots, Overtaken, Unslotted, Passes, disk
<1>4. ASSUME NEW r \in Requests, RefuseSettings(r) PROVE Hands'
    BY <1>4, SiteAssumption DEF Inv, Types, TypeTables, TypeWork, Held, TypeBatch, Limit, Hands,
       Drawn, RefuseSettings, Goes, NoSlots, Passes, table, disk, history
<1>5. ASSUME NEW r \in Requests, NEW kind \in Kinds, NEW k \in Keys, Receive(r, kind, k) PROVE Hands'
    BY <1>5, SiteAssumption DEF Inv, Types, TypeTables, TypeWork, Held, TypeBatch, Limit, Rows,
       Hands, Drawn, Receive, Goes, Begins, Passes, history
<1>6. ASSUME NEW r \in Requests, Reject(r) PROVE Hands'
    BY <1>6, SiteAssumption DEF Inv, Types, TypeTables, TypeWork, Held, TypeBatch, Limit, Hands,
       Drawn, Reject, Ends, Goes, Passes, table, history
<1>7. ASSUME NEW r \in Requests, Store(r) PROVE Hands'
    BY <1>7, SiteAssumption DEF Inv, Types, TypeTables, TypeWork, Held, TypeBatch, Limit, Hands,
       Drawn, Store, Goes, Rename, Passes, table, history
<1>8. ASSUME NEW r \in Requests, ChmodFails(r) PROVE Hands'
    BY <1>8, SiteAssumption DEF Inv, Types, TypeTables, TypeWork, Held, TypeBatch, Limit, Hands,
       Drawn, ChmodFails, Ends, Rename, Mishap, Goes, Passes, table
<1>9. ASSUME NEW r \in Requests, Replace(r) PROVE Hands'
    <2>1. PICK kind \in Kinds, id \in Nat \ {0} :
              /\ hand[r] \in Keys /\ Inserted(hand[r], kind, id)
              /\ row' \in [Keys -> Nat] /\ slot' \in [Kinds -> Nat]
              /\ cleanup' \subseteq Keys /\ mixed' = mixed \ {kind}
        BY <1>9, Inserts
    <2> QED BY <1>9, <2>1, SiteAssumption DEF Inv, Types, TypeTables, TypeWork, Places, Ids, Once,
               Rows, Hands, Drawn, Held, Inserted, Replace, Goes, Passes, table, disk, work, readers, history
<1>10. ASSUME NEW r \in Requests, ReplaceFails(r) PROVE Hands'
    BY <1>10, SiteAssumption DEF Inv, Types, TypeTables, TypeWork, Held, TypeBatch, Limit, Hands,
       Drawn, ReplaceFails, Goes, Passes, table, disk, history
<1>11. ASSUME NEW r \in Requests, Discard(r) PROVE Hands'
    BY <1>11, SiteAssumption DEF Inv, Types, TypeTables, TypeWork, Held, TypeBatch, Limit, Hands,
       Drawn, Discard, Ends, Goes, Passes, table, history
<1>12. ASSUME NEW r \in Requests, DiscardFails(r) PROVE Hands'
    BY <1>12, SiteAssumption DEF Inv, Types, TypeTables, TypeWork, Held, TypeBatch, Limit, Hands,
       Drawn, DiscardFails, Ends, Mishap, Goes, Passes, table, disk
<1>13. ASSUME NEW r \in Requests, NEW kind \in Kinds, Reset(r, kind) PROVE Hands'
    BY <1>13, SiteAssumption DEF Inv, Types, TypeTables, TypeWork, Held, TypeBatch, Limit, Rows,
       Hands, Drawn, Reset, Goes, Begins, Without, Superseded, Passes, disk
<1>14. ASSUME NEW p \in Passes, ListKeys(p) PROVE Hands'
    BY <1>14, SiteAssumption DEF Inv, Types, TypeTables, TypeWork, Held, TypeBatch, Limit, Rows,
       Hands, Drawn, ListKeys, Goes, Batches, Passes, table, disk, history
<1>15. ASSUME NEW p \in Passes, NEW k \in Keys, RemoveFile(p, k) PROVE Hands'
    BY <1>15, SiteAssumption DEF Inv, Types, TypeTables, TypeWork, Held, TypeBatch, Limit, Hands,
       Drawn, RemoveFile, Goes, Passes, table, history
<1>16. ASSUME NEW p \in Passes, NEW k \in Keys, RemoveFails(p, k) PROVE Hands'
    BY <1>16, SiteAssumption DEF Inv, Types, TypeTables, TypeWork, Held, TypeBatch, Limit, Hands,
       Drawn, RemoveFails, Passes, table, disk, history
<1>17. ASSUME NEW p \in Passes, Complete(p) PROVE Hands'
    BY <1>17, SiteAssumption DEF Inv, Types, TypeTables, TypeWork, Held, TypeBatch, Limit, Hands,
       Drawn, Complete, Goes, Passes, disk, history
<1>18. ASSUME NEW p \in Passes, EndPass(p) PROVE Hands'
    BY <1>18, SiteAssumption DEF Inv, Types, TypeTables, TypeWork, Held, TypeBatch, Limit, Hands,
       Drawn, EndPass, Ends, Goes, Passes, table, disk, history
<1>19. ASSUME Restart PROVE Hands'
    BY <1>19, SiteAssumption DEF Inv, Types, TypeTables, TypeWork, Held, TypeBatch, Limit, Hands,
       Drawn, Restart, Mishap, NoSlots, Passes, table, disk
<1>20. ASSUME UNCHANGED <<row, kindOf, files, temps, cleanup, hand, at, batch>> PROVE Hands'
    BY <1>20 DEF Inv, Types, Hands, Drawn, Held
<1> QED BY <1>1, <1>2, <1>3, <1>4, <1>5, <1>6, <1>7, <1>8, <1>9, <1>10, <1>11, <1>12, <1>13, <1>14,
           <1>15, <1>16, <1>17, <1>18, <1>19, <1>20

LEMMA NothingLostStep ==
    ASSUME Inv, Next
    PROVE  NothingLost'
<1>1. \/ \E r \in Requests : ReadSettings(r)
      \/ \E r \in Requests : WriteSettings(r)
      \/ \E r \in Requests : RefuseSettings(r)
      \/ \E r \in Requests, kind \in Kinds, k \in Keys : Receive(r, kind, k)
      \/ \E r \in Requests : Reject(r)
      \/ \E r \in Requests : Store(r)
      \/ \E r \in Requests : ChmodFails(r)
      \/ \E r \in Requests : Replace(r)
      \/ \E r \in Requests : ReplaceFails(r)
      \/ \E r \in Requests : Discard(r)
      \/ \E r \in Requests : DiscardFails(r)
      \/ \E r \in Requests, kind \in Kinds : Reset(r, kind)
      \/ \E p \in Passes : ListKeys(p)
      \/ \E p \in Passes, k \in Keys : RemoveFile(p, k)
      \/ \E p \in Passes : Complete(p)
      \/ \E p \in Passes : EndPass(p)
      \/ Restart
      \/ UNCHANGED <<slot, row, files, temps, cleanup, hand, at, missed>>
    BY DEF Next, Handling, Cleaning, RemoveFails, LookUp, Serve, table, disk, work, history
<1>2. ASSUME NEW r \in Requests, ReadSettings(r) PROVE NothingLost'
    BY <1>2, SiteAssumption DEF Inv, Types, TypeTables, TypeWork, Held, NothingLost, ReadSettings,
       Goes, Begins, Passes, table, disk, history
<1>3. ASSUME NEW r \in Requests, WriteSettings(r) PROVE NothingLost'
    BY <1>3, SiteAssumption DEF Inv, Types, TypeTables, TypeWork, Held, NothingLost, WriteSettings,
       Goes, Carried, Exist, NoSlots, Overtaken, Unslotted, Passes, disk
<1>4. ASSUME NEW r \in Requests, RefuseSettings(r) PROVE NothingLost'
    BY <1>4, SiteAssumption DEF Inv, Types, TypeTables, TypeWork, Held, NothingLost,
       RefuseSettings, Goes, NoSlots, Passes, table, disk, history
<1>5. ASSUME NEW r \in Requests, NEW kind \in Kinds, NEW k \in Keys, Receive(r, kind, k) PROVE NothingLost'
    BY <1>5, SiteAssumption DEF Inv, Types, TypeTables, TypeWork, Held, NothingLost, Receive, Goes,
       Begins, Passes, history
<1>6. ASSUME NEW r \in Requests, Reject(r) PROVE NothingLost'
    BY <1>6, SiteAssumption DEF Inv, Types, TypeTables, TypeWork, Held, NothingLost, Reject, Ends,
       Goes, Passes, table, history
<1>7. ASSUME NEW r \in Requests, Store(r) PROVE NothingLost'
    BY <1>7, SiteAssumption DEF Inv, Types, TypeTables, TypeWork, Held, NothingLost, Store, Goes,
       Rename, Passes, table, history
<1>8. ASSUME NEW r \in Requests, ChmodFails(r) PROVE NothingLost'
    BY <1>8, SiteAssumption DEF Inv, Types, TypeTables, TypeWork, Held, NothingLost, ChmodFails,
       Ends, Rename, Mishap, Goes, Passes, table
<1>9. ASSUME NEW r \in Requests, Replace(r) PROVE NothingLost'
    <2>1. PICK kind \in Kinds, id \in Nat \ {0} :
              /\ hand[r] \in Keys /\ Inserted(hand[r], kind, id)
              /\ row' \in [Keys -> Nat] /\ slot' \in [Kinds -> Nat]
              /\ cleanup' \subseteq Keys /\ mixed' = mixed \ {kind}
        BY <1>9, Inserts
    <2> QED BY <1>9, <2>1, SiteAssumption DEF Inv, Types, TypeTables, TypeWork, Places, Ids, Once,
               Hands, Drawn, Held, NothingLost, Inserted, Replace, Goes, Passes, table, disk, work, readers, history
<1>10. ASSUME NEW r \in Requests, ReplaceFails(r) PROVE NothingLost'
    BY <1>10, SiteAssumption DEF Inv, Types, TypeTables, TypeWork, Held, NothingLost, ReplaceFails,
       Goes, Passes, table, disk, history
<1>11. ASSUME NEW r \in Requests, Discard(r) PROVE NothingLost'
    BY <1>11, SiteAssumption DEF Inv, Types, TypeTables, TypeWork, Held, NothingLost, Discard,
       Ends, Goes, Passes, table, history
<1>12. ASSUME NEW r \in Requests, DiscardFails(r) PROVE NothingLost'
    BY <1>12, SiteAssumption DEF Inv, Types, TypeTables, TypeWork, Held, NothingLost, DiscardFails,
       Ends, Mishap, Goes, Passes, table, disk
<1>13. ASSUME NEW r \in Requests, NEW kind \in Kinds, Reset(r, kind) PROVE NothingLost'
    BY <1>13, SiteAssumption DEF Inv, Types, TypeTables, TypeWork, Held, NothingLost, Reset, Goes,
       Begins, Without, Superseded, Passes, disk
<1>14. ASSUME NEW p \in Passes, ListKeys(p) PROVE NothingLost'
    BY <1>14, SiteAssumption DEF Inv, Types, TypeTables, TypeWork, Held, NothingLost, ListKeys,
       Goes, Batches, Passes, table, disk, history
<1>15. ASSUME NEW p \in Passes, NEW k \in Keys, RemoveFile(p, k) PROVE NothingLost'
    BY <1>15, SiteAssumption DEF Inv, Types, TypeTables, TypeWork, Held, NothingLost, RemoveFile,
       Goes, Passes, table, history
<1>16. ASSUME NEW p \in Passes, Complete(p) PROVE NothingLost'
    BY <1>16, SiteAssumption DEF Inv, Types, TypeTables, TypeWork, Held, Hands, Drawn, NothingLost,
       Complete, Goes, Passes, disk, history
<1>17. ASSUME NEW p \in Passes, EndPass(p) PROVE NothingLost'
    BY <1>17, SiteAssumption DEF Inv, Types, TypeTables, TypeWork, Held, NothingLost, EndPass,
       Ends, Goes, Passes, table, disk, history
<1>18. ASSUME Restart PROVE NothingLost'
    BY <1>18, SiteAssumption DEF Inv, Types, TypeTables, TypeWork, Held, NothingLost, Restart,
       Mishap, NoSlots, Passes, table, disk
<1>19. ASSUME UNCHANGED <<slot, row, files, temps, cleanup, hand, at, missed>> PROVE NothingLost'
    BY <1>19 DEF Inv, Types, NothingLost
<1> QED BY <1>1, <1>2, <1>3, <1>4, <1>5, <1>6, <1>7, <1>8, <1>9, <1>10, <1>11, <1>12, <1>13, <1>14,
           <1>15, <1>16, <1>17, <1>18, <1>19

LEMMA FreshStep ==
    ASSUME Inv, Next
    PROVE  Fresh'
<1>1. \/ \E r \in Requests : Replace(r)
      \/ \E r \in Requests, kind \in Kinds : Reset(r, kind)
      \/ \E b \in Browsers, k \in Keys : LookUp(b, k)
      \/ \E b \in Browsers, k \in Keys : Serve(b, k)
      \/ Restart
      \/ UNCHANGED <<row, asking, cache, emptied>>
    BY DEF Next, Handling, Cleaning, ReadSettings, WriteSettings, RefuseSettings, Receive, Reject,
       Store, ChmodFails, ReplaceFails, Discard, DiscardFails, ListKeys, RemoveFile, RemoveFails, Complete, EndPass, table, readers, history
<1>2. ASSUME NEW r \in Requests, Replace(r) PROVE Fresh'
    <2>1. PICK kind \in Kinds, id \in Nat \ {0} :
              /\ hand[r] \in Keys /\ Inserted(hand[r], kind, id)
              /\ row' \in [Keys -> Nat] /\ slot' \in [Kinds -> Nat]
              /\ cleanup' \subseteq Keys /\ mixed' = mixed \ {kind}
        BY <1>2, Inserts
    <2> QED BY <1>2, <2>1, SiteAssumption DEF Inv, Types, TypeTables, TypeReaders, Pairs, Fresh,
               Inserted, Replace, Goes, Passes, table, disk, work, readers, history
<1>3. ASSUME NEW r \in Requests, NEW kind \in Kinds, Reset(r, kind) PROVE Fresh'
    BY <1>3, SiteAssumption DEF Inv, Types, TypeTables, TypeReaders, Pairs, Fresh, Reset, Goes,
       Begins, Without, Superseded, disk, readers
<1>4. ASSUME NEW b \in Browsers, NEW k \in Keys, LookUp(b, k) PROVE Fresh'
    BY <1>4, SiteAssumption DEF Inv, Types, TypeTables, TypeReaders, Pairs, Ids, Once, Fresh,
       LookUp, table, disk, work, history
<1>5. ASSUME NEW b \in Browsers, NEW k \in Keys, Serve(b, k) PROVE Fresh'
    BY <1>5, SiteAssumption DEF Inv, Types, TypeTables, TypeReaders, Pairs, Fresh, Serve, table,
       disk, history
<1>6. ASSUME Restart PROVE Fresh'
    BY <1>6, SiteAssumption DEF Inv, Types, TypeTables, TypeReaders, Pairs, Fresh, Restart, Mishap,
       Held, NoSlots, table, disk
<1>7. ASSUME UNCHANGED <<row, asking, cache, emptied>> PROVE Fresh'
    BY <1>7 DEF Inv, Types, Fresh
<1> QED BY <1>1, <1>2, <1>3, <1>4, <1>5, <1>6, <1>7

-----------------------------------------------------------------------------
(* Theorems                                                                *)

LEMMA TypesMean == Types => TypeOK
    BY DEF Types, TypeTables, TypeWork, TypeBatch, TypeReaders, TypeOK

LEMMA InitInv == Init => Inv
<1> SUFFICES ASSUME Init PROVE Inv
    OBVIOUS
<1>1. TypeTables
    <2>1. slot \in [Kinds -> Nat] /\ row \in [Keys -> Nat] /\ kindOf \in [Keys -> Kinds \cup {None}]
        BY DEF Init, NoSlots
    <2>2. mishaps \in 0..MaxMishaps
        BY SiteAssumption DEF Init
    <2>3. emptied \in BOOLEAN
        BY DEF Init
    <2> QED BY <2>1, <2>2, <2>3 DEF Init, TypeTables
<1>2. TypeWork
    BY SiteAssumption DEF Init, TypeWork, NoSlots, Passes, Places, Held
<1>3. TypeBatch
    BY SiteAssumption, FS_EmptySet DEF Init, TypeBatch, Limit, Passes
<1>4. TypeReaders
    BY DEF Init, TypeReaders
<1>5. Ids
    BY DEF Init, Ids, Once, NoSlots
<1>6. Rows /\ Fresh /\ NothingLost
    BY DEF Init, Rows, Fresh, NothingLost, NoSlots
<1>7. Hands
    BY SiteAssumption DEF Init, Hands, Drawn, Held, Passes
<1> QED BY <1>1, <1>2, <1>3, <1>4, <1>5, <1>6, <1>7 DEF Inv, Types

\* The life of ids, keys and files is an inductive invariant.
THEOREM Invariance == Spec => []Inv
<1>1. Inv /\ Next => Inv'
    BY TypeTablesStep, TypeWorkStep, TypeBatchStep, TypeReadersStep, IdsStep, RowsStep, HandsStep,
       NothingLostStep, FreshStep DEF Inv, Types
<1>2. Inv /\ UNCHANGED vars => Inv'
    BY DEF Inv, Types, TypeTables, TypeWork, TypeBatch, TypeReaders, Ids, Once, Rows, Hands, Drawn,
           Held, NothingLost, Fresh, vars
<1> QED BY <1>1, <1>2, InitInv, PTL DEF Spec

\* A pass keeps to its limit (recovery.go:18-24).
THEOREM TypeCorrect == Spec => []TypeOK
    BY Invariance, TypesMean, PTL DEF Inv

\* What is configured can be served (site_settings.go:124-130, repository.go:249-297).
THEOREM Serves == Spec => []SlotsServe
<1>1. Inv => SlotsServe
    BY DEF Inv, Ids, Rows, SlotsServe
<1> QED BY Invariance, <1>1, PTL

\* No file is forgotten (site_settings.go:146-177, recovery.go:26-39).
THEOREM Accounted == Spec => []NothingLost
    BY Invariance, PTL DEF Inv

\* Replacing an asset changes its address (repository.go:258-286).
THEOREM Addresses == Spec => []FreshAddress
<1>1. Inv => FreshAddress
    BY DEF Inv, Types, TypeTables, TypeReaders, Pairs, Ids, Fresh, FreshAddress
<1> QED BY Invariance, <1>1, PTL
=============================================================================
