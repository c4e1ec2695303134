------------------------------ MODULE SiteSettings ------------------------------
(***************************************************************************)
(* Site settings and branding assets: the handlers of site_settings.go,    *)
(* the transactions of Repository they call, siteassets.Store and its      *)
(* cleanup queue, and the browsers that keep what serveSiteAsset sent.     *)
(*                                                                         *)
(* The texts of the settings row are replaced as a whole by every PUT and  *)
(* are left out; its three references to assets are not sent by the        *)
(* administrator but read before the update, and that is what races.       *)
(* An opaque key is 256 random bits: no key is drawn twice.                *)
(***************************************************************************)
EXTENDS Naturals, FiniteSets

CONSTANTS
    Kinds,        \* login_logo, nav_logo and favicon
    Keys,         \* opaque keys (bounds the number of uploads)
    Requests,     \* requests of administrators in progress at once
    Startup,      \* the cleanup pass main runs before it serves
    Browsers,
    RequestLimit, \* the 16 of cleanupSiteAssets
    StartupLimit, \* the -recover-limit of main
    MaxMishaps,   \* bound on crashes and failing file operations together
    None

Passes == Requests \cup {Startup}

ASSUME SiteAssumption ==
    /\ IsFiniteSet(Keys) /\ None \notin Keys \cup Kinds
    /\ Startup \notin Requests
    /\ RequestLimit \in Nat \ {0} /\ StartupLimit \in Nat \ {0}
    /\ MaxMishaps \in Nat

VARIABLES
    slot,     \* site_settings: the asset id of each kind, 0 for NULL
    row,      \* site_assets: the id of the row with this opaque_key, 0 for none
    kindOf,   \* the kind the key was drawn for, None when it is still to be drawn
    cleanup,  \* site_asset_cleanup
    files,    \* objects under site/
    temps,    \* temporary files of Store.Put, by the key they are to have
    at,       \* where each request, and the pass at startup, is
    seen,     \* the slots putAdminSiteSettings read
    hand,     \* the key a request or a pass is dealing with
    batch,    \* keys of SiteAssetCleanupKeys still to be removed
    asking,   \* what the row said that serveSiteAssetID is about to open
    cache,    \* the id and the key of a picture that the browser will not ask for again
    mixed,    \* kinds an overtaken PUT wrote and nobody wrote since (history)
    missed,   \* keys whose file nothing will remove any more (history)
    emptied,  \* an asset was reset (history)
    mishaps

table == <<slot, row, kindOf, cleanup>>
disk == <<files, temps>>
work == <<at, seen, hand, batch>>
readers == <<asking, cache>>
history == <<mixed, missed, emptied>>
vars == <<slot, row, kindOf, cleanup, files, temps, at, seen, hand, batch, asking, cache,
          mixed, missed, emptied, mishaps>>

Mishap == mishaps < MaxMishaps /\ mishaps' = mishaps + 1

NoSlots == [kind \in Kinds |-> 0]
Serving == at[Startup] = "idle"

Init ==
    /\ slot = NoSlots
    /\ row = [k \in Keys |-> 0] /\ kindOf = [k \in Keys |-> None]
    /\ cleanup = {} /\ files = {} /\ temps = {}
    /\ \E start \in {"cleaning", "idle"} :      \* -recover-on-start
           at = [p \in Passes |-> IF p = Startup THEN start ELSE "idle"]
    /\ seen = [r \in Requests |-> NoSlots]
    /\ hand = [p \in Passes |-> None]
    /\ batch = [p \in Passes |-> {}]
    /\ asking = [b \in Browsers |-> {}] /\ cache = [b \in Browsers |-> {}]
    /\ mixed = {} /\ missed = {} /\ emptied = FALSE
    /\ mishaps = 0

Goes(p, place) == at' = [at EXCEPT ![p] = place]
Ends(p) == Goes(p, "idle") /\ hand' = [hand EXCEPT ![p] = None]
Begins(r) == Serving /\ at[r] = "idle"

(***************************************************************************)
(* PUT /api/admin/site-settings                                            *)
(***************************************************************************)
ReadSettings(r) ==
    /\ Begins(r)
    /\ seen' = [seen EXCEPT ![r] = slot]
    /\ Goes(r, "settings")
    /\ UNCHANGED <<table, disk, hand, batch, readers, history, mishaps>>

\* Faulty variant: foreign keys are off.
Unenforced(r) == TRUE

\* The foreign keys of site_settings.
Exist(r) == \A kind \in Kinds : seen[r][kind] = 0 \/ \E k \in Keys : row[k] = seen[r][kind]

\* Faulty variant: the request says it all.
NotCarried(r) == NoSlots

\* The references the update carries are those that were read.
Carried(r) == seen[r]

\* Kinds whose asset changed since r read them, and the assets of those kinds that
\* the update takes out of their slot: only a slot names an asset for removal.
Overtaken(r) == {kind \in Kinds : seen[r][kind] # slot[kind]}
Unslotted(r) == {k \in Keys : row[k] # 0 /\ \E kind \in Overtaken(r) : slot[kind] = row[k]}

WriteSettings(r) ==
    /\ at[r] = "settings" /\ Exist(r)
    /\ slot' = Carried(r)
    /\ mixed' = mixed \cup Overtaken(r)
    /\ missed' = missed \cup Unslotted(r)
    /\ seen' = [seen EXCEPT ![r] = NoSlots]
    /\ Goes(r, "idle")
    /\ UNCHANGED <<row, kindOf, cleanup, disk, hand, batch, readers, emptied, mishaps>>

\* Invalid texts, an id that is gone, a failing transaction.
RefuseSettings(r) ==
    /\ at[r] = "settings"
    /\ seen' = [seen EXCEPT ![r] = NoSlots]
    /\ Goes(r, "idle")
    /\ UNCHANGED <<table, disk, hand, batch, readers, history, mishaps>>

(***************************************************************************)
(* POST /api/admin/site-settings/assets/{kind}: Store.Put, then the        *)
(* transaction, then a cleanup pass                                        *)
(***************************************************************************)
Receive(r, kind, k) ==
    /\ Begins(r) /\ kindOf[k] = None
    /\ kindOf' = [kindOf EXCEPT ![k] = kind]
    /\ temps' = temps \cup {k}
    /\ hand' = [hand EXCEPT ![r] = k]
    /\ Goes(r, "receiving")
    /\ UNCHANGED <<slot, row, cleanup, files, seen, batch, readers, history, mishaps>>

\* Too large, not an image, a read that fails: the deferred os.Remove.
Reject(r) ==
    /\ at[r] = "receiving"
    /\ temps' = temps \ {hand[r]}
    /\ Ends(r)
    /\ UNCHANGED <<table, files, seen, batch, readers, history, mishaps>>

Rename(r) ==
    /\ at[r] = "receiving"
    /\ temps' = temps \ {hand[r]}
    /\ files' = files \cup {hand[r]}

Store(r) ==
    /\ Rename(r)
    /\ Goes(r, "stored")
    /\ UNCHANGED <<table, seen, hand, batch, readers, history, mishaps>>

\* Put fails after the rename and leaves the file.
ChmodFails(r) ==
    /\ Rename(r) /\ Mishap
    /\ missed' = missed \cup {hand[r]}
    /\ Ends(r)
    /\ UNCHANGED <<table, seen, batch, readers, mixed, emptied>>

\* The asset that the slot names, and the table without it.
Superseded(kind) == {k \in Keys : slot[kind] # 0 /\ row[k] = slot[kind]}
Without(kind) == [k \in Keys |-> IF k \in Superseded(kind) THEN 0 ELSE row[k]]

\* Faulty variant: the old row is deleted first.
RowsAfterDelete(kind) == Without(kind)

\* INTEGER PRIMARY KEY without AUTOINCREMENT: one more than the largest id.  The
\* new row is inserted while the one it replaces is still there.
RowsAtInsert(kind) == row
NewIds(rows) == {n \in {1} \cup {rows[k] + 1 : k \in Keys} : \A k \in Keys : rows[k] < n}

Replace(r) ==
    /\ at[r] = "stored"
    /\ LET k == hand[r]
           kind == kindOf[k]
       IN  \E id \in NewIds(RowsAtInsert(kind)) :
              /\ row' = [Without(kind) EXCEPT ![k] = id]
              /\ slot' = [slot EXCEPT ![kind] = id]
              /\ cleanup' = cleanup \cup Superseded(kind)
              /\ mixed' = mixed \ {kind}
    /\ hand' = [hand EXCEPT ![r] = None]
    /\ Goes(r, "cleaning")
    /\ UNCHANGED <<kindOf, disk, seen, batch, readers, missed, emptied, mishaps>>

\* The transaction fails; the handler removes the file and ignores how that ends.
ReplaceFails(r) ==
    /\ at[r] = "stored"
    /\ Goes(r, "unsaved")
    /\ UNCHANGED <<table, disk, seen, hand, batch, readers, history, mishaps>>

Discard(r) ==
    /\ at[r] = "unsaved"
    /\ files' = files \ {hand[r]}
    /\ Ends(r)
    /\ UNCHANGED <<table, temps, seen, batch, readers, history, mishaps>>

DiscardFails(r) ==
    /\ at[r] = "unsaved" /\ Mishap
    /\ missed' = missed \cup {hand[r]}
    /\ Ends(r)
    /\ UNCHANGED <<table, disk, seen, batch, readers, mixed, emptied>>

(***************************************************************************)
(* DELETE /api/admin/site-settings/assets/{kind}; when the transaction     *)
(* fails nothing changes                                                   *)
(***************************************************************************)
Reset(r, kind) ==
    /\ Begins(r)
    /\ row' = Without(kind)
    /\ slot' = [slot EXCEPT ![kind] = 0]
    /\ cleanup' = cleanup \cup Superseded(kind)
    /\ mixed' = mixed \ {kind}
    /\ emptied' = (emptied \/ Superseded(kind) # {})
    /\ Goes(r, "cleaning")
    /\ UNCHANGED <<kindOf, disk, seen, hand, batch, readers, missed, mishaps>>

(***************************************************************************)
(* siteassets.RecoverCleanup, at the end of an upload or a reset and       *)
(* before the server serves                                                *)
(***************************************************************************)
Limit(p) == IF p = Startup THEN StartupLimit ELSE RequestLimit

\* The oldest keys first, by a created_at that is the wall clock's: any of them.
Batches(p) ==
    {keys \in SUBSET cleanup : \/ keys = cleanup /\ Cardinality(keys) <= Limit(p)
                               \/ Cardinality(keys) = Limit(p)}

ListKeys(p) ==
    /\ at[p] = "cleaning"
    /\ \E keys \in Batches(p) : batch' = [batch EXCEPT ![p] = keys]
    /\ Goes(p, "removing")
    /\ UNCHANGED <<table, disk, seen, hand, readers, history, mishaps>>

\* A file that is not there counts as removed.
RemoveFile(p, k) ==
    /\ at[p] = "removing" /\ k \in batch[p]
    /\ files' = files \ {k}
    /\ hand' = [hand EXCEPT ![p] = k]
    /\ batch' = [batch EXCEPT ![p] = @ \ {k}]
    /\ Goes(p, "removed")
    /\ UNCHANGED <<table, temps, seen, readers, history, mishaps>>

\* The row stays for a later pass, and this one goes on.
RemoveFails(p, k) ==
    /\ at[p] = "removing" /\ k \in batch[p]
    /\ batch' = [batch EXCEPT ![p] = @ \ {k}]
    /\ UNCHANGED <<table, disk, at, seen, hand, readers, history, mishaps>>

Complete(p) ==
    /\ at[p] = "removed"
    /\ cleanup' = cleanup \ {hand[p]}
    /\ hand' = [hand EXCEPT ![p] = None]
    /\ Goes(p, "removing")
    /\ UNCHANGED <<slot, row, kindOf, disk, seen, batch, readers, history, mishaps>>

\* No key is left, the context is done, or a statement fails.
EndPass(p) ==
    /\ at[p] \in {"cleaning", "removing", "removed"}
    /\ batch' = [batch EXCEPT ![p] = {}]
    /\ Ends(p)
    /\ UNCHANGED <<table, disk, seen, readers, history, mishaps>>

(***************************************************************************)
(* GET /assets/site/{id}, answered with an immutable Cache-Control.  One   *)
(* picture is followed: what else a browser keeps makes no difference.     *)
(***************************************************************************)
LookUp(b, k) ==
    /\ Serving /\ asking[b] = {} /\ row[k] # 0
    /\ \A pair \in cache[b] : pair[1] # row[k]
    /\ asking' = [asking EXCEPT ![b] = {<<row[k], k>>}]
    /\ UNCHANGED <<table, disk, work, cache, history, mishaps>>

Serve(b, k) ==
    /\ \E pair \in asking[b] : pair[2] = k
    /\ asking' = [asking EXCEPT ![b] = {}]
    /\ cache' = IF k \in files THEN [cache EXCEPT ![b] = asking[b]] ELSE cache
    /\ UNCHANGED <<table, disk, work, history, mishaps>>

(***************************************************************************)
(* The process dies and is started again                                   *)
(***************************************************************************)
Held(r) == at[r] \in {"receiving", "stored", "unsaved"}

Restart ==
    /\ Mishap
    /\ \E start \in {"cleaning", "idle"} :
           at' = [p \in Passes |-> IF p = Startup THEN start ELSE "idle"]
    /\ seen' = [r \in Requests |-> NoSlots] /\ hand' = [p \in Passes |-> None]
    /\ batch' = [p \in Passes |-> {}]
    /\ missed' = missed \cup {k \in Keys : \E r \in Requests : Held(r) /\ hand[r] = k}
    /\ asking' = [b \in Browsers |-> {}]
    /\ UNCHANGED <<table, disk, cache, mixed, emptied>>

Handling(r) ==
    \/ ReadSettings(r) \/ WriteSettings(r) \/ RefuseSettings(r)
    \/ \E kind \in Kinds, k \in Keys : Receive(r, kind, k)
    \/ Reject(r) \/ Store(r) \/ ChmodFails(r)
    \/ Replace(r) \/ ReplaceFails(r) \/ Discard(r) \/ DiscardFails(r)
    \/ \E kind \in Kinds : Reset(r, kind)

Cleaning(p) ==
    \/ ListKeys(p) \/ Complete(p) \/ EndPass(p)
    \/ \E k \in Keys : RemoveFile(p, k) \/ RemoveFails(p, k)

Next ==
    \/ \E r \in Requests : Handling(r)
    \/ \E p \in Passes : Cleaning(p)
    \/ \E b \in Browsers, k \in Keys : LookUp(b, k) \/ Serve(b, k)
    \/ Restart

Spec == Init /\ [][Next]_vars

(***************************************************************************)
(* Properties                                                              *)
(***************************************************************************)
Places == {"idle", "settings", "receiving", "stored", "unsaved", "cleaning", "removing", "removed"}
Pairs == (Nat \ {0}) \X Keys

\* A pass takes no more keys than its limit, and the startup pass never handles a
\* request.
TypeOK ==
    /\ slot \in [Kinds -> Nat] /\ row \in [Keys -> Nat]
    /\ kindOf \in [Keys -> Kinds \cup {None}]
    /\ cleanup \subseteq Keys /\ files \subseteq Keys /\ temps \subseteq Keys
    /\ at \in [Passes -> Places]
    /\ at[Startup] \in {"idle", "cleaning", "removing", "removed"}
    /\ seen \in [Requests -> [Kinds -> Nat]]
    /\ hand \in [Passes -> Keys \cup {None}]
    /\ batch \in [Passes -> SUBSET Keys]
    /\ \A p \in Passes : Cardinality(batch[p]) <= Limit(p)
    /\ asking \in [Browsers -> SUBSET Pairs] /\ cache \in [Browsers -> SUBSET Pairs]
    /\ mixed \subseteq Kinds /\ missed \subseteq Keys
    /\ emptied \in BOOLEAN /\ mishaps \in 0..MaxMishaps

\* The picture of every kind that is configured can be served: its id is a row, its
\* file is on disk and not queued for removal, and it was uploaded for that kind
\* unless an overtaken PUT put it there (site_settings.go:132-138).
SlotsServe ==
    \A kind \in Kinds : slot[kind] # 0 =>
        \E k \in files \ cleanup : /\ row[k] = slot[kind]
                                   /\ kind \notin mixed => kindOf[k] = kind

\* Every file is accounted for: in the hands of the upload that wrote it, shown by
\* the settings, or queued for removal.  Only a crash, a failing file operation or a
\* PUT that was overtaken by an upload loses one.
NothingLost ==
    /\ \A k \in temps \ missed : \E r \in Requests : at[r] = "receiving" /\ hand[r] = k
    /\ \A k \in files \ missed :
           \/ k \in cleanup
           \/ \E r \in Requests : at[r] \in {"stored", "unsaved"} /\ hand[r] = k
           \/ row[k] # 0 /\ \E kind \in Kinds : slot[kind] = row[k]

\* As long as nobody resets an asset, a browser that keeps a picture for a year shows
\* the one that is configured: an address is not given to another picture, because the
\* new row is inserted before the old one is deleted (repository.go:258-286).
FreshAddress ==
    ~emptied =>
        \A b \in Browsers, kind \in Kinds : \A pair \in cache[b] :
            slot[kind] = pair[1] => row[pair[2]] = pair[1]

=============================================================================
