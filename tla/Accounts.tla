------------------------------- MODULE Accounts -------------------------------
(***************************************************************************)
(* Users and login sessions: the rows of users, the login and logout       *)
(* handlers, the administrator's handlers that disable an account or reset *)
(* its password, safefilehub -reset-initial-admin in a process of its own, *)
(* and auth.SessionManager over its in-memory store, with the goroutine    *)
(* that collects expired sessions and with Close.                          *)
(*                                                                         *)
(* A password is its hash, hashes are numbered in the order they are made, *)
(* and a login that is checked is one that knows the current password.     *)
(* Which administrator asks is left open.  Only the server's own crash or  *)
(* exit empties the store.                                                 *)
(***************************************************************************)
EXTENDS Naturals, FiniteSets

CONSTANTS
    Users,
    Initial,        \* the bootstrap administrator
    Sids,           \* session ids (bounds the sessions ever made)
    Logins,         \* concurrent POST /login
    Admins,         \* concurrent requests to /api/admin/users
    Workers,        \* goroutines of runGC (bounds those that have not yet closed done)
    Batch,          \* sessionGCMaxDeletes
    MaxHashes,      \* bounds the passwords ever set
    None

\* A row of users, and an entry of the store with what is remembered of its login.
Rows == [hash: 1..MaxHashes, disabled: BOOLEAN]
Entries == [user: Users, expired: BOOLEAN, hash: 0..MaxHashes, excused: BOOLEAN]

ASSUME AccountsAssumption ==
    /\ Initial \in Users
    /\ IsFiniteSet(Sids)
    /\ Batch \in Nat \ {0} /\ MaxHashes \in Nat
    /\ None \notin Users \cup Workers
    /\ None \notin Rows /\ None \notin Entries

VARIABLES
    user,       \* row of users per id: None or [hash, disabled]
    hashes,     \* how many passwords have been hashed
    session,    \* the store: per id None or [user, expired]; with the hash verified at its
                \* login, and whether no revocation is meant to reach it (history, kept
                \* until the session expires)
    drawn,      \* the ids drawn so far
    login,      \* login handlers: [at, user, hash]
    admin,      \* administrators' handlers: [at, op, user, row]
    phase,      \* of the server: down, up, closing, closed or abandoned
    gcRunning, gcDone,
    worker,     \* runGC: off, pass or flagged (gcRunning reset, done still open)
    due,        \* sessions expired at the worker's now
    overtaken   \* logins whose account changed after they were checked (history)

rows == <<user, hashes>>
store == <<session, drawn>>
gc == <<gcRunning, gcDone, worker, due>>
vars == <<rows, store, login, admin, phase, gc, overtaken>>

Row(h, d) == [hash |-> h, disabled |-> d]
Free == [at |-> "idle", user |-> None, hash |-> 0]
Spent(u) == [user |-> u, expired |-> TRUE, hash |-> 0, excused |-> FALSE]
Idle == [at |-> "idle", op |-> None, user |-> None, row |-> Row(0, FALSE)]
Updated(u) == [at |-> "updated", op |-> None, user |-> u, row |-> Row(0, FALSE)]

Init ==
    /\ user = [u \in Users |-> None] /\ hashes = 0
    /\ session = [s \in Sids |-> None] /\ drawn = {}
    /\ login = [l \in Logins |-> Free] /\ admin = [a \in Admins |-> Idle]
    /\ phase = "down"
    /\ gcRunning = FALSE /\ gcDone = None
    /\ worker = [w \in Workers |-> "off"] /\ due = [w \in Workers |-> {}]
    /\ overtaken = {}

Running == phase # "down"
Live == {s \in Sids : session[s] # None}
Expired == {s \in Live : session[s].expired}
Sessions(u) == {s \in Live : session[s].user = u}
Deleted(S) == [s \in Sids |-> IF s \in S THEN None ELSE session[s]]
Excused(S) == [s \in Sids |-> IF s \in S THEN [session[s] EXCEPT !.excused = TRUE] ELSE session[s]]
\* Logins between their check and their session.
Checked(u) == {l \in Logins : login[l].at # "idle" /\ login[l].user = u}

\* A new hash, if the bound allows another one.
Hashed == hashes < MaxHashes /\ hashes' = hashes + 1

-----------------------------------------------------------------------------
(* The process                                                              *)

\* bootstrapInitialAdmin, then a SessionManager over an empty store.
Start ==
    /\ phase = "down"
    /\ IF user[Initial] = None
       THEN Hashed /\ user' = [user EXCEPT ![Initial] = Row(hashes + 1, FALSE)]
       ELSE UNCHANGED rows
    /\ phase' = "up"
    /\ UNCHANGED <<store, login, admin, gc, overtaken>>

\* The process ends or crashes at any time: the rows remain, the rest is gone.
Exit ==
    /\ Running
    /\ phase' = "down"
    /\ session' = Deleted(Sids)
    /\ gcRunning' = FALSE /\ gcDone' = None
    /\ login' = [l \in Logins |-> Free] /\ admin' = [a \in Admins |-> Idle]
    /\ worker' = [w \in Workers |-> "off"] /\ due' = [w \in Workers |-> {}]
    /\ overtaken' = {}
    /\ UNCHANGED <<rows, drawn>>

\* SessionManager.Close: closed is set; handlers that outlasted the HTTP
\* shutdown go on.
Close ==
    /\ phase = "up"
    /\ phase' = "closing"
    /\ UNCHANGED <<rows, store, login, admin, gc, overtaken>>

\* case <-done: the channel of the last worker, closed from the start if none.
CloseReturns ==
    /\ phase = "closing"
    /\ gcDone # None => worker[gcDone] = "off"
    /\ phase' = "closed"
    /\ UNCHANGED <<rows, store, login, admin, gc, overtaken>>

\* case <-time.After(ShutdownWaitTimeout)
CloseTimesOut ==
    /\ phase = "closing"
    /\ phase' = "abandoned"
    /\ UNCHANGED <<rows, store, login, admin, gc, overtaken>>

-----------------------------------------------------------------------------
(* POST /login, POST /logout and requireSession                             *)

\* Authenticate reads the row once and verifies the password against it.
Authenticate(l, u) ==
    /\ Running /\ login[l].at = "idle"
    /\ user[u] # None /\ ~user[u].disabled
    /\ login' = [login EXCEPT ![l] = [at |-> "verified", user |-> u, hash |-> user[u].hash]]
    /\ UNCHANGED <<rows, store, admin, phase, gc, overtaken>>

\* Faulty variant: closed is not looked at.
StartsAfterClose == ~gcRunning

\* if m.gcRunning || m.closed { return }
StartsGC == ~gcRunning /\ phase = "up"

\* Sessions.Create first sees to a collector, under gcMu ...
ScheduleGC(l) ==
    /\ login[l].at = "verified"
    /\ login' = [login EXCEPT ![l].at = "scheduled"]
    /\ IF StartsGC
       THEN \E w \in {x \in Workers : worker[x] = "off"} :
                /\ gcRunning' = TRUE /\ gcDone' = w
                /\ worker' = [worker EXCEPT ![w] = "pass"]
                /\ due' = [due EXCEPT ![w] = Expired]
       ELSE UNCHANGED gc
    /\ UNCHANGED <<rows, store, admin, phase, overtaken>>

\* ... and then puts the session into the store, whatever has become of the user.
CreateSession(l, s) ==
    /\ login[l].at = "scheduled" /\ s \notin drawn
    /\ session' = [session EXCEPT ![s] = [user |-> login[l].user, expired |-> FALSE,
                                         hash |-> login[l].hash, excused |-> l \in overtaken]]
    /\ drawn' = drawn \cup {s}
    /\ login' = [login EXCEPT ![l] = Free]
    /\ overtaken' = overtaken \ {l}
    /\ UNCHANGED <<rows, admin, phase, gc>>

\* The TTL runs out.
Expire(s) ==
    /\ s \in Live \ Expired
    /\ session' = [session EXCEPT ![s] = Spent(session[s].user)]
    /\ UNCHANGED <<rows, drawn, login, admin, phase, gc, overtaken>>

\* UserID finds the session expired and deletes it.
UseExpired(s) ==
    /\ s \in Expired
    /\ session' = Deleted({s})
    /\ UNCHANGED <<rows, drawn, login, admin, phase, gc, overtaken>>

Logout(s) ==
    /\ s \in Live
    /\ session' = Deleted({s})
    /\ UNCHANGED <<rows, drawn, login, admin, phase, gc, overtaken>>

-----------------------------------------------------------------------------
(* runGC                                                                    *)

\* Faulty variant: the comparison is turned round.
PassIsLonger(n) == n > Batch

\* if deleted < sessionGCMaxDeletes { return }
PassIsShort(n) == n < Batch

\* DeleteExpired takes any Batch of them; the map has no order.
Pass(w) ==
    /\ worker[w] = "pass"
    /\ LET expired == due[w] \cap Live IN
       \E deleted \in SUBSET expired :
            /\ deleted = expired \/ Cardinality(deleted) = Batch
            /\ Cardinality(deleted) <= Batch
            /\ session' = Deleted(deleted)
            /\ IF PassIsShort(Cardinality(deleted))
               THEN worker' = [worker EXCEPT ![w] = "flagged"] /\ gcRunning' = FALSE
               ELSE UNCHANGED <<worker, gcRunning>>
    /\ UNCHANGED <<rows, drawn, login, admin, phase, gcDone, due, overtaken>>

\* close(done)
CloseDone(w) ==
    /\ worker[w] = "flagged"
    /\ worker' = [worker EXCEPT ![w] = "off"]
    /\ due' = [due EXCEPT ![w] = {}]
    /\ UNCHANGED <<rows, store, login, admin, phase, gcRunning, gcDone, overtaken>>

-----------------------------------------------------------------------------
(* The administrator's handlers                                             *)

CreateUser(u) ==
    /\ Running /\ user[u] = None
    /\ Hashed
    /\ user' = [user EXCEPT ![u] = Row(hashes + 1, FALSE)]
    /\ UNCHANGED <<store, login, admin, phase, gc, overtaken>>

\* setUserDisabled and resetUserPassword begin with UserByID.
ReadUser(a, op, u) ==
    /\ Running /\ admin[a].at = "idle"
    /\ user[u] # None
    /\ admin' = [admin EXCEPT ![a] = [at |-> "read", op |-> op, user |-> u, row |-> user[u]]]
    /\ UNCHANGED <<rows, store, login, phase, gc, overtaken>>

\* Faulty variant: a new password opens the account.
WrittenEnabled(a) == Row(IF admin[a].op = "reset" THEN hashes + 1 ELSE admin[a].row.hash,
                         admin[a].op = "disable")

\* UpdateUserCredentials writes both columns, one of them as it was read.
Written(a) ==
    LET read == admin[a].row
    IN  CASE admin[a].op = "reset"   -> Row(hashes + 1, read.disabled)
          [] admin[a].op = "disable" -> Row(read.hash, TRUE)
          [] admin[a].op = "enable"  -> Row(read.hash, FALSE)

\* Faulty variant: only a disabled account loses its sessions.
RevokesDisabled(op) == op = "disable"

\* if in.Disabled in setUserDisabled; always in resetUserPassword.
Revokes(op) == op # "enable"

\* The sessions of an account that is changed without revoking them are not
\* meant to be reached, if the password is another one: an enable that writes
\* back the hash it read before a reset.
Update(a) ==
    LET u == admin[a].user IN
    /\ admin[a].at = "read"
    /\ user' = [user EXCEPT ![u] = Written(a)]
    /\ IF admin[a].op = "reset" THEN Hashed ELSE UNCHANGED hashes
    /\ IF Revokes(admin[a].op)
       THEN admin' = [admin EXCEPT ![a] = Updated(u)]
       ELSE admin' = [admin EXCEPT ![a] = Idle]
    /\ IF admin[a].op = "enable" /\ admin[a].row.hash # user[u].hash
       THEN session' = Excused(Sessions(u)) /\ overtaken' = overtaken \cup Checked(u)
       ELSE UNCHANGED <<session, overtaken>>
    /\ UNCHANGED <<drawn, login, phase, gc>>

\* The update fails, for one because the administrator's client is gone.
UpdateFails(a) ==
    /\ admin[a].at = "read"
    /\ admin' = [admin EXCEPT ![a] = Idle]
    /\ UNCHANGED <<rows, store, login, phase, gc, overtaken>>

\* RevokeUser, which has nothing that can fail it, and then the audit record.
RevokeUser(a) ==
    LET u == admin[a].user IN
    /\ admin[a].at = "updated"
    /\ session' = Deleted(Sessions(u))
    /\ admin' = [admin EXCEPT ![a] = Idle]
    /\ overtaken' = overtaken \cup Checked(u)
    /\ UNCHANGED <<rows, drawn, login, phase, gc>>

\* safefilehub -reset-initial-admin: no server's sessions are revoked.
ResetInitialAdmin ==
    /\ user[Initial] # None
    /\ Hashed
    /\ user' = [user EXCEPT ![Initial] = Row(hashes + 1, FALSE)]
    /\ session' = Excused(Sessions(Initial))
    /\ overtaken' = overtaken \cup Checked(Initial)
    /\ UNCHANGED <<drawn, login, admin, phase, gc>>

-----------------------------------------------------------------------------
Ops == {"disable", "enable", "reset"}

Handling ==
    \/ \E l \in Logins :
        \/ \E u \in Users : Authenticate(l, u)
        \/ ScheduleGC(l)
        \/ \E s \in Sids : CreateSession(l, s)
    \/ \E a \in Admins :
        \/ \E op \in Ops, u \in Users : ReadUser(a, op, u)
        \/ Update(a) \/ UpdateFails(a) \/ RevokeUser(a)
    \/ \E u \in Users : CreateUser(u)
    \/ \E s \in Sids : Expire(s) \/ UseExpired(s) \/ Logout(s)

Collecting == \E w \in Workers : Pass(w) \/ CloseDone(w)

Next ==
    \/ Handling \/ Collecting
    \/ Start \/ Exit \/ Close \/ CloseReturns \/ CloseTimesOut
    \/ ResetInitialAdmin

Spec == Init /\ [][Next]_vars

\* Goroutines are run; logins, administrators and the process owe nothing.
Fairness ==
    /\ \A w \in Workers : WF_vars(Pass(w) \/ CloseDone(w))
    /\ WF_vars(CloseReturns)

FairSpec == Spec /\ Fairness

-----------------------------------------------------------------------------
(* Properties                                                               *)

LoginStates == [at: {"idle", "verified", "scheduled"}, user: Users \cup {None}, hash: 0..MaxHashes]
AdminStates == [at: {"idle", "read", "updated"}, op: Ops \cup {None}, user: Users \cup {None},
                row: Rows \cup {Row(0, FALSE)}]

\* The shapes of all variables.
TypeOK ==
    /\ hashes \in 0..MaxHashes
    /\ DOMAIN user = Users /\ DOMAIN session = Sids
    /\ \A u \in Users : user[u] = None \/ user[u] \in Rows
    /\ \A s \in Sids : session[s] = None \/ session[s] \in Entries
    /\ drawn \subseteq Sids /\ Live \subseteq drawn
    /\ login \in [Logins -> LoginStates] /\ admin \in [Admins -> AdminStates]
    /\ phase \in {"down", "up", "closing", "closed", "abandoned"}
    /\ gcRunning \in BOOLEAN /\ gcDone \in Workers \cup {None}
    /\ worker \in [Workers -> {"off", "pass", "flagged"}]
    /\ due \in [Workers -> SUBSET Sids]
    /\ overtaken \subseteq Logins

\* A change of the account has been written and its sessions will be revoked.
Revoking(u) == \E a \in Admins : admin[a].at = "updated" /\ admin[a].user = u

\* The account is open under that password.
Current(u, h) == user[u] # None /\ ~user[u].disabled /\ user[u].hash = h

\* session.go:125-130, admin.go:218-227, 257-264: a session that was not created by a
\* login that a revocation overtook is one of an enabled account and of its present
\* password, or is about to be revoked; that the process may end in between does not
\* matter.  Excused are an administrator reset from the command line and an enable
\* that undoes a reset.
NoStaleSession ==
    \A s \in Live \ Expired :
        \/ session[s].excused
        \/ Current(session[s].user, session[s].hash)
        \/ Revoking(session[s].user)

\* admin.go:213-218, 247-257, repository.go:431: a reset password is not replaced by an
\* older one, and a disabled account opens again only by an enable or the reset of the
\* initial administrator, unless the handler had read the row before it was changed.
ChangesLast ==
    [][\A u \in Users :
        (user[u] # None /\ user'[u] # user[u]) =>
            \/ \E a \in Admins : admin[a].at = "read" /\ admin'[a].at # "read"
                                 /\ admin[a].user = u /\ admin[a].row # user[u]
            \/ /\ user'[u].hash >= user[u].hash
               /\ user[u].disabled /\ ~user'[u].disabled =>
                    \/ \E a \in Admins : admin[a].op = "enable" /\ admin[a].user = u
                                         /\ admin'[a] # admin[a]
                    \/ u = Initial /\ admin' = admin]_vars

\* session.go:150-203: one collector at a time is in its loop, gcRunning does not stay
\* set without one, one that leaves has left no session it was started for, and none is
\* at work when Close has returned without giving up.
CollectorsRight ==
    /\ \A v, w \in Workers : worker[v] = "pass" /\ worker[w] = "pass" => v = w
    /\ gcRunning => \E w \in Workers : worker[w] = "pass"
    /\ \A w \in Workers : worker[w] = "flagged" => due[w] \cap Live = {}
    /\ phase = "closed" => \A w \in Workers : worker[w] # "pass"

\* session.go:162-188: a collector ends, so the next login can start another one, and
\* Close comes to an end.
CollectorsEnd ==
    /\ \A w \in Workers : (worker[w] = "pass") ~> (worker[w] = "off")
    /\ (phase = "closing") ~> (phase # "closing")
=============================================================================
