---------------------------- MODULE AccountsProofs ----------------------------
(***************************************************************************)
(* Theorems about Accounts for any users, sessions, handlers and           *)
(* collectors and any bound.                                               *)
(*                                                                         *)
(* NoStaleSession needs the same of logins that are between their check    *)
(* and their session (LoginsCurrent), CollectorsRight that the collector   *)
(* in its loop is the one gcRunning and gcDone speak of (OneCollector).    *)
(***************************************************************************)
EXTENDS Accounts, TLAPS

\* Who administers has a user in hand whose row exists.
AdminsSane ==
    \A a \in Admins : admin[a].at # "idle" =>
        /\ admin[a].user \in Users /\ user[admin[a].user] # None
        /\ admin[a].at = "read" => admin[a].op \in Ops /\ admin[a].row \in Rows /\ admin[a].row.hash <= hashes

LoginsCurrent ==
    \A l \in Logins \ overtaken : login[l].at # "idle" =>
        \/ Current(login[l].user, login[l].hash)
        \/ Revoking(login[l].user)

\* The collector in its loop is the last one started, and gcRunning tells of it.
OneCollector ==
    /\ \A w \in Workers : worker[w] = "pass" => gcRunning /\ gcDone = w
    /\ gcRunning => gcDone \in Workers /\ worker[gcDone] = "pass"

\* No session is made after a collector's start that the collector was started for.
DueDrawn == \A w \in Workers : due[w] \subseteq drawn

LoginsSane == \A l \in Logins : login[l].at # "idle" => login[l].user \in Users

HashesCounted == \A u \in Users : user[u] # None => user[u].hash <= hashes

TypeInv == TypeOK /\ AdminsSane /\ LoginsSane /\ HashesCounted
GCInv == TypeInv /\ OneCollector /\ DueDrawn /\ CollectorsRight
SessionInv == TypeInv /\ LoginsCurrent /\ NoStaleSession

-----------------------------------------------------------------------------
(* Types                                                                    *)

\* What the helpers on the store leave in it.
LEMMA SessionsDeleted ==
    ASSUME TypeOK, NEW S, session' = Deleted(S)
    PROVE  /\ Live' = Live \ S
           /\ \A s \in Live' : session'[s] = session[s]
           /\ DOMAIN session' = Sids
           /\ \A s \in Sids : session'[s] = None \/ session'[s] \in Entries
<1>1. DOMAIN session' = Sids
      /\ \A s \in Sids : session'[s] = IF s \in S THEN None ELSE session[s]
    BY DEF Deleted
<1>2. Live' = Live \ S /\ \A s \in Live' : session'[s] = session[s]
    BY <1>1 DEF Live
<1> QED BY <1>1, <1>2 DEF TypeOK

LEMMA SessionsExcused ==
    ASSUME TypeOK, NEW S, session' = Excused(S), S \subseteq Live
    PROVE  /\ Live' = Live
           /\ \A s \in Live : /\ session'[s].user = session[s].user
                              /\ session'[s].expired = session[s].expired
                              /\ session'[s].hash = session[s].hash
                              /\ session'[s].excused = IF s \in S THEN TRUE ELSE session[s].excused
           /\ DOMAIN session' = Sids
           /\ \A s \in Sids : session'[s] = None \/ session'[s] \in Entries
<1>1. DOMAIN session' = Sids
      /\ \A s \in Sids : session'[s] = IF s \in S THEN [session[s] EXCEPT !.excused = TRUE] ELSE session[s]
    BY DEF Excused
<1>2. \A s \in Live : session[s] \in Entries
    BY DEF Live, TypeOK
<1>3. \A s \in S : /\ session'[s] \in Entries
                   /\ session'[s].user = session[s].user
                   /\ session'[s].expired = session[s].expired
                   /\ session'[s].hash = session[s].hash
                   /\ session'[s].excused = TRUE
    <2> TAKE s \in S
    <2>1. session'[s] = [session[s] EXCEPT !.excused = TRUE]
        BY <1>1 DEF Live
    <2>2. session[s] \in [user: Users, expired: BOOLEAN, hash: 0..MaxHashes, excused: BOOLEAN]
        BY <1>2 DEF Entries
    <2> QED BY <2>1, <2>2 DEF Entries
<1>4. Live' = Live
    BY <1>1, <1>3, AccountsAssumption DEF Live
<1> QED BY <1>1, <1>3, <1>4 DEF TypeOK

\* What a handler writes is a row, with a hash made by now.
LEMMA IsRow ==
    ASSUME TypeInv, NEW a \in Admins, Update(a)
    PROVE  /\ admin[a].user \in Users /\ user[admin[a].user] # None
           /\ admin[a].row \in Rows /\ admin[a].op \in Ops
           /\ Written(a) \in Rows
           /\ hashes' \in {hashes, hashes + 1} /\ hashes' \in 0..MaxHashes
           /\ admin[a].op = "reset" => Written(a).hash = hashes' /\ Written(a).disabled = admin[a].row.disabled
           /\ admin[a].op = "disable" => Written(a) = Row(admin[a].row.hash, TRUE)
           /\ admin[a].op = "enable" => Written(a) = Row(admin[a].row.hash, FALSE)
<1>1. /\ admin[a].user \in Users /\ user[admin[a].user] # None
      /\ admin[a].row \in Rows /\ admin[a].op \in Ops
    BY DEF TypeInv, AdminsSane, Update
<1>2. hashes \in 0..MaxHashes /\ MaxHashes \in Nat
    BY AccountsAssumption DEF TypeInv, TypeOK
<1>3. admin[a].row.hash \in 1..MaxHashes /\ admin[a].row.disabled \in BOOLEAN
    BY <1>1 DEF Rows
<1>4. CASE admin[a].op = "reset"
    <2>1. hashes < MaxHashes /\ hashes' = hashes + 1
        BY <1>4 DEF Update, Hashed
    <2>2. Written(a) = Row(hashes + 1, admin[a].row.disabled)
        BY <1>4 DEF Written
    <2> QED BY <1>1, <1>2, <1>3, <1>4, <2>1, <2>2 DEF Row, Rows
<1>5. CASE admin[a].op = "disable"
    <2>1. hashes' = hashes
        BY <1>5 DEF Update
    <2>2. Written(a) = Row(admin[a].row.hash, TRUE)
        BY <1>5 DEF Written
    <2> QED BY <1>1, <1>2, <1>3, <1>5, <2>1, <2>2 DEF Row, Rows
<1>6. CASE admin[a].op = "enable"
    <2>1. hashes' = hashes
        BY <1>6 DEF Update
    <2>2. Written(a) = Row(admin[a].row.hash, FALSE)
        BY <1>6 DEF Written
    <2> QED BY <1>1, <1>2, <1>3, <1>6, <2>1, <2>2 DEF Row, Rows
<1> QED BY <1>1, <1>4, <1>5, <1>6 DEF Ops

LEMMA TypesStep == TypeInv /\ [Next]_vars => TypeOK'
<1> SUFFICES ASSUME TypeInv, [Next]_vars PROVE TypeOK'
    OBVIOUS
<1>0. TypeOK /\ AdminsSane /\ LoginsSane
    BY DEF TypeInv
<1>a. /\ hashes \in 0..MaxHashes
      /\ DOMAIN user = Users /\ DOMAIN session = Sids
      /\ \A u \in Users : user[u] = None \/ user[u] \in Rows
      /\ \A s \in Sids : session[s] = None \/ session[s] \in Entries
      /\ drawn \subseteq Sids /\ Live \subseteq drawn
      /\ login \in [Logins -> LoginStates] /\ admin \in [Admins -> AdminStates]
      /\ phase \in {"down", "up", "closing", "closed", "abandoned"}
      /\ gcRunning \in BOOLEAN /\ gcDone \in Workers \cup {None}
      /\ worker \in [Workers -> {"off", "pass", "flagged"}]
      /\ due \in [Workers -> SUBSET Sids]
      /\ overtaken \subseteq Logins
    BY <1>0 DEF TypeOK
<1>b. Initial \in Users /\ MaxHashes \in Nat /\ hashes \in Nat
    BY <1>a, AccountsAssumption
<1>c. /\ \A h \in 1..MaxHashes, d \in BOOLEAN : Row(h, d) \in Rows
      /\ \A u \in Users : user[u] # None => user[u].hash \in 0..MaxHashes
    BY <1>a DEF Row, Rows
<1>d. /\ Free \in LoginStates
      /\ Idle \in AdminStates
      /\ \A u \in Users : Updated(u) \in AdminStates
    <2>1. Free \in LoginStates
        BY <1>b DEF Free, LoginStates
    <2>2. Idle \in AdminStates
        BY DEF Idle, AdminStates
    <2>4. \A u \in Users : Updated(u) \in AdminStates
        BY DEF Updated, AdminStates
    <2> QED BY <2>1, <2>2, <2>4
<1>1. CASE Start
    <2>1. CASE user[Initial] = None
        <3>1. hashes + 1 \in 0..MaxHashes /\ Row(hashes + 1, FALSE) \in Rows
            <4>1. hashes + 1 \in 1..MaxHashes
                BY <1>1, <2>1, <1>a, <1>b DEF Start, Hashed
            <4> QED BY <4>1, <1>b DEF Row, Rows
        <3> QED BY <1>1, <1>a, <1>b, <1>c, <2>1, <3>1 DEF Start, TypeOK, Hashed, rows, store, gc,
                   Live
    <2>2. CASE user[Initial] # None
        BY <1>1, <1>a, <1>d, <2>2 DEF Start, TypeOK, rows, store, gc, Live
    <2> QED BY <2>1, <2>2
<1>2. CASE Exit
    <2>1. session' = Deleted(Sids)
        BY <1>2 DEF Exit
    <2>2. /\ Live' \subseteq Live /\ DOMAIN session' = Sids
          /\ \A x \in Sids : session'[x] = None \/ session'[x] \in Entries
        BY <2>1, <1>0, SessionsDeleted
    <2> QED BY <1>2, <1>a, <1>d, <2>2 DEF Exit, TypeOK, rows, store, gc
<1>3. CASE Close
    BY <1>3, <1>a, <1>b, <1>c, <1>d DEF Close, TypeOK, Live, rows, store, gc
<1>4. CASE CloseReturns
    BY <1>4, <1>a, <1>b, <1>c, <1>d DEF CloseReturns, TypeOK, Live, rows, store, gc
<1>5. CASE CloseTimesOut
    BY <1>5, <1>a, <1>b, <1>c, <1>d DEF CloseTimesOut, TypeOK, Live, rows, store, gc
<1>6. CASE ResetInitialAdmin
    <2>1. hashes + 1 \in 0..MaxHashes /\ Row(hashes + 1, FALSE) \in Rows
        <3>1. hashes + 1 \in 1..MaxHashes
            BY <1>6, <1>a, <1>b DEF ResetInitialAdmin, Hashed
        <3> QED BY <3>1, <1>b DEF Row, Rows
    <2>2. Sessions(Initial) \subseteq Live /\ Checked(Initial) \subseteq Logins
        BY DEF Sessions, Checked
    <2>3. /\ Live' = Live /\ DOMAIN session' = Sids
          /\ \A x \in Sids : session'[x] = None \/ session'[x] \in Entries
        BY <1>6, <2>2, <1>0, SessionsExcused DEF ResetInitialAdmin
    <2> QED BY <1>6, <1>a, <1>b, <1>c, <2>1, <2>2, <2>3 DEF ResetInitialAdmin, TypeOK, Hashed,
               rows, gc
<1>7. ASSUME NEW l \in Logins, NEW u \in Users, Authenticate(l, u) PROVE TypeOK'
    <2>1. [at |-> "verified", user |-> u, hash |-> user[u].hash] \in LoginStates
        BY <1>7, <1>c DEF Authenticate, LoginStates
    <2> QED BY <1>7, <2>1, <1>a DEF Authenticate, TypeOK, Live, rows, store, gc
<1>8. ASSUME NEW l \in Logins, ScheduleGC(l) PROVE TypeOK'
    <2>1. login' \in [Logins -> LoginStates]
        <3>1. [login[l] EXCEPT !.at = "scheduled"] \in LoginStates
            BY <1>a DEF LoginStates
        <3> QED BY <1>8, <3>1, <1>a DEF ScheduleGC
    <2>2. gcRunning' \in BOOLEAN /\ gcDone' \in Workers \cup {None}
          /\ worker' \in [Workers -> {"off", "pass", "flagged"}] /\ due' \in [Workers -> SUBSET Sids]
        <3>1. Expired \in SUBSET Sids
            BY DEF Expired, Live
        <3> QED BY <1>8, <3>1, <1>a DEF ScheduleGC, gc
    <2> QED BY <1>8, <1>a, <2>1, <2>2 DEF ScheduleGC, TypeOK, rows, store, Live
<1>9. ASSUME NEW l \in Logins, NEW s \in Sids, CreateSession(l, s) PROVE TypeOK'
    <2>1. [user |-> login[l].user, expired |-> FALSE, hash |-> login[l].hash,
                 excused |-> l \in overtaken] \in Entries
        BY <1>9, <1>0, <1>a DEF CreateSession, LoginsSane, LoginStates, Entries
    <2>2. /\ DOMAIN session' = Sids
          /\ \A x \in Sids : session'[x] = None \/ session'[x] \in Entries
          /\ Live' \subseteq Live \cup {s}
        BY <1>9, <1>a, <2>1 DEF CreateSession, Live
    <2> QED BY <1>9, <1>a, <1>d, <2>2 DEF CreateSession, TypeOK, rows, gc
<1>10. ASSUME NEW a \in Admins, NEW op \in Ops, NEW u \in Users, ReadUser(a, op, u) PROVE TypeOK'
    <2>1. [at |-> "read", op |-> op, user |-> u, row |-> user[u]] \in AdminStates
        BY <1>10, <1>a DEF ReadUser, AdminStates
    <2> QED BY <1>10, <2>1, <1>a DEF ReadUser, TypeOK, Live, rows, store, gc
<1>11. ASSUME NEW a \in Admins, Update(a) PROVE TypeOK'
    <2>1. Written(a) \in Rows /\ admin[a].user \in Users /\ hashes' \in 0..MaxHashes
        BY <1>11, IsRow
    <2>2. DOMAIN user' = Users /\ \A x \in Users : user'[x] = None \/ user'[x] \in Rows
        BY <1>11, <1>a, <2>1 DEF Update
    <2>3. Sessions(admin[a].user) \subseteq Live /\ Checked(admin[a].user) \subseteq Logins
        BY DEF Sessions, Checked
    <2>4. /\ Live' = Live /\ DOMAIN session' = Sids
          /\ \A x \in Sids : session'[x] = None \/ session'[x] \in Entries
        <3>1. CASE session' = session
            BY <3>1, <1>a DEF Live
        <3>2. CASE session' = Excused(Sessions(admin[a].user))
            BY <3>2, <2>3, <1>0, SessionsExcused
        <3> QED BY <1>11, <3>1, <3>2 DEF Update
    <2>5. overtaken' \subseteq Logins
        BY <1>11, <1>a, <2>3 DEF Update
    <2>8. admin' \in [Admins -> AdminStates]
        BY <1>11, <1>a, <1>d, <2>1 DEF Update
    <2> QED BY <1>11, <1>a, <2>1, <2>2, <2>4, <2>5, <2>8 DEF Update, TypeOK, gc
<1>12. ASSUME NEW a \in Admins, UpdateFails(a) PROVE TypeOK'
    BY <1>12, <1>a, <1>b, <1>c, <1>d DEF UpdateFails, TypeOK, Live, rows, store, gc
<1>13. ASSUME NEW a \in Admins, RevokeUser(a) PROVE TypeOK'
    <2>1. session' = Deleted(Sessions(admin[a].user))
        BY <1>13 DEF RevokeUser
    <2>2. /\ Live' \subseteq Live /\ DOMAIN session' = Sids
          /\ \A x \in Sids : session'[x] = None \/ session'[x] \in Entries
        BY <2>1, <1>0, SessionsDeleted
    <2>3. Checked(admin[a].user) \subseteq Logins
        BY DEF Checked
    <2> QED BY <1>13, <2>3, <1>a, <1>d, <2>2 DEF RevokeUser, TypeOK, rows, store, gc
<1>14. ASSUME NEW u \in Users, CreateUser(u) PROVE TypeOK'
    <2>1. hashes + 1 \in 0..MaxHashes /\ Row(hashes + 1, FALSE) \in Rows
        <3>1. hashes + 1 \in 1..MaxHashes
            BY <1>14, <1>a, <1>b DEF CreateUser, Hashed
        <3> QED BY <3>1, <1>b DEF Row, Rows
    <2> QED BY <1>14, <1>a, <1>b, <1>c, <2>1 DEF CreateUser, TypeOK, Hashed, rows, store, gc, Live
<1>15. ASSUME NEW s \in Sids, Expire(s) PROVE TypeOK'
    <2>1. Spent(session[s].user) \in Entries
        <3>1. session[s].user \in Users
            BY <1>15, <1>a DEF Expire, Live, Entries
        <3> QED BY <3>1, <1>b DEF Spent, Entries
    <2>2. /\ DOMAIN session' = Sids
          /\ \A x \in Sids : session'[x] = None \/ session'[x] \in Entries
          /\ Live' \subseteq Live
        BY <1>15, <1>a, <2>1 DEF Expire, Live, Expired
    <2> QED BY <1>15, <1>a, <1>d, <2>2 DEF Expire, TypeOK, rows, gc
<1>16. ASSUME NEW s \in Sids, UseExpired(s) PROVE TypeOK'
    <2>1. session' = Deleted({s})
        BY <1>16 DEF UseExpired
    <2>2. /\ Live' \subseteq Live /\ DOMAIN session' = Sids
          /\ \A x \in Sids : session'[x] = None \/ session'[x] \in Entries
        BY <2>1, <1>0, SessionsDeleted
    <2> QED BY <1>16, <1>a, <1>d, <2>2 DEF UseExpired, TypeOK, rows, store, gc
<1>17. ASSUME NEW s \in Sids, Logout(s) PROVE TypeOK'
    <2>1. session' = Deleted({s})
        BY <1>17 DEF Logout
    <2>2. /\ Live' \subseteq Live /\ DOMAIN session' = Sids
          /\ \A x \in Sids : session'[x] = None \/ session'[x] \in Entries
        BY <2>1, <1>0, SessionsDeleted
    <2> QED BY <1>17, <1>a, <1>d, <2>2 DEF Logout, TypeOK, rows, store, gc
<1>18. ASSUME NEW w \in Workers, Pass(w) PROVE TypeOK'
    <2>1. PICK S : session' = Deleted(S)
        BY <1>18 DEF Pass
    <2>2. /\ Live' \subseteq Live /\ DOMAIN session' = Sids
          /\ \A x \in Sids : session'[x] = None \/ session'[x] \in Entries
        BY <2>1, <1>0, SessionsDeleted
    <2> QED BY <1>18, <1>a, <1>d, <2>2 DEF Pass, TypeOK, rows, store, gc
<1>19. ASSUME NEW w \in Workers, CloseDone(w) PROVE TypeOK'
    BY <1>19, <1>a, <1>b, <1>c, <1>d DEF CloseDone, TypeOK, Live, rows, store, gc
<1>20. CASE UNCHANGED vars
    BY <1>20, <1>a DEF vars, rows, store, gc, TypeOK, Live
<1> QED BY <1>1, <1>2, <1>3, <1>4, <1>5, <1>6, <1>7, <1>8, <1>9, <1>10, <1>11, <1>12,
          <1>13, <1>14, <1>15, <1>16, <1>17, <1>18, <1>19, <1>20
       DEF Next, Handling, Collecting

-----------------------------------------------------------------------------
(* Rows, administrators and logins                                          *)

LEMMA RowsStay ==
    ASSUME TypeInv, [Next]_vars, NEW v \in Users, user[v] # None
    PROVE  user'[v] # None
<1>1. CASE UNCHANGED user
    BY <1>1
<1>2. ASSUME NEW u \in Users, NEW r \in Rows, user' = [user EXCEPT ![u] = r] PROVE user'[v] # None
    BY <1>2, AccountsAssumption DEF TypeInv, TypeOK
<1>3. \A d \in BOOLEAN : hashes < MaxHashes => Row(hashes + 1, d) \in Rows
    BY AccountsAssumption DEF TypeInv, TypeOK, Row, Rows
<1>4. CASE Start
    <2>1. user[Initial] = None => Row(hashes + 1, FALSE) \in Rows
        BY <1>4, <1>3 DEF Start, Hashed
    <2> QED BY <1>4, <2>1, <1>1, <1>2, AccountsAssumption DEF Start, rows
<1>5. CASE ResetInitialAdmin
    BY <1>5, <1>2, <1>3, AccountsAssumption DEF ResetInitialAdmin, Hashed
<1>6. ASSUME NEW a \in Admins, Update(a) PROVE user'[v] # None
    BY <1>6, <1>2, IsRow DEF Update
<1>7. ASSUME NEW u \in Users, CreateUser(u) PROVE user'[v] # None
    BY <1>7, <1>2, <1>3 DEF CreateUser, Hashed
<1>8. Start \/ ResetInitialAdmin \/ (\E a \in Admins : Update(a)) \/ (\E u \in Users : CreateUser(u))
        \/ UNCHANGED user
    BY DEF Next, Handling, Collecting, vars, rows, Exit, Close, CloseReturns, CloseTimesOut,
       Authenticate,
           ScheduleGC, CreateSession, ReadUser, UpdateFails, RevokeUser, Expire, UseExpired, Logout,
           Pass, CloseDone
<1> QED BY <1>1, <1>4, <1>5, <1>6, <1>7, <1>8

LEMMA HashesGrow ==
    ASSUME [Next]_vars PROVE hashes' = hashes \/ hashes' = hashes + 1
    BY DEF Next, Handling, Collecting, vars, rows, Exit, Close, CloseReturns, CloseTimesOut,
       Authenticate,
           ScheduleGC, CreateSession, ReadUser, UpdateFails, RevokeUser, Expire, UseExpired, Logout,
           Pass, CloseDone, Start, ResetInitialAdmin, Update, CreateUser, Hashed

LEMMA AdminsStep == TypeInv /\ [Next]_vars => AdminsSane'
<1> SUFFICES ASSUME TypeInv, [Next]_vars PROVE AdminsSane'
    OBVIOUS
<1>a. TypeOK /\ AdminsSane /\ admin \in [Admins -> AdminStates]
    BY DEF TypeInv, TypeOK
<1>b. /\ \A v \in Users : user[v] # None => user'[v] # None
      /\ \A h \in Rows : h.hash <= hashes => h.hash <= hashes'
    <2>1. hashes \in Nat /\ (hashes' = hashes \/ hashes' = hashes + 1) /\ \A h \in Rows : h.hash \in Nat
        BY AccountsAssumption, HashesGrow DEF TypeInv, TypeOK, Rows
    <2> QED BY <2>1, RowsStay
<1>1. CASE Start
    BY <1>1, <1>a, <1>b DEF Start, AdminsSane
<1>2. CASE Exit
    BY <1>2 DEF Exit, AdminsSane, Idle
<1>3. CASE Close
    BY <1>3, <1>a, <1>b DEF Close, AdminsSane
<1>4. CASE CloseReturns
    BY <1>4, <1>a, <1>b DEF CloseReturns, AdminsSane
<1>5. CASE CloseTimesOut
    BY <1>5, <1>a, <1>b DEF CloseTimesOut, AdminsSane
<1>6. CASE ResetInitialAdmin
    BY <1>6, <1>a, <1>b DEF ResetInitialAdmin, AdminsSane
<1>7. ASSUME NEW l \in Logins, NEW u \in Users, Authenticate(l, u) PROVE AdminsSane'
    BY <1>7, <1>a, <1>b DEF Authenticate, AdminsSane
<1>8. ASSUME NEW l \in Logins, ScheduleGC(l) PROVE AdminsSane'
    BY <1>8, <1>a, <1>b DEF ScheduleGC, AdminsSane
<1>9. ASSUME NEW l \in Logins, NEW s \in Sids, CreateSession(l, s) PROVE AdminsSane'
    BY <1>9, <1>a, <1>b DEF CreateSession, AdminsSane
<1>10. ASSUME NEW a \in Admins, NEW op \in Ops, NEW u \in Users, ReadUser(a, op, u) PROVE AdminsSane'
    <2>1. user[u] \in Rows /\ op \in Ops /\ user[u].hash <= hashes
        BY <1>10, <1>a DEF ReadUser, TypeInv, TypeOK, HashesCounted
    <2> QED BY <1>10, <2>1, <1>a, <1>b DEF ReadUser, AdminsSane
<1>11. ASSUME NEW a \in Admins, Update(a) PROVE AdminsSane'
    <2>1. admin[a].user \in Users /\ user[admin[a].user] # None
        BY <1>11, <1>a DEF Update, AdminsSane
    <2>2. admin'[a] \in {Idle, Updated(admin[a].user)} /\ \A b \in Admins \ {a} : admin'[b] = admin[b]
        BY <1>11, <1>a DEF Update
    <2>3. ASSUME NEW b \in Admins \ {a}, admin'[b].at # "idle"
          PROVE  /\ admin'[b].user \in Users /\ user'[admin'[b].user] # None
                 /\ admin'[b].at = "read" =>
                        admin'[b].op \in Ops /\ admin'[b].row \in Rows /\ admin'[b].row.hash <= hashes'
        BY <2>2, <2>3, <1>a, <1>b DEF AdminsSane
    <2>4. /\ admin'[a].at # "idle" => admin'[a].user = admin[a].user
          /\ admin'[a].at # "read"
        <3>1. Idle.at = "idle" /\ Updated(admin[a].user).at = "updated"
              /\ Updated(admin[a].user).user = admin[a].user
            BY DEF Idle, Updated
        <3> QED BY <2>2, <3>1
    <2> QED BY <2>1, <2>3, <2>4, <1>b DEF AdminsSane
<1>12. ASSUME NEW a \in Admins, UpdateFails(a) PROVE AdminsSane'
    BY <1>12, <1>a, <1>b DEF UpdateFails, AdminsSane, Idle
<1>13. ASSUME NEW a \in Admins, RevokeUser(a) PROVE AdminsSane'
    BY <1>13, <1>a, <1>b DEF RevokeUser, AdminsSane, Idle
<1>14. ASSUME NEW u \in Users, CreateUser(u) PROVE AdminsSane'
    BY <1>14, <1>a, <1>b DEF CreateUser, AdminsSane
<1>15. ASSUME NEW s \in Sids, Expire(s) PROVE AdminsSane'
    BY <1>15, <1>a, <1>b DEF Expire, AdminsSane
<1>16. ASSUME NEW s \in Sids, UseExpired(s) PROVE AdminsSane'
    BY <1>16, <1>a, <1>b DEF UseExpired, AdminsSane
<1>17. ASSUME NEW s \in Sids, Logout(s) PROVE AdminsSane'
    BY <1>17, <1>a, <1>b DEF Logout, AdminsSane
<1>18. ASSUME NEW w \in Workers, Pass(w) PROVE AdminsSane'
    BY <1>18, <1>a, <1>b DEF Pass, AdminsSane
<1>19. ASSUME NEW w \in Workers, CloseDone(w) PROVE AdminsSane'
    BY <1>19, <1>a, <1>b DEF CloseDone, AdminsSane
<1>20. CASE UNCHANGED vars
    BY <1>20, <1>a DEF vars, rows, store, gc, AdminsSane
<1> QED BY <1>1, <1>2, <1>3, <1>4, <1>5, <1>6, <1>7, <1>8, <1>9, <1>10, <1>11, <1>12,
          <1>13, <1>14, <1>15, <1>16, <1>17, <1>18, <1>19, <1>20
       DEF Next, Handling, Collecting

LEMMA LoginsSaneStep == TypeInv /\ [Next]_vars => LoginsSane'
<1> SUFFICES ASSUME TypeInv, [Next]_vars PROVE LoginsSane'
    OBVIOUS
<1>a. LoginsSane /\ login \in [Logins -> LoginStates]
    BY DEF TypeInv, TypeOK
<1>1. CASE Start
    BY <1>1, <1>a DEF Start, LoginsSane
<1>2. CASE Exit
    BY <1>2 DEF Exit, LoginsSane, Free
<1>3. CASE Close
    BY <1>3, <1>a DEF Close, LoginsSane
<1>4. CASE CloseReturns
    BY <1>4, <1>a DEF CloseReturns, LoginsSane
<1>5. CASE CloseTimesOut
    BY <1>5, <1>a DEF CloseTimesOut, LoginsSane
<1>6. CASE ResetInitialAdmin
    BY <1>6, <1>a DEF ResetInitialAdmin, LoginsSane
<1>7. ASSUME NEW l \in Logins, NEW u \in Users, Authenticate(l, u) PROVE LoginsSane'
    BY <1>7, <1>a DEF Authenticate, LoginsSane
<1>8. ASSUME NEW l \in Logins, ScheduleGC(l) PROVE LoginsSane'
    <2>1. login'[l].user = login[l].user /\ login[l].at # "idle"
          /\ \A k \in Logins \ {l} : login'[k] = login[k]
        BY <1>8, <1>a DEF ScheduleGC, LoginStates
    <2> QED BY <2>1, <1>a DEF LoginsSane
<1>9. ASSUME NEW l \in Logins, NEW s \in Sids, CreateSession(l, s) PROVE LoginsSane'
    BY <1>9, <1>a DEF CreateSession, LoginsSane, Free
<1>10. ASSUME NEW a \in Admins, NEW op \in Ops, NEW u \in Users, ReadUser(a, op, u) PROVE LoginsSane'
    BY <1>10, <1>a DEF ReadUser, LoginsSane
<1>11. ASSUME NEW a \in Admins, Update(a) PROVE LoginsSane'
    BY <1>11, <1>a DEF Update, LoginsSane
<1>12. ASSUME NEW a \in Admins, UpdateFails(a) PROVE LoginsSane'
    BY <1>12, <1>a DEF UpdateFails, LoginsSane
<1>13. ASSUME NEW a \in Admins, RevokeUser(a) PROVE LoginsSane'
    BY <1>13, <1>a DEF RevokeUser, LoginsSane
<1>14. ASSUME NEW u \in Users, CreateUser(u) PROVE LoginsSane'
    BY <1>14, <1>a DEF CreateUser, LoginsSane
<1>15. ASSUME NEW s \in Sids, Expire(s) PROVE LoginsSane'
    BY <1>15, <1>a DEF Expire, LoginsSane
<1>16. ASSUME NEW s \in Sids, UseExpired(s) PROVE LoginsSane'
    BY <1>16, <1>a DEF UseExpired, LoginsSane
<1>17. ASSUME NEW s \in Sids, Logout(s) PROVE LoginsSane'
    BY <1>17, <1>a DEF Logout, LoginsSane
<1>18. ASSUME NEW w \in Workers, Pass(w) PROVE LoginsSane'
    BY <1>18, <1>a DEF Pass, LoginsSane
<1>19. ASSUME NEW w \in Workers, CloseDone(w) PROVE LoginsSane'
    BY <1>19, <1>a DEF CloseDone, LoginsSane
<1>20. CASE UNCHANGED vars
    BY <1>20, <1>a DEF vars, rows, store, gc, LoginsSane
<1> QED BY <1>1, <1>2, <1>3, <1>4, <1>5, <1>6, <1>7, <1>8, <1>9, <1>10, <1>11, <1>12,
          <1>13, <1>14, <1>15, <1>16, <1>17, <1>18, <1>19, <1>20
       DEF Next, Handling, Collecting

LEMMA HashesStep == TypeInv /\ [Next]_vars => HashesCounted'
<1> SUFFICES ASSUME TypeInv, [Next]_vars PROVE HashesCounted'
    OBVIOUS
<1>a. /\ HashesCounted /\ TypeOK /\ Initial \in Users
      /\ hashes \in Nat /\ \A v \in Users : user[v] # None => user[v].hash \in Nat
      /\ DOMAIN user = Users
    BY AccountsAssumption DEF TypeInv, TypeOK, Rows
<1>b. ASSUME NEW u \in Users, NEW r, user' = [user EXCEPT ![u] = r], r.hash \in 0..hashes',
             hashes' \in {hashes, hashes + 1}
      PROVE  HashesCounted'
    BY <1>a, <1>b DEF HashesCounted
<1>c. ASSUME NEW u \in Users, user' = [user EXCEPT ![u] = Row(hashes + 1, FALSE)], hashes' = hashes + 1
      PROVE  HashesCounted'
    BY <1>a, <1>c DEF HashesCounted, Row
<1>1. CASE Start
    <2>1. CASE user[Initial] = None
        BY <1>1, <2>1, <1>a, <1>c DEF Start, Hashed
    <2>2. CASE user[Initial] # None
        BY <1>1, <2>2, <1>a DEF Start, HashesCounted, rows
    <2> QED BY <2>1, <2>2
<1>2. CASE Exit
    BY <1>2, <1>a DEF Exit, HashesCounted, rows
<1>3. CASE Close
    BY <1>3, <1>a DEF Close, HashesCounted, rows
<1>4. CASE CloseReturns
    BY <1>4, <1>a DEF CloseReturns, HashesCounted, rows
<1>5. CASE CloseTimesOut
    BY <1>5, <1>a DEF CloseTimesOut, HashesCounted, rows
<1>6. CASE ResetInitialAdmin
    BY <1>6, <1>a, <1>c DEF ResetInitialAdmin, Hashed
<1>7. ASSUME NEW l \in Logins, NEW u \in Users, Authenticate(l, u) PROVE HashesCounted'
    BY <1>7, <1>a DEF Authenticate, HashesCounted, rows
<1>8. ASSUME NEW l \in Logins, ScheduleGC(l) PROVE HashesCounted'
    BY <1>8, <1>a DEF ScheduleGC, HashesCounted, rows
<1>9. ASSUME NEW l \in Logins, NEW s \in Sids, CreateSession(l, s) PROVE HashesCounted'
    BY <1>9, <1>a DEF CreateSession, HashesCounted, rows
<1>10. ASSUME NEW a \in Admins, NEW op \in Ops, NEW u \in Users, ReadUser(a, op, u) PROVE HashesCounted'
    BY <1>10, <1>a DEF ReadUser, HashesCounted, rows
<1>11. ASSUME NEW a \in Admins, Update(a) PROVE HashesCounted'
    <2>1. Written(a).hash \in 0..hashes'
        <3>1. Written(a).hash \in Nat /\ Written(a).hash <= hashes'
            <4>1. Written(a) \in Rows /\ admin[a].op \in Ops /\ admin[a].row \in Rows
                  /\ hashes' \in {hashes, hashes + 1}
                BY <1>11, IsRow
            <4>2. Written(a).hash \in Nat /\ admin[a].row.hash \in Nat
                BY <4>1 DEF Rows
            <4>3. admin[a].row.hash <= hashes
                BY <1>11 DEF Update, TypeInv, AdminsSane
            <4>4. Written(a).hash = hashes' \/ Written(a).hash = admin[a].row.hash
                BY <1>11, <4>1, IsRow DEF Ops, Row
            <4> QED BY <4>1, <4>2, <4>3, <4>4, <1>a
        <3> QED BY <3>1, <1>a, HashesGrow
    <2> QED BY <1>11, <2>1, <1>b, IsRow DEF Update
<1>12. ASSUME NEW a \in Admins, UpdateFails(a) PROVE HashesCounted'
    BY <1>12, <1>a DEF UpdateFails, HashesCounted, rows
<1>13. ASSUME NEW a \in Admins, RevokeUser(a) PROVE HashesCounted'
    BY <1>13, <1>a DEF RevokeUser, HashesCounted, rows
<1>14. ASSUME NEW u \in Users, CreateUser(u) PROVE HashesCounted'
    BY <1>14, <1>a, <1>c DEF CreateUser, Hashed
<1>15. ASSUME NEW s \in Sids, Expire(s) PROVE HashesCounted'
    BY <1>15, <1>a DEF Expire, HashesCounted, rows
<1>16. ASSUME NEW s \in Sids, UseExpired(s) PROVE HashesCounted'
    BY <1>16, <1>a DEF UseExpired, HashesCounted, rows
<1>17. ASSUME NEW s \in Sids, Logout(s) PROVE HashesCounted'
    BY <1>17, <1>a DEF Logout, HashesCounted, rows
<1>18. ASSUME NEW w \in Workers, Pass(w) PROVE HashesCounted'
    BY <1>18, <1>a DEF Pass, HashesCounted, rows
<1>19. ASSUME NEW w \in Workers, CloseDone(w) PROVE HashesCounted'
    BY <1>19, <1>a DEF CloseDone, HashesCounted, rows
<1>20. CASE UNCHANGED vars
    BY <1>20, <1>a DEF vars, rows, store, gc, HashesCounted
<1> QED BY <1>1, <1>2, <1>3, <1>4, <1>5, <1>6, <1>7, <1>8, <1>9, <1>10, <1>11, <1>12,
          <1>13, <1>14, <1>15, <1>16, <1>17, <1>18, <1>19, <1>20
       DEF Next, Handling, Collecting

-----------------------------------------------------------------------------
(* The collectors                                                           *)

LEMMA CollectorStep == TypeInv /\ OneCollector /\ [Next]_vars => OneCollector'
<1> SUFFICES ASSUME TypeInv, OneCollector, [Next]_vars PROVE OneCollector'
    OBVIOUS
<1>a. /\ OneCollector /\ None \notin Workers
      /\ worker \in [Workers -> {"off", "pass", "flagged"}]
    BY AccountsAssumption DEF TypeInv, TypeOK
<1>1. CASE Start
    BY <1>1, <1>a DEF Start, OneCollector, gc
<1>2. CASE Exit
    BY <1>2 DEF Exit, OneCollector
<1>3. CASE Close
    BY <1>3, <1>a DEF Close, OneCollector, gc
<1>4. CASE CloseReturns
    BY <1>4, <1>a DEF CloseReturns, OneCollector, gc
<1>5. CASE CloseTimesOut
    BY <1>5, <1>a DEF CloseTimesOut, OneCollector, gc
<1>6. CASE ResetInitialAdmin
    BY <1>6, <1>a DEF ResetInitialAdmin, OneCollector, gc
<1>7. ASSUME NEW l \in Logins, NEW u \in Users, Authenticate(l, u) PROVE OneCollector'
    BY <1>7, <1>a DEF Authenticate, OneCollector, gc
<1>8. ASSUME NEW l \in Logins, ScheduleGC(l) PROVE OneCollector'
    <2>1. CASE ~StartsGC
        BY <1>8, <2>1, <1>a DEF ScheduleGC, OneCollector, gc
    <2>2. ASSUME StartsGC, NEW w \in Workers, worker' = [worker EXCEPT ![w] = "pass"],
                 gcRunning' = TRUE, gcDone' = w
          PROVE  OneCollector'
        <3>1. \A v \in Workers : worker[v] # "pass"
            BY <2>2, <1>a DEF OneCollector, StartsGC
        <3> QED BY <2>2, <3>1, <1>a DEF OneCollector
    <2> QED BY <1>8, <2>1, <2>2 DEF ScheduleGC
<1>9. ASSUME NEW l \in Logins, NEW s \in Sids, CreateSession(l, s) PROVE OneCollector'
    BY <1>9, <1>a DEF CreateSession, OneCollector, gc
<1>10. ASSUME NEW a \in Admins, NEW op \in Ops, NEW u \in Users, ReadUser(a, op, u) PROVE OneCollector'
    BY <1>10, <1>a DEF ReadUser, OneCollector, gc
<1>11. ASSUME NEW a \in Admins, Update(a) PROVE OneCollector'
    BY <1>11, <1>a DEF Update, OneCollector, gc
<1>12. ASSUME NEW a \in Admins, UpdateFails(a) PROVE OneCollector'
    BY <1>12, <1>a DEF UpdateFails, OneCollector, gc
<1>13. ASSUME NEW a \in Admins, RevokeUser(a) PROVE OneCollector'
    BY <1>13, <1>a DEF RevokeUser, OneCollector, gc
<1>14. ASSUME NEW u \in Users, CreateUser(u) PROVE OneCollector'
    BY <1>14, <1>a DEF CreateUser, OneCollector, gc
<1>15. ASSUME NEW s \in Sids, Expire(s) PROVE OneCollector'
    BY <1>15, <1>a DEF Expire, OneCollector, gc
<1>16. ASSUME NEW s \in Sids, UseExpired(s) PROVE OneCollector'
    BY <1>16, <1>a DEF UseExpired, OneCollector, gc
<1>17. ASSUME NEW s \in Sids, Logout(s) PROVE OneCollector'
    BY <1>17, <1>a DEF Logout, OneCollector, gc
<1>18. ASSUME NEW w \in Workers, Pass(w) PROVE OneCollector'
    BY <1>18, <1>a DEF Pass, OneCollector, gc
<1>19. ASSUME NEW w \in Workers, CloseDone(w) PROVE OneCollector'
    BY <1>19, <1>a DEF CloseDone, OneCollector, gc
<1>20. CASE UNCHANGED vars
    BY <1>20, <1>a DEF vars, rows, store, gc, OneCollector
<1> QED BY <1>1, <1>2, <1>3, <1>4, <1>5, <1>6, <1>7, <1>8, <1>9, <1>10, <1>11, <1>12,
          <1>13, <1>14, <1>15, <1>16, <1>17, <1>18, <1>19, <1>20
       DEF Next, Handling, Collecting

LEMMA DueStep == TypeInv /\ DueDrawn /\ [Next]_vars => DueDrawn'
<1> SUFFICES ASSUME TypeInv, DueDrawn, [Next]_vars PROVE DueDrawn'
    OBVIOUS
<1>a. /\ DueDrawn /\ due \in [Workers -> SUBSET Sids] /\ Live \subseteq drawn
    BY DEF TypeInv, TypeOK
<1>1. CASE Start
    BY <1>1, <1>a DEF Start, DueDrawn, gc, store, Expired
<1>2. CASE Exit
    BY <1>2, <1>a DEF Exit, DueDrawn, gc, store, Expired
<1>3. CASE Close
    BY <1>3, <1>a DEF Close, DueDrawn, gc, store, Expired
<1>4. CASE CloseReturns
    BY <1>4, <1>a DEF CloseReturns, DueDrawn, gc, store, Expired
<1>5. CASE CloseTimesOut
    BY <1>5, <1>a DEF CloseTimesOut, DueDrawn, gc, store, Expired
<1>6. CASE ResetInitialAdmin
    BY <1>6, <1>a DEF ResetInitialAdmin, DueDrawn, gc, store, Expired
<1>7. ASSUME NEW l \in Logins, NEW u \in Users, Authenticate(l, u) PROVE DueDrawn'
    BY <1>7, <1>a DEF Authenticate, DueDrawn, gc, store, Expired
<1>8. ASSUME NEW l \in Logins, ScheduleGC(l) PROVE DueDrawn'
    BY <1>8, <1>a DEF ScheduleGC, DueDrawn, gc, store, Expired
<1>9. ASSUME NEW l \in Logins, NEW s \in Sids, CreateSession(l, s) PROVE DueDrawn'
    BY <1>9, <1>a DEF CreateSession, DueDrawn, gc, store, Expired
<1>10. ASSUME NEW a \in Admins, NEW op \in Ops, NEW u \in Users, ReadUser(a, op, u) PROVE DueDrawn'
    BY <1>10, <1>a DEF ReadUser, DueDrawn, gc, store, Expired
<1>11. ASSUME NEW a \in Admins, Update(a) PROVE DueDrawn'
    BY <1>11, <1>a DEF Update, DueDrawn, gc, store, Expired
<1>12. ASSUME NEW a \in Admins, UpdateFails(a) PROVE DueDrawn'
    BY <1>12, <1>a DEF UpdateFails, DueDrawn, gc, store, Expired
<1>13. ASSUME NEW a \in Admins, RevokeUser(a) PROVE DueDrawn'
    BY <1>13, <1>a DEF RevokeUser, DueDrawn, gc, store, Expired
<1>14. ASSUME NEW u \in Users, CreateUser(u) PROVE DueDrawn'
    BY <1>14, <1>a DEF CreateUser, DueDrawn, gc, store, Expired
<1>15. ASSUME NEW s \in Sids, Expire(s) PROVE DueDrawn'
    BY <1>15, <1>a DEF Expire, DueDrawn, gc, store, Expired
<1>16. ASSUME NEW s \in Sids, UseExpired(s) PROVE DueDrawn'
    BY <1>16, <1>a DEF UseExpired, DueDrawn, gc, store, Expired
<1>17. ASSUME NEW s \in Sids, Logout(s) PROVE DueDrawn'
    BY <1>17, <1>a DEF Logout, DueDrawn, gc, store, Expired
<1>18. ASSUME NEW w \in Workers, Pass(w) PROVE DueDrawn'
    BY <1>18, <1>a DEF Pass, DueDrawn, gc, store, Expired
<1>19. ASSUME NEW w \in Workers, CloseDone(w) PROVE DueDrawn'
    BY <1>19, <1>a DEF CloseDone, DueDrawn, gc, store, Expired
<1>20. CASE UNCHANGED vars
    BY <1>20, <1>a DEF vars, rows, store, gc, DueDrawn
<1> QED BY <1>1, <1>2, <1>3, <1>4, <1>5, <1>6, <1>7, <1>8, <1>9, <1>10, <1>11, <1>12,
          <1>13, <1>14, <1>15, <1>16, <1>17, <1>18, <1>19, <1>20
       DEF Next, Handling, Collecting

\* No step but a login's last puts a session into the store, and its id is a new one.
LEMMA LiveFrom ==
    ASSUME TypeInv, [Next]_vars
    PROVE  Live' \cap drawn \subseteq Live
<1>1. CASE \E S : session' = Deleted(S)
    BY <1>1, SessionsDeleted DEF TypeInv
<1>2. CASE \E S \in SUBSET Live : session' = Excused(S)
    BY <1>2, SessionsExcused DEF TypeInv
<1>3. ASSUME NEW l \in Logins, NEW s \in Sids, CreateSession(l, s) PROVE Live' \cap drawn \subseteq Live
    BY <1>3 DEF CreateSession, Live
<1>4. ASSUME NEW s \in Sids, Expire(s) PROVE Live' \cap drawn \subseteq Live
    BY <1>4 DEF Expire, Live
<1>5. CASE UNCHANGED session
    BY <1>5 DEF Live
<1>6. \A u : Sessions(u) \in SUBSET Live
    BY DEF Sessions
<1>7. \/ \E S : session' = Deleted(S)
      \/ \E S \in SUBSET Live : session' = Excused(S)
      \/ \E l \in Logins, s \in Sids : CreateSession(l, s)
      \/ \E s \in Sids : Expire(s)
      \/ UNCHANGED session
    BY <1>6 DEF Next, Handling, Collecting, vars, store, Exit, Close, CloseReturns, CloseTimesOut,
           Authenticate, ScheduleGC, ReadUser, UpdateFails, RevokeUser, UseExpired, Logout,
           Pass, CloseDone, Start, ResetInitialAdmin, Update, CreateUser
<1> QED BY <1>1, <1>2, <1>3, <1>4, <1>5, <1>7

LEMMA CollectorsStep == GCInv /\ TypeOK' /\ OneCollector' /\ [Next]_vars => CollectorsRight'
<1> SUFFICES ASSUME GCInv, TypeOK', OneCollector', [Next]_vars PROVE CollectorsRight'
    OBVIOUS
<1>1. \A v, w \in Workers : worker'[v] = "pass" /\ worker'[w] = "pass" => v = w
    BY DEF OneCollector
<1>2. gcRunning' => \E w \in Workers : worker'[w] = "pass"
    BY DEF OneCollector
<1>3. \A w \in Workers : worker'[w] = "flagged" => due'[w] \cap Live' = {}
    <2> SUFFICES ASSUME NEW x \in Workers, worker'[x] = "flagged" PROVE due'[x] \cap Live' = {}
        OBVIOUS
    <2>a. /\ TypeInv /\ due[x] \subseteq drawn
          /\ worker[x] = "flagged" => due[x] \cap Live = {}
          /\ worker \in [Workers -> {"off", "pass", "flagged"}] /\ due \in [Workers -> SUBSET Sids]
        BY DEF GCInv, TypeInv, TypeOK, DueDrawn, CollectorsRight
    <2>1. CASE worker[x] = "flagged" /\ due'[x] = due[x]
        BY <2>1, <2>a, LiveFrom
    <2>2. ASSUME NEW w \in Workers, Pass(w), w = x PROVE due'[x] \cap Live' = {}
        <3>1. PICK S \in SUBSET (due[x] \cap Live) :
                /\ S = due[x] \cap Live \/ Cardinality(S) = Batch
                /\ session' = Deleted(S)
                /\ IF PassIsShort(Cardinality(S)) THEN TRUE ELSE UNCHANGED worker
            BY <2>2 DEF Pass
        <3>2. PassIsShort(Cardinality(S))
            BY <2>2, <3>1 DEF Pass
        <3>3. S = due[x] \cap Live
            BY <3>1, <3>2, AccountsAssumption DEF PassIsShort
        <3>4. Live' = Live \ S /\ due' = due
            BY <2>2, <3>1, <2>a, SessionsDeleted DEF Pass, TypeInv
        <3> QED BY <3>3, <3>4
    <2>3. \/ worker[x] = "flagged" /\ due'[x] = due[x]
          \/ \E w \in Workers : Pass(w) /\ w = x
        BY <2>a DEF Next, Handling, Collecting, vars, gc, Exit, Close, CloseReturns, CloseTimesOut,
           Authenticate,
               ScheduleGC, CreateSession, ReadUser, UpdateFails, RevokeUser, Expire, UseExpired, Logout,
               Pass, CloseDone, Start, ResetInitialAdmin, Update, CreateUser
    <2> QED BY <2>1, <2>2, <2>3
<1>4. ASSUME phase' = "closed" PROVE \A w \in Workers : worker'[w] # "pass"
    <2>a. /\ OneCollector /\ None \notin Workers
          /\ phase = "closed" => \A w \in Workers : worker[w] # "pass"
          /\ worker \in [Workers -> {"off", "pass", "flagged"}]
        BY AccountsAssumption DEF GCInv, TypeInv, TypeOK, CollectorsRight
    <2>1. CASE CloseReturns
        BY <2>1, <2>a DEF CloseReturns, OneCollector, gc
    <2>2. CASE phase = "closed" /\ ~Exit
        <3>1. \A w \in Workers : worker'[w] = "pass" => worker[w] = "pass"
            BY <2>2, <2>a DEF Next, Handling, Collecting, vars, gc, Close, CloseReturns,
               CloseTimesOut, Authenticate,
               ScheduleGC, StartsGC, CreateSession, ReadUser, UpdateFails, RevokeUser, Expire, UseExpired, Logout,
               Pass, CloseDone, Start, ResetInitialAdmin, Update, CreateUser
        <3> QED BY <2>2, <2>a, <3>1
    <2>3. CloseReturns \/ (phase = "closed" /\ ~Exit)
        BY <1>4 DEF Next, Handling, Collecting, vars, Exit, Close, CloseTimesOut, Authenticate,
               ScheduleGC, CreateSession, ReadUser, UpdateFails, RevokeUser, Expire, UseExpired, Logout,
               Pass, CloseDone, Start, ResetInitialAdmin, Update, CreateUser
    <2> QED BY <2>1, <2>2, <2>3
<1> QED BY <1>1, <1>2, <1>3, <1>4 DEF CollectorsRight

-----------------------------------------------------------------------------
(* Sessions                                                                 *)

\* What an account's logins and sessions rest on.
Fresh(v, h) == Current(v, h) \/ Revoking(v)

\* What a step does to a fresh account: it stays fresh, or all that rests on it is excused.
Excusing(v) ==
    /\ \A s \in Live' : session'[s].user = v => session'[s].expired \/ session'[s].excused
    /\ \A l \in Logins : login'[l].at # "idle" /\ login'[l].user = v => l \in overtaken'

LEMMA FreshKept ==
    ASSUME NEW v, NEW h, Fresh(v, h), v \in Users, DOMAIN user = Users
    PROVE  /\ UNCHANGED <<user, admin>> => Fresh(v, h)'
           /\ \A u \in Users : \A r : UNCHANGED admin /\ user[u] = None /\ user' = [user EXCEPT ![u] = r]
                => Fresh(v, h)'
           /\ (/\ UNCHANGED user
              /\ \A b \in Admins : admin[b].at = "updated" /\ admin[b].user = v => admin'[b] = admin[b])
                => Fresh(v, h)'
    BY DEF Fresh, Current, Revoking

LEMMA FreshStep ==
    ASSUME TypeInv, TypeOK', [Next]_vars, NEW v \in Users, NEW h, Fresh(v, h)
    PROVE  Fresh(v, h)' \/ Excusing(v)
<1>a. /\ DOMAIN user = Users /\ admin \in [Admins -> AdminStates] /\ TypeOK /\ Initial \in Users
      /\ login \in [Logins -> LoginStates]
    BY AccountsAssumption DEF TypeInv, TypeOK
<1>1. CASE UNCHANGED <<user, admin>>
    BY <1>1, <1>a, FreshKept
<1>2. CASE Start
    BY <1>2, <1>a, <1>1, FreshKept DEF Start, rows
<1>3. ASSUME NEW u \in Users, CreateUser(u) PROVE Fresh(v, h)'
    BY <1>3, <1>a, FreshKept DEF CreateUser
<1>4. CASE Exit
    <2>1. Live' = {}
        BY <1>4, <1>a, SessionsDeleted DEF Exit, Live
    <2>2. \A l \in Logins : login'[l].at = "idle"
        BY <1>4 DEF Exit, Free
    <2> QED BY <2>1, <2>2 DEF Excusing
<1>5. CASE ResetInitialAdmin
    <2>1. CASE v # Initial
        BY <1>5, <1>a, <2>1 DEF ResetInitialAdmin, Fresh, Current, Revoking
    <2>2. CASE v = Initial
        <3>1. Sessions(v) \subseteq Live /\ session' = Excused(Sessions(v))
            BY <1>5, <2>2 DEF ResetInitialAdmin, Sessions
        <3>2. Live' = Live /\ \A s \in Live : /\ session'[s].user = session[s].user
                                              /\ s \in Sessions(v) => session'[s].excused
            BY <3>1, <1>a, SessionsExcused
        <3>3. \A l \in Logins : login'[l].at # "idle" /\ login'[l].user = v => l \in overtaken'
            BY <1>5, <2>2 DEF ResetInitialAdmin, Checked
        <3> QED BY <3>2, <3>3 DEF Excusing, Sessions
    <2> QED BY <2>1, <2>2
<1>6. ASSUME NEW a \in Admins, NEW op \in Ops, NEW u \in Users, ReadUser(a, op, u) PROVE Fresh(v, h)'
    BY <1>6, <1>a, FreshKept DEF ReadUser, rows
<1>7. ASSUME NEW a \in Admins, UpdateFails(a) PROVE Fresh(v, h)'
    BY <1>7, <1>a, FreshKept DEF UpdateFails, rows
<1>8. ASSUME NEW a \in Admins, RevokeUser(a) PROVE Fresh(v, h)' \/ Excusing(v)
    <2>1. CASE admin[a].user # v
        BY <1>8, <2>1, <1>a, FreshKept DEF RevokeUser, rows
    <2>2. CASE admin[a].user = v
        <3>1. session' = Deleted(Sessions(v)) /\ overtaken' = overtaken \cup Checked(v) /\ login' = login
            BY <1>8, <2>2 DEF RevokeUser
        <3>2. Live' = Live \ Sessions(v) /\ \A s \in Live' : session'[s] = session[s]
            BY <3>1, <1>a, SessionsDeleted
        <3> QED BY <3>1, <3>2 DEF Excusing, Sessions, Checked
    <2> QED BY <2>1, <2>2
<1>9. ASSUME NEW a \in Admins, Update(a) PROVE Fresh(v, h)' \/ Excusing(v)
    <2> DEFINE w == admin[a].user
    <2>a. w \in Users /\ user' = [user EXCEPT ![w] = Written(a)] /\ admin[a].op \in Ops /\ admin[a].at = "read"
        BY <1>9, IsRow DEF Update
    <2>b. \A b \in Admins \ {a} : admin'[b] = admin[b]
        BY <1>9, <1>a DEF Update
    <2>1. CASE v # w
        BY <2>1, <2>a, <2>b, <1>a DEF Fresh, Current, Revoking
    <2>2. CASE v = w /\ Revokes(admin[a].op)
        <3>1. admin'[a] = Updated(w)
            BY <1>9, <2>2, <1>a DEF Update
        <3>2. Revoking(v)'
            BY <3>1, <2>2 DEF Updated, Revoking
        <3> QED BY <3>2 DEF Fresh
    <2>3. CASE v = w /\ ~Revokes(admin[a].op) /\ admin[a].row.hash = user[w].hash
        <3>1. admin[a].op = "enable" /\ Written(a) = Row(user[w].hash, FALSE)
            BY <1>9, <2>3, IsRow DEF Revokes
        <3>2. Written(a) \in Rows /\ Written(a) # None
            BY <1>9, IsRow, AccountsAssumption
        <3>3. Current(v, h) => Current(v, h)'
            BY <3>1, <3>2, <2>a, <2>3, <1>a DEF Current, Row
        <3>4. Revoking(v) => Revoking(v)'
            BY <2>a, <2>b DEF Revoking
        <3> QED BY <3>3, <3>4 DEF Fresh
    <2>4. CASE v = w /\ ~Revokes(admin[a].op) /\ admin[a].row.hash # user[w].hash
        <3>1. /\ Sessions(v) \subseteq Live /\ session' = Excused(Sessions(v))
              /\ overtaken' = overtaken \cup Checked(v) /\ login' = login
            BY <1>9, <2>4 DEF Update, Sessions, Revokes
        <3>2. Live' = Live /\ \A s \in Live : /\ session'[s].user = session[s].user
                                              /\ s \in Sessions(v) => session'[s].excused
            BY <3>1, <1>a, SessionsExcused
        <3> QED BY <3>1, <3>2 DEF Excusing, Sessions, Checked
    <2> QED BY <2>1, <2>2, <2>3, <2>4
<1>10. \/ UNCHANGED <<user, admin>> \/ Start \/ Exit \/ ResetInitialAdmin
       \/ \E u \in Users : CreateUser(u)
       \/ \E a \in Admins : \/ \E op \in Ops, u \in Users : ReadUser(a, op, u)
                            \/ Update(a) \/ UpdateFails(a) \/ RevokeUser(a)
    BY DEF Next, Handling, Collecting, vars, rows, Close, CloseReturns, CloseTimesOut, Authenticate,
           ScheduleGC, CreateSession, Expire, UseExpired, Logout, Pass, CloseDone
<1> QED BY <1>1, <1>2, <1>3, <1>4, <1>5, <1>6, <1>7, <1>8, <1>9, <1>10

\* Where a login's check and a usable session come from.
LEMMA LoginsFrom ==
    ASSUME TypeInv, [Next]_vars, NEW l \in Logins \ overtaken', login'[l].at # "idle"
    PROVE  \/ /\ l \notin overtaken /\ login[l].at # "idle"
              /\ login'[l].user = login[l].user /\ login'[l].hash = login[l].hash
           \/ UNCHANGED <<user, admin>> /\ Current(login'[l].user, login'[l].hash)
<1>a. login \in [Logins -> LoginStates]
    BY DEF TypeInv, TypeOK
<1>1. ASSUME NEW k \in Logins, NEW u \in Users, Authenticate(k, u)
      PROVE  \/ l # k /\ login'[l] = login[l] /\ overtaken' = overtaken
             \/ UNCHANGED <<user, admin>> /\ Current(login'[l].user, login'[l].hash)
    BY <1>1, <1>a DEF Authenticate, Current, rows
<1>2. ASSUME NEW k \in Logins, ScheduleGC(k)
      PROVE  /\ l \notin overtaken /\ login[l].at # "idle"
             /\ login'[l].user = login[l].user /\ login'[l].hash = login[l].hash
    BY <1>2, <1>a DEF ScheduleGC, LoginStates
<1>3. ASSUME NEW k \in Logins, NEW s \in Sids, CreateSession(k, s)
      PROVE  l # k /\ login'[l] = login[l] /\ l \notin overtaken
    BY <1>3, <1>a DEF CreateSession, Free
<1>4. ~Exit
    BY DEF Exit, Free
<1>5. \/ \E k \in Logins, u \in Users : Authenticate(k, u)
      \/ \E k \in Logins : ScheduleGC(k)
      \/ \E k \in Logins, s \in Sids : CreateSession(k, s)
      \/ login' = login /\ overtaken \subseteq overtaken'
    BY <1>4 DEF Next, Handling, Collecting, vars, Close, CloseReturns, CloseTimesOut, ReadUser,
       UpdateFails,
           RevokeUser, Expire, UseExpired, Logout, Pass, CloseDone, Start, ResetInitialAdmin, Update, CreateUser
<1> QED BY <1>1, <1>2, <1>3, <1>5

LEMMA SessionsFrom ==
    ASSUME TypeInv, [Next]_vars, NEW s \in Live', ~session'[s].expired
    PROVE  \/ /\ s \in Live /\ ~session[s].expired /\ session'[s].user = session[s].user
              /\ session'[s].hash = session[s].hash /\ (session[s].excused => session'[s].excused)
           \/ \E l \in Logins :
                /\ login[l].at # "idle" /\ session'[s].user = login[l].user
                /\ session'[s].hash = login[l].hash /\ (l \in overtaken => session'[s].excused)
<1>a. TypeOK /\ DOMAIN session = Sids /\ s \in Sids
    BY DEF TypeInv, TypeOK, Live
<1>1. CASE \E S : session' = Deleted(S)
    BY <1>1, <1>a, SessionsDeleted
<1>2. CASE \E S \in SUBSET Live : session' = Excused(S)
    BY <1>2, <1>a, SessionsExcused
<1>3. ASSUME NEW l \in Logins, NEW x \in Sids, CreateSession(l, x)
      PROVE  \/ s # x /\ session'[s] = session[s] /\ s \in Live
             \/ /\ login[l].at # "idle" /\ session'[s].user = login[l].user
                /\ session'[s].hash = login[l].hash /\ (l \in overtaken => session'[s].excused)
    BY <1>3, <1>a DEF CreateSession, Live
<1>4. ASSUME NEW x \in Sids, Expire(x) PROVE s # x /\ session'[s] = session[s] /\ s \in Live
    <2>1. s # x
        BY <1>4, <1>a DEF Expire, Spent
    <2> QED BY <1>4, <1>a, <2>1 DEF Expire, Live
<1>5. CASE UNCHANGED session
    BY <1>5 DEF Live
<1>6. \A u : Sessions(u) \in SUBSET Live
    BY DEF Sessions
<1>7. \/ \E S : session' = Deleted(S)
      \/ \E S \in SUBSET Live : session' = Excused(S)
      \/ \E l \in Logins, x \in Sids : CreateSession(l, x)
      \/ \E x \in Sids : Expire(x)
      \/ UNCHANGED session
    BY <1>6 DEF Next, Handling, Collecting, vars, store, Exit, Close, CloseReturns, CloseTimesOut,
           Authenticate, ScheduleGC, ReadUser, UpdateFails, RevokeUser, UseExpired, Logout,
           Pass, CloseDone, Start, ResetInitialAdmin, Update, CreateUser
<1> QED BY <1>1, <1>2, <1>3, <1>4, <1>5, <1>7

LEMMA SessionsStep == SessionInv /\ TypeOK' /\ [Next]_vars => LoginsCurrent' /\ NoStaleSession'
<1> SUFFICES ASSUME SessionInv, TypeOK', [Next]_vars PROVE LoginsCurrent' /\ NoStaleSession'
    OBVIOUS
<1>a. /\ TypeInv /\ LoginsSane
      /\ \A s \in Live : session[s].user \in Users
      /\ \A l \in Logins \ overtaken : login[l].at # "idle" => Fresh(login[l].user, login[l].hash)
      /\ \A s \in Live : session[s].expired \/ session[s].excused \/ Fresh(session[s].user, session[s].hash)
    BY DEF SessionInv, TypeInv, TypeOK, Live, Entries, LoginsCurrent, NoStaleSession, Expired, Fresh
<1>b. \A v \in Users : \A h : Fresh(v, h) => Fresh(v, h)' \/ Excusing(v)
    BY <1>a, FreshStep
<1>1. ASSUME NEW l \in Logins \ overtaken', login'[l].at # "idle"
      PROVE  Fresh(login[l].user, login[l].hash)'
    <2>1. CASE /\ l \notin overtaken /\ login[l].at # "idle"
               /\ login'[l].user = login[l].user /\ login'[l].hash = login[l].hash
        <3>1. login[l].user \in Users /\ Fresh(login[l].user, login[l].hash)
            BY <2>1, <1>a DEF LoginsSane
        <3>2. ~Excusing(login[l].user)
            BY <1>1, <2>1 DEF Excusing
        <3>3. PICK v, h : v = login[l].user /\ h = login[l].hash
            OBVIOUS
        <3>4. Fresh(v, h)'
            BY <3>1, <3>2, <3>3, <1>b
        <3> QED BY <2>1, <3>3, <3>4 DEF Fresh, Current, Revoking
    <2>2. CASE UNCHANGED <<user, admin>> /\ Current(login'[l].user, login'[l].hash)
        BY <2>2 DEF Fresh, Current
    <2> QED BY <1>1, <1>a, <2>1, <2>2, LoginsFrom
<1>2. ASSUME NEW s \in Live', ~session'[s].expired, ~session'[s].excused
      PROVE  Fresh(session[s].user, session[s].hash)'
    <2>1. \E v \in Users : Fresh(v, session'[s].hash) /\ session'[s].user = v
        <3>1. CASE /\ s \in Live /\ ~session[s].expired /\ session'[s].user = session[s].user
                   /\ session'[s].hash = session[s].hash /\ (session[s].excused => session'[s].excused)
            BY <1>2, <1>a, <3>1
        <3>2. ASSUME NEW l \in Logins, login[l].at # "idle", session'[s].user = login[l].user,
                     session'[s].hash = login[l].hash, l \in overtaken => session'[s].excused
              PROVE  login[l].user \in Users /\ Fresh(login[l].user, login[l].hash)
            BY <1>2, <1>a, <3>2 DEF LoginsSane
        <3> QED BY <1>2, <1>a, <3>1, <3>2, SessionsFrom
    <2>2. PICK v, h : v \in Users /\ Fresh(v, h) /\ session'[s].user = v /\ session'[s].hash = h
        BY <2>1
    <2>3. ~Excusing(v)
        BY <1>2, <2>2 DEF Excusing
    <2>4. Fresh(v, h)'
        BY <2>2, <2>3, <1>b
    <2> QED BY <2>2, <2>4 DEF Fresh, Current, Revoking
<1> QED BY <1>1, <1>2 DEF LoginsCurrent, NoStaleSession, Expired, Fresh

-----------------------------------------------------------------------------
(* Theorems                                                                 *)

Inv == GCInv /\ SessionInv

LEMMA Initially == Init => Inv
<1> SUFFICES ASSUME Init PROVE Inv
    OBVIOUS
<1>1. Live = {}
    BY DEF Init, Live
<1>2. TypeOK
    <2>1. Free \in LoginStates
        BY AccountsAssumption DEF Free, LoginStates
    <2>2. Idle \in AdminStates
        BY DEF Idle, AdminStates
    <2>3. /\ hashes \in 0..MaxHashes /\ DOMAIN user = Users /\ DOMAIN session = Sids
          /\ \A u \in Users : user[u] = None
          /\ \A s \in Sids : session[s] = None
        BY AccountsAssumption DEF Init
    <2>4. /\ login \in [Logins -> LoginStates] /\ admin \in [Admins -> AdminStates]
        BY <2>1, <2>2 DEF Init
    <2> QED BY <1>1, <2>3, <2>4 DEF Init, TypeOK
<1>3. AdminsSane /\ LoginsSane /\ HashesCounted
    BY DEF Init, AdminsSane, LoginsSane, HashesCounted, Idle, Free
<1>4. OneCollector /\ DueDrawn /\ CollectorsRight
    BY <1>1 DEF Init, OneCollector, DueDrawn, CollectorsRight
<1>5. LoginsCurrent /\ NoStaleSession
    BY <1>1 DEF Init, LoginsCurrent, NoStaleSession, Free
<1> QED BY <1>2, <1>3, <1>4, <1>5 DEF Inv, GCInv, SessionInv, TypeInv

\* The whole invariant, from which the theorems below follow.
THEOREM Invariance == Spec => []Inv
<1>1. Inv /\ [Next]_vars => Inv'
    <2> SUFFICES ASSUME Inv, [Next]_vars PROVE Inv'
        OBVIOUS
    <2>1. TypeInv /\ OneCollector /\ DueDrawn /\ GCInv /\ SessionInv
        BY DEF Inv, GCInv
    <2>2. TypeOK'
        BY <2>1, TypesStep
    <2>3. AdminsSane' /\ LoginsSane' /\ HashesCounted'
        BY <2>1, AdminsStep, LoginsSaneStep, HashesStep
    <2>4. OneCollector' /\ DueDrawn'
        BY <2>1, CollectorStep, DueStep
    <2>5. CollectorsRight'
        BY <2>1, <2>2, <2>4, CollectorsStep
    <2>6. LoginsCurrent' /\ NoStaleSession'
        BY <2>1, <2>2, SessionsStep
    <2> QED BY <2>2, <2>3, <2>4, <2>5, <2>6 DEF Inv, GCInv, SessionInv, TypeInv
<1> QED BY Initially, <1>1, PTL DEF Spec

\* Every variable keeps its shape (Accounts.tla, TypeOK).
THEOREM TypeCorrect == Spec => []TypeOK
<1>1. Inv => TypeOK
    BY DEF Inv, GCInv, TypeInv
<1> QED BY Invariance, <1>1, PTL

\* session.go:125-130, admin.go:218-227, 257-264: no usable session outlives the change of
\* its account, but for those of a login that the change overtook, of a reset from the
\* command line and of an enable that undoes a reset.
THEOREM SessionsRevoked == Spec => []NoStaleSession
<1>1. Inv => NoStaleSession
    BY DEF Inv, SessionInv
<1> QED BY Invariance, <1>1, PTL

\* session.go:150-203: one collector at a time, none unaccounted for, none that leaves
\* work behind, and none after a Close that has waited for it.
THEOREM Collectors == Spec => []CollectorsRight
<1>1. Inv => CollectorsRight
    BY DEF Inv, GCInv
<1> QED BY Invariance, <1>1, PTL

\* admin.go:213-218, 247-257: passwords do not go back and accounts do not open but by a
\* handler whose read is stale.
THEOREM ChangesStay == Spec => ChangesLast
<1>1. Inv /\ [Next]_vars =>
        [\A u \in Users :
            (user[u] # None /\ user'[u] # user[u]) =>
                \/ \E a \in Admins : admin[a].at = "read" /\ admin'[a].at # "read"
                                     /\ admin[a].user = u /\ admin[a].row # user[u]
                \/ /\ user'[u].hash >= user[u].hash
                   /\ user[u].disabled /\ ~user'[u].disabled =>
                        \/ \E a \in Admins : admin[a].op = "enable" /\ admin[a].user = u
                                             /\ admin'[a] # admin[a]
                        \/ u = Initial /\ admin' = admin]_vars
    <2> SUFFICES ASSUME Inv, Next, NEW u \in Users, user[u] # None, user'[u] # user[u]
                 PROVE  \/ \E a \in Admins : admin[a].at = "read" /\ admin'[a].at # "read"
                                             /\ admin[a].user = u /\ admin[a].row # user[u]
                        \/ /\ user'[u].hash >= user[u].hash
                           /\ user[u].disabled /\ ~user'[u].disabled =>
                                \/ \E a \in Admins : admin[a].op = "enable" /\ admin[a].user = u
                                                     /\ admin'[a] # admin[a]
                                \/ u = Initial /\ admin' = admin
        BY DEF vars
    <2>a. /\ TypeInv /\ hashes \in Nat /\ user[u].hash \in Nat /\ user[u].hash <= hashes
          /\ DOMAIN user = Users /\ Initial \in Users /\ user[u] \in Rows
          /\ admin \in [Admins -> AdminStates]
        BY AccountsAssumption DEF Inv, GCInv, TypeInv, TypeOK, HashesCounted, Rows
    <2>1. CASE ResetInitialAdmin
        <3>1. u = Initial /\ user'[u] = Row(hashes + 1, FALSE) /\ admin' = admin
            BY <2>1, <2>a DEF ResetInitialAdmin
        <3> QED BY <3>1, <2>a DEF Row
    <2>2. ASSUME NEW a \in Admins, Update(a), admin[a].user = u, admin[a].row = user[u]
          PROVE  /\ user'[u].hash >= user[u].hash
                 /\ user[u].disabled /\ ~user'[u].disabled => admin[a].op = "enable" /\ admin'[a] # admin[a]
        <3>1. user'[u] = Written(a) /\ hashes' \in {hashes, hashes + 1} /\ admin[a].op \in Ops
            BY <2>2, <2>a, IsRow DEF Update
        <3>2. CASE admin[a].op = "reset"
            <4>1. Written(a).hash = hashes' /\ Written(a).disabled = user[u].disabled /\ hashes' = hashes + 1
                BY <2>2, <2>a, <3>2, IsRow DEF Update, Hashed
            <4> QED BY <3>1, <4>1, <2>a
        <3>3. CASE admin[a].op = "disable"
            <4>1. Written(a) = Row(user[u].hash, TRUE)
                BY <2>2, <2>a, <3>3, IsRow
            <4> QED BY <3>1, <4>1, <2>a DEF Row
        <3>4. CASE admin[a].op = "enable"
            <4>1. Written(a) = Row(user[u].hash, FALSE)
                BY <2>2, <2>a, <3>4, IsRow
            <4>2. admin'[a] = Idle /\ Idle.at = "idle" /\ admin[a].at = "read"
                BY <2>2, <2>a, <3>4 DEF Update, Revokes, Idle
            <4> QED BY <3>1, <3>4, <4>1, <4>2, <2>a DEF Row
        <3> QED BY <3>1, <3>2, <3>3, <3>4 DEF Ops
    <2>3. ASSUME NEW a \in Admins, Update(a)
          PROVE  admin[a].at = "read" /\ admin'[a].at # "read"
        <3>1. admin[a].at = "read" /\ admin'[a] \in {Idle, Updated(admin[a].user)}
            BY <2>3, <2>a DEF Update
        <3>2. Idle.at = "idle" /\ Updated(admin[a].user).at = "updated"
            BY DEF Idle, Updated
        <3> QED BY <3>1, <3>2
    <2>4. ASSUME NEW a \in Admins, Update(a) PROVE admin[a].user = u
        BY <2>4, <2>a, IsRow DEF Update
    <2>5. ASSUME NEW x \in Users, user[x] = None, NEW r, user' = [user EXCEPT ![x] = r] PROVE FALSE
        BY <2>5, <2>a
    <2>6. ~Start /\ \A x \in Users : ~CreateUser(x)
        BY <2>5, <2>a DEF Start, CreateUser, rows
    <2>7. ResetInitialAdmin \/ \E a \in Admins : Update(a)
        BY <2>6 DEF Next, Handling, Collecting, rows, Exit, Close, CloseReturns, CloseTimesOut,
           Authenticate,
           ScheduleGC, CreateSession, ReadUser, UpdateFails, RevokeUser, Expire, UseExpired, Logout,
           Pass, CloseDone
    <2> QED BY <2>1, <2>2, <2>3, <2>4, <2>7
<1> QED BY Invariance, <1>1, PTL DEF Spec, ChangesLast
=============================================================================
