---------------------------- MODULE UploadAdmission ----------------------------
(***************************************************************************)
(* Admission of upload bodies: limits.UploadLimiter with its global slots  *)
(* and its counts per user and address, the middleware LimitUpload, and    *)
(* UploadBodyLimits inside it, which gives a body's reads an idle deadline *)
(* on the connection and has a goroutine watch for timeout and             *)
(* cancellation.                                                           *)
(*                                                                         *)
(* Every request has a connection of its own; what the peer sends, and     *)
(* whether it sends anything, is left open.  The clock is abstract: a      *)
(* deadline or timer that is set may run out at any time.                  *)
(***************************************************************************)
EXTENDS Naturals, FiniteSets

CONSTANTS
    Requests,           \* uploads (bounds their number)
    Users, Addresses,   \* UploadKey.User, UploadKey.IP
    UserOf, AddressOf,  \* [Requests -> Users], [Requests -> Addresses]
    Global, PerUser, PerIP, \* the three limits
    MaxReads            \* reads that fit into a body (MaxRequestBodyBytes)

ASSUME AdmissionAssumption ==
    /\ IsFiniteSet(Requests)
    /\ UserOf \in [Requests -> Users] /\ AddressOf \in [Requests -> Addresses]
    /\ Global \in Nat \ {0} /\ PerUser \in Nat \ {0} /\ PerIP \in Nat \ {0}
    /\ MaxReads \in Nat

VARIABLES
    slots,       \* tokens in the channel global
    users, ips,  \* the counts; an absent key counts 0
    pc,          \* where each request's handler is
    reads,       \* successful reads of its body
    deadline,    \* the connection's read deadline: none, later or past
    timer,       \* the idle timer: off, set or fired
    watch,       \* its goroutine: none, waiting, alarmed or done
    stopped,     \* requests whose stopCh is closed
    overtaken    \* an interrupt came while a read had data in hand (history)

counts == <<slots, users, ips>>
guard == <<deadline, timer, watch, stopped, overtaken>>
vars == <<slots, users, ips, pc, reads, deadline, timer, watch, stopped, overtaken>>

Init ==
    /\ slots = 0
    /\ users = [u \in Users |-> 0]
    /\ ips = [a \in Addresses |-> 0]
    /\ pc = [r \in Requests |-> "new"]
    /\ reads = [r \in Requests |-> 0]
    /\ deadline = [r \in Requests |-> "none"]
    /\ timer = [r \in Requests |-> "off"]
    /\ watch = [r \in Requests |-> "none"]
    /\ stopped = {} /\ overtaken = {}

Go(r, l) == pc' = [pc EXCEPT ![r] = l]

-----------------------------------------------------------------------------
(* TryAcquire and Release                                                   *)

\* case l.global <- struct{}{}
TakeSlot(r) ==
    /\ pc[r] = "new"
    /\ slots < Global
    /\ slots' = slots + 1
    /\ Go(r, "slot")
    /\ UNCHANGED <<users, ips, reads, guard>>

\* default: ErrLimited, whoever holds the slots and for however long.
NoSlot(r) ==
    /\ pc[r] = "new"
    /\ slots = Global
    /\ Go(r, "refused")
    /\ UNCHANGED <<counts, reads, guard>>

\* Faulty variant: the address is not looked at.
UserWithin(r) == users[UserOf[r]] < PerUser

Within(r) == users[UserOf[r]] < PerUser /\ ips[AddressOf[r]] < PerIP

\* The section under the mutex counts the request ...
Admit(r) ==
    /\ pc[r] = "slot"
    /\ Within(r)
    /\ users' = [users EXCEPT ![UserOf[r]] = @ + 1]
    /\ ips' = [ips EXCEPT ![AddressOf[r]] = @ + 1]
    /\ Go(r, "admitted")
    /\ UNCHANGED <<slots, reads, guard>>

\* Faulty variant: the slot is kept.
SlotsKept == slots

\* <-l.global
SlotGivenBack == slots - 1

\* ... or gives the slot back.
Refuse(r) ==
    /\ pc[r] = "slot"
    /\ ~Within(r)
    /\ slots' = SlotGivenBack
    /\ Go(r, "refused")
    /\ UNCHANGED <<users, ips, reads, guard>>

\* Faulty variant: the key is deleted, whatever its count.
Forgotten(count, k) == [count EXCEPT ![k] = 0]

\* The count goes down; at 0 the key is deleted.
CountedOut(count, k) == [count EXCEPT ![k] = @ - 1]

\* Release counts the request out, once, ...
Release(r) ==
    /\ pc[r] = "release"
    /\ users' = CountedOut(users, UserOf[r])
    /\ ips' = CountedOut(ips, AddressOf[r])
    /\ Go(r, "free")
    /\ UNCHANGED <<slots, reads, guard>>

\* ... and then gives the slot back, outside of the mutex.
FreeSlot(r) ==
    /\ pc[r] = "free"
    /\ slots' = SlotGivenBack
    /\ Go(r, "done")
    /\ UNCHANGED <<users, ips, reads, guard>>

-----------------------------------------------------------------------------
(* The body                                                                 *)

\* protectUploadBody
Protect(r) ==
    /\ pc[r] = "admitted"
    /\ deadline' = [deadline EXCEPT ![r] = "later"]
    /\ timer' = [timer EXCEPT ![r] = "set"]
    /\ watch' = [watch EXCEPT ![r] = "waiting"]
    /\ Go(r, "read")
    /\ UNCHANGED <<counts, reads, stopped, overtaken>>

\* body.Read returns data ...
ReadData(r) ==
    /\ pc[r] = "read"
    /\ deadline[r] # "past" /\ reads[r] < MaxReads
    /\ reads' = [reads EXCEPT ![r] = @ + 1]
    /\ Go(r, "refresh")
    /\ UNCHANGED <<counts, guard>>

\* Faulty variant: the deadline is left to the timer.
NoDeadline == "none"

\* setDeadline(time.Now().Add(p.idle))
Refreshed == "later"

\* ... and refresh rewinds the timer and the deadline, even one that has been
\* brought forward.
Refresh(r) ==
    /\ pc[r] = "refresh"
    /\ timer' = [timer EXCEPT ![r] = "set"]
    /\ deadline' = [deadline EXCEPT ![r] = Refreshed]
    /\ Go(r, "read")
    /\ UNCHANGED <<counts, reads, watch, stopped, overtaken>>

\* The body ends, the connection breaks or the handler has read enough.
ReadEnds(r) ==
    /\ pc[r] = "read"
    /\ Go(r, "stop")
    /\ UNCHANGED <<counts, reads, guard>>

\* The deadline fails the read.
ReadTimesOut(r) ==
    /\ pc[r] = "read" /\ deadline[r] = "past"
    /\ Go(r, "stop")
    /\ UNCHANGED <<counts, reads, guard>>

\* stop, once: close(p.stopCh), and the timer is stopped and drained ...
Stop(r) ==
    /\ pc[r] = "stop"
    /\ stopped' = stopped \cup {r}
    /\ timer' = [timer EXCEPT ![r] = "off"]
    /\ Go(r, "wait")
    /\ UNCHANGED <<counts, reads, deadline, watch, overtaken>>

\* Faulty variant: stop does not wait for the goroutine.
NoWait(r) == TRUE

\* <-p.done
WatchDone(r) == watch[r] = "done"

\* ... then the deadline is taken off.
ClearDeadline(r) ==
    /\ pc[r] = "wait"
    /\ WatchDone(r)
    /\ deadline' = [deadline EXCEPT ![r] = "none"]
    /\ Go(r, "release")
    /\ UNCHANGED <<counts, reads, timer, watch, stopped, overtaken>>

\* select in watch: any case that is ready.
WatchStops(r) ==
    /\ watch[r] = "waiting" /\ r \in stopped
    /\ watch' = [watch EXCEPT ![r] = "done"]
    /\ UNCHANGED <<counts, pc, reads, deadline, timer, stopped, overtaken>>

WatchTimer(r) ==
    /\ watch[r] = "waiting" /\ timer[r] = "fired"
    /\ timer' = [timer EXCEPT ![r] = "off"]
    /\ watch' = [watch EXCEPT ![r] = "alarmed"]
    /\ UNCHANGED <<counts, pc, reads, deadline, stopped, overtaken>>

\* The client goes away, or RequestTimeout is over: at any time.
WatchContext(r) ==
    /\ watch[r] = "waiting"
    /\ watch' = [watch EXCEPT ![r] = "alarmed"]
    /\ UNCHANGED <<counts, pc, reads, deadline, timer, stopped, overtaken>>

\* setDeadline(time.Now())
InterruptedDeadline(r) == "past"

Interrupt(r) ==
    /\ watch[r] = "alarmed"
    /\ deadline' = [deadline EXCEPT ![r] = InterruptedDeadline(r)]
    /\ watch' = [watch EXCEPT ![r] = "done"]
    /\ overtaken' = IF pc[r] = "refresh" THEN overtaken \cup {r} ELSE overtaken
    /\ UNCHANGED <<counts, pc, reads, timer, stopped>>

\* Time passes for the timer and for the deadline.
TimerFires(r) ==
    /\ timer[r] = "set"
    /\ timer' = [timer EXCEPT ![r] = "fired"]
    /\ UNCHANGED <<counts, pc, reads, deadline, watch, stopped, overtaken>>

DeadlinePasses(r) ==
    /\ deadline[r] = "later"
    /\ deadline' = [deadline EXCEPT ![r] = "past"]
    /\ UNCHANGED <<counts, pc, reads, timer, watch, stopped, overtaken>>

-----------------------------------------------------------------------------
Handling(r) ==
    \/ Admit(r) \/ Refuse(r) \/ Protect(r) \/ Refresh(r) \/ ReadTimesOut(r)
    \/ Stop(r) \/ ClearDeadline(r) \/ Release(r) \/ FreeSlot(r)

Watching(r) == WatchStops(r) \/ WatchTimer(r) \/ Interrupt(r)

Next == \E r \in Requests :
    \/ TakeSlot(r) \/ NoSlot(r) \/ ReadData(r) \/ ReadEnds(r)
    \/ Handling(r) \/ Watching(r)
    \/ WatchContext(r) \/ TimerFires(r) \/ DeadlinePasses(r)

Spec == Init /\ [][Next]_vars

\* The scheduler runs goroutines and time passes; nothing is asked of the peer.
Fairness == \A r \in Requests :
    /\ WF_vars(Handling(r)) /\ WF_vars(Watching(r))
    /\ WF_vars(TimerFires(r)) /\ WF_vars(DeadlinePasses(r))

FairSpec == Spec /\ Fairness

-----------------------------------------------------------------------------
(* Properties                                                               *)

\* The shapes of all variables.
TypeOK ==
    /\ slots \in 0..Global
    /\ users \in [Users -> 0..PerUser]
    /\ ips \in [Addresses -> 0..PerIP]
    /\ pc \in [Requests -> {"new", "slot", "refused", "admitted", "read", "refresh", "stop",
                            "wait", "release", "free", "done"}]
    /\ reads \in [Requests -> 0..MaxReads]
    /\ deadline \in [Requests -> {"none", "later", "past"}]
    /\ timer \in [Requests -> {"off", "set", "fired"}]
    /\ watch \in [Requests -> {"none", "waiting", "alarmed", "done"}]
    /\ stopped \subseteq Requests /\ overtaken \subseteq Requests

Leased == {r \in Requests : pc[r] \in {"admitted", "read", "refresh", "stop", "wait", "release"}}
Passing == {r \in Requests : pc[r] \in {"slot", "free"}}

\* limiter.go:39-82: the two counts are those of the leases that are out, and the
\* slots taken are the leases and the callers that are just on their way in or out;
\* with TypeOK, none of the three limits is ever exceeded.
CountsExact ==
    /\ slots = Cardinality(Leased \cup Passing)
    /\ \A u \in Users : users[u] = Cardinality({r \in Leased : UserOf[r] = u})
    /\ \A a \in Addresses : ips[a] = Cardinality({r \in Leased : AddressOf[r] = a})

\* limiter.go:9-10, 41-45: a caller is refused for want of a slot when all of them are
\* leased, or while a caller is passing that will not keep its slot or has not yet
\* come to its lease; it is never refused because of one that has gone.
RefusalsHaveACause ==
    [][\A r \in Requests : pc[r] = "new" /\ pc'[r] = "refused" =>
            Cardinality(Leased) >= Global \/ Passing # {}]_vars

\* middleware.go:114-131, 187-231: the connection goes on to its next request without a
\* deadline, whatever timer or cancellation raced with the end of this one; and
\* until then an interrupt holds unless a read had data in hand when it came.
DeadlinesRight ==
    \A r \in Requests :
        /\ pc[r] \in {"release", "free", "done", "refused"} => deadline[r] = "none" /\ watch[r] # "alarmed"
        /\ pc[r] \in {"read", "refresh"} /\ watch[r] = "done" /\ r \notin overtaken => deadline[r] = "past"

\* middleware.go:114-119: a peer that stalls, at whatever moment, does not keep its slot.
SlotsComeBack == \A r \in Requests : (pc[r] = "slot") ~> (pc[r] \in {"done", "refused"})
=============================================================================
