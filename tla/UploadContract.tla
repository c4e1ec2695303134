--------------------------- MODULE UploadContract ---------------------------
(***************************************************************************)
(* What a resumable upload promises its client, with no lock, no staging   *)
(* file, no process and no crash in sight: bytes are acknowledged in order *)
(* while the session is open, and the session then ends either as ONE      *)
(* visible file holding exactly the acknowledged bytes, or as nothing.     *)
(* UploadSessions implements it (UploadSessions!Contract).                 *)
(***************************************************************************)
EXTENDS Naturals, Sequences

CONSTANTS Ids,       \* upload sessions
          Paths,     \* logical paths of one storage root
          Data,      \* units of content
          MaxLength, \* bound on a declared length
          None

VARIABLES fate,      \* [Ids -> "unborn" | "open" | "closed" | "published"]
          length,    \* declared length of an open session
          dest,      \* destination of an open session
          acked,     \* bytes acknowledged so far
          visible    \* [Paths -> content | None]: what readers can see

vars == <<fate, length, dest, acked, visible>>

Init ==
    /\ fate = [i \in Ids |-> "unborn"]
    /\ length = [i \in Ids |-> 0]
    /\ dest = [i \in Ids |-> None]
    /\ acked = [i \in Ids |-> <<>>]
    /\ visible = [p \in Paths |-> None]

Open(i) ==
    /\ fate[i] = "unborn"
    /\ fate' = [fate EXCEPT ![i] = "open"]
    /\ \E n \in 0..MaxLength : length' = [length EXCEPT ![i] = n]
    /\ \E p \in Paths : dest' = [dest EXCEPT ![i] = p]
    /\ UNCHANGED <<acked, visible>>

\* Only appends, and never past the declared length.
Append_(i) ==
    /\ fate[i] = "open"
    /\ \E n \in 1..(length[i] - Len(acked[i])) : \E d \in [1..n -> Data] :
          acked' = [acked EXCEPT ![i] = @ \o d]
    /\ UNCHANGED <<fate, length, dest, visible>>

\* Publication is one step: a complete session, a free path, all the bytes.
Publish(i) ==
    /\ fate[i] = "open"
    /\ Len(acked[i]) = length[i]
    /\ visible[dest[i]] = None
    /\ visible' = [visible EXCEPT ![dest[i]] = acked[i]]
    /\ fate' = [fate EXCEPT ![i] = "published"]
    /\ length' = [length EXCEPT ![i] = 0]
    /\ dest' = [dest EXCEPT ![i] = None]
    /\ UNCHANGED acked

\* Cancelled, expired, or given up by a recovery run: never visible afterwards.
Drop(i) ==
    /\ fate[i] = "open"
    /\ fate' = [fate EXCEPT ![i] = "closed"]
    /\ length' = [length EXCEPT ![i] = 0]
    /\ dest' = [dest EXCEPT ![i] = None]
    /\ UNCHANGED <<acked, visible>>

Next == \E i \in Ids : Open(i) \/ Append_(i) \/ Publish(i) \/ Drop(i)

Spec == Init /\ [][Next]_vars
=============================================================================
