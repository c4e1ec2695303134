-------------------------- MODULE MCUploadSessions --------------------------
(* Instances of UploadSessions for TLC: which process each handler runs in.  *)
EXTENDS UploadSessions, TLC

CONSTANTS h1, h2, server, server2

\* Both handlers in one server.
OneServer == [h \in Handlers |-> server]

\* Two servers over the same data directory, one handler each.
TwoServers == [h \in Handlers |-> IF h = h1 THEN server ELSE server2]

Symmetry == Permutations(Data) \cup Permutations(Ids) \cup Permutations(Keys)
=============================================================================
