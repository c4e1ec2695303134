-------------------------- MODULE MCPublishedFiles --------------------------
(* Instances of PublishedFiles for TLC: trees of paths, and which process    *)
(* each handler runs in.                                                     *)
EXTENDS PublishedFiles, TLC

CONSTANTS h1, h2, server, server2, top, a, ab, abc, A

\* Both handlers in one server.
OneServer == [h \in Handlers |-> server]

\* Two servers over the same data directory, one handler each.
TwoServers == [h \in Handlers |-> IF h = h1 THEN server ELSE server2]

\* The path /a/b/c, the two above it, and /A, which LIKE takes for /a.
ParentIn == [p \in Paths |-> CASE p \in {a, A} -> top [] p = ab -> a [] p = abc -> ab]
AboveIn == [p \in Paths |-> CASE p \in {a, A} -> {} [] p = ab -> {a} [] p = abc -> {a, ab}]
LikeIn == [p \in Paths |-> AboveIn[p] \cup (IF p \in {ab, abc} THEN {A} \cap Paths ELSE {})]

Symmetry == Permutations(Keys) \cup Permutations(Handlers)
=============================================================================
