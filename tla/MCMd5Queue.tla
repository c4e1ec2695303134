------------------------------ MODULE MCMd5Queue ------------------------------
(* Instances of Md5Queue for TLC: which process each hashing goroutine runs in. *)
EXTENDS Md5Queue, TLC

CONSTANTS w1, w2, server, server2

\* One server with all goroutines.
OneServer == [w \in Hashers |-> server]

\* Two servers over the same data directory, one goroutine each.
TwoServers == [w \in Hashers |-> IF w = w1 THEN server ELSE server2]

\* Keys are interchangeable, and so are the two servers with their goroutines.
Swap == server :> server2 @@ server2 :> server @@ w1 :> w2 @@ w2 :> w1
Same == [x \in {server, server2, w1, w2} |-> x]
Symmetry == {s @@ k : s \in {Same, Swap}, k \in Permutations(Keys)}
=============================================================================
