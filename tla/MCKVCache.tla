------------------------------ MODULE MCKVCache ------------------------------
(* A server with getters and background goroutines, and a second process that *)
(* writes to the store they share.                                           *)
EXTENDS KVCache, TLC
CONSTANTS server, worker, g1, g2, s, t1, t2

Homes == [a \in Agent |-> IF a = s THEN worker ELSE server]
Alike == Permutations({g1, g2}) \cup Permutations({t1, t2})
=============================================================================
