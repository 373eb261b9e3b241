------------------------------ MODULE MCRTCache ------------------------------
(* A server with two readers that fetches itself, or a worker that fetches.  *)
EXTENDS RTCache, TLC
CONSTANTS server, worker, r1, r2, f1, f2

OneServer == (r1 :> server) @@ (r2 :> server) @@ (f1 :> server)
ServerReadsWorkerFetches == (r1 :> server) @@ (f2 :> worker)
BothModes == BOOLEAN
=============================================================================
