--------------------------- MODULE MCLocalBackend ---------------------------
(* Two Runs, of which the second needs a Stop, a Shutdown, and a periodic that *)
(* can fill the buffer, as can other callers.                                  *)
EXTENDS LocalBackend
CONSTANTS r1, r2, s1, o1, p1
=============================================================================
