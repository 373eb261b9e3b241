----------------------------- MODULE MCFeedState -----------------------------
(* One feed with two versions, and three callers.                           *)
EXTENDS FeedState, TLC
CONSTANTS p1, p2, p3, f1, v1, v2

BothOfOne == (v1 :> f1) @@ (v2 :> f1)
Requests ==
  {[kind |-> "exclude", feed |-> f1, value |-> TRUE],
   [kind |-> "public", feed |-> f1, value |-> FALSE],
   [kind |-> "sync"]}
    \cup [kind : {"set"}, versions : {{v1}}, oneTx : BOOLEAN]

ASSUME Unforced

CallerSymmetry == Permutations(Proc)
=============================================================================
