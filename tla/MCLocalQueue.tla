---------------------------- MODULE MCLocalQueue ----------------------------
(* Two unique jobs with one dedup key (safety); two jobs that submit three    *)
(* others while they run (liveness).                                         *)
EXTENDS LocalQueue, TLC
CONSTANTS j1, j2, j3, j4, j5, k1, w1, w2, c1, c2

TwoUnique == {j1, j2}
TwoUniqueKey == (j1 :> k1) @@ (j2 :> k1)
TwoUniqueParent == (j1 :> NoJob) @@ (j2 :> NoJob)
Second == {j2}
First == {j1}
\* Workers are interchangeable, and so are the goroutines that call Cancel.
ThreadSymmetry == Permutations({w1, w2}) \cup Permutations({c1, c2})

\* j1 and j2 can occupy both workers, j3 the buffer, and j4 and j5 wait for room.
Family == {j1, j2, j3, j4, j5}
FamilyKey == [j \in Family |-> NoKey]
FamilyParent == (j1 :> NoJob) @@ (j2 :> NoJob) @@ (j3 :> j1) @@ (j4 :> j1) @@ (j5 :> j2)
=============================================================================
