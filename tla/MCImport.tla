--------------------------- MODULE MCImport --------------------------------
(* The two parts of an import: the life of the versions of a feed, and the    *)
(* copy of one feed.  For the first an import is a few batches of rows, and   *)
(* for the second a feed version is a feed and the copy a call; they share no  *)
(* variable, so that a behaviour moves one of them while the other stays as it *)
(* began: the copy with a feed of no rows and one set of options.              *)
(*                                                                         *)
(* One content, so that the fetches compete.  One call can only fetch: where   *)
(* none does there is no version, and no other call does anything.            *)
EXTENDS FeedVersions, MCCopier
CONSTANT Fetcher

FirstVersion ==
  [kind : {"import"}, version : {1, 2}, activate : {TRUE}]
    \cup [kind : {"unimport", "delete", "schedule"}, version : {1}]
FetchAndFirst == [kind : {"fetch"}, content : Content] \cup FirstVersion

CallSymmetry == Permutations(Call \ {Fetcher})

ImportInit == Init /\ CopyInit

\* What a step of the copy, and a step in the life of a version, leaves as it began.
VersionsRest == (\A c \in Call : pc[c] = "idle") /\ UNCHANGED vars
CopyRests ==
  /\ stage = "phase" /\ phase = 0 /\ feed = NoRows /\ opt = ImportOptions
  /\ UNCHANGED copyVars

ImportNext ==
  \/ VersionsRest /\ NextPhase
  \/ VersionsRest /\ TakeBatch
  \/ VersionsRest /\ TakeGenerated
  \/ VersionsRest /\ TakeTrips
  \/ VersionsRest /\ AssignTrip
  \/ VersionsRest /\ AssignOther
  \/ VersionsRest /\ WriteTrips
  \/ VersionsRest /\ WriteGroup
  \/ VersionsRest /\ WriterFails
  \/ VersionsRest /\ EndGroups
  \/ CopyRests /\ \E c \in Call \ {Fetcher}, r \in Request : Start(c, r)
  \/ CopyRests /\ \E r \in {r \in Request : r.kind = "fetch"} : Start(Fetcher, r)
  \/ CopyRests /\ \E c \in Call : Fetch(c)
  \/ CopyRests /\ \E c \in Call : Import(c)
  \/ CopyRests /\ \E c \in Call : Erase(c)
  \/ CopyRests /\ \E c \in Call : Crash(c)

ImportSpec == ImportInit /\ [][ImportNext]_<<vars, copyVars>>
=============================================================================
