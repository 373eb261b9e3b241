---------------------------- MODULE FeedVersions -----------------------------
(***************************************************************************)
(* The life of the versions of a feed: fetch (fetch/static_fetch.go),      *)
(* import (importer/importer.go), unimport and delete                      *)
(* (importer/unimporter.go), by callers that run at the same time, fail    *)
(* and crash.                                                              *)
(*                                                                         *)
(* Each element of Call is one invocation.  A step is one statement of the *)
(* import, which has no transaction around it, or one statement of the     *)
(* transaction of the others, under READ COMMITTED; the last statement of  *)
(* a transaction and its commit are one step.  Activation is the           *)
(* transaction of module FeedState, taken here as one step.                *)
(***************************************************************************)
EXTENDS Naturals, FiniteSets

CONSTANTS
  Call, NoCall,
  Content, NoContent,  \* what a feed's url may deliver, by sha1
  MaxVersion,          \* bound: rows of feed_versions
  Request              \* what a call may be

Version == 1..MaxVersion
NoVersion == 0

Requests ==
  [kind : {"fetch"}, content : Content]
    \cup [kind : {"import"}, version : Version, activate : BOOLEAN]
    \cup [kind : {"unimport", "delete", "schedule"}, version : Version]

ASSUME FeedVersionsAssumption ==
  /\ NoCall \notin Call /\ NoContent \notin Content
  /\ MaxVersion \in Nat
  /\ Request \subseteq Requests

\* What the copy writes, in this order. The rows of the first batch (agencies,
\* routes, stops, ...) are unique in a feed version. The second batch (trips and
\* stop times) refers to the rows of the first. The third (feed infos,
\* translations) neither has a unique index nor refers to other rows.
Batch == {"stops", "schedule", "infos"}

VARIABLES
  sha,      \* feed_versions: content of a version, NoContent when there is no row
  deleted,  \* feed_versions: versions with deleted_at
  files,    \* contents stored under <sha1>.zip
  status,   \* feed_version_gtfs_imports: state of a version's record, or "none"
  owner,    \* the call that inserted the record, which stands for its id
  noSched,  \* versions whose record has schedule_removed
  rows,     \* imported rows: <<version, call, batch>>
  active,   \* the feed's active version
  pc, req,  \* of each call
  found,    \* of a fetch: the version it found or created (Result.FeedVersionID)
  fetches,  \* feed_fetches: the version of each logged fetch, NoVersion if it failed
  del,      \* rows that the call's open transaction has deleted
  torn      \* history: versions an import and an unimport have used at once

db == <<sha, deleted, files, status, owner, noSched, rows, active>>
records == <<status, owner, noSched>>
vars == <<db, pc, req, found, fetches, del, torn>>

Copying   == Batch \cup {"finalize", "fail"}
Importing == Copying \cup {"activate"}
Erasing   == {"clear", "entities", "finish"}
Fetching  == {"check", "validate", "upload", "recheck", "insert", "log"}
Working   == {"import", "create"} \cup Importing \cup Erasing \cup Fetching
Pc == {"idle", "done", "failed", "crashed"} \cup Working
NoRequest == [kind |-> "none"]

TypeOK ==
  /\ sha \in [Version -> Content \cup {NoContent}]
  /\ deleted \subseteq {v \in Version : sha[v] # NoContent}
  /\ files \subseteq Content
  /\ status \in [Version -> {"none", "in_progress", "success", "failed"}]
  /\ owner \in [Version -> Call \cup {NoCall}]
  /\ noSched \subseteq Version
  /\ rows \subseteq Version \X Call \X Batch
  /\ active \in Version \cup {NoVersion}
  /\ pc \in [Call -> Pc] /\ req \in [Call -> Request \cup {NoRequest}]
  /\ found \in [Call -> Version \cup {NoVersion}]
  /\ fetches \subseteq Call \X (Version \cup {NoVersion})
  /\ del \in [Call -> SUBSET rows]
  /\ \A c \in Call : del[c] # {} => pc[c] \in Erasing
  /\ torn \subseteq Version

Init ==
  /\ sha = [v \in Version |-> NoContent] /\ deleted = {} /\ files = {}
  /\ status = [v \in Version |-> "none"] /\ owner = [v \in Version |-> NoCall]
  /\ noSched = {} /\ rows = {} /\ active = NoVersion
  /\ pc = [c \in Call |-> "idle"] /\ req = [c \in Call |-> NoRequest]
  /\ found = [c \in Call |-> NoVersion] /\ fetches = {}
  /\ del = [c \in Call |-> {}] /\ torn = {}

Step(c, from, to) == pc[c] = from /\ pc' = [pc EXCEPT ![c] = to]
Target(c) == req[c].version
RowsOf(v) == {r \in rows : r[1] = v}

\* A call that enters the given steps on its version, next to one in the others.
Meets(c, others) ==
  torn' = torn \cup {v \in {Target(c)} : \E d \in Call : pc[d] \in others /\ Target(d) = v}

Start(c, r) ==
  /\ req' = [req EXCEPT ![c] = r]
  /\ Step(c, "idle", CASE r.kind = "fetch" -> "check"
                       [] r.kind = "import" -> "import"
                       [] OTHER -> "clear")
  /\ r.kind # "fetch" => sha[r.version] # NoContent
  /\ UNCHANGED <<db, found, fetches, del, torn>>

-----------------------------------------------------------------------------
(* StaticFetch. A regular failure is logged to feed_fetches, a fatal one is   *)
(* not.                                                                      *)
fetchFrame == <<deleted, records, rows, active, req, del, torn>>

\* GetFeedVersionBySHA1: soft-deleted versions are found too.
Known(x) == {v \in Version : sha[v] = x}

Found(c) ==
  \E v \in Known(req[c].content) : found' = [found EXCEPT ![c] = v]

FetchCheck(c) ==
  /\ \/ Step(c, "check", "log") /\ UNCHANGED found
     \/ Step(c, "check", "log") /\ Found(c)
     \/ /\ Step(c, "check", "validate") /\ Known(req[c].content) = {}
        /\ UNCHANGED found
  /\ UNCHANGED <<fetchFrame, sha, files, fetches>>

FetchValidate(c) ==
  /\ \E l \in {"upload", "log", "failed"} : Step(c, "validate", l)
  /\ UNCHANGED <<fetchFrame, sha, files, found, fetches>>

\* Mutant: an upload that failed is not noticed.
FetchUploadIgnoresError(c) ==
  /\ Step(c, "upload", "recheck")
  /\ files' \in {files, files \cup {req[c].content}}
  /\ UNCHANGED <<fetchFrame, sha, found, fetches>>

FetchUpload(c) ==
  /\ \/ Step(c, "upload", "recheck") /\ files' = files \cup {req[c].content}
     \/ Step(c, "upload", "failed") /\ UNCHANGED files
  /\ UNCHANGED <<fetchFrame, sha, found, fetches>>

FetchRecheck(c) ==
  /\ \/ Step(c, "recheck", "log") /\ Found(c)
     \/ /\ Step(c, "recheck", "insert") /\ Known(req[c].content) = {}
        /\ UNCHANGED found
  /\ UNCHANGED <<fetchFrame, sha, files, fetches>>

\* One transaction: the version, its stats and its validation report. The index
\* on feed_versions.sha1 is not unique.
FetchInsert(c) ==
  /\ \/ /\ Step(c, "insert", "log")
        /\ \E v \in Known(NoContent) :
             /\ \A w \in Known(NoContent) : v <= w
             /\ sha' = [sha EXCEPT ![v] = req[c].content]
             /\ found' = [found EXCEPT ![c] = v]
     \/ Step(c, "insert", "failed") /\ UNCHANGED <<sha, found>>
  /\ UNCHANGED <<fetchFrame, files, fetches>>

\* recordFeedFetch writes the row of the attempt, or fails to.
FetchLog(c) ==
  /\ \/ Step(c, "log", "done") /\ fetches' = fetches \cup {<<c, found[c]>>}
     \/ Step(c, "log", "failed") /\ UNCHANGED fetches
  /\ UNCHANGED <<fetchFrame, sha, files, found>>

Fetch(c) ==
  \/ FetchCheck(c) \/ FetchValidate(c) \/ FetchUpload(c)
  \/ FetchRecheck(c) \/ FetchInsert(c) \/ FetchLog(c)

-----------------------------------------------------------------------------
(* ImportFeedVersion *)
importFrame == <<sha, deleted, files, req, found, fetches, del>>

\* Rows that an open transaction has deleted and not committed.
Pending == UNION {del[c] : c \in Call}

ImportCheck(c) ==
  /\ \/ Step(c, "import", "done") /\ status[Target(c)] # "none"
     \/ Step(c, "import", "create") /\ status[Target(c)] = "none"
     \/ Step(c, "import", "failed")
  /\ UNCHANGED <<importFrame, torn, records, rows, active>>

\* Mutant: the index on the records' feed_version_id is not unique.
ImportCreateTwice(c) ==
  /\ \/ /\ Step(c, "create", "stops")
        /\ status' = [status EXCEPT ![Target(c)] = "in_progress"]
        /\ owner' = [owner EXCEPT ![Target(c)] = c]
     \/ Step(c, "create", "failed") /\ UNCHANGED <<status, owner>>
  /\ Meets(c, {"entities", "finish"})
  /\ UNCHANGED <<importFrame, noSched, rows, active>>

ImportCreate(c) ==
  /\ \/ /\ Step(c, "create", "stops") /\ status[Target(c)] = "none"
        /\ status' = [status EXCEPT ![Target(c)] = "in_progress"]
        /\ owner' = [owner EXCEPT ![Target(c)] = c]
     \/ Step(c, "create", "failed") /\ UNCHANGED <<status, owner>>
  /\ Meets(c, {"entities", "finish"})
  /\ UNCHANGED <<importFrame, noSched, rows, active>>

(* The indexes and foreign keys: a batch is refused when it repeats rows of    *)
(* another copy or refers to rows that are gone, and waits for a transaction   *)
(* that is deleting the rows in question.                                     *)
Accepted(c, b) ==
  LET v == Target(c) IN
  CASE b = "stops"    -> \A d \in Call : <<v, d, "stops">> \notin rows
    [] b = "schedule" -> <<v, c, "stops">> \in rows \ Pending
    [] OTHER          -> TRUE

NextBatch == [stops |-> "schedule", schedule |-> "infos", infos |-> "finalize"]

CopyBatch(c, b) ==
  /\ Step(c, b, NextBatch[b])
  /\ sha[Target(c)] \in files
  /\ Accepted(c, b)
  /\ rows' = rows \cup {<<Target(c), c, b>>}
  /\ UNCHANGED <<importFrame, torn, records, active>>

\* A read or write failed, or a threshold was exceeded.
CopyFail(c, b) ==
  /\ Step(c, b, "fail")
  /\ UNCHANGED <<importFrame, torn, records, rows, active>>

(* UpdateFeedVersionImport writes every column of the record with this id; no  *)
(* such record is an error, and so is a lost connection: the record is then    *)
(* what it was.                                                              *)
UpdateRecord(c, s) ==
  /\ owner[Target(c)] = c
  /\ status' = [status EXCEPT ![Target(c)] = s]
  /\ noSched' = noSched \ {Target(c)}
  /\ UNCHANGED owner

ImportFail(c) ==
  /\ \/ Step(c, "fail", "failed") /\ UpdateRecord(c, "failed")
     \/ /\ Step(c, "fail", "failed") /\ owner[Target(c)] # c
        /\ UNCHANGED records
  /\ UNCHANGED <<importFrame, torn, rows, active>>

\* Mutant: the record is looked up by feed version instead of by id.
ImportFinalizeByVersion(c) ==
  /\ Step(c, "finalize", IF req[c].activate THEN "activate" ELSE "done")
  /\ status[Target(c)] # "none"
  /\ status' = [status EXCEPT ![Target(c)] = "success"]
  /\ noSched' = noSched \ {Target(c)}
  /\ UNCHANGED <<importFrame, torn, owner, rows, active>>

ImportFinalize(c) ==
  /\ \/ /\ Step(c, "finalize", IF req[c].activate THEN "activate" ELSE "done")
        /\ UpdateRecord(c, "success")
     \/ /\ Step(c, "finalize", "failed") /\ owner[Target(c)] # c
        /\ UNCHANGED records
  /\ UNCHANGED <<importFrame, torn, rows, active>>

ImportActivate(c) ==
  /\ \/ Step(c, "activate", "done") /\ active' = Target(c)
     \/ Step(c, "activate", "failed") /\ UNCHANGED active
  /\ UNCHANGED <<importFrame, torn, records, rows>>

Import(c) ==
  \/ ImportCheck(c) \/ ImportCreate(c)
  \/ \E b \in Batch : CopyBatch(c, b) \/ CopyFail(c, b)
  \/ ImportFail(c) \/ ImportFinalize(c) \/ ImportActivate(c)

-----------------------------------------------------------------------------
(* UnimportFeedVersion, DeleteFeedVersion and UnimportSchedule: one            *)
(* transaction each. A DELETE removes the committed rows it finds, after       *)
(* waiting for another transaction that is deleting them.                     *)
eraseFrame == <<sha, files, req, found, fetches>>

DeleteRows(c, batches) ==
  LET gone == {r \in RowsOf(Target(c)) : r[3] \in batches} IN
  /\ gone \cap Pending \subseteq del[c]
  /\ del' = [del EXCEPT ![c] = @ \cup gone]

\* Mutant: a table is missing from GetFeedVersionTables.
EraseClearKeepsInfos(c) ==
  /\ \/ /\ Step(c, "clear", "finish")
        /\ req[c].kind = "schedule" /\ DeleteRows(c, {"schedule"})
     \/ /\ Step(c, "clear", "entities")
        /\ req[c].kind # "schedule" /\ DeleteRows(c, {"schedule"})
  /\ Meets(c, Importing)
  /\ UNCHANGED <<eraseFrame, deleted, records, rows, active>>

EraseClear(c) ==
  /\ \/ /\ Step(c, "clear", "finish")
        /\ req[c].kind = "schedule" /\ DeleteRows(c, {"schedule"})
     \/ /\ Step(c, "clear", "entities")
        /\ req[c].kind # "schedule" /\ DeleteRows(c, {"schedule", "infos"})
  /\ Meets(c, Importing)
  /\ UNCHANGED <<eraseFrame, deleted, records, rows, active>>

\* Rows that refer to these must be gone; otherwise the statement is an error.
EraseEntities(c) ==
  /\ Step(c, "entities", "finish")
  /\ \A r \in RowsOf(Target(c)) : r[3] = "schedule" => r \in del[c]
  /\ DeleteRows(c, {"stops"})
  /\ UNCHANGED <<eraseFrame, deleted, records, rows, active, torn>>

EraseRecord(v) ==
  /\ status' = [status EXCEPT ![v] = "none"]
  /\ owner' = [owner EXCEPT ![v] = NoCall]
  /\ noSched' = noSched \ {v}

CommitErase(c) ==
  /\ Step(c, "finish", "done")
  /\ rows' = rows \ del[c]
  /\ del' = [del EXCEPT ![c] = {}]
  /\ UNCHANGED <<eraseFrame, torn>>

\* Mutant: the version stays active.
UnimportKeepsActive(c) ==
  /\ req[c].kind \in {"unimport", "delete"}
  /\ CommitErase(c)
  /\ EraseRecord(Target(c))
  /\ deleted' = IF req[c].kind = "delete" THEN deleted \cup {Target(c)} ELSE deleted
  /\ UNCHANGED active

\* The record, the active version, and for delete the version itself.
Unimport(c) ==
  /\ req[c].kind \in {"unimport", "delete"}
  /\ CommitErase(c)
  /\ EraseRecord(Target(c))
  /\ active' = IF active = Target(c) THEN NoVersion ELSE active
  /\ deleted' = IF req[c].kind = "delete" THEN deleted \cup {Target(c)} ELSE deleted

UnimportSchedule(c) ==
  /\ req[c].kind = "schedule"
  /\ CommitErase(c)
  /\ noSched' = IF status[Target(c)] = "none" THEN noSched ELSE noSched \cup {Target(c)}
  /\ UNCHANGED <<deleted, status, owner, active>>

Rollback(c) ==
  /\ \E l \in Erasing : Step(c, l, "failed")
  /\ del' = [del EXCEPT ![c] = {}]
  /\ UNCHANGED <<db, req, found, fetches, torn>>

Erase(c) == EraseClear(c) \/ EraseEntities(c) \/ Unimport(c) \/ UnimportSchedule(c) \/ Rollback(c)

-----------------------------------------------------------------------------
\* The process dies, or loses the database for good, at any point.
Crash(c) ==
  /\ \E l \in Working : Step(c, l, "crashed")
  /\ del' = [del EXCEPT ![c] = {}]
  /\ UNCHANGED <<db, req, found, fetches, torn>>

Next ==
  \E c \in Call :
    \/ \E r \in Request : Start(c, r)
    \/ Fetch(c) \/ Import(c) \/ Erase(c) \/ Crash(c)

Spec == Init /\ [][Next]_vars
-----------------------------------------------------------------------------
(* Properties *)

\* A committed feed version never refers to a file that is not in storage,
\* whichever fetch failed or died at whichever step.
CommittedHasFile == \A v \in Version : sha[v] # NoContent => sha[v] \in files

\* success and not in_progress is what the server's queries select on
\* (joinImported). Data they can see is the whole output of the one copy that
\* wrote the record, without the schedule once that was removed: nothing missing
\* and nothing left of an earlier import that failed, crashed or was unimported.
\* Versions that an import and an unimport worked on at once are left out.
VisibleIsWhole ==
  \A v \in Version \ torn :
    status[v] = "success" =>
      /\ \A r \in RowsOf(v) : r[2] = owner[v]
      /\ \A b \in Batch : \/ <<v, owner[v], b>> \in rows
                          \/ b = "schedule" /\ v \in noSched

\* The outcome of an import is final: a record that says failed stays hidden until
\* an unimport removes it, even when the importer of a removed record is still at
\* work on the same version.
FailedIsFinal ==
  [][\A v \in Version : status[v] = "failed" => status'[v] \in {"failed", "none"}]_vars

\* Two imports never write to one version at the same time, unless an
\* unimport ran beside the first.
OneImporter ==
  \A c, d \in Call :
    pc[c] \in Copying /\ pc[d] \in Copying /\ Target(c) = Target(d) /\ Target(c) \notin torn
      => c = d

\* The active version is one whose import succeeded and whose data is there,
\* unless an unimport ran beside the import that activated it.
ActiveIsImported ==
  active \in Version \ torn => status[active] = "success"
=============================================================================
