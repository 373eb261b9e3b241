------------------------- MODULE FeedVersionsProofs --------------------------
(***************************************************************************)
(* Proofs about the life of feed versions, for any number of calls,        *)
(* contents and versions: what each call keeps true of the records, the    *)
(* rows and the files it leaves behind, and that committed data is whole.  *)
(***************************************************************************)
EXTENDS FeedVersions, TLAPS

OnVersion == {"import", "create"} \cup Importing \cup Erasing

\* A call at work has the request its steps belong to. What it erases has a row.
Doing ==
  /\ \A c \in Call : pc[c] \in Fetching => req[c].content \in Content
  /\ \A c \in Call : pc[c] \in OnVersion => Target(c) \in Version
  /\ \A c \in Call : pc[c] \in Erasing => sha[Target(c)] # NoContent
  /\ \A c \in Call : pc[c] = "entities" => req[c].kind # "schedule"

\* A fetch that has uploaded its file, like a committed version, finds it stored.
Stored ==
  /\ CommittedHasFile
  /\ \A c \in Call : pc[c] \in {"recheck", "insert"} => req[c].content \in files

\* No row is deleted by two open transactions, and each deletes rows of its version.
Deleting ==
  /\ \A c, d \in Call : c # d => del[c] \cap del[d] = {}
  /\ \A c \in Call : \A r \in del[c] :
       r[1] = Target(c) /\ (req[c].kind = "schedule" => r[3] = "schedule")

\* A record belongs to the import that inserted it, and is in progress as long as
\* that import copies.
Owned ==
  /\ \A v \in Version : status[v] = "none" <=> owner[v] = NoCall
  /\ \A v \in Version, c \in Call : owner[v] = c =>
       pc[c] \in Importing \cup {"done", "failed", "crashed"} /\ Target(c) = v
  /\ \A c \in Call : pc[c] \in Copying /\ owner[Target(c)] = c =>
       status[Target(c)] = "in_progress"

\* An import next to an unimport is on a torn version; any other has its record.
Apart ==
  /\ \A c, d \in Call :
       pc[c] \in Importing /\ pc[d] \in {"entities", "finish"} /\ Target(c) = Target(d)
         => Target(c) \in torn
  /\ \A c \in Call : pc[c] \in Importing /\ Target(c) \notin torn => owner[Target(c)] = c
  /\ \A c \in Call : pc[c] = "activate" /\ Target(c) \notin torn =>
       status[Target(c)] = "success"

\* The batches that a copy has written when it is at the given step.
Copied == [stops |-> {}, schedule |-> {"stops"}, infos |-> {"stops", "schedule"},
           finalize |-> Batch]

\* The rows of an intact version are those its record's import has copied so far,
\* and an unimport about to commit has deleted them all.
Whole ==
  /\ \A v \in Version \ torn : \A r \in RowsOf(v) : r[2] = owner[v]
  /\ \A c \in Call : pc[c] \in DOMAIN Copied /\ Target(c) \notin torn =>
       \A b \in Copied[pc[c]] : <<Target(c), c, b>> \in rows
  /\ \A c \in Call :
       pc[c] \in {"entities", "finish"} /\ req[c].kind # "schedule" /\ Target(c) \notin torn =>
         \A r \in RowsOf(Target(c)) : r \in del[c] \/ (pc[c] = "entities" /\ r[3] = "stops")

RowsInv == TypeOK /\ Doing /\ Deleting
RecordInv == RowsInv /\ Owned /\ Apart
VersionInv == RecordInv /\ Stored /\ Whole /\ VisibleIsWhole /\ ActiveIsImported

-----------------------------------------------------------------------------
(* What the steps do *)

Moves(c, From, To) == \E to \in To : pc[c] \in From /\ pc' = [pc EXCEPT ![c] = to]

\* What a request is made of (the arguments of StaticFetch, ImportFeedVersion and
\* the calls of unimporter.go).
LEMMA RequestShape ==
  ASSUME NEW r \in Request
  PROVE  /\ r.kind \in {"fetch", "import", "unimport", "delete", "schedule"}
         /\ r.kind = "fetch" => r.content \in Content
         /\ r.kind # "fetch" => r.version \in Version
BY FeedVersionsAssumption DEF Requests

\* A call starts at the first step of its kind.
LEMMA StartEffect ==
  ASSUME TypeOK, NEW c \in Call, NEW r \in Request, Start(c, r)
  PROVE  /\ pc[c] = "idle" /\ req' = [req EXCEPT ![c] = r]
         /\ \/ r.kind = "fetch" /\ pc' = [pc EXCEPT ![c] = "check"]
            \/ r.kind = "import" /\ pc' = [pc EXCEPT ![c] = "import"]
            \/ r.kind \notin {"fetch", "import"} /\ pc' = [pc EXCEPT ![c] = "clear"]
         /\ r.kind # "fetch" => sha[r.version] # NoContent
         /\ UNCHANGED <<sha, deleted, files, status, owner, noSched, rows, active>>
         /\ UNCHANGED <<found, fetches, del, torn>>
BY DEF Start, Step, db

\* A fetch changes no version that has a row, no record and no imported row.
LEMMA FetchEffect ==
  ASSUME TypeOK, NEW c \in Call, Fetch(c)
  PROVE  /\ Moves(c, Fetching, Fetching \cup {"done", "failed"})
         /\ UNCHANGED <<deleted, status, owner, noSched, rows, active, req, del, torn>>
         /\ \A v \in Version : sha[v] # NoContent => sha'[v] = sha[v]
<1> USE DEF TypeOK, Step, fetchFrame, records, Moves, Fetching
<1>1. CASE FetchCheck(c)
  BY <1>1 DEF FetchCheck
<1>2. CASE FetchValidate(c)
  BY <1>2 DEF FetchValidate
<1>3. CASE FetchUpload(c)
  BY <1>3 DEF FetchUpload
<1>4. CASE FetchRecheck(c)
  BY <1>4 DEF FetchRecheck
<1>5. CASE FetchInsert(c)
  BY <1>5 DEF FetchInsert, Known
<1>6. CASE FetchLog(c)
  BY <1>6 DEF FetchLog
<1>7. QED
  BY <1>1, <1>2, <1>3, <1>4, <1>5, <1>6 DEF Fetch

\* Two calls that meet tear the version, and nothing else does.
LEMMA MeetsEffect ==
  ASSUME TypeOK, NEW c \in Call, NEW others, Target(c) \in Version, Meets(c, others)
  PROVE  /\ torn \subseteq torn' /\ torn' \subseteq torn \cup {Target(c)}
         /\ torn' \subseteq Version
         /\ \A d \in Call : pc[d] \in others /\ Target(d) = Target(c) => Target(c) \in torn'
BY DEF Meets, TypeOK

\* A statement deletes rows of the call's version that no open transaction has deleted.
LEMMA DeleteRowsEffect ==
  ASSUME TypeOK, Deleting, NEW c \in Call, NEW batches, DeleteRows(c, batches)
  PROVE  /\ del' \in [Call -> SUBSET rows]
         /\ \A d \in Call : d # c => del'[d] = del[d]
         /\ del[c] \subseteq del'[c]
         /\ \A r \in RowsOf(Target(c)) : r[3] \in batches => r \in del'[c]
         /\ \A r \in del'[c] : r \in del[c] \/ (r \in RowsOf(Target(c)) /\ r[3] \in batches)
         /\ \A d, e \in Call : d # e => del'[d] \cap del'[e] = {}
<1> DEFINE gone == {r \in RowsOf(Target(c)) : r[3] \in batches}
<1>1. gone \cap Pending \subseteq del[c] /\ del' = [del EXCEPT ![c] = @ \cup gone]
  BY DEF DeleteRows
<1>2. gone \subseteq rows
  BY DEF RowsOf
<1>3. del \in [Call -> SUBSET rows]
  BY DEF TypeOK
<1>4. \A d \in Call : d # c => gone \cap del[d] \subseteq del[c]
  BY <1>1 DEF Pending
<1>5. \A d \in Call : d # c => gone \cap del[d] = {}
  BY <1>4 DEF Deleting
<1>6. \A d, e \in Call : d # e => del'[d] \cap del'[e] = {}
  <2>1. SUFFICES ASSUME NEW d \in Call, NEW e \in Call, d # e
                 PROVE  del'[d] \cap del'[e] = {}
    OBVIOUS
  <2>2. del[d] \cap del[e] = {}
    BY <2>1 DEF Deleting
  <2> HIDE DEF gone
  <2>3. CASE d = c
    BY <1>1, <1>3, <1>5, <2>1, <2>2, <2>3
  <2>4. CASE e = c
    BY <1>1, <1>3, <1>5, <2>1, <2>2, <2>4
  <2>5. QED
    BY <1>1, <1>3, <2>2, <2>3, <2>4
<1>7. QED
  BY <1>1, <1>2, <1>3, <1>6

-----------------------------------------------------------------------------
(* Rows and requests *)

LEMMA InitRows == Init => RowsInv
BY FeedVersionsAssumption
DEF Init, RowsInv, TypeOK, Doing, Deleting, Pc, Working, Fetching, OnVersion, Importing,
    Copying, Erasing, Batch, Version, NoVersion, NoRequest

\* The state is well typed. That an open transaction has deleted rows which are
\* still there needs Deleting: no other one commits their deletion.
LEMMA TypesKept ==
  ASSUME RowsInv, NEW c \in Call,
         (\E r \in Request : Start(c, r)) \/ Fetch(c) \/ Import(c) \/ Erase(c) \/ Crash(c)
  PROVE  TypeOK'
<1> USE DEF RowsInv, TypeOK, Step, Pc, Working, Fetching, Importing, Copying, Erasing, Batch
<1>1. CASE \E r \in Request : Start(c, r)
  <2>1. PICK r \in Request : Start(c, r)
    BY <1>1
  <2>2. QED
    BY <2>1, StartEffect
<1>2. CASE Fetch(c)
  <2> USE DEF fetchFrame, records
  <2>1. /\ pc' \in [Call -> Pc] /\ \A d \in Call : del'[d] # {} => pc'[d] \in Erasing
        /\ deleted' \subseteq {v \in Version : sha'[v] # NoContent}
    BY <1>2, FetchEffect DEF Moves
  <2>2. CASE FetchCheck(c)
    BY <2>1, <2>2 DEF FetchCheck, Found, Known
  <2>3. CASE FetchValidate(c)
    BY <2>1, <2>3 DEF FetchValidate
  <2>4. CASE FetchUpload(c)
    BY <2>1, <2>4 DEF FetchUpload, Doing
  <2>5. CASE FetchRecheck(c)
    BY <2>1, <2>5 DEF FetchRecheck, Found, Known
  <2>6. CASE FetchInsert(c)
    BY <2>1, <2>6 DEF FetchInsert, Known, Doing
  <2>7. CASE FetchLog(c)
    BY <2>1, <2>7 DEF FetchLog
  <2>8. QED
    BY <1>2, <2>2, <2>3, <2>4, <2>5, <2>6, <2>7 DEF Fetch
<1>3. CASE Import(c)
  <2> USE DEF importFrame, records
  <2>1. CASE ImportCheck(c)
    BY <2>1 DEF ImportCheck
  <2>2. CASE ImportCreate(c)
    <3>1. Target(c) \in Version
      BY <2>2 DEF ImportCreate, Doing, OnVersion
    <3>2. QED
      BY <2>2, <3>1, MeetsEffect, SMTT(30) DEF ImportCreate
  <2>3. ASSUME NEW b \in Batch, CopyBatch(c, b) PROVE TypeOK'
    <3>1. Target(c) \in Version
      BY <2>3 DEF CopyBatch, Doing, OnVersion
    <3>2. NextBatch[b] \in Pc
      BY DEF NextBatch
    <3>3. rows \subseteq rows' /\ rows' \subseteq Version \X Call \X Batch
      BY <2>3, <3>1 DEF CopyBatch
    <3>4. del' \in [Call -> SUBSET rows']
      BY <2>3, <3>3 DEF CopyBatch
    <3>5. pc[c] \notin Erasing
      BY <2>3 DEF CopyBatch
    <3>6. QED
      BY <2>3, <3>2, <3>3, <3>4, <3>5 DEF CopyBatch
  <2>4. ASSUME NEW b \in Batch, CopyFail(c, b) PROVE TypeOK'
    BY <2>4 DEF CopyFail
  <2>5. CASE ImportFail(c)
    BY <2>5 DEF ImportFail, UpdateRecord
  <2>6. CASE ImportFinalize(c)
    BY <2>6 DEF ImportFinalize, UpdateRecord
  <2>7. CASE ImportActivate(c)
    BY <2>7 DEF ImportActivate, Doing, OnVersion
  <2>8. QED
    BY <1>3, <2>1, <2>2, <2>3, <2>4, <2>5, <2>6, <2>7 DEF Import
<1>4. CASE Erase(c)
  <2> USE DEF eraseFrame
  <2>1. CASE EraseClear(c)
    <3>1. Target(c) \in Version
      BY <2>1 DEF EraseClear, Doing, OnVersion
    <3>2. \E batches : DeleteRows(c, batches)
      BY <2>1 DEF EraseClear
    <3>3. del' \in [Call -> SUBSET rows] /\ \A d \in Call : d # c => del'[d] = del[d]
      BY <3>2, DeleteRowsEffect
    <3>4. QED
      BY <2>1, <3>1, <3>3, MeetsEffect DEF EraseClear, records
  <2>2. CASE EraseEntities(c)
    <3>1. del' \in [Call -> SUBSET rows] /\ \A d \in Call : d # c => del'[d] = del[d]
      BY <2>2, DeleteRowsEffect DEF EraseEntities
    <3>2. QED
      BY <2>2, <3>1 DEF EraseEntities, records
  <2>3. ASSUME CommitErase(c)
        PROVE  /\ rows' \subseteq Version \X Call \X Batch
               /\ del' \in [Call -> SUBSET rows']
               /\ \A d \in Call : del'[d] # {} => pc'[d] \in Erasing
    <3>1. rows' = rows \ del[c] /\ del' = [del EXCEPT ![c] = {}]
          /\ pc' = [pc EXCEPT ![c] = "done"]
      BY <2>3 DEF CommitErase
    <3>2. \A d \in Call : d # c => del[d] \subseteq rows'
      BY <3>1 DEF Deleting
    <3>3. QED
      BY <3>1, <3>2
  <2>4. CASE Unimport(c)
    <3>1. Target(c) \in Version /\ sha[Target(c)] # NoContent
      BY <2>4 DEF Unimport, CommitErase, Doing, OnVersion
    <3>2. QED
      BY <2>3, <2>4, <3>1 DEF Unimport, CommitErase, EraseRecord, NoVersion
  <2>5. CASE UnimportSchedule(c)
    <3>1. Target(c) \in Version
      BY <2>5 DEF UnimportSchedule, CommitErase, Doing, OnVersion
    <3>2. QED
      BY <2>3, <2>5, <3>1 DEF UnimportSchedule, CommitErase
  <2>6. CASE Rollback(c)
    BY <2>6 DEF Rollback, db
  <2>7. QED
    BY <1>4, <2>1, <2>2, <2>4, <2>5, <2>6 DEF Erase
<1>5. CASE Crash(c)
  BY <1>5 DEF Crash, db
<1>6. QED
  BY <1>1, <1>2, <1>3, <1>4, <1>5

\* A step keeps a call's request, moves that call alone and takes no version's row.
LEMMA StepEffect ==
  ASSUME RowsInv, NEW c \in Call, Fetch(c) \/ Import(c) \/ Erase(c) \/ Crash(c)
  PROVE  /\ req' = req
         /\ \A d \in Call : d # c => pc'[d] = pc[d]
         /\ \A v \in Version : sha[v] # NoContent => sha'[v] = sha[v]
         /\ pc'[c] \in Fetching => pc[c] \in Fetching
         /\ pc'[c] \in OnVersion => pc[c] \in OnVersion
         /\ pc'[c] \in Erasing => pc[c] \in Erasing
         /\ pc'[c] = "entities" => req[c].kind # "schedule"
         /\ pc'[c] \in Importing => pc[c] \in Importing \cup {"create"}
<1> USE DEF RowsInv, TypeOK, Step, OnVersion, Fetching, Importing, Copying, Erasing, Batch
<1>1. CASE Fetch(c)
  BY <1>1, FetchEffect DEF Moves
<1>2. CASE Import(c)
  <2> USE DEF importFrame, records
  <2>1. CASE ImportCheck(c)
    BY <2>1 DEF ImportCheck
  <2>2. CASE ImportCreate(c)
    BY <2>2 DEF ImportCreate
  <2>3. ASSUME NEW b \in Batch, CopyBatch(c, b) \/ CopyFail(c, b)
        PROVE  /\ pc' \in {[pc EXCEPT ![c] = to] : to \in Importing} /\ req' = req
               /\ pc[c] \in Importing /\ sha' = sha
    BY <2>3 DEF CopyBatch, CopyFail, NextBatch
  <2>4. CASE ImportFail(c) \/ ImportFinalize(c) \/ ImportActivate(c)
    BY <2>4 DEF ImportFail, ImportFinalize, ImportActivate
  <2>5. QED
    BY <1>2, <2>1, <2>2, <2>3, <2>4 DEF Import
<1>3. CASE Erase(c)
  <2> USE DEF eraseFrame, CommitErase
  <2>1. CASE EraseClear(c) \/ EraseEntities(c)
    BY <2>1 DEF EraseClear, EraseEntities
  <2>2. CASE Unimport(c) \/ UnimportSchedule(c)
    BY <2>2 DEF Unimport, UnimportSchedule
  <2>3. CASE Rollback(c)
    BY <2>3 DEF Rollback, db
  <2>4. QED
    BY <1>3, <2>1, <2>2, <2>3 DEF Erase
<1>4. CASE Crash(c)
  BY <1>4 DEF Crash, db
<1>5. QED
  BY <1>1, <1>2, <1>3, <1>4

LEMMA DoingKept ==
  ASSUME RowsInv, NEW c \in Call,
         (\E r \in Request : Start(c, r)) \/ Fetch(c) \/ Import(c) \/ Erase(c) \/ Crash(c)
  PROVE  Doing'
<1> USE DEF RowsInv, Doing, Target
<1>1. CASE \E r \in Request : Start(c, r)
  <2>1. PICK r \in Request : Start(c, r)
    BY <1>1
  <2>2. QED
    BY <2>1, StartEffect, RequestShape
    DEF TypeOK, OnVersion, Fetching, Importing, Copying, Erasing, Batch
<1>2. CASE Fetch(c) \/ Import(c) \/ Erase(c) \/ Crash(c)
  <2>1. \A d \in Call : pc[d] \in Erasing => Target(d) \in Version
    BY DEF OnVersion
  <2>2. QED
    BY <1>2, <2>1, StepEffect
<1>3. QED
  BY <1>1, <1>2

\* Only an unimport deletes rows, and of its own version; the end of its transaction
\* leaves it with none.
LEMMA DeletingKept ==
  ASSUME RowsInv, NEW c \in Call,
         (\E r \in Request : Start(c, r)) \/ Fetch(c) \/ Import(c) \/ Erase(c) \/ Crash(c)
  PROVE  Deleting'
<1> USE DEF RowsInv
<1>1. CASE \E r \in Request : Start(c, r)
  <2>1. PICK r \in Request : Start(c, r)
    BY <1>1
  <2>2. del' = del /\ del[c] = {} /\ \A d \in Call : d # c => req'[d] = req[d]
    BY <2>1, StartEffect DEF TypeOK, Erasing
  <2>3. QED
    BY <2>2 DEF Deleting, Target
<1>2. CASE Fetch(c) \/ Import(c)
  <2>1. del' = del
    BY <1>2, FetchEffect
    DEF Import, ImportCheck, ImportCreate, CopyBatch, CopyFail, ImportFail, ImportFinalize,
        ImportActivate, importFrame
  <2>2. QED
    BY <1>2, <2>1, StepEffect DEF Deleting, Target
<1>3. ASSUME NEW batches, DeleteRows(c, batches), req' = req,
             req[c].kind = "schedule" => batches = {"schedule"}
      PROVE  Deleting'
  <2>1. \A d \in Call : \A r \in del'[d] :
          r[1] = Target(d) /\ (req[d].kind = "schedule" => r[3] = "schedule")
    <3>1. SUFFICES ASSUME NEW r \in del'[c]
                   PROVE  r[1] = Target(c) /\ (req[c].kind = "schedule" => r[3] = "schedule")
      BY <1>3, DeleteRowsEffect DEF Deleting
    <3>2. r \in del[c] \/ (r \in RowsOf(Target(c)) /\ r[3] \in batches)
      BY <1>3, <3>1, DeleteRowsEffect
    <3>3. QED
      BY <1>3, <3>2 DEF Deleting, RowsOf
  <2>2. QED
    BY <1>3, <2>1, DeleteRowsEffect DEF Deleting, Target
<1>4. CASE EraseClear(c)
  BY <1>4, <1>3 DEF EraseClear, eraseFrame
<1>5. CASE EraseEntities(c)
  BY <1>5, <1>3 DEF EraseEntities, eraseFrame, Doing, Step
<1>6. CASE Unimport(c) \/ UnimportSchedule(c) \/ Rollback(c) \/ Crash(c)
  <2>1. del' = [del EXCEPT ![c] = {}] /\ req' = req
    BY <1>6 DEF Unimport, UnimportSchedule, CommitErase, eraseFrame, Rollback, Crash
  <2>2. QED
    BY <2>1 DEF Deleting, TypeOK, Target
<1>7. QED
  BY <1>1, <1>2, <1>4, <1>5, <1>6 DEF Erase

\* A stuttering step changes nothing that the invariants mention.
LEMMA StutterKeeps ==
  ASSUME VersionInv, UNCHANGED vars
  PROVE  VersionInv'
BY DEF VersionInv, RecordInv, RowsInv, TypeOK, Doing, Deleting, Owned, Apart, Stored, Whole,
       CommittedHasFile, VisibleIsWhole, ActiveIsImported, RowsOf, Target, vars, db

LEMMA RowsKept == RowsInv /\ [Next]_vars => RowsInv'
<1> SUFFICES ASSUME RowsInv, [Next]_vars PROVE RowsInv'
  OBVIOUS
<1>1. CASE UNCHANGED vars
  BY <1>1 DEF RowsInv, TypeOK, Doing, Deleting, Target, vars, db
<1>2. ASSUME NEW c \in Call,
             (\E r \in Request : Start(c, r)) \/ Fetch(c) \/ Import(c) \/ Erase(c) \/ Crash(c)
      PROVE  RowsInv'
  BY <1>2, TypesKept, DoingKept, DeletingKept DEF RowsInv
<1>3. QED
  BY <1>1, <1>2 DEF Next

\* Every variable keeps its type: among it, an unimport's open transaction deletes
\* rows that are there, and no step but an unimport's has any.
THEOREM TypeCorrect == Spec => []TypeOK
<1>1. RowsInv => TypeOK
  BY DEF RowsInv
<1>2. QED
  BY <1>1, InitRows, RowsKept, PTL DEF Spec

-----------------------------------------------------------------------------
(* Records *)

\* What a step other than the insertion of a record may do to the records: the
\* owner of one finishes it, or an unimport about to commit removes its version's.
LEMMA RecordEffect ==
  ASSUME RowsInv, NEW c \in Call,
         (\E r \in Request : Start(c, r)) \/ Fetch(c) \/ Import(c) \/ Erase(c) \/ Crash(c)
  PROVE  \/ UNCHANGED <<status, owner>> /\ noSched \subseteq noSched'
         \/ /\ pc[c] = "create" /\ pc' = [pc EXCEPT ![c] = "stops"]
            /\ status[Target(c)] = "none"
            /\ status' = [status EXCEPT ![Target(c)] = "in_progress"]
            /\ owner' = [owner EXCEPT ![Target(c)] = c]
            /\ noSched' = noSched
         \/ \E s \in {"success", "failed"} :
              /\ pc[c] = (IF s = "success" THEN "finalize" ELSE "fail")
              /\ pc'[c] \in IF s = "success" THEN {"activate", "done"} ELSE {"failed"}
              /\ owner[Target(c)] = c
              /\ status' = [status EXCEPT ![Target(c)] = s]
              /\ owner' = owner /\ noSched' = noSched \ {Target(c)}
         \/ /\ pc[c] = "finish" /\ pc' = [pc EXCEPT ![c] = "done"]
            /\ req[c].kind # "schedule"
            /\ status' = [status EXCEPT ![Target(c)] = "none"]
            /\ owner' = [owner EXCEPT ![Target(c)] = NoCall]
            /\ noSched' = noSched \ {Target(c)} /\ active' # Target(c)
<1> USE DEF RowsInv, TypeOK, Step
<1>1. CASE \E r \in Request : Start(c, r)
  BY <1>1, StartEffect
<1>2. CASE Fetch(c)
  BY <1>2, FetchEffect
<1>3. CASE Import(c)
  <2>1. CASE \/ ImportCheck(c) \/ ImportActivate(c)
             \/ \E b \in Batch : CopyBatch(c, b) \/ CopyFail(c, b)
    BY <2>1 DEF ImportCheck, ImportActivate, CopyBatch, CopyFail, records
  <2>2. CASE ImportCreate(c)
    BY <2>2 DEF ImportCreate
  <2>3. CASE ImportFail(c)
    BY <2>3 DEF ImportFail, UpdateRecord, records
  <2>4. CASE ImportFinalize(c)
    BY <2>4 DEF ImportFinalize, UpdateRecord, records
  <2>5. QED
    BY <1>3, <2>1, <2>2, <2>3, <2>4 DEF Import
<1>4. CASE Erase(c)
  <2>1. CASE EraseClear(c) \/ EraseEntities(c) \/ Rollback(c)
    BY <2>1 DEF EraseClear, EraseEntities, Rollback, records, db
  <2>2. CASE UnimportSchedule(c)
    BY <2>2 DEF UnimportSchedule
  <2>3. CASE Unimport(c)
    <3>1. Target(c) # NoVersion
      BY <2>3 DEF Unimport, CommitErase, Doing, OnVersion, Erasing, Version, NoVersion
    <3>2. QED
      BY <2>3, <3>1 DEF Unimport, CommitErase, EraseRecord
  <2>4. QED
    BY <1>4, <2>1, <2>2, <2>3 DEF Erase
<1>5. CASE Crash(c)
  BY <1>5 DEF Crash, db
<1>6. QED
  BY <1>1, <1>2, <1>3, <1>4, <1>5

\* How a call gets to the steps at which it owns a record or has rows deleted.
LEMMA PathEffect ==
  ASSUME RowsInv, NEW c \in Call,
         (\E r \in Request : Start(c, r)) \/ Fetch(c) \/ Import(c) \/ Erase(c) \/ Crash(c)
  PROVE  /\ pc[c] \notin {"done", "failed", "crashed"}
         /\ pc[c] \in Importing => pc'[c] \in Importing \cup {"done", "failed", "crashed"}
         /\ pc'[c] \in Copying /\ pc[c] \notin Copying =>
              /\ pc[c] = "create" /\ pc' = [pc EXCEPT ![c] = "stops"]
              /\ status[Target(c)] = "none"
              /\ status' = [status EXCEPT ![Target(c)] = "in_progress"]
              /\ owner' = [owner EXCEPT ![Target(c)] = c]
              /\ Meets(c, {"entities", "finish"})
         /\ pc'[c] = "activate" =>
              /\ pc[c] = "finalize" /\ owner[Target(c)] = c
              /\ status' = [status EXCEPT ![Target(c)] = "success"]
         /\ pc'[c] \in {"entities", "finish"} =>
              pc[c] = "entities" \/ (pc[c] = "clear" /\ Meets(c, Importing))
         /\ torn \subseteq torn'
<1> USE DEF RowsInv, TypeOK, Step, Importing, Copying, Batch
<1>1. CASE \E r \in Request : Start(c, r)
  BY <1>1, StartEffect
<1>2. CASE Fetch(c)
  BY <1>2, FetchEffect DEF Moves, Fetching
<1>3. CASE Import(c)
  <2> USE DEF importFrame
  <2>1. CASE ImportCheck(c)
    BY <2>1 DEF ImportCheck
  <2>2. CASE ImportCreate(c)
    <3>1. torn \subseteq torn'
      BY <2>2 DEF ImportCreate, Meets
    <3>2. QED
      BY <2>2, <3>1 DEF ImportCreate
  <2>3. ASSUME NEW b \in Batch, CopyBatch(c, b) \/ CopyFail(c, b)
        PROVE  pc[c] \in Copying /\ pc'[c] \in Copying /\ torn' = torn
    BY <2>3 DEF CopyBatch, CopyFail, NextBatch
  <2>4. CASE ImportFail(c)
    BY <2>4 DEF ImportFail
  <2>5. CASE ImportFinalize(c)
    BY <2>5 DEF ImportFinalize, UpdateRecord
  <2>6. CASE ImportActivate(c)
    BY <2>6 DEF ImportActivate
  <2>7. QED
    BY <1>3, <2>1, <2>2, <2>3, <2>4, <2>5, <2>6 DEF Import
<1>4. CASE Erase(c)
  <2> USE DEF CommitErase
  <2>1. CASE EraseClear(c)
    <3>1. torn \subseteq torn'
      BY <2>1 DEF EraseClear, Meets
    <3>2. QED
      BY <2>1, <3>1 DEF EraseClear
  <2>2. CASE EraseEntities(c)
    BY <2>2 DEF EraseEntities
  <2>3. CASE Unimport(c) \/ UnimportSchedule(c)
    BY <2>3 DEF Unimport, UnimportSchedule
  <2>4. CASE Rollback(c)
    BY <2>4 DEF Rollback, Erasing
  <2>5. QED
    BY <1>4, <2>1, <2>2, <2>3, <2>4 DEF Erase
<1>5. CASE Crash(c)
  BY <1>5 DEF Crash, Working, Erasing, Fetching
<1>6. QED
  BY <1>1, <1>2, <1>3, <1>4, <1>5

\* The request of a call at work on a version stays what it is.
LEMMA TargetKept ==
  ASSUME RowsInv, NEW c \in Call,
         (\E r \in Request : Start(c, r)) \/ Fetch(c) \/ Import(c) \/ Erase(c) \/ Crash(c)
  PROVE  /\ \A d \in Call : d # c => pc'[d] = pc[d] /\ req'[d] = req[d] /\ Target(d)' = Target(d)
         /\ pc[c] # "idle" => req'[c] = req[c] /\ Target(c)' = Target(c)
<1>1. CASE \E r \in Request : Start(c, r)
  BY <1>1, StartEffect DEF RowsInv, TypeOK, Target
<1>2. CASE Fetch(c) \/ Import(c) \/ Erase(c) \/ Crash(c)
  BY <1>2, StepEffect DEF Target
<1>3. QED
  BY <1>1, <1>2

\* The unique index on feed_version_gtfs_imports and the update by id: nobody but
\* its importer finishes a record, and nobody but an unimport removes it.
LEMMA OwnedKept ==
  ASSUME RowsInv, Owned, NEW c \in Call,
         (\E r \in Request : Start(c, r)) \/ Fetch(c) \/ Import(c) \/ Erase(c) \/ Crash(c)
  PROVE  Owned'
<1> DEFINE Past == Importing \cup {"done", "failed", "crashed"}
<1>1. pc \in [Call -> Pc] /\ status \in [Version -> {"none", "in_progress", "success", "failed"}]
      /\ owner \in [Version -> Call \cup {NoCall}] /\ NoCall \notin Call
  BY FeedVersionsAssumption DEF RowsInv, TypeOK
<1>2. \A d \in Call : pc[d] \in Past => pc'[d] \in Past /\ Target(d)' = Target(d)
  BY PathEffect, TargetKept DEF Importing, Copying, Batch
<1>3. pc[c] \in OnVersion => Target(c) \in Version /\ Target(c)' = Target(c)
  BY TargetKept DEF RowsInv, Doing, OnVersion, Importing, Copying, Batch, Erasing
<1> USE DEF Owned
<1>4. CASE UNCHANGED <<status, owner>>
  <2>1. \A d \in Call : pc'[d] \in Copying => pc[d] \in Copying
    BY <1>1, <1>3, <1>4, PathEffect, TargetKept DEF OnVersion
  <2>2. \A d \in Call : pc[d] \in Copying => Target(d)' = Target(d)
    BY <1>2 DEF Importing
  <2>3. QED
    BY <1>1, <1>2, <1>4, <2>1, <2>2
<1>5. CASE /\ pc[c] = "create" /\ pc' = [pc EXCEPT ![c] = "stops"]
           /\ status[Target(c)] = "none"
           /\ status' = [status EXCEPT ![Target(c)] = "in_progress"]
           /\ owner' = [owner EXCEPT ![Target(c)] = c]
  <2>1. Target(c) \in Version /\ Target(c)' = Target(c)
    BY <1>3, <1>5 DEF OnVersion
  <2>2. \A d \in Call : d # c => pc'[d] = pc[d] /\ Target(d)' = Target(d)
    BY TargetKept
  <2>3. \A d \in Call : pc[d] \in Copying => Target(d) \in Version
    BY DEF RowsInv, Doing, OnVersion, Importing
  <2>4. pc'[c] = "stops" /\ "stops" \in Copying /\ Copying \subseteq Past
    BY <1>1, <1>5 DEF Copying, Batch, Importing
  <2>5. \A v \in Version, d \in Call : owner'[v] = d => pc'[d] \in Past /\ Target(d)' = v
    BY <1>1, <1>2, <1>5, <2>1, <2>2, <2>4
  <2>6. \A d \in Call : pc'[d] \in Copying /\ owner'[Target(d)'] = d =>
          status'[Target(d)'] = "in_progress"
    BY <1>1, <1>5, <2>1, <2>2, <2>3
  <2>7. \A v \in Version : status'[v] = "none" <=> owner'[v] = NoCall
    BY <1>1, <1>5, <2>1
  <2>8. QED
    BY <2>5, <2>6, <2>7
<1>6. CASE \E s \in {"success", "failed"} :
             /\ pc[c] = (IF s = "success" THEN "finalize" ELSE "fail")
             /\ pc'[c] \in IF s = "success" THEN {"activate", "done"} ELSE {"failed"}
             /\ owner[Target(c)] = c
             /\ status' = [status EXCEPT ![Target(c)] = s]
             /\ owner' = owner
  <2>1. Target(c) \in Version /\ pc[c] \in Copying /\ pc'[c] \notin Copying
    BY <1>3, <1>6 DEF OnVersion, Importing, Copying, Batch
  <2>2. \A d \in Call : d # c => pc'[d] = pc[d] /\ Target(d)' = Target(d)
    BY TargetKept
  <2>3. \A d \in Call : pc[d] \in Copying => Target(d) \in Version
    BY DEF RowsInv, Doing, OnVersion, Importing
  <2>4. \A d \in Call : pc'[d] \in Copying /\ owner'[Target(d)'] = d =>
          status'[Target(d)'] = "in_progress"
    BY <1>1, <1>6, <2>1, <2>2, <2>3
  <2>5. \A v \in Version : status'[v] = "none" <=> owner'[v] = NoCall
    BY <1>1, <1>6, <2>1
  <2>6. QED
    BY <1>1, <1>2, <1>6, <2>4, <2>5
<1>7. CASE /\ pc[c] = "finish" /\ pc' = [pc EXCEPT ![c] = "done"]
           /\ status' = [status EXCEPT ![Target(c)] = "none"]
           /\ owner' = [owner EXCEPT ![Target(c)] = NoCall]
  <2>1. Target(c) \in Version /\ pc'[c] \notin Copying
    BY <1>1, <1>3, <1>7 DEF OnVersion, Erasing, Copying, Batch
  <2>2. \A d \in Call : d # c => pc'[d] = pc[d] /\ Target(d)' = Target(d)
    BY TargetKept
  <2>3. \A d \in Call : pc[d] \in Copying => Target(d) \in Version
    BY DEF RowsInv, Doing, OnVersion, Importing
  <2>4. QED
    BY <1>1, <1>2, <1>7, <2>1, <2>2, <2>3
<1>8. QED
  BY <1>4, <1>5, <1>6, <1>7, RecordEffect

\* Whichever of an import and an unimport of one version comes second finds the
\* other and tears the version; an import that stays alone keeps its record.
LEMMA ApartKept ==
  ASSUME RowsInv, Owned, Apart, NEW c \in Call,
         (\E r \in Request : Start(c, r)) \/ Fetch(c) \/ Import(c) \/ Erase(c) \/ Crash(c)
  PROVE  Apart'
<1>1. pc \in [Call -> Pc] /\ status \in [Version -> {"none", "in_progress", "success", "failed"}]
      /\ owner \in [Version -> Call \cup {NoCall}] /\ NoCall \notin Call
  BY FeedVersionsAssumption DEF RowsInv, TypeOK
<1>2. \A d \in Call : pc[d] \in Importing \cup Erasing =>
        Target(d) \in Version /\ Target(d)' = Target(d)
  BY TargetKept DEF RowsInv, Doing, OnVersion, Importing, Copying, Batch, Erasing
<1>3. torn \subseteq torn' /\ \A d \in Call : d # c => pc'[d] = pc[d] /\ Target(d)' = Target(d)
  BY PathEffect, TargetKept
<1>4. pc'[c] \in {"entities", "finish"} =>
        pc[c] = "entities" \/ (pc[c] = "clear" /\ Meets(c, Importing))
  BY PathEffect
<1>5. pc'[c] \in Importing /\ pc[c] \notin Importing =>
        /\ pc[c] = "create" /\ pc' = [pc EXCEPT ![c] = "stops"]
        /\ owner' = [owner EXCEPT ![Target(c)] = c]
        /\ Meets(c, {"entities", "finish"})
        /\ Target(c) \in Version /\ Target(c)' = Target(c)
  <2>1. SUFFICES ASSUME pc'[c] \in Importing, pc[c] \notin Importing
                 PROVE  pc'[c] \in Copying /\ pc[c] \notin Copying
    BY PathEffect, TargetKept DEF RowsInv, Doing, OnVersion
  <2>2. QED
    BY <2>1, PathEffect DEF Importing, Copying
<1>6. \A d, e \in Call :
        pc'[d] \in Importing /\ pc'[e] \in {"entities", "finish"} /\ Target(d)' = Target(e)'
          => Target(d)' \in torn'
  <2>1. SUFFICES ASSUME NEW d \in Call, NEW e \in Call,
                        pc'[d] \in Importing, pc'[e] \in {"entities", "finish"},
                        Target(d)' = Target(e)'
                 PROVE  Target(d)' \in torn'
    OBVIOUS
  <2>2. pc'[d] # pc'[e]
    BY <2>1 DEF Importing, Copying, Batch
  <2>3. CASE d # c /\ e # c
    BY <1>3, <2>1, <2>3 DEF Apart
  <2>4. CASE e = c
    <3>1. pc[d] = pc'[d] /\ Target(d)' = Target(d)
      BY <1>3, <2>2, <2>4
    <3>2. Target(c)' = Target(c) /\ Target(c) \in Version
      BY <1>2, <1>4, <2>1, <2>4 DEF Erasing
    <3>3. CASE pc[c] = "entities"
      BY <1>3, <2>1, <2>4, <3>1, <3>2, <3>3 DEF Apart
    <3>4. CASE Meets(c, Importing)
      BY <2>1, <2>4, <3>1, <3>2, <3>4, MeetsEffect DEF RowsInv
    <3>5. QED
      BY <1>4, <2>1, <2>4, <3>3, <3>4
  <2>5. CASE d = c
    <3>1. pc[e] = pc'[e] /\ Target(e)' = Target(e)
      BY <1>3, <2>2, <2>5
    <3>2. CASE pc[c] \in Importing
      BY <1>2, <1>3, <2>1, <2>5, <3>1, <3>2 DEF Apart
    <3>3. CASE pc[c] \notin Importing
      BY <1>5, <2>1, <2>5, <3>1, <3>3, MeetsEffect DEF RowsInv
    <3>4. QED
      BY <3>2, <3>3
  <2>6. QED
    BY <2>3, <2>4, <2>5
<1>7. \A d \in Call : pc[d] \in Importing /\ Target(d) \notin torn' =>
        /\ owner'[Target(d)] = d
        /\ d # c => status'[Target(d)] = status[Target(d)]
  <2>1. SUFFICES ASSUME NEW d \in Call, pc[d] \in Importing, Target(d) \notin torn'
                 PROVE  /\ owner'[Target(d)] = d
                        /\ d # c => status'[Target(d)] = status[Target(d)]
    OBVIOUS
  <2>2. owner[Target(d)] = d /\ Target(d) \in Version /\ status[Target(d)] # "none"
    BY <1>1, <1>2, <1>3, <2>1 DEF Apart, Owned
  <2>3. pc[c] = "finish" => Target(c) # Target(d)
    BY <1>3, <2>1 DEF Apart
  <2>4. QED
    BY <1>1, <2>2, <2>3, RecordEffect
<1>8. \A d \in Call : pc'[d] \in Importing /\ Target(d)' \notin torn' => owner'[Target(d)'] = d
  <2>1. SUFFICES ASSUME NEW d \in Call, pc'[d] \in Importing, Target(d)' \notin torn'
                 PROVE  owner'[Target(d)'] = d
    OBVIOUS
  <2>2. CASE pc[d] \in Importing
    BY <1>2, <1>7, <2>1, <2>2
  <2>3. CASE pc[d] \notin Importing
    <3>1. d = c
      BY <1>3, <2>1, <2>3
    <3>2. QED
      BY <1>1, <1>5, <2>1, <2>3, <3>1
  <2>4. QED
    BY <2>2, <2>3
<1>9. \A d \in Call : pc'[d] = "activate" /\ Target(d)' \notin torn' =>
        status'[Target(d)'] = "success"
  <2>1. SUFFICES ASSUME NEW d \in Call, pc'[d] = "activate", Target(d)' \notin torn'
                 PROVE  status'[Target(d)'] = "success"
    OBVIOUS
  <2>2. CASE d # c
    BY <1>3, <1>7, <2>1, <2>2 DEF Apart, Importing
  <2>3. CASE d = c
    <3>1. pc[c] = "finalize" /\ status' = [status EXCEPT ![Target(c)] = "success"]
      BY <2>1, <2>3, PathEffect
    <3>2. Target(c) \in Version /\ Target(c)' = Target(c)
      BY <1>2, <3>1 DEF Importing, Copying
    <3>3. QED
      BY <1>1, <2>3, <3>1, <3>2
  <2>4. QED
    BY <2>2, <2>3
<1>10. QED
  BY <1>6, <1>8, <1>9 DEF Apart

LEMMA InitRecords == Init => RecordInv
<1>1. Init => Owned /\ Apart
  BY FeedVersionsAssumption DEF Init, Owned, Apart, Importing, Copying, Batch
<1>2. QED
  BY <1>1, InitRows DEF RecordInv

LEMMA RecordsKept == RecordInv /\ [Next]_vars => RecordInv'
<1> SUFFICES ASSUME RecordInv, [Next]_vars PROVE RecordInv'
  OBVIOUS
<1>1. RowsInv'
  BY RowsKept DEF RecordInv
<1>2. CASE UNCHANGED vars
  BY <1>1, <1>2 DEF RecordInv, Owned, Apart, Target, vars, db
<1>3. ASSUME NEW c \in Call,
             (\E r \in Request : Start(c, r)) \/ Fetch(c) \/ Import(c) \/ Erase(c) \/ Crash(c)
      PROVE  RecordInv'
  BY <1>1, <1>3, OwnedKept, ApartKept DEF RecordInv
<1>4. QED
  BY <1>2, <1>3 DEF Next

\* For any number of calls and versions: a record belongs to the import that
\* inserted it, is in progress as long as that import copies, and is there for every
\* import that no unimport ran beside.
THEOREM RecordInvariant == Spec => []RecordInv
BY InitRecords, RecordsKept, PTL DEF Spec

\* Two imports never write to one version at the same time, unless an unimport ran
\* beside the first: the unique index on the record's feed version lets one insert
\* it, and only an unimport takes it away before that import ends.
THEOREM ImportersExclude == Spec => []OneImporter
<1>1. RecordInv => OneImporter
  BY DEF RecordInv, Apart, OneImporter, Importing
<1>2. QED
  BY <1>1, RecordInvariant, PTL

\* The outcome of an import is final: a record that says failed says so until an
\* unimport removes it. The import of a removed record, still at work, finds no
\* record with its id (UpdateFeedVersionImport).
THEOREM OutcomeStands == Spec => FailedIsFinal
<1>1. RecordInv /\ [Next]_vars =>
        [\A v \in Version : status[v] = "failed" => status'[v] \in {"failed", "none"}]_vars
  <2>1. SUFFICES ASSUME RecordInv, NEW c \in Call,
                        (\E r \in Request : Start(c, r)) \/ Fetch(c) \/ Import(c) \/ Erase(c)
                          \/ Crash(c),
                        NEW v \in Version, status[v] = "failed"
                 PROVE  status'[v] \in {"failed", "none"}
    BY DEF Next
  <2>2. pc[c] \in {"fail", "finalize"} /\ owner[Target(c)] = c => Target(c) # v
    BY <2>1 DEF RecordInv, Owned, Copying
  <2>3. status \in [Version -> {"none", "in_progress", "success", "failed"}]
    BY <2>1 DEF RecordInv, RowsInv, TypeOK
  <2>4. QED
    BY <2>1, <2>2, <2>3, RecordEffect DEF RecordInv
<1>2. QED
  BY <1>1, RecordInvariant, PTL DEF Spec, FailedIsFinal

-----------------------------------------------------------------------------
(* Files *)

\* A version is committed only after its file was stored, and no step removes a file.
LEMMA StoredKept ==
  ASSUME RowsInv, Stored, NEW c \in Call,
         (\E r \in Request : Start(c, r)) \/ Fetch(c) \/ Import(c) \/ Erase(c) \/ Crash(c)
  PROVE  Stored'
<1> USE DEF Stored, CommittedHasFile, Step, Fetching
<1>1. CASE \E r \in Request : Start(c, r)
  BY <1>1, StartEffect DEF RowsInv, TypeOK
<1>2. CASE Fetch(c)
  <2> USE DEF RowsInv, TypeOK, fetchFrame
  <2>1. CASE FetchCheck(c) \/ FetchValidate(c) \/ FetchRecheck(c) \/ FetchLog(c)
    BY <2>1 DEF FetchCheck, FetchValidate, FetchRecheck, FetchLog
  <2>2. CASE FetchUpload(c)
    BY <2>2 DEF FetchUpload
  <2>3. CASE FetchInsert(c)
    BY <2>3 DEF FetchInsert, Known
  <2>4. QED
    BY <1>2, <2>1, <2>2, <2>3 DEF Fetch
<1>3. CASE Import(c) \/ Erase(c) \/ Crash(c)
  <2>1. sha' = sha /\ files' = files /\ req' = req
    BY <1>3
    DEF Import, ImportCheck, ImportCreate, CopyBatch, CopyFail, ImportFail, ImportFinalize,
        ImportActivate, importFrame, Erase, EraseClear, EraseEntities, Unimport,
        UnimportSchedule, CommitErase, Rollback, eraseFrame, Crash, db
  <2>2. pc'[c] \in {"recheck", "insert"} => pc'[c] = pc[c]
    <3>1. CASE Import(c)
      BY <3>1 DEF Import, ImportCheck, ImportCreate, CopyBatch, CopyFail, NextBatch, Batch,
                  ImportFail, ImportFinalize, ImportActivate, RowsInv, TypeOK
    <3>2. CASE Erase(c) \/ Crash(c)
      BY <3>2 DEF Erase, EraseClear, EraseEntities, Unimport, UnimportSchedule, CommitErase,
                  Rollback, Crash, RowsInv, TypeOK
    <3>3. QED
      BY <1>3, <3>1, <3>2
  <2>3. QED
    BY <1>3, <2>1, <2>2, StepEffect
<1>4. QED
  BY <1>1, <1>2, <1>3

-----------------------------------------------------------------------------
(* Rows *)

\* What a step may do to the imported rows: a copy adds a batch of its own, the
\* commit of an unimport removes what its transaction has deleted.
LEMMA RowEffect ==
  ASSUME RowsInv, NEW c \in Call,
         (\E r \in Request : Start(c, r)) \/ Fetch(c) \/ Import(c) \/ Erase(c) \/ Crash(c)
  PROVE  \/ /\ rows' = rows /\ (pc[c] = "finish" => pc'[c] # "done")
            /\ pc'[c] \notin {"schedule", "infos", "finalize"}
         \/ \E b \in Batch : /\ pc[c] = b /\ pc' = [pc EXCEPT ![c] = NextBatch[b]]
                             /\ rows' = rows \cup {<<Target(c), c, b>>}
         \/ pc[c] = "finish" /\ pc'[c] = "done" /\ rows' = rows \ del[c]
<1> USE DEF RowsInv, TypeOK, Step
<1>1. CASE \E r \in Request : Start(c, r)
  BY <1>1, StartEffect
<1>2. CASE Fetch(c)
  BY <1>2, FetchEffect DEF Moves, Fetching
<1>3. CASE Import(c)
  <2>1. ASSUME NEW b \in Batch, CopyBatch(c, b)
        PROVE  /\ pc[c] = b /\ pc' = [pc EXCEPT ![c] = NextBatch[b]]
               /\ rows' = rows \cup {<<Target(c), c, b>>}
    BY <2>1 DEF CopyBatch
  <2>2. QED
    BY <1>3, <2>1 DEF Import, ImportCheck, ImportCreate, CopyFail, ImportFail, ImportFinalize,
                      ImportActivate, Batch
<1>4. CASE Erase(c)
  BY <1>4 DEF Erase, EraseClear, EraseEntities, Unimport, UnimportSchedule, CommitErase,
              Rollback, db
<1>5. CASE Crash(c)
  BY <1>5 DEF Crash, db
<1>6. QED
  BY <1>1, <1>2, <1>3, <1>4, <1>5

\* What the commits of the two kinds of unimport remove.
LEMMA EraseEffect ==
  ASSUME RowsInv, NEW c \in Call,
         (\E r \in Request : Start(c, r)) \/ Fetch(c) \/ Import(c) \/ Erase(c) \/ Crash(c),
         pc[c] = "finish", pc'[c] = "done"
  PROVE  \/ req[c].kind # "schedule" /\ status'[Target(c)] = "none"
         \/ /\ req[c].kind = "schedule" /\ UNCHANGED <<status, owner>>
            /\ status[Target(c)] # "none" => Target(c) \in noSched'
<1> USE DEF RowsInv, TypeOK, Step
<1>1. ~(\E r \in Request : Start(c, r)) /\ ~Fetch(c) /\ ~Crash(c)
  <2>1. ~Crash(c)
    BY DEF Crash
  <2>2. QED
    BY <2>1, StartEffect, FetchEffect DEF Moves, Fetching
<1>2. ~Import(c)
  BY DEF Import, ImportCheck, ImportCreate, CopyBatch, CopyFail, ImportFail, ImportFinalize,
         ImportActivate, Batch
<1>3. ~EraseClear(c) /\ ~EraseEntities(c) /\ ~Rollback(c)
  BY DEF EraseClear, EraseEntities, Rollback
<1>4. Target(c) \in Version
  BY DEF Doing, OnVersion, Erasing
<1>5. QED
  BY <1>1, <1>2, <1>3, <1>4 DEF Erase, Unimport, UnimportSchedule, EraseRecord

\* How an unimport gets to its last step: it has deleted what it has to by then.
LEMMA ClearEffect ==
  ASSUME RowsInv, NEW c \in Call,
         (\E r \in Request : Start(c, r)) \/ Fetch(c) \/ Import(c) \/ Erase(c) \/ Crash(c),
         pc'[c] \in {"entities", "finish"}, req[c].kind # "schedule"
  PROVE  /\ rows' = rows
         /\ \/ /\ pc[c] = "clear" /\ pc'[c] = "entities"
               /\ \A r \in RowsOf(Target(c)) : r[3] \in {"schedule", "infos"} => r \in del'[c]
            \/ /\ pc[c] = "entities" /\ pc'[c] = "finish" /\ del[c] \subseteq del'[c]
               /\ \A r \in RowsOf(Target(c)) : r[3] = "stops" => r \in del'[c]
<1> USE DEF RowsInv, TypeOK, Step
<1>1. ~(\E r \in Request : Start(c, r)) /\ ~Fetch(c) /\ ~Crash(c)
  <2>1. ~Crash(c)
    BY DEF Crash
  <2>2. QED
    BY <2>1, StartEffect, FetchEffect DEF Moves, Fetching
<1>2. ~Import(c)
  BY DEF Import, ImportCheck, ImportCreate, CopyBatch, CopyFail, NextBatch, ImportFail,
         ImportFinalize, ImportActivate, Batch
<1>3. ~Unimport(c) /\ ~UnimportSchedule(c) /\ ~Rollback(c)
  BY DEF Unimport, UnimportSchedule, CommitErase, Rollback
<1>4. CASE EraseClear(c)
  <2>1. DeleteRows(c, {"schedule", "infos"}) /\ pc[c] = "clear" /\ pc'[c] = "entities"
    BY <1>4 DEF EraseClear
  <2>2. QED
    BY <1>4, <2>1, DeleteRowsEffect DEF EraseClear
<1>5. CASE EraseEntities(c)
  <2>1. DeleteRows(c, {"stops"}) /\ pc[c] = "entities" /\ pc'[c] = "finish"
    BY <1>5 DEF EraseEntities
  <2>2. QED
    BY <1>5, <2>1, DeleteRowsEffect DEF EraseEntities
<1>6. QED
  BY <1>1, <1>2, <1>3, <1>4, <1>5 DEF Erase

\* A transaction that another call has open keeps the rows it has deleted.
LEMMA OthersDeletions ==
  ASSUME RowsInv, NEW c \in Call,
         (\E r \in Request : Start(c, r)) \/ Fetch(c) \/ Import(c) \/ Erase(c) \/ Crash(c)
  PROVE  \A d \in Call : d # c => del'[d] = del[d]
<1> USE DEF RowsInv, TypeOK
<1>1. CASE \E r \in Request : Start(c, r)
  BY <1>1, StartEffect
<1>2. CASE Fetch(c)
  BY <1>2, FetchEffect
<1>3. CASE Import(c)
  BY <1>3 DEF Import, ImportCheck, ImportCreate, CopyBatch, CopyFail, ImportFail, ImportFinalize,
              ImportActivate, importFrame
<1>4. CASE Erase(c)
  <2>1. CASE \E batches : DeleteRows(c, batches)
    BY <2>1, DeleteRowsEffect
  <2>2. QED
    BY <1>4, <2>1 DEF Erase, EraseClear, EraseEntities, Unimport, UnimportSchedule,
                      CommitErase, Rollback
<1>5. CASE Crash(c)
  BY <1>5 DEF Crash
<1>6. QED
  BY <1>1, <1>2, <1>3, <1>4, <1>5

\* The rows of an intact version are those of one import: a batch is added only by
\* the import whose record it is, and the record goes only with all the rows.
LEMMA WholeKept ==
  ASSUME RecordInv, RecordInv', Whole, NEW c \in Call,
         (\E r \in Request : Start(c, r)) \/ Fetch(c) \/ Import(c) \/ Erase(c) \/ Crash(c)
  PROVE  Whole'
<1>1. /\ pc \in [Call -> Pc] /\ owner \in [Version -> Call \cup {NoCall}] /\ NoCall \notin Call
      /\ rows \subseteq Version \X Call \X Batch
  BY FeedVersionsAssumption DEF RecordInv, RowsInv, TypeOK
<1>2. RowsInv
  BY DEF RecordInv
<1>3. torn \subseteq torn' /\ \A d \in Call : d # c => pc'[d] = pc[d] /\ Target(d)' = Target(d)
                                                      /\ req'[d] = req[d]
  BY <1>2, PathEffect, TargetKept
<1>4. \A d \in Call : pc[d] \in Importing \cup Erasing =>
        Target(d) \in Version /\ Target(d)' = Target(d) /\ req'[d] = req[d]
  BY <1>2, TargetKept DEF RowsInv, Doing, OnVersion, Importing, Copying, Batch, Erasing
<1>5. \A r \in rows' : r \in rows \/ (pc[c] \in Batch /\ r[1] = Target(c) /\ r[2] = c)
  BY <1>2, RowEffect
<1>6. \A v \in Version \ torn' : \A r \in RowsOf(v)' : r[2] = owner'[v]
  <2>1. SUFFICES ASSUME NEW v \in Version, v \notin torn', NEW r \in rows', r[1] = v
                 PROVE  r[2] = owner'[v]
    BY DEF RowsOf
  <2>2. v \notin torn
    BY <1>3, <2>1
  <2>3. CASE r \in rows
    <3>1. r[2] = owner[v] /\ r[2] \in Call
      BY <1>1, <2>1, <2>2, <2>3 DEF Whole, RowsOf
    <3>2. status[v] # "none"
      BY <1>1, <2>1, <3>1 DEF RecordInv, Owned
    <3>3. pc[c] = "finish" /\ pc'[c] = "done" /\ req[c].kind # "schedule" => Target(c) # v
      <4>1. SUFFICES ASSUME pc[c] = "finish", pc'[c] = "done", req[c].kind # "schedule",
                            Target(c) = v
                     PROVE  FALSE
        OBVIOUS
      <4>2. r \in del[c]
        BY <2>1, <2>2, <2>3, <4>1 DEF Whole, RowsOf
      <4>3. rows' = rows \ del[c]
        BY <1>2, <4>1, RowEffect DEF Batch
      <4>4. QED
        BY <2>1, <4>2, <4>3
    <3>4. QED
      BY <1>1, <1>2, <1>4, <2>1, <3>1, <3>2, <3>3, RecordEffect DEF Erasing
  <2>4. CASE r \notin rows
    <3>1. pc[c] \in Batch /\ v = Target(c) /\ r[2] = c
      BY <1>5, <2>1, <2>4
    <3>2. owner[v] = c
      BY <2>2, <3>1 DEF RecordInv, Apart, Importing, Copying
    <3>3. owner' = owner
      BY <1>2, <3>1, RecordEffect DEF Batch
    <3>4. QED
      BY <3>1, <3>2, <3>3
  <2>5. QED
    BY <2>3, <2>4
<1>7. \A d \in Call : pc'[d] \in DOMAIN Copied /\ Target(d)' \notin torn' =>
        \A b \in Copied[pc'[d]] : <<Target(d)', d, b>> \in rows'
  <2>1. SUFFICES ASSUME NEW d \in Call, pc'[d] \in DOMAIN Copied, Target(d)' \notin torn',
                        NEW b \in Copied[pc'[d]]
                 PROVE  <<Target(d)', d, b>> \in rows'
    OBVIOUS
  <2>2. DOMAIN Copied = {"stops", "schedule", "infos", "finalize"}
        /\ DOMAIN Copied \subseteq Importing
    BY DEF Copied, Importing, Copying, Batch
  <2>3. CASE d # c
    <3>1. pc[d] = pc'[d] /\ Target(d)' = Target(d) /\ Target(d) \notin torn
      BY <1>3, <2>1, <2>3
    <3>2. <<Target(d), d, b>> \in rows
      BY <2>1, <3>1 DEF Whole
    <3>3. pc[c] = "finish" => Target(c) # Target(d)
      BY <2>1, <2>2, <3>1 DEF RecordInv, Apart
    <3>4. pc[c] = "finish" => <<Target(d), d, b>> \notin del[c]
      BY <1>2, <3>3 DEF RowsInv, Deleting
    <3>5. QED
      BY <1>2, <3>1, <3>2, <3>4, RowEffect
  <2>4. CASE d = c
    <3>1. pc'[c] # "stops"
      BY <2>1, <2>4 DEF Copied
    <3>2. PICK a \in Batch : /\ pc[c] = a /\ pc'[c] = NextBatch[a]
                             /\ rows' = rows \cup {<<Target(c), c, a>>}
      BY <1>1, <1>2, <2>1, <2>2, <2>4, <3>1, RowEffect
    <3>3. Target(c)' = Target(c) /\ Target(c) \notin torn /\ a \in DOMAIN Copied
      BY <1>3, <1>4, <2>1, <2>2, <2>4, <3>2 DEF Batch, Importing, Copying
    <3>4. Copied[NextBatch[a]] = Copied[a] \cup {a}
      BY DEF Copied, NextBatch, Batch
    <3>5. QED
      BY <2>1, <2>4, <3>2, <3>3, <3>4 DEF Whole
  <2>5. QED
    BY <2>3, <2>4
<1>8. \A d \in Call :
        pc'[d] \in {"entities", "finish"} /\ req'[d].kind # "schedule" /\ Target(d)' \notin torn' =>
          \A r \in rows' : r[1] = Target(d)' =>
            r \in del'[d] \/ (pc'[d] = "entities" /\ r[3] = "stops")
  <2>1. SUFFICES ASSUME NEW d \in Call, pc'[d] \in {"entities", "finish"},
                        req'[d].kind # "schedule", Target(d)' \notin torn',
                        NEW r \in rows', r[1] = Target(d)'
                 PROVE  r \in del'[d] \/ (pc'[d] = "entities" /\ r[3] = "stops")
    OBVIOUS
  <2>2. CASE d # c
    <3>1. /\ pc[d] = pc'[d] /\ Target(d)' = Target(d) /\ Target(d) \notin torn
          /\ req'[d] = req[d] /\ del'[d] = del[d]
      BY <1>2, <1>3, <2>1, <2>2, OthersDeletions
    <3>2. r \in rows
      <4>1. ~(pc[c] \in Batch /\ Target(c) = Target(d))
        BY <2>1, <3>1 DEF RecordInv, Apart, Importing, Copying
      <4>2. QED
        BY <1>5, <2>1, <3>1, <4>1
    <3>3. QED
      BY <2>1, <3>1, <3>2 DEF Whole, RowsOf
  <2>3. CASE d = c
    <3>1. pc[c] # "idle"
      BY <1>2, <2>1, <2>3, PathEffect
    <3>2. req'[c] = req[c] /\ Target(c)' = Target(c)
      BY <1>2, <3>1, TargetKept
    <3>3. rows' = rows /\ r \in RowsOf(Target(c)) /\ r[3] \in Batch /\ Target(c) \notin torn
      BY <1>1, <1>2, <1>3, <2>1, <2>3, <3>2, ClearEffect DEF RowsOf
    <3>4. CASE /\ pc[c] = "clear" /\ pc'[c] = "entities"
               /\ r[3] \in {"schedule", "infos"} => r \in del'[c]
      BY <2>3, <3>3, <3>4 DEF Batch
    <3>5. CASE /\ pc[c] = "entities" /\ pc'[c] = "finish" /\ del[c] \subseteq del'[c]
               /\ r[3] = "stops" => r \in del'[c]
      BY <2>1, <2>3, <3>2, <3>3, <3>5 DEF Whole
    <3>6. QED
      BY <1>2, <2>1, <2>3, <3>2, <3>3, <3>4, <3>5, ClearEffect
  <2>4. QED
    BY <2>2, <2>3
<1>9. QED
  BY <1>6, <1>7, <1>8 DEF Whole, RowsOf

-----------------------------------------------------------------------------
(* What the server can see *)

\* A version becomes visible in the step of the import that copied every batch, and
\* an unimport of its schedule takes rows of that batch alone.
LEMMA VisibleKept ==
  ASSUME RecordInv, RecordInv', Whole, Whole', VisibleIsWhole, NEW c \in Call,
         (\E r \in Request : Start(c, r)) \/ Fetch(c) \/ Import(c) \/ Erase(c) \/ Crash(c)
  PROVE  VisibleIsWhole'
<1>1. SUFFICES ASSUME NEW v \in Version, v \notin torn', status'[v] = "success", NEW b \in Batch
               PROVE  <<v, owner'[v], b>> \in rows' \/ (b = "schedule" /\ v \in noSched')
  BY DEF Whole, VisibleIsWhole
<1>2. /\ status \in [Version -> {"none", "in_progress", "success", "failed"}]
      /\ pc \in [Call -> Pc] /\ owner \in [Version -> Call \cup {NoCall}]
      /\ RowsInv /\ v \notin torn
  BY <1>1, PathEffect DEF RecordInv, RowsInv, TypeOK
<1>3. pc[c] \in Copying \cup Erasing \cup {"create"} => Target(c) \in Version
  BY <1>2 DEF RowsInv, Doing, OnVersion, Importing
<1>4. CASE status[v] = "success"
  <2>1. owner[Target(c)] = c /\ pc[c] \in {"fail", "finalize"} => Target(c) # v
    BY <1>4 DEF RecordInv, Owned, Copying
  <2>2. owner'[v] = owner[v] /\ (v \in noSched => v \in noSched')
    BY <1>1, <1>2, <1>3, <1>4, <2>1, RecordEffect DEF Erasing
  <2>3. <<v, owner[v], b>> \in rows \/ (b = "schedule" /\ v \in noSched)
    BY <1>2, <1>4 DEF VisibleIsWhole
  <2>4. CASE b = "schedule" /\ v \in noSched
    BY <2>2, <2>4
  <2>5. CASE <<v, owner[v], b>> \in rows
    <3>1. CASE rows \subseteq rows'
      BY <2>2, <2>5, <3>1
    <3>2. CASE pc[c] = "finish" /\ pc'[c] = "done" /\ rows' = rows \ del[c]
      <4>1. SUFFICES ASSUME <<v, owner[v], b>> \in del[c]
                     PROVE  b = "schedule" /\ v \in noSched'
        BY <2>2, <2>5, <3>2
      <4>2. Target(c) = v /\ (req[c].kind = "schedule" => b = "schedule")
        BY <1>2, <4>1 DEF RowsInv, Deleting
      <4>3. QED
        BY <1>1, <1>2, <1>4, <3>2, <4>2, EraseEffect
    <3>3. QED
      BY <1>2, <3>1, <3>2, RowEffect
  <2>6. QED
    BY <2>3, <2>4, <2>5
<1>5. CASE status[v] # "success"
  <2>1. /\ pc[c] = "finalize" /\ Target(c) = v /\ owner[v] = c /\ owner'[v] = c
        /\ pc'[c] \in {"activate", "done"}
    BY <1>1, <1>2, <1>3, <1>5, RecordEffect DEF Erasing, Copying, Batch
  <2>2. <<v, c, b>> \in rows
    BY <1>2, <2>1 DEF Whole, Copied
  <2>3. rows' = rows
    BY <1>2, <2>1, RowEffect DEF Batch
  <2>4. QED
    BY <2>1, <2>2, <2>3
<1>6. QED
  BY <1>4, <1>5

\* Only an import activates a version, after its record said success, and the
\* unimport that removes a record takes its version out of use.
LEMMA ActiveEffect ==
  ASSUME RowsInv, NEW c \in Call,
         (\E r \in Request : Start(c, r)) \/ Fetch(c) \/ Import(c) \/ Erase(c) \/ Crash(c)
  PROVE  \/ active' = active
         \/ pc[c] = "activate" /\ active' = Target(c)
         \/ active' = NoVersion
<1>1. CASE \E r \in Request : Start(c, r)
  BY <1>1, StartEffect DEF RowsInv
<1>2. CASE Fetch(c)
  BY <1>2, FetchEffect DEF RowsInv
<1>3. CASE Import(c)
  BY <1>3 DEF Import, ImportCheck, ImportCreate, CopyBatch, CopyFail, ImportFail, ImportFinalize,
              ImportActivate, Step
<1>4. CASE Erase(c)
  BY <1>4 DEF Erase, EraseClear, EraseEntities, Unimport, UnimportSchedule, Rollback, db
<1>5. CASE Crash(c)
  BY <1>5 DEF Crash, db
<1>6. QED
  BY <1>1, <1>2, <1>3, <1>4, <1>5

LEMMA ActiveKept ==
  ASSUME RecordInv, ActiveIsImported, NEW c \in Call,
         (\E r \in Request : Start(c, r)) \/ Fetch(c) \/ Import(c) \/ Erase(c) \/ Crash(c)
  PROVE  ActiveIsImported'
<1>1. SUFFICES ASSUME active' \in Version, active' \notin torn'
               PROVE  status'[active'] = "success"
  BY DEF ActiveIsImported
<1>2. /\ status \in [Version -> {"none", "in_progress", "success", "failed"}]
      /\ RowsInv /\ active' \notin torn
  BY <1>1, PathEffect DEF RecordInv, RowsInv, TypeOK
<1>3. CASE active' = active
  <2>1. status[active] = "success"
    BY <1>1, <1>2, <1>3 DEF ActiveIsImported
  <2>2. owner[Target(c)] = c /\ pc[c] \in {"fail", "finalize"} => Target(c) # active
    BY <2>1 DEF RecordInv, Owned, Copying
  <2>3. QED
    BY <1>1, <1>2, <1>3, <2>1, <2>2, RecordEffect
<1>4. CASE pc[c] = "activate" /\ active' = Target(c)
  <2>1. status[Target(c)] = "success"
    BY <1>2, <1>4 DEF RecordInv, Apart
  <2>2. status' = status
    BY <1>2, <1>4, RecordEffect
  <2>3. QED
    BY <1>4, <2>1, <2>2
<1>5. CASE active' = NoVersion
  BY <1>1, <1>5 DEF NoVersion, Version
<1>6. QED
  BY <1>2, <1>3, <1>4, <1>5, ActiveEffect

-----------------------------------------------------------------------------
(* The invariant and what follows from it *)

LEMMA InitVersions == Init => VersionInv
<1>1. Init => Stored /\ Whole /\ VisibleIsWhole /\ ActiveIsImported
  BY DEF Init, Stored, CommittedHasFile, Whole, Copied, RowsOf, VisibleIsWhole,
         ActiveIsImported, NoVersion, Version
<1>2. QED
  BY <1>1, InitRecords DEF VersionInv

LEMMA VersionsKept == VersionInv /\ [Next]_vars => VersionInv'
<1> SUFFICES ASSUME VersionInv, [Next]_vars PROVE VersionInv'
  OBVIOUS
<1>1. RecordInv'
  BY RecordsKept DEF VersionInv
<1>2. CASE UNCHANGED vars
  BY <1>2, StutterKeeps
<1>3. ASSUME NEW c \in Call,
             (\E r \in Request : Start(c, r)) \/ Fetch(c) \/ Import(c) \/ Erase(c) \/ Crash(c)
      PROVE  VersionInv'
  <2>1. Stored'
    BY <1>3, StoredKept DEF VersionInv, RecordInv
  <2>2. Whole'
    BY <1>1, <1>3, WholeKept DEF VersionInv
  <2>3. VisibleIsWhole' /\ ActiveIsImported'
    BY <1>1, <1>3, <2>2, VisibleKept, ActiveKept DEF VersionInv
  <2>4. QED
    BY <1>1, <2>1, <2>2, <2>3 DEF VersionInv
<1>4. QED
  BY <1>2, <1>3 DEF Next

\* For any number of calls, contents and versions: files are stored before versions
\* refer to them, rows belong to the record they came with, and an unimport about to
\* commit has deleted every row, until an import and an unimport meet on a version.
THEOREM VersionInvariant == Spec => []VersionInv
BY InitVersions, VersionsKept, PTL DEF Spec

\* A committed feed version never refers to a file that is not in storage, whichever
\* fetch failed or died at whichever step (StaticFetch uploads before it inserts).
THEOREM VersionsHaveFiles == Spec => []CommittedHasFile
<1>1. VersionInv => CommittedHasFile
  BY DEF VersionInv, Stored
<1>2. QED
  BY <1>1, VersionInvariant, PTL

\* What joinImported lets a query see is the whole output of the one copy that wrote
\* the record, but for a schedule removed on purpose.
THEOREM SeenIsWhole == Spec => []VisibleIsWhole
<1>1. VersionInv => VisibleIsWhole
  BY DEF VersionInv
<1>2. QED
  BY <1>1, VersionInvariant, PTL

\* The active version has been imported with success and not unimported since.
THEOREM ActiveStays == Spec => []ActiveIsImported
<1>1. VersionInv => ActiveIsImported
  BY DEF VersionInv
<1>2. QED
  BY <1>1, VersionInvariant, PTL

=============================================================================
