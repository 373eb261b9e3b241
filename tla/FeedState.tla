------------------------------ MODULE FeedState ------------------------------
(***************************************************************************)
(* Which version of a feed is active, and which versions have rows in the  *)
(* materialized tables: internal/feedstate/manager.go, with the            *)
(* transaction that cmds/feed_state_cmd.go runs around it and the public   *)
(* flag that sync writes to the same row (stats/dbutil.go).                *)
(*                                                                         *)
(* Every process is a caller with a database transaction of its own.  A    *)
(* step is one SQL statement, under READ COMMITTED: a statement sees what  *)
(* is committed and what its own transaction wrote, and a write waits for  *)
(* the transaction that holds the row.  The three materialized tables are  *)
(* one set, the versions that have rows there.                             *)
(***************************************************************************)
EXTENDS Naturals, FiniteSets

CONSTANTS
  Proc,       \* callers, one request each
  Feed,
  Version,    \* feed versions
  FeedOf,     \* the feed a version belongs to
  NoVersion,  \* a null pointer
  NoRow,      \* the transaction has not written this feed_states row
  Request     \* the requests a caller may make

Op == [kind : {"activate", "deactivate", "materialize", "dematerialize"}, version : Version]
        \cup [kind : {"exclude", "public"}, feed : Feed, value : BOOLEAN]
Command == [kind : {"set"}, versions : SUBSET Version, oneTx : BOOLEAN]
             \cup [kind : {"sync"}]

ASSUME FeedStateAssumption ==
  /\ NoVersion \notin Version
  /\ FeedOf \in [Version -> Feed]
  /\ Request \subseteq Op \cup Command

Pointer == Version \cup {NoVersion}
Row == [active : Pointer, mat : Pointer, excl : BOOLEAN, public : BOOLEAN]
ASSUME NoRowAssumption == NoRow \notin Row

VARIABLES
  fs,      \* feed_states, committed: the pointers and the flag of each feed
  rows,    \* versions with rows in the materialized tables, committed
  pc,      \* what the caller does next
  req,     \* its request
  ops,     \* operations of the request that are still to be done
  op,      \* the operation in progress
  target,  \* reconcileFeed: parameter active
  old,     \* reconcileFeed: cur.MaterializedFeedVersionID
  goal,    \* reconcileFeed: materialized
  saved,   \* SetFeedStatePublic: the row it has read
  wrote,   \* feed_states rows written by the open transaction
  ins, del,  \* versions whose rows it inserted, deleted
  touched, \* history: feeds the open transaction has used
  met      \* history: <<p, q, f>> when open transactions of p and q both used f

txVars == <<wrote, ins, del>>
locals == <<op, target, old, goal, saved>>
vars == <<fs, rows, pc, req, ops, locals, txVars, touched, met>>

OpKind == {"activate", "deactivate", "exclude", "public", "materialize", "dematerialize"}
\* A counter in OpKind: the operation was chosen and has not begun.
Pc == {"idle", "begin", "plan", "tables", "next", "read", "demat", "clear",
       "insert", "write", "save", "commit", "done", "failed"} \cup OpKind
NoRequest == [kind |-> "none"]
NoWrite == [f \in Feed |-> NoRow]

TypeOK ==
  /\ fs \in [Feed -> Row] /\ rows \subseteq Version
  /\ pc \in [Proc -> Pc]
  /\ req \in [Proc -> Request \cup {NoRequest}]
  /\ ops \in [Proc -> SUBSET Op] /\ op \in [Proc -> Op \cup {NoRequest}]
  /\ target \in [Proc -> Pointer] /\ old \in [Proc -> Pointer] /\ goal \in [Proc -> Pointer]
  /\ saved \in [Proc -> Row \cup {NoRow}]
  /\ wrote \in [Proc -> [Feed -> Row \cup {NoRow}]]
  /\ ins \in [Proc -> SUBSET Version] /\ del \in [Proc -> SUBSET Version]
  /\ touched \in [Proc -> SUBSET Feed] /\ met \subseteq Proc \X Proc \X Feed

\* A feed is reconciled: its materialized pointer is the active version unless it
\* is hidden from global queries, and exactly that version has rows.
RowsOf(f) == {v \in rows : FeedOf[v] = f}
Reconciled(f) ==
  /\ fs[f].mat = IF fs[f].excl THEN NoVersion ELSE fs[f].active
  /\ RowsOf(f) = {fs[f].mat} \ {NoVersion}

Init ==
  /\ fs \in [Feed -> Row]
  /\ \A f \in Feed : fs[f].public /\ (fs[f].active # NoVersion => FeedOf[fs[f].active] = f)
  /\ rows = {fs[f].mat : f \in Feed} \ {NoVersion}
  /\ \A f \in Feed : Reconciled(f)
  /\ pc = [p \in Proc |-> "idle"] /\ req = [p \in Proc |-> NoRequest]
  /\ ops = [p \in Proc |-> {}] /\ op = [p \in Proc |-> NoRequest]
  /\ target = [p \in Proc |-> NoVersion]
  /\ old = [p \in Proc |-> NoVersion] /\ goal = [p \in Proc |-> NoVersion]
  /\ saved = [p \in Proc |-> NoRow]
  /\ wrote = [p \in Proc |-> NoWrite]
  /\ ins = [p \in Proc |-> {}] /\ del = [p \in Proc |-> {}]
  /\ touched = [p \in Proc |-> {}] /\ met = {}

-----------------------------------------------------------------------------
(* Statements of an open transaction *)
Goto(p, l) == pc' = [pc EXCEPT ![p] = l]

(* SELECT ... FROM feed_states WHERE feed_id = f *)
getFeedStatePointers(p, f) == IF wrote[p][f] = NoRow THEN fs[f] ELSE wrote[p][f]

(* UPDATE feed_states ... WHERE feed_id = f: waits for another writer. *)
UpdateState(p, f, row) ==
  /\ \A q \in Proc \ {p} : wrote[q][f] = NoRow
  /\ wrote' = [wrote EXCEPT ![p][f] = row]

(* DELETE ... WHERE feed_version_id = v: sees committed and own rows, waits   *)
(* for another transaction that is deleting them.                            *)
DematerializeFeedVersion(p, v) ==
  /\ \A q \in Proc \ {p} : v \notin del[q]
  /\ del' = [del EXCEPT ![p] = @ \cup ({v} \cap rows)]
  /\ ins' = [ins EXCEPT ![p] = @ \ {v}]
  /\ UNCHANGED wrote

(* INSERT ... SELECT: the unique indexes make it wait for another writer of   *)
(* the same rows; rows that are there already are an error (see Rollback).    *)
InsertRows(p, v) ==
  /\ \A q \in Proc \ {p} : v \notin ins[q] \cup del[q]
  /\ v \notin (rows \ del[p]) \cup ins[p]
  /\ ins' = [ins EXCEPT ![p] = @ \cup {v}]
  /\ UNCHANGED <<wrote, del>>

Use(p, F) ==
  /\ touched' = [touched EXCEPT ![p] = @ \cup F]
  /\ met' = met \cup {m \in Proc \X Proc \X F : m[1] = p /\ m[2] # p /\ m[3] \in touched[m[2]]}

-----------------------------------------------------------------------------
(* Requests *)
FeedOfOp(o) == IF o.kind \in {"exclude", "public"} THEN o.feed ELSE FeedOf[o.version]

GetActiveFeedVersions(p) ==
  {getFeedStatePointers(p, f).active : f \in Feed} \ {NoVersion}
GetMaterializedFeedVersionPointers(p) ==
  {getFeedStatePointers(p, f).mat : f \in Feed} \ {NoVersion}

Ops(kind, versions) == {[kind |-> kind, version |-> v] : v \in versions}

CalculateSetActiveChanges(p, versions) ==
  Ops("deactivate", GetActiveFeedVersions(p) \ versions)
    \cup Ops("activate", versions \ GetActiveFeedVersions(p))

\* FeedStateManagerCommand.Run opens one transaction around everything.
InOneTx(r) == r.kind = "sync" \/ (r.kind = "set" /\ r.oneTx)

(* ActivateFeedVersion, DeactivateFeedVersion and SetExcludeFromGlobal are one *)
(* operation in one transaction. SetActiveFeedVersions plans from what is      *)
(* committed and then runs one transaction per version.                        *)
Start(p, r) ==
  /\ pc[p] = "idle"
  /\ req' = [req EXCEPT ![p] = r]
  /\ \/ /\ r \in Op
        /\ ops' = [ops EXCEPT ![p] = {r}]
        /\ Goto(p, "begin")
     \/ /\ r.kind = "set" /\ ~InOneTx(r)
        /\ ops' = [ops EXCEPT ![p] = CalculateSetActiveChanges(p, r.versions)]
        /\ Goto(p, IF ops'[p] = {} THEN "done" ELSE "begin")
  /\ UNCHANGED <<fs, rows, locals, txVars, touched, met>>

StartCommand(p, r) ==
  /\ pc[p] = "idle"
  /\ InOneTx(r)
  /\ req' = [req EXCEPT ![p] = r]
  /\ Use(p, Feed)
  /\ Goto(p, "plan")
  /\ UNCHANGED <<fs, rows, ops, locals, txVars>>

(* --set-active: the changes are computed inside the transaction.            *)
PlanSet(p) ==
  /\ pc[p] = "plan" /\ req[p].kind = "set"
  /\ ops' = [ops EXCEPT ![p] = CalculateSetActiveChanges(p, req[p].versions)]
  /\ Goto(p, "next")
  /\ UNCHANGED <<fs, rows, req, locals, txVars, touched, met>>

\* Mutant: the active versions are asked for, hidden feeds with them.
PlanSyncPointersOfActive(p) ==
  /\ pc[p] = "plan" /\ req[p].kind = "sync"
  /\ ops' = [ops EXCEPT ![p] = Ops("materialize", GetActiveFeedVersions(p))]
  /\ Goto(p, "tables")
  /\ UNCHANGED <<fs, rows, req, locals, txVars, touched, met>>

(* --sync-active: read the pointers, then the versions that have rows.       *)
PlanSyncPointers(p) ==
  /\ pc[p] = "plan" /\ req[p].kind = "sync"
  /\ ops' = [ops EXCEPT ![p] = Ops("materialize", GetMaterializedFeedVersionPointers(p))]
  /\ Goto(p, "tables")
  /\ UNCHANGED <<fs, rows, req, locals, txVars, touched, met>>

PlanSyncTables(p) ==
  /\ pc[p] = "tables"
  /\ LET targets == {o.version : o \in ops[p]} IN
     ops' = [ops EXCEPT ![p] = Ops("dematerialize", rows \ targets)
                                 \cup Ops("materialize", targets \ rows)]
  /\ Goto(p, "next")
  /\ UNCHANGED <<fs, rows, req, locals, txVars, touched, met>>

-----------------------------------------------------------------------------
(* One operation. The command dematerializes, materializes, deactivates and  *)
(* activates in that order.                                                  *)
Rank == [dematerialize |-> 1, materialize |-> 2, deactivate |-> 3, activate |-> 4,
         exclude |-> 5, public |-> 5]
First(O) == {o \in O : \A u \in O : Rank[o.kind] <= Rank[u.kind]}

EndOp(p) == Goto(p, IF InOneTx(req[p]) THEN "next" ELSE "commit")

TakeOp(p) ==
  /\ pc[p] \in {"begin", "next"}
  /\ \E o \in First(ops[p]) :
       /\ op' = [op EXCEPT ![p] = o]
       /\ ops' = [ops EXCEPT ![p] = @ \ {o}]
       /\ Use(p, {FeedOfOp(o)})
       /\ Goto(p, o.kind)
       /\ UNCHANGED <<fs, rows, req, target, old, goal, saved, txVars>>

AllDone(p) ==
  /\ pc[p] = "next" /\ ops[p] = {}
  /\ Goto(p, "commit")
  /\ UNCHANGED <<fs, rows, req, ops, locals, txVars, touched, met>>

(* activateFeedVersion, deactivateFeedVersion: the pointers are read first.  *)
Activate(p) ==
  /\ pc[p] = "activate"
  /\ target' = [target EXCEPT ![p] = op[p].version]
  /\ Goto(p, "read")
  /\ UNCHANGED <<fs, rows, req, ops, op, old, goal, saved, txVars, touched, met>>

Deactivate(p) ==
  /\ pc[p] = "deactivate"
  /\ target' = [target EXCEPT ![p] = NoVersion]
  /\ LET v == op[p].version IN
     IF getFeedStatePointers(p, FeedOf[v]).active = v THEN Goto(p, "read") ELSE EndOp(p)
  /\ UNCHANGED <<fs, rows, req, ops, op, old, goal, saved, txVars, touched, met>>

\* Mutant: the flag is not written first, so the read does not hold the row.
SetExcludeFromGlobalReadsFirst(p) ==
  /\ pc[p] = "exclude"
  /\ target' = [target EXCEPT ![p] = fs[op[p].feed].active]
  /\ Goto(p, "read")
  /\ UNCHANGED <<fs, rows, req, ops, op, old, goal, saved, txVars, touched, met>>

(* UPDATE exclude_from_global takes the row; the SELECT after it cannot see   *)
(* another writer any more, so the two statements are one step.              *)
SetExcludeFromGlobal(p) ==
  /\ pc[p] = "exclude"
  /\ LET f == op[p].feed  cur == getFeedStatePointers(p, f) IN
     /\ UpdateState(p, f, [cur EXCEPT !.excl = op[p].value])
     /\ target' = [target EXCEPT ![p] = cur.active]
  /\ Goto(p, "read")
  /\ UNCHANGED <<fs, rows, req, ops, op, old, goal, saved, ins, del, touched, met>>

(* SetFeedStatePublic: read the whole row, and write the whole row back when   *)
(* the flag differs.                                                          *)
SetFeedStatePublic(p) ==
  /\ pc[p] = "public"
  /\ LET cur == getFeedStatePointers(p, op[p].feed) IN
     IF cur.public = op[p].value
     THEN EndOp(p) /\ UNCHANGED saved
     ELSE Goto(p, "save") /\ saved' = [saved EXCEPT ![p] = cur]
  /\ UNCHANGED <<fs, rows, req, ops, op, target, old, goal, txVars, touched, met>>

SaveFeedState(p) ==
  /\ pc[p] = "save"
  /\ UpdateState(p, op[p].feed, [saved[p] EXCEPT !.public = op[p].value])
  /\ EndOp(p)
  /\ UNCHANGED <<fs, rows, req, ops, locals, ins, del, touched, met>>

Dematerialize(p) ==
  /\ pc[p] = "dematerialize"
  /\ DematerializeFeedVersion(p, op[p].version)
  /\ EndOp(p)
  /\ UNCHANGED <<fs, rows, req, ops, locals, touched, met>>

Materialize(p) ==
  /\ pc[p] = "materialize"
  /\ goal' = [goal EXCEPT ![p] = op[p].version]
  /\ Goto(p, "clear")
  /\ UNCHANGED <<fs, rows, req, ops, op, target, old, saved, txVars, touched, met>>

-----------------------------------------------------------------------------
(* reconcileFeed *)
ReconcileRead(p) ==
  /\ pc[p] = "read"
  /\ LET cur == getFeedStatePointers(p, FeedOfOp(op[p]))
         m   == IF cur.excl THEN NoVersion ELSE target[p] IN
     /\ old' = [old EXCEPT ![p] = cur.mat]
     /\ goal' = [goal EXCEPT ![p] = m]
     /\ Goto(p, IF cur.mat = m THEN "write"
                ELSE IF cur.mat # NoVersion THEN "demat" ELSE "clear")
  /\ UNCHANGED <<fs, rows, req, ops, op, target, saved, txVars, touched, met>>

\* Mutant: the rows of the version that was visible are kept.
ReconcileDematerializeSkips(p) ==
  /\ pc[p] = "demat"
  /\ Goto(p, IF goal[p] = NoVersion THEN "write" ELSE "clear")
  /\ UNCHANGED <<fs, rows, req, ops, locals, txVars, touched, met>>

ReconcileDematerialize(p) ==
  /\ pc[p] = "demat"
  /\ DematerializeFeedVersion(p, old[p])
  /\ Goto(p, IF goal[p] = NoVersion THEN "write" ELSE "clear")
  /\ UNCHANGED <<fs, rows, req, ops, locals, touched, met>>

(* MaterializeFeedVersion: clear the version's rows, insert them afresh.      *)
MaterializeClear(p) ==
  /\ pc[p] = "clear"
  /\ DematerializeFeedVersion(p, goal[p])
  /\ Goto(p, "insert")
  /\ UNCHANGED <<fs, rows, req, ops, locals, touched, met>>

MaterializeInsert(p) ==
  /\ pc[p] = "insert"
  /\ InsertRows(p, goal[p])
  /\ IF op[p].kind = "materialize" THEN EndOp(p) ELSE Goto(p, "write")
  /\ UNCHANGED <<fs, rows, req, ops, locals, touched, met>>

ReconcileWrite(p) ==
  /\ pc[p] = "write"
  /\ LET f == FeedOfOp(op[p]) IN
     UpdateState(p, f, [getFeedStatePointers(p, f) EXCEPT !.active = target[p], !.mat = goal[p]])
  /\ EndOp(p)
  /\ UNCHANGED <<fs, rows, req, ops, locals, ins, del, touched, met>>

-----------------------------------------------------------------------------
(* The end of Tx: commit, or roll back after an error. Any statement may fail *)
(* (a duplicate row, a deadlock, a lost connection, a crash of the caller),  *)
(* and the caller then gives up the rest of its request.                     *)
EndTx(p) ==
  /\ wrote' = [wrote EXCEPT ![p] = NoWrite]
  /\ ins' = [ins EXCEPT ![p] = {}] /\ del' = [del EXCEPT ![p] = {}]
  /\ touched' = [touched EXCEPT ![p] = {}]
  /\ UNCHANGED <<req, locals, met>>

Commit(p) ==
  /\ pc[p] = "commit"
  /\ fs' = [f \in Feed |-> getFeedStatePointers(p, f)]
  /\ rows' = (rows \ del[p]) \cup ins[p]
  /\ EndTx(p)
  /\ Goto(p, IF ops[p] = {} THEN "done" ELSE "begin")
  /\ UNCHANGED ops

Rollback(p) ==
  /\ pc[p] \notin {"idle", "begin", "done", "failed"}
  /\ EndTx(p)
  /\ ops' = [ops EXCEPT ![p] = {}]
  /\ Goto(p, "failed")
  /\ UNCHANGED <<fs, rows>>

Next ==
  \E p \in Proc :
    \/ \E r \in Request : Start(p, r) \/ StartCommand(p, r)
    \/ PlanSet(p) \/ PlanSyncPointers(p) \/ PlanSyncTables(p)
    \/ TakeOp(p) \/ AllDone(p)
    \/ Activate(p) \/ Deactivate(p) \/ SetExcludeFromGlobal(p)
    \/ SetFeedStatePublic(p) \/ SaveFeedState(p)
    \/ Dematerialize(p) \/ Materialize(p)
    \/ ReconcileRead(p) \/ ReconcileDematerialize(p)
    \/ MaterializeClear(p) \/ MaterializeInsert(p) \/ ReconcileWrite(p)
    \/ Commit(p) \/ Rollback(p)

Spec == Init /\ [][Next]_vars
-----------------------------------------------------------------------------
(* Properties *)
Mixed(f) == \E p, q \in Proc : <<p, q, f>> \in met
Alone(p) == \A q \in Proc, f \in Feed : <<p, q, f>> \notin met /\ <<q, p, f>> \notin met
Commits(p) == pc[p] = "commit" /\ pc'[p] \in {"begin", "done"}

\* No request is one of the operations that force rows in or out of the tables:
\* --force-materialize and --force-dematerialize bypass reconcileFeed by their purpose.
Unforced == \A r \in Request : r.kind \notin {"materialize", "dematerialize"}

\* Whatever requests run, one after the other or side by side on other feeds,
\* and wherever they fail: between transactions the materialized pointer follows
\* the active version and the flag, and the tables hold exactly the rows of the
\* materialized version. Feeds that two transactions used at once are left out:
\* reconcileFeed reads their pointers without a lock, and the rows of a version
\* that no pointer names may stay.
FeedsReconciled == \A f \in Feed : Mixed(f) \/ Reconciled(f)

\* Hiding or showing a feed never changes which version is active, whoever
\* activates a version of the same feed at the same time.
VisibilityKeepsActive ==
  [][\A p \in Proc : Commits(p) /\ op[p].kind = "exclude"
       => \A f \in Feed : fs'[f].active = fs[f].active]_vars

\* --sync-active, when it commits without another transaction beside it, leaves
\* exactly the rows the pointers ask for, whatever earlier races left behind.
SyncRepairsTables ==
  [][\A p \in Proc : Commits(p) /\ req[p].kind = "sync" /\ Alone(p)
       => rows' = {fs[f].mat : f \in Feed} \ {NoVersion}]_vars

=============================================================================
