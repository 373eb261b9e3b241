--------------------------- MODULE FeedStateProofs ---------------------------
(***************************************************************************)
(* Proofs about the feed state manager, for any number of callers, feeds   *)
(* and versions and any requests: that hiding a feed leaves its active     *)
(* version alone, that committed pointers and tables agree, and that a     *)
(* sync repairs the tables.                                                *)
(***************************************************************************)
EXTENDS FeedState, TLAPS

AtWork == OpKind \cup {"read", "demat", "clear", "insert", "write", "save"}
Moving == {"activate", "deactivate", "exclude"}
Forced == {"materialize", "dematerialize"}

\* The caller has a transaction open.
Open(p) == pc[p] \notin {"idle", "begin", "done", "failed"}

\* What the pointers of a feed may point at.
Of(f) == {v \in Version : FeedOf[v] = f} \cup {NoVersion}
FeedRow(f) == {r \in Row : r.active \in Of(f) /\ r.mat \in Of(f)}

\* The operations a request is made of.
Belongs(o, r) ==
  \/ o = r /\ r \in Op
  \/ r.kind = "set" /\ o.kind \in {"activate", "deactivate"}
  \/ r.kind = "sync" /\ o.kind \in Forced

\* A caller at a step has the request and the operation the step belongs to.
ShapeOf(p) ==
  /\ pc[p] # "idle" => req[p] \in Request
  /\ pc[p] \in {"plan", "tables", "next"} => InOneTx(req[p])
  /\ pc[p] = "begin" => ~InOneTx(req[p])
  /\ pc[p] = "commit" /\ InOneTx(req[p]) => ops[p] = {}
  /\ pc[p] = "tables" => req[p].kind = "sync"
  /\ \A o \in ops[p] : pc[p] # "idle" /\ Belongs(o, req[p])
  /\ op[p] # NoRequest => pc[p] # "idle" /\ Belongs(op[p], req[p])
  /\ pc[p] \in AtWork => op[p] \in Op
  /\ pc[p] \in OpKind => op[p].kind = pc[p]
  /\ pc[p] = "save" => op[p].kind = "public"
  /\ pc[p] \in {"read", "demat", "write"} => op[p].kind \in Moving
  /\ pc[p] \in {"clear", "insert"} => op[p].kind \in Moving \cup {"materialize"}
Shape == \A p \in Proc : ShapeOf(p)

\* A transaction touches the feeds it has used and no others, and it has written
\* nothing before its first operation. Feeds that two open ones touch are in met.
ScopeOf(p) ==
  /\ ~Open(p) => touched[p] = {}
  /\ \A f \in Feed : wrote[p][f] # NoRow => f \in touched[p]
  /\ \A v \in ins[p] \cup del[p] : FeedOf[v] \in touched[p]
  /\ pc[p] \in AtWork => FeedOfOp(op[p]) \in touched[p]
  /\ Open(p) => touched[p] = IF InOneTx(req[p]) THEN Feed ELSE {FeedOfOp(op[p])}
  /\ pc[p] \in {"plan", "tables"} => wrote[p] = NoWrite /\ ins[p] = {} /\ del[p] = {}
  /\ pc[p] \in OpKind /\ ~InOneTx(req[p]) => wrote[p] = NoWrite
Scope ==
  /\ \A p \in Proc : ScopeOf(p)
  /\ \A p, q \in Proc : \A f \in touched[p] \cap touched[q] :
       p # q => <<p, q, f>> \in met \/ <<q, p, f>> \in met

\* Every pointer, stored or held by a caller, is null or to a version of its feed.
InFeedOf(p) ==
  /\ \A f \in Feed : wrote[p][f] \in FeedRow(f) \cup {NoRow}
  /\ pc[p] = "save" => saved[p] \in FeedRow(op[p].feed)
  /\ pc[p] \in {"read", "demat", "clear", "insert", "write"} /\ op[p].kind \in Moving
       => target[p] \in Of(FeedOfOp(op[p]))
  /\ pc[p] = "demat" => old[p] \in Of(FeedOfOp(op[p])) \ {NoVersion}
  /\ pc[p] \in {"demat", "write"} => goal[p] \in Of(FeedOfOp(op[p]))
  /\ pc[p] \in {"clear", "insert"} => goal[p] \in Of(FeedOfOp(op[p])) \ {NoVersion}
InFeed == (\A f \in Feed : fs[f] \in FeedRow(f)) /\ (\A p \in Proc : InFeedOf(p))

TxInv == TypeOK /\ Shape /\ Scope /\ InFeed

\* Next is a step of some caller.
Acts(p) ==
  \/ \E r \in Request : Start(p, r) \/ StartCommand(p, r)
  \/ PlanSet(p) \/ PlanSyncPointers(p) \/ PlanSyncTables(p)
  \/ TakeOp(p) \/ AllDone(p)
  \/ Activate(p) \/ Deactivate(p) \/ SetExcludeFromGlobal(p)
  \/ SetFeedStatePublic(p) \/ SaveFeedState(p)
  \/ Dematerialize(p) \/ Materialize(p)
  \/ ReconcileRead(p) \/ ReconcileDematerialize(p)
  \/ MaterializeClear(p) \/ MaterializeInsert(p) \/ ReconcileWrite(p)
  \/ Commit(p) \/ Rollback(p)

-----------------------------------------------------------------------------
(* Requests and operations *)

LEMMA OpShape ==
  ASSUME NEW o \in Op
  PROVE  /\ o.kind \in OpKind /\ FeedOfOp(o) \in Feed
         /\ o.kind \in {"exclude", "public"} => o.feed \in Feed /\ o.value \in BOOLEAN
                                               /\ FeedOfOp(o) = o.feed
         /\ o.kind \notin {"exclude", "public"} =>
              o.version \in Version /\ FeedOfOp(o) = FeedOf[o.version]
BY FeedStateAssumption DEF Op, OpKind, FeedOfOp

LEMMA RequestShape ==
  ASSUME NEW r \in Request
  PROVE  /\ r \in Op \/ r.kind \in {"set", "sync"}
         /\ r \in Op => r.kind \notin {"set", "sync"} /\ ~InOneTx(r)
         /\ r.kind = "set" => r.versions \subseteq Version
BY FeedStateAssumption DEF Op, Command, InOneTx

LEMMA SeenRow ==
  ASSUME TypeOK, NEW p \in Proc, NEW f \in Feed
  PROVE  getFeedStatePointers(p, f) \in Row
BY DEF TypeOK, getFeedStatePointers

LEMMA PlannedOps ==
  ASSUME TypeOK, NEW p \in Proc, NEW versions \in SUBSET Version
  PROVE  /\ CalculateSetActiveChanges(p, versions) \subseteq Op
         /\ \A o \in CalculateSetActiveChanges(p, versions) : o.kind \in {"activate", "deactivate"}
<1>1. GetActiveFeedVersions(p) \subseteq Version
  BY SeenRow DEF GetActiveFeedVersions, Row, Pointer
<1>2. QED
  BY <1>1 DEF CalculateSetActiveChanges, Ops, Op

LEMMA ForcedOps ==
  ASSUME NEW kind \in Forced, NEW versions \in SUBSET Version
  PROVE  /\ Ops(kind, versions) \subseteq Op
         /\ \A o \in Ops(kind, versions) : o.kind = kind /\ o.version \in versions
         /\ \A v \in versions : \E o \in Ops(kind, versions) : o.version = v
<1>1. \A v \in versions : [kind |-> kind, version |-> v] \in Ops(kind, versions)
  BY DEF Ops
<1>2. ASSUME NEW o \in Ops(kind, versions)
      PROVE  o \in Op /\ o.kind = kind /\ o.version \in versions
  <2>1. PICK v \in versions : o = [kind |-> kind, version |-> v]
    BY DEF Ops
  <2>2. o \in [kind : {"activate", "deactivate", "materialize", "dematerialize"},
               version : Version]
    BY <2>1 DEF Forced
  <2>3. QED
    BY <2>1, <2>2 DEF Op
<1>3. ASSUME NEW v \in versions
      PROVE  \E o \in Ops(kind, versions) : o.version = v
  <2>1. [kind |-> kind, version |-> v].version = v
    OBVIOUS
  <2>2. QED
    BY <1>1, <2>1
<1>4. QED
  BY <1>2, <1>3

LEMMA PointersAreVersions ==
  ASSUME TypeOK, NEW p \in Proc
  PROVE  GetMaterializedFeedVersionPointers(p) \subseteq Version
BY SeenRow DEF GetMaterializedFeedVersionPointers, Row, Pointer

-----------------------------------------------------------------------------
(* Types *)

LEMMA InitTypes == Init => TypeOK
<1> SUFFICES ASSUME Init PROVE TypeOK
  OBVIOUS
<1>1. rows \subseteq Version
  BY DEF Init, Row, Pointer
<1>2. QED
  BY <1>1 DEF Init, TypeOK, Pc, NoWrite, Pointer

\* What a caller does to the tables inside its transaction is well typed.
LEMMA TypesOfWrites ==
  ASSUME TypeOK, NEW p \in Proc
  PROVE  /\ \A f \in Feed, row \in Row : UpdateState(p, f, row) =>
              wrote' \in [Proc -> [Feed -> Row \cup {NoRow}]]
         /\ \A v : DematerializeFeedVersion(p, v) =>
              /\ wrote' = wrote
              /\ ins' \in [Proc -> SUBSET Version] /\ del' \in [Proc -> SUBSET Version]
         /\ \A v \in Version : InsertRows(p, v) =>
              /\ wrote' = wrote
              /\ ins' \in [Proc -> SUBSET Version] /\ del' \in [Proc -> SUBSET Version]
         /\ \A F \in SUBSET Feed : Use(p, F) =>
              touched' \in [Proc -> SUBSET Feed] /\ met' \subseteq Proc \X Proc \X Feed
         /\ EndOp(p) => pc' \in [Proc -> Pc]
<1> USE DEF TypeOK
<1>1. ASSUME NEW f \in Feed, NEW row \in Row, UpdateState(p, f, row)
      PROVE  wrote' \in [Proc -> [Feed -> Row \cup {NoRow}]]
  BY <1>1 DEF UpdateState
<1>2. ASSUME NEW v, DematerializeFeedVersion(p, v)
      PROVE  /\ wrote' = wrote
             /\ ins' \in [Proc -> SUBSET Version] /\ del' \in [Proc -> SUBSET Version]
  BY <1>2 DEF DematerializeFeedVersion
<1>3. ASSUME NEW v \in Version, InsertRows(p, v)
      PROVE  /\ wrote' = wrote
             /\ ins' \in [Proc -> SUBSET Version] /\ del' \in [Proc -> SUBSET Version]
  BY <1>3 DEF InsertRows
<1>4. ASSUME NEW F \in SUBSET Feed, Use(p, F)
      PROVE  touched' \in [Proc -> SUBSET Feed] /\ met' \subseteq Proc \X Proc \X Feed
  <2>1. touched' \in [Proc -> SUBSET Feed]
    BY <1>4 DEF Use
  <2>2. met' \subseteq Proc \X Proc \X Feed
    BY <1>4 DEF Use
  <2>3. QED
    BY <2>1, <2>2
<1>5. EndOp(p) => pc' \in [Proc -> Pc]
  BY DEF EndOp, Goto, Pc
<1>6. QED
  BY <1>1, <1>2, <1>3, <1>4, <1>5

\* Every variable keeps its type.
LEMMA TypesKept ==
  ASSUME TypeOK, Shape, InFeed, NEW p \in Proc, Acts(p)
  PROVE  TypeOK'
<1> USE DEF Goto, locals, txVars
<1>1. ASSUME NEW r \in Request, Start(p, r) \/ StartCommand(p, r)
      PROVE  TypeOK'
  <2>1. CASE Start(p, r)
    <3>1. ops' \in [Proc -> SUBSET Op]
      <4>1. CASE r \in Op /\ ops' = [ops EXCEPT ![p] = {r}]
        BY <4>1 DEF TypeOK
      <4>2. CASE /\ r.kind = "set"
                 /\ ops' = [ops EXCEPT ![p] = CalculateSetActiveChanges(p, r.versions)]
        BY <4>2, RequestShape, PlannedOps DEF TypeOK
      <4>3. QED
        BY <2>1, <4>1, <4>2 DEF Start
    <3>2. QED
      BY <2>1, <3>1 DEF Start, TypeOK, Pc
  <2>2. CASE StartCommand(p, r)
    <3>1. touched' \in [Proc -> SUBSET Feed] /\ met' \subseteq Proc \X Proc \X Feed
      BY <2>2, TypesOfWrites DEF StartCommand
    <3>2. QED
      BY <2>2, <3>1 DEF StartCommand, TypeOK, Pc
  <2>3. QED
    BY <1>1, <2>1, <2>2
<1>2. CASE PlanSet(p)
  <2>1. CalculateSetActiveChanges(p, req[p].versions) \in SUBSET Op
    <3>1. req[p] \in Request /\ req[p].kind = "set"
      BY <1>2 DEF PlanSet, Shape, ShapeOf
    <3>2. QED
      BY <3>1, RequestShape, PlannedOps
  <2>2. QED
    BY <1>2, <2>1 DEF PlanSet, TypeOK, Pc
<1>3. CASE PlanSyncPointers(p)
  <2>1. Ops("materialize", GetMaterializedFeedVersionPointers(p)) \in SUBSET Op
    BY ForcedOps, PointersAreVersions DEF Forced
  <2>2. QED
    BY <1>3, <2>1 DEF PlanSyncPointers, TypeOK, Pc
<1>4. CASE PlanSyncTables(p)
  <2> DEFINE targets == {o.version : o \in ops[p]}
  <2>1. ops[p] \subseteq Op /\ \A o \in ops[p] : o.kind \in Forced
    BY <1>4, RequestShape DEF PlanSyncTables, Shape, ShapeOf, TypeOK, Belongs
  <2>2. targets \subseteq Version
    BY <2>1, OpShape DEF Forced
  <2>3. Ops("dematerialize", rows \ targets) \subseteq Op
    BY ForcedOps DEF TypeOK, Forced
  <2>4. Ops("materialize", targets \ rows) \subseteq Op
    BY <2>2, ForcedOps DEF Forced
  <2>5. QED
    BY <1>4, <2>3, <2>4 DEF PlanSyncTables, TypeOK, Pc
<1>5. CASE TakeOp(p)
  <2>1. PICK o \in First(ops[p]) :
          /\ op' = [op EXCEPT ![p] = o] /\ ops' = [ops EXCEPT ![p] = @ \ {o}]
          /\ Use(p, {FeedOfOp(o)}) /\ pc' = [pc EXCEPT ![p] = o.kind]
          /\ UNCHANGED <<fs, rows, req, target, old, goal, saved, txVars>>
    BY <1>5 DEF TakeOp
  <2>2. o \in Op
    BY DEF First, TypeOK
  <2>3. {FeedOfOp(o)} \in SUBSET Feed /\ o.kind \in Pc
    BY <2>2, OpShape DEF Pc
  <2>4. touched' \in [Proc -> SUBSET Feed] /\ met' \subseteq Proc \X Proc \X Feed
    BY <2>1, <2>3, TypesOfWrites
  <2>5. QED
    BY <2>1, <2>2, <2>3, <2>4 DEF TypeOK
<1>6. CASE AllDone(p)
  BY <1>6 DEF AllDone, TypeOK, Pc
<1>7. CASE Activate(p)
  <2>1. op[p].version \in Version
    BY <1>7, OpShape DEF Activate, Shape, ShapeOf, AtWork, OpKind
  <2>2. QED
    BY <1>7, <2>1 DEF Activate, TypeOK, Pc, Pointer
<1>8. CASE Deactivate(p)
  <2>1. pc' \in [Proc -> Pc]
    BY <1>8, SMTT(30) DEF Deactivate, EndOp, TypeOK, Pc
  <2>2. QED
    BY <1>8, <2>1 DEF Deactivate, TypeOK, Pointer
<1>9. CASE SetExcludeFromGlobal(p)
  <2> DEFINE f == op[p].feed
  <2> DEFINE cur == getFeedStatePointers(p, f)
  <2>1. f \in Feed /\ op[p].value \in BOOLEAN
    BY <1>9, OpShape DEF SetExcludeFromGlobal, Shape, ShapeOf, AtWork, OpKind
  <2>2. cur \in Row
    BY <2>1, SeenRow
  <2>3. [cur EXCEPT !.excl = op[p].value] \in Row /\ cur.active \in Pointer
    BY <2>1, <2>2 DEF Row
  <2>4. wrote' \in [Proc -> [Feed -> Row \cup {NoRow}]]
    BY <1>9, <2>1, <2>3, TypesOfWrites DEF SetExcludeFromGlobal
  <2>5. QED
    BY <1>9, <2>3, <2>4 DEF SetExcludeFromGlobal, TypeOK, Pc
<1>10. CASE SetFeedStatePublic(p)
  <2>1. op[p].feed \in Feed
    BY <1>10, OpShape DEF SetFeedStatePublic, Shape, ShapeOf, AtWork, OpKind
  <2>2. getFeedStatePointers(p, op[p].feed) \in Row
    BY <2>1, SeenRow
  <2>3. pc' \in [Proc -> Pc]
    BY <1>10, TypesOfWrites DEF SetFeedStatePublic, TypeOK, Pc
  <2>4. saved' \in [Proc -> Row \cup {NoRow}]
    BY <1>10, <2>2 DEF SetFeedStatePublic, TypeOK
  <2>5. QED
    BY <1>10, <2>3, <2>4 DEF SetFeedStatePublic, TypeOK
<1>11. CASE SaveFeedState(p)
  <2>1. op[p] \in Op /\ op[p].kind = "public"
    BY <1>11 DEF SaveFeedState, Shape, ShapeOf, AtWork
  <2>2. op[p].feed \in Feed /\ op[p].value \in BOOLEAN
    BY <2>1, OpShape
  <2>3. saved[p] \in Row
    BY <1>11 DEF SaveFeedState, InFeed, InFeedOf, FeedRow
  <2>4. [saved[p] EXCEPT !.public = op[p].value] \in Row
    BY <2>2, <2>3 DEF Row
  <2>5. wrote' \in [Proc -> [Feed -> Row \cup {NoRow}]] /\ pc' \in [Proc -> Pc]
    BY <1>11, <2>2, <2>4, TypesOfWrites DEF SaveFeedState
  <2>6. QED
    BY <1>11, <2>5 DEF SaveFeedState, TypeOK
<1>12. CASE Dematerialize(p)
  <2>1. /\ wrote' = wrote /\ pc' \in [Proc -> Pc]
        /\ ins' \in [Proc -> SUBSET Version] /\ del' \in [Proc -> SUBSET Version]
    BY <1>12, TypesOfWrites DEF Dematerialize
  <2>2. QED
    BY <1>12, <2>1 DEF Dematerialize, TypeOK
<1>13. CASE Materialize(p)
  <2>1. op[p].version \in Version
    BY <1>13, OpShape DEF Materialize, Shape, ShapeOf, AtWork, OpKind
  <2>2. QED
    BY <1>13, <2>1 DEF Materialize, TypeOK, Pc, Pointer
<1>14. CASE ReconcileRead(p)
  <2>1. FeedOfOp(op[p]) \in Feed
    BY <1>14, OpShape DEF ReconcileRead, Shape, ShapeOf, AtWork
  <2>2. getFeedStatePointers(p, FeedOfOp(op[p])).mat \in Pointer /\ NoVersion \in Pointer
    BY <2>1, SeenRow DEF Row, Pointer
  <2>3. QED
    BY <1>14, <2>2 DEF ReconcileRead, TypeOK, Pc
<1>15. CASE ReconcileDematerialize(p) \/ MaterializeClear(p)
  <2>1. /\ wrote' = wrote
        /\ ins' \in [Proc -> SUBSET Version] /\ del' \in [Proc -> SUBSET Version]
    BY <1>15, TypesOfWrites DEF ReconcileDematerialize, MaterializeClear
  <2>2. QED
    BY <1>15, <2>1 DEF ReconcileDematerialize, MaterializeClear, TypeOK, Pc
<1>16. CASE MaterializeInsert(p)
  <2>1. goal[p] \in Version
    BY <1>16 DEF MaterializeInsert, InFeed, InFeedOf, Of
  <2>2. /\ wrote' = wrote
        /\ ins' \in [Proc -> SUBSET Version] /\ del' \in [Proc -> SUBSET Version]
    BY <1>16, <2>1, TypesOfWrites DEF MaterializeInsert
  <2>3. pc' \in [Proc -> Pc]
    BY <1>16, TypesOfWrites, SMTT(30) DEF MaterializeInsert, TypeOK, Pc
  <2>4. QED
    BY <1>16, <2>2, <2>3 DEF MaterializeInsert, TypeOK
<1>17. CASE ReconcileWrite(p)
  <2> DEFINE f == FeedOfOp(op[p])
  <2> DEFINE row == [getFeedStatePointers(p, f) EXCEPT !.active = target[p], !.mat = goal[p]]
  <2>1. f \in Feed
    BY <1>17, OpShape DEF ReconcileWrite, Shape, ShapeOf, AtWork
  <2>2. row \in Row
    <3>1. getFeedStatePointers(p, f) \in Row /\ target[p] \in Pointer /\ goal[p] \in Pointer
      BY <2>1, SeenRow DEF TypeOK
    <3>2. QED
      BY <3>1 DEF Row
  <2>3. wrote' \in [Proc -> [Feed -> Row \cup {NoRow}]] /\ pc' \in [Proc -> Pc]
    BY <1>17, <2>1, <2>2, TypesOfWrites DEF ReconcileWrite
  <2>4. QED
    BY <1>17, <2>3 DEF ReconcileWrite, TypeOK
<1>18. ASSUME EndTx(p)
       PROVE  /\ UNCHANGED <<req, op, target, old, goal, saved, met>>
              /\ wrote' \in [Proc -> [Feed -> Row \cup {NoRow}]]
              /\ ins' \in [Proc -> SUBSET Version] /\ del' \in [Proc -> SUBSET Version]
              /\ touched' \in [Proc -> SUBSET Feed]
  BY <1>18 DEF EndTx, TypeOK, NoWrite
<1>19. CASE Commit(p)
  <2>1. fs' \in [Feed -> Row]
    BY <1>19, SeenRow DEF Commit
  <2>2. rows' \subseteq Version
    BY <1>19 DEF Commit, TypeOK
  <2>3. QED
    BY <1>18, <1>19, <2>1, <2>2 DEF Commit, TypeOK, Pc
<1>20. CASE Rollback(p)
  BY <1>18, <1>20 DEF Rollback, TypeOK, Pc
<1>21. QED
  BY <1>1, <1>2, <1>3, <1>4, <1>5, <1>6, <1>7, <1>8, <1>9, <1>10, <1>11, <1>12, <1>13, <1>14,
     <1>15, <1>16, <1>17, <1>19, <1>20 DEF Acts

-----------------------------------------------------------------------------
(* Requests, scope and pointers *)

\* A step of one caller leaves alone what the others hold, and only a commit changes
\* what is committed.
LEMMA OthersUntouched ==
  ASSUME TypeOK, NEW p \in Proc, Acts(p)
  PROVE  /\ \A q \in Proc : q # p =>
              /\ pc'[q] = pc[q] /\ req'[q] = req[q] /\ ops'[q] = ops[q] /\ op'[q] = op[q]
              /\ target'[q] = target[q] /\ old'[q] = old[q] /\ goal'[q] = goal[q]
              /\ saved'[q] = saved[q] /\ wrote'[q] = wrote[q]
              /\ ins'[q] = ins[q] /\ del'[q] = del[q] /\ touched'[q] = touched[q]
         /\ met \subseteq met'
         /\ Commit(p) \/ UNCHANGED <<fs, rows>>
<1> USE DEF TypeOK, Goto, EndOp, locals, txVars
<1>1. CASE \E r \in Request : Start(p, r)
  BY <1>1 DEF Start
<1>2. CASE \E r \in Request : StartCommand(p, r)
  BY <1>2 DEF StartCommand, Use
<1>3. CASE PlanSet(p) \/ PlanSyncPointers(p) \/ PlanSyncTables(p)
  BY <1>3 DEF PlanSet, PlanSyncPointers, PlanSyncTables
<1>4. CASE TakeOp(p)
  BY <1>4 DEF TakeOp, Use
<1>5. CASE AllDone(p) \/ Activate(p) \/ Deactivate(p)
  BY <1>5 DEF AllDone, Activate, Deactivate
<1>6. CASE SetExcludeFromGlobal(p)
  BY <1>6 DEF SetExcludeFromGlobal, UpdateState
<1>7. CASE SetFeedStatePublic(p)
  BY <1>7 DEF SetFeedStatePublic
<1>8. CASE SaveFeedState(p)
  BY <1>8 DEF SaveFeedState, UpdateState
<1>9. CASE Dematerialize(p)
  BY <1>9 DEF Dematerialize, DematerializeFeedVersion
<1>10. CASE Materialize(p) \/ ReconcileRead(p)
  BY <1>10 DEF Materialize, ReconcileRead
<1>11. CASE ReconcileDematerialize(p) \/ MaterializeClear(p)
  BY <1>11 DEF ReconcileDematerialize, MaterializeClear, DematerializeFeedVersion
<1>12. CASE MaterializeInsert(p)
  BY <1>12 DEF MaterializeInsert, InsertRows
<1>13. CASE ReconcileWrite(p)
  BY <1>13 DEF ReconcileWrite, UpdateState
<1>14. CASE Commit(p)
  BY <1>14 DEF Commit, EndTx
<1>15. CASE Rollback(p)
  BY <1>15 DEF Rollback, EndTx
<1>16. QED
  BY <1>1, <1>2, <1>3, <1>4, <1>5, <1>6, <1>7, <1>8, <1>9, <1>10, <1>11, <1>12, <1>13, <1>14,
     <1>15 DEF Acts

\* A caller takes the operations of its request one at a time, and each step of an
\* operation comes from one of the same operation.
LEMMA ShapeKept ==
  ASSUME TypeOK, Shape, NEW p \in Proc, Acts(p)
  PROVE  Shape'
<1>1. ASSUME NEW q \in Proc, q # p PROVE ShapeOf(q)'
  BY <1>1, OthersUntouched DEF Shape, ShapeOf
<1>2. ShapeOf(p)'
  <2> USE DEF Goto, locals, txVars, AtWork, OpKind, Moving
  <2>0. /\ ShapeOf(p) /\ pc \in [Proc -> Pc] /\ req \in [Proc -> Request \cup {NoRequest}]
        /\ ops \in [Proc -> SUBSET Op] /\ op \in [Proc -> Op \cup {NoRequest}]
    BY DEF Shape, TypeOK
  <2>1. ASSUME NEW r \in Request, Start(p, r) \/ StartCommand(p, r)
        PROVE  ShapeOf(p)'
    <3>1. /\ pc[p] = "idle" /\ req' = [req EXCEPT ![p] = r] /\ op' = op /\ op[p] = NoRequest
          /\ ops[p] = {}
      BY <2>0, <2>1 DEF Start, StartCommand, ShapeOf
    <3>2. CASE Start(p, r)
      <4>1. pc'[p] \in {"begin", "done"}
        BY <2>0, <3>2 DEF Start
      <4>2. \A o \in ops'[p] : Belongs(o, r)
        <5>1. CASE r \in Op /\ ops' = [ops EXCEPT ![p] = {r}]
          BY <2>0, <5>1 DEF Belongs
        <5>2. CASE /\ r.kind = "set"
                   /\ ops' = [ops EXCEPT ![p] = CalculateSetActiveChanges(p, r.versions)]
          BY <2>0, <5>2, RequestShape, PlannedOps DEF Belongs
        <5>3. QED
          BY <3>2, <5>1, <5>2 DEF Start
      <4>3. ~InOneTx(r)
        BY <3>2, RequestShape DEF Start
      <4>4. QED
        BY <2>0, <3>1, <4>1, <4>2, <4>3 DEF ShapeOf
    <3>3. CASE StartCommand(p, r)
      BY <2>0, <3>1, <3>3 DEF StartCommand, ShapeOf
    <3>4. QED
      BY <2>1, <3>2, <3>3
  <2>2. CASE PlanSet(p)
    <3>1. req[p] \in Request /\ req[p].kind = "set"
      BY <2>0, <2>2 DEF PlanSet, ShapeOf
    <3>2. \A o \in CalculateSetActiveChanges(p, req[p].versions) : Belongs(o, req[p])
      BY <3>1, RequestShape, PlannedOps DEF Belongs
    <3>3. QED
      BY <2>0, <2>2, <3>1, <3>2 DEF PlanSet, ShapeOf
  <2>3. CASE PlanSyncPointers(p)
    <3>1. \A o \in Ops("materialize", GetMaterializedFeedVersionPointers(p)) :
            o.kind \in Forced
      BY DEF Ops, Forced
    <3>2. QED
      BY <2>0, <2>3, <3>1 DEF PlanSyncPointers, ShapeOf, Belongs
  <2>4. CASE PlanSyncTables(p)
    <3>1. \A o \in ops'[p] : o.kind \in Forced
      BY <2>0, <2>4 DEF PlanSyncTables, Ops, Forced
    <3>2. QED
      BY <2>0, <2>4, <3>1 DEF PlanSyncTables, ShapeOf, Belongs
  <2>5. CASE TakeOp(p)
    <3>1. PICK o \in ops[p] :
            /\ op' = [op EXCEPT ![p] = o] /\ ops' = [ops EXCEPT ![p] = @ \ {o}]
            /\ pc' = [pc EXCEPT ![p] = o.kind] /\ req' = req
      BY <2>5 DEF TakeOp, First
    <3>2. o \in Op /\ o.kind \in OpKind
      BY <2>0, OpShape
    <3>3. QED
      BY <2>0, <2>5, <3>1, <3>2 DEF TakeOp, ShapeOf
  <2>6. CASE AllDone(p) \/ Activate(p) \/ Deactivate(p)
    BY <2>0, <2>6 DEF AllDone, Activate, Deactivate, EndOp, ShapeOf
  <2>7. CASE SetExcludeFromGlobal(p) \/ SetFeedStatePublic(p) \/ SaveFeedState(p)
    BY <2>0, <2>7 DEF SetExcludeFromGlobal, SetFeedStatePublic, SaveFeedState, EndOp, ShapeOf
  <2>8. CASE Dematerialize(p) \/ Materialize(p)
    BY <2>0, <2>8 DEF Dematerialize, Materialize, EndOp, ShapeOf
  <2>9. CASE ReconcileRead(p) \/ ReconcileDematerialize(p) \/ MaterializeClear(p)
    BY <2>0, <2>9 DEF ReconcileRead, ReconcileDematerialize, MaterializeClear, ShapeOf
  <2>10. CASE MaterializeInsert(p) \/ ReconcileWrite(p)
    BY <2>0, <2>10 DEF MaterializeInsert, ReconcileWrite, EndOp, ShapeOf
  <2>11. CASE Commit(p) \/ Rollback(p)
    BY <2>0, <2>11 DEF Commit, Rollback, EndTx, ShapeOf
  <2>12. QED
    BY <2>1, <2>2, <2>3, <2>4, <2>5, <2>6, <2>7, <2>8, <2>9, <2>10, <2>11 DEF Acts
<1>3. QED
  BY <1>1, <1>2 DEF Shape

\* What a step does to what its transaction holds.
LEMMA TouchEffect ==
  ASSUME TypeOK, Shape, Scope, NEW p \in Proc, Acts(p)
  PROVE  \/ /\ Open(p) /\ Open(p)' /\ touched' = touched /\ req' = req
            /\ FeedOfOp(op[p])' = FeedOfOp(op[p])
            /\ met' = met
         \/ /\ ~Open(p) /\ ~Open(p)' /\ touched' = touched /\ met' = met
         \/ /\ Open(p)' /\ met \subseteq met' /\ UNCHANGED txVars
            /\ pc[p] \in {"idle", "begin", "next"} /\ touched[p] \subseteq touched'[p]
            /\ touched'[p] = IF InOneTx(req'[p]) THEN Feed ELSE {FeedOfOp(op'[p])}
            /\ FeedOfOp(op'[p]) \in touched'[p] \/ pc'[p] = "plan"
            /\ \A q \in Proc : \A f \in touched'[p] \cap touched[q] :
                 q # p => <<p, q, f>> \in met' \/ <<q, p, f>> \in met'
         \/ EndTx(p) /\ ~Open(p)' /\ touched' = [touched EXCEPT ![p] = {}] /\ met' = met
<1> USE DEF Goto, locals, txVars
<1>0. /\ ShapeOf(p) /\ pc \in [Proc -> Pc] /\ req \in [Proc -> Request \cup {NoRequest}]
      /\ ops \in [Proc -> SUBSET Op] /\ op \in [Proc -> Op \cup {NoRequest}]
      /\ touched \in [Proc -> SUBSET Feed] /\ ScopeOf(p)
  BY DEF Shape, TypeOK, Scope
<1>1. ASSUME NEW r \in Request, Start(p, r)
      PROVE  ~Open(p) /\ ~Open(p)' /\ touched' = touched /\ met' = met
  BY <1>0, <1>1 DEF Start, Open
<1>2. ASSUME NEW F \in SUBSET Feed, Use(p, F), touched[p] \subseteq F
      PROVE  /\ met \subseteq met' /\ touched'[p] = F
             /\ \A q \in Proc : \A f \in F \cap touched[q] : q # p => <<p, q, f>> \in met'
  <2>1. touched'[p] = F
    BY <1>0, <1>2 DEF Use
  <2>2. ASSUME NEW q \in Proc, NEW f \in F \cap touched[q], q # p
        PROVE  <<p, q, f>> \in met'
    <3>1. <<p, q, f>> \in Proc \X Proc \X F
      BY <2>2
    <3>2. QED
      BY <1>2, <2>2, <3>1 DEF Use
  <2>3. QED
    BY <1>2, <2>1, <2>2 DEF Use
<1>3. ASSUME NEW r \in Request, StartCommand(p, r)
      PROVE  /\ Open(p)' /\ met \subseteq met' /\ InOneTx(req'[p]) /\ pc'[p] = "plan"
             /\ touched'[p] = Feed /\ UNCHANGED txVars /\ pc[p] = "idle"
             /\ touched[p] \subseteq Feed
             /\ \A q \in Proc : \A f \in Feed \cap touched[q] : q # p => <<p, q, f>> \in met'
  <2>1. Use(p, Feed) /\ touched[p] \subseteq Feed
    BY <1>0, <1>3 DEF StartCommand
  <2>2. QED
    BY <1>0, <1>2, <1>3, <2>1 DEF StartCommand, Open
<1>4. CASE TakeOp(p)
  <2>1. PICK o \in ops[p] :
          /\ op' = [op EXCEPT ![p] = o] /\ Use(p, {FeedOfOp(o)}) /\ req' = req
          /\ pc' = [pc EXCEPT ![p] = o.kind] /\ UNCHANGED txVars
    BY <1>4 DEF TakeOp, First
  <2>2. o \in Op /\ FeedOfOp(o) \in Feed /\ o.kind \in OpKind
    BY <1>0, OpShape
  <2>3. Open(p)' /\ op'[p] = o /\ req'[p] = req[p]
    BY <1>0, <2>1, <2>2 DEF Open, OpKind
  <2>4. CASE pc[p] = "begin"
    <3>1. touched[p] = {} /\ ~InOneTx(req[p])
      BY <1>0, <2>4 DEF ShapeOf, ScopeOf, Open
    <3>2. QED
      BY <1>2, <2>1, <2>2, <2>3, <2>4, <3>1
  <2>5. CASE pc[p] = "next"
    <3>1. InOneTx(req[p]) /\ touched[p] = Feed
      BY <1>0, <2>5 DEF ShapeOf, ScopeOf, Open
    <3>2. touched'[p] = Feed /\ met \subseteq met'
      BY <1>0, <2>1, <2>2, <3>1 DEF Use
    <3>3. \A q \in Proc : \A f \in touched'[p] \cap touched[q] :
            q # p => <<p, q, f>> \in met' \/ <<q, p, f>> \in met'
      BY <3>1, <3>2 DEF Scope
    <3>4. QED
      BY <2>1, <2>2, <2>3, <2>5, <3>1, <3>2, <3>3
  <2>6. QED
    BY <1>4, <2>4, <2>5 DEF TakeOp
<1>5. ASSUME \/ PlanSet(p) \/ PlanSyncPointers(p) \/ PlanSyncTables(p) \/ AllDone(p)
             \/ Activate(p) \/ Deactivate(p) \/ SetExcludeFromGlobal(p)
             \/ SetFeedStatePublic(p) \/ SaveFeedState(p) \/ Dematerialize(p)
             \/ Materialize(p) \/ ReconcileRead(p) \/ ReconcileDematerialize(p)
             \/ MaterializeClear(p) \/ MaterializeInsert(p) \/ ReconcileWrite(p)
      PROVE  Open(p) /\ Open(p)' /\ touched' = touched /\ req' = req /\ op' = op /\ met' = met
  <2> USE DEF EndOp, Open
  <2>1. CASE PlanSet(p) \/ PlanSyncPointers(p) \/ PlanSyncTables(p) \/ AllDone(p)
    BY <1>0, <2>1 DEF PlanSet, PlanSyncPointers, PlanSyncTables, AllDone
  <2>2. CASE Activate(p) \/ Deactivate(p) \/ SetExcludeFromGlobal(p)
    BY <1>0, <2>2 DEF Activate, Deactivate, SetExcludeFromGlobal
  <2>3. CASE SetFeedStatePublic(p) \/ SaveFeedState(p) \/ Dematerialize(p) \/ Materialize(p)
    BY <1>0, <2>3 DEF SetFeedStatePublic, SaveFeedState, Dematerialize, Materialize
  <2>4. CASE ReconcileRead(p) \/ ReconcileDematerialize(p) \/ MaterializeClear(p)
    BY <1>0, <2>4 DEF ReconcileRead, ReconcileDematerialize, MaterializeClear
  <2>5. CASE MaterializeInsert(p) \/ ReconcileWrite(p)
    BY <1>0, <2>5 DEF MaterializeInsert, ReconcileWrite
  <2>6. QED
    BY <1>5, <2>1, <2>2, <2>3, <2>4, <2>5
<1>6. CASE Commit(p) \/ Rollback(p)
  BY <1>0, <1>6 DEF Commit, Rollback, EndTx, Open
<1>7. QED
  BY <1>0, <1>1, <1>3, <1>4, <1>5, <1>6 DEF Acts

\* What a step does to the rows its transaction has written: one pointer row or one
\* version's materialized rows, of the feed of the operation in progress.
LEMMA WriteEffect ==
  ASSUME TypeOK, Shape, InFeed, NEW p \in Proc, Acts(p)
  PROVE  \/ UNCHANGED <<wrote, ins, del>> /\ pc[p] \notin {"exclude", "save", "write"}
         \/ /\ pc[p] \in {"exclude", "save", "write"} /\ pc'[p] \notin OpKind
            /\ \E row \in FeedRow(FeedOfOp(op[p])) : UpdateState(p, FeedOfOp(op[p]), row)
            /\ UNCHANGED <<ins, del>>
         \/ /\ pc[p] \in {"dematerialize", "demat", "clear"} /\ pc'[p] \notin OpKind
            /\ \E v \in Version : FeedOf[v] = FeedOfOp(op[p]) /\ DematerializeFeedVersion(p, v)
         \/ /\ pc[p] = "insert" /\ pc'[p] \notin OpKind
            /\ goal[p] \in Version /\ FeedOf[goal[p]] = FeedOfOp(op[p]) /\ InsertRows(p, goal[p])
         \/ EndTx(p) /\ (Commit(p) \/ Rollback(p))
<1> USE DEF Goto, locals, txVars, AtWork, OpKind
<1>0. /\ ShapeOf(p) /\ InFeedOf(p) /\ pc \in [Proc -> Pc]
      /\ op \in [Proc -> Op \cup {NoRequest}]
  BY DEF Shape, InFeed, TypeOK
<1>1. CASE (\E r \in Request : Start(p, r) \/ StartCommand(p, r)) \/ TakeOp(p) \/ AllDone(p)
  BY <1>1 DEF Start, StartCommand, TakeOp, AllDone
<1>2. CASE PlanSet(p) \/ PlanSyncPointers(p) \/ PlanSyncTables(p)
  BY <1>2 DEF PlanSet, PlanSyncPointers, PlanSyncTables
<1>3. CASE Activate(p) \/ Deactivate(p) \/ SetFeedStatePublic(p) \/ Materialize(p)
  BY <1>3 DEF Activate, Deactivate, SetFeedStatePublic, Materialize
<1>4. CASE ReconcileRead(p)
  BY <1>4 DEF ReconcileRead
<1>5. CASE SetExcludeFromGlobal(p)
  <2> DEFINE cur == getFeedStatePointers(p, op[p].feed)
  <2>1. op[p] \in Op /\ op[p].kind = "exclude"
    BY <1>0, <1>5 DEF SetExcludeFromGlobal, ShapeOf
  <2>2. FeedOfOp(op[p]) = op[p].feed /\ op[p].feed \in Feed /\ op[p].value \in BOOLEAN
    BY <2>1, OpShape
  <2>3. cur \in FeedRow(op[p].feed)
    BY <2>2 DEF InFeed, InFeedOf, getFeedStatePointers
  <2>4. [cur EXCEPT !.excl = op[p].value] \in FeedRow(op[p].feed)
    BY <2>2, <2>3 DEF FeedRow, Row
  <2>5. pc[p] = "exclude" /\ pc'[p] = "read" /\ UNCHANGED <<ins, del>>
        /\ UpdateState(p, op[p].feed, [cur EXCEPT !.excl = op[p].value])
    BY <1>0, <1>5 DEF SetExcludeFromGlobal
  <2>6. QED
    BY <2>2, <2>4, <2>5
<1>6. CASE SaveFeedState(p)
  <2>1. op[p] \in Op /\ op[p].kind = "public"
    BY <1>0, <1>6 DEF SaveFeedState, ShapeOf
  <2>2. FeedOfOp(op[p]) = op[p].feed /\ op[p].feed \in Feed /\ op[p].value \in BOOLEAN
    BY <2>1, OpShape
  <2>3. saved[p] \in FeedRow(op[p].feed)
    BY <1>0, <1>6 DEF SaveFeedState, InFeedOf
  <2>4. [saved[p] EXCEPT !.public = op[p].value] \in FeedRow(op[p].feed)
    BY <2>2, <2>3 DEF FeedRow, Row
  <2>5. pc[p] = "save" /\ pc'[p] \in {"next", "commit"} /\ UNCHANGED <<ins, del>>
        /\ UpdateState(p, op[p].feed, [saved[p] EXCEPT !.public = op[p].value])
    BY <1>0, <1>6 DEF SaveFeedState, EndOp
  <2>6. QED
    BY <2>2, <2>4, <2>5
<1>7. CASE ReconcileWrite(p)
  <2> DEFINE f == FeedOfOp(op[p])
  <2> DEFINE cur == getFeedStatePointers(p, f)
  <2>1. op[p] \in Op /\ op[p].kind \in Moving
    BY <1>0, <1>7 DEF ReconcileWrite, ShapeOf
  <2>2. f \in Feed
    BY <2>1, OpShape
  <2>3. cur \in FeedRow(f)
    BY <2>2 DEF InFeed, InFeedOf, getFeedStatePointers
  <2>4. target[p] \in Of(f) /\ goal[p] \in Of(f) /\ target[p] \in Pointer /\ goal[p] \in Pointer
    BY <1>0, <1>7, <2>1 DEF ReconcileWrite, InFeedOf, TypeOK
  <2>5. [cur EXCEPT !.active = target[p], !.mat = goal[p]] \in FeedRow(f)
    BY <2>3, <2>4 DEF FeedRow, Row
  <2>6. pc[p] = "write" /\ pc'[p] \in {"next", "commit"} /\ UNCHANGED <<ins, del>>
        /\ UpdateState(p, f, [cur EXCEPT !.active = target[p], !.mat = goal[p]])
    BY <1>0, <1>7 DEF ReconcileWrite, EndOp
  <2>7. QED
    BY <2>5, <2>6
<1>8. CASE Dematerialize(p)
  <2>1. op[p] \in Op /\ op[p].kind = "dematerialize"
    BY <1>0, <1>8 DEF Dematerialize, ShapeOf
  <2>2. op[p].version \in Version /\ FeedOf[op[p].version] = FeedOfOp(op[p])
    BY <2>1, OpShape
  <2>3. QED
    BY <1>0, <1>8, <2>2 DEF Dematerialize, EndOp
<1>9. CASE ReconcileDematerialize(p)
  <2>1. old[p] \in Version /\ FeedOf[old[p]] = FeedOfOp(op[p])
    BY <1>0, <1>9 DEF ReconcileDematerialize, InFeedOf, Of
  <2>2. QED
    BY <1>0, <1>9, <2>1 DEF ReconcileDematerialize
<1>10. CASE MaterializeClear(p)
  <2>1. goal[p] \in Version /\ FeedOf[goal[p]] = FeedOfOp(op[p])
    BY <1>0, <1>10 DEF MaterializeClear, InFeedOf, Of
  <2>2. QED
    BY <1>0, <1>10, <2>1 DEF MaterializeClear
<1>11. CASE MaterializeInsert(p)
  <2>1. goal[p] \in Version /\ FeedOf[goal[p]] = FeedOfOp(op[p])
    BY <1>0, <1>11 DEF MaterializeInsert, InFeedOf, Of
  <2>2. QED
    BY <1>0, <1>11, <2>1 DEF MaterializeInsert, EndOp
<1>12. CASE Commit(p) \/ Rollback(p)
  <2>1. EndTx(p)
    BY <1>12 DEF Commit, Rollback
  <2>2. QED
    BY <1>12, <2>1
<1>13. QED
  BY <1>1, <1>2, <1>3, <1>4, <1>5, <1>6, <1>7, <1>8, <1>9, <1>10, <1>11, <1>12 DEF Acts

\* A transaction without a feed has written nothing.
LEMMA Untouched ==
  ASSUME TypeOK, Scope, NEW p \in Proc, touched[p] = {}
  PROVE  wrote[p] = NoWrite /\ ins[p] = {} /\ del[p] = {}
BY DEF TypeOK, Scope, ScopeOf, NoWrite

LEMMA ScopeKept ==
  ASSUME TypeOK, TypeOK', Shape, Shape', Scope, InFeed, NEW p \in Proc, Acts(p)
  PROVE  Scope'
<1>0. /\ ShapeOf(p) /\ ShapeOf(p)' /\ ScopeOf(p) /\ pc \in [Proc -> Pc]
      /\ touched \in [Proc -> SUBSET Feed] /\ touched' \in [Proc -> SUBSET Feed]
  BY DEF Shape, TypeOK, Scope
<1>1. ASSUME NEW q \in Proc, q # p PROVE ScopeOf(q)'
  <2>1. /\ pc'[q] = pc[q] /\ req'[q] = req[q] /\ op'[q] = op[q] /\ wrote'[q] = wrote[q]
        /\ ins'[q] = ins[q] /\ del'[q] = del[q] /\ touched'[q] = touched[q]
    BY <1>1, OthersUntouched
  <2>2. ScopeOf(q)
    BY DEF Scope
  <2>3. QED
    BY <2>1, <2>2 DEF ScopeOf, Open
<1>2. \A q, r \in Proc : \A f \in touched'[q] \cap touched'[r] :
        q # r => <<q, r, f>> \in met' \/ <<r, q, f>> \in met'
  <2>1. \A q \in Proc : q # p => touched'[q] = touched[q]
    BY OthersUntouched
  <2>2. met \subseteq met'
    BY OthersUntouched
  <2>3. ASSUME NEW q \in Proc, NEW f \in touched'[p] \cap touched[q], q # p
        PROVE  <<p, q, f>> \in met' \/ <<q, p, f>> \in met'
    <3>1. CASE f \in touched[p]
      BY <2>2, <2>3, <3>1 DEF Scope
    <3>2. CASE f \notin touched[p]
      BY <1>0, <2>3, <3>2, TouchEffect
    <3>3. QED
      BY <3>1, <3>2
  <2>4. SUFFICES ASSUME NEW q \in Proc, NEW r \in Proc,
                        NEW f \in touched'[q] \cap touched'[r], q # r
                 PROVE  <<q, r, f>> \in met' \/ <<r, q, f>> \in met'
    OBVIOUS
  <2>5. CASE q = p
    BY <2>1, <2>3, <2>4, <2>5
  <2>6. CASE r = p
    BY <2>1, <2>3, <2>4, <2>6
  <2>7. CASE q # p /\ r # p
    BY <2>1, <2>2, <2>4, <2>7 DEF Scope
  <2>8. QED
    BY <2>5, <2>6, <2>7
<1>3. ~Open(p)' => touched'[p] = {}
  BY <1>0, TouchEffect DEF ScopeOf
<1>4. Open(p)' => touched'[p] = IF InOneTx(req'[p]) THEN Feed ELSE {FeedOfOp(op'[p])}
  BY <1>0, TouchEffect DEF ScopeOf
<1>5. pc'[p] \in AtWork => FeedOfOp(op'[p]) \in touched'[p]
  <2>1. SUFFICES ASSUME pc'[p] \in AtWork
                 PROVE  FeedOfOp(op'[p]) \in touched'[p]
    OBVIOUS
  <2>2. op'[p] \in Op
    BY <1>0, <2>1 DEF ShapeOf
  <2>3. FeedOfOp(op'[p]) \in Feed
    BY <2>2, OpShape
  <2>4. Open(p)'
    BY <2>1 DEF Open, AtWork, OpKind
  <2>5. QED
    BY <1>4, <2>3, <2>4
<1>6. CASE EndTx(p)
  <2>1. /\ wrote'[p] = NoWrite /\ ins'[p] = {} /\ del'[p] = {}
        /\ \A f \in Feed : NoWrite[f] = NoRow
    BY <1>6 DEF EndTx, TypeOK, NoWrite
  <2>2. ScopeOf(p)'
    BY <1>3, <1>4, <1>5, <2>1 DEF ScopeOf, NoWrite
  <2>3. QED
    BY <1>1, <1>2, <2>2 DEF Scope
<1>7. CASE ~EndTx(p)
  <2>1. touched[p] \subseteq touched'[p]
    BY <1>7, TouchEffect
  <2>2. pc[p] \in AtWork => FeedOfOp(op[p]) \in touched'[p]
    BY <1>0, <2>1 DEF ScopeOf
  <2>3. \A f \in Feed : wrote'[p][f] # NoRow => f \in touched'[p]
    <3>1. CASE UNCHANGED <<wrote, ins, del>>
      BY <1>0, <2>1, <3>1 DEF ScopeOf
    <3>2. CASE \E row : UpdateState(p, FeedOfOp(op[p]), row) /\ pc[p] \in AtWork
      BY <1>0, <2>1, <2>2, <3>2 DEF ScopeOf, UpdateState, TypeOK
    <3>3. CASE wrote' = wrote
      BY <1>0, <2>1, <3>3 DEF ScopeOf
    <3>4. QED
      BY <1>7, <3>1, <3>2, <3>3, WriteEffect
      DEF AtWork, OpKind, DematerializeFeedVersion, InsertRows
  <2>4. \A v \in ins'[p] \cup del'[p] : FeedOf[v] \in touched'[p]
    <3>1. CASE UNCHANGED <<ins, del>>
      BY <1>0, <2>1, <3>1 DEF ScopeOf
    <3>2. CASE /\ pc[p] \in {"dematerialize", "demat", "clear"}
               /\ \E v \in Version : /\ FeedOf[v] = FeedOfOp(op[p])
                                     /\ DematerializeFeedVersion(p, v)
      <4>1. PICK v \in Version : FeedOf[v] = FeedOfOp(op[p]) /\ DematerializeFeedVersion(p, v)
        BY <3>2
      <4>2. ins'[p] \subseteq ins[p] /\ del'[p] \subseteq del[p] \cup {v}
        BY <4>1 DEF DematerializeFeedVersion, TypeOK
      <4>3. FeedOf[v] \in touched'[p]
        BY <2>2, <3>2, <4>1 DEF AtWork, OpKind
      <4>4. QED
        BY <1>0, <2>1, <4>2, <4>3 DEF ScopeOf
    <3>3. CASE /\ pc[p] = "insert" /\ FeedOf[goal[p]] = FeedOfOp(op[p])
               /\ InsertRows(p, goal[p])
      <4>1. ins'[p] = ins[p] \cup {goal[p]} /\ del' = del
        BY <3>3 DEF InsertRows, TypeOK
      <4>2. FeedOf[goal[p]] \in touched'[p]
        BY <2>2, <3>3 DEF AtWork, OpKind
      <4>3. QED
        BY <1>0, <2>1, <4>1, <4>2 DEF ScopeOf
    <3>4. QED
      BY <1>7, <3>1, <3>2, <3>3, WriteEffect
  <2>5. pc'[p] \in {"plan", "tables"} =>
          wrote'[p] = NoWrite /\ ins'[p] = {} /\ del'[p] = {}
    <3>1. SUFFICES ASSUME pc'[p] \in {"plan", "tables"}
                   PROVE  wrote'[p] = NoWrite /\ ins'[p] = {} /\ del'[p] = {}
      OBVIOUS
    <3>2. UNCHANGED <<wrote, ins, del>> /\ pc[p] \in {"idle", "plan"}
      <4>1. (\E r \in Request : StartCommand(p, r)) \/ PlanSyncPointers(p)
        <5>1. CASE TakeOp(p)
          <6>1. PICK o \in ops[p] : pc' = [pc EXCEPT ![p] = o.kind]
            BY <5>1 DEF TakeOp, First, Goto
          <6>2. o.kind \in OpKind
            BY OpShape DEF TypeOK
          <6>3. QED
            BY <1>0, <3>1, <6>1, <6>2 DEF OpKind
        <5>2. CASE ~TakeOp(p)
          BY <1>0, <3>1, <5>2
          DEF Acts, Start, PlanSet, PlanSyncTables, AllDone, Activate, Deactivate,
              SetExcludeFromGlobal, SetFeedStatePublic, SaveFeedState, Dematerialize,
              Materialize, ReconcileRead, ReconcileDematerialize, MaterializeClear,
              MaterializeInsert, ReconcileWrite, Commit, Rollback, EndOp, Goto
        <5>3. QED
          BY <5>1, <5>2
      <4>2. QED
        BY <4>1 DEF StartCommand, PlanSyncPointers, txVars
    <3>3. CASE pc[p] = "plan"
      BY <1>0, <3>2, <3>3 DEF ScopeOf
    <3>4. CASE pc[p] = "idle"
      BY <1>0, <3>2, <3>4, Untouched DEF ScopeOf, Open
    <3>5. QED
      BY <3>2, <3>3, <3>4
  <2>6. pc'[p] \in OpKind /\ ~InOneTx(req'[p]) => wrote'[p] = NoWrite
    <3>1. SUFFICES ASSUME pc'[p] \in OpKind, ~InOneTx(req'[p])
                   PROVE  wrote'[p] = NoWrite
      OBVIOUS
    <3>2. TakeOp(p)
      BY <1>0, <3>1
      DEF Acts, Start, StartCommand, PlanSet, PlanSyncPointers, PlanSyncTables, AllDone,
          Activate, Deactivate, SetExcludeFromGlobal, SetFeedStatePublic, SaveFeedState,
          Dematerialize, Materialize, ReconcileRead, ReconcileDematerialize, MaterializeClear,
          MaterializeInsert, ReconcileWrite, Commit, Rollback, EndOp, Goto, OpKind
    <3>3. pc[p] = "begin" /\ wrote' = wrote
      BY <1>0, <3>1, <3>2 DEF TakeOp, txVars, ShapeOf
    <3>4. QED
      BY <1>0, <3>3, Untouched DEF ScopeOf, Open
  <2>7. ScopeOf(p)'
    BY <1>3, <1>4, <1>5, <2>3, <2>4, <2>5, <2>6 DEF ScopeOf
  <2>8. QED
    BY <1>1, <1>2, <2>7 DEF Scope
<1>8. QED
  BY <1>6, <1>7

LEMMA InFeedKept ==
  ASSUME TypeOK, Shape, InFeed, NEW p \in Proc, Acts(p)
  PROVE  InFeed'
<1>0. /\ ShapeOf(p) /\ InFeedOf(p) /\ pc \in [Proc -> Pc]
      /\ op \in [Proc -> Op \cup {NoRequest}]
      /\ wrote \in [Proc -> [Feed -> Row \cup {NoRow}]]
  BY DEF Shape, InFeed, TypeOK
<1>1. ASSUME NEW q \in Proc, q # p PROVE InFeedOf(q)'
  <2>1. /\ pc'[q] = pc[q] /\ op'[q] = op[q] /\ wrote'[q] = wrote[q] /\ target'[q] = target[q]
        /\ old'[q] = old[q] /\ goal'[q] = goal[q] /\ saved'[q] = saved[q]
    BY <1>1, OthersUntouched
  <2>2. InFeedOf(q)
    BY DEF InFeed
  <2>3. QED
    BY <2>1, <2>2 DEF InFeedOf
<1>2. \A f \in Feed : getFeedStatePointers(p, f) \in FeedRow(f)
  BY <1>0 DEF InFeed, InFeedOf, getFeedStatePointers
<1>3. \A f \in Feed : fs'[f] \in FeedRow(f)
  <2>1. CASE Commit(p)
    BY <1>2, <2>1 DEF Commit
  <2>2. CASE UNCHANGED <<fs, rows>>
    BY <2>2 DEF InFeed
  <2>3. QED
    BY <2>1, <2>2, OthersUntouched
<1>4. \A f \in Feed : wrote'[p][f] \in FeedRow(f) \cup {NoRow}
  <2>1. CASE wrote' = wrote
    BY <1>0, <2>1 DEF InFeedOf
  <2>2. CASE pc[p] \in AtWork
             /\ \E row \in FeedRow(FeedOfOp(op[p])) : UpdateState(p, FeedOfOp(op[p]), row)
    BY <1>0, <2>2 DEF InFeedOf, UpdateState
  <2>3. CASE EndTx(p)
    BY <1>0, <2>3 DEF EndTx, NoWrite
  <2>4. QED
    BY <2>1, <2>2, <2>3, WriteEffect
    DEF AtWork, OpKind, DematerializeFeedVersion, InsertRows
<1>5. /\ pc'[p] = "save" => saved'[p] \in FeedRow(op'[p].feed)
      /\ pc'[p] \in {"read", "demat", "clear", "insert", "write"} /\ op'[p].kind \in Moving
           => target'[p] \in Of(FeedOfOp(op'[p]))
      /\ pc'[p] = "demat" => old'[p] \in Of(FeedOfOp(op'[p])) \ {NoVersion}
      /\ pc'[p] \in {"demat", "write"} => goal'[p] \in Of(FeedOfOp(op'[p]))
      /\ pc'[p] \in {"clear", "insert"} => goal'[p] \in Of(FeedOfOp(op'[p])) \ {NoVersion}
  <2> DEFINE f == FeedOfOp(op[p])
  <2> USE DEF Goto, locals
  <2>0. \A g : NoVersion \in Of(g)
    BY DEF Of
  <2>1. CASE pc'[p] \notin {"save", "read", "demat", "clear", "insert", "write"}
    BY <2>1
  <2>2. CASE Activate(p)
    <3>1. op[p] \in Op /\ op[p].kind = "activate"
      BY <1>0, <2>2 DEF Activate, ShapeOf, AtWork, OpKind
    <3>2. op[p].version \in Of(f)
      BY <3>1, OpShape DEF Of
    <3>3. QED
      BY <1>0, <2>2, <3>2 DEF Activate, TypeOK
  <2>3. CASE Deactivate(p)
    BY <1>0, <2>0, <2>3 DEF Deactivate, EndOp, TypeOK
  <2>4. CASE SetExcludeFromGlobal(p)
    <3>1. op[p] \in Op /\ op[p].kind = "exclude"
      BY <1>0, <2>4 DEF SetExcludeFromGlobal, ShapeOf, AtWork, OpKind
    <3>2. op[p].feed \in Feed /\ f = op[p].feed
      BY <3>1, OpShape
    <3>3. QED
      BY <1>0, <1>2, <2>4, <3>2 DEF SetExcludeFromGlobal, TypeOK, FeedRow
  <2>5. CASE SetFeedStatePublic(p)
    <3>1. op[p] \in Op /\ op[p].kind = "public"
      BY <1>0, <2>5 DEF SetFeedStatePublic, ShapeOf, AtWork, OpKind
    <3>2. op[p].feed \in Feed
      BY <3>1, OpShape
    <3>3. QED
      BY <1>0, <1>2, <2>5, <3>2 DEF SetFeedStatePublic, EndOp, TypeOK
  <2>6. CASE Materialize(p)
    <3>1. op[p] \in Op /\ op[p].kind = "materialize"
      BY <1>0, <2>6 DEF Materialize, ShapeOf, AtWork, OpKind
    <3>2. op[p].version \in Of(f) \ {NoVersion}
      BY <3>1, OpShape, FeedStateAssumption DEF Of
    <3>3. QED
      BY <1>0, <2>6, <3>1, <3>2 DEF Materialize, TypeOK, Moving
  <2>7. CASE ReconcileRead(p)
    <3>1. op[p] \in Op /\ op[p].kind \in Moving
      BY <1>0, <2>7 DEF ReconcileRead, ShapeOf, AtWork
    <3>2. f \in Feed
      BY <3>1, OpShape
    <3>3. getFeedStatePointers(p, f).mat \in Of(f) /\ target[p] \in Of(f)
      BY <1>0, <1>2, <2>7, <3>1, <3>2 DEF ReconcileRead, InFeedOf, FeedRow
    <3>4. PICK mat, m \in Of(f) :
            /\ old' = [old EXCEPT ![p] = mat] /\ goal' = [goal EXCEPT ![p] = m]
            /\ pc' = [pc EXCEPT ![p] = IF mat = m THEN "write"
                                      ELSE IF mat # NoVersion THEN "demat" ELSE "clear"]
            /\ op' = op /\ target' = target
      BY <2>0, <2>7, <3>3 DEF ReconcileRead
    <3>5. QED
      BY <1>0, <3>3, <3>4 DEF TypeOK
  <2>8. CASE ReconcileDematerialize(p) \/ MaterializeClear(p)
    BY <1>0, <2>8 DEF ReconcileDematerialize, MaterializeClear, InFeedOf
  <2>9. CASE MaterializeInsert(p)
    <3>1. op[p].kind # "materialize" => op[p].kind \in Moving
      BY <1>0, <2>9 DEF MaterializeInsert, ShapeOf
    <3>2. QED
      BY <1>0, <2>9, <3>1 DEF MaterializeInsert, EndOp, InFeedOf
  <2>10. CASE TakeOp(p)
    <3>1. PICK o \in ops[p] : pc' = [pc EXCEPT ![p] = o.kind]
      BY <2>10 DEF TakeOp, First
    <3>2. o.kind \in OpKind
      BY OpShape DEF TypeOK
    <3>3. QED
      BY <1>0, <2>1, <3>1, <3>2 DEF OpKind
  <2>11. QED
    BY <1>0, <2>1, <2>2, <2>3, <2>4, <2>5, <2>6, <2>7, <2>8, <2>9, <2>10
    DEF Acts, Start, StartCommand, PlanSet, PlanSyncPointers, PlanSyncTables, AllDone,
        SaveFeedState, Dematerialize, ReconcileWrite, Commit, Rollback, EndOp
<1>6. InFeedOf(p)'
  BY <1>4, <1>5 DEF InFeedOf
<1>7. QED
  BY <1>1, <1>3, <1>6 DEF InFeed

LEMMA InitTx == Init => TxInv
<1> SUFFICES ASSUME Init PROVE TxInv
  OBVIOUS
<1>1. TypeOK
  BY InitTypes
<1>2. Shape
  BY DEF Init, Shape, ShapeOf, AtWork, OpKind
<1>3. Scope
  BY DEF Init, Scope, ScopeOf, Open, NoWrite, AtWork, OpKind
<1>4. InFeed
  <2>1. \A f \in Feed : fs[f] \in FeedRow(f)
    BY DEF Init, Reconciled, FeedRow, Row, Of, Pointer
  <2>2. QED
    BY <2>1 DEF Init, InFeed, InFeedOf, NoWrite
<1>5. QED
  BY <1>1, <1>2, <1>3, <1>4 DEF TxInv

LEMMA TxKept ==
  ASSUME TxInv, NEW p \in Proc, Acts(p)
  PROVE  TxInv'
<1>1. TypeOK'
  BY TypesKept DEF TxInv
<1>2. Shape'
  BY ShapeKept DEF TxInv
<1>3. Scope'
  BY <1>1, <1>2, ScopeKept DEF TxInv
<1>4. InFeed'
  BY InFeedKept DEF TxInv
<1>5. QED
  BY <1>1, <1>2, <1>3, <1>4 DEF TxInv

\* What a stuttering step leaves alone.
LEMMA Stuttering ==
  ASSUME TxInv, UNCHANGED vars
  PROVE  TxInv'
BY DEF TxInv, TypeOK, Shape, ShapeOf, Scope, ScopeOf, Open, InFeed, InFeedOf, vars, locals, txVars

LEMMA TxInductive == TxInv /\ [Next]_vars => TxInv'
<1> SUFFICES ASSUME TxInv, [Next]_vars PROVE TxInv'
  OBVIOUS
<1>1. CASE UNCHANGED vars
  BY <1>1, Stuttering
<1>2. CASE Next
  BY <1>2, TxKept DEF Next, Acts
<1>3. QED
  BY <1>1, <1>2

\* Every variable keeps its type, in particular the pointers a transaction writes,
\* which with TxInv are null or name a version of the feed they are written for.
THEOREM TypeCorrect == Spec => []TypeOK
<1>1. TxInv => TypeOK
  BY DEF TxInv
<1>2. QED
  BY <1>1, InitTx, TxInductive, PTL DEF Spec

-----------------------------------------------------------------------------
(* Hiding and showing a feed *)

\* From the update of the flag to its commit, SetExcludeFromGlobal holds the feed's
\* row, and what it will write as the active version is the committed one.
HidesOf(p) ==
  op[p].kind = "exclude" /\ pc[p] \in {"read", "demat", "clear", "insert", "write", "commit"} =>
    /\ wrote[p][op[p].feed] # NoRow
    /\ wrote[p][op[p].feed].active = fs[op[p].feed].active
    /\ pc[p] # "commit" => target[p] = fs[op[p].feed].active
Locks ==
  /\ \A p, q \in Proc, f \in Feed : wrote[p][f] # NoRow /\ wrote[q][f] # NoRow => p = q
  /\ \A p \in Proc : HidesOf(p)

\* A row that one transaction has written, no other one's commit changes.
LEMMA LockedRow ==
  ASSUME TypeOK, Locks, NEW p \in Proc, Acts(p), NEW q \in Proc, q # p,
         NEW f \in Feed, wrote[q][f] # NoRow
  PROVE  fs'[f] = fs[f]
<1>1. wrote[p][f] = NoRow
  BY DEF Locks
<1>2. QED
  BY <1>1, OthersUntouched DEF Commit, getFeedStatePointers

\* The operation of a request to hide a feed is the request itself.
LEMMA ExcludeAlone ==
  ASSUME TxInv, NEW p \in Proc, op[p].kind = "exclude"
  PROVE  /\ op[p] \in Op /\ op[p] = req[p] /\ ~InOneTx(req[p]) /\ pc[p] # "idle"
         /\ op[p].feed \in Feed /\ FeedOfOp(op[p]) = op[p].feed
<1>1. op[p] \in Op /\ op[p] # NoRequest
  BY DEF TxInv, TypeOK, NoRequest
<1>2. op[p] = req[p] /\ pc[p] # "idle"
  BY <1>1 DEF TxInv, Shape, ShapeOf, Belongs, Forced
<1>3. ~InOneTx(req[p])
  BY <1>1, <1>2, RequestShape DEF TxInv, Shape, ShapeOf
<1>4. QED
  BY <1>1, <1>2, <1>3, OpShape

LEMMA LocksKept ==
  ASSUME TxInv, Locks, NEW p \in Proc, Acts(p)
  PROVE  Locks'
<1>0. /\ TypeOK /\ Shape /\ Scope /\ InFeed /\ ShapeOf(p) /\ pc \in [Proc -> Pc]
      /\ wrote \in [Proc -> [Feed -> Row \cup {NoRow}]]
  BY DEF TxInv, Shape, TypeOK
<1>1. \A q, r \in Proc, f \in Feed : wrote'[q][f] # NoRow /\ wrote'[r][f] # NoRow => q = r
  <2>1. CASE wrote' = wrote
    BY <2>1 DEF Locks
  <2>2. CASE \E g, row : UpdateState(p, g, row)
    BY <1>0, <2>2 DEF Locks, UpdateState
  <2>3. CASE EndTx(p)
    BY <1>0, <2>3 DEF Locks, EndTx, NoWrite
  <2>4. QED
    BY <1>0, <2>1, <2>2, <2>3, WriteEffect DEF DematerializeFeedVersion, InsertRows
<1>2. ASSUME NEW q \in Proc, q # p PROVE HidesOf(q)'
  <2>1. /\ pc'[q] = pc[q] /\ op'[q] = op[q] /\ wrote'[q] = wrote[q] /\ target'[q] = target[q]
    BY <1>0, <1>2, OthersUntouched
  <2>2. SUFFICES ASSUME op[q].kind = "exclude",
                        pc[q] \in {"read", "demat", "clear", "insert", "write", "commit"}
                 PROVE  HidesOf(q)'
    BY <2>1 DEF HidesOf
  <2>3. HidesOf(q) /\ op[q].feed \in Feed
    BY <2>2, ExcludeAlone DEF Locks
  <2>4. fs'[op[q].feed] = fs[op[q].feed]
    BY <1>0, <1>2, <2>2, <2>3, LockedRow DEF HidesOf
  <2>5. QED
    BY <2>1, <2>2, <2>3, <2>4 DEF HidesOf
<1>3. HidesOf(p)'
  <2> USE DEF Goto, locals, txVars
  <2>0. HidesOf(p) /\ op \in [Proc -> Op \cup {NoRequest}]
    BY <1>0 DEF Locks, TypeOK
  <2>1. CASE SetExcludeFromGlobal(p)
    <3> DEFINE f == op[p].feed
    <3>1. op[p].kind = "exclude" /\ pc[p] = "exclude"
      BY <1>0, <2>1 DEF SetExcludeFromGlobal, ShapeOf, OpKind
    <3>2. f \in Feed /\ ~InOneTx(req[p]) /\ wrote[p] = NoWrite
      BY <1>0, <3>1, ExcludeAlone DEF Scope, ScopeOf, OpKind
    <3>3. getFeedStatePointers(p, f) = fs[f]
      BY <3>2 DEF getFeedStatePointers, NoWrite
    <3>4. wrote'[p][f] = [fs[f] EXCEPT !.excl = op[p].value] /\ target'[p] = fs[f].active
      BY <1>0, <2>1, <3>2, <3>3 DEF SetExcludeFromGlobal, UpdateState, TypeOK
    <3>5. fs[f] \in Row /\ op[p].value \in BOOLEAN
      BY <1>0, <3>1, <3>2, ExcludeAlone, OpShape DEF TypeOK
    <3>6. wrote'[p][f] \in Row /\ wrote'[p][f].active = fs[f].active
      BY <3>4, <3>5 DEF Row
    <3>7. fs' = fs /\ op' = op
      BY <2>1 DEF SetExcludeFromGlobal
    <3>8. QED
      BY <3>4, <3>6, <3>7, NoRowAssumption DEF HidesOf
  <2>2. CASE ReconcileWrite(p)
    <3> DEFINE f == FeedOfOp(op[p])
    <3> DEFINE cur == getFeedStatePointers(p, f)
    <3> DEFINE row == [cur EXCEPT !.active = target[p], !.mat = goal[p]]
    <3>1. op' = op /\ fs' = fs /\ pc[p] = "write"
      BY <2>2 DEF ReconcileWrite
    <3>2. SUFFICES ASSUME op[p].kind = "exclude"
                   PROVE  HidesOf(p)'
      BY <3>1 DEF HidesOf
    <3>3. f \in Feed /\ f = op[p].feed
      BY <3>2, ExcludeAlone
    <3>4. target[p] = fs[f].active /\ target[p] \in Pointer /\ goal[p] \in Pointer /\ cur \in Row
      BY <1>0, <2>0, <3>1, <3>2, <3>3, SeenRow DEF HidesOf, TypeOK
    <3>5. row \in Row /\ row.active = fs[f].active
      BY <3>4 DEF Row
    <3>6. wrote'[p][f] = row /\ pc'[p] \in {"next", "commit"}
      BY <1>0, <2>2, <3>3 DEF ReconcileWrite, UpdateState, EndOp
    <3>7. QED
      BY <3>1, <3>3, <3>5, <3>6, NoRowAssumption DEF HidesOf
  <2>3. CASE ReconcileRead(p) \/ ReconcileDematerialize(p) \/ MaterializeClear(p)
    BY <1>0, <2>0, <2>3 DEF ReconcileRead, ReconcileDematerialize, MaterializeClear,
                            DematerializeFeedVersion, HidesOf
  <2>4. CASE MaterializeInsert(p)
    BY <1>0, <2>0, <2>4 DEF MaterializeInsert, InsertRows, EndOp, HidesOf
  <2>5. CASE TakeOp(p)
    <3>1. PICK o \in ops[p] : pc' = [pc EXCEPT ![p] = o.kind]
      BY <2>5 DEF TakeOp, First
    <3>2. o.kind \in OpKind
      BY <1>0, OpShape DEF TypeOK
    <3>3. QED
      BY <1>0, <3>1, <3>2 DEF HidesOf, OpKind
  <2>6. CASE AllDone(p)
    <3>1. op' = op /\ InOneTx(req[p])
      BY <1>0, <2>6 DEF AllDone, ShapeOf
    <3>2. QED
      BY <3>1, ExcludeAlone DEF HidesOf
  <2>7. CASE \/ Activate(p) \/ Deactivate(p) \/ SetFeedStatePublic(p) \/ SaveFeedState(p)
             \/ Dematerialize(p) \/ Materialize(p)
    <3>1. op' = op /\ op[p].kind # "exclude"
      BY <1>0, <2>7 DEF Activate, Deactivate, SetFeedStatePublic, SaveFeedState, Dematerialize,
                        Materialize, ShapeOf, OpKind
    <3>2. QED
      BY <3>1 DEF HidesOf
  <2>8. CASE \/ PlanSet(p) \/ PlanSyncPointers(p) \/ PlanSyncTables(p)
             \/ Commit(p) \/ Rollback(p) \/ \E r \in Request : Start(p, r) \/ StartCommand(p, r)
    <3>1. pc'[p] \notin {"read", "demat", "clear", "insert", "write", "commit"}
      BY <1>0, <2>8 DEF PlanSet, PlanSyncPointers, PlanSyncTables, Commit, Rollback, Start,
                        StartCommand
    <3>2. QED
      BY <3>1 DEF HidesOf
  <2>9. QED
    BY <2>1, <2>2, <2>3, <2>4, <2>5, <2>6, <2>7, <2>8 DEF Acts
<1>4. QED
  BY <1>1, <1>2, <1>3 DEF Locks

LEMMA LocksInductive == TxInv /\ Locks /\ [Next]_vars => Locks'
<1> SUFFICES ASSUME TxInv, Locks, [Next]_vars PROVE Locks'
  OBVIOUS
<1>1. CASE UNCHANGED vars
  BY <1>1 DEF Locks, HidesOf, vars, locals, txVars
<1>2. CASE Next
  BY <1>2, LocksKept DEF Next, Acts
<1>3. QED
  BY <1>1, <1>2

\* Hiding or showing a feed never changes which version is active, whoever activates
\* a version of it at the same time: SetExcludeFromGlobal updates the flag first and
\* so holds the row before it reads the active version it writes back.
THEOREM HidingKeepsActive == Spec => VisibilityKeepsActive
<1>1. Init => TxInv /\ Locks
  <2>1. Init => Locks
    BY DEF Init, Locks, HidesOf, NoWrite
  <2>2. QED
    BY <2>1, InitTx
<1>2. TxInv /\ Locks /\ [Next]_vars =>
        [\A p \in Proc : Commits(p) /\ op[p].kind = "exclude"
           => \A f \in Feed : fs'[f].active = fs[f].active]_vars
  <2>1. SUFFICES ASSUME TxInv, Locks, Next, NEW p \in Proc, Commits(p), op[p].kind = "exclude",
                        NEW f \in Feed
                 PROVE  fs'[f].active = fs[f].active
    OBVIOUS
  <2>2. PICK q \in Proc : Acts(q)
    BY <2>1 DEF Next, Acts
  <2>3. TypeOK /\ pc[p] = "commit" /\ pc'[p] # pc[p]
    BY <2>1 DEF Commits, TxInv
  <2>4. q = p
    BY <2>2, <2>3, OthersUntouched
  <2>5. CASE f = op[p].feed
    BY <2>1, <2>2, <2>3, <2>4, <2>5, OthersUntouched
    DEF Locks, HidesOf, Commit, getFeedStatePointers
  <2>6. CASE f # op[p].feed
    <3>1. touched[p] = {op[p].feed}
      BY <2>1, <2>3, ExcludeAlone DEF TxInv, Scope, ScopeOf, Open
    <3>2. wrote[p][f] = NoRow
      BY <2>1, <2>6, <3>1 DEF TxInv, Scope, ScopeOf
    <3>3. QED
      BY <2>2, <2>3, <2>4, <3>2, OthersUntouched DEF Commit, getFeedStatePointers
  <2>7. QED
    BY <2>5, <2>6
<1>3. QED
  BY <1>1, <1>2, TxInductive, LocksInductive, PTL DEF Spec, VisibilityKeepsActive

-----------------------------------------------------------------------------
(* What a transaction sees *)

\* The versions with rows, and those of one feed, as the caller's statements see them.
Seen(p) == (rows \ del[p]) \cup ins[p]
SeenOf(p, f) == {v \in Seen(p) : FeedOf[v] = f}
SeesReconciled(p, f) ==
  LET s == getFeedStatePointers(p, f) IN
  /\ s.mat = IF s.excl THEN NoVersion ELSE s.active
  /\ SeenOf(p, f) = {s.mat} \ {NoVersion}

\* The same in the middle of an operation on the feed.
Midway(p) ==
  LET f == FeedOfOp(op[p])  s == getFeedStatePointers(p, f) IN
  /\ pc[p] \in OpKind \cup {"save"} => SeesReconciled(p, f)
  /\ pc[p] = "save" => saved[p] = s
  /\ pc[p] = "read" => SeenOf(p, f) = {s.mat} \ {NoVersion}
  /\ pc[p] = "demat" => SeenOf(p, f) = {old[p]}
  /\ pc[p] \in {"clear", "insert"} => SeenOf(p, f) = {}
  /\ pc[p] = "write" => SeenOf(p, f) = {goal[p]} \ {NoVersion}
  /\ pc[p] \in {"demat", "clear", "insert", "write"} =>
       goal[p] = IF s.excl THEN NoVersion ELSE target[p]
Working(p, f) == pc[p] \in AtWork /\ FeedOfOp(op[p]) = f

\* An open transaction that no other one has met on a feed sees it reconciled,
\* except in the middle of an operation on it.
ViewOf(p) ==
  \A f \in touched[p] : Mixed(f) \/ IF Working(p, f) THEN Midway(p) ELSE SeesReconciled(p, f)

\* A sync has something to repair only in feeds that transactions have met on.
RepairsOf(p) ==
  /\ \A o \in ops[p] : o.kind \in Forced /\ pc[p] # "tables" => Mixed(FeedOf[o.version])
  /\ pc[p] \in AtWork /\ op[p].kind \in Forced => Mixed(FeedOf[op[p].version])
  /\ pc[p] = "tables" =>
       \A v \in Version :
         Mixed(FeedOf[v]) \/ (v \in rows <=> \E o \in ops[p] : o.version = v)

ReconcileInv ==
  TxInv /\ FeedsReconciled /\ \A p \in Proc : ViewOf(p) /\ RepairsOf(p)

\* A feed that two transactions met on stays one.
LEMMA MixedStays ==
  ASSUME TypeOK, NEW p \in Proc, Acts(p), NEW f, Mixed(f)
  PROVE  Mixed(f)'
BY OthersUntouched DEF Mixed

\* A commit changes nothing of a feed that its transaction has not used.
LEMMA OtherFeeds ==
  ASSUME TypeOK, Scope, NEW p \in Proc, Acts(p), NEW f \in Feed, f \notin touched[p]
  PROVE  /\ fs'[f] = fs[f]
         /\ \A v \in Version : FeedOf[v] = f => (v \in rows' <=> v \in rows)
<1>1. wrote[p][f] = NoRow /\ \A v \in ins[p] \cup del[p] : FeedOf[v] # f
  BY DEF Scope, ScopeOf
<1>2. CASE Commit(p)
  BY <1>1, <1>2 DEF Commit, getFeedStatePointers
<1>3. CASE UNCHANGED <<fs, rows>>
  BY <1>3
<1>4. QED
  BY <1>2, <1>3, OthersUntouched

\* What a caller sees of a feed it has to itself, no step of another one changes.
LEMMA OthersView ==
  ASSUME TypeOK, TypeOK', Scope, Scope', NEW p \in Proc, Acts(p), NEW q \in Proc, q # p,
         NEW f \in touched[q], ~Mixed(f)'
  PROVE  /\ ~Mixed(f) /\ fs'[f] = fs[f]
         /\ \A v \in Version : FeedOf[v] = f => (v \in rows' <=> v \in rows)
         /\ getFeedStatePointers(q, f)' = getFeedStatePointers(q, f)
         /\ SeenOf(q, f)' = SeenOf(q, f)
<1>1. f \in Feed /\ wrote'[q] = wrote[q] /\ ins'[q] = ins[q] /\ del'[q] = del[q]
  BY OthersUntouched DEF TypeOK
<1>2. ~Mixed(f)
  BY MixedStays
<1>3. f \notin touched[p]
  BY <1>2 DEF Scope, Mixed
<1>4. fs'[f] = fs[f] /\ \A v \in Version : FeedOf[v] = f => (v \in rows' <=> v \in rows)
  BY <1>1, <1>3, OtherFeeds
<1>5. getFeedStatePointers(q, f)' = getFeedStatePointers(q, f)
  BY <1>1, <1>4 DEF getFeedStatePointers
<1>6. SeenOf(q, f)' = SeenOf(q, f)
  BY <1>1, <1>4 DEF SeenOf, Seen, TypeOK
<1>7. QED
  BY <1>2, <1>4, <1>5, <1>6

\* What a caller sees of a feed changes only when its operation is on that feed.
LEMMA OwnView ==
  ASSUME TypeOK, Shape, InFeed, NEW p \in Proc, Acts(p), ~EndTx(p), NEW f \in Feed,
         pc[p] \in AtWork => FeedOfOp(op[p]) # f
  PROVE  /\ getFeedStatePointers(p, f)' = getFeedStatePointers(p, f)
         /\ SeenOf(p, f)' = SeenOf(p, f)
<1>1. UNCHANGED <<fs, rows>>
  BY OthersUntouched DEF Commit
<1>2. CASE UNCHANGED <<wrote, ins, del>>
  BY <1>1, <1>2 DEF getFeedStatePointers, SeenOf, Seen
<1>3. CASE /\ pc[p] \in {"exclude", "save", "write"} /\ UNCHANGED <<ins, del>>
           /\ \E row \in FeedRow(FeedOfOp(op[p])) : UpdateState(p, FeedOfOp(op[p]), row)
  BY <1>1, <1>3 DEF getFeedStatePointers, SeenOf, Seen, UpdateState, AtWork, OpKind, TypeOK
<1>4. CASE /\ pc[p] \in {"dematerialize", "demat", "clear"}
           /\ \E v \in Version : /\ FeedOf[v] = FeedOfOp(op[p])
                                 /\ DematerializeFeedVersion(p, v)
  <2>1. PICK v \in Version : FeedOf[v] = FeedOfOp(op[p]) /\ DematerializeFeedVersion(p, v)
    BY <1>4
  <2>2. FeedOf[v] # f
    BY <1>4, <2>1 DEF AtWork, OpKind
  <2>3. QED
    BY <1>1, <2>1, <2>2 DEF getFeedStatePointers, SeenOf, Seen, DematerializeFeedVersion, TypeOK
<1>5. CASE /\ pc[p] = "insert" /\ FeedOf[goal[p]] = FeedOfOp(op[p]) /\ InsertRows(p, goal[p])
  <2>1. FeedOf[goal[p]] # f
    BY <1>5 DEF AtWork, OpKind
  <2>2. QED
    BY <1>1, <1>5, <2>1 DEF getFeedStatePointers, SeenOf, Seen, InsertRows, TypeOK
<1>6. QED
  BY <1>2, <1>3, <1>4, <1>5, WriteEffect

\* What a statement of a transaction makes of the rows that the transaction sees.
LEMMA SeenAfter ==
  ASSUME TypeOK, NEW p \in Proc, UNCHANGED rows, NEW v \in Version
  PROVE  /\ DematerializeFeedVersion(p, v) =>
              Seen(p)' = Seen(p) \ {v} /\ \A f \in Feed : SeenOf(p, f)' = SeenOf(p, f) \ {v}
         /\ InsertRows(p, v) => Seen(p)' = Seen(p) \cup {v}
BY DEF DematerializeFeedVersion, InsertRows, Seen, SeenOf, TypeOK

\* The row of the feed of an operation once it is written.
LEMMA RowAfter ==
  ASSUME TypeOK, NEW p \in Proc, NEW f \in Feed, NEW row \in Row, UpdateState(p, f, row)
  PROVE  getFeedStatePointers(p, f)' = row
BY NoRowAssumption DEF UpdateState, getFeedStatePointers, TypeOK

\* An operation starts at its first step and the feed of a caller at work is that of
\* the operation in progress.
LEMMA WorkStarts ==
  ASSUME TypeOK, Shape, NEW p \in Proc, Acts(p)
  PROVE  \/ pc'[p] \notin AtWork
         \/ pc'[p] \in OpKind /\ pc[p] \notin AtWork /\ UNCHANGED txVars
         \/ pc'[p] \in AtWork \ OpKind /\ pc[p] \in AtWork /\ op' = op /\ UNCHANGED touched
<1> USE DEF Goto, locals, txVars, AtWork, OpKind
<1>0. ShapeOf(p) /\ pc \in [Proc -> Pc] /\ op \in [Proc -> Op \cup {NoRequest}]
  BY DEF Shape, TypeOK
<1>1. CASE (\E r \in Request : Start(p, r) \/ StartCommand(p, r)) \/ AllDone(p)
  BY <1>0, <1>1 DEF Start, StartCommand, AllDone
<1>2. CASE PlanSet(p) \/ PlanSyncPointers(p) \/ PlanSyncTables(p)
  BY <1>0, <1>2 DEF PlanSet, PlanSyncPointers, PlanSyncTables
<1>3. CASE TakeOp(p)
  <2>1. PICK o \in First(ops[p]) : pc' = [pc EXCEPT ![p] = o.kind] /\ UNCHANGED txVars
    BY <1>3 DEF TakeOp
  <2>2. o \in Op
    BY DEF First, TypeOK
  <2>3. o.kind \in OpKind /\ pc'[p] = o.kind
    BY <1>0, <2>1, <2>2, OpShape
  <2>4. pc[p] \in {"begin", "next"}
    BY <1>3 DEF TakeOp
  <2>5. QED
    BY <2>1, <2>3, <2>4
<1>4. CASE Activate(p) \/ Deactivate(p) \/ SetFeedStatePublic(p) \/ Materialize(p)
  BY <1>0, <1>4 DEF Activate, Deactivate, SetFeedStatePublic, Materialize, EndOp
<1>5. CASE SetExcludeFromGlobal(p) \/ SaveFeedState(p) \/ Dematerialize(p)
  BY <1>0, <1>5 DEF SetExcludeFromGlobal, SaveFeedState, Dematerialize, EndOp
<1>6. CASE ReconcileRead(p) \/ ReconcileDematerialize(p) \/ MaterializeClear(p)
  BY <1>0, <1>6 DEF ReconcileRead, ReconcileDematerialize, MaterializeClear
<1>7. CASE MaterializeInsert(p) \/ ReconcileWrite(p)
  BY <1>0, <1>7 DEF MaterializeInsert, ReconcileWrite, EndOp
<1>8. CASE Commit(p) \/ Rollback(p)
  BY <1>0, <1>8 DEF Commit, Rollback
<1>9. QED
  BY <1>1, <1>2, <1>3, <1>4, <1>5, <1>6, <1>7, <1>8 DEF Acts

\* A feed that a transaction starts to use it sees as it is committed.
LEMMA FreshView ==
  ASSUME TypeOK, Shape, Scope, NEW p \in Proc, Acts(p),
         NEW f \in touched'[p], f \notin touched[p], f \in Feed, Reconciled(f)
  PROVE  SeesReconciled(p, f)' /\ pc[p] \notin AtWork
<1>1. UNCHANGED txVars /\ pc[p] \in {"idle", "begin", "next"} /\ ~EndTx(p)
  BY TouchEffect DEF EndTx, TypeOK
<1>2. UNCHANGED <<fs, rows>>
  BY <1>1, OthersUntouched DEF Commit
<1>3. wrote[p][f] = NoRow /\ \A v \in ins[p] \cup del[p] : FeedOf[v] # f
  BY DEF Scope, ScopeOf
<1>4. getFeedStatePointers(p, f)' = fs[f]
  BY <1>1, <1>2, <1>3 DEF txVars, getFeedStatePointers
<1>5. SeenOf(p, f)' = RowsOf(f)
  BY <1>1, <1>2, <1>3 DEF txVars, SeenOf, Seen, RowsOf
<1>6. QED
  BY <1>1, <1>4, <1>5 DEF Reconciled, SeesReconciled, AtWork, OpKind

\* Another caller's step keeps what a transaction sees.
LEMMA ViewOthers ==
  ASSUME TxInv, TxInv', NEW p \in Proc, Acts(p), NEW q \in Proc, q # p, ViewOf(q)
  PROVE  ViewOf(q)'
<1>1. /\ pc'[q] = pc[q] /\ op'[q] = op[q] /\ target'[q] = target[q] /\ old'[q] = old[q]
      /\ goal'[q] = goal[q] /\ saved'[q] = saved[q] /\ touched'[q] = touched[q]
  BY OthersUntouched DEF TxInv
<1> SUFFICES ASSUME NEW f \in touched[q], ~Mixed(f)'
             PROVE  (IF Working(q, f) THEN Midway(q) ELSE SeesReconciled(q, f))'
  BY <1>1 DEF ViewOf
<1>2. /\ ~Mixed(f) /\ getFeedStatePointers(q, f)' = getFeedStatePointers(q, f)
      /\ SeenOf(q, f)' = SeenOf(q, f)
  BY OthersView DEF TxInv
<1>3. Working(q, f)' <=> Working(q, f)
  BY <1>1 DEF Working, FeedOfOp
<1>4. CASE Working(q, f)
  <2>1. Midway(q) /\ FeedOfOp(op[q]) = f
    BY <1>2, <1>4 DEF ViewOf, Working
  <2>2. Midway(q)'
    <3>1. FeedOfOp(op[q])' = f
      BY <1>1, <2>1 DEF FeedOfOp
    <3>2. SeesReconciled(q, f)' <=> SeesReconciled(q, f)
      BY <1>2 DEF SeesReconciled
    <3>3. QED
      BY <1>1, <1>2, <2>1, <3>1, <3>2 DEF Midway
  <2>3. QED
    BY <1>3, <1>4, <2>2
<1>5. CASE ~Working(q, f)
  BY <1>2, <1>3, <1>5 DEF ViewOf, SeesReconciled
<1>6. QED
  BY <1>4, <1>5

\* The steps of an operation bring its feed from a reconciled state to a reconciled one.
LEMMA MidwayKept ==
  ASSUME TxInv, NEW p \in Proc, Acts(p), ~EndTx(p), pc[p] \in AtWork, op[p].kind \notin Forced,
         Midway(p), NEW f \in Feed, f = FeedOfOp(op[p])
  PROVE  (IF Working(p, f) THEN Midway(p) ELSE SeesReconciled(p, f))'
<1> DEFINE s == getFeedStatePointers(p, f)
<1> USE DEF Goto, locals, txVars
<1>0. /\ TypeOK /\ ShapeOf(p) /\ InFeedOf(p) /\ op[p] \in Op /\ op[p].kind \in OpKind
      /\ op[p].kind \in Moving \cup {"public"}
  <2>1. TypeOK /\ ShapeOf(p) /\ InFeedOf(p)
    BY DEF TxInv, Shape, InFeed
  <2>2. op[p] \in Op
    BY <2>1 DEF ShapeOf
  <2>3. QED
    BY <2>1, <2>2, OpShape DEF OpKind, Moving, Forced
<1>1. /\ pc \in [Proc -> Pc] /\ target \in [Proc -> Pointer] /\ goal \in [Proc -> Pointer]
      /\ old \in [Proc -> Pointer] /\ saved \in [Proc -> Row \cup {NoRow}]
      /\ s \in Row /\ FeedOfOp(op[p]) = f
  BY <1>0, SeenRow DEF TypeOK
<1>2. UNCHANGED <<wrote, ins, del, fs, rows>> => s' = s /\ SeenOf(p, f)' = SeenOf(p, f)
  BY DEF getFeedStatePointers, SeenOf, Seen
<1>3. UNCHANGED <<ins, del, rows>> => SeenOf(p, f)' = SeenOf(p, f)
  BY DEF SeenOf, Seen
<1>4. CASE Activate(p) \/ Deactivate(p)
  <2>1. s' = s /\ SeenOf(p, f)' = SeenOf(p, f) /\ op' = op
    BY <1>2, <1>4 DEF Activate, Deactivate
  <2>2. SeesReconciled(p, f)
    BY <1>1, <1>4 DEF Activate, Deactivate, Midway, OpKind
  <2>3. pc'[p] \in {"read", "next", "commit"}
    BY <1>1, <1>4 DEF Activate, Deactivate, EndOp
  <2>4. QED
    BY <1>1, <2>1, <2>2, <2>3 DEF SeesReconciled, Midway, Working, AtWork, OpKind
<1>5. CASE SetExcludeFromGlobal(p)
  <2>1. op[p].feed = f /\ op[p].value \in BOOLEAN
    BY <1>0, <1>1, <1>5, OpShape DEF SetExcludeFromGlobal, ShapeOf, OpKind
  <2>2. s' = [s EXCEPT !.excl = op[p].value]
    <3>1. [s EXCEPT !.excl = op[p].value] \in Row
      BY <1>1, <2>1 DEF Row
    <3>2. UpdateState(p, f, [s EXCEPT !.excl = op[p].value])
      BY <1>5, <2>1 DEF SetExcludeFromGlobal
    <3>3. QED
      BY <1>0, <3>1, <3>2, RowAfter
  <2>3. SeenOf(p, f)' = SeenOf(p, f) /\ op' = op /\ pc'[p] = "read"
    BY <1>1, <1>3, <1>5 DEF SetExcludeFromGlobal
  <2>4. SeesReconciled(p, f)
    BY <1>1, <1>5 DEF SetExcludeFromGlobal, Midway, OpKind
  <2>5. s'.mat = s.mat
    BY <1>1, <2>2 DEF Row
  <2>6. QED
    BY <1>1, <2>3, <2>4, <2>5 DEF SeesReconciled, Midway, Working, AtWork, OpKind
<1>6. CASE SetFeedStatePublic(p)
  <2>1. op[p].feed = f
    BY <1>0, <1>1, <1>6, OpShape DEF SetFeedStatePublic, ShapeOf, OpKind
  <2>2. SeesReconciled(p, f)
    BY <1>1, <1>6 DEF SetFeedStatePublic, Midway, OpKind
  <2>3. s' = s /\ SeenOf(p, f)' = SeenOf(p, f) /\ op' = op
    BY <1>2, <1>6 DEF SetFeedStatePublic
  <2>4. pc'[p] \in {"next", "commit"} \/ (pc'[p] = "save" /\ saved'[p] = s)
    BY <1>1, <1>6, <2>1 DEF SetFeedStatePublic, EndOp
  <2>5. QED
    BY <1>1, <2>2, <2>3, <2>4 DEF SeesReconciled, Midway, Working, AtWork, OpKind
<1>7. CASE SaveFeedState(p)
  <2>1. op[p].feed = f /\ op[p].value \in BOOLEAN
    BY <1>0, <1>1, <1>7, OpShape DEF SaveFeedState, ShapeOf, OpKind
  <2>2. SeesReconciled(p, f) /\ saved[p] = s
    BY <1>1, <1>7 DEF SaveFeedState, Midway
  <2>3. s' = [s EXCEPT !.public = op[p].value]
    <3>1. [s EXCEPT !.public = op[p].value] \in Row
      BY <1>1, <2>1 DEF Row
    <3>2. UpdateState(p, f, [s EXCEPT !.public = op[p].value])
      BY <1>7, <2>1, <2>2 DEF SaveFeedState
    <3>3. QED
      BY <1>0, <3>1, <3>2, RowAfter
  <2>4. SeenOf(p, f)' = SeenOf(p, f) /\ pc'[p] \in {"next", "commit"}
    BY <1>1, <1>3, <1>7 DEF SaveFeedState, EndOp
  <2>5. s'.mat = s.mat /\ s'.excl = s.excl /\ s'.active = s.active
    BY <1>1, <2>3 DEF Row
  <2>6. SeesReconciled(p, f)'
    BY <2>2, <2>4, <2>5 DEF SeesReconciled
  <2>7. QED
    BY <2>4, <2>6 DEF Working, AtWork, OpKind
<1>8. CASE ReconcileRead(p)
  <2>1. s' = s /\ SeenOf(p, f)' = SeenOf(p, f) /\ op' = op /\ target' = target
    BY <1>2, <1>8 DEF ReconcileRead
  <2>2. SeenOf(p, f) = {s.mat} \ {NoVersion}
    BY <1>1, <1>8 DEF ReconcileRead, Midway
  <2>3. goal'[p] = (IF s.excl THEN NoVersion ELSE target[p]) /\ old'[p] = s.mat
    BY <1>1, <1>8 DEF ReconcileRead
  <2>4. /\ pc'[p] \in {"write", "demat", "clear"}
        /\ pc'[p] = "write" => s.mat = goal'[p]
        /\ pc'[p] = "demat" => s.mat # NoVersion
        /\ pc'[p] = "clear" => s.mat = NoVersion
    BY <1>1, <1>8 DEF ReconcileRead
  <2>5. QED
    BY <1>1, <2>1, <2>2, <2>3, <2>4 DEF Midway, Working, AtWork, OpKind
<1>9. CASE ReconcileDematerialize(p)
  <2>1. old[p] \in Version
    BY <1>0, <1>9 DEF ReconcileDematerialize, InFeedOf, Of
  <2>2. SeenOf(p, f)' = SeenOf(p, f) \ {old[p]}
    BY <1>0, <1>9, <2>1, SeenAfter DEF ReconcileDematerialize
  <2>3. SeenOf(p, f) = {old[p]} /\ goal[p] = IF s.excl THEN NoVersion ELSE target[p]
    BY <1>1, <1>9 DEF ReconcileDematerialize, Midway
  <2>4. s' = s
    BY <1>9 DEF ReconcileDematerialize, DematerializeFeedVersion, getFeedStatePointers
  <2>5. /\ pc'[p] \in {"write", "clear"} /\ (pc'[p] = "write" => goal[p] = NoVersion)
        /\ UNCHANGED <<op, goal, target>>
    BY <1>1, <1>9 DEF ReconcileDematerialize
  <2>6. QED
    BY <1>1, <2>2, <2>3, <2>4, <2>5 DEF Midway, Working, AtWork, OpKind
<1>10. CASE MaterializeClear(p)
  <2>1. goal[p] \in Version
    BY <1>0, <1>10 DEF MaterializeClear, InFeedOf, Of
  <2>2. SeenOf(p, f)' = SeenOf(p, f) \ {goal[p]}
    BY <1>0, <1>10, <2>1, SeenAfter DEF MaterializeClear
  <2>3. SeenOf(p, f) = {} /\ goal[p] = IF s.excl THEN NoVersion ELSE target[p]
    BY <1>1, <1>10 DEF MaterializeClear, Midway
  <2>4. s' = s
    BY <1>10 DEF MaterializeClear, DematerializeFeedVersion, getFeedStatePointers
  <2>5. pc'[p] = "insert" /\ UNCHANGED <<op, goal, target>>
    BY <1>1, <1>10 DEF MaterializeClear
  <2>6. QED
    BY <1>1, <2>2, <2>3, <2>4, <2>5 DEF Midway, Working, AtWork, OpKind
<1>11. CASE MaterializeInsert(p)
  <2>1. goal[p] \in Version /\ FeedOf[goal[p]] = f /\ op[p].kind # "materialize"
    BY <1>0, <1>1, <1>11 DEF MaterializeInsert, InFeedOf, Of, Moving
  <2>2. Seen(p)' = Seen(p) \cup {goal[p]}
    BY <1>0, <1>11, <2>1, SeenAfter DEF MaterializeInsert
  <2>3. SeenOf(p, f) = {} /\ goal[p] = IF s.excl THEN NoVersion ELSE target[p]
    BY <1>1, <1>11 DEF MaterializeInsert, Midway
  <2>4. SeenOf(p, f)' = {goal[p]} \ {NoVersion}
    BY <2>1, <2>2, <2>3, FeedStateAssumption DEF SeenOf
  <2>5. s' = s
    BY <1>11 DEF MaterializeInsert, InsertRows, getFeedStatePointers
  <2>6. pc'[p] = "write" /\ UNCHANGED <<op, goal, target>>
    BY <1>1, <1>11, <2>1 DEF MaterializeInsert
  <2>7. QED
    BY <1>1, <2>3, <2>4, <2>5, <2>6 DEF Midway, Working, AtWork, OpKind
<1>12. CASE ReconcileWrite(p)
  <2>1. s' = [s EXCEPT !.active = target[p], !.mat = goal[p]]
    <3>1. [s EXCEPT !.active = target[p], !.mat = goal[p]] \in Row
      BY <1>1 DEF Row
    <3>2. UpdateState(p, f, [s EXCEPT !.active = target[p], !.mat = goal[p]])
      BY <1>1, <1>12 DEF ReconcileWrite
    <3>3. QED
      BY <1>0, <3>1, <3>2, RowAfter
  <2>2. SeenOf(p, f)' = SeenOf(p, f) /\ pc'[p] \in {"next", "commit"}
    BY <1>1, <1>3, <1>12 DEF ReconcileWrite, EndOp
  <2>3. /\ SeenOf(p, f) = {goal[p]} \ {NoVersion}
        /\ goal[p] = IF s.excl THEN NoVersion ELSE target[p]
    BY <1>1, <1>12 DEF ReconcileWrite, Midway
  <2>4. s'.mat = goal[p] /\ s'.active = target[p] /\ s'.excl = s.excl
    BY <1>1, <2>1 DEF Row
  <2>5. SeesReconciled(p, f)'
    BY <2>2, <2>3, <2>4 DEF SeesReconciled
  <2>6. QED
    BY <2>2, <2>5 DEF Working, AtWork, OpKind
<1>13. CASE Dematerialize(p) \/ Materialize(p)
  BY <1>0, <1>13 DEF Dematerialize, Materialize, ShapeOf, Forced, OpKind
<1>14. CASE Commit(p) \/ Rollback(p)
  BY <1>14 DEF Commit, Rollback
<1>15. CASE (\E r \in Request : Start(p, r) \/ StartCommand(p, r)) \/ TakeOp(p) \/ AllDone(p)
  BY <1>15 DEF Start, StartCommand, TakeOp, AllDone, AtWork, OpKind
<1>16. CASE PlanSet(p) \/ PlanSyncPointers(p) \/ PlanSyncTables(p)
  BY <1>16 DEF PlanSet, PlanSyncPointers, PlanSyncTables, AtWork, OpKind
<1>17. QED
  BY <1>4, <1>5, <1>6, <1>7, <1>8, <1>9, <1>10, <1>11, <1>12, <1>13, <1>14, <1>15, <1>16 DEF Acts

\* A transaction's own step keeps what it sees.
LEMMA ViewOwn ==
  ASSUME TxInv, TxInv', FeedsReconciled, NEW p \in Proc, Acts(p), ViewOf(p), RepairsOf(p)
  PROVE  ViewOf(p)'
<1> SUFFICES ASSUME NEW f \in touched'[p], ~Mixed(f)'
             PROVE  (IF Working(p, f) THEN Midway(p) ELSE SeesReconciled(p, f))'
  BY DEF ViewOf
<1>1. f \in Feed /\ ~Mixed(f) /\ ~EndTx(p)
  <2>1. f \in Feed
    BY DEF TxInv, TypeOK
  <2>2. ~Mixed(f)
    BY MixedStays DEF TxInv
  <2>3. ~EndTx(p)
    BY DEF EndTx, TxInv, TypeOK
  <2>4. QED
    BY <2>1, <2>2, <2>3
<1>2. \/ ~Working(p, f)'
      \/ pc'[p] \in OpKind /\ pc[p] \notin AtWork /\ FeedOfOp(op[p])' = f
      \/ Working(p, f)
  BY WorkStarts DEF TxInv, Working, FeedOfOp
<1>3. CASE SeesReconciled(p, f)' /\ ~Working(p, f)
  <2>1. pc'[p] \in OpKind => pc'[p] \notin {"save", "read", "demat", "clear", "insert", "write"}
    BY DEF OpKind
  <2>2. QED
    BY <1>2, <1>3, <2>1 DEF Midway
<1>4. CASE f \notin touched[p]
  <2>1. Reconciled(f)
    BY <1>1 DEF FeedsReconciled
  <2>2. SeesReconciled(p, f)' /\ pc[p] \notin AtWork
    BY <1>1, <1>4, <2>1, FreshView DEF TxInv
  <2>3. QED
    BY <1>3, <2>2 DEF Working
<1>5. CASE f \in touched[p] /\ ~Working(p, f)
  <2>1. SeesReconciled(p, f)
    BY <1>1, <1>5 DEF ViewOf
  <2>2. getFeedStatePointers(p, f)' = getFeedStatePointers(p, f) /\ SeenOf(p, f)' = SeenOf(p, f)
    BY <1>1, <1>5, OwnView DEF TxInv, Working
  <2>3. QED
    BY <1>3, <1>5, <2>1, <2>2 DEF SeesReconciled
<1>6. CASE f \in touched[p] /\ Working(p, f)
  <2>1. Midway(p) /\ pc[p] \in AtWork /\ FeedOfOp(op[p]) = f
    BY <1>1, <1>6 DEF ViewOf, Working
  <2>2. op[p] \in Op
    BY <2>1 DEF TxInv, Shape, ShapeOf
  <2>3. op[p].kind \notin Forced
    BY <1>1, <2>1, <2>2, OpShape DEF RepairsOf, Forced
  <2>4. QED
    BY <1>1, <2>1, <2>3, MidwayKept
<1>7. QED
  BY <1>4, <1>5, <1>6

\* What is committed stays reconciled: a commit writes what its transaction sees.
LEMMA ReconciledKept ==
  ASSUME TxInv, TxInv', FeedsReconciled, NEW p \in Proc, Acts(p), ViewOf(p)
  PROVE  FeedsReconciled'
<1> SUFFICES ASSUME NEW f \in Feed, ~Mixed(f)' PROVE Reconciled(f)'
  BY DEF FeedsReconciled
<1>1. ~Mixed(f) /\ Reconciled(f)
  BY MixedStays DEF FeedsReconciled, TxInv
<1>2. CASE UNCHANGED <<fs, rows>>
  BY <1>1, <1>2 DEF Reconciled, RowsOf
<1>3. CASE f \notin touched[p]
  <2>1. fs'[f] = fs[f] /\ \A v \in Version : FeedOf[v] = f => (v \in rows' <=> v \in rows)
    BY <1>3, OtherFeeds DEF TxInv
  <2>2. RowsOf(f)' = RowsOf(f)
    BY <2>1 DEF RowsOf, TxInv, TypeOK
  <2>3. QED
    BY <1>1, <2>1, <2>2 DEF Reconciled
<1>4. CASE Commit(p) /\ f \in touched[p]
  <2>1. SeesReconciled(p, f)
    BY <1>1, <1>4 DEF ViewOf, Working, Commit, AtWork, OpKind
  <2>2. fs'[f] = getFeedStatePointers(p, f) /\ RowsOf(f)' = SeenOf(p, f)
    BY <1>4 DEF Commit, RowsOf, SeenOf, Seen
  <2>3. QED
    BY <2>1, <2>2 DEF SeesReconciled, Reconciled
<1>5. QED
  BY <1>2, <1>3, <1>4, OthersUntouched DEF TxInv

-----------------------------------------------------------------------------
(* What a sync plans *)

\* The pointers name a version through its own feed only.
LEMMA NamedVersions ==
  ASSUME TxInv, NEW p \in Proc, NEW v \in Version
  PROVE  v \in GetMaterializedFeedVersionPointers(p)
           <=> getFeedStatePointers(p, FeedOf[v]).mat = v
<1>1. \A f \in Feed : getFeedStatePointers(p, f) \in FeedRow(f)
  BY DEF TxInv, InFeed, InFeedOf, getFeedStatePointers
<1>2. ASSUME NEW f \in Feed, getFeedStatePointers(p, f).mat = v PROVE FeedOf[v] = f
  BY <1>1, <1>2, FeedStateAssumption DEF FeedRow, Of
<1>3. FeedOf[v] \in Feed /\ v # NoVersion
  BY FeedStateAssumption
<1>4. QED
  BY <1>2, <1>3 DEF GetMaterializedFeedVersionPointers

\* A sync that has read the pointers finds rows amiss only in feeds transactions met on.
LEMMA PlannedPointers ==
  ASSUME TxInv, NEW p \in Proc, PlanSyncPointers(p), ViewOf(p), NEW v \in Version,
         ~Mixed(FeedOf[v])
  PROVE  v \in rows <=> \E o \in ops'[p] : o.version = v
<1> DEFINE f == FeedOf[v]
<1> DEFINE named == GetMaterializedFeedVersionPointers(p)
<1>1. f \in Feed /\ v # NoVersion
  BY FeedStateAssumption
<1>2. pc[p] = "plan" /\ Open(p) /\ InOneTx(req[p])
  BY DEF PlanSyncPointers, Open, InOneTx
<1>3. touched[p] = Feed /\ ins[p] = {} /\ del[p] = {}
  BY <1>2 DEF TxInv, Scope, ScopeOf
<1>4. SeesReconciled(p, f)
  BY <1>1, <1>2, <1>3 DEF ViewOf, Working, AtWork, OpKind
<1>5. v \in rows <=> getFeedStatePointers(p, f).mat = v
  BY <1>1, <1>3, <1>4 DEF SeesReconciled, SeenOf, Seen
<1>6. v \in rows <=> v \in named
  BY <1>5, NamedVersions
<1>7. ops'[p] = Ops("materialize", named)
  BY DEF PlanSyncPointers, TxInv, TypeOK
<1>8. "materialize" \in Forced /\ named \in SUBSET Version
  BY PointersAreVersions DEF Forced, TxInv
<1>9. QED
  BY <1>6, <1>7, <1>8, ForcedOps

\* The operations of a sync are on versions with rows amiss.
LEMMA PlannedRepairs ==
  ASSUME TypeOK, Shape, NEW p \in Proc, PlanSyncTables(p), RepairsOf(p), NEW o \in ops'[p]
  PROVE  Mixed(FeedOf[o.version])
<1> DEFINE targets == {u.version : u \in ops[p]}
<1>1. ops[p] \subseteq Op /\ \A u \in ops[p] : u.kind \in Forced
  BY RequestShape DEF PlanSyncTables, Shape, ShapeOf, TypeOK, Belongs
<1>2. targets \in SUBSET Version /\ rows \in SUBSET Version
  BY <1>1, OpShape, SMTT(30) DEF Forced, TypeOK
<1>3. ops'[p] = Ops("dematerialize", rows \ targets) \cup Ops("materialize", targets \ rows)
  BY DEF PlanSyncTables, TypeOK
<1>4. o.version \in rows \ targets \/ o.version \in targets \ rows
  <2>1. CASE o \in Ops("dematerialize", rows \ targets)
    BY <1>2, <2>1, ForcedOps DEF Forced
  <2>2. CASE o \in Ops("materialize", targets \ rows)
    BY <1>2, <2>2, ForcedOps DEF Forced
  <2>3. QED
    BY <1>3, <2>1, <2>2
<1>5. o.version \in Version
  BY <1>2, <1>4
<1>6. pc[p] = "tables"
  BY DEF PlanSyncTables
<1>7. Mixed(FeedOf[o.version]) \/ (o.version \in rows <=> o.version \in targets)
  BY <1>5, <1>6 DEF RepairsOf
<1>8. QED
  BY <1>4, <1>7

LEMMA RepairsOthers ==
  ASSUME TxInv, TxInv', NEW p \in Proc, Acts(p), NEW q \in Proc, q # p, RepairsOf(q)
  PROVE  RepairsOf(q)'
<1>1. pc'[q] = pc[q] /\ ops'[q] = ops[q] /\ op'[q] = op[q]
  BY OthersUntouched DEF TxInv
<1>2. \A f : Mixed(f) => Mixed(f)'
  BY MixedStays DEF TxInv
<1>3. ASSUME pc[q] = "tables", NEW v \in Version
      PROVE  Mixed(FeedOf[v])' \/ (v \in rows' <=> \E o \in ops[q] : o.version = v)
  <2>1. touched[q] = Feed
    BY <1>3 DEF TxInv, Shape, ShapeOf, Scope, ScopeOf, Open
  <2>2. FeedOf[v] \in touched[q]
    BY <2>1, FeedStateAssumption
  <2>3. CASE ~Mixed(FeedOf[v])'
    <3>1. ~Mixed(FeedOf[v]) /\ (v \in rows' <=> v \in rows)
      BY <2>2, <2>3, OthersView DEF TxInv
    <3>2. QED
      BY <1>3, <3>1 DEF RepairsOf
  <2>4. QED
    BY <2>3
<1>4. QED
  BY <1>1, <1>2, <1>3 DEF RepairsOf

LEMMA RepairsOwn ==
  ASSUME TxInv, TxInv', Unforced, NEW p \in Proc, Acts(p), ViewOf(p), RepairsOf(p)
  PROVE  RepairsOf(p)'
<1> USE DEF Goto, locals, txVars
<1>0. /\ TypeOK /\ ShapeOf(p) /\ pc \in [Proc -> Pc] /\ ops \in [Proc -> SUBSET Op]
      /\ op \in [Proc -> Op \cup {NoRequest}]
  BY DEF TxInv, Shape, TypeOK
<1>1. \A f : Mixed(f) => Mixed(f)'
  BY MixedStays DEF TxInv
\* Steps that add no operation and begin none.
<1>2. ASSUME ops'[p] \subseteq ops[p], pc[p] # "tables", pc'[p] # "tables",
             pc'[p] \notin AtWork \/ (pc[p] \in AtWork /\ op' = op)
      PROVE  RepairsOf(p)'
  BY <1>1, <1>2 DEF RepairsOf
<1>3. ASSUME \A o \in ops'[p] : o.kind \notin Forced, pc'[p] \notin AtWork, pc'[p] # "tables"
      PROVE  RepairsOf(p)'
  BY <1>3 DEF RepairsOf
<1>4. CASE \E r \in Request : Start(p, r)
  <2>1. PICK r \in Request : Start(p, r)
    BY <1>4
  <2>2. pc'[p] \notin AtWork /\ pc'[p] # "tables"
    BY <1>0, <2>1 DEF Start, AtWork, OpKind
  <2>3. \A o \in ops'[p] : o.kind \notin Forced
    <3>1. CASE ops'[p] = {r}
      BY <3>1 DEF Unforced, Forced
    <3>2. CASE r.kind = "set" /\ ops'[p] = CalculateSetActiveChanges(p, r.versions)
      BY <1>0, <3>2, RequestShape, PlannedOps DEF Forced
    <3>3. QED
      BY <1>0, <2>1, <3>1, <3>2 DEF Start
  <2>4. QED
    BY <1>3, <2>2, <2>3
<1>5. CASE (\E r \in Request : StartCommand(p, r)) \/ AllDone(p)
  BY <1>0, <1>2, <1>5 DEF StartCommand, AllDone, AtWork, OpKind
<1>6. CASE PlanSet(p)
  <2>1. req[p] \in Request /\ req[p].kind = "set"
    BY <1>0, <1>6 DEF PlanSet, ShapeOf
  <2>2. \A o \in ops'[p] : o.kind \notin Forced
    BY <1>0, <1>6, <2>1, RequestShape, PlannedOps DEF PlanSet, Forced
  <2>3. QED
    BY <1>0, <1>3, <1>6, <2>2 DEF PlanSet, AtWork, OpKind
<1>7. CASE PlanSyncPointers(p)
  <2>1. pc'[p] = "tables" /\ rows' = rows
    BY <1>0, <1>7 DEF PlanSyncPointers
  <2>2. \A v \in Version : Mixed(FeedOf[v])' \/ (v \in rows' <=> \E o \in ops'[p] : o.version = v)
    BY <1>1, <1>7, <2>1, PlannedPointers
  <2>3. QED
    BY <2>1, <2>2 DEF RepairsOf, AtWork, OpKind
<1>8. CASE PlanSyncTables(p)
  <2>1. pc'[p] = "next" /\ \A o \in ops'[p] : Mixed(FeedOf[o.version])'
    BY <1>0, <1>1, <1>8, PlannedRepairs DEF PlanSyncTables, TxInv
  <2>2. QED
    BY <2>1 DEF RepairsOf, AtWork, OpKind
<1>9. CASE TakeOp(p)
  <2>1. PICK o \in First(ops[p]) :
          /\ op' = [op EXCEPT ![p] = o] /\ ops' = [ops EXCEPT ![p] = @ \ {o}]
          /\ pc' = [pc EXCEPT ![p] = o.kind]
    BY <1>9 DEF TakeOp
  <2>2. o \in ops[p] /\ o \in Op /\ pc[p] # "tables"
    BY <1>0, <1>9 DEF TakeOp, First
  <2>3. o.kind \in OpKind
    BY <2>2, OpShape
  <2>4. /\ op'[p] = o /\ ops'[p] \subseteq ops[p] /\ pc'[p] \in OpKind /\ pc'[p] # "tables"
    BY <1>0, <2>1, <2>3 DEF OpKind
  <2>5. \A u \in ops'[p] : u.kind \in Forced => Mixed(FeedOf[u.version])'
    BY <1>1, <2>2, <2>4 DEF RepairsOf
  <2>6. o.kind \in Forced => Mixed(FeedOf[o.version])'
    BY <1>1, <2>2 DEF RepairsOf
  <2>7. QED
    BY <2>4, <2>5, <2>6 DEF RepairsOf, Mixed
<1>10. CASE Activate(p) \/ Deactivate(p) \/ SetFeedStatePublic(p) \/ Materialize(p)
  BY <1>0, <1>2, <1>10
  DEF Activate, Deactivate, SetFeedStatePublic, Materialize, EndOp, AtWork, OpKind
<1>11. CASE SetExcludeFromGlobal(p) \/ SaveFeedState(p) \/ Dematerialize(p)
  BY <1>0, <1>2, <1>11
  DEF SetExcludeFromGlobal, SaveFeedState, Dematerialize, EndOp, AtWork, OpKind
<1>12. CASE ReconcileRead(p) \/ ReconcileDematerialize(p) \/ MaterializeClear(p)
  BY <1>0, <1>2, <1>12
  DEF ReconcileRead, ReconcileDematerialize, MaterializeClear, AtWork, OpKind
<1>13. CASE MaterializeInsert(p) \/ ReconcileWrite(p)
  BY <1>0, <1>2, <1>13 DEF MaterializeInsert, ReconcileWrite, EndOp, AtWork, OpKind
<1>14. CASE Commit(p)
  BY <1>0, <1>2, <1>14 DEF Commit, EndTx, AtWork, OpKind
<1>15. CASE Rollback(p)
  <2>1. ops'[p] = {} /\ pc'[p] = "failed"
    BY <1>0, <1>15 DEF Rollback
  <2>2. QED
    BY <2>1 DEF RepairsOf, AtWork, OpKind
<1>16. QED
  BY <1>4, <1>5, <1>6, <1>7, <1>8, <1>9, <1>10, <1>11, <1>12, <1>13, <1>14, <1>15 DEF Acts

-----------------------------------------------------------------------------
(* The theorem on feeds *)

LEMMA InitReconciled == Init => ReconcileInv
<1> SUFFICES ASSUME Init PROVE ReconcileInv
  OBVIOUS
<1>1. TxInv
  BY InitTx
<1>2. FeedsReconciled
  BY DEF Init, FeedsReconciled
<1>3. \A p \in Proc : ViewOf(p) /\ RepairsOf(p)
  BY DEF Init, ViewOf, RepairsOf, AtWork, OpKind
<1>4. QED
  BY <1>1, <1>2, <1>3 DEF ReconcileInv

LEMMA ReconcileKept ==
  ASSUME Unforced, ReconcileInv, NEW p \in Proc, Acts(p)
  PROVE  ReconcileInv'
<1>1. TxInv /\ TxInv' /\ FeedsReconciled /\ \A q \in Proc : ViewOf(q) /\ RepairsOf(q)
  BY TxKept DEF ReconcileInv
<1>2. FeedsReconciled'
  BY <1>1, ReconciledKept
<1>3. ASSUME NEW q \in Proc
      PROVE  ViewOf(q)' /\ RepairsOf(q)'
  <2>1. CASE q = p
    BY <1>1, <2>1, ViewOwn, RepairsOwn
  <2>2. CASE q # p
    BY <1>1, <2>2, ViewOthers, RepairsOthers
  <2>3. QED
    BY <2>1, <2>2
<1>4. QED
  BY <1>1, <1>2, <1>3 DEF ReconcileInv

LEMMA ReconcileInductive ==
  ASSUME Unforced
  PROVE  ReconcileInv /\ [Next]_vars => ReconcileInv'
<1> SUFFICES ASSUME ReconcileInv, [Next]_vars PROVE ReconcileInv'
  OBVIOUS
<1>1. CASE UNCHANGED vars
  <2>1. TxInv' /\ FeedsReconciled'
    <3>1. TxInv'
      BY <1>1, Stuttering DEF ReconcileInv
    <3>2. FeedsReconciled'
      BY <1>1 DEF ReconcileInv, FeedsReconciled, Mixed, Reconciled, RowsOf, vars
    <3>3. QED
      BY <3>1, <3>2
  <2>2. ASSUME NEW p \in Proc PROVE ViewOf(p)' /\ RepairsOf(p)'
    <3>1. ViewOf(p) /\ RepairsOf(p)
      BY DEF ReconcileInv
    <3>2. \A f : /\ Mixed(f)' <=> Mixed(f)
                 /\ getFeedStatePointers(p, f)' = getFeedStatePointers(p, f)
                 /\ SeenOf(p, f)' = SeenOf(p, f)
      BY <1>1 DEF Mixed, getFeedStatePointers, SeenOf, Seen, vars, txVars
    <3>3. /\ UNCHANGED <<pc, op, ops, target, old, goal, saved, touched, rows>>
      BY <1>1 DEF vars, locals
    <3>4. ViewOf(p)'
      <4>1. \A f : SeesReconciled(p, f)' <=> SeesReconciled(p, f)
        BY <3>2 DEF SeesReconciled
      <4>2. \A f : Working(p, f)' <=> Working(p, f)
        BY <3>3 DEF Working, FeedOfOp
      <4>3. FeedOfOp(op[p])' = FeedOfOp(op[p])
        BY <3>3 DEF FeedOfOp
      <4>4. Midway(p)' <=> Midway(p)
        BY <3>2, <3>3, <4>1, <4>3 DEF Midway
      <4>5. QED
        BY <3>1, <3>2, <3>3, <4>1, <4>2, <4>4 DEF ViewOf
    <3>5. RepairsOf(p)'
      <4>1. \A f : Mixed(f)' <=> Mixed(f)
        BY <3>2
      <4>2. /\ ops'[p] = ops[p] /\ op'[p] = op[p] /\ pc'[p] = pc[p] /\ rows' = rows
        BY <3>3
      <4>3. QED
        BY <3>1, <4>1, <4>2 DEF RepairsOf
    <3>6. QED
      BY <3>4, <3>5
  <2>3. QED
    BY <2>1, <2>2 DEF ReconcileInv
<1>2. CASE Next
  BY <1>2, ReconcileKept DEF Next, Acts
<1>3. QED
  BY <1>1, <1>2

\* Whatever requests run, side by side or one after the other, and wherever they fail:
\* between transactions the pointer, the flag and the rows of a feed agree, unless two
\* transactions used the feed at once. The operations that force rows in or out of the
\* tables are the one exception, by their purpose, and no request is one of them.
THEOREM FeedsStayReconciled ==
  ASSUME Unforced
  PROVE  Spec => []FeedsReconciled
<1>1. ReconcileInv => FeedsReconciled
  BY DEF ReconcileInv
<1>2. ReconcileInv /\ [Next]_vars => ReconcileInv'
  BY ReconcileInductive
<1>3. QED
  BY <1>1, <1>2, InitReconciled, PTL DEF Spec

-----------------------------------------------------------------------------
(* A sync that runs alone *)

Wanted == {fs[f].mat : f \in Feed} \ {NoVersion}
Pending(p) ==
  ops[p] \cup (IF pc[p] \in Forced \cup {"clear", "insert"} THEN {op[p]} ELSE {})

\* A sync that meets nobody has one operation to come for every version whose rows do
\* not match the pointers, and none that would undo a match.
SyncOf(p) ==
  req[p].kind = "sync" /\ Alone(p) /\ Open(p) =>
    /\ wrote[p] = NoWrite
    /\ pc[p] = "tables" => ops[p] = Ops("materialize", Wanted)
    /\ pc[p] \notin {"plan", "tables"} =>
         /\ \A o \in Pending(p) : o.kind = "materialize" <=> o.version \in Wanted
         /\ \A v \in Version : (v \in Seen(p) <=> v \in Wanted)
                               \/ \E o \in Pending(p) : o.version = v
    /\ pc[p] \in {"clear", "insert"} => goal[p] = op[p].version
Synced == \A p \in Proc : SyncOf(p)

LEMMA WantedVersions ==
  ASSUME TypeOK
  PROVE  /\ Wanted \subseteq Version
         /\ \A p \in Proc : wrote[p] = NoWrite =>
              GetMaterializedFeedVersionPointers(p) = Wanted
<1>1. Wanted \subseteq Version
  BY DEF Wanted, TypeOK, Row, Pointer
<1>2. ASSUME NEW p \in Proc, wrote[p] = NoWrite
      PROVE  GetMaterializedFeedVersionPointers(p) = Wanted
  BY <1>2 DEF GetMaterializedFeedVersionPointers, getFeedStatePointers, Wanted, NoWrite
<1>3. QED
  BY <1>1, <1>2

\* While a sync meets nobody, no other transaction has used any feed, so none commits
\* anything.
LEMMA AloneSees ==
  ASSUME TxInv, TxInv', NEW p \in Proc, Acts(p), NEW q \in Proc, q # p, Open(q),
         req[q].kind = "sync", Alone(q)
  PROVE  UNCHANGED <<fs, rows>>
<1>1. touched[q] = Feed
  BY DEF TxInv, Scope, ScopeOf, InOneTx
<1>2. touched[p] = {}
  BY <1>1 DEF TxInv, TypeOK, Scope, Alone
<1>3. fs' = fs
  <2>1. \A f \in Feed : fs'[f] = fs[f]
    BY <1>2, OtherFeeds DEF TxInv
  <2>2. QED
    BY <2>1 DEF TxInv, TypeOK
<1>4. rows' = rows
  <2>1. ASSUME NEW v \in Version PROVE v \in rows' <=> v \in rows
    BY <1>2, OtherFeeds, FeedStateAssumption DEF TxInv
  <2>2. QED
    BY <2>1 DEF TxInv, TypeOK
<1>5. QED
  BY <1>3, <1>4

LEMMA SyncOthers ==
  ASSUME TxInv, TxInv', NEW p \in Proc, Acts(p), NEW q \in Proc, q # p, SyncOf(q)
  PROVE  SyncOf(q)'
<1>1. /\ pc'[q] = pc[q] /\ req'[q] = req[q] /\ ops'[q] = ops[q] /\ op'[q] = op[q]
      /\ goal'[q] = goal[q] /\ wrote'[q] = wrote[q] /\ ins'[q] = ins[q] /\ del'[q] = del[q]
      /\ met \subseteq met'
  BY OthersUntouched DEF TxInv
<1>2. Alone(q)' => Alone(q)
  BY <1>1 DEF Alone
<1>3. CASE Open(q) /\ req[q].kind = "sync" /\ Alone(q)
  <2>1. UNCHANGED <<fs, rows>>
    BY <1>3, AloneSees
  <2>2. Wanted' = Wanted /\ Seen(q)' = Seen(q) /\ Pending(q)' = Pending(q)
    BY <1>1, <2>1 DEF Wanted, Seen, Pending
  <2>3. QED
    BY <1>1, <1>3, <2>2 DEF SyncOf, Ops
<1>4. QED
  BY <1>1, <1>2, <1>3 DEF SyncOf, Open

\* The operations of a sync put rows in or take them out, and nothing else.
LEMMA SyncShape ==
  ASSUME TxInv, NEW p \in Proc, req[p].kind = "sync", pc[p] # "idle"
  PROVE  /\ \A o \in ops[p] : o \in Op /\ o.kind \in Forced /\ o.version \in Version
         /\ pc[p] \in AtWork => /\ op[p] \in Op /\ op[p].kind \in Forced
                                /\ op[p].version \in Version
                                /\ pc[p] \in Forced \cup {"clear", "insert"}
<1>1. ShapeOf(p) /\ req[p] \in Request /\ ops[p] \subseteq Op
  BY DEF TxInv, Shape, ShapeOf, TypeOK
<1>2. ASSUME NEW o \in Op, Belongs(o, req[p]) PROVE o.kind \in Forced /\ o.version \in Version
  <2>1. o.kind \in Forced
    BY <1>1, <1>2, RequestShape DEF Belongs
  <2>2. QED
    BY <2>1, OpShape DEF Forced
<1>3. \A o \in ops[p] : o \in Op /\ o.kind \in Forced /\ o.version \in Version
  BY <1>1, <1>2 DEF ShapeOf
<1>4. ASSUME pc[p] \in AtWork
      PROVE  /\ op[p] \in Op /\ op[p].kind \in Forced /\ op[p].version \in Version
             /\ pc[p] \in Forced \cup {"clear", "insert"}
  <2>1. op[p] \in Op /\ op[p].kind \in OpKind
    BY <1>1, <1>4, OpShape DEF ShapeOf
  <2>2. op[p] # NoRequest
    BY <2>1 DEF NoRequest, OpKind
  <2>3. op[p].kind \in Forced /\ op[p].version \in Version
    BY <1>1, <1>2, <2>1, <2>2 DEF ShapeOf
  <2>4. QED
    BY <1>1, <1>4, <2>1, <2>3 DEF ShapeOf, AtWork, OpKind, Forced, Moving
<1>5. QED
  BY <1>3, <1>4

LEMMA SyncOwn ==
  ASSUME TxInv, TxInv', NEW p \in Proc, Acts(p), SyncOf(p)
  PROVE  SyncOf(p)'
<1> USE DEF Goto, locals, txVars
<1>0. /\ TypeOK /\ ShapeOf(p) /\ pc \in [Proc -> Pc] /\ ops \in [Proc -> SUBSET Op]
      /\ op \in [Proc -> Op \cup {NoRequest}] /\ req \in [Proc -> Request \cup {NoRequest}]
      /\ goal \in [Proc -> Pointer]
  BY DEF TxInv, Shape, TypeOK
<1> SUFFICES ASSUME (req[p].kind = "sync" /\ Alone(p) /\ Open(p))'
             PROVE  (/\ wrote[p] = NoWrite
                     /\ pc[p] = "tables" => ops[p] = Ops("materialize", Wanted)
                     /\ pc[p] \notin {"plan", "tables"} =>
                          /\ \A o \in Pending(p) : o.kind = "materialize" <=> o.version \in Wanted
                          /\ \A v \in Version : (v \in Seen(p) <=> v \in Wanted)
                                                \/ \E o \in Pending(p) : o.version = v
                     /\ pc[p] \in {"clear", "insert"} => goal[p] = op[p].version)'
  BY DEF SyncOf
<1>1. CASE \E r \in Request : Start(p, r)
  BY <1>0, <1>1 DEF Start, Open
<1>2. CASE \E r \in Request : StartCommand(p, r)
  <2>1. pc'[p] = "plan" /\ wrote' = wrote
    BY <1>0, <1>2 DEF StartCommand
  <2>2. wrote[p] = NoWrite
    BY <1>2, Untouched DEF StartCommand, TxInv, Scope, ScopeOf, Open
  <2>3. QED
    BY <2>1, <2>2
\* From here on the transaction was open before the step, and alone.
<1>3. ASSUME Open(p), req' = req
      PROVE  /\ req[p].kind = "sync" /\ wrote[p] = NoWrite
             /\ pc[p] = "tables" => ops[p] = Ops("materialize", Wanted)
             /\ pc[p] \notin {"plan", "tables"} =>
                  /\ \A o \in Pending(p) : o.kind = "materialize" <=> o.version \in Wanted
                  /\ \A v \in Version : (v \in Seen(p) <=> v \in Wanted)
                                        \/ \E o \in Pending(p) : o.version = v
             /\ pc[p] \in {"clear", "insert"} => goal[p] = op[p].version
             /\ pc[p] \in AtWork => /\ op[p] \in Op /\ op[p].kind \in Forced
                                    /\ op[p].version \in Version
                                    /\ pc[p] \in Forced \cup {"clear", "insert"}
             /\ \A o \in ops[p] : o \in Op /\ o.kind \in Forced /\ o.version \in Version
  <2>1. req[p].kind = "sync"
    BY <1>3
  <2>2. Alone(p)
    BY OthersUntouched DEF Alone, TxInv
  <2>3. pc[p] # "idle"
    BY <1>3 DEF Open
  <2>4. QED
    BY <1>3, <2>1, <2>2, <2>3, SyncShape DEF SyncOf
<1>4. ASSUME UNCHANGED <<fs, rows>> PROVE Wanted' = Wanted
  BY <1>4 DEF Wanted
<1>5. CASE PlanSet(p)
  BY <1>3, <1>5 DEF PlanSet, Open
<1>6. CASE PlanSyncPointers(p)
  <2>1. wrote[p] = NoWrite
    BY <1>3, <1>6 DEF PlanSyncPointers, Open
  <2>2. ops'[p] = Ops("materialize", Wanted)
    BY <1>0, <1>6, <2>1, WantedVersions DEF PlanSyncPointers
  <2>3. Wanted' = Wanted /\ wrote' = wrote /\ pc'[p] = "tables"
    BY <1>0, <1>4, <1>6 DEF PlanSyncPointers
  <2>4. QED
    BY <2>1, <2>2, <2>3 DEF Ops
<1>7. CASE PlanSyncTables(p)
  <2> DEFINE targets == {u.version : u \in ops[p]}
  <2>1. ops[p] = Ops("materialize", Wanted) /\ wrote[p] = NoWrite
    BY <1>3, <1>7 DEF PlanSyncTables, Open
  <2>2. Wanted \in SUBSET Version /\ rows \in SUBSET Version
    BY <1>0, WantedVersions DEF TypeOK
  <2>3. targets = Wanted
    BY <2>1, <2>2, ForcedOps DEF Forced
  <2>4. ops'[p] = Ops("dematerialize", rows \ Wanted) \cup Ops("materialize", Wanted \ rows)
    <3>1. ops'[p] = Ops("dematerialize", rows \ targets) \cup Ops("materialize", targets \ rows)
      BY <1>0, <1>7 DEF PlanSyncTables
    <3>2. QED
      BY <2>3, <3>1
  <2>5. Wanted' = Wanted /\ wrote' = wrote /\ pc'[p] = "next" /\ ins' = ins /\ del' = del
        /\ rows' = rows
    BY <1>0, <1>4, <1>7 DEF PlanSyncTables
  <2>6. ins[p] = {} /\ del[p] = {}
    BY <1>7 DEF PlanSyncTables, TxInv, Scope, ScopeOf
  <2>7. Seen(p)' = rows /\ Pending(p)' = ops'[p]
    BY <2>5, <2>6 DEF Seen, Pending, Forced
  <2>8. \A o \in ops'[p] : o.kind = "materialize" <=> o.version \in Wanted
    <3>1. \A o \in Ops("dematerialize", rows \ Wanted) :
            o.kind = "dematerialize" /\ o.version \in rows \ Wanted
      BY <2>2, ForcedOps DEF Forced
    <3>2. \A o \in Ops("materialize", Wanted \ rows) :
            o.kind = "materialize" /\ o.version \in Wanted \ rows
      BY <2>2, ForcedOps DEF Forced
    <3>3. QED
      BY <2>4, <3>1, <3>2
  <2>9. \A v \in Version : (v \in rows <=> v \in Wanted) \/ \E o \in ops'[p] : o.version = v
    <3>1. \A v \in rows \ Wanted : \E o \in Ops("dematerialize", rows \ Wanted) : o.version = v
      BY <2>2, ForcedOps DEF Forced
    <3>2. \A v \in Wanted \ rows : \E o \in Ops("materialize", Wanted \ rows) : o.version = v
      BY <2>2, ForcedOps DEF Forced
    <3>3. QED
      BY <2>4, <3>1, <3>2
  <2>10. QED
    BY <2>1, <2>5, <2>7, <2>8, <2>9
<1>8. CASE TakeOp(p)
  <2>1. PICK o \in First(ops[p]) :
          /\ op' = [op EXCEPT ![p] = o] /\ ops' = [ops EXCEPT ![p] = @ \ {o}]
          /\ pc' = [pc EXCEPT ![p] = o.kind]
          /\ UNCHANGED <<fs, rows, req, wrote, ins, del>>
    BY <1>8 DEF TakeOp
  <2>2. pc[p] = "next" /\ Open(p)
    BY <1>0, <1>8, <2>1 DEF TakeOp, Open, ShapeOf, InOneTx
  <2>3. o \in ops[p] /\ o.kind \in Forced
    BY <1>3, <2>1, <2>2 DEF First
  <2>4. /\ pc'[p] \in Forced /\ op'[p] = o /\ ops'[p] = ops[p] \ {o}
    BY <1>0, <2>1, <2>3 DEF Pc, Forced
  <2>5. Pending(p)' = ops[p] /\ Pending(p) = ops[p]
    BY <2>2, <2>3, <2>4 DEF Pending, Forced
  <2>6. Wanted' = Wanted /\ Seen(p)' = Seen(p) /\ wrote' = wrote
    BY <1>4, <2>1 DEF Seen
  <2>7. pc'[p] \notin {"plan", "tables", "clear", "insert"}
    BY <2>4 DEF Forced
  <2>8. QED
    BY <1>3, <2>1, <2>2, <2>5, <2>6, <2>7
<1>9. CASE AllDone(p)
  <2>1. /\ pc[p] = "next" /\ pc'[p] = "commit" /\ Open(p)
        /\ UNCHANGED <<fs, rows, req, ops, wrote, ins, del>>
    BY <1>0, <1>9 DEF AllDone, Open
  <2>2. Pending(p)' = Pending(p) /\ Seen(p)' = Seen(p) /\ Wanted' = Wanted
    BY <1>4, <2>1 DEF Pending, Seen, Forced
  <2>3. QED
    BY <1>3, <2>1, <2>2
<1>10. CASE Materialize(p)
  <2>1. /\ pc[p] = "materialize" /\ pc'[p] = "clear" /\ Open(p) /\ goal'[p] = op[p].version
        /\ UNCHANGED <<fs, rows, req, ops, op, wrote, ins, del>>
    BY <1>0, <1>10 DEF Materialize, Open
  <2>2. Pending(p)' = Pending(p) /\ Seen(p)' = Seen(p) /\ Wanted' = Wanted
    BY <1>4, <2>1 DEF Pending, Seen, Forced
  <2>3. QED
    BY <1>3, <2>1, <2>2
<1>11. CASE MaterializeClear(p)
  <2>1. /\ pc[p] = "clear" /\ pc'[p] = "insert" /\ Open(p)
        /\ UNCHANGED <<fs, rows, req, ops, op, goal, wrote>>
    BY <1>0, <1>11 DEF MaterializeClear, Open, DematerializeFeedVersion
  <2>2. goal[p] = op[p].version /\ goal[p] \in Version
    BY <1>3, <2>1 DEF AtWork
  <2>3. Seen(p)' = Seen(p) \ {goal[p]}
    BY <1>0, <1>11, <2>2, SeenAfter DEF MaterializeClear
  <2>4. Pending(p)' = Pending(p) /\ op[p] \in Pending(p) /\ Wanted' = Wanted
    BY <1>4, <2>1 DEF Pending
  <2>5. QED
    BY <1>3, <2>1, <2>2, <2>3, <2>4
<1>12. CASE MaterializeInsert(p)
  <2>1. /\ pc[p] = "insert" /\ Open(p)
        /\ UNCHANGED <<fs, rows, req, ops, op, goal, wrote>>
    BY <1>0, <1>12 DEF MaterializeInsert, Open, InsertRows
  <2>2. goal[p] = op[p].version /\ goal[p] \in Version /\ op[p].kind = "materialize"
    BY <1>0, <1>3, <2>1 DEF AtWork, ShapeOf, Forced, Moving
  <2>3. Seen(p)' = Seen(p) \cup {goal[p]}
    BY <1>0, <1>12, <2>2, SeenAfter DEF MaterializeInsert
  <2>4. pc'[p] = "next"
    BY <1>0, <1>3, <1>12, <2>1, <2>2 DEF MaterializeInsert, EndOp, InOneTx
  <2>5. Pending(p)' = ops[p] /\ Pending(p) = ops[p] \cup {op[p]} /\ Wanted' = Wanted
    BY <1>4, <2>1, <2>4 DEF Pending, Forced
  <2>6. goal[p] \in Wanted
    BY <1>3, <2>1, <2>2, <2>5
  <2>7. QED
    BY <1>3, <2>1, <2>2, <2>3, <2>4, <2>5, <2>6
<1>13. CASE Dematerialize(p)
  <2>1. /\ pc[p] = "dematerialize" /\ Open(p)
        /\ UNCHANGED <<fs, rows, req, ops, op, wrote>>
    BY <1>0, <1>13 DEF Dematerialize, Open, DematerializeFeedVersion
  <2>2. op[p].version \in Version /\ op[p].kind = "dematerialize"
    BY <1>0, <1>3, <2>1 DEF AtWork, OpKind, ShapeOf
  <2>3. Seen(p)' = Seen(p) \ {op[p].version}
    BY <1>0, <1>13, <2>2, SeenAfter DEF Dematerialize
  <2>4. pc'[p] = "next"
    BY <1>0, <1>3, <1>13, <2>1 DEF Dematerialize, EndOp, InOneTx
  <2>5. Pending(p)' = ops[p] /\ Pending(p) = ops[p] \cup {op[p]} /\ Wanted' = Wanted
    BY <1>4, <2>1, <2>4 DEF Pending, Forced
  <2>6. op[p].version \notin Wanted
    BY <1>3, <2>1, <2>2, <2>5
  <2>7. QED
    BY <1>3, <2>1, <2>2, <2>3, <2>4, <2>5, <2>6
<1>14. CASE \/ Activate(p) \/ Deactivate(p) \/ SetFeedStatePublic(p)
            \/ SetExcludeFromGlobal(p) \/ SaveFeedState(p)
  <2>1. /\ pc[p] \in AtWork \ (Forced \cup {"clear", "insert"}) /\ Open(p) /\ req' = req
    BY <1>14 DEF Activate, Deactivate, SetFeedStatePublic, SetExcludeFromGlobal,
                 SaveFeedState, AtWork, OpKind, Forced, Open
  <2>2. QED
    BY <1>3, <2>1
<1>15. CASE ReconcileRead(p) \/ ReconcileDematerialize(p) \/ ReconcileWrite(p)
  <2>1. /\ pc[p] \in AtWork \ (Forced \cup {"clear", "insert"}) /\ Open(p) /\ req' = req
    BY <1>15 DEF ReconcileRead, ReconcileDematerialize, ReconcileWrite,
                 AtWork, OpKind, Forced, Open
  <2>2. QED
    BY <1>3, <2>1
<1>16. CASE Commit(p) \/ Rollback(p)
  BY <1>0, <1>16 DEF Commit, Rollback, Open
<1>17. QED
  BY <1>1, <1>2, <1>5, <1>6, <1>7, <1>8, <1>9, <1>10, <1>11, <1>12, <1>13, <1>14, <1>15, <1>16
  DEF Acts

LEMMA SyncInductive == TxInv /\ Synced /\ [Next]_vars => Synced'
<1> SUFFICES ASSUME TxInv, Synced, [Next]_vars, NEW q \in Proc PROVE SyncOf(q)'
  BY DEF Synced
<1>1. SyncOf(q)
  BY DEF Synced
<1>2. CASE UNCHANGED vars
  <2>1. UNCHANGED <<fs, rows, pc, req, ops, op, goal, wrote, ins, del, met>>
    BY <1>2 DEF vars, locals, txVars
  <2>2. Wanted' = Wanted /\ Seen(q)' = Seen(q) /\ Pending(q)' = Pending(q)
    BY <2>1 DEF Wanted, Seen, Pending
  <2>3. QED
    BY <1>1, <2>1, <2>2 DEF SyncOf, Alone, Open, Ops
<1>3. CASE Next
  <2>1. PICK p \in Proc : Acts(p)
    BY <1>3 DEF Next, Acts
  <2>2. TxInv'
    BY <2>1, TxKept
  <2>3. QED
    BY <1>1, <2>1, <2>2, SyncOwn, SyncOthers
<1>4. QED
  BY <1>2, <1>3

\* --sync-active, committed without another transaction beside it, leaves exactly the
\* rows the pointers ask for, whatever earlier races or failures left in the tables.
THEOREM SyncRepairs == Spec => SyncRepairsTables
<1>1. Init => TxInv /\ Synced
  <2>1. Init => Synced
    BY DEF Init, Synced, SyncOf, Open
  <2>2. QED
    BY <2>1, InitTx
<1>2. TxInv /\ Synced /\ [Next]_vars =>
        [\A p \in Proc : Commits(p) /\ req[p].kind = "sync" /\ Alone(p)
           => rows' = {fs[f].mat : f \in Feed} \ {NoVersion}]_vars
  <2>1. SUFFICES ASSUME TxInv, Synced, Next, NEW p \in Proc, Commits(p), req[p].kind = "sync",
                        Alone(p)
                 PROVE  rows' = Wanted
    BY DEF Wanted
  <2>2. PICK q \in Proc : Acts(q)
    BY <2>1 DEF Next, Acts
  <2>3. TypeOK /\ pc[p] = "commit" /\ pc'[p] # pc[p] /\ pc'[p] # "failed"
    BY <2>1 DEF Commits, TxInv
  <2>4. q = p
    BY <2>2, <2>3, OthersUntouched
  <2>5. rows' = Seen(p)
    <3>1. CASE Commit(p)
      BY <3>1 DEF Commit, Seen
    <3>2. CASE ~Commit(p)
      BY <2>2, <2>3, <2>4, <3>2
      DEF Acts, Start, StartCommand, PlanSet, PlanSyncPointers, PlanSyncTables, TakeOp,
          AllDone, Activate, Deactivate, SetExcludeFromGlobal, SetFeedStatePublic,
          SaveFeedState, Dematerialize, Materialize, ReconcileRead, ReconcileDematerialize,
          MaterializeClear, MaterializeInsert, ReconcileWrite, Rollback, Goto, TypeOK
    <3>3. QED
      BY <3>1, <3>2
  <2>6. Pending(p) = {}
    <3>1. ops[p] = {}
      BY <2>1, <2>3 DEF TxInv, Shape, ShapeOf, InOneTx
    <3>2. QED
      BY <2>3, <3>1 DEF Pending, Forced
  <2>7. \A v \in Version : v \in Seen(p) <=> v \in Wanted
    BY <2>1, <2>3, <2>6 DEF Synced, SyncOf, Open
  <2>8. Seen(p) \subseteq Version /\ Wanted \subseteq Version
    BY <2>3, WantedVersions DEF Seen, TypeOK
  <2>9. QED
    BY <2>5, <2>7, <2>8
<1>3. QED
  BY <1>1, <1>2, TxInductive, SyncInductive, PTL DEF Spec, SyncRepairsTables
=============================================================================
