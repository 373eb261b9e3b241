------------------------- MODULE RegistrySyncProofs -------------------------
(***************************************************************************)
(* Proofs about the sync of a registry, for any feeds, operators, agencies *)
(* and versions, any chain of syncs, and activations at any point: what a  *)
(* transaction has settled after each of its statements, and so what it    *)
(* commits.                                                                *)
(***************************************************************************)
EXTENDS RegistrySync, TLAPS

(* What the sync has dealt with so far. *)
FeedsDue == IF pc \in {"feeds", "public"} THEN todo ELSE {}
OperatorsDue ==
  IF pc \in {"feeds", "public"} THEN DOMAIN request.operators
  ELSE IF pc \in {"operators", "match"} THEN todo ELSE {}
FoundFeeds == DOMAIN request.feeds \ FeedsDue
FoundOperators == DOMAIN request.operators \ OperatorsDue

\* The rows of the transaction are those that were committed, but for what the
\* registry says of the feeds and operators dealt with; hiding comes last.
Following ==
  pc # "idle" =>
    /\ Settled(db.feeds, tx.feeds, [f \in FoundFeeds |-> FoundFeed(f)],
               pc = "generate" /\ request.hideUnseen)
    /\ Settled(db.operators, tx.operators, [o \in FoundOperators |-> FoundOperator(o)],
               pc = "generate" /\ request.hideUnseenOperators)

\* What is still to be done is part of what was asked for.
Doing ==
  /\ pc # "idle" => request \in Request
  /\ pc \in {"feeds", "public", "generate"} => todo \subseteq DOMAIN request.feeds
  /\ pc \in {"operators", "match"} => todo \subseteq DOMAIN request.operators
  /\ pc = "match" => current \in DOMAIN request.operators \ todo
  /\ pc = "public" => current \in Feed /\ saved \in StateRow /\ request.setPublic \in BOOLEAN

\* No feed is without a row of feed_states.
KnownStates ==
  /\ DOMAIN db.feeds \subseteq DOMAIN db.states
  /\ DOMAIN tx.feeds \subseteq DOMAIN tx.states \cup DOMAIN db.states

Keys(o) == {Key(r) : r \in RowsOfOperator(o)}
Resolved(p) == <<p[1], ResolvedGtfsAgencyID(Agencies(p[1]), p[2])>>
Resolve(P) == {Resolved(p) : p \in {q \in P : q[1] \in DOMAIN tx.feeds}}
Still(K) == {k \in K : k[1] \notin moved}
Associated(o) == request.operators[o].associated

\* The associations of an operator dealt with are those the registry names; of the
\* one in progress, those that were matched or inserted.
Associating ==
  /\ pc # "idle" => \A o \in FoundOperators :
       ~(pc = "match" /\ o = current) => Still(Keys(o)) = Still(Resolve(Associated(o)))
  /\ pc = "match" =>
       /\ existing \subseteq Keys(current) /\ assocs \subseteq Associated(current)
       /\ Still(matched \cup (Keys(current) \ existing))
            = Still(Resolve(Associated(current) \ assocs))

\* The generated associations of a feed dealt with.
Generated(f) ==
  /\ \A a \in Agencies(f) : \E r \in BagToSet(tx.oifs) : Key(r) = <<f, a>>
  /\ \A r \in BagToSet(tx.oifs) :
       r.operator = NoOperator /\ r.feed = f => r.agency \in Agencies(f) /\ tx.oifs[r] = 1
Generating ==
  pc = "generate" => \A f \in DOMAIN request.feeds \ (todo \cup moved) : Generated(f)

\* The tables that a state of the database has.
Tables(t) == DOMAIN t = {"feeds", "operators", "oifs", "states"}
Typed == TypeOK /\ Tables(db) /\ Tables(tx) /\ Doing
SyncInv == Typed /\ Following /\ KnownStates /\ Associating /\ Generating

-----------------------------------------------------------------------------
(* Tables *)
LEMMA MaybeRows ==
  ASSUME NEW S, NEW T, NEW rows
  PROVE  rows \in Maybe(S, T) <=> DOMAIN rows \subseteq S /\ rows \in [DOMAIN rows -> T]
  BY DEF Maybe

LEMMA PutDomain ==
  ASSUME NEW rows, NEW k, NEW row
  PROVE  DOMAIN Put(rows, k, row) = DOMAIN rows \cup {k}
  BY DEF Put

LEMMA PutHere ==
  ASSUME NEW rows, NEW k, NEW row
  PROVE  Put(rows, k, row)[k] = row
  BY DEF Put

LEMMA PutElsewhere ==
  ASSUME NEW rows, NEW k, NEW row, NEW j \in DOMAIN rows, j # k
  PROVE  Put(rows, k, row)[j] = rows[j]
  BY DEF Put

LEMMA PutTyped ==
  ASSUME NEW S, NEW T, NEW rows \in Maybe(S, T), NEW k \in S, NEW row \in T
  PROVE  Put(rows, k, row) \in Maybe(S, T)
  <1>1. DOMAIN rows \subseteq S /\ rows \in [DOMAIN rows -> T]
    BY MaybeRows
  <1>2. Put(rows, k, row) \in [DOMAIN rows \cup {k} -> T]
    BY <1>1 DEF Put
  <1> QED BY <1>1, <1>2, MaybeRows, PutDomain

LEMMA UpsertedDomain ==
  ASSUME NEW rows, NEW k, NEW row
  PROVE  DOMAIN Upserted(rows, k, row) = DOMAIN rows \cup {k}
  BY PutDomain DEF Upserted

LEMMA UpsertedElsewhere ==
  ASSUME NEW rows, NEW k, NEW row, NEW j \in DOMAIN rows, j # k
  PROVE  Upserted(rows, k, row)[j] = rows[j]
  BY PutElsewhere DEF Upserted

LEMMA UpsertedHere ==
  ASSUME NEW rows, NEW k, NEW row
  PROVE  \/ Upserted(rows, k, row)[k] = row
         \/ /\ k \in DOMAIN rows /\ Upserted(rows, k, row)[k] = rows[k]
            /\ [rows[k] EXCEPT !.hidden = FALSE] = row
  BY PutHere DEF Upserted

LEMMA UpsertedTyped ==
  ASSUME NEW S, NEW T, NEW rows \in Maybe(S, T), NEW k \in S, NEW row \in T
  PROVE  Upserted(rows, k, row) \in Maybe(S, T)
  BY PutTyped DEF Upserted

LEMMA HiddenRows ==
  ASSUME NEW rows, NEW found, NEW asked
  PROVE  /\ DOMAIN Hide(rows, found, asked) = DOMAIN rows
         /\ \A k \in DOMAIN rows :
              Hide(rows, found, asked)[k] = [rows[k] EXCEPT !.hidden = @ \/ (asked /\ k \notin found)]
  BY DEF Hide

LEMMA HiddenFeeds ==
  ASSUME NEW rows \in Maybe(Feed, FeedRow), NEW found, NEW asked
  PROVE  Hide(rows, found, asked) \in Maybe(Feed, FeedRow)
  <1>1. DOMAIN rows \subseteq Feed /\ rows \in [DOMAIN rows -> FeedRow]
    BY MaybeRows
  <1>2. Hide(rows, found, asked) \in [DOMAIN rows -> FeedRow]
    BY <1>1 DEF Hide, FeedRow
  <1> QED BY <1>1, <1>2, MaybeRows, HiddenRows

LEMMA EmptyTyped == RowsAreTyped(EmptyTables) /\ Tables(EmptyTables)
  <1>1. Empty \in Maybe(Feed, FeedRow) /\ Empty \in Maybe(Feed, StateRow) /\ DOMAIN Empty = {}
    BY MaybeRows DEF Empty
  <1>2. IsABag(EmptyBag) /\ BagToSet(EmptyBag) = {}
    BY DEF EmptyBag, SetToBag, IsABag, BagToSet
  <1> QED BY <1>1, <1>2 DEF RowsAreTyped, EmptyTables, Tables

LEMMA KeptRows ==
  ASSUME NEW oifs, NEW R, NEW kept, IsABag(oifs)
  PROVE  /\ BagToSet(KeepOneOf(oifs, R, kept)) = (BagToSet(oifs) \ R) \cup kept
         /\ IsABag(KeepOneOf(oifs, R, kept))
         /\ \A r \in kept : KeepOneOf(oifs, R, kept)[r] = 1
  BY DEF KeepOneOf, IsABag, BagToSet

LEMMA AddedRow ==
  ASSUME NEW oifs, NEW r, IsABag(oifs)
  PROVE  IsABag(BagAdd(oifs, r)) /\ BagToSet(BagAdd(oifs, r)) = BagToSet(oifs) \cup {r}
  BY DEF BagAdd, IsABag, BagToSet

LEMMA StateRows ==
  ASSUME db.states \in Maybe(Feed, StateRow), NEW mine \in Maybe(Feed, StateRow)
  PROVE  /\ States(mine) \in Maybe(Feed, StateRow)
         /\ DOMAIN States(mine) = DOMAIN mine \cup DOMAIN db.states
         /\ \A f \in DOMAIN States(mine) : f \in Feed /\ States(mine)[f] \in StateRow
  BY MaybeRows DEF States

LEMMA AgenciesTyped ==
  ASSUME Typed, NEW f
  PROVE  Agencies(f) \subseteq Agency
  <1>1. CASE HasState(f) /\ State(f).mat # NoVersion
    <2>1. State(f) \in StateRow
      BY <1>1, StateRows DEF HasState, State, Typed, TypeOK, RowsAreTyped
    <2> QED BY <1>1, <2>1, RegistrySyncAssumption DEF Agencies, StateRow
  <1>2. CASE ~(HasState(f) /\ State(f).mat # NoVersion)
    BY <1>2 DEF Agencies
  <1> QED BY <1>1, <1>2

LEMMA ResolvedTyped ==
  ASSUME NEW agencies, agencies \subseteq Agency, NEW a \in Agency \cup {NoAgency}
  PROVE  ResolvedGtfsAgencyID(agencies, a) \in Agency \cup {NoAgency}
  BY DEF ResolvedGtfsAgencyID

LEMMA Requested ==
  ASSUME NEW r \in Request
  PROVE  /\ r.feeds \in Maybe(Feed, Content) /\ DOMAIN r.feeds \subseteq Feed
         /\ \A f \in DOMAIN r.feeds : r.feeds[f] \in Content
         /\ DOMAIN r.operators \subseteq Operator
         /\ \A o \in DOMAIN r.operators :
              r.operators[o].content \in Content /\ r.operators[o].associated \in AssociatedFeeds
         /\ r.hideUnseen \in BOOLEAN /\ r.hideUnseenOperators \in BOOLEAN
         /\ r.setPublic \in BOOLEAN \cup {NoChange}
  <1>1. r \in SyncRequest
    BY RegistrySyncAssumption
  <1>2. r.feeds \in Maybe(Feed, Content)
        /\ r.operators \in Maybe(Operator, [content : Content, associated : AssociatedFeeds])
    BY <1>1 DEF SyncRequest
  <1>3. \A o \in DOMAIN r.operators : r.operators[o] \in [content : Content, associated : AssociatedFeeds]
    <2>1. r.operators \in [DOMAIN r.operators -> [content : Content, associated : AssociatedFeeds]]
      BY <1>2, MaybeRows
    <2> QED BY <2>1
  <1>4. DOMAIN r.operators \subseteq Operator
    BY <1>2, MaybeRows
  <1>5. DOMAIN r.feeds \subseteq Feed /\ r.feeds \in [DOMAIN r.feeds -> Content]
    BY <1>2, MaybeRows
  <1> QED BY <1>1, <1>2, <1>3, <1>4, <1>5 DEF SyncRequest

-----------------------------------------------------------------------------
(* Types *)

\* The fields of a row or of a table of rows, one at a time.
LEMMA FeedsTyped ==
  ASSUME Typed
  PROVE  /\ db.feeds \in Maybe(Feed, FeedRow) /\ tx.feeds \in Maybe(Feed, FeedRow)
         /\ db.states \in Maybe(Feed, StateRow) /\ tx.states \in Maybe(Feed, StateRow)
         /\ \A o \in DOMAIN db.operators : db.operators[o] \in OperatorRow
         /\ \A o \in DOMAIN tx.operators : tx.operators[o] \in OperatorRow
         /\ IsABag(tx.oifs) /\ BagToSet(tx.oifs) \subseteq Association
         /\ pc # "idle" => request \in Request
  BY DEF Typed, TypeOK, RowsAreTyped, Doing

LEMMA FoundTyped ==
  ASSUME Typed, pc # "idle"
  PROVE  /\ \A f \in DOMAIN request.feeds : f \in Feed /\ FoundFeed(f) \in FeedRow
         /\ \A o \in DOMAIN request.operators :
              o \in Operator /\ FoundOperator(o) \in OperatorRow /\ Associated(o) \in AssociatedFeeds
  BY FeedsTyped, Requested DEF FoundFeed, FoundOperator, FeedRow, OperatorRow, Associated

\* The row of feed_states a statement finds, or makes, is the row of a feed.
LEMMA EnsuredState ==
  ASSUME Typed, NEW f \in Feed, NEW content
  PROVE  /\ EnsureFeedState(f, content) \in Maybe(Feed, StateRow)
         /\ DOMAIN tx.states \subseteq DOMAIN EnsureFeedState(f, content)
         /\ f \in DOMAIN EnsureFeedState(f, content) \cup DOMAIN db.states
         /\ States(EnsureFeedState(f, content))[f] \in StateRow
  <1>1. CASE HasState(f)
    <2>1. EnsureFeedState(f, content) = tx.states
      BY <1>1 DEF EnsureFeedState
    <2> QED BY <1>1, <2>1, FeedsTyped, StateRows DEF HasState
  <1>2. CASE ~HasState(f)
    <2> DEFINE new == [public |-> TRUE, excl |-> content \in Excluded, mat |-> NoVersion]
    <2>1. EnsureFeedState(f, content) = Put(tx.states, f, new)
      BY <1>2 DEF EnsureFeedState
    <2>2. new \in StateRow
      BY DEF StateRow
    <2> HIDE DEF new
    <2>3. Put(tx.states, f, new) \in Maybe(Feed, StateRow)
      BY <2>2, FeedsTyped, PutTyped
    <2>4. DOMAIN Put(tx.states, f, new) = DOMAIN tx.states \cup {f}
      BY PutDomain
    <2> QED BY <2>1, <2>3, <2>4, FeedsTyped, StateRows
  <1> QED BY <1>1, <1>2

\* Of what a step leaves alone, the types are as before.
LEMMA KeepsTypes ==
  ASSUME Typed, UNCHANGED <<db, tx>>
  PROVE  RowsAreTyped(db)' /\ RowsAreTyped(tx)' /\ Tables(db)' /\ Tables(tx)'
  BY DEF Typed, TypeOK, RowsAreTyped, Tables

LEMMA TypeInit == Init => Typed
  <1> SUFFICES ASSUME Init PROVE Typed
    OBVIOUS
  <1>1. 0 \in 0..MaxSyncs /\ 0 \in 0..MaxActivations
    BY RegistrySyncAssumption
  <1> QED BY <1>1, EmptyTyped DEF Init, Typed, TypeOK, Doing, Pc, AssociatedFeeds

LEMMA TypeStep == Typed /\ [Next]_vars => Typed'
  <1> SUFFICES ASSUME Typed, [Next]_vars PROVE Typed'
    OBVIOUS
  <1>ok. TypeOK /\ Doing
    BY DEF Typed
  <1>1. ASSUME NEW r \in Request, Begin(r) PROVE Typed'
    <2>1. RowsAreTyped(tx') /\ Tables(tx')
      <3>1. /\ tx'.feeds = db.feeds /\ tx'.operators = db.operators /\ tx'.oifs = db.oifs
            /\ tx'.states = Empty /\ DOMAIN tx' = DOMAIN db
        BY <1>1 DEF Begin, Typed, Tables
      <3>2. Empty \in Maybe(Feed, StateRow)
        BY MaybeRows DEF Empty
      <3> QED BY <3>1, <3>2, <1>ok DEF RowsAreTyped, TypeOK, Typed, Tables
    <2>2. syncs' \in 0..MaxSyncs
      BY <1>1, <1>ok, RegistrySyncAssumption DEF Begin, TypeOK
    <2>3. DOMAIN r.feeds \subseteq Feed
      BY Requested
    <2> QED BY <1>1, <1>ok, <2>1, <2>2, <2>3 DEF Begin, Typed, TypeOK, Doing, Pc
  <1>2. ASSUME NEW f \in Feed, UpdateFeed(f) PROVE Typed'
    <2> DEFINE states == EnsureFeedState(f, request.feeds[f])
    <2>1. f \in DOMAIN request.feeds /\ pc = "feeds"
      BY <1>2, <1>ok DEF UpdateFeed, Doing
    <2>2. /\ tx'.feeds = Upserted(tx.feeds, f, FoundFeed(f)) /\ tx'.states = states
          /\ tx'.operators = tx.operators /\ tx'.oifs = tx.oifs /\ DOMAIN tx' = DOMAIN tx
      BY <1>2 DEF UpdateFeed, Typed, Tables
    <2>3. tx'.feeds \in Maybe(Feed, FeedRow)
      BY <2>1, <2>2, FoundTyped, FeedsTyped, UpsertedTyped
    <2>4. states \in Maybe(Feed, StateRow) /\ States(states)[f] \in StateRow
      BY EnsuredState
    <2>5. RowsAreTyped(tx') /\ Tables(tx')
      BY <2>2, <2>3, <2>4, <1>ok DEF RowsAreTyped, TypeOK, Typed, Tables
    <2>6. /\ pc' = "public" /\ current' = f /\ saved' = States(states)[f] /\ request.setPublic # NoChange
          \/ UNCHANGED <<pc, current, saved>>
      BY <1>2 DEF UpdateFeed
    <2>7. request.setPublic \in BOOLEAN \cup {NoChange}
      BY <2>1, FeedsTyped, Requested
    <2> HIDE DEF states
    <2>8. /\ pc' \in {"feeds", "public"} /\ current' \in Feed \cup Operator \cup {NoOperator}
          /\ saved' \in StateRow \cup {NoRow}
          /\ pc' = "public" => current' \in Feed /\ saved' \in StateRow /\ request.setPublic \in BOOLEAN
      BY <2>1, <2>4, <2>6, <2>7, <1>ok DEF TypeOK
    <2> QED BY <1>2, <1>ok, <2>1, <2>5, <2>8 DEF UpdateFeed, Typed, TypeOK, Doing, Pc
  <1>3. CASE SetFeedStatePublic
    <2> DEFINE row == [saved EXCEPT !.public = request.setPublic]
    <2>1. current \in Feed /\ row \in StateRow /\ pc = "public"
      BY <1>3, <1>ok DEF SetFeedStatePublic, Doing, StateRow
    <2>2. /\ tx'.states = Put(tx.states, current, row) /\ tx'.feeds = tx.feeds
          /\ tx'.operators = tx.operators /\ tx'.oifs = tx.oifs /\ DOMAIN tx' = DOMAIN tx
      BY <1>3 DEF SetFeedStatePublic, Typed, Tables
    <2> HIDE DEF row
    <2>3. tx'.states \in Maybe(Feed, StateRow)
      BY <2>1, <2>2, FeedsTyped, PutTyped
    <2>4. RowsAreTyped(tx') /\ Tables(tx')
      BY <2>2, <2>3, <1>ok DEF RowsAreTyped, TypeOK, Typed, Tables
    <2> QED BY <1>3, <1>ok, <2>4 DEF SetFeedStatePublic, Typed, TypeOK, Doing, Pc
  <1>4. CASE FeedsDone
    <2>1. DOMAIN request.operators \subseteq Operator
      BY <1>4, FeedsTyped, Requested DEF FeedsDone
    <2> QED BY <1>4, <1>ok, <2>1, KeepsTypes DEF FeedsDone, Typed, TypeOK, Doing, Pc
  <1>5. ASSUME NEW o \in Operator, UpdateOperator(o) PROVE Typed'
    <2>1. o \in DOMAIN request.operators /\ pc = "operators"
      BY <1>5, <1>ok DEF UpdateOperator, Doing
    <2>2. /\ tx'.operators = Upserted(tx.operators, o, FoundOperator(o)) /\ tx'.feeds = tx.feeds
          /\ tx'.states = tx.states /\ tx'.oifs = tx.oifs /\ DOMAIN tx' = DOMAIN tx
      BY <1>5 DEF UpdateOperator, Typed, Tables
    <2>3. FoundOperator(o) \in OperatorRow
      BY <2>1, FoundTyped
    <2>4. /\ DOMAIN tx'.operators \subseteq Operator
          /\ \A p \in DOMAIN tx'.operators : tx'.operators[p] \in OperatorRow
      <3>1. /\ DOMAIN tx'.operators = DOMAIN tx.operators \cup {o}
            /\ \A p \in DOMAIN tx.operators : p # o => tx'.operators[p] = tx.operators[p]
            /\ \/ tx'.operators[o] = FoundOperator(o)
               \/ o \in DOMAIN tx.operators /\ tx'.operators[o] = tx.operators[o]
        <4>1. DOMAIN tx'.operators = DOMAIN tx.operators \cup {o}
          <5>1. DOMAIN Upserted(tx.operators, o, FoundOperator(o)) = DOMAIN tx.operators \cup {o}
            BY UpsertedDomain
          <5> QED BY <2>2, <5>1
        <4>2. \A p \in DOMAIN tx.operators : p # o => tx'.operators[p] = tx.operators[p]
          BY <2>2, UpsertedElsewhere
        <4>3. \/ tx'.operators[o] = FoundOperator(o)
              \/ o \in DOMAIN tx.operators /\ tx'.operators[o] = tx.operators[o]
          BY <2>2, UpsertedHere
        <4> QED BY <4>1, <4>2, <4>3
      <3>2. DOMAIN tx.operators \subseteq Operator
        BY <1>ok DEF TypeOK, RowsAreTyped
      <3> QED BY <2>3, <3>1, <3>2, FeedsTyped
    <2>5. RowsAreTyped(tx') /\ Tables(tx')
      BY <2>2, <2>4, <1>ok DEF RowsAreTyped, TypeOK, Typed, Tables
    <2>6. assocs' \in AssociatedFeeds
      BY <1>5, <2>3 DEF UpdateOperator, OperatorRow
    <2>7. existing' \in AssociatedFeeds
      BY <1>5, <1>ok
        DEF UpdateOperator, RowsOfOperator, Key, AssociatedFeeds, Association, TypeOK, RowsAreTyped
    <2>8. /\ pc' = "match" /\ current' = o /\ todo' = todo \ {o} /\ matched' = {}
          /\ UNCHANGED <<db, request, saved, moved, syncs, activations>>
      BY <1>5 DEF UpdateOperator
    <2>9. /\ todo' \subseteq Feed \cup Operator /\ current' \in Feed \cup Operator \cup {NoOperator}
          /\ pc' \in Pc /\ matched' \subseteq existing'
      BY <1>ok, <2>8 DEF TypeOK, Pc
    <2>10. RowsAreTyped(db') /\ Tables(db')
      BY <2>8 DEF Typed, TypeOK, RowsAreTyped, Tables
    <2>11. TypeOK'
      BY <1>ok, <2>5, <2>6, <2>7, <2>8, <2>9, <2>10 DEF TypeOK
    <2>12. Doing'
      BY <1>ok, <2>1, <2>8 DEF Doing
    <2> QED BY <2>5, <2>10, <2>11, <2>12 DEF Typed
  <1>6. ASSUME NEW f \in Feed, NEW a \in Agency \cup {NoAgency}, MatchAssociation(f, a) PROVE Typed'
    <2> DEFINE b == ResolvedGtfsAgencyID(Agencies(f), a)
    <2>1. b \in Agency \cup {NoAgency} /\ pc = "match" /\ current \in Operator
      BY <1>6, <1>ok, AgenciesTyped, ResolvedTyped, FoundTyped DEF MatchAssociation, Doing
    <2>2. \/ UNCHANGED tx /\ matched' \subseteq matched \cup existing
          \/ tx' = [tx EXCEPT !.oifs = BagAdd(@, Row(current, f, b))] /\ UNCHANGED matched
      BY <1>6 DEF MatchAssociation
    <2> HIDE DEF b
    <2>3. Row(current, f, b) \in Association
      BY <2>1 DEF Row, Association
    <2>4. RowsAreTyped(tx') /\ Tables(tx') /\ matched' \subseteq existing
      <3>1. CASE UNCHANGED tx /\ matched' \subseteq matched \cup existing
        BY <3>1, <1>ok, KeepsTypes DEF Typed, TypeOK, RowsAreTyped, Tables
      <3>2. CASE tx' = [tx EXCEPT !.oifs = BagAdd(@, Row(current, f, b))] /\ UNCHANGED matched
        <4>1. /\ tx'.oifs = BagAdd(tx.oifs, Row(current, f, b)) /\ tx'.feeds = tx.feeds
              /\ tx'.states = tx.states /\ tx'.operators = tx.operators /\ DOMAIN tx' = DOMAIN tx
          BY <3>2 DEF Typed, Tables
        <4>2. IsABag(tx'.oifs) /\ BagToSet(tx'.oifs) \subseteq Association
          BY <2>3, <4>1, AddedRow, FeedsTyped
        <4> QED BY <3>2, <4>1, <4>2, <1>ok DEF Typed, TypeOK, RowsAreTyped, Tables
      <3> QED BY <2>2, <3>1, <3>2
    <2>5. assocs' \in AssociatedFeeds
      BY <1>6, <1>ok DEF MatchAssociation, TypeOK, AssociatedFeeds
    <2>6. UNCHANGED <<db, pc, request, todo, current, saved, existing, moved, syncs, activations>>
      BY <1>6 DEF MatchAssociation
    <2>7. RowsAreTyped(db') /\ Tables(db')
      BY <2>6 DEF Typed, TypeOK, RowsAreTyped, Tables
    <2>8. TypeOK'
      BY <1>ok, <2>4, <2>5, <2>6, <2>7 DEF TypeOK
    <2>9. Doing'
      BY <1>ok, <2>6 DEF Doing
    <2> QED BY <2>4, <2>7, <2>8, <2>9 DEF Typed
  <1>oifs. ASSUME NEW R, NEW kept, kept \subseteq Association,
                  tx' = [tx EXCEPT !.oifs = KeepOneOf(@, R, kept)]
           PROVE  RowsAreTyped(tx') /\ Tables(tx')
    <2>1. /\ tx'.oifs = KeepOneOf(tx.oifs, R, kept) /\ tx'.feeds = tx.feeds
          /\ tx'.states = tx.states /\ tx'.operators = tx.operators /\ DOMAIN tx' = DOMAIN tx
      BY <1>oifs DEF Typed, Tables
    <2>2. IsABag(tx'.oifs) /\ BagToSet(tx'.oifs) \subseteq Association
      BY <2>1, <1>oifs, KeptRows, FeedsTyped
    <2> QED BY <2>1, <2>2, <1>ok DEF Typed, TypeOK, RowsAreTyped, Tables
  <1>7. CASE DropUnmatched
    <2> DEFINE RowsOf(keys) == {Row(current, k[1], k[2]) : k \in keys}
    <2>1. RowsOf(matched) \subseteq Association
      <3>1. current \in Operator
        BY <1>7, <1>ok, FoundTyped DEF DropUnmatched, Doing
      <3>2. matched \subseteq Feed \X (Agency \cup {NoAgency})
        BY <1>ok DEF TypeOK, AssociatedFeeds
      <3> QED BY <3>1, <3>2 DEF Row, Association
    <2>2. tx' = [tx EXCEPT !.oifs = KeepOneOf(@, RowsOf(existing), RowsOf(matched))]
      BY <1>7 DEF DropUnmatched
    <2>3. RowsAreTyped(tx') /\ Tables(tx')
      BY <2>1, <2>2, <1>oifs
    <2>4. /\ pc' = "operators" /\ current' = NoOperator /\ existing' = {} /\ matched' = {}
          /\ pc = "match" /\ UNCHANGED <<db, request, todo, saved, assocs, moved, syncs, activations>>
      BY <1>7 DEF DropUnmatched
    <2>5. RowsAreTyped(db') /\ Tables(db')
      BY <2>4 DEF Typed, TypeOK, RowsAreTyped, Tables
    <2>6. TypeOK'
      BY <1>ok, <2>3, <2>4, <2>5 DEF TypeOK, Pc, AssociatedFeeds
    <2>7. Doing'
      BY <1>ok, <2>4 DEF Doing
    <2> QED BY <2>3, <2>5, <2>6, <2>7 DEF Typed
  <1>8. CASE HideUnseen
    <2>1. /\ tx'.feeds = Hide(tx.feeds, DOMAIN request.feeds, request.hideUnseen)
          /\ tx'.operators = Hide(tx.operators, DOMAIN request.operators, request.hideUnseenOperators)
          /\ tx'.states = tx.states /\ tx'.oifs = tx.oifs /\ DOMAIN tx' = DOMAIN tx
      BY <1>8 DEF HideUnseen, Typed, Tables
    <2>2. tx'.feeds \in Maybe(Feed, FeedRow)
      BY <2>1, HiddenFeeds, FeedsTyped
    <2>3. /\ DOMAIN tx'.operators \subseteq Operator
          /\ \A o \in DOMAIN tx'.operators : tx'.operators[o] \in OperatorRow
      <3> DEFINE hidden == Hide(tx.operators, DOMAIN request.operators, request.hideUnseenOperators)
      <3>1. DOMAIN tx.operators \subseteq Operator
        BY <1>ok DEF TypeOK, RowsAreTyped
      <3>2. DOMAIN hidden = DOMAIN tx.operators
        BY DEF Hide
      <3>3. \A o \in DOMAIN hidden : hidden[o] \in OperatorRow
        BY FeedsTyped DEF Hide, OperatorRow
      <3> HIDE DEF hidden
      <3> QED BY <2>1, <3>1, <3>2, <3>3 DEF hidden
    <2>4. RowsAreTyped(tx') /\ Tables(tx')
      BY <2>1, <2>2, <2>3, <1>ok DEF Typed, TypeOK, RowsAreTyped, Tables
    <2>5. /\ pc' = "generate" /\ todo' = DOMAIN request.feeds /\ pc = "operators"
          /\ UNCHANGED <<db, request, current, saved, assocs, existing, matched, moved,
                         syncs, activations>>
      BY <1>8 DEF HideUnseen
    <2>6. DOMAIN request.feeds \subseteq Feed
      BY <2>5, FeedsTyped, Requested
    <2>7. RowsAreTyped(db') /\ Tables(db')
      BY <2>5 DEF Typed, TypeOK, RowsAreTyped, Tables
    <2>8. TypeOK'
      BY <1>ok, <2>4, <2>5, <2>6, <2>7 DEF TypeOK, Pc
    <2>9. Doing'
      BY <1>ok, <2>5 DEF Doing
    <2> QED BY <2>4, <2>7, <2>8, <2>9 DEF Typed
  <1>9. ASSUME NEW f \in Feed, feedUpdateOifs(f) PROVE Typed'
    <2>1. PICK R, kept : kept \subseteq Association /\ tx' = [tx EXCEPT !.oifs = KeepOneOf(@, R, kept)]
      <3> DEFINE wanted == {Row(NoOperator, f, a) : a \in Agencies(f)}
      <3>1. wanted \subseteq Association
        BY AgenciesTyped DEF Row, Association
      <3> QED BY <1>9, <3>1 DEF feedUpdateOifs
    <2>2. RowsAreTyped(tx') /\ Tables(tx')
      BY <2>1, <1>oifs
    <2>3. /\ todo' = todo \ {f}
          /\ UNCHANGED <<db, pc, request, current, saved, assocs, existing, matched, moved,
                         syncs, activations>>
      BY <1>9 DEF feedUpdateOifs
    <2>4. RowsAreTyped(db') /\ Tables(db')
      BY <2>3 DEF Typed, TypeOK, RowsAreTyped, Tables
    <2>5. pc = "generate"
      BY <1>9 DEF feedUpdateOifs
    <2>6. TypeOK'
      BY <1>ok, <2>2, <2>3, <2>4 DEF TypeOK
    <2>7. Doing'
      BY <1>ok, <2>3, <2>5 DEF Doing
    <2> QED BY <2>2, <2>4, <2>6, <2>7 DEF Typed
  <1>end. ASSUME EndTx, RowsAreTyped(db'), Tables(db') PROVE Typed'
    <2>1. RowsAreTyped(tx') /\ Tables(tx')
      BY <1>end, EmptyTyped DEF EndTx
    <2> QED BY <1>end, <1>ok, <2>1 DEF EndTx, Typed, TypeOK, Doing, Pc, AssociatedFeeds
  <1>10. CASE Commit
    <2>1. /\ db'.feeds = tx.feeds /\ db'.operators = tx.operators /\ db'.oifs = tx.oifs
          /\ db'.states = States(tx.states) /\ DOMAIN db' = DOMAIN tx
      BY <1>10 DEF Commit, Typed, Tables
    <2>2. db'.states \in Maybe(Feed, StateRow)
      BY <2>1, FeedsTyped, StateRows
    <2>3. RowsAreTyped(db') /\ Tables(db')
      BY <2>1, <2>2, <1>ok DEF Typed, TypeOK, RowsAreTyped, Tables
    <2> QED BY <1>10, <2>3, <1>end DEF Commit
  <1>11. CASE Rollback
    <2>1. RowsAreTyped(db') /\ Tables(db')
      BY <1>11 DEF Rollback, Typed, TypeOK, RowsAreTyped, Tables
    <2> QED BY <1>11, <2>1, <1>end DEF Rollback
  <1>12. ASSUME NEW f \in Feed, NEW v \in VersionsOf[f] \cup {NoVersion}, MoveActive(f, v) PROVE Typed'
    <2>1. f \in DOMAIN db.states /\ v \in Version \cup {NoVersion}
      BY <1>12, RegistrySyncAssumption DEF MoveActive
    <2>2. /\ db'.states = [db.states EXCEPT ![f].mat = v] /\ db'.feeds = db.feeds
          /\ db'.operators = db.operators /\ db'.oifs = db.oifs /\ DOMAIN db' = DOMAIN db
      BY <1>12 DEF MoveActive, Typed, Tables
    <2>3. DOMAIN db.states \subseteq Feed /\ db.states \in [DOMAIN db.states -> StateRow]
      BY FeedsTyped, MaybeRows
    <2>4. db'.states \in [DOMAIN db.states -> StateRow]
      BY <2>1, <2>2, <2>3 DEF StateRow
    <2>5. DOMAIN db'.states = DOMAIN db.states
      BY <2>2, <2>3
    <2>6. db'.states \in Maybe(Feed, StateRow)
      BY <2>3, <2>4, <2>5, MaybeRows
    <2>7. RowsAreTyped(db') /\ Tables(db')
      BY <2>2, <2>6, <1>ok DEF Typed, TypeOK, RowsAreTyped, Tables
    <2>8. /\ UNCHANGED <<tx, pc, locals, syncs>> /\ moved' \subseteq Feed
          /\ activations' \in 0..MaxActivations
      BY <1>12, <1>ok, RegistrySyncAssumption DEF MoveActive, TypeOK
    <2>9. RowsAreTyped(tx') /\ Tables(tx')
      BY <2>8 DEF Typed, TypeOK, RowsAreTyped, Tables
    <2>10. TypeOK'
      BY <1>ok, <2>7, <2>8, <2>9 DEF TypeOK, locals
    <2>11. Doing'
      BY <1>ok, <2>8 DEF Doing, locals
    <2> QED BY <2>7, <2>9, <2>10, <2>11 DEF Typed
  <1>13. CASE UNCHANGED vars
    <2>1. RowsAreTyped(db)' /\ RowsAreTyped(tx)' /\ Tables(db)' /\ Tables(tx)'
      BY <1>13, KeepsTypes DEF vars
    <2> QED BY <1>13, <1>ok, <2>1 DEF vars, locals, Typed, TypeOK, Doing
  <1> QED
    BY <1>1, <1>2, <1>3, <1>4, <1>5, <1>6, <1>7, <1>8, <1>9, <1>10, <1>11, <1>12, <1>13 DEF Next

(* Every row a sync reads, writes or leaves behind is well typed.            *)
THEOREM TypeCorrect == Spec => []TypeOK
  <1>1. Spec => []Typed
    BY TypeInit, TypeStep, PTL DEF Spec
  <1>2. Typed => TypeOK
    BY DEF Typed
  <1> QED BY <1>1, <1>2, PTL

-----------------------------------------------------------------------------
(* What the rows follow *)

\* A row with its deleted_at set or not.
IsRow(r) ==
  /\ r.hidden \in BOOLEAN /\ [r EXCEPT !.hidden = r.hidden] = r
  /\ \A b \in BOOLEAN : [r EXCEPT !.hidden = b].hidden = b
  /\ \A a, b \in BOOLEAN : [[r EXCEPT !.hidden = a] EXCEPT !.hidden = b] = [r EXCEPT !.hidden = b]

LEMMA FeedIsRow ==
  ASSUME NEW r \in FeedRow
  PROVE  IsRow(r)
  BY DEF FeedRow, IsRow

LEMMA OperatorIsRow ==
  ASSUME NEW r \in OperatorRow
  PROVE  IsRow(r)
  BY DEF OperatorRow, IsRow

\* At the start of a sync nothing is settled and every row is as it was.
LEMMA SettledAtFirst ==
  ASSUME NEW old, NEW wanted, DOMAIN wanted = {}, \A k \in DOMAIN old : IsRow(old[k])
  PROVE  Settled(old, old, wanted, FALSE)
  BY DEF Settled, IsRow

\* An upsert settles one row more.
LEMMA SettledUpsert ==
  ASSUME NEW old, NEW new, NEW wanted, NEW wanted2, NEW k, NEW row, IsRow(row), ~row.hidden,
         \A j \in DOMAIN old : IsRow(old[j]),
         Settled(old, new, wanted, FALSE), k \notin DOMAIN wanted,
         DOMAIN wanted2 = DOMAIN wanted \cup {k}, wanted2[k] = row,
         \A j \in DOMAIN wanted : wanted2[j] = wanted[j]
  PROVE  Settled(old, Upserted(new, k, row), wanted2, FALSE)
  <1> DEFINE up == Upserted(new, k, row)
  <1>1. DOMAIN up = DOMAIN new \cup {k}
    BY UpsertedDomain
  <1>2. DOMAIN up = DOMAIN old \cup DOMAIN wanted2
    BY <1>1 DEF Settled
  <1>3. /\ [up[k] EXCEPT !.hidden = FALSE] = row
        /\ up[k].hidden => k \in DOMAIN old /\ old[k] = up[k]
    <2>1. CASE up[k] = row
      BY <2>1 DEF IsRow
    <2>2. CASE k \in DOMAIN new /\ up[k] = new[k] /\ [new[k] EXCEPT !.hidden = FALSE] = row
      <3>1. k \in DOMAIN old /\ new[k] = [old[k] EXCEPT !.hidden = @ \/ FALSE]
        BY <2>2 DEF Settled
      <3>2. new[k] = old[k]
        BY <3>1 DEF IsRow
      <3> QED BY <2>2, <3>1, <3>2
    <2>3. up[k] = row \/ (k \in DOMAIN new /\ up[k] = new[k] /\ [new[k] EXCEPT !.hidden = FALSE] = row)
      BY UpsertedHere
    <2> QED BY <2>1, <2>2, <2>3
  <1>4. ASSUME NEW j \in DOMAIN up, j # k PROVE j \in DOMAIN new /\ up[j] = new[j]
    BY <1>1, <1>4, UpsertedElsewhere
  <1> HIDE DEF up
  <1>5. ASSUME NEW j \in DOMAIN up
        PROVE  IF j \in DOMAIN wanted2
               THEN /\ [up[j] EXCEPT !.hidden = FALSE] = wanted2[j]
                    /\ up[j].hidden => j \in DOMAIN old /\ old[j] = up[j]
               ELSE up[j] = [old[j] EXCEPT !.hidden = @ \/ FALSE]
    <2>1. CASE j = k
      BY <2>1, <1>3
    <2>2. CASE j # k
      BY <2>2, <1>4 DEF Settled
    <2> QED BY <2>1, <2>2
  <1>6. Settled(old, up, wanted2, FALSE)
    BY <1>2, <1>5 DEF Settled
  <1> QED BY <1>6 DEF up

\* Hiding what was not found settles the rest.
LEMMA SettledHide ==
  ASSUME NEW old, NEW new, NEW wanted, NEW asked \in BOOLEAN,
         \A j \in DOMAIN old : IsRow(old[j]), \A j \in DOMAIN new : IsRow(new[j]),
         Settled(old, new, wanted, FALSE)
  PROVE  Settled(old, Hide(new, DOMAIN wanted, asked), wanted, asked)
  <1> DEFINE hid == Hide(new, DOMAIN wanted, asked)
  <1>1. DOMAIN hid = DOMAIN new
    BY DEF Hide
  <1>2. ASSUME NEW j \in DOMAIN new
        PROVE hid[j] = [new[j] EXCEPT !.hidden = @ \/ (asked /\ j \notin DOMAIN wanted)]
    BY DEF Hide
  <1> HIDE DEF hid
  <1>3. ASSUME NEW j \in DOMAIN hid
        PROVE  IF j \in DOMAIN wanted
               THEN /\ [hid[j] EXCEPT !.hidden = FALSE] = wanted[j]
                    /\ hid[j].hidden => j \in DOMAIN old /\ old[j] = hid[j]
               ELSE hid[j] = [old[j] EXCEPT !.hidden = @ \/ asked]
    <2>0. j \in DOMAIN new /\ IsRow(new[j])
      BY <1>1
    <2>1. CASE j \in DOMAIN wanted
      <3>1. hid[j] = [new[j] EXCEPT !.hidden = new[j].hidden]
        BY <2>0, <2>1, <1>2 DEF IsRow
      <3>2. hid[j] = new[j]
        BY <3>1, <2>0 DEF IsRow
      <3> QED BY <2>0, <2>1, <3>2 DEF Settled
    <2>2. CASE j \notin DOMAIN wanted
      <3>1. j \in DOMAIN old /\ new[j] = [old[j] EXCEPT !.hidden = @ \/ FALSE]
        BY <2>0, <2>2 DEF Settled
      <3>2. new[j] = old[j]
        BY <3>1, ZenonT(30) DEF IsRow
      <3> QED BY <2>0, <2>2, <3>2, <1>2
    <2> QED BY <2>1, <2>2
  <1>4. Settled(old, hid, wanted, asked)
    BY <1>1, <1>3 DEF Settled
  <1> QED BY <1>4 DEF hid

LEMMA RowsAreRows ==
  ASSUME Typed
  PROVE  /\ \A k \in DOMAIN db.feeds : IsRow(db.feeds[k])
         /\ \A k \in DOMAIN tx.feeds : IsRow(tx.feeds[k])
         /\ \A k \in DOMAIN db.operators : IsRow(db.operators[k])
         /\ \A k \in DOMAIN tx.operators : IsRow(tx.operators[k])
  <1>1. \A k \in DOMAIN db.feeds : db.feeds[k] \in FeedRow
    <2>1. db.feeds \in [DOMAIN db.feeds -> FeedRow]
      BY FeedsTyped, MaybeRows
    <2> QED BY <2>1
  <1>2. \A k \in DOMAIN tx.feeds : tx.feeds[k] \in FeedRow
    <2>1. tx.feeds \in [DOMAIN tx.feeds -> FeedRow]
      BY FeedsTyped, MaybeRows
    <2> QED BY <2>1
  <1> QED BY <1>1, <1>2, FeedsTyped, FeedIsRow, OperatorIsRow

\* A step that writes no row and finds none leaves them as they follow.
LEMMA FollowingKept ==
  ASSUME Following, UNCHANGED <<request, FoundFeeds, FoundOperators>>,
         pc = "generate" <=> pc' = "generate", pc' # "idle" => pc # "idle",
         db'.feeds = db.feeds, tx'.feeds = tx.feeds,
         db'.operators = db.operators, tx'.operators = tx.operators
  PROVE  Following'
  <1> SUFFICES ASSUME pc' # "idle" PROVE Following'
    BY DEF Following
  <1> DEFINE feeds == [f \in FoundFeeds |-> FoundFeed(f)]
             operators == [o \in FoundOperators |-> FoundOperator(o)]
             hideFeeds == pc = "generate" /\ request.hideUnseen
             hideOperators == pc = "generate" /\ request.hideUnseenOperators
  <1>1. /\ Settled(db.feeds, tx.feeds, feeds, hideFeeds)
        /\ Settled(db.operators, tx.operators, operators, hideOperators)
    BY DEF Following
  <1>2. feeds' = feeds /\ operators' = operators /\ hideFeeds' = hideFeeds /\ hideOperators' = hideOperators
    BY DEF FoundFeed, FoundOperator
  <1>3. /\ Settled(db.feeds, tx.feeds, feeds, hideFeeds)'
        /\ Settled(db.operators, tx.operators, operators, hideOperators)'
    <2> HIDE DEF feeds, operators, hideFeeds, hideOperators
    <2> QED BY <1>1, <1>2 DEF Settled
  <1> QED BY <1>3 DEF Following

LEMMA FollowStep == Typed /\ Typed' /\ Following /\ [Next]_vars => Following'
  <1> SUFFICES ASSUME Typed, Typed', Following, [Next]_vars PROVE Following'
    OBVIOUS
  <1>ok. Doing
    BY DEF Typed
  <1> DEFINE feeds == [f \in FoundFeeds |-> FoundFeed(f)]
             operators == [o \in FoundOperators |-> FoundOperator(o)]
  <1>1. ASSUME NEW r \in Request, Begin(r) PROVE Following'
    <2>1. /\ db' = db /\ tx'.feeds = db.feeds /\ tx'.operators = db.operators /\ pc' = "feeds"
          /\ request' = r /\ todo' = DOMAIN r.feeds
      BY <1>1 DEF Begin, Typed, Tables
    <2>2. FoundFeeds' = {} /\ FoundOperators' = {}
      BY <2>1 DEF FoundFeeds, FoundOperators, FeedsDue, OperatorsDue
    <2>3. DOMAIN feeds' = {} /\ DOMAIN operators' = {}
      BY <2>2
    <2> HIDE DEF feeds, operators
    <2>4. Settled(db.feeds, db.feeds, feeds', FALSE) /\ Settled(db.operators, db.operators, operators', FALSE)
      BY <2>3, RowsAreRows, SettledAtFirst
    <2>5. Settled(db'.feeds, tx'.feeds, feeds', pc' = "generate" /\ request'.hideUnseen)
      BY <2>1, <2>4 DEF Settled
    <2>6. Settled(db'.operators, tx'.operators, operators', pc' = "generate" /\ request'.hideUnseenOperators)
      BY <2>1, <2>4 DEF Settled
    <2> QED BY <2>5, <2>6 DEF Following, feeds, operators
  <1>2. ASSUME NEW f \in Feed, UpdateFeed(f) PROVE Following'
    <2>1. /\ f \in todo /\ f \in DOMAIN request.feeds /\ pc = "feeds" /\ pc' \in {"feeds", "public"}
          /\ todo' = todo \ {f} /\ db' = db /\ request' = request
      BY <1>2, <1>ok DEF UpdateFeed, Doing
    <2>2. tx'.feeds = Upserted(tx.feeds, f, FoundFeed(f)) /\ tx'.operators = tx.operators
      BY <1>2 DEF UpdateFeed, Typed, Tables
    <2>3. FoundFeeds' = FoundFeeds \cup {f} /\ f \notin FoundFeeds /\ FoundOperators' = FoundOperators
      BY <2>1 DEF FoundFeeds, FoundOperators, FeedsDue, OperatorsDue
    <2>4. /\ DOMAIN feeds = FoundFeeds /\ DOMAIN feeds' = FoundFeeds \cup {f} /\ feeds'[f] = FoundFeed(f)
          /\ \A g \in FoundFeeds : feeds'[g] = feeds[g]
      BY <2>1, <2>3 DEF FoundFeed
    <2>5. IsRow(FoundFeed(f)) /\ ~FoundFeed(f).hidden
      BY <2>1, FoundTyped, FeedIsRow DEF FoundFeed
    <2>6. operators' = operators
      BY <2>1, <2>3 DEF FoundOperator
    <2>7. Settled(db.feeds, tx.feeds, feeds, FALSE) /\ Settled(db.operators, tx.operators, operators, FALSE)
      BY <2>1 DEF Following, Settled
    <2> HIDE DEF feeds, operators
    <2>8. Settled(db.feeds, Upserted(tx.feeds, f, FoundFeed(f)), feeds', FALSE)
      BY <2>3, <2>4, <2>5, <2>7, RowsAreRows, SettledUpsert
    <2>9. /\ Settled(db'.feeds, tx'.feeds, feeds', pc' = "generate" /\ request'.hideUnseen)
          /\ Settled(db'.operators, tx'.operators, operators', pc' = "generate" /\ request'.hideUnseenOperators)
      BY <2>1, <2>2, <2>6, <2>7, <2>8 DEF Settled
    <2> QED BY <2>9 DEF Following, feeds, operators
  <1>5. ASSUME NEW o \in Operator, UpdateOperator(o) PROVE Following'
    <2>1. /\ o \in todo /\ o \in DOMAIN request.operators /\ pc = "operators" /\ pc' = "match"
          /\ todo' = todo \ {o} /\ db' = db /\ request' = request
      BY <1>5, <1>ok DEF UpdateOperator, Doing
    <2>2. tx'.operators = Upserted(tx.operators, o, FoundOperator(o)) /\ tx'.feeds = tx.feeds
      BY <1>5 DEF UpdateOperator, Typed, Tables
    <2>3. FoundOperators' = FoundOperators \cup {o} /\ o \notin FoundOperators /\ FoundFeeds' = FoundFeeds
      BY <2>1 DEF FoundFeeds, FoundOperators, FeedsDue, OperatorsDue
    <2>4. /\ DOMAIN operators = FoundOperators /\ DOMAIN operators' = FoundOperators \cup {o}
          /\ operators'[o] = FoundOperator(o)
          /\ \A p \in FoundOperators : operators'[p] = operators[p]
      BY <2>1, <2>3 DEF FoundOperator
    <2>5. IsRow(FoundOperator(o)) /\ ~FoundOperator(o).hidden
      BY <2>1, FoundTyped, OperatorIsRow DEF FoundOperator
    <2>6. feeds' = feeds
      BY <2>1, <2>3 DEF FoundFeed
    <2>7. Settled(db.feeds, tx.feeds, feeds, FALSE) /\ Settled(db.operators, tx.operators, operators, FALSE)
      BY <2>1 DEF Following, Settled
    <2> HIDE DEF feeds, operators
    <2>8. Settled(db.operators, Upserted(tx.operators, o, FoundOperator(o)), operators', FALSE)
      BY <2>3, <2>4, <2>5, <2>7, RowsAreRows, SettledUpsert
    <2>9. /\ Settled(db'.feeds, tx'.feeds, feeds', pc' = "generate" /\ request'.hideUnseen)
          /\ Settled(db'.operators, tx'.operators, operators', pc' = "generate" /\ request'.hideUnseenOperators)
      BY <2>1, <2>2, <2>6, <2>7, <2>8 DEF Settled
    <2> QED BY <2>9 DEF Following, feeds, operators
  <1>8. CASE HideUnseen
    <2>1. /\ pc = "operators" /\ todo = {} /\ pc' = "generate" /\ db' = db /\ request' = request
          /\ todo' = DOMAIN request.feeds
      BY <1>8 DEF HideUnseen
    <2>2. /\ tx'.feeds = Hide(tx.feeds, DOMAIN request.feeds, request.hideUnseen)
          /\ tx'.operators = Hide(tx.operators, DOMAIN request.operators, request.hideUnseenOperators)
      BY <1>8 DEF HideUnseen, Typed, Tables
    <2>3. /\ FoundFeeds = DOMAIN request.feeds /\ FoundOperators = DOMAIN request.operators
          /\ FoundFeeds' = FoundFeeds /\ FoundOperators' = FoundOperators
      BY <2>1 DEF FoundFeeds, FoundOperators, FeedsDue, OperatorsDue
    <2>4. feeds' = feeds /\ operators' = operators
      BY <2>1, <2>3 DEF FoundFeed, FoundOperator
    <2>5. DOMAIN feeds = DOMAIN request.feeds /\ DOMAIN operators = DOMAIN request.operators
      BY <2>3
    <2>6. Settled(db.feeds, tx.feeds, feeds, FALSE) /\ Settled(db.operators, tx.operators, operators, FALSE)
      BY <2>1 DEF Following, Settled
    <2>7. request.hideUnseen \in BOOLEAN /\ request.hideUnseenOperators \in BOOLEAN
      BY <2>1, FeedsTyped, Requested
    <2> HIDE DEF feeds, operators
    <2>8. Settled(db.feeds, Hide(tx.feeds, DOMAIN feeds, request.hideUnseen), feeds, request.hideUnseen)
      BY <2>6, <2>7, RowsAreRows, SettledHide
    <2>9. Settled(db.operators, Hide(tx.operators, DOMAIN operators, request.hideUnseenOperators), operators,
                  request.hideUnseenOperators)
      BY <2>6, <2>7, RowsAreRows, SettledHide
    <2>10. Settled(db'.feeds, tx'.feeds, feeds', pc' = "generate" /\ request'.hideUnseen)
      BY <2>1, <2>2, <2>4, <2>5, <2>7, <2>8 DEF Settled
    <2>11. Settled(db'.operators, tx'.operators, operators', pc' = "generate" /\ request'.hideUnseenOperators)
      BY <2>1, <2>2, <2>4, <2>5, <2>7, <2>9 DEF Settled
    <2> QED BY <2>10, <2>11 DEF Following, feeds, operators
  <1>kept. ASSUME UNCHANGED <<request, FoundFeeds, FoundOperators>>,
                  pc = "generate" <=> pc' = "generate", pc' # "idle" => pc # "idle",
                  db'.feeds = db.feeds, tx'.feeds = tx.feeds,
                  db'.operators = db.operators, tx'.operators = tx.operators
           PROVE  Following'
    BY <1>kept, FollowingKept
  <1>3. CASE SetFeedStatePublic \/ FeedsDone
    <2>1. UNCHANGED <<request, FoundFeeds, FoundOperators, db>>
      BY <1>3 DEF SetFeedStatePublic, FeedsDone, FoundFeeds, FoundOperators, FeedsDue, OperatorsDue
    <2>2. tx'.feeds = tx.feeds /\ tx'.operators = tx.operators
      BY <1>3 DEF SetFeedStatePublic, FeedsDone, Typed, Tables
    <2> QED BY <2>1, <2>2, <1>3, <1>kept DEF SetFeedStatePublic, FeedsDone
  <1>6. ASSUME NEW f \in Feed, NEW a \in Agency \cup {NoAgency}, MatchAssociation(f, a) PROVE Following'
    <2>1. UNCHANGED <<request, FoundFeeds, FoundOperators, db, pc>> /\ pc = "match"
      BY <1>6 DEF MatchAssociation, FoundFeeds, FoundOperators, FeedsDue, OperatorsDue
    <2>2. tx'.feeds = tx.feeds /\ tx'.operators = tx.operators
      BY <1>6 DEF MatchAssociation, Typed, Tables
    <2> QED BY <2>1, <2>2, <1>kept
  <1>7. CASE DropUnmatched
    <2>1. UNCHANGED <<request, FoundFeeds, FoundOperators, db>> /\ pc = "match" /\ pc' = "operators"
      BY <1>7 DEF DropUnmatched, FoundFeeds, FoundOperators, FeedsDue, OperatorsDue
    <2>2. tx'.feeds = tx.feeds /\ tx'.operators = tx.operators
      BY <1>7 DEF DropUnmatched, Typed, Tables
    <2> QED BY <2>1, <2>2, <1>kept
  <1>9. ASSUME NEW f \in Feed, feedUpdateOifs(f) PROVE Following'
    <2>1. UNCHANGED <<request, FoundFeeds, FoundOperators, db, pc>> /\ pc = "generate"
      BY <1>9 DEF feedUpdateOifs, FoundFeeds, FoundOperators, FeedsDue, OperatorsDue
    <2>2. tx'.feeds = tx.feeds /\ tx'.operators = tx.operators
      BY <1>9 DEF feedUpdateOifs, Typed, Tables
    <2> QED BY <2>1, <2>2, <1>kept
  <1>10. CASE Commit \/ Rollback
    BY <1>10 DEF Commit, Rollback, EndTx, Following
  <1>12. ASSUME NEW f \in Feed, NEW v \in VersionsOf[f] \cup {NoVersion}, MoveActive(f, v)
        PROVE Following'
    <2>1. UNCHANGED <<request, FoundFeeds, FoundOperators, pc, tx>>
      BY <1>12 DEF MoveActive, locals, FoundFeeds, FoundOperators, FeedsDue, OperatorsDue
    <2>2. db'.feeds = db.feeds /\ db'.operators = db.operators
      BY <1>12 DEF MoveActive, Typed, Tables
    <2> QED BY <2>1, <2>2, <1>kept
  <1>13. CASE UNCHANGED vars
    <2>1. UNCHANGED <<request, FoundFeeds, FoundOperators, pc, tx, db>>
      BY <1>13 DEF vars, locals, FoundFeeds, FoundOperators, FeedsDue, OperatorsDue
    <2> QED BY <2>1, <1>kept
  <1> QED
    BY <1>1, <1>2, <1>3, <1>5, <1>6, <1>7, <1>8, <1>9, <1>10, <1>12, <1>13 DEF Next

-----------------------------------------------------------------------------
(* What the statements of a sync see *)

LEMMA KnownStep == Typed /\ KnownStates /\ [Next]_vars => KnownStates'
  <1> SUFFICES ASSUME Typed, KnownStates, [Next]_vars PROVE KnownStates'
    OBVIOUS
  <1>1. ASSUME NEW r \in Request, Begin(r) PROVE KnownStates'
    <2>1. db' = db /\ tx'.feeds = db.feeds
      BY <1>1 DEF Begin, Typed, Tables
    <2> QED BY <2>1 DEF KnownStates
  <1>2. ASSUME NEW f \in Feed, UpdateFeed(f) PROVE KnownStates'
    <2> DEFINE states == EnsureFeedState(f, request.feeds[f])
    <2>1. db' = db /\ tx'.feeds = Upserted(tx.feeds, f, FoundFeed(f)) /\ tx'.states = states
      BY <1>2 DEF UpdateFeed, Typed, Tables
    <2>2. DOMAIN tx.states \subseteq DOMAIN states /\ f \in DOMAIN states \cup DOMAIN db.states
      BY EnsuredState
    <2> HIDE DEF states
    <2>3. DOMAIN Upserted(tx.feeds, f, FoundFeed(f)) = DOMAIN tx.feeds \cup {f}
      BY UpsertedDomain
    <2> QED BY <2>1, <2>2, <2>3 DEF KnownStates
  <1>3. CASE SetFeedStatePublic
    <2> DEFINE row == [saved EXCEPT !.public = request.setPublic]
    <2>1. db' = db /\ tx'.feeds = tx.feeds /\ tx'.states = Put(tx.states, current, row)
      BY <1>3 DEF SetFeedStatePublic, Typed, Tables
    <2>2. DOMAIN Put(tx.states, current, row) = DOMAIN tx.states \cup {current}
      BY PutDomain
    <2> QED BY <2>1, <2>2 DEF KnownStates
  <1>8. CASE HideUnseen
    <2>1. /\ db' = db /\ tx'.feeds = Hide(tx.feeds, DOMAIN request.feeds, request.hideUnseen)
          /\ tx'.states = tx.states
      BY <1>8 DEF HideUnseen, Typed, Tables
    <2>2. DOMAIN Hide(tx.feeds, DOMAIN request.feeds, request.hideUnseen) = DOMAIN tx.feeds
      BY DEF Hide
    <2> QED BY <2>1, <2>2 DEF KnownStates
  <1>kept. ASSUME db' = db, tx'.feeds = tx.feeds, tx'.states = tx.states PROVE KnownStates'
    BY <1>kept DEF KnownStates
  <1>4. CASE FeedsDone \/ DropUnmatched
    <2>1. db' = db /\ tx'.feeds = tx.feeds /\ tx'.states = tx.states
      BY <1>4 DEF FeedsDone, DropUnmatched, Typed, Tables
    <2> QED BY <2>1, <1>kept
  <1>5. ASSUME NEW o \in Operator, UpdateOperator(o) PROVE KnownStates'
    <2>1. db' = db /\ tx'.feeds = tx.feeds /\ tx'.states = tx.states
      BY <1>5 DEF UpdateOperator, Typed, Tables
    <2> QED BY <2>1, <1>kept
  <1>6. ASSUME NEW f \in Feed, NEW a \in Agency \cup {NoAgency}, MatchAssociation(f, a)
        PROVE KnownStates'
    <2>1. db' = db /\ tx'.feeds = tx.feeds /\ tx'.states = tx.states
      BY <1>6 DEF MatchAssociation, Typed, Tables
    <2> QED BY <2>1, <1>kept
  <1>9. ASSUME NEW f \in Feed, feedUpdateOifs(f) PROVE KnownStates'
    <2>1. db' = db /\ tx'.feeds = tx.feeds /\ tx'.states = tx.states
      BY <1>9 DEF feedUpdateOifs, Typed, Tables
    <2> QED BY <2>1, <1>kept
  <1>10. CASE Commit \/ Rollback
    <2>1. DOMAIN tx'.feeds = {} /\ DOMAIN tx'.states = {}
      BY <1>10 DEF Commit, Rollback, EndTx, EmptyTables, Empty
    <2>2. CASE Rollback
      BY <2>1, <2>2 DEF Rollback, KnownStates
    <2>3. CASE Commit
      <3>1. db'.feeds = tx.feeds /\ db'.states = States(tx.states)
        BY <2>3 DEF Commit, Typed, Tables
      <3>2. DOMAIN db'.states = DOMAIN tx.states \cup DOMAIN db.states
        BY <3>1, FeedsTyped, StateRows
      <3> QED BY <2>1, <3>1, <3>2 DEF KnownStates
    <2> QED BY <1>10, <2>2, <2>3
  <1>12. ASSUME NEW f \in Feed, NEW v \in VersionsOf[f] \cup {NoVersion}, MoveActive(f, v)
        PROVE KnownStates'
    <2>1. tx' = tx /\ db'.feeds = db.feeds /\ db'.states = [db.states EXCEPT ![f].mat = v]
      BY <1>12 DEF MoveActive, Typed, Tables
    <2>2. DOMAIN db'.states = DOMAIN db.states
      BY <2>1
    <2> QED BY <2>1, <2>2 DEF KnownStates
  <1>13. CASE UNCHANGED vars
    BY <1>13, <1>kept DEF vars
  <1> QED
    BY <1>1, <1>2, <1>3, <1>4, <1>5, <1>6, <1>8, <1>9, <1>10, <1>12, <1>13 DEF Next

\* The agencies of a feed are the same as long as no row of feed_states changes.
LEMMA AgenciesKept ==
  ASSUME db'.states = db.states, tx'.states = tx.states, NEW f
  PROVE  Agencies(f)' = Agencies(f)
  BY DEF Agencies, HasState, State, States

\* An activation changes those of its feed only.
LEMMA AgenciesMoved ==
  ASSUME NEW f, NEW v, MoveActive(f, v), Typed, NEW g, g # f
  PROVE  Agencies(g)' = Agencies(g)
  <1>1. tx'.states = tx.states /\ db'.states = [db.states EXCEPT ![f].mat = v]
    BY DEF MoveActive, Typed, Tables
  <1>2. DOMAIN db'.states = DOMAIN db.states
    BY <1>1
  <1>3. g \in DOMAIN db.states => db'.states[g] = db.states[g]
    BY <1>1
  <1>4. HasState(g)' <=> HasState(g)
    BY <1>1, <1>2 DEF HasState
  <1>5. HasState(g) => State(g)' = State(g)
    BY <1>1, <1>2, <1>3 DEF HasState, State, States
  <1> QED BY <1>4, <1>5 DEF Agencies

\* What a sync commits is what its statements saw, of every feed it has.
LEMMA ActiveSeen ==
  ASSUME Typed, KnownStates, Commit, NEW f \in DOMAIN tx.feeds
  PROVE  Active(f) = Agencies(f)
  <1>1. db'.states = States(tx.states)
    BY DEF Commit, Typed, Tables
  <1>2. HasState(f)
    BY DEF KnownStates, HasState
  <1> QED BY <1>1, <1>2 DEF Active, Agencies, State

-----------------------------------------------------------------------------
(* Generated associations *)
LEMMA AssociationIsRow ==
  ASSUME NEW r \in Association
  PROVE  r = Row(r.operator, r.feed, r.agency)
  BY DEF Association, Row

\* A feed dealt with has its agencies, and no other.
LEMMA GeneratedHere ==
  ASSUME Typed, NEW f \in Feed, feedUpdateOifs(f)
  PROVE  Generated(f)'
  <1> DEFINE rows == RowsOfFeed(f)
             generated == {r \in rows : r.operator = NoOperator}
             Lookup(r) == {s \in rows : Key(s) = Key(r)}
             wanted == {Row(NoOperator, f, a) : a \in Agencies(f)}
             missing == {r \in wanted : Lookup(r) = {}}
  <1>1. PICK kept \in SUBSET (generated \cap wanted) :
          /\ \A r \in (generated \cap wanted) \ kept : Lookup(r) # {r}
          /\ tx' = [tx EXCEPT !.oifs = KeepOneOf(@, generated, kept \cup missing)]
    BY DEF feedUpdateOifs
  <1>2. /\ tx'.oifs = KeepOneOf(tx.oifs, generated, kept \cup missing) /\ tx'.states = tx.states
        /\ db' = db
    BY <1>1 DEF feedUpdateOifs, Typed, Tables
  <1>3. Agencies(f)' = Agencies(f)
    BY <1>2, AgenciesKept
  <1>4. /\ BagToSet(tx'.oifs) = (BagToSet(tx.oifs) \ generated) \cup (kept \cup missing)
        /\ \A r \in kept \cup missing : tx'.oifs[r] = 1
    BY <1>2, FeedsTyped, KeptRows
  <1>same. ASSUME NEW s \in generated, NEW a, Key(s) = <<f, a>> PROVE s = Row(NoOperator, f, a)
    <2>1. s \in Association /\ s.operator = NoOperator
      BY FeedsTyped DEF RowsOfFeed
    <2>2. s.feed = f /\ s.agency = a
      BY <1>same DEF Key
    <2> QED BY <2>1, <2>2, AssociationIsRow
  <1>5. ASSUME NEW a \in Agencies(f) PROVE \E r \in BagToSet(tx'.oifs) : Key(r) = <<f, a>>
    <2> DEFINE w == Row(NoOperator, f, a)
    <2>1. w \in wanted /\ Key(w) = <<f, a>>
      BY DEF Row, Key
    <2>2. CASE Lookup(w) = {}
      BY <2>1, <2>2, <1>4
    <2>3. CASE Lookup(w) # {}
      <3>1. PICK s \in rows : Key(s) = <<f, a>>
        BY <2>1, <2>3
      <3>2. CASE s \notin generated
        BY <3>1, <3>2, <1>4 DEF RowsOfFeed
      <3>3. CASE s \in generated /\ s \in kept
        BY <3>1, <3>3, <1>4
      <3>4. CASE s \in generated /\ s \notin kept
        <4>1. s = w
          BY <3>1, <3>4, <1>same
        <4>2. Lookup(w) # {w} /\ w \in Lookup(w)
          BY <4>1, <3>4, <2>1, <1>1
        <4>3. PICK t \in rows : Key(t) = <<f, a>> /\ t # w
          BY <4>2, <2>1
        <4>4. t \notin generated
          BY <4>3, <1>same
        <4> QED BY <4>3, <4>4, <1>4 DEF RowsOfFeed
      <3> QED BY <3>2, <3>3, <3>4
    <2> QED BY <2>2, <2>3
  <1>6. ASSUME NEW r \in BagToSet(tx'.oifs), r.operator = NoOperator, r.feed = f
        PROVE  r \in kept \cup missing /\ r.agency \in Agencies(f)
    <2>1. r \in kept \cup missing
      BY <1>4, <1>6 DEF RowsOfFeed
    <2>2. r \in wanted
      BY <2>1
    <2> QED BY <2>1, <2>2 DEF Row
  <1> QED BY <1>3, <1>4, <1>5, <1>6 DEF Generated

\* It takes nothing from another feed.
LEMMA GeneratedElsewhere ==
  ASSUME Typed, NEW f \in Feed, feedUpdateOifs(f), NEW g, g # f, Generated(g)
  PROVE  Generated(g)'
  <1> DEFINE rows == RowsOfFeed(f)
             generated == {r \in rows : r.operator = NoOperator}
             Lookup(r) == {s \in rows : Key(s) = Key(r)}
             wanted == {Row(NoOperator, f, a) : a \in Agencies(f)}
             missing == {r \in wanted : Lookup(r) = {}}
  <1>1. PICK kept \in SUBSET (generated \cap wanted) :
          tx' = [tx EXCEPT !.oifs = KeepOneOf(@, generated, kept \cup missing)]
    BY DEF feedUpdateOifs
  <1>2. /\ tx'.oifs = KeepOneOf(tx.oifs, generated, kept \cup missing) /\ tx'.states = tx.states
        /\ db' = db
    BY <1>1 DEF feedUpdateOifs, Typed, Tables
  <1>3. Agencies(g)' = Agencies(g)
    BY <1>2, AgenciesKept
  <1>4. BagToSet(tx'.oifs) = (BagToSet(tx.oifs) \ generated) \cup (kept \cup missing)
    BY <1>2, FeedsTyped, KeptRows
  <1>5. \A r \in kept \cup missing \cup generated : r.feed = f
    BY DEF Row, RowsOfFeed
  <1>6. ASSUME NEW a \in Agencies(g) PROVE \E r \in BagToSet(tx'.oifs) : Key(r) = <<g, a>>
    <2>1. PICK r \in BagToSet(tx.oifs) : Key(r) = <<g, a>>
      BY DEF Generated
    <2>2. r.feed = g
      BY <2>1 DEF Key
    <2> QED BY <2>1, <2>2, <1>4, <1>5
  <1>7. ASSUME NEW r \in BagToSet(tx'.oifs), r.feed = g
        PROVE  r \in BagToSet(tx.oifs) /\ tx'.oifs[r] = tx.oifs[r]
    <2>1. r \in BagToSet(tx.oifs) \ generated /\ r \notin kept \cup missing
      BY <1>4, <1>5, <1>7
    <2> QED BY <2>1, <1>2 DEF KeepOneOf
  <1> QED BY <1>3, <1>6, <1>7 DEF Generated

LEMMA GenerateStep == Typed /\ Generating /\ [Next]_vars => Generating'
  <1> SUFFICES ASSUME Typed, Generating, [Next]_vars, pc' = "generate",
                      NEW g \in DOMAIN request'.feeds \ (todo' \cup moved')
               PROVE  Generated(g)'
    BY DEF Generating
  <1>ok. Doing
    BY DEF Typed
  <1>1. CASE HideUnseen
    BY <1>1 DEF HideUnseen
  <1>2. ASSUME NEW f \in Feed, feedUpdateOifs(f) PROVE Generated(g)'
    <2>1. pc = "generate" /\ request' = request /\ todo' = todo \ {f} /\ moved' = moved
      BY <1>2 DEF feedUpdateOifs
    <2>2. CASE g = f
      BY <1>2, <2>2, GeneratedHere
    <2>3. CASE g # f
      <3>1. Generated(g)
        BY <2>1, <2>3 DEF Generating
      <3> QED BY <1>2, <2>3, <3>1, GeneratedElsewhere
    <2> QED BY <2>2, <2>3
  <1>3. ASSUME NEW f \in Feed, NEW v \in VersionsOf[f] \cup {NoVersion}, MoveActive(f, v)
        PROVE Generated(g)'
    <2>1. pc = "generate" /\ UNCHANGED <<tx, request, todo>> /\ moved' = moved \cup {f}
      BY <1>3 DEF MoveActive, locals
    <2>2. g # f /\ Generated(g)
      BY <2>1 DEF Generating
    <2>3. Agencies(g)' = Agencies(g)
      BY <1>3, <2>2, AgenciesMoved
    <2> QED BY <2>1, <2>2, <2>3 DEF Generated
  <1>4. CASE UNCHANGED vars
    <2>1. UNCHANGED <<db, tx, pc, request, todo, moved>>
      BY <1>4 DEF vars, locals
    <2>2. Generated(g)
      BY <2>1 DEF Generating
    <2>3. Agencies(g)' = Agencies(g)
      BY <2>1, AgenciesKept
    <2> QED BY <2>1, <2>2, <2>3 DEF Generated
  <1>5. ASSUME NEW r \in Request, Begin(r) PROVE FALSE
    BY <1>5 DEF Begin
  <1>6. ASSUME NEW f \in Feed, UpdateFeed(f) PROVE FALSE
    BY <1>6 DEF UpdateFeed
  <1>7. ASSUME NEW o \in Operator, UpdateOperator(o) PROVE FALSE
    BY <1>7 DEF UpdateOperator
  <1>8. ASSUME NEW f \in Feed, NEW a \in Agency \cup {NoAgency}, MatchAssociation(f, a) PROVE FALSE
    BY <1>8 DEF MatchAssociation
  <1>9. ~(SetFeedStatePublic \/ FeedsDone \/ DropUnmatched \/ Commit \/ Rollback)
    BY DEF SetFeedStatePublic, FeedsDone, DropUnmatched, Commit, Rollback, EndTx
  <1> QED
    BY <1>1, <1>2, <1>3, <1>4, <1>5, <1>6, <1>7, <1>8, <1>9 DEF Next

-----------------------------------------------------------------------------
(* The associations of operators *)
LEMMA KeyOfRow ==
  ASSUME NEW o, NEW f, NEW a
  PROVE  Key(Row(o, f, a)) = <<f, a>> /\ Row(o, f, a).operator = o
  BY DEF Key, Row

LEMMA InKeys ==
  ASSUME NEW o, NEW k
  PROVE  k \in Keys(o) <=> \E r \in BagToSet(tx.oifs) : r.operator = o /\ Key(r) = k
  BY DEF Keys, RowsOfOperator

LEMMA InResolve ==
  ASSUME NEW P, NEW k
  PROVE  k \in Resolve(P) <=> \E p \in P : p[1] \in DOMAIN tx.feeds /\ Resolved(p) = k
  BY DEF Resolve

LEMMA InStill ==
  ASSUME NEW K, NEW k
  PROVE  k \in Still(K) <=> k \in K /\ k[1] \notin moved
  BY DEF Still

LEMMA ResolvedFeed ==
  ASSUME NEW p
  PROVE  Resolved(p)[1] = p[1]
  BY DEF Resolved

\* Where no row of feed_states changes, associations resolve as before.
LEMMA ResolveKept ==
  ASSUME db'.states = db.states, tx'.states = tx.states, DOMAIN tx'.feeds = DOMAIN tx.feeds, NEW P
  PROVE  Resolve(P)' = Resolve(P)
  <1>1. \A f : Agencies(f)' = Agencies(f)
    BY AgenciesKept
  <1>2. \A p : Resolved(p)' = Resolved(p)
    BY <1>1 DEF Resolved
  <1> QED BY <1>2 DEF Resolve

\* A step between statements on associations keeps what they follow.
LEMMA AssociatingKept ==
  ASSUME Associating, db'.states = db.states, tx'.states = tx.states, DOMAIN tx'.feeds = DOMAIN tx.feeds,
         UNCHANGED <<request, moved>>, pc # "idle", pc # "match", pc' # "match",
         FoundOperators' \subseteq FoundOperators,
         \A o \in FoundOperators : Keys(o)' = Keys(o)
  PROVE  Associating'
  <1>1. ASSUME NEW o \in FoundOperators' PROVE Still(Keys(o))' = Still(Resolve(Associated(o)))'
    <2>1. Still(Keys(o)) = Still(Resolve(Associated(o)))
      BY <1>1 DEF Associating
    <2>2. Keys(o)' = Keys(o) /\ Associated(o)' = Associated(o)
      BY <1>1 DEF Associated
    <2>3. Resolve(Associated(o))' = Resolve(Associated(o))
      BY <2>2, ResolveKept DEF Resolve
    <2> QED BY <2>1, <2>2, <2>3 DEF Still
  <1> QED BY <1>1 DEF Associating

\* The operator in progress; the others keep their rows.
LEMMA MatchStep ==
  ASSUME Typed, Associating, NEW f \in Feed, NEW a \in Agency \cup {NoAgency}, MatchAssociation(f, a)
  PROVE  Associating'
  <1> DEFINE p == <<f, a>>
             key == <<f, ResolvedGtfsAgencyID(Agencies(f), a)>>
  <1>ok. pc = "match" /\ current \in DOMAIN request.operators
    BY DEF Typed, Doing, MatchAssociation
  <1>1. /\ p \in assocs /\ assocs' = assocs \ {p} /\ pc' = pc
        /\ UNCHANGED <<db, request, todo, current, existing, moved>>
        /\ tx'.states = tx.states /\ tx'.feeds = tx.feeds
    BY DEF MatchAssociation, Typed, Tables
  <1>2. Resolved(p) = key
    BY DEF Resolved
  <1>3. \A P : Resolve(P)' = Resolve(P)
    BY <1>1, ResolveKept
  <1>4. \A o : Associated(o)' = Associated(o)
    BY <1>1 DEF Associated
  <1>5. FoundOperators' = FoundOperators
    BY <1>1 DEF FoundOperators, OperatorsDue
  <1>6. \/ f \notin DOMAIN tx.feeds /\ matched' = matched /\ tx' = tx
        \/ f \in DOMAIN tx.feeds /\ key \in existing /\ matched' = matched \cup {key} /\ tx' = tx
        \/ /\ f \in DOMAIN tx.feeds /\ key \notin existing /\ matched' = matched
           /\ tx'.oifs = BagAdd(tx.oifs, Row(current, f, key[2]))
    BY DEF MatchAssociation, Typed, Tables
  <1>7. /\ \A o : o # current => Keys(o)' = Keys(o)
        /\ tx' = tx => Keys(current)' = Keys(current)
        /\ tx'.oifs = BagAdd(tx.oifs, Row(current, f, key[2])) => Keys(current)' = Keys(current) \cup {key}
    <2>1. tx' = tx => \A o : Keys(o)' = Keys(o)
      BY DEF Keys, RowsOfOperator
    <2>2. ASSUME tx'.oifs = BagAdd(tx.oifs, Row(current, f, key[2])), NEW o
          PROVE  Keys(o)' = IF o = current THEN Keys(o) \cup {key} ELSE Keys(o)
      <3> DEFINE row == Row(current, f, key[2])
      <3>1. BagToSet(tx'.oifs) = BagToSet(tx.oifs) \cup {row}
        BY <2>2, AddedRow, FeedsTyped
      <3>2. Key(row) = key /\ row.operator = current
        BY KeyOfRow
      <3> HIDE DEF row, key
      <3>3. Keys(o) = {Key(r) : r \in {s \in BagToSet(tx.oifs) : s.operator = o}}
        BY DEF Keys, RowsOfOperator
      <3>4. Keys(o)' = {Key(r) : r \in {s \in BagToSet(tx'.oifs) : s.operator = o}}
        BY DEF Keys, RowsOfOperator, Key
      <3> QED BY <3>1, <3>2, <3>3, <3>4
    <2>3. tx'.oifs = BagAdd(tx.oifs, Row(current, f, key[2]))
            => (\A o : o # current => Keys(o)' = Keys(o)) /\ Keys(current)' = Keys(current) \cup {key}
      BY <1>1, <2>2
    <2> QED BY <1>1, <1>6, <2>1, <2>3
  <1>8. ASSUME NEW o \in FoundOperators, o # current
        PROVE (Still(Keys(o)) = Still(Resolve(Associated(o))))'
    <2>1. Still(Keys(o)) = Still(Resolve(Associated(o)))
      BY <1>8, <1>ok DEF Associating
    <2>2. Keys(o)' = Keys(o) /\ Resolve(Associated(o))' = Resolve(Associated(o))
      BY <1>3, <1>4, <1>7, <1>8 DEF Resolve
    <2> QED BY <2>1, <2>2, <1>1 DEF Still
  <1> DEFINE done == Associated(current) \ assocs
             found == matched \cup (Keys(current) \ existing)
  <1>9. /\ existing \subseteq Keys(current) /\ assocs \subseteq Associated(current)
        /\ Still(found) = Still(Resolve(done))
    BY <1>ok DEF Associating
  <1>10. done' = done \cup {p} /\ p \in Associated(current)
    BY <1>1, <1>4, <1>9
  <1>11. Resolve(done)' = Resolve(done \cup {p})
    <2>1. Resolve(done)' = Resolve(done')
      BY <1>3 DEF Resolve
    <2> QED BY <2>1, <1>10
  <1> HIDE DEF done, key, p
  <1>12. Resolve(done \cup {p}) = IF f \in DOMAIN tx.feeds THEN Resolve(done) \cup {key} ELSE Resolve(done)
    BY <1>2 DEF Resolve, p
  <1>13. existing' \subseteq Keys(current)'
    BY <1>1, <1>6, <1>7, <1>9
  <1>14. found' = IF f \in DOMAIN tx.feeds THEN found \cup {key} ELSE found
    BY <1>1, <1>6, <1>7
  <1> HIDE DEF found
  <1>15. Still(found)' = Still(Resolve(done))'
    <2>1. \A K : Still(K \cup {key}) = Still(K) \cup Still({key})
      BY DEF Still
    <2>2. Still(found') = Still(Resolve(done)')
      BY <1>9, <1>11, <1>12, <1>14, <2>1
    <2> QED BY <2>2, <1>1 DEF Still
  <1>16. (\A o \in FoundOperators :
            ~(pc = "match" /\ o = current) => Still(Keys(o)) = Still(Resolve(Associated(o))))'
    BY <1>ok, <1>1, <1>5, <1>8
  <1>17. (existing \subseteq Keys(current) /\ assocs \subseteq Associated(current))'
    BY <1>1, <1>4, <1>9, <1>13
  <1>18. (Still(matched \cup (Keys(current) \ existing)) = Still(Resolve(Associated(current) \ assocs)))'
    BY <1>15 DEF done, found
  <1> QED BY <1>16, <1>17, <1>18 DEF Associating

LEMMA DropStep ==
  ASSUME Typed, Associating, DropUnmatched
  PROVE  Associating'
  <1> DEFINE RowsOfKeys(keys) == {Row(current, k[1], k[2]) : k \in keys}
  <1>1. /\ pc = "match" /\ assocs = {} /\ pc' = "operators"
        /\ UNCHANGED <<db, request, todo, moved>>
        /\ tx'.states = tx.states /\ tx'.feeds = tx.feeds
        /\ tx'.oifs = KeepOneOf(tx.oifs, RowsOfKeys(existing), RowsOfKeys(matched))
    BY DEF DropUnmatched, Typed, Tables
  <1>2. FoundOperators' = FoundOperators
    BY <1>1 DEF FoundOperators, OperatorsDue
  <1>3. BagToSet(tx'.oifs) = (BagToSet(tx.oifs) \ RowsOfKeys(existing)) \cup RowsOfKeys(matched)
    BY <1>1, FeedsTyped, KeptRows
  <1>4. matched \in AssociatedFeeds /\ existing \in AssociatedFeeds
    BY DEF Typed, TypeOK, AssociatedFeeds
  <1>5. ASSUME NEW o, o # current PROVE Keys(o)' = Keys(o)
    <2>1. \A r \in RowsOfKeys(existing) \cup RowsOfKeys(matched) : r.operator # o
      BY <1>5 DEF Row
    <2> HIDE DEF RowsOfKeys
    <2>2. {r \in BagToSet(tx'.oifs) : r.operator = o} = {r \in BagToSet(tx.oifs) : r.operator = o}
      BY <1>3, <2>1
    <2> QED BY <2>2 DEF Keys, RowsOfOperator, Key
  <1>6. (Keys(current) \ existing) \cup matched
          = {Key(r) : r \in {s \in BagToSet(tx'.oifs) : s.operator = current}}
    <2> DEFINE here == {s \in BagToSet(tx'.oifs) : s.operator = current}
    <2>1. ASSUME NEW k \in Keys(current) \ existing PROVE \E r \in here : Key(r) = k
      <3>1. PICK r \in BagToSet(tx.oifs) : r.operator = current /\ Key(r) = k
        BY <2>1, InKeys
      <3>2. r \notin RowsOfKeys(existing)
        <4>1. \A e \in existing : Key(Row(current, e[1], e[2])) = e
          BY <1>4, KeyOfRow DEF AssociatedFeeds
        <4> QED BY <4>1, <3>1, <2>1
      <3> QED BY <3>1, <3>2, <1>3
    <2>2. ASSUME NEW k \in matched PROVE \E r \in here : Key(r) = k
      <3>1. k = <<k[1], k[2]>>
        BY <1>4 DEF AssociatedFeeds
      <3>2. Row(current, k[1], k[2]) \in here
        BY <1>3, KeyOfRow
      <3> QED BY <3>1, <3>2, KeyOfRow
    <2>3. ASSUME NEW r \in here PROVE Key(r) \in (Keys(current) \ existing) \cup matched
      <3>1. CASE r \in RowsOfKeys(matched)
        <4>1. PICK k \in matched : r = Row(current, k[1], k[2])
          BY <3>1
        <4>2. k = <<k[1], k[2]>>
          BY <1>4 DEF AssociatedFeeds
        <4> QED BY <4>1, <4>2, KeyOfRow
      <3>2. CASE r \in BagToSet(tx.oifs) \ RowsOfKeys(existing)
        <4>1. Key(r) \in Keys(current)
          BY <3>2, InKeys
        <4>2. r \in Association
          BY <3>2, FeedsTyped
        <4>3. r = Row(current, Key(r)[1], Key(r)[2])
          BY <4>2, AssociationIsRow DEF Key
        <4> QED BY <3>2, <4>1, <4>3
      <3> QED BY <3>1, <3>2, <1>3
    <2> HIDE DEF here
    <2>4. (Keys(current) \ existing) \cup matched = {Key(r) : r \in here}
      BY <2>1, <2>2, <2>3
    <2> QED BY <2>4 DEF here
  <1>7. ASSUME NEW o \in FoundOperators PROVE (Still(Keys(o)) = Still(Resolve(Associated(o))))'
    <2>1. Resolve(Associated(o))' = Resolve(Associated(o))
      <3>1. Associated(o)' = Associated(o)
        BY <1>1 DEF Associated
      <3>2. \A P : Resolve(P)' = Resolve(P)
        BY <1>1, ResolveKept
      <3> QED BY <3>1, <3>2 DEF Resolve
    <2>2. CASE o # current
      <3>1. Still(Keys(o)) = Still(Resolve(Associated(o)))
        BY <2>2, <1>1 DEF Associating
      <3> QED BY <3>1, <2>1, <2>2, <1>1, <1>5 DEF Still
    <2>3. CASE o = current
      <3>1. Keys(o)' = matched \cup (Keys(o) \ existing)
        <4>1. {Key(r) : r \in {s \in BagToSet(tx'.oifs) : s.operator = o}} = matched \cup (Keys(o) \ existing)
          BY <1>6, <2>3
        <4> QED BY <4>1 DEF Keys, RowsOfOperator, Key
      <3>2. Associated(o) \ assocs = Associated(o)
        BY <1>1
      <3>3. Still(matched \cup (Keys(o) \ existing)) = Still(Resolve(Associated(o)))
        BY <1>1, <2>3, <3>2 DEF Associating
      <3> QED BY <3>1, <3>3, <2>1, <1>1 DEF Still
    <2> QED BY <2>2, <2>3
  <1> QED BY <1>1, <1>2, <1>7 DEF Associating

\* Of what an activation changes, nothing is claimed.
LEMMA MovedStep ==
  ASSUME Typed, Associating, NEW f \in Feed, NEW v, MoveActive(f, v)
  PROVE  Associating'
  <1> SUFFICES ASSUME pc' # "idle" PROVE Associating'
    BY DEF Associating
  <1>1. /\ UNCHANGED <<tx, pc, request, todo, current, assocs, existing, matched>>
        /\ moved' = moved \cup {f} /\ pc # "idle"
    BY DEF MoveActive, locals
  <1>2. FoundOperators' = FoundOperators /\ \A o : Associated(o)' = Associated(o) /\ Keys(o)' = Keys(o)
    BY <1>1 DEF FoundOperators, OperatorsDue, Associated, Keys, RowsOfOperator
  <1>3. \A p : p[1] # f => Resolved(p)' = Resolved(p)
    BY AgenciesMoved DEF Resolved
  <1>4. ASSUME NEW K, NEW P, Still(K) = Still(Resolve(P)) PROVE (Still(K) = Still(Resolve(P)))'
    <2>1. ASSUME NEW k PROVE k \in Still(K)' <=> k \in Still(K) /\ k[1] # f
      BY <1>1 DEF Still
    <2>2. ASSUME NEW k PROVE k \in Still(Resolve(P))' <=> k \in Still(Resolve(P)) /\ k[1] # f
      <3>1. k \in Still(Resolve(P))' <=> k[1] \notin moved /\ k[1] # f /\ k \in Resolve(P)'
        BY <1>1 DEF Still
      <3>2. k \in Resolve(P)' <=> \E p \in P : p[1] \in DOMAIN tx.feeds /\ Resolved(p)' = k
        BY <1>1 DEF Resolve
      <3>3. k \in Resolve(P) <=> \E p \in P : p[1] \in DOMAIN tx.feeds /\ Resolved(p) = k
        BY InResolve
      <3>4. \A p : Resolved(p)[1] = p[1] /\ Resolved(p)'[1] = p[1]
        BY DEF Resolved
      <3>5. k \in Still(Resolve(P)) <=> k \in Resolve(P) /\ k[1] \notin moved
        BY DEF Still
      <3>6. k[1] # f => (k \in Resolve(P)' <=> k \in Resolve(P))
        BY <3>2, <3>3, <3>4, <1>3
      <3> QED BY <3>1, <3>5, <3>6
    <2>3. Still(K)' = {k \in Still(K) : k[1] # f}
      BY <1>1 DEF Still
    <2>4. /\ Still(Resolve(P))' \subseteq Still(Resolve(P))
          /\ \A k \in Still(Resolve(P)) : k[1] # f => k \in Still(Resolve(P))'
      BY <2>2
    <2> QED BY <1>4, <2>2, <2>3, <2>4
  <1>5. ASSUME NEW o \in FoundOperators, ~(pc = "match" /\ o = current)
        PROVE  (Still(Keys(o)) = Still(Resolve(Associated(o))))'
    <2>1. Still(Keys(o)) = Still(Resolve(Associated(o)))
      BY <1>1, <1>5 DEF Associating
    <2> DEFINE K == Keys(o)
               P == Associated(o)
    <2>2. K' = K /\ P' = P
      BY <1>2
    <2> HIDE DEF K, P
    <2>3. (Still(K) = Still(Resolve(P)))'
      <3>1. Still(K) = Still(Resolve(P))
        BY <2>1 DEF K, P
      <3> QED BY <3>1, <2>2, <1>4 DEF Still, Resolve
    <2> QED BY <2>3 DEF K, P
  <1>6. CASE pc = "match"
    <2> DEFINE K == matched \cup (Keys(current) \ existing)
               P == Associated(current) \ assocs
    <2>1. /\ Still(K) = Still(Resolve(P))
          /\ existing \subseteq Keys(current) /\ assocs \subseteq Associated(current)
      BY <1>6 DEF Associating
    <2>2. K' = K /\ P' = P
      BY <1>1, <1>2
    <2> HIDE DEF K, P
    <2>3. (Still(K) = Still(Resolve(P)))'
      BY <2>1, <2>2, <1>4 DEF Still, Resolve
    <2>4. (Still(matched \cup (Keys(current) \ existing)) = Still(Resolve(Associated(current) \ assocs)))'
      BY <2>3 DEF K, P
    <2> QED BY <1>1, <1>2, <1>5, <2>1, <2>4 DEF Associating
  <1>7. CASE pc # "match"
    BY <1>1, <1>2, <1>5, <1>7 DEF Associating
  <1> QED BY <1>6, <1>7

LEMMA AssociateStep == Typed /\ Associating /\ [Next]_vars => Associating'
  <1> SUFFICES ASSUME Typed, Associating, [Next]_vars PROVE Associating'
    OBVIOUS
  <1>ok. Doing
    BY DEF Typed
  <1>none. ASSUME FoundOperators' = {}, pc' # "match" PROVE Associating'
    BY <1>none DEF Associating
  <1>keys. \A o : tx'.oifs = tx.oifs => Keys(o)' = Keys(o)
    BY DEF Keys, RowsOfOperator
  <1>1. ASSUME NEW r \in Request, Begin(r) PROVE Associating'
    BY <1>1, <1>none DEF Begin, FoundOperators, OperatorsDue
  <1>2. ASSUME NEW f \in Feed, UpdateFeed(f) PROVE Associating'
    <2>1. pc' \in {"feeds", "public"} /\ UNCHANGED request
      BY <1>2 DEF UpdateFeed
    <2> QED BY <2>1, <1>none DEF FoundOperators, OperatorsDue
  <1>3. CASE SetFeedStatePublic \/ FeedsDone
    BY <1>3, <1>none DEF SetFeedStatePublic, FeedsDone, FoundOperators, OperatorsDue
  <1>5. ASSUME NEW o \in Operator, UpdateOperator(o) PROVE Associating'
    <2>1. /\ pc = "operators" /\ pc' = "match" /\ o \in todo /\ o \in DOMAIN request.operators
          /\ current' = o /\ todo' = todo \ {o} /\ assocs' = Associated(o) /\ existing' = Keys(o)
          /\ matched' = {} /\ UNCHANGED <<db, request, moved>>
          /\ tx'.oifs = tx.oifs /\ tx'.states = tx.states /\ tx'.feeds = tx.feeds
      BY <1>5, <1>ok DEF UpdateOperator, Doing, Typed, Tables, FoundOperator, Associated, Keys
    <2>2. FoundOperators' = FoundOperators \cup {o}
      BY <2>1 DEF FoundOperators, OperatorsDue
    <2>3. \A p : Keys(p)' = Keys(p) /\ Associated(p)' = Associated(p)
      BY <1>keys, <2>1 DEF Associated
    <2>4. \A P : Resolve(P)' = Resolve(P)
      BY <2>1, ResolveKept
    <2>5. ASSUME NEW p \in FoundOperators PROVE (Still(Keys(p)) = Still(Resolve(Associated(p))))'
      <3>1. Still(Keys(p)) = Still(Resolve(Associated(p)))
        BY <2>1 DEF Associating
      <3>2. Resolve(Associated(p))' = Resolve(Associated(p))
        BY <2>3, <2>4 DEF Resolve
      <3> QED BY <3>1, <3>2, <2>1, <2>3 DEF Still
    <2>6. (\A p \in FoundOperators :
             ~(pc = "match" /\ p = current) => Still(Keys(p)) = Still(Resolve(Associated(p))))'
      BY <2>1, <2>2, <2>5
    <2>7. (existing \subseteq Keys(current) /\ assocs \subseteq Associated(current))'
      BY <2>1, <2>3
    <2>8. matched' \cup (Keys(current)' \ existing') = {} /\ Associated(current)' \ assocs' = {}
      BY <2>1, <2>3
    <2>9. (Still(matched \cup (Keys(current) \ existing)) = Still(Resolve(Associated(current) \ assocs)))'
      BY <2>8 DEF Still, Resolve
    <2> QED BY <2>6, <2>7, <2>9 DEF Associating
  <1>6. ASSUME NEW f \in Feed, NEW a \in Agency \cup {NoAgency}, MatchAssociation(f, a)
        PROVE Associating'
    BY <1>6, MatchStep
  <1>7. CASE DropUnmatched
    BY <1>7, DropStep
  <1>8. CASE HideUnseen
    <2>1. /\ pc = "operators" /\ pc' = "generate" /\ todo = {} /\ UNCHANGED <<db, request, moved>>
          /\ tx'.oifs = tx.oifs /\ tx'.states = tx.states
          /\ tx'.feeds = Hide(tx.feeds, DOMAIN request.feeds, request.hideUnseen)
      BY <1>8 DEF HideUnseen, Typed, Tables
    <2>2. DOMAIN Hide(tx.feeds, DOMAIN request.feeds, request.hideUnseen) = DOMAIN tx.feeds
      BY DEF Hide
    <2>3. FoundOperators' = FoundOperators
      BY <2>1 DEF FoundOperators, OperatorsDue
    <2>4. DOMAIN tx'.feeds = DOMAIN tx.feeds
      BY <2>1, <2>2
    <2> QED BY <2>1, <2>3, <2>4, <1>keys, AssociatingKept
  <1>9. ASSUME NEW f \in Feed, feedUpdateOifs(f) PROVE Associating'
    <2> DEFINE generated == {r \in RowsOfFeed(f) : r.operator = NoOperator}
               wanted == {Row(NoOperator, f, a) : a \in Agencies(f)}
    <2>1. /\ pc = "generate" /\ pc' = "generate" /\ UNCHANGED <<db, request, moved>>
          /\ tx'.states = tx.states /\ tx'.feeds = tx.feeds
      BY <1>9 DEF feedUpdateOifs, Typed, Tables
    <2>2. \E kept \in SUBSET wanted : tx'.oifs = KeepOneOf(tx.oifs, generated, kept)
      <3> DEFINE missing == {r \in wanted : {s \in RowsOfFeed(f) : Key(s) = Key(r)} = {}}
      <3>1. PICK kept \in SUBSET wanted :
              tx' = [tx EXCEPT !.oifs = KeepOneOf(@, generated, kept \cup missing)]
        BY <1>9 DEF feedUpdateOifs
      <3>2. kept \cup missing \in SUBSET wanted
        OBVIOUS
      <3>3. tx'.oifs = KeepOneOf(tx.oifs, generated, kept \cup missing)
        BY <3>1 DEF Typed, Tables
      <3> QED BY <3>2, <3>3
    <2>3. FoundOperators' = FoundOperators /\ FoundOperators \subseteq Operator
      BY <2>1, FeedsTyped, Requested DEF FoundOperators, OperatorsDue
    <2>4. ASSUME NEW o \in FoundOperators PROVE Keys(o)' = Keys(o)
      <3>1. o # NoOperator
        BY <2>3, RegistrySyncAssumption
      <3>2. PICK kept \in SUBSET wanted : tx'.oifs = KeepOneOf(tx.oifs, generated, kept)
        BY <2>2
      <3>3. BagToSet(tx'.oifs) = (BagToSet(tx.oifs) \ generated) \cup kept
        BY <3>2, FeedsTyped, KeptRows
      <3>4. \A r \in generated \cup kept : r.operator = NoOperator
        BY DEF Row
      <3> HIDE DEF generated, wanted
      <3>5. {r \in BagToSet(tx'.oifs) : r.operator = o} = {r \in BagToSet(tx.oifs) : r.operator = o}
        BY <3>1, <3>3, <3>4
      <3> QED BY <3>5 DEF Keys, RowsOfOperator, Key
    <2> QED BY <2>1, <2>3, <2>4, AssociatingKept
  <1>10. CASE Commit \/ Rollback
    BY <1>10 DEF Commit, Rollback, EndTx, Associating
  <1>12. ASSUME NEW f \in Feed, NEW v \in VersionsOf[f] \cup {NoVersion}, MoveActive(f, v)
        PROVE Associating'
    BY <1>12, MovedStep
  <1>13. CASE UNCHANGED vars
    <2>1. UNCHANGED <<db, tx, pc, request, todo, current, assocs, existing, matched, moved>>
      BY <1>13 DEF vars, locals
    <2>2. FoundOperators' = FoundOperators
      BY <2>1 DEF FoundOperators, OperatorsDue
    <2>3. \A o : Keys(o)' = Keys(o) /\ Associated(o)' = Associated(o)
      BY <2>1, <1>keys DEF Associated
    <2>4. \A P : Resolve(P)' = Resolve(P)
      BY <2>1, ResolveKept
    <2>5. ASSUME NEW o \in FoundOperators, ~(pc = "match" /\ o = current), pc # "idle"
          PROVE  (Still(Keys(o)) = Still(Resolve(Associated(o))))'
      <3>1. Still(Keys(o)) = Still(Resolve(Associated(o)))
        BY <2>5 DEF Associating
      <3>2. Resolve(Associated(o))' = Resolve(Associated(o))
        BY <2>3, <2>4 DEF Resolve
      <3> QED BY <3>1, <3>2, <2>1, <2>3 DEF Still
    <2>6. CASE pc = "match"
      <3>1. /\ existing \subseteq Keys(current) /\ assocs \subseteq Associated(current)
            /\ Still(matched \cup (Keys(current) \ existing)) = Still(Resolve(Associated(current) \ assocs))
        BY <2>6 DEF Associating
      <3>2. Resolve(Associated(current) \ assocs)' = Resolve(Associated(current) \ assocs)
        <4>1. (Associated(current) \ assocs)' = Associated(current) \ assocs
          BY <2>1, <2>3
        <4> QED BY <4>1, <2>4 DEF Resolve
      <3>3. (Still(matched \cup (Keys(current) \ existing)) = Still(Resolve(Associated(current) \ assocs)))'
        BY <3>1, <3>2, <2>1, <2>3 DEF Still
      <3>4. (existing \subseteq Keys(current) /\ assocs \subseteq Associated(current))'
        BY <3>1, <2>1, <2>3
      <3>5. (\A o \in FoundOperators :
               ~(pc = "match" /\ o = current) => Still(Keys(o)) = Still(Resolve(Associated(o))))'
        BY <2>1, <2>2, <2>5, <2>6
      <3> QED BY <3>3, <3>4, <3>5 DEF Associating
    <2>7. CASE pc # "match"
      BY <2>1, <2>2, <2>5, <2>7 DEF Associating
    <2> QED BY <2>6, <2>7
  <1> QED
    BY <1>1, <1>2, <1>3, <1>5, <1>6, <1>7, <1>8, <1>9, <1>10, <1>12, <1>13 DEF Next

-----------------------------------------------------------------------------
(* What a sync leaves behind *)
THEOREM SyncInvariant == Spec => []SyncInv
  <1>1. Init => SyncInv
    <2> SUFFICES ASSUME Init PROVE SyncInv
      OBVIOUS
    <2>1. pc = "idle" /\ db = EmptyTables /\ tx = EmptyTables
      BY DEF Init
    <2>2. KnownStates
      BY <2>1 DEF KnownStates, EmptyTables
    <2>3. Following /\ Associating /\ Generating
      BY <2>1 DEF Following, Associating, Generating
    <2> QED BY <2>2, <2>3, TypeInit DEF SyncInv
  <1>2. SyncInv /\ [Next]_vars => SyncInv'
    BY TypeStep, FollowStep, KnownStep, GenerateStep, AssociateStep DEF SyncInv
  <1> QED BY <1>1, <1>2, PTL DEF Spec

(* A sync newly hides what the registry lacks and nothing else, and stores what *)
(* the registry says of the rest, for every chain of syncs and whatever is     *)
(* activated meanwhile.  A row that was hidden and comes back as it was is left *)
(* hidden.                                                                  *)
THEOREM OnlyUnseenHidden == Spec => OnlyUnseenAreHidden
  <1>1. ASSUME SyncInv, Commit
        PROVE  /\ Settled(db.feeds, db'.feeds, [f \in DOMAIN request.feeds |-> FoundFeed(f)],
                          request.hideUnseen)
               /\ Settled(db.operators, db'.operators, [o \in DOMAIN request.operators |-> FoundOperator(o)],
                          request.hideUnseenOperators)
    <2>1. /\ pc = "generate" /\ todo = {} /\ db'.feeds = tx.feeds /\ db'.operators = tx.operators
      BY <1>1 DEF Commit, SyncInv, Typed, Tables
    <2>2. FoundFeeds = DOMAIN request.feeds /\ FoundOperators = DOMAIN request.operators
      BY <2>1 DEF FoundFeeds, FoundOperators, FeedsDue, OperatorsDue
    <2>3. request.hideUnseen \in BOOLEAN /\ request.hideUnseenOperators \in BOOLEAN
      BY <1>1, <2>1, FeedsTyped, Requested DEF SyncInv
    <2> DEFINE feeds == [f \in DOMAIN request.feeds |-> FoundFeed(f)]
               operators == [o \in DOMAIN request.operators |-> FoundOperator(o)]
    <2>4. /\ Settled(db.feeds, tx.feeds, feeds, pc = "generate" /\ request.hideUnseen)
          /\ Settled(db.operators, tx.operators, operators, pc = "generate" /\ request.hideUnseenOperators)
      BY <1>1, <2>1, <2>2 DEF SyncInv, Following
    <2> HIDE DEF feeds, operators
    <2>5. Settled(db.feeds, db'.feeds, feeds, request.hideUnseen)
      BY <2>1, <2>3, <2>4 DEF Settled
    <2>6. Settled(db.operators, db'.operators, operators, request.hideUnseenOperators)
      BY <2>1, <2>3, <2>4 DEF Settled
    <2> QED BY <2>5, <2>6 DEF feeds, operators
  <1> QED BY <1>1, SyncInvariant, PTL DEF Spec, OnlyUnseenAreHidden

\* Every feed found has a row when the sync commits.
LEMMA FoundHaveRows ==
  ASSUME SyncInv, pc = "generate", NEW f \in DOMAIN request.feeds
  PROVE  f \in DOMAIN tx.feeds
  <1> DEFINE feeds == [g \in FoundFeeds |-> FoundFeed(g)]
  <1>1. f \in DOMAIN feeds
    BY DEF FoundFeeds, FeedsDue
  <1>2. Settled(db.feeds, tx.feeds, feeds, pc = "generate" /\ request.hideUnseen)
    BY DEF SyncInv, Following
  <1> HIDE DEF feeds
  <1> QED BY <1>1, <1>2 DEF Settled

(* Every agency of a feed that a sync found has an association when the sync *)
(* commits, unless the feed was activated in between.                        *)
THEOREM AgenciesServed == Spec => AgenciesKeepAnOperator
  <1>1. ASSUME SyncInv, Commit
        PROVE  \A f \in DOMAIN request.feeds \ moved : \A a \in Active(f) :
                 \E r \in BagToSet(db'.oifs) : Key(r) = <<f, a>>
    <2> SUFFICES ASSUME NEW f \in DOMAIN request.feeds \ moved, NEW a \in Active(f)
                 PROVE  \E r \in BagToSet(db'.oifs) : Key(r) = <<f, a>>
      OBVIOUS
    <2>1. pc = "generate" /\ todo = {} /\ db'.oifs = tx.oifs
      BY <1>1 DEF Commit, SyncInv, Typed, Tables
    <2>2. Generated(f)
      BY <1>1, <2>1 DEF SyncInv, Generating
    <2>3. f \in DOMAIN tx.feeds
      BY <1>1, <2>1, FoundHaveRows
    <2>4. Active(f) = Agencies(f)
      BY <1>1, <2>3, ActiveSeen DEF SyncInv
    <2> QED BY <2>1, <2>2, <2>4 DEF Generated
  <1> QED BY <1>1, SyncInvariant, PTL DEF Spec, AgenciesKeepAnOperator

(* The associations of each operator that a sync found are those the registry *)
(* names, resolved in the active versions, and the generated ones of a feed   *)
(* are of agencies it has, one each.                                          *)
THEOREM AssociationsFollow == Spec => AssociationsFollowRegistry
  <1> DEFINE Expected(o) ==
               {<<p[1], ResolvedGtfsAgencyID(Active(p[1]), p[2])>> :
                  p \in {q \in request.operators[o].associated : q[1] \in DOMAIN db'.feeds}}
             Left(o) == {Key(r) : r \in {s \in BagToSet(db'.oifs) : s.operator = o}}
  <1>1. ASSUME SyncInv, Commit, NEW o \in DOMAIN request.operators
        PROVE  {k \in Left(o) : k[1] \notin moved} = {k \in Expected(o) : k[1] \notin moved}
    <2>1. pc = "generate" /\ db'.oifs = tx.oifs /\ db'.feeds = tx.feeds
      BY <1>1 DEF Commit, SyncInv, Typed, Tables
    <2>2. Still(Keys(o)) = Still(Resolve(Associated(o)))
      BY <1>1, <2>1 DEF SyncInv, Associating, FoundOperators, OperatorsDue
    <2>3. Left(o) = Keys(o)
      BY <2>1 DEF Keys, RowsOfOperator
    <2>4. \A f \in DOMAIN tx.feeds : Active(f) = Agencies(f)
      BY <1>1, ActiveSeen DEF SyncInv
    <2>5. Expected(o) = Resolve(Associated(o))
      BY <2>1, <2>4 DEF Resolve, Resolved, Associated
    <2> QED BY <2>2, <2>3, <2>5 DEF Still
  <1>2. ASSUME SyncInv, Commit, NEW r \in BagToSet(db'.oifs), r.operator = NoOperator,
               r.feed \in DOMAIN request.feeds \ moved
        PROVE  r.agency \in Active(r.feed) /\ db'.oifs[r] = 1
    <2>1. pc = "generate" /\ todo = {} /\ db'.oifs = tx.oifs
      BY <1>2 DEF Commit, SyncInv, Typed, Tables
    <2>2. Generated(r.feed)
      BY <1>2, <2>1 DEF SyncInv, Generating
    <2>3. Active(r.feed) = Agencies(r.feed)
      BY <1>2, <2>1, FoundHaveRows, ActiveSeen DEF SyncInv
    <2> QED BY <1>2, <2>1, <2>2, <2>3 DEF Generated
  <1>3. SyncInv /\ Commit =>
          LET oifs == BagToSet(db'.oifs) IN
          /\ \A o \in DOMAIN request.operators :
               {k \in {Key(r) : r \in {s \in oifs : s.operator = o}} : k[1] \notin moved}
                 = {k \in Expected(o) : k[1] \notin moved}
          /\ \A r \in oifs :
               r.operator = NoOperator /\ r.feed \in DOMAIN request.feeds \ moved
                 => r.agency \in Active(r.feed) /\ db'.oifs[r] = 1
    BY <1>1, <1>2
  <1> QED BY <1>3, SyncInvariant, PTL DEF Spec, AssociationsFollowRegistry
=============================================================================
