---------------------------- MODULE RegistrySync ----------------------------
(***************************************************************************)
(* The sync of a DMFR registry into the database: src/sync, with the rows  *)
(* of feed_states it creates and changes (stats/dbutil.go).                *)
(*                                                                         *)
(* A sync is one transaction, and one sync runs at a time.  Meanwhile      *)
(* feeds are activated and deactivated (FeedState has the detail): a       *)
(* statement of the sync sees the materialized version that is committed   *)
(* when it runs, unless the sync has written that row itself.  Only those  *)
(* statements need steps of their own; everything else the sync reads is   *)
(* its own, so a step goes from one such statement to the next.            *)
(*                                                                         *)
(* current_operators_in_feed is a bag of associations: what tells rows     *)
(* with equal columns apart is their id alone.                             *)
(***************************************************************************)
EXTENDS Naturals, Bags, BagsExt

CONSTANTS
  Feed, Operator,
  Content,     \* what a registry may say of a feed or of an operator
  Excluded,    \* feed contents with the tag exclude_from_global_query
  Agency,
  AgenciesOf,  \* the agencies of each feed version
  VersionsOf,  \* the versions of each feed
  NoVersion, NoOperator, NoAgency, \* null columns
  NoChange,    \* Options.SetPublic = nil
  Request,     \* the syncs that may be asked for
  MaxSyncs, MaxActivations   \* bounds of the model

Version == DOMAIN AgenciesOf
Maybe(S, T) == UNION {[D -> T] : D \in SUBSET S}

\* AssociatedFeeds of an operator: feeds, each with the agency it names.
AssociatedFeeds == SUBSET (Feed \X (Agency \cup {NoAgency}))
SyncRequest ==
  [feeds : Maybe(Feed, Content),
   operators : Maybe(Operator, [content : Content, associated : AssociatedFeeds]),
   hideUnseen : BOOLEAN, hideUnseenOperators : BOOLEAN,
   setPublic : BOOLEAN \cup {NoChange}]

ASSUME RegistrySyncAssumption ==
  /\ Excluded \subseteq Content
  /\ \A v \in Version : AgenciesOf[v] \subseteq Agency
  /\ \A f \in Feed : VersionsOf[f] \subseteq Version
  /\ NoVersion \notin Version /\ NoAgency \notin Agency /\ NoOperator \notin Operator
  /\ NoChange \notin BOOLEAN
  /\ Request \subseteq SyncRequest
  /\ MaxSyncs \in Nat /\ MaxActivations \in Nat

VARIABLES
  db,       \* what is committed
  tx,       \* what the transaction of the sync sees; of feed_states, the rows it wrote
  pc,       \* what the sync does next
  request,  \* the registry and the options of the sync
  todo,     \* feeds, then operators, then feeds again, that are still to be done
  current,  \* the feed or the operator in progress
  saved,    \* SetFeedStatePublic: the row it has read
  assocs,   \* updateOifs: associated feeds of the operator still to be matched
  existing, matched, \* updateOifs: <<feed, agency>> of the keys of oiflookup, of oifmatches
  moved,    \* history: feeds activated or deactivated since the sync began
  syncs, activations \* how many there were

locals == <<request, todo, current, saved, assocs, existing, matched>>
vars == <<db, tx, pc, locals, moved, syncs, activations>>

Empty == [k \in {} |-> k]
NoSync == [feeds |-> Empty, operators |-> Empty, hideUnseen |-> FALSE,
           hideUnseenOperators |-> FALSE, setPublic |-> NoChange]
NoRow == [mat |-> NoVersion]
EmptyTables == [feeds |-> Empty, operators |-> Empty, oifs |-> EmptyBag, states |-> Empty]
FeedRow == [content : Content, hidden : BOOLEAN]
StateRow == [public : BOOLEAN, excl : BOOLEAN, mat : Version \cup {NoVersion}]
OperatorRow == [content : Content, associated : AssociatedFeeds, hidden : BOOLEAN]
Association == [operator : Operator \cup {NoOperator}, feed : Feed,
                agency : Agency \cup {NoAgency}]
Pc == {"idle", "feeds", "public", "operators", "match", "hide", "generate", "commit"}

RowsAreTyped(t) ==
  /\ t.feeds \in Maybe(Feed, FeedRow)
  /\ t.states \in Maybe(Feed, StateRow)
  /\ DOMAIN t.operators \subseteq Operator
  /\ \A o \in DOMAIN t.operators : t.operators[o] \in OperatorRow
  /\ IsABag(t.oifs) /\ BagToSet(t.oifs) \subseteq Association

TypeOK ==
  /\ RowsAreTyped(db) /\ RowsAreTyped(tx)
  /\ pc \in Pc /\ request \in Request \cup {NoSync}
  /\ todo \subseteq Feed \cup Operator /\ current \in Feed \cup Operator \cup {NoOperator}
  /\ saved \in StateRow \cup {NoRow}
  /\ assocs \in AssociatedFeeds
  /\ existing \in AssociatedFeeds /\ matched \subseteq existing
  /\ moved \subseteq Feed /\ syncs \in 0..MaxSyncs /\ activations \in 0..MaxActivations

Init ==
  /\ db = EmptyTables /\ tx = EmptyTables /\ pc = "idle"
  /\ request = NoSync /\ todo = {} /\ current = NoOperator /\ saved = NoRow
  /\ assocs = {} /\ existing = {} /\ matched = {}
  /\ moved = {} /\ syncs = 0 /\ activations = 0

-----------------------------------------------------------------------------
(* What a statement of the transaction sees *)
States(mine) ==
  [f \in DOMAIN mine \cup DOMAIN db.states |-> IF f \in DOMAIN mine THEN mine[f] ELSE db.states[f]]
State(f) == States(tx.states)[f]
HasState(f) == f \in DOMAIN tx.states \cup DOMAIN db.states
Agencies(f) ==
  IF HasState(f) /\ State(f).mat # NoVersion THEN AgenciesOf[State(f).mat] ELSE {}

Row(o, f, a) == [operator |-> o, feed |-> f, agency |-> a]
RowsOfOperator(o) == {r \in BagToSet(tx.oifs) : r.operator = o}
RowsOfFeed(f) == {r \in BagToSet(tx.oifs) : r.feed = f}
Key(r) == <<r.feed, r.agency>>

(* DELETE ... WHERE id IN deleteoifs: of the rows R one of each in kept stays. *)
KeepOneOf(oifs, R, kept) ==
  [r \in (BagToSet(oifs) \ R) \cup kept |-> IF r \in kept THEN 1 ELSE oifs[r]]

-----------------------------------------------------------------------------
(* Begin: the caller opens the transaction, Sync has parsed the registry. *)
Begin(r) ==
  /\ pc = "idle" /\ syncs < MaxSyncs
  /\ tx' = [db EXCEPT !.states = Empty]
  /\ request' = r /\ todo' = DOMAIN r.feeds /\ pc' = "feeds"
  /\ moved' = {} /\ syncs' = syncs + 1
  /\ UNCHANGED <<db, current, saved, assocs, existing, matched, activations>>

(* INSERT or UPDATE of one row. *)
Put(rows, k, row) == [j \in DOMAIN rows \cup {k} |-> IF j = k THEN row ELSE rows[j]]

\* Mutant: an update keeps deleted_at.
UpsertedKeepsHidden(rows, k, row) ==
  Put(rows, k, IF k \in DOMAIN rows THEN [row EXCEPT !.hidden = rows[k].hidden] ELSE row)

(* Equal compares what a registry can say: deleted_at is no part of it. *)
Upserted(rows, k, row) ==
  IF k \in DOMAIN rows /\ [rows[k] EXCEPT !.hidden = FALSE] = row THEN rows
  ELSE Put(rows, k, row)

(* EnsureFeedState: public by default, the tag is read when the row is created. *)
EnsureFeedState(f, content) ==
  IF HasState(f) THEN tx.states
  ELSE Put(tx.states, f, [public |-> TRUE, excl |-> content \in Excluded, mat |-> NoVersion])

(* The row that the registry wants for a feed. *)
FoundFeed(f) == [content |-> request.feeds[f], hidden |-> FALSE]

(* UpdateFeed up to the point where SetFeedStatePublic has read the row. *)
UpdateFeed(f) ==
  LET states == EnsureFeedState(f, request.feeds[f])
      row == States(states)[f]
      set == request.setPublic \notin {NoChange, row.public} IN
  /\ pc = "feeds" /\ f \in todo
  /\ tx' = [tx EXCEPT
       !.feeds = Upserted(@, f, FoundFeed(f)), !.states = states]
  /\ todo' = todo \ {f}
  /\ IF set THEN pc' = "public" /\ current' = f /\ saved' = row
     ELSE UNCHANGED <<pc, current, saved>>
  /\ UNCHANGED <<db, request, assocs, existing, matched, moved, syncs, activations>>

(* atx.Update writes every column of the row that was read. *)
SetFeedStatePublic ==
  /\ pc = "public"
  /\ tx' = [tx EXCEPT !.states =
       Put(@, current, [saved EXCEPT !.public = request.setPublic])]
  /\ pc' = "feeds" /\ current' = NoOperator /\ saved' = NoRow
  /\ UNCHANGED <<db, request, todo, assocs, existing, matched, moved, syncs, activations>>

FeedsDone ==
  /\ pc = "feeds" /\ todo = {}
  /\ pc' = "operators" /\ todo' = DOMAIN request.operators
  /\ UNCHANGED <<db, tx, request, current, saved, assocs, existing, matched, moved, syncs, activations>>

-----------------------------------------------------------------------------
(* The row that the registry wants for an operator. *)
FoundOperator(o) ==
  [content |-> request.operators[o].content, associated |-> request.operators[o].associated,
   hidden |-> FALSE]

(* UpdateOperator: the row, and the associations it has. *)
UpdateOperator(o) ==
  LET row == FoundOperator(o) IN
  /\ pc = "operators" /\ o \in todo
  /\ tx' = [tx EXCEPT !.operators = Upserted(@, o, row)]
  /\ todo' = todo \ {o} /\ current' = o /\ pc' = "match"
  /\ assocs' = row.associated
  /\ existing' = {Key(r) : r \in RowsOfOperator(o)} /\ matched' = {}
  /\ UNCHANGED <<db, request, saved, moved, syncs, activations>>

(* The agency an associated feed resolves to: the only one whatever its id is. *)
ResolvedGtfsAgencyID(agencies, a) ==
  IF \E b \in agencies : agencies = {b} THEN CHOOSE b \in agencies : TRUE
  ELSE IF a \in agencies THEN a ELSE NoAgency

(* One associated feed: match or insert.  oiflookup is not extended. *)
MatchAssociation(f, a) ==
  LET key == <<f, ResolvedGtfsAgencyID(Agencies(f), a)>> IN
  /\ pc = "match" /\ <<f, a>> \in assocs
  /\ assocs' = assocs \ {<<f, a>>}
  /\ IF f \notin DOMAIN tx.feeds THEN UNCHANGED <<tx, matched>>
     ELSE IF key \in existing THEN matched' = matched \cup {key} /\ UNCHANGED tx
     ELSE /\ tx' = [tx EXCEPT !.oifs = BagAdd(@, Row(current, f, key[2]))]
          /\ UNCHANGED matched
  /\ UNCHANGED <<db, pc, request, todo, current, saved, existing, moved, syncs, activations>>

\* Mutant: the associations of an operator that did not change are left alone.
DropUnmatchedIfUpdated ==
  LET RowsOf(keys) == {Row(current, k[1], k[2]) : k \in keys}
      same == current \in DOMAIN db.operators /\ db.operators[current] = tx.operators[current] IN
  /\ pc = "match" /\ assocs = {}
  /\ tx' = [tx EXCEPT !.oifs =
       IF same THEN @ ELSE KeepOneOf(@, RowsOf(existing), RowsOf(matched))]
  /\ pc' = "operators" /\ current' = NoOperator /\ existing' = {} /\ matched' = {}
  /\ UNCHANGED <<db, request, todo, saved, assocs, moved, syncs, activations>>

(* updateOifs deletes what it found and did not match. *)
DropUnmatched ==
  LET RowsOf(keys) == {Row(current, k[1], k[2]) : k \in keys} IN
  /\ pc = "match" /\ assocs = {}
  /\ tx' = [tx EXCEPT !.oifs = KeepOneOf(@, RowsOf(existing), RowsOf(matched))]
  /\ pc' = "operators" /\ current' = NoOperator /\ existing' = {} /\ matched' = {}
  /\ UNCHANGED <<db, request, todo, saved, assocs, moved, syncs, activations>>

-----------------------------------------------------------------------------
(* HideUnseedFeeds and HideUnseedOperators, when the options ask for them. *)
Hide(rows, found, asked) ==
  [k \in DOMAIN rows |-> [rows[k] EXCEPT !.hidden = @ \/ (asked /\ k \notin found)]]

\* Mutant: operators are generated only for feeds that are new or changed.
HideUnseenThenChanged ==
  /\ pc = "operators" /\ todo = {}
  /\ tx' = [tx EXCEPT
       !.feeds = Hide(@, DOMAIN request.feeds, request.hideUnseen),
       !.operators = Hide(@, DOMAIN request.operators, request.hideUnseenOperators)]
  /\ pc' = "generate"
  /\ todo' = {f \in DOMAIN request.feeds :
                f \notin DOMAIN db.feeds \/ tx.feeds[f] # db.feeds[f]}
  /\ UNCHANGED <<db, request, current, saved, assocs, existing, matched, moved, syncs, activations>>

HideUnseen ==
  /\ pc = "operators" /\ todo = {}
  /\ tx' = [tx EXCEPT
       !.feeds = Hide(@, DOMAIN request.feeds, request.hideUnseen),
       !.operators = Hide(@, DOMAIN request.operators, request.hideUnseenOperators)]
  /\ pc' = "generate" /\ todo' = DOMAIN request.feeds
  /\ UNCHANGED <<db, request, current, saved, assocs, existing, matched, moved, syncs, activations>>

(* feedUpdateOifs: rows of operators count as matches and stay.  Which of an  *)
(* operator's row and a generated one of the same agency oiflookup holds is   *)
(* open: the query has no order.                                              *)
feedUpdateOifs(f) ==
  LET rows == RowsOfFeed(f)
      generated == {r \in rows : r.operator = NoOperator}
      Lookup(r) == {s \in rows : Key(s) = Key(r)}
      wanted == {Row(NoOperator, f, a) : a \in Agencies(f)}
      missing == {r \in wanted : Lookup(r) = {}} IN
  /\ pc = "generate" /\ f \in todo
  /\ \E kept \in SUBSET (generated \cap wanted) :
       /\ \A r \in (generated \cap wanted) \ kept : Lookup(r) # {r}
       /\ tx' = [tx EXCEPT !.oifs = KeepOneOf(@, generated, kept \cup missing)]
  /\ todo' = todo \ {f}
  /\ UNCHANGED <<db, pc, request, current, saved, assocs, existing, matched, moved, syncs, activations>>

EndTx ==
  /\ tx' = EmptyTables /\ pc' = "idle" /\ request' = NoSync /\ todo' = {}
  /\ current' = NoOperator /\ saved' = NoRow
  /\ assocs' = {} /\ existing' = {} /\ matched' = {} /\ moved' = {}
  /\ UNCHANGED <<syncs, activations>>

Commit ==
  /\ pc = "generate" /\ todo = {}
  /\ db' = [tx EXCEPT !.states = States(@)]
  /\ EndTx

(* Any statement may fail; the caller rolls the transaction back. *)
Rollback ==
  /\ pc # "idle"
  /\ UNCHANGED db /\ EndTx

-----------------------------------------------------------------------------
(* Another process activates or deactivates a version.  It waits while the    *)
(* sync has written the row, and cannot see the row of a feed that is new.    *)
MoveActive(f, v) ==
  /\ activations < MaxActivations
  /\ f \in DOMAIN db.states \ DOMAIN tx.states /\ v # db.states[f].mat
  /\ db' = [db EXCEPT !.states[f].mat = v]
  /\ moved' = IF pc = "idle" THEN {} ELSE moved \cup {f}
  /\ activations' = activations + 1
  /\ UNCHANGED <<tx, pc, locals, syncs>>

Next ==
  \/ \E r \in Request : Begin(r)
  \/ \E f \in Feed : UpdateFeed(f) \/ feedUpdateOifs(f)
  \/ SetFeedStatePublic \/ FeedsDone
  \/ \E o \in Operator : UpdateOperator(o)
  \/ \E f \in Feed, a \in Agency \cup {NoAgency} : MatchAssociation(f, a)
  \/ DropUnmatched \/ HideUnseen \/ Commit \/ Rollback
  \/ \E f \in Feed : \E v \in VersionsOf[f] \cup {NoVersion} : MoveActive(f, v)

Spec == Init /\ [][Next]_vars

-----------------------------------------------------------------------------
(* Properties *)

\* A sync hides what the registry lacks, all of it and only when that was asked
\* for, and never what the registry has: a feed or an operator it has carries what
\* the registry says, and is live if it is new or differs in anything from what was
\* stored, hidden or not.  What the registry lacks keeps its contents.
\* (A row that was hidden and comes back as it was stays hidden: the comparison
\* skips its update, sync_feed.go 28 and sync_operator.go 27, although sync.go 67
\* clears its deleted_at and sync_test.go 39-47 expects every found feed live.
\* Nothing is claimed of it but that it is not touched.)
Settled(old, new, wanted, asked) ==
  /\ DOMAIN new = DOMAIN old \cup DOMAIN wanted
  /\ \A k \in DOMAIN new :
       IF k \in DOMAIN wanted
       THEN /\ [new[k] EXCEPT !.hidden = FALSE] = wanted[k]
            /\ new[k].hidden => k \in DOMAIN old /\ old[k] = new[k]
       ELSE new[k] = [old[k] EXCEPT !.hidden = @ \/ asked]
OnlyUnseenAreHidden ==
  [][Commit =>
       /\ Settled(db.feeds, db'.feeds,
            [f \in DOMAIN request.feeds |-> FoundFeed(f)],
            request.hideUnseen)
       /\ Settled(db.operators, db'.operators, [o \in DOMAIN request.operators |-> FoundOperator(o)],
            request.hideUnseenOperators)]_vars

\* After a sync every agency of the active version of each feed it found has an
\* association, an operator's or a generated one, unless an activation came in
\* between: the operators query has nothing else to find the agency by (oifs.go).
Active(f) == LET v == db'.states[f].mat IN IF v = NoVersion THEN {} ELSE AgenciesOf[v]
AgenciesKeepAnOperator ==
  [][Commit =>
       \A f \in DOMAIN request.feeds \ moved : \A a \in Active(f) :
         \E r \in BagToSet(db'.oifs) : Key(r) = <<f, a>>]_vars

\* After a sync the associations of each operator it found are those the registry
\* names, resolved in the active versions, and none of an earlier registry; the
\* generated ones of a feed are of agencies it has, one each.  Feeds that were
\* activated during the sync are left to the next one (oifs.go).
AssociationsFollowRegistry ==
  [][Commit =>
       LET oifs == BagToSet(db'.oifs)
           Expected(o) ==
             {<<p[1], ResolvedGtfsAgencyID(Active(p[1]), p[2])>> :
                p \in {q \in request.operators[o].associated : q[1] \in DOMAIN db'.feeds}} IN
       /\ \A o \in DOMAIN request.operators :
            {k \in {Key(r) : r \in {s \in oifs : s.operator = o}} : k[1] \notin moved}
              = {k \in Expected(o) : k[1] \notin moved}
       /\ \A r \in oifs :
            r.operator = NoOperator /\ r.feed \in DOMAIN request.feeds \ moved
              => r.agency \in Active(r.feed) /\ db'.oifs[r] = 1]_vars

=============================================================================
