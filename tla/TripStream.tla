------------------------------ MODULE TripStream ------------------------------
(***************************************************************************)
(* Joining trips.txt with stop_times.txt: the two passes of tlcsv/reader.go *)
(* (a stop_times.txt grouped by trip is streamed once, any other is read    *)
(* once per chunk of trips), and the fallback of copier/copier.go for       *)
(* readers without one. A row of trips.txt has an id, a row of              *)
(* stop_times.txt a trip and a stop_sequence (seq). A joined entry has a    *)
(* trip and its stop_times in order, or the stop_times of a trip_id that    *)
(* trips.txt does not have.                                                 *)
(***************************************************************************)
EXTENDS Naturals, Sequences, FiniteSets, SequencesExt

CONSTANTS
  ChunkSize,  \* chunkSize: rows of stop_times.txt, or trips, held at once
  NoTrip,     \* the zero-value Trip of an orphan
  NoId        \* an empty id

ASSUME ChunkAssumption == ChunkSize \in Nat \ {0}

Joined(trip, times) == [valid |-> TRUE, trip |-> trip, times |-> times]
Orphan(times) == [valid |-> FALSE, trip |-> NoTrip, times |-> times]

\* The numbers of a set in order, and the rows at these positions of a file.
InOrder(S) == [k \in 1..Cardinality(S) |-> CHOOSE i \in S : Cardinality({j \in S : j < i}) = k - 1]
RowsAt(rows, S) == LET at == InOrder(S) IN [k \in 1..Cardinality(S) |-> rows[at[k]]]

-----------------------------------------------------------------------------
(* scanTripStopTimes *)
FirstRows(times) == {i \in DOMAIN times : \A j \in 1..(i - 1) : times[j].trip # times[i].trip}
Order(times) ==
  LET first == RowsAt(times, FirstRows(times)) IN [k \in DOMAIN first |-> first[k].trip]
TimesOfTrip(times, t) == RowsAt(times, {i \in DOMAIN times : times[i].trip = t})
Count(times, t) == Cardinality({i \in DOMAIN times : times[i].trip = t})

\* The rows of each trip are contiguous; what follows a row without a trip_id is
\* not looked at.
Grouped(times) ==
  \A i \in DOMAIN times :
    i > 1 => times[i - 1].trip \in {times[i].trip, NoId} \/ i \in FirstRows(times)

(* chunkByCount: a chunk ends when its trips have ChunkSize stop_times.       *)
chunkByCount(order, times) ==
  LET Add(c, t) ==
        LET cur == Append(c.cur, t)  n == c.n + Count(times, t) IN
        IF n >= ChunkSize THEN [chunks |-> Append(c.chunks, cur), cur |-> <<>>, n |-> 0]
        ELSE [chunks |-> c.chunks, cur |-> cur, n |-> n]
      upto[i \in 0..Len(order)] ==
        IF i = 0 THEN [chunks |-> <<>>, cur |-> <<>>, n |-> 0] ELSE Add(upto[i - 1], order[i])
      end == upto[Len(order)]
  IN IF end.cur = <<>> THEN end.chunks ELSE Append(end.chunks, end.cur)

\* Mutant: the next chunk is taken one trip too early.
chunkByTripsEarly(order, n) == {order[i] : i \in {i \in DOMAIN order : (i - 1) \div ChunkSize = n \div ChunkSize}}

(* chunkByTrips: the chunk of the trip at position n of the order.            *)
chunkByTrips(order, n) == {order[i] : i \in {i \in DOMAIN order : (i - 1) \div ChunkSize = (n - 1) \div ChunkSize}}

readTripsForIDs(trips, ids, t) ==
  RowsAt(trips, {i \in DOMAIN trips : trips[i].id \in ids /\ trips[i].id = t})

(* sort.Slice: rows of one stop_sequence may come in any order.               *)
Sorts(at, times) ==
  /\ at \in [DOMAIN times -> DOMAIN times] /\ IsInjective(at)
  /\ \A i, j \in DOMAIN times : i < j => times[at[i]].seq <= times[at[j]].seq
InSequence(times) ==
  LET at == CHOOSE at \in [DOMAIN times -> DOMAIN times] : Sorts(at, times)
  IN [k \in DOMAIN times |-> times[at[k]]]

(* emitJoinedTrip: the first row takes the stop_times; a trip with too many    *)
(* of them carries an error.                                                 *)
emitJoinedTrip(rows, times, capped) ==
  IF rows = <<>> THEN <<Orphan(InSequence(times))>>
  ELSE LET trip == IF capped THEN [rows[1] EXCEPT !.fault = "bad"] ELSE rows[1] IN
       <<Joined(trip, InSequence(times))>> \o [i \in 1..(Len(rows) - 1) |-> Joined(rows[i + 1], <<>>)]

(* streamTripStopTimes: one pass that emits a trip when the next one begins.   *)
(* A row without a trip_id never ends one.                                   *)
streamTripStopTimes(trips, times) ==
  LET order == Order(times)
      Emit(s) ==
        IF s.last = NoId THEN s
        ELSE [last |-> s.last, sts |-> <<>>, capped |-> FALSE, n |-> s.n + 1,
              out |-> s.out \o emitJoinedTrip(readTripsForIDs(trips, chunkByTrips(order, s.n), s.last),
                                             s.sts, s.capped)]
      Read(s, row) ==
        LET e == IF s.last = row.trip THEN s ELSE Emit(s)  full == Len(e.sts) >= ChunkSize IN
        [last |-> row.trip, sts |-> IF full THEN e.sts ELSE Append(e.sts, row),
         capped |-> full \/ e.capped, n |-> e.n, out |-> e.out]
      upto[i \in 0..Len(times)] ==
        IF i = 0 THEN [last |-> NoId, sts |-> <<>>, capped |-> FALSE, n |-> 1, out |-> <<>>]
        ELSE Read(upto[i - 1], times[i])
  IN Emit(upto[Len(times)]).out

(* chunkTripStopTimes: one pass per chunk.                                    *)
chunkTripStopTimes(trips, times) ==
  LET Emit(chunk, t) ==
        LET sts == TimesOfTrip(times, t) IN
        emitJoinedTrip(readTripsForIDs(trips, ToSet(chunk), t),
                       SubSeq(sts, 1, IF Len(sts) < ChunkSize THEN Len(sts) ELSE ChunkSize),
                       Len(sts) > ChunkSize)
      EmitChunk(chunk) == FlattenSeq([k \in DOMAIN chunk |-> Emit(chunk, chunk[k])])
      chunks == chunkByCount(Order(times), times)
  IN FlattenSeq([c \in DOMAIN chunks |-> EmitChunk(chunks[c])])

(* Trips without stop_times come last, in the order of trips.txt.             *)
TripsWithStopTimes(trips, times) ==
  LET alone == RowsAt(trips, {i \in DOMAIN trips : Count(times, trips[i].id) = 0}) IN
  (IF Grouped(times) THEN streamTripStopTimes(trips, times) ELSE chunkTripStopTimes(trips, times))
    \o [i \in DOMAIN alone |-> Joined(alone[i], <<>>)]

(* genericTripsWithStopTimes: groups arrive in any order; then, in any order,  *)
(* the trips no group named; then the duplicates.                            *)
genericTripsWithStopTimes(trips, times) ==
  LET first == {i \in DOMAIN trips : \A j \in 1..(i - 1) : trips[j].id # trips[i].id}
      Group(t) == InSequence(TimesOfTrip(times, t))
      Row(t) == trips[CHOOSE i \in first : trips[i].id = t]
      named == {t \in ToSet(Order(times)) : \E i \in first : trips[i].id = t}
      groups == {Joined(Row(t), Group(t)) : t \in named}
                  \cup {Orphan(Group(t)) : t \in ToSet(Order(times)) \ named}
      left == {Joined(trips[i], <<>>) : i \in {i \in first : trips[i].id \notin named}}
      again == RowsAt(trips, DOMAIN trips \ first)
  IN {g \o l \o [k \in DOMAIN again |-> Joined(again[k], <<>>)] :
        g \in SetToSeqs(groups), l \in SetToSeqs(left)}
=============================================================================
