------------------------------- MODULE Copier -------------------------------
(***************************************************************************)
(* Copying a feed from a reader to a writer: copier/copier.go, with the     *)
(* entity map (tt/entitymap.go), the reference check (tt/reflect.go), the   *)
(* duplicate check (rules/entity_duplicate.go) and the pattern keys         *)
(* (copier/stoppattern.go).                                                 *)
(*                                                                         *)
(* A row of a file has the file, an id of its own (or NoId), a line that    *)
(* tells it from every other row, the keys <<file, id>> it refers to, the   *)
(* group keys it defines, and what markers, filters and validators other    *)
(* than the duplicate and reference checks think of it (fault).  Routes     *)
(* have a network (net), stop_times a trip, a stop, a stop_sequence (seq)   *)
(* and the rest of what a journey pattern looks at (rel).  A step is one     *)
(* batch read, one trip given its patterns, or one group of rows of one     *)
(* file checked and written.                                               *)
(***************************************************************************)
EXTENDS TripStream, Integers, TLC

CONSTANTS
  Feed,       \* the feeds that may be copied: phase -> rows
  Options,    \* the options they may be copied with
  BatchSize

Faults == {"none", "bad", "unmarked", "filtered"}
Outcomes == {"marker", "filter", "error", "reference"}

ASSUME CopierAssumption ==
  /\ BatchSize \in Nat \ {0}
  /\ \A o \in Options :
       {"allowErrors", "allowReferences", "dedup", "normalizeServices",
        "normalizeNetworks", "createShapes", "marker", "csv"} \subseteq DOMAIN o

(* Rows with the fields above, no two of a file with the same line.  The rows of *)
(* trips.txt, and no others, are trips; those of stop_times.txt know a trip and a *)
(* stop.                                                                     *)
ASSUME FeedAssumption ==
  \A f \in Feed : \A p \in DOMAIN f :
    /\ f[p] \in Seq(ToSet(f[p]))
    /\ \A i \in DOMAIN f[p] :
         /\ {"file", "id", "line", "refs", "groups", "fault"} \subseteq DOMAIN f[p][i]
         /\ (f[p][i].file = "trips.txt") = (p = "trips")
         /\ p = "stop_times" => {"trip", "stop", "seq", "rel"} \subseteq DOMAIN f[p][i] /\ f[p][i].seq \in Int
    /\ \A i, j \in DOMAIN f[p] : f[p][i].line = f[p][j].line => i = j

(* "Note that order is important!!"  Stops are read three times, stations     *)
(* first and boarding areas last; "generated" are the calendars that only     *)
(* calendar_dates.txt knows.                                                 *)
Phases == <<"agency", "routes", "levels", "shapes", "stations", "platforms", "boarding_areas",
  "calendar", "generated", "booking_rules", "locations", "location_groups",
  "location_group_stops", "trips", "pathways", "fare_attributes", "fare_rules", "frequencies",
  "transfers", "feed_info", "translations", "attributions", "timeframes", "networks",
  "route_networks", "areas", "stop_areas", "rider_categories", "fare_media", "fare_products",
  "fare_leg_rules", "fare_leg_join_rules", "fare_transfer_rules">>

VARIABLES
  feed, opt,
  stage,        \* "phase", "assign", "write", "done", "failed"
  phase,     \* position in Phases
  src,       \* what the reader has still to yield in this phase
  batch,     \* joined trips of the batch that have no patterns yet
  trips,     \* trips of the batch that have
  loose,     \* stop_times of the batch that have no trip
  todo,      \* copyEntities: groups of rows of one file
  ok,        \* copyEntities: okEnts, the rows that were written
  emap,      \* copier.EntityMap: the keys it knows
  seen,      \* EntityDuplicateIDCheck.duplicates
  written,   \* history: rows the writer has taken
  left,      \* history: <<row, outcome>>, the Skip... counts of the result
  stopPatterns, shapeOf, journeys, dedup  \* tripStopTimeState

progress == <<stage, phase, src, batch, trips, loose, todo, ok>>
patterns == <<stopPatterns, shapeOf, journeys, dedup>>
copyVars == <<feed, opt, progress, emap, seen, written, left, patterns>>

Empty == [x \in {} |-> x]
Put(f, key, value) == [k \in DOMAIN f \cup {key} |-> IF k = key THEN value ELSE f[k]]
Rows(p) == IF p \in DOMAIN feed THEN feed[p] ELSE <<>>
Key(row) == <<row.file, row.id>>
Keys(row) == (IF row.id = NoId THEN {} ELSE {Key(row)}) \cup row.groups

(* A row of stop_times.txt has no key, and refers to its trip and to rows of      *)
(* files read before the trips, whose keys no row of a later file has.          *)
BeforeTrips == {"stops.txt", "location_groups.txt", "locations.geojson", "booking_rules.txt"}
ASSUME StopTimesAssumption ==
  \A f \in Feed : \A p \in DOMAIN f : \A i \in DOMAIN f[p] : LET row == f[p][i] IN
    /\ p = "stop_times" => /\ Keys(row) = {}
                           /\ \A k \in row.refs : k = <<"trips.txt", row.trip>> \/ k[1] \in BeforeTrips
    /\ (\A n \in 1..13 : p # Phases[n]) => \A k \in Keys(row) : k[1] \notin BeforeTrips

CopyInit ==
  /\ feed \in Feed /\ opt \in Options
  /\ stage = "phase" /\ phase = 0 /\ src = <<>> /\ batch = <<>> /\ trips = <<>> /\ loose = <<>>
  /\ todo = <<>> /\ ok = <<>> /\ emap = {} /\ seen = {} /\ written = {} /\ left = {}
  /\ stopPatterns = Empty /\ shapeOf = Empty /\ journeys = Empty /\ dedup = {}

-----------------------------------------------------------------------------
(* checkEntity *)
RefErrors(row) == row.refs \ emap

\* The rows of a group that get as far as the validators.
Validated(group) == {i \in DOMAIN group : group[i].fault \notin {"unmarked", "filtered"}}

Duplicate(group, i) ==
  /\ group[i].id # NoId
  /\ Key(group[i]) \in seen \cup {Key(group[j]) : j \in {j \in Validated(group) : j < i}}

(* UpdateKeys' errors are also errors of the row, so that they count twice.   *)
Outcome(group, i) ==
  LET row == group[i]  refs == RefErrors(row) # {} IN
  IF row.fault = "unmarked" THEN "marker"
  ELSE IF row.fault = "filtered" THEN "filter"
  ELSE IF (row.fault = "bad" \/ Duplicate(group, i) \/ refs) /\ ~opt.allowErrors THEN "error"
  ELSE IF refs /\ ~opt.allowReferences THEN "reference"
  ELSE "ok"

Passed(group) == {i \in DOMAIN group : Outcome(group, i) = "ok"}
AcceptedRows(group) == RowsAt(group, Passed(group))

(* RouteNetworkIDCompatFilter.AfterWrite *)
CompatKeys(row) ==
  IF row.file = "routes.txt" /\ row.net # NoId /\ ~opt.normalizeNetworks
  THEN {<<"networks.txt", row.net>>} ELSE {}

\* Mutant: the ids of rows the writer has not got are known, too.
CheckAndWriteKnowsAll(group) ==
  /\ written' = written \cup {group[i] : i \in Passed(group)}
  /\ left' = left \cup {<<group[i], Outcome(group, i)>> : i \in DOMAIN group \ Passed(group)}
  /\ emap' = emap \cup UNION {Keys(group[i]) \cup CompatKeys(group[i]) : i \in DOMAIN group}
  /\ seen' = seen \cup {Key(group[i]) : i \in {i \in Validated(group) : group[i].id # NoId}}

(* checkEntity for every row of the group, then writerAddEntities.            *)
CheckAndWrite(group) ==
  /\ written' = written \cup {group[i] : i \in Passed(group)}
  /\ left' = left \cup {<<group[i], Outcome(group, i)>> : i \in DOMAIN group \ Passed(group)}
  /\ emap' = emap \cup UNION {Keys(group[i]) \cup CompatKeys(group[i]) : i \in Passed(group)}
  /\ seen' = seen \cup {Key(group[i]) : i \in {i \in Validated(group) : group[i].id # NoId}}

(* The writer fails: nothing of the group is known to be written.             *)
CheckAndFail(group) ==
  /\ left' = left \cup {<<group[i], Outcome(group, i)>> : i \in DOMAIN group \ Passed(group)}
  /\ seen' = seen \cup {Key(group[i]) : i \in {i \in Validated(group) : group[i].id # NoId}}
  /\ UNCHANGED <<written, emap>>

-----------------------------------------------------------------------------
(* copyEntities *)
NewRow(file, id, refs, from) ==
  [file |-> file, id |-> id, line |-> <<file, from.line>>, refs |-> refs, groups |-> {}, fault |-> "none"]

\* Mutant: the network is generated after the row that links it to the route.
ExpandLinksFirst(row) ==
  IF row.file = "routes.txt" /\ row.net # NoId /\ opt.normalizeNetworks
  THEN <<row, NewRow("route_networks.txt", NoId, {Key(row), <<"networks.txt", row.net>>}, row)>>
         \o (IF <<"networks.txt", row.net>> \in emap THEN <<>>
             ELSE <<NewRow("networks.txt", row.net, {}, row)>>)
  ELSE <<row>>

(* RouteNetworkIDFilter.Expand: looks for the network before anything of the   *)
(* batch is written.                                                         *)
Expand(row) ==
  IF row.file = "routes.txt" /\ row.net # NoId /\ opt.normalizeNetworks
  THEN <<row>> \o (IF <<"networks.txt", row.net>> \in emap THEN <<>>
                   ELSE <<NewRow("networks.txt", row.net, {}, row)>>)
         \o <<NewRow("route_networks.txt", NoId, {Key(row), <<"networks.txt", row.net>>}, row)>>
  ELSE <<row>>

(* batchEntFilenames *)
GroupsOf(rows) ==
  LET begins == {i \in DOMAIN rows : i = 1 \/ rows[i - 1].file # rows[i].file}
      at == InOrder(begins)
      End(g) == IF g = Cardinality(begins) THEN Len(rows) ELSE at[g + 1] - 1
  IN [g \in 1..Cardinality(begins) |-> SubSeq(rows, at[g], End(g))]

copyEntities(rows) ==
  /\ todo' = GroupsOf(FlattenSeq([i \in DOMAIN rows |-> Expand(rows[i])]))
  /\ ok' = <<>>

(* One group of rows of one file: checked, then written.                      *)
WriteGroup ==
  /\ stage = "write" /\ todo # <<>>
  /\ CheckAndWrite(Head(todo))
  /\ ok' = ok \o AcceptedRows(Head(todo))
  /\ todo' = Tail(todo)
  /\ UNCHANGED <<feed, opt, stage, phase, src, batch, trips, loose, patterns>>

(* AddEntities fails, and Copy gives up.                                      *)
WriterFails ==
  /\ stage = "write" /\ todo # <<>> /\ Passed(Head(todo)) # {}
  /\ CheckAndFail(Head(todo))
  /\ stage' = "failed"
  /\ UNCHANGED <<feed, opt, phase, src, batch, trips, loose, todo, ok, patterns>>

-----------------------------------------------------------------------------
(* Copy: one phase after the other; batchChan cuts a phase into batches.      *)
Dates(s) ==
  LET rows == Rows("calendar_dates") IN RowsAt(rows, {i \in DOMAIN rows : <<"calendar.txt", s>> \in rows[i].refs})

(* Services that no row of calendar.txt has taken from calDates.              *)
GeneratedCalendars ==
  LET services == {r.service : r \in ToSet(Rows("calendar_dates"))} \ {r.id : r \in ToSet(Rows("calendar"))}
      New(s) == [file |-> "calendar.txt", id |-> s, line |-> <<"generated", s>>, refs |-> {},
                 groups |-> {}, fault |-> "none"]
  IN LET order == SetToSeq(services) IN [k \in DOMAIN order |-> New(order[k])]

Source(p) ==
  IF p = "generated" THEN {GeneratedCalendars}
  ELSE IF p # "trips" THEN {Rows(p)}
  ELSE IF opt.csv THEN {TripsWithStopTimes(Rows("trips"), Rows("stop_times"))}
  ELSE genericTripsWithStopTimes(Rows("trips"), Rows("stop_times"))

Size(p) == IF p = "agency" THEN 1 ELSE IF p = "generated" THEN Len(src) ELSE BatchSize
Taken(p) == SubSeq(src, 1, IF Size(p) < Len(src) THEN Size(p) ELSE Len(src))

NextPhase ==
  /\ stage = "phase" /\ src = <<>>
  /\ IF phase = Len(Phases) THEN stage' = "done" /\ UNCHANGED <<phase, src>>
     ELSE phase' = phase + 1 /\ src' \in Source(Phases[phase + 1]) /\ UNCHANGED stage
  /\ UNCHANGED <<feed, opt, batch, trips, loose, todo, ok, emap, seen, written, left, patterns>>

TakeBatch ==
  /\ stage = "phase" /\ src # <<>> /\ Phases[phase] \notin {"trips", "generated"}
  /\ src' = SubSeq(src, Len(Taken(Phases[phase])) + 1, Len(src))
  /\ copyEntities(Taken(Phases[phase]))
  /\ stage' = "write"
  /\ UNCHANGED <<feed, opt, phase, batch, trips, loose, emap, seen, written, left, patterns>>

(* copyCalendars, generated: without NormalizeServiceIDs the services become   *)
(* known although no calendar is written.                                    *)
TakeGenerated ==
  /\ stage = "phase" /\ src # <<>> /\ Phases[phase] = "generated"
  /\ src' = <<>>
  /\ IF opt.normalizeServices THEN copyEntities(src) /\ UNCHANGED emap
     ELSE ok' = src /\ todo' = <<>> /\ emap' = emap \cup {Key(src[i]) : i \in DOMAIN src}
  /\ stage' = "write"
  /\ UNCHANGED <<feed, opt, phase, batch, trips, loose, seen, written, left, patterns>>

(* The calendar_dates of the calendars that were written. delete(calDates):    *)
(* the first row of a service takes them all.                                *)
FollowCalendars(rows) ==
  LET First(row) == \A r \in ToSet(Rows("calendar")) : r.id = row.id => r = row \/ row.line[2] < r.line[2]
  IN FlattenSeq([i \in DOMAIN rows |-> IF First(rows[i]) THEN Dates(rows[i].id) ELSE <<>>])

(* The stop_times of the trips that were written, without those of journey     *)
(* pattern duplicates.                                                       *)
FollowTrips(rows) ==
  loose \o FlattenSeq([i \in DOMAIN rows |->
             IF opt.dedup /\ rows[i].id \in dedup THEN <<>> ELSE rows[i].times])

(* The batch is through copyEntities: what follows it is next.                *)
EndGroups ==
  /\ stage = "write" /\ todo = <<>>
  /\ LET p == Phases[phase]
         next == IF ok # <<>> /\ p \in {"calendar", "generated"} /\ ok[1].file = "calendar.txt"
                 THEN FollowCalendars(ok)
                 ELSE IF trips # <<>> THEN FollowTrips(RowsAt(ok, {i \in DOMAIN ok : ok[i].file = "trips.txt"}))
                 ELSE loose IN
     IF next # <<>> THEN copyEntities(next) /\ UNCHANGED stage
     ELSE stage' = "phase" /\ ok' = <<>> /\ UNCHANGED todo
  /\ trips' = <<>> /\ loose' = <<>>
  /\ UNCHANGED <<feed, opt, phase, src, batch, emap, seen, written, left, patterns>>

-----------------------------------------------------------------------------
(* processTripBatch *)
TakeTrips ==
  /\ stage = "phase" /\ src # <<>> /\ Phases[phase] = "trips"
  /\ batch' = Taken("trips")
  /\ src' = SubSeq(src, Len(batch') + 1, Len(src))
  /\ stage' = "assign"
  /\ UNCHANGED <<feed, opt, phase, trips, loose, todo, ok, emap, seen, written, left, patterns>>

AllStopsHaveStopID(times) == \A i \in DOMAIN times : times[i].stop # NoId
Stops(times) == [i \in DOMAIN times |-> times[i].stop]

(* stopPatternKey; a flex trip is filed under its own id.                     *)
stopPatternKey(trip, times) == IF AllStopsHaveStopID(times) THEN Stops(times) ELSE <<trip.id>>

\* Mutant: the stops are not part of the key.
journeyPatternKeyOfTimes(trip, times) ==
  IF AllStopsHaveStopID(times) THEN <<trip.refs, [i \in DOMAIN times |-> times[i].rel]>> ELSE <<>>

journeyPatternKey(trip, times) ==
  IF AllStopsHaveStopID(times)
  THEN <<trip.refs, [i \in DOMAIN times |-> <<times[i].rel, times[i].stop>>]>> ELSE <<>>

\* Mutant: the number of a pattern that is known is not looked up.
StopPatternAlwaysNew(trip, times) == Cardinality(DOMAIN stopPatterns)

StopPattern(trip, times) ==
  LET key == stopPatternKey(trip, times) IN
  IF AllStopsHaveStopID(times) /\ key \in DOMAIN stopPatterns THEN stopPatterns[key]
  ELSE Cardinality(DOMAIN stopPatterns)

(* The id of a generated shape holds the second in which it was made: another  *)
(* try for the same pattern may have the same one.                           *)
GeneratedId(n, second) == "generated-" \o ToString(n) \o "-" \o ToString(second)
Seconds(n) ==
  LET used == {k \in 0..Cardinality(seen) : <<"shapes.txt", GeneratedId(n, k)>> \in seen}
      tries == Cardinality(used) IN
  IF tries = 0 THEN {0} ELSE {tries - 1, tries}

(* The geometry cache has the stops that no marker has left out.              *)
KnownPoints ==
  {r.id : r \in {r \in UNION {ToSet(Rows(p)) : p \in {"stations", "platforms", "boarding_areas"}} : r.fault # "unmarked"}}

\* The marker of an extract does not know a shape that is not in the source.
GeneratedShape(n, second) ==
  [file |-> "shapes.txt", id |-> GeneratedId(n, second), line |-> <<"generated", GeneratedId(n, second)>>, refs |-> {},
   groups |-> {}, fault |-> IF opt.marker THEN "unmarked" ELSE "none"]

NeedsShape(trip, times) ==
  /\ opt.createShapes
  /\ \A r \in trip.refs : r[1] # "shapes.txt"

CanMakeShape(times) == AllStopsHaveStopID(times) /\ \A i \in DOMAIN times : times[i].stop \in KnownPoints

WithShape(trip, id) == Put(trip, "refs", trip.refs \cup {<<"shapes.txt", id>>})

\* A trip that knows its stop_times, its stop pattern and its journey pattern.
WithPatterns(trip, times, n, journey) ==
  Put(Put(Put(trip, "times", times), "pattern", n), "journey", journey)

(* The trip has its patterns: a trip of a known journey pattern is filed as a  *)
(* duplicate of the trip that brought the pattern.                           *)
SetPatterns(trip, times, n) ==
  LET key == journeyPatternKey(trip, times)
      dup == key # <<>> /\ key \in DOMAIN journeys IN
  /\ stopPatterns' = Put(stopPatterns, stopPatternKey(trip, times), n)
  /\ trips' = Append(trips, WithPatterns(trip, times, n, IF dup THEN journeys[key] ELSE trip.id))
  /\ journeys' = IF key = <<>> \/ dup THEN journeys ELSE Put(journeys, key, trip.id)
  /\ dedup' = IF dup THEN dedup \cup {trip.id} ELSE dedup

(* A trip that needs no shape, or gets the one of its stop pattern, or whose   *)
(* shape cannot be made or written: that is logged and forgotten.            *)
AssignTrip ==
  /\ stage = "assign" /\ batch # <<>> /\ Head(batch).valid /\ Head(batch).times # <<>>
  /\ batch' = Tail(batch)
  /\ LET trip == Head(batch).trip  times == Head(batch).times  n == StopPattern(trip, times) IN
     \/ /\ ~NeedsShape(trip, times)
        /\ SetPatterns(trip, times, n)
        /\ UNCHANGED <<shapeOf, emap, seen, written, left>>
     \/ /\ NeedsShape(trip, times) /\ n \in DOMAIN shapeOf
        /\ SetPatterns(WithShape(trip, shapeOf[n]), times, n)
        /\ UNCHANGED <<shapeOf, emap, seen, written, left>>
     \/ /\ NeedsShape(trip, times) /\ n \notin DOMAIN shapeOf /\ ~CanMakeShape(times)
        /\ SetPatterns(trip, times, n)
        /\ UNCHANGED <<shapeOf, emap, seen, written, left>>
     \/ /\ NeedsShape(trip, times) /\ n \notin DOMAIN shapeOf /\ CanMakeShape(times)
        /\ \E second \in Seconds(n) :
             LET shape == GeneratedShape(n, second) IN
             \/ /\ CheckAndWrite(<<shape>>)
                /\ shapeOf' = Put(shapeOf, n, shape.id)
                /\ SetPatterns(WithShape(trip, shape.id), times, n)
             \/ /\ Passed(<<shape>>) # {}
                /\ CheckAndFail(<<shape>>)
                /\ SetPatterns(trip, times, n)
                /\ UNCHANGED shapeOf
  /\ UNCHANGED <<feed, opt, stage, phase, src, loose, todo, ok>>

(* Trips without stop_times are written as they are; stop_times without a trip *)
(* are kept, so that their reference error is found.                         *)
AssignOther ==
  /\ stage = "assign" /\ batch # <<>> /\ (~Head(batch).valid \/ Head(batch).times = <<>>)
  /\ batch' = Tail(batch)
  /\ IF Head(batch).valid
     THEN trips' = Append(trips, Put(Head(batch).trip, "times", <<>>)) /\ UNCHANGED loose
     ELSE loose' = loose \o Head(batch).times /\ UNCHANGED trips
  /\ UNCHANGED <<feed, opt, stage, phase, src, todo, ok, emap, seen, written, left, patterns>>

WriteTrips ==
  /\ stage = "assign" /\ batch = <<>>
  /\ copyEntities(trips)
  /\ stage' = "write"
  /\ UNCHANGED <<feed, opt, phase, src, batch, trips, loose, emap, seen, written, left, patterns>>

CopyNext ==
  \/ NextPhase \/ TakeBatch \/ TakeGenerated \/ TakeTrips
  \/ AssignTrip \/ AssignOther \/ WriteTrips
  \/ WriteGroup \/ WriterFails \/ EndGroups

CopySpec == CopyInit /\ [][CopyNext]_copyVars
-----------------------------------------------------------------------------
(* Properties *)
Provided ==
  (UNION {Keys(r) \cup CompatKeys(r) : r \in written})
    \cup (IF opt.normalizeServices THEN {} ELSE {Key(r) : r \in ToSet(GeneratedCalendars)})

\* Whatever is left out on the way, a row that was written refers only to rows
\* that were written before it, unless both strictness checks are switched off.
NoDanglingReferences ==
  LET provided == Provided IN
  (~opt.allowErrors \/ ~opt.allowReferences) => \A row \in written : row.refs \subseteq provided

SourceRows == UNION {ToSet(feed[p]) : p \in DOMAIN feed}
IsWritten(row) == \E w \in written : w.line = row.line
Considered == SourceRows \cup {l[1] : l \in left}
IsDuplicate(row) ==
  row.id # NoId /\ \E r \in Considered \cup written : r.line # row.line /\ Key(r) = Key(row)

\* A shape generated for the trip was rejected, or made twice in a second.
ShapeWasLeftOut(row) ==
  \E l \in left : /\ l[1].line = row.line
                 /\ \E g \in left : g[1].line[1] = "generated" /\ Key(g[1]) \in l[1].refs

\* Rows that follow their trip or calendar are not even checked without it.
OwnerWasLeftOut(key) == \E l \in left : Key(l[1]) = key

HasBlankTimes == \E r \in ToSet(Rows("stop_times")) : r.trip = NoId

\* A row of the source, or one made of it, is left out only for a fault of its
\* own, or because a row it refers to is; never because of the order of the
\* files, of batches or of groups.
\* (Stop times of journey pattern duplicates: see TimesRecoverable. A file in
\* which a row without a trip_id comes between two rows of a trip is left out:
\* the reader then yields the trip twice, and the second is a duplicate.)
NothingLeftOutWithoutCause ==
  stage = "done" /\ ~HasBlankTimes => \A row \in Considered :
    \/ IsWritten(row)
    \/ row.fault \in {"unmarked", "filtered"}
    \/ ~opt.allowErrors /\ (row.fault = "bad" \/ IsDuplicate(row))
    \/ ~(opt.allowErrors /\ opt.allowReferences) /\ ~(row.refs \subseteq Provided)
    \/ row.line[1] = "generated"
    \/ row.file = "trips.txt" /\ ShapeWasLeftOut(row)
    \/ row.file = "stop_times.txt" /\ OwnerWasLeftOut(<<"trips.txt", row.trip>>)
    \/ row.file = "calendar_dates.txt" /\ OwnerWasLeftOut(<<"calendar.txt", row.service>>)
    \/ opt.dedup /\ row.file = "stop_times.txt" /\ row.trip \in dedup
    \/ row.file = "trips.txt" /\ row.id \in {t \in {r.trip : r \in ToSet(Rows("stop_times"))} :
                                          Count(Rows("stop_times"), t) > ChunkSize}
    \/ row.file = "stop_times.txt" /\ Count(Rows("stop_times"), row.trip) > ChunkSize

Timed == {w \in written : w.file = "trips.txt" /\ w.times # <<>>}

\* Across all batches of a feed two trips have the same stop pattern number
\* exactly when they visit the same stops in the same order; a flex trip shares
\* its number with no other trip. (A flex trip that is yielded twice, or that is
\* named like the only stop of another trip, takes a number without taking it out
\* of use: left out are feeds with blank trip_ids, and those in which a trip has
\* the name of a stop.)
StopPatternsFollowStops ==
  ~HasBlankTimes
    /\ (\A r \in ToSet(Rows("trips")), t \in ToSet(Rows("stop_times")) : r.id # t.stop) =>
  \A a, b \in Timed : a.line # b.line =>
    (a.pattern = b.pattern
       <=> AllStopsHaveStopID(a.times) /\ AllStopsHaveStopID(b.times) /\ Stops(a.times) = Stops(b.times))

\* The stop_times of a written trip can be had from the output: they were
\* written (or have a fault of their own), or those of the trip its journey
\* pattern names were, at the same stops.
TimesOf(w) == {r \in ToSet(w.times) : r.fault = "none" /\ r.refs \subseteq Provided}
Recoverable(w) ==
  \/ \A r \in TimesOf(w) : IsWritten(r)
  \/ \E b \in Timed : /\ b.id = w.journey /\ Stops(b.times) = Stops(w.times)
                      /\ \A r \in TimesOf(b) : IsWritten(r)
BaseWasRejected(w) == \A b \in Timed : b.id # w.journey

\* Leaving out the stop_times of journey pattern duplicates loses none, as long
\* as the trip that brought the pattern was accepted.  (If it was rejected, the next
\* trip of the pattern is accepted with no stop_times at all: copier.go 1028-1045
\* sets the pattern before the trip is checked. Left out are feeds with blank
\* trip_ids: a trip that is yielded twice repeats its own pattern.)
TimesRecoverable == stage = "done" /\ ~HasBlankTimes => \A w \in Timed : Recoverable(w) \/ BaseWasRejected(w)

(* What the copier asks of a reader. *)
At(out, t) == {k \in DOMAIN out : out[k].times # <<>> /\ out[k].times[1].trip = t}
YieldsEachTripOnce(rows, out) ==
  \A row \in ToSet(rows) : Cardinality({k \in DOMAIN out : out[k].valid /\ out[k].trip.line = row.line}) = 1
CarriesItsTimes(rows, times, t, e) ==
  LET own == {r \in ToSet(times) : r.trip = t}  named == RowsAt(rows, {i \in DOMAIN rows : rows[i].id = t}) IN
  /\ e.valid <=> named # <<>>
  /\ e.valid => e.trip.line = named[1].line
  /\ \A i \in 2..Len(e.times) : e.times[i - 1].seq <= e.times[i].seq
  /\ ToSet(e.times) \subseteq own
  /\ IF Cardinality(own) <= ChunkSize THEN ToSet(e.times) = own
     ELSE Len(e.times) = ChunkSize /\ (e.valid => e.trip.fault = "bad")

\* Both passes of the reader, the streaming one and the chunked one, yield every
\* trip once, its first row with all of its stop_times in order, in the order
\* in which stop_times.txt names the trips, and the stop_times without a trip;
\* on a grouped file they agree, and so does the fallback up to order. All of it
\* for files in which every row has a trip_id.
ReaderKeepsContract ==
  stage = "phase" /\ phase = 0 /\ ~HasBlankTimes =>
  LET rows == Rows("trips")  times == Rows("stop_times")
      out == TripsWithStopTimes(rows, times)
      order == Order(times) IN
  /\ YieldsEachTripOnce(rows, out)
  /\ \A i \in DOMAIN order :
       /\ Cardinality(At(out, order[i])) = 1
       /\ \A k \in At(out, order[i]) : CarriesItsTimes(rows, times, order[i], out[k])
       /\ \A j \in 1..(i - 1) : \A k \in At(out, order[i]), l \in At(out, order[j]) : l < k
  /\ Grouped(times) => streamTripStopTimes(rows, times) = chunkTripStopTimes(rows, times)
  /\ (\A i \in DOMAIN order : Count(times, order[i]) <= ChunkSize)
       => \A other \in genericTripsWithStopTimes(rows, times) : ToSet(other) = ToSet(out)
=============================================================================
