---------------------------- MODULE ServiceLevels ----------------------------
(***************************************************************************)
(* From the calendars of a feed to the trips of a date.  A fetch computes   *)
(* the weekly service levels of the feed (stats/fvsl.go), an import stores  *)
(* its calendars (copier.go copyCalendars, with or without                  *)
(* ext/filters/simplify_calendar_filter.go), the server derives a service   *)
(* window and a fallback week from the levels (internal/clock/swcache.go)   *)
(* and answers queries for a date with them (finders/dbfinder/trip.go).     *)
(*                                                                         *)
(* A feed has the rows of calendar.txt by service id (calendars, start, end  *)
(* and week), the exceptions of calendar_dates.txt by service id (dates),   *)
(* and trips by id: the service, the seconds from the first departure to    *)
(* the last arrival (NoTimes for a trip that does not count: one stop time, *)
(* or a flex trip), and the runs of its frequencies (Once when none).  A     *)
(* feed version has the feed, when it was fetched (fetchedAt, in half days   *)
(* from the first midnight UTC), the two dates of feed_info.txt (info, or    *)
(* NoWindow) and the time zone of its agency (zone, local time minus UTC in  *)
(* half days).                                                              *)
(***************************************************************************)
EXTENDS ServiceCalendar, SequencesExt

CONSTANTS
  FeedVersion,   \* the feed versions that may be fetched
  RowLimit,      \* the rows of service levels that a window is calculated from
  NoTimes, Once, NoWindow, None

ASSUME RowLimitAssumption == RowLimit \in Nat \ {0}

\* Rows that the copy accepts.
Rows(f) ==
  /\ \A id \in DOMAIN f.calendars :
       /\ f.calendars[id].start \in Day /\ f.calendars[id].end \in Day
       /\ f.calendars[id].week \in [Weekdays -> BOOLEAN]
  /\ \A id \in DOMAIN f.dates : f.dates[id] \in UNION {[D -> Exceptions] : D \in SUBSET Day}

\* Trips that it accepts end no earlier than they start (rules/stop_time_sequence.go:69).
Trips(f) ==
  /\ IsFiniteSet(DOMAIN f.trips)
  /\ \A t \in DOMAIN f.trips : /\ f.trips[t].seconds \in Nat \cup {NoTimes}
                               /\ f.trips[t].runs \in Nat \cup {Once}

ASSUME FeedAssumption == \A v \in FeedVersion : Rows(v.feed)
ASSUME VersionAssumption ==
  \A v \in FeedVersion :
    /\ Trips(v.feed) /\ v.fetchedAt \in Int /\ v.zone \in Int
    /\ v.info # NoWindow => v.info.start \in Int /\ v.info.end \in Int

VARIABLES
  version,   \* the feed version
  pc,        \* "fetched", "leveled", "imported", "window", "answered"
  levels,    \* feed_version_service_levels, in the order of their start dates
  stored,    \* gtfs_calendars and gtfs_calendar_dates, by service id
  window,    \* ServiceWindowCache
  answer     \* the date asked for, the date it stands for, and its trips

vars == <<version, pc, levels, stored, window, answer>>

feed == version.feed

ServiceIds(f) == DOMAIN f.calendars \cup DOMAIN f.dates
Dates(f, id) == IF id \in DOMAIN f.dates THEN f.dates[id] ELSE <<>>
NoWeekday == [k \in Weekdays |-> FALSE]

(* What the copy writes for a service, in the order that its readers see it:  *)
(* calendars with their dates, then the services that only dates know, which  *)
(* get a calendar of their own when service ids are normalized.              *)
Written(f, id) ==
  IF id \in DOMAIN f.calendars
  THEN [start |-> f.calendars[id].start, end |-> f.calendars[id].end,
        week |-> f.calendars[id].week, dates |-> Dates(f, id), generated |-> FALSE]
  ELSE [start |-> Zero, end |-> Zero, week |-> NoWeekday, dates |-> Dates(f, id),
        generated |-> FALSE]

Generated(s) ==
  [start |-> FirstDay(s), end |-> FinalDay(s), week |-> s.week, dates |-> s.dates,
   generated |-> TRUE]

Stored(f, id, simplify) ==
  LET s == IF id \in DOMAIN f.calendars THEN Written(f, id) ELSE Generated(Written(f, id))
  IN IF simplify THEN Simplify(s) ELSE s

-----------------------------------------------------------------------------
(* FeedVersionServiceLevelBuilder *)

Counted(f) == {t \in DOMAIN f.trips : f.trips[t].seconds # NoTimes}
Duration(trip) == IF trip.runs = Once THEN trip.seconds ELSE trip.seconds * trip.runs
Durations(f) == [t \in Counted(f) |-> Duration(f.trips[t])]
ServiceTotal(f, id) ==
  SumFunctionOnSet(Durations(f), {t \in Counted(f) : f.trips[t].service = id})

Scheduled(f) == {f.trips[t].service : t \in Counted(f)} \cap ServiceIds(f)
Running(f, d) ==
  {id \in Scheduled(f) : d \in ServicePeriod(Written(f, id)) /\ IsActive(Written(f, id), d)}

Weeks(f) == {Monday(d) : d \in {d \in Day : Running(f, d) # {}}}
ServiceTotals(f) == [id \in Scheduled(f) |-> ServiceTotal(f, id)]
Pattern(f, w) ==
  [k \in Weekdays |-> SumFunctionOnSet(ServiceTotals(f), IF w + k \in Day THEN Running(f, w + k) ELSE {})]
Patterns(f) == [w \in Weeks(f) |-> Pattern(f, w)]

\* Mutant: weeks of one pattern are one range, whatever is between them.
RepeatsLater(pattern, w) == \E v \in DOMAIN pattern : v < w /\ pattern[v] = pattern[w]

\* A week repeats the one before if that one has service too, and the same.
Repeats(pattern, w) ==
  w - WeekLength \in DOMAIN pattern /\ pattern[w - WeekLength] = pattern[w]

\* A row holds the weeks from one that repeats none to the last that repeats it.
Firsts(pattern) == {w \in DOMAIN pattern : ~Repeats(pattern, w)}
LastWeek(pattern, w) ==
  Max({v \in DOMAIN pattern : v >= w /\ pattern[v] = pattern[w]
                               /\ \A u \in Firsts(pattern) : ~(w < u /\ u <= v)})
Row(pattern, w) ==
  [start |-> w, end |-> LastWeek(pattern, w) + WeekLength - 1, seconds |-> pattern[w]]

\* The n-th of a set of days. (SetToSortSeq sorts by an operator of TLC's.)
Nth(S, n) == CHOOSE w \in S : Cardinality({v \in S : v <= w}) = n

\* Sorted by their start dates.
Levels(f) ==
  LET pattern == Patterns(f)
      firsts == Firsts(pattern)
  IN [n \in 1..Cardinality(firsts) |-> Row(pattern, Nth(firsts, n))]

\* ServiceLevelDays: the level of a day is that of the first row that holds it.
LevelOn(rows, d) ==
  LET at == {i \in DOMAIN rows : rows[i].start <= d /\ d <= rows[i].end}
  IN IF at = {} THEN 0 ELSE rows[Min(at)].seconds[Weekday(d)]

-----------------------------------------------------------------------------
(* ServiceWindowCache.queryFvsl *)

\* By their start dates, up to the limit of the query.
RowsRead(rows) == IF Len(rows) <= RowLimit THEN rows ELSE SubSeq(rows, 1, RowLimit)

Total(row) == SumFunctionOnSet(row.seconds, Weekdays)
Highest(rows) == Max({Total(rows[i]) : i \in DOMAIN rows})
HighestIdx(rows) == Min({i \in DOMAIN rows : Total(rows[i]) = Highest(rows)})

\* Below three quarters of the highest; minServiceRatio is 0.75.
Poor(rows, i) == 4 * Total(rows[i]) < 3 * Highest(rows)

\* Mutant: the fetched week is kept however little service it has.
FetchedWeekAlways(rows, at) ==
  LET holds == {i \in DOMAIN rows : 2 * rows[i].start <= at /\ at <= 2 * rows[i].end}
  IN IF holds = {} THEN HighestIdx(rows) ELSE Max(holds)

\* Range dates are midnights: on its last day a range no longer holds the time.
FetchedWeek(rows, at) ==
  LET holds == {i \in DOMAIN rows : 2 * rows[i].start <= at /\ at <= 2 * rows[i].end}
      week == IF holds = {} THEN HighestIdx(rows) ELSE Max(holds)
  IN IF Poor(rows, week) THEN HighestIdx(rows) ELSE week

\* The window grows to both sides until a poor row; the first row is not looked at.
LastRow(rows, week) ==
  Max({j \in week..Len(rows) : \A i \in week..j : ~Poor(rows, i)} \cup {week})
FirstRow(rows, week) ==
  Min({j \in 2..week : \A i \in j..week : ~Poor(rows, i)} \cup {week})

\* Mutant: the passes do not keep the highest service seen so far.
FallbackWeekLast(rows, start, end) ==
  LET inWindow == {i \in DOMAIN rows : rows[i].start <= end /\ rows[i].end >= start
                                       /\ Total(rows[i]) > Total(rows[1])}
      full == {i \in inWindow : \A k \in Weekdays : rows[i].seconds[k] > 0}
      best == IF full # {} THEN full ELSE inWindow
  IN IF best = {} THEN rows[1].start ELSE rows[Max(best)].start

(* A row with service on every day is taken before one without, but only if   *)
(* it has more service than the first row of all, in the window or not.       *)
FallbackWeek(rows, start, end) ==
  LET inWindow == {i \in DOMAIN rows : rows[i].start <= end /\ rows[i].end >= start
                                       /\ Total(rows[i]) > Total(rows[1])}
      full == {i \in inWindow : \A k \in Weekdays : rows[i].seconds[k] > 0}
      best == IF full # {} THEN full ELSE inWindow
      highest == {i \in best : \A j \in best : Total(rows[j]) <= Total(rows[i])}
  IN IF best = {} THEN rows[1].start ELSE rows[Min(highest)].start

CalculatedWindow(rows, at) ==
  IF rows = <<>> THEN [start |-> Zero, end |-> Zero, fallback |-> Zero]
  ELSE LET week == FetchedWeek(rows, at)
           start == rows[FirstRow(rows, week)].start
           end == rows[LastRow(rows, week)].end
       IN [start |-> start, end |-> end, fallback |-> FallbackWeek(rows, start, end)]

-----------------------------------------------------------------------------
(* Queries for a date. Midnight of a day in a zone, in half days: *)

Midnight(d, z) == 2 * d - z

\* Mutant: the date is compared as it is given.
InWindowAsGiven(d, w) ==
  /\ Midnight(d, 0) >= Midnight(w.start, w.zone)
  /\ Midnight(d, 0) <= Midnight(w.end, w.zone)

\* A date scalar is midnight UTC; the window's dates are local midnights.
InWindow(d, w) ==
  /\ Midnight(d, w.zone) >= Midnight(w.start, w.zone)
  /\ Midnight(d, w.zone) <= Midnight(w.end, w.zone)

MapIntoServiceWindow(d, w) ==
  IF InWindow(d, w) THEN d ELSE w.fallback + Weekday(d)

\* serviceDateLateral: a calendar of the trip runs or is added, and not removed.
RunsInDatabase(s, d) ==
  /\ Calendar(s, d) \/ (d \in DOMAIN s.dates /\ s.dates[d] = "added")
  /\ ~(d \in DOMAIN s.dates /\ s.dates[d] = "removed")

-----------------------------------------------------------------------------
Init ==
  /\ version \in FeedVersion
  /\ pc = "fetched"
  /\ levels = <<>> /\ stored = <<>> /\ window = None /\ answer = None

\* NewFeedStatsFromReader copies to nothing, with service ids as they are.
SaveLevels ==
  /\ pc = "fetched"
  /\ levels' = Levels(feed) /\ pc' = "leveled"
  /\ UNCHANGED <<version, stored, window, answer>>

\* An import normalizes service ids.
Import(simplify) ==
  /\ pc = "leveled"
  /\ stored' = [id \in ServiceIds(feed) |-> Stored(feed, id, simplify)]
  /\ pc' = "imported"
  /\ UNCHANGED <<version, levels, window, answer>>

\* The dates of feed_info.txt, when it has both, come before the calculated ones.
GetWindow ==
  /\ pc = "imported"
  /\ LET calculated == CalculatedWindow(RowsRead(levels), version.fetchedAt)
         dates == IF version.info = NoWindow THEN calculated ELSE version.info
     IN window' = [start |-> dates.start, end |-> dates.end,
                   fallback |-> calculated.fallback, zone |-> version.zone]
  /\ pc' = "window"
  /\ UNCHANGED <<version, levels, stored, answer>>

Query(d, useServiceWindow) ==
  /\ pc \in {"window", "answered"}
  /\ LET day == IF useServiceWindow THEN MapIntoServiceWindow(d, window) ELSE d
     IN answer' = [asked |-> d, day |-> day,
                   trips |-> {t \in DOMAIN feed.trips :
                                /\ feed.trips[t].service \in DOMAIN stored
                                /\ RunsInDatabase(stored[feed.trips[t].service], day)}]
  /\ pc' = "answered"
  /\ UNCHANGED <<version, levels, stored, window>>

Next ==
  \/ SaveLevels
  \/ \E simplify \in BOOLEAN : Import(simplify)
  \/ GetWindow
  \/ \E d \in Day, useServiceWindow \in BOOLEAN : Query(d, useServiceWindow)

Spec == Init /\ [][Next]_vars

-----------------------------------------------------------------------------
(* What the rows of the feed say, by the GTFS reference: a date is added or   *)
(* removed by calendar_dates.txt, and otherwise follows calendar.txt.        *)
Says(f, id, d) ==
  LET exception == {e \in {<<x, Dates(f, id)[x]>> : x \in DOMAIN Dates(f, id)} : e[1] = d}
  IN \/ <<d, "added">> \in exception
     \/ /\ exception = {} /\ id \in DOMAIN f.calendars
        /\ d \in f.calendars[id].start..f.calendars[id].end
        /\ f.calendars[id].week[Weekday(d)]

(* Whatever the import does to calendars (a calendar for a service that only  *)
(* dates know, exceptions folded into weekdays and new ones for the rest):    *)
(* each service runs on exactly the days that the feed says, "through entire   *)
(* service period, not just StartDate, EndDate" (service_test.go:111), and the *)
(* rule that reports services without a day of service reports just those.    *)
ServicesRunAsWritten ==
  pc = "imported" =>
    \A id \in DOMAIN stored :
      /\ \A d \in Day : IsActive(stored[id], d) <=> Says(feed, id, d)
      /\ HasAtLeastOneDay(stored[id]) <=> \E d \in Day : Says(feed, id, d)

(* The service level looked up for a day is the seconds of the trips that the  *)
(* feed runs on it, times their frequencies, however the days were grouped     *)
(* into weeks and the weeks into ranges; no day is in two rows.               *)
LevelsMatchService ==
  pc = "leveled" =>
    /\ \A d \in Day : LevelOn(levels, d) =
         SumFunctionOnSet(Durations(feed),
                          {t \in Counted(feed) : Says(feed, feed.trips[t].service, d)})
    /\ \A i, j \in DOMAIN levels :
         i < j => levels[i].end < levels[j].start

(* A calculated window starts and ends with usual weeks, has no week of poor   *)
(* service among its rows, and lies around the week of the fetch or else the   *)
(* highest week: it is never the window of a feed's worst weeks.             *)
WindowHasUsualService ==
  (pc = "window" /\ version.info = NoWindow /\ levels # <<>>) =>
    LET rows == RowsRead(levels)
        within == {i \in DOMAIN rows : rows[i].start <= window.end /\ rows[i].end >= window.start}
    IN /\ \A i \in within : /\ ~Poor(rows, i)
                            /\ window.start <= rows[i].start /\ rows[i].end <= window.end
       /\ \E i \in within : \/ /\ 2 * rows[i].start <= version.fetchedAt
                               /\ version.fetchedAt <= 2 * rows[i].end
                            \/ Total(rows[i]) = Highest(rows)

(* The trips of a date are those that the feed runs on it.  With the window,   *)
(* a date of the window stands for itself wherever the feed is, and another    *)
(* one for a day of the same weekday.                                        *)
DatesServedAsWritten ==
  answer # None =>
    /\ answer.day \in Day => answer.trips = {t \in DOMAIN feed.trips :
                                        Says(feed, feed.trips[t].service, answer.day)}
    /\ window.start <= answer.asked /\ answer.asked <= window.end => answer.day = answer.asked
    /\ Weekday(answer.day) = Weekday(answer.asked)

(* The week that stands for the dates outside a calculated window is a week of  *)
(* the feed, and no week of the window has more service, but for weeks without   *)
(* service on some weekday when the fallback has service on every weekday.       *)
FallbackIsBusiest ==
  (pc = "window" /\ version.info = NoWindow /\ levels # <<>>) =>
    LET rows == RowsRead(levels)
        Within(i) == rows[i].start <= window.end /\ rows[i].end >= window.start
        Full(i) == \A k \in Weekdays : rows[i].seconds[k] > 0
    IN \E i \in DOMAIN rows :
         /\ rows[i].start = window.fallback
         /\ \A j \in DOMAIN rows :
              Within(j) /\ Total(rows[j]) > Total(rows[i]) => Full(i) /\ ~Full(j)

(* "Check again to find the highest service week in the window.  This will be    *)
(* used as the typical week for dates outside the window" (swcache.go:213-214):   *)
(* the fallback week of a calculated window starts on or after the start of the   *)
(* window and on or before its end (swcache_test.go:426-429).                      *)
FallbackInWindow ==
  (pc = "window" /\ version.info = NoWindow /\ levels # <<>>) =>
    window.start <= window.fallback /\ window.fallback <= window.end
=============================================================================
