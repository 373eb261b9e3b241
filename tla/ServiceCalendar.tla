--------------------------- MODULE ServiceCalendar ---------------------------
(***************************************************************************)
(* The days a GTFS service runs: service/service.go.                        *)
(*                                                                         *)
(* A service is a row of calendar.txt with its exceptions: the days between *)
(* start and end whose weekday is on, plus the dates added, minus the dates *)
(* removed.  Days are counted from a Monday, weeks have WeekLength days.    *)
(* dates maps a day to its exception; of two exceptions for one date only   *)
(* the first is ever looked at, so it is the one kept.  A service known by  *)
(* its dates alone has no start and end (Zero, a date before all days), or  *)
(* is a generated one, that has them from its dates and no weekday on.      *)
(***************************************************************************)
EXTENDS Integers, FiniteSets, FiniteSetsExt

CONSTANTS WeekLength, LastDay

ASSUME CalendarAssumption ==
  WeekLength \in Nat \ {0} /\ LastDay \in Nat /\ (LastDay + 1) % WeekLength = 0

Day == 0..LastDay
Exceptions == {"added", "removed"}

\* The zero date is a Monday too, 1 January of the year 1.
Zero == -2 * WeekLength

Weekdays == 0..(WeekLength - 1)
Weekday(d) == d % WeekLength
Monday(d) == d - Weekday(d)

Service ==
  [start : Day \cup {Zero}, end : Day \cup {Zero}, week : [Weekdays -> BOOLEAN],
   dates : UNION {[D -> Exceptions] : D \in SUBSET Day}, generated : BOOLEAN]

(* What the readers and the builders make: an end has a start.  (The other   *)
(* way round ServicePeriod would forget the days before the first exception.) *)
WellFormed(s) == s.end # Zero => s.start # Zero

\* The two ends of the service with its exceptions; a date replaces a zero end.
FirstDay(s) == LET ends == DOMAIN s.dates \cup ({s.start} \ {Zero})
               IN IF ends = {} THEN Zero ELSE Min(ends)
FinalDay(s) == LET ends == DOMAIN s.dates \cup ({s.end} \ {Zero})
               IN IF ends = {} THEN Zero ELSE Max(ends)
ServicePeriod(s) == {d \in Day : FirstDay(s) <= d /\ d <= FinalDay(s)}

Calendar(s, d) == s.start <= d /\ d <= s.end /\ s.week[Weekday(d)]

IsActive(s, d) ==
  IF d \in DOMAIN s.dates THEN s.dates[d] = "added" ELSE Calendar(s, d)

(* Whether the service runs at all: yes for a calendar of a week or more      *)
(* without exceptions or for any date added; otherwise every day is tried.    *)
HasAtLeastOneDay(s) ==
  LET anyWeekday == \E k \in Weekdays : s.week[k]
      added == \E d \in DOMAIN s.dates : s.dates[d] = "added"
  IN \/ s.end - s.start >= WeekLength /\ anyWeekday /\ DOMAIN s.dates = {}
     \/ added
     \/ anyWeekday /\ \E d \in ServicePeriod(s) : IsActive(s, d)

(* Simplify turns on the weekdays that run at least as often as not between   *)
(* the start and the end, and keeps an exception for every day of the whole   *)
(* period on which that is wrong.                                            *)
Spans(s) == s.generated \/ s.start = Zero \/ s.end = Zero

SimplifiedWeek(s, span) ==
  [k \in Weekdays |->
     LET total == {d \in span : Weekday(d) = k}
         active == {d \in total : IsActive(s, d)}
     IN total # {} /\ Cardinality(active) >= Cardinality(total \ active)]

\* Mutant: exceptions are looked for between start and end only, as weekdays are.
ExceptionsInSpan(s, base) ==
  [d \in {d \in ServicePeriod(s) : base.start <= d /\ d <= base.end
                                   /\ IsActive(s, d) # IsActive(base, d)} |->
     IF IsActive(s, d) THEN "added" ELSE "removed"]

ExceptionsBetween(s, base) ==
  [d \in {d \in ServicePeriod(s) : IsActive(s, d) # IsActive(base, d)} |->
     IF IsActive(s, d) THEN "added" ELSE "removed"]

Simplify(s) ==
  LET first == IF Spans(s) THEN FirstDay(s) ELSE s.start
      final == IF Spans(s) THEN FinalDay(s) ELSE s.end
      base == [start |-> first, end |-> final, dates |-> <<>>, generated |-> s.generated,
               week |-> SimplifiedWeek(s, {d \in Day : first <= d /\ d <= final})]
  IN [base EXCEPT !.dates = ExceptionsBetween(s, base)]
=============================================================================
