---------------------------- MODULE ServiceProofs ----------------------------
(***************************************************************************)
(* Theorems about the days of a service, the service levels of a feed and    *)
(* its window, for weeks and calendars of any length and any feeds.          *)
(***************************************************************************)
EXTENDS ServiceLevels, WellFoundedInduction, FiniteSetTheorems, TLAPS

-----------------------------------------------------------------------------
(* Sets of days have a first and a last one.                                 *)

LEMMA MinOfDays ==
  ASSUME NEW S, S \subseteq Nat, S # {}
  PROVE  Min(S) \in S /\ \A x \in S : Min(S) <= x
<1>1. PICK m \in S : \A x \in S : ~(<<x, m>> \in OpToRel(<, Nat))
  BY WFMin, NatLessThanWellFounded, Zenon
<1>2. \A x \in S : <<x, m>> \in Nat \X Nat /\ x < m => <<x, m>> \in OpToRel(<, Nat)
  BY Zenon DEF OpToRel
<1>3. \A x \in S : ~(x < m)
  BY <1>1, <1>2
<1>4. \A x \in S : m <= x
  BY <1>3
<1> QED
  BY <1>4 DEF Min

\* A set of numbers up to one of them has a last one.
LEMMA MaxUpTo ==
  ASSUME NEW n \in Nat, NEW S, S \subseteq 0..n, S # {}
  PROVE  Max(S) \in S /\ \A x \in S : Max(S) >= x
<1> DEFINE mirror == {n - x : x \in S}
<1>1. mirror \subseteq Nat /\ mirror # {}
  <2>1. \A x \in S : x \in 0..n
    OBVIOUS
  <2>2. \A x \in S : n - x \in Nat
    BY <2>1
  <2> QED BY <2>2
<1>2. Min(mirror) \in mirror /\ \A y \in mirror : Min(mirror) <= y
  BY <1>1, MinOfDays, Zenon
<1>3. PICK m \in S : Min(mirror) = n - m
  BY <1>2
<1>4. \A x \in S : m >= x
  <2> SUFFICES ASSUME NEW x \in S PROVE m >= x
    OBVIOUS
  <2>1. n - m <= n - x
    BY <1>2, <1>3
  <2> QED
    BY <2>1
<1> QED
  BY <1>4 DEF Max

LEMMA MaxOfDays ==
  ASSUME CalendarAssumption, NEW S, S \subseteq Day, S # {}
  PROVE  Max(S) \in S /\ \A x \in S : Max(S) >= x
BY MaxUpTo, Zenon DEF Day, CalendarAssumption

-----------------------------------------------------------------------------
(* The period of a service holds every day that its rows speak of.            *)

LEMMA ZeroIsBeforeDays ==
  ASSUME CalendarAssumption
  PROVE  Zero \in Int /\ Zero \notin Day /\ \A d \in Day : Zero < d
BY DEF CalendarAssumption, Zero, Day

LEMMA DatesAreDays ==
  ASSUME NEW s \in Service
  PROVE  /\ s.start \in Day \cup {Zero} /\ s.end \in Day \cup {Zero}
         /\ s.week \in [Weekdays -> BOOLEAN] /\ s.generated \in BOOLEAN
         /\ DOMAIN s.dates \subseteq Day
         /\ \A d \in DOMAIN s.dates : s.dates[d] \in Exceptions
<1>1. PICK D \in SUBSET Day : s.dates \in [D -> Exceptions]
  BY DEF Service
<1> QED
  BY <1>1 DEF Service

LEMMA FirstDayIsFirst ==
  ASSUME CalendarAssumption, NEW s \in Service
  PROVE  /\ FirstDay(s) \in Day \cup {Zero}
         /\ \A x \in DOMAIN s.dates \cup ({s.start} \ {Zero}) : FirstDay(s) <= x
<1> DEFINE ends == DOMAIN s.dates \cup ({s.start} \ {Zero})
<1>1. ends \subseteq Day
  BY DatesAreDays
<1>2. CASE ends = {}
  BY <1>2 DEF FirstDay
<1>3. CASE ends # {}
  <2>1. Min(ends) \in ends /\ \A x \in ends : Min(ends) <= x
    <3>1. ends \subseteq Nat
      BY <1>1 DEF Day
    <3> QED
      BY <1>3, <3>1, MinOfDays, Zenon
  <2> QED
    BY <1>1, <1>3, <2>1 DEF FirstDay
<1> QED
  BY <1>2, <1>3

LEMMA FinalDayIsLast ==
  ASSUME CalendarAssumption, NEW s \in Service
  PROVE  /\ FinalDay(s) \in Day \cup {Zero}
         /\ \A x \in DOMAIN s.dates \cup ({s.end} \ {Zero}) : x <= FinalDay(s)
<1> DEFINE ends == DOMAIN s.dates \cup ({s.end} \ {Zero})
<1>1. ends \subseteq Day
  BY DatesAreDays
<1>2. CASE ends = {}
  BY <1>2 DEF FinalDay
<1>3. CASE ends # {}
  <2>1. Max(ends) \in ends /\ \A x \in ends : Max(ends) >= x
    BY <1>1, <1>3, MaxOfDays, Zenon
  <2>2. FinalDay(s) = Max(ends)
    BY <1>3 DEF FinalDay
  <2> QED
    BY <1>1, <2>1, <2>2, ZeroIsBeforeDays DEF Day, CalendarAssumption
<1> QED
  BY <1>2, <1>3

LEMMA PeriodHoldsExceptions ==
  ASSUME CalendarAssumption, NEW s \in Service, NEW d \in DOMAIN s.dates
  PROVE  d \in ServicePeriod(s)
BY FirstDayIsFirst, FinalDayIsLast, DatesAreDays DEF ServicePeriod

LEMMA PeriodHoldsCalendar ==
  ASSUME CalendarAssumption, NEW s \in Service, WellFormed(s), NEW d \in Day,
         s.start <= d, d <= s.end
  PROVE  d \in ServicePeriod(s)
<1>1. s.end # Zero /\ s.start # Zero
  BY ZeroIsBeforeDays DEF WellFormed, Day
<1>2. FirstDay(s) <= s.start /\ s.end <= FinalDay(s)
  BY <1>1, FirstDayIsFirst, FinalDayIsLast
<1>3. /\ s.start \in Int /\ s.end \in Int /\ d \in Int
      /\ FirstDay(s) \in Int /\ FinalDay(s) \in Int
  BY FirstDayIsFirst, FinalDayIsLast, DatesAreDays, ZeroIsBeforeDays DEF Day
<1> QED
  BY <1>2, <1>3 DEF ServicePeriod

\* A service runs only on days of its period.
LEMMA RunsInPeriod ==
  ASSUME CalendarAssumption, NEW s \in Service, WellFormed(s), NEW d \in Day, IsActive(s, d)
  PROVE  d \in ServicePeriod(s)
BY PeriodHoldsExceptions, PeriodHoldsCalendar DEF IsActive, Calendar

-----------------------------------------------------------------------------
(* Simplify (service.go:260-338) changes on no day whether the service runs:   *)
(* not on the days between start and end, for which it decides the weekdays,   *)
(* nor on those that only exceptions reach, nor anywhere else.                *)
THEOREM SimplifyKeepsService ==
  ASSUME CalendarAssumption, NEW s \in Service, WellFormed(s), NEW d \in Day
  PROVE  IsActive(Simplify(s), d) <=> IsActive(s, d)
<1> DEFINE first == IF Spans(s) THEN FirstDay(s) ELSE s.start
           final == IF Spans(s) THEN FinalDay(s) ELSE s.end
           base == [start |-> first, end |-> final, dates |-> <<>>, generated |-> s.generated,
                    week |-> SimplifiedWeek(s, {x \in Day : first <= x /\ x <= final})]
           kept == {x \in ServicePeriod(s) : IsActive(s, x) # IsActive(base, x)}
           simple == Simplify(s)
<1> HIDE DEF first, final
<1>1. simple = [base EXCEPT !.dates = ExceptionsBetween(s, base)]
  BY DEF Simplify, first, final
<1>2. /\ simple.start = first /\ simple.end = final /\ simple.week = base.week
      /\ simple.dates = ExceptionsBetween(s, base)
  BY <1>1
<1>3. Calendar(simple, d) <=> Calendar(base, d)
  BY <1>2 DEF Calendar
<1>4. IsActive(base, d) <=> Calendar(base, d)
  BY DEF IsActive
<1>5. DOMAIN simple.dates = kept
  BY <1>2 DEF ExceptionsBetween
<1> SUFFICES IsActive(simple, d) <=> IsActive(s, d)
  OBVIOUS
<1> HIDE DEF simple, base
<1>6. CASE d \in kept
  <2>1. simple.dates[d] = IF IsActive(s, d) THEN "added" ELSE "removed"
    BY <1>2, <1>6 DEF ExceptionsBetween
  <2> QED
    BY <1>5, <1>6, <2>1 DEF IsActive
<1>7. CASE d \notin kept
  <2>1. IsActive(simple, d) <=> IsActive(base, d)
    BY <1>3, <1>4, <1>5, <1>7 DEF IsActive
  <2>2. IsActive(s, d) \in BOOLEAN /\ IsActive(base, d) \in BOOLEAN
    BY DatesAreDays DEF IsActive, Calendar, base, SimplifiedWeek
  <2>3. CASE d \in ServicePeriod(s)
    BY <1>7, <2>1, <2>2, <2>3
  <2>4. CASE d \notin ServicePeriod(s)
    <3>1. ~IsActive(s, d)
      BY <2>4, RunsInPeriod
    <3>2. ~Calendar(base, d)
      <4>1. CASE Spans(s)
        BY <2>4, <4>1 DEF Calendar, base, first, final, ServicePeriod
      <4>2. CASE ~Spans(s)
        BY <2>4, <4>2, PeriodHoldsCalendar DEF Calendar, base, first, final
      <4> QED
        BY <4>1, <4>2
    <3> QED
      BY <1>4, <2>1, <3>1, <3>2
  <2> QED
    BY <2>3, <2>4
<1> QED
  BY <1>6, <1>7
\* It is a service again, that starts if it ends.
LEMMA SimplifyIsService ==
  ASSUME CalendarAssumption, NEW s \in Service, WellFormed(s)
  PROVE  Simplify(s) \in Service /\ WellFormed(Simplify(s))
<1> DEFINE first == IF Spans(s) THEN FirstDay(s) ELSE s.start
           final == IF Spans(s) THEN FinalDay(s) ELSE s.end
           week == SimplifiedWeek(s, {x \in Day : first <= x /\ x <= final})
           base == [start |-> first, end |-> final, dates |-> <<>>, generated |-> s.generated,
                    week |-> week]
           dates == ExceptionsBetween(s, base)
<1>1. first \in Day \cup {Zero} /\ final \in Day \cup {Zero}
  BY FirstDayIsFirst, FinalDayIsLast, DatesAreDays
<1>2. week \in [Weekdays -> BOOLEAN] /\ s.generated \in BOOLEAN
  BY DatesAreDays DEF SimplifiedWeek
<1>3. dates \in UNION {[D -> Exceptions] : D \in SUBSET Day}
  <2> DEFINE D == {d \in ServicePeriod(s) : IsActive(s, d) # IsActive(base, d)}
  <2>1. D \subseteq Day
    BY DEF ServicePeriod
  <2>2. dates = [d \in D |-> IF IsActive(s, d) THEN "added" ELSE "removed"]
    BY DEF ExceptionsBetween
  <2> HIDE DEF D, dates
  <2>3. dates \in [D -> Exceptions]
    BY <2>2 DEF Exceptions
  <2> QED
    BY <2>1, <2>3
<1>4. final # Zero => first # Zero
  <2>1. CASE ~Spans(s)
    BY <2>1 DEF Spans
  <2>2. CASE Spans(s) /\ DOMAIN s.dates = {} /\ s.start = Zero
    BY <2>2 DEF FinalDay, WellFormed
  <2>3. CASE DOMAIN s.dates # {} \/ s.start # Zero
    <3> DEFINE ends == DOMAIN s.dates \cup ({s.start} \ {Zero})
    <3>1. ends # {} /\ ends \subseteq Day /\ ends \subseteq Nat
      BY <2>3, DatesAreDays DEF Day
    <3>2. Min(ends) \in ends
      BY <3>1, MinOfDays, Zenon
    <3>3. FirstDay(s) = Min(ends)
      BY <3>1 DEF FirstDay
    <3>4. FirstDay(s) # Zero
      BY <3>1, <3>2, <3>3, ZeroIsBeforeDays
    <3> QED
      BY <3>4 DEF Spans
  <2> QED
    BY <2>1, <2>2, <2>3
<1>5. /\ Simplify(s).start = first /\ Simplify(s).end = final /\ Simplify(s).week = week
      /\ Simplify(s).dates = dates /\ Simplify(s).generated = s.generated
      /\ Simplify(s) = [start |-> first, end |-> final, dates |-> dates, generated |-> s.generated,
                        week |-> week]
  BY DEF Simplify
<1> HIDE DEF first, final, week, dates
<1> QED
  BY <1>1, <1>2, <1>3, <1>4, <1>5 DEF Service, WellFormed

-----------------------------------------------------------------------------
(* What an import stores for a service runs on exactly the days that the rows  *)
(* of the feed say, whether the service has a calendar, exceptions or both,    *)
(* and whether calendars are simplified or not (copier.go:732-829,            *)
(* simplify_calendar_filter.go:12-33).                                        *)

LEMMA DatesOfFeed ==
  ASSUME NEW f, Rows(f), NEW id
  PROVE  Dates(f, id) \in UNION {[D -> Exceptions] : D \in SUBSET Day}
<1>1. CASE id \in DOMAIN f.dates
  BY <1>1 DEF Rows, Dates
<1>2. CASE id \notin DOMAIN f.dates
  <2>1. <<>> \in [{} -> Exceptions]
    OBVIOUS
  <2> QED
    BY <1>2, <2>1 DEF Dates
<1> QED
  BY <1>1, <1>2

LEMMA WrittenIsService ==
  ASSUME CalendarAssumption, NEW f, Rows(f), NEW id
  PROVE  Written(f, id) \in Service /\ WellFormed(Written(f, id))
<1>1. Zero \notin Day /\ NoWeekday \in [Weekdays -> BOOLEAN]
  BY ZeroIsBeforeDays DEF NoWeekday
<1>2. CASE id \in DOMAIN f.calendars
  BY <1>1, <1>2, DatesOfFeed DEF Written, Service, WellFormed, Rows
<1>3. CASE id \notin DOMAIN f.calendars
  BY <1>1, <1>3, DatesOfFeed DEF Written, Service, WellFormed
<1> QED
  BY <1>2, <1>3

LEMMA GeneratedIsService ==
  ASSUME CalendarAssumption, NEW s \in Service, s.start = Zero, s.end = Zero
  PROVE  Generated(s) \in Service /\ WellFormed(Generated(s))
<1> DEFINE g == [start |-> FirstDay(s), end |-> FinalDay(s), week |-> s.week,
                 dates |-> s.dates, generated |-> TRUE]
<1>1. Generated(s) = g
  BY DEF Generated
<1>2. FirstDay(s) \in Day \cup {Zero} /\ FinalDay(s) \in Day \cup {Zero}
  BY FirstDayIsFirst, FinalDayIsLast
<1>3. CASE DOMAIN s.dates = {}
  BY <1>1, <1>2, <1>3 DEF FinalDay, WellFormed, Service
<1>4. CASE DOMAIN s.dates # {}
  <2>1. PICK x \in DOMAIN s.dates : TRUE
    BY <1>4
  <2>2. Min(DOMAIN s.dates) \in DOMAIN s.dates
    <3>1. DOMAIN s.dates \subseteq Nat
      BY DatesAreDays DEF Day
    <3> QED
      BY <1>4, <3>1, MinOfDays, Zenon
  <2>3. FirstDay(s) = Min(DOMAIN s.dates)
    <3>1. DOMAIN s.dates \cup ({s.start} \ {Zero}) = DOMAIN s.dates
      OBVIOUS
    <3> QED
      BY <1>4, <3>1 DEF FirstDay
  <2>4. FirstDay(s) # Zero
    BY <2>2, <2>3, DatesAreDays, ZeroIsBeforeDays
  <2> QED
    BY <1>1, <1>2, <2>4 DEF WellFormed, Service
<1> QED
  BY <1>3, <1>4

\* What the rows say of a day, by cases.
LEMMA SaysIs ==
  ASSUME NEW f, NEW id, NEW d
  PROVE  Says(f, id, d) <=> IF d \in DOMAIN Dates(f, id) THEN Dates(f, id)[d] = "added"
                            ELSE /\ id \in DOMAIN f.calendars
                                 /\ d \in f.calendars[id].start..f.calendars[id].end
                                 /\ f.calendars[id].week[Weekday(d)]
<1> DEFINE exception == {e \in {<<x, Dates(f, id)[x]>> : x \in DOMAIN Dates(f, id)} : e[1] = d}
<1>1. CASE d \in DOMAIN Dates(f, id)
  <2>1. exception = {<<d, Dates(f, id)[d]>>}
    BY <1>1
  <2> QED BY <1>1, <2>1 DEF Says
<1>2. CASE d \notin DOMAIN Dates(f, id)
  <2>1. exception = {}
    BY <1>2
  <2> QED BY <1>2, <2>1 DEF Says
<1> QED
  BY <1>1, <1>2

(* What an import stores for a service, simplified or not, runs on the days    *)
(* that the rows of the feed say (copier.go:734-798, service.go:260-338).     *)
THEOREM ImportKeepsDays ==
  ASSUME CalendarAssumption, NEW f, Rows(f), NEW id \in ServiceIds(f),
         NEW simplify \in BOOLEAN, NEW d \in Day
  PROVE  IsActive(Stored(f, id, simplify), d) <=> Says(f, id, d)
<1> DEFINE w == Written(f, id)
           s == IF id \in DOMAIN f.calendars THEN w ELSE Generated(w)
<1>1. w \in Service /\ WellFormed(w) /\ w.dates = Dates(f, id)
  BY WrittenIsService DEF Written
<1>2. Says(f, id, d) <=> IF d \in DOMAIN Dates(f, id) THEN Dates(f, id)[d] = "added"
                         ELSE /\ id \in DOMAIN f.calendars
                              /\ d \in f.calendars[id].start..f.calendars[id].end
                              /\ f.calendars[id].week[Weekday(d)]
  BY SaysIs
<1>3. s \in Service /\ WellFormed(s) /\ (IsActive(s, d) <=> Says(f, id, d))
  <2>1. CASE id \in DOMAIN f.calendars
    <3>1. /\ w.start = f.calendars[id].start /\ w.end = f.calendars[id].end
          /\ w.week = f.calendars[id].week
      BY <2>1 DEF Written
    <3>2. /\ f.calendars[id].start \in Int /\ f.calendars[id].end \in Int /\ d \in Int
      BY <2>1 DEF Rows, Day
    <3> QED
      BY <1>1, <1>2, <2>1, <3>1, <3>2 DEF IsActive, Calendar
  <2>2. CASE id \notin DOMAIN f.calendars
    <3>1. w.start = Zero /\ w.end = Zero /\ w.week = NoWeekday
      BY <2>2 DEF Written
    <3>2. Generated(w).dates = w.dates /\ Generated(w).week = w.week
      BY <1>1 DEF Generated, Service
    <3>3. Weekday(d) \in Weekdays
      BY DEF Weekday, Weekdays, Day, CalendarAssumption
    <3>4. ~Calendar(Generated(w), d)
      BY <3>1, <3>2, <3>3 DEF Calendar, NoWeekday
    <3>5. Generated(w) \in Service /\ WellFormed(Generated(w))
      BY <1>1, <3>1, GeneratedIsService
    <3> QED
      BY <1>1, <1>2, <2>2, <3>2, <3>4, <3>5 DEF IsActive
  <2> QED
    BY <2>1, <2>2
<1>4. Stored(f, id, simplify) = IF simplify THEN Simplify(s) ELSE s
  BY DEF Stored
<1> HIDE DEF s
<1> QED
  BY <1>3, <1>4, SimplifyKeepsService
-----------------------------------------------------------------------------
(* The check for services without a day of service (no_scheduled_service.go)   *)
(* answers without trying the days only when the answer is right.             *)

\* Any week in a row has a day of each weekday.
LEMMA WeekHasWeekdays ==
  ASSUME CalendarAssumption, NEW a \in Nat, NEW k \in Weekdays
  PROVE  \E d \in a..(a + WeekLength) : Weekday(d) = k
<1> DEFINE r == a % WeekLength
           q == a \div WeekLength
<1>1. /\ WeekLength \in Nat /\ WeekLength > 0 /\ k \in Nat /\ k < WeekLength
      /\ r \in Nat /\ r < WeekLength /\ q \in Int /\ a = WeekLength * q + r
  BY DEF CalendarAssumption, Weekdays
<1> HIDE DEF r, q
<1>2. CASE k >= r
  <2>1. a + (k - r) = WeekLength * q + k
    BY <1>1
  <2>2. (WeekLength * q + k) % WeekLength = k
    BY <1>1
  <2> QED
    BY <1>1, <1>2, <2>1, <2>2 DEF Weekday
<1>3. CASE k < r
  <2>1. a + (k - r) + WeekLength = WeekLength * (q + 1) + k
    BY <1>1
  <2>2. (WeekLength * (q + 1) + k) % WeekLength = k
    BY <1>1
  <2> QED
    BY <1>1, <1>3, <2>1, <2>2 DEF Weekday
<1> QED
  BY <1>1, <1>2, <1>3

(* HasAtLeastOneDay (service.go:223-258) answers without looking at days when   *)
(* it can, and its answers are those of looking at every day.                *)
THEOREM NoServiceIsExact ==
  ASSUME CalendarAssumption, NEW s \in Service, WellFormed(s)
  PROVE  HasAtLeastOneDay(s) <=> \E d \in Day : IsActive(s, d)
<1> DEFINE anyWeekday == \E k \in Weekdays : s.week[k]
           added == \E d \in DOMAIN s.dates : s.dates[d] = "added"
<1>1. ASSUME HasAtLeastOneDay(s) PROVE \E d \in Day : IsActive(s, d)
  <2>1. CASE s.end - s.start >= WeekLength /\ anyWeekday /\ DOMAIN s.dates = {}
    <3>1. PICK k \in Weekdays : s.week[k]
      BY <2>1
    <3>2. s.start \in Day /\ s.end \in Day
      BY <2>1, DatesAreDays, ZeroIsBeforeDays DEF WellFormed, CalendarAssumption, Day, Zero
    <3>3. PICK d \in s.start..(s.start + WeekLength) : Weekday(d) = k
      <4>1. s.start \in Nat
        BY <3>2 DEF Day
      <4> QED
        BY <4>1, WeekHasWeekdays, Zenon
    <3>4. d \in Day /\ s.start <= d /\ d <= s.end
      BY <2>1, <3>2, <3>3 DEF Day, CalendarAssumption
    <3> QED
      BY <2>1, <3>1, <3>3, <3>4 DEF IsActive, Calendar
  <2>2. CASE added
    BY <2>2, DatesAreDays DEF IsActive
  <2>3. CASE anyWeekday /\ \E d \in ServicePeriod(s) : IsActive(s, d)
    BY <2>3 DEF ServicePeriod
  <2> QED
    BY <1>1, <2>1, <2>2, <2>3 DEF HasAtLeastOneDay
<1>2. ASSUME NEW d \in Day, IsActive(s, d) PROVE HasAtLeastOneDay(s)
  <2>1. CASE d \in DOMAIN s.dates
    BY <1>2, <2>1 DEF IsActive, HasAtLeastOneDay
  <2>2. CASE d \notin DOMAIN s.dates
    <3>1. Weekday(d) \in Weekdays
      BY DEF Weekday, Weekdays, Day, CalendarAssumption
    <3>2. s.week[Weekday(d)]
      BY <1>2, <2>2 DEF IsActive, Calendar
    <3>3. d \in ServicePeriod(s)
      BY <1>2, RunsInPeriod
    <3> QED
      BY <1>2, <3>1, <3>2, <3>3 DEF HasAtLeastOneDay
  <2> QED
    BY <2>1, <2>2
<1> QED
  BY <1>1, <1>2

-----------------------------------------------------------------------------
(* Sums over finite sets.  Induction is over a set, of numbers or of subsets. *)

\* A set of numbers that holds zero and every successor holds all.
LEMMA AllNumbers ==
  ASSUME NEW X, 0 \in X, \A n \in Nat : n \in X => n + 1 \in X
  PROVE  Nat \subseteq X
<1> DEFINE rest == Nat \ X
<1>1. SUFFICES ASSUME rest # {} PROVE FALSE
  OBVIOUS
<1>2. PICK m \in rest : \A x \in rest : m <= x
  BY <1>1, MinOfDays, Zenon
<1>3. m # 0 /\ m - 1 \in Nat
  BY <1>2
<1>4. m - 1 \in X
  BY <1>2, <1>3
<1>5. (m - 1) + 1 \in X
  BY <1>3, <1>4
<1>6. (m - 1) + 1 = m
  BY <1>2
<1> QED
  BY <1>2, <1>5, <1>6

\* A set of subsets that holds each one which it holds without any one element holds all.
LEMMA AllSubsets ==
  ASSUME NEW S, IsFiniteSet(S), NEW X,
         \A T \in SUBSET S : (\A x \in T : T \ {x} \in X) => T \in X
  PROVE  SUBSET S \subseteq X
<1> DEFINE Sizes == {n \in Nat : \A T \in SUBSET S : Cardinality(T) = n => T \in X}
<1>1. \A T \in SUBSET S : /\ IsFiniteSet(T) /\ Cardinality(T) \in Nat
                          /\ \A x \in T : Cardinality(T \ {x}) = Cardinality(T) - 1
  BY FS_Subset, FS_RemoveElement, FS_CardinalityType
<1>2. 0 \in Sizes
  <2>1. \A T \in SUBSET S : Cardinality(T) = 0 => T = {}
    BY <1>1, FS_EmptySet
  <2> QED
    BY <2>1
<1>3. ASSUME NEW n \in Nat, n \in Sizes PROVE n + 1 \in Sizes
  <2>1. ASSUME NEW T \in SUBSET S, Cardinality(T) = n + 1 PROVE T \in X
    <3>1. \A x \in T : T \ {x} \in SUBSET S /\ Cardinality(T \ {x}) = n
      BY <1>1, <2>1
    <3>2. \A x \in T : T \ {x} \in X
      BY <3>1, <1>3
    <3> QED
      BY <3>2
  <2> QED
    BY <2>1
<1>4. Nat \subseteq Sizes
  <2> HIDE DEF Sizes
  <2> QED BY <1>2, <1>3, AllNumbers
<1> QED
  BY <1>1, <1>4

Pick(s) == CHOOSE x \in s : TRUE
SumStep(g, S, F) == [s \in SUBSET S |-> IF s = {} THEN 0 ELSE g[Pick(s)] + F[s \ {Pick(s)}]]
Summing(g, S) == CHOOSE F : F = SumStep(g, S, F)

LEMMA SumUnfolds ==
  ASSUME NEW g, NEW S
  PROVE  SumFunctionOnSet(g, S) = Summing(g, S)[S]
BY DEF SumFunctionOnSet, FoldFunctionOnSet, MapThenFoldSet, Summing, SumStep, Pick

LEMMA SummingExists ==
  ASSUME NEW g, NEW S, IsFiniteSet(S)
  PROVE  Summing(g, S) = SumStep(g, S, Summing(g, S))
<1> DEFINE Upto(n, F) ==
             \A s \in SUBSET S : Cardinality(s) <= n => F[s] = SumStep(g, S, F)[s]
           Done == {n \in Nat : \E F : Upto(n, F)}
<1>1. \A s \in SUBSET S : /\ Cardinality(s) \in Nat
                          /\ s # {} => /\ Pick(s) \in s
                                       /\ Cardinality(s \ {Pick(s)}) = Cardinality(s) - 1
                          /\ Cardinality(s) = 0 => s = {}
  BY FS_Subset, FS_RemoveElement, FS_CardinalityType, FS_EmptySet DEF Pick
<1>2. 0 \in Done
  <2>1. ASSUME NEW s \in SUBSET S, Cardinality(s) <= 0
        PROVE  [x \in SUBSET S |-> 0][s] = SumStep(g, S, [x \in SUBSET S |-> 0])[s]
    <3>1. s = {}
      <4>1. Cardinality(s) \in Nat
        BY <1>1
      <4>2. Cardinality(s) = 0
        BY <2>1, <4>1
      <4> QED BY <1>1, <4>2
    <3> QED BY <3>1 DEF SumStep
  <2> QED BY <2>1
<1>3. ASSUME NEW n \in Nat, n \in Done PROVE n + 1 \in Done
  <2>1. PICK F : Upto(n, F)
    BY <1>3
  <2>2. Upto(n + 1, SumStep(g, S, F))
    <3> DEFINE G == SumStep(g, S, F)
    <3> SUFFICES ASSUME NEW s \in SUBSET S, Cardinality(s) <= n + 1
                 PROVE  G[s] = SumStep(g, S, G)[s]
      OBVIOUS
    <3>1. CASE s = {}
      BY <3>1 DEF SumStep
    <3>2. CASE s # {}
      <4>1. s \ {Pick(s)} \in SUBSET S /\ Cardinality(s \ {Pick(s)}) <= n
        BY <1>1, <3>2
      <4>2. F[s \ {Pick(s)}] = G[s \ {Pick(s)}]
        BY <4>1, <2>1
      <4> HIDE DEF G
      <4>3. SumStep(g, S, G)[s] = g[Pick(s)] + G[s \ {Pick(s)}]
        BY <3>2 DEF SumStep
      <4>4. G[s] = g[Pick(s)] + F[s \ {Pick(s)}]
        BY <3>2 DEF SumStep, G
      <4> QED BY <4>2, <4>3, <4>4
    <3> QED BY <3>1, <3>2
  <2> QED
    BY <2>2
<1>4. Nat \subseteq Done
  <2> HIDE DEF Done
  <2> QED BY <1>2, <1>3, AllNumbers
<1>5. PICK F : Upto(Cardinality(S), F)
  BY <1>1, <1>4
<1>6. \A s \in SUBSET S : F[s] = SumStep(g, S, F)[s]
  <2>1. \A s \in SUBSET S : Cardinality(s) <= Cardinality(S)
    BY FS_Subset
  <2> QED BY <2>1, <1>5
<1> DEFINE G == SumStep(g, S, F)
<1>7. G = SumStep(g, S, G)
  <2>1. \A s \in SUBSET S : s \ {Pick(s)} \in SUBSET S /\ F[s \ {Pick(s)}] = G[s \ {Pick(s)}]
    BY <1>6
  <2> HIDE DEF G
  <2>2. \A s \in SUBSET S : SumStep(g, S, F)[s] = SumStep(g, S, G)[s]
    BY <2>1 DEF SumStep
  <2> QED BY <2>2 DEF G, SumStep
<1> HIDE DEF G
<1> QED
  BY <1>7 DEF Summing

LEMMA SummingIs ==
  ASSUME NEW g, NEW S, IsFiniteSet(S), NEW s \in SUBSET S
  PROVE  Summing(g, S)[s] = IF s = {} THEN 0 ELSE g[Pick(s)] + Summing(g, S)[s \ {Pick(s)}]
<1> DEFINE F == Summing(g, S)
<1>1. F = SumStep(g, S, F)
  BY SummingExists
<1> HIDE DEF F
<1>2. F[s] = SumStep(g, S, F)[s]
  BY <1>1
<1>3. SumStep(g, S, F)[s] = IF s = {} THEN 0 ELSE g[Pick(s)] + F[s \ {Pick(s)}]
  BY DEF SumStep
<1> QED
  BY <1>2, <1>3 DEF F

\* What the sum over a part of the set is does not depend on the rest.
LEMMA SummingParts ==
  ASSUME NEW g, NEW S, IsFiniteSet(S), NEW T \in SUBSET S
  PROVE  Summing(g, S)[T] = Summing(g, T)[T]
<1> DEFINE X == {U \in SUBSET T : Summing(g, S)[U] = Summing(g, T)[U]}
<1>0. IsFiniteSet(T) /\ \A U \in SUBSET T : U \in SUBSET S
  BY FS_Subset
<1>1. ASSUME NEW U \in SUBSET T, \A x \in U : U \ {x} \in X PROVE U \in X
  <2>1. CASE U = {}
    BY <1>0, <2>1, SummingIs
  <2>2. CASE U # {}
    <3>1. Pick(U) \in U
      BY <2>2 DEF Pick
    <3>2. Summing(g, S)[U \ {Pick(U)}] = Summing(g, T)[U \ {Pick(U)}]
      BY <1>1, <3>1
    <3>3. Summing(g, S)[U] = g[Pick(U)] + Summing(g, S)[U \ {Pick(U)}]
      BY <1>0, <2>2, SummingIs
    <3>4. Summing(g, T)[U] = g[Pick(U)] + Summing(g, T)[U \ {Pick(U)}]
      BY <1>0, <2>2, SummingIs
    <3> QED BY <3>2, <3>3, <3>4
  <2> QED BY <2>1, <2>2
<1>2. SUBSET T \subseteq X
  <2> HIDE DEF X
  <2> QED BY <1>0, <1>1, AllSubsets
<1> QED
  BY <1>2

\* The sum is that of one element, the one chosen, and of the others.
LEMMA SumRecursive ==
  ASSUME NEW g, NEW S, IsFiniteSet(S)
  PROVE  /\ SumFunctionOnSet(g, {}) = 0
         /\ S # {} => /\ Pick(S) \in S
                      /\ SumFunctionOnSet(g, S)
                           = g[Pick(S)] + SumFunctionOnSet(g, S \ {Pick(S)})
<1>1. IsFiniteSet({})
  BY FS_EmptySet
<1>2. SumFunctionOnSet(g, {}) = 0
  BY <1>1, SumUnfolds, SummingIs
<1>3. ASSUME S # {}
      PROVE  /\ Pick(S) \in S
             /\ SumFunctionOnSet(g, S) = g[Pick(S)] + SumFunctionOnSet(g, S \ {Pick(S)})
  <2>1. Pick(S) \in S
    BY <1>3 DEF Pick
  <2>2. Summing(g, S)[S] = g[Pick(S)] + Summing(g, S)[S \ {Pick(S)}]
    BY <1>3, SummingIs
  <2>3. S \ {Pick(S)} \in SUBSET S
    OBVIOUS
  <2> QED
    BY <2>1, <2>2, <2>3, SummingParts, SumUnfolds
<1> QED
  BY <1>2, <1>3

\* A sum of natural numbers is one.
LEMMA SumIsNat ==
  ASSUME NEW g, NEW S, IsFiniteSet(S), \A x \in S : g[x] \in Nat
  PROVE  SumFunctionOnSet(g, S) \in Nat
<1> DEFINE X == {T \in SUBSET S : SumFunctionOnSet(g, T) \in Nat}
<1>1. ASSUME NEW T \in SUBSET S, \A x \in T : T \ {x} \in X PROVE T \in X
  <2>1. IsFiniteSet(T)
    BY FS_Subset
  <2>2. CASE T = {}
    <3>1. SumFunctionOnSet(g, T) = 0
      BY <2>1, <2>2, SumRecursive
    <3> QED BY <3>1
  <2>3. CASE T # {}
    <3>1. Pick(T) \in T
             /\ SumFunctionOnSet(g, T) = g[Pick(T)] + SumFunctionOnSet(g, T \ {Pick(T)})
      BY <2>1, <2>3, SumRecursive
    <3>2. SumFunctionOnSet(g, T \ {Pick(T)}) \in Nat /\ g[Pick(T)] \in Nat
      BY <1>1, <3>1
    <3> QED BY <3>1, <3>2
  <2> QED BY <2>2, <2>3
<1>2. SUBSET S \subseteq X
  <2> HIDE DEF X
  <2> QED BY <1>1, AllSubsets
<1> QED
  BY <1>2

\* Any element may be the one that the sum takes first.
LEMMA SumWithout ==
  ASSUME NEW g, NEW S, IsFiniteSet(S), \A x \in S : g[x] \in Nat, NEW a \in S
  PROVE  SumFunctionOnSet(g, S) = g[a] + SumFunctionOnSet(g, S \ {a})
<1> DEFINE Sum(T) == SumFunctionOnSet(g, T)
           X == {T \in SUBSET S : \A x \in T : Sum(T) = g[x] + Sum(T \ {x})}
<1>0. \A T \in SUBSET S : IsFiniteSet(T) /\ Sum(T) \in Nat
  BY FS_Subset, SumIsNat
<1>1. ASSUME NEW T \in SUBSET S, \A x \in T : T \ {x} \in X PROVE T \in X
  <2> SUFFICES ASSUME NEW x \in T PROVE Sum(T) = g[x] + Sum(T \ {x})
    OBVIOUS
  <2> DEFINE c == Pick(T)
  <2>1. c \in T /\ Sum(T) = g[c] + Sum(T \ {c})
    BY <1>0, SumRecursive
  <2>2. CASE c # x
    <3>1. x \in T \ {c} /\ c \in T \ {x} /\ (T \ {c}) \ {x} = (T \ {x}) \ {c}
      BY <2>1, <2>2
    <3>2. Sum(T \ {c}) = g[x] + Sum((T \ {c}) \ {x})
      BY <1>1, <2>1, <3>1
    <3>3. Sum(T \ {x}) = g[c] + Sum((T \ {x}) \ {c})
      BY <1>1, <3>1
    <3>4. g[x] \in Nat /\ g[c] \in Nat /\ Sum((T \ {x}) \ {c}) \in Nat
      BY <1>0, <2>1
    <3> HIDE DEF c, Sum
    <3> QED BY <2>1, <3>1, <3>2, <3>3, <3>4
  <2> QED BY <2>1, <2>2
<1>2. SUBSET S \subseteq X
  <2> HIDE DEF X
  <2> QED BY <1>1, AllSubsets
<1> QED
  BY <1>2

\* Functions that agree on a set have the same sum on it.
LEMMA SumSame ==
  ASSUME NEW g, NEW h, NEW S, IsFiniteSet(S), \A x \in S : g[x] = h[x]
  PROVE  SumFunctionOnSet(g, S) = SumFunctionOnSet(h, S)
<1> DEFINE X == {T \in SUBSET S : SumFunctionOnSet(g, T) = SumFunctionOnSet(h, T)}
<1>1. ASSUME NEW T \in SUBSET S, \A x \in T : T \ {x} \in X PROVE T \in X
  <2>1. IsFiniteSet(T)
    BY FS_Subset
  <2>2. CASE T = {}
    BY <2>1, <2>2, SumRecursive
  <2>3. CASE T # {}
    <3>1. /\ Pick(T) \in T
          /\ SumFunctionOnSet(g, T) = g[Pick(T)] + SumFunctionOnSet(g, T \ {Pick(T)})
          /\ SumFunctionOnSet(h, T) = h[Pick(T)] + SumFunctionOnSet(h, T \ {Pick(T)})
      BY <2>1, <2>3, SumRecursive
    <3>2. /\ SumFunctionOnSet(g, T \ {Pick(T)}) = SumFunctionOnSet(h, T \ {Pick(T)})
          /\ g[Pick(T)] = h[Pick(T)]
      BY <1>1, <3>1
    <3> QED BY <3>1, <3>2
  <2> QED BY <2>2, <2>3
<1>2. SUBSET S \subseteq X
  <2> HIDE DEF X
  <2> QED BY <1>1, AllSubsets
<1> QED
  BY <1>2

\* The sum over two sets that share nothing is the sum of their sums.
LEMMA SumOfBoth ==
  ASSUME NEW g, NEW A, NEW S, IsFiniteSet(A), IsFiniteSet(S), A \cap S = {},
         \A x \in A \cup S : g[x] \in Nat
  PROVE  SumFunctionOnSet(g, A \cup S) = SumFunctionOnSet(g, A) + SumFunctionOnSet(g, S)
<1> DEFINE Sum(T) == SumFunctionOnSet(g, T)
           X == {T \in SUBSET S : Sum(A \cup T) = Sum(A) + Sum(T)}
<1>0. Sum(A) \in Nat /\ \A T \in SUBSET S :
                           IsFiniteSet(T) /\ IsFiniteSet(A \cup T) /\ Sum(T) \in Nat
  BY FS_Subset, FS_Union, SumIsNat
<1>1. ASSUME NEW T \in SUBSET S, \A x \in T : T \ {x} \in X PROVE T \in X
  <2>2. CASE T = {}
    <3>1. Sum(T) = 0 /\ Sum(A \cup T) = Sum(A) /\ Sum(A) \in Nat
      <4>1. A \cup T = A
        BY <2>2
      <4> QED BY <1>0, <2>2, <4>1, SumRecursive
    <3>2. Sum(A \cup T) = Sum(A) + Sum(T)
      <4> HIDE DEF Sum
      <4> QED BY <3>1
    <3> QED BY <3>2
  <2>3. CASE T # {}
    <3>1. PICK c \in T : TRUE
      BY <2>3
    <3>2. Sum(T) = g[c] + Sum(T \ {c})
      <4>1. IsFiniteSet(T) /\ \A x \in T : g[x] \in Nat
        BY <1>0
      <4> QED BY <4>1, SumWithout
    <3>3. c \in A \cup T /\ (A \cup T) \ {c} = A \cup (T \ {c})
      OBVIOUS
    <3>4. Sum(A \cup T) = g[c] + Sum((A \cup T) \ {c})
      <4>1. IsFiniteSet(A \cup T) /\ \A x \in A \cup T : g[x] \in Nat
        BY <1>0
      <4> QED BY <3>3, <4>1, SumWithout
    <3>5. Sum(A \cup (T \ {c})) = Sum(A) + Sum(T \ {c})
      BY <1>1
    <3>6. g[c] \in Nat /\ Sum(T \ {c}) \in Nat /\ Sum(A) \in Nat
      BY <1>0
    <3>7. Sum(A \cup T) = Sum(A) + Sum(T)
      <4>1. Sum(A \cup T) = g[c] + Sum(A \cup (T \ {c}))
        BY <3>3, <3>4
      <4> HIDE DEF Sum
      <4> QED BY <3>2, <3>5, <3>6, <4>1
    <3> QED BY <3>7
  <2> QED BY <2>2, <2>3
<1>2. SUBSET S \subseteq X
  <2> HIDE DEF X
  <2> QED BY <1>1, AllSubsets
<1> QED
  BY <1>2

\* A sum may be taken group by group.
LEMMA SumByGroup ==
  ASSUME NEW g, NEW T, IsFiniteSet(T), \A t \in T : g[t] \in Nat,
         NEW groupOf, NEW h, NEW R, IsFiniteSet(R),
         \A r \in R : h[r] = SumFunctionOnSet(g, {t \in T : groupOf[t] = r})
  PROVE  SumFunctionOnSet(h, R) = SumFunctionOnSet(g, {t \in T : groupOf[t] \in R})
<1> DEFINE Part(Q) == {t \in T : groupOf[t] \in Q}
           X == {Q \in SUBSET R : SumFunctionOnSet(h, Q) = SumFunctionOnSet(g, Part(Q))}
<1>0. \A Q \in SUBSET R : IsFiniteSet(Q) /\ IsFiniteSet(Part(Q))
  BY FS_Subset
<1>1. ASSUME NEW Q \in SUBSET R, \A x \in Q : Q \ {x} \in X PROVE Q \in X
  <2>1. CASE Q = {}
    <3>1. Part(Q) = {}
      BY <2>1
    <3> HIDE DEF Part
    <3> QED BY <2>1, <1>0, <3>1, SumRecursive
  <2>2. CASE Q # {}
    <3>1. /\ Pick(Q) \in Q
          /\ SumFunctionOnSet(h, Q) = h[Pick(Q)] + SumFunctionOnSet(h, Q \ {Pick(Q)})
      BY <1>0, <2>2, SumRecursive
    <3> DEFINE c == Pick(Q)  One == {t \in T : groupOf[t] = c}
    <3>2. h[c] = SumFunctionOnSet(g, One) /\ Part(Q) = One \cup Part(Q \ {c})
          /\ One \cap Part(Q \ {c}) = {}
      BY <3>1
    <3>3. SumFunctionOnSet(h, Q \ {c}) = SumFunctionOnSet(g, Part(Q \ {c}))
      BY <1>1, <3>1
    <3>4. IsFiniteSet(One) /\ IsFiniteSet(Part(Q \ {c}))
          /\ \A x \in One \cup Part(Q \ {c}) : g[x] \in Nat
      BY <1>0, FS_Subset
    <3>5. SumFunctionOnSet(g, One) \in Nat /\ SumFunctionOnSet(g, Part(Q \ {c})) \in Nat
      BY <3>4, SumIsNat
    <3> HIDE DEF c, One, Part
    <3>6. SumFunctionOnSet(g, Part(Q))
            = SumFunctionOnSet(g, One) + SumFunctionOnSet(g, Part(Q \ {c}))
      <4>1. One \cap Part(Q \ {c}) = {}
        BY <3>2
      <4>2. SumFunctionOnSet(g, One \cup Part(Q \ {c}))
              = SumFunctionOnSet(g, One) + SumFunctionOnSet(g, Part(Q \ {c}))
        BY <3>4, <4>1, SumOfBoth, ZenonT(30)
      <4> QED BY <3>2, <4>2
    <3>7. SumFunctionOnSet(h, Q) = h[c] + SumFunctionOnSet(h, Q \ {c})
      BY <3>1 DEF c
    <3>8. SumFunctionOnSet(h, Q) = SumFunctionOnSet(g, Part(Q))
      BY <3>2, <3>3, <3>6, <3>7
    <3> QED BY <3>8
  <2> QED BY <2>1, <2>2
<1>2. SUBSET R \subseteq X
  <2> HIDE DEF X
  <2> QED BY <1>1, AllSubsets
<1> QED
  BY <1>2

-----------------------------------------------------------------------------
(* Weeks and their Mondays.                                                  *)

Mondays == {d \in Int : Weekday(d) = 0}

\* A day is in the week of its Monday.
LEMMA WeekOfDay ==
  ASSUME CalendarAssumption, NEW d \in Int
  PROVE  /\ Weekday(d) \in Weekdays /\ Monday(d) \in Mondays
         /\ d = Monday(d) + Weekday(d)
         /\ d \in Day => Monday(d) \in Day
<1> DEFINE r == d % WeekLength
           q == d \div WeekLength
<1>1. /\ WeekLength \in Nat /\ WeekLength > 0
      /\ r \in Nat /\ r < WeekLength /\ q \in Int /\ d = WeekLength * q + r
  BY DEF CalendarAssumption
<1>2. Weekday(d) = r /\ Weekday(d) \in Weekdays
  BY <1>1 DEF Weekday, Weekdays
<1>3. Monday(d) = d - r
  BY DEF Monday, Weekday
<1> HIDE DEF r, q
<1>4. d - r = WeekLength * q /\ (WeekLength * q) % WeekLength = 0
  BY <1>1
<1>5. Monday(d) \in Mondays
  BY <1>1, <1>3, <1>4 DEF Mondays, Weekday
<1>6. d \in Day => Monday(d) \in Day
  <2> SUFFICES ASSUME d \in Day PROVE Monday(d) \in Day
    OBVIOUS
  <2>1. d >= 0 /\ d <= LastDay
    BY DEF Day, CalendarAssumption
  <2>2. q >= 0
    <3> SUFFICES ASSUME q <= -1 PROVE FALSE
      BY <1>1
    <3>1. WeekLength * q <= WeekLength * (-1)
      BY <1>1
    <3> QED BY <1>1, <2>1, <3>1
  <2>3. WeekLength * q >= 0
    BY <1>1, <2>2
  <2> QED BY <1>1, <1>3, <1>4, <2>1, <2>3 DEF Day, CalendarAssumption
<1> QED
  BY <1>1, <1>2, <1>3, <1>5, <1>6

\* The days of a week, from its Monday.
LEMMA DayOfWeek ==
  ASSUME CalendarAssumption, NEW w \in Mondays, NEW k \in Weekdays
  PROVE  Weekday(w + k) = k /\ Monday(w + k) = w
<1> DEFINE q == w \div WeekLength
<1>1. /\ WeekLength \in Nat /\ WeekLength > 0 /\ k \in Nat /\ k < WeekLength
      /\ w \in Int /\ q \in Int /\ w = WeekLength * q + (w % WeekLength)
  BY DEF CalendarAssumption, Weekdays, Mondays
<1>2. w % WeekLength = 0
  BY DEF Mondays, Weekday
<1> HIDE DEF q
<1>3. w + k = WeekLength * q + k
  BY <1>1, <1>2
<1>4. (WeekLength * q + k) % WeekLength = k
  BY <1>1
<1> QED
  BY <1>1, <1>3, <1>4 DEF Weekday, Monday

\* A week from a Monday there is another, and no two are closer.
LEMMA WeeksApart ==
  ASSUME CalendarAssumption, NEW v \in Mondays
  PROVE  /\ v - WeekLength \in Mondays
         /\ \A w \in Mondays : v < w => v + WeekLength <= w
<1> DEFINE q == v \div WeekLength
<1>1. /\ WeekLength \in Nat /\ WeekLength > 0
      /\ v \in Int /\ q \in Int /\ v = WeekLength * q + (v % WeekLength)
  BY DEF CalendarAssumption, Mondays
<1>2. v = WeekLength * q
  BY <1>1 DEF Mondays, Weekday
<1> HIDE DEF q
<1>3. v - WeekLength \in Mondays
  <2>1. v - WeekLength = WeekLength * (q - 1)
    BY <1>1, <1>2
  <2>2. q - 1 \in Int /\ v - WeekLength \in Int
    BY <1>1
  <2>3. (WeekLength * (q - 1)) % WeekLength = 0
    <3>1. \A p \in Int : (WeekLength * p) % WeekLength = 0
      BY <1>1
    <3> QED BY <2>2, <3>1
  <2> QED BY <2>1, <2>2, <2>3 DEF Mondays, Weekday
<1>4. ASSUME NEW w \in Mondays, v < w PROVE v + WeekLength <= w
  <2> DEFINE p == w \div WeekLength
  <2>1. w \in Int /\ p \in Int /\ w = WeekLength * p + (w % WeekLength)
    BY <1>1 DEF Mondays
  <2>2. w = WeekLength * p
    BY <2>1 DEF Mondays, Weekday
  <2> HIDE DEF p
  <2>3. p >= q + 1
    <3> SUFFICES ASSUME p <= q PROVE FALSE
      BY <1>1, <2>1
    <3>1. WeekLength * p <= WeekLength * q
      BY <1>1, <2>1
    <3> QED BY <1>2, <1>4, <2>1, <2>2, <3>1, <1>1
  <2>4. WeekLength * p >= WeekLength * (q + 1)
    BY <1>1, <2>1, <2>3
  <2>5. WeekLength * (q + 1) = WeekLength * q + WeekLength
    BY <1>1
  <2> QED BY <1>1, <1>2, <2>1, <2>2, <2>4, <2>5
<1> QED
  BY <1>3, <1>4

\* Weeks are whole: a week that begins in the calendar ends in it.
LEMMA WholeWeeks ==
  ASSUME CalendarAssumption, NEW w \in Mondays \cap Day, NEW k \in Weekdays
  PROVE  w + k \in Day
<1>1. /\ WeekLength \in Nat /\ WeekLength > 0 /\ LastDay \in Nat /\ k \in Nat /\ k < WeekLength
      /\ w \in Nat /\ w <= LastDay
  BY DEF CalendarAssumption, Weekdays, Day
<1>2. LastDay + 1 \in Mondays
  BY <1>1 DEF CalendarAssumption, Mondays, Weekday
<1>3. w + WeekLength <= LastDay + 1
  BY <1>1, <1>2, WeeksApart
<1> QED
  BY <1>1, <1>3 DEF Day

-----------------------------------------------------------------------------
(* Rows of service levels.                                                    *)

\* Nth counts the days of a set in their order.
LEMMA NthInOrder ==
  ASSUME CalendarAssumption, NEW S \in SUBSET Day
  PROVE  /\ Cardinality(S) \in Nat
         /\ \A i \in 1..Cardinality(S) : Nth(S, i) \in S
         /\ \A i, j \in 1..Cardinality(S) : i < j => Nth(S, i) < Nth(S, j)
         /\ \A w \in S : \E i \in 1..Cardinality(S) : Nth(S, i) = w
<1> DEFINE Upto(w) == {v \in S : v <= w}
           n == Cardinality(S)
           pos == [w \in S |-> Cardinality(Upto(w))]
<1>1. IsFiniteSet(S) /\ n \in Nat /\ S \subseteq Int
  <2>1. IsFiniteSet(Day)
    BY FS_Interval DEF Day, CalendarAssumption
  <2>2. IsFiniteSet(S)
    BY <2>1, FS_Subset
  <2>3. S \subseteq Int
    BY DEF Day, CalendarAssumption
  <2> QED BY <2>2, <2>3, FS_CardinalityType
<1>2. ASSUME NEW w \in S PROVE pos[w] \in 1..n
  <2>1. IsFiniteSet(Upto(w)) /\ Cardinality(Upto(w)) <= n /\ Cardinality(Upto(w)) \in Nat
    BY <1>1, FS_Subset, FS_CardinalityType
  <2>2. w \in Upto(w)
    BY <1>1
  <2>3. Cardinality(Upto(w)) # 0
    BY <2>1, <2>2, FS_EmptySet
  <2> HIDE DEF Upto, n
  <2> QED BY <1>1, <2>1, <2>3
<1>3. ASSUME NEW a \in S, NEW b \in S, a < b PROVE pos[a] < pos[b]
  <2>1. Upto(a) \subseteq Upto(b) /\ b \in Upto(b) /\ b \notin Upto(a)
    <3>1. a \in Int /\ b \in Int
      BY <1>1
    <3>2. ASSUME NEW v \in S, v <= a PROVE v <= b
      <4>1. v \in Int
        BY <1>1
      <4> QED BY <1>3, <3>1, <3>2, <4>1
    <3>3. b <= b /\ ~(b <= a)
      BY <1>3, <3>1
    <3> QED BY <3>2, <3>3
  <2>2. IsFiniteSet(Upto(b)) /\ Upto(a) \in SUBSET Upto(b)
    BY <1>1, <2>1, FS_Subset
  <2>3. Cardinality(Upto(a)) <= Cardinality(Upto(b))
        /\ (Cardinality(Upto(b)) = Cardinality(Upto(a)) => Upto(a) = Upto(b))
    BY <2>2, FS_Subset
  <2>4. pos[a] \in Nat /\ pos[b] \in Nat
    BY <1>1, <1>2
  <2>5. pos[a] = Cardinality(Upto(a)) /\ pos[b] = Cardinality(Upto(b)) /\ Upto(a) # Upto(b)
    BY <2>1
  <2> HIDE DEF Upto, pos
  <2> QED BY <2>3, <2>4, <2>5
<1>4. \A a, b \in S : a # b => pos[a] # pos[b]
  <2> SUFFICES ASSUME NEW a \in S, NEW b \in S, a # b PROVE pos[a] # pos[b]
    OBVIOUS
  <2>1. pos[a] \in Nat /\ pos[b] \in Nat
    BY <1>1, <1>2
  <2>2. a < b \/ b < a
    BY <1>1
  <2> HIDE DEF pos
  <2> QED BY <1>3, <2>1, <2>2
<1>5. \A i \in 1..n : \E w \in S : pos[w] = i
  <2>1. pos \in Injection(S, 1..n)
    BY <1>2, <1>4 DEF Injection, IsInjective
  <2>2. IsFiniteSet(1..n) /\ Cardinality(1..n) = n
    BY <1>1, FS_Interval
  <2>3. pos \in Surjection(S, 1..n)
    <3> HIDE DEF pos
    <3> QED BY <2>1, <2>2, FS_Injection
  <2> QED BY <2>3 DEF Surjection
<1>6. ASSUME NEW i \in 1..n PROVE Nth(S, i) \in S /\ pos[Nth(S, i)] = i
  <2>1. \E w \in S : Cardinality({v \in S : v <= w}) = i
    BY <1>5
  <2> QED BY <2>1 DEF Nth
<1>7. ASSUME NEW i \in 1..n, NEW j \in 1..n, i < j PROVE Nth(S, i) < Nth(S, j)
  <2> DEFINE a == Nth(S, i)  b == Nth(S, j)
  <2>1. a \in S /\ b \in S /\ pos[a] = i /\ pos[b] = j /\ a \in Int /\ b \in Int
    BY <1>1, <1>6
  <2>2. i \in Int /\ j \in Int
    BY <1>1
  <2> HIDE DEF a, b, pos
  <2>3. ~(b < a) /\ a # b
    BY <1>3, <1>7, <2>1, <2>2
  <2> QED BY <2>1, <2>3 DEF a, b
<1>8. ASSUME NEW w \in S PROVE Nth(S, pos[w]) = w
  BY <1>2, <1>4, <1>6
<1> QED
  BY <1>1, <1>2, <1>6, <1>7, <1>8

\* The service of some weeks, by their Mondays.
IsPattern(pattern) ==
  /\ pattern = [w \in DOMAIN pattern |-> pattern[w]]
  /\ DOMAIN pattern \subseteq Mondays \cap Day

\* The last week of a row.
LEMMA LastOfRow ==
  ASSUME CalendarAssumption, NEW pattern, IsPattern(pattern), NEW w \in Firsts(pattern)
  PROVE  LET last == LastWeek(pattern, w) IN
         /\ last \in DOMAIN pattern /\ w <= last /\ pattern[last] = pattern[w]
         /\ \A u \in Firsts(pattern) : ~(w < u /\ u <= last)
         /\ \A v \in DOMAIN pattern :
              v >= w /\ pattern[v] = pattern[w]
              /\ (\A u \in Firsts(pattern) : ~(w < u /\ u <= v)) => v <= last
<1> DEFINE alike == {v \in DOMAIN pattern : v >= w /\ pattern[v] = pattern[w]
                               /\ \A u \in Firsts(pattern) : ~(w < u /\ u <= v)}
<1>1. DOMAIN pattern \subseteq Day /\ Firsts(pattern) \subseteq Day /\ Day \subseteq Int
      /\ w \in DOMAIN pattern
  BY DEF IsPattern, Firsts, Day, CalendarAssumption
<1>2. w \in alike /\ alike \subseteq Day
  <2>0. w \in Int
    BY <1>1
  <2>1. w >= w
    BY <2>0
  <2>2. \A u \in Firsts(pattern) : ~(w < u /\ u <= w)
    <3> SUFFICES ASSUME NEW u \in Firsts(pattern), w < u, u <= w PROVE FALSE
      OBVIOUS
    <3>1. u \in Int
      BY <1>1
    <3> QED BY <2>0, <3>1
  <2> QED BY <1>1, <2>1, <2>2
<1>3. Max(alike) \in alike /\ \A x \in alike : Max(alike) >= x
  BY <1>2, MaxOfDays, Zenon
<1>4. LastWeek(pattern, w) = Max(alike)
  BY DEF LastWeek
<1>5. ASSUME NEW v \in DOMAIN pattern, v >= w, pattern[v] = pattern[w],
             \A u \in Firsts(pattern) : ~(w < u /\ u <= v)
      PROVE  v <= Max(alike)
  <2>1. v \in alike
    BY <1>5
  <2>2. Max(alike) >= v /\ v \in Int /\ Max(alike) \in Int
    BY <1>1, <1>2, <1>3, <2>1
  <2> HIDE DEF alike
  <2> QED BY <2>2
<1>6. Max(alike) \in DOMAIN pattern /\ w <= Max(alike) /\ pattern[Max(alike)] = pattern[w]
      /\ \A u \in Firsts(pattern) : ~(w < u /\ u <= Max(alike))
  <2>1. Max(alike) \in DOMAIN pattern /\ Max(alike) >= w /\ pattern[Max(alike)] = pattern[w]
        /\ \A u \in Firsts(pattern) : ~(w < u /\ u <= Max(alike))
    BY <1>3
  <2>2. Max(alike) \in Int /\ w \in Int
    BY <1>1, <2>1
  <2> HIDE DEF alike
  <2> QED BY <2>1, <2>2
<1> HIDE DEF alike
<1> QED
  BY <1>4, <1>5, <1>6

\* A week that is not the first of a row repeats the one before.
LEMMA NotFirst ==
  ASSUME CalendarAssumption, NEW pattern, NEW w \in DOMAIN pattern, w \notin Firsts(pattern)
  PROVE  w - WeekLength \in DOMAIN pattern /\ pattern[w - WeekLength] = pattern[w]
BY DEF Firsts, Repeats

\* Every week from the first to the last of a row is there, with the same service.
LEMMA RowIsWhole ==
  ASSUME CalendarAssumption, NEW pattern, IsPattern(pattern), NEW w \in Firsts(pattern),
         NEW v \in Mondays, w <= v, v <= LastWeek(pattern, w)
  PROVE  v \in DOMAIN pattern /\ pattern[v] = pattern[w]
<1> DEFINE last == LastWeek(pattern, w)
           after == {x \in DOMAIN pattern : v <= x /\ x <= last /\ pattern[x] = pattern[w]}
<1>0. DOMAIN pattern \subseteq Mondays /\ DOMAIN pattern \subseteq Nat /\ v \in Int /\ w \in Nat
      /\ WeekLength \in Nat /\ WeekLength > 0
  BY DEF IsPattern, Day, CalendarAssumption, Mondays, Firsts
<1>1. last \in after /\ after \subseteq Nat
  <2>1. last \in DOMAIN pattern /\ pattern[last] = pattern[w]
    BY LastOfRow
  <2>2. v <= last /\ last <= last
    BY <1>0, <2>1
  <2> HIDE DEF last
  <2> QED BY <1>0, <2>1, <2>2
<1>2. PICK x \in after : \A y \in after : x <= y
  BY <1>1, MinOfDays, Zenon
<1>3. CASE x = v
  BY <1>2, <1>3
<1>4. CASE x # v
  <2>1. x \in DOMAIN pattern /\ v <= x /\ x <= last /\ pattern[x] = pattern[w]
        /\ x \in Mondays /\ x \in Nat
    BY <1>0, <1>2
  <2>2. v < x
    BY <1>0, <1>4, <2>1
  <2>3. v <= x - WeekLength
    <3>1. v + WeekLength <= x
      BY <2>1, <2>2, WeeksApart
    <3> QED BY <1>0, <2>1, <3>1
  <2>4. x \notin Firsts(pattern)
    <3>1. w < x
      BY <1>0, <2>1, <2>2
    <3> QED BY <2>1, <3>1, LastOfRow
  <2>5. x - WeekLength \in DOMAIN pattern /\ pattern[x - WeekLength] = pattern[w]
    BY <2>1, <2>4, NotFirst
  <2>6. x - WeekLength <= last
    <3>1. last \in Nat
      BY <1>1
    <3> HIDE DEF last
    <3> QED BY <1>0, <2>1, <3>1
  <2>7. x - WeekLength \in after
    BY <2>3, <2>5, <2>6
  <2>8. x <= x - WeekLength
    BY <1>2, <2>7
  <2> QED BY <1>0, <2>1, <2>8
<1> QED
  BY <1>3, <1>4

\* Every week is in a row that has its service.
LEMMA WeekHasRow ==
  ASSUME CalendarAssumption, NEW pattern, IsPattern(pattern), NEW v \in DOMAIN pattern
  PROVE  \E w \in Firsts(pattern) : w <= v /\ v <= LastWeek(pattern, w) /\ pattern[w] = pattern[v]
<1> DEFINE same == {x \in DOMAIN pattern : x <= v /\ pattern[x] = pattern[v]
                      /\ \A u \in Firsts(pattern) : ~(x < u /\ u <= v)}
<1>0. DOMAIN pattern \subseteq Mondays /\ DOMAIN pattern \subseteq Nat /\ v \in Nat
      /\ WeekLength \in Nat /\ WeekLength > 0 /\ Firsts(pattern) \subseteq DOMAIN pattern
  BY DEF IsPattern, Day, CalendarAssumption, Firsts
<1>1. v \in same /\ same \subseteq Nat
  BY <1>0
<1>2. PICK x \in same : \A y \in same : x <= y
  BY <1>1, MinOfDays, Zenon
<1>3. x \in DOMAIN pattern /\ x <= v /\ pattern[x] = pattern[v] /\ x \in Nat /\ x \in Mondays
      /\ \A u \in Firsts(pattern) : ~(x < u /\ u <= v)
  BY <1>0, <1>2
<1>4. x \in Firsts(pattern)
  <2> SUFFICES ASSUME x \notin Firsts(pattern) PROVE FALSE
    OBVIOUS
  <2> DEFINE y == x - WeekLength
  <2>1. y \in DOMAIN pattern /\ pattern[y] = pattern[v]
    BY <1>3, NotFirst
  <2>2. y < x /\ y <= v
    BY <1>0, <1>3
  <2>3. ASSUME NEW u \in Firsts(pattern), y < u, u <= v PROVE FALSE
    <3>1. u \in Nat /\ u \in Mondays /\ y \in Mondays
      BY <1>0, <2>1
    <3>2. y + WeekLength <= u
      BY <2>3, <3>1, WeeksApart
    <3>3. x <= u
      BY <1>0, <1>3, <3>1, <3>2
    <3>4. x < u
      BY <1>3, <3>1, <3>3, <2>3
    <3> QED BY <1>3, <2>3, <3>4
  <2>4. y \in same
    <3> HIDE DEF y
    <3> QED BY <2>1, <2>2, <2>3
  <2>5. x <= y
    BY <1>2, <2>4
  <2> QED BY <1>0, <1>3, <2>2, <2>5
<1>5. v <= LastWeek(pattern, x)
  <2>1. v >= x /\ pattern[v] = pattern[x]
    BY <1>0, <1>3
  <2> QED BY <1>3, <1>4, <2>1, LastOfRow
<1> QED
  BY <1>3, <1>4, <1>5

\* A row ends before the next one starts.
LEMMA RowsApart ==
  ASSUME CalendarAssumption, NEW pattern, IsPattern(pattern),
         NEW u \in Firsts(pattern), NEW w \in Firsts(pattern), u < w
  PROVE  LastWeek(pattern, u) + WeekLength <= w
<1> DEFINE last == LastWeek(pattern, u)
<1>1. last \in DOMAIN pattern /\ ~(w <= last)
  BY LastOfRow
<1>2. last \in Mondays /\ w \in Mondays /\ last \in Int /\ w \in Int
  BY <1>1 DEF IsPattern, Firsts, Mondays
<1>3. last < w
  <2> HIDE DEF last
  <2> QED BY <1>1, <1>2
<1> QED
  BY <1>2, <1>3, WeeksApart

-----------------------------------------------------------------------------
(* What the levels of a feed say.                                             *)

\* A whole number of seconds for every trip that counts, and so for every service.
LEMMA TotalsAreNat ==
  ASSUME NEW f, Trips(f)
  PROVE  /\ IsFiniteSet(Counted(f)) /\ IsFiniteSet(Scheduled(f))
         /\ \A t \in Counted(f) : Durations(f)[t] \in Nat
         /\ \A id \in Scheduled(f) : ServiceTotals(f)[id] \in Nat
<1>1. IsFiniteSet(Counted(f))
  <2>1. Counted(f) \in SUBSET DOMAIN f.trips /\ IsFiniteSet(DOMAIN f.trips)
    BY DEF Counted, Trips
  <2> QED BY <2>1, FS_Subset
<1>2. ASSUME NEW t \in Counted(f) PROVE Durations(f)[t] \in Nat
  <2>1. f.trips[t].seconds \in Nat /\ (f.trips[t].runs # Once => f.trips[t].runs \in Nat)
    BY DEF Counted, Trips
  <2>2. \A m, n \in Nat : m * n \in Nat
    OBVIOUS
  <2> QED BY <2>1, <2>2 DEF Durations, Duration
<1>3. IsFiniteSet(Scheduled(f))
  <2> DEFINE ids == {f.trips[t].service : t \in Counted(f)}
             serviceOf == [t \in Counted(f) |-> f.trips[t].service]
  <2>1. serviceOf \in Surjection(Counted(f), ids)
    BY DEF Surjection
  <2>2. IsFiniteSet(ids)
    <3> HIDE DEF ids, serviceOf
    <3> QED BY <1>1, <2>1, FS_Surjection
  <2>3. Scheduled(f) \in SUBSET ids
    BY DEF Scheduled
  <2> HIDE DEF ids
  <2> QED BY <2>2, <2>3, FS_Subset
<1>4. ASSUME NEW id \in Scheduled(f) PROVE ServiceTotals(f)[id] \in Nat
  <2> DEFINE ts == {t \in Counted(f) : f.trips[t].service = id}
  <2>1. IsFiniteSet(ts) /\ \A t \in ts : Durations(f)[t] \in Nat
    BY <1>1, <1>2, FS_Subset
  <2>2. SumFunctionOnSet(Durations(f), ts) \in Nat
    <3> HIDE DEF ts
    <3> QED BY <2>1, SumIsNat
  <2> QED BY <2>2 DEF ServiceTotals, ServiceTotal
<1> QED
  BY <1>1, <1>2, <1>3, <1>4

LEMMA RunningIs ==
  ASSUME NEW f, Trips(f), NEW d
  PROVE  Running(f, d) \subseteq Scheduled(f) /\ IsFiniteSet(Running(f, d))
BY TotalsAreNat, FS_Subset DEF Running

\* The service of the weeks of a feed.
LEMMA PatternsOfFeed ==
  ASSUME CalendarAssumption, NEW f, Trips(f)
  PROVE  /\ IsPattern(Patterns(f)) /\ DOMAIN Patterns(f) = Weeks(f)
         /\ \A w \in Weeks(f) : Patterns(f)[w] \in [Weekdays -> Nat]
<1>1. Weeks(f) \subseteq Mondays \cap Day
  <2> SUFFICES ASSUME NEW d \in Day PROVE Monday(d) \in Mondays \cap Day
    BY DEF Weeks
  <2>1. d \in Int
    BY DEF Day, CalendarAssumption
  <2> QED BY <2>1, WeekOfDay
<1>2. ASSUME NEW w PROVE Pattern(f, w) \in [Weekdays -> Nat]
  <2> SUFFICES ASSUME NEW k \in Weekdays
               PROVE  SumFunctionOnSet(ServiceTotals(f),
                                       IF w + k \in Day THEN Running(f, w + k) ELSE {}) \in Nat
    BY DEF Pattern
  <2> DEFINE ids == IF w + k \in Day THEN Running(f, w + k) ELSE {}
  <2>1. IsFiniteSet(ids) /\ ids \subseteq Scheduled(f)
    BY RunningIs, FS_EmptySet
  <2>2. \A id \in ids : ServiceTotals(f)[id] \in Nat
    BY <2>1, TotalsAreNat
  <2> HIDE DEF ids
  <2>3. SumFunctionOnSet(ServiceTotals(f), ids) \in Nat
    BY <2>1, <2>2, SumIsNat
  <2> QED BY <2>3 DEF ids
<1> QED
  BY <1>1, <1>2 DEF Patterns, IsPattern

\* Rows as they are stored: whole weeks, one after the other.
LevelRow == [start : Mondays \cap Day, end : Int, seconds : [Weekdays -> Nat]]
InOrder(rows) ==
  /\ rows \in Seq(LevelRow)
  /\ \A i \in DOMAIN rows : rows[i].start <= rows[i].end
  /\ \A i, j \in DOMAIN rows : i < j => rows[i].end < rows[j].start

\* The rows of a feed are in order; each begins where a pattern does, and each such
\* week begins a row.
LEMMA LevelsInOrder ==
  ASSUME CalendarAssumption, NEW f, Trips(f)
  PROVE  /\ InOrder(Levels(f))
         /\ \A i \in DOMAIN Levels(f) :
              /\ Levels(f)[i].start \in Firsts(Patterns(f))
              /\ Levels(f)[i] = Row(Patterns(f), Levels(f)[i].start)
         /\ \A w \in Firsts(Patterns(f)) : \E i \in DOMAIN Levels(f) : Levels(f)[i].start = w
<1> DEFINE pattern == Patterns(f)
           firsts == Firsts(pattern)
           n == Cardinality(firsts)
           rows == Levels(f)
<1>1. IsPattern(pattern) /\ firsts \in SUBSET Day /\ firsts \subseteq Mondays \cap Day
      /\ firsts \subseteq DOMAIN pattern
      /\ \A w \in DOMAIN pattern : pattern[w] \in [Weekdays -> Nat]
  BY PatternsOfFeed DEF IsPattern, Firsts
<1>2. rows = [i \in 1..n |-> Row(pattern, Nth(firsts, i))]
  BY DEF Levels
<1>3. /\ n \in Nat
      /\ \A i \in 1..n : Nth(firsts, i) \in firsts
      /\ \A i, j \in 1..n : i < j => Nth(firsts, i) < Nth(firsts, j)
      /\ \A w \in firsts : \E i \in 1..n : Nth(firsts, i) = w
  <2> HIDE DEF firsts
  <2> QED BY <1>1, NthInOrder
<1>4. ASSUME NEW w \in firsts
      PROVE  /\ Row(pattern, w) \in LevelRow /\ Row(pattern, w).start = w
             /\ Row(pattern, w).end = LastWeek(pattern, w) + WeekLength - 1
             /\ LastWeek(pattern, w) \in Int /\ w <= LastWeek(pattern, w) /\ w \in Int
             /\ Row(pattern, w).start <= Row(pattern, w).end
  <2> HIDE DEF pattern
  <2>1. LastWeek(pattern, w) \in DOMAIN pattern /\ w <= LastWeek(pattern, w)
    BY <1>1, LastOfRow
  <2>2. /\ LastWeek(pattern, w) \in Int /\ WeekLength \in Int /\ WeekLength > 0 /\ w \in Int
        /\ pattern[w] \in [Weekdays -> Nat] /\ w \in Mondays \cap Day
    BY <1>1, <2>1 DEF IsPattern, Day, CalendarAssumption
  <2> QED BY <2>1, <2>2 DEF Row, LevelRow
<1> HIDE DEF firsts, n, pattern, rows
<1>5. DOMAIN rows = 1..n
  BY <1>2
<1>6. \A i \in 1..n : rows[i] = Row(pattern, Nth(firsts, i)) /\ rows[i].start = Nth(firsts, i)
  BY <1>2, <1>3, <1>4
<1>7. rows \in Seq(LevelRow)
  BY <1>2, <1>3, <1>4
<1>8. ASSUME NEW i \in 1..n, NEW j \in 1..n, i < j PROVE rows[i].end < rows[j].start
  <2> DEFINE u == Nth(firsts, i)  w == Nth(firsts, j)
  <2>1. u \in firsts /\ w \in firsts /\ u < w
    BY <1>3, <1>8
  <2>2. LastWeek(pattern, u) + WeekLength <= w
    BY <1>1, <2>1, RowsApart DEF firsts
  <2>3. rows[i].end = LastWeek(pattern, u) + WeekLength - 1 /\ rows[j].start = w
        /\ LastWeek(pattern, u) \in Int /\ w \in Int /\ WeekLength \in Int
    BY <1>4, <1>6, <2>1 DEF CalendarAssumption
  <2> HIDE DEF u, w
  <2> QED BY <2>2, <2>3
<1>9. InOrder(rows)
  BY <1>3, <1>4, <1>5, <1>6, <1>7, <1>8 DEF InOrder
<1> QED
  BY <1>3, <1>5, <1>6, <1>9 DEF rows, pattern, firsts

\* A row holds a day if and only if its week is in the row, with its service.
LEMMA DayInRow ==
  ASSUME CalendarAssumption, NEW pattern, IsPattern(pattern), NEW w \in Firsts(pattern), NEW d \in Day
  PROVE  /\ w <= d /\ d <= LastWeek(pattern, w) + WeekLength - 1 =>
              Monday(d) \in DOMAIN pattern /\ pattern[Monday(d)] = pattern[w]
         /\ w <= Monday(d) /\ Monday(d) <= LastWeek(pattern, w) =>
              w <= d /\ d <= LastWeek(pattern, w) + WeekLength - 1
<1> DEFINE m == Monday(d)  k == Weekday(d)  last == LastWeek(pattern, w)
<1>1. /\ d \in Int /\ m \in Mondays /\ d = m + k /\ m \in Int /\ k \in Int /\ 0 <= k
      /\ k < WeekLength /\ WeekLength \in Int
  <2>1. d \in Int
    BY DEF Day, CalendarAssumption
  <2>2. m \in Mondays /\ d = m + k /\ k \in Weekdays
    BY <2>1, WeekOfDay
  <2>3. k \in Int /\ 0 <= k /\ k < WeekLength /\ WeekLength \in Int
    BY <2>2 DEF Weekdays, CalendarAssumption
  <2>4. m \in Int
    BY <2>2 DEF Mondays
  <2> QED BY <2>1, <2>2, <2>3, <2>4
<1>2. last \in Mondays /\ last \in Int /\ w \in Mondays /\ w \in Int
  <2>1. last \in DOMAIN pattern
    BY LastOfRow
  <2> QED BY <2>1 DEF IsPattern, Firsts, Mondays
<1> HIDE DEF m, k, last
<1>3. ASSUME w <= d, d <= last + WeekLength - 1
      PROVE  m \in DOMAIN pattern /\ pattern[m] = pattern[w]
  <2>1. w <= m
    <3> SUFFICES ASSUME m < w PROVE FALSE
      BY <1>1, <1>2
    <3>1. m + WeekLength <= w
      BY <1>1, <1>2, WeeksApart
    <3> QED BY <1>1, <1>2, <1>3, <3>1
  <2>2. m <= last
    <3> SUFFICES ASSUME last < m PROVE FALSE
      BY <1>1, <1>2
    <3>1. last + WeekLength <= m
      BY <1>1, <1>2, WeeksApart
    <3> QED BY <1>1, <1>2, <1>3, <3>1
  <2> QED BY <1>1, <2>1, <2>2, RowIsWhole DEF last
<1>4. w <= m /\ m <= last => w <= d /\ d <= last + WeekLength - 1
  BY <1>1, <1>2
<1> QED
  BY <1>3, <1>4 DEF m, last

\* ServiceLevelDays finds the seconds of the day's own week.
LEMMA LevelOfDay ==
  ASSUME CalendarAssumption, NEW f, Trips(f), NEW d \in Day
  PROVE  LevelOn(Levels(f), d)
           = IF Monday(d) \in Weeks(f) THEN Pattern(f, Monday(d))[Weekday(d)] ELSE 0
<1> DEFINE rows == Levels(f)  pattern == Patterns(f)  m == Monday(d)
           at == {i \in DOMAIN rows : rows[i].start <= d /\ d <= rows[i].end}
<1>1. /\ IsPattern(pattern) /\ DOMAIN pattern = Weeks(f)
      /\ \A w \in Weeks(f) : pattern[w] = Pattern(f, w)
  BY PatternsOfFeed DEF Patterns
<1>2. /\ rows \in Seq(LevelRow)
      /\ \A i \in DOMAIN rows : /\ rows[i].start \in Firsts(pattern)
                                /\ rows[i] = Row(pattern, rows[i].start)
      /\ \A w \in Firsts(pattern) : \E i \in DOMAIN rows : rows[i].start = w
  BY LevelsInOrder DEF InOrder
<1>3. at \subseteq Nat
  BY <1>2
<1> HIDE DEF rows, pattern, m
<1>4. \A i \in DOMAIN rows : /\ rows[i].end = LastWeek(pattern, rows[i].start) + WeekLength - 1
                             /\ rows[i].seconds = pattern[rows[i].start]
  BY <1>2 DEF Row
<1>5. ASSUME NEW i \in at PROVE m \in Weeks(f) /\ rows[i].seconds = Pattern(f, m)
  <2>1. rows[i].start \in Firsts(pattern) /\ rows[i].start <= d
        /\ d <= LastWeek(pattern, rows[i].start) + WeekLength - 1
    BY <1>2, <1>4
  <2>2. m \in DOMAIN pattern /\ pattern[m] = pattern[rows[i].start]
    BY <1>1, <2>1, DayInRow DEF m
  <2> QED BY <1>1, <1>4, <2>2
<1>6. ASSUME m \in Weeks(f) PROVE at # {}
  <2>1. PICK w \in Firsts(pattern) : w <= m /\ m <= LastWeek(pattern, w)
    BY <1>1, <1>6, WeekHasRow
  <2>2. w <= d /\ d <= LastWeek(pattern, w) + WeekLength - 1
    BY <1>1, <2>1, DayInRow DEF m
  <2>3. PICK i \in DOMAIN rows : rows[i].start = w
    BY <1>2
  <2>4. i \in at
    BY <1>4, <2>2, <2>3
  <2> QED BY <2>4
<1>7. at # {} => Min(at) \in at
  <2> HIDE DEF at
  <2> QED BY <1>3, MinOfDays
<1>8. LevelOn(rows, d) = IF at = {} THEN 0 ELSE rows[Min(at)].seconds[Weekday(d)]
  BY DEF LevelOn
<1> HIDE DEF at
<1> QED
  BY <1>5, <1>6, <1>7, <1>8 DEF rows, m

-----------------------------------------------------------------------------
(* What the rows of a feed say, by cases, and who runs on a day.               *)

\* The rows as they are copied run on the days that they say.
LEMMA WrittenSays ==
  ASSUME CalendarAssumption, NEW f, Rows(f), NEW id, NEW d \in Day
  PROVE  IsActive(Written(f, id), d) <=> Says(f, id, d)
<1> DEFINE w == Written(f, id)
<1>1. w \in Service /\ w.dates = Dates(f, id)
  BY WrittenIsService DEF Written
<1>2. CASE id \in DOMAIN f.calendars
  <2>1. /\ w.start = f.calendars[id].start /\ w.end = f.calendars[id].end
        /\ w.week = f.calendars[id].week
    BY <1>2 DEF Written
  <2>2. f.calendars[id].start \in Int /\ f.calendars[id].end \in Int /\ d \in Int
    BY <1>2 DEF Rows, Day
  <2> QED BY <1>1, <1>2, <2>1, <2>2, SaysIs DEF IsActive, Calendar
<1>3. CASE id \notin DOMAIN f.calendars
  <2>1. w.week = NoWeekday
    BY <1>3 DEF Written
  <2>2. Weekday(d) \in Weekdays
    BY DEF Weekday, Weekdays, Day, CalendarAssumption
  <2>3. ~Calendar(w, d)
    BY <2>1, <2>2 DEF Calendar, NoWeekday
  <2> QED BY <1>1, <1>3, <2>3, SaysIs DEF IsActive
<1> QED
  BY <1>2, <1>3

\* The services that run on a day are those with trips that the rows say run.
LEMMA RunningSays ==
  ASSUME CalendarAssumption, NEW f, Rows(f), NEW d \in Day
  PROVE  \A t \in Counted(f) : f.trips[t].service \in Running(f, d)
                                 <=> Says(f, f.trips[t].service, d)
<1> SUFFICES ASSUME NEW t \in Counted(f)
             PROVE  f.trips[t].service \in Running(f, d) <=> Says(f, f.trips[t].service, d)
  OBVIOUS
<1> DEFINE id == f.trips[t].service
<1>1. id \in Running(f, d) => Says(f, id, d)
  BY WrittenSays DEF Running
<1>2. ASSUME Says(f, id, d) PROVE id \in Running(f, d)
  <2>1. id \in ServiceIds(f)
    <3>1. DOMAIN Dates(f, id) # {} => id \in DOMAIN f.dates
      BY DEF Dates
    <3> QED BY <1>2, <3>1, SaysIs DEF ServiceIds
  <2>2. id \in Scheduled(f)
    BY <2>1 DEF Scheduled
  <2>3. IsActive(Written(f, id), d)
    BY <1>2, WrittenSays
  <2>4. Written(f, id) \in Service /\ WellFormed(Written(f, id))
    BY WrittenIsService
  <2>5. d \in ServicePeriod(Written(f, id))
    BY <2>3, <2>4, RunsInPeriod
  <2> QED BY <2>2, <2>3, <2>5 DEF Running
<1> QED
  BY <1>1, <1>2

\* The seconds of a day are those of the trips that the rows say run on it.
LEMMA LevelsSay ==
  ASSUME CalendarAssumption, NEW f, Rows(f), Trips(f), NEW d \in Day
  PROVE  LevelOn(Levels(f), d)
           = SumFunctionOnSet(Durations(f), {t \in Counted(f) : Says(f, f.trips[t].service, d)})
<1> DEFINE running == Running(f, d)
           trips == {t \in Counted(f) : Says(f, f.trips[t].service, d)}
           groupOf == [t \in Counted(f) |-> f.trips[t].service]
<1>1. IsFiniteSet(running) /\ running \subseteq Scheduled(f)
  BY RunningIs
<1>2. SumFunctionOnSet(ServiceTotals(f), running) = SumFunctionOnSet(Durations(f), trips)
  <2>1. /\ IsFiniteSet(Counted(f)) /\ \A t \in Counted(f) : Durations(f)[t] \in Nat
    BY TotalsAreNat
  <2>2. \A id \in running :
          ServiceTotals(f)[id] = SumFunctionOnSet(Durations(f), {t \in Counted(f) : groupOf[t] = id})
    <3> SUFFICES ASSUME NEW id \in running
                 PROVE  ServiceTotals(f)[id]
                          = SumFunctionOnSet(Durations(f), {t \in Counted(f) : groupOf[t] = id})
      OBVIOUS
    <3>1. {t \in Counted(f) : groupOf[t] = id} = {t \in Counted(f) : f.trips[t].service = id}
      OBVIOUS
    <3>2. ServiceTotals(f)[id] = ServiceTotal(f, id)
      BY <1>1 DEF ServiceTotals
    <3> QED BY <3>1, <3>2 DEF ServiceTotal
  <2>3. {t \in Counted(f) : groupOf[t] \in running} = trips
    BY RunningSays
  <2> HIDE DEF running, trips, groupOf
  <2>4. SumFunctionOnSet(ServiceTotals(f), running)
          = SumFunctionOnSet(Durations(f), {t \in Counted(f) : groupOf[t] \in running})
    BY <1>1, <2>1, <2>2, SumByGroup
  <2> QED BY <2>3, <2>4
<1>3. d \in Int /\ Weekday(d) \in Weekdays /\ d = Monday(d) + Weekday(d)
  <2>1. d \in Int
    BY DEF Day, CalendarAssumption
  <2> QED BY <2>1, WeekOfDay
<1>4. CASE Monday(d) \in Weeks(f)
  <2>1. Pattern(f, Monday(d))[Weekday(d)] = SumFunctionOnSet(ServiceTotals(f), running)
    BY <1>3 DEF Pattern
  <2> QED BY <1>2, <1>4, <2>1, LevelOfDay
<1>5. CASE Monday(d) \notin Weeks(f)
  <2>1. running = {}
    BY <1>5 DEF Weeks
  <2>2. SumFunctionOnSet(ServiceTotals(f), running) = 0
    BY <1>1, <2>1, SumRecursive
  <2> QED BY <1>2, <1>5, <2>2, LevelOfDay
<1> QED
  BY <1>4, <1>5

-----------------------------------------------------------------------------
(* Windows of rows that are in order.                                         *)

\* Of some numbers one is the highest.
LEMMA OneIsHighest ==
  ASSUME NEW B, IsFiniteSet(B), B # {}, NEW g, \A i \in B : g[i] \in Nat
  PROVE  \E i \in B : \A j \in B : g[j] <= g[i]
<1> DEFINE X == {T \in SUBSET B : T # {} => \E i \in T : \A j \in T : g[j] <= g[i]}
<1>1. ASSUME NEW T \in SUBSET B, \A x \in T : T \ {x} \in X PROVE T \in X
  <2> SUFFICES ASSUME NEW x \in T PROVE \E i \in T : \A j \in T : g[j] <= g[i]
    OBVIOUS
  <2>0. \A i \in T : g[i] \in Nat
    OBVIOUS
  <2>1. CASE T \ {x} = {}
    <3>1. \A j \in T : j = x
      BY <2>1
    <3>2. g[x] <= g[x]
      BY <2>0
    <3> QED BY <3>1, <3>2
  <2>2. CASE T \ {x} # {}
    <3>1. PICK m \in T \ {x} : \A j \in T \ {x} : g[j] <= g[m]
      BY <1>1, <2>2
    <3>2. g[x] \in Nat /\ g[m] \in Nat
      BY <2>0, <3>1
    <3>3. CASE g[x] <= g[m]
      BY <3>1, <3>3
    <3>4. CASE ~(g[x] <= g[m])
      <4>1. \A j \in T : g[j] <= g[x]
        <5> SUFFICES ASSUME NEW j \in T PROVE g[j] <= g[x]
          OBVIOUS
        <5>1. CASE j = x
          BY <3>2, <5>1
        <5>2. CASE j # x
          <6>1. g[j] <= g[m] /\ g[j] \in Nat
            BY <2>0, <3>1, <5>2
          <6> QED BY <3>2, <3>4, <6>1
        <5> QED BY <5>1, <5>2
      <4> QED BY <4>1
    <3> QED BY <3>3, <3>4
  <2> QED BY <2>1, <2>2
<1>2. SUBSET B \subseteq X
  <2> HIDE DEF X
  <2> QED BY <1>1, AllSubsets
<1>3. B \in X
  BY <1>2
<1> QED
  BY <1>3

\* Rows that are in order, by what the window needs of them.
LEMMA RowsAre ==
  ASSUME CalendarAssumption, NEW rows, InOrder(rows), rows # <<>>
  PROVE  /\ Len(rows) \in Nat /\ DOMAIN rows = 1..Len(rows) /\ 1 \in DOMAIN rows
         /\ IsFiniteSet(DOMAIN rows) /\ DOMAIN rows \subseteq Nat
         /\ \A i \in DOMAIN rows :
              /\ rows[i].start \in Mondays \cap Day /\ rows[i].start \in Int
              /\ rows[i].end \in Int /\ Total(rows[i]) \in Nat
              /\ rows[i].start <= rows[i].end
              /\ rows[i].seconds \in [Weekdays -> Nat]
         /\ \A i, j \in DOMAIN rows : i < j => rows[i].end < rows[j].start
<1>1. rows \in Seq(LevelRow)
  BY DEF InOrder
<1>2. Len(rows) \in Nat /\ DOMAIN rows = 1..Len(rows) /\ 1 \in DOMAIN rows
  BY <1>1
<1>3. IsFiniteSet(DOMAIN rows)
  BY <1>2, FS_Interval
<1>4. IsFiniteSet(Weekdays)
  BY FS_Interval DEF Weekdays, CalendarAssumption
<1>5. ASSUME NEW i \in DOMAIN rows
      PROVE  /\ rows[i].start \in Mondays \cap Day /\ rows[i].start \in Int
             /\ rows[i].end \in Int /\ Total(rows[i]) \in Nat
             /\ rows[i].seconds \in [Weekdays -> Nat]
  <2>1. rows[i] \in LevelRow
    BY <1>1
  <2>2. rows[i].seconds \in [Weekdays -> Nat]
    BY <2>1 DEF LevelRow
  <2>3. Total(rows[i]) \in Nat
    BY <1>4, <2>2, SumIsNat DEF Total
  <2> QED BY <2>1, <2>2, <2>3 DEF LevelRow, Mondays
<1> QED
  BY <1>2, <1>3, <1>5 DEF InOrder

\* The highest total is that of a row.
LEMMA HighestIs ==
  ASSUME CalendarAssumption, NEW rows, InOrder(rows), rows # <<>>
  PROVE  /\ Highest(rows) \in Nat
         /\ \A i \in DOMAIN rows : Total(rows[i]) <= Highest(rows)
         /\ HighestIdx(rows) \in DOMAIN rows
         /\ Total(rows[HighestIdx(rows)]) = Highest(rows)
         /\ ~Poor(rows, HighestIdx(rows))
<1> DEFINE g == [i \in DOMAIN rows |-> Total(rows[i])]
           totals == {Total(rows[i]) : i \in DOMAIN rows}
           at == {i \in DOMAIN rows : Total(rows[i]) = Highest(rows)}
<1>1. DOMAIN rows # {} /\ IsFiniteSet(DOMAIN rows) /\ \A i \in DOMAIN rows : g[i] \in Nat
  BY RowsAre
<1>2. PICK top \in DOMAIN rows : \A j \in DOMAIN rows : g[j] <= g[top]
  <2> HIDE DEF g
  <2> QED BY <1>1, OneIsHighest
<1>3. Total(rows[top]) \in totals /\ \A x \in totals : Total(rows[top]) >= x
  <2>1. \A j \in DOMAIN rows : Total(rows[j]) <= Total(rows[top])
    BY <1>2
  <2>2. \A j \in DOMAIN rows : Total(rows[j]) \in Nat
    BY RowsAre
  <2>3. Total(rows[top]) \in Nat
    BY <2>2
  <2> SUFFICES ASSUME NEW j \in DOMAIN rows PROVE Total(rows[top]) >= Total(rows[j])
    OBVIOUS
  <2>4. Total(rows[j]) \in Nat /\ Total(rows[j]) <= Total(rows[top])
    BY <2>1, <2>2
  <2> QED BY <2>3, <2>4
<1>4. Highest(rows) \in totals /\ \A x \in totals : Highest(rows) >= x
  BY <1>3 DEF Highest, Max
<1>5. Highest(rows) \in Nat /\ \A i \in DOMAIN rows : Total(rows[i]) <= Highest(rows)
  <2>1. \A j \in DOMAIN rows : Total(rows[j]) \in Nat
    BY RowsAre
  <2>2. Highest(rows) \in Nat
    BY <1>4, <2>1
  <2> SUFFICES ASSUME NEW i \in DOMAIN rows PROVE Total(rows[i]) <= Highest(rows)
    BY <2>2
  <2>3. Highest(rows) >= Total(rows[i]) /\ Total(rows[i]) \in Nat
    BY <1>4, <2>1
  <2> QED BY <2>2, <2>3
<1>6. at # {} /\ at \subseteq Nat
  BY <1>4, RowsAre
<1>7. HighestIdx(rows) \in at
  <2>1. Min(at) \in at
    <3> HIDE DEF at
    <3> QED BY <1>6, MinOfDays
  <2> QED BY <2>1 DEF HighestIdx
<1>8. ~(4 * Highest(rows) < 3 * Highest(rows))
  BY <1>5
<1> QED
  BY <1>5, <1>7, <1>8 DEF Poor

\* The week that a window is built around holds the time of the fetch, or is the highest.
LEMMA FetchedWeekIs ==
  ASSUME CalendarAssumption, NEW rows, InOrder(rows), rows # <<>>, NEW at
  PROVE  LET week == FetchedWeek(rows, at) IN
         /\ week \in DOMAIN rows /\ ~Poor(rows, week)
         /\ \/ 2 * rows[week].start <= at /\ at <= 2 * rows[week].end
            \/ Total(rows[week]) = Highest(rows)
<1> DEFINE holds == {i \in DOMAIN rows : 2 * rows[i].start <= at /\ at <= 2 * rows[i].end}
           week == IF holds = {} THEN HighestIdx(rows) ELSE Max(holds)
<1>1. FetchedWeek(rows, at) = IF Poor(rows, week) THEN HighestIdx(rows) ELSE week
  BY DEF FetchedWeek
<1>2. holds # {} => Max(holds) \in holds
  <2>1. holds \subseteq 0..Len(rows) /\ Len(rows) \in Nat
    BY RowsAre
  <2> HIDE DEF holds
  <2> QED BY <2>1, MaxUpTo
<1> HIDE DEF holds
<1>3. /\ week \in DOMAIN rows
      /\ \/ 2 * rows[week].start <= at /\ at <= 2 * rows[week].end
         \/ Total(rows[week]) = Highest(rows)
  BY <1>2, HighestIs DEF holds
<1> QED
  BY <1>1, <1>3, HighestIs

\* A window grows over rows that are not poor, from the week out.
LEMMA WindowGrows ==
  ASSUME CalendarAssumption, NEW rows, InOrder(rows), rows # <<>>,
         NEW week \in DOMAIN rows, ~Poor(rows, week)
  PROVE  /\ FirstRow(rows, week) \in 1..week
         /\ LastRow(rows, week) \in week..Len(rows)
         /\ \A i \in FirstRow(rows, week)..LastRow(rows, week) : ~Poor(rows, i)
<1>0. week \in Nat /\ Len(rows) \in Nat /\ 1 <= week /\ week <= Len(rows)
  BY RowsAre
<1> DEFINE after == {j \in week..Len(rows) : \A i \in week..j : ~Poor(rows, i)} \cup {week}
           before == {j \in 2..week : \A i \in j..week : ~Poor(rows, i)} \cup {week}
<1>1. Min(before) \in before
  <2>1. before # {} /\ before \subseteq Nat
    BY <1>0
  <2> HIDE DEF before
  <2> QED BY <2>1, MinOfDays
<1>2. Max(after) \in after
  <2>1. after # {} /\ after \subseteq 0..Len(rows)
    BY <1>0
  <2> HIDE DEF after
  <2> QED BY <1>0, <2>1, MaxUpTo
<1>3. FirstRow(rows, week) \in before /\ LastRow(rows, week) \in after
  BY <1>1, <1>2 DEF FirstRow, LastRow
<1> DEFINE first == FirstRow(rows, week)  last == LastRow(rows, week)
<1>4. first \in 1..week /\ \A i \in first..week : ~Poor(rows, i)
  <2>1. CASE first = week
    <3>1. \A i \in first..week : i = week
      BY <1>0, <2>1
    <3>2. first \in 1..week
      BY <1>0, <2>1
    <3> QED BY <3>1, <3>2
  <2>2. CASE first # week
    <3>1. first \in 2..week /\ \A i \in first..week : ~Poor(rows, i)
      BY <1>3, <2>2
    <3> HIDE DEF first
    <3> QED BY <1>0, <3>1
  <2> QED BY <2>1, <2>2
<1>5. last \in week..Len(rows) /\ \A i \in week..last : ~Poor(rows, i)
  <2>1. CASE last = week
    <3>1. \A i \in week..last : i = week
      BY <1>0, <2>1
    <3>2. last \in week..Len(rows)
      BY <1>0, <2>1
    <3> QED BY <3>1, <3>2
  <2>2. CASE last # week
    BY <1>3, <2>2
  <2> QED BY <2>1, <2>2
<1> HIDE DEF first, last
<1>6. \A i \in first..last : i \in first..week \/ i \in week..last
  BY <1>0, <1>4, <1>5
<1> QED
  BY <1>4, <1>5, <1>6 DEF first, last

-----------------------------------------------------------------------------
\* The rows of a window are those from its first to its last.
LEMMA RowsOfWindow ==
  ASSUME CalendarAssumption, NEW rows, InOrder(rows), rows # <<>>,
         NEW first \in DOMAIN rows, NEW last \in DOMAIN rows, first <= last
  PROVE  /\ \A i \in first..last :
              /\ i \in DOMAIN rows
              /\ rows[first].start <= rows[i].start /\ rows[i].end <= rows[last].end
              /\ rows[i].start <= rows[last].end /\ rows[i].end >= rows[first].start
         /\ \A i \in DOMAIN rows :
              rows[i].start <= rows[last].end /\ rows[i].end >= rows[first].start
                => i \in first..last
<1>1. /\ first \in Nat /\ last \in Nat /\ Len(rows) \in Nat /\ DOMAIN rows = 1..Len(rows)
      /\ \A i \in DOMAIN rows : /\ i \in Nat /\ rows[i].start \in Int /\ rows[i].end \in Int
                                /\ rows[i].start <= rows[i].end
      /\ \A i, j \in DOMAIN rows : i < j => rows[i].end < rows[j].start
  BY RowsAre
<1>2. ASSUME NEW i \in first..last
      PROVE  /\ i \in DOMAIN rows
             /\ rows[first].start <= rows[i].start /\ rows[i].end <= rows[last].end
             /\ rows[i].start <= rows[last].end /\ rows[i].end >= rows[first].start
  <2>1. i \in DOMAIN rows /\ first <= i /\ i <= last
    BY <1>1
  <2>2. rows[first].start <= rows[i].start
    <3>1. CASE i = first
      BY <1>1, <2>1, <3>1
    <3>2. CASE i # first
      <4>1. rows[first].end < rows[i].start
        BY <1>1, <2>1, <3>2
      <4> QED BY <1>1, <2>1, <4>1
    <3> QED BY <3>1, <3>2
  <2>3. rows[i].end <= rows[last].end
    <3>1. CASE i = last
      BY <1>1, <2>1, <3>1
    <3>2. CASE i # last
      <4>1. rows[i].end < rows[last].start
        BY <1>1, <2>1, <3>2
      <4> QED BY <1>1, <2>1, <4>1
    <3> QED BY <3>1, <3>2
  <2> QED BY <1>1, <2>1, <2>2, <2>3
<1>3. ASSUME NEW i \in DOMAIN rows,
             rows[i].start <= rows[last].end, rows[i].end >= rows[first].start
      PROVE  i \in first..last
  <2>1. ~(i < first)
    <3> SUFFICES ASSUME i < first PROVE FALSE
      OBVIOUS
    <3>1. rows[i].end < rows[first].start
      BY <1>1
    <3> QED BY <1>1, <1>3, <3>1
  <2>2. ~(last < i)
    <3> SUFFICES ASSUME last < i PROVE FALSE
      OBVIOUS
    <3>1. rows[last].end < rows[i].start
      BY <1>1
    <3> QED BY <1>1, <1>3, <3>1
  <2> QED BY <1>1, <2>1, <2>2
<1> QED
  BY <1>2, <1>3

\* The calculated window of rows in order.
LEMMA CalculatedIs ==
  ASSUME CalendarAssumption, NEW rows, InOrder(rows), rows # <<>>, NEW at
  PROVE  LET calculated == CalculatedWindow(rows, at)
             week == FetchedWeek(rows, at)
             first == FirstRow(rows, week)
             last == LastRow(rows, week)
         IN /\ first \in DOMAIN rows /\ last \in DOMAIN rows /\ first <= last
            /\ week \in first..last
            /\ calculated.start = rows[first].start /\ calculated.end = rows[last].end
            /\ calculated.fallback = FallbackWeek(rows, calculated.start, calculated.end)
<1> DEFINE week == FetchedWeek(rows, at)
           first == FirstRow(rows, week)
           last == LastRow(rows, week)
<1>1. week \in DOMAIN rows /\ first \in 1..week /\ last \in week..Len(rows)
  BY FetchedWeekIs, WindowGrows
<1>2. /\ CalculatedWindow(rows, at).start = rows[first].start
      /\ CalculatedWindow(rows, at).end = rows[last].end
      /\ CalculatedWindow(rows, at).fallback
           = FallbackWeek(rows, rows[first].start, rows[last].end)
  BY DEF CalculatedWindow
<1> HIDE DEF week, first, last
<1>3. /\ first \in DOMAIN rows /\ last \in DOMAIN rows /\ first <= last /\ week \in first..last
  <2>1. Len(rows) \in Nat /\ DOMAIN rows = 1..Len(rows)
    BY RowsAre
  <2> QED BY <1>1, <2>1
<1> QED
  BY <1>2, <1>3 DEF week, first, last

LEMMA WindowIsUsual ==
  ASSUME CalendarAssumption, NEW rows, InOrder(rows), rows # <<>>, NEW at
  PROVE  LET calculated == CalculatedWindow(rows, at)
             within == {i \in DOMAIN rows : rows[i].start <= calculated.end
                                            /\ rows[i].end >= calculated.start}
         IN /\ \A i \in within : /\ ~Poor(rows, i)
                                 /\ calculated.start <= rows[i].start
                                 /\ rows[i].end <= calculated.end
            /\ \E i \in within : \/ 2 * rows[i].start <= at /\ at <= 2 * rows[i].end
                                 \/ Total(rows[i]) = Highest(rows)
<1> DEFINE calculated == CalculatedWindow(rows, at)
           week == FetchedWeek(rows, at)
           first == FirstRow(rows, week)
           last == LastRow(rows, week)
           within == {i \in DOMAIN rows : rows[i].start <= calculated.end
                                          /\ rows[i].end >= calculated.start}
<1>1. /\ first \in DOMAIN rows /\ last \in DOMAIN rows /\ first <= last /\ week \in first..last
      /\ calculated.start = rows[first].start /\ calculated.end = rows[last].end
  BY CalculatedIs
<1>2. week \in DOMAIN rows /\ ~Poor(rows, week)
      /\ \/ 2 * rows[week].start <= at /\ at <= 2 * rows[week].end
         \/ Total(rows[week]) = Highest(rows)
  BY FetchedWeekIs
<1>3. \A i \in first..last : ~Poor(rows, i)
  BY <1>2, WindowGrows
<1> HIDE DEF calculated, week, first, last
<1>4. within = first..last
  BY <1>1, RowsOfWindow
<1>5. \A i \in within : /\ ~Poor(rows, i)
                        /\ calculated.start <= rows[i].start /\ rows[i].end <= calculated.end
  <2> HIDE DEF within
  <2> QED BY <1>1, <1>3, <1>4, RowsOfWindow
<1>6. week \in within
  BY <1>1, <1>4
<1> QED
  BY <1>2, <1>5, <1>6 DEF calculated

LEMMA FallbackIs ==
  ASSUME CalendarAssumption, NEW rows, InOrder(rows), rows # <<>>, NEW start, NEW end
  PROVE  LET Within(i) == rows[i].start <= end /\ rows[i].end >= start
             Full(i) == \A k \in Weekdays : rows[i].seconds[k] > 0
         IN \E i \in DOMAIN rows :
              /\ rows[i].start = FallbackWeek(rows, start, end)
              /\ \A j \in DOMAIN rows :
                   Within(j) /\ Total(rows[j]) > Total(rows[i]) => Full(i) /\ ~Full(j)
<1> DEFINE Within(i) == rows[i].start <= end /\ rows[i].end >= start
           Full(i) == \A k \in Weekdays : rows[i].seconds[k] > 0
           inWindow == {i \in DOMAIN rows : rows[i].start <= end /\ rows[i].end >= start
                                            /\ Total(rows[i]) > Total(rows[1])}
           full == {i \in inWindow : \A k \in Weekdays : rows[i].seconds[k] > 0}
           best == IF full # {} THEN full ELSE inWindow
           highest == {i \in best : \A j \in best : Total(rows[j]) <= Total(rows[i])}
<1>1. FallbackWeek(rows, start, end)
        = IF best = {} THEN rows[1].start ELSE rows[Min(highest)].start
  BY DEF FallbackWeek
<1>2. /\ 1 \in DOMAIN rows /\ IsFiniteSet(DOMAIN rows) /\ DOMAIN rows \subseteq Nat
      /\ \A i \in DOMAIN rows : Total(rows[i]) \in Nat
  BY RowsAre
<1>3. CASE best = {}
  <2>1. inWindow = {}
    BY <1>3
  <2>2. \A j \in DOMAIN rows : ~(Within(j) /\ Total(rows[j]) > Total(rows[1]))
    BY <2>1
  <2>3. rows[1].start = FallbackWeek(rows, start, end)
    BY <1>1, <1>3
  <2> QED BY <1>2, <2>2, <2>3
<1>4. CASE best # {}
  <2> DEFINE i == Min(highest)
  <2>1. best \subseteq DOMAIN rows /\ IsFiniteSet(best)
    <3>1. best \subseteq DOMAIN rows
      OBVIOUS
    <3> HIDE DEF best
    <3> QED BY <1>2, <3>1, FS_Subset
  <2>2. highest # {}
    <3> DEFINE g == [j \in DOMAIN rows |-> Total(rows[j])]
    <3>1. \A j \in best : g[j] = Total(rows[j]) /\ g[j] \in Nat
      BY <1>2, <2>1
    <3>2. \E m \in best : \A j \in best : g[j] <= g[m]
      <4> HIDE DEF best, g
      <4> QED BY <1>4, <2>1, <3>1, OneIsHighest
    <3> HIDE DEF best, g
    <3> QED BY <3>1, <3>2
  <2>3. i \in highest
    <3>1. highest \subseteq Nat
      BY <1>2, <2>1
    <3> HIDE DEF highest
    <3> QED BY <2>2, <3>1, MinOfDays
  <2>4. i \in best /\ \A j \in best : Total(rows[j]) <= Total(rows[i])
    BY <2>3
  <2>5. i \in DOMAIN rows /\ rows[i].start = FallbackWeek(rows, start, end)
    <3> HIDE DEF best, highest
    <3> QED BY <1>1, <1>4, <2>1, <2>4
  <2> HIDE DEF i
  <2>6. i \in inWindow
    BY <2>4
  <2>7. ASSUME NEW j \in DOMAIN rows, Within(j), Total(rows[j]) > Total(rows[i])
        PROVE  Full(i) /\ ~Full(j)
    <3>1. Total(rows[i]) \in Nat /\ Total(rows[j]) \in Nat /\ Total(rows[1]) \in Nat
      BY <1>2, <2>5
    <3>2. Total(rows[j]) > Total(rows[1])
      <4>1. Total(rows[i]) > Total(rows[1])
        BY <2>6
      <4> HIDE DEF inWindow
      <4> QED BY <2>7, <3>1, <4>1
    <3>3. j \in inWindow
      BY <2>7, <3>2
    <3>4. j \notin best
      <4>1. ~(Total(rows[j]) <= Total(rows[i]))
        BY <2>7, <3>1
      <4> HIDE DEF best
      <4> QED BY <2>4, <4>1
    <3>5. full # {} /\ j \notin full
      <4> HIDE DEF inWindow, full
      <4> QED BY <3>3, <3>4
    <3>6. i \in full
      <4> HIDE DEF inWindow, full
      <4> QED BY <2>4, <3>5
    <3> QED BY <3>3, <3>5, <3>6
  <2> QED BY <2>5, <2>7
<1> QED
  BY <1>3, <1>4

-----------------------------------------------------------------------------
(* The states of a feed version: what a fetch has counted, what an import has  *)
(* stored, the window and the last answer, each from the ones before.         *)

\* The answer to a query for a date, from what is stored and the window.
AnswerTo(d, useServiceWindow) ==
  LET day == IF useServiceWindow THEN MapIntoServiceWindow(d, window) ELSE d
  IN [asked |-> d, day |-> day,
      trips |-> {t \in DOMAIN feed.trips :
                   /\ feed.trips[t].service \in DOMAIN stored
                   /\ RunsInDatabase(stored[feed.trips[t].service], day)}]

LevelsInv == pc # "fetched" => levels = Levels(feed)

StoredInv ==
  pc \in {"imported", "window", "answered"} =>
    \E simplify \in BOOLEAN :
      stored = [id \in ServiceIds(feed) |-> Stored(feed, id, simplify)]

WindowInv ==
  pc \in {"window", "answered"} =>
    LET calculated == CalculatedWindow(RowsRead(levels), version.fetchedAt)
        dates == IF version.info = NoWindow THEN calculated ELSE version.info
    IN window = [start |-> dates.start, end |-> dates.end,
                 fallback |-> calculated.fallback, zone |-> version.zone]

AnswerInv ==
  answer # None =>
    /\ pc = "answered"
    /\ \E d \in Day, useServiceWindow \in BOOLEAN : answer = AnswerTo(d, useServiceWindow)

ServiceInv ==
  /\ version \in FeedVersion
  /\ LevelsInv /\ StoredInv /\ WindowInv /\ AnswerInv

LEMMA ServiceInvariant == Spec => []ServiceInv
<1>1. Init => ServiceInv
  BY DEF Init, ServiceInv, LevelsInv, StoredInv, WindowInv, AnswerInv
<1>2. ServiceInv /\ [Next]_vars => ServiceInv'
  <2> SUFFICES ASSUME ServiceInv, [Next]_vars PROVE ServiceInv'
    OBVIOUS
  <2>1. CASE SaveLevels
    <3>1. /\ version' = version /\ feed' = feed /\ pc' = "leveled" /\ levels' = Levels(feed)
          /\ answer' = answer /\ answer = None
      BY <2>1 DEF SaveLevels, feed, ServiceInv, AnswerInv
    <3> QED
      BY <3>1 DEF ServiceInv, LevelsInv, StoredInv, WindowInv, AnswerInv
  <2>2. ASSUME NEW simplify \in BOOLEAN, Import(simplify) PROVE ServiceInv'
    <3>1. /\ version' = version /\ feed' = feed /\ pc = "leveled" /\ pc' = "imported"
          /\ levels' = levels /\ answer' = answer /\ answer = None
          /\ stored' = [id \in ServiceIds(feed) |-> Stored(feed, id, simplify)]
      BY <2>2 DEF Import, feed, ServiceInv, AnswerInv
    <3>2. LevelsInv' /\ WindowInv' /\ AnswerInv'
      BY <3>1 DEF ServiceInv, LevelsInv, WindowInv, AnswerInv
    <3>3. StoredInv'
      BY <3>1 DEF StoredInv
    <3> QED
      BY <3>1, <3>2, <3>3 DEF ServiceInv
  <2>3. CASE GetWindow
    <3>1. /\ version' = version /\ feed' = feed /\ pc = "imported" /\ pc' = "window"
          /\ levels' = levels /\ stored' = stored /\ answer' = answer /\ answer = None
      BY <2>3 DEF GetWindow, feed, ServiceInv, AnswerInv
    <3>2. LevelsInv' /\ StoredInv' /\ AnswerInv'
      BY <3>1 DEF ServiceInv, LevelsInv, StoredInv, AnswerInv
    <3>3. WindowInv'
      BY <2>3, <3>1 DEF GetWindow, WindowInv
    <3> QED
      BY <3>1, <3>2, <3>3 DEF ServiceInv
  <2>4. ASSUME NEW d \in Day, NEW useServiceWindow \in BOOLEAN, Query(d, useServiceWindow)
        PROVE  ServiceInv'
    <3>1. /\ version' = version /\ feed' = feed /\ pc \in {"window", "answered"}
          /\ pc' = "answered" /\ levels' = levels /\ stored' = stored /\ window' = window
      BY <2>4 DEF Query, feed
    <3>2. LevelsInv' /\ StoredInv' /\ WindowInv'
      BY <3>1 DEF ServiceInv, LevelsInv, StoredInv, WindowInv
    <3>3. answer' = AnswerTo(d, useServiceWindow)
      BY <2>4 DEF Query, AnswerTo
    <3>4. AnswerTo(d, useServiceWindow)' = AnswerTo(d, useServiceWindow)
      BY <3>1 DEF AnswerTo
    <3>5. AnswerInv'
      BY <3>1, <3>3, <3>4 DEF AnswerInv
    <3> QED
      BY <3>1, <3>2, <3>5 DEF ServiceInv
  <2>5. CASE UNCHANGED vars
    BY <2>5 DEF vars, ServiceInv, LevelsInv, StoredInv, WindowInv, AnswerInv, AnswerTo, feed
  <2> QED
    BY <2>1, <2>2, <2>3, <2>4, <2>5 DEF Next
<1> QED
  BY <1>1, <1>2, PTL DEF Spec

\* The feed of a version has rows and trips that the copy accepts.
LEMMA FeedIs ==
  ASSUME FeedAssumption, VersionAssumption, version \in FeedVersion
  PROVE  /\ Rows(feed) /\ Trips(feed) /\ version.fetchedAt \in Int /\ version.zone \in Int
         /\ version.info # NoWindow => version.info.start \in Int /\ version.info.end \in Int
BY DEF FeedAssumption, VersionAssumption, feed

LEMMA StoredIsService ==
  ASSUME CalendarAssumption, NEW f, Rows(f), NEW id, NEW simplify \in BOOLEAN
  PROVE  Stored(f, id, simplify) \in Service /\ WellFormed(Stored(f, id, simplify))
<1> DEFINE s == IF id \in DOMAIN f.calendars THEN Written(f, id) ELSE Generated(Written(f, id))
<1>1. s \in Service /\ WellFormed(s)
  <2>1. CASE id \in DOMAIN f.calendars
    BY <2>1, WrittenIsService
  <2>2. CASE id \notin DOMAIN f.calendars
    BY <2>2, WrittenIsService, GeneratedIsService DEF Written
  <2> QED
    BY <2>1, <2>2
<1>2. Simplify(s) \in Service /\ WellFormed(Simplify(s))
  BY <1>1, SimplifyIsService
<1> HIDE DEF s
<1> QED
  BY <1>1, <1>2 DEF Stored, s

\* What is stored for a service runs on a day if the database says so, and the rows do.
LEMMA StoredSays ==
  ASSUME CalendarAssumption, FeedAssumption, VersionAssumption, ServiceInv,
         pc \in {"imported", "window", "answered"}, NEW id
  PROVE  /\ id \in DOMAIN stored =>
              /\ stored[id] \in Service /\ WellFormed(stored[id])
              /\ \A d \in Day : /\ IsActive(stored[id], d) <=> Says(feed, id, d)
                                /\ RunsInDatabase(stored[id], d) <=> IsActive(stored[id], d)
         /\ id \notin DOMAIN stored => \A d \in Day : ~Says(feed, id, d)
<1>1. PICK simplify \in BOOLEAN :
        stored = [x \in ServiceIds(feed) |-> Stored(feed, x, simplify)]
  BY DEF ServiceInv, StoredInv
<1>2. Rows(feed) /\ DOMAIN stored = ServiceIds(feed)
  BY <1>1, FeedIs DEF ServiceInv
<1>3. ASSUME id \in DOMAIN stored
      PROVE  /\ stored[id] \in Service /\ WellFormed(stored[id])
             /\ \A d \in Day : /\ IsActive(stored[id], d) <=> Says(feed, id, d)
                               /\ RunsInDatabase(stored[id], d) <=> IsActive(stored[id], d)
  <2>1. id \in ServiceIds(feed) /\ stored[id] = Stored(feed, id, simplify)
    BY <1>1, <1>3
  <2>2. \A d \in Day : IsActive(stored[id], d) <=> Says(feed, id, d)
    BY <1>2, <2>1, ImportKeepsDays
  <2>3. stored[id] \in Service /\ WellFormed(stored[id])
    BY <1>2, <2>1, StoredIsService
  <2>4. \A d \in DOMAIN stored[id].dates : stored[id].dates[d] \in {"added", "removed"}
    BY <2>3, DatesAreDays DEF Exceptions
  <2> QED
    BY <2>2, <2>3, <2>4 DEF RunsInDatabase, IsActive
<1>4. ASSUME id \notin DOMAIN stored, NEW d \in Day PROVE ~Says(feed, id, d)
  <2>1. id \notin DOMAIN feed.calendars /\ Dates(feed, id) = <<>>
    BY <1>2, <1>4 DEF ServiceIds, Dates
  <2>2. DOMAIN Dates(feed, id) = {}
    BY <2>1
  <2> QED
    BY <2>1, <2>2, SaysIs
<1> QED
  BY <1>3, <1>4

-----------------------------------------------------------------------------
(* Every reachable state of the import has ServicesRunAsWritten: the calendars  *)
(* stored are those of the feed, day by day.                                 *)
THEOREM ImportsRunAsWritten ==
  ASSUME CalendarAssumption, FeedAssumption, VersionAssumption
  PROVE  Spec => []ServicesRunAsWritten
<1>1. ServiceInv => ServicesRunAsWritten
  <2> SUFFICES ASSUME ServiceInv, pc = "imported", NEW id \in DOMAIN stored
               PROVE  /\ \A d \in Day : IsActive(stored[id], d) <=> Says(feed, id, d)
                      /\ HasAtLeastOneDay(stored[id]) <=> \E d \in Day : Says(feed, id, d)
    BY DEF ServicesRunAsWritten
  <2> QED
    BY StoredSays, NoServiceIsExact
<1> QED
  BY <1>1, ServiceInvariant, PTL

(* Every reachable state has LevelsMatchService: whatever the feed, the level   *)
(* looked up for a day (fvsl.go 188-294) is the seconds of service of the       *)
(* trips that the rows say run on it, and no day is in two rows.              *)
THEOREM LevelsAreService ==
  ASSUME CalendarAssumption, FeedAssumption, VersionAssumption
  PROVE  Spec => []LevelsMatchService
<1>1. ServiceInv => LevelsMatchService
  <2> SUFFICES ASSUME ServiceInv, pc = "leveled" PROVE LevelsMatchService
    BY DEF LevelsMatchService
  <2>1. levels = Levels(feed) /\ Rows(feed) /\ Trips(feed)
    BY FeedIs DEF ServiceInv, LevelsInv
  <2>2. \A i, j \in DOMAIN levels : i < j => levels[i].end < levels[j].start
    BY <2>1, LevelsInOrder DEF InOrder
  <2> QED
    BY <2>1, <2>2, LevelsSay DEF LevelsMatchService
<1> QED
  BY <1>1, ServiceInvariant, PTL

\* The rows that a window is calculated from are in order.
LEMMA ReadInOrder ==
  ASSUME CalendarAssumption, FeedAssumption, VersionAssumption, RowLimitAssumption,
         ServiceInv, pc # "fetched"
  PROVE  InOrder(RowsRead(levels)) /\ (RowsRead(levels) = <<>> <=> levels = <<>>)
<1>1. InOrder(levels)
  <2>1. levels = Levels(feed) /\ Trips(feed)
    BY FeedIs DEF ServiceInv, LevelsInv
  <2> QED BY <2>1, LevelsInOrder
<1>2. CASE Len(levels) <= RowLimit
  BY <1>1, <1>2 DEF RowsRead
<1>3. CASE ~(Len(levels) <= RowLimit)
  <2> DEFINE rows == SubSeq(levels, 1, RowLimit)
  <2>1. levels \in Seq(LevelRow) /\ RowLimit \in Nat /\ RowLimit # 0
    BY <1>1 DEF InOrder, RowLimitAssumption
  <2>2. /\ rows \in Seq(LevelRow) /\ Len(rows) = RowLimit /\ DOMAIN rows = 1..RowLimit
        /\ \A i \in 1..RowLimit : i \in DOMAIN levels /\ rows[i] = levels[i]
    BY <1>3, <2>1
  <2>3. RowsRead(levels) = rows /\ rows # <<>> /\ levels # <<>>
    BY <1>3, <2>1, <2>2 DEF RowsRead
  <2> HIDE DEF rows
  <2>4. InOrder(rows)
    BY <1>1, <2>2 DEF InOrder
  <2> QED BY <2>3, <2>4
<1> QED
  BY <1>2, <1>3

(* Every reachable state has WindowHasUsualService: a calculated window         *)
(* (swcache.go 165-211) has no row of poor service and is built around the      *)
(* week of the fetch or the highest one.                                     *)
THEOREM WindowIsNeverPoor ==
  ASSUME CalendarAssumption, FeedAssumption, VersionAssumption, RowLimitAssumption
  PROVE  Spec => []WindowHasUsualService
<1>1. ServiceInv => WindowHasUsualService
  <2> SUFFICES ASSUME ServiceInv, pc = "window", version.info = NoWindow, levels # <<>>
               PROVE  WindowHasUsualService
    BY DEF WindowHasUsualService
  <2> DEFINE rows == RowsRead(levels)
             calculated == CalculatedWindow(rows, version.fetchedAt)
  <2>1. InOrder(rows) /\ rows # <<>>
    BY ReadInOrder
  <2>2. window.start = calculated.start /\ window.end = calculated.end
    BY DEF ServiceInv, WindowInv
  <2> HIDE DEF rows, calculated
  <2>3. LET within == {i \in DOMAIN rows : rows[i].start <= calculated.end
                                             /\ rows[i].end >= calculated.start}
        IN /\ \A i \in within : /\ ~Poor(rows, i)
                                /\ calculated.start <= rows[i].start
                                /\ rows[i].end <= calculated.end
           /\ \E i \in within : \/ /\ 2 * rows[i].start <= version.fetchedAt
                                   /\ version.fetchedAt <= 2 * rows[i].end
                                \/ Total(rows[i]) = Highest(rows)
    BY <2>1, WindowIsUsual DEF calculated
  <2> QED
    BY <2>2, <2>3 DEF WindowHasUsualService, rows
<1> QED
  BY <1>1, ServiceInvariant, PTL

(* Every reachable state has FallbackIsBusiest: no week of the window has more    *)
(* service than the fallback (swcache.go 213-252), unless the fallback has service *)
(* on every day and that week does not; the fallback may lie outside the window.   *)
THEOREM NoWeekIsBusier ==
  ASSUME CalendarAssumption, FeedAssumption, VersionAssumption, RowLimitAssumption
  PROVE  Spec => []FallbackIsBusiest
<1>1. ServiceInv => FallbackIsBusiest
  <2> SUFFICES ASSUME ServiceInv, pc = "window", version.info = NoWindow, levels # <<>>
               PROVE  FallbackIsBusiest
    BY DEF FallbackIsBusiest
  <2> DEFINE rows == RowsRead(levels)
             calculated == CalculatedWindow(rows, version.fetchedAt)
  <2>1. InOrder(rows) /\ rows # <<>>
    BY ReadInOrder
  <2>2. /\ window.start = calculated.start /\ window.end = calculated.end
        /\ window.fallback = calculated.fallback
    BY DEF ServiceInv, WindowInv
  <2>3. calculated.fallback = FallbackWeek(rows, calculated.start, calculated.end)
    BY <2>1, CalculatedIs
  <2> HIDE DEF rows, calculated
  <2>4. window.fallback = FallbackWeek(rows, window.start, window.end)
    BY <2>2, <2>3
  <2> QED
    BY <2>1, <2>4, FallbackIs DEF FallbackIsBusiest, rows
<1> QED
  BY <1>1, ServiceInvariant, PTL

-----------------------------------------------------------------------------
\* A window has days for its ends and a Monday for its fallback.
LEMMA WindowIsDays ==
  ASSUME CalendarAssumption, FeedAssumption, VersionAssumption, RowLimitAssumption, ServiceInv,
         pc \in {"window", "answered"}
  PROVE  /\ window.start \in Int /\ window.end \in Int /\ window.zone \in Int
         /\ window.fallback \in Mondays
<1> DEFINE rows == RowsRead(levels)
           calculated == CalculatedWindow(rows, version.fetchedAt)
<1>1. calculated.start \in Int /\ calculated.end \in Int /\ calculated.fallback \in Mondays
  <2>1. CASE rows = <<>>
    <3>1. Zero \in Mondays
      <4>1. /\ WeekLength \in Nat /\ WeekLength > 0
            /\ \A p \in Int : (WeekLength * p) % WeekLength = 0
        BY DEF CalendarAssumption
      <4>2. Zero = WeekLength * (-2) /\ Zero \in Int
        BY <4>1 DEF Zero
      <4>3. Zero % WeekLength = 0
        BY <4>1, <4>2
      <4> QED BY <4>2, <4>3 DEF Mondays, Weekday
    <3>2. calculated = [start |-> Zero, end |-> Zero, fallback |-> Zero]
      BY <2>1 DEF CalculatedWindow
    <3> HIDE DEF calculated
    <3> QED BY <3>1, <3>2 DEF Mondays
  <2>2. CASE rows # <<>>
    <3>1. InOrder(rows)
      BY ReadInOrder
    <3>2. \A i \in DOMAIN rows : /\ rows[i].start \in Mondays /\ rows[i].start \in Int
                                   /\ rows[i].end \in Int
      BY <2>2, <3>1, RowsAre
    <3>3. /\ \E i \in DOMAIN rows : calculated.start = rows[i].start
          /\ \E i \in DOMAIN rows : calculated.end = rows[i].end
          /\ calculated.fallback = FallbackWeek(rows, calculated.start, calculated.end)
      BY <2>2, <3>1, CalculatedIs
    <3> HIDE DEF calculated
    <3>4. \E i \in DOMAIN rows : calculated.fallback = rows[i].start
      BY <2>2, <3>1, <3>3, FallbackIs
    <3> QED BY <3>2, <3>3, <3>4
  <2> QED BY <2>1, <2>2
<1>2. /\ version.zone \in Int
      /\ version.info # NoWindow => version.info.start \in Int /\ version.info.end \in Int
  BY FeedIs DEF ServiceInv
<1>3. window = [start |-> (IF version.info = NoWindow THEN calculated ELSE version.info).start,
                end |-> (IF version.info = NoWindow THEN calculated ELSE version.info).end,
                fallback |-> calculated.fallback, zone |-> version.zone]
  BY DEF ServiceInv, WindowInv
<1> HIDE DEF calculated
<1> QED
  BY <1>1, <1>2, <1>3

\* A date of the window stands for itself, and any date for a day of its weekday.
LEMMA MappedDate ==
  ASSUME CalendarAssumption, NEW d \in Day, NEW w,
         w.start \in Int, w.end \in Int, w.zone \in Int, w.fallback \in Mondays
  PROVE  /\ w.start <= d /\ d <= w.end => MapIntoServiceWindow(d, w) = d
         /\ Weekday(MapIntoServiceWindow(d, w)) = Weekday(d)
<1>1. d \in Int
  BY DEF Day, CalendarAssumption
<1>2. w.start <= d /\ d <= w.end => InWindow(d, w)
  <2> DEFINE a == w.start  b == w.end  z == w.zone
  <2>1. a \in Int /\ b \in Int /\ z \in Int
    OBVIOUS
  <2>2. InWindow(d, w) <=> 2 * d - z >= 2 * a - z /\ 2 * d - z <= 2 * b - z
    BY DEF InWindow, Midnight
  <2> HIDE DEF a, b, z
  <2>3. a <= d /\ d <= b => 2 * d - z >= 2 * a - z /\ 2 * d - z <= 2 * b - z
    BY <1>1, <2>1
  <2> QED BY <2>2, <2>3 DEF a, b
<1>3. Weekday(w.fallback + Weekday(d)) = Weekday(d)
  <2>1. Weekday(d) \in Weekdays
    BY <1>1, WeekOfDay
  <2> QED BY <2>1, DayOfWeek
<1> QED
  BY <1>2, <1>3 DEF MapIntoServiceWindow

(* Every reachable state has DatesServedAsWritten: the trips answered for a     *)
(* date (trip.go 214-330) are those that the rows of the feed say run on the    *)
(* day it stands for, whatever the import did to the calendars, and with the   *)
(* window that is a day of the same weekday, or the date itself.             *)
THEOREM DatesAreServedAsWritten ==
  ASSUME CalendarAssumption, FeedAssumption, VersionAssumption, RowLimitAssumption
  PROVE  Spec => []DatesServedAsWritten
<1>1. ServiceInv => DatesServedAsWritten
  <2> SUFFICES ASSUME ServiceInv, answer # None PROVE DatesServedAsWritten
    BY DEF DatesServedAsWritten
  <2>1. PICK d \in Day, useServiceWindow \in BOOLEAN : answer = AnswerTo(d, useServiceWindow)
    BY DEF ServiceInv, AnswerInv
  <2>2. pc = "answered"
    BY DEF ServiceInv, AnswerInv
  <2> DEFINE day == IF useServiceWindow THEN MapIntoServiceWindow(d, window) ELSE d
  <2>3. /\ answer.asked = d /\ answer.day = day
        /\ answer.trips = {t \in DOMAIN feed.trips :
                             /\ feed.trips[t].service \in DOMAIN stored
                             /\ RunsInDatabase(stored[feed.trips[t].service], day)}
    BY <2>1 DEF AnswerTo
  <2>4. \A t \in DOMAIN feed.trips :
          day \in Day =>
            (feed.trips[t].service \in DOMAIN stored
               /\ RunsInDatabase(stored[feed.trips[t].service], day))
            <=> Says(feed, feed.trips[t].service, day)
    BY <2>2, StoredSays
  <2>5. /\ window.start <= d /\ d <= window.end => day = d
        /\ Weekday(day) = Weekday(d)
    BY <2>2, WindowIsDays, MappedDate
  <2> HIDE DEF day
  <2>6. day \in Day => answer.trips = {t \in DOMAIN feed.trips :
                                         Says(feed, feed.trips[t].service, day)}
    BY <2>3, <2>4
  <2> QED
    BY <2>3, <2>5, <2>6 DEF DatesServedAsWritten
<1> QED
  BY <1>1, ServiceInvariant, PTL
=============================================================================
