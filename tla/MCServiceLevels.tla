--------------------------- MODULE MCServiceLevels ---------------------------
(* Feeds of one service with every calendar and up to two exceptions, and     *)
(* feeds of a calendar and of a service that runs on any set of dates, whose  *)
(* trips weigh differently.  Weeks have two days, and there are four.         *)
EXTENDS ServiceLevels

Weeks2 == [Weekdays -> BOOLEAN] \ {NoWeekday}
Trip(id, seconds, runs) == [service |-> id, seconds |-> seconds, runs |-> runs]

FewExceptions ==
  {<<>>} \cup {[d \in {x} |-> e] : x \in Day, e \in Exceptions}
  \cup {[d \in {x, y} |-> IF d = x THEN e ELSE f] :
          x \in Day, y \in Day, e \in Exceptions, f \in Exceptions}

\* (i) what a service may be: both ends, weekdays, exceptions anywhere.
OneService ==
  {[calendars |-> [id \in {"a"} |-> c], dates |-> [id \in {"a"} |-> x],
    trips |-> [t \in {"t"} |-> Trip("a", 2, Once)]] :
     c \in {[start |-> i, end |-> j, week |-> w] :
              i \in 0..2, j \in {k \in Day : k \in {2, 5, 7}}, w \in Weeks2},
     x \in FewExceptions}

\* (ii) what a feed may be: a base service, one known by its dates only.
TwoServices ==
  {[calendars |-> [id \in {"a"} |-> [start |-> 0, end |-> j, week |-> w]],
    dates |-> [id \in {"b"} |-> [d \in x |-> "added"]],
    trips |-> [t \in {"t", "u", "v"} |->
                 CASE t = "t" -> Trip("a", s[1], Once)
                   [] t = "u" -> Trip("b", s[2], s[3])
                   [] t = "v" -> Trip("b", NoTimes, Once)]] :
     j \in {3, 7}, w \in {[k \in Weekdays |-> TRUE], [k \in Weekdays |-> k = 0]},
     x \in SUBSET Day \ {{}}, s \in {<<3, 1, Once>>, <<1, 1, 3>>, <<1, 1, Once>>}}

Version(f, at, i, z) == [feed |-> f, fetchedAt |-> at, info |-> i, zone |-> z]
Somewhere == {<<1, NoWindow, 0>>, <<6, NoWindow, -1>>, <<15, NoWindow, 1>>,
              <<9, [start |-> 2, end |-> 5], 1>>}

AllVersions ==
  {Version(f, 4, NoWindow, -1) : f \in OneService}
  \cup {Version(f, m[1], m[2], m[3]) : f \in TwoServices, m \in Somewhere}
=============================================================================
