------------------------------ MODULE MCCopier ------------------------------
(* Feeds with two rows in every file, one of them with a fault; and feeds    *)
(* whose trips differ in stops, times, faults and the order of the rows.     *)
EXTENDS Copier

\* phase -> file, whether its rows have ids, what they refer to (same letter).
File == [agency |-> "agency.txt", routes |-> "routes.txt", levels |-> "levels.txt",
  shapes |-> "shapes.txt", stations |-> "stops.txt", platforms |-> "stops.txt",
  boarding_areas |-> "stops.txt", calendar |-> "calendar.txt", calendar_dates |-> "calendar_dates.txt",
  booking_rules |-> "booking_rules.txt", locations |-> "locations.geojson",
  location_groups |-> "location_groups.txt", location_group_stops |-> "location_group_stops.txt",
  trips |-> "trips.txt", stop_times |-> "stop_times.txt", pathways |-> "pathways.txt",
  fare_attributes |-> "fare_attributes.txt", fare_rules |-> "fare_rules.txt",
  frequencies |-> "frequencies.txt", transfers |-> "transfers.txt",
  attributions |-> "attributions.txt", timeframes |-> "timeframes.txt",
  networks |-> "networks.txt", route_networks |-> "route_networks.txt", areas |-> "areas.txt",
  stop_areas |-> "stop_areas.txt", rider_categories |-> "rider_categories.txt",
  fare_media |-> "fare_media.txt", fare_products |-> "fare_products.txt",
  fare_leg_rules |-> "fare_leg_rules.txt", fare_leg_join_rules |-> "fare_leg_join_rules.txt",
  fare_transfer_rules |-> "fare_transfer_rules.txt"]

Named == {"agency", "routes", "levels", "shapes", "stations", "platforms", "boarding_areas",
  "calendar", "booking_rules", "locations", "location_groups", "trips", "pathways",
  "fare_attributes", "networks", "areas", "fare_media"}

Targets == [agency |-> {}, routes |-> {"agency"}, levels |-> {}, shapes |-> {},
  stations |-> {"levels"}, platforms |-> {"levels", "stations"}, boarding_areas |-> {"platforms"},
  calendar |-> {}, calendar_dates |-> {"calendar"}, booking_rules |-> {"calendar"},
  locations |-> {}, location_groups |-> {}, location_group_stops |-> {"location_groups", "platforms"},
  trips |-> {"routes", "calendar", "shapes"},
  stop_times |-> {"trips", "platforms", "booking_rules"},
  pathways |-> {"platforms", "stations"}, fare_attributes |-> {"agency"},
  fare_rules |-> {"fare_attributes", "routes"}, frequencies |-> {"trips"},
  transfers |-> {"platforms", "routes", "trips"}, attributions |-> {"agency", "routes", "trips"},
  timeframes |-> {"calendar"}, networks |-> {}, route_networks |-> {"networks", "routes"},
  areas |-> {}, stop_areas |-> {"areas", "platforms"}, rider_categories |-> {}, fare_media |-> {},
  fare_products |-> {"rider_categories", "fare_media"},
  fare_leg_rules |-> {"areas", "networks", "timeframes", "fare_products"},
  fare_leg_join_rules |-> {"networks", "platforms"},
  fare_transfer_rules |-> {"fare_leg_rules", "fare_products"}]

\* References by a group key of the target.
GroupOf == [timeframes |-> "timeframes.txt:timeframe_group_id",
  rider_categories |-> "rider_categories.txt:rider_category_id",
  fare_products |-> "fare_products.txt:fare_product_id",
  fare_leg_rules |-> "fare_leg_rules.txt:leg_group_id"]

Id(p, x) == p \o x
RowTarget(p, x) == IF p \in DOMAIN GroupOf THEN <<GroupOf[p], Id(p, x)>> ELSE <<File[p], Id(p, x)>>

Row(p, n, x, fault) ==
  LET base == [file |-> File[p], id |-> IF p \in Named THEN Id(p, x) ELSE NoId, line |-> <<p, n>>,
               refs |-> {RowTarget(q, x) : q \in Targets[p]},
               groups |-> IF p \in DOMAIN GroupOf THEN {RowTarget(p, x)} ELSE {}, fault |-> fault]
  IN IF p = "routes" THEN base @@ [net |-> "net"]
     ELSE IF p = "calendar_dates" THEN base @@ [service |-> Id("calendar", x)]
     ELSE IF p = "stop_times" THEN base @@ [trip |-> Id("trips", x), stop |-> Id("platforms", x),
                                            seq |-> n, rel |-> 0]
     ELSE base

\* A fault at one row of one file; or a second row of an id.
FeedWith(p, n, fault) ==
  [q \in DOMAIN File |->
     [k \in 1..2 |-> Row(q, k, IF k = 1 \/ (fault = "twice" /\ q = p) THEN "A" ELSE "B",
                         IF q = p /\ k = n /\ fault # "twice" THEN fault ELSE "none")]]
\* No calendar.txt row for one service; or none at all.
FeedWithoutCalendar(x) ==
  [q \in DOMAIN File |-> IF q = "calendar" THEN SelectSeq(FeedWith("agency", 1, "none")[q], LAMBDA r : r.id \in x)
                         ELSE FeedWith("agency", 1, "none")[q]]
GraphFeeds ==
  {FeedWith(p, 1, "unmarked") : p \in DOMAIN File} \cup {FeedWith(p, 2, "bad") : p \in DOMAIN File}
    \cup {FeedWith(p, 1, f) : p \in Named, f \in {"twice", "filtered"}}
    \cup {FeedWithoutCalendar(x) : x \in {{}, {"calendarA"}}}

-----------------------------------------------------------------------------
(* Trips *)
Stop(s) == [file |-> "stops.txt", id |-> s, line |-> <<"platforms", s>>, refs |-> {}, groups |-> {},
            fault |-> "none"]
Trip(n, t, fault) ==
  [file |-> "trips.txt", id |-> t, line |-> <<"trips", n>>, refs |-> {<<"routes.txt", "r">>},
   groups |-> {}, fault |-> fault]
Time(t, s, k) ==
  [file |-> "stop_times.txt", id |-> NoId, line |-> <<"stop_times", <<t, k>>>>,
   refs |-> (IF t = NoId THEN {} ELSE {<<"trips.txt", t>>}) \cup (IF s = NoId THEN {} ELSE {<<"stops.txt", s>>}),
   groups |-> {}, fault |-> IF t = NoId THEN "bad" ELSE "none", trip |-> t, stop |-> s, seq |-> k, rel |-> k]
Times(t, stops) == [k \in DOMAIN stops |-> Time(t, stops[k], k)]

\* All times of a trip together; or one of each trip in turn, last first.
InTurn(a, b, c) ==
  LET Nth(s, k) == IF Len(s) >= k THEN <<s[Len(s) + 1 - k]>> ELSE <<>> IN
  FlattenSeq([k \in 1..3 |-> Nth(a, k) \o Nth(b, k) \o Nth(c, k)])

Visits == {<<"s1", "s2">>, <<"s2", "s1">>, <<NoId, "s2">>}
TripFeed(rows, times) ==
  [routes |-> <<[file |-> "routes.txt", id |-> "r", line |-> <<"routes", 1>>, refs |-> {}, groups |-> {},
                 fault |-> "none", net |-> NoId]>>,
   platforms |-> <<Stop("s1"), Stop("s2")>>, trips |-> rows, stop_times |-> times]
TripFeeds ==
  {TripFeed(<<Trip(1, "t1", f), Trip(2, "t2", "none"), Trip(3, "t3", g)>>,
            IF together THEN Times("t1", a) \o Times("t2", b) \o Times("t3", c)
            ELSE InTurn(Times("t1", a), Times("t2", b), Times("t3", c))) :
     f, g \in {"none", "bad"}, together \in BOOLEAN,
     a \in Visits, b \in Visits, c \in {<<>>, <<"s1", "s2">>, <<NoId, "s2">>, <<"s1", "s2", "s1">>}}
  \cup
  {TripFeed(<<Trip(1, "t1", f), Trip(2, "t2", "none"), Trip(3, "t1", "none")>>,
            IF together THEN Times("t1", a) \o Times("t4", a) \o Times("t2", b)
            ELSE InTurn(Times("t4", a), Times("t1", a), Times("t2", b))) :
     f \in {"none", "bad"}, together \in BOOLEAN, a \in Visits, b \in Visits}
  \cup
  {TripFeed(<<Trip(1, "t1", "none"), Trip(2, "t2", "none")>>,
            <<Time("t1", "s1", 1), Time(NoId, "s2", 2), Time("t1", "s2", 3)>> \o Times("t2", b)) : b \in Visits}

Opt(on) == [o \in {"allowErrors", "allowReferences", "dedup", "normalizeServices",
                   "normalizeNetworks", "createShapes", "marker", "csv"} |-> o \in on]
ImportOptions == Opt({"dedup", "normalizeServices", "createShapes", "csv"})
ExtractOptions == Opt({"marker", "normalizeNetworks", "createShapes"})
Lenient == Opt({"allowErrors", "allowReferences", "csv"})
HalfLenient == Opt({"allowErrors", "csv"})
\* And a feed of no rows.
NoRows == [p \in {} |-> <<>>]
AllFeeds == GraphFeeds \cup TripFeeds \cup {NoRows}
AllOptions == {ImportOptions, ExtractOptions, Lenient, HalfLenient}
=============================================================================
