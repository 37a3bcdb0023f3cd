--------------------------- MODULE MCFeedAlgorithms ---------------------------
(* Bounded inputs of each algorithm, with its awkward cases among them.    *)
EXTENDS FeedAlgorithms, SequencesExt, TLC

MCSystems == ("A" :> "Alpha") @@ ("B" :> "Beta")

(* Two or three entities of two known agencies and an unknown one; ids may *)
(* be blank, or hold a colon after what looks like an agency's code.       *)
TripEntity ==
  [kind : {"trip_update"}, id : {<<"1">>}, route_id : {<<"">>, <<"r">>, <<"B", "r">>},
   trip_id : {<<"">>, <<"t">>}, stop_ids : {<< <<"s">> >>}]

Informed == [agency_id : {""}, route_id : {<<"">>, <<"r">>, <<"A", "r">>}, trip_id : {<<"t">>},
             stop_id : {<<"s">>}]

AlertEntity ==
  [kind : {"alert"}, id : {<<"1">>, <<"B", "1">>}, informed : {<<i>> : i \in Informed}]

Parts ==
  {p \in [agency : {"A", "B", "U"}, entity : TripEntity \cup AlertEntity] :
     p.entity.kind = "alert" => p.entity.informed[1].route_id[1] # p.agency}

MCCombinedFeeds == [of : {"combined_feed"}, parts : SeqOf(Parts, 2)]

(* The feed of agency A, and the combined one a moment later: an entity of *)
(* the first may be gone (as 9 is), unchanged or changed in the second.    *)
(* An id is used once by an agency.                                        *)
DiagnosedEntity(ids, route_ids) ==
  [kind : {"trip_update"}, id : ids, route_id : route_ids, trip_id : {<<"t">>},
   stop_ids : {<< >>, << <<"s">>, <<"B", "s">> >>}]
    \cup [kind : {"alert"}, id : ids,
          informed : {<<i, i>> : i \in {k \in Informed : k.route_id # <<"r">>}}]

DiagnosedParts ==
  [agency : {"A", "B"}, entity : DiagnosedEntity({<<"1">>, <<"2">>}, {<<"">>, <<"B", "r">>})]

DirectFeeds ==
  {d \in SeqOf(DiagnosedEntity({<<"1">>, <<"9">>}, {<<"">>}), 2) :
     \A n, k \in DOMAIN d : d[n].id = d[k].id => n = k}

MCDiagnosedFeeds ==
  {d \in [of : {"diagnosed_feed"}, parts : SeqOf(DiagnosedParts, 2), direct : DirectFeeds] :
     \A n, k \in DOMAIN d.parts :
       /\ (d.parts[n].agency = d.parts[k].agency
            /\ d.parts[n].entity.id = d.parts[k].entity.id) => n = k
       /\ d.parts[n].entity.kind = "alert" => d.parts[n].entity.informed[1].route_id[1] # d.parts[n].agency}

(* Up to three stops in the order of their known times.                    *)
InOrder(trip) ==
  LET times == SelectSeq([n \in 1..2 * Len(trip) |->
                            IF n % 2 = 1 THEN trip[(n + 1) \div 2].arrival
                                         ELSE trip[n \div 2].departure],
                         LAMBDA t : t # -1)
  IN  \A n \in 1..Len(times) - 1 : times[n] <= times[n + 1]

StopTimes == [arrival : {-1} \cup 1..4, departure : {-1} \cup 1..4]

MCLiveTrips ==
  [of : {"live_trip"}, trip : {s \in SeqOf(StopTimes, 3) : InOrder(s)}, now : 0..5]

(* Two systems and three stop ids, of which one may be crosswalked, though *)
(* its own id may be in an area.                                           *)
StopId == {"p", "q", "own"}

MCStationRows ==
  {[of |-> "station_rows", db |-> d] : d \in
     [areas : SUBSET ({"a1", "a2"} \X StopId), stops : SUBSET ({"Alpha", "Beta"} \X StopId),
      matches : {<< >>, <<"Beta", "own">> :> "p", <<"Beta", "q">> :> "p"}]}

(* Bart, whose own id is not in the region's feed, and Muni, whose id is:  *)
(* either without a place, Muni perhaps not ingested yet.  The region has  *)
(* two more ids, places for some, an area that is too large for a station, *)
(* a fare zone and the catch-all.                                          *)
NativeRow(system, stop, place) == [system |-> system, stop |-> stop, place |-> place]

StationStops ==
  {<<NativeRow("Bart", "b1", p)>> \o m : p \in {-1, 1, 5},
     m \in {<< >>, <<NativeRow("Muni", "m1", -1)>>, <<NativeRow("Muni", "m1", 2)>>}}

RegionalStops ==
  LET Row(stop, place) == [stop |-> stop, place |-> place]
  IN  UNION {{<<Row("m1", 2), Row("r1", p), Row("r2", q)>>,
              <<Row("r2", q), Row("r1", p), Row("m1", 2)>>} : p \in {-1, 1, 3}, q \in {-1, 3, 5}}

RegionalAreas ==
  {[area \in {<<"mtc", "a1">>, <<"mtc", "a2">>, <<"mtc", "">>, <<"AC", "local">>} |->
      CASE area = <<"mtc", "a1">> -> x [] area = <<"mtc", "a2">> -> y [] OTHER -> <<"r1">>] :
     x \in {<<"m1", "r1">>, <<"r1", "r2">>, <<"r1", "r2", "m1">>},
     y \in {<< >>, <<"r2", "m1">>}}

MCStationRuns ==
  {[of |-> "station_run", db |-> [stops |-> n, areas |-> {}, matches |-> m],
    zip |-> [areas |-> a, stops |-> s]] :
     n \in StationStops, a \in RegionalAreas, s \in RegionalStops,
     m \in {<< >>, <<"Bart", "b1">> :> [regional |-> "r9", distance |-> 1],
            <<"Muni", "m1">> :> [regional |-> "r2", distance |-> 1]}}

MCTripScans ==
  [of : {"trip_scan"},
   rows : SeqOf([stop : {"x", "y", "none"}, seq : {-1, 1, 2}, headsign : {"none", "h", "k"}], 3)]

MCRowFiles ==
  [of : {"row_file"}, keys : SeqOf(1..3, 5), size : 1..3, existing : SUBSET {1, 2}]

MCCoveredTrips ==
  {c \in [of : {"covered_trip"}, schedule : SeqOf({"x", "y", "z"}, 5), covered : SUBSET (1..5)] :
     c.covered # {} /\ c.covered \subseteq DOMAIN c.schedule}

(* Schedules of up to two trips and two routes, any name, direction, route *)
(* row, name or colour of which may be missing, and a route may have two   *)
(* rows; r9 and t9 are never stored.                                       *)
TripRow(id) ==
  [trip_id : {id}, name : {"none", id}, route_id : {"r1", "r2"}, direction : {"0", "1"}]

OtherTrips == {<< >>} \cup {<<t>> : t \in TripRow("t2")}

RouteRow(id, name, color, text_color) ==
  [route_id |-> id, name |-> name, color |-> color, text_color |-> text_color]

Named == <<RouteRow("r1", "name 1", "red", "white"), RouteRow("r2", "name 2", "blue", "black")>>

RouteTables ==
  {Named, << >>, <<RouteRow("r2", "none", "blue", "black")>>,
   Named \o <<RouteRow("r1", "name 1a", "green", "none"), RouteRow("r2", "none", "none", "none")>>,
   <<RouteRow("r1", "name 1", "red", "none"), RouteRow("r1", "name 1a", "none", "white")>>}

Schedule(trips, routes) ==
  [trips |-> trips, routes |-> routes,
   stops |-> [s \in {"s1", "s2"} |-> [name |-> s, trip_id |-> "t1"]],
   transfers |-> {<<"s1", "r1">>, <<"s1", "r2">>, <<"s2", "r9">>, <<"s2", "r2">>},
   stop_times |-> [t \in {"t1"} |-> <<"s1", "s2", "s1">>]]

(* One entity of any shape before or after one with a fixed shape, whose   *)
(* identity may be the same.                                               *)
LiveEntity ==
  [kind : {"trip_update"}, id : {"e1"}, trip_id : {"", "t1", "t9"}, route_id : {"", "r1", "r2"},
   direction : {"none", "0"}, stops : {<<"s1", "s2">>}, at : {0, 1, 2}]

OtherEntity ==
  [kind : {"trip_update"}, id : {"e2"}, trip_id : {"", "t1"}, route_id : {""},
   direction : {"1"}, stops : {<<"s2">>}, at : {1}]

MCViewedFeeds ==
  {[of |-> "viewed_feed", schedule |-> Schedule(<<t>> \o o, r), feed |-> f] :
     t \in TripRow("t1"), o \in OtherTrips,
     r \in RouteTables,
     f \in {<<e, x>> : e \in LiveEntity, x \in OtherEntity}
           \cup {<<x, e>> : e \in LiveEntity, x \in OtherEntity}}

(* Two alerts, of which the first informs of up to two entities.           *)
InformedOf == [trip_id : {"", "t1", "t9"}, route_id : {"", "r1", "r9"}]

AlertOf(id, informed) == [kind |-> "alert", id |-> id, informed |-> informed]

MCAlertFeeds ==
  {[of |-> "alert_feed", schedule |-> Schedule(<<t>>, r),
    feed |-> <<AlertOf("a1", i), [kind |-> "trip_update"], AlertOf("a2", k)>>] :
     t \in TripRow("t1"), r \in RouteTables,
     i \in SeqOf(InformedOf, 2), k \in SeqOf(InformedOf, 1)}
=============================================================================
