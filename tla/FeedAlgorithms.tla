---------------------------- MODULE FeedAlgorithms ----------------------------
(***************************************************************************)
(* The pure algorithms of the program against what their docstrings        *)
(* promise, over bounded inputs.  The only state is the input of one call. *)
(***************************************************************************)
EXTENDS FiniteSets, Subsequences

CONSTANTS
  Systems,        \* agency_code_to_transit_system
  CombinedFeeds, LiveTrips, StationRows, TripScans, RowFiles, CoveredTrips,
  ViewedFeeds, AlertFeeds, DiagnosedFeeds, StationRuns,
  MAX_MATCH_DISTANCE_METERS, MAX_REAL_COMPLEX_MEMBERS

VARIABLE input

vars == <<input>>

Regional == INSTANCE RegionalFeed
Position == INSTANCE Positioning
Station == INSTANCE StationTransfers
Rows == INSTANCE ScheduleRows
Trip == INSTANCE TripDetail
Views == INSTANCE TripViews
Notices == INSTANCE ServiceAlerts
Stops == INSTANCE RegionalStopAreas

Init ==
  \/ input \in CombinedFeeds
  \/ input \in LiveTrips
  \/ input \in StationRows
  \/ input \in TripScans
  \/ input \in RowFiles
  \/ input \in CoveredTrips
  \/ input \in ViewedFeeds
  \/ input \in AlertFeeds
  \/ input \in DiagnosedFeeds
  \/ input \in StationRuns

Next == UNCHANGED input

Spec == Init /\ [][Next]_vars

-----------------------------------------------------------------------------

(* How the source combines the feeds of its agencies: every id of a trip   *)
(* update that is not blank is prefixed, an alert names its agency.        *)
Prefixed(id, agency) == IF id = Regional!Blank THEN id ELSE <<agency>> \o id

Combined(part) ==
  LET e == part.entity
  IN  IF e.kind = "trip_update"
      THEN [e EXCEPT !.id = Prefixed(@, part.agency), !.route_id = Prefixed(@, part.agency),
                     !.trip_id = Prefixed(@, part.agency),
                     !.stop_ids = [n \in DOMAIN @ |-> Prefixed(@[n], part.agency)]]
      ELSE [e EXCEPT !.informed =
                       [n \in DOMAIN @ |-> [@[n] EXCEPT !.agency_id = part.agency]]]

(* What is left of it for the agency's own system.  An alert keeps its     *)
(* agency_id, and loses a prefix of its own id that looks like the code of *)
(* its agency.                                                             *)
Restored(part) ==
  IF part.entity.kind = "trip_update" THEN part.entity
  ELSE [Combined(part) EXCEPT !.id = Regional!Strip(@, part.agency)]

(* "Demuxed entities carry exactly the same ID format" as a system's own   *)
(* feed: taking the combined feed apart gives each system that is served   *)
(* the entities of its agencies, all of them, in their order and with      *)
(* their own ids, and gives nobody anything of an agency it does not know. *)
DemuxRestoresFeeds ==
  input.of = "combined_feed" =>
    LET parts == input.parts
        split == Regional!SplitFeed([n \in DOMAIN parts |-> Combined(parts[n])], Systems)
        Owner(p) == IF p.agency \in DOMAIN Systems THEN Systems[p.agency] ELSE Regional!None
        Own(s) == EntriesAt(parts, {n \in DOMAIN parts : Owner(parts[n]) = s})
    IN  /\ DOMAIN split = {Owner(parts[n]) : n \in DOMAIN parts} \ {Regional!None}
        /\ \A s \in DOMAIN split :
             split[s] = [n \in DOMAIN Own(s) |-> Restored(Own(s)[n])]

(* The feed of an agency is fetched first and the combined one later, when *)
(* its entities may have gone, come or changed.  The decisive part of the  *)
(* report lists exactly the entities that the source shows differently in  *)
(* the two answers, and the rest what only one of them has: taking the     *)
(* feed apart adds nothing and hides nothing, whatever other agencies have *)
(* in the combined feed and however ids collide.  (The docstring says of   *)
(* that part that "anything here is a real demux bug, not explainable by   *)
(* churn", but a trip that drops a passed stop in between is listed.)      *)
ReportListsChanges ==
  input.of = "diagnosed_feed" =>
    LET parts == input.parts
        direct == input.direct
        combined == [n \in DOMAIN parts |-> Combined(parts[n])]
    IN  \A kind \in {"trip_update", "alert"} :
          LET report == Regional!Diagnosis(direct, combined, "A", "Alpha", kind)
              own == {n \in DOMAIN parts : parts[n].agency = "A" /\ parts[n].entity.kind = kind}
              earlier == {n \in DOMAIN direct : direct[n].kind = kind}
              now == {parts[n].entity.id : n \in own}
              before == {direct[n].id : n \in earlier}
          IN  /\ report.mismatches =
                   {id \in before \cap now : \E n \in own, k \in earlier :
                      /\ parts[n].entity.id = id /\ direct[k].id = id
                      /\ Regional!Seen(direct[k]) # Regional!Seen(parts[n].entity)}
              /\ report.matched = Cardinality(before \cap now)
              /\ report.ids_only_in_direct = before \ now
              /\ report.ids_only_in_demuxed = now \ before

(* The known times of a trip.                                              *)
Times(stops) ==
  ({stops[n].arrival : n \in DOMAIN stops} \cup {stops[n].departure : n \in DOMAIN stops})
    \ {Position!NoTime}

Complete(stops) ==
  \A n \in DOMAIN stops : /\ n > 1 => stops[n].arrival # Position!NoTime
                          /\ n < Len(stops) => stops[n].departure # Position!NoTime

(* A vehicle is placed between two known times of its trip with no other   *)
(* known time in between; and while a trip with all its times is under way *)
(* its vehicle is on the map, at any instant that is not itself one of the *)
(* times.                                                                  *)
VehicleIsPlaced ==
  input.of = "live_trip" =>
    LET now == input.now
        times == Times(input.trip)
        loc == Position!GetLocation(input.trip, now)
    IN  /\ loc # Position!Nowhere =>
             /\ loc.previous < now /\ now < loc.next
             /\ {loc.previous, loc.next} \subseteq times
             /\ \A t \in times : ~ (loc.previous < t /\ t < loc.next)
        /\ Complete(input.trip) =>
             (loc # Position!Nowhere
                <=> /\ now \notin times
                    /\ \E t \in times : t < now
                    /\ \E t \in times : now < t)

(* "Every other transit system sharing a station complex": if a stop of    *)
(* one system offers a transfer to another, each stop of the other that is *)
(* looked up at the same station offers the transfer back.  There is no    *)
(* such stop only if the other was found by a stop whose own id is at the  *)
(* station while the crosswalk, which is asked first, leads it elsewhere.  *)
TransfersGoBothWays ==
  input.of = "station_rows" =>
    LET db == input.db
        stops == db.stops \cup DOMAIN db.matches
    IN  \A row \in db.stops :
          LET near == Station!Neighbours(db, Station!EffectiveStop(db, row[1], row[2]))
          IN  \A other \in Station!ResolveTransfers(db, row[1], row[2]) :
                LET there == {b \in stops : /\ b[1] = other
                                           /\ Station!EffectiveStop(db, other, b[2]) \in near}
                IN  /\ \A b \in there : row[1] \in Station!ResolveTransfers(db, other, b[2])
                    /\ there = {} =>
                         \E b \in db.stops \cap DOMAIN db.matches : b[1] = other /\ b[2] \in near

(* The tables as TransferCache reads them.                                 *)
StationTables(db) ==
  [areas |-> db.areas, stops |-> {<<db.stops[n].system, db.stops[n].stop>> : n \in DOMAIN db.stops},
   matches |-> [key \in DOMAIN db.matches |-> db.matches[key].regional]]

(* "A later run finding a closer/different match should overwrite a stale  *)
(* one": after a daily run the crosswalk leads each native stop that the   *)
(* run found to be near a foreign id to such an id, with its distance, and *)
(* leaves the other stops alone; and a stop with only one such id is       *)
(* offered the transfers of that id's station.                             *)
CrosswalkCurrent ==
  input.of = "station_run" =>
    LET db == input.db
        after == Stops!FetchRegionalStopAreas(db, input.zip)
        complexes == Stops!RealStationComplexes(input.zip)
        coords == Stops!StopCoordinates(input.zip, {row[2] : row \in complexes})
        places == {coords[n] : n \in DOMAIN coords}
        natives == {db.stops[n] : n \in DOMAIN db.stops}
        Key(native) == <<native.system, native.stop>>
        Near(x, native) ==
          native.place # Stops!NoPlace
            /\ Stops!Distance(x.place, native.place) <= MAX_MATCH_DISTANCE_METERS
        Wanted(native) ==
          {x \in places :
             /\ \A other \in natives : other.place # Stops!NoPlace => other.stop # x.stop
             /\ Near(x, native)
             /\ Stops!Nearest(db, x.place) = native}
    IN  /\ after.areas = db.areas \cup complexes
        /\ \A native \in natives :
             IF Wanted(native) = {}
             THEN /\ Key(native) \in DOMAIN after.matches <=> Key(native) \in DOMAIN db.matches
                  /\ Key(native) \in DOMAIN db.matches =>
                       after.matches[Key(native)] = db.matches[Key(native)]
             ELSE /\ \E x \in Wanted(native) :
                       after.matches[Key(native)]
                         = [regional |-> x.stop, distance |-> Stops!Distance(x.place, native.place)]
                  /\ Cardinality(Wanted(native)) = 1 =>
                       \A x \in Wanted(native), a \in complexes, b \in complexes, other \in natives :
                         /\ a[2] = x.stop /\ b[1] = a[1]
                         /\ other.stop = b[2] /\ other.stop # x.stop
                         /\ other.system # native.system
                         => other.system \in Station!ResolveTransfers(StationTables(after),
                                                                      native.system, native.stop)

(* Whatever the order of the rows of a trip, its destination is a stop     *)
(* with its highest stop_sequence and its headsign a non-empty one of the  *)
(* lowest; both are missing only if no row provides one.                   *)
ScanFindsBothEnds ==
  input.of = "trip_scan" =>
    LET rows == input.rows
        found == Rows!ScanStopTimes(rows)
        numbered == {n \in DOMAIN rows : rows[n].seq # Rows!NoNumber}
        stops == {n \in numbered : rows[n].stop # Rows!NoText}
        signed == {n \in numbered : rows[n].headsign # Rows!NoText}
    IN  /\ IF stops = {} THEN found.destination = Rows!NoText
           ELSE \E n \in stops : /\ found.destination = rows[n].stop
                                 /\ \A k \in stops : rows[k].seq <= rows[n].seq
        /\ IF signed = {} THEN found.headsign = Rows!NoText
           ELSE \E n \in signed : /\ found.headsign = rows[n].headsign
                                  /\ \A k \in signed : rows[k].seq >= rows[n].seq

(* "Last write wins", and no statement affects a row twice, for which      *)
(* Postgres would abort the whole transaction: whether a file is           *)
(* deduplicated as a whole or batch by batch as it is streamed, each key   *)
(* ends with the refreshed columns of its last row, and other keys keep    *)
(* theirs.                                                                 *)
LastWriteWins ==
  input.of = "row_file" =>
    LET rows == [n \in DOMAIN input.keys |-> [key |-> input.keys[n], fresh |-> n, kept |-> n]]
        table == [key \in input.existing |-> [fresh |-> 0, kept |-> 0]]
        Final(key) == LET places == {n \in DOMAIN rows : rows[n].key = key}
                      IN  IF places = {} THEN 0
                          ELSE CHOOSE n \in places : \A k \in places : k <= n
    IN  \A statements \in {Rows!BatchedStatements(rows, input.size),
                           Rows!StreamedStatements(rows, input.size)} :
          LET result == Rows!Upserted(table, statements)
          IN  /\ \A s \in DOMAIN statements : \A n, k \in DOMAIN statements[s] :
                   statements[s][n].key = statements[s][k].key => n = k
              /\ DOMAIN result = input.existing \cup {rows[n].key : n \in DOMAIN rows}
              /\ \A key \in DOMAIN result : result[key].fresh = Final(key)

(* The live feed reports the stops at some places of the schedule, in      *)
(* their order.  The tail always holds every stop after the last of them,  *)
(* and holds no other exactly if the feed reported all of the visits that  *)
(* the trip has made to its last stop: loops and turnbacks included.       *)
TailCompletesTrip ==
  input.of = "covered_trip" =>
    LET schedule == input.schedule
        last == CHOOSE n \in input.covered : \A k \in input.covered : k <= n
        places == PlacesIn(input.covered, Len(schedule))
        tail == Trip!TailStops(schedule, [n \in DOMAIN places |-> schedule[places[n]]])
        rest == SubSeq(schedule, last + 1, Len(schedule))
    IN  /\ Len(tail) >= Len(rest)
        /\ SubSeq(tail, Len(tail) - Len(rest) + 1, Len(tail)) = rest
        /\ tail = rest <=>
             \A n \in 1..last : schedule[n] = schedule[last] => n \in input.covered

(* The page of a trip agrees with its event.  Every trip that the stream   *)
(* shows has a page in the same feed.  If no other entity claims the same  *)
(* identity, and a feed's own entity id is never a trip of the schedule,   *)
(* both show the same route, the same transfers at the vehicle's stop and, *)
(* if the trip has one, the same headsign.  If the page has a name for the *)
(* route, the event has that of a row of the same stored route, so the     *)
(* same unless several rows have its id; likewise for the two colours, but *)
(* only if the page has both: the page shows one of them alone, the event  *)
(* then none of that row.                                                  *)
DetailMatchesStream ==
  input.of = "viewed_feed" =>
    LET feed == input.feed
        schedule == input.schedule
        shown == Views!Emitted(feed)
        Alone(e) == \A n, k \in DOMAIN feed :
                      Views!EntityTripId(feed[n]) = Views!EntityTripId(e)
                        /\ Views!EntityTripId(feed[k]) = Views!EntityTripId(e) => n = k
        RouteOf(trip) == Views!Lookup(Views!RouteIdByTrip(schedule), trip)
        RowsOf(trip) == Views!RowsOfRoute(schedule, RouteOf(trip))
    IN  \A n \in DOMAIN shown :
          LET e == shown[n]
              event == Views!TripPosition(schedule, e)
              page == Views!TripDetailPage(schedule, feed, event.trip_id)
          IN  /\ page.status = 200
              /\ Alone(e) /\ (e.trip_id = Views!Blank => e.id \notin Views!TripIds(schedule)) =>
                   /\ page.route_id = event.route_id
                   /\ page.stops[e.at].stop_id = event.stop_id
                   /\ page.stops[e.at].transfers = event.transfers
                   /\ page.trip_headsign # Views!None =>
                        event.trip_headsign = page.trip_headsign
                   /\ page.route_name # Views!None =>
                        \E k \in RowsOf(e.trip_id) : event.route_name = schedule.routes[k].name
                   /\ Views!None \notin {page.color, page.text_color} =>
                        \E k \in RowsOf(e.trip_id) :
                          /\ event.color = schedule.routes[k].color
                          /\ event.text_color = schedule.routes[k].text_color

(* "Every line the system has": the line filter lists the line of each     *)
(* trip on the map whose route is the stored one and whose headsign is     *)
(* known to the schedule, under the same name, also where the headsign is  *)
(* only that of another trip of the route.                                 *)
LineFilterCovers ==
  input.of = "viewed_feed" =>
    LET schedule == input.schedule
        shown == Views!Emitted(input.feed)
    IN  \A n \in DOMAIN shown :
          LET e == shown[n]
              event == Views!TripPosition(schedule, e)
              stored == Views!Lookup(Views!RouteIdByTrip(schedule), e.trip_id)
              signed == \/ Views!Lookup(Views!TripHeadsigns(schedule), e.trip_id) # Views!None
                        \/ <<event.route_id, e.direction>>
                             \in DOMAIN Views!HeadsignsByRouteDir(schedule)
          IN  stored # Views!None /\ event.route_id = stored /\ signed =>
                \E line \in Views!Lines(schedule) :
                  /\ line.route_id = event.route_id
                  /\ line.trip_headsign = event.trip_headsign
                  /\ line.route_name = event.route_name

(* One batch of look-ups for the whole feed shows every alert as looking   *)
(* up each of its trips and routes by itself would: a trip with its stored *)
(* headsign and route, and every route it names or reaches through a trip  *)
(* with its stored name.                                                   *)
AlertsHydrated ==
  input.of = "alert_feed" =>
    LET schedule == input.schedule
        feed == Notices!Alerts(input.feed)
        Alpha(value) == [s \in {"Alpha"} |-> value]
        page == Notices!ServiceAlertsPage(Alpha(schedule), Alpha("url"), "Alpha", input.feed)
        Stored(t) == t \in Views!TripIds(schedule)
        RouteOf(t) == IF Stored(t) THEN Views!TripRow(schedule, t).route_id ELSE Views!None
        HeadsignOf(t) == IF Stored(t) THEN Views!TripRow(schedule, t).name ELSE Views!None
        NameOf(r) == IF r \in Views!RouteIds(schedule) THEN Notices!LastRow(schedule, r).name
                     ELSE Views!None
        Routes(alert) == (Notices!Named(alert, "route_id")
                            \cup {RouteOf(t) : t \in Notices!Named(alert, "trip_id")}) \ {Views!None}
    IN  /\ DOMAIN page.alerts = DOMAIN feed
        /\ \A n \in DOMAIN feed :
             LET alert == page.alerts[n]
             IN  /\ alert.alert_id = feed[n].id
                 /\ alert.affected_trips
                      = {[trip_id |-> t, trip_headsign |-> HeadsignOf(t), route_id |-> RouteOf(t)] :
                           t \in Notices!Named(feed[n], "trip_id")}
                 /\ alert.affected_routes
                      = {[route_id |-> r, route_name |-> NameOf(r)] : r \in Routes(feed[n])}
=============================================================================
