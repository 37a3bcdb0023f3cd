------------------------------ MODULE TripViews ------------------------------
(***************************************************************************)
(* The three views of the trips of a system: the events of transit_feed,   *)
(* the page of trip_detail, both about an entity of one live feed, and the *)
(* list of get_lines.  The stream reads the dicts of ScheduleCache, the    *)
(* page reads the tables by SELECTs of its own.  Of a live entity, `stops` *)
(* are the stop ids of its stop_time_update and `at` is the place in them  *)
(* that get_location returns (see Positioning), 0 if it returns None.      *)
(***************************************************************************)
EXTENDS ScheduleDicts

Schedule == INSTANCE TripDetail

(* _entity_trip_id.                                                        *)
EntityTripId(e) == FirstKnown(<<e.trip_id, e.id>>)

(* The trips of one poll that transit_feed emits.                          *)
Emitted(feed) ==
  EntriesAt(feed, {n \in DOMAIN feed : feed[n].kind = "trip_update" /\ feed[n].at # 0})

(* A source may leave the route of its live entities blank.                *)
LiveRoute(schedule, e) == FirstKnown(<<e.route_id, Lookup(RouteIdByTrip(schedule), e.trip_id)>>)

(* One event.  A route that is not known misses every dict, as "" does in  *)
(* the code.                                                               *)
TripPosition(schedule, e) ==
  LET route == LiveRoute(schedule, e)
      destination == e.stops[Len(e.stops)]
      StopName(stop) == IF stop \in DOMAIN schedule.stops THEN schedule.stops[stop].name ELSE None
      Color(field) == FirstKnown(<<Lookup(ByTrip(schedule, field), e.trip_id),
                                   Lookup(ByRoute(schedule, field), route),
                                   Lookup(ColorsByStop(schedule, field), destination)>>)
  IN  [trip_id |-> EntityTripId(e), stop_id |-> e.stops[e.at], route_id |-> route,
       trip_headsign |->
         FirstKnown(<<Lookup(TripHeadsigns(schedule), e.trip_id),
                      Lookup(HeadsignsByRouteDir(schedule), <<route, e.direction>>),
                      StopName(destination)>>),
       route_name |-> FirstKnown(<<Lookup(ByTrip(schedule, "name"), e.trip_id),
                                   Lookup(ByRoute(schedule, "name"), route)>>),
       color |-> Color("color"), text_color |-> Color("text_color"),
       transfers |-> IntraTransfers(schedule, e.stops[e.at]) \ {route}]

-----------------------------------------------------------------------------

NotFound == [status |-> 404]

(* `context["trip"] or {}` and `context["route"] or {}`: a missing row has *)
(* none of its fields.                                                     *)
NoRow == [trip_id |-> None, name |-> None, route_id |-> None, color |-> None, text_color |-> None]

(* `.first()` of a SELECT that states no order: any row of the route.      *)
RouteRow(schedule, route) ==
  IF route \notin RouteIds(schedule) THEN NoRow
  ELSE schedule.routes[CHOOSE n \in RowsOfRoute(schedule, route) : TRUE]

(* get_trip_schedule_context: the rows of a trip and of the trip's own     *)
(* route, whatever the live entity says of its route.                      *)
ScheduleContext(schedule, trip) ==
  LET row == IF trip \in TripIds(schedule) THEN TripRow(schedule, trip) ELSE NoRow
  IN  [trip |-> row, route |-> RouteRow(schedule, row.route_id)]

(* Mutant: the stored route of a trip wins over the live one.              *)
DetailRouteStored(context, e) == FirstKnown(<<context.trip.route_id, e.route_id>>)

(* this_trip_route_id, as in the stream.                                   *)
DetailRoute(context, e) == FirstKnown(<<e.route_id, context.trip.route_id>>)

(* get_scheduled_tail_stops.                                               *)
ScheduledTailStops(schedule, trip, live) ==
  IF live = << >> \/ trip \notin DOMAIN schedule.stop_times THEN << >>
  ELSE Schedule!TailStops(schedule.stop_times[trip], live)

(* get_trip_schedule_context and get_transfers_for_stops for the stops of  *)
(* the page: those that the live entity names, then the scheduled tail.    *)
DetailStops(schedule, e, route, tail) ==
  LET Stop(id, live) == [stop_id |-> id, live |-> live,
                         transfers |-> IntraTransfers(schedule, id) \ {route}]
  IN  [n \in DOMAIN e.stops |-> Stop(e.stops[n], TRUE)] \o
      [n \in DOMAIN tail |-> Stop(tail[n], FALSE)]

(* trip_detail: the first entity with the identity asked for.              *)
TripDetailPage(schedule, feed, trip) ==
  LET found == {n \in DOMAIN feed : feed[n].kind = "trip_update" /\ EntityTripId(feed[n]) = trip}
      e == feed[Min(found)]
      live == EntriesAt(e.stops, {n \in DOMAIN e.stops : e.stops[n] # Blank})
      context == ScheduleContext(schedule, trip)
      route == DetailRoute(context, e)
  IN  IF found = {} THEN NotFound
      ELSE [status |-> 200, trip_id |-> trip, route_id |-> route,
            trip_headsign |-> context.trip.name,
            route_name |-> context.route.name,
            color |-> context.route.color, text_color |-> context.route.text_color,
            stops |-> DetailStops(schedule, e, route, ScheduledTailStops(schedule, trip, live))]

-----------------------------------------------------------------------------

(* Mutant: a line is told from the others by its route alone.              *)
LinesOnePerRoute(schedule) ==
  LET trips == schedule.trips
      IsFirst(n) == \A k \in 1..n - 1 : trips[k].route_id # trips[n].route_id
  IN  {[route_id |-> trips[n].route_id, trip_headsign |-> trips[n].name,
        route_name |-> Lookup(ByRoute(schedule, "name"), trips[n].route_id)] :
         n \in {m \in DOMAIN trips : IsFirst(m)}}

(* get_lines: every pair of a route and a headsign that some trip has.     *)
Lines(schedule) ==
  {[route_id |-> row.route_id, trip_headsign |-> row.name,
    route_name |-> Lookup(ByRoute(schedule, "name"), row.route_id)] : row \in TripRows(schedule)}
=============================================================================
