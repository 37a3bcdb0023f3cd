---------------------------- MODULE ServiceAlerts ----------------------------
(***************************************************************************)
(* GET /service_alerts: the alerts of a feed, hydrated from the tables by  *)
(* one SELECT of trips and one of routes for all of them together.  An     *)
(* alert has the sequence `informed` of its informed entities, each with a *)
(* trip_id and a route_id, "" where it names none.  `database` maps a      *)
(* system to its schedule (see ScheduleDicts), `alerts_urls` to its URL.   *)
(***************************************************************************)
EXTENDS ScheduleDicts

Alerts(feed) == EntriesAt(feed, {n \in DOMAIN feed : feed[n].kind = "alert"})

Named(alert, field) == {alert.informed[n][field] : n \in DOMAIN alert.informed} \ {Blank}

(* extract_referenced_ids.                                                 *)
ReferencedIds(feed, field) ==
  UNION {Named(Alerts(feed)[n], field) : n \in DOMAIN Alerts(feed)}

(* The SELECT of the referenced trips.                                     *)
TripsById(schedule, trips) ==
  [t \in trips \cap TripIds(schedule) |->
     [trip_headsign |-> TripRow(schedule, t).name, route_id |-> TripRow(schedule, t).route_id]]

(* Of the rows of a route, the one that the dict ends up with.             *)
LastRow(schedule, route) == schedule.routes[Max(RowsOfRoute(schedule, route))]

(* Mutant: routes that are only reached through a trip are not selected.   *)
RoutesByIdNamed(schedule, trips_by_id, routes) ==
  [r \in routes \cap RouteIds(schedule) |-> LastRow(schedule, r).name]

(* The SELECT of the referenced routes, those of the trips folded in.      *)
RoutesById(schedule, trips_by_id, routes) ==
  LET all == routes \cup {trips_by_id[t].route_id : t \in DOMAIN trips_by_id}
  IN  [r \in all \cap RouteIds(schedule) |-> LastRow(schedule, r).name]

(* get_alert_hydration_data.                                               *)
HydrationData(database, system, trips, routes) ==
  IF system \notin DOMAIN database THEN [trips |-> << >>, routes |-> << >>]
  ELSE LET trips_by_id == TripsById(database[system], trips)
       IN  [trips |-> trips_by_id,
            routes |-> RoutesById(database[system], trips_by_id, routes)]

(* One alert of build_service_alerts.                                      *)
BuildAlert(alert, data) ==
  LET trips == {[trip_id |-> t,
                 trip_headsign |-> IF t \in DOMAIN data.trips THEN data.trips[t].trip_headsign ELSE None,
                 route_id |-> IF t \in DOMAIN data.trips THEN data.trips[t].route_id ELSE None] :
                  t \in Named(alert, "trip_id")}
      routes == Named(alert, "route_id") \cup ({t.route_id : t \in trips} \ {None})
  IN  [alert_id |-> alert.id, affected_trips |-> trips,
       affected_routes |-> {[route_id |-> r, route_name |-> Lookup(data.routes, r)] : r \in routes}]

BuildServiceAlerts(feed, data) ==
  LET alerts == Alerts(feed) IN [n \in DOMAIN alerts |-> BuildAlert(alerts[n], data)]

(* service_alerts.                                                         *)
ServiceAlertsPage(database, alerts_urls, system, feed) ==
  IF Lookup(alerts_urls, system) = None THEN [status |-> 404]
  ELSE LET data == HydrationData(database, system, ReferencedIds(feed, "trip_id"),
                                 ReferencedIds(feed, "route_id"))
       IN  [status |-> 200, alerts |-> BuildServiceAlerts(feed, data)]
=============================================================================
