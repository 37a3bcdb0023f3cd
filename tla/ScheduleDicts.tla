---------------------------- MODULE ScheduleDicts ----------------------------
(***************************************************************************)
(* The dicts that ScheduleCache._load builds from the rows of one system,  *)
(* and query_intra_transfers.  A schedule has the sequence `trips` of its  *)
(* rows in the order of the SELECT, the sequence `routes` of its route     *)
(* rows (two of them may have the same route_id: only the short name is    *)
(* unique), a function `stops` from the id of a stop to its name and its   *)
(* trip, and the pairs (from_stop_id, to_route_id) of `transfers`.  The    *)
(* short and the long name of a route, which the code treats alike, are    *)
(* one name.                                                               *)
(***************************************************************************)
EXTENDS FiniteSetsExt, Subsequences

None == "none"    \* NULL, a missing key or a missing field
Blank == ""       \* a protobuf string that is not set

Lookup(dict, key) == IF key \in DOMAIN dict THEN dict[key] ELSE None

(* x or y or ...                                                           *)
FirstKnown(values) ==
  LET known == {n \in DOMAIN values : values[n] \notin {None, Blank}}
  IN  IF known = {} THEN None ELSE values[Min(known)]

(* A dict comprehension with `if value`: entries without a value are not   *)
(* in it.                                                                  *)
OfKnown(keys, Value(_)) == [k \in {x \in keys : Value(x) # None} |-> Value(k)]

TripRows(schedule) == {schedule.trips[n] : n \in DOMAIN schedule.trips}

TripRow(schedule, trip) == CHOOSE row \in TripRows(schedule) : row.trip_id = trip

TripIds(schedule) == {row.trip_id : row \in TripRows(schedule)}

TripHeadsigns(schedule) ==
  [trip \in TripIds(schedule) |-> TripRow(schedule, trip).name]

RouteIdByTrip(schedule) ==
  [trip \in TripIds(schedule) |-> TripRow(schedule, trip).route_id]

(* setdefault under the direction of a row and under None, in row order.   *)
HeadsignsByRouteDir(schedule) ==
  LET trips == schedule.trips
      Under(route, direction) ==
        {n \in DOMAIN trips : /\ trips[n].route_id = route
                              /\ trips[n].name # None
                              /\ direction \in {None, trips[n].direction}}
      routes == {trips[n].route_id : n \in DOMAIN trips}
      directions == {None} \cup {trips[n].direction : n \in DOMAIN trips}
  IN  [key \in {k \in routes \X directions : Under(k[1], k[2]) # {}} |->
         trips[Min(Under(key[1], key[2]))].name]

RouteIds(schedule) == {schedule.routes[n].route_id : n \in DOMAIN schedule.routes}

RowsOfRoute(schedule, route) ==
  {n \in DOMAIN schedule.routes : schedule.routes[n].route_id = route}

(* A row has an entry in the dict of names if it has a name, and in the    *)
(* dict of colours, which holds pairs, only if it has both.                *)
Keeps(row, field) ==
  IF field = "name" THEN row.name # None ELSE None \notin {row.color, row.text_color}

RowsKept(schedule, route, field) ==
  {n \in RowsOfRoute(schedule, route) : Keeps(schedule.routes[n], field)}

(* short_names_by_route, long_names_by_route, colors_by_route: of the rows *)
(* of a route, the last one that is kept.                                  *)
ByRoute(schedule, field) ==
  [r \in {q \in RouteIds(schedule) : RowsKept(schedule, q, field) # {}} |->
     schedule.routes[Max(RowsKept(schedule, r, field))][field]]

(* colors_by_trip, short_names_by_trip, long_names_by_trip.                *)
ByTrip(schedule, field) ==
  OfKnown(TripIds(schedule),
          LAMBDA t : Lookup(ByRoute(schedule, field), RouteIdByTrip(schedule)[t]))

ColorsByStop(schedule, field) ==
  OfKnown(DOMAIN schedule.stops,
          LAMBDA s : Lookup(ByTrip(schedule, field), schedule.stops[s].trip_id))

(* query_intra_transfers for one stop: the join drops routes that are not  *)
(* stored, the filter rows without a route.  (It lists a route once for    *)
(* each of its rows.)                                                      *)
IntraTransfers(schedule, stop) ==
  {row[2] : row \in {t \in schedule.transfers : t[1] = stop}} \cap RouteIds(schedule)
=============================================================================
