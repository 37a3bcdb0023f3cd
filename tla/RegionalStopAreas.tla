--------------------------- MODULE RegionalStopAreas ---------------------------
(***************************************************************************)
(* fetch_regional_stop_areas: the daily ingestion of the stations of the   *)
(* region from its combined schedule, and the crosswalk from the stops of  *)
(* the systems to the ids of the region.                                   *)
(*                                                                         *)
(* The zip is a record: `areas` maps the id of an area, <<prefix, name>>,  *)
(* to the sequence of its stops as listed, `stops` is the sequence of the  *)
(* rows of its stops.txt.  The database has `stops`, the rows (system,     *)
(* stop, place) of the active systems in the order of the SELECT, `areas`, *)
(* the pairs (area, stop), and `matches`, a function from (system, stop)   *)
(* to the regional id and its distance.  A place is a point on a line or   *)
(* NoPlace; the distance on the sphere is the distance on the line.        *)
(***************************************************************************)
EXTENDS FiniteSetsExt, Subsequences

CONSTANTS MAX_MATCH_DISTANCE_METERS, MAX_REAL_COMPLEX_MEMBERS

Rows == INSTANCE ScheduleRows

NoPlace == -1
REAL_COMPLEX_PREFIX == "mtc"

IsRealStationComplex(area, count) ==
  /\ area[1] = REAL_COMPLEX_PREFIX
  /\ area[2] # ""
  /\ count <= MAX_REAL_COMPLEX_MEMBERS

(* parse_stop_areas and filter_real_station_complexes.                     *)
RealStationComplexes(zip) ==
  UNION {{area} \X {zip.areas[area][n] : n \in DOMAIN zip.areas[area]} :
           area \in {a \in DOMAIN zip.areas : IsRealStationComplex(a, Len(zip.areas[a]))}}

(* Insert-or-ignore: what is in the table stays.                           *)
UpsertStopAreas(db, rows) == [db EXCEPT !.areas = @ \cup rows]

(* parse_stop_coordinates: the members that stops.txt has a place for.     *)
StopCoordinates(zip, members) ==
  LET InMembers(row) == row.stop \in members /\ row.place # NoPlace
  IN  EntriesAt(zip.stops, {n \in DOMAIN zip.stops : InMembers(zip.stops[n])})

Distance(x, y) == IF x < y THEN y - x ELSE x - y

(* The native stops with a place, and how far they are from a place.       *)
Placed(db) == EntriesAt(db.stops, {n \in DOMAIN db.stops : db.stops[n].place # NoPlace})

NativeIds(db) == {Placed(db)[n].stop : n \in DOMAIN Placed(db)}

Within(db, place) ==
  {n \in DOMAIN Placed(db) : Distance(Placed(db)[n].place, place) <= MAX_MATCH_DISTANCE_METERS}

(* The nearest one, the first of them if several are as near.              *)
Nearest(db, place) ==
  LET native == Placed(db)
      Far(n) == Distance(native[n].place, place)
  IN  native[CHOOSE n \in Within(db, place) :
               \A k \in Within(db, place) : Far(n) < Far(k) \/ (Far(n) = Far(k) /\ n <= k)]

Matched(db, row) == row.stop \notin NativeIds(db) /\ Within(db, row.place) # {}

(* match_regional_stops: a row for each regional id that no active system  *)
(* has as its own and that some stop of theirs is near.                    *)
MatchRegionalStops(db, coords) ==
  LET foreign == EntriesAt(coords, {n \in DOMAIN coords : Matched(db, coords[n])})
      Match(row) == LET native == Nearest(db, row.place)
                    IN  [key |-> <<native.system, native.stop>>, regional |-> row.stop,
                         distance |-> Distance(native.place, row.place)]
  IN  [n \in DOMAIN foreign |-> Match(foreign[n])]

(* Mutant: insert-or-ignore, as for the areas.                             *)
UpsertMatchesIgnore(db, rows) ==
  LET fresh == Rows!Dedupe(rows)
      RowOf(key) == fresh[CHOOSE n \in DOMAIN fresh : fresh[n].key = key]
      keys == {fresh[n].key : n \in DOMAIN fresh}
  IN  [db EXCEPT !.matches =
        [key \in DOMAIN @ \cup keys |->
           IF key \in DOMAIN @ THEN @[key]
           ELSE [regional |-> RowOf(key).regional, distance |-> RowOf(key).distance]]]

(* upsert_regional_stop_matches: insert or update by system and stop.      *)
UpsertMatches(db, rows) ==
  LET fresh == Rows!Dedupe(rows)
      RowOf(key) == fresh[CHOOSE n \in DOMAIN fresh : fresh[n].key = key]
      keys == {fresh[n].key : n \in DOMAIN fresh}
  IN  [db EXCEPT !.matches =
        [key \in DOMAIN @ \cup keys |->
           IF key \in keys
           THEN [regional |-> RowOf(key).regional, distance |-> RowOf(key).distance]
           ELSE @[key]]]

(* The task commits the areas before it matches: an exception in between   *)
(* leaves the first half.                                                  *)
IngestAreas(db, zip) == UpsertStopAreas(db, RealStationComplexes(zip))

FetchRegionalStopAreas(db, zip) ==
  LET rows == RealStationComplexes(zip)
      coords == StopCoordinates(zip, {row[2] : row \in rows})
      ingested == IngestAreas(db, zip)
  IN  UpsertMatches(ingested, MatchRegionalStops(ingested, coords))
=============================================================================
