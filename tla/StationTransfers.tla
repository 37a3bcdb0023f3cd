--------------------------- MODULE StationTransfers ---------------------------
(***************************************************************************)
(* resolve_inter_system_transfers over the dicts of TransferCache: which   *)
(* other systems share the station of a stop.  `db` holds the rows that    *)
(* _load reads: areas (area, stop), stops (system, stop) of the active     *)
(* systems, and matches, the regional id of a system's stop where it has   *)
(* one of its own (the crosswalk).                                         *)
(***************************************************************************)

AreaIdsByStop(db, stop) == {row[1] : row \in {r \in db.areas : r[2] = stop}}
MembersByArea(db, area) == {row[2] : row \in {r \in db.areas : r[1] = area}}

(* Mutant: a crosswalked system is entered under its own stop ids only.    *)
SystemsByStopNative(db, stop) == {row[1] : row \in {r \in db.stops : r[2] = stop}}

SystemsByStop(db, stop) ==
  {row[1] : row \in {r \in db.stops : r[2] = stop}}
    \cup {m[1] : m \in {k \in DOMAIN db.matches : db.matches[k] = stop}}

EffectiveStop(db, system, stop) ==
  IF <<system, stop>> \in DOMAIN db.matches THEN db.matches[<<system, stop>>] ELSE stop

(* The other stops of its stations.                                        *)
Neighbours(db, stop) == (UNION {MembersByArea(db, a) : a \in AreaIdsByStop(db, stop)}) \ {stop}

ResolveTransfers(db, system, stop) ==
  (UNION {SystemsByStop(db, s) : s \in Neighbours(db, EffectiveStop(db, system, stop))})
    \ {system}
=============================================================================
