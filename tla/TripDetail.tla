------------------------------ MODULE TripDetail ------------------------------
(***************************************************************************)
(* _tail_stops_after_anchor: the scheduled stops of a trip that the live   *)
(* feed does not cover any more.  A schedule is the sequence of its stops, *)
(* ordered by stop_sequence.                                               *)
(***************************************************************************)
EXTENDS Subsequences

Occurrences(stops, stop) == PlacesIn({n \in DOMAIN stops : stops[n] = stop}, Len(stops))

(* Mutant: the anchor is the first scheduled visit of the last live stop.  *)
AnchorFirst(schedule, live) ==
  LET visits == Occurrences(schedule, live[Len(live)])
  IN  IF visits = << >> THEN 0 ELSE visits[1]

(* The anchor: the scheduled visit of the last live stop with the number   *)
(* of times that the live feed has reported it; 0 if there is none.        *)
Anchor(schedule, live) ==
  LET last == live[Len(live)]
      visits == Occurrences(schedule, last)
      reported == Len(Occurrences(live, last))
  IN  IF Len(visits) < reported THEN 0 ELSE visits[reported]

TailStops(schedule, live) ==
  IF live = << >> \/ Anchor(schedule, live) = 0 THEN << >>
  ELSE SubSeq(schedule, Anchor(schedule, live) + 1, Len(schedule))
=============================================================================
