----------------------------- MODULE Positioning -----------------------------
(***************************************************************************)
(* get_location: where a vehicle is now, from the predicted times of its   *)
(* trip.  A stop time has an arrival and a departure, either of which may  *)
(* be missing; `now` falls between them or on one.                         *)
(***************************************************************************)
EXTENDS Integers, Sequences, FiniteSetsExt

NoTime == -1
Nowhere == [status |-> "nowhere"]

Between(from, now, to) == from # NoTime /\ to # NoTime /\ from < now /\ now < to

AtStop(stops, n, now) == Between(stops[n].arrival, now, stops[n].departure)

(* Mutant: the way to a stop begins when the vehicle reaches the last one. *)
InTransitFromArrival(stops, n, now) ==
  n > 1 /\ Between(stops[n - 1].arrival, now, stops[n].arrival)

InTransit(stops, n, now) ==
  n > 1 /\ Between(stops[n - 1].departure, now, stops[n].arrival)

(* The loop returns at the first stop that the vehicle is at or going to.  *)
GetLocation(stops, now) ==
  LET hits == {n \in DOMAIN stops : AtStop(stops, n, now) \/ InTransit(stops, n, now)}
      n == Min(hits)
  IN  IF hits = {} THEN Nowhere
      ELSE IF AtStop(stops, n, now)
      THEN [status |-> "AT_STOP", stop |-> n,
            previous |-> stops[n].arrival, next |-> stops[n].departure]
      ELSE [status |-> "IN_TRANSIT", stop |-> n,
            previous |-> stops[n - 1].departure, next |-> stops[n].arrival]
=============================================================================
