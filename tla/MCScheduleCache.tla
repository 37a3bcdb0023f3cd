--------------------------- MODULE MCScheduleCache ---------------------------
(* The four SELECTs of ScheduleCache._load and five of the twelve dicts it *)
(* assigns, in their order: each differs from the others in the tables it  *)
(* is built from, and the first and the last of the twelve are among them. *)
EXTENDS ScheduleCache

CONSTANTS t1, t2

ScheduleSelects == <<"trip", "stop", "route", "transfer">>
ScheduleWrites ==
  <<"_trips", "_colors_by_trip", "_colors_by_stop", "_intra_transfers_by_stop", "_stops">>
ScheduleBuiltFrom == [d \in Elements(ScheduleWrites) |->
  CASE d = "_trips" -> {"trip"}
    [] d = "_colors_by_trip" -> {"trip", "route"}
    [] d = "_colors_by_stop" -> {"stop", "trip", "route"}
    [] d = "_intra_transfers_by_stop" -> {"transfer"}
    [] d = "_stops" -> {"stop"}]
=============================================================================
