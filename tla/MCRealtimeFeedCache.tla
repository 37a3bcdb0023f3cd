------------------------- MODULE MCRealtimeFeedCache -------------------------
(* Two keys of one metered group, one of them also written by set(), for   *)
(* the budget; one key and three callers for the contention on its lock.   *)
EXTENDS RealtimeFeedCache, TLC

CONSTANTS g511, direct, regional, t1, t2, t3

MCLimits == g511 :> 1
MCMinInterval == [s \in Key |-> 2]
MCGroupOf == [s \in Key |-> g511]
MCNoGroup == [s \in Key |-> NoGroup]
=============================================================================
