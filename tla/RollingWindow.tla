---------------------------- MODULE RollingWindow ----------------------------
(***************************************************************************)
(* What SharedFeedQuota promises the callers of one server process, free   *)
(* of its deque: a spend is granted only when fewer than the group's       *)
(* limit were granted in the last WINDOW_SECONDS.  The only state is the   *)
(* history of granted spends of each group.                                *)
(***************************************************************************)
EXTENDS Integers, Sequences

CONSTANTS QUOTA_GROUP_LIMITS, WINDOW_SECONDS, MaxTime

VARIABLES now, spends

Metered == DOMAIN QUOTA_GROUP_LIMITS

Init ==
  /\ now = 0
  /\ spends = [g \in Metered |-> << >>]

(* Fewer than `limit` spends are younger than the window: the limit-th     *)
(* most recent one, if there is one, is at least a window old.             *)
HasRoom(g) ==
  LET limit == QUOTA_GROUP_LIMITS[g]
      n     == Len(spends[g])
  IN  limit > 0 /\ (n >= limit => now - spends[g][n - limit + 1] >= WINDOW_SECONDS)

Grant(g) ==
  /\ HasRoom(g)
  /\ spends' = [spends EXCEPT ![g] = Append(@, now)]
  /\ UNCHANGED now

Tick ==
  /\ now < MaxTime
  /\ now' = now + 1
  /\ UNCHANGED spends

(* A new process starts with no history.                                   *)
Restart ==
  /\ spends' = [g \in Metered |-> << >>]
  /\ UNCHANGED now

Next == Tick \/ Restart \/ \E g \in Metered : Grant(g)

Spec == Init /\ [][Next]_<<now, spends>>
=============================================================================
