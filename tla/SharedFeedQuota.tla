--------------------------- MODULE SharedFeedQuota ---------------------------
(***************************************************************************)
(* SharedFeedQuota.try_consume: the in-memory rolling-hour budget that all *)
(* the transit systems of one quota_group draw on.  try_consume has no     *)
(* await, so on the event loop it is one atomic step.  The deque lives in  *)
(* the server process: a restart of the process empties it.                *)
(***************************************************************************)
EXTENDS Integers, Sequences

CONSTANTS
  Group,              \* names of quota groups a caller may pass
  QUOTA_GROUP_LIMITS, \* a function from the configured groups to their limits
  WINDOW_SECONDS,     \* the length of the rolling window, in ticks of `now`
  MaxTime,            \* bound of the runs: the clock stops here
  MaxRestarts         \* bound of the runs: how often the process restarts

Metered == DOMAIN QUOTA_GROUP_LIMITS

ASSUME QuotaAssumption ==
  /\ Metered \subseteq Group
  /\ QUOTA_GROUP_LIMITS \in [Metered -> Nat]
  /\ WINDOW_SECONDS \in Nat \ {0}
  /\ MaxTime \in Nat
  /\ MaxRestarts \in Nat

VARIABLES
  now,         \* time.monotonic()
  timestamps,  \* _timestamps: the deque of each metered group
  spends,      \* history: every spend this process granted
  earlier,     \* history: the spends granted by the processes before it
  restarts     \* how many processes came before

vars == <<now, timestamps, spends, earlier, restarts>>

Init ==
  /\ now = 0
  /\ timestamps = [g \in Metered |-> << >>]
  /\ spends = [g \in Metered |-> << >>]
  /\ earlier = [g \in Metered |-> << >>]
  /\ restarts = 0

-----------------------------------------------------------------------------

Expired(t) == now - t >= WINDOW_SECONDS

(* The popleft loop removes exactly the first k timestamps.                *)
Pops(g, k) ==
  /\ \A i \in 1..k : Expired(timestamps[g][i])
  /\ k < Len(timestamps[g]) => ~ Expired(timestamps[g][k + 1])

(* What the loop leaves after k pops.                                      *)
Live(g, k) == SubSeq(timestamps[g], k + 1, Len(timestamps[g]))

Unmetered(g) == g \notin Metered /\ UNCHANGED <<timestamps, spends>>

(* Mutant: `> limit` for `>= limit`, one spend too many.                   *)
GrantedOneTooMany(g) ==
  /\ g \in Metered
  /\ \E k \in 0..Len(timestamps[g]) :
       /\ Pops(g, k)
       /\ Len(Live(g, k)) <= QUOTA_GROUP_LIMITS[g]
       /\ timestamps' = [timestamps EXCEPT ![g] = Append(Live(g, k), now)]
       /\ spends' = [spends EXCEPT ![g] = Append(@, now)]

Granted(g) ==
  /\ g \in Metered
  /\ \E k \in 0..Len(timestamps[g]) :
       /\ Pops(g, k)
       /\ Len(Live(g, k)) < QUOTA_GROUP_LIMITS[g]
       /\ timestamps' = [timestamps EXCEPT ![g] = Append(Live(g, k), now)]
       /\ spends' = [spends EXCEPT ![g] = Append(@, now)]

(* Mutant: a refused call is recorded as well.                             *)
DeniedRecorded(g) ==
  /\ g \in Metered
  /\ \E k \in 0..Len(timestamps[g]) :
       /\ Pops(g, k)
       /\ Len(Live(g, k)) >= QUOTA_GROUP_LIMITS[g]
       /\ timestamps' = [timestamps EXCEPT ![g] = Append(Live(g, k), now)]
  /\ UNCHANGED spends

Denied(g) ==
  /\ g \in Metered
  /\ \E k \in 0..Len(timestamps[g]) :
       /\ Pops(g, k)
       /\ Len(Live(g, k)) >= QUOTA_GROUP_LIMITS[g]
       /\ timestamps' = [timestamps EXCEPT ![g] = Live(g, k)]
  /\ UNCHANGED spends

(* try_consume(g) returning `answer`.                                      *)
TryConsume(g, answer) ==
  /\ \/ answer /\ (Unmetered(g) \/ Granted(g))
     \/ ~ answer /\ Denied(g)
  /\ UNCHANGED <<now, earlier, restarts>>

Tick ==
  /\ now < MaxTime
  /\ now' = now + 1
  /\ UNCHANGED <<timestamps, spends, earlier, restarts>>

(* The class attribute is process memory: a new process starts empty.      *)
Restart ==
  /\ restarts < MaxRestarts
  /\ restarts' = restarts + 1
  /\ timestamps' = [g \in Metered |-> << >>]
  /\ earlier' = [g \in Metered |-> earlier[g] \o spends[g]]
  /\ spends' = [g \in Metered |-> << >>]
  /\ UNCHANGED now

Next ==
  \/ \E g \in Group, answer \in BOOLEAN : TryConsume(g, answer)
  \/ Tick
  \/ Restart

Spec == Init /\ [][Next]_vars

-----------------------------------------------------------------------------

(* The state has the types the code gives it.                              *)
TypeOK ==
  /\ now \in Nat
  /\ timestamps \in [Metered -> Seq(Nat)]
  /\ spends \in [Metered -> Seq(Nat)]
  /\ earlier \in [Metered -> Seq(Nat)]
  /\ restarts \in Nat

(* In a history of times, no window holds more than `limit` of them.       *)
WithinBudget(times, limit) ==
  \A i \in 1..Len(times) :
    i + limit <= Len(times) => times[i + limit] - times[i] >= WINDOW_SECONDS

(* The purpose of the class: the spends that one process grants to a group *)
(* never exceed the group's limit in any rolling window, wherever the      *)
(* window starts (the popleft loop and the length check of try_consume).   *)
WindowBound ==
  \A g \in Metered : WithinBudget(spends[g], QUOTA_GROUP_LIMITS[g])

(* The deque forgets nothing that still counts: what try_consume would     *)
(* decide from it is what the whole history of this process's spends would *)
(* decide, so a caller is refused only in a full window and never granted  *)
(* in one.                                                                 *)
DequeAgreesWithHistory ==
  \A g \in Metered : \A k \in 0..Len(timestamps[g]) :
    Pops(g, k) =>
      LET n     == Len(spends[g])
          limit == QUOTA_GROUP_LIMITS[g]
      IN  Len(Live(g, k)) < limit
            <=> limit > 0 /\ (n >= limit => Expired(spends[g][n - limit + 1]))

(* What holds across restarts, each of which empties the deque: any window *)
(* holds at most one budget per process that was alive in it.  The module  *)
(* docstring of quota_group_scheduler.py, "can never exceed the budget by  *)
(* construction", is true of one process only.                             *)
BudgetPerProcess ==
  \A g \in Metered :
    LET all   == earlier[g] \o spends[g]
        limit == QUOTA_GROUP_LIMITS[g]
    IN  WithinBudget(all, limit * (restarts + 1))

(* The inductive invariant of one group: its deque is the youngest part of *)
(* the history, and all of the rest of the history has expired.            *)
DequeIsSuffix(ts, history, limit) ==
  LET m == Len(ts)
      n == Len(history)
  IN  /\ m <= n
      /\ m <= limit
      /\ \A i \in 1..m : ts[i] = history[n - m + i]
      /\ \A i \in 1..(n - m) : Expired(history[i])

Ordered(times) ==
  /\ \A i \in 1..Len(times) : times[i] <= now
  /\ \A i, j \in 1..Len(times) : i <= j => times[i] <= times[j]

(* At every step the deque is the unexpired suffix of an ordered history   *)
(* that is within budget: the reason try_consume may pop from the left and *)
(* count what is left.                                                     *)
GroupInv(ts, history, limit) ==
  /\ DequeIsSuffix(ts, history, limit)
  /\ Ordered(history)
  /\ WithinBudget(history, limit)

QuotaInv ==
  \A g \in Metered : GroupInv(timestamps[g], spends[g], QUOTA_GROUP_LIMITS[g])

(* The deque and the history, as an abstract rolling window.               *)
Window == INSTANCE RollingWindow WITH spends <- spends, now <- now

(* try_consume implements the abstract rolling window: every grant happens *)
(* with room in the window.                                                *)
ImplementsRollingWindow == Window!Spec
=============================================================================
