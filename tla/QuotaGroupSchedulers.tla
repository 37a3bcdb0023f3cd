------------------------ MODULE QuotaGroupSchedulers ------------------------
(***************************************************************************)
(* The two background tasks of one quota group: QuotaGroupScheduler.run,   *)
(* which refreshes one member per tick in rotation, and                    *)
(* RegionalFeedScheduler.run, which refreshes every regional member from   *)
(* one combined fetch per tick.  Both draw on the same SharedFeedQuota.    *)
(* Either may be absent: _start_quota_group_schedulers starts a scheduler  *)
(* for the members of its kind, the regional one only with an API key.     *)
(* HTTP requests fetch through the same RealtimeFeedCache.get: whoever     *)
(* calls it for a key holds that key's lock from the quota decision to the *)
(* end of the fetch, and the others wait.  The order of the waiters and    *)
(* what each of them returns is the subject of RealtimeFeedCache.tla; here *)
(* any of them may be next.                                                *)
(***************************************************************************)
EXTENDS Integers, Sequences, FiniteSets

CONSTANTS
  Group, QUOTA_GROUP_LIMITS, WINDOW_SECONDS, MaxTime, MaxRestarts,
  group,             \* the quota_group being served
  Startups,          \* what the database may hold when the process starts, each
                     \* with bounds of its runs: `until` for the clock, `demand`
                     \* for the get() calls that HTTP requests make
  ALERTS_TICK_EVERY,
  TickInterval,      \* tick_interval_seconds = 3600 / budget
  MaxLatency,        \* a fetch takes at most this long
  Request,           \* the HTTP requests that may be under way together
  PollInterval,      \* min_poll_interval_seconds of the members
  MaxFailures        \* bound of the runs: get() calls that raise

Elements(s) == {s[i] : i \in 1..Len(s)}
Budget == QUOTA_GROUP_LIMITS[group]

(* The members of a rotation: systems in some order, each of them once.    *)
Rotation(s, systems) ==
  /\ s \in Seq(systems)
  /\ \A i, j \in 1..Len(s) : s[i] = s[j] => i = j

ASSUME SchedulerAssumption ==
  /\ QUOTA_GROUP_LIMITS \in [DOMAIN QUOTA_GROUP_LIMITS -> Nat]
  /\ DOMAIN QUOTA_GROUP_LIMITS \subseteq Group
  /\ WINDOW_SECONDS \in Nat \ {0} /\ MaxTime \in Nat /\ MaxRestarts \in Nat
  /\ group \in DOMAIN QUOTA_GROUP_LIMITS
  /\ \A s \in Startups : /\ Rotation(s.members, Elements(s.members))
                         /\ Rotation(s.alerts, Elements(s.members))
                         /\ Elements(s.members) \cap s.regional = {}
                         /\ s.until \in 0..MaxTime /\ s.demand \in Nat
  /\ ALERTS_TICK_EVERY \in Nat \ {0, 1}
  /\ TickInterval \in Nat \ {0}
  /\ TickInterval * Budget = WINDOW_SECONDS
  /\ MaxLatency \in Nat /\ PollInterval \in Nat \ {0}
  /\ Request \cap {"direct", "regional"} = {}
  /\ MaxFailures \in Nat

VARIABLES
  now, timestamps, spends, earlier, restarts,  \* SharedFeedQuota
  startup,       \* the members the schedulers were started with
  tickCount,     \* _tick_count of each scheduler
  tripCursor,    \* _trip_updates_cursor
  alertsCursor,  \* _alerts_cursor
  phase,         \* where each scheduler's run() and each request is
  storedAt,      \* when each key was last stored in RealtimeFeedCache
  nextUpdateAt,  \* next_update_at of both schedulers
  turns,         \* history: the turns each direct member has had
  lastTurn,      \* history: when its latest TripUpdates turn began
  sent,          \* history: the requests sent, but for cold starts
  denials,       \* history: scheduled fetches refused by the quota
  failures, demand

quotaVars == <<timestamps, spends, earlier, restarts>>
historyVars == <<turns, lastTurn>>
vars == <<now, timestamps, spends, earlier, restarts, startup, tickCount, tripCursor,
          alertsCursor, phase, storedAt, nextUpdateAt, turns, lastTurn,
          sent, denials, failures, demand>>

Quota == INSTANCE SharedFeedQuota

Members == startup.members         \* QuotaGroupScheduler.members, in their order
AlertsMembers == startup.alerts    \* _alerts_members: those with an alerts_url
RegionalMembers == startup.regional

Duty == {"trips", "alerts"}
System == Elements(Members) \cup RegionalMembers
Scheduler == (IF Members = << >> THEN {} ELSE {"direct"})
               \cup (IF RegionalMembers = {} THEN {} ELSE {"regional"})
Task == Scheduler \cup Request
Caller == Task \ {"regional"}      \* those who fetch through get()
Never == -1

Idle == [at |-> "idle"]
Sleeping(until) == [at |-> "sleeping", until |-> until]

Init ==
  /\ Quota!Init
  /\ startup \in Startups
  /\ tickCount = [c \in Scheduler |-> 0]
  /\ tripCursor = 0
  /\ alertsCursor = 0
  /\ phase = [t \in Task |-> IF t \in Scheduler THEN Sleeping(0) ELSE Idle]
  /\ storedAt = [d \in Duty |-> [m \in System |-> Never]]
  /\ nextUpdateAt = [m \in System |->
       IF m \in RegionalMembers THEN TickInterval
       ELSE (CHOOSE i \in 1..Len(Members) : Members[i] = m) * TickInterval]
  /\ turns = [d \in Duty |-> [m \in Elements(Members) |-> 0]]
  /\ lastTurn = [m \in Elements(Members) |-> 0]
  /\ sent = << >>
  /\ denials = 0
  /\ failures = 0
  /\ demand = 0

-----------------------------------------------------------------------------

Due(c) == c \in Scheduler /\ phase[c].at = "sleeping" /\ now >= phase[c].until

DutyOfTick(c) == IF tickCount'[c] % ALERTS_TICK_EVERY = 0 THEN "alerts" ELSE "trips"

CountTick(c) == tickCount' = [tickCount EXCEPT ![c] = @ + 1]

(* Mutant: the pause is one second short.                                  *)
SleepTooShort(c) == phase' = [phase EXCEPT ![c] = Sleeping(now + TickInterval - 1)]

(* run() after a tick, however it ended: asyncio.sleep(interval).          *)
Sleep(c) == phase' = [phase EXCEPT ![c] = Sleeping(now + TickInterval)]

(* A task inside get() for a key, or in the combined fetch.                *)
Enter(t, place, m, d) ==
  phase' = [phase EXCEPT ![t] = [at |-> place, member |-> m, duty |-> d, since |-> now]]

At(t, place, m, d) == phase[t].at = place /\ phase[t].member = m /\ phase[t].duty = d

(* The lock of a key: held over the fetch; set() does not take it.         *)
LockHeld(m, d) == \E t \in Caller : At(t, "fetching", m, d)
LockBusy(m, d) == LockHeld(m, d) \/ \E t \in Caller : At(t, "waiting", m, d)

(* A request leaves the process; a cold start is not recorded.             *)
Send(cold) == sent' = IF cold THEN sent ELSE Append(sent, now)

(* get() under the lock when the cached feed is too old: the quota allows  *)
(* the fetch, or nothing is cached; or the old feed is served.             *)
FetchUnderLock(t, m, d) ==
  /\ \/ Quota!TryConsume(group, TRUE)
     \/ Quota!TryConsume(group, FALSE) /\ storedAt[d][m] = Never
  /\ Enter(t, "fetching", m, d)
  /\ Send(storedAt[d][m] = Never)

ServeCached(m, d) ==
  /\ storedAt[d][m] # Never
  /\ Quota!TryConsume(group, FALSE)
  /\ UNCHANGED sent

WaitForLock(t, m, d) ==
  /\ LockBusy(m, d)
  /\ Enter(t, "waiting", m, d)
  /\ UNCHANGED <<now, quotaVars, sent>>

(* Mutant: the next turn is counted from the beginning of this one.        *)
PredictFromTurn(m) ==
  nextUpdateAt' = [nextUpdateAt EXCEPT ![m] = lastTurn[m] + Len(Members) * TickInterval]

Predict(m) ==
  nextUpdateAt' = [nextUpdateAt EXCEPT ![m] = now + Len(Members) * TickInterval]

(* Mutant: both duties advance one cursor.                                 *)
TakeTurnOneCursor(m, d) ==
  /\ \/ /\ d = "trips"
        /\ m = Members[tripCursor + 1]
        /\ lastTurn' = [lastTurn EXCEPT ![m] = now]
     \/ /\ d = "alerts"
        /\ AlertsMembers # << >>
        /\ m = AlertsMembers[(tripCursor % Len(AlertsMembers)) + 1]
        /\ UNCHANGED lastTurn
  /\ tripCursor' = (tripCursor + 1) % Len(Members)
  /\ turns' = [turns EXCEPT ![d][m] = @ + 1]
  /\ UNCHANGED alertsCursor

(* The member whose turn it is; the cursor moves on before the fetch.      *)
TakeTurn(m, d) ==
  /\ \/ /\ d = "trips"
        /\ m = Members[tripCursor + 1]
        /\ tripCursor' = (tripCursor + 1) % Len(Members)
        /\ lastTurn' = [lastTurn EXCEPT ![m] = now]
        /\ UNCHANGED alertsCursor
     \/ /\ d = "alerts"
        /\ AlertsMembers # << >>
        /\ m = AlertsMembers[alertsCursor + 1]
        /\ alertsCursor' = (alertsCursor + 1) % Len(AlertsMembers)
        /\ UNCHANGED <<tripCursor, lastTurn>>
  /\ turns' = [turns EXCEPT ![d][m] = @ + 1]

(* get() of a direct turn once it has the lock: the fetch begins, or the   *)
(* quota refuses, get() returns the cached feed and the tick ends.         *)
DirectGet(m, d) ==
  \/ /\ FetchUnderLock("direct", m, d)
     /\ UNCHANGED <<nextUpdateAt, denials>>
  \/ /\ ServeCached(m, d)
     /\ IF d = "trips" THEN Predict(m) ELSE UNCHANGED nextUpdateAt
     /\ denials' = denials + 1
     /\ Sleep("direct")

(* QuotaGroupScheduler.tick up to the await of its fetch, or of the lock   *)
(* of its key when an HTTP request has it.                                 *)
DirectTurn(m) ==
  /\ Due("direct")
  /\ CountTick("direct")
  /\ LET d == DutyOfTick("direct")
     IN  /\ TakeTurn(m, d)
         /\ \/ ~LockBusy(m, d) /\ DirectGet(m, d)
            \/ WaitForLock("direct", m, d) /\ UNCHANGED <<nextUpdateAt, denials>>
  /\ UNCHANGED <<storedAt, failures, demand>>

(* The direct turn that waited gets the lock; with interval 0 a feed that  *)
(* was stored meanwhile is fetched again.                                  *)
DirectWakes(m, d) ==
  /\ "direct" \in Scheduler
  /\ At("direct", "waiting", m, d)
  /\ ~LockHeld(m, d)
  /\ DirectGet(m, d)
  /\ UNCHANGED <<tickCount, tripCursor, alertsCursor, storedAt, historyVars,
                 failures, demand>>

(* Mutant: the tick without an alerts member skips a TripUpdates turn.     *)
DirectIdleTickSkips ==
  /\ Due("direct")
  /\ CountTick("direct")
  /\ DutyOfTick("direct") = "alerts"
  /\ AlertsMembers = << >>
  /\ tripCursor' = (tripCursor + 1) % Len(Members)
  /\ Sleep("direct")
  /\ UNCHANGED <<now, quotaVars, alertsCursor, storedAt, nextUpdateAt,
                 historyVars, sent, denials, failures, demand>>

(* An alerts tick when no member has an alerts_url.                        *)
DirectIdleTick ==
  /\ Due("direct")
  /\ CountTick("direct")
  /\ DutyOfTick("direct") = "alerts"
  /\ AlertsMembers = << >>
  /\ Sleep("direct")
  /\ UNCHANGED <<now, quotaVars, tripCursor, alertsCursor, storedAt, nextUpdateAt,
                 historyVars, sent, denials, failures, demand>>

FetchDone(c, d) == c \in Scheduler /\ phase[c].at = "fetching" /\ phase[c].duty = d

(* The fetch of a direct turn succeeded: get() stores it, and a            *)
(* TripUpdates turn predicts the member's next one.                        *)
DirectFetched(d) ==
  /\ FetchDone("direct", d)
  /\ LET m == phase["direct"].member
     IN  /\ storedAt' = [storedAt EXCEPT ![d][m] = now]
         /\ IF d = "trips" THEN Predict(m) ELSE UNCHANGED nextUpdateAt
  /\ Sleep("direct")
  /\ UNCHANGED <<now, quotaVars, tickCount, tripCursor, alertsCursor, historyVars,
                 sent, denials, failures, demand>>

(* Mutant: the regional fetch does not ask the shared budget.              *)
RegionalTickUnmetered ==
  /\ Due("regional")
  /\ CountTick("regional")
  /\ Enter("regional", "fetching", "all", DutyOfTick("regional"))
  /\ Send(FALSE)
  /\ UNCHANGED <<now, quotaVars, tripCursor, alertsCursor, storedAt, nextUpdateAt,
                 historyVars, denials, failures, demand>>

(* RegionalFeedScheduler.tick: it asks the quota itself.                   *)
RegionalTick ==
  /\ Due("regional")
  /\ CountTick("regional")
  /\ \/ /\ Quota!TryConsume(group, TRUE)
        /\ Enter("regional", "fetching", "all", DutyOfTick("regional"))
        /\ Send(FALSE)
        /\ UNCHANGED denials
     \/ /\ Quota!TryConsume(group, FALSE)
        /\ denials' = denials + 1
        /\ Sleep("regional")
        /\ UNCHANGED sent
  /\ UNCHANGED <<tripCursor, alertsCursor, storedAt, nextUpdateAt, historyVars,
                 failures, demand>>

(* The combined feed arrived: set() for the members it mentions, and for   *)
(* no others.                                                              *)
RegionalFetched(d, mentioned) ==
  /\ FetchDone("regional", d)
  /\ storedAt' = [storedAt EXCEPT ![d] =
                    [m \in System |-> IF m \in mentioned THEN now ELSE storedAt[d][m]]]
  /\ nextUpdateAt' = [m \in System |-> IF m \in mentioned /\ d = "trips"
                                       THEN now + TickInterval ELSE nextUpdateAt[m]]
  /\ Sleep("regional")
  /\ UNCHANGED <<now, quotaVars, tickCount, tripCursor, alertsCursor, historyVars,
                 sent, denials, failures, demand>>

(* The fetch of either scheduler raised: run() logs it and sleeps.         *)
FetchRaised(c) ==
  /\ c \in Scheduler
  /\ phase[c].at = "fetching"
  /\ failures < MaxFailures
  /\ failures' = failures + 1
  /\ Sleep(c)
  /\ UNCHANGED <<now, quotaVars, tickCount, tripCursor, alertsCursor, storedAt,
                 nextUpdateAt, historyVars, sent, denials, demand>>

Leave(r) == phase' = [phase EXCEPT ![r] = Idle]

Fresh(m, d) == storedAt[d][m] # Never /\ now - storedAt[d][m] < PollInterval

(* get() of an HTTP request once it has the lock.                          *)
RequestGet(r, m, d) ==
  \/ FetchUnderLock(r, m, d)
  \/ ServeCached(m, d) /\ Leave(r)

(* An HTTP request finds a member's feed too old, or missing.              *)
RequestCalls(r, m, d) ==
  /\ phase[r] = Idle
  /\ demand < startup.demand /\ demand' = demand + 1
  /\ ~Fresh(m, d)
  /\ \/ ~LockBusy(m, d) /\ RequestGet(r, m, d)
     \/ WaitForLock(r, m, d)
  /\ UNCHANGED <<tickCount, tripCursor, alertsCursor, storedAt, nextUpdateAt,
                 historyVars, denials, failures>>

(* A request that waited gets the lock and looks again.                    *)
RequestWakes(r, m, d) ==
  /\ At(r, "waiting", m, d)
  /\ ~LockHeld(m, d)
  /\ \/ ~Fresh(m, d) /\ RequestGet(r, m, d)
     \/ Fresh(m, d) /\ Leave(r) /\ UNCHANGED <<now, quotaVars, sent>>
  /\ UNCHANGED <<tickCount, tripCursor, alertsCursor, storedAt, nextUpdateAt,
                 historyVars, denials, failures, demand>>

RequestFetched(r) ==
  /\ phase[r].at = "fetching"
  /\ storedAt' = [storedAt EXCEPT ![phase[r].duty][phase[r].member] = now]
  /\ Leave(r)
  /\ UNCHANGED <<now, quotaVars, tickCount, tripCursor, alertsCursor, nextUpdateAt,
                 historyVars, sent, denials, failures, demand>>

(* The request's fetch raised, or its client went away.                    *)
RequestFails(r) ==
  /\ phase[r] # Idle
  /\ failures < MaxFailures /\ failures' = failures + 1
  /\ Leave(r)
  /\ UNCHANGED <<now, quotaVars, tickCount, tripCursor, alertsCursor, storedAt,
                 nextUpdateAt, historyVars, sent, denials, demand>>

(* The event loop runs a due task, and the next holder of a lock, before   *)
(* time moves on, and no fetch lasts longer than its timeout.              *)
OnTime ==
  \A t \in Task :
    /\ phase[t].at = "sleeping" => now < phase[t].until
    /\ phase[t].at = "fetching" => now < phase[t].since + MaxLatency
    /\ phase[t].at = "waiting" => LockHeld(phase[t].member, phase[t].duty)

Tick ==
  /\ OnTime
  /\ now < startup.until
  /\ Quota!Tick
  /\ UNCHANGED <<tickCount, tripCursor, alertsCursor, phase, storedAt, nextUpdateAt,
                 historyVars, sent, denials, failures, demand>>

(* The clock of the run has reached its bound.                             *)
ClockStopped == now = startup.until /\ UNCHANGED vars

Step ==
  \/ \E m \in Elements(Members) :
       DirectTurn(m) \/ \E d \in Duty : DirectWakes(m, d)
  \/ DirectIdleTick
  \/ \E d \in Duty : DirectFetched(d)
  \/ RegionalTick
  \/ \E d \in Duty, mentioned \in SUBSET RegionalMembers : RegionalFetched(d, mentioned)
  \/ \E c \in Scheduler : FetchRaised(c)
  \/ \E r \in Request, m \in System, d \in Duty :
       RequestCalls(r, m, d) \/ RequestWakes(r, m, d)
  \/ \E r \in Request : RequestFetched(r) \/ RequestFails(r)
  \/ Tick

Next ==
  \/ Step /\ UNCHANGED startup
  \/ ClockStopped

Spec == Init /\ [][Next]_vars

-----------------------------------------------------------------------------

SchedulerTypes ==
  /\ startup \in Startups
  /\ tickCount \in [Scheduler -> Nat]
  /\ tripCursor \in Nat /\ (Members # << >> => tripCursor < Len(Members))
  /\ alertsCursor \in Nat /\ (AlertsMembers # << >> => alertsCursor < Len(AlertsMembers))
  /\ phase \in [Task -> {Idle} \cup [at : {"sleeping"}, until : Nat]
                  \cup [at : {"fetching", "waiting"}, member : System \cup {"all"},
                        duty : Duty, since : Nat]]
  /\ storedAt \in [Duty -> [System -> Nat \cup {Never}]]
  /\ nextUpdateAt \in [System -> Nat]
  /\ turns \in [Duty -> [Elements(Members) -> Nat]]
  /\ lastTurn \in [Elements(Members) -> Nat]
  /\ sent \in Seq(Nat)
  /\ denials \in Nat /\ failures \in 0..MaxFailures /\ demand \in 0..startup.demand

(* The types of the state.                                                 *)
TypeOK == Quota!TypeOK /\ SchedulerTypes

(* "The pacing IS the enforcement": a scheduler that sleeps 3600 / budget  *)
(* after every tick, however long its fetches take and however they end,   *)
(* never finds the budget spent, as long as nobody else draws on it.       *)
NoTurnDenied == RegionalMembers = {} /\ demand = 0 => denials = 0

(* Whatever the two schedulers and HTTP requests do together, every window *)
(* holds at most `budget` of their requests (try_consume is the backstop), *)
(* cold starts apart.                                                      *)
BudgetRespected == Quota!WithinBudget(sent, Budget)

(* "Every member gets an equal turn": at any time no member of a rotation  *)
(* is more than one turn ahead of another, also when turns fail.           *)
EqualTurns ==
  /\ \A m, n \in Elements(Members) : turns["trips"][m] - turns["trips"][n] <= 1
  /\ \A m, n \in Elements(AlertsMembers) : turns["alerts"][m] - turns["alerts"][n] <= 1

(* The ticks in which `n` successive TripUpdates turns certainly happen:   *)
(* n of them and the alerts ticks that may fall between.                   *)
TicksFor(n) == n + (n + ALERTS_TICK_EVERY - 2) \div (ALERTS_TICK_EVERY - 1)

(* A tick may wait for the lock as long as a request's fetch lasts, and    *)
(* then fetch for as long itself.                                          *)
Spacing == TickInterval + 2 * MaxLatency

(* The countdown to the next update is never off by more than one tick     *)
(* early or by the alerts ticks and the latencies of one rotation late,    *)
(* while no fetch fails: the prediction is made from the moment a turn     *)
(* ends and does not know of alerts ticks.                                 *)
PredictionNearTurn ==
  [][\A m \in Elements(Members) : (failures = 0 /\ lastTurn'[m] # lastTurn[m]) =>
       /\ nextUpdateAt[m] - now <= TickInterval
       /\ now - nextUpdateAt[m]
            <= (TicksFor(Len(Members)) - 1) * Spacing - (Len(Members) - 1) * TickInterval]_vars
=============================================================================
