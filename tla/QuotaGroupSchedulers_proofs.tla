--------------------- MODULE QuotaGroupSchedulers_proofs ---------------------
(***************************************************************************)
(* Proofs about QuotaGroupSchedulers, for every set of members, budget and *)
(* latency: both schedulers and the HTTP requests charge the shared quota  *)
(* by calls of try_consume only, so its theorems hold here; what they send *)
(* stays within the budget; the rotations give equal turns; and a direct   *)
(* scheduler that has the budget for itself is never refused.              *)
(***************************************************************************)
EXTENDS QuotaGroupSchedulers, TLAPS

QuotaTheory == INSTANCE SharedFeedQuota_proofs

(* A step calls try_consume once, or leaves the quota alone.               *)
LEMMA StepIsQuotaStep ==
  ASSUME [Next]_vars
  PROVE  [Quota!Next]_(Quota!vars)
<1> DEFINE Charge == Quota!TryConsume(group, TRUE) \/ Quota!TryConsume(group, FALSE)
<1>1. Charge => Quota!Next
  BY SchedulerAssumption DEF Quota!Next
<1> HIDE DEF Charge
<1> DEFINE Served(t, m, d) == FetchUnderLock(t, m, d) \/ ServeCached(m, d)
           Waits(t, m, d) == WaitForLock(t, m, d)
<1>a. ASSUME NEW t, NEW m, NEW d, Served(t, m, d)
      PROVE  Charge
  BY <1>a DEF FetchUnderLock, ServeCached, Charge
<1>b. ASSUME NEW t, NEW m, NEW d, Waits(t, m, d)
      PROVE  UNCHANGED Quota!vars
  BY <1>b DEF WaitForLock, quotaVars, Quota!vars
<1> HIDE DEF Served, Waits
<1>2. ASSUME NEW m \in Elements(Members), NEW d \in Duty, DirectTurn(m) \/ DirectWakes(m, d)
      PROVE  Charge \/ UNCHANGED Quota!vars
  <2>1. CASE DirectTurn(m)
    <3> DEFINE e == DutyOfTick("direct")
    <3>1. Served("direct", m, e) \/ Waits("direct", m, e)
      BY <2>1 DEF DirectTurn, DirectGet, Served, Waits
    <3> HIDE DEF e
    <3>2. QED BY <1>a, <1>b, <3>1
  <2>2. CASE DirectWakes(m, d)
    <3>1. Served("direct", m, d)
      BY <2>2 DEF DirectWakes, DirectGet, Served
    <3>2. QED BY <1>a, <3>1
  <2>3. QED BY <1>2, <2>1, <2>2
<1>3. ASSUME RegionalTick
      PROVE  Charge
  BY <1>3 DEF RegionalTick, Charge
<1>4. ASSUME NEW r \in Request, NEW m \in System, NEW d \in Duty,
             RequestCalls(r, m, d) \/ RequestWakes(r, m, d)
      PROVE  Charge \/ UNCHANGED Quota!vars
  <2>1. Served(r, m, d) \/ Waits(r, m, d) \/ UNCHANGED <<now, quotaVars>>
    BY <1>4 DEF RequestCalls, RequestWakes, RequestGet, Served, Waits
  <2>2. QED BY <1>a, <1>b, <2>1 DEF quotaVars, Quota!vars
<1>5. CASE Tick
  BY <1>5 DEF Tick, Quota!Next
<1>6. ASSUME DirectIdleTick \/ (\E d \in Duty : DirectFetched(d))
               \/ (\E d \in Duty, mentioned \in SUBSET RegionalMembers : RegionalFetched(d, mentioned))
               \/ (\E c \in Scheduler : FetchRaised(c)) \/ UNCHANGED vars
               \/ (\E r \in Request : RequestFetched(r) \/ RequestFails(r))
      PROVE  UNCHANGED Quota!vars
  BY <1>6 DEF DirectIdleTick, DirectFetched, RegionalFetched, FetchRaised, RequestFetched,
              RequestFails, quotaVars, vars, Quota!vars
<1>7. "trips" \in Duty
  BY DEF Duty
<1>8. QED
  BY <1>1, <1>2, <1>3, <1>4, <1>5, <1>6, <1>7 DEF Next, Step, ClockStopped

(* The group's budget is charged as SharedFeedQuota specifies.             *)
LEMMA QuotaUsed == Spec => Quota!Spec
<1>1. Init => Quota!Init
  BY DEF Init
<1>2. QED BY <1>1, StepIsQuotaStep, PTL DEF Spec, Quota!Spec

LEMMA SameQuota == Spec => QuotaTheory!Spec
<1>1. Quota!Init => QuotaTheory!Init
  BY DEF Quota!Init, QuotaTheory!Init, Quota!Metered, QuotaTheory!Metered
<1>2. [Quota!Next]_(Quota!vars) => [QuotaTheory!Next]_(QuotaTheory!vars)
  BY DEF Quota!Next, Quota!vars, Quota!TryConsume, Quota!Tick, Quota!Restart, Quota!Metered,
         Quota!Unmetered, Quota!Granted, Quota!Denied, Quota!Pops, Quota!Live, Quota!Expired,
         QuotaTheory!Next, QuotaTheory!vars, QuotaTheory!TryConsume, QuotaTheory!Tick,
         QuotaTheory!Restart, QuotaTheory!Metered, QuotaTheory!Unmetered,
         QuotaTheory!Granted, QuotaTheory!Denied, QuotaTheory!Pops, QuotaTheory!Live,
         QuotaTheory!Expired
<1>3. QED
  BY <1>1, <1>2, QuotaUsed, PTL DEF Quota!Spec, QuotaTheory!Spec

LEMMA TheoryApplies == QuotaTheory!QuotaAssumption
BY SchedulerAssumption DEF QuotaTheory!QuotaAssumption, QuotaTheory!Metered

(* What the quota's theorems say of the history of the group's spends.     *)
Granted == spends[group]

QuotaFacts ==
  /\ Quota!TypeOK
  /\ Quota!WithinBudget(Granted, Budget)
  /\ \A i \in 1..Len(Granted) : Granted[i] <= now
  /\ \A i, j \in 1..Len(Granted) : i <= j => Granted[i] <= Granted[j]
  /\ Quota!DequeAgreesWithHistory

LEMMA QuotaFactsHold == Spec => []QuotaFacts
<1>1. QuotaTheory!Spec => []QuotaTheory!TypeOK
  BY QuotaTheory!TypeCorrect, TheoryApplies, Zenon DEF QuotaTheory!TypeCorrect
<1>2. QuotaTheory!Spec => []QuotaTheory!QuotaInv
  BY QuotaTheory!QuotaInvariant, TheoryApplies, Zenon DEF QuotaTheory!QuotaInvariant
<1>3. QuotaTheory!Spec => []QuotaTheory!DequeAgreesWithHistory
  BY QuotaTheory!DequeAgrees, TheoryApplies, Zenon DEF QuotaTheory!DequeAgrees
<1>4. QuotaTheory!TypeOK => Quota!TypeOK
  BY DEF Quota!TypeOK, QuotaTheory!TypeOK, Quota!Metered, QuotaTheory!Metered
<1>5. QuotaTheory!QuotaInv =>
        /\ Quota!WithinBudget(Granted, Budget)
        /\ \A i \in 1..Len(Granted) : Granted[i] <= now
        /\ \A i, j \in 1..Len(Granted) : i <= j => Granted[i] <= Granted[j]
  BY SchedulerAssumption
     DEF QuotaTheory!QuotaInv, QuotaTheory!GroupInv, QuotaTheory!Ordered,
         QuotaTheory!WithinBudget, QuotaTheory!Metered, Quota!WithinBudget, Granted, Budget
<1>6. QuotaTheory!DequeAgreesWithHistory => Quota!DequeAgreesWithHistory
  BY DEF Quota!DequeAgreesWithHistory, QuotaTheory!DequeAgreesWithHistory, Quota!Metered,
         QuotaTheory!Metered, Quota!Pops, QuotaTheory!Pops, Quota!Live, QuotaTheory!Live,
         Quota!Expired, QuotaTheory!Expired
<1>7. QED BY <1>1, <1>2, <1>3, <1>4, <1>5, <1>6, SameQuota, PTL DEF QuotaFacts

-----------------------------------------------------------------------------

(* The members of the two rotations, and of the regional feed.             *)
Startup ==
  /\ Rotation(Members, Elements(Members))
  /\ Rotation(AlertsMembers, Elements(Members))
  /\ Elements(Members) \cap RegionalMembers = {}

LEMMA ConstantTypes ==
  /\ TickInterval \in Nat /\ WINDOW_SECONDS \in Nat /\ Budget \in Nat
  /\ MaxFailures \in Nat /\ PollInterval \in Nat \ {0}
  /\ \A t, n \in Nat : t + n * TickInterval \in Nat
<1>1. /\ TickInterval \in Nat /\ WINDOW_SECONDS \in Nat
      /\ MaxFailures \in Nat /\ PollInterval \in Nat \ {0}
  BY SchedulerAssumption
<1>2. Budget \in Nat
  BY SchedulerAssumption DEF Budget
<1>3. \A t, n \in Nat : t + n * TickInterval \in Nat
  <2> SUFFICES ASSUME NEW t \in Nat, NEW n \in Nat PROVE t + n * TickInterval \in Nat
    OBVIOUS
  <2>1. n * TickInterval \in Nat
    BY <1>1
  <2>2. QED BY <2>1
<1>4. QED BY <1>1, <1>2, <1>3

LEMMA StartupRotations ==
  ASSUME SchedulerTypes
  PROVE  Startup
BY SchedulerAssumption DEF SchedulerTypes, Startup, Members, AlertsMembers, RegionalMembers

(* The member that has its turn, of either rotation.                       *)
LEMMA MemberOfTurn ==
  ASSUME SchedulerTypes, NEW m, NEW d \in Duty, Members # << >>, TakeTurn(m, d)
  PROVE  /\ m \in Elements(Members) /\ m \in System
         /\ tripCursor \in 0..(Len(Members) - 1)
         /\ Len(Members) \in Nat \ {0}
         /\ d = "trips" => /\ m = Members[tripCursor + 1]
                           /\ tripCursor' = (tripCursor + 1) % Len(Members)
                           /\ alertsCursor' = alertsCursor
                           /\ lastTurn' = [lastTurn EXCEPT ![m] = now]
         /\ d = "alerts" => /\ AlertsMembers # << >>
                            /\ Len(AlertsMembers) \in Nat \ {0}
                            /\ m = AlertsMembers[alertsCursor + 1]
                            /\ alertsCursor \in 0..(Len(AlertsMembers) - 1)
                            /\ alertsCursor' = (alertsCursor + 1) % Len(AlertsMembers)
                            /\ tripCursor' = tripCursor
                            /\ lastTurn' = lastTurn
         /\ turns' = [turns EXCEPT ![d][m] = @ + 1]
<1>1. Members \in Seq(Elements(Members)) /\ AlertsMembers \in Seq(Elements(Members))
  BY StartupRotations DEF Startup, Rotation
<1>2. tripCursor \in 0..(Len(Members) - 1) /\ Len(Members) \in Nat \ {0}
  <2>1. tripCursor \in Nat /\ tripCursor < Len(Members)
    BY DEF SchedulerTypes
  <2>2. Len(Members) \in Nat
    BY <1>1
  <2>3. QED BY <2>1, <2>2
<1>3. turns' = [turns EXCEPT ![d][m] = @ + 1]
  BY DEF TakeTurn
<1>4. CASE d = "trips"
  <2>1. /\ m = Members[tripCursor + 1] /\ tripCursor' = (tripCursor + 1) % Len(Members)
        /\ alertsCursor' = alertsCursor /\ lastTurn' = [lastTurn EXCEPT ![m] = now]
    BY <1>4 DEF TakeTurn
  <2>2. m \in Elements(Members)
    BY <1>1, <1>2, <2>1
  <2>3. QED BY <1>2, <1>3, <1>4, <2>1, <2>2 DEF System
<1>5. CASE d = "alerts"
  <2>1. /\ AlertsMembers # << >> /\ m = AlertsMembers[alertsCursor + 1]
        /\ alertsCursor' = (alertsCursor + 1) % Len(AlertsMembers)
        /\ tripCursor' = tripCursor /\ lastTurn' = lastTurn
    BY <1>5 DEF TakeTurn
  <2>2. Len(AlertsMembers) \in Nat \ {0} /\ alertsCursor \in 0..(Len(AlertsMembers) - 1)
    <3>1. alertsCursor \in Nat /\ alertsCursor < Len(AlertsMembers)
      BY <2>1 DEF SchedulerTypes
    <3>2. Len(AlertsMembers) \in Nat
      BY <1>1
    <3>3. QED BY <3>1, <3>2
  <2>3. m \in Elements(Members)
    BY <1>1, <2>1, <2>2
  <2>4. QED BY <1>2, <1>3, <1>5, <2>1, <2>2, <2>3 DEF System
<1>6. QED BY <1>4, <1>5 DEF Duty

(* The phases that a step gives a task.                                   *)
Phase == {Idle} \cup [at : {"sleeping"}, until : Nat]
           \cup [at : {"fetching", "waiting"}, member : System \cup {"all"}, duty : Duty,
                 since : Nat]

LEMMA PhaseTypes ==
  ASSUME SchedulerTypes, now \in Nat, NEW t \in Task
  PROVE  /\ Sleep(t) => phase' \in [Task -> Phase]
         /\ Leave(t) => phase' \in [Task -> Phase]
         /\ \A place \in {"fetching", "waiting"}, m \in System \cup {"all"}, d \in Duty :
              Enter(t, place, m, d) => phase' \in [Task -> Phase]
<1>1. Sleeping(now + TickInterval) \in Phase /\ Idle \in Phase
  BY SchedulerAssumption DEF Sleeping, Phase
<1>2. ASSUME NEW place \in {"fetching", "waiting"}, NEW m \in System \cup {"all"},
             NEW d \in Duty
      PROVE  [at |-> place, member |-> m, duty |-> d, since |-> now] \in Phase
  BY DEF Phase
<1>3. phase \in [Task -> Phase]
  BY DEF SchedulerTypes, Phase
<1>4. QED BY <1>1, <1>2, <1>3 DEF Sleep, Leave, Enter

(* What get() does once it has the lock, or while another has it: the fetch *)
(* is sent and charged, the cached feed is served, or the caller waits.    *)
LEMMA GetTypes ==
  ASSUME SchedulerTypes, now \in Nat, NEW t \in Task, NEW m \in System, NEW d \in Duty
  PROVE  /\ FetchUnderLock(t, m, d) => phase' \in [Task -> Phase] /\ sent' \in Seq(Nat)
         /\ WaitForLock(t, m, d) => phase' \in [Task -> Phase] /\ sent' = sent
         /\ ServeCached(m, d) => sent' = sent
<1>1. sent \in Seq(Nat) /\ Append(sent, now) \in Seq(Nat)
  <2>1. sent \in Seq(Nat)
    BY DEF SchedulerTypes
  <2>2. QED BY <2>1
<1>2. \A place \in {"fetching", "waiting"} : Enter(t, place, m, d) => phase' \in [Task -> Phase]
  <2>1. m \in System \cup {"all"}
    OBVIOUS
  <2>2. QED BY <2>1, PhaseTypes, Zenon
<1>3. QED BY <1>1, <1>2 DEF FetchUnderLock, WaitForLock, ServeCached, Send

LEMMA SentTypes ==
  ASSUME sent \in Seq(Nat), now \in Nat
  PROVE  Append(sent, now) \in Seq(Nat)
OBVIOUS

(* A turn, with the types of what it changes.                              *)
LEMMA DirectTurnTypes ==
  ASSUME SchedulerTypes, now \in Nat, NEW m \in Elements(Members), DirectTurn(m),
         startup' = startup
  PROVE  SchedulerTypes'
<1> DEFINE d == DutyOfTick("direct")
<1>1. /\ "direct" \in Scheduler /\ d \in Duty /\ TakeTurn(m, d)
      /\ tickCount' = [tickCount EXCEPT !["direct"] = @ + 1]
      /\ UNCHANGED <<storedAt, failures, demand>>
  BY DEF DirectTurn, Due, CountTick, DutyOfTick, Duty
<1> HIDE DEF d
<1>2. Members # << >>
  BY <1>1 DEF Scheduler
<1>3. /\ m \in System /\ Len(Members) \in Nat \ {0}
      /\ tripCursor \in 0..(Len(Members) - 1)
      /\ turns' = [turns EXCEPT ![d][m] = @ + 1]
  BY <1>1, <1>2, MemberOfTurn
<1>4. /\ tripCursor' \in Nat /\ tripCursor' < Len(Members)
      /\ alertsCursor' \in Nat /\ (AlertsMembers # << >> => alertsCursor' < Len(AlertsMembers))
      /\ lastTurn' \in [Elements(Members) -> Nat]
  <2>0. /\ tripCursor \in Nat /\ tripCursor < Len(Members) /\ alertsCursor \in Nat
        /\ (AlertsMembers # << >> => alertsCursor < Len(AlertsMembers))
        /\ lastTurn \in [Elements(Members) -> Nat]
    BY <1>2 DEF SchedulerTypes
  <2>a. \A n \in Nat \ {0}, k \in Nat : (k + 1) % n \in Nat /\ (k + 1) % n < n
    OBVIOUS
  <2>1. CASE d = "trips"
    <3>1. /\ tripCursor' = (tripCursor + 1) % Len(Members) /\ alertsCursor' = alertsCursor
          /\ lastTurn' = [lastTurn EXCEPT ![m] = now]
      BY <1>1, <1>2, <2>1, MemberOfTurn
    <3>2. tripCursor' \in Nat /\ tripCursor' < Len(Members)
      BY <1>3, <2>0, <2>a, <3>1
    <3>3. QED BY <2>0, <3>1, <3>2
  <2>2. CASE d = "alerts"
    <3>1. /\ alertsCursor' = (alertsCursor + 1) % Len(AlertsMembers)
          /\ tripCursor' = tripCursor /\ lastTurn' = lastTurn
          /\ Len(AlertsMembers) \in Nat \ {0}
      BY <1>1, <1>2, <2>2, MemberOfTurn
    <3>2. alertsCursor' \in Nat /\ alertsCursor' < Len(AlertsMembers)
      BY <2>0, <2>a, <3>1
    <3>3. QED BY <2>0, <3>1, <3>2
  <2>3. QED BY <1>1, <2>1, <2>2 DEF Duty
<1>5. turns' \in [Duty -> [Elements(Members) -> Nat]] /\ tickCount' \in [Scheduler -> Nat]
  <2>1. turns \in [Duty -> [Elements(Members) -> Nat]] /\ tickCount \in [Scheduler -> Nat]
    BY DEF SchedulerTypes
  <2>2. tickCount' \in [Scheduler -> Nat]
    BY <1>1, <2>1
  <2>3. turns[d][m] + 1 \in Nat
    BY <1>1, <2>1
  <2>4. turns' \in [Duty -> [Elements(Members) -> Nat]]
    BY <1>1, <1>3, <2>1, <2>3
  <2>5. QED BY <2>2, <2>4
<1>6. /\ phase' \in [Task -> Phase]
      /\ nextUpdateAt' \in [System -> Nat]
      /\ sent' \in Seq(Nat) /\ denials' \in Nat
  <2>1. \/ FetchUnderLock("direct", m, d) \/ WaitForLock("direct", m, d)
        \/ ServeCached(m, d) /\ Sleep("direct")
    BY DEF DirectTurn, DirectGet, d
  <2>a. "direct" \in Task /\ sent \in Seq(Nat)
    BY <1>1 DEF Task, SchedulerTypes
  <2>2. phase' \in [Task -> Phase] /\ sent' \in Seq(Nat)
    BY <1>1, <1>3, <2>1, <2>a, PhaseTypes, GetTypes
  <2>3. Predict(m) \/ nextUpdateAt' = nextUpdateAt
    BY DEF DirectTurn, DirectGet, d
  <2>4. now + Len(Members) * TickInterval \in Nat
    BY <1>3, ConstantTypes
  <2>5. nextUpdateAt' \in [System -> Nat]
    BY <1>3, <2>3, <2>4 DEF Predict, SchedulerTypes
  <2>6. denials' = denials \/ denials' = denials + 1
    BY DEF DirectTurn, DirectGet
  <2>7. denials' \in Nat
    BY <2>6 DEF SchedulerTypes
  <2>8. QED BY <2>2, <2>5, <2>7
<1>7. QED
  BY <1>1, <1>4, <1>5, <1>6
     DEF SchedulerTypes, Members, AlertsMembers, RegionalMembers, System, Scheduler, Task,
         Phase

(* Every other step, too, keeps the types of the schedulers' state.        *)
LEMMA SchedulerTypesStep ==
  ASSUME SchedulerTypes, now \in Nat, [Next]_vars
  PROVE  SchedulerTypes'
<1>0. startup' = startup
  BY DEF Next, ClockStopped, vars
<1> DEFINE Fixed == UNCHANGED <<tripCursor, alertsCursor, turns, lastTurn>>
<1>1. ASSUME NEW m \in Elements(Members), DirectTurn(m)
      PROVE  SchedulerTypes'
  BY <1>0, <1>1, DirectTurnTypes
<1>2. ASSUME tickCount' \in [Scheduler -> Nat], phase' \in [Task -> Phase],
             storedAt' \in [Duty -> [System -> Nat \cup {Never}]],
             nextUpdateAt' \in [System -> Nat], sent' \in Seq(Nat), denials' \in Nat,
             failures' \in 0..MaxFailures, demand' \in 0..startup.demand, Fixed
      PROVE  SchedulerTypes'
  BY <1>0, <1>2
     DEF SchedulerTypes, Members, AlertsMembers, RegionalMembers, System, Scheduler, Task,
         Phase
<1>3. /\ tickCount \in [Scheduler -> Nat] /\ phase \in [Task -> Phase]
      /\ storedAt \in [Duty -> [System -> Nat \cup {Never}]]
      /\ nextUpdateAt \in [System -> Nat] /\ sent \in Seq(Nat) /\ denials \in Nat
      /\ failures \in 0..MaxFailures /\ demand \in 0..startup.demand
      /\ startup.demand \in Nat /\ Scheduler \subseteq Task /\ Request \subseteq Task
  BY SchedulerAssumption DEF SchedulerTypes, Phase, Task
<1> HIDE DEF Fixed
<1>4. CASE DirectIdleTick
  <2>1. /\ "direct" \in Scheduler /\ Sleep("direct") /\ Fixed
        /\ tickCount' = [tickCount EXCEPT !["direct"] = @ + 1]
        /\ UNCHANGED <<storedAt, nextUpdateAt, sent, denials, failures, demand>>
    BY <1>4 DEF DirectIdleTick, Due, CountTick, Fixed, historyVars
  <2>2. phase' \in [Task -> Phase] /\ tickCount' \in [Scheduler -> Nat]
    BY <1>3, <2>1, PhaseTypes
  <2>3. QED BY <1>2, <1>3, <2>1, <2>2
<1>5. ASSUME NEW d \in Duty, DirectFetched(d)
      PROVE  SchedulerTypes'
  <2> DEFINE m == phase["direct"].member
  <2>1. /\ "direct" \in Scheduler /\ Sleep("direct") /\ Fixed
        /\ storedAt' = [storedAt EXCEPT ![d][m] = now]
        /\ Predict(m) \/ nextUpdateAt' = nextUpdateAt
        /\ UNCHANGED <<tickCount, sent, denials, failures, demand>>
    BY <1>5 DEF DirectFetched, FetchDone, Fixed, historyVars
  <2>2. phase' \in [Task -> Phase]
    BY <1>3, <2>1, PhaseTypes
  <2>3. storedAt' \in [Duty -> [System -> Nat \cup {Never}]]
    BY <1>3, <2>1
  <2>4. Len(Members) \in Nat
    BY StartupRotations DEF Startup, Rotation
  <2>5. now + Len(Members) * TickInterval \in Nat
    BY <2>4, ConstantTypes
  <2>6. nextUpdateAt' \in [System -> Nat]
    BY <1>3, <2>1, <2>5 DEF Predict
  <2>7. QED BY <1>2, <1>3, <2>1, <2>2, <2>3, <2>6
<1>6. CASE RegionalTick
  <2>1. /\ "regional" \in Scheduler /\ Fixed
        /\ tickCount' = [tickCount EXCEPT !["regional"] = @ + 1]
        /\ UNCHANGED <<storedAt, nextUpdateAt, failures, demand>>
    BY <1>6 DEF RegionalTick, Due, CountTick, Fixed, historyVars
  <2>a. Sleep("regional") \/ Enter("regional", "fetching", "all", DutyOfTick("regional"))
    BY <1>6 DEF RegionalTick
  <2>b. Sleep("regional") \/ \E d \in Duty : Enter("regional", "fetching", "all", d)
    <3>1. DutyOfTick("regional") \in Duty
      BY DEF DutyOfTick, Duty
    <3> DEFINE d == DutyOfTick("regional")
    <3> HIDE DEF d
    <3>2. d \in Duty /\ (Sleep("regional") \/ Enter("regional", "fetching", "all", d))
      BY <3>1, <2>a DEF d
    <3>3. QED BY <3>2
  <2>c. sent' = sent \/ sent' = Append(sent, now)
    BY <1>6 DEF RegionalTick, Send
  <2>d. denials' = denials \/ denials' = denials + 1
    BY <1>6 DEF RegionalTick
  <2>2. phase' \in [Task -> Phase] /\ tickCount' \in [Scheduler -> Nat]
    <3>1. phase' \in [Task -> Phase]
      <4>1. "all" \in System \cup {"all"}
        OBVIOUS
      <4>2. ASSUME NEW d \in Duty, Enter("regional", "fetching", "all", d)
            PROVE  phase' \in [Task -> Phase]
        BY <1>3, <2>1, <4>1, <4>2, PhaseTypes
      <4>3. Sleep("regional") => phase' \in [Task -> Phase]
        BY <1>3, <2>1, PhaseTypes
      <4>4. QED BY <2>b, <4>2, <4>3
    <3>2. tickCount' \in [Scheduler -> Nat]
      BY <1>3, <2>1
    <3>3. QED BY <3>1, <3>2, Zenon
  <2>3. sent' \in Seq(Nat) /\ denials' \in Nat
    <3>1. sent \in Seq(Nat) /\ denials \in Nat
      BY <1>3
    <3>2. sent' \in Seq(Nat)
      BY <2>c, <3>1, SentTypes
    <3>3. denials' \in Nat
      BY <2>d, <3>1
    <3>4. QED BY <3>2, <3>3
  <2>4. QED BY <1>2, <1>3, <2>1, <2>2, <2>3
<1>7. ASSUME NEW d \in Duty, NEW mentioned \in SUBSET RegionalMembers,
             RegionalFetched(d, mentioned)
      PROVE  SchedulerTypes'
  <2>1. /\ "regional" \in Scheduler /\ Sleep("regional") /\ Fixed
        /\ storedAt' = [storedAt EXCEPT ![d] =
                          [m \in System |-> IF m \in mentioned THEN now ELSE storedAt[d][m]]]
        /\ nextUpdateAt' = [m \in System |-> IF m \in mentioned /\ d = "trips"
                                             THEN now + TickInterval ELSE nextUpdateAt[m]]
        /\ UNCHANGED <<tickCount, sent, denials, failures, demand>>
    BY <1>7 DEF RegionalFetched, FetchDone, Fixed, historyVars
  <2>2. phase' \in [Task -> Phase]
    BY <1>3, <2>1, PhaseTypes
  <2>3. storedAt' \in [Duty -> [System -> Nat \cup {Never}]]
    BY <1>3, <2>1
  <2>4. nextUpdateAt' \in [System -> Nat]
    <3>1. now + TickInterval \in Nat
      BY ConstantTypes
    <3>2. \A m \in System : nextUpdateAt[m] \in Nat
      BY <1>3
    <3>3. QED BY <2>1, <3>1, <3>2
  <2>5. QED BY <1>2, <1>3, <2>1, <2>2, <2>3, <2>4
<1>8. ASSUME NEW c \in Scheduler, FetchRaised(c)
      PROVE  SchedulerTypes'
  <2>1. /\ Sleep(c) /\ Fixed /\ failures' = failures + 1 /\ failures < MaxFailures
        /\ UNCHANGED <<tickCount, storedAt, nextUpdateAt, sent, denials, demand>>
    BY <1>8 DEF FetchRaised, Fixed, historyVars
  <2>2. phase' \in [Task -> Phase]
    BY <1>3, <2>1, PhaseTypes
  <2>3. failures' \in 0..MaxFailures
    <3>1. failures \in Nat /\ failures < MaxFailures /\ MaxFailures \in Nat
      BY <1>3, <2>1, ConstantTypes
    <3>2. QED BY <2>1, <3>1
  <2>4. QED BY <1>2, <1>3, <2>1, <2>2, <2>3
<1>a. ASSUME NEW m \in Elements(Members), NEW d \in Duty, DirectWakes(m, d)
      PROVE  SchedulerTypes'
  <2>1. /\ "direct" \in Scheduler /\ Fixed
        /\ FetchUnderLock("direct", m, d) \/ (ServeCached(m, d) /\ Sleep("direct"))
        /\ Predict(m) \/ nextUpdateAt' = nextUpdateAt
        /\ denials' = denials \/ denials' = denials + 1
        /\ UNCHANGED <<tickCount, storedAt, failures, demand>>
    BY <1>a DEF DirectWakes, DirectGet, Fixed, historyVars
  <2>2. m \in System /\ Len(Members) \in Nat
    BY StartupRotations DEF System, Startup, Rotation
  <2>3. phase' \in [Task -> Phase] /\ sent' \in Seq(Nat)
    BY <1>3, <2>1, <2>2, PhaseTypes, GetTypes
  <2>4. now + Len(Members) * TickInterval \in Nat
    BY <2>2, ConstantTypes
  <2>5. nextUpdateAt' \in [System -> Nat]
    BY <1>3, <2>1, <2>4 DEF Predict
  <2>6. denials' \in Nat
    BY <1>3, <2>1
  <2>7. QED BY <1>2, <1>3, <2>1, <2>3, <2>5, <2>6
<1>b. ASSUME NEW r \in Request, NEW m \in System, NEW d \in Duty,
             RequestCalls(r, m, d) \/ RequestWakes(r, m, d)
      PROVE  SchedulerTypes'
  <2>1. /\ Fixed
        /\ \/ FetchUnderLock(r, m, d) \/ WaitForLock(r, m, d) \/ (ServeCached(m, d) /\ Leave(r))
           \/ sent' = sent /\ Leave(r)
        /\ demand' = demand \/ (demand' = demand + 1 /\ demand < startup.demand)
        /\ UNCHANGED <<tickCount, storedAt, nextUpdateAt, denials, failures>>
    BY <1>b DEF RequestCalls, RequestWakes, RequestGet, Fixed, historyVars
  <2>2. phase' \in [Task -> Phase] /\ sent' \in Seq(Nat)
    BY <1>3, <2>1, PhaseTypes, GetTypes
  <2>3. demand' \in 0..startup.demand
    <3> DEFINE most == startup.demand
    <3>1. most \in Nat /\ demand \in 0..most /\ (demand' = demand \/ (demand' = demand + 1 /\ demand < most))
      BY <1>3, <2>1
    <3> HIDE DEF most
    <3>2. demand' \in 0..most
      BY <3>1
    <3>3. QED BY <3>2 DEF most
  <2>4. QED BY <1>2, <1>3, <2>1, <2>2, <2>3
<1>9. ASSUME NEW r \in Request, RequestFetched(r) \/ RequestFails(r)
      PROVE  SchedulerTypes'
  <2>1. /\ Fixed /\ Leave(r)
        /\ \/ storedAt' = storedAt
           \/ /\ storedAt' = [storedAt EXCEPT ![phase[r].duty][phase[r].member] = now]
              /\ phase[r].at = "fetching"
        /\ failures' = failures \/ (failures < MaxFailures /\ failures' = failures + 1)
        /\ UNCHANGED <<tickCount, nextUpdateAt, sent, denials, demand>>
    BY <1>9 DEF RequestFetched, RequestFails, Fixed, historyVars
  <2>2. phase' \in [Task -> Phase]
    BY <1>3, <2>1, PhaseTypes
  <2>3. storedAt' \in [Duty -> [System -> Nat \cup {Never}]]
    <3> DEFINE d == phase[r].duty
               m == phase[r].member
    <3>1. phase[r].at = "fetching" => d \in Duty
      BY <1>3 DEF Phase, Idle
    <3>2. \/ storedAt' = storedAt
          \/ storedAt' = [storedAt EXCEPT ![d][m] = now] /\ d \in Duty
      BY <2>1, <3>1
    <3> HIDE DEF d, m
    <3>3. ASSUME d \in Duty
          PROVE  [storedAt EXCEPT ![d][m] = now] \in [Duty -> [System -> Nat \cup {Never}]]
      <4>1. storedAt[d] \in [System -> Nat \cup {Never}]
        BY <1>3, <3>3
      <4>2. [storedAt[d] EXCEPT ![m] = now] \in [System -> Nat \cup {Never}]
        BY <4>1
      <4>3. QED BY <1>3, <3>3, <4>2
    <3>4. QED BY <1>3, <3>2, <3>3
  <2>4. failures' \in 0..MaxFailures
    <3>1. failures \in Nat /\ failures <= MaxFailures /\ MaxFailures \in Nat
      BY <1>3, ConstantTypes
    <3>2. QED BY <2>1, <3>1
  <2>5. QED BY <1>2, <1>3, <2>1, <2>2, <2>3, <2>4
<1>10. CASE Tick \/ UNCHANGED vars
  <2>1. Fixed /\ UNCHANGED <<tickCount, phase, storedAt, nextUpdateAt, sent, denials,
                             failures, demand>>
    BY <1>10 DEF Tick, vars, historyVars, Fixed
  <2>2. QED BY <1>2, <1>3, <2>1
<1>11. QED
  BY <1>1, <1>4, <1>5, <1>6, <1>7, <1>8, <1>a, <1>b, <1>9, <1>10 DEF Next, Step, ClockStopped

(* The state of the schedulers and of their quota has its types.           *)
THEOREM TypeCorrect == Spec => []TypeOK
<1>1. Init => SchedulerTypes
  <2> SUFFICES ASSUME Init PROVE SchedulerTypes
    OBVIOUS
  <2>1. Startup
    BY SchedulerAssumption DEF Init, Startup, Members, AlertsMembers, RegionalMembers
  <2>2. nextUpdateAt \in [System -> Nat]
    <3>1. ASSUME NEW m \in System, m \notin RegionalMembers
          PROVE  (CHOOSE i \in 1..Len(Members) : Members[i] = m) * TickInterval \in Nat
      <4>1. \E i \in 1..Len(Members) : Members[i] = m
        BY <3>1 DEF System, Elements
      <4>2. Len(Members) \in Nat
        BY <2>1 DEF Startup, Rotation
      <4>3. (CHOOSE i \in 1..Len(Members) : Members[i] = m) \in 1..Len(Members)
        BY <4>1
      <4>4. QED BY <4>2, <4>3, SchedulerAssumption
    <3>2. QED BY <3>1, SchedulerAssumption DEF Init
  <2>3. phase \in [Task -> Phase]
    BY DEF Init, Sleeping, Phase
  <2>4. /\ startup \in Startups /\ tickCount \in [Scheduler -> Nat]
        /\ storedAt \in [Duty -> [System -> Nat \cup {Never}]]
        /\ turns \in [Duty -> [Elements(Members) -> Nat]]
        /\ lastTurn \in [Elements(Members) -> Nat] /\ sent \in Seq(Nat)
        /\ denials \in Nat /\ failures \in 0..MaxFailures /\ demand \in 0..startup.demand
    BY SchedulerAssumption DEF Init
  <2>5. /\ tripCursor \in Nat /\ (Members # << >> => tripCursor < Len(Members))
        /\ alertsCursor \in Nat /\ (AlertsMembers # << >> => alertsCursor < Len(AlertsMembers))
    BY <2>1 DEF Startup, Rotation, Init
  <2>6. QED BY <2>2, <2>3, <2>4, <2>5 DEF SchedulerTypes, Phase
<1>2. SchedulerTypes /\ QuotaFacts /\ [Next]_vars => SchedulerTypes'
  BY SchedulerTypesStep DEF QuotaFacts, Quota!TypeOK
<1>3. QuotaFacts => Quota!TypeOK
  BY DEF QuotaFacts
<1>4. QED BY <1>1, <1>2, <1>3, QuotaFactsHold, PTL DEF Spec, TypeOK

-----------------------------------------------------------------------------

(* A rotation in progress: the members before the cursor have had their    *)
(* turn of this round, the others have not.                                *)
RoundUnderWay(t, s, cursor) ==
  \E base \in Nat : \A i \in 1..Len(s) : t[s[i]] = IF i <= cursor THEN base + 1 ELSE base

(* Taking the turn at the cursor and moving it on continues the round, or  *)
(* begins the next one.                                                    *)
LEMMA TurnContinuesRound ==
  ASSUME NEW S, NEW s, Rotation(s, S), NEW t \in [S -> Nat], NEW c \in Nat, c < Len(s),
         RoundUnderWay(t, s, c)
  PROVE  RoundUnderWay([t EXCEPT ![s[c + 1]] = @ + 1], s, (c + 1) % Len(s))
<1> DEFINE u == [t EXCEPT ![s[c + 1]] = @ + 1]
<1>1. PICK base \in Nat : \A i \in 1..Len(s) : t[s[i]] = IF i <= c THEN base + 1 ELSE base
  BY DEF RoundUnderWay
<1>2. s \in Seq(S) /\ (\A i, j \in 1..Len(s) : s[i] = s[j] => i = j)
  BY DEF Rotation
<1>3. Len(s) \in Nat /\ c + 1 \in 1..Len(s)
  BY <1>2
<1>4. \A i \in 1..Len(s) : u[s[i]] = IF i <= c + 1 THEN base + 1 ELSE base
  <2> SUFFICES ASSUME NEW i \in 1..Len(s)
               PROVE  u[s[i]] = IF i <= c + 1 THEN base + 1 ELSE base
    OBVIOUS
  <2>1. s[i] \in S
    BY <1>2
  <2>2. CASE i = c + 1
    <3>1. t[s[i]] = base
      BY <1>1, <2>2
    <3>2. QED BY <2>1, <2>2, <3>1
  <2>3. CASE i # c + 1
    <3>1. s[i] # s[c + 1]
      BY <1>2, <1>3, <2>3
    <3>2. u[s[i]] = t[s[i]]
      BY <2>1, <3>1
    <3>3. QED BY <1>1, <2>3, <3>2
  <2>4. QED BY <2>2, <2>3
<1>5. CASE c + 1 < Len(s)
  <2>1. (c + 1) % Len(s) = c + 1
    BY <1>3, <1>5
  <2>2. RoundUnderWay(u, s, c + 1)
    BY <1>4 DEF RoundUnderWay
  <2>3. QED BY <2>1, <2>2
<1>6. CASE c + 1 = Len(s)
  <2>1. (c + 1) % Len(s) = 0
    BY <1>3, <1>6
  <2>2. \A i \in 1..Len(s) : u[s[i]] = IF i <= 0 THEN (base + 1) + 1 ELSE base + 1
    BY <1>3, <1>4, <1>6
  <2>3. RoundUnderWay(u, s, 0)
    BY <2>2, base + 1 \in Nat DEF RoundUnderWay
  <2>4. QED BY <2>1, <2>3
<1>7. QED BY <1>3, <1>5, <1>6

TurnInv ==
  /\ RoundUnderWay(turns["trips"], Members, tripCursor)
  /\ RoundUnderWay(turns["alerts"], AlertsMembers, alertsCursor)

LEMMA TurnInvStep ==
  ASSUME SchedulerTypes, TurnInv, [Next]_vars
  PROVE  TurnInv'
<1>0. startup' = startup
  BY DEF Next, ClockStopped, vars
<1>1. ASSUME NEW m \in Elements(Members), DirectTurn(m)
      PROVE  TurnInv'
  <2> DEFINE d == DutyOfTick("direct")
  <2>1. "direct" \in Scheduler /\ d \in Duty /\ TakeTurn(m, d)
    BY <1>1 DEF DirectTurn, Due, DutyOfTick, Duty
  <2> HIDE DEF d
  <2>2. Members # << >>
    BY <2>1 DEF Scheduler
  <2>3. turns' = [turns EXCEPT ![d][m] = @ + 1]
    BY <2>1, <2>2, MemberOfTurn
  <2>4. /\ turns \in [Duty -> [Elements(Members) -> Nat]]
        /\ tripCursor \in Nat /\ tripCursor < Len(Members) /\ alertsCursor \in Nat
        /\ (AlertsMembers # << >> => alertsCursor < Len(AlertsMembers))
    BY <2>2 DEF SchedulerTypes
  <2>5. /\ Rotation(Members, Elements(Members)) /\ Rotation(AlertsMembers, Elements(Members))
    BY StartupRotations DEF Startup
  <2>6. "trips" \in Duty /\ "alerts" \in Duty
    BY DEF Duty
  <2>7. CASE d = "trips"
    <3>1. m = Members[tripCursor + 1] /\ tripCursor' = (tripCursor + 1) % Len(Members)
          /\ alertsCursor' = alertsCursor
      BY <2>1, <2>2, <2>7, MemberOfTurn
    <3>2. turns'["alerts"] = turns["alerts"] /\ turns'["trips"] = [turns["trips"] EXCEPT ![m] = @ + 1]
      BY <2>3, <2>4, <2>6, <2>7
    <3>3. turns["trips"] \in [Elements(Members) -> Nat]
      BY <2>4, <2>6
    <3>4. RoundUnderWay(turns'["trips"], Members, tripCursor')
      <4> DEFINE t == turns["trips"]
      <4>1. RoundUnderWay(t, Members, tripCursor)
        BY DEF TurnInv
      <4>2. t \in [Elements(Members) -> Nat] /\ tripCursor \in Nat /\ tripCursor < Len(Members)
        BY <2>4, <3>1, <3>3
      <4>3. turns'["trips"] = [t EXCEPT ![Members[tripCursor + 1]] = @ + 1]
        BY <3>1, <3>2
      <4> HIDE DEF t
      <4>4. RoundUnderWay([t EXCEPT ![Members[tripCursor + 1]] = @ + 1], Members,
                          (tripCursor + 1) % Len(Members))
        BY <2>5, <4>1, <4>2, TurnContinuesRound, Zenon
      <4>5. QED BY <3>1, <4>3, <4>4, Zenon
    <3>5. RoundUnderWay(turns'["alerts"], AlertsMembers, alertsCursor')
      BY <3>1, <3>2 DEF TurnInv
    <3>6. QED BY <1>0, <3>4, <3>5 DEF TurnInv, RoundUnderWay, Members, AlertsMembers
  <2>8. CASE d = "alerts"
    <3>1. AlertsMembers # << >> /\ m = AlertsMembers[alertsCursor + 1]
          /\ alertsCursor' = (alertsCursor + 1) % Len(AlertsMembers)
          /\ tripCursor' = tripCursor
      BY <2>1, <2>2, <2>8, MemberOfTurn
    <3>2. turns'["trips"] = turns["trips"] /\ turns'["alerts"] = [turns["alerts"] EXCEPT ![m] = @ + 1]
      BY <2>3, <2>4, <2>6, <2>8
    <3>3. turns["alerts"] \in [Elements(Members) -> Nat]
      BY <2>4, <2>6
    <3>4. RoundUnderWay(turns'["alerts"], AlertsMembers, alertsCursor')
      <4> DEFINE t == turns["alerts"]
      <4>1. RoundUnderWay(t, AlertsMembers, alertsCursor)
        BY DEF TurnInv
      <4>2. t \in [Elements(Members) -> Nat] /\ alertsCursor \in Nat /\ alertsCursor < Len(AlertsMembers)
        BY <2>4, <3>1, <3>3
      <4>3. turns'["alerts"] = [t EXCEPT ![AlertsMembers[alertsCursor + 1]] = @ + 1]
        BY <3>1, <3>2
      <4> HIDE DEF t
      <4>4. RoundUnderWay([t EXCEPT ![AlertsMembers[alertsCursor + 1]] = @ + 1], AlertsMembers,
                          (alertsCursor + 1) % Len(AlertsMembers))
        BY <2>5, <4>1, <4>2, TurnContinuesRound, Zenon
      <4>5. QED BY <3>1, <4>3, <4>4, Zenon
    <3>5. RoundUnderWay(turns'["trips"], Members, tripCursor')
      BY <3>1, <3>2 DEF TurnInv
    <3>6. QED BY <1>0, <3>4, <3>5 DEF TurnInv, RoundUnderWay, Members, AlertsMembers
  <2>9. QED BY <2>1, <2>7, <2>8 DEF Duty
<1>2. ASSUME UNCHANGED <<turns, tripCursor, alertsCursor>>
      PROVE  TurnInv'
  BY <1>0, <1>2 DEF TurnInv, RoundUnderWay, Members, AlertsMembers
<1>3. ASSUME \/ DirectIdleTick \/ RegionalTick \/ Tick \/ UNCHANGED vars
             \/ (\E d \in Duty : DirectFetched(d))
             \/ (\E d \in Duty, mentioned \in SUBSET RegionalMembers : RegionalFetched(d, mentioned))
             \/ (\E c \in Scheduler : FetchRaised(c))
             \/ (\E m \in Elements(Members), d \in Duty : DirectWakes(m, d))
             \/ (\E r \in Request, m \in System, d \in Duty :
                   RequestCalls(r, m, d) \/ RequestWakes(r, m, d))
             \/ (\E r \in Request : RequestFetched(r) \/ RequestFails(r))
      PROVE  UNCHANGED <<turns, tripCursor, alertsCursor>>
  BY <1>3 DEF DirectIdleTick, RegionalTick, Tick, vars, DirectFetched, RegionalFetched,
              FetchRaised, DirectWakes, RequestCalls, RequestWakes, RequestFetched,
              RequestFails, historyVars
<1>4. QED BY <1>1, <1>2, <1>3 DEF Next, Step, ClockStopped

(* "Every member gets an equal turn", in any number of members and rounds  *)
(* and whatever becomes of the turns.                                      *)
THEOREM TurnsAreEqual == Spec => []EqualTurns
<1>1. Init => TurnInv
  <2> SUFFICES ASSUME Init PROVE TurnInv
    OBVIOUS
  <2>1. Rotation(Members, Elements(Members)) /\ Rotation(AlertsMembers, Elements(Members))
    BY SchedulerAssumption DEF Init, Members, AlertsMembers
  <2>2. /\ \A i \in 1..Len(Members) : Members[i] \in Elements(Members)
        /\ \A i \in 1..Len(AlertsMembers) : AlertsMembers[i] \in Elements(Members)
    BY <2>1 DEF Rotation
  <2>3. /\ \A i \in 1..Len(Members) : turns["trips"][Members[i]] = 0
        /\ \A i \in 1..Len(AlertsMembers) : turns["alerts"][AlertsMembers[i]] = 0
    BY <2>2 DEF Init, Duty
  <2>4. tripCursor = 0 /\ alertsCursor = 0
    BY DEF Init
  <2>5. ASSUME NEW t, NEW s, \A i \in 1..Len(s) : t[s[i]] = 0
        PROVE  RoundUnderWay(t, s, 0)
    <3>1. \A i \in 1..Len(s) : t[s[i]] = IF i <= 0 THEN 0 + 1 ELSE 0
      BY <2>5
    <3>2. 0 \in Nat
      OBVIOUS
    <3>3. QED BY <3>1, <3>2 DEF RoundUnderWay
  <2>6. RoundUnderWay(turns["trips"], Members, tripCursor)
    BY <2>3, <2>4, <2>5
  <2>7. RoundUnderWay(turns["alerts"], AlertsMembers, alertsCursor)
    BY <2>3, <2>4, <2>5
  <2>8. QED BY <2>6, <2>7 DEF TurnInv
<1>2. TypeOK /\ TurnInv /\ [Next]_vars => TurnInv'
  BY TurnInvStep DEF TypeOK
<1>3. ASSUME NEW t, NEW s, NEW cursor, RoundUnderWay(t, s, cursor),
             NEW m \in Elements(s), NEW n \in Elements(s)
      PROVE  t[m] - t[n] <= 1
  <2>1. PICK base \in Nat : \A i \in 1..Len(s) : t[s[i]] = IF i <= cursor THEN base + 1 ELSE base
    BY <1>3 DEF RoundUnderWay
  <2>2. PICK i \in 1..Len(s) : s[i] = m
    BY DEF Elements
  <2>3. PICK j \in 1..Len(s) : s[j] = n
    BY DEF Elements
  <2>4. (t[m] = base \/ t[m] = base + 1) /\ (t[n] = base \/ t[n] = base + 1)
    BY <2>1, <2>2, <2>3
  <2>5. QED BY <2>4
<1>4. TurnInv => EqualTurns
  BY <1>3 DEF TurnInv, EqualTurns
<1>5. QED BY <1>1, <1>2, <1>4, TypeCorrect, PTL DEF Spec

-----------------------------------------------------------------------------

(* What a call of try_consume does to the history of the group's spends.   *)
LEMMA ChargeSpends ==
  ASSUME QuotaFacts
  PROVE  /\ Quota!TryConsume(group, TRUE) => Granted' = Append(Granted, now) /\ now' = now
         /\ Quota!TryConsume(group, FALSE) => Granted' = Granted /\ now' = now
<1>1. group \in Quota!Metered
  BY SchedulerAssumption DEF Quota!Metered
<1>2. spends \in [Quota!Metered -> Seq(Nat)]
  BY DEF QuotaFacts, Quota!TypeOK
<1>3. ASSUME Quota!TryConsume(group, TRUE)
      PROVE  Granted' = Append(Granted, now) /\ now' = now
  <2>1. spends' = [spends EXCEPT ![group] = Append(@, now)] /\ now' = now
    BY <1>1, <1>3 DEF Quota!TryConsume, Quota!Granted, Quota!Unmetered
  <2>2. QED BY <1>1, <1>2, <2>1 DEF Granted
<1>4. ASSUME Quota!TryConsume(group, FALSE)
      PROVE  Granted' = Granted /\ now' = now
  BY <1>4 DEF Quota!TryConsume, Quota!Denied, Granted
<1>5. QED BY <1>3, <1>4

(* The recorded requests are among the granted spends, in their order.     *)
Among(times, grants) ==
  \E f \in [1..Len(times) -> 1..Len(grants)] :
    /\ \A i \in 1..Len(times) : times[i] = grants[f[i]]
    /\ \A i, j \in 1..Len(times) : i <= j => f[j] - f[i] >= j - i

LEMMA AmongMoreGrants ==
  ASSUME NEW times \in Seq(Nat), NEW grants \in Seq(Nat), NEW t \in Nat, Among(times, grants)
  PROVE  Among(times, Append(grants, t))
<1>1. PICK f \in [1..Len(times) -> 1..Len(grants)] :
        /\ \A i \in 1..Len(times) : times[i] = grants[f[i]]
        /\ \A i, j \in 1..Len(times) : i <= j => f[j] - f[i] >= j - i
  BY DEF Among
<1>2. Len(Append(grants, t)) = Len(grants) + 1 /\ Len(grants) \in Nat
  OBVIOUS
<1>3. f \in [1..Len(times) -> 1..Len(Append(grants, t))]
  BY <1>1, <1>2
<1>4. \A i \in 1..Len(times) : times[i] = Append(grants, t)[f[i]]
  <2>1. \A k \in 1..Len(grants) : Append(grants, t)[k] = grants[k]
    OBVIOUS
  <2>2. \A i \in 1..Len(times) : f[i] \in 1..Len(grants)
    BY <1>1
  <2>3. QED BY <1>1, <2>1, <2>2, Zenon
<1>5. QED BY <1>1, <1>3, <1>4 DEF Among

LEMMA AmongNewGrant ==
  ASSUME NEW times \in Seq(Nat), NEW grants \in Seq(Nat), NEW t \in Nat, Among(times, grants)
  PROVE  Among(Append(times, t), Append(grants, t))
<1> DEFINE n == Len(times)
           l == Len(grants)
           more == Append(times, t)
           granted == Append(grants, t)
<1>1. PICK f \in [1..n -> 1..l] :
        /\ \A i \in 1..n : times[i] = grants[f[i]]
        /\ \A i, j \in 1..n : i <= j => f[j] - f[i] >= j - i
  BY DEF Among
<1>2. /\ n \in Nat /\ l \in Nat /\ Len(more) = n + 1 /\ Len(granted) = l + 1
      /\ (\A i \in 1..n : more[i] = times[i]) /\ more[n + 1] = t
      /\ (\A i \in 1..l : granted[i] = grants[i]) /\ granted[l + 1] = t
  OBVIOUS
<1> DEFINE g == [i \in 1..(n + 1) |-> IF i = n + 1 THEN l + 1 ELSE f[i]]
<1> HIDE DEF n, l, more, granted
<1>3. \A i \in 1..n : f[i] \in 1..l /\ g[i] = f[i]
  BY <1>1, <1>2
<1>4. g[n + 1] = l + 1
  BY <1>2
<1>5. g \in [1..Len(more) -> 1..Len(granted)]
  <2>1. \A i \in 1..(n + 1) : (IF i = n + 1 THEN l + 1 ELSE f[i]) \in 1..(l + 1)
    BY <1>2, <1>3
  <2>2. QED BY <1>2, <2>1
<1> HIDE DEF g
<1>6. ASSUME NEW i \in 1..(n + 1)
      PROVE  more[i] = granted[g[i]]
  <2>1. CASE i = n + 1
    BY <1>2, <1>4, <2>1
  <2>2. CASE i # n + 1
    <3>1. i \in 1..n
      BY <1>2, <2>2
    <3>2. more[i] = times[i] /\ times[i] = grants[f[i]]
      BY <1>1, <1>2, <3>1
    <3>3. granted[f[i]] = grants[f[i]] /\ g[i] = f[i]
      BY <1>2, <1>3, <3>1
    <3>4. QED BY <3>2, <3>3
  <2>3. QED BY <2>1, <2>2
<1>7. ASSUME NEW i \in 1..(n + 1), NEW j \in 1..(n + 1), i <= j
      PROVE  g[j] - g[i] >= j - i
  <2>1. CASE j = n + 1 /\ i # n + 1
    <3>1. i \in 1..n /\ n \in 1..n
      BY <1>2, <2>1
    <3>2. f[n] - f[i] >= n - i /\ f[n] <= l /\ g[i] = f[i]
      BY <1>1, <1>3, <3>1
    <3>3. QED BY <1>2, <1>3, <1>4, <2>1, <3>1, <3>2
  <2>2. CASE j # n + 1
    <3>1. i \in 1..n /\ j \in 1..n
      BY <1>2, <1>7, <2>2
    <3>2. QED BY <1>1, <1>3, <1>7, <3>1
  <2>3. CASE i = n + 1
    <3>1. j = i
      BY <1>2, <1>7, <2>3
    <3>2. g[j] - g[i] = 0 /\ j - i = 0
      BY <1>2, <1>4, <2>3, <3>1
    <3>3. QED BY <3>2
  <2>4. QED BY <2>1, <2>2, <2>3
<1>8. Among(more, granted)
  BY <1>2, <1>5, <1>6, <1>7 DEF Among
<1>9. QED BY <1>8 DEF more, granted

(* A part of an ordered history within budget is within budget.            *)
LEMMA AmongWithinBudget ==
  ASSUME NEW times \in Seq(Nat), NEW grants \in Seq(Nat), NEW limit \in Nat,
         Among(times, grants), Quota!WithinBudget(grants, limit),
         \A i, j \in 1..Len(grants) : i <= j => grants[i] <= grants[j]
  PROVE  Quota!WithinBudget(times, limit)
<1>1. PICK f \in [1..Len(times) -> 1..Len(grants)] :
        /\ \A i \in 1..Len(times) : times[i] = grants[f[i]]
        /\ \A i, j \in 1..Len(times) : i <= j => f[j] - f[i] >= j - i
  BY DEF Among
<1> SUFFICES ASSUME NEW i \in 1..Len(times), i + limit <= Len(times)
             PROVE  times[i + limit] - times[i] >= WINDOW_SECONDS
  BY DEF Quota!WithinBudget
<1>2. Len(times) \in Nat /\ Len(grants) \in Nat
  OBVIOUS
<1>3. i + limit \in 1..Len(times) /\ i <= i + limit
  BY <1>2
<1>4. f[i] \in 1..Len(grants) /\ f[i + limit] \in 1..Len(grants)
  BY <1>1, <1>3
<1>5. f[i + limit] - f[i] >= limit
  <2>1. f[i + limit] - f[i] >= (i + limit) - i
    BY <1>1, <1>3
  <2>2. QED BY <2>1, <1>4
<1>6. f[i] + limit \in 1..Len(grants) /\ f[i] + limit <= f[i + limit]
  <2> DEFINE x == f[i]
             y == f[i + limit]
  <2>1. x \in 1..Len(grants) /\ y \in 1..Len(grants) /\ y - x >= limit
    BY <1>4, <1>5
  <2> HIDE DEF x, y
  <2>2. x + limit \in 1..Len(grants) /\ x + limit <= y
    BY <1>2, <2>1
  <2>3. QED BY <2>2 DEF x, y
<1>7. grants[f[i] + limit] - grants[f[i]] >= WINDOW_SECONDS
  <2>1. f[i] + limit <= Len(grants)
    BY <1>6
  <2>2. QED BY <1>4, <2>1 DEF Quota!WithinBudget
<1>8. grants[f[i] + limit] <= grants[f[i + limit]]
  BY <1>4, <1>6
<1>9. /\ grants[f[i]] \in Nat /\ grants[f[i] + limit] \in Nat /\ grants[f[i + limit]] \in Nat
  <2>1. \A k \in 1..Len(grants) : grants[k] \in Nat
    OBVIOUS
  <2>2. QED BY <1>4, <1>6, <2>1
<1>10. times[i] = grants[f[i]] /\ times[i + limit] = grants[f[i + limit]]
  BY <1>1, <1>3
<1>11. WINDOW_SECONDS \in Nat
  BY SchedulerAssumption
<1> DEFINE a == grants[f[i]]
           b == grants[f[i] + limit]
           e == grants[f[i + limit]]
<1> HIDE DEF a, b, e
<1>12. a \in Nat /\ b \in Nat /\ e \in Nat /\ b - a >= WINDOW_SECONDS /\ b <= e
  BY <1>7, <1>8, <1>9 DEF a, b, e
<1>13. e - a >= WINDOW_SECONDS
  BY <1>11, <1>12
<1>14. QED BY <1>10, <1>13 DEF a, e

SentInv == Among(sent, Granted)

(* No request is recorded without a spend.                                 *)
LEMMA RequestsAreCharged ==
  ASSUME QuotaFacts, [Next]_vars
  PROVE  \/ sent' = sent /\ Granted' = Granted
         \/ sent' = sent /\ Granted' = Append(Granted, now)
         \/ sent' = Append(sent, now) /\ Granted' = Append(Granted, now)
<1>1. ASSUME Quota!TryConsume(group, TRUE), NEW cold \in BOOLEAN, Send(cold)
      PROVE  /\ Granted' = Append(Granted, now)
             /\ sent' = sent \/ sent' = Append(sent, now)
  BY <1>1, ChargeSpends DEF Send
<1>2. ASSUME Quota!TryConsume(group, FALSE), sent' = sent \/ Send(TRUE)
      PROVE  sent' = sent /\ Granted' = Granted
  BY <1>2, ChargeSpends DEF Send
<1> DEFINE Charged == \/ \E cold \in BOOLEAN : Quota!TryConsume(group, TRUE) /\ Send(cold)
                      \/ Quota!TryConsume(group, FALSE) /\ (sent' = sent \/ Send(TRUE))
           Free == sent' = sent /\ Granted' = Granted
<1>a. ASSUME NEW t, NEW m, NEW d, FetchUnderLock(t, m, d) \/ ServeCached(m, d)
      PROVE  Charged
  <2> DEFINE cold == storedAt[d][m] = Never
  <2>1. \/ Quota!TryConsume(group, TRUE) /\ Send(cold)
        \/ Quota!TryConsume(group, FALSE) /\ cold /\ Send(cold)
        \/ Quota!TryConsume(group, FALSE) /\ sent' = sent
    BY <1>a DEF FetchUnderLock, ServeCached
  <2>2. cold \in BOOLEAN
    OBVIOUS
  <2>3. cold => (Send(cold) => Send(TRUE))
    BY DEF Send
  <2> HIDE DEF cold
  <2>4. QED BY <2>1, <2>2, <2>3, Zenon
<1>b. ASSUME NEW t, NEW m, NEW d, WaitForLock(t, m, d)
      PROVE  Free
  BY <1>b DEF WaitForLock, quotaVars, Granted
<1> HIDE DEF Charged, Free
<1>3. ASSUME NEW m \in Elements(Members), NEW d \in Duty, DirectTurn(m) \/ DirectWakes(m, d)
      PROVE  Charged \/ Free
  <2>1. CASE DirectTurn(m)
    <3> DEFINE e == DutyOfTick("direct")
    <3>1. \/ FetchUnderLock("direct", m, e) \/ ServeCached(m, e)
          \/ WaitForLock("direct", m, e)
      BY <2>1 DEF DirectTurn, DirectGet
    <3> HIDE DEF e
    <3>2. QED BY <1>a, <1>b, <3>1
  <2>2. CASE DirectWakes(m, d)
    <3>1. FetchUnderLock("direct", m, d) \/ ServeCached(m, d)
      BY <2>2 DEF DirectWakes, DirectGet
    <3>2. QED BY <1>a, <3>1
  <2>3. QED BY <1>3, <2>1, <2>2
<1>4. ASSUME RegionalTick
      PROVE  \/ Quota!TryConsume(group, TRUE) /\ Send(FALSE)
             \/ Quota!TryConsume(group, FALSE) /\ sent' = sent
  BY <1>4 DEF RegionalTick
<1>5. ASSUME NEW r \in Request, NEW m \in System, NEW d \in Duty,
             RequestCalls(r, m, d) \/ RequestWakes(r, m, d)
      PROVE  Charged \/ Free
  <2>1. \/ FetchUnderLock(r, m, d) \/ ServeCached(m, d) \/ WaitForLock(r, m, d)
        \/ UNCHANGED <<now, quotaVars, sent>>
    BY <1>5 DEF RequestCalls, RequestWakes, RequestGet
  <2>2. UNCHANGED <<now, quotaVars, sent>> => Free
    BY DEF quotaVars, Granted, Free
  <2>3. QED BY <1>a, <1>b, <2>1, <2>2
<1>6. ASSUME \/ DirectIdleTick \/ Tick \/ UNCHANGED vars
             \/ (\E d \in Duty : DirectFetched(d))
             \/ (\E d \in Duty, mentioned \in SUBSET RegionalMembers : RegionalFetched(d, mentioned))
             \/ (\E c \in Scheduler : FetchRaised(c))
             \/ (\E r \in Request : RequestFetched(r) \/ RequestFails(r))
      PROVE  Free
  BY <1>6 DEF DirectIdleTick, Tick, vars, DirectFetched, RegionalFetched, FetchRaised,
              RequestFetched, RequestFails, quotaVars, Quota!Tick, Granted, Free
<1>7. FALSE \in BOOLEAN /\ "trips" \in Duty
  BY DEF Duty
<1>8. Charged \/ Free \/ RegionalTick
  BY <1>3, <1>5, <1>6, <1>7 DEF Next, Step, ClockStopped
<1>9. QED BY <1>1, <1>2, <1>4, <1>7, <1>8 DEF Charged, Free

(* Whatever the two schedulers and any number of HTTP requests do, every   *)
(* window holds at most `budget` of the requests they send, cold starts    *)
(* apart.                                                                  *)
THEOREM BudgetIsRespected == Spec => []BudgetRespected
<1>1. Init => SentInv
  <2> SUFFICES ASSUME Init PROVE SentInv
    OBVIOUS
  <2>1. sent = << >>
    BY DEF Init
  <2>2. 1..Len(sent) = {}
    BY <2>1
  <2>3. [i \in {} |-> i] \in [1..Len(sent) -> 1..Len(Granted)]
    BY <2>2
  <2>4. QED BY <2>2, <2>3, Zenon DEF SentInv, Among
<1>2. TypeOK /\ QuotaFacts /\ SentInv /\ [Next]_vars => SentInv'
  <2> SUFFICES ASSUME TypeOK, QuotaFacts, SentInv, [Next]_vars
               PROVE  SentInv'
    OBVIOUS
  <2>1. sent \in Seq(Nat) /\ Granted \in Seq(Nat) /\ now \in Nat
    BY SchedulerAssumption DEF TypeOK, SchedulerTypes, Quota!TypeOK, Quota!Metered, Granted
  <2>2. /\ Among(sent, Append(Granted, now))
        /\ Among(Append(sent, now), Append(Granted, now))
    BY <2>1, AmongMoreGrants, AmongNewGrant DEF SentInv
  <2>3. Among(sent', Granted')
    BY <2>2, RequestsAreCharged DEF SentInv
  <2>4. QED BY <2>3 DEF SentInv, Among
<1>3. TypeOK /\ QuotaFacts /\ SentInv => BudgetRespected
  <2> SUFFICES ASSUME TypeOK, QuotaFacts, SentInv
               PROVE  BudgetRespected
    OBVIOUS
  <2>1. sent \in Seq(Nat) /\ Granted \in Seq(Nat) /\ Budget \in Nat
    BY SchedulerAssumption
       DEF TypeOK, SchedulerTypes, Quota!TypeOK, Quota!Metered, Granted, Budget
  <2>2. QED BY <2>1, AmongWithinBudget DEF SentInv, QuotaFacts, BudgetRespected
<1>4. QED BY <1>1, <1>2, <1>3, TypeCorrect, QuotaFactsHold, PTL DEF Spec

-----------------------------------------------------------------------------

(* Every grant of the history precedes the time t by one interval for each *)
(* of the grants after it, and k more.                                     *)
Paced(grants, t, k) ==
  \A i \in 1..Len(grants) : t - grants[i] >= (Len(grants) - i + k) * TickInterval

LEMMA PaceLater ==
  ASSUME NEW grants \in Seq(Nat), NEW t \in Nat, NEW u \in Nat, NEW k \in Nat,
         Paced(grants, t, k)
  PROVE  /\ t <= u => Paced(grants, u, k)
         /\ t + TickInterval <= u => Paced(grants, u, k + 1)
<1>1. TickInterval \in Nat /\ Len(grants) \in Nat
  BY SchedulerAssumption
<1>2. \A i \in 1..Len(grants) : grants[i] \in Nat
  OBVIOUS
<1>3. ASSUME t <= u, NEW i \in 1..Len(grants)
      PROVE  u - grants[i] >= (Len(grants) - i + k) * TickInterval
  <2> DEFINE x == (Len(grants) - i + k) * TickInterval
  <2>1. x \in Int
    BY <1>1
  <2>2. t - grants[i] >= x
    BY DEF Paced
  <2>3. grants[i] \in Nat
    BY <1>2
  <2> HIDE DEF x
  <2>4. u - grants[i] >= x
    BY <1>3, <2>1, <2>2, <2>3
  <2>5. QED BY <2>4 DEF x
<1>4. ASSUME t + TickInterval <= u, NEW i \in 1..Len(grants)
      PROVE  u - grants[i] >= (Len(grants) - i + (k + 1)) * TickInterval
  <2> DEFINE a == Len(grants) - i + k
             x == a * TickInterval
  <2>1. a \in Int
    BY <1>1
  <2>2. t - grants[i] >= x
    BY DEF Paced
  <2>3. Len(grants) - i + (k + 1) = a + 1
    BY <1>1
  <2> HIDE DEF a
  <2>4. x \in Int /\ (a + 1) * TickInterval = x + TickInterval
    BY <1>1, <2>1
  <2>5. grants[i] \in Nat
    BY <1>2
  <2> HIDE DEF x
  <2>6. u - grants[i] >= x + TickInterval
    BY <1>1, <1>4, <2>2, <2>4, <2>5
  <2>7. QED BY <2>3, <2>4, <2>6
<1>5. QED BY <1>3, <1>4 DEF Paced

(* One more grant, at the time t, when the pace allows one.                *)
LEMMA PaceGrant ==
  ASSUME NEW grants \in Seq(Nat), NEW t \in Nat, Paced(grants, t, 1)
  PROVE  Paced(Append(grants, t), t, 0)
<1> DEFINE n == Len(grants)
           more == Append(grants, t)
<1>1. /\ n \in Nat /\ Len(more) = n + 1 /\ more[n + 1] = t
      /\ \A i \in 1..n : more[i] = grants[i]
  OBVIOUS
<1>2. TickInterval \in Nat
  BY SchedulerAssumption
<1>3. \A i \in 1..n : t - grants[i] >= (n - i + 1) * TickInterval
  BY DEF Paced
<1> HIDE DEF n, more
<1>4. ASSUME NEW i \in 1..(n + 1)
      PROVE  t - more[i] >= ((n + 1) - i + 0) * TickInterval
  <2>1. CASE i = n + 1
    <3>1. (n + 1) - i + 0 = 0
      BY <1>1, <2>1
    <3>2. 0 * TickInterval = 0 /\ t - more[i] = 0
      BY <1>1, <1>2, <2>1
    <3>3. QED BY <3>1, <3>2
  <2>2. CASE i # n + 1
    <3>1. i \in 1..n
      BY <1>1, <2>2
    <3>2. (n + 1) - i + 0 = n - i + 1
      BY <1>1, <3>1
    <3>3. t - more[i] >= (n - i + 1) * TickInterval
      BY <1>1, <1>3, <3>1
    <3>4. QED BY <3>2, <3>3
  <2>3. QED BY <2>1, <2>2
<1>5. \A i \in 1..Len(more) : t - more[i] >= (Len(more) - i + 0) * TickInterval
  BY <1>1, <1>4
<1>6. QED BY <1>5 DEF Paced, more

(* At that pace the quota has room.                                        *)
LEMMA PaceHasRoom ==
  ASSUME QuotaFacts, Paced(Granted, now, 1)
  PROVE  ~ Quota!TryConsume(group, FALSE)
<1> SUFFICES ASSUME Quota!TryConsume(group, FALSE) PROVE FALSE
  OBVIOUS
<1>1. group \in Quota!Metered
  BY SchedulerAssumption DEF Quota!Metered
<1>2. /\ Granted \in Seq(Nat) /\ Budget \in Nat /\ TickInterval \in Nat /\ WINDOW_SECONDS \in Nat
      /\ now \in Nat /\ timestamps[group] \in Seq(Nat)
  BY <1>1, SchedulerAssumption DEF QuotaFacts, Quota!TypeOK, Granted, Budget, Quota!Metered
<1>3. PICK k \in 0..Len(timestamps[group]) :
        Quota!Pops(group, k) /\ Len(Quota!Live(group, k)) >= Budget
  BY DEF Quota!TryConsume, Quota!Denied, Budget
<1>4. Len(Quota!Live(group, k)) \in Nat
  BY <1>2 DEF Quota!Live
<1>5. ~ (Len(Quota!Live(group, k)) < Budget)
  BY <1>2, <1>3, <1>4
<1> DEFINE n == Len(Granted)
<1>6. ~ (Budget > 0 /\ (n >= Budget => Quota!Expired(Granted[n - Budget + 1])))
  BY <1>1, <1>3, <1>5 DEF QuotaFacts, Quota!DequeAgreesWithHistory, Granted, Budget
<1>7. Budget > 0
  <2>1. TickInterval * Budget = WINDOW_SECONDS /\ WINDOW_SECONDS # 0 /\ TickInterval * 0 = 0
    BY SchedulerAssumption
  <2>2. Budget # 0
    BY <2>1
  <2>3. QED BY <1>2, <2>2
<1>8. n \in Nat
  BY <1>2
<1>9. n >= Budget /\ ~ Quota!Expired(Granted[n - Budget + 1])
  BY <1>6, <1>7
<1> DEFINE i == n - Budget + 1
<1>10. i \in 1..n /\ n - i + 1 = Budget
  BY <1>2, <1>7, <1>8, <1>9
<1>11. now - Granted[i] >= (n - i + 1) * TickInterval
  BY <1>10 DEF Paced
<1>12. (n - i + 1) * TickInterval = WINDOW_SECONDS
  <2>1. TickInterval * Budget = Budget * TickInterval
    BY <1>2
  <2>2. QED BY <1>10, <2>1, SchedulerAssumption
<1>13. Quota!Expired(Granted[i])
  BY <1>11, <1>12 DEF Quota!Expired
<1>14. QED BY <1>9, <1>13

(* A direct scheduler that has the budget for itself keeps the pace, and   *)
(* the quota has refused it nothing.                                       *)
PaceInv ==
  RegionalMembers = {} /\ demand = 0 =>
    /\ denials = 0
    /\ \A r \in Request : phase[r] = Idle
    /\ "direct" \in Scheduler =>
         \/ phase["direct"].at = "sleeping" /\ Paced(Granted, phase["direct"].until, 1)
         \/ /\ phase["direct"].at = "fetching"
            /\ phase["direct"].since <= now
            /\ Paced(Granted, phase["direct"].since, 0)

LEMMA PaceInvStep ==
  ASSUME TypeOK, QuotaFacts, PaceInv, [Next]_vars
  PROVE  PaceInv'
<1> SUFFICES ASSUME RegionalMembers' = {}, demand' = 0
             PROVE  /\ denials' = 0
                    /\ \A r \in Request : phase'[r] = Idle
                    /\ ("direct" \in Scheduler)' =>
                         \/ /\ phase'["direct"].at = "sleeping"
                            /\ Paced(Granted', phase'["direct"].until, 1)
                         \/ /\ phase'["direct"].at = "fetching"
                            /\ phase'["direct"].since <= now'
                            /\ Paced(Granted', phase'["direct"].since, 0)
  BY DEF PaceInv, Paced
<1>1. startup' = startup
  BY DEF Next, ClockStopped, vars
<1>2. RegionalMembers = {} /\ (("direct" \in Scheduler)' <=> "direct" \in Scheduler)
  BY <1>1 DEF RegionalMembers, Scheduler, Members
<1>3. Scheduler \subseteq {"direct"}
  BY <1>2 DEF Scheduler
<1>4. /\ now \in Nat /\ demand \in Nat /\ TickInterval \in Nat /\ now + TickInterval \in Nat
      /\ phase \in [Task -> Phase] /\ Request \subseteq Task
      /\ "direct" \in Scheduler => "direct" \in Task /\ phase["direct"] \in Phase
      /\ Granted \in Seq(Nat)
  <2>1. now \in Nat /\ Granted \in Seq(Nat)
    BY SchedulerAssumption DEF TypeOK, Quota!TypeOK, Quota!Metered, Granted
  <2>2. demand \in Nat /\ TickInterval \in Nat
    BY SchedulerAssumption DEF TypeOK, SchedulerTypes
  <2>3. phase \in [Task -> Phase]
    BY DEF TypeOK, SchedulerTypes, Phase
  <2>4. Request \subseteq Task /\ Scheduler \subseteq Task
    BY DEF Task
  <2>5. QED BY <2>1, <2>2, <2>3, <2>4
<1>17. ASSUME demand = 0
       PROVE  /\ \A r \in Request : phase[r] = Idle /\ r # "direct"
              /\ Idle.at = "idle"
              /\ "direct" \in Scheduler /\ phase["direct"].at = "sleeping" =>
                   \A m, d : ~ LockBusy(m, d)
  <2>1. \A r \in Request : phase[r] = Idle /\ r # "direct"
    BY <1>2, <1>17, SchedulerAssumption DEF PaceInv
  <2>2. Idle.at = "idle"
    BY DEF Idle
  <2>3. \A t \in Caller : t = "direct" \/ t \in Request
    BY <1>3 DEF Caller, Task
  <2>4. QED BY <2>1, <2>2, <2>3 DEF LockBusy, LockHeld, At
<1>5. ASSUME demand = 0, "direct" \in Scheduler, Granted' = Granted,
             phase["direct"].at = "fetching" \/ now >= phase["direct"].until,
             Sleep("direct"), denials' = denials
      PROVE  PaceInv'
  <2>0. \A r \in Request : phase'[r] = Idle
    BY <1>4, <1>5, <1>17 DEF Sleep
  <2>1. phase'["direct"].at = "sleeping" /\ phase'["direct"].until = now + TickInterval
    BY <1>4, <1>5 DEF Sleep, Sleeping
  <2>2. denials = 0
    BY <1>2, <1>5 DEF PaceInv
  <2>3. CASE phase["direct"].at = "sleeping" /\ Paced(Granted, phase["direct"].until, 1)
    <3> DEFINE t == phase["direct"].until
    <3>1. t \in Nat /\ t <= now
      BY <1>4, <1>5, <2>3 DEF Phase, Idle
    <3> HIDE DEF t
    <3>2. Paced(Granted, t, 1) /\ t <= now + TickInterval
      BY <1>4, <2>3, <3>1 DEF t
    <3>3. Paced(Granted, now + TickInterval, 1)
      BY <1>4, <3>1, <3>2, PaceLater
    <3>4. QED BY <1>5, <2>0, <2>1, <2>2, <3>3 DEF PaceInv, Paced
  <2>4. CASE phase["direct"].at = "fetching" /\ phase["direct"].since <= now
               /\ Paced(Granted, phase["direct"].since, 0)
    <3> DEFINE t == phase["direct"].since
    <3>1. t \in Nat /\ t <= now
      BY <1>4, <1>5, <2>4 DEF Phase, Idle
    <3> HIDE DEF t
    <3>2. Paced(Granted, t, 0) /\ t + TickInterval <= now + TickInterval
      BY <1>4, <2>4, <3>1 DEF t
    <3>3. Paced(Granted, now + TickInterval, 0 + 1)
      BY <1>4, <3>1, <3>2, PaceLater
    <3>4. QED BY <1>5, <2>0, <2>1, <2>2, <3>3 DEF PaceInv, Paced
  <2>5. QED BY <1>2, <1>5, <2>3, <2>4 DEF PaceInv
<1>6. ASSUME NEW m \in Elements(Members), DirectTurn(m), demand = 0
      PROVE  PaceInv'
  <2> DEFINE d == DutyOfTick("direct")
             t == phase["direct"].until
  <2>1. "direct" \in Scheduler /\ phase["direct"].at = "sleeping" /\ now >= t
    BY <1>6 DEF DirectTurn, Due
  <2>2. Paced(Granted, t, 1) /\ t \in Nat
    BY <1>2, <1>4, <1>6, <2>1 DEF PaceInv, Phase, Idle
  <2> HIDE DEF t
  <2>3. Paced(Granted, now, 1)
    BY <1>4, <2>1, <2>2, PaceLater
  <2>4. ~ Quota!TryConsume(group, FALSE)
    BY <2>3, PaceHasRoom
  <2>a. ~ LockBusy(m, d)
    BY <1>6, <1>17, <2>1
  <2>5. Quota!TryConsume(group, TRUE) /\ Enter("direct", "fetching", m, d) /\ denials' = denials
    BY <1>6, <2>4, <2>a DEF DirectTurn, DirectGet, FetchUnderLock, ServeCached, WaitForLock
  <2>b. \A r \in Request : phase'[r] = Idle
    BY <1>4, <1>6, <1>17, <2>5 DEF Enter
  <2>6. Granted' = Append(Granted, now) /\ now' = now
    BY <2>5, ChargeSpends
  <2>7. Paced(Append(Granted, now), now, 0)
    BY <1>4, <2>3, PaceGrant
  <2>8. phase'["direct"].at = "fetching" /\ phase'["direct"].since = now
    BY <1>4, <2>1, <2>5 DEF Enter, Task
  <2>9. denials = 0
    BY <1>2, <1>6 DEF PaceInv
  <2>10. Paced(Granted, phase["direct"].since, 0)'
    BY <2>6, <2>7, <2>8 DEF Paced
  <2>11. (phase["direct"].since <= now)'
    BY <1>4, <2>6, <2>8
  <2>12. denials' = 0 /\ phase'["direct"].at = "fetching"
    BY <2>5, <2>8, <2>9
  <2>13. QED BY <2>b, <2>10, <2>11, <2>12 DEF PaceInv
<1>7. ASSUME DirectIdleTick
      PROVE  PaceInv'
  <2>1. /\ "direct" \in Scheduler /\ now >= phase["direct"].until /\ Sleep("direct")
        /\ demand' = demand /\ denials' = denials /\ Granted' = Granted
    BY <1>7 DEF DirectIdleTick, Due, quotaVars, Granted
  <2>2. QED BY <1>2, <1>5, <2>1 DEF PaceInv
<1>8. ASSUME NEW d \in Duty, DirectFetched(d)
      PROVE  PaceInv'
  <2>1. /\ "direct" \in Scheduler /\ phase["direct"].at = "fetching" /\ Sleep("direct")
        /\ demand' = demand /\ denials' = denials /\ Granted' = Granted
    BY <1>8 DEF DirectFetched, FetchDone, quotaVars, Granted
  <2>2. QED BY <1>2, <1>5, <2>1 DEF PaceInv
<1>9. ASSUME NEW c \in Scheduler, FetchRaised(c)
      PROVE  PaceInv'
  <2>1. /\ "direct" \in Scheduler /\ phase["direct"].at = "fetching" /\ Sleep("direct")
        /\ demand' = demand /\ denials' = denials /\ Granted' = Granted
    BY <1>3, <1>9 DEF FetchRaised, quotaVars, Granted
  <2>2. QED BY <1>2, <1>5, <2>1 DEF PaceInv
<1>10. ASSUME Tick
       PROVE  PaceInv'
  <2>1. /\ demand' = demand /\ denials' = denials /\ Granted' = Granted /\ phase' = phase
        /\ now' = now + 1
    BY <1>10 DEF Tick, Quota!Tick, Granted
  <2>2. "direct" \in Scheduler /\ phase["direct"].at = "fetching" => phase["direct"].since \in Nat
    BY <1>4 DEF Phase, Idle
  <2>3. QED BY <1>2, <1>4, <2>1, <2>2 DEF PaceInv, Paced
<1>11. ASSUME UNCHANGED vars
       PROVE  PaceInv'
  BY <1>2, <1>11 DEF PaceInv, Paced, vars, Granted
<1>12. ASSUME NEW r \in Request, \/ RequestFetched(r) \/ RequestFails(r)
                                 \/ \E m \in System, d \in Duty :
                                      RequestCalls(r, m, d) \/ RequestWakes(r, m, d)
       PROVE  FALSE
  <2>1. demand = 0
    BY <1>4, <1>12 DEF RequestFetched, RequestFails, RequestCalls, RequestWakes
  <2>2. phase[r] = Idle /\ phase[r].at = "idle" /\ demand' # demand + 1
    BY <1>17, <2>1
  <2>3. QED BY <1>12, <2>2 DEF RequestFetched, RequestFails, RequestCalls, RequestWakes, At
<1>18. ASSUME NEW m \in Elements(Members), NEW d \in Duty, DirectWakes(m, d)
       PROVE  FALSE
  <2>1. demand = 0 /\ "direct" \in Scheduler /\ phase["direct"].at = "waiting"
    BY <1>18 DEF DirectWakes, At
  <2>2. QED BY <1>2, <2>1 DEF PaceInv
<1>13. ASSUME RegionalTick \/ \E d \in Duty, mentioned \in SUBSET RegionalMembers :
                                RegionalFetched(d, mentioned)
       PROVE  FALSE
  BY <1>3, <1>13 DEF RegionalTick, Due, RegionalFetched, FetchDone
<1>14. ASSUME NEW m \in Elements(Members), DirectTurn(m)
       PROVE  demand = 0
  BY <1>14 DEF DirectTurn
<1>15. PaceInv'
  BY <1>6, <1>7, <1>8, <1>9, <1>10, <1>11, <1>12, <1>13, <1>14, <1>18, Zenon
     DEF Next, Step, ClockStopped
<1>16. QED BY <1>15 DEF PaceInv, Paced

(* "The pacing IS the enforcement", for every budget, interval, rotation   *)
(* and latency: no turn of a scheduler that is alone is refused.           *)
THEOREM PacingEnforces == Spec => []NoTurnDenied
<1>1. Init => PaceInv
  <2> SUFFICES ASSUME Init PROVE PaceInv
    OBVIOUS
  <2>1. Granted = << >>
    BY SchedulerAssumption DEF Init, Quota!Init, Quota!Metered, Granted
  <2>2. Paced(Granted, 0, 1)
    BY <2>1 DEF Paced
  <2>3. /\ phase = [t \in Task |-> IF t \in Scheduler THEN Sleeping(0) ELSE Idle]
        /\ denials = 0 /\ Request \cap Scheduler = {}
    BY SchedulerAssumption DEF Init, Scheduler
  <2>4. QED BY <2>2, <2>3 DEF PaceInv, Sleeping, Task
<1>2. TypeOK /\ QuotaFacts /\ PaceInv /\ [Next]_vars => PaceInv'
  BY PaceInvStep
<1>3. PaceInv => NoTurnDenied
  BY DEF PaceInv, NoTurnDenied
<1>4. QED BY <1>1, <1>2, <1>3, TypeCorrect, QuotaFactsHold, PTL DEF Spec
-----------------------------------------------------------------------------

(* Division of natural numbers, as the count of alerts ticks needs it.     *)
LEMMA DivisionSteps ==
  ASSUME NEW b \in Nat \ {0}, NEW n \in Nat
  PROVE  /\ n \div b \in Nat /\ n % b \in 0..(b - 1)
         /\ (n + b) \div b = n \div b + 1
         /\ n < b => n \div b = 0
         /\ \A k \in Nat : n <= k => n \div b <= k \div b
<1>1. n \div b \in Nat /\ n % b \in 0..(b - 1)
  OBVIOUS
<1>2. (n + b) \div b = n \div b + 1
  OBVIOUS
<1>3. n < b => n \div b = 0
  OBVIOUS
<1>4. ASSUME NEW k \in Nat, n <= k
      PROVE  n \div b <= k \div b
  BY <1>4
<1>5. QED BY <1>1, <1>2, <1>3, <1>4

LEMMA NextRemainder ==
  ASSUME NEW b \in Nat \ {0, 1}, NEW n \in Nat
  PROVE  (n + 1) % b = IF n % b = b - 1 THEN 0 ELSE (n % b) + 1
<1> DEFINE q == n \div b
           r == n % b
<1>1. n = b * q + r /\ q \in Nat /\ r \in 0..(b - 1)
  OBVIOUS
<1>2. \A k \in Nat, s \in 0..(b - 1) : (b * k + s) % b = s
  OBVIOUS
<1> HIDE DEF q, r
<1>3. CASE r = b - 1
  <2>1. n + 1 = b * (q + 1) + 0
    BY <1>1, <1>3
  <2>2. q + 1 \in Nat /\ 0 \in 0..(b - 1)
    BY <1>1
  <2>3. (n + 1) % b = 0
    BY <1>2, <2>1, <2>2
  <2>4. QED BY <1>3, <2>3 DEF r
<1>4. CASE r # b - 1
  <2>1. n + 1 = b * q + (r + 1) /\ r + 1 \in 0..(b - 1)
    BY <1>1, <1>4
  <2>2. (n + 1) % b = r + 1
    BY <1>1, <1>2, <2>1
  <2>3. QED BY <1>4, <2>2 DEF r
<1>5. QED BY <1>3, <1>4

(* The TripUpdates turns up to that of the i-th member, its own included,  *)
(* and the ticks in which n such turns happen after `count` ticks: every   *)
(* ALERTS_TICK_EVERY-th one is for the alerts.                             *)
Ahead(i, cursor) == IF i > cursor THEN i - cursor ELSE i - cursor + Len(Members)
AlertsTicks(n, count) ==
  (n + (count % ALERTS_TICK_EVERY) - 1) \div (ALERTS_TICK_EVERY - 1)
TicksUntil(n, count) == n + AlertsTicks(n, count)

LEMMA AheadMoves ==
  ASSUME Len(Members) \in Nat \ {0}, NEW cursor \in 0..(Len(Members) - 1),
         NEW i \in 1..Len(Members)
  PROVE  /\ Ahead(i, cursor) \in 1..Len(Members)
         /\ i = cursor + 1 => /\ Ahead(i, cursor) = 1
                              /\ Ahead(i, (cursor + 1) % Len(Members)) = Len(Members)
         /\ i # cursor + 1 =>
              /\ Ahead(i, (cursor + 1) % Len(Members)) = Ahead(i, cursor) - 1
              /\ Ahead(i, cursor) \in 2..Len(Members)
<1> DEFINE L == Len(Members)
<1>1. CASE cursor + 1 < L
  <2>1. (cursor + 1) % L = cursor + 1
    BY <1>1
  <2>2. QED BY <1>1, <2>1 DEF Ahead
<1>2. CASE cursor + 1 = L
  <2>1. (cursor + 1) % L = 0
    BY <1>2
  <2>2. QED BY <1>2, <2>1 DEF Ahead
<1>3. QED BY <1>1, <1>2

LEMMA TicksUntilBound ==
  ASSUME NEW n \in Nat \ {0}, NEW count \in Nat
  PROVE  TicksUntil(n, count) \in Nat /\ TicksUntil(n, count) <= TicksFor(n)
<1> DEFINE b == ALERTS_TICK_EVERY - 1
           r == count % ALERTS_TICK_EVERY
<1>1. b \in Nat \ {0} /\ ALERTS_TICK_EVERY \in Nat \ {0}
  BY SchedulerAssumption
<1>2. r \in 0..b
  BY <1>1, DivisionSteps
<1>3. n + r - 1 \in Nat /\ n + ALERTS_TICK_EVERY - 2 \in Nat
      /\ n + r - 1 <= n + ALERTS_TICK_EVERY - 2
  BY <1>1, <1>2
<1> HIDE DEF r
<1>4. /\ (n + r - 1) \div b \in Nat
      /\ (n + ALERTS_TICK_EVERY - 2) \div b \in Nat
      /\ (n + r - 1) \div b <= (n + ALERTS_TICK_EVERY - 2) \div b
  <2>1. b \in Nat \ {0}
    BY <1>1
  <2> HIDE DEF b
  <2>2. QED BY <1>3, <2>1, DivisionSteps
<1>5. TicksUntil(n, count) = n + ((n + r - 1) \div b)
  BY DEF TicksUntil, AlertsTicks, r
<1>6. TicksFor(n) = n + ((n + ALERTS_TICK_EVERY - 2) \div b)
  BY DEF TicksFor
<1> HIDE DEF b
<1>7. QED BY <1>4, <1>5, <1>6

(* One tick passes: a TripUpdates turn, or the alerts tick that was due.   *)
LEMMA TickPasses ==
  ASSUME NEW n \in Nat \ {0}, NEW count \in Nat
  PROVE  /\ (count + 1) % ALERTS_TICK_EVERY # 0 =>
              /\ n > 1 => TicksUntil(n - 1, count + 1) = TicksUntil(n, count) - 1
              /\ TicksUntil(1, count) = 1
         /\ (count + 1) % ALERTS_TICK_EVERY = 0 =>
              TicksUntil(n, count + 1) = TicksUntil(n, count) - 1
<1> DEFINE b == ALERTS_TICK_EVERY - 1
           r == count % ALERTS_TICK_EVERY
           s == (count + 1) % ALERTS_TICK_EVERY
<1>1. b \in Nat \ {0} /\ ALERTS_TICK_EVERY \in Nat \ {0, 1} /\ ALERTS_TICK_EVERY = b + 1
  BY SchedulerAssumption
<1>2. r \in 0..b /\ s = IF r = b THEN 0 ELSE r + 1
  <2>1. r \in 0..b
    BY <1>1, DivisionSteps
  <2>2. s = IF r = ALERTS_TICK_EVERY - 1 THEN 0 ELSE r + 1
    BY <1>1, NextRemainder
  <2>3. QED BY <1>1, <2>1, <2>2
<1>3. /\ \A m \in Int : TicksUntil(m, count) = m + ((m + r - 1) \div b)
      /\ \A m \in Int : TicksUntil(m, count + 1) = m + ((m + s - 1) \div b)
  BY DEF TicksUntil, AlertsTicks
<1>4. b \in Nat \ {0}
  BY <1>1
<1> HIDE DEF b, r, s
<1>5. ASSUME s # 0
      PROVE  /\ n > 1 => TicksUntil(n - 1, count + 1) = TicksUntil(n, count) - 1
             /\ TicksUntil(1, count) = 1
  <2>1. s = r + 1 /\ r < b /\ r \in Nat
    BY <1>2, <1>4, <1>5
  <2>2. n > 1 => (n - 1) + s - 1 = n + r - 1
    BY <2>1
  <2>3. n + r - 1 \in Nat
    BY <2>1
  <2>4. (n + r - 1) \div b \in Nat
    BY <1>4, <2>3, DivisionSteps
  <2>5. r \div b = 0 /\ 1 + r - 1 = r
    BY <1>4, <2>1, DivisionSteps
  <2>6. TicksUntil(1, count) = 1
    BY <1>3, <2>5
  <2>7. n > 1 => TicksUntil(n - 1, count + 1) = (n - 1) + ((n + r - 1) \div b)
    <3>1. n > 1 => TicksUntil(n - 1, count + 1) = (n - 1) + (((n - 1) + s - 1) \div b)
      BY <1>3
    <3>2. QED BY <2>2, <3>1
  <2>8. TicksUntil(n, count) = n + ((n + r - 1) \div b)
    BY <1>3
  <2>9. QED BY <2>4, <2>6, <2>7, <2>8
<1>6. ASSUME s = 0
      PROVE  TicksUntil(n, count + 1) = TicksUntil(n, count) - 1
  <2>1. r = b
    BY <1>2, <1>4, <1>6
  <2>2. n - 1 \in Nat /\ n + s - 1 = n - 1 /\ n + r - 1 = (n - 1) + b
    BY <1>4, <1>6, <2>1
  <2>3. ((n - 1) + b) \div b = (n - 1) \div b + 1 /\ (n - 1) \div b \in Nat
    BY <1>4, <2>2, DivisionSteps
  <2>4. TicksUntil(n, count) = n + ((n - 1) \div b + 1)
    BY <1>3, <2>2, <2>3
  <2>5. TicksUntil(n, count + 1) = n + ((n - 1) \div b)
    BY <1>3, <2>2
  <2>6. QED BY <2>3, <2>4, <2>5
<1>7. QED BY <1>5, <1>6 DEF s

(* What keeps the wait for a key's lock short while no call fails: who     *)
(* waits for a free lock does so because the feed was stored at this very  *)
(* moment, and whoever holds the lock that a direct turn waits for began   *)
(* its fetch before.                                                       *)
Direct == phase["direct"]
Inside(t) == phase[t].at \in {"fetching", "waiting"}
WaitersServed ==
  \A t \in Caller :
    phase[t].at = "waiting" /\ ~ LockHeld(phase[t].member, phase[t].duty) =>
      storedAt[phase[t].duty][phase[t].member] = now
HolderCameFirst ==
  "direct" \in Scheduler /\ Direct.at = "waiting" =>
    \A u \in Caller : At(u, "fetching", Direct.member, Direct.duty) =>
                         phase[u].since <= Direct.since
LockInv ==
  /\ \A c \in Scheduler : phase[c] # Idle
  /\ \A t \in Caller : Inside(t) => phase[t].member \in System /\ phase[t].since <= now
  /\ failures = 0 => WaitersServed /\ HolderCameFirst

(* A caller gets the lock of a key, or joins those who wait for it, or     *)
(* leaves get(): what the lock needs then.                                 *)
LEMMA LockTypes ==
  ASSUME SchedulerTypes, LockInv, now \in Nat, NEW t \in Caller
  PROVE  /\ phase \in [Task -> Phase] /\ t \in Task
         /\ Idle.at = "idle" /\ Idle \in Phase
         /\ Inside(t) => /\ phase[t].member \in System /\ phase[t].duty \in Duty
                         /\ phase[t].since \in Nat /\ phase[t].since <= now
<1>1. phase \in [Task -> Phase] /\ t \in Task /\ phase[t] \in Phase
  BY DEF SchedulerTypes, Phase, Caller
<1>2. Idle.at = "idle" /\ Idle \in Phase
  BY DEF Idle, Phase
<1>3. Inside(t) => phase[t].duty \in Duty /\ phase[t].since \in Nat
  BY <1>1 DEF Phase, Inside, Idle
<1>4. QED BY <1>1, <1>2, <1>3 DEF LockInv

HeldNext(m, d) ==
  \E v \in Caller : /\ phase'[v].at = "fetching"
                    /\ phase'[v].member = m
                    /\ phase'[v].duty = d

LEMMA LockAcquired ==
  ASSUME SchedulerTypes, LockInv, now \in Nat, startup' = startup, now' = now,
         storedAt' = storedAt, failures' = failures,
         NEW t \in Caller, NEW m \in System, NEW d \in Duty, Enter(t, "fetching", m, d),
         phase[t].at # "fetching",
         ~ (/\ failures = 0 /\ t # "direct" /\ "direct" \in Scheduler
            /\ At("direct", "waiting", m, d))
  PROVE  LockInv'
<1> DEFINE p == [at |-> "fetching", member |-> m, duty |-> d, since |-> now]
<1>1. /\ phase \in [Task -> Phase] /\ t \in Task /\ phase' = [phase EXCEPT ![t] = p]
      /\ Task' = Task /\ Caller' = Caller /\ Scheduler' = Scheduler /\ System' = System
      /\ Caller \subseteq Task /\ Scheduler \subseteq Task
  BY LockTypes DEF Enter, Task, Caller, Scheduler, System, Members, RegionalMembers
<1>2. phase'[t] = p /\ \A u \in Task : u # t => phase'[u] = phase[u]
  BY <1>1
<1>3. /\ p.at = "fetching" /\ p.member = m /\ p.duty = d /\ p.since = now /\ p # Idle
  BY DEF Idle
<1> HIDE DEF p
<1>4. \A c \in Scheduler' : phase'[c] # Idle
  BY <1>1, <1>2, <1>3 DEF LockInv
<1>5. \A u \in Caller' : Inside(u)' => phase'[u].member \in System' /\ phase'[u].since <= now'
  BY <1>1, <1>2, <1>3 DEF LockInv, Inside
<1>6. \A n, e : LockHeld(n, e) => HeldNext(n, e)
  BY <1>1, <1>2 DEF LockHeld, At, HeldNext
<1>7. ASSUME failures = 0
      PROVE  WaitersServed'
  <2> SUFFICES ASSUME NEW u \in Caller, phase'[u].at = "waiting",
                      ~ HeldNext(phase'[u].member, phase'[u].duty)
               PROVE  storedAt[phase'[u].duty][phase'[u].member] = now
    BY <1>1 DEF WaitersServed, LockHeld, At, HeldNext
  <2>1. u # t /\ phase'[u] = phase[u]
    BY <1>1, <1>2, <1>3
  <2>2. ~ LockHeld(phase[u].member, phase[u].duty)
    BY <1>6, <2>1
  <2>3. QED BY <1>7, <2>1, <2>2 DEF LockInv, WaitersServed
<1>8. ASSUME failures = 0
      PROVE  HolderCameFirst'
  <2> SUFFICES ASSUME "direct" \in Scheduler, phase'["direct"].at = "waiting",
                      NEW u \in Caller,
                      At(u, "fetching", Direct.member, Direct.duty)'
               PROVE  phase'[u].since <= phase'["direct"].since
    BY <1>1 DEF HolderCameFirst, Direct
  <2>1. "direct" # t /\ phase'["direct"] = phase["direct"]
    BY <1>1, <1>2, <1>3
  <2>2. CASE u = t
    <3>1. At("direct", "waiting", m, d)
      BY <1>2, <1>3, <2>1, <2>2 DEF At, Direct
    <3>2. QED BY <1>8, <2>1, <3>1
  <2>3. CASE u # t
    <3>1. phase'[u] = phase[u]
      BY <1>1, <1>2, <2>3
    <3>2. QED BY <1>8, <2>1, <3>1 DEF LockInv, HolderCameFirst, At, Direct
  <2>4. QED BY <2>2, <2>3
<1>9. QED BY <1>4, <1>5, <1>7, <1>8 DEF LockInv

LEMMA LockAwaited ==
  ASSUME SchedulerTypes, LockInv, now \in Nat, startup' = startup, now' = now,
         storedAt' = storedAt, failures' = failures,
         NEW t \in Caller, NEW m \in System, NEW d \in Duty, WaitForLock(t, m, d),
         ~ Inside(t)
  PROVE  LockInv'
<1> DEFINE p == [at |-> "waiting", member |-> m, duty |-> d, since |-> now]
<1>1. /\ phase \in [Task -> Phase] /\ t \in Task /\ phase' = [phase EXCEPT ![t] = p]
      /\ Task' = Task /\ Caller' = Caller /\ Scheduler' = Scheduler /\ System' = System
      /\ Caller \subseteq Task /\ Scheduler \subseteq Task
  BY LockTypes DEF WaitForLock, Enter, Task, Caller, Scheduler, System, Members, RegionalMembers
<1>2. phase'[t] = p /\ \A u \in Task : u # t => phase'[u] = phase[u]
  BY <1>1
<1>3. /\ p.at = "waiting" /\ p.member = m /\ p.duty = d /\ p.since = now /\ p # Idle
  BY DEF Idle
<1> HIDE DEF p
<1>4. \A c \in Scheduler' : phase'[c] # Idle
  BY <1>1, <1>2, <1>3 DEF LockInv
<1>5. \A u \in Caller' : Inside(u)' => phase'[u].member \in System' /\ phase'[u].since <= now'
  BY <1>1, <1>2, <1>3 DEF LockInv, Inside
<1>6. \A n, e : LockHeld(n, e) => HeldNext(n, e)
  BY <1>1, <1>2 DEF LockHeld, At, Inside, HeldNext
<1>7. ASSUME failures = 0
      PROVE  WaitersServed'
  <2> SUFFICES ASSUME NEW u \in Caller, phase'[u].at = "waiting",
                      ~ HeldNext(phase'[u].member, phase'[u].duty)
               PROVE  storedAt[phase'[u].duty][phase'[u].member] = now
    BY <1>1 DEF WaitersServed, LockHeld, At, HeldNext
  <2>1. CASE u # t
    <3>1. phase'[u] = phase[u]
      BY <1>1, <1>2, <2>1
    <3>2. ~ LockHeld(phase[u].member, phase[u].duty)
      BY <1>6, <3>1
    <3>3. QED BY <1>7, <3>1, <3>2 DEF LockInv, WaitersServed
  <2>2. CASE u = t
    <3>1. phase'[u].member = m /\ phase'[u].duty = d
      BY <1>2, <1>3, <2>2
    <3>2. ~ LockHeld(m, d) /\ LockBusy(m, d)
      BY <1>6, <3>1 DEF WaitForLock
    <3>3. PICK v \in Caller : At(v, "waiting", m, d)
      BY <3>2 DEF LockBusy
    <3>4. QED BY <1>7, <3>1, <3>2, <3>3 DEF LockInv, WaitersServed, At
  <2>3. QED BY <2>1, <2>2
<1>8. ASSUME failures = 0
      PROVE  HolderCameFirst'
  <2> SUFFICES ASSUME "direct" \in Scheduler, phase'["direct"].at = "waiting",
                      NEW u \in Caller,
                      At(u, "fetching", Direct.member, Direct.duty)'
               PROVE  phase'[u].since <= phase'["direct"].since
    BY <1>1 DEF HolderCameFirst, Direct
  <2>1. u # t /\ phase'[u] = phase[u] /\ phase[u].at = "fetching"
    BY <1>1, <1>2, <1>3 DEF At
  <2>2. CASE t = "direct"
    <3>1. phase[u].since <= now
      BY <2>1 DEF LockInv, Inside
    <3>2. QED BY <1>2, <1>3, <2>1, <2>2, <3>1
  <2>3. CASE t # "direct"
    <3>1. phase'["direct"] = phase["direct"]
      BY <1>1, <1>2, <2>3
    <3>2. QED BY <1>8, <2>1, <3>1 DEF LockInv, HolderCameFirst, At, Direct
  <2>4. QED BY <2>2, <2>3
<1>9. QED BY <1>4, <1>5, <1>7, <1>8 DEF LockInv

LEMMA LockLeft ==
  ASSUME SchedulerTypes, LockInv, now \in Nat, startup' = startup, now' = now,
         NEW t \in Caller, Sleep(t) \/ (Leave(t) /\ t \in Request),
         phase[t].at = "fetching" /\ failures' = 0 =>
           storedAt' = [storedAt EXCEPT ![phase[t].duty][phase[t].member] = now],
         phase[t].at # "fetching" => storedAt' = storedAt,
         failures' = 0 => failures = 0
  PROVE  LockInv'
<1> DEFINE p == IF Sleep(t) THEN Sleeping(now + TickInterval) ELSE Idle
<1>1. /\ phase \in [Task -> Phase] /\ t \in Task /\ phase' = [phase EXCEPT ![t] = p]
      /\ Task' = Task /\ Caller' = Caller /\ Scheduler' = Scheduler /\ System' = System
      /\ Caller \subseteq Task /\ Scheduler \subseteq Task
  BY LockTypes DEF Sleep, Leave, Task, Caller, Scheduler, System, Members, RegionalMembers
<1>2. phase'[t] = p /\ \A u \in Task : u # t => phase'[u] = phase[u]
  BY <1>1
<1>3. /\ p.at # "fetching" /\ p.at # "waiting"
      /\ p = Idle => t \in Request
      /\ Request \cap Scheduler = {}
  BY SchedulerAssumption DEF Idle, Sleeping, Scheduler
<1> HIDE DEF p
<1>4. \A c \in Scheduler' : phase'[c] # Idle
  BY <1>1, <1>2, <1>3 DEF LockInv
<1>5. \A u \in Caller' : Inside(u)' => phase'[u].member \in System' /\ phase'[u].since <= now'
  BY <1>1, <1>2, <1>3 DEF LockInv, Inside
<1>7. ASSUME failures' = 0
      PROVE  WaitersServed'
  <2> SUFFICES ASSUME NEW u \in Caller, phase'[u].at = "waiting",
                      ~ HeldNext(phase'[u].member, phase'[u].duty)
               PROVE  storedAt'[phase'[u].duty][phase'[u].member] = now
    BY <1>1 DEF WaitersServed, LockHeld, At, HeldNext
  <2> DEFINE n == phase[u].member
             e == phase[u].duty
  <2>1. u # t /\ phase'[u] = phase[u]
    BY <1>1, <1>2, <1>3
  <2>2. n \in System /\ e \in Duty
    BY <2>1, LockTypes DEF Inside
  <2>3. storedAt \in [Duty -> [System -> Nat \cup {Never}]]
    BY DEF SchedulerTypes
  <2>4. ~ HeldNext(n, e)
    BY <2>1
  <2>5. CASE At(t, "fetching", n, e)
    <3>1. storedAt' = [storedAt EXCEPT ![e][n] = now]
      BY <1>7, <2>5 DEF At
    <3> HIDE DEF n, e
    <3>2. storedAt'[e][n] = now
      BY <2>2, <2>3, <3>1
    <3>3. QED BY <2>1, <3>2 DEF n, e
  <2>6. CASE ~ At(t, "fetching", n, e)
    <3>1. ~ LockHeld(n, e)
      <4> HIDE DEF n, e
      <4>1. \A v \in Caller : At(v, "fetching", n, e) => v # t /\ phase'[v] = phase[v]
        BY <1>1, <1>2, <2>6 DEF At
      <4>2. QED BY <2>4, <4>1 DEF LockHeld, HeldNext, At
    <3>2. storedAt[e][n] = now
      BY <1>7, <2>1, <3>1 DEF LockInv, WaitersServed
    <3>3. storedAt'[e][n] = now
      <4> DEFINE i == phase[t].duty
                 j == phase[t].member
      <4>1. storedAt' = storedAt \/ storedAt' = [storedAt EXCEPT ![i][j] = now]
        BY <1>7
      <4> HIDE DEF i, j, n, e
      <4>2. QED BY <2>2, <2>3, <3>2, <4>1
    <3>4. QED BY <2>1, <3>3
  <2>7. QED BY <2>5, <2>6
<1>8. ASSUME failures' = 0
      PROVE  HolderCameFirst'
  <2> SUFFICES ASSUME "direct" \in Scheduler, phase'["direct"].at = "waiting",
                      NEW u \in Caller,
                      At(u, "fetching", Direct.member, Direct.duty)'
               PROVE  phase'[u].since <= phase'["direct"].since
    BY <1>1 DEF HolderCameFirst, Direct
  <2>1. u # t /\ phase'[u] = phase[u] /\ phase'["direct"] = phase["direct"]
    BY <1>1, <1>2, <1>3 DEF At
  <2>2. QED BY <1>8, <2>1 DEF LockInv, HolderCameFirst, At, Direct
<1>9. QED BY <1>4, <1>5, <1>7, <1>8 DEF LockInv

(* A step that moves no caller of get(), and stores only what is new.      *)
LEMMA LockUntouched ==
  ASSUME SchedulerTypes, LockInv, now \in Nat, startup' = startup, failures' = failures,
         \A t \in Caller : phase'[t] = phase[t] \/ (phase'[t].at = "sleeping" /\ phase[t].at = "sleeping"),
         \A c \in Scheduler : phase'[c] # Idle,
         \/ now' = now /\ \A d \in Duty, m \in System :
                           storedAt'[d][m] = storedAt[d][m] \/ storedAt'[d][m] = now
         \/ OnTime /\ now' = now + 1
  PROVE  LockInv'
<1>1. /\ Caller' = Caller /\ Scheduler' = Scheduler /\ System' = System
      /\ Caller \subseteq Task
  BY DEF Task, Caller, Scheduler, System, Members, RegionalMembers
<1>2. \A t \in Caller : Inside(t)' => phase'[t] = phase[t] /\ Inside(t)
  BY <1>1 DEF Inside
<1>3. \A t \in Caller : Inside(t) => phase'[t] = phase[t]
  BY DEF Inside
<1>4. \A t \in Caller' : Inside(t)' => phase'[t].member \in System' /\ phase'[t].since <= now'
  <2> SUFFICES ASSUME NEW t \in Caller, Inside(t), phase'[t] = phase[t]
               PROVE  phase'[t].member \in System /\ phase'[t].since <= now'
    BY <1>1, <1>2
  <2>1. phase[t].member \in System /\ phase[t].since \in Nat /\ phase[t].since <= now
    BY LockTypes
  <2>2. now' = now \/ now' = now + 1
    OBVIOUS
  <2>3. QED BY <2>1, <2>2
<1>5. \A m, d : LockHeld(m, d) => HeldNext(m, d)
  BY <1>3 DEF LockHeld, At, HeldNext, Inside
<1>6. ASSUME failures = 0
      PROVE  WaitersServed'
  <2> SUFFICES ASSUME NEW u \in Caller, phase'[u].at = "waiting",
                      ~ HeldNext(phase'[u].member, phase'[u].duty)
               PROVE  storedAt'[phase'[u].duty][phase'[u].member] = now'
    BY <1>1 DEF WaitersServed, LockHeld, At, HeldNext
  <2>1. phase'[u] = phase[u] /\ phase[u].at = "waiting" /\ u \in Task
    BY <1>1
  <2>2. ~ LockHeld(phase[u].member, phase[u].duty)
    BY <1>5, <2>1
  <2>3. storedAt[phase[u].duty][phase[u].member] = now
    BY <1>6, <2>1, <2>2 DEF LockInv, WaitersServed
  <2>4. ~ OnTime
    BY <2>1, <2>2 DEF OnTime
  <2>5. phase[u].duty \in Duty /\ phase[u].member \in System
    BY <2>1, LockTypes DEF Inside
  <2>6. QED BY <2>1, <2>3, <2>4, <2>5
<1>7. ASSUME failures = 0
      PROVE  HolderCameFirst'
  <2> SUFFICES ASSUME "direct" \in Scheduler, phase'["direct"].at = "waiting",
                      NEW u \in Caller,
                      At(u, "fetching", Direct.member, Direct.duty)'
               PROVE  phase'[u].since <= phase'["direct"].since
    BY <1>1 DEF HolderCameFirst, Direct
  <2>1. "direct" \in Caller
    BY DEF Caller, Task
  <2>2. phase'[u] = phase[u] /\ phase'["direct"] = phase["direct"]
    BY <1>2, <2>1 DEF At, Inside
  <2>3. QED BY <1>7, <2>2 DEF LockInv, HolderCameFirst, At, Direct
<1>8. \A c \in Scheduler' : phase'[c] # Idle
  BY <1>1
<1>9. QED BY <1>4, <1>6, <1>7, <1>8 DEF LockInv

LEMMA LockInvStep ==
  ASSUME SchedulerTypes, LockInv, now \in Nat, [Next]_vars
  PROVE  LockInv'
<1>0. startup' = startup
  BY DEF Next, ClockStopped, vars
<1>1. /\ phase \in [Task -> Phase] /\ Scheduler \subseteq Task /\ Request \subseteq Caller
      /\ storedAt \in [Duty -> [System -> Nat \cup {Never}]]
      /\ Request \cap Scheduler = {} /\ "regional" \notin Caller
      /\ "direct" \in Scheduler => "direct" \in Caller
      /\ Elements(Members) \subseteq System
  BY SchedulerAssumption DEF SchedulerTypes, Phase, Task, Caller, Scheduler, System
<1>2. \A t : /\ Quota!TryConsume(group, TRUE) \/ Quota!TryConsume(group, FALSE) => now' = now
             /\ \A m, d : FetchUnderLock(t, m, d) => Enter(t, "fetching", m, d) /\ now' = now
             /\ \A m, d : ServeCached(m, d) \/ WaitForLock(t, m, d) => now' = now
  BY DEF FetchUnderLock, ServeCached, WaitForLock, Quota!TryConsume, Quota!Granted,
         Quota!Denied, Quota!Unmetered
<1>3. ASSUME NEW m \in Elements(Members), DirectTurn(m)
      PROVE  LockInv'
  <2> DEFINE d == DutyOfTick("direct")
  <2>1. /\ "direct" \in Scheduler /\ phase["direct"].at = "sleeping" /\ d \in Duty
        /\ failures' = failures /\ storedAt' = storedAt
        /\ \/ FetchUnderLock("direct", m, d) \/ WaitForLock("direct", m, d)
           \/ ServeCached(m, d) /\ Sleep("direct")
    BY <1>3 DEF DirectTurn, DirectGet, Due, DutyOfTick, Duty
  <2> HIDE DEF d
  <2>2. m \in System
    BY <1>1
  <2>3. CASE FetchUnderLock("direct", m, d)
    BY <1>0, <1>1, <1>2, <2>1, <2>2, <2>3, LockAcquired
  <2>4. CASE WaitForLock("direct", m, d)
    <3>1. ~ Inside("direct")
      BY <2>1 DEF Inside
    <3>2. QED BY <1>0, <1>1, <1>2, <2>1, <2>2, <2>4, <3>1, LockAwaited
  <2>5. CASE ServeCached(m, d) /\ Sleep("direct")
    BY <1>0, <1>1, <1>2, <2>1, <2>5, LockLeft
  <2>6. QED BY <2>1, <2>3, <2>4, <2>5
<1>4. ASSUME NEW m \in Elements(Members), NEW d \in Duty, DirectWakes(m, d)
      PROVE  LockInv'
  <2>1. /\ "direct" \in Scheduler /\ At("direct", "waiting", m, d)
        /\ failures' = failures /\ storedAt' = storedAt
        /\ \/ FetchUnderLock("direct", m, d)
           \/ ServeCached(m, d) /\ Sleep("direct")
    BY <1>4 DEF DirectWakes, DirectGet
  <2>2. phase["direct"].at # "fetching" /\ m \in System
    BY <1>1, <2>1 DEF At
  <2>3. CASE FetchUnderLock("direct", m, d)
    BY <1>0, <1>1, <1>2, <2>1, <2>2, <2>3, LockAcquired
  <2>4. CASE ServeCached(m, d) /\ Sleep("direct")
    BY <1>0, <1>1, <1>2, <2>1, <2>2, <2>4, LockLeft
  <2>5. QED BY <2>1, <2>3, <2>4
<1>5. ASSUME NEW r \in Request, NEW m \in System, NEW d \in Duty, RequestCalls(r, m, d)
      PROVE  LockInv'
  <2>1. /\ phase[r] = Idle /\ failures' = failures /\ storedAt' = storedAt
        /\ \/ ~ LockBusy(m, d) /\ FetchUnderLock(r, m, d)
           \/ WaitForLock(r, m, d)
           \/ ServeCached(m, d) /\ Leave(r)
    BY <1>5 DEF RequestCalls, RequestGet
  <2>2. phase[r].at = "idle"
    BY <2>1 DEF Idle
  <2>3. CASE ~ LockBusy(m, d) /\ FetchUnderLock(r, m, d)
    <3>1. ~ ("direct" \in Scheduler /\ At("direct", "waiting", m, d))
      BY <1>1, <2>3 DEF LockBusy
    <3>2. QED BY <1>0, <1>1, <1>2, <2>1, <2>2, <2>3, <3>1, LockAcquired
  <2>4. CASE WaitForLock(r, m, d)
    <3>1. ~ Inside(r)
      BY <2>2 DEF Inside
    <3>2. QED BY <1>0, <1>1, <1>2, <2>1, <2>4, <3>1, LockAwaited
  <2>5. CASE ServeCached(m, d) /\ Leave(r)
    BY <1>0, <1>1, <1>2, <2>1, <2>2, <2>5, LockLeft
  <2>6. QED BY <2>1, <2>3, <2>4, <2>5
<1>6. ASSUME NEW r \in Request, NEW m \in System, NEW d \in Duty, RequestWakes(r, m, d)
      PROVE  LockInv'
  <2>1. /\ At(r, "waiting", m, d) /\ ~ LockHeld(m, d)
        /\ failures' = failures /\ storedAt' = storedAt
        /\ \/ ~ Fresh(m, d) /\ FetchUnderLock(r, m, d)
           \/ (ServeCached(m, d) \/ now' = now) /\ Leave(r)
    BY <1>6 DEF RequestWakes, RequestGet
  <2>2. phase[r].at = "waiting" /\ phase[r].member = m /\ phase[r].duty = d
    BY <2>1 DEF At
  <2>3. CASE ~ Fresh(m, d) /\ FetchUnderLock(r, m, d)
    <3>1. failures # 0
      <4> SUFFICES ASSUME failures = 0 PROVE FALSE
        OBVIOUS
      <4>1. storedAt[d][m] = now
        BY <1>1, <2>1, <2>2 DEF LockInv, WaitersServed
      <4>2. Fresh(m, d)
        BY <4>1, SchedulerAssumption DEF Fresh, Never
      <4>3. QED BY <2>3, <4>2
    <3>2. /\ m \in System /\ d \in Duty /\ r \in Caller
          /\ Enter(r, "fetching", m, d) /\ now' = now
      BY <1>1, <1>2, <2>3
    <3>3. QED BY <1>0, <1>1, <2>1, <2>2, <3>1, <3>2, LockAcquired
  <2>4. CASE (ServeCached(m, d) \/ now' = now) /\ Leave(r)
    BY <1>0, <1>1, <1>2, <2>1, <2>2, <2>4, LockLeft
  <2>5. QED BY <2>1, <2>3, <2>4
<1>7. ASSUME NEW r \in Request, RequestFetched(r) \/ RequestFails(r)
      PROVE  LockInv'
  <2>1. /\ Leave(r) /\ now' = now
        /\ \/ /\ phase[r].at = "fetching" /\ failures' = failures
              /\ storedAt' = [storedAt EXCEPT ![phase[r].duty][phase[r].member] = now]
           \/ storedAt' = storedAt /\ failures' = failures + 1
    BY <1>7 DEF RequestFetched, RequestFails
  <2>2. failures \in Nat
    BY SchedulerAssumption DEF SchedulerTypes
  <2>3. failures' = 0 => failures = 0
    BY <2>1, <2>2
  <2>4. phase[r].at # "fetching" => storedAt' = storedAt
    BY <2>1
  <2>5. phase[r].at = "fetching" /\ failures' = 0 =>
          storedAt' = [storedAt EXCEPT ![phase[r].duty][phase[r].member] = now]
    BY <2>1, <2>2
  <2>6. r \in Caller
    BY <1>1
  <2>7. QED BY <1>0, <2>1, <2>3, <2>4, <2>5, <2>6, LockLeft
<1>8. ASSUME NEW d \in Duty, DirectFetched(d)
      PROVE  LockInv'
  <2>1. /\ "direct" \in Scheduler /\ phase["direct"].at = "fetching" /\ phase["direct"].duty = d
        /\ storedAt' = [storedAt EXCEPT ![d][phase["direct"].member] = now]
        /\ Sleep("direct") /\ now' = now /\ failures' = failures
    BY <1>8 DEF DirectFetched, FetchDone
  <2>2. QED BY <1>0, <1>1, <2>1, LockLeft
<1>9. ASSUME FetchRaised("direct"), "direct" \in Scheduler
      PROVE  LockInv'
  <2>1. /\ Sleep("direct") /\ now' = now /\ failures' = failures + 1 /\ storedAt' = storedAt
    BY <1>9 DEF FetchRaised
  <2>2. failures \in Nat
    BY SchedulerAssumption DEF SchedulerTypes
  <2>3. failures' # 0
    BY <2>1, <2>2
  <2>4. "direct" \in Caller
    BY <1>1, <1>9
  <2>5. QED BY <1>0, <2>1, <2>3, <2>4, LockLeft
<1>10. ASSUME DirectIdleTick
       PROVE  LockInv'
  <2>1. /\ "direct" \in Scheduler /\ phase["direct"].at = "sleeping" /\ Sleep("direct")
        /\ now' = now /\ failures' = failures /\ storedAt' = storedAt
    BY <1>10 DEF DirectIdleTick, Due
  <2>2. QED BY <1>0, <1>1, <2>1, LockLeft
<1>11. ASSUME "regional" \in Scheduler,
              \/ Sleep("regional") \/ \E m, d : Enter("regional", "fetching", m, d),
              now' = now, failures' = failures,
              \A d \in Duty, m \in System :
                storedAt'[d][m] = storedAt[d][m] \/ storedAt'[d][m] = now
       PROVE  LockInv'
  <2>1. /\ \A t \in Task : t # "regional" => phase'[t] = phase[t]
        /\ phase'["regional"] # Idle
    BY <1>1, <1>11 DEF Sleep, Sleeping, Enter, Idle
  <2>2. \A c \in Scheduler : phase'[c] # Idle
    BY <1>1, <2>1 DEF LockInv
  <2>3. \A t \in Caller : phase'[t] = phase[t]
    BY <1>1, <2>1 DEF Caller
  <2>4. QED BY <1>0, <1>11, <2>2, <2>3, LockUntouched
<1>12. ASSUME RegionalTick
       PROVE  LockInv'
  <2>1. /\ "regional" \in Scheduler /\ failures' = failures /\ storedAt' = storedAt
        /\ \/ Sleep("regional") \/ \E m, d : Enter("regional", "fetching", m, d)
    BY <1>12 DEF RegionalTick, Due
  <2>2. now' = now
    BY <1>2, <1>12 DEF RegionalTick
  <2>3. QED BY <1>11, <2>1, <2>2
<1>13. ASSUME NEW d \in Duty, NEW mentioned \in SUBSET RegionalMembers,
              RegionalFetched(d, mentioned)
       PROVE  LockInv'
  <2>1. /\ "regional" \in Scheduler /\ failures' = failures /\ Sleep("regional") /\ now' = now
        /\ storedAt' = [storedAt EXCEPT ![d] =
                          [m \in System |-> IF m \in mentioned THEN now ELSE storedAt[d][m]]]
    BY <1>13 DEF RegionalFetched, FetchDone
  <2>2. \A e \in Duty, m \in System :
          storedAt'[e][m] = storedAt[e][m] \/ storedAt'[e][m] = now
    BY <1>1, <2>1
  <2>3. QED BY <1>11, <2>1, <2>2
<1>14. ASSUME FetchRaised("regional"), "regional" \in Scheduler
       PROVE  LockInv'
  <2>1. /\ Sleep("regional") /\ now' = now /\ failures' = failures + 1 /\ storedAt' = storedAt
    BY <1>14 DEF FetchRaised
  <2>2. failures' # 0
    <3>1. failures \in Nat
      BY SchedulerAssumption DEF SchedulerTypes
    <3>2. QED BY <2>1, <3>1
  <2>3. /\ \A t \in Caller : phase'[t] = phase[t]
        /\ \A c \in Scheduler : phase'[c] # Idle
    BY <1>1, <2>1 DEF Sleep, Sleeping, Idle, LockInv, Caller
  <2>4. /\ Caller' = Caller /\ Scheduler' = Scheduler /\ System' = System
    BY <1>0 DEF Task, Caller, Scheduler, System, Members, RegionalMembers
  <2>5. QED BY <2>1, <2>2, <2>3, <2>4 DEF LockInv, Inside
<1>15. ASSUME Tick \/ UNCHANGED vars
       PROVE  LockInv'
  <2>1. phase' = phase /\ failures' = failures
    BY <1>15 DEF Tick, vars
  <2>2. (storedAt' = storedAt /\ now' = now) \/ (OnTime /\ now' = now + 1)
    BY <1>15 DEF Tick, vars, Quota!Tick
  <2>3. \A c \in Scheduler : phase[c] # Idle
    BY DEF LockInv
  <2>4. QED BY <1>0, <2>1, <2>2, <2>3, LockUntouched
<1>16. \A c \in Scheduler : c = "direct" \/ c = "regional"
  BY DEF Scheduler
<1>17. QED
  BY <1>3, <1>4, <1>5, <1>6, <1>7, <1>8, <1>9, <1>10, <1>12, <1>13, <1>14, <1>15, <1>16
     DEF Next, Step, ClockStopped

LEMMA LockInvHolds == Spec => []LockInv
<1>1. Init => LockInv
  <2> SUFFICES ASSUME Init PROVE LockInv
    OBVIOUS
  <2>1. phase = [t \in Task |-> IF t \in Scheduler THEN Sleeping(0) ELSE Idle]
    BY DEF Init
  <2>2. \A t \in Caller : phase[t].at # "waiting" /\ ~ Inside(t)
    BY <2>1 DEF Sleeping, Idle, Inside, Caller
  <2>3. \A c \in Scheduler : phase[c] # Idle
    BY <2>1 DEF Sleeping, Idle, Task
  <2>4. "direct" \in Scheduler => Direct.at # "waiting"
    BY <2>1 DEF Sleeping, Direct, Task
  <2>5. QED BY <2>2, <2>3, <2>4 DEF LockInv, WaitersServed, HolderCameFirst
<1>2. SchedulerTypes /\ QuotaFacts /\ LockInv /\ [Next]_vars => LockInv'
  BY LockInvStep DEF QuotaFacts, Quota!TypeOK
<1>3. TypeOK => SchedulerTypes
  BY DEF TypeOK
<1>4. QED BY <1>1, <1>2, <1>3, TypeCorrect, QuotaFactsHold, PTL DEF Spec

(* The earliest moment of the next tick of the direct scheduler, and the   *)
(* latest one: it may wait for the lock of its key as long as a request's  *)
(* fetch lasts, and then fetch as long.                                    *)
SoonestTick == IF Direct.at = "sleeping" THEN Direct.until ELSE Direct.since + TickInterval
LatestTick == IF Direct.at = "sleeping" THEN Direct.until
              ELSE IF Direct.at = "fetching" THEN Direct.since + MaxLatency + TickInterval
              ELSE Direct.since + Spacing

HavingTurn(m) ==
  Direct.at \in {"fetching", "waiting"} /\ Direct.duty = "trips" /\ Direct.member = m

RotationTime == Len(Members) * TickInterval
LatestTime == TicksFor(Len(Members)) * Spacing

(* `next` predicts the turn that is n turns and k ticks ahead, when the    *)
(* next tick is between `soonest` and `latest`.                            *)
Predicts(next, soonest, latest, n, k) ==
  /\ next <= soonest + n * TickInterval
  /\ latest + k * Spacing <= next + LatestTime - RotationTime + TickInterval

LEMMA PredictionTypes ==
  ASSUME SchedulerTypes, Members # << >>
  PROVE  /\ TickInterval \in Nat \ {0} /\ MaxLatency \in Nat /\ Spacing \in Nat
         /\ TickInterval <= Spacing /\ Spacing = TickInterval + 2 * MaxLatency
         /\ Len(Members) \in Nat \ {0}
         /\ RotationTime \in Nat /\ LatestTime \in Nat /\ TicksFor(Len(Members)) \in Nat
<1>1. /\ TickInterval \in Nat \ {0} /\ MaxLatency \in Nat /\ Spacing \in Nat
      /\ TickInterval <= Spacing /\ Spacing = TickInterval + 2 * MaxLatency
  BY SchedulerAssumption DEF Spacing
<1>2. Len(Members) \in Nat \ {0}
  <2>1. Rotation(Members, Elements(Members))
    BY StartupRotations DEF Startup
  <2>2. Members \in Seq(Elements(Members))
    BY <2>1 DEF Rotation
  <2> HIDE DEF Members
  <2>3. QED BY <2>2
<1>3. TicksFor(Len(Members)) \in Nat
  <2>1. ALERTS_TICK_EVERY - 1 \in Nat \ {0} /\ Len(Members) + ALERTS_TICK_EVERY - 2 \in Nat
    <3>1. ALERTS_TICK_EVERY \in Nat \ {0, 1}
      BY SchedulerAssumption
    <3> DEFINE n == Len(Members)
    <3>2. n \in Nat \ {0}
      BY <1>2
    <3> HIDE DEF n
    <3>3. ALERTS_TICK_EVERY - 1 \in Nat \ {0} /\ n + ALERTS_TICK_EVERY - 2 \in Nat
      BY <3>1, <3>2
    <3>4. QED BY <3>3 DEF n
  <2>2. \A b \in Nat \ {0}, n \in Nat : n \div b \in Nat
    BY DivisionSteps
  <2>3. (Len(Members) + ALERTS_TICK_EVERY - 2) \div (ALERTS_TICK_EVERY - 1) \in Nat
    BY <2>1, <2>2
  <2>4. QED BY <1>2, <2>3 DEF TicksFor
<1>4. \A i, j \in Nat : i * j \in Nat
  OBVIOUS
<1>5. QED BY <1>1, <1>2, <1>3, <1>4 DEF RotationTime, LatestTime

(* The prediction stays right while the window of the next tick narrows,   *)
(* when a tick passes, with or without a TripUpdates turn, and when it is  *)
(* made anew.                                                              *)
LEMMA PredictionKept ==
  ASSUME SchedulerTypes, Members # << >>,
         NEW next \in Int, NEW s \in Int, NEW l \in Int, NEW n \in Nat, NEW k \in Nat,
         Predicts(next, s, l, n, k), NEW s2 \in Int, NEW l2 \in Int
  PROVE  /\ s <= s2 /\ l2 <= l => Predicts(next, s2, l2, n, k)
         /\ s + TickInterval <= s2 /\ l2 <= l + Spacing =>
              Predicts(next, s2, l2, n - 1, k - 1) /\ Predicts(next, s2, l2, n, k - 1)
<1>1. /\ TickInterval \in Nat /\ Spacing \in Nat
      /\ RotationTime \in Nat /\ LatestTime \in Nat
  BY PredictionTypes
<1> DEFINE nI == n * TickInterval
           kS == k * Spacing
<1>2. (n - 1) * TickInterval = nI - TickInterval /\ (k - 1) * Spacing = kS - Spacing
  BY <1>1
<1>3. nI \in Int /\ kS \in Int
  BY <1>1
<1>4. next <= s + nI /\ l + kS <= next + LatestTime - RotationTime + TickInterval
  BY DEF Predicts
<1> HIDE DEF nI, kS
<1>5. ASSUME s <= s2, l2 <= l
      PROVE  Predicts(next, s2, l2, n, k)
  <2>1. next <= s2 + nI /\ l2 + kS <= next + LatestTime - RotationTime + TickInterval
    BY <1>1, <1>3, <1>4, <1>5
  <2>2. QED BY <2>1 DEF Predicts, nI, kS
<1>6. ASSUME s + TickInterval <= s2, l2 <= l + Spacing
      PROVE  Predicts(next, s2, l2, n - 1, k - 1) /\ Predicts(next, s2, l2, n, k - 1)
  <2>1. /\ next <= s2 + (nI - TickInterval) /\ next <= s2 + nI
        /\ l2 + (kS - Spacing) <= next + LatestTime - RotationTime + TickInterval
    BY <1>1, <1>3, <1>4, <1>6
  <2>2. nI = n * TickInterval /\ kS = k * Spacing
    BY DEF nI, kS
  <2>3. QED BY <1>2, <2>1, <2>2 DEF Predicts
<1>7. QED BY <1>5, <1>6

LEMMA PredictionMade ==
  ASSUME SchedulerTypes, Members # << >>, NEW t \in Nat, NEW count \in Nat
  PROVE  Predicts(t + RotationTime, t + TickInterval, t + TickInterval, Len(Members),
                  TicksUntil(Len(Members), count))
<1> DEFINE k == TicksUntil(Len(Members), count)
<1>1. /\ TickInterval \in Nat /\ Spacing \in Nat /\ TickInterval <= Spacing
      /\ Len(Members) \in Nat \ {0}
      /\ RotationTime \in Nat /\ LatestTime \in Nat
  BY PredictionTypes
<1>2. k \in Nat /\ k <= TicksFor(Len(Members))
  BY <1>1, TicksUntilBound
<1>3. k * Spacing <= LatestTime /\ k * Spacing \in Nat
  <2>1. TicksFor(Len(Members)) \in Nat
    BY PredictionTypes
  <2>2. \A i, j, x \in Nat : i <= j => i * x <= j * x
    OBVIOUS
  <2>3. \A i, x \in Nat : i * x \in Nat
    OBVIOUS
  <2> HIDE DEF k
  <2>4. QED BY <1>1, <1>2, <2>1, <2>2, <2>3 DEF LatestTime
<1> HIDE DEF k
<1>4. t + RotationTime <= t + TickInterval + Len(Members) * TickInterval
  BY <1>1 DEF RotationTime
<1>5. t + TickInterval + k * Spacing
        <= t + RotationTime + LatestTime - RotationTime + TickInterval
  BY <1>1, <1>3
<1>6. QED BY <1>4, <1>5 DEF Predicts, k

(* The prediction of the i-th member; while its turn is being taken it has *)
(* a whole rotation ahead and no prediction yet.                           *)
MemberPredicted(i) ==
  IF HavingTurn(Members[i])
  THEN Ahead(i, tripCursor) = Len(Members)
  ELSE Predicts(nextUpdateAt[Members[i]], SoonestTick, LatestTick, Ahead(i, tripCursor),
                TicksUntil(Ahead(i, tripCursor), tickCount["direct"]))

DirectOnTime ==
  IF Direct.at = "sleeping" THEN now <= Direct.until
                            ELSE Direct.since <= now /\ now <= Direct.since + MaxLatency

(* Every prediction is within its bounds for the place that its member has *)
(* in the rotation and in the count of the ticks.                          *)
PredictionInv ==
  failures = 0 /\ "direct" \in Scheduler =>
    DirectOnTime /\ \A i \in 1..Len(Members) : MemberPredicted(i)

(* The prediction of a member after a step, in the terms of before it.     *)
LEMMA NextPrediction ==
  ASSUME startup' = startup, NEW i \in 1..Len(Members)
  PROVE  MemberPredicted(i)' <=>
           IF HavingTurn(Members[i])'
           THEN Ahead(i, tripCursor') = Len(Members)
           ELSE Predicts(nextUpdateAt'[Members[i]], SoonestTick', LatestTick',
                         Ahead(i, tripCursor'),
                         TicksUntil(Ahead(i, tripCursor'), tickCount'["direct"]))
BY DEF MemberPredicted, HavingTurn, Direct, Members, Ahead, Predicts, TicksUntil, AlertsTicks, RotationTime,
       LatestTime, TicksFor, Spacing

LEMMA DirectTypes ==
  ASSUME SchedulerTypes, LockInv, "direct" \in Scheduler
  PROVE  /\ Members # << >> /\ Direct \in Phase
         /\ Direct.at \in {"sleeping", "fetching", "waiting"}
         /\ Direct.at = "sleeping" => Direct.until \in Nat
         /\ Direct.at # "sleeping" => Direct.since \in Nat
         /\ tickCount \in [Scheduler -> Nat] /\ nextUpdateAt \in [System -> Nat]
         /\ tripCursor \in 0..(Len(Members) - 1)
         /\ Len(Members) \in Nat \ {0}
         /\ \A i \in 1..Len(Members) : /\ Members[i] \in Elements(Members)
                                       /\ Members[i] \in System
                                       /\ Members[i] \notin RegionalMembers
         /\ \A i, j \in 1..Len(Members) : Members[i] = Members[j] => i = j
<1>1. Members # << >> /\ Direct \in Phase
  BY DEF Scheduler, SchedulerTypes, Phase, Direct, Task
<1>2. /\ Direct.at \in {"sleeping", "fetching", "waiting"}
      /\ Direct.at = "sleeping" => Direct.until \in Nat
      /\ Direct.at # "sleeping" => Direct.since \in Nat
  <2>1. Direct # Idle
    BY DEF LockInv, Direct
  <2>2. QED BY <1>1, <2>1 DEF Phase
<1>3. /\ tickCount \in [Scheduler -> Nat] /\ nextUpdateAt \in [System -> Nat]
      /\ tripCursor \in Nat /\ tripCursor < Len(Members)
  BY <1>1 DEF SchedulerTypes
<1>4. /\ Len(Members) \in Nat \ {0}
      /\ \A i \in 1..Len(Members) : /\ Members[i] \in Elements(Members)
                                    /\ Members[i] \in System
                                    /\ Members[i] \notin RegionalMembers
      /\ \A i, j \in 1..Len(Members) : Members[i] = Members[j] => i = j
  <2>1. Len(Members) \in Nat \ {0}
    BY <1>1, PredictionTypes
  <2>2. \A i \in 1..Len(Members) : Members[i] \in Elements(Members)
    BY DEF Elements
  <2>3. QED BY <2>1, <2>2, StartupRotations DEF Startup, Rotation, System
<1>5. QED BY <1>1, <1>2, <1>3, <1>4

(* A tick that takes a turn.                                               *)
LEMMA TurnKeepsPredictions ==
  ASSUME SchedulerTypes, LockInv, now \in Nat, startup' = startup, failures = 0, PredictionInv,
         NEW m \in Elements(Members), DirectTurn(m)
  PROVE  DirectOnTime' /\ \A i \in 1..Len(Members) : MemberPredicted(i)'
<1> DEFINE d == DutyOfTick("direct")
           count == tickCount["direct"]
<1>1. /\ "direct" \in Scheduler /\ Direct.at = "sleeping" /\ now >= Direct.until
      /\ TakeTurn(m, d) /\ d \in Duty
      /\ tickCount' = [tickCount EXCEPT !["direct"] = @ + 1]
      /\ d = IF tickCount'["direct"] % ALERTS_TICK_EVERY = 0 THEN "alerts" ELSE "trips"
  BY DEF DirectTurn, Due, CountTick, DutyOfTick, Duty, Direct
<1> DEFINE Busy == \E place \in {"fetching", "waiting"} : Enter("direct", place, m, d)
<1>2. \/ Busy /\ nextUpdateAt' = nextUpdateAt
      \/ Sleep("direct") /\ IF d = "trips" THEN Predict(m) ELSE nextUpdateAt' = nextUpdateAt
  BY DEF DirectTurn, DirectGet, FetchUnderLock, WaitForLock
<1>3. now' = now
  BY DEF DirectTurn, DirectGet, FetchUnderLock, ServeCached, WaitForLock,
         Quota!TryConsume, Quota!Granted, Quota!Denied, Quota!Unmetered
<1>4. count \in Nat /\ tickCount'["direct"] = count + 1
  BY <1>1, DirectTypes
<1> HIDE DEF d, count
<1>5. now = Direct.until
  BY <1>1, DirectTypes DEF PredictionInv, DirectOnTime
<1>6. SoonestTick = now /\ LatestTick = now
  BY <1>1, <1>5 DEF SoonestTick, LatestTick
<1>7. /\ TickInterval \in Nat /\ Spacing \in Nat /\ TickInterval <= Spacing
      /\ MaxLatency \in Nat /\ Spacing = TickInterval + 2 * MaxLatency
  BY <1>1, PredictionTypes, DirectTypes
<1>8. phase \in [Task -> Phase] /\ "direct" \in Task
  BY <1>1 DEF SchedulerTypes, Phase, Task
<1>0. Members' = Members
  BY DEF Members
<1>9. /\ DirectOnTime' /\ SoonestTick' = now + TickInterval
      /\ LatestTick' \in Int /\ LatestTick' <= now + Spacing
      /\ Sleep("direct") => LatestTick' = now + TickInterval
      /\ Busy /\ d = "trips" => HavingTurn(m)'
      /\ \A i \in 1..Len(Members) :
           HavingTurn(Members[i])' => /\ Busy /\ ~ Sleep("direct")
                                      /\ d = "trips" /\ Members[i] = m
  <2>1. CASE Busy
    <3>1. PICK place \in {"fetching", "waiting"} :
            Direct' = [at |-> place, member |-> m, duty |-> d, since |-> now]
      BY <1>1, <1>8, <2>1 DEF Enter, Direct
    <3>2. ~ Sleep("direct")
      BY <1>1, <1>8, <3>1 DEF Sleep, Sleeping, Direct
    <3>3. QED
      BY <1>3, <1>7, <2>1, <3>1, <3>2, <1>0
         DEF DirectOnTime, SoonestTick, LatestTick, HavingTurn
  <2>2. CASE Sleep("direct")
    <3>1. Direct' = [at |-> "sleeping", until |-> now + TickInterval]
      BY <1>1, <1>8, <2>2 DEF Sleep, Sleeping, Direct
    <3>2. ~ Busy
      BY <1>1, <1>8, <3>1 DEF Enter, Direct
    <3>3. QED
      BY <1>3, <1>7, <3>1, <3>2 DEF DirectOnTime, SoonestTick, LatestTick, HavingTurn
  <2>3. QED BY <1>2, <2>1, <2>2
<1> HIDE DEF Busy
<1>10. ASSUME NEW i \in 1..Len(Members)
       PROVE  MemberPredicted(i)'
  <2> DEFINE n == Ahead(i, tripCursor)
             k == TicksUntil(n, count)
             next == nextUpdateAt[Members[i]]
  <2>1. /\ tripCursor \in 0..(Len(Members) - 1) /\ Len(Members) \in Nat \ {0}
        /\ Members # << >> /\ Members[i] \in System /\ next \in Nat
        /\ \A j \in 1..Len(Members) : Members[i] = Members[j] => i = j
    BY <1>1, DirectTypes
  <2>2. n \in 1..Len(Members) /\ n \in Nat \ {0}
    BY <2>1, AheadMoves
  <2>3. k \in Nat
    BY <1>4, <2>2, TicksUntilBound
  <2>4. Predicts(next, now, now, n, k)
    <3>1. MemberPredicted(i) /\ ~ HavingTurn(Members[i])
      BY <1>1 DEF PredictionInv, HavingTurn
    <3>2. QED BY <1>6, <3>1 DEF MemberPredicted, count
  <2> HIDE DEF n, k, next
  <2>5. /\ Predicts(next, now + TickInterval, LatestTick', n - 1, k - 1)
        /\ Predicts(next, now + TickInterval, LatestTick', n, k - 1)
    <3> DEFINE s == now + TickInterval
               l == LatestTick'
    <3>1. next \in Int /\ now \in Int /\ n \in Nat /\ s \in Int /\ l \in Int
      BY <1>7, <1>9, <2>1, <2>2
    <3>2. now + TickInterval <= s /\ l <= now + Spacing
      BY <1>7, <1>9
    <3> HIDE DEF s, l
    <3>3. Predicts(next, s, l, n - 1, k - 1) /\ Predicts(next, s, l, n, k - 1)
      BY <2>1, <2>3, <2>4, <3>1, <3>2, PredictionKept, Zenon
    <3>4. QED BY <3>3 DEF s, l
  <2>6. CASE d = "alerts"
    <3>1. nextUpdateAt' = nextUpdateAt /\ tripCursor' = tripCursor
      BY <1>1, <1>2, <2>1, <2>6, MemberOfTurn
    <3>2. TicksUntil(n, count + 1) = k - 1
      BY <1>1, <1>4, <2>2, <2>6, TickPasses DEF k
    <3>3. Predicts(nextUpdateAt'[Members[i]], SoonestTick', LatestTick', n,
                   TicksUntil(n, tickCount'["direct"]))
      BY <1>4, <1>9, <2>5, <3>1, <3>2 DEF next
    <3>4. ~ HavingTurn(Members[i])'
      BY <1>9, <2>6
    <3>5. QED BY <3>1, <3>3, <3>4, NextPrediction DEF n
  <2>7. CASE d = "trips"
    <3>1. /\ m = Members[tripCursor + 1] /\ tripCursor' = (tripCursor + 1) % Len(Members)
          /\ tripCursor + 1 \in 1..Len(Members)
      BY <1>1, <2>1, <2>7, MemberOfTurn
    <3>2. CASE i = tripCursor + 1
      <4>1. Ahead(i, tripCursor') = Len(Members)
        BY <2>1, <3>1, <3>2, AheadMoves
      <4>2. CASE Busy
        <5>1. HavingTurn(Members[i])'
          BY <1>9, <2>7, <3>1, <3>2, <4>2 DEF HavingTurn, Members
        <5>2. QED BY <4>1, <5>1, NextPrediction
      <4>3. CASE Sleep("direct") /\ Predict(m)
        <5>1. nextUpdateAt'[Members[i]] = now + RotationTime
          BY <1>1, <2>1, <3>1, <3>2, <4>3, DirectTypes DEF Predict, RotationTime
        <5>2. Predicts(now + RotationTime, SoonestTick', LatestTick', Len(Members),
                       TicksUntil(Len(Members), tickCount'["direct"]))
          BY <1>4, <1>9, <2>1, <4>3, PredictionMade
        <5>3. ~ HavingTurn(Members[i])'
          BY <1>9, <4>3
        <5>4. QED BY <4>1, <5>1, <5>2, <5>3, NextPrediction
      <4>4. QED BY <1>2, <2>7, <4>2, <4>3
    <3>3. CASE i # tripCursor + 1
      <4>1. Ahead(i, tripCursor') = n - 1 /\ n > 1
        BY <2>1, <3>1, <3>3, AheadMoves DEF n
      <4>2. Members[i] # m
        BY <2>1, <3>1, <3>3
      <4>3. nextUpdateAt'[Members[i]] = next
        BY <1>1, <1>2, <2>7, <4>2, DirectTypes DEF Predict, next
      <4>4. TicksUntil(n - 1, count + 1) = k - 1
        BY <1>1, <1>4, <2>2, <2>7, <4>1, TickPasses DEF k
      <4>5. Predicts(nextUpdateAt'[Members[i]], SoonestTick', LatestTick', n - 1,
                     TicksUntil(n - 1, tickCount'["direct"]))
        BY <1>4, <1>9, <2>5, <4>3, <4>4
      <4>6. ~ HavingTurn(Members[i])'
        BY <1>9, <4>2
      <4>7. QED BY <4>1, <4>5, <4>6, NextPrediction
    <3>4. QED BY <3>2, <3>3
  <2>8. QED BY <1>1, <2>6, <2>7 DEF Duty
<1>11. QED BY <1>9, <1>10

(* A step that changes neither the direct scheduler nor the predictions of *)
(* its members.                                                            *)
LEMMA SamePredictions ==
  ASSUME SchedulerTypes, startup' = startup, "direct" \in Scheduler,
         \A i \in 1..Len(Members) : nextUpdateAt'[Members[i]] = nextUpdateAt[Members[i]],
         phase'["direct"] = phase["direct"], tickCount'["direct"] = tickCount["direct"],
         tripCursor' = tripCursor,
         \A i \in 1..Len(Members) : MemberPredicted(i)
  PROVE  \A i \in 1..Len(Members) : MemberPredicted(i)'
<1> SUFFICES ASSUME NEW i \in 1..Len(Members)
             PROVE  MemberPredicted(i)'
  OBVIOUS
<1>1. SoonestTick' = SoonestTick /\ LatestTick' = LatestTick
  BY DEF SoonestTick, LatestTick, Direct, Spacing
<1>2. HavingTurn(Members[i])' <=> HavingTurn(Members[i])
  BY DEF HavingTurn, Direct, Members
<1>3. QED BY <1>1, <1>2, NextPrediction DEF MemberPredicted

(* The end of a direct turn, after its fetch or because the quota refused  *)
(* it once it had the lock.                                                *)
LEMMA TurnEndKeepsPredictions ==
  ASSUME SchedulerTypes, LockInv, now \in Nat, startup' = startup, failures = 0,
         PredictionInv, NEW d \in Duty, "direct" \in Scheduler,
         Direct.at \in {"fetching", "waiting"}, Direct.duty = d,
         IF d = "trips" THEN Predict(Direct.member) ELSE nextUpdateAt' = nextUpdateAt,
         Sleep("direct"), now' = now, tickCount' = tickCount, tripCursor' = tripCursor
  PROVE  DirectOnTime' /\ \A i \in 1..Len(Members) : MemberPredicted(i)'
<1> DEFINE m == Direct.member
           count == tickCount["direct"]
<1>1. /\ "direct" \in Scheduler /\ Direct.at \in {"fetching", "waiting"} /\ Direct.duty = d
      /\ IF d = "trips" THEN Predict(m) ELSE nextUpdateAt' = nextUpdateAt
      /\ Sleep("direct") /\ now' = now /\ tickCount' = tickCount /\ tripCursor' = tripCursor
  OBVIOUS
<1>2. /\ Direct.since \in Nat /\ Direct.since <= now /\ now <= Direct.since + MaxLatency
      /\ count \in Nat
  BY <1>1, DirectTypes DEF PredictionInv, DirectOnTime
<1>3. /\ TickInterval \in Nat /\ Spacing \in Nat /\ MaxLatency \in Nat
      /\ Spacing = TickInterval + 2 * MaxLatency
  BY <1>1, PredictionTypes, DirectTypes
<1>4. /\ SoonestTick = Direct.since + TickInterval
      /\ \/ LatestTick = Direct.since + Spacing
         \/ LatestTick = Direct.since + MaxLatency + TickInterval
  BY <1>1 DEF SoonestTick, LatestTick
<1> HIDE DEF count, m
<1>5. Direct' = [at |-> "sleeping", until |-> now + TickInterval]
  <2>1. phase \in [Task -> Phase] /\ "direct" \in Task
    BY DEF SchedulerTypes, Phase, Task
  <2>2. QED BY <1>1, <2>1 DEF Sleep, Sleeping, Direct
<1>6. DirectOnTime' /\ SoonestTick' = now + TickInterval /\ LatestTick' = now + TickInterval
  BY <1>1, <1>3, <1>5 DEF DirectOnTime, SoonestTick, LatestTick
<1>7. ASSUME NEW i \in 1..Len(Members)
      PROVE  MemberPredicted(i)'
  <2> DEFINE n == Ahead(i, tripCursor)
             k == TicksUntil(n, count)
             next == nextUpdateAt[Members[i]]
  <2>1. /\ tripCursor \in 0..(Len(Members) - 1) /\ Len(Members) \in Nat \ {0}
        /\ Members # << >> /\ Members[i] \in System /\ next \in Nat
        /\ nextUpdateAt \in [System -> Nat]
    BY <1>1, DirectTypes
  <2>2. n \in Nat \ {0} /\ k \in Nat
    <3>1. n \in 1..Len(Members)
      BY <2>1, AheadMoves
    <3>2. n \in Nat \ {0}
      BY <2>1, <3>1
    <3> HIDE DEF n
    <3>3. QED BY <1>2, <3>2, TicksUntilBound
  <2>3. MemberPredicted(i)
    BY <1>1 DEF PredictionInv
  <2>4. CASE HavingTurn(Members[i])
    <3>1. d = "trips" /\ m = Members[i]
      BY <1>1, <2>4 DEF HavingTurn, m
    <3>2. nextUpdateAt'[Members[i]] = now + RotationTime
      BY <1>1, <2>1, <3>1 DEF Predict, RotationTime
    <3>3. n = Len(Members)
      BY <2>3, <2>4 DEF MemberPredicted
    <3>4. Predicts(now + RotationTime, SoonestTick', LatestTick', n,
                   TicksUntil(n, tickCount'["direct"]))
      <4>1. Predicts(now + RotationTime, now + TickInterval, now + TickInterval,
                     Len(Members), TicksUntil(Len(Members), count))
        BY <1>2, <2>1, PredictionMade
      <4>2. tickCount'["direct"] = count
        BY <1>1 DEF count
      <4> HIDE DEF n
      <4>3. QED BY <1>6, <3>3, <4>1, <4>2
    <3>5. ~ HavingTurn(Members[i])'
      BY <1>5 DEF HavingTurn
    <3>6. QED BY <1>1, <3>2, <3>4, <3>5, NextPrediction DEF n
  <2>5. CASE ~ HavingTurn(Members[i])
    <3>1. Predicts(next, SoonestTick, LatestTick, n, k)
      BY <2>3, <2>5 DEF MemberPredicted, count
    <3>2. nextUpdateAt'[Members[i]] = next
      BY <1>1, <2>1, <2>5 DEF HavingTurn, Predict, m
    <3> HIDE DEF n, k, next
    <3>3. /\ next \in Int /\ SoonestTick \in Int /\ LatestTick \in Int /\ n \in Nat
          /\ SoonestTick' \in Int /\ LatestTick' \in Int
          /\ SoonestTick <= SoonestTick' /\ LatestTick' <= LatestTick
      <4>1. next \in Int /\ n \in Nat
        BY <2>1, <2>2 DEF next
      <4>2. /\ Direct.since + TickInterval <= now + TickInterval
            /\ now + TickInterval <= Direct.since + Spacing
            /\ now + TickInterval <= Direct.since + MaxLatency + TickInterval
            /\ Direct.since + TickInterval \in Int /\ Direct.since + Spacing \in Int
            /\ Direct.since + MaxLatency + TickInterval \in Int
            /\ now + TickInterval \in Int
        <5> DEFINE since == Direct.since
        <5>1. since \in Nat /\ since <= now /\ now <= since + MaxLatency /\ now \in Nat
          BY <1>2
        <5> HIDE DEF since
        <5>2. /\ since + TickInterval <= now + TickInterval
              /\ now + TickInterval <= since + Spacing
              /\ now + TickInterval <= since + MaxLatency + TickInterval
              /\ since + TickInterval \in Int /\ since + Spacing \in Int
              /\ since + MaxLatency + TickInterval \in Int
              /\ now + TickInterval \in Int
          BY <1>3, <5>1
        <5>3. QED BY <5>2 DEF since
      <4>3. /\ SoonestTick = Direct.since + TickInterval
            /\ \/ LatestTick = Direct.since + Spacing
               \/ LatestTick = Direct.since + MaxLatency + TickInterval
            /\ SoonestTick' = now + TickInterval /\ LatestTick' = now + TickInterval
        BY <1>4, <1>6
      <4> HIDE DEF Direct
      <4>4. QED BY <4>1, <4>2, <4>3
    <3>4. Predicts(next, SoonestTick', LatestTick', n, k)
      BY <2>1, <2>2, <3>1, <3>3, PredictionKept, Zenon
    <3>5. ~ HavingTurn(Members[i])'
      BY <1>5 DEF HavingTurn
    <3>6. QED BY <1>1, <3>2, <3>4, <3>5, NextPrediction DEF n, k, count
  <2>6. QED BY <2>4, <2>5
<1>8. QED BY <1>6, <1>7

(* The lock passes to a direct turn that waited for it, no longer than one *)
(* fetch lasts: there is less ahead of it than was allowed for.            *)
LEMMA LockKeepsPredictions ==
  ASSUME SchedulerTypes, LockInv, now \in Nat, startup' = startup, failures = 0,
         PredictionInv, NEW m, NEW d \in Duty, "direct" \in Scheduler,
         At("direct", "waiting", m, d), Enter("direct", "fetching", m, d),
         nextUpdateAt' = nextUpdateAt, now' = now, tickCount' = tickCount,
         tripCursor' = tripCursor
  PROVE  DirectOnTime' /\ \A i \in 1..Len(Members) : MemberPredicted(i)'
<1>1. /\ Direct.at = "waiting" /\ Direct.member = m /\ Direct.duty = d
      /\ Direct.since \in Nat /\ Direct.since <= now /\ now <= Direct.since + MaxLatency
  <2>1. Direct.at = "waiting" /\ Direct.member = m /\ Direct.duty = d
    BY DEF At, Direct
  <2>2. QED BY <2>1, DirectTypes DEF PredictionInv, DirectOnTime
<1>2. Direct' = [at |-> "fetching", member |-> m, duty |-> d, since |-> now]
  <2>1. phase \in [Task -> Phase] /\ "direct" \in Task
    BY DEF SchedulerTypes, Phase, Task
  <2>2. QED BY <2>1 DEF Enter, Direct
<1>3. /\ TickInterval \in Nat /\ Spacing \in Nat /\ MaxLatency \in Nat
      /\ Spacing = TickInterval + 2 * MaxLatency
  BY PredictionTypes, DirectTypes
<1>4. /\ SoonestTick = Direct.since + TickInterval /\ LatestTick = Direct.since + Spacing
      /\ SoonestTick' = now + TickInterval /\ LatestTick' = now + MaxLatency + TickInterval
  BY <1>1, <1>2 DEF SoonestTick, LatestTick
<1>5. /\ SoonestTick \in Int /\ LatestTick \in Int /\ SoonestTick' \in Int
      /\ LatestTick' \in Int /\ SoonestTick <= SoonestTick' /\ LatestTick' <= LatestTick
  <2> DEFINE since == Direct.since
  <2>1. since \in Nat /\ since <= now /\ now <= since + MaxLatency
    BY <1>1
  <2>2. /\ SoonestTick = since + TickInterval /\ LatestTick = since + Spacing
        /\ SoonestTick' = now + TickInterval /\ LatestTick' = now + MaxLatency + TickInterval
    BY <1>4
  <2> HIDE DEF since
  <2>3. QED BY <1>3, <2>1, <2>2
<1>6. DirectOnTime'
  BY <1>2, <1>3 DEF DirectOnTime
<1>7. ASSUME NEW i \in 1..Len(Members)
      PROVE  MemberPredicted(i)'
  <2> DEFINE n == Ahead(i, tripCursor)
             k == TicksUntil(n, tickCount["direct"])
             next == nextUpdateAt[Members[i]]
  <2>1. HavingTurn(Members[i])' <=> HavingTurn(Members[i])
    BY <1>1, <1>2 DEF HavingTurn, Members
  <2>2. MemberPredicted(i)
    BY DEF PredictionInv
  <2>3. CASE HavingTurn(Members[i])
    BY <2>1, <2>2, <2>3, NextPrediction DEF MemberPredicted
  <2>4. CASE ~ HavingTurn(Members[i])
    <3>1. Predicts(next, SoonestTick, LatestTick, n, k)
      BY <2>2, <2>4 DEF MemberPredicted
    <3>2. /\ tripCursor \in 0..(Len(Members) - 1) /\ Len(Members) \in Nat \ {0}
          /\ Members # << >> /\ next \in Int /\ tickCount["direct"] \in Nat
      BY DirectTypes
    <3>3. n \in Nat /\ k \in Nat
      <4>1. n \in 1..Len(Members)
        BY <3>2, AheadMoves
      <4>2. n \in Nat \ {0}
        BY <3>2, <4>1
      <4> HIDE DEF n
      <4>3. QED BY <3>2, <4>2, TicksUntilBound
    <3> HIDE DEF n, k, next
    <3>4. Predicts(next, SoonestTick', LatestTick', n, k)
      BY <1>5, <3>1, <3>2, <3>3, PredictionKept, Zenon
    <3>5. QED BY <2>1, <2>4, <3>4, NextPrediction DEF n, k, next
  <2>5. QED BY <2>3, <2>4
<1>8. QED BY <1>6, <1>7

LEMMA PredictionStep ==
  ASSUME SchedulerTypes, LockInv, now \in Nat, PredictionInv, [Next]_vars
  PROVE  PredictionInv'
<1>1. startup' = startup /\ Scheduler' = Scheduler /\ Len(Members)' = Len(Members)
  BY DEF Next, ClockStopped, vars, Scheduler, Members, RegionalMembers
<1> SUFFICES ASSUME failures' = 0, "direct" \in Scheduler
             PROVE  DirectOnTime' /\ \A i \in 1..Len(Members) : MemberPredicted(i)'
  BY <1>1 DEF PredictionInv
<1>2. /\ phase \in [Task -> Phase] /\ tickCount \in [Scheduler -> Nat]
      /\ nextUpdateAt \in [System -> Nat] /\ failures \in Nat
  <2>1. /\ phase \in [Task -> Phase] /\ tickCount \in [Scheduler -> Nat]
        /\ nextUpdateAt \in [System -> Nat] /\ failures \in 0..MaxFailures
    BY DEF SchedulerTypes, Phase
  <2>2. \A f \in 0..MaxFailures : f \in Nat
    BY SchedulerAssumption
  <2>3. QED BY <2>1, <2>2
<1>3. ASSUME failures = 0
      PROVE  DirectOnTime /\ \A i \in 1..Len(Members) : MemberPredicted(i)
  BY <1>3 DEF PredictionInv
<1>4. ASSUME NEW m \in Elements(Members), DirectTurn(m)
      PROVE  DirectOnTime' /\ \A i \in 1..Len(Members) : MemberPredicted(i)'
  <2>1. failures = 0
    BY <1>4 DEF DirectTurn
  <2>2. QED BY <1>1, <1>4, <2>1, TurnKeepsPredictions
<1>5. ASSUME NEW d \in Duty, DirectFetched(d)
      PROVE  DirectOnTime' /\ \A i \in 1..Len(Members) : MemberPredicted(i)'
  <2>1. /\ failures = 0 /\ Direct.at \in {"fetching", "waiting"} /\ Direct.duty = d
        /\ IF d = "trips" THEN Predict(Direct.member) ELSE nextUpdateAt' = nextUpdateAt
        /\ Sleep("direct") /\ now' = now /\ tickCount' = tickCount /\ tripCursor' = tripCursor
    BY <1>5 DEF DirectFetched, FetchDone, Direct
  <2>2. QED BY <1>1, <2>1, TurnEndKeepsPredictions
<1>a. ASSUME NEW m \in Elements(Members), NEW d \in Duty, DirectWakes(m, d)
      PROVE  DirectOnTime' /\ \A i \in 1..Len(Members) : MemberPredicted(i)'
  <2>1. /\ failures = 0 /\ At("direct", "waiting", m, d)
        /\ tickCount' = tickCount /\ tripCursor' = tripCursor
        /\ DirectGet(m, d)
    BY <1>a DEF DirectWakes
  <2>2. now' = now
    BY <2>1 DEF DirectGet, FetchUnderLock, ServeCached, Quota!TryConsume, Quota!Granted,
                Quota!Denied, Quota!Unmetered
  <2>3. CASE Enter("direct", "fetching", m, d) /\ nextUpdateAt' = nextUpdateAt
    BY <1>1, <2>1, <2>2, <2>3, LockKeepsPredictions, DirectTypes
  <2>4. CASE /\ IF d = "trips" THEN Predict(m) ELSE nextUpdateAt' = nextUpdateAt
             /\ Sleep("direct")
    <3>1. Direct.at \in {"fetching", "waiting"} /\ Direct.duty = d /\ Direct.member = m
      BY <2>1 DEF At, Direct
    <3>2. QED BY <1>1, <2>1, <2>2, <2>4, <3>1, TurnEndKeepsPredictions
  <2>5. QED BY <2>1, <2>3, <2>4 DEF DirectGet, FetchUnderLock
<1>6. CASE DirectIdleTick
  <2> DEFINE count == tickCount["direct"]
  <2>1. /\ Direct.at = "sleeping" /\ now >= Direct.until /\ Sleep("direct")
        /\ tickCount' = [tickCount EXCEPT !["direct"] = @ + 1]
        /\ tickCount'["direct"] % ALERTS_TICK_EVERY = 0
        /\ now' = now /\ tripCursor' = tripCursor /\ nextUpdateAt' = nextUpdateAt
        /\ failures = 0
    BY <1>6 DEF DirectIdleTick, Due, CountTick, DutyOfTick, Direct
  <2>2. now = Direct.until /\ count \in Nat /\ tickCount'["direct"] = count + 1
    BY <1>2, <1>3, <2>1, DirectTypes DEF DirectOnTime
  <2>3. SoonestTick = now /\ LatestTick = now
    BY <2>1, <2>2 DEF SoonestTick, LatestTick
  <2> HIDE DEF count
  <2>4. Direct' = [at |-> "sleeping", until |-> now + TickInterval]
    BY <1>2, <2>1 DEF Sleep, Sleeping, Direct, Task
  <2>5. TickInterval \in Nat /\ Spacing \in Nat /\ TickInterval <= Spacing
    BY PredictionTypes, DirectTypes
  <2>6. DirectOnTime' /\ SoonestTick' = now + TickInterval /\ LatestTick' = now + TickInterval
    BY <2>1, <2>4, <2>5 DEF DirectOnTime, SoonestTick, LatestTick
  <2>7. ASSUME NEW i \in 1..Len(Members)
        PROVE  MemberPredicted(i)'
    <3> DEFINE n == Ahead(i, tripCursor)
               k == TicksUntil(n, count)
               next == nextUpdateAt[Members[i]]
               s == now + TickInterval
    <3>1. /\ tripCursor \in 0..(Len(Members) - 1) /\ Len(Members) \in Nat \ {0}
          /\ Members # << >> /\ next \in Int
      BY DirectTypes
    <3>2. n \in Nat \ {0} /\ n \in Nat /\ k \in Nat
      <4>1. n \in 1..Len(Members)
        BY <3>1, AheadMoves
      <4>2. n \in Nat \ {0}
        BY <3>1, <4>1
      <4> HIDE DEF n
      <4>3. QED BY <2>2, <4>2, TicksUntilBound
    <3>3. Predicts(next, now, now, n, k)
      <4>1. MemberPredicted(i) /\ ~ HavingTurn(Members[i])
        BY <1>3, <2>1 DEF HavingTurn
      <4>2. QED BY <2>3, <4>1 DEF MemberPredicted, count
    <3>4. TicksUntil(n, count + 1) = k - 1
      BY <2>1, <2>2, <3>2, TickPasses
    <3>5. now \in Int /\ s \in Int /\ now + TickInterval <= s /\ s <= now + Spacing
      BY <2>5
    <3> HIDE DEF n, k, next, s
    <3>6. Predicts(next, s, s, n, k - 1)
      BY <3>1, <3>2, <3>3, <3>5, PredictionKept, Zenon
    <3>7. Predicts(next, s, s, n, TicksUntil(n, count + 1))
      BY <3>4, <3>6
    <3>8. ~ HavingTurn(Members[i])' /\ nextUpdateAt'[Members[i]] = next
      BY <2>1, <2>4 DEF HavingTurn, next
    <3>9. SoonestTick' = s /\ LatestTick' = s
      BY <2>6 DEF s
    <3>10. Predicts(nextUpdateAt'[Members[i]], SoonestTick', LatestTick', n,
                    TicksUntil(n, tickCount'["direct"]))
      BY <2>2, <3>7, <3>8, <3>9
    <3>11. n = Ahead(i, tripCursor')
      BY <2>1 DEF n
    <3>12. QED BY <1>1, <3>8, <3>10, <3>11, NextPrediction, Zenon
  <2>8. QED BY <2>6, <2>7
<1>7. ASSUME failures = 0, phase'["direct"] = phase["direct"],
             tickCount'["direct"] = tickCount["direct"], tripCursor' = tripCursor,
             \A i \in 1..Len(Members) : nextUpdateAt'[Members[i]] = nextUpdateAt[Members[i]],
             now' = now
      PROVE  DirectOnTime' /\ \A i \in 1..Len(Members) : MemberPredicted(i)'
  <2>1. \A i \in 1..Len(Members) : MemberPredicted(i)'
    BY <1>1, <1>3, <1>7, SamePredictions
  <2>2. DirectOnTime'
    BY <1>3, <1>7 DEF DirectOnTime, Direct
  <2>3. QED BY <2>1, <2>2
<1>8. CASE RegionalTick
  <2>1. /\ failures = 0 /\ tripCursor' = tripCursor /\ nextUpdateAt' = nextUpdateAt
        /\ tickCount' = [tickCount EXCEPT !["regional"] = @ + 1]
        /\ Sleep("regional") \/ \E d : Enter("regional", "fetching", "all", d)
    BY <1>8 DEF RegionalTick, CountTick
  <2>2. now' = now
    BY <1>8 DEF RegionalTick, Quota!TryConsume, Quota!Granted, Quota!Denied, Quota!Unmetered
  <2>3. phase'["direct"] = phase["direct"]
    BY <1>2, <2>1 DEF Sleep, Enter, Task
  <2>4. tickCount'["direct"] = tickCount["direct"]
    BY <1>2, <2>1
  <2>5. QED BY <1>7, <2>1, <2>2, <2>3, <2>4
<1>9. ASSUME NEW d \in Duty, NEW mentioned \in SUBSET RegionalMembers,
             RegionalFetched(d, mentioned)
      PROVE  DirectOnTime' /\ \A i \in 1..Len(Members) : MemberPredicted(i)'
  <2>1. /\ failures = 0 /\ tripCursor' = tripCursor /\ now' = now /\ tickCount' = tickCount
        /\ Sleep("regional")
        /\ nextUpdateAt' = [m \in System |-> IF m \in mentioned /\ d = "trips"
                                             THEN now + TickInterval ELSE nextUpdateAt[m]]
    BY <1>9 DEF RegionalFetched
  <2>2. phase'["direct"] = phase["direct"]
    BY <1>2, <2>1 DEF Sleep
  <2>3. \A i \in 1..Len(Members) : Members[i] \in System /\ Members[i] \notin mentioned
    BY DirectTypes
  <2>4. \A i \in 1..Len(Members) : nextUpdateAt'[Members[i]] = nextUpdateAt[Members[i]]
    BY <2>1, <2>3
  <2>5. QED BY <1>7, <2>1, <2>2, <2>4
<1>10. ASSUME NEW c \in Scheduler, FetchRaised(c)
       PROVE  FALSE
  BY <1>2, <1>10 DEF FetchRaised
<1>11. ASSUME NEW q \in Request, \/ RequestFetched(q)
                                  \/ \E m \in System, d \in Duty :
                                       RequestCalls(q, m, d) \/ RequestWakes(q, m, d)
       PROVE  DirectOnTime' /\ \A i \in 1..Len(Members) : MemberPredicted(i)'
  <2>1. /\ failures = 0 /\ tripCursor' = tripCursor /\ tickCount' = tickCount
        /\ nextUpdateAt' = nextUpdateAt
    BY <1>11 DEF RequestFetched, RequestCalls, RequestWakes
  <2>2. now' = now
    BY <1>11 DEF RequestFetched, RequestCalls, RequestWakes, RequestGet, FetchUnderLock,
                 WaitForLock, ServeCached, Quota!TryConsume, Quota!Granted, Quota!Denied,
                 Quota!Unmetered
  <2>3. q # "direct"
    BY SchedulerAssumption
  <2>4. phase'["direct"] = phase["direct"]
    BY <1>2, <1>11, <2>3
       DEF Task, RequestFetched, RequestCalls, RequestWakes, RequestGet, FetchUnderLock,
           WaitForLock, Enter, Leave
  <2>5. QED BY <1>7, <2>1, <2>2, <2>4
<1>b. ASSUME NEW q \in Request, RequestFails(q)
      PROVE  FALSE
  BY <1>2, <1>b DEF RequestFails
<1>12. CASE Tick
  <2>1. /\ failures = 0 /\ tripCursor' = tripCursor /\ tickCount' = tickCount
        /\ phase' = phase /\ nextUpdateAt' = nextUpdateAt /\ OnTime /\ now' = now + 1
    BY <1>12 DEF Tick, Quota!Tick
  <2>2. \A i \in 1..Len(Members) : MemberPredicted(i)'
    BY <1>1, <1>3, <2>1, SamePredictions
  <2>3. Direct.at = "sleeping" => now < Direct.until
    BY <2>1 DEF OnTime, Direct, Task
  <2>4. Direct.at # "sleeping" => now < Direct.since + MaxLatency
    <3>1. "direct" \in Task /\ MaxLatency \in Nat
      BY SchedulerAssumption DEF Task
    <3>2. CASE Direct.at = "fetching"
      BY <2>1, <3>1, <3>2 DEF OnTime, Direct
    <3>3. CASE Direct.at = "waiting"
      <4>1. PICK u \in Caller : At(u, "fetching", Direct.member, Direct.duty)
        BY <2>1, <3>1, <3>3 DEF OnTime, Direct, LockHeld
      <4>2. u \in Task /\ phase[u].at = "fetching"
        BY <4>1 DEF Caller, At
      <4>3. now < phase[u].since + MaxLatency /\ phase[u].since \in Nat
        <5>1. phase[u] \in Phase
          BY <1>2, <4>2
        <5>2. QED BY <2>1, <4>2, <5>1 DEF OnTime, Phase, Idle
      <4>4. phase[u].since <= Direct.since
        BY <2>1, <3>3, <4>1 DEF LockInv, HolderCameFirst
      <4>5. QED BY <3>1, <3>3, <4>3, <4>4, DirectTypes
    <3>4. QED BY <3>2, <3>3, DirectTypes
  <2>5. DirectOnTime'
    <3>1. DirectOnTime /\ Direct' = Direct /\ MaxLatency \in Nat
      BY <1>3, <2>1, SchedulerAssumption DEF Direct
    <3>2. QED BY <2>1, <2>3, <2>4, <3>1, DirectTypes DEF DirectOnTime
  <2>6. QED BY <2>2, <2>5
<1>13. CASE UNCHANGED vars
  BY <1>7, <1>13 DEF vars
<1>14. QED
  BY <1>4, <1>5, <1>a, <1>6, <1>8, <1>9, <1>10, <1>11, <1>b, <1>12, <1>13, Zenon
     DEF Next, Step, ClockStopped

(* The first predictions: a tick interval for each member ahead.           *)
LEMMA FirstPredictions == Init => PredictionInv
<1> SUFFICES ASSUME Init, "direct" \in Scheduler
             PROVE  DirectOnTime /\ \A i \in 1..Len(Members) : MemberPredicted(i)
  BY DEF PredictionInv
<1>1. /\ Members # << >> /\ Startup /\ now = 0 /\ tripCursor = 0
      /\ tickCount["direct"] = 0 /\ Direct = Sleeping(0)
  BY SchedulerAssumption
     DEF Init, Scheduler, Task, Direct, Startup, Members, AlertsMembers, RegionalMembers,
         Quota!Init
<1>2. Len(Members) \in Nat \ {0}
  BY <1>1 DEF Startup, Rotation
<1>3. DirectOnTime /\ SoonestTick = 0 /\ LatestTick = 0
  BY <1>1 DEF DirectOnTime, SoonestTick, LatestTick, Sleeping
<1>4. ASSUME NEW i \in 1..Len(Members)
      PROVE  MemberPredicted(i)
  <2> DEFINE L == Len(Members)
             k == TicksUntil(i, 0)
  <2>1. nextUpdateAt[Members[i]] = i * TickInterval
    <3>1. /\ Members[i] \in System /\ Members[i] \notin RegionalMembers
          /\ \A j \in 1..L : Members[j] = Members[i] => j = i
      BY <1>1 DEF Startup, Rotation, System, Elements
    <3>2. (CHOOSE j \in 1..L : Members[j] = Members[i]) = i
      BY <3>1
    <3>3. QED BY <3>1, <3>2 DEF Init
  <2>2. Ahead(i, 0) = i /\ i \in Nat \ {0} /\ L - i \in Nat
    BY <1>2 DEF Ahead
  <2>3. k \in Nat /\ k <= TicksFor(i)
    BY <2>2, TicksUntilBound
  <2>4. TicksFor(L) \in Nat /\ TicksFor(i) + (L - i) <= TicksFor(L)
    <3> DEFINE b == ALERTS_TICK_EVERY - 1
    <3>1. b \in Nat \ {0} /\ i + ALERTS_TICK_EVERY - 2 \in Nat
          /\ L + ALERTS_TICK_EVERY - 2 \in Nat
          /\ i + ALERTS_TICK_EVERY - 2 <= L + ALERTS_TICK_EVERY - 2
      <4>1. ALERTS_TICK_EVERY \in Nat \ {0, 1} /\ L \in Nat \ {0} /\ i \in 1..L
        BY <1>2, SchedulerAssumption
      <4> HIDE DEF L
      <4>2. QED BY <4>1
    <3>2. \A x, y \in Nat : x <= y => /\ x \div b \in Nat /\ y \div b \in Nat
                                      /\ x \div b <= y \div b
      <4>1. b \in Nat \ {0}
        BY <3>1
      <4> HIDE DEF b
      <4>2. QED BY <4>1, DivisionSteps
    <3>3. /\ (i + ALERTS_TICK_EVERY - 2) \div b \in Nat
          /\ (L + ALERTS_TICK_EVERY - 2) \div b \in Nat
          /\ (i + ALERTS_TICK_EVERY - 2) \div b <= (L + ALERTS_TICK_EVERY - 2) \div b
      BY <3>1, <3>2
    <3>4. /\ TicksFor(i) = i + ((i + ALERTS_TICK_EVERY - 2) \div b)
          /\ TicksFor(L) = L + ((L + ALERTS_TICK_EVERY - 2) \div b)
      BY DEF TicksFor
    <3> HIDE DEF b
    <3>5. QED BY <1>2, <2>2, <3>3, <3>4
  <2>5. TickInterval \in Nat /\ Spacing \in Nat /\ TickInterval <= Spacing
    BY SchedulerAssumption DEF Spacing
  <2>6. k * Spacing + (L - i) * TickInterval <= LatestTime
    <3> DEFINE tf == TicksFor(L)
               g == L - i
    <3>1. g \in Nat /\ tf \in Nat /\ k + g <= tf
      <4>1. TicksFor(i) \in Int
        <5> DEFINE b == ALERTS_TICK_EVERY - 1
                   j == i + ALERTS_TICK_EVERY - 2
        <5>1. b \in Nat \ {0} /\ j \in Nat /\ i \in Nat
          <6>1. ALERTS_TICK_EVERY \in Nat \ {0, 1}
            BY SchedulerAssumption
          <6>2. i \in Nat \ {0}
            BY <2>2
          <6>3. QED BY <6>1, <6>2
        <5>2. j \div b \in Nat
          <6> HIDE DEF b, j
          <6>1. QED BY <5>1, DivisionSteps
        <5>3. TicksFor(i) = i + (j \div b)
          BY DEF TicksFor
        <5> HIDE DEF b, j
        <5>4. QED BY <5>1, <5>2, <5>3
      <4>2. QED BY <2>2, <2>3, <2>4, <4>1
    <3> HIDE DEF tf, g, k
    <3>2. g * TickInterval <= g * Spacing /\ g * Spacing \in Nat /\ g * TickInterval \in Nat
      BY <2>5, <3>1
    <3>3. (k + g) * Spacing <= tf * Spacing /\ (k + g) * Spacing = k * Spacing + g * Spacing
      BY <2>3, <2>5, <3>1
    <3>4. k * Spacing \in Nat /\ tf * Spacing \in Nat
      BY <2>3, <2>5, <3>1
    <3>5. k * Spacing + g * TickInterval <= tf * Spacing
      BY <3>2, <3>3, <3>4
    <3>6. QED BY <3>5 DEF LatestTime, tf, g
  <2>7. RotationTime = i * TickInterval + (L - i) * TickInterval
    BY <1>2, <2>2, <2>5 DEF RotationTime
  <2>8. /\ i * TickInterval \in Nat /\ (L - i) * TickInterval \in Nat
        /\ k * Spacing \in Nat /\ LatestTime \in Nat
    <3>1. \A x, y \in Nat : x * y \in Nat
      OBVIOUS
    <3> HIDE DEF L, k
    <3>2. QED BY <2>2, <2>3, <2>4, <2>5, <3>1 DEF LatestTime, L
  <2> HIDE DEF L, k
  <2>9. Predicts(i * TickInterval, 0, 0, i, k)
    <3> DEFINE x == i * TickInterval
               y == (L - i) * TickInterval
               z == k * Spacing
    <3>1. /\ x \in Nat /\ y \in Nat /\ z \in Nat /\ LatestTime \in Nat
          /\ RotationTime = x + y /\ z + y <= LatestTime
      BY <2>6, <2>7, <2>8
    <3> HIDE DEF x, y, z
    <3>2. x <= 0 + x /\ 0 + z <= x + LatestTime - RotationTime + TickInterval
      BY <2>5, <3>1
    <3>3. QED BY <3>2 DEF Predicts, x, z
  <2>10. ~ HavingTurn(Members[i])
    BY <1>1 DEF HavingTurn, Sleeping
  <2>11. QED BY <1>1, <1>3, <2>1, <2>2, <2>9, <2>10 DEF MemberPredicted, k
<1>5. QED BY <1>3, <1>4

(* A turn comes when it was predicted.                                     *)
LEMMA TurnAsPredicted ==
  ASSUME SchedulerTypes, LockInv, now \in Nat, PredictionInv, [Next]_vars, failures = 0,
         NEW m \in Elements(Members), lastTurn'[m] # lastTurn[m]
  PROVE  /\ nextUpdateAt[m] - now <= TickInterval
         /\ now - nextUpdateAt[m]
              <= (TicksFor(Len(Members)) - 1) * Spacing - (Len(Members) - 1) * TickInterval
<1>1. \E n \in Elements(Members) : DirectTurn(n)
  BY DEF Next, Step, ClockStopped, vars, historyVars, DirectIdleTick, DirectFetched, RegionalTick,
         RegionalFetched, FetchRaised, DirectWakes, RequestCalls, RequestWakes,
         RequestFetched, RequestFails, Tick
<1>2. PICK n \in Elements(Members) : DirectTurn(n)
  BY <1>1
<1> DEFINE d == DutyOfTick("direct")
           count == tickCount["direct"]
<1>3. /\ "direct" \in Scheduler /\ Direct.at = "sleeping" /\ now >= Direct.until
      /\ TakeTurn(n, d) /\ d \in Duty
      /\ tickCount' = [tickCount EXCEPT !["direct"] = @ + 1]
      /\ d = IF tickCount'["direct"] % ALERTS_TICK_EVERY = 0 THEN "alerts" ELSE "trips"
  BY <1>2 DEF DirectTurn, Due, CountTick, DutyOfTick, Duty, Direct
<1> HIDE DEF d
<1>4. Members # << >> /\ count \in Nat /\ tickCount'["direct"] = count + 1
  BY <1>3, DirectTypes
<1> HIDE DEF count
<1>5. lastTurn \in [Elements(Members) -> Nat]
  BY DEF SchedulerTypes
<1>6. d = "trips"
  BY <1>3, <1>4, MemberOfTurn DEF Duty
<1>7. /\ n = Members[tripCursor + 1] /\ lastTurn' = [lastTurn EXCEPT ![n] = now]
      /\ tripCursor \in 0..(Len(Members) - 1) /\ Len(Members) \in Nat \ {0}
  BY <1>3, <1>4, <1>6, MemberOfTurn
<1>8. m = n
  BY <1>5, <1>7
<1> DEFINE i == tripCursor + 1
<1>9. i \in 1..Len(Members) /\ m = Members[i]
  BY <1>7, <1>8
<1>10. DirectOnTime /\ MemberPredicted(i) /\ ~ HavingTurn(m)
  BY <1>3, <1>9 DEF PredictionInv, HavingTurn
<1>11. SoonestTick = now /\ LatestTick = now
  BY <1>3, <1>10, DirectTypes DEF DirectOnTime, SoonestTick, LatestTick
<1>12. Ahead(i, tripCursor) = 1
  BY <1>7 DEF Ahead
<1>13. TicksUntil(1, count) = 1
  <2>1. (count + 1) % ALERTS_TICK_EVERY # 0
    BY <1>3, <1>4, <1>6
  <2>2. count \in Nat /\ 1 \in Nat \ {0}
    BY <1>4
  <2>3. QED BY <2>1, <2>2, TickPasses
<1>14. Predicts(nextUpdateAt[m], now, now, 1, 1)
  BY <1>9, <1>10, <1>11, <1>12, <1>13 DEF MemberPredicted, count
<1>15. /\ nextUpdateAt[m] \in Nat /\ TickInterval \in Nat /\ Spacing \in Nat
       /\ RotationTime \in Nat /\ LatestTime \in Nat
  BY <1>3, <1>4, <1>9, DirectTypes, PredictionTypes
<1>16. /\ nextUpdateAt[m] <= now + TickInterval
       /\ now + Spacing <= nextUpdateAt[m] + LatestTime - RotationTime + TickInterval
  BY <1>14, <1>15 DEF Predicts
<1>17. /\ nextUpdateAt[m] - now <= TickInterval
       /\ now - nextUpdateAt[m] <= (LatestTime - Spacing) - (RotationTime - TickInterval)
  BY <1>15, <1>16
<1>18. /\ (TicksFor(Len(Members)) - 1) * Spacing = LatestTime - Spacing
       /\ (Len(Members) - 1) * TickInterval = RotationTime - TickInterval
  <2>1. TicksFor(Len(Members)) \in Nat /\ Len(Members) \in Nat
    BY <1>4, PredictionTypes
  <2>2. \A a, x \in Nat : (a - 1) * x = a * x - x
    OBVIOUS
  <2>3. QED BY <1>15, <2>1, <2>2 DEF LatestTime, RotationTime
<1>19. QED BY <1>17, <1>18

(* The countdown shown to a rider is off by no more than a tick early, or  *)
(* the alerts ticks and latencies of one rotation late, in any rotation    *)
(* and for every latency, as long as no fetch fails.                       *)
THEOREM PredictionsHold == Spec => PredictionNearTurn
<1>1. SchedulerTypes /\ QuotaFacts /\ LockInv /\ PredictionInv /\ [Next]_vars => PredictionInv'
  BY PredictionStep DEF QuotaFacts, Quota!TypeOK
<1>2. SchedulerTypes /\ QuotaFacts /\ LockInv /\ PredictionInv /\ [Next]_vars =>
        [\A m \in Elements(Members) : (failures = 0 /\ lastTurn'[m] # lastTurn[m]) =>
           /\ nextUpdateAt[m] - now <= TickInterval
           /\ now - nextUpdateAt[m]
                <= (TicksFor(Len(Members)) - 1) * Spacing - (Len(Members) - 1) * TickInterval]_vars
  BY TurnAsPredicted DEF QuotaFacts, Quota!TypeOK
<1>3. TypeOK => SchedulerTypes
  BY DEF TypeOK
<1>4. QED
  BY <1>1, <1>2, <1>3, FirstPredictions, TypeCorrect, LockInvHolds, QuotaFactsHold, PTL
     DEF Spec, PredictionNearTurn
=============================================================================
