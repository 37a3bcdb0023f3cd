----------------------- MODULE SharedFeedQuota_proofs ------------------------
(***************************************************************************)
(* Proofs about SharedFeedQuota, for every set of groups, every limit and  *)
(* every window length.                                                    *)
(***************************************************************************)
EXTENDS SharedFeedQuota, TLAPS

(* The popleft loop: dropping k timestamps of a sequence keeps a sequence, *)
(* k shorter, with the remaining timestamps in their order.                *)
LEMMA PopLeft ==
  ASSUME NEW ts \in Seq(Nat), NEW k \in 0..Len(ts)
  PROVE  /\ SubSeq(ts, k + 1, Len(ts)) \in Seq(Nat)
         /\ Len(SubSeq(ts, k + 1, Len(ts))) = Len(ts) - k
         /\ \A i \in 1..(Len(ts) - k) : SubSeq(ts, k + 1, Len(ts))[i] = ts[k + i]
OBVIOUS

(* The group invariant after pops alone, as in a refused try_consume.      *)
LEMMA PopsKeepGroupInv ==
  ASSUME NEW ts \in Seq(Nat), NEW history \in Seq(Nat), NEW limit \in Nat,
         NEW k \in 0..Len(ts), now \in Nat, WINDOW_SECONDS \in Nat,
         GroupInv(ts, history, limit),
         \A i \in 1..k : Expired(ts[i])
  PROVE  GroupInv(SubSeq(ts, k + 1, Len(ts)), history, limit)
<1> DEFINE live == SubSeq(ts, k + 1, Len(ts))
           n == Len(history)
           m == Len(ts)
<1>1. /\ live \in Seq(Nat)
      /\ Len(live) = m - k
      /\ \A i \in 1..(m - k) : live[i] = ts[k + i]
  BY PopLeft
<1>2. /\ m \in Nat /\ n \in Nat /\ k \in Nat /\ m <= n /\ m <= limit /\ k <= m
      /\ \A i \in 1..m : ts[i] = history[n - m + i]
      /\ \A i \in 1..(n - m) : Expired(history[i])
  BY DEF GroupInv, DequeIsSuffix
<1> HIDE DEF live, n, m
<1>3. \A i \in 1..(m - k) : live[i] = history[n - (m - k) + i]
  BY <1>1, <1>2
<1>4. ASSUME NEW i \in 1..(n - (m - k))
      PROVE  Expired(history[i])
  <2>1. CASE i <= n - m
    BY <2>1, <1>2
  <2>2. CASE i > n - m
    <3>1. i - (n - m) \in 1..k
      BY <2>2, <1>2
    <3>2. ts[i - (n - m)] = history[i]
      BY <3>1, <1>2
    <3>3. QED BY <3>1, <3>2
  <2>3. QED BY <2>1, <2>2, <1>2
<1>5. DequeIsSuffix(live, history, limit)
  BY <1>1, <1>2, <1>3, <1>4 DEF DequeIsSuffix, n
<1>6. QED BY <1>5 DEF GroupInv, live

(* Recording one more spend at the current time, when the deque had room.  *)
LEMMA SpendKeepsGroupInv ==
  ASSUME NEW ts \in Seq(Nat), NEW history \in Seq(Nat), NEW limit \in Nat,
         now \in Nat, WINDOW_SECONDS \in Nat,
         GroupInv(ts, history, limit),
         Len(ts) < limit
  PROVE  GroupInv(Append(ts, now), Append(history, now), limit)
<1> DEFINE n == Len(history)
           m == Len(ts)
           newer == Append(history, now)
           deque == Append(ts, now)
<1>1. /\ deque \in Seq(Nat) /\ Len(deque) = m + 1
      /\ \A i \in 1..m : deque[i] = ts[i]
      /\ deque[m + 1] = now
  OBVIOUS
<1>2. /\ newer \in Seq(Nat) /\ Len(newer) = n + 1
      /\ \A i \in 1..n : newer[i] = history[i]
      /\ newer[n + 1] = now
  OBVIOUS
<1>3. /\ m \in Nat /\ n \in Nat /\ m <= n /\ m < limit
      /\ \A i \in 1..m : ts[i] = history[n - m + i]
      /\ \A i \in 1..(n - m) : Expired(history[i])
      /\ \A i \in 1..n : history[i] \in Nat
  BY DEF GroupInv, DequeIsSuffix
<1>4. /\ \A i \in 1..n : history[i] <= now
      /\ \A i, j \in 1..n : i <= j => history[i] <= history[j]
      /\ \A i \in 1..n : i + limit <= n => history[i + limit] - history[i] >= WINDOW_SECONDS
  BY DEF GroupInv, Ordered, WithinBudget
<1> HIDE DEF n, m, newer, deque
<1>a. m \in Nat /\ n \in Nat
  BY <1>3
<1>5. DequeIsSuffix(deque, newer, limit)
  <2>1. \A i \in 1..(m + 1) : deque[i] = newer[(n + 1) - (m + 1) + i]
    <3> TAKE i \in 1..(m + 1)
    <3>1. CASE i = m + 1
      <4>1. (n + 1) - (m + 1) + i = n + 1
        BY <3>1, <1>3
      <4>2. QED BY <3>1, <4>1, <1>1, <1>2
    <3>2. CASE i \in 1..m
      <4>1. (n + 1) - (m + 1) + i = n - m + i /\ n - m + i \in 1..n
        BY <3>2, <1>3
      <4>2. ts[i] = history[n - m + i]
        BY <3>2, <1>3
      <4>3. QED BY <3>2, <4>1, <4>2, <1>1, <1>2
    <3>3. QED BY <3>1, <3>2, <1>a
  <2>2. \A i \in 1..((n + 1) - (m + 1)) : Expired(newer[i])
    <3> TAKE i \in 1..((n + 1) - (m + 1))
    <3>1. i \in 1..(n - m) /\ i \in 1..n
      BY <1>a
    <3>2. newer[i] = history[i] /\ Expired(history[i])
      BY <3>1, <1>2, <1>3
    <3>3. QED BY <3>2, Zenon
  <2>3. QED BY <1>1, <1>2, <1>3, <2>1, <2>2 DEF DequeIsSuffix
<1>6. Ordered(newer)
  <2>1. \A i \in 1..(n + 1) : newer[i] <= now
    <3> TAKE i \in 1..(n + 1)
    <3>1. CASE i = n + 1
      BY <3>1, <1>2
    <3>2. CASE i \in 1..n
      BY <3>2, <1>2, <1>4
    <3>3. QED BY <3>1, <3>2, <1>a
  <2>2. ASSUME NEW i \in 1..(n + 1), NEW j \in 1..(n + 1), i <= j
        PROVE  newer[i] <= newer[j]
    <3>1. CASE j = n + 1
      BY <3>1, <2>1, <1>2
    <3>2. CASE j \in 1..n
      <4>1. i \in 1..n
        BY <2>2, <3>2, <1>3
      <4>2. QED BY <2>2, <3>2, <4>1, <1>2, <1>4
    <3>3. QED BY <3>1, <3>2, <1>a
  <2>3. 1..Len(newer) = 1..(n + 1)
    BY <1>2
  <2>4. /\ \A i \in 1..Len(newer) : newer[i] <= now
        /\ \A i, j \in 1..Len(newer) : i <= j => newer[i] <= newer[j]
    BY <2>1, <2>2, <2>3, Zenon
  <2>5. QED BY <2>4, Zenon DEF Ordered
<1>7. WithinBudget(newer, limit)
  <2> SUFFICES ASSUME NEW i \in 1..(n + 1), i + limit <= n + 1
               PROVE  newer[i + limit] - newer[i] >= WINDOW_SECONDS
    BY <1>2 DEF WithinBudget
  <2>1. CASE i + limit <= n
    <3>1. i \in 1..n /\ i + limit \in 1..n
      BY <2>1, <1>a
    <3>2. newer[i] = history[i] /\ newer[i + limit] = history[i + limit]
      BY <3>1, <1>2
    <3>3. history[i + limit] - history[i] >= WINDOW_SECONDS
      BY <2>1, <3>1, <1>4
    <3>4. QED BY <3>2, <3>3
  <2>2. CASE i + limit = n + 1
    <3>1. i \in 1..(n - m)
      BY <2>2, <1>3
    <3>2. now - history[i] >= WINDOW_SECONDS
      BY <3>1, <1>3 DEF Expired
    <3>3. newer[i + limit] = now
      BY <2>2, <1>2
    <3>4. newer[i] = history[i]
      BY <3>1, <1>2, <1>3
    <3>5. QED BY <3>2, <3>3, <3>4
  <2>3. QED BY <2>1, <2>2, <1>a
<1>8. QED BY <1>5, <1>6, <1>7 DEF GroupInv, newer, deque

-----------------------------------------------------------------------------

(* Type correctness: every step of try_consume, of the clock and of a      *)
(* restart keeps the types of the state.                                   *)
THEOREM TypeCorrect == Spec => []TypeOK
<1> USE QuotaAssumption
<1>1. Init => TypeOK
  BY DEF Init, TypeOK
<1>2. TypeOK /\ [Next]_vars => TypeOK'
  <2> SUFFICES ASSUME TypeOK, [Next]_vars PROVE TypeOK'
    OBVIOUS
  <2> USE DEF TypeOK
  <2>1. ASSUME NEW g \in Group, NEW answer \in BOOLEAN, TryConsume(g, answer)
        PROVE  TypeOK'
    <3>1. UNCHANGED <<now, earlier, restarts>>
      BY <2>1 DEF TryConsume
    <3>2. CASE Unmetered(g)
      BY <3>1, <3>2 DEF Unmetered
    <3>3. CASE Granted(g)
      <4> PICK k \in 0..Len(timestamps[g]) :
             /\ timestamps' = [timestamps EXCEPT ![g] = Append(Live(g, k), now)]
             /\ spends' = [spends EXCEPT ![g] = Append(@, now)]
        BY <3>3 DEF Granted
      <4>1. g \in Metered /\ timestamps[g] \in Seq(Nat) /\ spends[g] \in Seq(Nat)
        BY <3>3 DEF Granted
      <4>2. Live(g, k) \in Seq(Nat)
        BY <4>1, PopLeft DEF Live
      <4>3. Append(Live(g, k), now) \in Seq(Nat) /\ Append(spends[g], now) \in Seq(Nat)
        BY <4>1, <4>2
      <4>4. QED BY <3>1, <4>3
    <3>4. CASE Denied(g)
      <4> PICK k \in 0..Len(timestamps[g]) :
             timestamps' = [timestamps EXCEPT ![g] = Live(g, k)]
        BY <3>4 DEF Denied
      <4>1. g \in Metered /\ timestamps[g] \in Seq(Nat) /\ UNCHANGED spends
        BY <3>4 DEF Denied
      <4>2. Live(g, k) \in Seq(Nat)
        BY <4>1, PopLeft DEF Live
      <4>3. QED BY <3>1, <4>1, <4>2
    <3>5. QED BY <2>1, <3>2, <3>3, <3>4 DEF TryConsume
  <2>2. CASE Tick
    BY <2>2 DEF Tick
  <2>3. CASE Restart
    <3>1. \A g \in Metered : earlier[g] \o spends[g] \in Seq(Nat)
      OBVIOUS
    <3>2. QED BY <2>3, <3>1 DEF Restart
  <2>4. CASE UNCHANGED vars
    BY <2>4 DEF vars
  <2>5. QED BY <2>1, <2>2, <2>3, <2>4 DEF Next
<1>3. QED BY <1>1, <1>2, PTL DEF Spec

-----------------------------------------------------------------------------

(* One try_consume keeps the group invariant of every group: a refusal     *)
(* only pops, a grant pops and then records the spend.                     *)
LEMMA TryConsumeKeepsQuotaInv ==
  ASSUME TypeOK, QuotaInv, NEW g \in Group, NEW answer \in BOOLEAN,
         TryConsume(g, answer)
  PROVE  QuotaInv'
<1> USE QuotaAssumption
<1>1. UNCHANGED now
  BY DEF TryConsume
<1>2. \A h \in Metered : /\ timestamps[h] \in Seq(Nat) /\ spends[h] \in Seq(Nat)
                         /\ QUOTA_GROUP_LIMITS[h] \in Nat
                         /\ GroupInv(timestamps[h], spends[h], QUOTA_GROUP_LIMITS[h])
  BY DEF TypeOK, QuotaInv
<1>3. now \in Nat /\ WINDOW_SECONDS \in Nat
  BY DEF TypeOK
<1>4. SUFFICES ASSUME NEW h \in Metered
               PROVE  GroupInv(timestamps'[h], spends'[h], QUOTA_GROUP_LIMITS[h])
  BY <1>1 DEF QuotaInv, GroupInv, DequeIsSuffix, Ordered, WithinBudget, Expired
<1>5. CASE Unmetered(g)
  BY <1>5, <1>2 DEF Unmetered
<1>6. CASE Granted(g)
  <2>1. g \in Metered
    BY <1>6 DEF Granted
  <2> PICK k \in 0..Len(timestamps[g]) :
         /\ Pops(g, k)
         /\ Len(Live(g, k)) < QUOTA_GROUP_LIMITS[g]
         /\ timestamps' = [timestamps EXCEPT ![g] = Append(Live(g, k), now)]
         /\ spends' = [spends EXCEPT ![g] = Append(@, now)]
    BY <1>6 DEF Granted
  <2>2. CASE h = g
    <3>1. timestamps'[h] = Append(Live(g, k), now) /\ spends'[h] = Append(spends[g], now)
      BY <2>1, <2>2 DEF TypeOK
    <3>2. Live(g, k) \in Seq(Nat)
      BY <2>1, <1>2, PopLeft DEF Live
    <3>3. GroupInv(Live(g, k), spends[g], QUOTA_GROUP_LIMITS[g])
      BY <2>1, <1>2, <1>3, PopsKeepGroupInv DEF Live, Pops
    <3>4. GroupInv(Append(Live(g, k), now), Append(spends[g], now), QUOTA_GROUP_LIMITS[g])
      BY <2>1, <1>2, <1>3, <3>2, <3>3, SpendKeepsGroupInv
    <3>5. QED BY <3>1, <3>4, <2>2
  <2>3. CASE h # g
    BY <2>3, <1>2 DEF TypeOK
  <2>4. QED BY <2>2, <2>3
<1>7. CASE Denied(g)
  <2>1. g \in Metered /\ UNCHANGED spends
    BY <1>7 DEF Denied
  <2> PICK k \in 0..Len(timestamps[g]) :
         /\ Pops(g, k)
         /\ timestamps' = [timestamps EXCEPT ![g] = Live(g, k)]
    BY <1>7 DEF Denied
  <2>2. CASE h = g
    <3>1. timestamps'[h] = Live(g, k)
      BY <2>1, <2>2 DEF TypeOK
    <3>2. GroupInv(Live(g, k), spends[g], QUOTA_GROUP_LIMITS[g])
      BY <2>1, <1>2, <1>3, PopsKeepGroupInv DEF Live, Pops
    <3>3. QED BY <3>1, <3>2, <2>1, <2>2
  <2>3. CASE h # g
    BY <2>1, <2>3, <1>2 DEF TypeOK
  <2>4. QED BY <2>2, <2>3
<1>8. QED BY <1>5, <1>6, <1>7 DEF TryConsume

(* The clock only makes more timestamps expire.                            *)
LEMMA TickKeepsQuotaInv ==
  ASSUME TypeOK, QuotaInv, Tick
  PROVE  QuotaInv'
<1> USE QuotaAssumption
<1> SUFFICES ASSUME NEW h \in Metered
             PROVE  GroupInv(timestamps[h], spends[h], QUOTA_GROUP_LIMITS[h])'
  BY DEF QuotaInv
<1>1. /\ now \in Nat /\ now' = now + 1 /\ UNCHANGED <<timestamps, spends>>
      /\ spends[h] \in Seq(Nat)
      /\ GroupInv(timestamps[h], spends[h], QUOTA_GROUP_LIMITS[h])
  BY DEF Tick, QuotaInv, TypeOK
<1>2. \A i \in 1..Len(spends[h]) : spends[h][i] \in Nat
  BY <1>1
<1>3. DequeIsSuffix(timestamps[h], spends[h], QUOTA_GROUP_LIMITS[h])'
  <2> DEFINE old == Len(spends[h]) - Len(timestamps[h])
  <2>1. DequeIsSuffix(timestamps[h], spends[h], QUOTA_GROUP_LIMITS[h])
    BY <1>1 DEF GroupInv
  <2>2. Len(timestamps[h]) \in Nat /\ Len(spends[h]) \in Nat
    BY DEF TypeOK
  <2>3. \A i \in 1..old : now - spends[h][i] >= WINDOW_SECONDS
    BY <2>1 DEF DequeIsSuffix, Expired
  <2>4. ASSUME NEW i \in 1..old
        PROVE  now' - spends'[h][i] >= WINDOW_SECONDS
    <3>1. i \in 1..Len(spends[h])
      BY <2>2
    <3>2. spends[h][i] \in Nat
      BY <3>1, <1>2
    <3>3. now - spends[h][i] >= WINDOW_SECONDS
      BY <2>3
    <3>4. \A n, at \in Nat : n - at >= WINDOW_SECONDS => (n + 1) - at >= WINDOW_SECONDS
      BY QuotaAssumption
    <3>5. now \in Nat /\ now' = now + 1 /\ spends' = spends
      BY <1>1
    <3> HIDE DEF old
    <3>6. QED BY <3>2, <3>3, <3>4, <3>5
  <2>5. \A i \in 1..old' : Expired(spends[h][i])'
    BY <1>1, <2>4 DEF Expired
  <2>6. QED BY <1>1, <2>1, <2>5 DEF DequeIsSuffix
<1>4. Ordered(spends[h])'
  BY <1>1, <1>2 DEF GroupInv, Ordered
<1>5. WithinBudget(spends[h], QUOTA_GROUP_LIMITS[h])'
  BY <1>1 DEF GroupInv, WithinBudget
<1>6. QED BY <1>3, <1>4, <1>5 DEF GroupInv

(* An empty deque and an empty history satisfy the group invariant.        *)
LEMMA EmptyGroupInv ==
  ASSUME NEW limit \in Nat
  PROVE  GroupInv(<< >>, << >>, limit)
BY DEF GroupInv, DequeIsSuffix, Ordered, WithinBudget

(* The inductive invariant: in every process, the deque of every group is  *)
(* the unexpired suffix of an ordered history that is within budget.       *)
THEOREM QuotaInvariant == Spec => []QuotaInv
<1> USE QuotaAssumption
<1>1. Init => QuotaInv
  BY EmptyGroupInv DEF Init, QuotaInv
<1>2. TypeOK /\ QuotaInv /\ [Next]_vars => QuotaInv'
  <2> SUFFICES ASSUME TypeOK, QuotaInv, [Next]_vars PROVE QuotaInv'
    OBVIOUS
  <2>1. ASSUME NEW g \in Group, NEW answer \in BOOLEAN, TryConsume(g, answer)
        PROVE  QuotaInv'
    BY <2>1, TryConsumeKeepsQuotaInv
  <2>2. CASE Tick
    BY <2>2, TickKeepsQuotaInv
  <2>3. CASE Restart
    <3>1. \A h \in Metered : timestamps'[h] = << >> /\ spends'[h] = << >> /\ UNCHANGED now
      BY <2>3 DEF Restart
    <3>2. \A h \in Metered : GroupInv(<< >>, << >>, QUOTA_GROUP_LIMITS[h])'
      BY <3>1, EmptyGroupInv DEF GroupInv, DequeIsSuffix, Ordered, WithinBudget
    <3>3. QED BY <3>1, <3>2 DEF QuotaInv
  <2>4. CASE UNCHANGED vars
    BY <2>4 DEF vars, QuotaInv, GroupInv, DequeIsSuffix, Ordered, WithinBudget, Expired
  <2>5. QED BY <2>1, <2>2, <2>3, <2>4 DEF Next
<1>3. QED BY <1>1, <1>2, TypeCorrect, PTL DEF Spec

(* One process never grants a group more than its limit in any rolling     *)
(* window, whatever the order of calls, ticks and restarts.                *)
THEOREM WindowBoundHolds == Spec => []WindowBound
<1>1. QuotaInv => WindowBound
  BY DEF QuotaInv, GroupInv, WindowBound
<1>2. QED BY <1>1, QuotaInvariant, PTL

-----------------------------------------------------------------------------

(* What the popleft loop leaves is short exactly when the limit-th newest  *)
(* spend of the history has expired.                                       *)
LEMMA LiveCountsWindow ==
  ASSUME NEW ts \in Seq(Nat), NEW history \in Seq(Nat), NEW limit \in Nat,
         NEW k \in 0..Len(ts), now \in Nat, WINDOW_SECONDS \in Nat,
         GroupInv(ts, history, limit),
         \A i \in 1..k : Expired(ts[i]),
         k < Len(ts) => ~ Expired(ts[k + 1])
  PROVE  Len(ts) - k < limit
           <=> /\ limit > 0
               /\ Len(history) >= limit
                    => Expired(history[Len(history) - limit + 1])
<1> DEFINE n == Len(history)
           m == Len(ts)
           j == n - limit + 1
<1>a. m \in Nat /\ n \in Nat /\ k \in Nat /\ k <= m
  OBVIOUS
<1>b. DequeIsSuffix(ts, history, limit)
  BY DEF GroupInv
<1>c. /\ m <= n /\ m <= limit
      /\ \A i \in 1..m : ts[i] = history[n - m + i]
      /\ \A i \in 1..(n - m) : Expired(history[i])
  BY <1>b, Zenon DEF DequeIsSuffix
<1>1. /\ m \in Nat /\ n \in Nat /\ k \in Nat /\ m <= n /\ m <= limit /\ k <= m
      /\ \A i \in 1..m : ts[i] = history[n - m + i]
      /\ \A i \in 1..(n - m) : Expired(history[i])
  BY <1>a, <1>c, Zenon
<1>d. m \in Nat /\ n \in Nat /\ k \in Nat /\ m <= n /\ m <= limit /\ k <= m
  BY <1>1, Zenon
<1> HIDE DEF n, m
<1>2. ASSUME m - k < limit, n >= limit
      PROVE  Expired(history[j])
  <2>1. j \in 1..(n - m + k)
    BY <1>d, <1>2
  <2>2. CASE j <= n - m
    BY <2>1, <2>2, <1>1
  <2>3. CASE j > n - m
    <3>1. j - (n - m) \in 1..k
      BY <2>1, <2>3, <1>d
    <3>2. j - (n - m) \in 1..m /\ n - m + (j - (n - m)) = j
      BY <3>1, <1>d
    <3>3. ts[j - (n - m)] = history[n - m + (j - (n - m))]
      BY <3>2, <1>1
    <3>4. QED BY <3>1, <3>2, <3>3
  <2>4. QED BY <2>1, <2>2, <2>3, <1>1
<1>3. ASSUME m - k >= limit, limit > 0
      PROVE  n >= limit /\ ~ Expired(history[j])
  <2>1. k = 0 /\ m = limit /\ k < m
    BY <1>1, <1>3
  <2>2. ~ Expired(ts[1])
    BY <2>1 DEF m
  <2>3. ts[1] = history[n - m + 1]
    BY <2>1, <1>1
  <2>4. QED BY <2>1, <2>2, <2>3, <1>1
<1>4. m - k < limit <=> limit > 0 /\ (n >= limit => Expired(history[j]))
  BY <1>1, <1>2, <1>3
<1>5. QED BY <1>4 DEF n, m

(* try_consume refuses only in a full window and grants only in one with   *)
(* room: its answer from the deque is the answer of the whole history.     *)
THEOREM DequeAgrees == Spec => []DequeAgreesWithHistory
<1> USE QuotaAssumption
<1>1. TypeOK /\ QuotaInv => DequeAgreesWithHistory
  <2> SUFFICES ASSUME TypeOK, QuotaInv,
                      NEW g \in Metered, NEW k \in 0..Len(timestamps[g]), Pops(g, k)
               PROVE  Len(Live(g, k)) < QUOTA_GROUP_LIMITS[g]
                        <=> /\ QUOTA_GROUP_LIMITS[g] > 0
                            /\ Len(spends[g]) >= QUOTA_GROUP_LIMITS[g]
                                 => Expired(spends[g][Len(spends[g]) - QUOTA_GROUP_LIMITS[g] + 1])
    BY DEF DequeAgreesWithHistory
  <2>1. /\ timestamps[g] \in Seq(Nat) /\ spends[g] \in Seq(Nat)
        /\ QUOTA_GROUP_LIMITS[g] \in Nat /\ now \in Nat /\ WINDOW_SECONDS \in Nat
        /\ GroupInv(timestamps[g], spends[g], QUOTA_GROUP_LIMITS[g])
    BY DEF TypeOK, QuotaInv
  <2>2. Len(Live(g, k)) = Len(timestamps[g]) - k
    BY <2>1, PopLeft DEF Live
  <2>3. QED BY <2>1, <2>2, LiveCountsWindow DEF Pops
<1>2. QED BY <1>1, TypeCorrect, QuotaInvariant, PTL

(* try_consume implements the abstract rolling window: a grant is a Grant  *)
(* of the window, a refusal changes nothing there.                         *)
THEOREM RollingWindowImplemented == Spec => ImplementsRollingWindow
<1> USE QuotaAssumption DEF Window!Metered, Metered
<1>1. Init => Window!Init
  BY DEF Init, Window!Init
<1>2. TypeOK /\ DequeAgreesWithHistory /\ [Next]_vars
        => [Window!Next]_<<now, spends>>
  <2> SUFFICES ASSUME TypeOK, DequeAgreesWithHistory, [Next]_vars
               PROVE  [Window!Next]_<<now, spends>>
    OBVIOUS
  <2>1. ASSUME NEW g \in Group, NEW answer \in BOOLEAN, TryConsume(g, answer)
        PROVE  [Window!Next]_<<now, spends>>
    <3>1. UNCHANGED now
      BY <2>1 DEF TryConsume
    <3>2. CASE Granted(g)
      <4> PICK k \in 0..Len(timestamps[g]) :
             /\ Pops(g, k)
             /\ Len(Live(g, k)) < QUOTA_GROUP_LIMITS[g]
             /\ spends' = [spends EXCEPT ![g] = Append(@, now)]
        BY <3>2 DEF Granted
      <4>1. g \in Metered
        BY <3>2 DEF Granted
      <4>2. Window!HasRoom(g)
        BY <4>1 DEF DequeAgreesWithHistory, Window!HasRoom, Expired
      <4>3. Window!Grant(g)
        BY <4>2, <3>1 DEF Window!Grant
      <4>4. QED BY <4>1, <4>3 DEF Window!Next
    <3>3. CASE Unmetered(g) \/ Denied(g)
      BY <3>1, <3>3 DEF Unmetered, Denied
    <3>4. QED BY <2>1, <3>2, <3>3 DEF TryConsume
  <2>2. CASE Tick
    BY <2>2 DEF Tick, Window!Tick, Window!Next
  <2>3. CASE Restart
    BY <2>3 DEF Restart, Window!Restart, Window!Next
  <2>4. CASE UNCHANGED vars
    BY <2>4 DEF vars
  <2>5. QED BY <2>1, <2>2, <2>3, <2>4 DEF Next
<1>3. QED
  BY <1>1, <1>2, TypeCorrect, DequeAgrees, PTL DEF Spec, ImplementsRollingWindow, Window!Spec

-----------------------------------------------------------------------------

(* A place in two histories, one after the other.                          *)
LEMMA JoinedEntries ==
  ASSUME NEW a \in Seq(Nat), NEW b \in Seq(Nat)
  PROVE  /\ a \o b \in Seq(Nat) /\ Len(a \o b) = Len(a) + Len(b)
         /\ \A i \in 1..Len(a) : (a \o b)[i] = a[i]
         /\ \A i \in 1..Len(b) : (a \o b)[Len(a) + i] = b[i]
OBVIOUS

(* One process more is one budget more.                                    *)
LEMMA OneMoreBudget ==
  ASSUME NEW limit \in Nat, NEW count \in Nat
  PROVE  limit * (count + 1) = limit * count + limit
OBVIOUS

(* Two processes, one after the other, spend at most both their budgets: a *)
(* window that holds more holds too many of one of them.                   *)
LEMMA JoinedBudgets ==
  ASSUME NEW a \in Seq(Nat), NEW b \in Seq(Nat), NEW p \in Nat, NEW q \in Nat,
         WithinBudget(a, p), WithinBudget(b, q), Ordered(a \o b)
  PROVE  WithinBudget(a \o b, p + q)
<1> DEFINE c == a \o b
           n == Len(a)
           m == Len(b)
<1>1. /\ n \in Nat /\ m \in Nat /\ c \in Seq(Nat) /\ Len(c) = n + m
      /\ \A i \in 1..n : c[i] = a[i]
      /\ \A i \in 1..m : c[n + i] = b[i]
  BY JoinedEntries
<1>2. \A i \in 1..(n + m) : c[i] \in Nat
  BY <1>1
<1>3. \A i, j \in 1..(n + m) : i <= j => c[i] <= c[j]
  BY <1>1 DEF Ordered
<1>4. \A i \in 1..n : i + p <= n => a[i + p] - a[i] >= WINDOW_SECONDS
  BY DEF WithinBudget
<1>5. \A i \in 1..m : i + q <= m => b[i + q] - b[i] >= WINDOW_SECONDS
  BY DEF WithinBudget
<1>6. WINDOW_SECONDS \in Nat
  BY QuotaAssumption
<1> HIDE DEF c, n, m
<1>7. SUFFICES ASSUME NEW i \in 1..(n + m), i + (p + q) <= n + m
               PROVE  c[i + (p + q)] - c[i] >= WINDOW_SECONDS
  BY <1>1 DEF WithinBudget, c
<1>8. CASE i + p <= n
  <2>1. i \in 1..n /\ i + p \in 1..n /\ i + p \in 1..(n + m) /\ i + (p + q) \in 1..(n + m)
    BY <1>1, <1>7, <1>8
  <2>2. c[i + p] - c[i] >= WINDOW_SECONDS
    BY <1>1, <1>4, <1>8, <2>1
  <2>3. i + p <= i + (p + q)
    BY <1>1
  <2>4. c[i + p] <= c[i + (p + q)]
    BY <1>3, <2>1, <2>3
  <2>5. c[i] \in Nat /\ c[i + p] \in Nat /\ c[i + (p + q)] \in Nat
    BY <1>2, <2>1, <1>7
  <2>6. \A x, y, z \in Nat : y - x >= WINDOW_SECONDS /\ y <= z => z - x >= WINDOW_SECONDS
    BY <1>6
  <2>7. QED BY <2>2, <2>4, <2>5, <2>6, Zenon
<1>9. CASE i + p > n
  <2> DEFINE j == i + p - n
  <2>1. j \in 1..m /\ j + q \in 1..m /\ n + j = i + p /\ n + (j + q) = i + (p + q)
    BY <1>1, <1>7, <1>9
  <2>a. b[j + q] - b[j] >= WINDOW_SECONDS
    BY <1>1, <1>5, <2>1
  <2>b. c[i + p] = b[j] /\ c[i + (p + q)] = b[j + q]
    BY <1>1, <2>1
  <2>2. c[i + (p + q)] - c[i + p] >= WINDOW_SECONDS
    BY <2>a, <2>b
  <2>3. i <= i + p /\ i + p \in 1..(n + m) /\ i + (p + q) \in 1..(n + m)
    BY <1>1, <2>1
  <2>4. c[i] <= c[i + p]
    BY <1>3, <1>7, <2>3
  <2>5. c[i] \in Nat /\ c[i + p] \in Nat /\ c[i + (p + q)] \in Nat
    BY <1>2, <1>7, <2>3
  <2>6. \A x, y, z \in Nat : z - y >= WINDOW_SECONDS /\ x <= y => z - x >= WINDOW_SECONDS
    BY <1>6
  <2>7. QED BY <2>2, <2>4, <2>5, <2>6, Zenon
<1>10. QED BY <1>1, <1>7, <1>8, <1>9

(* A spend at the present time keeps a history in order.                   *)
LEMMA SpendKeepsOrder ==
  ASSUME NEW a \in Seq(Nat), NEW b \in Seq(Nat), now \in Nat, Ordered(a \o b)
  PROVE  Ordered(a \o Append(b, now))
<1> DEFINE c == a \o b
           d == a \o Append(b, now)
           k == Len(c)
<1>1. k \in Nat /\ c \in Seq(Nat) /\ d = Append(c, now)
  OBVIOUS
<1>a. \A times \in Seq(Nat) :
        LET more == Append(times, now)
        IN  /\ Len(more) = Len(times) + 1 /\ more[Len(times) + 1] = now
            /\ \A i \in 1..Len(times) : more[i] = times[i]
            /\ \A i \in 1..Len(times) : times[i] \in Nat
  OBVIOUS
<1>2. /\ Len(d) = k + 1 /\ d[k + 1] = now
      /\ \A i \in 1..k : d[i] = c[i]
      /\ \A i \in 1..k : c[i] \in Nat
  BY <1>1, <1>a, Zenon
<1>3. /\ \A i \in 1..k : c[i] <= now
      /\ \A i, j \in 1..k : i <= j => c[i] <= c[j]
  BY DEF Ordered
<1> HIDE DEF c, d, k
<1>4. \A i \in 1..(k + 1) : d[i] <= now
  BY <1>1, <1>2, <1>3
<1>5. ASSUME NEW i \in 1..(k + 1), NEW j \in 1..(k + 1), i <= j
      PROVE  d[i] <= d[j]
  BY <1>1, <1>2, <1>3, <1>5
<1>6. QED BY <1>2, <1>4, <1>5 DEF Ordered, d

(* The spends of all processes are in order, and those of the processes    *)
(* that have ended are within one budget for each of them.                 *)
ProcessesInv ==
  \A g \in Metered :
    /\ Ordered(earlier[g] \o spends[g])
    /\ WithinBudget(earlier[g], QUOTA_GROUP_LIMITS[g] * restarts)

(* Every step keeps the budgets of the processes that have ended.          *)
LEMMA ProcessesStep ==
  ASSUME TypeOK, QuotaInv, ProcessesInv, [Next]_vars
  PROVE  ProcessesInv'
<1>1. /\ now \in Nat /\ restarts \in Nat
      /\ \A h \in Metered : /\ earlier[h] \in Seq(Nat) /\ spends[h] \in Seq(Nat)
                            /\ QUOTA_GROUP_LIMITS[h] \in Nat
  BY QuotaAssumption DEF TypeOK
<1>2. \A h \in Metered : /\ Ordered(earlier[h] \o spends[h])
                         /\ WithinBudget(earlier[h], QUOTA_GROUP_LIMITS[h] * restarts)
  BY DEF ProcessesInv
<1>a. ASSUME UNCHANGED <<now, spends, earlier, restarts>>
      PROVE  ProcessesInv'
  BY <1>2, <1>a DEF ProcessesInv, Ordered, WithinBudget, Metered
<1>3. ASSUME NEW g \in Group, NEW answer \in BOOLEAN, TryConsume(g, answer)
      PROVE  ProcessesInv'
  <2>1. UNCHANGED <<now, earlier, restarts>>
    BY <1>3 DEF TryConsume
  <2>2. CASE Unmetered(g) \/ Denied(g)
    BY <1>a, <2>1, <2>2 DEF Unmetered, Denied
  <2>3. CASE Granted(g)
    <3>1. \A h \in Metered : spends'[h] = IF h = g THEN Append(spends[h], now) ELSE spends[h]
      BY <2>3 DEF Granted, TypeOK
    <3>2. \A h \in Metered : Ordered(earlier[h] \o spends'[h])
      BY <1>1, <1>2, <3>1, SpendKeepsOrder
    <3>3. QED BY <1>2, <2>1, <3>2 DEF ProcessesInv, Ordered, WithinBudget, Metered
  <2>4. QED BY <1>3, <2>2, <2>3 DEF TryConsume
<1>4. CASE Tick
  <2>1. now' = now + 1 /\ UNCHANGED <<spends, earlier, restarts>>
    BY <1>4 DEF Tick
  <2> SUFFICES ASSUME NEW h \in Metered
               PROVE  /\ Ordered(earlier[h] \o spends[h])'
                      /\ WithinBudget(earlier[h], QUOTA_GROUP_LIMITS[h] * restarts)'
    BY DEF ProcessesInv, Metered
  <2> DEFINE all == earlier[h] \o spends[h]
  <2>8. all \in Seq(Nat)
    BY <1>1
  <2>9. \A times \in Seq(Nat) : \A i \in 1..Len(times) : times[i] \in Nat
    OBVIOUS
  <2>2. \A i \in 1..Len(all) : all[i] \in Nat
    BY <2>8, <2>9, Zenon
  <2>3. Ordered(all)
    BY <1>2
  <2>4. all' = all
    BY <2>1
  <2> HIDE DEF all
  <2>5. \A i \in 1..Len(all) : all[i] <= now'
    BY <1>1, <2>1, <2>2, <2>3 DEF Ordered
  <2>6. Ordered(all)'
    BY <2>3, <2>4, <2>5 DEF Ordered
  <2>7. QED BY <1>2, <2>1, <2>6 DEF all, WithinBudget
<1>5. CASE Restart
  <2>1. /\ restarts' = restarts + 1 /\ UNCHANGED now
        /\ \A h \in Metered : earlier'[h] = earlier[h] \o spends[h] /\ spends'[h] = << >>
    BY <1>5 DEF Restart
  <2> SUFFICES ASSUME NEW h \in Metered
               PROVE  /\ Ordered(earlier[h] \o spends[h])'
                      /\ WithinBudget(earlier[h], QUOTA_GROUP_LIMITS[h] * restarts)'
    BY DEF ProcessesInv, Metered
  <2> DEFINE all == earlier[h] \o spends[h]
             limit == QUOTA_GROUP_LIMITS[h]
  <2>2. all \in Seq(Nat) /\ limit \in Nat /\ limit * restarts \in Nat
    BY <1>1
  <2>3. WithinBudget(spends[h], limit)
    BY DEF QuotaInv, GroupInv
  <2>4. Ordered(all) /\ WithinBudget(earlier[h], limit * restarts)
    BY <1>2
  <2>5. WithinBudget(all, limit * restarts + limit)
    BY <1>1, <2>2, <2>3, <2>4, JoinedBudgets
  <2>6. limit * restarts + limit = limit * restarts'
    BY <1>1, <2>1, <2>2, OneMoreBudget
  <2>7. all \o << >> = all
    BY <2>2
  <2>8. (earlier[h] \o spends[h])' = all /\ earlier'[h] = all
    BY <2>1, <2>7
  <2> HIDE DEF all, limit
  <2>9. Ordered(earlier[h] \o spends[h])'
    BY <2>1, <2>4, <2>8 DEF Ordered
  <2>10. WithinBudget(earlier'[h], limit * restarts')
    BY <2>5, <2>6, <2>8
  <2>11. QED BY <2>9, <2>10 DEF limit, WithinBudget
<1>6. CASE UNCHANGED vars
  BY <1>a, <1>6 DEF vars
<1>7. QED BY <1>3, <1>4, <1>5, <1>6 DEF Next

(* Across restarts, each of which forgets what was spent, any window holds *)
(* at most one budget per process, for any number of them.                 *)
THEOREM RestartsCostABudget == Spec => []BudgetPerProcess
<1>1. Init => ProcessesInv
  <2> SUFFICES ASSUME Init PROVE ProcessesInv
    OBVIOUS
  <2>1. \A g \in Metered : earlier[g] = << >> /\ earlier[g] \o spends[g] = << >>
    BY DEF Init
  <2>2. Ordered(<< >>) /\ \A n : WithinBudget(<< >>, n)
    BY DEF Ordered, WithinBudget
  <2>3. QED BY <2>1, <2>2, Zenon DEF ProcessesInv
<1>2. TypeOK /\ QuotaInv /\ ProcessesInv /\ [Next]_vars => ProcessesInv'
  BY ProcessesStep
<1>3. TypeOK /\ QuotaInv /\ ProcessesInv => BudgetPerProcess
  <2> SUFFICES ASSUME TypeOK, QuotaInv, ProcessesInv, NEW g \in Metered
               PROVE  WithinBudget(earlier[g] \o spends[g], QUOTA_GROUP_LIMITS[g] * (restarts + 1))
    BY DEF BudgetPerProcess
  <2> DEFINE limit == QUOTA_GROUP_LIMITS[g]
  <2>1. /\ earlier[g] \in Seq(Nat) /\ spends[g] \in Seq(Nat) /\ limit \in Nat
        /\ restarts \in Nat /\ limit * restarts \in Nat
    BY QuotaAssumption DEF TypeOK
  <2>2. /\ Ordered(earlier[g] \o spends[g])
        /\ WithinBudget(earlier[g], limit * restarts) /\ WithinBudget(spends[g], limit)
    BY DEF ProcessesInv, QuotaInv, GroupInv
  <2>3. WithinBudget(earlier[g] \o spends[g], limit * restarts + limit)
    BY <2>1, <2>2, JoinedBudgets
  <2>4. limit * restarts + limit = limit * (restarts + 1)
    BY <2>1, OneMoreBudget
  <2>5. QED BY <2>3, <2>4
<1>4. QED BY <1>1, <1>2, <1>3, TypeCorrect, QuotaInvariant, PTL DEF Spec
=============================================================================
