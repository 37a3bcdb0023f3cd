---------------------- MODULE RealtimeFeedCache_proofs -----------------------
(***************************************************************************)
(* Proofs about RealtimeFeedCache, for every set of keys and callers:      *)
(* the cache uses the shared quota as its own module specifies it, so the  *)
(* quota's theorems hold inside the cache; the lock of a key has one       *)
(* holder; get() never replaces a feed by an older one; and what its steps *)
(* promise in terms of the clock and of the requests of a key.             *)
(***************************************************************************)
EXTENDS RealtimeFeedCache, FiniteSetTheorems, SequenceTheorems, TLAPS

QuotaTheory == INSTANCE SharedFeedQuota_proofs

(* `rest` is the queue q without its i-th entry, the others in order.      *)
Without(rest, q, i) ==
  /\ rest \in Seq(Task)
  /\ Len(rest) = Len(q) - 1
  /\ \A j \in 1..(Len(q) - 1) : rest[j] = IF j < i THEN q[j] ELSE q[j + 1]

(* A cancelled task leaves its place in the queue of the lock.             *)
LEMMA RemovedEntry ==
  ASSUME NEW q \in Seq(Task), NEW i \in 1..Len(q)
  PROVE  Without(RemoveAt(q, i), q, i)
<1> DEFINE front == SubSeq(q, 1, i - 1)
           back == SubSeq(q, i + 1, Len(q))
<1>1. front \in Seq(Task) /\ Len(front) = i - 1 /\ \A j \in 1..(i - 1) : front[j] = q[j]
  OBVIOUS
<1>2. /\ back \in Seq(Task) /\ Len(back) = Len(q) - i
      /\ \A j \in 1..(Len(q) - i) : back[j] = q[i + j]
  OBVIOUS
<1>3. /\ front \o back \in Seq(Task)
      /\ Len(front \o back) = Len(front) + Len(back)
      /\ \A j \in 1..(Len(front) + Len(back)) :
           (front \o back)[j] = IF j <= Len(front) THEN front[j] ELSE back[j - Len(front)]
  BY <1>1, <1>2, ConcatProperties
<1> HIDE DEF front, back
<1>4. \A j \in 1..(Len(q) - 1) : (front \o back)[j] = IF j < i THEN q[j] ELSE q[j + 1]
  BY <1>1, <1>2, <1>3
<1>5. RemoveAt(q, i) = front \o back
  BY DEF RemoveAt, front, back
<1>6. QED BY <1>1, <1>2, <1>3, <1>4, <1>5 DEF Without

(* The head of the queue leaves it when the lock is released.              *)
LEMMA ReleasedEntry ==
  ASSUME NEW q \in Seq(Task), q # << >>
  PROVE  /\ Without(Tail(q), q, 1)
         /\ 1 \in 1..Len(q)
         /\ Head(q) = q[1]
BY DEF Without

-----------------------------------------------------------------------------

(* The record of a task whose fetch is under way.                          *)
Suspended == [at : {"fetching"}, key : Key, since : Version,
              reply : Version \cup {Pending, Failed}]

(* What the record of a call holds where the call is.                      *)
LEMMA CallFields ==
  ASSUME LockTypes, NEW t \in Task
  PROVE  /\ call[t].at \in {"waiting", "fetching"} <=> call[t] # Idle
         /\ call[t] # Idle => call[t].key \in Key /\ call[t].since \in Version
         /\ call[t].at = "fetching" => /\ call[t] \in Suspended
                                       /\ call[t].reply \in Version \cup {Pending, Failed}
<1>1. call[t] \in CallType
  BY DEF LockTypes
<1>2. CASE call[t] = Idle
  BY <1>2 DEF Idle
<1>3. CASE call[t] \in [at : {"waiting"}, key : Key, since : Version]
  BY <1>3 DEF Idle
<1>4. CASE call[t] \in Suspended
  BY <1>4 DEF Idle, Suspended
<1>5. QED BY <1>1, <1>2, <1>3, <1>4 DEF CallType, Suspended

(* What a call does to its own record and to the queue keeps their types.  *)
LEMMA StartFetchTypes ==
  ASSUME LockTypes, NEW t \in Task, NEW s \in Key, NEW since \in Version,
         StartFetch(t, s, since) \/ ServeStale(t, s)
  PROVE  call' \in [Task -> CallType]
<1>1. Idle \in CallType
  BY DEF CallType
<1>2. [at |-> "fetching", key |-> s, since |-> since, reply |-> Pending] \in CallType
  BY DEF CallType
<1>3. QED BY <1>1, <1>2, Zenon DEF LockTypes, StartFetch, ServeStale, Fetching

(* The types that the lock, the feeds and the calls have by themselves.    *)
LEMMA LockTypesStep ==
  ASSUME LockTypes, LockDiscipline, [Next]_vars
  PROVE  LockTypes'
<1> USE CacheAssumption DEF LockTypes
<1>a. \A s \in Key, t \in Task : Append(queue[s], t) \in Seq(Task) /\ <<t>> \in Seq(Task)
  OBVIOUS
<1>b. Idle \in CallType
  BY DEF CallType
<1>c. \A t \in Task : Owner(t, call[t].key) => queue[call[t].key] # << >>
  BY DEF Owner
<1>d. \A s \in Key : queue[s] # << >> => Tail(queue[s]) \in Seq(Task)
  BY ReleasedEntry DEF Without
<1>1. ASSUME NEW t \in Task, NEW s \in Key, CallFree(t, s)
      PROVE  LockTypes'
  <2>1. published[s] \in Version
    OBVIOUS
  <2>2. call' \in [Task -> CallType]
    BY <1>1, <2>1, StartFetchTypes DEF CallFree
  <2>3. /\ queue' = [queue EXCEPT ![s] = <<t>>] \/ queue' = queue
        /\ UNCHANGED <<published, cacheVars, combined, mishaps>>
    BY <1>1, Zenon DEF CallFree
  <2>4. queue' \in [Key -> Seq(Task)]
    BY <1>1, <1>a, <2>3, Zenon
  <2>5. QED BY <2>2, <2>3, <2>4 DEF cacheVars
<1>2. ASSUME NEW t \in Task, NEW s \in Key, CallQueued(t, s)
      PROVE  LockTypes'
  <2>1. [at |-> "waiting", key |-> s, since |-> published[s]] \in CallType
    BY DEF CallType
  <2>2. QED BY <1>2, <1>a, <2>1 DEF CallQueued, cacheVars
<1>3. ASSUME NEW t \in Task, Wake(t)
      PROVE  LockTypes'
  <2>1. call[t].key \in Key /\ call[t].since \in Version /\ queue[call[t].key] # << >>
    BY <1>3, <1>c, CallFields DEF Wake
  <2> DEFINE s == call[t].key
             since == call[t].since
  <2>2. /\ \/ call' = [call EXCEPT ![t] = Idle]
           \/ StartFetch(t, s, since) \/ ServeStale(t, s)
        /\ queue' = queue \/ Release(s)
        /\ UNCHANGED <<published, cacheVars, combined, mishaps>>
    BY <1>3, Zenon DEF Wake
  <2> HIDE DEF s, since
  <2>3. s \in Key /\ since \in Version /\ queue[s] # << >>
    BY <2>1 DEF s, since
  <2>4. call' \in [Task -> CallType]
    <3>1. CASE call' = [call EXCEPT ![t] = Idle]
      BY <3>1, <1>b
    <3>2. CASE StartFetch(t, s, since) \/ ServeStale(t, s)
      BY <3>2, <2>3, StartFetchTypes, Zenon
    <3>3. QED BY <2>2, <3>1, <3>2, Zenon
  <2>5. queue' \in [Key -> Seq(Task)]
    <3>1. Tail(queue[s]) \in Seq(Task)
      BY <2>3, <1>d
    <3>2. QED BY <2>2, <2>3, <3>1 DEF Release
  <2>6. QED BY <2>2, <2>4, <2>5 DEF cacheVars
<1>4. ASSUME NEW t \in Task, Respond(t)
      PROVE  LockTypes'
  <2>1. call[t] \in Suspended /\ call[t].key \in Key
    BY <1>4, CallFields DEF Respond, Idle
  <2>2. \A r \in Version \cup {Failed} : [call[t] EXCEPT !.reply = r] \in Suspended
    BY <2>1 DEF Suspended
  <2>3. call' \in [Task -> CallType]
    <3>1. \E r \in Version \cup {Failed} : call' = [call EXCEPT ![t].reply = r]
      BY <1>4, <2>1 DEF Respond
    <3>2. Suspended \subseteq CallType
      BY DEF Suspended, CallType
    <3>3. QED BY <3>1, <3>2, <2>2
  <2>4. mishaps' \in 0..MaxMishaps
    BY <1>4 DEF Respond
  <2>5. QED BY <1>4, <2>3, <2>4 DEF Respond, cacheVars
<1>5. ASSUME NEW t \in Task, FetchOk(t) \/ FetchFailed(t)
      PROVE  LockTypes'
  <2>1. /\ call[t].key \in Key
        /\ call[t].reply \in Version \cup {Pending, Failed}
    BY <1>5, CallFields DEF FetchOk, FetchFailed, Idle
  <2>2. queue[call[t].key] # << >>
    BY <1>5, <2>1 DEF FetchOk, FetchFailed, LockDiscipline, Fetches, Owner
  <2>a. queue' = [queue EXCEPT ![call[t].key] = Tail(@)] /\ call' = [call EXCEPT ![t] = Idle]
    BY <1>5 DEF FetchOk, FetchFailed, Release
  <2>3. queue' \in [Key -> Seq(Task)] /\ call' \in [Task -> CallType]
    BY <1>b, <1>d, <2>1, <2>2, <2>a
  <2>4. feed' \in [Key -> Version \cup {NoFeed}]
    BY <1>5, <2>1 DEF FetchOk, FetchFailed, cacheVars
  <2>5. QED BY <1>5, <2>3, <2>4 DEF FetchOk, FetchFailed, cacheVars
<1>6. ASSUME NEW t \in Task, Cancel(t)
      PROVE  LockTypes'
  <2>1. call[t].key \in Key
    BY <1>6, CallFields DEF Cancel
  <2>2. \A i \in 1..Len(queue[call[t].key]) : RemoveAt(queue[call[t].key], i) \in Seq(Task)
    BY <2>1, RemovedEntry DEF Without
  <2>3. queue' \in [Key -> Seq(Task)]
    BY <1>6, <2>1, <2>2 DEF Cancel
  <2>4. call' \in [Task -> CallType] /\ mishaps' \in 0..MaxMishaps
    BY <1>6, <1>b DEF Cancel
  <2>5. QED BY <1>6, <2>3, <2>4 DEF Cancel, cacheVars
<1>7. CASE CombinedReply
  BY <1>7 DEF CombinedReply, cacheVars
<1>8. CASE SetFeeds
  <2>1. combined \in [Regional -> Version]
    BY <1>8 DEF SetFeeds, SetMentioned
  <2>2. feed' \in [Key -> Version \cup {NoFeed}]
    BY <1>8, <2>1 DEF SetFeeds, SetMentioned
  <2>3. QED BY <1>8, <2>2 DEF SetFeeds, SetMentioned
<1>9. ASSUME NEW s \in Key, Publish(s)
      PROVE  LockTypes'
  BY <1>9 DEF Publish, cacheVars, Version
<1>10. CASE Tick
  BY <1>10 DEF Tick, cacheVars
<1>11. CASE UNCHANGED vars
  BY <1>11 DEF vars
<1>12. QED
  BY <1>1, <1>2, <1>3, <1>4, <1>5, <1>6, <1>7, <1>8, <1>9, <1>10, <1>11 DEF Next

-----------------------------------------------------------------------------

(* A task that calls get() joins the queue of the key, and fetches at once *)
(* only if the queue was empty.                                            *)
LEMMA JoiningKeepsLock ==
  ASSUME LockTypes, LockDiscipline, NEW t \in Task, NEW s \in Key, NEW c,
         call[t] = Idle,
         c.at \in {"waiting", "fetching"}, c.key = s,
         c.at = "fetching" => queue[s] = << >>,
         call' = [call EXCEPT ![t] = c],
         queue' = [queue EXCEPT ![s] = Append(@, t)]
  PROVE  LockDiscipline'
<1> SUFFICES ASSUME NEW k \in Key
             PROVE  /\ \A u \in Task : (WaitsFor(u, k)' \/ Fetches(u, k)')
                                         <=> \E i \in 1..Len(queue'[k]) : queue'[k][i] = u
                    /\ \A i, j \in 1..Len(queue'[k]) : queue'[k][i] = queue'[k][j] => i = j
                    /\ \A u \in Task : Fetches(u, k)' => Owner(u, k)'
  BY DEF LockDiscipline
<1>1. \A u \in Task : call'[u] = IF u = t THEN c ELSE call[u]
  BY DEF LockTypes
<1>2. \A u \in Task : u # t => /\ WaitsFor(u, k)' <=> WaitsFor(u, k)
                               /\ Fetches(u, k)' <=> Fetches(u, k)
  BY <1>1 DEF WaitsFor, Fetches
<1>3. ~ WaitsFor(t, k) /\ ~ Fetches(t, k)
  BY DEF WaitsFor, Fetches, Idle
<1>4. /\ (WaitsFor(t, k)' \/ Fetches(t, k)') <=> k = s
      /\ Fetches(t, k)' => queue[s] = << >>
  BY <1>1 DEF WaitsFor, Fetches
<1>5. /\ \A u \in Task : (WaitsFor(u, k) \/ Fetches(u, k))
                             <=> \E i \in 1..Len(queue[k]) : queue[k][i] = u
      /\ \A i, j \in 1..Len(queue[k]) : queue[k][i] = queue[k][j] => i = j
      /\ \A u \in Task : Fetches(u, k) => Owner(u, k)
  BY DEF LockDiscipline
<1>6. queue[k] \in Seq(Task)
  BY DEF LockTypes
<1>7. CASE k # s
  <2>1. queue'[k] = queue[k]
    BY <1>7 DEF LockTypes
  <2>2. QED BY <1>2, <1>3, <1>4, <1>5, <1>7, <2>1 DEF Owner
<1>8. CASE k = s
  <2> DEFINE q == queue[k]
  <2>1. queue'[k] = Append(q, t)
    BY <1>8 DEF LockTypes
  <2>2. /\ Len(Append(q, t)) = Len(q) + 1 /\ Len(q) \in Nat
        /\ \A i \in 1..Len(q) : Append(q, t)[i] = q[i]
        /\ Append(q, t)[Len(q) + 1] = t
    BY <1>6
  <2>3. \A i \in 1..Len(q) : q[i] # t
    BY <1>3, <1>5
  <2>4. \A u \in Task : (\E i \in 1..Len(queue'[k]) : queue'[k][i] = u)
                            <=> (u = t \/ \E i \in 1..Len(q) : q[i] = u)
    BY <2>1, <2>2
  <2>5. \A u \in Task : (WaitsFor(u, k)' \/ Fetches(u, k)')
                            <=> \E i \in 1..Len(queue'[k]) : queue'[k][i] = u
    BY <1>2, <1>4, <1>5, <1>8, <2>4
  <2>6. \A i, j \in 1..Len(queue'[k]) : queue'[k][i] = queue'[k][j] => i = j
    BY <1>5, <2>1, <2>2, <2>3
  <2>7. \A u \in Task : Fetches(u, k)' => Owner(u, k)'
    <3> SUFFICES ASSUME NEW u \in Task, Fetches(u, k)' PROVE Owner(u, k)'
      OBVIOUS
    <3>1. CASE u = t
      <4>1. q = << >>
        BY <3>1, <1>4, <1>8
      <4>2. queue'[k] = <<t>>
        BY <4>1, <2>1
      <4>3. (Owner(u, k))' <=> queue'[k] # << >> /\ Head(queue'[k]) = u
        BY DEF Owner
      <4>4. <<t>> # << >> /\ Head(<<t>>) = t
        OBVIOUS
      <4>5. QED BY <3>1, <4>2, <4>3, <4>4
    <3>2. CASE u # t
      <4>1. q # << >> /\ Head(q) = u
        BY <3>2, <1>2, <1>5 DEF Owner
      <4>2. Head(Append(q, t)) = u /\ Append(q, t) # << >>
        BY <4>1, <1>6
      <4>3. (Owner(u, k))' <=> queue'[k] # << >> /\ Head(queue'[k]) = u
        BY DEF Owner
      <4>4. QED BY <4>2, <4>3, <2>1
    <3>3. QED BY <3>1, <3>2
  <2>8. QED BY <2>5, <2>6, <2>7
<1>9. QED BY <1>7, <1>8

(* A task that returns, fails or is cancelled leaves its place in the      *)
(* queue; whoever was first still is, unless it is the one that left.      *)
LEMMA LeavingKeepsLock ==
  ASSUME LockTypes, LockDiscipline, NEW t \in Task, NEW s \in Key,
         call[t] # Idle, call[t].key = s,
         NEW i \in 1..Len(queue[s]), queue[s][i] = t,
         NEW rest, Without(rest, queue[s], i),
         call' = [call EXCEPT ![t] = Idle],
         queue' = [queue EXCEPT ![s] = rest]
  PROVE  LockDiscipline'
<1> SUFFICES ASSUME NEW k \in Key
             PROVE  /\ \A u \in Task : (WaitsFor(u, k)' \/ Fetches(u, k)')
                                         <=> \E n \in 1..Len(queue'[k]) : queue'[k][n] = u
                    /\ \A m, n \in 1..Len(queue'[k]) : queue'[k][m] = queue'[k][n] => m = n
                    /\ \A u \in Task : Fetches(u, k)' => Owner(u, k)'
  BY DEF LockDiscipline
<1>1. \A u \in Task : call'[u] = IF u = t THEN Idle ELSE call[u]
  BY DEF LockTypes
<1>2. \A u \in Task : u # t => /\ WaitsFor(u, k)' <=> WaitsFor(u, k)
                               /\ Fetches(u, k)' <=> Fetches(u, k)
  BY <1>1 DEF WaitsFor, Fetches
<1>3. ~ WaitsFor(t, k)' /\ ~ Fetches(t, k)'
  BY <1>1 DEF WaitsFor, Fetches, Idle
<1>4. k # s => ~ WaitsFor(t, k) /\ ~ Fetches(t, k)
  BY DEF WaitsFor, Fetches
<1>5. /\ \A u \in Task : (WaitsFor(u, k) \/ Fetches(u, k))
                             <=> \E n \in 1..Len(queue[k]) : queue[k][n] = u
      /\ \A m, n \in 1..Len(queue[k]) : queue[k][m] = queue[k][n] => m = n
      /\ \A u \in Task : Fetches(u, k) => Owner(u, k)
  BY DEF LockDiscipline
<1>6. queue[k] \in Seq(Task)
  BY DEF LockTypes
<1>7. CASE k # s
  <2>1. queue'[k] = queue[k]
    BY <1>7 DEF LockTypes
  <2>2. QED BY <1>2, <1>3, <1>4, <1>5, <1>7, <2>1 DEF Owner
<1>8. CASE k = s
  <2> DEFINE q == queue[k]
             len == Len(q)
  <2>1. queue'[k] = rest
    BY <1>8 DEF LockTypes
  <2>2. /\ len \in Nat /\ i \in 1..len /\ q[i] = t /\ Len(rest) = len - 1
        /\ rest \in Seq(Task)
        /\ \A j \in 1..(len - 1) : rest[j] = IF j < i THEN q[j] ELSE q[j + 1]
    BY <1>6, <1>8 DEF Without
  <2>3. /\ \A u \in Task : (WaitsFor(u, k) \/ Fetches(u, k)) <=> \E n \in 1..len : q[n] = u
        /\ \A m, n \in 1..len : q[m] = q[n] => m = n
    BY <1>5
  <2>a. q # << >> => Head(q) = q[1]
    OBVIOUS
  <2>b. rest # << >> => Head(rest) = rest[1]
    BY <2>2
  <2>c. q # << >> <=> len > 0
    BY <1>6
  <2>d. rest # << >> <=> Len(rest) > 0
    BY <2>2
  <2> HIDE DEF q, len
  <2>4. \A n \in 1..len : n # i => \E j \in 1..(len - 1) : rest[j] = q[n]
    <3> SUFFICES ASSUME NEW n \in 1..len, n # i PROVE \E j \in 1..(len - 1) : rest[j] = q[n]
      OBVIOUS
    <3>1. CASE n < i
      BY <3>1, <2>2
    <3>2. CASE n > i
      <4>1. n - 1 \in 1..(len - 1) /\ ~ (n - 1 < i) /\ (n - 1) + 1 = n
        BY <3>2, <2>2
      <4>2. rest[n - 1] = q[n]
        BY <4>1, <2>2
      <4>3. QED BY <4>1, <4>2
    <3>3. QED BY <3>1, <3>2, <2>2
  <2>5. \A j \in 1..(len - 1) : \E n \in 1..len : n # i /\ rest[j] = q[n]
    <3> SUFFICES ASSUME NEW j \in 1..(len - 1)
                 PROVE  \E n \in 1..len : n # i /\ rest[j] = q[n]
      OBVIOUS
    <3>1. CASE j < i
      <4>1. j \in 1..len /\ j # i /\ rest[j] = q[j]
        BY <3>1, <2>2
      <4>2. QED BY <4>1
    <3>2. CASE j >= i
      <4>1. j + 1 \in 1..len /\ j + 1 # i /\ rest[j] = q[j + 1]
        BY <3>2, <2>2
      <4>2. QED BY <4>1
    <3>3. QED BY <3>1, <3>2, <2>2
  <2>6. \A u \in Task : (\E j \in 1..(len - 1) : rest[j] = u)
                            <=> (u # t /\ \E n \in 1..len : q[n] = u)
    <3> TAKE u \in Task
    <3>1. ASSUME NEW j \in 1..(len - 1), rest[j] = u
          PROVE  u # t /\ \E n \in 1..len : q[n] = u
      <4>1. PICK n \in 1..len : n # i /\ rest[j] = q[n]
        BY <2>5
      <4>2. q[n] # q[i]
        BY <4>1, <2>2, <2>3
      <4>3. QED BY <3>1, <4>1, <4>2, <2>2
    <3>2. ASSUME u # t, NEW n \in 1..len, q[n] = u
          PROVE  \E j \in 1..(len - 1) : rest[j] = u
      BY <3>2, <2>2, <2>4
    <3>3. QED BY <3>1, <3>2
  <2>7. \A u \in Task : (WaitsFor(u, k)' \/ Fetches(u, k)')
                            <=> \E n \in 1..Len(queue'[k]) : queue'[k][n] = u
    <3>1. Len(queue'[k]) = len - 1
      BY <2>1, <2>2
    <3>2. ASSUME NEW u \in Task
          PROVE  (WaitsFor(u, k)' \/ Fetches(u, k)') <=> \E n \in 1..(len - 1) : rest[n] = u
      <4>1. CASE u = t
        BY <4>1, <1>3, <2>6
      <4>2. CASE u # t
        BY <4>2, <1>2, <2>3, <2>6
      <4>3. QED BY <4>1, <4>2
    <3>3. QED BY <3>1, <3>2, <2>1
  <2>8. \A m, n \in 1..Len(queue'[k]) : queue'[k][m] = queue'[k][n] => m = n
    <3> DEFINE place(j) == IF j < i THEN j ELSE j + 1
    <3>1. \A j \in 1..(len - 1) : place(j) \in 1..len /\ rest[j] = q[place(j)]
      BY <2>2
    <3>2. \A m, n \in 1..(len - 1) : place(m) = place(n) => m = n
      BY <2>2
    <3> HIDE DEF place
    <3>3. \A m, n \in 1..(len - 1) : rest[m] = rest[n] => m = n
      BY <2>3, <3>1, <3>2
    <3>4. Len(queue'[k]) = len - 1
      BY <2>1, <2>2
    <3>5. QED BY <2>1, <3>3, <3>4
  <2>9. \A u \in Task : Fetches(u, k)' => Owner(u, k)'
    <3> SUFFICES ASSUME NEW u \in Task, Fetches(u, k)' PROVE Owner(u, k)'
      OBVIOUS
    <3>1. u # t /\ Fetches(u, k)
      BY <1>2, <1>3
    <3>2. q # << >> /\ q[1] = u
      BY <3>1, <1>5, <2>a DEF Owner, q
    <3>3. i > 1 /\ len - 1 >= 1
      BY <3>1, <3>2, <2>2
    <3>4. rest # << >> /\ rest[1] = u
      BY <3>2, <3>3, <2>2, <2>d
    <3>5. QED BY <3>4, <2>1, <2>b DEF Owner
  <2>10. QED BY <2>7, <2>8, <2>9
<1>9. QED BY <1>7, <1>8

(* A task that stays in the queue and moves on fetches only as its first.  *)
LEMMA StayingKeepsLock ==
  ASSUME LockTypes, LockDiscipline, NEW t \in Task,
         call[t].at \in {"waiting", "fetching"},
         call'[t].at \in {"waiting", "fetching"},
         call'[t].key = call[t].key,
         call'[t].at = "fetching" => Owner(t, call[t].key),
         \A u \in Task : u # t => call'[u] = call[u],
         UNCHANGED queue
  PROVE  LockDiscipline'
<1>1. \A u \in Task, k \in Key : u # t => /\ WaitsFor(u, k)' <=> WaitsFor(u, k)
                                          /\ Fetches(u, k)' <=> Fetches(u, k)
  BY DEF WaitsFor, Fetches
<1>2. \A u \in Task, k \in Key :
        (WaitsFor(u, k)' \/ Fetches(u, k)') <=> (WaitsFor(u, k) \/ Fetches(u, k))
  BY <1>1 DEF WaitsFor, Fetches
<1>3. \A u \in Task, k \in Key : Fetches(u, k)' => Owner(u, k)'
  <2> SUFFICES ASSUME NEW u \in Task, NEW k \in Key, Fetches(u, k)' PROVE Owner(u, k)
    BY DEF Owner
  <2>1. CASE u = t
    BY <2>1 DEF Fetches
  <2>2. CASE u # t
    BY <2>2, <1>1 DEF LockDiscipline
  <2>3. QED BY <2>1, <2>2
<1>4. QED BY <1>2, <1>3 DEF LockDiscipline

(* Every step keeps the queues and the calls in agreement.                 *)
LEMMA LockStep ==
  ASSUME LockTypes, LockDiscipline, [Next]_vars
  PROVE  LockDiscipline'
<1>a. \A t \in Task, s \in Key : Fetches(t, s) => Owner(t, s)
  BY DEF LockDiscipline
<1>1. ASSUME NEW t \in Task, NEW s \in Key, CallFree(t, s)
      PROVE  LockDiscipline'
  <2>1. CASE StartFetch(t, s, published[s]) /\ queue' = [queue EXCEPT ![s] = <<t>>]
    <3> DEFINE c == [at |-> "fetching", key |-> s, since |-> published[s], reply |-> Pending]
    <3>1. call' = [call EXCEPT ![t] = c] /\ call[t] = Idle /\ queue[s] = << >>
      BY <1>1, <2>1 DEF CallFree, StartFetch, Fetching
    <3>2. queue' = [queue EXCEPT ![s] = Append(@, t)]
      BY <2>1, <3>1
    <3>3. c.at = "fetching" /\ c.key = s
      OBVIOUS
    <3> HIDE DEF c
    <3>4. QED BY <3>1, <3>2, <3>3, JoiningKeepsLock
  <2>2. CASE ServeStale(t, s) /\ UNCHANGED queue
    <3>1. call' = [call EXCEPT ![t] = Idle] /\ call[t] = Idle
      BY <1>1, <2>2 DEF CallFree, ServeStale
    <3>2. call' = call
      BY <3>1 DEF LockTypes
    <3>3. QED BY <2>2, <3>2 DEF LockDiscipline, WaitsFor, Fetches, Owner
  <2>3. QED BY <1>1, <2>1, <2>2 DEF CallFree
<1>2. ASSUME NEW t \in Task, NEW s \in Key, CallQueued(t, s)
      PROVE  LockDiscipline'
  <2> DEFINE c == [at |-> "waiting", key |-> s, since |-> published[s]]
  <2>1. /\ call' = [call EXCEPT ![t] = c] /\ call[t] = Idle
        /\ queue' = [queue EXCEPT ![s] = Append(@, t)]
    BY <1>2 DEF CallQueued
  <2>2. c.at = "waiting" /\ c.key = s
    OBVIOUS
  <2> HIDE DEF c
  <2>3. QED BY <2>1, <2>2, JoiningKeepsLock
<1>b. ASSUME NEW t \in Task, NEW s \in Key, call[t] # Idle, call[t].key = s, Owner(t, s),
             call' = [call EXCEPT ![t] = Idle], Release(s)
      PROVE  LockDiscipline'
  <2>1. queue[s] \in Seq(Task) /\ queue[s] # << >> /\ queue[s][1] = t
    BY <1>b DEF LockTypes, Owner
  <2> DEFINE rest == Tail(queue[s])
  <2>2. Without(rest, queue[s], 1) /\ 1 \in 1..Len(queue[s])
    BY <2>1, ReleasedEntry
  <2>3. queue' = [queue EXCEPT ![s] = rest]
    BY <1>b DEF Release
  <2> HIDE DEF rest
  <2>4. QED BY <1>b, <2>1, <2>2, <2>3, LeavingKeepsLock
<1>3. ASSUME NEW t \in Task, Wake(t)
      PROVE  LockDiscipline'
  <2> DEFINE s == call[t].key
  <2>1. call[t].at = "waiting" /\ call[t] # Idle /\ s \in Key /\ Owner(t, s)
    BY <1>3, CallFields DEF Wake, Idle
  <2>2. CASE StartFetch(t, s, call[t].since) /\ UNCHANGED queue
    <3>1. call'[t] = [at |-> "fetching", key |-> s, since |-> call[t].since, reply |-> Pending]
      BY <2>2 DEF StartFetch, Fetching, LockTypes
    <3>2. \A u \in Task : u # t => call'[u] = call[u]
      BY <2>2 DEF StartFetch, Fetching, LockTypes
    <3>3. QED BY <2>1, <2>2, <3>1, <3>2, StayingKeepsLock
  <2>3. CASE call' = [call EXCEPT ![t] = Idle] /\ Release(s)
    BY <2>1, <2>3, <1>b
  <2>4. QED BY <1>3, <2>2, <2>3 DEF Wake, ServeStale
<1>4. ASSUME NEW t \in Task, Respond(t)
      PROVE  LockDiscipline'
  <2>1. call[t] \in Suspended /\ call[t].key \in Key /\ call[t].at = "fetching"
    BY <1>4, CallFields DEF Respond, Idle
  <2>2. call'[t].at = "fetching" /\ call'[t].key = call[t].key
    BY <1>4, <2>1 DEF Respond, Suspended, LockTypes
  <2>3. \A u \in Task : u # t => call'[u] = call[u]
    BY <1>4 DEF Respond, LockTypes
  <2>4. Owner(t, call[t].key) /\ UNCHANGED queue
    BY <1>4, <1>a, <2>1 DEF Fetches, Respond
  <2>5. QED BY <2>1, <2>2, <2>3, <2>4, StayingKeepsLock
<1>5. ASSUME NEW t \in Task, FetchOk(t) \/ FetchFailed(t)
      PROVE  LockDiscipline'
  <2>1. call[t].at = "fetching" /\ call[t] # Idle /\ call[t].key \in Key
    BY <1>5, CallFields DEF FetchOk, FetchFailed, Idle
  <2>2. Owner(t, call[t].key)
    BY <2>1, <1>a DEF Fetches
  <2>3. call' = [call EXCEPT ![t] = Idle] /\ Release(call[t].key)
    BY <1>5 DEF FetchOk, FetchFailed
  <2>4. QED BY <2>1, <2>2, <2>3, <1>b
<1>6. ASSUME NEW t \in Task, Cancel(t)
      PROVE  LockDiscipline'
  <2> DEFINE s == call[t].key
  <2>1. call[t] # Idle /\ s \in Key /\ call' = [call EXCEPT ![t] = Idle]
    BY <1>6, CallFields DEF Cancel
  <2>2. PICK i \in 1..Len(queue[s]) :
          queue[s][i] = t /\ queue' = [queue EXCEPT ![s] = RemoveAt(@, i)]
    BY <1>6 DEF Cancel
  <2>3. queue[s] \in Seq(Task)
    BY <2>1 DEF LockTypes
  <2> DEFINE rest == RemoveAt(queue[s], i)
  <2>4. Without(rest, queue[s], i)
    BY <2>3, RemovedEntry
  <2>5. queue' = [queue EXCEPT ![s] = rest]
    BY <2>2
  <2> HIDE DEF rest
  <2>6. QED BY <2>1, <2>2, <2>4, <2>5, LeavingKeepsLock
<1>7. CASE UNCHANGED <<queue, call>>
  BY <1>7 DEF LockDiscipline, WaitsFor, Fetches, Owner
<1>8. CASE CombinedReply \/ SetFeeds \/ (\E s \in Key : Publish(s)) \/ Tick \/ UNCHANGED vars
  BY <1>7, <1>8 DEF CombinedReply, SetFeeds, SetMentioned, Publish, Tick, vars
<1>9. QED BY <1>1, <1>2, <1>3, <1>4, <1>5, <1>6, <1>8 DEF Next

(* The lock of a key: whoever is suspended in get() is in its queue, once, *)
(* and only the first of the queue fetches, whatever fails or is cancelled.*)
THEOREM LockHeld == Spec => [](LockTypes /\ LockDiscipline)
<1>1. Init => LockTypes /\ LockDiscipline
  <2> SUFFICES ASSUME Init PROVE LockTypes /\ LockDiscipline
    OBVIOUS
  <2>1. LockTypes
    BY CacheAssumption DEF Init, LockTypes, CallType, Version
  <2>2. LockDiscipline
    BY DEF Init, LockDiscipline, WaitsFor, Fetches, Idle
  <2>3. QED BY <2>1, <2>2
<1>2. LockTypes /\ LockDiscipline /\ [Next]_vars => (LockTypes /\ LockDiscipline)'
  BY LockTypesStep, LockStep
<1>3. QED BY <1>1, <1>2, PTL DEF Spec

-----------------------------------------------------------------------------

(* Asking for a request, granted or not, is a step of the quota.           *)
LEMMA MayFetchIsQuotaStep ==
  ASSUME NEW s \in Key, NEW answer \in BOOLEAN, MayFetch(s, answer)
  PROVE  [Quota!Next]_(Quota!vars)
<1>1. CASE GroupOf[s] = NoGroup
  BY <1>1 DEF MayFetch, quotaVars, Quota!vars
<1>2. CASE GroupOf[s] # NoGroup
  <2>1. GroupOf[s] \in Group
    BY <1>2, CacheAssumption
  <2>2. QED BY <1>2, <2>1 DEF MayFetch, Quota!Next
<1>3. QED BY <1>1, <1>2

(* So every step of the cache is one step of the quota, or none.           *)
LEMMA StepIsQuotaStep ==
  ASSUME LockTypes, [Next]_vars
  PROVE  [Quota!Next]_(Quota!vars)
<1>1. ASSUME NEW t \in Task, NEW s \in Key, NEW since,
             StartFetch(t, s, since) \/ ServeStale(t, s)
      PROVE  [Quota!Next]_(Quota!vars)
  BY <1>1, MayFetchIsQuotaStep DEF StartFetch, ServeStale
<1>2. ASSUME UNCHANGED <<now, quotaVars>>
      PROVE  [Quota!Next]_(Quota!vars)
  BY <1>2 DEF quotaVars, Quota!vars
<1>3. ASSUME NEW t \in Task, NEW s \in Key, CallFree(t, s) \/ CallQueued(t, s)
      PROVE  [Quota!Next]_(Quota!vars)
  BY <1>1, <1>2, <1>3 DEF CallFree, CallQueued
<1>4. ASSUME NEW t \in Task, Wake(t)
      PROVE  [Quota!Next]_(Quota!vars)
  <2>1. call[t].key \in Key
    BY <1>4, CallFields DEF Wake, Idle
  <2>2. QED BY <1>1, <1>2, <1>4, <2>1 DEF Wake
<1>5. ASSUME NEW t \in Task, Respond(t) \/ FetchOk(t) \/ FetchFailed(t) \/ Cancel(t)
      PROVE  [Quota!Next]_(Quota!vars)
  BY <1>2, <1>5 DEF Respond, FetchOk, FetchFailed, Cancel
<1>6. CASE CombinedReply \/ SetFeeds \/ (\E s \in Key : Publish(s)) \/ UNCHANGED vars
  BY <1>2, <1>6 DEF CombinedReply, SetFeeds, SetMentioned, Publish, vars, quotaVars
<1>7. CASE Tick
  BY <1>7 DEF Tick, Quota!Next
<1>8. QED BY <1>3, <1>4, <1>5, <1>6, <1>7 DEF Next

(* The cache implements the quota's specification: get() charges it by     *)
(* calls of try_consume and in no other way, whatever a fetch then does.   *)
LEMMA QuotaUsed == Spec => Quota!Spec
<1>1. Init => Quota!Init
  BY DEF Init
<1>2. LockTypes /\ [Next]_vars => [Quota!Next]_(Quota!vars)
  BY StepIsQuotaStep
<1>3. QED BY <1>1, <1>2, LockHeld, PTL DEF Spec, Quota!Spec

(* The cache's quota is the quota that SharedFeedQuota_proofs is about.    *)
LEMMA SameQuota == Spec => QuotaTheory!Spec
<1>1. Quota!Init => QuotaTheory!Init
  BY DEF Quota!Init, QuotaTheory!Init, Quota!Metered, QuotaTheory!Metered
<1>2. [Quota!Next]_(Quota!vars) => [QuotaTheory!Next]_(QuotaTheory!vars)
  BY DEF Quota!Next, Quota!vars, Quota!TryConsume, Quota!Tick, Quota!Restart, Quota!Metered,
         Quota!Unmetered, Quota!Granted, Quota!Denied, Quota!Pops, Quota!Live, Quota!Expired,
         QuotaTheory!Next, QuotaTheory!vars, QuotaTheory!TryConsume, QuotaTheory!Tick,
         QuotaTheory!Restart, QuotaTheory!Metered, QuotaTheory!Unmetered,
         QuotaTheory!Granted, QuotaTheory!Denied, QuotaTheory!Pops, QuotaTheory!Live,
         QuotaTheory!Expired
<1>3. QED
  BY <1>1, <1>2, QuotaUsed, PTL DEF Quota!Spec, QuotaTheory!Spec

(* The cache's assumption contains the quota's.                            *)
LEMMA TheoryApplies == QuotaTheory!QuotaAssumption
BY CacheAssumption DEF QuotaTheory!QuotaAssumption, QuotaTheory!Metered

(* The window bound of the quota holds inside the cache: however callers   *)
(* race, fail and are cancelled, no rolling window holds more granted      *)
(* spends of a group than its limit.                                       *)
THEOREM BudgetHeldInCache == Spec => []Quota!WindowBound
<1>1. QuotaTheory!Spec => []QuotaTheory!WindowBound
  BY QuotaTheory!WindowBoundHolds, TheoryApplies, Zenon DEF QuotaTheory!WindowBoundHolds
<1>2. QuotaTheory!WindowBound => Quota!WindowBound
  BY DEF Quota!WindowBound, QuotaTheory!WindowBound, Quota!WithinBudget,
         QuotaTheory!WithinBudget, Quota!Metered, QuotaTheory!Metered
<1>3. QED BY <1>1, <1>2, SameQuota, PTL

-----------------------------------------------------------------------------

(* The types that depend on the clock and on the quota.                    *)
LEMMA QuotaTypes == Spec => []Quota!TypeOK
<1>1. QuotaTheory!Spec => []QuotaTheory!TypeOK
  BY QuotaTheory!TypeCorrect, TheoryApplies, Zenon DEF QuotaTheory!TypeCorrect
<1>2. QuotaTheory!TypeOK => Quota!TypeOK
  BY DEF Quota!TypeOK, QuotaTheory!TypeOK, Quota!Metered, QuotaTheory!Metered
<1>3. QED BY <1>1, <1>2, SameQuota, PTL

(* An entry of the history of requests.                                    *)
Request == [at : Nat, cold : BOOLEAN]

(* A request is recorded with the time and with whether it was cold.       *)
LEMMA RecordedRequest ==
  ASSUME now \in Nat, requests \in [Quota!Metered -> Seq(Request)],
         NEW s \in Key, RecordRequest(s)
  PROVE  requests' \in [Quota!Metered -> Seq(Request)]
<1>1. [at |-> now, cold |-> feed[s] = NoFeed] \in Request
  BY DEF Request
<1>2. ASSUME NEW g \in Quota!Metered
      PROVE  Append(requests[g], [at |-> now, cold |-> feed[s] = NoFeed]) \in Seq(Request)
  BY <1>1
<1>3. QED BY <1>2 DEF RecordRequest

(* The times of the cached feeds and the history of requests.              *)
HistoryTypes ==
  /\ fetchedAt \in [Key -> Nat]
  /\ requests \in [Quota!Metered -> Seq(Request)]

(* Every step keeps them, as long as the clock is a natural number.        *)
LEMMA HistoryTypesStep ==
  ASSUME LockTypes, Quota!TypeOK, HistoryTypes, [Next]_vars
  PROVE  HistoryTypes'
<1> USE DEF HistoryTypes
<1>a. now \in Nat
  BY DEF Quota!TypeOK
<1>b. Quota!Metered' = Quota!Metered
  BY DEF Quota!Metered
<1>1. ASSUME NEW t \in Task, NEW s \in Key, NEW since,
             StartFetch(t, s, since) \/ ServeStale(t, s), UNCHANGED fetchedAt
      PROVE  HistoryTypes'
  BY <1>1, <1>a, <1>b, RecordedRequest DEF StartFetch, ServeStale
<1>2. ASSUME UNCHANGED <<fetchedAt, requests>>
      PROVE  HistoryTypes'
  BY <1>2, <1>b
<1>3. ASSUME NEW t \in Task, NEW s \in Key, CallFree(t, s) \/ CallQueued(t, s)
      PROVE  HistoryTypes'
  BY <1>1, <1>2, <1>3 DEF CallFree, CallQueued, cacheVars
<1>4. ASSUME NEW t \in Task, Wake(t)
      PROVE  HistoryTypes'
  <2>1. call[t].key \in Key
    BY <1>4, CallFields DEF Wake, Idle
  <2>2. QED BY <1>1, <1>2, <1>4, <2>1 DEF Wake, cacheVars
<1>5. ASSUME NEW t \in Task, Respond(t) \/ FetchFailed(t) \/ Cancel(t)
      PROVE  HistoryTypes'
  BY <1>2, <1>5 DEF Respond, FetchFailed, Cancel, cacheVars
<1>6. ASSUME NEW t \in Task, FetchOk(t)
      PROVE  HistoryTypes'
  BY <1>6, <1>a, <1>b DEF FetchOk
<1>7. CASE SetFeeds
  BY <1>7, <1>a, <1>b DEF SetFeeds, SetMentioned
<1>8. CASE CombinedReply \/ (\E s \in Key : Publish(s)) \/ Tick \/ UNCHANGED vars
  BY <1>2, <1>8 DEF CombinedReply, Publish, Tick, vars, cacheVars
<1>9. QED BY <1>3, <1>4, <1>5, <1>6, <1>7, <1>8 DEF Next

(* Type correctness of the cache, its locks, its callers and its quota.    *)
THEOREM TypeCorrect == Spec => []TypeOK
<1>1. Init => HistoryTypes
  BY DEF Init, HistoryTypes
<1>2. LockTypes /\ Quota!TypeOK /\ HistoryTypes /\ [Next]_vars => HistoryTypes'
  BY HistoryTypesStep
<1>3. LockTypes /\ Quota!TypeOK /\ HistoryTypes => TypeOK
  BY DEF TypeOK, HistoryTypes, Request
<1>4. QED BY <1>1, <1>2, <1>3, LockHeld, QuotaTypes, PTL DEF Spec

-----------------------------------------------------------------------------

(* The lock of a key has one holder, so a second answer for the key cannot *)
(* be in flight when one is stored.                                        *)
LEMMA OneFetch ==
  ASSUME LockDiscipline, NEW t \in Task, NEW u \in Task, NEW s \in Key,
         Fetches(t, s), Fetches(u, s)
  PROVE  t = u
BY DEF LockDiscipline, Owner

(* An answer is at least as new as the cached feed until it is stored.     *)
LEMMA AnswersFreshStep ==
  ASSUME LockTypes, LockDiscipline, AnswersFresh, [Next]_vars
  PROVE  AnswersFresh' /\ \A s \in Key \ Regional : feed'[s] >= feed[s]
<1> DEFINE Answered(t, s) == Fetches(t, s) /\ call[t].reply \notin {Pending, Failed}
<1>a. /\ feed \in [Key -> Int] /\ published \in [Key -> Int]
      /\ \A t \in Task, s \in Key : Answered(t, s) => call[t].reply \in Int
  BY CallFields, CacheAssumption DEF LockTypes, Version, NoFeed, Fetches, Pending, Failed
<1>1. ASSUME UNCHANGED feed,
             \A s \in Key : published'[s] \in Int /\ published'[s] >= published[s],
             \A t \in Task, s \in Key : Answered(t, s)' =>
                Answered(t, s) /\ call'[t].reply = call[t].reply
      PROVE  AnswersFresh' /\ \A s \in Key \ Regional : feed'[s] >= feed[s]
  BY <1>1, <1>a DEF AnswersFresh
<1>2. ASSUME NEW t \in Task, UNCHANGED <<feed, published>>,
             \A u \in Task : u # t => call'[u] = call[u],
             \A s \in Key : ~ Answered(t, s)'
      PROVE  AnswersFresh' /\ \A s \in Key \ Regional : feed'[s] >= feed[s]
  BY <1>1, <1>2, <1>a DEF Fetches
<1>b. ASSUME NEW t \in Task, NEW c, UNCHANGED <<feed, published>>,
             call' = [call EXCEPT ![t] = c],
             c.at = "fetching" => c.reply = Pending
      PROVE  AnswersFresh' /\ \A s \in Key \ Regional : feed'[s] >= feed[s]
  <2>1. \A u \in Task : call'[u] = IF u = t THEN c ELSE call[u]
    BY <1>b DEF LockTypes
  <2>2. QED BY <1>2, <1>b, <2>1 DEF Fetches
<1>c. ASSUME NEW t \in Task, NEW s \in Key, NEW since, UNCHANGED <<feed, published>>,
             StartFetch(t, s, since)
      PROVE  AnswersFresh' /\ \A k \in Key \ Regional : feed'[k] >= feed[k]
  <2> DEFINE c == [at |-> "fetching", key |-> s, since |-> since, reply |-> Pending]
  <2>1. call' = [call EXCEPT ![t] = c] /\ c.reply = Pending
    BY <1>c DEF StartFetch, Fetching
  <2> HIDE DEF c
  <2>2. QED BY <1>b, <1>c, <2>1
<1>d. ASSUME NEW t \in Task, UNCHANGED <<feed, published>>,
             call' = [call EXCEPT ![t] = Idle]
      PROVE  AnswersFresh' /\ \A k \in Key \ Regional : feed'[k] >= feed[k]
  <2>1. Idle.at # "fetching"
    BY DEF Idle
  <2>2. QED BY <1>b, <1>d, <2>1
<1>3. ASSUME NEW t \in Task, NEW s \in Key, CallFree(t, s) \/ CallQueued(t, s)
      PROVE  AnswersFresh' /\ \A k \in Key \ Regional : feed'[k] >= feed[k]
  <2>1. UNCHANGED <<feed, published>>
    BY <1>3 DEF CallFree, CallQueued, cacheVars
  <2>2. CASE CallFree(t, s)
    BY <1>c, <1>d, <2>1, <2>2 DEF CallFree, ServeStale
  <2>3. CASE CallQueued(t, s)
    <3> DEFINE c == [at |-> "waiting", key |-> s, since |-> published[s]]
    <3>1. call' = [call EXCEPT ![t] = c] /\ c.at # "fetching"
      BY <2>3 DEF CallQueued
    <3> HIDE DEF c
    <3>2. QED BY <1>b, <2>1, <3>1
  <2>4. QED BY <1>3, <2>2, <2>3
<1>4. ASSUME NEW t \in Task, Wake(t)
      PROVE  AnswersFresh' /\ \A k \in Key \ Regional : feed'[k] >= feed[k]
  <2>1. UNCHANGED <<feed, published>> /\ call[t].key \in Key
    BY <1>4, CallFields DEF Wake, cacheVars, Idle
  <2>2. QED BY <1>4, <1>c, <1>d, <2>1 DEF Wake, ServeStale
<1>5. ASSUME NEW t \in Task, FetchFailed(t) \/ Cancel(t)
      PROVE  AnswersFresh' /\ \A k \in Key \ Regional : feed'[k] >= feed[k]
  BY <1>2, <1>5 DEF FetchFailed, Cancel, cacheVars, LockTypes, Fetches, Idle
<1>6. ASSUME NEW t \in Task, Respond(t)
      PROVE  AnswersFresh' /\ \A k \in Key \ Regional : feed'[k] >= feed[k]
  <2>1. call[t] \in Suspended /\ call[t].key \in Key /\ UNCHANGED <<feed, published>>
    BY <1>6, CallFields DEF Respond, Idle, cacheVars
  <2>2. \A u \in Task : u # t => call'[u] = call[u]
    BY <1>6 DEF Respond, LockTypes
  <2>3. CASE call' = [call EXCEPT ![t].reply = published[call[t].key]]
    <3>1. call'[t].key = call[t].key /\ call'[t].reply = published[call[t].key]
      BY <2>1, <2>3 DEF Suspended, LockTypes
    <3>2. QED BY <2>1, <2>2, <3>1, <1>a DEF AnswersFresh, Fetches
  <2>4. CASE call' = [call EXCEPT ![t].reply = Failed]
    <3>1. call'[t].reply = Failed
      BY <2>1, <2>4 DEF Suspended, LockTypes
    <3>2. QED BY <2>1, <2>2, <3>1, <1>2
  <2>5. QED BY <1>6, <2>3, <2>4 DEF Respond
<1>7. ASSUME NEW t \in Task, FetchOk(t)
      PROVE  AnswersFresh' /\ \A k \in Key \ Regional : feed'[k] >= feed[k]
  <2> DEFINE s == call[t].key
  <2>1. Answered(t, s) /\ s \in Key
    BY <1>7, CallFields DEF FetchOk, Fetches, Idle
  <2>2. /\ \A k \in Key : feed'[k] = IF k = s THEN call[t].reply ELSE feed[k]
        /\ \A u \in Task : call'[u] = IF u = t THEN Idle ELSE call[u]
        /\ UNCHANGED published
    BY <1>7 DEF FetchOk, LockTypes
  <2>3. \A u \in Task, k \in Key : Answered(u, k)' =>
          k # s /\ Answered(u, k) /\ call'[u].reply = call[u].reply
    BY <2>1, <2>2, OneFetch DEF Fetches, Idle
  <2>4. s \notin Regional => feed[s] <= call[t].reply /\ call[t].reply <= published[s]
    BY <2>1 DEF AnswersFresh
  <2> HIDE DEF s
  <2>5. QED BY <2>1, <2>2, <2>3, <2>4, <1>a DEF AnswersFresh
<1>8. CASE SetFeeds
  BY <1>8, <1>a DEF SetFeeds, SetMentioned, AnswersFresh, Fetches
<1>9. ASSUME NEW s \in Key, Publish(s)
      PROVE  AnswersFresh' /\ \A k \in Key \ Regional : feed'[k] >= feed[k]
  <2>1. \A k \in Key : published'[k] = IF k = s THEN published[s] + 1 ELSE published[k]
    BY <1>9 DEF Publish, LockTypes
  <2>2. UNCHANGED <<feed, call>>
    BY <1>9 DEF Publish, cacheVars
  <2>3. QED BY <1>1, <1>a, <2>1, <2>2 DEF Fetches
<1>10. CASE CombinedReply \/ Tick \/ UNCHANGED vars
  <2>1. UNCHANGED <<feed, published, call>>
    BY <1>10 DEF CombinedReply, Tick, vars, cacheVars
  <2>2. QED BY <1>1, <1>a, <2>1 DEF Fetches
<1>11. QED
  BY <1>3, <1>4, <1>5, <1>6, <1>7, <1>8, <1>9, <1>10 DEF Next

(* get() never replaces a cached feed by an older one, for any number of   *)
(* keys, callers, failures and cancellations.                              *)
THEOREM NeverOlderHolds == Spec => NeverOlder
<1>1. Init => AnswersFresh
  BY CacheAssumption DEF Init, AnswersFresh, Fetches, Idle, NoFeed
<1>2. LockTypes /\ LockDiscipline /\ AnswersFresh /\ [Next]_vars =>
        AnswersFresh' /\ \A s \in Key \ Regional : feed'[s] >= feed[s]
  BY AnswersFreshStep
<1>3. QED BY <1>1, <1>2, LockHeld, PTL DEF Spec, NeverOlder
-----------------------------------------------------------------------------

(* A step seen from one key: what SingleFetcher lets happen to it.         *)
KeyStep(s) ==
  \/ UNCHANGED <<published[s], feed[s], InFlight(s)>>
  \/ published'[s] = published[s] + 1 /\ UNCHANGED <<feed[s], InFlight(s)>>
  \/ /\ UNCHANGED <<published[s], feed[s]>>
     /\ \/ InFlight(s) = {} /\ InFlight(s)' = {Pending}
        \/ /\ InFlight(s) = {Pending}
           /\ InFlight(s)' = {published[s]} \/ InFlight(s)' = {Failed}
        \/ InFlight(s) # {} /\ InFlight(s)' = {}
  \/ /\ UNCHANGED published[s] /\ feed'[s] \notin {Pending, Failed}
     /\ InFlight(s) = {feed'[s]} /\ InFlight(s)' = {}

(* A step of one key that leaves the others alone maps to a step.          *)
LEMMA KeyStepMaps ==
  ASSUME NEW s \in Key, KeyStep(s),
         \A k \in Key : k # s => UNCHANGED <<published[k], feed[k], InFlight(k)>>
  PROVE  [Single!Next]_<<PrivatePublished, PrivateFeed, PrivateRequest>>
<1> DEFINE P == PrivatePublished
           F == PrivateFeed
           I == PrivateRequest
<1> USE DEF PrivatePublished, PrivateFeed, PrivateRequest
<1>1. CASE s \notin Private \/ UNCHANGED <<published[s], feed[s], InFlight(s)>>
  <2>1. \A k \in Private : UNCHANGED <<published[k], feed[k], InFlight(k)>>
    BY <1>1 DEF Private
  <2>2. P' = P /\ F' = F /\ I' = I
    BY <2>1
  <2>3. QED BY <2>2
<1>2. CASE s \in Private /\ ~ UNCHANGED <<published[s], feed[s], InFlight(s)>>
  <2>1. P[s] = published[s] /\ I[s] = InFlight(s)
    BY <1>2
  <2>2. UNCHANGED published[s] => P' = P
    BY <1>2 DEF Private
  <2>3. UNCHANGED feed[s] => F' = F
    BY <1>2 DEF Private
  <2>4. UNCHANGED InFlight(s) => I' = I
    BY <1>2 DEF Private
  <2>5. F' = [F EXCEPT ![s] = feed'[s]]
    BY <1>2 DEF Private
  <2>6. I' = [I EXCEPT ![s] = InFlight(s)']
    BY <1>2 DEF Private
  <2>7. published'[s] = published[s] + 1 => P' = [P EXCEPT ![s] = P[s] + 1]
    BY <1>2 DEF Private
  <2> HIDE DEF P, F, I
  <2>8. CASE published'[s] = published[s] + 1 /\ UNCHANGED <<feed[s], InFlight(s)>>
    <3>1. Single!Publish(s)
      BY <2>3, <2>4, <2>7, <2>8 DEF Single!Publish, P, F, I
    <3>2. QED BY <1>2, <3>1 DEF Single!Next
  <2>9. CASE UNCHANGED <<published[s], feed[s]>> /\ InFlight(s) = {} /\ InFlight(s)' = {Pending}
    <3>1. I[s] = {} /\ I' = [I EXCEPT ![s] = {Pending}] /\ P' = P /\ F' = F
      BY <2>1, <2>2, <2>3, <2>6, <2>9
    <3>2. Single!Request(s)
      BY <3>1 DEF Single!Request, Single!Pending, Pending, P, F, I
    <3>3. QED BY <1>2, <3>2 DEF Single!Next
  <2>10. ASSUME UNCHANGED <<published[s], feed[s]>>, InFlight(s) = {Pending},
                NEW outcome \in {published[s], Failed}, InFlight(s)' = {outcome}
         PROVE  Single!Next
    <3>1. I[s] = {Pending} /\ I' = [I EXCEPT ![s] = {outcome}] /\ P' = P /\ F' = F
      BY <2>1, <2>2, <2>3, <2>6, <2>10
    <3>2. outcome \in {P[s], Failed}
      BY <2>1
    <3>3. Single!Answer(s)
      BY <3>1, <3>2 DEF Single!Answer, Single!Pending, Pending, Single!Failed, Failed, P, F, I
    <3>4. QED BY <1>2, <3>3 DEF Single!Next
  <2>11. CASE UNCHANGED <<published[s], feed[s]>> /\ InFlight(s) # {} /\ InFlight(s)' = {}
    <3>1. I[s] # {} /\ I' = [I EXCEPT ![s] = {}] /\ P' = P /\ F' = F
      BY <2>1, <2>2, <2>3, <2>6, <2>11
    <3>2. Single!GiveUp(s)
      BY <3>1 DEF Single!GiveUp, P, F, I
    <3>3. QED BY <1>2, <3>2 DEF Single!Next
  <2>12. CASE /\ UNCHANGED published[s] /\ feed'[s] \notin {Pending, Failed}
              /\ InFlight(s) = {feed'[s]} /\ InFlight(s)' = {}
    <3> DEFINE v == feed'[s]
    <3>1. /\ I[s] = {v} /\ v \notin {Pending, Failed} /\ I' = [I EXCEPT ![s] = {}]
          /\ P' = P /\ F' = [F EXCEPT ![s] = v]
      BY <2>1, <2>2, <2>5, <2>6, <2>12
    <3> HIDE DEF v
    <3>2. Single!Store(s)
      BY <3>1 DEF Single!Store, Single!Pending, Pending, Single!Failed, Failed, P, F, I
    <3>3. QED BY <1>2, <3>2 DEF Single!Next
  <2>13. QED BY <1>2, <2>8, <2>9, <2>10, <2>11, <2>12 DEF KeyStep
<1>3. QED BY <1>1, <1>2

(* The request on its way is the one of the task that fetches.             *)
LEMMA InFlightOf ==
  ASSUME LockDiscipline, NEW s \in Key
  PROVE  /\ \A t \in Task : Fetches(t, s) => InFlight(s) = {call[t].reply}
         /\ (\A t \in Task : ~ Fetches(t, s)) => InFlight(s) = {}
BY OneFetch DEF InFlight

(* One task changes its place in get(): the requests for other keys stay.  *)
LEMMA OtherRequestsStay ==
  ASSUME NEW s \in Key, NEW t \in Task,
         \A u \in Task : u # t => call'[u] = call[u],
         \A k \in Key : k # s => ~ Fetches(t, k) /\ ~ Fetches(t, k)'
  PROVE  \A k \in Key : k # s => UNCHANGED InFlight(k)
<1> SUFFICES ASSUME NEW k \in Key, k # s PROVE InFlight(k)' = InFlight(k)
  OBVIOUS
<1>1. \A u \in Task : Fetches(u, k)' <=> Fetches(u, k)
  BY DEF Fetches
<1>2. \A u \in Task : Fetches(u, k) => call'[u] = call[u]
  OBVIOUS
<1>3. QED BY <1>1, <1>2 DEF InFlight

(* Every step of the cache is a step of the single fetcher, or none.       *)
LEMMA StepMaps ==
  ASSUME LockTypes, LockDiscipline, LockDiscipline', [Next]_vars
  PROVE  [Single!Next]_<<PrivatePublished, PrivateFeed, PrivateRequest>>
<1> DEFINE Mapped == [Single!Next]_<<PrivatePublished, PrivateFeed, PrivateRequest>>
<1> HIDE DEF Mapped
<1> SUFFICES Mapped
  BY DEF Mapped
<1>a. ASSUME \A k \in Private : UNCHANGED <<published[k], feed[k], InFlight(k)>>
      PROVE  Mapped
  <2>1. UNCHANGED <<PrivatePublished, PrivateFeed, PrivateRequest>>
    BY <1>a DEF PrivatePublished, PrivateFeed, PrivateRequest
  <2>2. QED BY <2>1 DEF Mapped
<1>b. ASSUME NEW s \in Key, KeyStep(s), NEW t \in Task,
             \A u \in Task : u # t => call'[u] = call[u],
             \A k \in Key : k # s => /\ ~ Fetches(t, k) /\ ~ Fetches(t, k)'
                                     /\ UNCHANGED <<published[k], feed[k]>>
      PROVE  Mapped
  BY <1>b, OtherRequestsStay, KeyStepMaps DEF Mapped
<1>c. \A t \in Task : call[t].at = "fetching" =>
        /\ call[t] \in Suspended /\ call[t].key \in Key /\ Fetches(t, call[t].key)
        /\ InFlight(call[t].key) = {call[t].reply}
        /\ \A u \in Task : Fetches(u, call[t].key) => u = t
  BY CallFields, InFlightOf, OneFetch DEF Fetches, Idle
<1>1. ASSUME NEW t \in Task, NEW s \in Key, NEW since, UNCHANGED <<feed, published>>,
             call[t].at # "fetching", StartFetch(t, s, since)
      PROVE  Mapped
  <2> DEFINE c == [at |-> "fetching", key |-> s, since |-> since, reply |-> Pending]
  <2>1. \A u \in Task : call'[u] = IF u = t THEN c ELSE call[u]
    BY <1>1 DEF StartFetch, Fetching, LockTypes
  <2>2. c.at = "fetching" /\ c.key = s /\ c.reply = Pending
    OBVIOUS
  <2> HIDE DEF c
  <2>3. Fetches(t, s)' /\ \A k \in Key : k # s => ~ Fetches(t, k) /\ ~ Fetches(t, k)'
    BY <1>1, <2>1, <2>2 DEF Fetches
  <2>4. \A u \in Task : Fetches(u, s)' => u = t
    BY <2>3 DEF LockDiscipline, Owner
  <2>5. \A u \in Task : ~ Fetches(u, s)
    BY <1>1, <2>1, <2>4 DEF Fetches
  <2>6. InFlight(s) = {} /\ InFlight(s)' = {Pending}
    BY <2>1, <2>2, <2>3, <2>4, <2>5 DEF InFlight
  <2>7. QED BY <1>1, <1>b, <2>1, <2>3, <2>6 DEF KeyStep
<1>2. ASSUME NEW t \in Task, NEW c, UNCHANGED <<feed, published>>, call[t].at # "fetching",
             call' = [call EXCEPT ![t] = c], c.at # "fetching"
      PROVE  Mapped
  <2>1. \A u \in Task : call'[u] = IF u = t THEN c ELSE call[u]
    BY <1>2 DEF LockTypes
  <2>2. \A u \in Task, k \in Key : /\ Fetches(u, k)' <=> Fetches(u, k)
                                   /\ Fetches(u, k) => call'[u] = call[u]
    BY <1>2, <2>1 DEF Fetches
  <2>3. \A k \in Key : UNCHANGED InFlight(k)
    BY <2>2 DEF InFlight
  <2>4. QED BY <1>2, <1>a, <2>3 DEF Private
<1>3. ASSUME NEW t \in Task, NEW s \in Key, call[t].at = "fetching", s = call[t].key,
             call' = [call EXCEPT ![t] = Idle],
             UNCHANGED published,
             \/ UNCHANGED feed
             \/ /\ feed' = [feed EXCEPT ![s] = call[t].reply]
                /\ call[t].reply \notin {Pending, Failed}
      PROVE  Mapped
  <2>1. \A u \in Task : call'[u] = IF u = t THEN Idle ELSE call[u]
    BY <1>3 DEF LockTypes
  <2>2. \A k \in Key : ~ Fetches(t, k)' /\ (k # s => ~ Fetches(t, k))
    BY <1>3, <2>1 DEF Fetches, Idle
  <2>3. InFlight(s) = {call[t].reply}
    BY <1>3, <1>c
  <2>4. \A u \in Task : ~ Fetches(u, s)'
    BY <1>3, <1>c, <2>1, <2>2 DEF Fetches
  <2>5. InFlight(s)' = {}
    BY <2>4 DEF InFlight
  <2>6. \A k \in Key : k # s => UNCHANGED <<published[k], feed[k]>>
    BY <1>3 DEF LockTypes
  <2>7. KeyStep(s)
    <3>1. CASE UNCHANGED feed
      BY <1>3, <2>3, <2>5, <3>1 DEF KeyStep
    <3>2. CASE feed' = [feed EXCEPT ![s] = call[t].reply] /\ call[t].reply \notin {Pending, Failed}
      <4>1. feed'[s] = call[t].reply
        BY <3>2 DEF LockTypes
      <4>2. QED BY <1>3, <2>3, <2>5, <3>2, <4>1 DEF KeyStep
    <3>3. QED BY <1>3, <3>1, <3>2
  <2>8. QED BY <1>b, <2>1, <2>2, <2>6, <2>7
<1>4. ASSUME NEW t \in Task, NEW s \in Key, CallFree(t, s) PROVE Mapped
  <2>1. UNCHANGED <<feed, published>> /\ call[t].at # "fetching" /\ Idle.at # "fetching"
    BY <1>4 DEF CallFree, cacheVars, Idle
  <2>2. QED BY <1>4, <1>1, <1>2, <2>1 DEF CallFree, ServeStale
<1>5. ASSUME NEW t \in Task, NEW s \in Key, CallQueued(t, s) PROVE Mapped
  <2> DEFINE c == [at |-> "waiting", key |-> s, since |-> published[s]]
  <2>1. /\ UNCHANGED <<feed, published>> /\ call[t].at # "fetching"
        /\ call' = [call EXCEPT ![t] = c] /\ c.at # "fetching"
    BY <1>5 DEF CallQueued, cacheVars, Idle
  <2> HIDE DEF c
  <2>2. QED BY <1>2, <2>1
<1>6. ASSUME NEW t \in Task, Wake(t) PROVE Mapped
  <2>1. /\ UNCHANGED <<feed, published>> /\ call[t].at # "fetching" /\ Idle.at # "fetching"
        /\ call[t].key \in Key
    BY <1>6, CallFields DEF Wake, cacheVars, Idle
  <2>2. QED BY <1>6, <1>1, <1>2, <2>1 DEF Wake, ServeStale
<1>7. ASSUME NEW t \in Task, Respond(t) PROVE Mapped
  <2>0. PICK s \in Key : s = call[t].key
    BY <1>7, <1>c DEF Respond
  <2>1. /\ call[t] \in Suspended /\ s \in Key /\ Fetches(t, s) /\ InFlight(s) = {Pending}
        /\ \A u \in Task : Fetches(u, s) => u = t
        /\ UNCHANGED <<feed, published>>
    BY <1>7, <1>c, <2>0 DEF Respond, cacheVars
  <2>2. PICK outcome \in {published[s], Failed} : call' = [call EXCEPT ![t].reply = outcome]
    BY <1>7, <2>0 DEF Respond
  <2>3. /\ call'[t].at = "fetching" /\ call'[t].key = s /\ call'[t].reply = outcome
        /\ \A u \in Task : u # t => call'[u] = call[u]
    BY <2>0, <2>1, <2>2 DEF Suspended, LockTypes
  <2>4. Fetches(t, s)' /\ \A k \in Key : k # s => ~ Fetches(t, k) /\ ~ Fetches(t, k)'
    BY <2>0, <2>1, <2>3 DEF Fetches
  <2>5. \A u \in Task : Fetches(u, s)' => u = t
    BY <2>0, <2>1, <2>3 DEF Fetches
  <2>6. InFlight(s)' = {outcome}
    BY <2>3, <2>4, <2>5 DEF InFlight
  <2>7. KeyStep(s)
    BY <2>1, <2>6 DEF KeyStep
  <2>8. QED BY <1>b, <2>1, <2>3, <2>4, <2>7
<1>8. ASSUME NEW t \in Task, FetchOk(t) \/ FetchFailed(t) PROVE Mapped
  <2>1. call[t].at = "fetching" /\ call[t].key \in Key /\ UNCHANGED published
    BY <1>8, <1>c DEF FetchOk, FetchFailed
  <2>2. QED BY <1>3, <1>8, <2>1 DEF FetchOk, FetchFailed, cacheVars
<1>9. ASSUME NEW t \in Task, Cancel(t) PROVE Mapped
  <2>1. UNCHANGED <<feed, published>> /\ Idle.at # "fetching"
        /\ call' = [call EXCEPT ![t] = Idle]
    BY <1>9 DEF Cancel, cacheVars, Idle
  <2>2. QED BY <1>2, <1>3, <1>c, <2>1
<1>10. ASSUME UNCHANGED <<call, published>>, \A k \in Private : feed'[k] = feed[k]
       PROVE  Mapped
  <2>1. \A k \in Key : UNCHANGED InFlight(k)
    BY <1>10 DEF InFlight, Fetches
  <2>2. QED BY <1>10, <1>a, <2>1 DEF Private
<1>11. CASE SetFeeds
  BY <1>10, <1>11 DEF SetFeeds, SetMentioned, Private
<1>12. ASSUME NEW s \in Key, Publish(s) PROVE Mapped
  <2>1. \A k \in Key : published'[k] = IF k = s THEN published[s] + 1 ELSE published[k]
    BY <1>12 DEF Publish, LockTypes
  <2>2. UNCHANGED <<feed, call>>
    BY <1>12 DEF Publish, cacheVars
  <2>3. \A k \in Key : UNCHANGED InFlight(k)
    BY <2>2 DEF InFlight, Fetches
  <2>4. KeyStep(s) /\ \A k \in Key : k # s => UNCHANGED <<published[k], feed[k], InFlight(k)>>
    BY <2>1, <2>2, <2>3 DEF KeyStep
  <2>5. QED BY <2>4, KeyStepMaps DEF Mapped
<1>13. CASE CombinedReply \/ Tick \/ UNCHANGED vars
  BY <1>10, <1>13 DEF CombinedReply, Tick, vars, cacheVars
<1>14. QED
  BY <1>4, <1>5, <1>6, <1>7, <1>8, <1>9, <1>11, <1>12, <1>13 DEF Next

(* For any number of callers, keys, failures and cancellations, the cache  *)
(* of a key that only get() writes is that of one fetcher with one request *)
(* on its way at a time.                                                   *)
THEOREM SingleFetcherImplemented == Spec => ImplementsSingleFetcher
<1>1. Init => Single!Init
  <2> SUFFICES ASSUME Init PROVE Single!Init
    OBVIOUS
  <2>1. \A s \in Private : InFlight(s) = {}
    BY DEF Init, InFlight, Fetches, Idle, Private
  <2>2. QED BY <2>1 DEF Init, Single!Init, Single!NoFeed, NoFeed, Private,
                   PrivatePublished, PrivateFeed, PrivateRequest
<1>2. LockTypes /\ LockDiscipline /\ (LockTypes /\ LockDiscipline)' /\ [Next]_vars =>
        [Single!Next]_<<PrivatePublished, PrivateFeed, PrivateRequest>>
  BY StepMaps
<1>3. QED BY <1>1, <1>2, LockHeld, PTL DEF Spec, ImplementsSingleFetcher, Single!Spec

-----------------------------------------------------------------------------

(***************************************************************************)
(* The steps of get() against the clock and the history of requests: how   *)
(* far apart the refreshes of a key are, how current the answer to a       *)
(* caller is, and by how much cold starts exceed the shared budget.        *)
(***************************************************************************)

(* What every action that consults the budget leaves alone.                *)
LEMMA ClockStandsStill ==
  ASSUME NEW t \in Task, NEW s \in Key, NEW since,
         StartFetch(t, s, since) \/ ServeStale(t, s)
  PROVE  UNCHANGED now
<1>1. ASSUME NEW answer \in BOOLEAN, MayFetch(s, answer) PROVE UNCHANGED now
  BY <1>1 DEF MayFetch, Quota!TryConsume
<1>2. QED BY <1>1 DEF StartFetch, ServeStale

(* The types of the times, as numbers.                                     *)
LEMMA TimeTypes ==
  ASSUME TypeOK
  PROVE  /\ now \in Nat
         /\ \A s \in Key : fetchedAt[s] \in Nat
         /\ \A t \in Task, s \in Key : Interval(t, s) \in Nat
BY CacheAssumption DEF TypeOK, Quota!TypeOK, Interval

-----------------------------------------------------------------------------

(* A task that fetches found its key stale, and it has stayed so: only the *)
(* owner of the lock stores a feed, and time only makes it older.          *)
SpacedInv ==
  \A t \in Task, s \in Key : Fetches(t, s) =>
    s \in Regional \/ feed[s] = NoFeed \/ now - fetchedAt[s] >= Interval(t, s)

(* A task that begins to fetch has just found its key stale.               *)
LEMMA StaleIsSpaced ==
  ASSUME TypeOK, NEW t \in Task, NEW s \in Key, ~ IsFresh(s, Interval(t, s))
  PROVE  feed[s] = NoFeed \/ now - fetchedAt[s] >= Interval(t, s)
BY TimeTypes DEF IsFresh

LEMMA SpacedStep ==
  ASSUME TypeOK, LockDiscipline, SpacedInv, [Next]_vars
  PROVE  SpacedInv'
<1> USE DEF SpacedInv
<1>a. LockTypes
  BY DEF TypeOK
<1>b. ASSUME UNCHANGED <<now, feed, fetchedAt>>,
             \A u \in Task, k \in Key : Fetches(u, k)' =>
                Fetches(u, k) \/ ~ IsFresh(k, Interval(u, k))
      PROVE  SpacedInv'
  BY <1>b, StaleIsSpaced DEF Interval
<1>c. ASSUME NEW t \in Task, NEW c, UNCHANGED <<now, feed, fetchedAt>>,
             call' = [call EXCEPT ![t] = c],
             c.at = "fetching" =>
               \A k \in Key : c.key = k => ~ IsFresh(k, Interval(t, k))
      PROVE  SpacedInv'
  <2>1. \A u \in Task : call'[u] = IF u = t THEN c ELSE call[u]
    BY <1>a, <1>c DEF LockTypes
  <2>2. QED BY <1>b, <1>c, <2>1 DEF Fetches
<1>d. ASSUME NEW t \in Task, UNCHANGED <<now, feed, fetchedAt>>,
             call' = [call EXCEPT ![t] = Idle]
      PROVE  SpacedInv'
  <2>1. Idle.at # "fetching"
    BY DEF Idle
  <2>2. QED BY <1>c, <1>d, <2>1
<1>e. ASSUME NEW t \in Task, NEW s \in Key, NEW since, UNCHANGED <<feed, fetchedAt>>,
             ~ IsFresh(s, Interval(t, s)), StartFetch(t, s, since) \/ ServeStale(t, s)
      PROVE  SpacedInv'
  <2>1. UNCHANGED now
    BY <1>e, ClockStandsStill
  <2>2. CASE StartFetch(t, s, since)
    <3> DEFINE c == [at |-> "fetching", key |-> s, since |-> since, reply |-> Pending]
    <3>1. call' = [call EXCEPT ![t] = c] /\ c.key = s
      BY <2>2 DEF StartFetch, Fetching
    <3> HIDE DEF c
    <3>2. QED BY <1>c, <1>e, <2>1, <3>1
  <2>3. CASE ServeStale(t, s)
    BY <1>d, <1>e, <2>1, <2>3 DEF ServeStale
  <2>4. QED BY <1>e, <2>2, <2>3
<1>1. ASSUME NEW t \in Task, NEW s \in Key, CallFree(t, s)
      PROVE  SpacedInv'
  BY <1>1, <1>e DEF CallFree, cacheVars
<1>2. ASSUME NEW t \in Task, NEW s \in Key, CallQueued(t, s)
      PROVE  SpacedInv'
  <2> DEFINE c == [at |-> "waiting", key |-> s, since |-> published[s]]
  <2>1. /\ call' = [call EXCEPT ![t] = c] /\ c.at # "fetching"
        /\ UNCHANGED <<now, feed, fetchedAt>>
    BY <1>2 DEF CallQueued, cacheVars
  <2> HIDE DEF c
  <2>2. QED BY <1>c, <2>1
<1>3. ASSUME NEW t \in Task, Wake(t)
      PROVE  SpacedInv'
  <2> DEFINE s == call[t].key
  <2>1. s \in Key /\ UNCHANGED <<feed, fetchedAt>>
    BY <1>a, <1>3, CallFields DEF Wake, cacheVars, Idle
  <2>2. CASE call' = [call EXCEPT ![t] = Idle] /\ UNCHANGED now
    BY <1>d, <2>1, <2>2
  <2>3. CASE ~ IsFresh(s, Interval(t, s)) /\ (StartFetch(t, s, call[t].since) \/ ServeStale(t, s))
    BY <1>e, <2>1, <2>3
  <2>4. QED BY <1>3, <2>2, <2>3 DEF Wake
<1>4. ASSUME NEW t \in Task, Respond(t)
      PROVE  SpacedInv'
  <2>1. call[t] \in Suspended /\ UNCHANGED <<now, feed, fetchedAt>>
    BY <1>a, <1>4, CallFields DEF Respond, cacheVars
  <2>2. PICK outcome \in {published[call[t].key], Failed} :
          call' = [call EXCEPT ![t].reply = outcome]
    BY <1>4 DEF Respond
  <2>3. /\ call'[t].at = call[t].at /\ call'[t].key = call[t].key
        /\ \A u \in Task : u # t => call'[u] = call[u]
    BY <1>a, <2>1, <2>2 DEF Suspended, LockTypes
  <2>4. QED BY <1>b, <2>1, <2>3 DEF Fetches
<1>5. ASSUME NEW t \in Task, FetchFailed(t) \/ Cancel(t)
      PROVE  SpacedInv'
  BY <1>d, <1>5 DEF FetchFailed, Cancel, cacheVars
<1>6. ASSUME NEW t \in Task, FetchOk(t)
      PROVE  SpacedInv'
  <2> DEFINE s == call[t].key
  <2>1. s \in Key /\ Fetches(t, s)
    BY <1>a, <1>6, CallFields DEF FetchOk, Fetches, Idle
  <2>2. /\ \A u \in Task : call'[u] = IF u = t THEN Idle ELSE call[u]
        /\ \A k \in Key : k # s => UNCHANGED <<feed[k], fetchedAt[k]>>
        /\ UNCHANGED now
    BY <1>6 DEF FetchOk, TypeOK, LockTypes
  <2>3. \A u \in Task, k \in Key : Fetches(u, k)' => k # s /\ Fetches(u, k)
    BY <2>1, <2>2, OneFetch DEF Fetches, Idle
  <2> HIDE DEF s
  <2>4. QED BY <2>2, <2>3 DEF Interval
<1>7. CASE SetFeeds
  <2>1. /\ \A k \in Key \ Regional : UNCHANGED <<feed[k], fetchedAt[k]>>
        /\ UNCHANGED <<now, call>>
    BY <1>7 DEF SetFeeds, SetMentioned
  <2>2. QED BY <2>1 DEF Fetches, Interval
<1>8. CASE Tick
  <2>1. now' = now + 1 /\ UNCHANGED <<feed, fetchedAt, call>>
    BY <1>8 DEF Tick, Quota!Tick, cacheVars
  <2>2. QED BY <2>1, TimeTypes DEF Fetches, Interval
<1>9. ASSUME CombinedReply \/ (\E s \in Key : Publish(s)) \/ UNCHANGED vars
      PROVE  SpacedInv'
  <2>1. UNCHANGED <<now, feed, fetchedAt, call>>
    BY <1>9 DEF CombinedReply, Publish, vars, cacheVars
  <2>2. QED BY <1>b, <2>1 DEF Fetches
<1>10. QED
  BY <1>1, <1>2, <1>3, <1>4, <1>5, <1>6, <1>7, <1>8, <1>9 DEF Next

(* get() refreshes a key at most once every min_poll_interval_seconds of   *)
(* the caller, for any number of callers, also of those that waited.       *)
THEOREM RefreshesAreSpaced == Spec => RefreshSpacing
<1> DEFINE Spaced ==
      \A t \in Task : FetchOk(t) =>
        LET s == call[t].key
        IN  s \in Regional \/ feed[s] = NoFeed \/ now - fetchedAt[s] >= Interval(t, s)
<1>1. Init => SpacedInv
  BY DEF Init, SpacedInv, Fetches, Idle
<1>2. TypeOK /\ LockDiscipline /\ SpacedInv /\ [Next]_vars => SpacedInv'
  BY SpacedStep
<1>3. TypeOK /\ SpacedInv => Spaced
  <2> SUFFICES ASSUME TypeOK, SpacedInv, NEW t \in Task, FetchOk(t)
               PROVE  \/ call[t].key \in Regional \/ feed[call[t].key] = NoFeed
                      \/ now - fetchedAt[call[t].key] >= Interval(t, call[t].key)
    OBVIOUS
  <2>1. call[t].key \in Key /\ Fetches(t, call[t].key)
    BY CallFields DEF TypeOK, FetchOk, Fetches, Idle
  <2>2. QED BY <2>1 DEF SpacedInv
<1>4. QED BY <1>1, <1>2, <1>3, LockHeld, TypeCorrect, PTL DEF Spec, RefreshSpacing

-----------------------------------------------------------------------------

(* What a call remembers of the moment it began is no newer than what the  *)
(* source serves, nor than an answer that the call has received.           *)
Current(c) ==
  c # Idle => /\ c.since <= published[c.key]
              /\ (c.at = "fetching" /\ c.reply \notin {Pending, Failed}) => c.since <= c.reply

SinceInv == \A t \in Task : Current(call[t])

(* No feed was cached in the future.                                       *)
StampInv == \A s \in Key : fetchedAt[s] <= now

(* The versions that a call compares, as numbers.                          *)
LEMMA VersionTypes ==
  ASSUME TypeOK
  PROVE  /\ \A s \in Key : published[s] \in Nat
         /\ \A t \in Task : call[t] # Idle => call[t].key \in Key /\ call[t].since \in Nat
<1>1. \A v \in Version : v \in Nat
  BY CacheAssumption DEF Version
<1>2. QED BY <1>1, CallFields DEF TypeOK, LockTypes

LEMMA SinceStep ==
  ASSUME TypeOK, SinceInv, [Next]_vars
  PROVE  SinceInv'
<1>a. LockTypes
  BY DEF TypeOK
<1>b. ASSUME UNCHANGED published,
             NEW t \in Task, NEW c, call' = [call EXCEPT ![t] = c], Current(c)
      PROVE  SinceInv'
  <2>1. \A u \in Task : call'[u] = IF u = t THEN c ELSE call[u]
    BY <1>a, <1>b DEF LockTypes
  <2>2. \A u \in Task : Current(call'[u])
    BY <1>b, <2>1 DEF SinceInv
  <2>3. QED BY <1>b, <2>2 DEF SinceInv, Current
<1>c. Current(Idle)
  BY DEF Current
<1>d. ASSUME NEW t \in Task, NEW s \in Key, NEW since \in Nat, UNCHANGED published,
             since <= published[s], StartFetch(t, s, since) \/ ServeStale(t, s)
      PROVE  SinceInv'
  <2> DEFINE c == [at |-> "fetching", key |-> s, since |-> since, reply |-> Pending]
  <2>1. Current(c)
    BY <1>d DEF Current
  <2>2. call' = [call EXCEPT ![t] = c] \/ call' = [call EXCEPT ![t] = Idle]
    BY <1>d DEF StartFetch, Fetching, ServeStale
  <2> HIDE DEF c
  <2>3. QED BY <1>b, <1>c, <1>d, <2>1, <2>2
<1>1. ASSUME NEW t \in Task, NEW s \in Key, CallFree(t, s)
      PROVE  SinceInv'
  <2>1. published[s] \in Nat /\ published[s] <= published[s] /\ UNCHANGED published
    BY <1>1, VersionTypes DEF CallFree
  <2>2. QED BY <1>1, <1>d, <2>1 DEF CallFree
<1>2. ASSUME NEW t \in Task, NEW s \in Key, CallQueued(t, s)
      PROVE  SinceInv'
  <2> DEFINE c == [at |-> "waiting", key |-> s, since |-> published[s]]
  <2>1. call' = [call EXCEPT ![t] = c] /\ UNCHANGED published
    BY <1>2 DEF CallQueued
  <2>2. Current(c)
    BY VersionTypes DEF Current
  <2> HIDE DEF c
  <2>3. QED BY <1>b, <2>1, <2>2
<1>3. ASSUME NEW t \in Task, Wake(t)
      PROVE  SinceInv'
  <2> DEFINE s == call[t].key
             since == call[t].since
  <2>1. call[t] # Idle /\ UNCHANGED published
    BY <1>3 DEF Wake, Idle
  <2>2. s \in Key /\ since \in Nat /\ since <= published[s]
    BY <2>1, VersionTypes DEF SinceInv, Current
  <2>3. \/ call' = [call EXCEPT ![t] = Idle]
        \/ StartFetch(t, s, since) \/ ServeStale(t, s)
    BY <1>3 DEF Wake
  <2> HIDE DEF s, since
  <2>4. QED BY <1>b, <1>c, <1>d, <2>1, <2>2, <2>3
<1>4. ASSUME NEW t \in Task, Respond(t)
      PROVE  SinceInv'
  <2>1. /\ call[t] \in Suspended /\ call[t] # Idle /\ call[t].key \in Key
        /\ UNCHANGED published
    BY <1>a, <1>4, CallFields DEF Respond, Idle
  <2>2. PICK outcome \in {published[call[t].key], Failed} :
          call' = [call EXCEPT ![t].reply = outcome]
    BY <1>4 DEF Respond
  <2> DEFINE c == [call[t] EXCEPT !.reply = outcome]
  <2>3. c.at = call[t].at /\ c.key = call[t].key /\ c.since = call[t].since /\ c.reply = outcome
    BY <2>1 DEF Suspended
  <2>4. call' = [call EXCEPT ![t] = c]
    BY <2>2
  <2> HIDE DEF c
  <2>5. call[t].since <= published[call[t].key]
    BY <2>1 DEF SinceInv, Current
  <2>6. Current(c)
    BY <2>3, <2>5 DEF Current
  <2>7. QED BY <1>b, <2>1, <2>4, <2>6
<1>5. ASSUME NEW t \in Task, FetchOk(t) \/ FetchFailed(t) \/ Cancel(t)
      PROVE  SinceInv'
  BY <1>b, <1>c, <1>5 DEF FetchOk, FetchFailed, Cancel
<1>6. ASSUME NEW s \in Key, Publish(s)
      PROVE  SinceInv'
  <2>1. \A k \in Key : published'[k] = IF k = s THEN published[s] + 1 ELSE published[k]
    BY <1>a, <1>6 DEF Publish, LockTypes
  <2>2. \A k \in Key : published[k] <= published'[k] /\ published'[k] \in Nat
    BY <2>1, VersionTypes
  <2>3. UNCHANGED call
    BY <1>6 DEF Publish
  <2>4. \A t \in Task : call[t] # Idle => call[t].since <= published'[call[t].key]
    BY <2>2, VersionTypes DEF SinceInv, Current
  <2>5. QED BY <2>3, <2>4 DEF SinceInv, Current
<1>7. ASSUME UNCHANGED <<call, published>>
      PROVE  SinceInv'
  BY <1>7 DEF SinceInv, Current
<1>8. ASSUME SetFeeds \/ CombinedReply \/ Tick \/ UNCHANGED vars
      PROVE  UNCHANGED <<call, published>>
  BY <1>8 DEF SetFeeds, SetMentioned, CombinedReply, Tick, vars
<1>9. QED
  BY <1>1, <1>2, <1>3, <1>4, <1>5, <1>6, <1>7, <1>8 DEF Next

LEMMA StampStep ==
  ASSUME TypeOK, StampInv, [Next]_vars
  PROVE  StampInv'
<1>1. ASSUME now' \in Nat, now <= now',
             \A s \in Key : fetchedAt'[s] \in {fetchedAt[s], now}
      PROVE  StampInv'
  BY <1>1, TimeTypes DEF StampInv
<1>2. now <= now /\ now \in Nat
  BY TimeTypes
<1>3. ASSUME NEW t \in Task, NEW s \in Key, CallFree(t, s) \/ CallQueued(t, s)
      PROVE  UNCHANGED <<now, fetchedAt>>
  BY <1>3, ClockStandsStill DEF CallFree, CallQueued, cacheVars
<1>4. ASSUME NEW t \in Task, Wake(t)
      PROVE  UNCHANGED <<now, fetchedAt>>
  <2>1. call[t].key \in Key
    BY <1>4, VersionTypes DEF Wake, Idle
  <2>2. QED BY <1>4, <2>1, ClockStandsStill DEF Wake, cacheVars
<1>5. ASSUME NEW t \in Task, Respond(t) \/ FetchFailed(t) \/ Cancel(t)
      PROVE  UNCHANGED <<now, fetchedAt>>
  BY <1>5 DEF Respond, FetchFailed, Cancel, cacheVars
<1>6. ASSUME CombinedReply \/ (\E s \in Key : Publish(s)) \/ UNCHANGED vars
      PROVE  UNCHANGED <<now, fetchedAt>>
  BY <1>6 DEF CombinedReply, Publish, vars, cacheVars
<1>7. ASSUME UNCHANGED <<now, fetchedAt>>
      PROVE  StampInv'
  BY <1>7 DEF StampInv
<1>8. ASSUME NEW t \in Task, FetchOk(t)
      PROVE  StampInv'
  <2>1. UNCHANGED now /\ \A s \in Key : fetchedAt'[s] \in {fetchedAt[s], now}
    BY <1>8 DEF FetchOk, TypeOK
  <2>2. QED BY <1>1, <1>2, <2>1
<1>9. CASE SetFeeds
  <2>1. UNCHANGED now /\ \A s \in Key : fetchedAt'[s] \in {fetchedAt[s], now}
    BY <1>9 DEF SetFeeds, SetMentioned
  <2>2. QED BY <1>1, <1>2, <2>1
<1>10. CASE Tick
  <2>1. now' = now + 1 /\ UNCHANGED fetchedAt
    BY <1>10 DEF Tick, Quota!Tick, cacheVars
  <2>2. QED BY <1>1, <1>2, <2>1
<1>11. QED
  BY <1>3, <1>4, <1>5, <1>6, <1>7, <1>8, <1>9, <1>10 DEF Next

(* "A value of 0 means never cache", for any number of callers: no answer  *)
(* to such a caller is older than what the source served when it called.   *)
THEOREM ZeroMeansCurrent == Spec => ZeroIntervalIsCurrent
<1> DEFINE Answered ==
      \A t \in Task :
        LET s == call[t].key
        IN  /\ call[t] # Idle
            /\ Interval(t, s) = 0 /\ GroupOf[s] = NoGroup
            /\ Wake(t) \/ FetchOk(t)
            /\ call'[t] = Idle
            => feed'[s] >= call[t].since
<1>1. Init => SinceInv /\ StampInv
  <2> SUFFICES ASSUME Init PROVE SinceInv /\ StampInv
    OBVIOUS
  <2>1. \A t \in Task : call[t] = Idle
    BY DEF Init
  <2>2. \A s \in Key : fetchedAt[s] = 0 /\ now = 0
    BY DEF Init, Quota!Init
  <2>3. QED BY <2>1, <2>2 DEF SinceInv, StampInv, Current
<1>2. TypeOK /\ SinceInv /\ StampInv /\ [Next]_vars => SinceInv' /\ StampInv'
  BY SinceStep, StampStep
<1>3. TypeOK /\ SinceInv /\ StampInv => Answered
  <2> SUFFICES ASSUME TypeOK, SinceInv, StampInv, NEW t \in Task, NEW s,
                      s = call[t].key, call[t] # Idle,
                      Interval(t, s) = 0, GroupOf[s] = NoGroup,
                      Wake(t) \/ FetchOk(t), call'[t] = Idle
               PROVE  feed'[s] >= call[t].since
    OBVIOUS
  <2>1. s \in Key
    BY VersionTypes
  <2>2. LockTypes
    BY DEF TypeOK
  <2>3. ~ IsFresh(s, Interval(t, s))
    BY <2>1, TimeTypes DEF IsFresh, StampInv
  <2>4. ~ ServeStale(t, s)
    BY DEF ServeStale, MayFetch
  <2>5. ~ StartFetch(t, s, call[t].since)
    <3>1. SUFFICES ASSUME StartFetch(t, s, call[t].since) PROVE FALSE
      OBVIOUS
    <3>2. call'[t] = [at |-> "fetching", key |-> s, since |-> call[t].since, reply |-> Pending]
      BY <2>2, <3>1 DEF StartFetch, Fetching, LockTypes
    <3>3. QED BY <3>2 DEF Idle
  <2>6. FetchOk(t)
    BY <2>3, <2>4, <2>5 DEF Wake
  <2>7. feed'[s] = call[t].reply /\ call[t].since <= call[t].reply
    BY <2>1, <2>2, <2>6 DEF FetchOk, LockTypes, SinceInv, Current
  <2>8. call[t].reply \in Nat /\ call[t].since \in Nat
    BY <2>2, <2>6, CallFields, VersionTypes, CacheAssumption DEF FetchOk, Version
  <2>9. QED BY <2>7, <2>8
<1>4. QED BY <1>1, <1>2, <1>3, TypeCorrect, PTL DEF Spec, ZeroIntervalIsCurrent

-----------------------------------------------------------------------------

(* The requests rs of a group and its granted spends ss, matched: f[j] of  *)
(* the spends were granted by the time of the j-th request, and at most    *)
(* `excess` requests were sent without one.                                *)
Matches(f, rs, ss, excess) ==
  /\ f \in [0..Len(rs) -> 0..Len(ss)]
  /\ f[Len(rs)] = Len(ss)
  /\ Len(rs) - Len(ss) <= excess
  /\ \A j \in 0..Len(rs) : f[j] <= j /\ j - f[j] <= Len(rs) - Len(ss)
  /\ \A j \in 1..Len(rs) : \A m \in 1..f[j] : ss[m] <= rs[j].at
  /\ \A j \in 1..Len(rs) : \A m \in (f[j - 1] + 1)..Len(ss) : rs[j].at <= ss[m]

(* Requests and spends happened in the past.                               *)
Past(rs, ss) ==
  /\ \A j \in 1..Len(rs) : rs[j].at <= now
  /\ \A m \in 1..Len(ss) : ss[m] <= now

(* What appending to a history changes, and what it leaves.                *)
LEMMA AppendedEntry ==
  ASSUME NEW S, NEW q \in Seq(S), NEW e \in S
  PROVE  /\ Append(q, e) \in Seq(S) /\ Len(Append(q, e)) = Len(q) + 1
         /\ Append(q, e)[Len(q) + 1] = e
         /\ \A i \in 1..Len(q) : Append(q, e)[i] = q[i] /\ q[i] \in S
OBVIOUS

(* A request that the budget grants is matched by its own spend.           *)
LEMMA GrantedRequestMatches ==
  ASSUME NEW rs \in Seq(Request), NEW ss \in Seq(Nat), NEW excess \in Nat, NEW f,
         now \in Nat, Matches(f, rs, ss, excess), Past(rs, ss),
         NEW r \in Request, r.at = now
  PROVE  \E g : Matches(g, Append(rs, r), Append(ss, now), excess)
<1> DEFINE n == Len(rs)
           p == Len(ss)
           rs2 == Append(rs, r)
           ss2 == Append(ss, now)
           g == [j \in 0..(n + 1) |-> IF j = n + 1 THEN p + 1 ELSE f[j]]
<1>1. /\ n \in Nat /\ Len(rs2) = n + 1 /\ rs2[n + 1] = r
      /\ \A i \in 1..n : rs2[i] = rs[i]
  BY AppendedEntry
<1>2. /\ p \in Nat /\ Len(ss2) = p + 1 /\ ss2[p + 1] = now
      /\ \A m \in 1..p : ss2[m] = ss[m]
  BY AppendedEntry
<1>3. /\ f \in [0..n -> 0..p] /\ f[n] = p /\ n - p <= excess
      /\ \A j \in 0..n : f[j] <= j /\ j - f[j] <= n - p
  BY DEF Matches
<1>4. \A j \in 1..n : \A m \in 1..f[j] : ss[m] <= rs[j].at
  BY DEF Matches
<1>5. \A j \in 1..n : \A m \in (f[j - 1] + 1)..p : rs[j].at <= ss[m]
  BY DEF Matches
<1>6. (\A j \in 1..n : rs[j].at <= now) /\ \A m \in 1..p : ss[m] <= now
  BY DEF Past
<1>a. g[n + 1] = p + 1 /\ \A j \in 0..n : g[j] = f[j]
  BY <1>1
<1>b. g \in [0..(n + 1) -> 0..(p + 1)]
  BY <1>1, <1>2, <1>3
<1> HIDE DEF n, p, rs2, ss2, g
<1>7. p <= n
  BY <1>1, <1>2, <1>3
<1>8. (n + 1) - (p + 1) <= excess
  BY <1>1, <1>2, <1>3
<1>9. ASSUME NEW j \in 0..(n + 1)
      PROVE  g[j] <= j /\ j - g[j] <= (n + 1) - (p + 1)
  <2>1. CASE j \in 0..n
    <3>1. f[j] \in 0..p /\ g[j] = f[j]
      BY <1>3, <1>a, <2>1
    <3>2. f[j] <= j /\ j - f[j] <= n - p
      BY <1>3, <2>1
    <3>3. (n + 1) - (p + 1) = n - p
      BY <1>1, <1>2
    <3>4. QED BY <3>1, <3>2, <3>3, Zenon
  <2>2. CASE j = n + 1
    BY <1>1, <1>2, <1>7, <1>a, <2>2
  <2>3. QED BY <1>1, <2>1, <2>2
<1>10. ASSUME NEW j \in 1..(n + 1), NEW m \in 1..g[j]
       PROVE  ss2[m] <= rs2[j].at
  <2>1. CASE j \in 1..n
    <3>a. j \in 0..n
      BY <1>1, <2>1
    <3>1. j \in 0..n /\ g[j] = f[j] /\ f[j] \in 0..p
      BY <1>3, <1>a, <3>a
    <3>2. m \in 1..f[j] /\ m \in 1..p
      BY <1>2, <3>1
    <3>3. QED BY <1>1, <1>2, <1>4, <2>1, <3>2
  <2>2. CASE j = n + 1
    <3>1. m \in 1..p \/ m = p + 1
      BY <1>2, <1>a, <2>2
    <3>2. ss2[m] <= now
      BY <1>2, <1>6, <3>1
    <3>3. QED BY <1>1, <2>2, <3>2
  <2>3. QED BY <1>1, <2>1, <2>2
<1>11. ASSUME NEW j \in 1..(n + 1), NEW m \in (g[j - 1] + 1)..(p + 1)
       PROVE  rs2[j].at <= ss2[m]
  <2>1. j - 1 \in 0..n /\ g[j - 1] = f[j - 1] /\ f[j - 1] \in 0..p
    BY <1>1, <1>3, <1>a
  <2>2. m \in (f[j - 1] + 1)..p \/ m = p + 1
    BY <1>2, <2>1
  <2>3. CASE j \in 1..n
    <3>1. m \in 1..p \/ m = p + 1
      BY <1>2, <2>1, <2>2
    <3>2. QED BY <1>1, <1>2, <1>5, <1>6, <2>2, <2>3, <3>1
  <2>4. CASE j = n + 1
    <3>1. f[j - 1] = p
      BY <1>1, <1>3, <2>4
    <3>2. m = p + 1
      BY <1>2, <2>2, <3>1
    <3>3. QED BY <1>1, <1>2, <2>4, <3>2
  <2>5. QED BY <1>1, <2>3, <2>4
<1>12. Matches(g, rs2, ss2, excess)
  BY <1>1, <1>2, <1>a, <1>b, <1>8, <1>9, <1>10, <1>11 DEF Matches
<1>13. QED BY <1>12 DEF rs2, ss2

(* A cold start that the budget refuses is one request more than spends.   *)
LEMMA ColdRequestMatches ==
  ASSUME NEW rs \in Seq(Request), NEW ss \in Seq(Nat), NEW excess \in Nat, NEW f,
         now \in Nat, Matches(f, rs, ss, excess), Past(rs, ss),
         NEW r \in Request, r.at = now
  PROVE  \E g : Matches(g, Append(rs, r), ss, excess + 1)
<1> DEFINE n == Len(rs)
           p == Len(ss)
           rs2 == Append(rs, r)
           g == [j \in 0..(n + 1) |-> IF j = n + 1 THEN p ELSE f[j]]
<1>1. /\ n \in Nat /\ p \in Nat /\ Len(rs2) = n + 1 /\ rs2[n + 1] = r
      /\ \A i \in 1..n : rs2[i] = rs[i]
  BY AppendedEntry
<1>3. /\ f \in [0..n -> 0..p] /\ f[n] = p /\ n - p <= excess
      /\ \A j \in 0..n : f[j] <= j /\ j - f[j] <= n - p
  BY DEF Matches
<1>4. \A j \in 1..n : \A m \in 1..f[j] : ss[m] <= rs[j].at
  BY DEF Matches
<1>5. \A j \in 1..n : \A m \in (f[j - 1] + 1)..p : rs[j].at <= ss[m]
  BY DEF Matches
<1>6. \A m \in 1..p : ss[m] <= now
  BY DEF Past
<1>a. g[n + 1] = p /\ \A j \in 0..n : g[j] = f[j]
  BY <1>1
<1>b. g \in [0..(n + 1) -> 0..p]
  BY <1>1, <1>3
<1> HIDE DEF n, p, rs2, g
<1>7. p <= n
  BY <1>1, <1>3
<1>8. (n + 1) - p <= excess + 1
  BY <1>1, <1>3
<1>9. ASSUME NEW j \in 0..(n + 1)
      PROVE  g[j] <= j /\ j - g[j] <= (n + 1) - p
  <2>1. CASE j \in 0..n
    <3>1. f[j] \in 0..p /\ g[j] = f[j]
      BY <1>3, <1>a, <2>1
    <3>2. f[j] <= j /\ j - f[j] <= n - p
      BY <1>3, <2>1
    <3>3. j \in Nat /\ f[j] \in Nat
      BY <1>1, <2>1, <3>1
    <3>4. \A a, b \in Nat : a - b <= n - p => a - b <= (n + 1) - p
      BY <1>1
    <3>5. QED BY <3>1, <3>2, <3>3, <3>4, Zenon
  <2>2. CASE j = n + 1
    BY <1>1, <1>7, <1>a, <2>2
  <2>3. QED BY <1>1, <2>1, <2>2
<1>10. ASSUME NEW j \in 1..(n + 1), NEW m \in 1..g[j]
       PROVE  ss[m] <= rs2[j].at
  <2>1. CASE j \in 1..n
    <3>1. j \in 0..n /\ g[j] = f[j]
      BY <1>1, <1>a, <2>1
    <3>2. QED BY <1>1, <1>4, <2>1, <3>1
  <2>2. CASE j = n + 1
    BY <1>1, <1>6, <1>a, <2>2
  <2>3. QED BY <1>1, <2>1, <2>2
<1>11. ASSUME NEW j \in 1..(n + 1), NEW m \in (g[j - 1] + 1)..p
       PROVE  rs2[j].at <= ss[m]
  <2>1. j - 1 \in 0..n /\ g[j - 1] = f[j - 1]
    BY <1>1, <1>a
  <2>2. m \in (f[j - 1] + 1)..p
    BY <2>1
  <2>3. CASE j \in 1..n
    BY <1>1, <1>5, <2>2, <2>3
  <2>4. CASE j = n + 1
    BY <1>1, <1>3, <2>2, <2>4
  <2>5. QED BY <1>1, <2>3, <2>4
<1>12. Matches(g, rs2, ss, excess + 1)
  BY <1>1, <1>a, <1>b, <1>8, <1>9, <1>10, <1>11 DEF Matches, p
<1>13. QED BY <1>12 DEF rs2

(* Spends within budget, and requests matched with them: a window holds at *)
(* most `excess` requests more than the budget.                            *)
LEMMA MatchedWithinHeadroom ==
  ASSUME NEW rs \in Seq(Request), NEW ss \in Seq(Nat), NEW excess \in Nat, NEW f,
         NEW limit \in Nat, Matches(f, rs, ss, excess), Quota!WithinBudget(ss, limit)
  PROVE  Quota!WithinBudget([i \in 1..Len(rs) |-> rs[i].at], limit + excess)
<1> DEFINE n == Len(rs)
           p == Len(ss)
           times == [i \in 1..n |-> rs[i].at]
<1>1. n \in Nat /\ p \in Nat /\ Len(times) = n
  OBVIOUS
<1>a. \A i \in 1..n : rs[i] \in Request
  BY AppendedEntry
<1>b. \A r \in Request : r.at \in Nat
  BY DEF Request
<1>2. \A i \in 1..n : rs[i].at \in Nat
  BY <1>a, <1>b
<1>3. \A m \in 1..p : ss[m] \in Nat
  OBVIOUS
<1>4. /\ f \in [0..n -> 0..p] /\ n - p <= excess
      /\ \A j \in 0..n : f[j] <= j /\ j - f[j] <= n - p
  BY DEF Matches
<1>5. \A j \in 1..n : \A m \in 1..f[j] : ss[m] <= rs[j].at
  BY DEF Matches
<1>6. \A j \in 1..n : \A m \in (f[j - 1] + 1)..p : rs[j].at <= ss[m]
  BY DEF Matches
<1>7. \A m \in 1..p : m + limit <= p => ss[m + limit] - ss[m] >= WINDOW_SECONDS
  BY DEF Quota!WithinBudget
<1>8. WINDOW_SECONDS \in Nat
  BY CacheAssumption
<1>9. \A i \in 1..n : times[i] = rs[i].at
  OBVIOUS
<1> HIDE DEF n, p, times
<1>10. SUFFICES ASSUME NEW i \in 1..n, i + (limit + excess) <= n
                PROVE  rs[i + (limit + excess)].at - rs[i].at >= WINDOW_SECONDS
  <2>1. \A i \in 1..n : i + (limit + excess) <= n => i + (limit + excess) \in 1..n
    BY <1>1
  <2>2. QED BY <1>1, <1>9, <1>10, <2>1 DEF Quota!WithinBudget, times, n
<1> DEFINE j == i + (limit + excess)
           m == f[i - 1] + 1
<1>11. j \in 1..n /\ i - 1 \in 0..n /\ j \in 0..n
  BY <1>1, <1>10
<1>12. f[j] \in 0..p /\ f[i - 1] \in 0..p
  BY <1>4, <1>11
<1>13. j - f[j] <= excess /\ f[i - 1] <= i - 1
  <2>1. \A k \in 0..n : \A a \in 0..p : k - a <= n - p => k - a <= excess
    BY <1>1, <1>4
  <2> HIDE DEF j
  <2>2. j - f[j] <= n - p /\ f[i - 1] <= i - 1
    BY <1>4, <1>11
  <2>3. QED BY <1>11, <1>12, <2>1, <2>2
<1>14. m \in 1..p /\ m + limit \in 1..p /\ m + limit <= f[j] /\ m \in (f[i - 1] + 1)..p
  <2>1. \A a, b \in 0..p : j - b <= excess /\ a <= i - 1 =>
          /\ a + 1 \in 1..p /\ (a + 1) + limit \in 1..p
          /\ (a + 1) + limit <= b /\ a + 1 \in (a + 1)..p
    BY <1>1, <1>10
  <2> HIDE DEF j
  <2>2. QED BY <1>12, <1>13, <2>1
<1> HIDE DEF m
<1>15. ss[m + limit] <= rs[j].at
  <2>1. m + limit \in 1..f[j]
    BY <1>12, <1>14
  <2>2. QED BY <1>5, <1>11, <2>1
<1>16. rs[i].at <= ss[m]
  BY <1>6, <1>10, <1>14
<1>17. ss[m + limit] - ss[m] >= WINDOW_SECONDS
  BY <1>7, <1>14
<1>18. ss[m] \in Nat /\ ss[m + limit] \in Nat /\ rs[i].at \in Nat /\ rs[j].at \in Nat
  BY <1>2, <1>3, <1>10, <1>11, <1>14
<1>19. \A a, b, c, d \in Nat :
         b <= d /\ a <= c /\ b - c >= WINDOW_SECONDS => d - a >= WINDOW_SECONDS
  BY <1>8
<1>20. rs[j].at - rs[i].at >= WINDOW_SECONDS
  <2> HIDE DEF j
  <2>1. QED BY <1>15, <1>16, <1>17, <1>18, <1>19, Zenon
<1>21. QED BY <1>20

-----------------------------------------------------------------------------

(* The keys of a group that have had, or are having, their cold start.     *)
Started(g) == {s \in KeysOf(g) : feed[s] # NoFeed \/ \E t \in Task : Fetches(t, s)}

(* While nothing has failed, the requests beyond the granted spends of a   *)
(* group are no more than the keys that have started.                      *)
ExcessInv ==
  mishaps = 0 =>
    /\ \A t \in Task : call[t].at = "fetching" => call[t].reply # Failed
    /\ \A g \in Quota!Metered : \E f :
         Matches(f, requests[g], spends[g], Cardinality(Started(g)))

PastInv == \A g \in Quota!Metered : Past(requests[g], spends[g])

LEMMA HistoryOfGroup ==
  ASSUME TypeOK, NEW g \in Quota!Metered
  PROVE  requests[g] \in Seq(Request) /\ spends[g] \in Seq(Nat) /\ now \in Nat
BY DEF TypeOK, Quota!TypeOK, Request

LEMMA StartedIsFinite ==
  ASSUME IsFiniteSet(Key), NEW g
  PROVE  /\ IsFiniteSet(KeysOf(g)) /\ Cardinality(KeysOf(g)) \in Nat
         /\ IsFiniteSet(Started(g)) /\ Cardinality(Started(g)) \in Nat
         /\ Cardinality(Started(g)) <= Cardinality(KeysOf(g))
<1>1. KeysOf(g) \subseteq Key /\ Started(g) \subseteq KeysOf(g)
  BY DEF KeysOf, Started
<1>2. IsFiniteSet(KeysOf(g))
  BY <1>1, FS_Subset
<1>3. QED BY <1>1, <1>2, FS_Subset, FS_CardinalityType

LEMMA MoreExcess ==
  ASSUME NEW rs \in Seq(Request), NEW ss \in Seq(Nat), NEW f,
         NEW low \in Nat, NEW high \in Nat, low <= high, Matches(f, rs, ss, low)
  PROVE  Matches(f, rs, ss, high)
<1>1. Len(rs) \in Nat /\ Len(ss) \in Nat /\ Len(rs) - Len(ss) <= low
  BY DEF Matches
<1>2. Len(rs) - Len(ss) <= high
  BY <1>1
<1>3. QED BY <1>2 DEF Matches

(* A request and its spend happen now.                                     *)
LEMMA PastGrows ==
  ASSUME NEW rs \in Seq(Request), NEW ss \in Seq(Nat), now \in Nat, Past(rs, ss),
         NEW r \in Request, r.at = now
  PROVE  Past(Append(rs, r), ss) /\ Past(Append(rs, r), Append(ss, now))
<1>1. \A j \in 1..Len(Append(rs, r)) : Append(rs, r)[j].at <= now
  <2>1. /\ Len(rs) \in Nat /\ Len(Append(rs, r)) = Len(rs) + 1
        /\ Append(rs, r)[Len(rs) + 1] = r
        /\ \A j \in 1..Len(rs) : Append(rs, r)[j] = rs[j]
    BY AppendedEntry
  <2>2. now <= now /\ \A j \in 1..Len(rs) : rs[j].at <= now
    BY DEF Past
  <2>3. QED BY <2>1, <2>2
<1>2. \A m \in 1..Len(Append(ss, now)) : Append(ss, now)[m] <= now
  <2>1. /\ Len(ss) \in Nat /\ Len(Append(ss, now)) = Len(ss) + 1
        /\ Append(ss, now)[Len(ss) + 1] = now
        /\ \A m \in 1..Len(ss) : Append(ss, now)[m] = ss[m]
    BY AppendedEntry
  <2>2. now <= now /\ \A m \in 1..Len(ss) : ss[m] <= now
    BY DEF Past
  <2>3. QED BY <2>1, <2>2
<1>3. QED BY <1>1, <1>2 DEF Past

(* What sending a request adds to the histories of its group.              *)
LEMMA StartFetchRecords ==
  ASSUME TypeOK, NEW t \in Task, NEW s \in Key, NEW since, StartFetch(t, s, since)
  PROVE  \/ UNCHANGED <<now, requests, spends>>
         \/ /\ UNCHANGED now /\ GroupOf[s] \in Quota!Metered
            /\ \E r \in Request :
                 /\ r.at = now
                 /\ requests' = [requests EXCEPT ![GroupOf[s]] = Append(@, r)]
                 /\ \/ spends' = [spends EXCEPT ![GroupOf[s]] = Append(@, now)]
                    \/ feed[s] = NoFeed /\ UNCHANGED spends
<1>1. PICK answer \in BOOLEAN : MayFetch(s, answer) /\ (answer \/ feed[s] = NoFeed)
  BY DEF StartFetch
<1>2. UNCHANGED now
  BY ClockStandsStill
<1>3. CASE GroupOf[s] \notin Quota!Metered
  <2>1. UNCHANGED requests
    BY <1>3 DEF StartFetch, RecordRequest
  <2>2. UNCHANGED spends
    BY <1>1, <1>3 DEF MayFetch, quotaVars, Quota!TryConsume, Quota!Unmetered, Quota!Granted,
                      Quota!Denied
  <2>3. QED BY <1>2, <2>1, <2>2
<1>4. CASE GroupOf[s] \in Quota!Metered
  <2> DEFINE r == [at |-> now, cold |-> feed[s] = NoFeed]
  <2>1. r \in Request /\ r.at = now
    BY TimeTypes DEF Request
  <2>2. requests' = [requests EXCEPT ![GroupOf[s]] = Append(@, r)]
    BY <1>4 DEF StartFetch, RecordRequest
  <2> HIDE DEF r
  <2>3. GroupOf[s] # NoGroup
    BY <1>4, CacheAssumption DEF Quota!Metered
  <2>4. Quota!TryConsume(GroupOf[s], answer)
    BY <1>1, <2>3 DEF MayFetch
  <2>5. \/ spends' = [spends EXCEPT ![GroupOf[s]] = Append(@, now)]
        \/ ~ answer /\ UNCHANGED spends
    BY <1>4, <2>4 DEF Quota!TryConsume, Quota!Unmetered, Quota!Granted, Quota!Denied
  <2>6. QED BY <1>1, <1>2, <1>4, <2>1, <2>2, <2>5
<1>5. QED BY <1>3, <1>4

(* The other steps of a task leave both histories alone.                   *)
LEMMA StaleRecordsNothing ==
  ASSUME NEW t \in Task, NEW s \in Key, ServeStale(t, s)
  PROVE  UNCHANGED <<now, requests, spends>>
BY DEF ServeStale, MayFetch, quotaVars, Quota!TryConsume, Quota!Denied

LEMMA PastStep ==
  ASSUME TypeOK, PastInv, [Next]_vars
  PROVE  PastInv'
<1>a. Quota!Metered' = Quota!Metered
  BY DEF Quota!Metered
<1>1. ASSUME UNCHANGED <<now, requests, spends>> PROVE PastInv'
  BY <1>1, <1>a DEF PastInv, Past
<1>2. ASSUME NEW t \in Task, NEW s \in Key, NEW since,
             StartFetch(t, s, since) \/ ServeStale(t, s)
      PROVE  PastInv'
  <2>1. CASE UNCHANGED <<now, requests, spends>>
    BY <1>1, <2>1
  <2>2. ASSUME UNCHANGED now, NEW g \in Quota!Metered, NEW r \in Request, r.at = now,
               requests' = [requests EXCEPT ![g] = Append(@, r)],
               spends' = [spends EXCEPT ![g] = Append(@, now)] \/ UNCHANGED spends
        PROVE  PastInv'
    <3> SUFFICES ASSUME NEW h \in Quota!Metered
                 PROVE  Past(requests'[h], spends'[h])
      BY <1>a, <2>2 DEF PastInv, Past
    <3>1. Past(requests[h], spends[h])
      BY DEF PastInv
    <3>2. CASE h # g
      <4>1. requests'[h] = requests[h] /\ spends'[h] = spends[h]
        BY <2>2, <3>2 DEF TypeOK, Quota!TypeOK
      <4>2. QED BY <3>1, <4>1
    <3>3. CASE h = g
      <4>1. /\ requests'[h] = Append(requests[h], r)
            /\ spends'[h] = Append(spends[h], now) \/ spends'[h] = spends[h]
        BY <2>2, <3>3 DEF TypeOK, Quota!TypeOK
      <4>2. /\ Past(Append(requests[h], r), spends[h])
            /\ Past(Append(requests[h], r), Append(spends[h], now))
        BY <2>2, <3>1, HistoryOfGroup, PastGrows
      <4>3. QED BY <4>1, <4>2
    <3>4. QED BY <3>2, <3>3
  <2>3. QED BY <1>2, <2>1, <2>2, StartFetchRecords, StaleRecordsNothing
<1>3. ASSUME NEW t \in Task, NEW s \in Key, CallFree(t, s) \/ CallQueued(t, s)
      PROVE  PastInv'
  BY <1>1, <1>2, <1>3 DEF CallFree, CallQueued, quotaVars
<1>4. ASSUME NEW t \in Task, Wake(t)
      PROVE  PastInv'
  <2>1. call[t].key \in Key
    BY <1>4, VersionTypes DEF Wake, Idle
  <2>2. QED BY <1>1, <1>2, <1>4, <2>1 DEF Wake, quotaVars
<1>5. ASSUME NEW t \in Task, Respond(t) \/ FetchOk(t) \/ FetchFailed(t) \/ Cancel(t)
      PROVE  UNCHANGED <<now, requests, spends>>
  BY <1>5 DEF Respond, FetchOk, FetchFailed, Cancel, quotaVars
<1>6. ASSUME SetFeeds \/ CombinedReply \/ (\E s \in Key : Publish(s)) \/ UNCHANGED vars
      PROVE  UNCHANGED <<now, requests, spends>>
  BY <1>6 DEF SetFeeds, SetMentioned, CombinedReply, Publish, vars, quotaVars
<1>7. CASE Tick
  <2>1. now' = now + 1 /\ UNCHANGED <<requests, spends>>
    BY <1>7 DEF Tick, Quota!Tick
  <2>2. ASSUME NEW g \in Quota!Metered PROVE Past(requests[g], spends[g])'
    <3>1. requests[g] \in Seq(Request) /\ spends[g] \in Seq(Nat) /\ now \in Nat
      BY HistoryOfGroup
    <3>2. /\ \A j \in 1..Len(requests[g]) : requests[g][j] \in Request
          /\ \A m \in 1..Len(spends[g]) : spends[g][m] \in Nat
      BY <3>1, AppendedEntry
    <3>3. \A j \in 1..Len(requests[g]) : requests[g][j].at \in Nat
      BY <3>2 DEF Request
    <3>4. Past(requests[g], spends[g])
      BY DEF PastInv
    <3>5. \A x \in Nat : x <= now => x <= now'
      BY <2>1, <3>1
    <3>6. QED BY <2>1, <3>2, <3>3, <3>4, <3>5 DEF Past
  <2>3. QED BY <1>a, <2>2 DEF PastInv
<1>8. QED
  BY <1>1, <1>3, <1>4, <1>5, <1>6, <1>7 DEF Next

-----------------------------------------------------------------------------

(* A request keeps the histories of its group matched: it is granted, or   *)
(* it is the cold start of a key that had none.                            *)
LEMMA SendingKeepsMatch ==
  ASSUME IsFiniteSet(Key), TypeOK, PastInv, NEW h \in Quota!Metered, NEW f,
         Matches(f, requests[h], spends[h], Cardinality(Started(h))),
         NEW t \in Task, NEW s \in Key, NEW since, StartFetch(t, s, since),
         UNCHANGED feed, call[t].at # "fetching", \A u \in Task : ~ Fetches(u, s)
  PROVE  \E e : Matches(e, requests'[h], spends'[h], Cardinality(Started(h)'))
<1> DEFINE rs == requests[h]
           ss == spends[h]
           old == Started(h)
           new == Started(h)'
<1>1. rs \in Seq(Request) /\ ss \in Seq(Nat) /\ now \in Nat /\ Past(rs, ss)
  BY HistoryOfGroup DEF PastInv
<1>2. \A u \in Task : call'[u] = IF u = t
        THEN [at |-> "fetching", key |-> s, since |-> since, reply |-> Pending] ELSE call[u]
  BY DEF StartFetch, Fetching, TypeOK, LockTypes
<1>3. Fetches(t, s)' /\ \A u \in Task, k \in Key : Fetches(u, k) => Fetches(u, k)'
  BY <1>2 DEF Fetches
<1>4. old \subseteq new
  BY <1>3 DEF Started, KeysOf
<1>5. IsFiniteSet(old) /\ Cardinality(old) \in Nat
  BY StartedIsFinite
<1>6. IsFiniteSet(new) /\ Cardinality(new) \in Nat
  <2>1. new \subseteq Key
    BY DEF Started, KeysOf
  <2>2. QED BY <2>1, FS_Subset, FS_CardinalityType
<1>7. Cardinality(old) <= Cardinality(new)
  BY <1>4, <1>6, FS_Subset
<1>8. ASSUME feed[s] = NoFeed, GroupOf[s] = h
      PROVE  Cardinality(old) + 1 <= Cardinality(new)
  <2>1. s \notin old /\ s \in new
    BY <1>3, <1>8 DEF Started, KeysOf
  <2>2. Cardinality(old \cup {s}) = Cardinality(old) + 1 /\ old \cup {s} \subseteq new
    BY <1>4, <1>5, <2>1, FS_AddElement
  <2>3. QED BY <1>6, <2>2, FS_Subset
<1> HIDE DEF rs, ss, old, new
<1>9. Matches(f, rs, ss, Cardinality(old))
  BY DEF rs, ss, old
<1>10. CASE requests'[h] = rs /\ spends'[h] = ss
  BY <1>1, <1>5, <1>6, <1>7, <1>9, <1>10, MoreExcess DEF new
<1>11. ASSUME NEW r \in Request, r.at = now, requests'[h] = Append(rs, r),
              spends'[h] = Append(ss, now)
       PROVE  \E e : Matches(e, requests'[h], spends'[h], Cardinality(new))
  <2>1. PICK e : Matches(e, Append(rs, r), Append(ss, now), Cardinality(old))
    BY <1>1, <1>5, <1>9, <1>11, GrantedRequestMatches
  <2>2. Append(rs, r) \in Seq(Request) /\ Append(ss, now) \in Seq(Nat)
    BY <1>1, <1>11
  <2>3. Matches(e, Append(rs, r), Append(ss, now), Cardinality(new))
    BY <1>5, <1>6, <1>7, <2>1, <2>2, MoreExcess
  <2>4. QED BY <1>11, <2>3, Zenon
<1>12. ASSUME NEW r \in Request, r.at = now, requests'[h] = Append(rs, r),
              spends'[h] = ss, feed[s] = NoFeed, GroupOf[s] = h
       PROVE  \E e : Matches(e, requests'[h], spends'[h], Cardinality(new))
  <2>1. PICK e : Matches(e, Append(rs, r), ss, Cardinality(old) + 1)
    BY <1>1, <1>5, <1>9, <1>12, ColdRequestMatches
  <2>2. Append(rs, r) \in Seq(Request) /\ Cardinality(old) + 1 \in Nat
    BY <1>1, <1>5, <1>12
  <2>3. Cardinality(old) + 1 <= Cardinality(new)
    BY <1>8, <1>12
  <2>4. Matches(e, Append(rs, r), ss, Cardinality(new))
    BY <1>1, <1>6, <2>1, <2>2, <2>3, MoreExcess
  <2>5. QED BY <1>12, <2>4, Zenon
<1>13. \/ requests'[h] = rs /\ spends'[h] = ss
       \/ \E r \in Request :
            /\ r.at = now /\ requests'[h] = Append(rs, r)
            /\ \/ spends'[h] = Append(ss, now)
               \/ spends'[h] = ss /\ feed[s] = NoFeed /\ GroupOf[s] = h
  <2>1. requests \in [Quota!Metered -> Seq(Request)] /\ spends \in [Quota!Metered -> Seq(Nat)]
    BY DEF TypeOK, Quota!TypeOK, Request
  <2>2. CASE UNCHANGED <<now, requests, spends>>
    BY <2>2 DEF rs, ss
  <2>3. ASSUME NEW r \in Request, r.at = now,
               requests' = [requests EXCEPT ![GroupOf[s]] = Append(@, r)],
               \/ spends' = [spends EXCEPT ![GroupOf[s]] = Append(@, now)]
               \/ feed[s] = NoFeed /\ UNCHANGED spends
        PROVE  \/ requests'[h] = rs /\ spends'[h] = ss
               \/ /\ requests'[h] = Append(rs, r)
                  /\ \/ spends'[h] = Append(ss, now)
                     \/ spends'[h] = ss /\ feed[s] = NoFeed /\ GroupOf[s] = h
    <3>1. CASE GroupOf[s] # h
      BY <2>1, <2>3, <3>1 DEF rs, ss
    <3>2. CASE GroupOf[s] = h
      <4>1. requests'[h] = Append(rs, r)
        BY <2>1, <2>3, <3>2 DEF rs
      <4>2. \/ spends'[h] = Append(ss, now)
            \/ spends'[h] = ss /\ feed[s] = NoFeed
        BY <2>1, <2>3, <3>2 DEF ss
      <4>3. QED BY <3>2, <4>1, <4>2
    <3>3. QED BY <3>1, <3>2
  <2>4. QED BY <2>2, <2>3, StartFetchRecords, Zenon
<1>14. QED BY <1>10, <1>11, <1>12, <1>13 DEF new

(* No step of get() or set() takes the feed of a key away, and while       *)
(* nothing fails no fetch ends without storing one.                        *)
LEMMA ExcessStep ==
  ASSUME IsFiniteSet(Key), TypeOK, LockDiscipline, PastInv, ExcessInv, [Next]_vars
  PROVE  ExcessInv'
<1> DEFINE Whole == \A u \in Task : call[u].at = "fetching" => call[u].reply # Failed
           Matched == \A g \in Quota!Metered : \E f :
                        Matches(f, requests[g], spends[g], Cardinality(Started(g)))
<1>a. LockTypes /\ mishaps \in Nat
  BY CacheAssumption DEF TypeOK, LockTypes
<1>b. (mishaps' = 0 => Whole' /\ Matched') => ExcessInv'
  BY DEF ExcessInv
<1>c. mishaps = 0 => Whole /\ Matched
  BY DEF ExcessInv
<1>d. Quota!Metered' = Quota!Metered
  BY DEF Quota!Metered
<1>e. ASSUME Matched, UNCHANGED <<requests, spends>>,
             \A k \in Key : feed[k] # NoFeed => feed'[k] # NoFeed,
             \A u \in Task, k \in Key : Fetches(u, k) =>
               feed'[k] # NoFeed \/ \E v \in Task : Fetches(v, k)'
      PROVE  Matched'
  <2> SUFFICES ASSUME NEW g \in Quota!Metered
               PROVE  \E f : Matches(f, requests[g], spends[g], Cardinality(Started(g)'))
    BY <1>d, <1>e DEF Matches
  <2>1. PICK f : Matches(f, requests[g], spends[g], Cardinality(Started(g)))
    BY <1>e
  <2>2. Started(g) \subseteq Started(g)' /\ Started(g)' \subseteq Key
    BY <1>e DEF Started, KeysOf
  <2>3. /\ Cardinality(Started(g)) \in Nat /\ Cardinality(Started(g)') \in Nat
        /\ Cardinality(Started(g)) <= Cardinality(Started(g)')
    <3> DEFINE new == Started(g)'
    <3>1. IsFiniteSet(new)
      BY <2>2, FS_Subset
    <3> HIDE DEF new
    <3>2. Cardinality(Started(g)) <= Cardinality(new) /\ Cardinality(new) \in Nat
      BY <2>2, <3>1, FS_Subset, FS_CardinalityType DEF new
    <3>3. QED BY <3>2, StartedIsFinite DEF new
  <2>4. requests[g] \in Seq(Request) /\ spends[g] \in Seq(Nat)
    BY HistoryOfGroup
  <2>5. QED BY <2>1, <2>3, <2>4, MoreExcess
<1>f. ASSUME NEW t \in Task, NEW s \in Key, NEW since, Whole, Matched, UNCHANGED feed,
             StartFetch(t, s, since), call[t].at # "fetching",
             \A u \in Task : ~ Fetches(u, s)
      PROVE  Whole' /\ Matched'
  <2> DEFINE c == [at |-> "fetching", key |-> s, since |-> since, reply |-> Pending]
  <2>1. \A u \in Task : call'[u] = IF u = t THEN c ELSE call[u]
    BY <1>a, <1>f DEF StartFetch, Fetching, LockTypes
  <2>2. c.reply # Failed
    BY DEF Pending, Failed
  <2> HIDE DEF c
  <2>3. Whole'
    BY <1>f, <2>1, <2>2
  <2>4. \A h \in Quota!Metered :
          \E e : Matches(e, requests'[h], spends'[h], Cardinality(Started(h)'))
    BY <1>f, SendingKeepsMatch
  <2>5. Matched'
    BY <1>d, <2>4 DEF Matches
  <2>6. QED BY <2>3, <2>5
<1>g. ASSUME NEW t \in Task, NEW c, Whole, Matched, UNCHANGED <<feed, requests, spends>>,
             call[t].at # "fetching", call' = [call EXCEPT ![t] = c], c.at # "fetching"
      PROVE  Whole' /\ Matched'
  <2>1. \A u \in Task : call'[u] = IF u = t THEN c ELSE call[u]
    BY <1>a, <1>g DEF LockTypes
  <2>2. \A u \in Task, k \in Key : Fetches(u, k) => Fetches(u, k)'
    BY <1>g, <2>1 DEF Fetches
  <2>3. QED BY <1>e, <1>g, <2>1, <2>2
<1>1. ASSUME NEW t \in Task, NEW s \in Key, CallFree(t, s)
      PROVE  ExcessInv'
  <2>1. UNCHANGED <<feed, mishaps>> /\ call[t].at # "fetching" /\ Idle.at # "fetching"
    BY <1>1 DEF CallFree, cacheVars, Idle
  <2>2. \A u \in Task : ~ Fetches(u, s)
    BY <1>1 DEF CallFree, LockDiscipline, Owner
  <2>3. StartFetch(t, s, published[s]) \/ ServeStale(t, s)
    BY <1>1 DEF CallFree
  <2>4. CASE StartFetch(t, s, published[s])
    BY <1>b, <1>c, <1>f, <2>1, <2>2, <2>4
  <2>5. CASE ServeStale(t, s)
    <3>1. UNCHANGED <<requests, spends>> /\ call' = [call EXCEPT ![t] = Idle]
      BY <2>5, StaleRecordsNothing DEF ServeStale
    <3>2. QED BY <1>b, <1>c, <1>g, <2>1, <3>1
  <2>6. QED BY <2>3, <2>4, <2>5
<1>2. ASSUME NEW t \in Task, NEW s \in Key, CallQueued(t, s)
      PROVE  ExcessInv'
  <2> DEFINE c == [at |-> "waiting", key |-> s, since |-> published[s]]
  <2>1. /\ UNCHANGED <<feed, requests, spends, mishaps>> /\ call[t].at # "fetching"
        /\ call' = [call EXCEPT ![t] = c] /\ c.at # "fetching"
    BY <1>2 DEF CallQueued, cacheVars, quotaVars, Idle
  <2> HIDE DEF c
  <2>2. QED BY <1>b, <1>c, <1>g, <2>1
<1>3. ASSUME NEW t \in Task, Wake(t)
      PROVE  ExcessInv'
  <2> DEFINE s == call[t].key
  <2>1. /\ UNCHANGED <<feed, mishaps>> /\ call[t].at = "waiting" /\ Idle.at # "fetching"
        /\ s \in Key /\ Owner(t, s)
    BY <1>3, VersionTypes DEF Wake, cacheVars, Idle
  <2>2. \A u \in Task : ~ Fetches(u, s)
    <3>1. \A u \in Task : Fetches(u, s) => u = t
      BY <2>1 DEF LockDiscipline, Owner
    <3>2. QED BY <2>1, <3>1 DEF Fetches
  <2>3. \/ call' = [call EXCEPT ![t] = Idle] /\ UNCHANGED <<requests, quotaVars>>
        \/ StartFetch(t, s, call[t].since) \/ ServeStale(t, s)
    BY <1>3 DEF Wake
  <2> HIDE DEF s
  <2>4. CASE StartFetch(t, s, call[t].since)
    BY <1>b, <1>c, <1>f, <2>1, <2>2, <2>4
  <2>5. CASE ServeStale(t, s) \/ (call' = [call EXCEPT ![t] = Idle] /\ UNCHANGED <<requests, quotaVars>>)
    <3>1. UNCHANGED <<requests, spends>> /\ call' = [call EXCEPT ![t] = Idle]
      BY <2>1, <2>5, StaleRecordsNothing DEF ServeStale, quotaVars
    <3>2. QED BY <1>b, <1>c, <1>g, <2>1, <3>1
  <2>6. QED BY <2>3, <2>4, <2>5
<1>4. ASSUME NEW t \in Task, Respond(t)
      PROVE  ExcessInv'
  <2>1. /\ call[t] \in Suspended /\ UNCHANGED <<feed, requests, spends>>
        /\ \/ mishaps' = mishaps + 1
           \/ /\ UNCHANGED mishaps
              /\ call' = [call EXCEPT ![t].reply = published[call[t].key]]
    BY <1>a, <1>4, CallFields DEF Respond, cacheVars, quotaVars
  <2>2. SUFFICES ASSUME mishaps' = 0 PROVE Whole' /\ Matched'
    BY <1>b
  <2>3. mishaps = 0 /\ call' = [call EXCEPT ![t].reply = published[call[t].key]]
    BY <1>a, <2>1, <2>2
  <2>4. /\ call'[t].at = call[t].at /\ call'[t].key = call[t].key
        /\ call'[t].reply = published[call[t].key]
        /\ \A u \in Task : u # t => call'[u] = call[u]
    BY <1>a, <2>1, <2>3 DEF Suspended, LockTypes
  <2>5. published[call[t].key] # Failed
    BY <1>4, VersionTypes DEF Respond, Idle, Failed
  <2>6. Whole'
    BY <1>c, <2>3, <2>4, <2>5
  <2>7. \A u \in Task, k \in Key : Fetches(u, k) => Fetches(u, k)'
    BY <2>4 DEF Fetches
  <2>8. QED BY <1>c, <1>e, <2>1, <2>3, <2>6, <2>7
<1>5. ASSUME NEW t \in Task, FetchOk(t)
      PROVE  ExcessInv'
  <2> DEFINE s == call[t].key
  <2>1. /\ Fetches(t, s) /\ s \in Key /\ UNCHANGED <<requests, spends, mishaps>>
        /\ \A u \in Task : call'[u] = IF u = t THEN Idle ELSE call[u]
        /\ \A k \in Key : feed'[k] = IF k = s THEN call[t].reply ELSE feed[k]
        /\ call[t].reply # NoFeed /\ Idle.at # "fetching"
    BY <1>a, <1>5, CallFields DEF FetchOk, Fetches, LockTypes, Idle, quotaVars, Pending, NoFeed
  <2> HIDE DEF s
  <2>2. \A k \in Key : feed[k] # NoFeed => feed'[k] # NoFeed
    BY <2>1
  <2>3. \A u \in Task, k \in Key : Fetches(u, k) => feed'[k] # NoFeed \/ Fetches(u, k)'
    BY <2>1 DEF Fetches
  <2>4. Whole => Whole'
    BY <2>1
  <2>5. QED BY <1>b, <1>c, <1>e, <2>1, <2>2, <2>3, <2>4
<1>6. ASSUME NEW t \in Task, FetchFailed(t)
      PROVE  ExcessInv'
  <2>1. mishaps # 0 /\ UNCHANGED mishaps
    BY <1>c, <1>6 DEF FetchFailed
  <2>2. QED BY <1>b, <2>1
<1>7. ASSUME NEW t \in Task, Cancel(t)
      PROVE  ExcessInv'
  <2>1. mishaps' # 0
    BY <1>a, <1>7 DEF Cancel
  <2>2. QED BY <1>b, <2>1
<1>8. ASSUME UNCHANGED <<call, requests, spends, mishaps>>,
             \A k \in Key : feed[k] # NoFeed => feed'[k] # NoFeed
      PROVE  ExcessInv'
  <2>1. (Whole => Whole') /\ \A u \in Task, k \in Key : Fetches(u, k) => Fetches(u, k)'
    BY <1>8 DEF Fetches
  <2>2. QED BY <1>b, <1>c, <1>e, <1>8, <2>1
<1>9. CASE SetFeeds
  <2>1. \A k \in Regional : combined # NoCombined => combined[k] # NoFeed
    BY <1>a, CacheAssumption DEF LockTypes, Version, NoFeed
  <2>2. PICK mentioned \in SUBSET Regional : SetMentioned(mentioned)
    BY <1>9 DEF SetFeeds
  <2>3. \A k \in Key : feed[k] # NoFeed => feed'[k] # NoFeed
    BY <2>1, <2>2 DEF SetMentioned
  <2>4. UNCHANGED <<call, requests, spends, mishaps>>
    BY <2>2 DEF SetMentioned, quotaVars
  <2>5. QED BY <1>8, <2>3, <2>4
<1>10. ASSUME CombinedReply \/ (\E s \in Key : Publish(s)) \/ Tick \/ UNCHANGED vars
       PROVE  ExcessInv'
  <2>1. UNCHANGED <<call, requests, spends, mishaps, feed>>
    BY <1>10 DEF CombinedReply, Publish, Tick, Quota!Tick, vars, quotaVars, cacheVars
  <2>2. QED BY <1>8, <2>1
<1>11. QED
  BY <1>1, <1>2, <1>3, <1>4, <1>5, <1>6, <1>7, <1>9, <1>10 DEF Next

(* The cold starts are the only excess over the shared budget: while       *)
(* nothing fails, any window holds at most the limit and one request for   *)
(* each key of the group, for any number of keys, callers and limits.      *)
THEOREM ColdStartsAreTheExcess ==
  ASSUME IsFiniteSet(Key)
  PROVE  Spec => []ExcessOnlyFromColdStarts
<1>1. Init => PastInv /\ ExcessInv
  <2> SUFFICES ASSUME Init PROVE PastInv /\ ExcessInv
    OBVIOUS
  <2>1. \A g \in Quota!Metered : requests[g] = << >> /\ spends[g] = << >>
    BY DEF Init, Quota!Init
  <2>2. PastInv
    BY <2>1 DEF PastInv, Past
  <2>3. \A u \in Task : call[u].at # "fetching"
    BY DEF Init, Idle
  <2>4. ASSUME NEW e \in Nat PROVE \E f : Matches(f, << >>, << >>, e)
    <3> DEFINE f == [j \in 0..0 |-> 0]
    <3>1. Matches(f, << >>, << >>, e)
      BY DEF Matches
    <3>2. QED BY <3>1
  <2>5. QED BY <2>1, <2>2, <2>3, <2>4, StartedIsFinite DEF ExcessInv
<1>2. TypeOK /\ LockDiscipline /\ PastInv /\ ExcessInv /\ [Next]_vars => PastInv' /\ ExcessInv'
  BY PastStep, ExcessStep
<1>3. TypeOK /\ ExcessInv /\ Quota!WindowBound => ExcessOnlyFromColdStarts
  <2> SUFFICES ASSUME TypeOK, ExcessInv, Quota!WindowBound, mishaps = 0, NEW g \in Quota!Metered
               PROVE  WithinHeadroom(g)
    BY DEF ExcessOnlyFromColdStarts
  <2> DEFINE rs == requests[g]
             ss == spends[g]
             limit == QUOTA_GROUP_LIMITS[g]
             keys == Cardinality(KeysOf(g))
  <2>1. PICK f : Matches(f, rs, ss, Cardinality(Started(g)))
    BY DEF ExcessInv
  <2>2. rs \in Seq(Request) /\ ss \in Seq(Nat)
    BY HistoryOfGroup
  <2>3. keys \in Nat /\ Cardinality(Started(g)) \in Nat /\ Cardinality(Started(g)) <= keys
    BY StartedIsFinite
  <2>4. limit \in Nat
    BY CacheAssumption DEF Quota!Metered
  <2>5. Quota!WithinBudget(ss, limit)
    BY DEF Quota!WindowBound
  <2> HIDE DEF rs, ss, limit, keys
  <2>6. Matches(f, rs, ss, keys)
    BY <2>1, <2>2, <2>3, MoreExcess
  <2>7. Quota!WithinBudget([i \in 1..Len(rs) |-> rs[i].at], limit + keys)
    BY <2>2, <2>3, <2>4, <2>5, <2>6, MatchedWithinHeadroom
  <2>8. QED BY <2>7 DEF WithinHeadroom, rs, limit, keys
<1>4. QED BY <1>1, <1>2, <1>3, TypeCorrect, LockHeld, BudgetHeldInCache, PTL DEF Spec
=============================================================================
