-------------------------- MODULE RealtimeFeedCache --------------------------
(***************************************************************************)
(* RealtimeFeedCache.get and .set on one asyncio event loop.  The callers  *)
(* are coroutines: between two awaits a coroutine runs alone, so each      *)
(* action below is what happens from one await of get() to the next.  The  *)
(* awaits are the acquisition of the key's asyncio.Lock and the fetch,     *)
(* which runs in a worker thread.  Feeds are abstracted to the version of  *)
(* the source's data they were made from.                                  *)
(***************************************************************************)
EXTENDS Integers, Sequences, FiniteSets, SequencesExt

CONSTANTS
  Group, QUOTA_GROUP_LIMITS, WINDOW_SECONDS, MaxTime, MaxRestarts,
  Key,          \* cache keys: transit systems and "<system>:alerts"
  Task,         \* coroutines that call get()
  SchedulerTask,\* the tasks that pass min_interval_seconds = 0
  Regional,     \* keys that the regional scheduler writes with set()
  MinInterval,  \* min_poll_interval_seconds of each key
  GroupOf,      \* quota_group of each key, or NoGroup
  NoGroup,
  MaxVersion,   \* bound of the runs: versions the source publishes
  Changing,     \* bound of the runs: keys whose source publishes new ones
  MaxMishaps    \* bound of the runs: failed fetches and cancellations

ASSUME CacheAssumption ==
  /\ DOMAIN QUOTA_GROUP_LIMITS \subseteq Group
  /\ QUOTA_GROUP_LIMITS \in [DOMAIN QUOTA_GROUP_LIMITS -> Nat]
  /\ WINDOW_SECONDS \in Nat \ {0} /\ MaxTime \in Nat /\ MaxRestarts \in Nat
  /\ SchedulerTask \subseteq Task
  /\ Regional \subseteq Key /\ Changing \subseteq Key
  /\ MinInterval \in [Key -> Nat]
  /\ GroupOf \in [Key -> Group \cup {NoGroup}]
  /\ NoGroup \notin Group
  /\ MaxVersion \in Nat \ {0} /\ MaxMishaps \in Nat

VARIABLES
  now, timestamps, spends, earlier, restarts,  \* SharedFeedQuota
  published, \* the version of each key's data that the source serves now
  feed,      \* _feed: the cached version, NoFeed when there is none
  fetchedAt, \* _fetched_at
  queue,     \* _locks: the holder of each key's lock, then its waiters
  call,      \* where each task is inside get()
  combined,  \* the feed the regional scheduler is about to set(), if any
  requests,  \* history: the requests sent for each metered group
  mishaps    \* history: failures and cancellations so far

quotaVars == <<timestamps, spends, earlier, restarts>>
cacheVars == <<feed, fetchedAt>>
vars == <<now, timestamps, spends, earlier, restarts, published, feed,
          fetchedAt, queue, call, combined, requests, mishaps>>

Quota == INSTANCE SharedFeedQuota

NoFeed == 0
Version == 1..MaxVersion
Pending == 0
Failed == -1
Idle == [at |-> "idle"]
NoCombined == << >>

Init ==
  /\ Quota!Init
  /\ published = [s \in Key |-> 1]
  /\ feed = [s \in Key |-> NoFeed]
  /\ fetchedAt = [s \in Key |-> 0]
  /\ queue = [s \in Key |-> << >>]
  /\ call = [t \in Task |-> Idle]
  /\ combined = NoCombined
  /\ requests = [g \in Quota!Metered |-> << >>]
  /\ mishaps = 0

-----------------------------------------------------------------------------

(* The min_interval_seconds that a task passes for a key.                  *)
Interval(t, s) == IF t \in SchedulerTask THEN 0 ELSE MinInterval[s]

IsFresh(s, interval) == feed[s] # NoFeed /\ now - fetchedAt[s] < interval

(* `quota_group is None or try_consume(quota_group)` is `answer`.          *)
MayFetch(s, answer) ==
  IF GroupOf[s] = NoGroup
  THEN answer /\ UNCHANGED quotaVars /\ UNCHANGED now
  ELSE Quota!TryConsume(GroupOf[s], answer)

RecordRequest(s) ==
  requests' = IF GroupOf[s] \in Quota!Metered
              THEN [requests EXCEPT ![GroupOf[s]] =
                      Append(@, [at |-> now, cold |-> feed[s] = NoFeed])]
              ELSE requests

Fetching(t, s, since) ==
  call' = [call EXCEPT ![t] =
             [at |-> "fetching", key |-> s, since |-> since, reply |-> Pending]]

(* Mutant: the request is sent whatever try_consume answered.              *)
StartFetchAnyway(t, s, since) ==
  /\ \E answer \in BOOLEAN : MayFetch(s, answer)
  /\ RecordRequest(s)
  /\ Fetching(t, s, since)

(* The body of `async with lock` up to `await fetch()`, for a task that    *)
(* holds the lock of s and found the cache stale.                          *)
StartFetch(t, s, since) ==
  /\ \E answer \in BOOLEAN :
       MayFetch(s, answer) /\ (answer \/ feed[s] = NoFeed)
  /\ RecordRequest(s)
  /\ Fetching(t, s, since)

(* The budget is spent and a stale feed is cached: it is returned.         *)
ServeStale(t, s) ==
  /\ feed[s] # NoFeed
  /\ MayFetch(s, FALSE)
  /\ call' = [call EXCEPT ![t] = Idle]
  /\ UNCHANGED requests

(* Mutant: the fetch is not under the key's lock.                          *)
CallUnlocked(t, s) ==
  /\ call[t] = Idle
  /\ ~ IsFresh(s, Interval(t, s))
  /\ \/ StartFetch(t, s, published[s]) /\ queue' = [queue EXCEPT ![s] = Append(@, t)]
     \/ ServeStale(t, s) /\ UNCHANGED queue
  /\ UNCHANGED <<published, cacheVars, combined, mishaps>>

(* get() on a stale key whose lock is free: asyncio.Lock is acquired       *)
(* without suspending, so nothing can happen before the second check.      *)
CallFree(t, s) ==
  /\ call[t] = Idle
  /\ ~ IsFresh(s, Interval(t, s))
  /\ queue[s] = << >>
  /\ \/ /\ StartFetch(t, s, published[s])
        /\ queue' = [queue EXCEPT ![s] = <<t>>]
     \/ ServeStale(t, s) /\ UNCHANGED queue
  /\ UNCHANGED <<published, cacheVars, combined, mishaps>>

(* get() on a stale key whose lock is held or has waiters: it suspends.    *)
CallQueued(t, s) ==
  /\ call[t] = Idle
  /\ ~ IsFresh(s, Interval(t, s))
  /\ queue[s] # << >>
  /\ queue' = [queue EXCEPT ![s] = Append(@, t)]
  /\ call' = [call EXCEPT ![t] = [at |-> "waiting", key |-> s, since |-> published[s]]]
  /\ UNCHANGED <<now, quotaVars, published, cacheVars, combined, requests, mishaps>>

Release(s) == queue' = [queue EXCEPT ![s] = Tail(@)]

Owner(t, s) == queue[s] # << >> /\ Head(queue[s]) = t

(* Mutant: a waiter fetches without checking the cache again.              *)
WakeWithoutRecheck(t) ==
  /\ call[t].at = "waiting"
  /\ LET s == call[t].key
     IN  /\ Owner(t, s)
         /\ \/ StartFetch(t, s, call[t].since) /\ UNCHANGED queue
            \/ ServeStale(t, s) /\ Release(s)
  /\ UNCHANGED <<published, cacheVars, combined, mishaps>>

(* Mutant: a waiter returns whatever the holder before it left.            *)
WakeTrustsHolder(t) ==
  /\ call[t].at = "waiting"
  /\ LET s == call[t].key
     IN  /\ Owner(t, s)
         /\ \/ /\ feed[s] # NoFeed
               /\ call' = [call EXCEPT ![t] = Idle]
               /\ Release(s)
               /\ UNCHANGED <<now, quotaVars, requests>>
            \/ /\ feed[s] = NoFeed
               /\ StartFetch(t, s, call[t].since)
               /\ UNCHANGED queue
  /\ UNCHANGED <<published, cacheVars, combined, mishaps>>

(* The lock reaches a waiter, which checks the cache again.                *)
Wake(t) ==
  /\ call[t].at = "waiting"
  /\ LET s == call[t].key
     IN  /\ Owner(t, s)
         /\ \/ /\ IsFresh(s, Interval(t, s))
               /\ call' = [call EXCEPT ![t] = Idle]
               /\ Release(s)
               /\ UNCHANGED <<now, quotaVars, requests>>
            \/ /\ ~ IsFresh(s, Interval(t, s))
               /\ StartFetch(t, s, call[t].since)
               /\ UNCHANGED queue
            \/ /\ ~ IsFresh(s, Interval(t, s))
               /\ ServeStale(t, s)
               /\ Release(s)
  /\ UNCHANGED <<published, cacheVars, combined, mishaps>>

(* The worker thread: the source answers with what it publishes now, or    *)
(* the request fails (an error, the 30 s timeout, an unparsable body).     *)
Respond(t) ==
  /\ call[t].at = "fetching"
  /\ call[t].reply = Pending
  /\ \/ /\ call' = [call EXCEPT ![t].reply = published[call[t].key]]
        /\ UNCHANGED mishaps
     \/ /\ mishaps < MaxMishaps
        /\ mishaps' = mishaps + 1
        /\ call' = [call EXCEPT ![t].reply = Failed]
  /\ UNCHANGED <<now, quotaVars, published, cacheVars, queue, combined, requests>>

(* The event loop resumes the task with the feed: it is cached, stamped    *)
(* with the time of completion, and returned.                              *)
FetchOk(t) ==
  /\ call[t].at = "fetching"
  /\ call[t].reply \notin {Pending, Failed}
  /\ LET s == call[t].key
     IN  /\ feed' = [feed EXCEPT ![s] = call[t].reply]
         /\ fetchedAt' = [fetchedAt EXCEPT ![s] = now]
         /\ Release(s)
  /\ call' = [call EXCEPT ![t] = Idle]
  /\ UNCHANGED <<now, quotaVars, published, combined, requests, mishaps>>

(* Mutant: lock.acquire() and release() without `async with`.              *)
FetchFailedKeepsLock(t) ==
  /\ call[t].at = "fetching"
  /\ call[t].reply = Failed
  /\ call' = [call EXCEPT ![t] = Idle]
  /\ UNCHANGED <<now, quotaVars, published, cacheVars, queue, combined, requests, mishaps>>

(* The fetch raised: the exception leaves `async with`, nothing is cached. *)
FetchFailed(t) ==
  /\ call[t].at = "fetching"
  /\ call[t].reply = Failed
  /\ Release(call[t].key)
  /\ call' = [call EXCEPT ![t] = Idle]
  /\ UNCHANGED <<now, quotaVars, published, cacheVars, combined, requests, mishaps>>

(* The task is cancelled (its client left, or the application stops): it   *)
(* leaves the queue, and the answer to a request it sent is dropped.       *)
Cancel(t) ==
  /\ call[t] # Idle
  /\ mishaps < MaxMishaps
  /\ mishaps' = mishaps + 1
  /\ \E i \in 1..Len(queue[call[t].key]) :
       /\ queue[call[t].key][i] = t
       /\ queue' = [queue EXCEPT ![call[t].key] = RemoveAt(@, i)]
  /\ call' = [call EXCEPT ![t] = Idle]
  /\ UNCHANGED <<now, quotaVars, published, cacheVars, combined, requests>>

(* The regional fetch answers with one version for each key it covers.     *)
CombinedReply ==
  /\ Regional # {}
  /\ combined = NoCombined
  /\ combined' = [s \in Regional |-> published[s]]
  /\ UNCHANGED <<now, quotaVars, published, cacheVars, queue, call, requests, mishaps>>

(* Mutant: set() keeps a feed that is already cached.                      *)
SetIfAbsent(mentioned) ==
  /\ combined # NoCombined
  /\ feed' = [s \in Key |-> IF s \in mentioned /\ feed[s] = NoFeed
                            THEN combined[s] ELSE feed[s]]
  /\ fetchedAt' = [s \in Key |-> IF s \in mentioned THEN now ELSE fetchedAt[s]]
  /\ combined' = NoCombined
  /\ UNCHANGED <<now, quotaVars, published, queue, call, requests, mishaps>>

(* The scheduler resumes and calls set() for the keys the demultiplexed    *)
(* feed mentions, without their locks and without an await in between.     *)
SetMentioned(mentioned) ==
  /\ combined # NoCombined
  /\ feed' = [s \in Key |-> IF s \in mentioned THEN combined[s] ELSE feed[s]]
  /\ fetchedAt' = [s \in Key |-> IF s \in mentioned THEN now ELSE fetchedAt[s]]
  /\ combined' = NoCombined
  /\ UNCHANGED <<now, quotaVars, published, queue, call, requests, mishaps>>

SetFeeds == \E mentioned \in SUBSET Regional : SetMentioned(mentioned)

(* The source publishes newer data for a key.                              *)
Publish(s) ==
  /\ s \in Changing
  /\ published[s] < MaxVersion
  /\ published' = [published EXCEPT ![s] = @ + 1]
  /\ UNCHANGED <<now, quotaVars, cacheVars, queue, call, combined, requests, mishaps>>

Tick ==
  /\ Quota!Tick
  /\ UNCHANGED <<published, cacheVars, queue, call, combined, requests, mishaps>>

Next ==
  \/ \E t \in Task :
       \/ \E s \in Key : CallFree(t, s) \/ CallQueued(t, s)
       \/ Wake(t) \/ Respond(t) \/ FetchOk(t) \/ FetchFailed(t) \/ Cancel(t)
  \/ CombinedReply \/ SetFeeds
  \/ \E s \in Key : Publish(s)
  \/ Tick

(* The event loop resumes every ready task, and requests.get(timeout=30)   *)
(* always ends, with a response or an exception.                           *)
CallFairness ==
  \A t \in Task :
    WF_vars(Wake(t)) /\ WF_vars(Respond(t)) /\ WF_vars(FetchOk(t) \/ FetchFailed(t))

(* The regional scheduler's run() never ends: it skips the ticks that the  *)
(* shared budget denies and survives those that raise, so combined feeds   *)
(* keep coming, and one that mentions a key that has vehicles on the road. *)
RegionalFairness ==
  /\ WF_vars(CombinedReply)
  /\ \A s \in Regional :
       SF_vars(\E mentioned \in SUBSET Regional : s \in mentioned /\ SetMentioned(mentioned))

Fairness == CallFairness /\ RegionalFairness

Spec == Init /\ [][Next]_vars /\ Fairness

-----------------------------------------------------------------------------

WaitsFor(t, s) == call[t].at = "waiting" /\ call[t].key = s
Fetches(t, s) == call[t].at = "fetching" /\ call[t].key = s

CallType ==
  {Idle} \cup [at : {"waiting"}, key : Key, since : Version]
         \cup [at : {"fetching"}, key : Key, since : Version,
               reply : Version \cup {Pending, Failed}]

(* The types of the state; the records of a call depend on where it is.    *)
LockTypes ==
  /\ published \in [Key -> Version]
  /\ feed \in [Key -> Version \cup {NoFeed}]
  /\ queue \in [Key -> Seq(Task)]
  /\ call \in [Task -> CallType]
  /\ combined \in {NoCombined} \cup [Regional -> Version]
  /\ mishaps \in 0..MaxMishaps

TypeOK ==
  /\ Quota!TypeOK
  /\ LockTypes
  /\ fetchedAt \in [Key -> Nat]
  /\ requests \in [Quota!Metered -> Seq([at : Nat, cold : BOOLEAN])]

(* The lock of a key and the tasks inside get() agree: exactly the tasks   *)
(* that suspended in get() for the key are in its queue, once each, and    *)
(* only the first of them may be fetching.  So at most one request per key *)
(* is awaited at any time, however many callers race and are cancelled.    *)
LockDiscipline ==
  \A s \in Key :
    /\ \A t \in Task :
         (WaitsFor(t, s) \/ Fetches(t, s)) <=> \E i \in 1..Len(queue[s]) : queue[s][i] = t
    /\ \A i, j \in 1..Len(queue[s]) : queue[s][i] = queue[s][j] => i = j
    /\ \A t \in Task : Fetches(t, s) => Owner(t, s)

(* "Every caller for the same transit_system shares one fetch, refreshed   *)
(* at most once every min_poll_interval_seconds": a fetch that get() makes *)
(* replaces a feed only when that feed is at least the caller's interval   *)
(* old, also when the caller waited behind another caller's fetch.         *)
RefreshSpacing ==
  [][\A t \in Task : FetchOk(t) =>
       LET s == call[t].key
       IN  s \in Regional \/ feed[s] = NoFeed
             \/ now - fetchedAt[s] >= Interval(t, s)]_vars

(* get() alone never replaces a cached feed by an older one, although      *)
(* requests, answers and resumptions of many tasks interleave: the lock is *)
(* held from before the request until the answer is stored.                *)
NeverOlder == [][\A s \in Key \ Regional : feed'[s] >= feed[s]]_vars

(* Why: an answer that waits to be stored is no older than the cached      *)
(* feed, and neither is newer than what the source publishes.              *)
AnswersFresh ==
  \A s \in Key \ Regional :
    /\ feed[s] <= published[s]
    /\ \A t \in Task : (Fetches(t, s) /\ call[t].reply \notin {Pending, Failed}) =>
         feed[s] <= call[t].reply /\ call[t].reply <= published[s]

(* The keys that only get() writes, their feeds and the requests on their  *)
(* way.                                                                    *)
Private == Key \ Regional
InFlight(s) == {call[t].reply : t \in {u \in Task : Fetches(u, s)}}
PrivatePublished == [s \in Private |-> published[s]]
PrivateFeed == [s \in Private |-> feed[s]]
PrivateRequest == [s \in Private |-> InFlight(s)]

(* "Every caller for the same transit_system shares one fetch": however    *)
(* many callers race, wait, fail and are cancelled, the cache of a key is  *)
(* what one fetcher with one request at a time would have made of it.      *)
Single == INSTANCE SingleFetcher WITH
  Key       <- Private,
  published <- PrivatePublished,
  feed      <- PrivateFeed,
  inflight  <- PrivateRequest

ImplementsSingleFetcher == Single!Spec

(* "A value of 0 means never cache": a caller that passes interval 0 and   *)
(* has no shared budget gets data at least as new as what the source       *)
(* served when it called, also when it queued behind other callers.        *)
ZeroIntervalIsCurrent ==
  [][\A t \in Task :
       LET s == call[t].key
       IN  /\ call[t] # Idle
           /\ Interval(t, s) = 0 /\ GroupOf[s] = NoGroup
           /\ Wake(t) \/ FetchOk(t)
           /\ call'[t] = Idle
           => feed'[s] >= call[t].since]_vars

KeysOf(g) == {s \in Key : GroupOf[s] = g}

(* The requests of a group, with headroom for one cold start of each key.  *)
WithinHeadroom(g) ==
  Quota!WithinBudget([i \in 1..Len(requests[g]) |-> requests[g][i].at],
                     QUOTA_GROUP_LIMITS[g] + Cardinality(KeysOf(g)))

(* The cold starts that bypass the budget are the only excess, and while   *)
(* nothing fails each key has one: every window then holds at most the     *)
(* limit plus one request per key of the group.                            *)
ExcessOnlyFromColdStarts ==
  mishaps = 0 => \A g \in Quota!Metered : WithinHeadroom(g)

(* set() takes no lock, so an answer that get() requested before a combined *)
(* fetch may be stored after it, and the other way round: the feed of a    *)
(* regional key can go back.  It never stays back: once the source stops   *)
(* changing, the late answers run out and the current feed is cached.      *)
RacesHeal == \A s \in Regional : <>[](feed[s] = published[s])

(* Every get() ends: behind a slow or failing fetch, a cancelled holder or *)
(* a queue of other callers, the lock always reaches the caller.           *)
GetReturns == \A t \in Task : call[t] # Idle ~> call[t] = Idle
=============================================================================
