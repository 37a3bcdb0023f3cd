----------------------------- MODULE TransitFeed -----------------------------
(***************************************************************************)
(* The SSE endpoint transit_feed() and the RecentEventsCache its streams   *)
(* share, for one transit system.  A stream first sends a burst of the     *)
(* recent events, then loops: get the feed, yield one event per located    *)
(* trip, merge the poll into RecentEventsCache, sleep.  It is suspended at *)
(* every yield until its own client has taken the event, so a slow client  *)
(* merges its poll long after it obtained it.  A feed is abstracted to its *)
(* version and, per trip, the timestamp of the position.                   *)
(* The feed comes through RealtimeFeedCache: get() fetches under the key's *)
(* lock, and for a member of a regional feed set() stores a part of the    *)
(* combined feed without it.  A fetch answers with a feed that was the     *)
(* newest of the source at some time while it lasted.                      *)
(***************************************************************************)
EXTENDS Integers, Sequences, FiniteSets

CONSTANTS
  Client, Trip,
  MAX_EVENTS,
  Regional,      \* whether the system may be a member of a regional feed
  MaxVersion     \* bound of the runs: feeds that the source publishes

ASSUME FeedAssumption ==
  /\ IsFiniteSet(Trip) /\ MAX_EVENTS \in Nat \ {0} /\ MaxVersion \in Nat \ {0}
  /\ Regional \subseteq BOOLEAN

VARIABLES
  published, \* every feed the source has published, oldest first
  cached,    \* the version in RealtimeFeedCache, 0 for none
  regional,  \* whether RegionalFeedScheduler stores this system's feed
  fetch,     \* the fetch of get() under the key's lock, or NoFetch
  combined,  \* the combined fetch of RegionalFeedScheduler, or NoFetch
  events,    \* RecentEventsCache: the position of each trip, or NoEvent
  stream,    \* where the generator of each client is
  shown,     \* history: the newest version each client has been sent
  overtaken  \* history: an answer has been stored over a newer feed

cacheVars == <<cached, regional, fetch, combined, overtaken>>
vars == <<published, cached, regional, fetch, combined, events, stream, shown, overtaken>>

Absent == -1
NoLocation == 0
NoEvent == [ver |-> 0, ts |-> 0]
Closed == [at |-> "closed"]
Polling == [at |-> "polling"]
Fetching == [at |-> "fetching"]
Sleeping == [at |-> "sleeping"]
NoFetch == -1

Init ==
  /\ published = << >>
  /\ cached = 0
  /\ regional \in Regional
  /\ fetch = NoFetch
  /\ combined = NoFetch
  /\ overtaken = FALSE
  /\ events = [t \in Trip |-> NoEvent]
  /\ stream = [c \in Client |-> Closed]
  /\ shown = [c \in Client |-> 0]

-----------------------------------------------------------------------------

(* Trips with a trip_update in a feed, and those get_location() can place. *)
Live(v) == {t \in Trip : published[v][t] # Absent}
Located(v) == {t \in Trip : published[v][t] \notin {Absent, NoLocation}}

Known(ev) == {t \in Trip : ev[t] # NoEvent}

(* The source publishes a feed.  A position was measured in this poll or   *)
(* in the one before it.                                                   *)
Publish ==
  /\ Len(published) < MaxVersion
  /\ LET v == Len(published) + 1
     IN  \E f \in [Trip -> {Absent, NoLocation, v, v + 1}] : published' = Append(published, f)
  /\ UNCHANGED <<cacheVars, events, stream, shown>>

(* RecentEventsCache.get filtered by RealtimeFeedCache.peek: the burst a   *)
(* new client is sent.                                                     *)
Burst == IF cached = 0 THEN Known(events) ELSE Known(events) \cap Live(cached)

(* A client connects: the burst is computed before its first event.        *)
Connect(c) ==
  /\ stream[c] = Closed
  /\ \E newest \in {events[t].ver : t \in Burst} \cup {0} :
       /\ \A t \in Burst : events[t].ver <= newest
       /\ stream' = [stream EXCEPT ![c] = [at |-> "burst", newest |-> newest]]
  /\ UNCHANGED <<published, cacheVars, events, shown>>

(* The client has taken the whole burst; the poll loop begins.             *)
BurstSent(c) ==
  /\ stream[c].at = "burst"
  /\ shown' = [shown EXCEPT ![c] = stream[c].newest]
  /\ stream' = [stream EXCEPT ![c] = Polling]
  /\ UNCHANGED <<published, cacheVars, events>>

(* A fetch begins, at a time that the number of feeds published tells.     *)
Begins == Len(published)

(* What a fetch that began at `since` may answer.                          *)
Answers(since) == {v \in 1..Len(published) : v >= since}

Store(v) ==
  /\ cached' = v
  /\ overtaken' = (overtaken \/ v < cached)

(* get() serves the feed in the cache: it is younger than the interval, or *)
(* the quota is spent.                                                     *)
GetCached(c) ==
  /\ stream[c] = Polling
  /\ cached # 0
  /\ stream' = [stream EXCEPT ![c] = [at |-> "yielding", feed |-> cached]]
  /\ UNCHANGED <<published, cacheVars, events, shown>>

(* Mutant: get() fetches without the lock, and the answers of two streams  *)
(* may arrive in any order.                                                *)
GetBeginsUnlocked(c) ==
  /\ stream[c] = Polling
  /\ fetch' = IF fetch = NoFetch THEN Begins ELSE fetch
  /\ stream' = [stream EXCEPT ![c] = Fetching]
  /\ UNCHANGED <<published, cached, regional, combined, overtaken, events, shown>>

(* get() of a stream has the lock and fetches; the others wait for it.     *)
GetBegins(c) ==
  /\ stream[c] = Polling
  /\ fetch = NoFetch
  /\ fetch' = Begins
  /\ stream' = [stream EXCEPT ![c] = Fetching]
  /\ UNCHANGED <<published, cached, regional, combined, overtaken, events, shown>>

(* The answer is cached and returned to the stream.                        *)
GetReturns(c) ==
  /\ stream[c] = Fetching
  /\ \E v \in Answers(fetch) :
       /\ Store(v)
       /\ stream' = [stream EXCEPT ![c] = [at |-> "yielding", feed |-> v]]
  /\ fetch' = NoFetch
  /\ UNCHANGED <<published, regional, combined, events, shown>>

(* The fetch failed: nothing is sent, the loop sleeps and tries again.     *)
GetFailed(c) ==
  /\ stream[c] = Fetching
  /\ fetch' = NoFetch
  /\ stream' = [stream EXCEPT ![c] = Sleeping]
  /\ UNCHANGED <<published, cached, regional, combined, overtaken, events, shown>>

(* get() for another reason: trip_detail(), or the system's own turn in    *)
(* its quota group.                                                        *)
OtherGetBegins ==
  /\ fetch = NoFetch
  /\ fetch' = Begins
  /\ UNCHANGED <<published, cached, regional, combined, overtaken, events, stream, shown>>

OtherGetEnds ==
  /\ fetch # NoFetch
  /\ \A c \in Client : stream[c] # Fetching
  /\ \/ \E v \in Answers(fetch) : Store(v)
     \/ UNCHANGED <<cached, overtaken>>
  /\ fetch' = NoFetch
  /\ UNCHANGED <<published, regional, combined, events, stream, shown>>

(* RegionalFeedScheduler.tick fetches the combined feed, and calls set()   *)
(* if it mentions the system; it does not take the lock.                   *)
CombinedBegins ==
  /\ regional
  /\ combined = NoFetch
  /\ combined' = Begins
  /\ UNCHANGED <<published, cached, regional, fetch, overtaken, events, stream, shown>>

CombinedEnds ==
  /\ combined # NoFetch
  /\ \/ \E v \in Answers(combined) : Store(v)
     \/ UNCHANGED <<cached, overtaken>>
  /\ combined' = NoFetch
  /\ UNCHANGED <<published, regional, fetch, events, stream, shown>>

(* update() before the truncation: every position of the poll replaces     *)
(* what was known of its trip.                                             *)
Merged(v) ==
  [t \in Trip |-> IF t \in Located(v) THEN [ver |-> v, ts |-> published[v][t]] ELSE events[t]]

(* Mutant: the ranking is ascending.                                       *)
TruncatedOldest(merged, kept) ==
  /\ kept \subseteq Known(merged)
  /\ IF Cardinality(Known(merged)) <= MAX_EVENTS
     THEN kept = Known(merged)
     ELSE /\ Cardinality(kept) = MAX_EVENTS
          /\ \A t \in kept, u \in Known(merged) \ kept : merged[t].ts <= merged[u].ts

(* The truncation: the MAX_EVENTS highest timestamps stay; between equal   *)
(* timestamps the order of the dict decides, here any choice.              *)
Truncated(merged, kept) ==
  /\ kept \subseteq Known(merged)
  /\ IF Cardinality(Known(merged)) <= MAX_EVENTS
     THEN kept = Known(merged)
     ELSE /\ Cardinality(kept) = MAX_EVENTS
          /\ \A t \in kept, u \in Known(merged) \ kept : merged[t].ts >= merged[u].ts

(* The client has taken every event of its poll: RecentEventsCache.update. *)
Update(c) ==
  /\ stream[c].at = "yielding"
  /\ LET v == stream[c].feed
     IN  /\ \E kept \in SUBSET Trip :
              /\ Truncated(Merged(v), kept)
              /\ events' = [t \in Trip |-> IF t \in kept THEN Merged(v)[t] ELSE NoEvent]
         /\ shown' = [shown EXCEPT ![c] = IF Located(v) = {} THEN @ ELSE v]
  /\ stream' = [stream EXCEPT ![c] = Sleeping]
  /\ UNCHANGED <<published, cacheVars>>

(* asyncio.sleep(30) is over.                                              *)
PollAgain(c) ==
  /\ stream[c] = Sleeping
  /\ stream' = [stream EXCEPT ![c] = Polling]
  /\ UNCHANGED <<published, cacheVars, events, shown>>

(* The client disconnects, or ScheduleCache or TransferCache raises: the   *)
(* generator ends without merging its poll; a fetch of its own releases    *)
(* the lock and stores nothing.                                            *)
StreamEnds(c) ==
  /\ stream[c] # Closed
  /\ stream' = [stream EXCEPT ![c] = Closed]
  /\ shown' = [shown EXCEPT ![c] = 0]
  /\ fetch' = IF stream[c] = Fetching THEN NoFetch ELSE fetch
  /\ UNCHANGED <<published, cached, regional, combined, overtaken, events>>

Next ==
  \/ Publish
  \/ OtherGetBegins \/ OtherGetEnds
  \/ CombinedBegins \/ CombinedEnds
  \/ \E c \in Client :
       Connect(c) \/ BurstSent(c) \/ GetCached(c) \/ GetBegins(c) \/ GetReturns(c)
         \/ GetFailed(c) \/ Update(c) \/ PollAgain(c) \/ StreamEnds(c)

Spec == Init /\ [][Next]_vars

-----------------------------------------------------------------------------

(* The types of the state.                                                 *)
TypeOK ==
  /\ published \in Seq([Trip -> Int])
  /\ cached \in 0..Len(published)
  /\ regional \in BOOLEAN /\ overtaken \in BOOLEAN
  /\ fetch \in {NoFetch} \cup 0..Len(published)
  /\ combined \in {NoFetch} \cup 0..Len(published)
  /\ events \in [Trip -> [ver : Nat, ts : Int]]
  /\ stream \in [Client -> {Closed, Polling, Fetching, Sleeping}
                   \cup [at : {"burst"}, newest : Nat]
                   \cup [at : {"yielding"}, feed : 1..Len(published)]]
  /\ shown \in [Client -> Nat]

(* No client sees a trip jump back: whatever mixture of a burst (made of   *)
(* other clients' polls), cached feeds and its own fetches it is sent, a   *)
(* poll is never older than what it was shown before.  A member of a       *)
(* regional feed is the exception, once get() and set() have stored their  *)
(* answers in the wrong order.                                             *)
ClientNeverGoesBack ==
  [][\A c \in Client : stream'[c].at = "yielding" =>
       stream'[c].feed >= shown[c] \/ (regional /\ overtaken')]_vars

(* "A trip that stops appearing in the live feed ages out once enough      *)
(* fresher trips have taken its place": after a poll with MAX_EVENTS       *)
(* fresher positions, nothing the poll does not mention survives; and the  *)
(* cache never grows beyond MAX_EVENTS.                                    *)
EndedTripsAgeOut ==
  [][\A c \in Client : Update(c) =>
       LET v == stream[c].feed
       IN  /\ Cardinality(Known(events')) <= MAX_EVENTS
           /\ \A t \in Known(events') \ Located(v) :
                Cardinality({u \in Located(v) : published[v][u] > events[t].ts}) < MAX_EVENTS
    ]_vars

(* The docstring of RecentEventsCache: "one entry per trip (the most       *)
(* recent position seen for it)": then a merge never replaces a position   *)
(* by one from an older feed.                                              *)
MostRecentPositionKept ==
  [][\A t \in Trip : events'[t] # NoEvent => events'[t].ver >= events[t].ver]_vars
=============================================================================
