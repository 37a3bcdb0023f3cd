------------------------- MODULE TransitFeed_proofs --------------------------
(***************************************************************************)
(* Proofs about TransitFeed, for every set of clients and trips and every  *)
(* size of the event cache.  The lock keeps the answers of get() in order, *)
(* so that nothing a client was or will be sent is newer than the cached   *)
(* feed, and no poll takes it back, until the combined fetch of a regional *)
(* feed overtakes one of get(); and a merge keeps no more events than the  *)
(* cache has room for, and no stale one among enough fresher ones.         *)
(***************************************************************************)
EXTENDS TransitFeed, FiniteSetTheorems, TLAPS

At(c) == stream[c].at

CacheTypes ==
  /\ cached \in 0..Len(published)
  /\ regional \in BOOLEAN /\ overtaken \in BOOLEAN
  /\ fetch \in {NoFetch} \cup 0..Len(published)
  /\ combined \in {NoFetch} \cup 0..Len(published)

(* One stream at most fetches, under the lock; what it will store is not   *)
(* older than the cache, if nothing but get() stores; only a regional feed *)
(* is stored by set().                                                     *)
LockInv ==
  /\ \A c \in Client : At(c) = "fetching" =>
       fetch # NoFetch /\ \A d \in Client : At(d) = "fetching" => d = c
  /\ fetch # NoFetch /\ ~ regional => cached <= fetch
  /\ combined # NoFetch => regional
  /\ overtaken => regional

(* Until an answer is stored over a newer one, every version in a stream,  *)
(* in the events and on a client's screen is at most the cached one, and   *)
(* what a client is being sent is not older than what it has seen.         *)
InOrder(c) ==
  /\ shown[c] <= cached
  /\ At(c) = "burst" => shown[c] = 0 /\ stream[c].newest <= cached
  /\ At(c) = "yielding" => shown[c] <= stream[c].feed /\ stream[c].feed <= cached
  /\ At(c) = "closed" => shown[c] = 0

Ordered ==
  /\ \A t \in Trip : events[t].ver <= cached
  /\ \A c \in Client : InOrder(c)

OrderInv == ~ overtaken => Ordered

IInv == TypeOK /\ LockInv /\ OrderInv

(* The forms a stream takes.                                               *)
LEMMA StreamTypes ==
  ASSUME TypeOK, NEW c \in Client
  PROVE  /\ At(c) = "burst" => stream[c].newest \in Nat
         /\ At(c) = "yielding" => stream[c].feed \in 1..Len(published)
         /\ At(c) \in {"closed", "polling", "fetching", "sleeping", "burst", "yielding"}
         /\ shown[c] \in Nat /\ cached \in Nat /\ Len(published) \in Nat
<1>1. CASE stream[c] \in {Closed, Polling, Fetching, Sleeping}
  BY <1>1 DEF TypeOK, At, Closed, Polling, Fetching, Sleeping
<1>2. CASE stream[c] \in [at : {"burst"}, newest : Nat]
  BY <1>2 DEF TypeOK, At
<1>3. CASE stream[c] \in [at : {"yielding"}, feed : 1..Len(published)]
  BY <1>3 DEF TypeOK, At
<1>4. QED BY <1>1, <1>2, <1>3 DEF TypeOK

(* The forms that a step gives a stream.                                   *)
LEMMA NewStreams ==
  /\ Closed.at = "closed" /\ Polling.at = "polling"
  /\ Fetching.at = "fetching" /\ Sleeping.at = "sleeping"
  /\ \A n : /\ [at |-> "burst", newest |-> n].at = "burst"
            /\ [at |-> "burst", newest |-> n].newest = n
            /\ [at |-> "yielding", feed |-> n].at = "yielding"
            /\ [at |-> "yielding", feed |-> n].feed = n
            /\ n \in Nat => [at |-> "burst", newest |-> n] \in [at : {"burst"}, newest : Nat]
BY DEF Closed, Polling, Fetching, Sleeping

(* A step of one stream that leaves the feeds and the events alone.        *)
LEMMA StreamStepTypes ==
  ASSUME TypeOK, UNCHANGED <<published, events>>, CacheTypes',
         NEW c \in Client, NEW s,
         s \in {Closed, Polling, Fetching, Sleeping}
                 \cup [at : {"burst"}, newest : Nat]
                 \cup [at : {"yielding"}, feed : 1..Len(published)],
         stream' = [stream EXCEPT ![c] = s], shown' \in [Client -> Nat]
  PROVE  TypeOK'
BY DEF TypeOK, CacheTypes

(* What a fetch stores was published while it lasted.                      *)
LEMMA StoredTypes ==
  ASSUME TypeOK, NEW since \in 0..Len(published), NEW v \in Answers(since)
  PROVE  /\ v \in 1..Len(published) /\ v \in Nat /\ since <= v
         /\ v \in 0..Len(published)
BY DEF TypeOK, Answers

(* What a merge and its truncation make of the events.                     *)
LEMMA MergedTypes ==
  ASSUME TypeOK, NEW v \in 1..Len(published)
  PROVE  /\ Merged(v) \in [Trip -> [ver : Nat, ts : Int]]
         /\ \A t \in Trip : Merged(v)[t].ver \in {v, events[t].ver}
         /\ \A t \in Located(v) : /\ t \in Trip /\ Merged(v)[t] # NoEvent
                                  /\ Merged(v)[t].ts = published[v][t]
         /\ \A t \in Trip \ Located(v) : Merged(v)[t] = events[t]
<1>1. published[v] \in [Trip -> Int] /\ v \in Nat /\ v # 0
  BY DEF TypeOK
<1>2. \A t \in Trip : events[t] \in [ver : Nat, ts : Int]
  BY DEF TypeOK
<1>3. QED BY <1>1, <1>2 DEF Merged, Located, NoEvent

(* Every step keeps the types.                                             *)
LEMMA TypeStep ==
  ASSUME TypeOK, LockInv, [Next]_vars
  PROVE  TypeOK'
<1> USE FeedAssumption
<1>0. CacheTypes /\ Len(published) \in Nat /\ Begins \in 0..Len(published)
  BY DEF TypeOK, CacheTypes, Begins
<1>1. CASE Publish
  <2>1. PICK f \in [Trip -> Int] : published' = Append(published, f)
    <3>1. \A v \in Nat : [Trip -> {Absent, NoLocation, v, v + 1}] \subseteq [Trip -> Int]
      BY DEF Absent, NoLocation
    <3>2. Len(published) + 1 \in Nat
      BY DEF TypeOK
    <3>3. QED BY <1>1, <3>1, <3>2 DEF Publish
  <2>2. published' \in Seq([Trip -> Int]) /\ Len(published') = Len(published) + 1
    BY <2>1 DEF TypeOK
  <2>3. 0..Len(published) \subseteq 0..Len(published')
        /\ 1..Len(published) \subseteq 1..Len(published')
    BY <1>0, <2>2
  <2>4. UNCHANGED <<cacheVars, events, stream, shown>>
    BY <1>1 DEF Publish
  <2>5. [at : {"yielding"}, feed : 1..Len(published)]
          \subseteq [at : {"yielding"}, feed : 1..Len(published')]
    BY <2>3
  <2>6. QED BY <2>2, <2>3, <2>4, <2>5 DEF TypeOK, cacheVars
<1>2. ASSUME NEW c \in Client, Connect(c)
      PROVE  TypeOK'
  <2>1. PICK n \in {events[t].ver : t \in Burst} \cup {0} :
          stream' = [stream EXCEPT ![c] = [at |-> "burst", newest |-> n]]
    BY <1>2 DEF Connect
  <2>2. n \in Nat
    BY DEF Burst, Known, TypeOK, Live
  <2>3. [at |-> "burst", newest |-> n] \in [at : {"burst"}, newest : Nat]
    BY <2>2, NewStreams
  <2>4. UNCHANGED <<published, cacheVars, events, shown>>
    BY <1>2 DEF Connect
  <2>5. CacheTypes' /\ shown' \in [Client -> Nat]
    BY <1>0, <2>4 DEF TypeOK, CacheTypes, cacheVars
  <2>6. QED BY <2>1, <2>3, <2>4, <2>5, StreamStepTypes
<1>3. ASSUME NEW c \in Client, BurstSent(c)
      PROVE  TypeOK'
  <2>1. shown' \in [Client -> Nat]
    BY <1>3, StreamTypes DEF BurstSent, At, TypeOK
  <2>2. CacheTypes'
    BY <1>0, <1>3 DEF BurstSent, CacheTypes, cacheVars
  <2>3. QED BY <1>3, <2>1, <2>2, StreamStepTypes DEF BurstSent
<1>4. ASSUME NEW c \in Client, NEW v \in 1..Len(published), shown' = shown, CacheTypes',
             UNCHANGED <<published, events>>,
             stream' = [stream EXCEPT ![c] = [at |-> "yielding", feed |-> v]]
      PROVE  TypeOK'
  <2>1. [at |-> "yielding", feed |-> v] \in [at : {"yielding"}, feed : 1..Len(published)]
    BY <1>4
  <2>2. shown' \in [Client -> Nat]
    BY <1>4 DEF TypeOK
  <2>3. QED BY <1>4, <2>1, <2>2, StreamStepTypes
<1>5. ASSUME NEW c \in Client, GetCached(c)
      PROVE  TypeOK'
  <2>1. cached \in 1..Len(published) /\ CacheTypes'
    BY <1>0, <1>5 DEF GetCached, CacheTypes, cacheVars
  <2>2. QED BY <1>4, <1>5, <2>1 DEF GetCached
<1>6. ASSUME NEW c \in Client, GetReturns(c)
      PROVE  TypeOK'
  <2>1. fetch \in 0..Len(published)
    BY <1>6 DEF GetReturns, LockInv, TypeOK, At, Fetching
  <2>2. PICK v \in Answers(fetch) :
          Store(v) /\ stream' = [stream EXCEPT ![c] = [at |-> "yielding", feed |-> v]]
    BY <1>6 DEF GetReturns
  <2>3. v \in 1..Len(published) /\ v \in 0..Len(published)
    BY <2>1, StoredTypes
  <2>4. CacheTypes'
    BY <1>0, <1>6, <2>2, <2>3 DEF GetReturns, Store, CacheTypes, NoFetch
  <2>5. QED BY <1>4, <1>6, <2>2, <2>3, <2>4 DEF GetReturns
<1>7. ASSUME NEW c \in Client,
             GetBegins(c) \/ GetFailed(c) \/ PollAgain(c) \/ StreamEnds(c)
      PROVE  TypeOK'
  <2>1. UNCHANGED <<published, events>> /\ shown' \in [Client -> Nat]
    BY <1>7 DEF GetBegins, GetFailed, PollAgain, StreamEnds, TypeOK
  <2>2. CacheTypes'
    BY <1>0, <1>7
       DEF GetBegins, GetFailed, PollAgain, StreamEnds, CacheTypes, cacheVars, NoFetch
  <2>3. \E s \in {Closed, Polling, Fetching, Sleeping} : stream' = [stream EXCEPT ![c] = s]
    BY <1>7 DEF GetBegins, GetFailed, PollAgain, StreamEnds
  <2>4. QED BY <2>1, <2>2, <2>3, StreamStepTypes
<1>8. ASSUME NEW c \in Client, Update(c)
      PROVE  TypeOK'
  <2> DEFINE v == stream[c].feed
  <2>1. v \in 1..Len(published) /\ v \in Nat
    BY <1>8, StreamTypes DEF Update, At
  <2>2. PICK kept \in SUBSET Trip :
          events' = [t \in Trip |-> IF t \in kept THEN Merged(v)[t] ELSE NoEvent]
    BY <1>8 DEF Update
  <2>3. NoEvent \in [ver : Nat, ts : Int]
    BY DEF NoEvent
  <2>4. events' \in [Trip -> [ver : Nat, ts : Int]]
    BY <2>1, <2>2, <2>3, MergedTypes
  <2>5. shown' \in [Client -> Nat]
    BY <1>8, <2>1 DEF Update, TypeOK
  <2>6. stream' = [stream EXCEPT ![c] = Sleeping] /\ UNCHANGED <<published, cacheVars>>
    BY <1>8 DEF Update
  <2>7. QED BY <2>4, <2>5, <2>6 DEF TypeOK, cacheVars
<1>9. ASSUME UNCHANGED <<published, events, stream, shown>>, CacheTypes'
      PROVE  TypeOK'
  BY <1>9 DEF TypeOK, CacheTypes
<1>10. CASE OtherGetBegins \/ OtherGetEnds \/ CombinedBegins \/ CombinedEnds
  <2>1. ASSUME NEW since \in 0..Len(published), NEW v \in Answers(since), Store(v)
        PROVE  cached' \in 0..Len(published) /\ overtaken' \in BOOLEAN
    BY <1>0, <2>1, StoredTypes DEF Store, CacheTypes
  <2>2. OtherGetEnds => fetch \in 0..Len(published)
    BY <1>0 DEF OtherGetEnds, CacheTypes
  <2>3. CombinedEnds => combined \in 0..Len(published)
    BY <1>0 DEF CombinedEnds, CacheTypes
  <2>4. cached' \in 0..Len(published) /\ overtaken' \in BOOLEAN
    BY <1>0, <1>10, <2>1, <2>2, <2>3
       DEF OtherGetBegins, OtherGetEnds, CombinedBegins, CombinedEnds, CacheTypes
  <2>5. CacheTypes' /\ UNCHANGED <<published, events, stream, shown>>
    BY <1>0, <1>10, <2>4
       DEF OtherGetBegins, OtherGetEnds, CombinedBegins, CombinedEnds, CacheTypes, NoFetch
  <2>6. QED BY <1>9, <2>5
<1>11. CASE UNCHANGED vars
  BY <1>11 DEF vars, TypeOK
<1>12. QED
  BY <1>1, <1>2, <1>3, <1>5, <1>6, <1>7, <1>8, <1>10, <1>11 DEF Next

-----------------------------------------------------------------------------

(* The step of a stream that is not fetching after it, nor before it.      *)
LEMMA OthersLocked ==
  ASSUME TypeOK, LockInv, NEW c \in Client, NEW s, s.at # "fetching",
         stream' = [stream EXCEPT ![c] = s],
         UNCHANGED <<cached, regional, combined, overtaken>>,
         \/ fetch' = fetch
         \/ At(c) = "fetching" /\ fetch' = NoFetch
  PROVE  LockInv'
<1>1. \A d \in Client : At(d)' = "fetching" => d # c /\ At(d) = "fetching"
  BY DEF TypeOK, At
<1>2. QED BY <1>1 DEF LockInv

(* Every answer that get() stores is at least as new as the cache, but for *)
(* a regional feed.                                                        *)
LEMMA LockStep ==
  ASSUME TypeOK, LockInv, [Next]_vars
  PROVE  LockInv'
<1>0. /\ cached \in Nat /\ cached <= Begins /\ Begins \in Nat /\ Begins # NoFetch
      /\ fetch # NoFetch => fetch \in 0..Len(published)
      /\ combined # NoFetch => combined \in 0..Len(published)
  BY DEF TypeOK, Begins, NoFetch
<1>1. ASSUME NEW c \in Client, Connect(c) \/ GetCached(c)
      PROVE  LockInv'
  <2>1. \E s : stream' = [stream EXCEPT ![c] = s] /\ s.at # "fetching"
    BY <1>1, NewStreams DEF Connect, GetCached
  <2>2. UNCHANGED <<cached, regional, fetch, combined, overtaken>>
    BY <1>1 DEF Connect, GetCached, cacheVars
  <2>3. QED BY <2>1, <2>2, OthersLocked
<1>2. ASSUME NEW c \in Client, BurstSent(c) \/ PollAgain(c) \/ Update(c)
      PROVE  LockInv'
  <2>1. \E s \in {Polling, Sleeping} : stream' = [stream EXCEPT ![c] = s]
    BY <1>2 DEF BurstSent, PollAgain, Update
  <2>2. UNCHANGED <<cached, regional, fetch, combined, overtaken>>
    BY <1>2 DEF BurstSent, PollAgain, Update, cacheVars
  <2>3. QED BY <2>1, <2>2, OthersLocked, NewStreams
<1>3. ASSUME NEW c \in Client, GetFailed(c) \/ StreamEnds(c)
      PROVE  LockInv'
  <2>1. \E s \in {Closed, Sleeping} : stream' = [stream EXCEPT ![c] = s]
    BY <1>3 DEF GetFailed, StreamEnds
  <2>2. /\ UNCHANGED <<cached, regional, combined, overtaken>>
        /\ fetch' = fetch \/ (At(c) = "fetching" /\ fetch' = NoFetch)
    BY <1>3, NewStreams DEF GetFailed, StreamEnds, At
  <2>3. QED BY <2>1, <2>2, OthersLocked, NewStreams
<1>4. ASSUME NEW c \in Client, GetBegins(c)
      PROVE  LockInv'
  <2>1. /\ fetch = NoFetch /\ fetch' = Begins /\ stream' = [stream EXCEPT ![c] = Fetching]
        /\ UNCHANGED <<cached, regional, combined, overtaken>>
    BY <1>4 DEF GetBegins
  <2>2. \A d \in Client : At(d)' = "fetching" => d = c
    BY <2>1 DEF LockInv, At, TypeOK
  <2>3. QED BY <1>0, <2>1, <2>2 DEF LockInv
<1>5. ASSUME NEW since \in 0..Len(published), NEW v \in Answers(since), Store(v),
             ~ regional => cached <= since
      PROVE  overtaken' => regional
  <2>1. since <= v /\ v \in Nat /\ since \in Nat
    BY StoredTypes DEF TypeOK
  <2>2. ~ regional => ~ (v < cached)
    BY <1>0, <1>5, <2>1
  <2>3. overtaken' => overtaken \/ v < cached
    BY <1>5, Zenon DEF Store
  <2>4. overtaken => regional
    BY DEF LockInv
  <2>5. QED BY <2>2, <2>3, <2>4, Zenon
<1>6. ASSUME NEW c \in Client, GetReturns(c)
      PROVE  LockInv'
  <2>1. PICK v \in Answers(fetch) :
          Store(v) /\ stream' = [stream EXCEPT ![c] = [at |-> "yielding", feed |-> v]]
    BY <1>6 DEF GetReturns
  <2>2. At(c) = "fetching" /\ fetch # NoFetch
    BY <1>6, NewStreams DEF GetReturns, At, LockInv
  <2>3. overtaken' => regional
    BY <1>0, <1>5, <2>1, <2>2 DEF LockInv
  <2>4. \A d \in Client : At(d)' # "fetching"
    BY <2>1, <2>2, NewStreams DEF LockInv, TypeOK, At
  <2>5. fetch' = NoFetch /\ UNCHANGED <<regional, combined>>
    BY <1>6 DEF GetReturns
  <2>6. QED BY <2>3, <2>4, <2>5 DEF LockInv
<1>7. CASE OtherGetBegins
  BY <1>0, <1>7 DEF OtherGetBegins, LockInv, At, Fetching
<1>8. CASE OtherGetEnds
  <2>1. /\ fetch # NoFetch /\ fetch' = NoFetch /\ UNCHANGED <<regional, combined, stream>>
        /\ (\E v \in Answers(fetch) : Store(v)) \/ overtaken' = overtaken
    BY <1>8 DEF OtherGetEnds
  <2>2. overtaken' => regional
    BY <1>0, <1>5, <2>1 DEF LockInv
  <2>3. \A d \in Client : At(d) # "fetching"
    <3>1. ASSUME NEW d \in Client PROVE stream[d] # Fetching
      BY <1>8 DEF OtherGetEnds
    <3>2. \A d \in Client : At(d) = "fetching" => stream[d] = Fetching
      BY DEF TypeOK, At, Closed, Polling, Fetching, Sleeping
    <3>3. QED BY <3>1, <3>2
  <2>4. QED BY <2>1, <2>2, <2>3 DEF LockInv, At
<1>9. CASE CombinedBegins
  BY <1>0, <1>9 DEF CombinedBegins, LockInv, At
<1>10. CASE CombinedEnds
  <2>1. regional /\ UNCHANGED <<regional, fetch, stream>>
    BY <1>10 DEF CombinedEnds, LockInv
  <2>2. QED BY <2>1 DEF LockInv, At
<1>11. CASE UNCHANGED <<cacheVars, stream>>
  BY <1>11 DEF LockInv, At, cacheVars
<1>12. QED
  BY <1>1, <1>2, <1>3, <1>4, <1>6, <1>7, <1>8, <1>9, <1>10, <1>11 DEF Next, Publish, vars,
     cacheVars

-----------------------------------------------------------------------------

(* The order of versions that one stream's step has to keep.               *)
LEMMA OthersInOrder ==
  ASSUME TypeOK, Ordered, cached' \in Nat, cached <= cached', NEW c \in Client, NEW s, NEW n,
         stream' = [stream EXCEPT ![c] = s], shown' = [shown EXCEPT ![c] = n],
         events' = events, InOrder(c)'
  PROVE  Ordered'
<1>1. cached \in Nat /\ \A t \in Trip : events[t].ver \in Nat
  BY DEF TypeOK
<1>2. \A t \in Trip : events'[t].ver <= cached'
  BY <1>1 DEF Ordered
<1>3. ASSUME NEW d \in Client, d # c
      PROVE  InOrder(d)'
  <2>1. stream'[d] = stream[d] /\ shown'[d] = shown[d]
    BY <1>3 DEF TypeOK
  <2>2. InOrder(d)
    BY DEF Ordered
  <2>3. shown[d] \in Nat /\ (At(d) = "burst" => stream[d].newest \in Nat)
        /\ (At(d) = "yielding" => stream[d].feed \in Nat)
    BY StreamTypes
  <2>4. QED BY <1>1, <2>1, <2>2, <2>3 DEF InOrder, At
<1>4. QED BY <1>2, <1>3 DEF Ordered

(* A store that is not over a newer feed takes nothing back.               *)
LEMMA StoreInOrder ==
  ASSUME TypeOK, Ordered, cached' \in Nat, cached <= cached',
         UNCHANGED <<events, stream, shown>>
  PROVE  Ordered'
<1>1. cached \in Nat /\ \A t \in Trip : events[t].ver \in Nat
  BY DEF TypeOK
<1>2. ASSUME NEW d \in Client
      PROVE  InOrder(d)'
  <2>1. InOrder(d)
    BY DEF Ordered
  <2>2. shown[d] \in Nat /\ (At(d) = "burst" => stream[d].newest \in Nat)
        /\ (At(d) = "yielding" => stream[d].feed \in Nat)
    BY StreamTypes
  <2>3. QED BY <1>1, <2>1, <2>2 DEF InOrder, At
<1>3. QED BY <1>1, <1>2 DEF Ordered

(* Nothing overtakes the cached feed, and no stream falls behind its       *)
(* client, until an answer is stored over a newer one.                     *)
LEMMA OrderStep ==
  ASSUME TypeOK, LockInv, OrderInv, [Next]_vars
  PROVE  OrderInv'
<1> SUFFICES ASSUME ~ overtaken'
             PROVE  Ordered'
  BY DEF OrderInv
<1>0. cached \in Nat /\ cached <= cached
  BY DEF TypeOK
<1>1. ASSUME NEW v \in Nat, Store(v)
      PROVE  ~ overtaken /\ cached' = v /\ cached <= cached'
  <2>1. ~ overtaken /\ ~ (v < cached) /\ cached' = v
    BY <1>1, Zenon DEF Store
  <2>2. QED BY <1>0, <2>1
<1>2. ASSUME ~ overtaken
      PROVE  Ordered
  BY <1>2 DEF OrderInv
<1>3. ASSUME UNCHANGED cacheVars
      PROVE  Ordered /\ cached' = cached
  BY <1>2, <1>3 DEF cacheVars
<1>4. ASSUME NEW c \in Client, Connect(c)
      PROVE  Ordered'
  <2>0. Ordered /\ UNCHANGED <<cached, events, shown>>
    BY <1>3, <1>4 DEF Connect
  <2>1. PICK n \in {events[t].ver : t \in Burst} \cup {0} :
          stream' = [stream EXCEPT ![c] = [at |-> "burst", newest |-> n]]
    BY <1>4 DEF Connect
  <2>2. n <= cached
    BY <1>0, <2>0 DEF Burst, Known, Ordered, Live
  <2>3. At(c) = "closed"
    BY <1>4 DEF Connect, At, Closed
  <2>4. shown[c] = 0 /\ stream'[c] = [at |-> "burst", newest |-> n]
    BY <2>0, <2>1, <2>3 DEF Ordered, InOrder, TypeOK
  <2>5. shown' = [shown EXCEPT ![c] = 0]
    BY <2>0, <2>4 DEF TypeOK
  <2>6. InOrder(c)'
    BY <1>0, <2>0, <2>2, <2>4, NewStreams DEF InOrder, At
  <2>7. QED BY <1>0, <2>0, <2>1, <2>5, <2>6, OthersInOrder
<1>5. ASSUME NEW c \in Client, BurstSent(c)
      PROVE  Ordered'
  <2>1. /\ Ordered /\ UNCHANGED <<cached, events>>
        /\ shown' = [shown EXCEPT ![c] = stream[c].newest]
        /\ stream' = [stream EXCEPT ![c] = Polling]
    BY <1>3, <1>5 DEF BurstSent
  <2>2. stream[c].newest <= cached
    BY <1>5, <2>1 DEF BurstSent, Ordered, InOrder, At
  <2>3. InOrder(c)'
    BY <2>1, <2>2, NewStreams DEF InOrder, At, TypeOK
  <2>4. QED BY <1>0, <2>1, <2>3, OthersInOrder
<1>6. ASSUME NEW c \in Client, Ordered, cached' \in Nat, cached <= cached',
             shown' = shown, events' = events,
             stream' = [stream EXCEPT ![c] = [at |-> "yielding", feed |-> cached']]
      PROVE  Ordered'
  <2>1. shown' = [shown EXCEPT ![c] = shown[c]]
    BY <1>6 DEF TypeOK
  <2>2. shown[c] <= cached /\ shown[c] \in Nat
    BY <1>6, StreamTypes DEF Ordered, InOrder
  <2>3. stream'[c].at = "yielding" /\ stream'[c].feed = cached' /\ shown'[c] = shown[c]
    BY <1>6 DEF TypeOK
  <2>4. InOrder(c)'
    BY <1>0, <1>6, <2>2, <2>3 DEF InOrder, At
  <2>5. QED BY <1>6, <2>1, <2>4, OthersInOrder
<1>7. ASSUME NEW c \in Client, GetCached(c)
      PROVE  Ordered'
  <2>1. Ordered /\ cached' = cached
    BY <1>3, <1>7 DEF GetCached
  <2>2. QED BY <1>0, <1>6, <1>7, <2>1 DEF GetCached
<1>8. ASSUME NEW c \in Client, GetReturns(c)
      PROVE  Ordered'
  <2>1. fetch \in 0..Len(published)
    BY <1>8 DEF GetReturns, LockInv, TypeOK, At, Fetching
  <2>2. PICK v \in Answers(fetch) :
          Store(v) /\ stream' = [stream EXCEPT ![c] = [at |-> "yielding", feed |-> v]]
    BY <1>8 DEF GetReturns
  <2>3. v \in Nat
    BY <2>1, StoredTypes
  <2>4. Ordered /\ cached' = v /\ cached <= cached'
    BY <1>1, <1>2, <2>2, <2>3
  <2>5. QED BY <1>6, <1>8, <2>2, <2>3, <2>4 DEF GetReturns
<1>9. ASSUME NEW c \in Client, GetBegins(c) \/ GetFailed(c) \/ PollAgain(c)
      PROVE  Ordered'
  <2>1. \E s \in {Fetching, Polling, Sleeping} : stream' = [stream EXCEPT ![c] = s]
    BY <1>9 DEF GetBegins, GetFailed, PollAgain
  <2>2. UNCHANGED <<cached, events, shown, overtaken>>
    BY <1>9 DEF GetBegins, GetFailed, PollAgain, cacheVars
  <2>3. Ordered /\ shown' = [shown EXCEPT ![c] = shown[c]]
    BY <1>2, <2>2 DEF TypeOK
  <2>4. stream'[c].at \in {"fetching", "polling", "sleeping"}
    BY <2>1, NewStreams DEF TypeOK
  <2>5. InOrder(c)'
    BY <2>2, <2>3, <2>4 DEF InOrder, At, Ordered
  <2>6. QED BY <1>0, <2>1, <2>2, <2>3, <2>5, OthersInOrder
<1>10. ASSUME NEW c \in Client, StreamEnds(c)
      PROVE  Ordered'
  <2>1. /\ UNCHANGED <<cached, events, overtaken>>
        /\ shown' = [shown EXCEPT ![c] = 0]
        /\ stream' = [stream EXCEPT ![c] = Closed]
    BY <1>10 DEF StreamEnds
  <2>2. InOrder(c)'
    BY <1>0, <2>1, NewStreams DEF InOrder, At, TypeOK
  <2>3. QED BY <1>0, <1>2, <2>1, <2>2, OthersInOrder
<1>11. ASSUME NEW c \in Client, Update(c)
      PROVE  Ordered'
  <2> DEFINE v == stream[c].feed
  <2>0. Ordered /\ cached' = cached
    BY <1>3, <1>11 DEF Update
  <2>1. v \in 1..Len(published) /\ v <= cached /\ shown[c] <= cached
    BY <1>11, <2>0, StreamTypes DEF Update, At, Ordered, InOrder
  <2>2. PICK kept \in SUBSET Trip :
          events' = [t \in Trip |-> IF t \in kept THEN Merged(v)[t] ELSE NoEvent]
    BY <1>11 DEF Update
  <2>3. \A t \in Trip : events'[t].ver <= cached
    <3>1. \A t \in Trip : Merged(v)[t].ver <= cached
      BY <2>0, <2>1, MergedTypes DEF Ordered
    <3>2. NoEvent.ver <= cached
      BY <1>0 DEF NoEvent
    <3>3. QED BY <2>2, <3>1, <3>2
  <2>4. /\ stream' = [stream EXCEPT ![c] = Sleeping]
        /\ shown' = [shown EXCEPT ![c] = IF Located(v) = {} THEN shown[c] ELSE v]
    BY <1>11 DEF Update
  <2>5. ASSUME NEW d \in Client
        PROVE  InOrder(d)'
    <3>1. CASE d = c
      BY <2>0, <2>1, <2>4, <3>1, NewStreams DEF InOrder, At, TypeOK
    <3>2. CASE d # c
      <4>1. stream'[d] = stream[d] /\ shown'[d] = shown[d]
        BY <2>4, <3>2 DEF TypeOK
      <4>2. QED BY <2>0, <4>1 DEF InOrder, At, Ordered
    <3>3. QED BY <3>1, <3>2
  <2>6. QED BY <2>0, <2>3, <2>5 DEF Ordered
<1>12. CASE OtherGetBegins \/ OtherGetEnds \/ CombinedBegins \/ CombinedEnds
  <2>1. UNCHANGED <<events, stream, shown>>
    BY <1>12 DEF OtherGetBegins, OtherGetEnds, CombinedBegins, CombinedEnds
  <2>2. ASSUME NEW since \in 0..Len(published), NEW v \in Answers(since), Store(v)
        PROVE  Ordered'
    <3>1. v \in Nat
      BY StoredTypes
    <3>2. Ordered /\ cached' \in Nat /\ cached <= cached'
      BY <1>1, <1>2, <2>2, <3>1
    <3>3. QED BY <2>1, <3>2, StoreInOrder
  <2>3. ASSUME UNCHANGED <<cached, overtaken>>
        PROVE  Ordered'
    <3>1. Ordered /\ cached' \in Nat /\ cached <= cached'
      BY <1>0, <1>2, <2>3
    <3>2. QED BY <2>1, <3>1, StoreInOrder
  <2>4. /\ OtherGetEnds => fetch \in 0..Len(published)
        /\ CombinedEnds => combined \in 0..Len(published)
    BY DEF OtherGetEnds, CombinedEnds, TypeOK
  <2>5. QED BY <1>12, <2>2, <2>3, <2>4
            DEF OtherGetBegins, OtherGetEnds, CombinedBegins, CombinedEnds
<1>13. CASE UNCHANGED <<cacheVars, events, stream, shown>>
  <2>1. Ordered /\ cached' = cached
    BY <1>3, <1>13
  <2>2. QED BY <1>13, <2>1 DEF Ordered, InOrder, At
<1>14. QED BY <1>4, <1>5, <1>7, <1>8, <1>9, <1>10, <1>11, <1>12, <1>13
          DEF Next, Publish, vars, cacheVars

-----------------------------------------------------------------------------

(* The inductive invariant holds at every step.                            *)
THEOREM StreamInvariant == Spec => []IInv
<1>1. Init => IInv
  <2> SUFFICES ASSUME Init PROVE IInv
    OBVIOUS
  <2>1. TypeOK
    <3>1. regional \in BOOLEAN
      BY FeedAssumption, Zenon DEF Init
    <3>2. overtaken \in BOOLEAN
      BY DEF Init
    <3>3. /\ published = << >> /\ cached = 0 /\ fetch = NoFetch /\ combined = NoFetch
          /\ events = [t \in Trip |-> NoEvent] /\ shown = [c \in Client |-> 0]
          /\ stream = [c \in Client |-> Closed]
      BY DEF Init
    <3>4. NoEvent \in [ver : Nat, ts : Int] /\ published \in Seq([Trip -> Int])
      BY <3>3 DEF NoEvent
    <3>5. QED BY <3>1, <3>2, <3>3, <3>4 DEF TypeOK
  <2>2. ~ overtaken /\ fetch = NoFetch /\ combined = NoFetch
    BY DEF Init
  <2>3. \A c \in Client : At(c) = "closed" /\ InOrder(c)
    BY DEF Init, InOrder, At, Closed
  <2>4. \A t \in Trip : events[t].ver <= cached
    BY DEF Init, NoEvent
  <2>5. QED BY <2>1, <2>2, <2>3, <2>4 DEF IInv, LockInv, OrderInv, Ordered
<1>2. IInv /\ [Next]_vars => IInv'
  BY TypeStep, LockStep, OrderStep DEF IInv
<1>3. QED BY <1>1, <1>2, PTL DEF Spec

(* No client is sent a poll older than what it has been shown, whatever    *)
(* the other clients' polls put into its burst and whoever fetches, unless *)
(* a regional feed's own fetches have overtaken each other.                *)
THEOREM NoClientGoesBack == Spec => ClientNeverGoesBack
<1> DEFINE Forward ==
      \A c \in Client : stream'[c].at = "yielding" =>
        stream'[c].feed >= shown[c] \/ (regional /\ overtaken')
<1>1. IInv /\ IInv' /\ [Next]_vars => Forward
  <2> SUFFICES ASSUME IInv, IInv', [Next]_vars, NEW c \in Client, stream'[c].at = "yielding",
                      ~ (regional /\ overtaken')
               PROVE  stream'[c].feed >= shown[c]
    OBVIOUS
  <2>1. shown[c] \in Nat /\ cached \in Nat
    BY StreamTypes DEF IInv
  <2>2. regional' = regional
    BY DEF Next, Publish, OtherGetBegins, OtherGetEnds, CombinedBegins, CombinedEnds, Connect,
           BurstSent, GetCached, GetBegins, GetReturns, GetFailed, Update, PollAgain,
           StreamEnds, vars, cacheVars
  <2>3. ~ overtaken' /\ InOrder(c)'
    BY <2>2 DEF IInv, LockInv, OrderInv, Ordered
  <2>4. stream'[c].feed \in Nat /\ shown'[c] \in Nat
    <3>1. TypeOK' /\ At(c)' = "yielding"
      BY DEF IInv, At
    <3>2. (At(c) = "yielding" => stream[c].feed \in 1..Len(published))' /\ (shown[c] \in Nat)'
      BY <3>1, StreamTypes, PTL
    <3>3. QED BY <3>1, <3>2 DEF TypeOK
  <2>5. CASE shown'[c] = shown[c]
    BY <2>1, <2>3, <2>4, <2>5 DEF InOrder, At
  <2>6. CASE shown'[c] # shown[c]
    <3>1. PICK d \in Client : BurstSent(d) \/ Update(d) \/ StreamEnds(d)
      BY <2>6 DEF Next, Publish, OtherGetBegins, OtherGetEnds, CombinedBegins, CombinedEnds,
                  Connect, GetCached, GetBegins, GetReturns, GetFailed, PollAgain, vars
    <3>2. d = c
      BY <2>6, <3>1 DEF BurstSent, Update, StreamEnds, IInv, TypeOK
    <3>3. stream'[c].at # "yielding"
      BY <3>1, <3>2, NewStreams DEF BurstSent, Update, StreamEnds, IInv, TypeOK
    <3>4. QED BY <3>3
  <2>7. QED BY <2>5, <2>6
<1>2. QED BY <1>1, StreamInvariant, PTL DEF Spec, ClientNeverGoesBack

(* The events that a merge keeps: within the cache's size, and none that   *)
(* the poll does not mention while MAX_EVENTS fresher ones are known.      *)
LEMMA MergeKeepsFreshest ==
  ASSUME TypeOK, NEW v \in 1..Len(published), NEW kept \in SUBSET Trip,
         Truncated(Merged(v), kept),
         events' = [t \in Trip |-> IF t \in kept THEN Merged(v)[t] ELSE NoEvent]
  PROVE  /\ Cardinality(Known(events')) <= MAX_EVENTS
         /\ \A t \in Known(events') \ Located(v) :
              Cardinality({u \in Located(v) : published[v][u] > events[t].ts}) < MAX_EVENTS
<1>1. Known(events') = kept /\ IsFiniteSet(kept)
  <2>1. \A t \in kept : t \in Trip /\ Merged(v)[t] # NoEvent
    BY DEF Truncated, Known
  <2>2. Known(events') = kept
    BY <2>1 DEF Known
  <2>3. QED BY <2>2, FS_Subset, FeedAssumption
<1>2. Cardinality(kept) \in Nat /\ Cardinality(kept) <= MAX_EVENTS /\ MAX_EVENTS \in Nat
  <2>1. Cardinality(kept) \in Nat
    BY <1>1, FS_CardinalityType
  <2>2. Cardinality(kept) <= MAX_EVENTS
    BY <2>1, FeedAssumption DEF Truncated
  <2>3. QED BY <2>1, <2>2, FeedAssumption
<1>3. ASSUME NEW t \in kept, t \notin Located(v)
      PROVE  Cardinality({u \in Located(v) : published[v][u] > events[t].ts}) < MAX_EVENTS
  <2> DEFINE fresher == {u \in Located(v) : published[v][u] > events[t].ts}
  <2>1. Merged(v)[t] = events[t] /\ events[t].ts \in Int /\ t \in Trip
    BY <1>3, MergedTypes DEF TypeOK
  <2>2. ASSUME NEW u \in fresher
        PROVE  u \in kept \ {t}
    <3>1. /\ u \in Trip /\ u \in Known(Merged(v)) /\ u # t
          /\ Merged(v)[u].ts = published[v][u]
      BY <1>3, MergedTypes DEF Known
    <3>a. published[v][u] \in Int /\ published[v][u] > events[t].ts
      BY <3>1 DEF TypeOK
    <3>2. Merged(v)[u].ts > Merged(v)[t].ts
      BY <2>1, <3>1, <3>a
    <3>3. ~ (Merged(v)[t].ts >= Merged(v)[u].ts)
      BY <2>1, <3>1, <3>a, <3>2
    <3>4. u \in kept
      BY <3>1, <3>3 DEF Truncated
    <3>5. QED BY <3>1, <3>4
  <2> HIDE DEF fresher
  <2>3. /\ IsFiniteSet(kept \ {t})
        /\ Cardinality(kept \ {t}) = Cardinality(kept) - 1
    BY <1>1, FS_RemoveElement
  <2>4. fresher \in SUBSET (kept \ {t})
    BY <2>2
  <2>5. IsFiniteSet(fresher) /\ Cardinality(fresher) <= Cardinality(kept \ {t})
    BY <2>3, <2>4, FS_Subset
  <2>6. Cardinality(fresher) \in Nat
    BY <2>5, FS_CardinalityType
  <2>7. Cardinality(fresher) < MAX_EVENTS
    BY <1>2, <2>3, <2>5, <2>6
  <2>8. QED BY <2>7 DEF fresher
<1>4. QED BY <1>1, <1>2, <1>3

(* Trips that ended age out of the event cache once enough fresher trips   *)
(* have taken their place, for every number of trips and size of it.       *)
THEOREM TripsAgeOut == Spec => EndedTripsAgeOut
<1> DEFINE AgedOut ==
      \A c \in Client : Update(c) =>
        LET v == stream[c].feed
        IN  /\ Cardinality(Known(events')) <= MAX_EVENTS
            /\ \A t \in Known(events') \ Located(v) :
                 Cardinality({u \in Located(v) : published[v][u] > events[t].ts}) < MAX_EVENTS
<1>1. IInv => AgedOut
  <2> SUFFICES ASSUME IInv, NEW c \in Client, Update(c)
               PROVE  /\ Cardinality(Known(events')) <= MAX_EVENTS
                      /\ \A t \in Known(events') \ Located(stream[c].feed) :
                           Cardinality({u \in Located(stream[c].feed) :
                             published[stream[c].feed][u] > events[t].ts}) < MAX_EVENTS
    OBVIOUS
  <2>1. stream[c].feed \in 1..Len(published) /\ TypeOK
    BY StreamTypes DEF Update, At, IInv
  <2>2. PICK kept \in SUBSET Trip :
          /\ Truncated(Merged(stream[c].feed), kept)
          /\ events' = [t \in Trip |->
                          IF t \in kept THEN Merged(stream[c].feed)[t] ELSE NoEvent]
    BY DEF Update
  <2>3. QED BY <2>1, <2>2, MergeKeepsFreshest
<1>2. QED BY <1>1, StreamInvariant, PTL DEF EndedTripsAgeOut
=============================================================================
