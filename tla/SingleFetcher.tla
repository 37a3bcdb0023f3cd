---------------------------- MODULE SingleFetcher ----------------------------
(***************************************************************************)
(* What RealtimeFeedCache.get promises of a key, free of its callers, its  *)
(* lock and its clock: one fetcher that has at most one request on its way *)
(* and stores the answer to it, or gives the request up, before it sends   *)
(* the next one.                                                           *)
(***************************************************************************)
EXTENDS Integers

CONSTANT Key

VARIABLES
  published, \* the version that the source of each key serves
  feed,      \* the version cached, NoFeed if none
  inflight   \* the request on its way: {}, {Pending}, or its outcome

NoFeed == 0
Pending == 0
Failed == -1

Init ==
  /\ published = [s \in Key |-> 1]
  /\ feed = [s \in Key |-> NoFeed]
  /\ inflight = [s \in Key |-> {}]

Publish(s) ==
  /\ published' = [published EXCEPT ![s] = @ + 1]
  /\ UNCHANGED <<feed, inflight>>

Request(s) ==
  /\ inflight[s] = {}
  /\ inflight' = [inflight EXCEPT ![s] = {Pending}]
  /\ UNCHANGED <<published, feed>>

Answer(s) ==
  /\ inflight[s] = {Pending}
  /\ \E outcome \in {published[s], Failed} :
       inflight' = [inflight EXCEPT ![s] = {outcome}]
  /\ UNCHANGED <<published, feed>>

Store(s) ==
  /\ \E v \in inflight[s] \ {Pending, Failed} :
       /\ inflight[s] = {v}
       /\ feed' = [feed EXCEPT ![s] = v]
  /\ inflight' = [inflight EXCEPT ![s] = {}]
  /\ UNCHANGED published

(* The request failed, or whoever waited for it was cancelled.             *)
GiveUp(s) ==
  /\ inflight[s] # {}
  /\ inflight' = [inflight EXCEPT ![s] = {}]
  /\ UNCHANGED <<published, feed>>

Next == \E s \in Key : Publish(s) \/ Request(s) \/ Answer(s) \/ Store(s) \/ GiveUp(s)

Spec == Init /\ [][Next]_<<published, feed, inflight>>
=============================================================================
