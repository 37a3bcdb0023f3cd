----------------------------- MODULE RegionalFeed -----------------------------
(***************************************************************************)
(* split_feed_by_agency: the combined feed of the region is taken apart    *)
(* into one feed per transit system.  An id is the sequence of its parts   *)
(* between colons, so "SF:T1" is <<"SF", "T1">> and "" is <<"">>.  Of an   *)
(* entity, the ids that this program reads are kept.                       *)
(***************************************************************************)
EXTENDS FiniteSets, FiniteSetsExt, Subsequences

None == "none"
Empty == ""
Blank == <<Empty>>

(* _agency_code_and_id: what is before the first colon, if there is one.   *)
AgencyCode(id) == IF Len(id) > 1 THEN id[1] ELSE None

FirstOf(codes) ==
  LET known == {n \in DOMAIN codes : codes[n] \notin {None, Empty}}
  IN  IF known = {} THEN None ELSE codes[Min(known)]

(* Mutant: alerts are attributed by prefixes, as trip updates are.         *)
EntityAgencyCodePrefixOnly(e) ==
  IF e.kind = "trip_update"
  THEN FirstOf(<<AgencyCode(e.route_id), AgencyCode(e.trip_id), AgencyCode(e.id)>>)
  ELSE AgencyCode(e.id)

(* _entity_agency_code: by prefix for a trip update, by the agency_id of   *)
(* the first informed entity for an alert; the entity's own id comes last. *)
EntityAgencyCode(e) ==
  IF e.kind = "trip_update"
  THEN FirstOf(<<AgencyCode(e.route_id), AgencyCode(e.trip_id), AgencyCode(e.id)>>)
  ELSE IF e.informed = << >>
  THEN FirstOf(<<AgencyCode(e.id)>>)
  ELSE LET i == e.informed[1]
       IN  FirstOf(<<i.agency_id, AgencyCode(i.route_id), AgencyCode(i.trip_id),
                     AgencyCode(e.id)>>)

Strip(id, code) == IF AgencyCode(id) = code THEN Tail(id) ELSE id

StrippedInformed(i, code) ==
  [i EXCEPT !.route_id = Strip(@, code), !.trip_id = Strip(@, code), !.stop_id = Strip(@, code)]

(* _stripped_entity.                                                       *)
StrippedEntity(e, code) ==
  IF e.kind = "trip_update"
  THEN [e EXCEPT !.id = Strip(@, code), !.route_id = Strip(@, code),
                 !.trip_id = Strip(@, code),
                 !.stop_ids = [n \in DOMAIN @ |-> Strip(@[n], code)]]
  ELSE [e EXCEPT !.id = Strip(@, code),
                 !.informed = [n \in DOMAIN @ |-> StrippedInformed(@[n], code)]]

(* split_feed_by_agency, for the systems of a map of agency codes: the     *)
(* entities of agencies it does not know are skipped.                      *)
SplitFeed(feed, systems) ==
  LET Owner(e) == LET code == EntityAgencyCode(e)
                  IN  IF code \in DOMAIN systems THEN systems[code] ELSE None
      Stripped(e) == StrippedEntity(e, EntityAgencyCode(e))
      Own(s) == EntriesAt(feed, {n \in DOMAIN feed : Owner(feed[n]) = s})
  IN  [s \in {Owner(feed[n]) : n \in DOMAIN feed} \ {None} |->
         [n \in DOMAIN Own(s) |-> Stripped(Own(s)[n])]]

-----------------------------------------------------------------------------

(* The reports of regional_feed_diagnose, which fetches the own feed of a  *)
(* system and then the combined one: entities by id, the last one winning. *)
ById(feed, kind) ==
  LET places == {n \in DOMAIN feed : feed[n].kind = kind}
  IN  [id \in {feed[n].id : n \in places} |->
         feed[CHOOSE n \in places : /\ feed[n].id = id
                                    /\ \A k \in places : feed[k].id = id => k <= n]]

StopIds(e) == {e.stop_ids[n] : n \in DOMAIN e.stop_ids} \ {Blank}

(* _informed_pairs: a sorted list, so with its repetitions.                *)
Sorted(pairs) ==
  [p \in {pairs[n] : n \in DOMAIN pairs} |-> Cardinality({n \in DOMAIN pairs : pairs[n] = p})]

InformedPairs(e) ==
  Sorted([n \in DOMAIN e.informed |-> <<e.informed[n].route_id, e.informed[n].trip_id>>])

Seen(e) == IF e.kind = "alert" THEN InformedPairs(e) ELSE e.stop_ids

(* Mutant: an entity that only one of the feeds has is a mismatch, too.    *)
MismatchesAll(direct, demuxed) ==
  {id \in DOMAIN direct \cup DOMAIN demuxed :
     \/ id \notin DOMAIN direct \cap DOMAIN demuxed
     \/ Seen(direct[id]) # Seen(demuxed[id])}

(* What an entity shows has to agree only for ids on both sides: the two   *)
(* fetches are not simultaneous.                                           *)
Mismatches(direct, demuxed) ==
  {id \in DOMAIN direct \cap DOMAIN demuxed : Seen(direct[id]) # Seen(demuxed[id])}

(* compare_feeds, and compare_alert_feeds, which says nothing of routes    *)
(* and stops: an alert adds none.                                          *)
CompareFeeds(directFeed, demuxedFeed, kind) ==
  LET direct == ById(directFeed, kind)
      demuxed == ById(demuxedFeed, kind)
      Trips(feed) == {id \in DOMAIN feed : feed[id].kind = "trip_update"}
      RouteIds(feed) == {feed[id].route_id : id \in Trips(feed)} \ {Blank}
      AllStops(feed) == UNION {StopIds(feed[id]) : id \in Trips(feed)}
  IN  [matched |-> Cardinality(DOMAIN direct \cap DOMAIN demuxed),
       ids_only_in_direct |-> DOMAIN direct \ DOMAIN demuxed,
       ids_only_in_demuxed |-> DOMAIN demuxed \ DOMAIN direct,
       mismatches |-> Mismatches(direct, demuxed),
       routes_only_in_direct |-> RouteIds(direct) \ RouteIds(demuxed),
       routes_only_in_demuxed |-> RouteIds(demuxed) \ RouteIds(direct),
       stops_only_in_direct |-> AllStops(direct) \ AllStops(demuxed),
       stops_only_in_demuxed |-> AllStops(demuxed) \ AllStops(direct)]

(* regional_feed_diagnose: the combined feed is taken apart for the one    *)
(* agency asked for.                                                       *)
Diagnosis(directFeed, combinedFeed, agency, system, kind) ==
  LET split == SplitFeed(combinedFeed, [code \in {agency} |-> system])
  IN  CompareFeeds(directFeed, IF system \in DOMAIN split THEN split[system] ELSE << >>, kind)
=============================================================================
