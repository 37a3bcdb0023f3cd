----------------------------- MODULE Migrations -----------------------------
(***************************************************************************)
(* The alembic chain of alembic/versions and what it does to the           *)
(* transit_system registry and to the ingested GTFS Schedule rows.         *)
(*                                                                         *)
(* `alembic upgrade <target>` and `alembic downgrade <target>` run the     *)
(* steps between two revisions in one transaction (env.py), so a step that *)
(* raises (no API key, a foreign key, a constraint that the data no longer *)
(* meets) leaves the database where it was.  Between commands the fetcher  *)
(* ingests schedules, which is what makes a downgrade fail or not.         *)
(*                                                                         *)
(* A column that does not exist at a revision holds its default in every   *)
(* row: adding it changes nothing, dropping it resets it.                  *)
(***************************************************************************)
EXTENDS Naturals, Sequences, SequencesExt, FiniteSets

CONSTANTS Onboarded,    \* onboard_remaining's systems: name -> 511.org agency code
          Shape,        \* name -> what its published schedule has or leaves out
          Ingested,     \* bound: the systems whose ingestion is modelled
          Early         \* bound: systems an early release may have fetched

None == "none"
SEED_SYSTEMS == {"BART", "Helsinki_Regional_Transport", "MBTA", "NY_Waterway"}
HELSINKI == "Helsinki_Regional_Transport"
DEACTIVATED == {"MBTA", "NY_Waterway"}
SFMTA == "SF-MTA"
Names == SEED_SYSTEMS \cup Early \cup {SFMTA} \cup DOMAIN Onboarded

ASSUME OnboardedAreNew ==
    DOMAIN Onboarded \cap (SEED_SYSTEMS \cup Early \cup {SFMTA}) = {}
ASSUME CodesAreDistinct ==
    /\ \A m, n \in DOMAIN Onboarded : Onboarded[m] = Onboarded[n] => m = n
    /\ \A n \in DOMAIN Onboarded : Onboarded[n] \notin {"SF", None}

\* The tables whose rows reference transit_system.id, in ingestion order.
ScheduleTables == <<"route", "trip", "stop", "stop_time", "transfer">>
Children == ToSet(ScheduleTables) \cup {"regional_stop_match"}

\* The revisions in order, by the names of their files.
Chain == << "initial_migration", "nullable_trip_name", "trip_id_to_string",
            "add_trip_direction_id", "add_last_fetched_at", "nullable_stop_zone_id",
            "trip_detail_fields", "timezone", "stop_time_table", "registry",
            "min_poll_interval", "add_sf_mta", "add_alerts_url", "remove_helsinki",
            "add_quota_group", "rotate_api_key", "add_transfer_table",
            "add_agency_code", "cut_sf_mta_over", "onboard_remaining",
            "deactivate_non_bay_area", "scope_short_name", "relax_route_fields",
            "add_stop_area", "add_regional_stop_match" >>
At(id) == CHOOSE i \in DOMAIN Chain : Chain[i] = id
HeadRevision == Len(Chain)

(***************************************************************************)
(* The registry's rows.  `key` is the API key in realtime_url and          *)
(* schedule_url, `alerts` the one in alerts_url: "public" where the source *)
(* needs none, "old" for the compromised 511.org key, "new" for the key    *)
(* read from the environment.                                              *)
(***************************************************************************)
\* A row as an insert that names no other column leaves it.
BlankRow == [key |-> "public", alerts |-> None, active |-> FALSE,
             interval |-> 0, group |-> None, code |-> None]

\* A row with the columns that `values` names set to them.
Having(row, values) ==
    [column \in DOMAIN row |-> IF column \in DOMAIN values THEN values[column] ELSE row[column]]

\* UPDATE transit_system SET values WHERE name IN names.
Updated(rows, names, values) ==
    [n \in DOMAIN rows |-> IF n \in names THEN Having(rows[n], values) ELSE rows[n]]

\* INSERT the new rows, whose names no row has.
Inserted(rows, new) ==
    [n \in DOMAIN rows \cup DOMAIN new |->
        IF n \in DOMAIN new THEN Having(BlankRow, new[n]) ELSE rows[n]]

\* Update the row if it exists, insert it otherwise.
Upserted(rows, names, values) ==
    LET all == DOMAIN rows \cup names
    IN  Updated([n \in all |-> IF n \in DOMAIN rows THEN rows[n] ELSE BlankRow], names, values)

Removed(rows, names) == [n \in DOMAIN rows \ names |-> rows[n]]

\* DROP COLUMN: the default everywhere.
Dropped(rows, defaults) == Updated(rows, DOMAIN rows, defaults)

(***************************************************************************)
(* The steps that change the registry.                                     *)
(***************************************************************************)
\* Mutant: the seed only inserts, and skips a system that has a row already.
RegistrySeedInsertOnly(rows) ==
    Upserted(rows, SEED_SYSTEMS \ DOMAIN rows, [active |-> TRUE])
\* registry: every seed system has an active row, whether or not an
\* earlier fetch had created it; any other row stays inactive.
RegistrySeed(rows) == Upserted(rows, SEED_SYSTEMS, [active |-> TRUE])

\* add_sf_mta: SF-MTA, with the key in the file.
AddSfMta(rows) ==
    Upserted(rows, {SFMTA}, [key |-> "old", active |-> TRUE, interval |-> 240])

\* add_alerts_url: the alerts feeds of BART and SF-MTA.
AddAlertsUrl(rows) ==
    Updated(Updated(rows, {"BART"}, [alerts |-> "public"]), {SFMTA}, [alerts |-> "old"])

\* Mutant: the table added after the others is left out of the deletion.
HelsinkiTablesOlder == {"stop", "trip", "route"}
\* remove_helsinki: the children deleted before the system's own row.
HelsinkiTables == {"stop_time", "stop", "trip", "route"}

\* remove_helsinki downgrade: the row comes back, inactive and empty.
RestoreHelsinki(rows) == Inserted(rows, [n \in {HELSINKI} |-> [active |-> FALSE]])

\* add_quota_group: the scheduler paces SF-MTA, a request's own fetch is a fallback.
AddQuotaGroup(rows) ==
    Updated(rows, {SFMTA}, [group |-> "511.org", interval |-> 900])
\* Mutant: the downgrade drops the column and keeps the fallback interval.
DropQuotaGroupOnly(rows) == Dropped(rows, [group |-> None])
\* add_quota_group downgrade: without the scheduler the old interval is back.
DropQuotaGroup(rows) ==
    Dropped(Updated(rows, {SFMTA}, [interval |-> 240]), [group |-> None])

\* rotate_api_key: every URL that held the compromised key.
RotateApiKey(rows) == Updated(rows, {SFMTA}, [key |-> "new", alerts |-> "new"])

\* cut_sf_mta_over and its downgrade.
CutSfMtaOver(rows) == Updated(rows, {SFMTA}, [code |-> "SF"])
CutSfMtaBack(rows) == Updated(rows, {SFMTA}, [code |-> None])

\* onboard_remaining: plain INSERTs, one per agency.
OnboardRemaining(rows) ==
    Inserted(rows, [n \in DOMAIN Onboarded |->
                       [key |-> "new", alerts |-> "new", active |-> TRUE,
                        interval |-> 900, group |-> "511.org", code |-> Onboarded[n]]])

\* deactivate_non_bay_area and its downgrade.
Deactivate(rows) == Updated(rows, DEACTIVATED, [active |-> FALSE])
Reactivate(rows) == Updated(rows, DEACTIVATED, [active |-> TRUE])

(***************************************************************************)
(* One step of the chain on a database [rows, children].                   *)
(***************************************************************************)
\* No child row references the systems about to be deleted: there is no
\* ON DELETE CASCADE.
NoChildren(children, names) == \A n \in names : children[n] = {}

\* What may raise in upgrade(): the missing key, and a foreign key when a
\* child table of Helsinki's is left out.
CanUpgrade(id, db, apiKey) ==
    /\ id \in {"rotate_api_key", "onboard_remaining"} => apiKey
    /\ id = "onboard_remaining" => DOMAIN Onboarded \cap DOMAIN db.rows = {}
    /\ id = "remove_helsinki" => db.children[HELSINKI] \subseteq HelsinkiTables

UpgradedRows(id, rows) ==
    CASE id = "registry" -> RegistrySeed(rows)
      [] id = "add_sf_mta" -> AddSfMta(rows)
      [] id = "add_alerts_url" -> AddAlertsUrl(rows)
      [] id = "remove_helsinki" -> Removed(rows, {HELSINKI})
      [] id = "add_quota_group" -> AddQuotaGroup(rows)
      [] id = "rotate_api_key" -> RotateApiKey(rows)
      [] id = "cut_sf_mta_over" -> CutSfMtaOver(rows)
      [] id = "onboard_remaining" -> OnboardRemaining(rows)
      [] id = "deactivate_non_bay_area" -> Deactivate(rows)
      [] OTHER -> rows

\* The other steps create empty tables, add columns or relax constraints.
UpgradedBy(id, db) ==
    [rows |-> UpgradedRows(id, db.rows),
     children |-> IF id = "remove_helsinki" THEN [db.children EXCEPT ![HELSINKI] = {}]
                                         ELSE db.children]

\* The ingested rows that a restored constraint would reject: the table and
\* the trait of the published schedule that puts such a row in it.
Rejected == [ nullable_trip_name |-> [table |-> "trip",  trait |-> "null name"],
              trip_id_to_string |-> [table |-> "trip",  trait |-> "text trip_id"],
              nullable_stop_zone_id |-> [table |-> "stop",  trait |-> "null zone_id"],
              relax_route_fields |-> [table |-> "route", trait |-> "null route field"] ]

Holding(db, table, trait) ==
    {n \in DOMAIN db.rows : table \in db.children[n] /\ trait \in Shape[n]}

\* What may raise in downgrade(): a NOT NULL or a cast, the uniqueness of
\* short names over all systems, a foreign key.
CanDowngrade(id, db) ==
    /\ id \in DOMAIN Rejected
          => Holding(db, Rejected[id].table, Rejected[id].trait) = {}
    /\ id = "scope_short_name" => Cardinality(Holding(db, "route", "common short_name")) < 2
    /\ id = "onboard_remaining" => NoChildren(db.children, DOMAIN Onboarded)
    /\ id = "add_sf_mta" => NoChildren(db.children, {SFMTA})

DowngradedRows(id, rows) ==
    CASE id = "deactivate_non_bay_area" -> Reactivate(rows)
      [] id = "onboard_remaining" -> Removed(rows, DOMAIN Onboarded)
      [] id = "cut_sf_mta_over" -> CutSfMtaBack(rows)
      [] id = "add_agency_code" -> Dropped(rows, [code |-> None])
      [] id = "add_quota_group" -> DropQuotaGroup(rows)
      [] id = "remove_helsinki" -> RestoreHelsinki(rows)
      [] id = "add_alerts_url" -> Dropped(rows, [alerts |-> None])
      [] id = "add_sf_mta" -> Removed(rows, {SFMTA})
      [] id = "min_poll_interval" -> Dropped(rows, [interval |-> 0])
      [] id = "registry" -> Dropped(rows, [active |-> FALSE])
      [] id = "initial_migration" -> Removed(rows, Names)
      [] OTHER -> rows

\* The tables a downgrade drops.
CreatedBy == [ add_regional_stop_match |-> {"regional_stop_match"}, add_transfer_table |-> {"transfer"},
               stop_time_table |-> {"stop_time"}, initial_migration |-> {"trip", "stop", "route"} ]

DowngradedBy(id, db) ==
    [rows |-> DowngradedRows(id, db.rows),
     children |-> IF id \in DOMAIN CreatedBy
                  THEN [n \in Names |-> db.children[n] \ CreatedBy[id]]
                  ELSE db.children]

(***************************************************************************)
(* One command: the steps between two revisions, all of them or none.      *)
(***************************************************************************)
VARIABLES revision,     \* how many steps of Chain are applied
          rows,         \* transit_system: name -> row
          children      \* name -> the tables that hold rows of the system

vars == <<revision, rows, children>>

Database == [rows |-> rows, children |-> children]

\* What a step makes of [ok, db], ok = FALSE once a step has raised.
UpgradeStep(id, r, apiKey) ==
    IF r.ok /\ CanUpgrade(id, r.db, apiKey)
    THEN [ok |-> TRUE, db |-> UpgradedBy(id, r.db)]
    ELSE [ok |-> FALSE, db |-> r.db]

DowngradeStep(id, r) ==
    IF r.ok /\ CanDowngrade(id, r.db)
    THEN [ok |-> TRUE, db |-> DowngradedBy(id, r.db)]
    ELSE [ok |-> FALSE, db |-> r.db]

AfterUpgrade(target, apiKey) ==
    LET at[i \in revision..target] ==
            IF i = revision THEN [ok |-> TRUE, db |-> Database]
                            ELSE UpgradeStep(Chain[i], at[i - 1], apiKey)
    IN  at[target]

AfterDowngrade(target) ==
    LET at[i \in target..revision] ==
            IF i = revision THEN [ok |-> TRUE, db |-> Database]
                            ELSE DowngradeStep(Chain[i + 1], at[i + 1])
    IN  at[target]

Committed(result, target) ==
    /\ result.ok
    /\ revision' = target
    /\ rows' = result.db.rows
    /\ children' = result.db.children

\* `alembic upgrade`, with or without the API key in the environment.
Upgrade(target, apiKey) ==
    /\ target > revision
    /\ Committed(AfterUpgrade(target, apiKey), target)

\* `alembic downgrade`.
Downgrade(target) ==
    /\ target < revision
    /\ Committed(AfterDowngrade(target), target)

\* The fetcher on a system that has a row, with the models of the head
\* revision: the tables commit in order, and a failure leaves the later ones.
Ingest(n, last) ==
    /\ revision = HeadRevision
    /\ n \in DOMAIN rows
    /\ children' = [children EXCEPT ![n] = @ \cup ToSet(SubSeq(ScheduleTables, 1, last))]
    /\ UNCHANGED <<revision, rows>>

\* The regional task: matches for a system whose stops are ingested.
MatchStops(n) ==
    /\ revision = HeadRevision
    /\ n \in DOMAIN rows /\ rows[n].active
    /\ "stop" \in children[n]
    /\ children' = [children EXCEPT ![n] = @ \cup {"regional_stop_match"}]
    /\ UNCHANGED <<revision, rows>>

\* An empty database, or one that an early release has used: until the
\* registry was seeded, a fetch created the row of its system.
Init ==
    /\ revision \in {0, At("stop_time_table")}
    /\ \E found \in SUBSET Early :
          /\ revision = 0 => found = {}
          /\ rows = [n \in found |-> BlankRow]
          /\ children = [n \in Names |-> IF n \in found
                                          THEN ToSet(ScheduleTables) \ {"transfer"}
                                          ELSE {}]

Next ==
    \/ \E target \in 1..HeadRevision, apiKey \in BOOLEAN : Upgrade(target, apiKey)
    \/ \E target \in 0..HeadRevision - 1 : Downgrade(target)
    \/ \E n \in Ingested, last \in DOMAIN ScheduleTables : Ingest(n, last)
    \/ \E n \in Ingested : MatchStops(n)

Spec == Init /\ [][Next]_vars

\* What release documents call the registry: BART on its own feed, SF-MTA and
\* the onboarded systems through 511.org, everything else inactive.
CanonicalRow(n) ==
    CASE n = "BART" -> Having(BlankRow, [alerts |-> "public", active |-> TRUE])
      [] n = SFMTA -> [key |-> "new", alerts |-> "new", active |-> TRUE,
                        interval |-> 900, group |-> "511.org", code |-> "SF"]
      [] n \in DOMAIN Onboarded ->
            [key |-> "new", alerts |-> "new", active |-> TRUE,
             interval |-> 900, group |-> "511.org", code |-> Onboarded[n]]
      [] OTHER -> BlankRow

\* Whatever was upgraded, rolled back, ingested and upgraded again, and from
\* whichever database it began, the head revision has one registry: the
\* systems the service serves, each with its pace, group, code and key
\* (7a2c4e6f8b1d updates or inserts, downgrades delete or restore).
HeadIsCanonical ==
    revision = HeadRevision =>
        /\ Names \ (Early \cup {HELSINKI}) \subseteq DOMAIN rows
        /\ HELSINKI \notin DOMAIN rows
        /\ \A n \in DOMAIN rows : rows[n] = CanonicalRow(n)

\* At every revision a system waits 900 seconds between polls of its own
\* exactly when a quota group's scheduler paces it, and only such a system
\* is fed by agency code, no two by the same (b9d4e2f8a3c1's comment: left at
\* 900 without the scheduler, SF-MTA would be starved).
PacedIffGrouped ==
    \A n \in DOMAIN rows :
        /\ rows[n].interval = 900 <=> rows[n].group # None
        /\ rows[n].code # None => rows[n].group # None
        /\ \A m \in DOMAIN rows : rows[m].code = rows[n].code /\ rows[n].code # None => m = n

\* A deploy is never stuck on its data: with the API key, `alembic upgrade
\* head` succeeds from every database the commands and the fetcher can leave
\* (a4f2c9e7b1d3 deletes every child row first, c1e945793eb9's plain INSERTs
\* meet no row).
UpgradeNeverStuck == AfterUpgrade(HeadRevision, TRUE).ok
=============================================================================
