-------------------------- MODULE Migrations_proofs --------------------------
(***************************************************************************)
(* Proofs about Migrations, for every set of onboarded agencies, of shapes *)
(* of their schedules and of systems fetched early: what the registry      *)
(* holds at a revision does not depend on how the revision was reached.    *)
(***************************************************************************)
EXTENDS Migrations, Integers, WellFoundedInduction, TLAPS

(* A row, column by column.                                                *)
Row(k, a, on, i, g, c) ==
  [key |-> k, alerts |-> a, active |-> on, interval |-> i, group |-> g, code |-> c]

(* What an UPDATE of some columns leaves.                                  *)
LEMMA SetActive ==
  ASSUME NEW k, NEW a, NEW on, NEW i, NEW g, NEW c, NEW x
  PROVE  Having(Row(k, a, on, i, g, c), [active |-> x]) = Row(k, a, x, i, g, c)
BY DEF Having, Row

LEMMA SetAlerts ==
  ASSUME NEW k, NEW a, NEW on, NEW i, NEW g, NEW c, NEW x
  PROVE  Having(Row(k, a, on, i, g, c), [alerts |-> x]) = Row(k, x, on, i, g, c)
BY DEF Having, Row

LEMMA SetInterval ==
  ASSUME NEW k, NEW a, NEW on, NEW i, NEW g, NEW c, NEW x
  PROVE  Having(Row(k, a, on, i, g, c), [interval |-> x]) = Row(k, a, on, x, g, c)
BY DEF Having, Row

LEMMA SetGroup ==
  ASSUME NEW k, NEW a, NEW on, NEW i, NEW g, NEW c, NEW x
  PROVE  Having(Row(k, a, on, i, g, c), [group |-> x]) = Row(k, a, on, i, x, c)
BY DEF Having, Row

LEMMA SetCode ==
  ASSUME NEW k, NEW a, NEW on, NEW i, NEW g, NEW c, NEW x
  PROVE  Having(Row(k, a, on, i, g, c), [code |-> x]) = Row(k, a, on, i, g, x)
BY DEF Having, Row

LEMMA SetServing ==
  ASSUME NEW k, NEW a, NEW on, NEW i, NEW g, NEW c, NEW x, NEW y
  PROVE  Having(Row(k, a, on, i, g, c), [alerts |-> x, active |-> y]) = Row(k, x, y, i, g, c)
BY DEF Having, Row

LEMMA SetPace ==
  ASSUME NEW k, NEW a, NEW on, NEW i, NEW g, NEW c, NEW x, NEW y
  PROVE  Having(Row(k, a, on, i, g, c), [group |-> x, interval |-> y]) = Row(k, a, on, y, x, c)
BY DEF Having, Row

LEMMA SetKeys ==
  ASSUME NEW k, NEW a, NEW on, NEW i, NEW g, NEW c, NEW x, NEW y
  PROVE  Having(Row(k, a, on, i, g, c), [key |-> x, alerts |-> y]) = Row(x, y, on, i, g, c)
BY DEF Having, Row

LEMMA SetSource ==
  ASSUME NEW k, NEW a, NEW on, NEW i, NEW g, NEW c, NEW x, NEW y, NEW z
  PROVE  Having(Row(k, a, on, i, g, c), [key |-> x, active |-> y, interval |-> z]) = Row(x, a, y, z, g, c)
BY DEF Having, Row

LEMMA SetEveryColumn ==
  ASSUME NEW k, NEW a, NEW on, NEW i, NEW g, NEW c
  PROVE  Having(BlankRow, Row(k, a, on, i, g, c)) = Row(k, a, on, i, g, c)
BY DEF Having, Row, BlankRow

On == TRUE
Off == FALSE

LEMMA BlankColumns == BlankRow = Row("public", None, Off, 0, None, None)
BY DEF BlankRow, Row, Off

LEMMA Positions ==
  /\ HeadRevision = 25 /\ At("stop_time_table") = 9 /\ DOMAIN Chain = 1..25
  /\ \A i \in 1..25 :
       /\ Chain[i] = "initial_migration" <=> i = 1
       /\ Chain[i] = "registry" <=> i = 10
       /\ Chain[i] = "min_poll_interval" <=> i = 11
       /\ Chain[i] = "add_sf_mta" <=> i = 12
       /\ Chain[i] = "add_alerts_url" <=> i = 13
       /\ Chain[i] = "remove_helsinki" <=> i = 14
       /\ Chain[i] = "add_quota_group" <=> i = 15
       /\ Chain[i] = "rotate_api_key" <=> i = 16
       /\ Chain[i] = "add_agency_code" <=> i = 18
       /\ Chain[i] = "cut_sf_mta_over" <=> i = 19
       /\ Chain[i] = "onboard_remaining" <=> i = 20
       /\ Chain[i] = "deactivate_non_bay_area" <=> i = 21
       /\ Chain[i] = "add_transfer_table" <=> i = 17
       /\ Chain[i] = "add_regional_stop_match" <=> i = 25
<1>1. HeadRevision = 25 /\ DOMAIN Chain = 1..25
  BY DEF HeadRevision, Chain
<1>2. At("stop_time_table") = 9
  BY DEF At, Chain
<1>3. QED BY <1>1, <1>2 DEF Chain
-----------------------------------------------------------------------------

(* The statements that change rows: which rows there are, and what is in   *)
(* each of them.                                                           *)
LEMMA UpdatedRows ==
  ASSUME NEW rs, NEW names, NEW values
  PROVE  /\ DOMAIN Updated(rs, names, values) = DOMAIN rs
         /\ \A n \in DOMAIN rs :
              Updated(rs, names, values)[n] = IF n \in names THEN Having(rs[n], values) ELSE rs[n]
BY DEF Updated

LEMMA DroppedRows ==
  ASSUME NEW rs, NEW defaults
  PROVE  /\ DOMAIN Dropped(rs, defaults) = DOMAIN rs
         /\ \A n \in DOMAIN rs : Dropped(rs, defaults)[n] = Having(rs[n], defaults)
BY DEF Dropped, Updated

-----------------------------------------------------------------------------

(* What the row of a system may be at a revision.  Two things depend on    *)
(* the way there: Helsinki's row comes back inactive, and SF-MTA's keeps   *)
(* the new API key below the revision that rotates it.                     *)
ServingAt(rev) == IF rev < 10 THEN Off ELSE On
PublicAlertsAt(rev) == IF rev < 13 THEN None ELSE "public"
BartAt(rev, row) ==
  row = Row("public", PublicAlertsAt(rev), ServingAt(rev), 0, None, None)

StillServingAt(rev) == IF rev < 10 \/ rev > 20 THEN Off ELSE On
DeactivatedAt(rev, row) ==
  row = Row("public", None, StillServingAt(rev), 0, None, None)

HelsinkiAt(rev, row) ==
  row = BlankRow \/ (rev > 9 /\ row = Row("public", None, On, 0, None, None))

AlertsAt(rev, alerts) == IF rev < 13 THEN None ELSE alerts
IntervalAt(rev) == IF rev < 15 THEN 240 ELSE 900
GroupAt(rev) == IF rev < 15 THEN None ELSE "511.org"
CodeAt(rev) == IF rev < 19 THEN None ELSE "SF"
SfMtaRow(rev, key, alerts) ==
  Row(key, AlertsAt(rev, alerts), On, IntervalAt(rev), GroupAt(rev), CodeAt(rev))
SfMtaAt(rev, row) ==
  IF rev < 12 THEN row = BlankRow
  ELSE \E key, alerts \in {"old", "new"} :
         row = SfMtaRow(rev, key, alerts) /\ (rev > 15 => key = "new" /\ alerts = "new")

OnboardedRow(n) == Row("new", "new", On, 900, "511.org", Onboarded[n])

RowAt(n, rev, row) ==
  /\ n = "BART" => BartAt(rev, row)
  /\ n \in DEACTIVATED => DeactivatedAt(rev, row)
  /\ n = HELSINKI => HelsinkiAt(rev, row)
  /\ n = SFMTA => SfMtaAt(rev, row)
  /\ n \in DOMAIN Onboarded => row = OnboardedRow(n)
  /\ n \notin SEED_SYSTEMS \cup {SFMTA} \cup DOMAIN Onboarded => row = BlankRow

SystemsAt(rev, names) ==
  /\ names \subseteq Names
  /\ rev > 9 => {"BART", "MBTA", "NY_Waterway"} \subseteq names
  /\ rev > 11 => SFMTA \in names
  /\ rev > 13 => HELSINKI \notin names
  /\ IF rev > 19 THEN DOMAIN Onboarded \subseteq names ELSE DOMAIN Onboarded \cap names = {}

RowsAt(rev, rs) ==
  SystemsAt(rev, DOMAIN rs) /\ \A n \in DOMAIN rs : RowAt(n, rev, rs[n])

(* The tables that hold rows of a system are those that exist.             *)
ChildrenAt(rev, tables) ==
  /\ tables \in [Names -> SUBSET Children]
  /\ \A n \in Names : /\ rev < 25 => "regional_stop_match" \notin tables[n]
                      /\ rev < 17 => "transfer" \notin tables[n]

DatabaseAt(rev, db) == RowsAt(rev, db.rows) /\ ChildrenAt(rev, db.children)

LEMMA SystemNames ==
  /\ SEED_SYSTEMS = {"BART", HELSINKI, "MBTA", "NY_Waterway"}
  /\ DEACTIVATED = {"MBTA", "NY_Waterway"}
  /\ SFMTA \notin SEED_SYSTEMS /\ HELSINKI # "BART" /\ HELSINKI \notin DEACTIVATED
  /\ DOMAIN Onboarded \cap (SEED_SYSTEMS \cup Early \cup {SFMTA}) = {}
  /\ SEED_SYSTEMS \subseteq Names /\ SFMTA \in Names /\ DOMAIN Onboarded \subseteq Names
  /\ Early \subseteq Names
  /\ Names = SEED_SYSTEMS \cup Early \cup {SFMTA} \cup DOMAIN Onboarded
BY OnboardedAreNew DEF SEED_SYSTEMS, DEACTIVATED, SFMTA, HELSINKI, Names

(* Each kind of system, and the conjunct of RowAt that is about it.        *)
LEMMA KindsOfSystem ==
  ASSUME NEW n, NEW rev, NEW row
  PROVE  /\ n = "BART" => (RowAt(n, rev, row) <=> BartAt(rev, row))
         /\ n \in DEACTIVATED => (RowAt(n, rev, row) <=> DeactivatedAt(rev, row))
         /\ n = HELSINKI => (RowAt(n, rev, row) <=> HelsinkiAt(rev, row))
         /\ n = SFMTA => (RowAt(n, rev, row) <=> SfMtaAt(rev, row))
         /\ n \in DOMAIN Onboarded => (RowAt(n, rev, row) <=> row = OnboardedRow(n))
         /\ n \notin SEED_SYSTEMS \cup {SFMTA} \cup DOMAIN Onboarded =>
              (RowAt(n, rev, row) <=> row = BlankRow)
         /\ \/ n = "BART" \/ n \in DEACTIVATED \/ n = HELSINKI \/ n = SFMTA
            \/ n \in DOMAIN Onboarded \/ n \notin SEED_SYSTEMS \cup {SFMTA} \cup DOMAIN Onboarded
<1>1. /\ SEED_SYSTEMS = {"BART", HELSINKI, "MBTA", "NY_Waterway"}
      /\ DEACTIVATED = {"MBTA", "NY_Waterway"}
      /\ SFMTA \notin SEED_SYSTEMS /\ HELSINKI # "BART" /\ HELSINKI \notin DEACTIVATED
      /\ \A m \in DOMAIN Onboarded : m \notin SEED_SYSTEMS /\ m # SFMTA
  BY SystemNames
<1>2. "BART" # "MBTA" /\ "BART" # "NY_Waterway"
  OBVIOUS
<1>3. "BART" \in SEED_SYSTEMS /\ HELSINKI \in SEED_SYSTEMS /\ DEACTIVATED \subseteq SEED_SYSTEMS
      /\ "BART" \notin DEACTIVATED
  BY <1>1, <1>2
<1>4. n \in SEED_SYSTEMS <=> n = "BART" \/ n \in DEACTIVATED \/ n = HELSINKI
  BY <1>1
<1>5. QED BY <1>1, <1>3, <1>4 DEF RowAt

LEMMA SfMtaRows ==
  ASSUME NEW key, NEW alerts
  PROVE  /\ SfMtaRow(12, key, alerts) = Row(key, None, On, 240, None, None)
         /\ \A rev \in 13..14 :
              SfMtaRow(rev, key, alerts) = Row(key, alerts, On, 240, None, None)
         /\ \A rev \in 15..18 :
              SfMtaRow(rev, key, alerts) = Row(key, alerts, On, 900, "511.org", None)
         /\ \A rev \in 19..25 :
              SfMtaRow(rev, key, alerts) = Row(key, alerts, On, 900, "511.org", "SF")
<1>1. \A rev \in 12..25 :
        /\ AlertsAt(rev, alerts) = IF rev < 13 THEN None ELSE alerts
        /\ IntervalAt(rev) = IF rev < 15 THEN 240 ELSE 900
        /\ GroupAt(rev) = IF rev < 15 THEN None ELSE "511.org"
        /\ CodeAt(rev) = IF rev < 19 THEN None ELSE "SF"
  BY DEF AlertsAt, IntervalAt, GroupAt, CodeAt
<1>2. QED BY <1>1 DEF SfMtaRow

(* The rows that a step of the chain is about.                             *)
Touched(n, i) ==
  \/ n = "BART" /\ i \in {10, 13}
  \/ n \in DEACTIVATED /\ i \in {10, 21}
  \/ n = HELSINKI /\ i = 10
  \/ n = SFMTA /\ i \in {12, 13, 15, 16, 19}

LEMMA RowStays ==
  ASSUME NEW n, NEW i \in 1..25, NEW row, ~ Touched(n, i)
  PROVE  RowAt(n, i - 1, row) <=> RowAt(n, i, row)
<1>1. CASE n = "BART"
  <2>1. i \notin {10, 13}
    BY <1>1 DEF Touched
  <2>2. (i - 1 < 13 <=> i < 13) /\ (i - 1 < 10 <=> i < 10)
    BY <2>1
  <2>3. BartAt(i - 1, row) <=> BartAt(i, row)
    BY <2>2 DEF BartAt, PublicAlertsAt, ServingAt
  <2>4. QED BY <1>1, <2>3, KindsOfSystem
<1>2. CASE n \in DEACTIVATED
  <2>1. i \notin {10, 21}
    BY <1>2 DEF Touched
  <2>2. (i - 1 < 10 <=> i < 10) /\ (i - 1 > 20 <=> i > 20)
    BY <2>1
  <2>3. DeactivatedAt(i - 1, row) <=> DeactivatedAt(i, row)
    BY <2>2 DEF DeactivatedAt, StillServingAt
  <2>4. QED BY <1>2, <2>3, KindsOfSystem
<1>3. CASE n = HELSINKI
  <2>1. i - 1 > 9 <=> i > 9
    BY <1>3 DEF Touched
  <2>2. HelsinkiAt(i - 1, row) <=> HelsinkiAt(i, row)
    BY <2>1 DEF HelsinkiAt
  <2>3. QED BY <1>3, <2>2, KindsOfSystem
<1>4. CASE n = SFMTA
  <2>1. i \notin {12, 13, 15, 16, 19}
    BY <1>4 DEF Touched
  <2>2. (i - 1 < 12 <=> i < 12) /\ (i - 1 < 13 <=> i < 13) /\ (i - 1 < 15 <=> i < 15)
        /\ (i - 1 > 15 <=> i > 15) /\ (i - 1 < 19 <=> i < 19)
    BY <2>1
  <2>3. ASSUME NEW key, NEW alerts
        PROVE  SfMtaRow(i - 1, key, alerts) = SfMtaRow(i, key, alerts)
    <3>1. /\ AlertsAt(i - 1, alerts) = AlertsAt(i, alerts) /\ IntervalAt(i - 1) = IntervalAt(i)
          /\ GroupAt(i - 1) = GroupAt(i) /\ CodeAt(i - 1) = CodeAt(i)
      BY <2>2 DEF AlertsAt, IntervalAt, GroupAt, CodeAt
    <3>2. QED BY <3>1 DEF SfMtaRow
  <2>4. SfMtaAt(i - 1, row) <=> SfMtaAt(i, row)
    BY <2>2, <2>3 DEF SfMtaAt
  <2>5. QED BY <1>4, <2>4, KindsOfSystem
<1>5. CASE n \in DOMAIN Onboarded
  BY <1>5, KindsOfSystem
<1>6. CASE n \notin SEED_SYSTEMS \cup {SFMTA} \cup DOMAIN Onboarded
  BY <1>6, KindsOfSystem
<1>7. QED BY <1>1, <1>2, <1>3, <1>4, <1>5, <1>6, KindsOfSystem

(* The systems other than SF-MTA and the onboarded ones.                   *)
LEMMA OtherRows ==
  ASSUME NEW n, NEW rev, NEW row, RowAt(n, rev, row), n \notin DOMAIN Onboarded, n # SFMTA
  PROVE  \E a, on : row = Row("public", a, on, 0, None, None) /\ (n # "BART" => a = None)
<1>1. CASE n = "BART"
  BY <1>1, KindsOfSystem DEF BartAt
<1>2. CASE n \in DEACTIVATED
  BY <1>2, KindsOfSystem DEF DeactivatedAt
<1>3. CASE n = HELSINKI
  BY <1>3, KindsOfSystem, BlankColumns DEF HelsinkiAt
<1>4. CASE n \notin SEED_SYSTEMS \cup {SFMTA} \cup DOMAIN Onboarded
  BY <1>4, KindsOfSystem, BlankColumns
<1>5. QED BY <1>1, <1>2, <1>3, <1>4, KindsOfSystem

(* The columns that hold their default in every row of some systems.       *)
LEMMA DefaultColumns ==
  ASSUME NEW n, NEW rev \in 0..25, NEW row, RowAt(n, rev, row), n \notin DOMAIN Onboarded
  PROVE  /\ n # SFMTA => Having(row, [group |-> None]) = row
         /\ rev < 19 => Having(row, [code |-> None]) = row
         /\ n \notin {SFMTA, "BART"} => Having(row, [alerts |-> None]) = row
         /\ rev < 12 => Having(row, [interval |-> 0]) = row
<1>1. CASE n # SFMTA
  <2>1. \E a, on : row = Row("public", a, on, 0, None, None) /\ (n # "BART" => a = None)
    BY <1>1, OtherRows
  <2>2. PICK a, on : row = Row("public", a, on, 0, None, None) /\ (n # "BART" => a = None)
    BY <2>1
  <2>3. QED BY <1>1, <2>2, SetGroup, SetCode, SetAlerts, SetInterval
<1>2. CASE n = SFMTA
  <2>1. SfMtaAt(rev, row)
    BY <1>2, KindsOfSystem
  <2>2. CASE rev < 12
    <3>1. row = Row("public", None, Off, 0, None, None)
      BY <2>1, <2>2, BlankColumns DEF SfMtaAt
    <3>2. QED BY <1>2, <3>1, SetCode, SetInterval
  <2>3. CASE ~ (rev < 12)
    <3>1. PICK key, alerts : row = SfMtaRow(rev, key, alerts)
      BY <2>1, <2>3 DEF SfMtaAt
    <3>2. rev < 19 => \E a, i, g : row = Row(key, a, On, i, g, None)
      BY <3>1 DEF SfMtaRow, CodeAt
    <3>3. rev < 19 => Having(row, [code |-> None]) = row
      BY <3>2, SetCode
    <3>4. QED BY <1>2, <2>3, <3>3
  <2>4. QED BY <2>2, <2>3
<1>3. QED BY <1>1, <1>2

(* What the steps make of the rows they are about, both ways.              *)
LEMMA BartSteps ==
  ASSUME NEW row
  PROVE  /\ BartAt(9, row) => BartAt(10, Having(row, [active |-> On]))
         /\ BartAt(12, row) => BartAt(13, Having(row, [alerts |-> "public"]))
         /\ BartAt(13, row) => BartAt(12, Having(row, [alerts |-> None]))
         /\ BartAt(10, row) => BartAt(9, Having(row, [active |-> Off]))
<1>1. \A r : /\ BartAt(9, r) <=> r = Row("public", None, Off, 0, None, None)
             /\ BartAt(12, r) <=> r = Row("public", None, On, 0, None, None)
             /\ BartAt(13, r) <=> r = Row("public", "public", On, 0, None, None)
             /\ BartAt(10, r) <=> r = Row("public", None, On, 0, None, None)
  <2>1. /\ PublicAlertsAt(9) = None /\ ServingAt(9) = Off /\ PublicAlertsAt(10) = None
        /\ ServingAt(10) = On /\ PublicAlertsAt(12) = None /\ ServingAt(12) = On
        /\ PublicAlertsAt(13) = "public" /\ ServingAt(13) = On
    BY DEF PublicAlertsAt, ServingAt
  <2>2. QED BY <2>1 DEF BartAt
<1>2. QED BY <1>1, SetActive, SetAlerts

LEMMA DeactivatedSteps ==
  ASSUME NEW row
  PROVE  /\ DeactivatedAt(9, row) => DeactivatedAt(10, Having(row, [active |-> On]))
         /\ DeactivatedAt(20, row) => DeactivatedAt(21, Having(row, [active |-> Off]))
         /\ DeactivatedAt(21, row) => DeactivatedAt(20, Having(row, [active |-> On]))
         /\ DeactivatedAt(10, row) => DeactivatedAt(9, Having(row, [active |-> Off]))
<1>1. \A r : /\ DeactivatedAt(9, r) <=> r = Row("public", None, Off, 0, None, None)
             /\ DeactivatedAt(10, r) <=> r = Row("public", None, On, 0, None, None)
             /\ DeactivatedAt(20, r) <=> r = Row("public", None, On, 0, None, None)
             /\ DeactivatedAt(21, r) <=> r = Row("public", None, Off, 0, None, None)
  <2>1. /\ StillServingAt(9) = Off /\ StillServingAt(10) = On
        /\ StillServingAt(20) = On /\ StillServingAt(21) = Off
    BY DEF StillServingAt
  <2>2. QED BY <2>1 DEF DeactivatedAt
<1>2. QED BY <1>1, SetActive

LEMMA HelsinkiSteps ==
  ASSUME NEW row
  PROVE  /\ HelsinkiAt(9, row) => HelsinkiAt(10, Having(row, [active |-> On]))
         /\ HelsinkiAt(10, row) => HelsinkiAt(9, Having(row, [active |-> Off]))
         /\ HelsinkiAt(13, BlankRow)
<1>1. \A r : /\ HelsinkiAt(9, r) <=> r = Row("public", None, Off, 0, None, None)
             /\ HelsinkiAt(10, r) <=> \/ r = Row("public", None, Off, 0, None, None)
                                      \/ r = Row("public", None, On, 0, None, None)
             /\ HelsinkiAt(13, r) <=> \/ r = Row("public", None, Off, 0, None, None)
                                      \/ r = Row("public", None, On, 0, None, None)
  BY BlankColumns DEF HelsinkiAt
<1>2. QED BY <1>1, SetActive, BlankColumns

LEMMA SfMtaSteps ==
  ASSUME NEW row
  PROVE  /\ SfMtaAt(11, row) => /\ row = BlankRow
                                /\ SfMtaAt(12, Having(row, [key |-> "old", active |-> On,
                                                            interval |-> 240]))
         /\ SfMtaAt(12, row) => SfMtaAt(13, Having(row, [alerts |-> "old"]))
         /\ SfMtaAt(14, row) => SfMtaAt(15, Having(row, [group |-> "511.org", interval |-> 900]))
         /\ SfMtaAt(15, row) => SfMtaAt(16, Having(row, [key |-> "new", alerts |-> "new"]))
         /\ SfMtaAt(18, row) => SfMtaAt(19, Having(row, [code |-> "SF"]))
         /\ SfMtaAt(19, row) => SfMtaAt(18, Having(row, [code |-> None]))
         /\ SfMtaAt(16, row) => SfMtaAt(15, row)
         /\ SfMtaAt(15, row) => SfMtaAt(14, Having(Having(row, [interval |-> 240]),
                                                   [group |-> None]))
         /\ SfMtaAt(13, row) => SfMtaAt(12, Having(row, [alerts |-> None]))
<1> DEFINE Keys == {"old", "new"}
<1>1. \A r : /\ SfMtaAt(11, r) <=> r = BlankRow
             /\ SfMtaAt(12, r) <=> \E key, alerts \in Keys : r = SfMtaRow(12, key, alerts)
             /\ SfMtaAt(13, r) <=> \E key, alerts \in Keys : r = SfMtaRow(13, key, alerts)
             /\ SfMtaAt(14, r) <=> \E key, alerts \in Keys : r = SfMtaRow(14, key, alerts)
             /\ SfMtaAt(15, r) <=> \E key, alerts \in Keys : r = SfMtaRow(15, key, alerts)
             /\ SfMtaAt(16, r) <=> r = SfMtaRow(16, "new", "new")
             /\ SfMtaAt(18, r) <=> r = SfMtaRow(18, "new", "new")
             /\ SfMtaAt(19, r) <=> r = SfMtaRow(19, "new", "new")
  BY DEF SfMtaAt
<1>2. \A key, alerts :
        /\ SfMtaRow(12, key, alerts) = Row(key, None, On, 240, None, None)
        /\ SfMtaRow(13, key, alerts) = Row(key, alerts, On, 240, None, None)
        /\ SfMtaRow(14, key, alerts) = Row(key, alerts, On, 240, None, None)
        /\ SfMtaRow(15, key, alerts) = Row(key, alerts, On, 900, "511.org", None)
        /\ SfMtaRow(16, key, alerts) = Row(key, alerts, On, 900, "511.org", None)
        /\ SfMtaRow(18, key, alerts) = Row(key, alerts, On, 900, "511.org", None)
        /\ SfMtaRow(19, key, alerts) = Row(key, alerts, On, 900, "511.org", "SF")
  BY SfMtaRows
<1>3. "old" \in Keys /\ "new" \in Keys
  OBVIOUS
<1> HIDE DEF Keys
<1>4. SfMtaAt(11, row) => /\ row = BlankRow
                          /\ SfMtaAt(12, Having(row, [key |-> "old", active |-> On,
                                                      interval |-> 240]))
  BY <1>1, <1>2, <1>3, BlankColumns, SetSource
<1>5. SfMtaAt(12, row) => SfMtaAt(13, Having(row, [alerts |-> "old"]))
  BY <1>1, <1>2, <1>3, SetAlerts
<1>6. SfMtaAt(14, row) => SfMtaAt(15, Having(row, [group |-> "511.org", interval |-> 900]))
  BY <1>1, <1>2, SetPace
<1>7. SfMtaAt(15, row) => SfMtaAt(16, Having(row, [key |-> "new", alerts |-> "new"]))
  BY <1>1, <1>2, SetKeys
<1>8. SfMtaAt(18, row) => SfMtaAt(19, Having(row, [code |-> "SF"]))
  BY <1>1, <1>2, SetCode
<1>9. SfMtaAt(19, row) => SfMtaAt(18, Having(row, [code |-> None]))
  BY <1>1, <1>2, SetCode
<1>10. SfMtaAt(16, row) => SfMtaAt(15, row)
  BY <1>1, <1>2, <1>3
<1>11. SfMtaAt(15, row) => SfMtaAt(14, Having(Having(row, [interval |-> 240]), [group |-> None]))
  BY <1>1, <1>2, SetInterval, SetGroup
<1>12. SfMtaAt(13, row) => SfMtaAt(12, Having(row, [alerts |-> None]))
  BY <1>1, <1>2, SetAlerts
<1>13. QED
  BY <1>4, <1>5, <1>6, <1>7, <1>8, <1>9, <1>10, <1>11, <1>12
-----------------------------------------------------------------------------

(* The rows below a step, and those that the step leaves alone.            *)
LEMMA RowBelow ==
  ASSUME NEW i \in 1..25, NEW rs, RowsAt(i - 1, rs), NEW n \in DOMAIN rs
  PROVE  RowAt(n, i - 1, rs[n]) /\ (~ Touched(n, i) => RowAt(n, i, rs[n]))
BY RowStays DEF RowsAt

(* A step that updates SF-MTA's row alone.                                 *)
LEMMA SfMtaUpdated ==
  ASSUME NEW i \in {15, 16, 19}, NEW rs, RowsAt(i - 1, rs), SystemsAt(i, DOMAIN rs), NEW values,
         \A row : SfMtaAt(i - 1, row) => SfMtaAt(i, Having(row, values))
  PROVE  RowsAt(i, Updated(rs, {SFMTA}, values))
<1> DEFINE new == Updated(rs, {SFMTA}, values)
<1>1. /\ DOMAIN new = DOMAIN rs
      /\ \A n \in DOMAIN rs : new[n] = IF n = SFMTA THEN Having(rs[n], values) ELSE rs[n]
  BY UpdatedRows
<1> HIDE DEF new
<1>2. ASSUME NEW n \in DOMAIN rs
      PROVE  RowAt(n, i, new[n])
  <2>1. CASE n = SFMTA
    <3>1. SfMtaAt(i - 1, rs[n])
      BY <2>1, RowBelow, KindsOfSystem
    <3>2. QED BY <1>1, <2>1, <3>1, KindsOfSystem
  <2>2. CASE n # SFMTA
    <3>1. ~ Touched(n, i)
      BY <2>2 DEF Touched
    <3>2. QED BY <1>1, <2>2, <3>1, RowBelow
  <2>3. QED BY <2>1, <2>2
<1>3. QED BY <1>1, <1>2 DEF RowsAt, new

LEMMA UpgradedRowsKept ==
  ASSUME NEW i \in 1..25, NEW rs, RowsAt(i - 1, rs),
         i = 20 => DOMAIN Onboarded \cap DOMAIN rs = {}
  PROVE  RowsAt(i, UpgradedRows(Chain[i], rs))
<1> DEFINE new == UpgradedRows(Chain[i], rs)
<1>1. SystemsAt(i - 1, DOMAIN rs)
  BY DEF RowsAt
<1>2. ASSUME i \notin {10, 12, 14, 20}
      PROVE  SystemsAt(i, DOMAIN rs)
  <2>1. (i - 1 > 9 <=> i > 9) /\ (i - 1 > 11 <=> i > 11) /\ (i - 1 > 13 <=> i > 13)
        /\ (i - 1 > 19 <=> i > 19)
    BY <1>2
  <2>2. QED BY <1>1, <2>1 DEF SystemsAt
<1>3. CASE i \notin {10, 12, 13, 14, 15, 16, 19, 20, 21}
  <2>1. new = rs
    BY <1>3, Positions DEF UpgradedRows
  <2>2. SystemsAt(i, DOMAIN rs)
    BY <1>2, <1>3
  <2>3. \A n \in DOMAIN rs : RowAt(n, i, rs[n])
    BY <1>3, RowBelow DEF Touched
  <2>4. QED BY <2>1, <2>2, <2>3 DEF RowsAt
<1>4. CASE i = 10
  <2> DEFINE values == [active |-> On]
  <2>1. new = Upserted(rs, SEED_SYSTEMS, values)
    BY <1>4, Positions DEF UpgradedRows, RegistrySeed, On
  <2>2. DOMAIN new = DOMAIN rs \cup SEED_SYSTEMS
    BY <2>1 DEF Upserted, Updated
  <2>3. SystemsAt(10, DOMAIN new)
    <3>1. SystemsAt(9, DOMAIN rs)
      BY <1>1, <1>4
    <3>2. QED BY <2>2, <3>1, SystemNames DEF SystemsAt
  <2> HIDE DEF new, values
  <2>4. ASSUME NEW n \in DOMAIN new, n \in SEED_SYSTEMS
        PROVE  RowAt(n, 10, new[n])
    <3> DEFINE old == IF n \in DOMAIN rs THEN rs[n] ELSE BlankRow
    <3>1. new[n] = Having(old, values)
      <4>1. CASE n \in DOMAIN rs
        <5>1. new[n] = Having(rs[n], values)
          BY <2>1, <2>4, <4>1 DEF Upserted, Updated
        <5>2. old = rs[n]
          BY <4>1
        <5>3. QED BY <5>1, <5>2
      <4>2. CASE n \notin DOMAIN rs
        <5>1. new[n] = Having(BlankRow, values)
          BY <2>1, <2>4, <4>2 DEF Upserted, Updated
        <5>2. old = BlankRow
          BY <4>2
        <5>3. QED BY <5>1, <5>2
      <4>3. QED BY <4>1, <4>2
    <3>2. RowAt(n, 9, old)
      <4>1. CASE n \in DOMAIN rs
        BY <1>4, <4>1, RowBelow
      <4>2. CASE n \notin DOMAIN rs
        <5>1. BartAt(9, BlankRow) /\ DeactivatedAt(9, BlankRow) /\ HelsinkiAt(9, BlankRow)
          <6>1. PublicAlertsAt(9) = None /\ ServingAt(9) = Off /\ StillServingAt(9) = Off
            BY DEF PublicAlertsAt, ServingAt, StillServingAt
          <6>2. QED BY <6>1, BlankColumns DEF BartAt, DeactivatedAt, HelsinkiAt
        <5>2. n = "BART" \/ n \in DEACTIVATED \/ n = HELSINKI
          BY <2>4, SystemNames
        <5>3. RowAt(n, 9, BlankRow)
          BY <5>1, <5>2, KindsOfSystem
        <5>4. QED BY <4>2, <5>3
      <4>3. QED BY <4>1, <4>2
    <3> HIDE DEF old
    <3>3. CASE n = "BART"
      <4>1. BartAt(10, Having(old, values))
        BY <3>2, <3>3, KindsOfSystem, BartSteps DEF values
      <4>2. QED BY <3>1, <3>3, <4>1, KindsOfSystem
    <3>4. CASE n \in DEACTIVATED
      <4>1. DeactivatedAt(10, Having(old, values))
        BY <3>2, <3>4, KindsOfSystem, DeactivatedSteps DEF values
      <4>2. QED BY <3>1, <3>4, <4>1, KindsOfSystem
    <3>5. CASE n = HELSINKI
      <4>1. HelsinkiAt(10, Having(old, values))
        BY <3>2, <3>5, KindsOfSystem, HelsinkiSteps DEF values
      <4>2. QED BY <3>1, <3>5, <4>1, KindsOfSystem
    <3>6. QED BY <2>4, <3>3, <3>4, <3>5, SystemNames
  <2>5. ASSUME NEW n \in DOMAIN new, n \notin SEED_SYSTEMS
        PROVE  RowAt(n, 10, new[n])
    <3>1. n \in DOMAIN rs /\ new[n] = rs[n]
      <4>1. n \in DOMAIN rs
        BY <2>2, <2>5
      <4>2. QED BY <2>1, <2>5, <4>1 DEF Upserted, Updated
    <3>2. ~ Touched(n, 10)
      BY <2>5, SystemNames DEF Touched
    <3>3. QED BY <1>4, <3>1, <3>2, RowBelow
  <2>6. QED BY <1>4, <2>3, <2>4, <2>5 DEF RowsAt, new, values
<1>5. CASE i = 12
  <2> DEFINE values == [key |-> "old", active |-> On, interval |-> 240]
  <2>1. new = Upserted(rs, {SFMTA}, values)
    BY <1>5, Positions DEF UpgradedRows, AddSfMta, On
  <2>2. DOMAIN new = DOMAIN rs \cup {SFMTA}
    BY <2>1 DEF Upserted, Updated
  <2>3. SystemsAt(12, DOMAIN new)
    <3>1. SystemsAt(11, DOMAIN rs)
      BY <1>1, <1>5
    <3>2. QED BY <2>2, <3>1, SystemNames DEF SystemsAt
  <2> HIDE DEF new
  <2>4. RowAt(SFMTA, 12, new[SFMTA])
    <3> DEFINE old == IF SFMTA \in DOMAIN rs THEN rs[SFMTA] ELSE BlankRow
    <3>1. new[SFMTA] = Having(old, values)
      <4> HIDE DEF values
      <4>1. SFMTA \in {SFMTA}
        OBVIOUS
      <4>2. CASE SFMTA \in DOMAIN rs
        <5>1. new[SFMTA] = Having(rs[SFMTA], values)
          BY <2>1, <4>1, <4>2 DEF Upserted, Updated
        <5>2. old = rs[SFMTA]
          BY <4>2
        <5>3. QED BY <5>1, <5>2
      <4>3. CASE SFMTA \notin DOMAIN rs
        <5>1. new[SFMTA] = Having(BlankRow, values)
          BY <2>1, <4>1, <4>3 DEF Upserted, Updated
        <5>2. old = BlankRow
          BY <4>3
        <5>3. QED BY <5>1, <5>2
      <4>4. QED BY <4>2, <4>3
    <3>2. SfMtaAt(11, old)
      <4>1. SFMTA \in DOMAIN rs => SfMtaAt(11, rs[SFMTA])
        BY <1>5, RowBelow, KindsOfSystem
      <4>2. SfMtaAt(11, BlankRow)
        BY DEF SfMtaAt
      <4>3. QED BY <4>1, <4>2
    <3> HIDE DEF old
    <3>3. SfMtaAt(12, Having(old, values))
      BY <3>2, SfMtaSteps
    <3>4. QED BY <3>1, <3>3, KindsOfSystem
  <2>5. ASSUME NEW n \in DOMAIN new, n # SFMTA
        PROVE  RowAt(n, 12, new[n])
    <3>1. n \in DOMAIN rs /\ new[n] = rs[n]
      <4> HIDE DEF values
      <4>1. n \in DOMAIN rs /\ n \notin {SFMTA}
        BY <2>2, <2>5
      <4>2. QED BY <2>1, <4>1 DEF Upserted, Updated
    <3>2. ~ Touched(n, 12)
      BY <2>5 DEF Touched
    <3>3. QED BY <1>5, <3>1, <3>2, RowBelow
  <2>6. QED BY <1>5, <2>3, <2>4, <2>5 DEF RowsAt, new
<1>6. CASE i = 13
  <2> DEFINE bart == [alerts |-> "public"]
             sfMta == [alerts |-> "old"]
             once == Updated(rs, {"BART"}, bart)
  <2>1. new = Updated(once, {SFMTA}, sfMta)
    BY <1>6, Positions DEF UpgradedRows, AddAlertsUrl
  <2>2. SystemsAt(13, DOMAIN rs) /\ "BART" # SFMTA
    BY <1>2, <1>6, SystemNames
  <2>3. /\ DOMAIN new = DOMAIN rs
        /\ \A n \in DOMAIN rs : new[n] = IF n = SFMTA THEN Having(rs[n], sfMta)
                                         ELSE IF n = "BART" THEN Having(rs[n], bart) ELSE rs[n]
    <3> HIDE DEF new, bart, sfMta
    <3>1. /\ DOMAIN once = DOMAIN rs
          /\ \A n \in DOMAIN rs : once[n] = IF n \in {"BART"} THEN Having(rs[n], bart) ELSE rs[n]
      BY UpdatedRows
    <3> HIDE DEF once
    <3>2. /\ DOMAIN new = DOMAIN rs
          /\ \A n \in DOMAIN rs : new[n] = IF n \in {SFMTA} THEN Having(once[n], sfMta) ELSE once[n]
      BY <2>1, <3>1, UpdatedRows
    <3>3. QED BY <2>2, <3>1, <3>2
  <2> HIDE DEF new
  <2>4. ASSUME NEW n \in DOMAIN rs
        PROVE  RowAt(n, 13, new[n])
    <3>1. RowAt(n, 12, rs[n]) /\ (~ Touched(n, 13) => RowAt(n, 13, rs[n]))
      BY <1>6, RowBelow
    <3>2. CASE n = "BART"
      <4>1. BartAt(13, Having(rs[n], bart))
        BY <3>1, <3>2, KindsOfSystem, BartSteps
      <4> HIDE DEF bart, sfMta
      <4>2. QED BY <2>2, <2>3, <3>2, <4>1, KindsOfSystem
    <3>3. CASE n = SFMTA
      <4>1. SfMtaAt(13, Having(rs[n], sfMta))
        BY <3>1, <3>3, KindsOfSystem, SfMtaSteps
      <4> HIDE DEF bart, sfMta
      <4>2. QED BY <2>3, <3>3, <4>1, KindsOfSystem
    <3>4. CASE n # "BART" /\ n # SFMTA
      <4>1. ~ Touched(n, 13)
        BY <3>4 DEF Touched
      <4> HIDE DEF bart, sfMta
      <4>2. QED BY <2>3, <3>1, <3>4, <4>1
    <3>5. QED BY <3>2, <3>3, <3>4
  <2>5. QED BY <1>6, <2>2, <2>3, <2>4 DEF RowsAt, new
<1>7. CASE i = 14
  <2>1. new = Removed(rs, {HELSINKI})
    BY <1>7, Positions DEF UpgradedRows
  <2>2. /\ DOMAIN new = DOMAIN rs \ {HELSINKI}
        /\ \A n \in DOMAIN new : new[n] = rs[n]
    <3>1. DOMAIN new = DOMAIN rs \ {HELSINKI}
      BY <2>1 DEF Removed
    <3>2. \A n \in DOMAIN rs : n \notin {HELSINKI} => new[n] = rs[n]
      BY <2>1 DEF Removed
    <3> HIDE DEF new
    <3>3. QED BY <3>1, <3>2
  <2> HIDE DEF new
  <2>3. SystemsAt(14, DOMAIN new)
    <3>1. SystemsAt(13, DOMAIN rs)
      BY <1>1, <1>7
    <3>2. /\ HELSINKI \notin {"BART", "MBTA", "NY_Waterway"} /\ HELSINKI # SFMTA
          /\ HELSINKI \notin DOMAIN Onboarded
      BY SystemNames
    <3>3. QED BY <2>2, <3>1, <3>2 DEF SystemsAt
  <2>4. \A n \in DOMAIN new : RowAt(n, 14, new[n])
    BY <1>7, <2>2, RowBelow DEF Touched
  <2>5. QED BY <1>7, <2>3, <2>4 DEF RowsAt, new
<1>8. CASE i = 15
  <2> DEFINE values == [group |-> "511.org", interval |-> 900]
  <2>1. new = Updated(rs, {SFMTA}, values)
    BY <1>8, Positions DEF UpgradedRows, AddQuotaGroup
  <2>2. \A row : SfMtaAt(i - 1, row) => SfMtaAt(i, Having(row, values))
    BY <1>8, SfMtaSteps
  <2> HIDE DEF new, values
  <2>3. RowsAt(i, Updated(rs, {SFMTA}, values))
    BY <1>2, <1>8, <2>2, SfMtaUpdated
  <2>4. QED BY <2>1, <2>3 DEF new
<1>9. CASE i = 16
  <2> DEFINE values == [key |-> "new", alerts |-> "new"]
  <2>1. new = Updated(rs, {SFMTA}, values)
    BY <1>9, Positions DEF UpgradedRows, RotateApiKey
  <2>2. \A row : SfMtaAt(i - 1, row) => SfMtaAt(i, Having(row, values))
    BY <1>9, SfMtaSteps
  <2> HIDE DEF new, values
  <2>3. RowsAt(i, Updated(rs, {SFMTA}, values))
    BY <1>2, <1>9, <2>2, SfMtaUpdated
  <2>4. QED BY <2>1, <2>3 DEF new
<1>10. CASE i = 19
  <2> DEFINE values == [code |-> "SF"]
  <2>1. new = Updated(rs, {SFMTA}, values)
    BY <1>10, Positions DEF UpgradedRows, CutSfMtaOver
  <2>2. \A row : SfMtaAt(i - 1, row) => SfMtaAt(i, Having(row, values))
    BY <1>10, SfMtaSteps
  <2> HIDE DEF new, values
  <2>3. RowsAt(i, Updated(rs, {SFMTA}, values))
    BY <1>2, <1>10, <2>2, SfMtaUpdated
  <2>4. QED BY <2>1, <2>3 DEF new
<1>11. CASE i = 20
  <2> DEFINE added == [n \in DOMAIN Onboarded |-> OnboardedRow(n)]
  <2>1. new = Inserted(rs, added)
    BY <1>11, Positions DEF UpgradedRows, OnboardRemaining, OnboardedRow, Row, On
  <2>2. /\ DOMAIN new = DOMAIN rs \cup DOMAIN Onboarded
        /\ \A n \in DOMAIN Onboarded : new[n] = Having(BlankRow, OnboardedRow(n))
        /\ \A n \in DOMAIN rs : n \notin DOMAIN Onboarded => new[n] = rs[n]
    <3>1. /\ DOMAIN added = DOMAIN Onboarded
          /\ \A n \in DOMAIN Onboarded : added[n] = OnboardedRow(n)
      OBVIOUS
    <3> HIDE DEF new, added
    <3>2. /\ DOMAIN new = DOMAIN rs \cup DOMAIN added
          /\ \A n \in DOMAIN added : new[n] = Having(BlankRow, added[n])
          /\ \A n \in DOMAIN rs : n \notin DOMAIN added => new[n] = rs[n]
      BY <2>1 DEF Inserted
    <3>3. QED BY <3>1, <3>2
  <2> HIDE DEF new
  <2>3. SystemsAt(20, DOMAIN new)
    <3>1. SystemsAt(19, DOMAIN rs)
      BY <1>1, <1>11
    <3>2. QED BY <2>2, <3>1, SystemNames DEF SystemsAt
  <2>4. ASSUME NEW n \in DOMAIN new
        PROVE  RowAt(n, 20, new[n])
    <3>1. CASE n \in DOMAIN Onboarded
      <4>1. new[n] = OnboardedRow(n)
        BY <2>2, <3>1, SetEveryColumn DEF OnboardedRow
      <4>2. QED BY <3>1, <4>1, KindsOfSystem
    <3>2. CASE n \notin DOMAIN Onboarded
      <4>1. n \in DOMAIN rs /\ new[n] = rs[n] /\ ~ Touched(n, 20)
        BY <2>2, <3>2 DEF Touched
      <4>2. QED BY <1>11, <4>1, RowBelow
    <3>3. QED BY <3>1, <3>2
  <2>5. QED BY <1>11, <2>3, <2>4 DEF RowsAt, new
<1>12. CASE i = 21
  <2> DEFINE values == [active |-> Off]
  <2>1. new = Updated(rs, DEACTIVATED, values)
    BY <1>12, Positions DEF UpgradedRows, Deactivate, Off
  <2>2. SystemsAt(21, DOMAIN rs)
    BY <1>2, <1>12
  <2>3. \A row : DeactivatedAt(20, row) => DeactivatedAt(21, Having(row, values))
    BY DeactivatedSteps
  <2> HIDE DEF new, values
  <2>4. /\ DOMAIN new = DOMAIN rs
        /\ \A n \in DOMAIN rs : new[n] = IF n \in DEACTIVATED THEN Having(rs[n], values) ELSE rs[n]
    BY <2>1, UpdatedRows
  <2>5. ASSUME NEW n \in DOMAIN rs
        PROVE  RowAt(n, 21, new[n])
    <3>1. CASE n \in DEACTIVATED
      <4>1. DeactivatedAt(20, rs[n])
        BY <1>12, <3>1, RowBelow, KindsOfSystem
      <4>2. QED BY <2>3, <2>4, <3>1, <4>1, KindsOfSystem
    <3>2. CASE n \notin DEACTIVATED
      <4>1. ~ Touched(n, 21)
        BY <3>2 DEF Touched
      <4>2. QED BY <1>12, <2>4, <3>2, <4>1, RowBelow
    <3>3. QED BY <3>1, <3>2
  <2>6. QED BY <1>12, <2>2, <2>4, <2>5 DEF RowsAt, new
<1>13. QED
  BY <1>3, <1>4, <1>5, <1>6, <1>7, <1>8, <1>9, <1>10, <1>11, <1>12

(* The rows above a step that a downgrade reverts.                         *)
LEMMA RowAbove ==
  ASSUME NEW i \in 1..25, NEW rs, RowsAt(i, rs), NEW n \in DOMAIN rs
  PROVE  /\ RowAt(n, i, rs[n]) /\ (~ Touched(n, i) => RowAt(n, i - 1, rs[n]))
         /\ i < 20 => n \notin DOMAIN Onboarded
<1>1. RowAt(n, i, rs[n]) /\ (~ Touched(n, i) => RowAt(n, i - 1, rs[n]))
  BY RowStays DEF RowsAt
<1>2. i < 20 => DOMAIN Onboarded \cap DOMAIN rs = {}
  BY DEF RowsAt, SystemsAt
<1>3. QED BY <1>1, <1>2

(* A column is dropped from rows that hold its default, or from rows that  *)
(* the step is about.                                                      *)
LEMMA ColumnDropped ==
  ASSUME NEW i \in 1..19, NEW rs, RowsAt(i, rs), NEW defaults,
         \A n \in DOMAIN rs : ~ Touched(n, i) => Having(rs[n], defaults) = rs[n],
         \A n \in DOMAIN rs : Touched(n, i) => RowAt(n, i - 1, Having(rs[n], defaults)),
         SystemsAt(i - 1, DOMAIN rs)
  PROVE  RowsAt(i - 1, Dropped(rs, defaults))
<1>1. \A n \in DOMAIN rs : RowAt(n, i - 1, Having(rs[n], defaults))
  BY RowAbove
<1>2. DOMAIN Dropped(rs, defaults) = DOMAIN rs
      /\ \A n \in DOMAIN rs : Dropped(rs, defaults)[n] = Having(rs[n], defaults)
  BY DroppedRows
<1>3. QED BY <1>1, <1>2 DEF RowsAt

LEMMA DowngradedRowsKept ==
  ASSUME NEW i \in 1..25, NEW rs, RowsAt(i, rs)
  PROVE  RowsAt(i - 1, DowngradedRows(Chain[i], rs))
<1> DEFINE new == DowngradedRows(Chain[i], rs)
<1>1. SystemsAt(i, DOMAIN rs)
  BY DEF RowsAt
<1>2. ASSUME i \notin {12, 20}
      PROVE  i # 14 => SystemsAt(i - 1, DOMAIN rs)
  <2>1. ASSUME i # 14 PROVE SystemsAt(i - 1, DOMAIN rs)
    <3>1. (i - 1 > 9 => i > 9) /\ (i - 1 > 11 <=> i > 11) /\ (i - 1 > 13 <=> i > 13)
          /\ (i - 1 > 19 <=> i > 19)
      BY <1>2, <2>1
    <3>2. QED BY <1>1, <3>1 DEF SystemsAt
  <2>2. QED BY <2>1
<1>3. CASE i \notin {1, 10, 11, 12, 13, 14, 15, 18, 19, 20, 21}
  <2>1. new = rs
    BY <1>3, Positions DEF DowngradedRows
  <2>2. SystemsAt(i - 1, DOMAIN rs)
    BY <1>2, <1>3
  <2>3. ASSUME NEW n \in DOMAIN rs
        PROVE  RowAt(n, i - 1, rs[n])
    <3>1. CASE n = SFMTA /\ i = 16
      <4>1. SfMtaAt(16, rs[n])
        BY <3>1, RowAbove, KindsOfSystem
      <4>2. SfMtaAt(15, rs[n])
        BY <4>1, SfMtaSteps
      <4>3. QED BY <3>1, <4>2, KindsOfSystem
    <3>2. CASE ~ (n = SFMTA /\ i = 16)
      BY <1>3, <3>2, RowAbove DEF Touched
    <3>3. QED BY <3>1, <3>2
  <2>4. QED BY <2>1, <2>2, <2>3 DEF RowsAt
<1>4. CASE i = 21
  <2> DEFINE values == [active |-> On]
  <2>1. new = Updated(rs, DEACTIVATED, values)
    BY <1>4, Positions DEF DowngradedRows, Reactivate, On
  <2>2. SystemsAt(20, DOMAIN rs)
    BY <1>2, <1>4
  <2>3. \A row : DeactivatedAt(21, row) => DeactivatedAt(20, Having(row, values))
    BY DeactivatedSteps
  <2> HIDE DEF new, values
  <2>4. /\ DOMAIN new = DOMAIN rs
        /\ \A n \in DOMAIN rs : new[n] = IF n \in DEACTIVATED THEN Having(rs[n], values) ELSE rs[n]
    BY <2>1, UpdatedRows
  <2>5. ASSUME NEW n \in DOMAIN rs
        PROVE  RowAt(n, 20, new[n])
    <3>1. CASE n \in DEACTIVATED
      <4>1. DeactivatedAt(21, rs[n])
        BY <1>4, <3>1, RowAbove, KindsOfSystem
      <4>2. QED BY <2>3, <2>4, <3>1, <4>1, KindsOfSystem
    <3>2. CASE n \notin DEACTIVATED
      <4>1. ~ Touched(n, 21)
        BY <3>2 DEF Touched
      <4>2. QED BY <1>4, <2>4, <3>2, <4>1, RowAbove
    <3>3. QED BY <3>1, <3>2
  <2>6. QED BY <1>4, <2>2, <2>4, <2>5 DEF RowsAt, new
<1>5. CASE i \in {1, 12, 20}
  <2> DEFINE names == IF i = 1 THEN Names ELSE IF i = 12 THEN {SFMTA} ELSE DOMAIN Onboarded
  <2>1. new = Removed(rs, names)
    <3>1. CASE i = 1
      BY <3>1, Positions DEF DowngradedRows
    <3>2. CASE i = 12
      BY <3>2, Positions DEF DowngradedRows
    <3>3. CASE i = 20
      BY <3>3, Positions DEF DowngradedRows
    <3>4. QED BY <1>5, <3>1, <3>2, <3>3
  <2> HIDE DEF new
  <2>2. /\ DOMAIN new = DOMAIN rs \ names
        /\ \A n \in DOMAIN new : n \in DOMAIN rs /\ new[n] = rs[n]
    <3> HIDE DEF names
    <3>1. DOMAIN new = DOMAIN rs \ names
      BY <2>1 DEF Removed
    <3>2. \A n \in DOMAIN rs : n \notin names => new[n] = rs[n]
      BY <2>1 DEF Removed
    <3>3. QED BY <3>1, <3>2
  <2>3. SystemsAt(i - 1, DOMAIN new)
    <3>1. CASE i = 1
      <4>1. DOMAIN new = {}
        BY <1>1, <2>2, <3>1 DEF SystemsAt
      <4>2. QED BY <3>1, <4>1 DEF SystemsAt
    <3>2. CASE i = 12
      <4>1. SFMTA \notin {"BART", "MBTA", "NY_Waterway"} /\ SystemsAt(12, DOMAIN rs)
        BY <1>1, <3>2, SystemNames
      <4>2. DOMAIN new = DOMAIN rs \ {SFMTA}
        BY <2>2, <3>2
      <4>3. SystemsAt(11, DOMAIN new)
        BY <4>1, <4>2 DEF SystemsAt
      <4>4. QED BY <3>2, <4>3
    <3>3. CASE i = 20
      <4>1. \A n \in DOMAIN Onboarded : n \notin {"BART", "MBTA", "NY_Waterway", SFMTA}
        BY SystemNames
      <4>2. DOMAIN new = DOMAIN rs \ DOMAIN Onboarded /\ SystemsAt(20, DOMAIN rs)
        BY <1>1, <2>2, <3>3
      <4>3. SystemsAt(19, DOMAIN new)
        BY <4>1, <4>2 DEF SystemsAt
      <4>4. QED BY <3>3, <4>3
    <3>4. QED BY <1>5, <3>1, <3>2, <3>3
  <2>4. ASSUME NEW n \in DOMAIN new
        PROVE  RowAt(n, i - 1, new[n])
    <3>1. ~ Touched(n, i)
      BY <1>5, <2>2 DEF Touched
    <3>2. QED BY <2>2, <3>1, RowAbove
  <2>5. QED BY <2>3, <2>4 DEF RowsAt, new
<1>6. CASE i = 19
  <2> DEFINE values == [code |-> None]
  <2>1. new = Updated(rs, {SFMTA}, values)
    BY <1>6, Positions DEF DowngradedRows, CutSfMtaBack
  <2>2. SystemsAt(18, DOMAIN rs)
    BY <1>2, <1>6
  <2>3. \A row : SfMtaAt(19, row) => SfMtaAt(18, Having(row, values))
    BY SfMtaSteps
  <2> HIDE DEF new, values
  <2>4. /\ DOMAIN new = DOMAIN rs
        /\ \A n \in DOMAIN rs : new[n] = IF n = SFMTA THEN Having(rs[n], values) ELSE rs[n]
    BY <2>1, UpdatedRows
  <2>5. ASSUME NEW n \in DOMAIN rs
        PROVE  RowAt(n, 18, new[n])
    <3>1. CASE n = SFMTA
      <4>1. SfMtaAt(19, rs[n])
        BY <1>6, <3>1, RowAbove, KindsOfSystem
      <4>2. QED BY <2>3, <2>4, <3>1, <4>1, KindsOfSystem
    <3>2. CASE n # SFMTA
      <4>1. ~ Touched(n, 19)
        BY <3>2 DEF Touched
      <4>2. QED BY <1>6, <2>4, <3>2, <4>1, RowAbove
    <3>3. QED BY <3>1, <3>2
  <2>6. QED BY <1>6, <2>2, <2>4, <2>5 DEF RowsAt, new
<1>7. CASE i = 14
  <2> DEFINE added == [n \in {HELSINKI} |-> [active |-> Off]]
  <2>1. new = Inserted(rs, added)
    BY <1>7, Positions DEF DowngradedRows, RestoreHelsinki, Off
  <2>2. /\ DOMAIN new = DOMAIN rs \cup {HELSINKI}
        /\ new[HELSINKI] = BlankRow
        /\ \A n \in DOMAIN rs : n # HELSINKI => new[n] = rs[n]
    <3>1. DOMAIN added = {HELSINKI} /\ added[HELSINKI] = [active |-> Off]
      OBVIOUS
    <3> HIDE DEF new, added
    <3>2. /\ DOMAIN new = DOMAIN rs \cup {HELSINKI}
          /\ new[HELSINKI] = Having(BlankRow, [active |-> Off])
          /\ \A n \in DOMAIN rs : n # HELSINKI => new[n] = rs[n]
      BY <2>1, <3>1 DEF Inserted
    <3>3. QED BY <3>2, BlankColumns, SetActive
  <2> HIDE DEF new, added
  <2>3. SystemsAt(13, DOMAIN new)
    <3>1. SystemsAt(14, DOMAIN rs)
      BY <1>1, <1>7
    <3>2. HELSINKI \in Names /\ HELSINKI \notin DOMAIN Onboarded
      BY SystemNames
    <3>3. QED BY <2>2, <3>1, <3>2 DEF SystemsAt
  <2>4. ASSUME NEW n \in DOMAIN new
        PROVE  RowAt(n, 13, new[n])
    <3>1. CASE n = HELSINKI
      BY <2>2, <3>1, HelsinkiSteps, KindsOfSystem
    <3>2. CASE n # HELSINKI
      BY <1>7, <2>2, <3>2, RowAbove DEF Touched
    <3>3. QED BY <3>1, <3>2
  <2>5. QED BY <1>7, <2>3, <2>4 DEF RowsAt, new
<1>8. CASE i \in {10, 11, 13, 18}
  <2>1. SystemsAt(i - 1, DOMAIN rs)
    BY <1>2, <1>8
  <2>2. \A n \in DOMAIN rs : RowAt(n, i, rs[n]) /\ n \notin DOMAIN Onboarded
    BY <1>8, RowAbove
  <2>3. CASE i = 18
    <3> DEFINE defaults == [code |-> None]
    <3>1. \A n \in DOMAIN rs : Having(rs[n], defaults) = rs[n]
      BY <2>2, <2>3, DefaultColumns
    <3>2. \A n \in DOMAIN rs : ~ Touched(n, i)
      BY <2>3 DEF Touched
    <3>3. new = Dropped(rs, defaults)
      BY <2>3, Positions DEF DowngradedRows
    <3> HIDE DEF defaults, new
    <3>4. RowsAt(i - 1, Dropped(rs, defaults))
      BY <2>1, <2>3, <3>1, <3>2, ColumnDropped
    <3>5. QED BY <3>3, <3>4 DEF new
  <2>4. CASE i = 11
    <3> DEFINE defaults == [interval |-> 0]
    <3>1. \A n \in DOMAIN rs : Having(rs[n], defaults) = rs[n]
      BY <2>2, <2>4, DefaultColumns
    <3>2. \A n \in DOMAIN rs : ~ Touched(n, i)
      BY <2>4 DEF Touched
    <3>3. new = Dropped(rs, defaults)
      BY <2>4, Positions DEF DowngradedRows
    <3> HIDE DEF defaults, new
    <3>4. RowsAt(i - 1, Dropped(rs, defaults))
      BY <2>1, <2>4, <3>1, <3>2, ColumnDropped
    <3>5. QED BY <3>3, <3>4 DEF new
  <2>5. CASE i = 13
    <3> DEFINE defaults == [alerts |-> None]
    <3>1. \A n \in DOMAIN rs : ~ Touched(n, i) => Having(rs[n], defaults) = rs[n]
      BY <2>2, <2>5, DefaultColumns DEF Touched
    <3>2. ASSUME NEW n \in DOMAIN rs, Touched(n, i)
          PROVE  RowAt(n, 12, Having(rs[n], defaults))
      <4>1. CASE n = "BART"
        BY <2>2, <2>5, <4>1, KindsOfSystem, BartSteps
      <4>2. CASE n = SFMTA
        BY <2>2, <2>5, <4>2, KindsOfSystem, SfMtaSteps
      <4>3. QED BY <2>5, <3>2, <4>1, <4>2 DEF Touched
    <3>3. new = Dropped(rs, defaults)
      BY <2>5, Positions DEF DowngradedRows
    <3> HIDE DEF defaults, new
    <3>4. RowsAt(i - 1, Dropped(rs, defaults))
      BY <2>1, <2>5, <3>1, <3>2, ColumnDropped
    <3>5. QED BY <3>3, <3>4 DEF new
  <2>6. CASE i = 10
    <3> DEFINE defaults == [active |-> Off]
    <3>1. ASSUME NEW n \in DOMAIN rs, ~ Touched(n, i)
          PROVE  Having(rs[n], defaults) = rs[n]
      <4>1. rs[n] = BlankRow
        <5>1. n # "BART" /\ n \notin DEACTIVATED /\ n # HELSINKI
          BY <2>6, <3>1 DEF Touched
        <5>2. n = SFMTA => rs[n] = BlankRow
          BY <2>2, <2>6, KindsOfSystem DEF SfMtaAt
        <5>3. QED BY <2>2, <5>1, <5>2, KindsOfSystem
      <4>2. QED BY <4>1, BlankColumns, SetActive
    <3>2. ASSUME NEW n \in DOMAIN rs, Touched(n, i)
          PROVE  RowAt(n, 9, Having(rs[n], defaults))
      <4>1. CASE n = "BART"
        BY <2>2, <2>6, <4>1, KindsOfSystem, BartSteps
      <4>2. CASE n \in DEACTIVATED
        BY <2>2, <2>6, <4>2, KindsOfSystem, DeactivatedSteps
      <4>3. CASE n = HELSINKI
        BY <2>2, <2>6, <4>3, KindsOfSystem, HelsinkiSteps
      <4>4. QED BY <2>6, <3>2, <4>1, <4>2, <4>3 DEF Touched
    <3>3. new = Dropped(rs, defaults)
      BY <2>6, Positions DEF DowngradedRows, Off
    <3> HIDE DEF defaults, new
    <3>4. RowsAt(i - 1, Dropped(rs, defaults))
      BY <2>1, <2>6, <3>1, <3>2, ColumnDropped
    <3>5. QED BY <3>3, <3>4 DEF new
  <2>7. QED BY <1>8, <2>3, <2>4, <2>5, <2>6
<1>9. CASE i = 15
  <2> DEFINE fallback == [interval |-> 240]
             defaults == [group |-> None]
             once == Updated(rs, {SFMTA}, fallback)
  <2>1. new = Dropped(once, defaults)
    BY <1>9, Positions DEF DowngradedRows, DropQuotaGroup
  <2>2. SystemsAt(14, DOMAIN rs)
    BY <1>2, <1>9
  <2>3. \A row : SfMtaAt(15, row) => SfMtaAt(14, Having(Having(row, fallback), defaults))
    BY SfMtaSteps
  <2>4. ASSUME NEW n \in DOMAIN rs, n # SFMTA
        PROVE  Having(rs[n], defaults) = rs[n]
    BY <1>9, <2>4, RowAbove, DefaultColumns
  <2> HIDE DEF fallback, defaults, new
  <2>5. /\ DOMAIN new = DOMAIN rs
        /\ \A n \in DOMAIN rs : /\ n = SFMTA => new[n] = Having(Having(rs[n], fallback), defaults)
                                /\ n # SFMTA => new[n] = Having(rs[n], defaults)
    <3>1. /\ DOMAIN once = DOMAIN rs
          /\ \A n \in DOMAIN rs : once[n] = IF n \in {SFMTA} THEN Having(rs[n], fallback) ELSE rs[n]
      BY UpdatedRows
    <3> HIDE DEF once
    <3>2. DOMAIN new = DOMAIN once /\ \A n \in DOMAIN once : new[n] = Having(once[n], defaults)
      BY <2>1, DroppedRows
    <3>3. QED BY <3>1, <3>2
  <2>6. ASSUME NEW n \in DOMAIN rs
        PROVE  RowAt(n, 14, new[n])
    <3>1. CASE n = SFMTA
      <4>1. SfMtaAt(15, rs[n])
        BY <1>9, <3>1, RowAbove, KindsOfSystem
      <4>2. QED BY <2>3, <2>5, <3>1, <4>1, KindsOfSystem
    <3>2. CASE n # SFMTA
      <4>1. ~ Touched(n, 15)
        BY <3>2 DEF Touched
      <4>2. RowAt(n, 14, rs[n])
        BY <1>9, <4>1, RowAbove
      <4>3. QED BY <2>4, <2>5, <3>2, <4>2
    <3>3. QED BY <3>1, <3>2
  <2>7. QED BY <1>9, <2>2, <2>5, <2>6 DEF RowsAt, new
<1>10. QED
  BY <1>3, <1>4, <1>5, <1>6, <1>7, <1>8, <1>9
-----------------------------------------------------------------------------

LEMMA TableNames ==
  /\ ToSet(ScheduleTables) = {"route", "trip", "stop", "stop_time", "transfer"}
  /\ Children = {"route", "trip", "stop", "stop_time", "transfer", "regional_stop_match"}
<1>1. ScheduleTables = <<"route", "trip", "stop", "stop_time", "transfer">>
      /\ DOMAIN ScheduleTables = 1..5
  BY DEF ScheduleTables
<1>2. ToSet(ScheduleTables) = {"route", "trip", "stop", "stop_time", "transfer"}
  <2>1. ToSet(ScheduleTables) = {ScheduleTables[i] : i \in 1..5}
    BY <1>1 DEF ToSet
  <2>2. /\ ScheduleTables[1] = "route" /\ ScheduleTables[2] = "trip" /\ ScheduleTables[3] = "stop"
        /\ ScheduleTables[4] = "stop_time" /\ ScheduleTables[5] = "transfer"
    BY <1>1
  <2>3. QED BY <2>1, <2>2
<1>3. QED BY <1>2 DEF Children

(* With the key, no step of the chain raises.                              *)
LEMMA UpgradePossible ==
  ASSUME NEW i \in 1..25, NEW db, DatabaseAt(i - 1, db)
  PROVE  CanUpgrade(Chain[i], db, TRUE)
<1>1. CASE i = 20
  <2>1. DOMAIN Onboarded \cap DOMAIN db.rows = {}
    BY <1>1 DEF DatabaseAt, RowsAt, SystemsAt
  <2>2. Chain[i] # "remove_helsinki"
    BY <1>1, Positions
  <2>3. QED BY <2>1, <2>2 DEF CanUpgrade
<1>2. CASE i = 14
  <2>1. ChildrenAt(13, db.children)
    BY <1>2 DEF DatabaseAt
  <2>2. HELSINKI \in Names
    BY SystemNames
  <2>3. /\ db.children[HELSINKI] \subseteq Children /\ "transfer" \notin db.children[HELSINKI]
        /\ "regional_stop_match" \notin db.children[HELSINKI]
    BY <2>1, <2>2 DEF ChildrenAt
  <2>4. db.children[HELSINKI] \subseteq HelsinkiTables
    BY <2>3, TableNames DEF HelsinkiTables
  <2>5. Chain[i] # "onboard_remaining"
    BY <1>2, Positions
  <2>6. QED BY <2>4, <2>5 DEF CanUpgrade
<1>3. CASE i # 14 /\ i # 20
  BY <1>3, Positions DEF CanUpgrade
<1>4. QED BY <1>1, <1>2, <1>3

LEMMA DatabaseUpgraded ==
  ASSUME NEW i \in 1..25, NEW db, DatabaseAt(i - 1, db), NEW apiKey,
         CanUpgrade(Chain[i], db, apiKey)
  PROVE  DatabaseAt(i, UpgradedBy(Chain[i], db))
<1> DEFINE new == UpgradedBy(Chain[i], db)
<1>1. new.rows = UpgradedRows(Chain[i], db.rows)
  BY DEF UpgradedBy
<1>2. new.children = IF Chain[i] = "remove_helsinki" THEN [db.children EXCEPT ![HELSINKI] = {}]
                                                     ELSE db.children
  BY DEF UpgradedBy
<1>3. RowsAt(i, new.rows)
  <2>1. i = 20 => DOMAIN Onboarded \cap DOMAIN db.rows = {}
    BY Positions DEF CanUpgrade
  <2>2. RowsAt(i - 1, db.rows)
    BY DEF DatabaseAt
  <2> HIDE DEF new
  <2>3. QED BY <1>1, <2>1, <2>2, UpgradedRowsKept
<1>4. ChildrenAt(i, new.children)
  <2>1. ChildrenAt(i - 1, db.children)
    BY DEF DatabaseAt
  <2>2. ChildrenAt(i, db.children)
    <3>1. (i < 25 => i - 1 < 25) /\ (i < 17 => i - 1 < 17)
      OBVIOUS
    <3>2. QED BY <2>1, <3>1 DEF ChildrenAt
  <2>3. ChildrenAt(i, [db.children EXCEPT ![HELSINKI] = {}])
    BY <2>2, SystemNames DEF ChildrenAt
  <2> HIDE DEF new
  <2>4. QED BY <1>2, <2>2, <2>3
<1>5. QED BY <1>3, <1>4 DEF DatabaseAt

LEMMA DatabaseDowngraded ==
  ASSUME NEW i \in 1..25, NEW db, DatabaseAt(i, db)
  PROVE  DatabaseAt(i - 1, DowngradedBy(Chain[i], db))
<1> DEFINE new == DowngradedBy(Chain[i], db)
           kept == [n \in Names |-> db.children[n] \ CreatedBy[Chain[i]]]
<1>1. new.rows = DowngradedRows(Chain[i], db.rows)
  BY DEF DowngradedBy
<1>2. new.children = IF Chain[i] \in DOMAIN CreatedBy THEN kept ELSE db.children
  BY DEF DowngradedBy
<1>3. RowsAt(i - 1, new.rows)
  <2>1. RowsAt(i, db.rows)
    BY DEF DatabaseAt
  <2> HIDE DEF new
  <2>2. QED BY <1>1, <2>1, DowngradedRowsKept
<1>4. ChildrenAt(i - 1, new.children)
  <2>1. ChildrenAt(i, db.children)
    BY DEF DatabaseAt
  <2>2. ASSUME Chain[i] \notin DOMAIN CreatedBy
        PROVE  ChildrenAt(i - 1, db.children)
    <3>1. "add_regional_stop_match" \in DOMAIN CreatedBy /\ "add_transfer_table" \in DOMAIN CreatedBy
      BY DEF CreatedBy
    <3>2. i # 25 /\ i # 17
      BY <2>2, <3>1, Positions
    <3>3. (i - 1 < 25 => i < 25) /\ (i - 1 < 17 => i < 17)
      BY <3>2
    <3>4. QED BY <2>1, <3>3 DEF ChildrenAt
  <2>3. ChildrenAt(i - 1, kept)
    <3>1. kept \in [Names -> SUBSET Children]
      BY <2>1 DEF ChildrenAt
    <3>2. ASSUME NEW n \in Names
          PROVE  /\ i - 1 < 25 => "regional_stop_match" \notin kept[n]
                 /\ i - 1 < 17 => "transfer" \notin kept[n]
      <4>1. kept[n] = db.children[n] \ CreatedBy[Chain[i]]
        OBVIOUS
      <4>2. /\ i < 25 => "regional_stop_match" \notin db.children[n]
            /\ i < 17 => "transfer" \notin db.children[n]
        BY <2>1 DEF ChildrenAt
      <4>3. /\ i = 25 => "regional_stop_match" \in CreatedBy[Chain[i]]
            /\ i = 17 => "transfer" \in CreatedBy[Chain[i]]
        <5>1. /\ CreatedBy["add_regional_stop_match"] = {"regional_stop_match"}
              /\ CreatedBy["add_transfer_table"] = {"transfer"}
          BY DEF CreatedBy
        <5>2. QED BY <5>1, Positions
      <4>4. (i - 1 < 25 => i < 25 \/ i = 25) /\ (i - 1 < 17 => i < 17 \/ i = 17)
        OBVIOUS
      <4> HIDE DEF kept
      <4>5. QED BY <4>1, <4>2, <4>3, <4>4
    <3> HIDE DEF kept
    <3>3. QED BY <3>1, <3>2 DEF ChildrenAt
  <2> HIDE DEF new, kept
  <2>4. QED BY <1>2, <2>2, <2>3
<1>5. QED BY <1>3, <1>4 DEF DatabaseAt
-----------------------------------------------------------------------------

LEMMA LeastElement ==
  ASSUME NEW T, T \subseteq Nat, T # {}
  PROVE  \E n \in T : \A k \in T : n <= k
<1>1. PICK R : IsWellFoundedOn(R, Nat) /\ \A k, n \in Nat : <<k, n>> \in R <=> k < n
  <2>1. \A k, n \in Nat : <<k, n>> \in OpToRel(<, Nat) <=> k < n
    BY DEF OpToRel
  <2>2. QED BY <2>1, NatLessThanWellFounded
<1>2. IsWellFoundedOn(R, Nat)
  BY <1>1
<1>3. \A k, n \in Nat : <<k, n>> \in R <=> k < n
  BY <1>1, Zenon
<1>4. PICK n \in T : \A k \in T : ~ (<<k, n>> \in R)
  BY <1>2, WFMin, Zenon
<1>5. ASSUME NEW k \in T
      PROVE  n <= k
  <2>1. k \in Nat /\ n \in Nat
    OBVIOUS
  <2>2. ~ (k < n)
    BY <2>1, <1>3, <1>4, Zenon
  <2>3. QED BY <2>1, <2>2
<1>6. QED BY <1>5

(* A command runs the steps between two revisions: what each of them makes *)
(* of the database is the last value of a path.                            *)
UpgradePath(at, from, target, db, apiKey) ==
  at = [i \in from..target |-> IF i = from THEN [ok |-> TRUE, db |-> db]
                                           ELSE UpgradeStep(Chain[i], at[i - 1], apiKey)]

DowngradePath(at, from, target, db) ==
  at = [i \in target..from |-> IF i = from THEN [ok |-> TRUE, db |-> db]
                                           ELSE DowngradeStep(Chain[i + 1], at[i + 1])]

LEMMA UpgradePathExists ==
  ASSUME NEW from \in 0..25, NEW target \in from..25, NEW db, NEW apiKey
  PROVE  \E at : UpgradePath(at, from, target, db, apiKey)
<1> DEFINE Missing == {n \in 0..25 : from + n <= target
                                     /\ ~ \E at : UpgradePath(at, from, from + n, db, apiKey)}
<1>1. Missing = {}
  <2> SUFFICES ASSUME Missing # {} PROVE FALSE
    OBVIOUS
  <2>1. Missing \subseteq Nat
    OBVIOUS
  <2>2. PICK n \in Missing : \A k \in Missing : n <= k
    <3> HIDE DEF Missing
    <3>1. QED BY <2>1, LeastElement
  <2>3. n \in 0..25 /\ from + n <= target
        /\ ~ \E at : UpgradePath(at, from, from + n, db, apiKey)
    OBVIOUS
  <2>4. CASE n = 0
    <3> DEFINE at == [i \in from..from |-> [ok |-> TRUE, db |-> db]]
    <3>1. UpgradePath(at, from, from, db, apiKey)
      BY DEF UpgradePath
    <3>2. from + n = from
      BY <2>4
    <3> HIDE DEF at
    <3>3. QED BY <2>3, <3>1, <3>2
  <2>5. CASE n # 0
    <3>1. n - 1 \in 0..25 /\ from + (n - 1) <= target /\ ~ (n <= n - 1)
      BY <2>3, <2>5
    <3>2. n - 1 \notin Missing
      <4> HIDE DEF Missing
      <4>1. QED BY <2>2, <3>1
    <3>3. PICK at : UpgradePath(at, from, from + (n - 1), db, apiKey)
      BY <3>1, <3>2
    <3> DEFINE m == from + n
               new == [i \in from..m |-> IF i = m THEN UpgradeStep(Chain[i], at[i - 1], apiKey)
                                                  ELSE at[i]]
    <3>4. m \in Nat /\ m > from /\ m - 1 = from + (n - 1) /\ m <= target
      BY <2>3, <2>5
    <3> HIDE DEF m
    <3>5. at = [i \in from..(m - 1) |-> IF i = from THEN [ok |-> TRUE, db |-> db]
                                        ELSE UpgradeStep(Chain[i], at[i - 1], apiKey)]
      BY <3>3, <3>4 DEF UpgradePath
    <3>6. \A i \in from..(m - 1) : new[i] = at[i] /\ i \in from..m /\ i # m
      BY <3>4
    <3>7. ASSUME NEW i \in from..m
          PROVE  new[i] = IF i = from THEN [ok |-> TRUE, db |-> db]
                          ELSE UpgradeStep(Chain[i], new[i - 1], apiKey)
      <4>1. CASE i = m
        <5>1. i - 1 \in from..(m - 1) /\ i # from
          BY <3>4, <4>1
        <5>2. new[i] = UpgradeStep(Chain[i], at[i - 1], apiKey) /\ new[i - 1] = at[i - 1]
          BY <3>6, <4>1, <5>1
        <5> HIDE DEF new
        <5>3. QED BY <5>1, <5>2
      <4>2. CASE i # m
        <5>1. i \in from..(m - 1) /\ (i # from => i - 1 \in from..(m - 1))
          BY <3>4, <4>2
        <5>2. new[i] = at[i] /\ (i # from => new[i - 1] = at[i - 1])
          BY <3>6, <5>1
        <5>3. at[i] = IF i = from THEN [ok |-> TRUE, db |-> db]
                      ELSE UpgradeStep(Chain[i], at[i - 1], apiKey)
          BY <3>5, <5>1
        <5> HIDE DEF new
        <5>4. QED BY <5>2, <5>3
      <4>3. QED BY <4>1, <4>2
    <3>8. new = [i \in from..m |-> new[i]]
      OBVIOUS
    <3>9. UpgradePath(new, from, m, db, apiKey)
      <4> HIDE DEF new
      <4>1. QED BY <3>7, <3>8 DEF UpgradePath
    <3>10. QED BY <2>3, <3>9 DEF m
  <2>6. QED BY <2>4, <2>5
<1> DEFINE n == target - from
<1>2. n \in 0..25 /\ from + n = target /\ from + n <= target
  OBVIOUS
<1>3. n \notin Missing
  <2> HIDE DEF Missing, n
  <2>1. QED BY <1>1
<1> HIDE DEF n
<1>4. \E at : UpgradePath(at, from, from + n, db, apiKey)
  BY <1>2, <1>3
<1>5. QED BY <1>2, <1>4
LEMMA DowngradePathExists ==
  ASSUME NEW from \in 0..25, NEW target \in 0..from, NEW db
  PROVE  \E at : DowngradePath(at, from, target, db)
<1> DEFINE Missing == {n \in 0..25 : target <= from - n
                                     /\ ~ \E at : DowngradePath(at, from, from - n, db)}
<1>1. Missing = {}
  <2> SUFFICES ASSUME Missing # {} PROVE FALSE
    OBVIOUS
  <2>1. Missing \subseteq Nat
    OBVIOUS
  <2>2. PICK n \in Missing : \A k \in Missing : n <= k
    <3> HIDE DEF Missing
    <3>1. QED BY <2>1, LeastElement
  <2>3. n \in 0..25 /\ target <= from - n
        /\ ~ \E at : DowngradePath(at, from, from - n, db)
    OBVIOUS
  <2>4. CASE n = 0
    <3> DEFINE at == [i \in from..from |-> [ok |-> TRUE, db |-> db]]
    <3>1. DowngradePath(at, from, from, db)
      BY DEF DowngradePath
    <3>2. from - n = from
      BY <2>4
    <3> HIDE DEF at
    <3>3. QED BY <2>3, <3>1, <3>2
  <2>5. CASE n # 0
    <3>1. n - 1 \in 0..25 /\ target <= from - (n - 1) /\ ~ (n <= n - 1)
      BY <2>3, <2>5
    <3>2. n - 1 \notin Missing
      <4> HIDE DEF Missing
      <4>1. QED BY <2>2, <3>1
    <3>3. PICK at : DowngradePath(at, from, from - (n - 1), db)
      BY <3>1, <3>2
    <3> DEFINE m == from - n
               new == [i \in m..from |-> IF i = m THEN DowngradeStep(Chain[i + 1], at[i + 1])
                                                  ELSE at[i]]
    <3>4. m \in Int /\ m < from /\ m + 1 = from - (n - 1) /\ target <= m
      BY <2>3, <2>5
    <3> HIDE DEF m
    <3>5. at = [i \in (m + 1)..from |-> IF i = from THEN [ok |-> TRUE, db |-> db]
                                        ELSE DowngradeStep(Chain[i + 1], at[i + 1])]
      BY <3>3, <3>4 DEF DowngradePath
    <3>6. \A i \in (m + 1)..from : new[i] = at[i] /\ i \in m..from /\ i # m
      BY <3>4
    <3>7. ASSUME NEW i \in m..from
          PROVE  new[i] = IF i = from THEN [ok |-> TRUE, db |-> db]
                          ELSE DowngradeStep(Chain[i + 1], new[i + 1])
      <4>1. CASE i = m
        <5>1. i + 1 \in (m + 1)..from /\ i # from
          BY <3>4, <4>1
        <5>2. new[i] = DowngradeStep(Chain[i + 1], at[i + 1]) /\ new[i + 1] = at[i + 1]
          BY <3>6, <4>1, <5>1
        <5> HIDE DEF new
        <5>3. QED BY <5>1, <5>2
      <4>2. CASE i # m
        <5>1. i \in (m + 1)..from /\ (i # from => i + 1 \in (m + 1)..from)
          BY <3>4, <4>2
        <5>2. new[i] = at[i] /\ (i # from => new[i + 1] = at[i + 1])
          BY <3>6, <5>1
        <5>3. at[i] = IF i = from THEN [ok |-> TRUE, db |-> db]
                      ELSE DowngradeStep(Chain[i + 1], at[i + 1])
          BY <3>5, <5>1
        <5> HIDE DEF new
        <5>4. QED BY <5>2, <5>3
      <4>3. QED BY <4>1, <4>2
    <3>8. new = [i \in m..from |-> new[i]]
      OBVIOUS
    <3>9. DowngradePath(new, from, m, db)
      <4> HIDE DEF new
      <4>1. QED BY <3>7, <3>8 DEF DowngradePath
    <3>10. QED BY <2>3, <3>9 DEF m
  <2>6. QED BY <2>4, <2>5
<1> DEFINE n == from - target
<1>2. n \in 0..25 /\ from - n = target /\ target <= from - n
  OBVIOUS
<1>3. n \notin Missing
  <2> HIDE DEF Missing, n
  <2>1. QED BY <1>1
<1> HIDE DEF n
<1>4. \E at : DowngradePath(at, from, from - n, db)
  BY <1>2, <1>3
<1>5. QED BY <1>2, <1>4

(* Along a path every revision has the database that belongs to it.  With  *)
(* the key, no step of an upgrade raises.                                  *)
LEMMA UpgradePathKept ==
  ASSUME NEW from \in 0..25, NEW target \in from..25, NEW db, NEW apiKey, NEW at,
         UpgradePath(at, from, target, db, apiKey), DatabaseAt(from, db)
  PROVE  /\ at[target].ok => DatabaseAt(target, at[target].db)
         /\ apiKey = TRUE => at[target].ok
<1> DEFINE Good(i) == /\ at[i].ok => DatabaseAt(i, at[i].db)
                      /\ apiKey = TRUE => at[i].ok
           Bad == {i \in from..target : ~ Good(i)}
<1>1. \A i \in from..target :
        at[i] = IF i = from THEN [ok |-> TRUE, db |-> db]
                ELSE UpgradeStep(Chain[i], at[i - 1], apiKey)
  BY DEF UpgradePath
<1>2. Bad = {}
  <2> SUFFICES ASSUME Bad # {} PROVE FALSE
    OBVIOUS
  <2>1. Bad \subseteq Nat
    OBVIOUS
  <2>2. PICK i \in Bad : \A k \in Bad : i <= k
    <3> HIDE DEF Bad
    <3>1. QED BY <2>1, LeastElement
  <2>3. i \in from..target /\ ~ Good(i)
    OBVIOUS
  <2>4. i # from
    BY <1>1, <2>3
  <2>5. i - 1 \in from..target /\ i \in 1..25 /\ ~ (i <= i - 1)
    BY <2>3, <2>4
  <2>6. i - 1 \notin Bad
    <3> HIDE DEF Bad
    <3>1. QED BY <2>2, <2>5
  <2>7. Good(i - 1)
    BY <2>5, <2>6
  <2> DEFINE r == at[i - 1]
  <2>8. at[i] = UpgradeStep(Chain[i], r, apiKey)
    BY <1>1, <2>3, <2>4
  <2>9. CASE r.ok /\ CanUpgrade(Chain[i], r.db, apiKey)
    <3>1. at[i] = [ok |-> TRUE, db |-> UpgradedBy(Chain[i], r.db)]
      BY <2>8, <2>9 DEF UpgradeStep
    <3>2. DatabaseAt(i - 1, r.db)
      BY <2>7, <2>9
    <3>3. DatabaseAt(i, UpgradedBy(Chain[i], r.db))
      <4> HIDE DEF r
      <4>1. QED BY <2>5, <2>9, <3>2, DatabaseUpgraded
    <3>4. Good(i)
      BY <3>1, <3>3
    <3>5. QED BY <2>3, <3>4
  <2>10. CASE ~ (r.ok /\ CanUpgrade(Chain[i], r.db, apiKey))
    <3>1. at[i] = [ok |-> FALSE, db |-> r.db]
      BY <2>8, <2>10 DEF UpgradeStep
    <3>2. apiKey = TRUE
      BY <2>3, <3>1
    <3>3. r.ok /\ DatabaseAt(i - 1, r.db)
      BY <2>7, <3>2
    <3>4. CanUpgrade(Chain[i], r.db, TRUE)
      <4> HIDE DEF r
      <4>1. QED BY <2>5, <3>3, UpgradePossible
    <3>5. QED BY <2>10, <3>2, <3>3, <3>4
  <2>11. QED BY <2>9, <2>10
<1>3. target \in from..target
  OBVIOUS
<1>4. QED BY <1>2, <1>3

LEMMA DowngradePathKept ==
  ASSUME NEW from \in 0..25, NEW target \in 0..from, NEW db, NEW at,
         DowngradePath(at, from, target, db), DatabaseAt(from, db)
  PROVE  at[target].ok => DatabaseAt(target, at[target].db)
<1> DEFINE Good(i) == at[i].ok => DatabaseAt(i, at[i].db)
           Bad == {n \in 0..(from - target) : ~ Good(from - n)}
<1>1. \A i \in target..from :
        at[i] = IF i = from THEN [ok |-> TRUE, db |-> db]
                ELSE DowngradeStep(Chain[i + 1], at[i + 1])
  BY DEF DowngradePath
<1>2. Bad = {}
  <2> SUFFICES ASSUME Bad # {} PROVE FALSE
    OBVIOUS
  <2>1. Bad \subseteq Nat
    OBVIOUS
  <2>2. PICK n \in Bad : \A k \in Bad : n <= k
    <3> HIDE DEF Bad
    <3>1. QED BY <2>1, LeastElement
  <2> DEFINE i == from - n
  <2>3. n \in 0..(from - target) /\ i \in target..from /\ ~ Good(i)
    OBVIOUS
  <2>4. i # from
    BY <1>1, <2>3
  <2>5. n # 0 /\ n - 1 \in 0..(from - target) /\ ~ (n <= n - 1) /\ from - (n - 1) = i + 1
        /\ i + 1 \in 1..25 /\ (i + 1) - 1 = i
    BY <2>3, <2>4
  <2>6. n - 1 \notin Bad
    <3> HIDE DEF Bad
    <3>1. QED BY <2>2, <2>5
  <2>7. Good(i + 1)
    <3>1. Good(from - (n - 1))
      BY <2>5, <2>6
    <3> HIDE DEF i
    <3>2. QED BY <2>5, <3>1
  <2> HIDE DEF i
  <2> DEFINE r == at[i + 1]
  <2>8. at[i] = DowngradeStep(Chain[i + 1], r)
    BY <1>1, <2>3, <2>4
  <2>9. r.ok /\ CanDowngrade(Chain[i + 1], r.db)
    <3> SUFFICES ASSUME ~ (r.ok /\ CanDowngrade(Chain[i + 1], r.db)) PROVE FALSE
      OBVIOUS
    <3>1. at[i] = [ok |-> FALSE, db |-> r.db]
      BY <2>8 DEF DowngradeStep
    <3>2. QED BY <2>3, <3>1
  <2>10. at[i] = [ok |-> TRUE, db |-> DowngradedBy(Chain[i + 1], r.db)]
    BY <2>8, <2>9 DEF DowngradeStep
  <2>11. DatabaseAt(i + 1, r.db)
    BY <2>7, <2>9
  <2>12. DatabaseAt(i, DowngradedBy(Chain[i + 1], r.db))
    <3> HIDE DEF r
    <3>1. DatabaseAt((i + 1) - 1, DowngradedBy(Chain[i + 1], r.db))
      BY <2>5, <2>11, DatabaseDowngraded
    <3>2. QED BY <2>5, <3>1
  <2>13. Good(i)
    BY <2>10, <2>12
  <2>14. QED BY <2>3, <2>13
<1> DEFINE n == from - target
<1>3. n \in 0..(from - target) /\ from - n = target
  OBVIOUS
<1>4. n \notin Bad
  <2> HIDE DEF Bad
  <2>1. QED BY <1>2
<1>5. Good(from - n)
  BY <1>3, <1>4
<1> HIDE DEF n
<1>6. QED BY <1>3, <1>5
-----------------------------------------------------------------------------

LEMMA UpgradeFollowsPath ==
  ASSUME revision \in 0..25, NEW target \in revision..25, NEW apiKey
  PROVE  \E at : /\ UpgradePath(at, revision, target, Database, apiKey)
                 /\ AfterUpgrade(target, apiKey) = at[target]
<1> DEFINE path == CHOOSE at : UpgradePath(at, revision, target, Database, apiKey)
<1>1. UpgradePath(path, revision, target, Database, apiKey)
  BY UpgradePathExists
<1>2. AfterUpgrade(target, apiKey) = path[target]
  BY DEF AfterUpgrade, UpgradePath
<1>3. QED BY <1>1, <1>2

LEMMA DowngradeFollowsPath ==
  ASSUME revision \in 0..25, NEW target \in 0..revision
  PROVE  \E at : /\ DowngradePath(at, revision, target, Database)
                 /\ AfterDowngrade(target) = at[target]
<1> DEFINE path == CHOOSE at : DowngradePath(at, revision, target, Database)
<1>1. DowngradePath(path, revision, target, Database)
  BY DowngradePathExists
<1>2. AfterDowngrade(target) = path[target]
  BY DEF AfterDowngrade, DowngradePath
<1>3. QED BY <1>1, <1>2

(* The database is the one of its revision, however it got there.          *)
RevisionDetermines == revision \in 0..25 /\ DatabaseAt(revision, Database)

LEMMA FirstDatabase == Init => RevisionDetermines
<1> SUFFICES ASSUME Init PROVE RevisionDetermines
  OBVIOUS
<1>1. PICK found \in SUBSET Early :
        /\ revision = 0 => found = {}
        /\ rows = [n \in found |-> BlankRow]
        /\ children = [n \in Names |-> IF n \in found THEN ToSet(ScheduleTables) \ {"transfer"}
                                                       ELSE {}]
  BY DEF Init
<1>2. revision \in {0, 9}
  BY Positions DEF Init
<1>3. SystemsAt(revision, DOMAIN rows)
  <2>1. DOMAIN rows = found /\ revision \in Nat /\ revision < 10
    BY <1>1, <1>2
  <2>2. found \subseteq Names /\ DOMAIN Onboarded \cap found = {}
    BY SystemNames
  <2>3. ~ (revision > 9) /\ ~ (revision > 11) /\ ~ (revision > 13) /\ ~ (revision > 19)
    BY <2>1
  <2>4. QED BY <2>1, <2>2, <2>3 DEF SystemsAt
<1>4. ASSUME NEW n \in DOMAIN rows
      PROVE  RowAt(n, revision, rows[n])
  <2>1. n \in Early /\ rows[n] = BlankRow /\ revision < 10
    BY <1>1, <1>2
  <2>2. n \notin DOMAIN Onboarded
    BY <2>1, SystemNames
  <2>3. /\ BartAt(revision, BlankRow) /\ DeactivatedAt(revision, BlankRow)
        /\ HelsinkiAt(revision, BlankRow) /\ SfMtaAt(revision, BlankRow)
    <3>1. /\ PublicAlertsAt(revision) = None /\ ServingAt(revision) = Off
          /\ StillServingAt(revision) = Off
      BY <1>2 DEF PublicAlertsAt, ServingAt, StillServingAt
    <3>2. revision < 12
      BY <1>2
    <3>3. QED BY <3>1, <3>2, BlankColumns DEF BartAt, DeactivatedAt, HelsinkiAt, SfMtaAt
  <2>4. QED BY <2>1, <2>2, <2>3, KindsOfSystem
<1>5. ChildrenAt(revision, children)
  <2>1. ToSet(ScheduleTables) \ {"transfer"} = {"route", "trip", "stop", "stop_time"}
    BY TableNames
  <2>2. children \in [Names -> SUBSET Children]
    BY <1>1, <2>1, TableNames
  <2>3. \A n \in Names : "regional_stop_match" \notin children[n] /\ "transfer" \notin children[n]
    BY <1>1, <2>1
  <2>4. QED BY <2>2, <2>3 DEF ChildrenAt
<1>6. QED BY <1>2, <1>3, <1>4, <1>5 DEF RevisionDetermines, DatabaseAt, RowsAt, Database

LEMMA UpgradeKeeps ==
  ASSUME RevisionDetermines, NEW target \in 1..25, NEW apiKey, Upgrade(target, apiKey)
  PROVE  RevisionDetermines'
<1>1. revision \in 0..25 /\ target \in revision..25 /\ DatabaseAt(revision, Database)
  BY DEF RevisionDetermines, Upgrade
<1>2. PICK at : /\ UpgradePath(at, revision, target, Database, apiKey)
                /\ AfterUpgrade(target, apiKey) = at[target]
  BY <1>1, UpgradeFollowsPath
<1>3. at[target].ok /\ revision' = target /\ Database' = [rows |-> at[target].db.rows,
                                                          children |-> at[target].db.children]
  BY <1>2 DEF Upgrade, Committed, Database
<1>4. DatabaseAt(target, at[target].db)
  BY <1>1, <1>2, <1>3, UpgradePathKept
<1>5. DatabaseAt(target, Database')
  BY <1>3, <1>4 DEF DatabaseAt
<1>6. QED BY <1>1, <1>3, <1>5 DEF RevisionDetermines, DatabaseAt, Database

LEMMA DowngradeKeeps ==
  ASSUME RevisionDetermines, NEW target \in 0..24, Downgrade(target)
  PROVE  RevisionDetermines'
<1>1. revision \in 0..25 /\ target \in 0..revision /\ DatabaseAt(revision, Database)
  BY DEF RevisionDetermines, Downgrade
<1>2. PICK at : /\ DowngradePath(at, revision, target, Database)
                /\ AfterDowngrade(target) = at[target]
  BY <1>1, DowngradeFollowsPath
<1>3. at[target].ok /\ revision' = target /\ Database' = [rows |-> at[target].db.rows,
                                                          children |-> at[target].db.children]
  BY <1>2 DEF Downgrade, Committed, Database
<1>4. DatabaseAt(target, at[target].db)
  BY <1>1, <1>2, <1>3, DowngradePathKept
<1>5. DatabaseAt(target, Database')
  BY <1>3, <1>4 DEF DatabaseAt
<1>6. QED BY <1>1, <1>3, <1>5 DEF RevisionDetermines, DatabaseAt, Database

(* What the fetcher and the regional task write are rows of tables that    *)
(* the head revision has.                                                  *)
LEMMA TablesFilled ==
  ASSUME RevisionDetermines, NEW n, n \in DOMAIN rows, NEW tables, tables \subseteq Children,
         revision = HeadRevision, revision' = revision, rows' = rows,
         children' = [children EXCEPT ![n] = @ \cup tables]
  PROVE  RevisionDetermines'
<1>1. revision = 25
  BY Positions
<1>2. RowsAt(25, rows) /\ ChildrenAt(25, children) /\ revision \in 0..25
  BY <1>1 DEF RevisionDetermines, DatabaseAt, Database
<1>3. n \in Names
  BY <1>2 DEF RowsAt, SystemsAt
<1>4. ChildrenAt(25, children')
  BY <1>2, <1>3 DEF ChildrenAt
<1>5. RowsAt(25, rows') /\ revision' = 25
  BY <1>1, <1>2
<1>6. QED BY <1>4, <1>5 DEF RevisionDetermines, DatabaseAt, Database

LEMMA DatabaseStep ==
  ASSUME RevisionDetermines, [Next]_vars
  PROVE  RevisionDetermines'
<1>1. CASE UNCHANGED vars
  BY <1>1 DEF vars, RevisionDetermines, Database
<1>2. ASSUME NEW target \in 1..HeadRevision, NEW apiKey \in BOOLEAN, Upgrade(target, apiKey)
      PROVE  RevisionDetermines'
  BY <1>2, UpgradeKeeps, Positions
<1>3. ASSUME NEW target \in 0..HeadRevision - 1, Downgrade(target)
      PROVE  RevisionDetermines'
  <2>1. target \in 0..24
    BY Positions
  <2>2. QED BY <1>3, <2>1, DowngradeKeeps
<1>4. ASSUME NEW n \in Ingested, NEW last \in DOMAIN ScheduleTables, Ingest(n, last)
      PROVE  RevisionDetermines'
  <2> DEFINE tables == ToSet(SubSeq(ScheduleTables, 1, last))
  <2>1. tables \subseteq Children
    <3>1. ScheduleTables \in Seq(ToSet(ScheduleTables)) /\ last \in 1..Len(ScheduleTables)
          /\ Len(ScheduleTables) \in Nat
      BY DEF ScheduleTables, ToSet
    <3>2. SubSeq(ScheduleTables, 1, last) \in Seq(ToSet(ScheduleTables))
      BY <3>1
    <3>3. tables \subseteq ToSet(ScheduleTables)
      BY <3>2 DEF ToSet
    <3>4. QED BY <3>3 DEF Children
  <2> HIDE DEF tables
  <2>2. /\ n \in DOMAIN rows /\ revision = HeadRevision /\ revision' = revision /\ rows' = rows
        /\ children' = [children EXCEPT ![n] = @ \cup tables]
    BY <1>4 DEF Ingest, tables
  <2>3. QED BY <2>1, <2>2, TablesFilled
<1>5. ASSUME NEW n \in Ingested, MatchStops(n)
      PROVE  RevisionDetermines'
  <2> DEFINE tables == {"regional_stop_match"}
  <2>1. tables \subseteq Children
    BY DEF Children
  <2>2. /\ n \in DOMAIN rows /\ revision = HeadRevision /\ revision' = revision /\ rows' = rows
        /\ children' = [children EXCEPT ![n] = @ \cup tables]
    BY <1>5 DEF MatchStops
  <2> HIDE DEF tables
  <2>3. QED BY <2>1, <2>2, TablesFilled
<1>6. QED BY <1>1, <1>2, <1>3, <1>4, <1>5 DEF Next

(* What the chain makes of the database is a matter of the revision alone: *)
(* every upgrade, downgrade and ingestion, in any order, keeps each system *)
(* at one of the rows that its revision gives it.                          *)
THEOREM DatabaseFollowsRevision == Spec => []RevisionDetermines
<1>1. QED BY FirstDatabase, DatabaseStep, PTL DEF Spec

-----------------------------------------------------------------------------

LEMMA Columns ==
  ASSUME NEW k, NEW a, NEW on, NEW i, NEW g, NEW c
  PROVE  /\ Row(k, a, on, i, g, c).interval = i
         /\ Row(k, a, on, i, g, c).group = g
         /\ Row(k, a, on, i, g, c).code = c
BY DEF Row

(* Deploys from any database end with one registry.                        *)
THEOREM HeadCanonical == Spec => []HeadIsCanonical
<1>1. RevisionDetermines => HeadIsCanonical
  <2> SUFFICES ASSUME RevisionDetermines, revision = HeadRevision
               PROVE  /\ Names \ (Early \cup {HELSINKI}) \subseteq DOMAIN rows
                      /\ HELSINKI \notin DOMAIN rows
                      /\ \A n \in DOMAIN rows : rows[n] = CanonicalRow(n)
    BY DEF HeadIsCanonical
  <2>1. SystemsAt(25, DOMAIN rows) /\ \A n \in DOMAIN rows : RowAt(n, 25, rows[n])
    BY Positions DEF RevisionDetermines, DatabaseAt, RowsAt, Database
  <2>2. Names \ (Early \cup {HELSINKI}) \subseteq DOMAIN rows /\ HELSINKI \notin DOMAIN rows
    BY <2>1, SystemNames DEF SystemsAt
  <2>3. ASSUME NEW n \in DOMAIN rows
        PROVE  rows[n] = CanonicalRow(n)
    <3>1. RowAt(n, 25, rows[n])
      BY <2>1
    <3>2. /\ n = "BART" => n # SFMTA /\ n \notin DOMAIN Onboarded
          /\ n \in DEACTIVATED => n # "BART" /\ n # SFMTA /\ n \notin DOMAIN Onboarded
          /\ n = SFMTA => n # "BART" /\ n \notin DOMAIN Onboarded
          /\ n \in DOMAIN Onboarded => n # "BART"
          /\ n \notin SEED_SYSTEMS \cup {SFMTA} \cup DOMAIN Onboarded =>
               n # "BART" /\ n # SFMTA /\ n \notin DOMAIN Onboarded
          /\ n # HELSINKI
      BY <2>2, SystemNames
    <3>3. CASE n = "BART"
      <4>1. rows[n] = Row("public", "public", On, 0, None, None)
        BY <3>1, <3>3, KindsOfSystem DEF BartAt, PublicAlertsAt, ServingAt
      <4>2. CanonicalRow(n) = Having(BlankRow, [alerts |-> "public", active |-> On])
        BY <3>2, <3>3 DEF CanonicalRow, On
      <4>3. QED BY <4>1, <4>2, BlankColumns, SetServing
    <3>4. CASE n = SFMTA
      <4>1. rows[n] = Row("new", "new", On, 900, "511.org", "SF")
        <5>1. rows[n] = SfMtaRow(25, "new", "new")
          BY <3>1, <3>4, KindsOfSystem DEF SfMtaAt
        <5>2. QED BY <5>1, SfMtaRows
      <4>2. CanonicalRow(n) = [key |-> "new", alerts |-> "new", active |-> TRUE,
                               interval |-> 900, group |-> "511.org", code |-> "SF"]
        BY <3>2, <3>4 DEF CanonicalRow
      <4>3. QED BY <4>1, <4>2 DEF Row, On
    <3>5. CASE n \in DOMAIN Onboarded
      <4>1. rows[n] = OnboardedRow(n)
        BY <3>1, <3>5, KindsOfSystem
      <4>2. CanonicalRow(n) = [key |-> "new", alerts |-> "new", active |-> TRUE,
                               interval |-> 900, group |-> "511.org", code |-> Onboarded[n]]
        BY <3>2, <3>5 DEF CanonicalRow
      <4>3. QED BY <4>1, <4>2 DEF OnboardedRow, Row, On
    <3>6. CASE n \in DEACTIVATED
      <4>1. rows[n] = Row("public", None, Off, 0, None, None)
        BY <3>1, <3>6, KindsOfSystem DEF DeactivatedAt, StillServingAt
      <4>2. CanonicalRow(n) = BlankRow
        BY <3>2, <3>6 DEF CanonicalRow
      <4>3. QED BY <4>1, <4>2, BlankColumns
    <3>7. CASE n \notin SEED_SYSTEMS \cup {SFMTA} \cup DOMAIN Onboarded
      <4>1. rows[n] = BlankRow
        BY <3>1, <3>7, KindsOfSystem
      <4>2. CanonicalRow(n) = BlankRow
        BY <3>2, <3>7 DEF CanonicalRow
      <4>3. QED BY <4>1, <4>2
    <3>8. QED BY <3>2, <3>3, <3>4, <3>5, <3>6, <3>7, KindsOfSystem
  <2>4. QED BY <2>2, <2>3
<1>2. QED BY <1>1, DatabaseFollowsRevision, PTL

(* At every revision, who is paced by a scheduler and who is fed by agency *)
(* code agree, and no two systems share a code.                            *)
THEOREM PacingFollowsGroup == Spec => []PacedIffGrouped
<1>1. RevisionDetermines => PacedIffGrouped
  <2> SUFFICES ASSUME RevisionDetermines PROVE PacedIffGrouped
    OBVIOUS
  <2>1. /\ revision \in 0..25 /\ SystemsAt(revision, DOMAIN rows)
        /\ \A n \in DOMAIN rows : RowAt(n, revision, rows[n])
    BY DEF RevisionDetermines, DatabaseAt, RowsAt, Database
  <2>2. ASSUME NEW n \in DOMAIN rows, n # SFMTA, n \notin DOMAIN Onboarded
        PROVE  rows[n].interval = 0 /\ rows[n].group = None /\ rows[n].code = None
    <3>1. RowAt(n, revision, rows[n])
      BY <2>1
    <3>2. \E a, on : rows[n] = Row("public", a, on, 0, None, None)
      BY <2>2, <3>1, OtherRows
    <3>3. QED BY <3>2, Columns
  <2>3. ASSUME SFMTA \in DOMAIN rows
        PROVE  /\ rows[SFMTA].interval = 900 <=> rows[SFMTA].group # None
               /\ rows[SFMTA].code = None \/ rows[SFMTA].code = "SF"
               /\ rows[SFMTA].code # None => rows[SFMTA].group # None
    <3> DEFINE row == rows[SFMTA]
    <3>1. SfMtaAt(revision, row)
      BY <2>1, <2>3, KindsOfSystem
    <3> HIDE DEF row
    <3>2. CASE revision < 12
      <4>1. row = Row("public", None, Off, 0, None, None)
        BY <3>1, <3>2, BlankColumns DEF SfMtaAt
      <4>2. row.interval = 0 /\ row.group = None /\ row.code = None
        BY <4>1, Columns
      <4>3. QED BY <4>2 DEF row
    <3>3. CASE ~ (revision < 12)
      <4>1. PICK key, alerts : row = SfMtaRow(revision, key, alerts)
        BY <3>1, <3>3 DEF SfMtaAt
      <4>2. /\ row.interval = IntervalAt(revision) /\ row.group = GroupAt(revision)
            /\ row.code = CodeAt(revision)
        BY <4>1, Columns DEF SfMtaRow
      <4>3. "511.org" # None /\ 240 # 900
        BY DEF None
      <4>4. QED BY <2>1, <4>2, <4>3 DEF IntervalAt, GroupAt, CodeAt, row
    <3>4. QED BY <3>2, <3>3
  <2>4. ASSUME NEW n \in DOMAIN rows, n \in DOMAIN Onboarded
        PROVE  /\ rows[n].interval = 900 /\ rows[n].group # None
               /\ rows[n].code = Onboarded[n]
    <3>1. rows[n] = OnboardedRow(n)
      BY <2>1, <2>4, KindsOfSystem
    <3>2. "511.org" # None
      BY DEF None
    <3>3. QED BY <3>1, <3>2, Columns DEF OnboardedRow
  <2>5. /\ \A m, n \in DOMAIN Onboarded : Onboarded[m] = Onboarded[n] => m = n
        /\ \A n \in DOMAIN Onboarded : Onboarded[n] # "SF" /\ Onboarded[n] # None
    BY CodesAreDistinct
  <2>6. ASSUME NEW n \in DOMAIN rows
        PROVE  /\ rows[n].interval = 900 <=> rows[n].group # None
               /\ rows[n].code # None => rows[n].group # None
    <3>1. CASE n = SFMTA
      BY <2>3, <3>1
    <3>2. CASE n \in DOMAIN Onboarded
      BY <2>4, <3>2
    <3>3. CASE n # SFMTA /\ n \notin DOMAIN Onboarded
      BY <2>2, <3>3
    <3>4. QED BY <3>1, <3>2, <3>3
  <2>7. ASSUME NEW n \in DOMAIN rows, NEW m \in DOMAIN rows,
               rows[m].code = rows[n].code, rows[n].code # None
        PROVE  m = n
    <3>1. \A s \in DOMAIN rows : rows[s].code # None => s = SFMTA \/ s \in DOMAIN Onboarded
      BY <2>2
    <3>2. (n = SFMTA \/ n \in DOMAIN Onboarded) /\ (m = SFMTA \/ m \in DOMAIN Onboarded)
      BY <2>7, <3>1
    <3>3. CASE n = SFMTA /\ m # SFMTA
      <4>1. rows[n].code = "SF" /\ rows[m].code = Onboarded[m] /\ m \in DOMAIN Onboarded
        BY <2>3, <2>4, <2>7, <3>2, <3>3
      <4>2. QED BY <2>5, <2>7, <4>1
    <3>4. CASE n # SFMTA /\ m = SFMTA
      <4>1. rows[m].code = "SF" /\ rows[n].code = Onboarded[n] /\ n \in DOMAIN Onboarded
        BY <2>3, <2>4, <2>7, <3>2, <3>4
      <4>2. QED BY <2>5, <2>7, <4>1
    <3>5. CASE n # SFMTA /\ m # SFMTA
      <4>1. /\ rows[m].code = Onboarded[m] /\ m \in DOMAIN Onboarded
            /\ rows[n].code = Onboarded[n] /\ n \in DOMAIN Onboarded
        BY <2>4, <3>2, <3>5
      <4>2. QED BY <2>5, <2>7, <4>1
    <3>6. QED BY <3>3, <3>4, <3>5
  <2>8. QED BY <2>6, <2>7 DEF PacedIffGrouped
<1>2. QED BY <1>1, DatabaseFollowsRevision, PTL

(* A deploy is never stuck: no step of `alembic upgrade head` raises.      *)
THEOREM DeployNeverStuck == Spec => []UpgradeNeverStuck
<1>1. RevisionDetermines => UpgradeNeverStuck
  <2> SUFFICES ASSUME RevisionDetermines PROVE UpgradeNeverStuck
    OBVIOUS
  <2>1. revision \in 0..25 /\ 25 \in revision..25 /\ DatabaseAt(revision, Database)
    BY DEF RevisionDetermines
  <2>2. PICK at : /\ UpgradePath(at, revision, 25, Database, TRUE)
                  /\ AfterUpgrade(25, TRUE) = at[25]
    BY <2>1, UpgradeFollowsPath
  <2>3. at[25].ok
    BY <2>1, <2>2, UpgradePathKept
  <2>4. HeadRevision = 25
    BY Positions
  <2>5. QED BY <2>2, <2>3, <2>4, Zenon DEF UpgradeNeverStuck
<1>2. QED BY <1>1, DatabaseFollowsRevision, PTL
=============================================================================
