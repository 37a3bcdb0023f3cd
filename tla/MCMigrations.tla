--------------------------- MODULE MCMigrations ---------------------------
(* Instance of Migrations: two of the onboarded systems, which publish what *)
(* made the later migrations necessary (a route without the optional        *)
(* fields, a short name another system uses too).                           *)
EXTENDS Migrations

MCOnboarded == [Caltrain |-> "CT", VTA |-> "SC"]
MCEarly == {"BART", HELSINKI, "Kiev"}
MCIngested == {"BART", SFMTA, "Caltrain"}
MCShape ==
    [n \in {"BART", HELSINKI, "Kiev", "MBTA", "NY_Waterway", SFMTA, "Caltrain", "VTA"} |->
        CASE n = "BART" -> {}
          [] n = SFMTA -> {"common short_name", "null zone_id", "text trip_id"}
          [] n = "Caltrain" -> {"common short_name", "null route field", "null name"}
          [] OTHER -> {}]
=============================================================================
