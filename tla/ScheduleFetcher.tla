--------------------------- MODULE ScheduleFetcher ---------------------------
(***************************************************************************)
(* The ingestion of the GTFS Schedule of one transit system: the Celery    *)
(* tasks fetch_all_systems (every 4 hours, gated by the date) and          *)
(* ensure_schedule_data (every 15 minutes, forced), both running           *)
(* Fetcher.fetch_metadata_update, in worker processes that share the       *)
(* directories and the database.  Any worker runs either task, and nothing *)
(* keeps two of them from fetching the same system at once.                *)
(*                                                                         *)
(* A feed is known by its version, its place in `published`; a file and a  *)
(* table by the version they hold, 0 if none.  agency.txt and              *)
(* transfers.txt, which may be missing, are left out.                      *)
(***************************************************************************)
EXTENDS Integers, Sequences, FiniteSets

CONSTANTS
  Feed,          \* the kinds of feed the source may publish
  Worker,        \* Celery worker processes
  MaxVersion,    \* bound of the runs: feeds published
  MaxMishaps     \* bound of the runs: failed downloads, crashes and restarts

None == "none"
METADATA_FILE_LIST == <<"trips", "stops", "stop_times", "routes">>
Tables == <<"trips", "stops", "routes", "stop_times">>  \* the order of do_upserts
Table == {Tables[i] : i \in 1..Len(Tables)}

(* info: there is a feed_info.txt; valid: today is within its dates;       *)
(* empty: the tables its files have no usable row for; fails: the upsert   *)
(* that raises on its data.                                                *)
FeedType == [info : BOOLEAN, valid : BOOLEAN, empty : SUBSET Table, fails : Table \cup {None}]

ASSUME FetcherAssumption ==
  /\ Feed \subseteq FeedType /\ Feed # {}
  /\ None \notin Worker
  /\ MaxVersion \in Nat \ {0}
  /\ MaxMishaps \in Nat

VARIABLES
  published,  \* the feeds of the source, the latest last
  tmp,        \* tmp_dir(): the version of each file
  real,       \* real_dir(): the version of each promoted file
  marked,     \* updated_metadata.txt holds today's date
  db,         \* committed: the version of each table, last_fetched_at today
  txn,        \* the open transaction of do_upserts
  task,       \* where each worker is in a fetch of this system
  pulled,     \* history: fetch_all_systems has downloaded it today
  alone,      \* history: no fetch has begun while another was at work
  mishaps

files == <<tmp, real, marked>>
vars == <<published, tmp, real, marked, db, txn, task, pulled, alone, mishaps>>

Idle == [at |-> "idle"]
NoTransaction == [by |-> None]
NoFiles == [f \in Table \cup {"info"} |-> 0]
NoTables == [t \in Table |-> 0]

Init ==
  /\ \E f \in Feed : published = <<f>>
  /\ tmp = NoFiles
  /\ real = NoTables
  /\ marked = FALSE
  /\ db = [tables |-> NoTables, today |-> FALSE]
  /\ txn = NoTransaction
  /\ task = [w \in Worker |-> Idle]
  /\ pulled = FALSE
  /\ alone = TRUE
  /\ mishaps = 0

-----------------------------------------------------------------------------

Latest == Len(published)
HasData == \A t \in {"trips", "stops", "routes"} : db.tables[t] # 0
(* The workers that use the directories or the transaction.                *)
Resting(w) == task[w].at \in {"idle", "listed"}
Working == {w \in Worker : ~ Resting(w)}

Goto(w, step) == task' = [task EXCEPT ![w] = [at |-> step]]
GotoTable(w, step, n) == task' = [task EXCEPT ![w] = [at |-> step, n |-> n]]
Return(w) == task' = [task EXCEPT ![w] = Idle]
Mishap == mishaps < MaxMishaps /\ mishaps' = mishaps + 1

Begins(w, forced) ==
  /\ task' = [task EXCEPT ![w] = [at |-> "download", forced |-> forced]]
  /\ alone' = (alone /\ Working = {})

(* Mutant: the gate looks only at the marker file of the container.        *)
StartFetchAllFileGate(w) ==
  /\ task[w] = Idle
  /\ ~ marked
  /\ Begins(w, FALSE)
  /\ UNCHANGED <<published, files, db, txn, pulled, mishaps>>

(* fetch_all_systems reaches the system: neither fetched_today() nor       *)
(* updated_recently().                                                     *)
StartFetchAll(w) ==
  /\ task[w] = Idle
  /\ ~ db.today
  /\ ~ marked
  /\ Begins(w, FALSE)
  /\ UNCHANGED <<published, files, db, txn, pulled, mishaps>>

(* ensure_schedule_data counts the rows of all systems when it starts, and *)
(* comes to a system without some of them later.                           *)
StartEnsure(w) ==
  /\ task[w] = Idle
  /\ ~ HasData
  /\ Goto(w, "listed")
  /\ UNCHANGED <<published, files, db, txn, pulled, alone, mishaps>>

(* force=True: no gate, and nothing left in tmp_dir().                     *)
ForcedRemoveTmp(w) ==
  /\ task[w].at = "listed"
  /\ tmp' = NoFiles
  /\ Begins(w, TRUE)
  /\ UNCHANGED <<published, real, marked, db, txn, pulled, mishaps>>

(* Mutant: a forced fetch asks should_update() as well.                    *)
AfterDownloadUnforced(w) == "should_update"

AfterDownload(w) == IF task[w].forced THEN "diagnose" ELSE "should_update"

(* extractall over what the directory held; only the regular task asks the *)
(* source at most once a day.                                              *)
Download(w) ==
  /\ task[w].at = "download"
  /\ tmp' = [f \in DOMAIN tmp |->
               IF f = "info" /\ ~ published[Latest].info THEN tmp[f] ELSE Latest]
  /\ pulled' = (pulled \/ ~ task[w].forced)
  /\ Goto(w, AfterDownload(w))
  /\ UNCHANGED <<published, real, marked, db, txn, alone, mishaps>>

(* Another status than 200: the fetch goes on with what tmp_dir() holds;   *)
(* a timeout or a broken zip raises.                                       *)
DownloadFails(w) ==
  /\ task[w].at = "download"
  /\ Mishap
  /\ \/ Goto(w, AfterDownload(w))
     \/ Return(w)
  /\ UNCHANGED <<published, files, db, txn, pulled, alone>>

ShouldUpdate ==
  /\ tmp["info"] # 0
  /\ \/ real["trips"] = 0
     \/ tmp["stops"] = 0
     \/ ~ published[tmp["info"]].valid

CheckUpdate(w) ==
  /\ task[w].at = "should_update"
  /\ IF ShouldUpdate THEN Goto(w, "diagnose") ELSE Return(w)
  /\ UNCHANGED <<published, files, db, txn, pulled, alone, mishaps>>

(* A row of stops.txt has what the application needs.                      *)
Usable(v) == "stops" \notin published[v].empty

(* Mutant: a feed with stops passes whether or not a row is usable.        *)
DiagnosisPassesAnyRow == tmp["stops"] # 0

DiagnosisPasses == tmp["stops"] # 0 /\ Usable(tmp["stops"])

(* _scan_stop_times raises without its file; a feed that does not pass is  *)
(* removed.                                                                *)
Diagnose(w) ==
  /\ task[w].at = "diagnose"
  /\ \/ /\ tmp["stop_times"] = 0
        /\ Return(w)
        /\ UNCHANGED tmp
     \/ /\ tmp["stop_times"] # 0
        /\ DiagnosisPasses
        /\ GotoTable(w, "promote", 1)
        /\ UNCHANGED tmp
     \/ /\ tmp["stop_times"] # 0
        /\ ~ DiagnosisPasses
        /\ tmp' = NoFiles
        /\ Return(w)
  /\ UNCHANGED <<published, real, marked, db, txn, pulled, alone, mishaps>>

(* update_metadata renames one file after the other, those that exist.     *)
PromoteFile(w) ==
  /\ task[w].at = "promote"
  /\ LET n == task[w].n
         t == METADATA_FILE_LIST[n]
     IN  /\ IF tmp[t] # 0
            THEN /\ real' = [real EXCEPT ![t] = tmp[t]]
                 /\ tmp' = [tmp EXCEPT ![t] = 0]
            ELSE UNCHANGED <<real, tmp>>
         /\ IF n < Len(METADATA_FILE_LIST) THEN GotoTable(w, "promote", n + 1)
                                           ELSE Goto(w, "mark")
  /\ UNCHANGED <<published, marked, db, txn, pulled, alone, mishaps>>

(* push_updated_metadata_file.                                             *)
Mark(w) ==
  /\ task[w].at = "mark"
  /\ marked' = TRUE
  /\ Goto(w, "clean")
  /\ UNCHANGED <<published, tmp, real, db, txn, pulled, alone, mishaps>>

RemoveTmp(w) ==
  /\ task[w].at = "clean"
  /\ tmp' = NoFiles
  /\ Goto(w, "begin")
  /\ UNCHANGED <<published, real, marked, db, txn, pulled, alone, mishaps>>

(* The update of the TransitSystem row also locks it until the commit.     *)
UpsertTransitSystem(w) ==
  /\ task[w].at = "begin"
  /\ txn = NoTransaction
  /\ txn' = [by |-> w, tables |-> db.tables, today |-> TRUE]
  /\ GotoTable(w, "upsert", 1)
  /\ UNCHANGED <<published, files, db, pulled, alone, mishaps>>

(* The files an upsert opens: headsigns need route and stop names.         *)
Opened(t) == IF t = "trips" THEN {"trips", "stops", "routes"} ELSE {t}

Readable(t) == /\ \A f \in Opened(t) : real[f] # 0
               /\ published[real[t]].fails # t

(* A file without a usable row leaves its table as it was.                 *)
HasRows(t) == t \notin published[real[t]].empty

UpsertTable(w) ==
  /\ task[w].at = "upsert"
  /\ LET n == task[w].n
         t == Tables[n]
     IN  /\ n <= Len(Tables)
         /\ Readable(t)
         /\ txn' = IF HasRows(t) THEN [txn EXCEPT !.tables[t] = real[t]] ELSE txn
         /\ GotoTable(w, "upsert", n + 1)
  /\ UNCHANGED <<published, files, db, pulled, alone, mishaps>>

Committed(w) ==
  /\ db' = [tables |-> txn.tables, today |-> txn.today]
  /\ txn' = NoTransaction
  /\ Return(w)

(* Mutant: an upsert that raises is skipped and the next one is made.      *)
UpsertRaisesGoesOn(w) ==
  /\ task[w].at = "upsert"
  /\ LET n == task[w].n
     IN  /\ n <= Len(Tables)
         /\ ~ Readable(Tables[n])
         /\ GotoTable(w, "upsert", n + 1)
  /\ UNCHANGED <<published, files, db, txn, pulled, alone, mishaps>>

(* A Python exception within an upsert is caught inside engine.begin(), so *)
(* what came before it is committed.                                       *)
UpsertRaises(w) ==
  /\ task[w].at = "upsert"
  /\ LET n == task[w].n
     IN  n <= Len(Tables) /\ ~ Readable(Tables[n])
  /\ Committed(w)
  /\ UNCHANGED <<published, files, pulled, alone, mishaps>>

Commit(w) ==
  /\ task[w].at = "upsert"
  /\ task[w].n > Len(Tables)
  /\ Committed(w)
  /\ UNCHANGED <<published, files, pulled, alone, mishaps>>

(* A statement the database refuses aborts the transaction: the commit     *)
(* rolls it back.                                                          *)
DatabaseError(w) ==
  /\ task[w].at = "upsert"
  /\ Mishap
  /\ txn' = NoTransaction
  /\ Return(w)
  /\ UNCHANGED <<published, files, db, pulled, alone>>

(* A worker process is killed (memory); the files stay, the database rolls *)
(* back.                                                                   *)
WorkerDies(w) ==
  /\ task[w] # Idle
  /\ Mishap
  /\ Return(w)
  /\ txn' = IF txn.by = w THEN NoTransaction ELSE txn
  /\ UNCHANGED <<published, files, db, pulled, alone>>

(* The container is replaced: its filesystem is gone.                      *)
Restart ==
  /\ Mishap
  /\ tmp' = NoFiles
  /\ real' = NoTables
  /\ marked' = FALSE
  /\ txn' = NoTransaction
  /\ task' = [w \in Worker |-> Idle]
  /\ UNCHANGED <<published, db, pulled, alone>>

Publish(f) ==
  /\ Latest < MaxVersion
  /\ published' = Append(published, f)
  /\ UNCHANGED <<files, db, txn, task, pulled, alone, mishaps>>

(* Midnight UTC: both gates open, and feeds may leave their dates.         *)
NewDay(expired) ==
  /\ published' = [v \in DOMAIN published |->
       IF v \in expired THEN [published[v] EXCEPT !.valid = FALSE] ELSE published[v]]
  /\ marked' = FALSE
  /\ db' = [db EXCEPT !.today = FALSE]
  /\ txn' = IF txn = NoTransaction THEN txn ELSE [txn EXCEPT !.today = FALSE]
  /\ pulled' = FALSE
  /\ UNCHANGED <<tmp, real, task, alone, mishaps>>

Step(w) ==
  \/ ForcedRemoveTmp(w) \/ Download(w) \/ CheckUpdate(w) \/ Diagnose(w)
  \/ PromoteFile(w) \/ Mark(w) \/ RemoveTmp(w)
  \/ UpsertTransitSystem(w) \/ UpsertTable(w) \/ UpsertRaises(w) \/ Commit(w)

Next ==
  \/ \E w \in Worker :
       \/ StartFetchAll(w) \/ StartEnsure(w) \/ Step(w)
       \/ DownloadFails(w) \/ DatabaseError(w) \/ WorkerDies(w)
  \/ Restart
  \/ \E f \in Feed : Publish(f)
  \/ \E expired \in SUBSET (1..Latest) : NewDay(expired)

(* Celery beat queues both tasks again and again and a worker that has     *)
(* started one carries on; the tasks compete for workers, hence SF.        *)
Fairness ==
  /\ SF_vars(\E w \in Worker : StartFetchAll(w))
  /\ SF_vars(\E w \in Worker : StartEnsure(w))
  /\ \A w \in Worker : WF_vars(Step(w))
  /\ WF_vars(\E expired \in SUBSET (1..Latest) : NewDay(expired))

Spec == Init /\ [][Next]_vars /\ Fairness

-----------------------------------------------------------------------------

Version == 0..Latest
AtTable == [at : {"promote"}, n : 1..Len(METADATA_FILE_LIST)]
             \cup [at : {"upsert"}, n : 1..Len(Tables) + 1]
AtStep == [at : {"idle", "listed", "should_update", "diagnose", "mark", "clean", "begin"}]
AtDownload == [at : {"download"}, forced : BOOLEAN]

(* The types of the state.                                                 *)
TypeOK ==
  /\ published \in Seq(FeedType) /\ Latest \in 1..MaxVersion
  /\ tmp \in [Table \cup {"info"} -> Version]
  /\ real \in [Table -> Version]
  /\ marked \in BOOLEAN /\ pulled \in BOOLEAN /\ alone \in BOOLEAN
  /\ db \in [tables : [Table -> Version], today : BOOLEAN]
  /\ txn \in {NoTransaction}
               \cup [by : Worker, tables : [Table -> Version], today : BOOLEAN]
  /\ task \in [Worker -> AtStep \cup AtDownload \cup AtTable]
  /\ mishaps \in 0..MaxMishaps

(* "The same diagnosis as a gate on every real fetch": no feed without a   *)
(* usable stop is promoted, whatever failed downloads, crashes and earlier *)
(* fetches have left in tmp_dir(), as long as no two fetches of the system *)
(* overlap (one of them could replace the files the other has diagnosed).  *)
DiagnosedBeforePromotion == alone /\ real["stops"] # 0 => Usable(real["stops"])

(* The tables are upserted in the order that references need: a later one  *)
(* never holds a newer version than an earlier one, unless that version    *)
(* has no row for the earlier one; also when an upsert raises, a worker    *)
(* dies or the container restarts in between, and fetches do not overlap.  *)
UpsertsInOrder ==
  alone =>
    \A i, j \in 1..Len(Tables) :
      i < j => \/ db.tables[Tables[i]] >= db.tables[Tables[j]]
               \/ Tables[i] \in published[db.tables[Tables[j]]].empty

(* The regular download of a worker is over, and goes on to should_update. *)
Downloaded(w) == task[w].at = "download" /\ task'[w].at = "should_update"

(* The "DB-backed daily gate ... survives restarts": fetch_all_systems     *)
(* downloads nothing once an ingestion has been committed on the same day, *)
(* however often the containers restart, when fetches do not overlap (the  *)
(* commit of one can come between the gate and the download of another).   *)
GateSurvivesRestart == [][\A w \in Worker : alone /\ Downloaded(w) => ~ db.today]_vars

Good(f) == f.empty = {} /\ f.fails = None

(* The safety net of ensure_schedule_data: a system without data gets some *)
(* once its source publishes complete feeds only, whatever partial         *)
(* ingestions, crashes and stale files came before, as long as no two      *)
(* fetches of it overlap (those can hide each other's files for ever).     *)
EmptySystemRepaired == []alone /\ <>[]Good(published[Latest]) => <>HasData

(* README.md: a system is not fetched again "more than once per UTC day":  *)
(* no regular download follows another one of the same day that succeeded. *)
OneDownloadPerDay ==
  [][\A w \in Worker : Downloaded(w) /\ mishaps' = mishaps => ~ pulled]_vars

(* README.md: fetching periodically is "to keep the database up-to-date":  *)
(* the last feed of a source that stays good is ingested in the end.       *)
KeepsUpToDate ==
  <>[](Good(published[Latest]) /\ published[Latest].info)
     => <>(db.tables["trips"] = Latest)
=============================================================================
