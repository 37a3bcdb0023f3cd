----------------------- MODULE ScheduleFetcher_proofs -----------------------
(***************************************************************************)
(* Proofs about ScheduleFetcher, for every set of feeds and of workers and *)
(* any number of publications, failures, crashes and restarts: until two   *)
(* fetches overlap, what is promoted has been diagnosed, a later table     *)
(* never holds a newer version than an earlier one that the version has    *)
(* rows for, and the daily gate holds.                                     *)
(***************************************************************************)
EXTENDS ScheduleFetcher, TLAPS

LEMMA FourTables ==
  /\ Len(Tables) = 4 /\ Len(METADATA_FILE_LIST) = 4
  /\ Tables[1] = "trips" /\ Tables[2] = "stops" /\ Tables[3] = "routes"
  /\ Tables[4] = "stop_times"
  /\ METADATA_FILE_LIST[1] = "trips" /\ METADATA_FILE_LIST[2] = "stops"
  /\ METADATA_FILE_LIST[3] = "stop_times" /\ METADATA_FILE_LIST[4] = "routes"
  /\ Table = {"trips", "stops", "routes", "stop_times"}
<1>1. Len(Tables) = 4 /\ Len(METADATA_FILE_LIST) = 4
  BY DEF Tables, METADATA_FILE_LIST
<1>2. /\ Tables[1] = "trips" /\ Tables[2] = "stops" /\ Tables[3] = "routes"
      /\ Tables[4] = "stop_times"
  BY DEF Tables
<1>3. /\ METADATA_FILE_LIST[1] = "trips" /\ METADATA_FILE_LIST[2] = "stops"
      /\ METADATA_FILE_LIST[3] = "stop_times" /\ METADATA_FILE_LIST[4] = "routes"
  BY DEF METADATA_FILE_LIST
<1>4. 1..4 = {1, 2, 3, 4}
  OBVIOUS
<1>5. Table = {Tables[i] : i \in {1, 2, 3, 4}}
  BY <1>1, <1>4 DEF Table
<1>6. QED BY <1>1, <1>2, <1>3, <1>5

-----------------------------------------------------------------------------

(* Where a task may be.                                                    *)
Where == AtStep \cup AtDownload \cup AtTable

LEMMA WhereTypes ==
  /\ Idle \in Where
  /\ \A s \in {"listed", "should_update", "diagnose", "mark", "clean", "begin"} :
       [at |-> s] \in Where
  /\ \A forced \in BOOLEAN : [at |-> "download", forced |-> forced] \in Where
  /\ \A n \in 1..4 : [at |-> "promote", n |-> n] \in Where
  /\ \A n \in 1..5 : [at |-> "upsert", n |-> n] \in Where
BY FourTables DEF Where, AtStep, AtDownload, AtTable, Idle

(* The versions a state speaks of, and the transaction of one.             *)
Transaction == {NoTransaction} \cup [by : Worker, tables : [Table -> Version], today : BOOLEAN]

LEMMA FirstTypes == Init => TypeOK
<1> SUFFICES ASSUME Init PROVE TypeOK
  OBVIOUS
<1>1. PICK f \in Feed : published = <<f>>
  BY DEF Init
<1>2. published \in Seq(FeedType) /\ Len(published) = 1
  BY <1>1, FetcherAssumption DEF FetcherAssumption
<1>3. Latest \in 1..MaxVersion /\ 0 \in Version
  BY <1>2, FetcherAssumption DEF Latest, Version
<1>4. task \in [Worker -> Where]
  BY WhereTypes DEF Init
<1>5. mishaps \in 0..MaxMishaps
  BY FetcherAssumption DEF Init
<1>6. QED
  BY <1>2, <1>3, <1>4, <1>5 DEF Init, TypeOK, NoFiles, NoTables, NoTransaction, Where

(* The source changes: a new feed, or dates that have passed.              *)
LEMMA PublishTypes ==
  ASSUME TypeOK, NEW f \in Feed, Publish(f)
  PROVE  TypeOK'
<1>1. published \in Seq(FeedType) /\ f \in FeedType /\ Latest \in 1..MaxVersion
      /\ MaxVersion \in Nat
  BY FetcherAssumption DEF TypeOK
<1>2. published' = Append(published, f) /\ Latest < MaxVersion
  BY DEF Publish
<1>3. published' \in Seq(FeedType) /\ Latest' = Latest + 1
  BY <1>1, <1>2 DEF Latest
<1>4. Latest' \in 1..MaxVersion /\ Version \subseteq Version'
  BY <1>1, <1>2, <1>3 DEF Version
<1>5. UNCHANGED <<tmp, real, marked, db, txn, task, pulled, alone, mishaps>>
  BY DEF Publish, files
<1>6. /\ tmp' \in [Table \cup {"info"} -> Version'] /\ real' \in [Table -> Version']
      /\ db' \in [tables : [Table -> Version'], today : BOOLEAN]
  BY <1>4, <1>5 DEF TypeOK
<1>7. txn' \in Transaction'
  <2>1. txn \in Transaction
    BY DEF TypeOK, Transaction
  <2>2. Transaction \subseteq Transaction'
    BY <1>4 DEF Transaction
  <2>3. QED BY <1>5, <2>1, <2>2
<1>8. QED BY <1>3, <1>4, <1>5, <1>6, <1>7 DEF TypeOK, Transaction

(* A new day changes nothing of the feeds but whether they are valid.      *)
LEMMA NewDayFeeds ==
  ASSUME TypeOK, NEW expired, NewDay(expired)
  PROVE  /\ published' \in Seq(FeedType) /\ Latest' = Latest
         /\ \A v \in 1..Latest : published'[v].empty = published[v].empty
<1>1. /\ published \in Seq(FeedType) /\ Len(published) \in Nat
      /\ DOMAIN published = 1..Len(published)
  BY DEF TypeOK
<1> DEFINE q == [v \in 1..Len(published) |->
                   IF v \in expired THEN [published[v] EXCEPT !.valid = FALSE]
                                    ELSE published[v]]
<1>2. published' = q
  BY <1>1 DEF NewDay
<1>3. ASSUME NEW v \in 1..Len(published)
      PROVE  q[v] \in FeedType /\ q[v].empty = published[v].empty
  <2>1. published[v] \in FeedType
    BY <1>1
  <2>2. [published[v] EXCEPT !.valid = FALSE] \in FeedType
    BY <2>1 DEF FeedType
  <2>3. [published[v] EXCEPT !.valid = FALSE].empty = published[v].empty
    BY <2>1 DEF FeedType
  <2>4. QED BY <2>1, <2>2, <2>3
<1>4. q \in [1..Len(published) -> FeedType]
  BY <1>3
<1> HIDE DEF q
<1>5. q \in Seq(FeedType) /\ Len(q) = Len(published)
  BY <1>1, <1>4
<1>6. QED BY <1>2, <1>3, <1>5 DEF Latest

LEMMA NewDayTypes ==
  ASSUME TypeOK, NEW expired, NewDay(expired)
  PROVE  TypeOK'
<1>1. published' \in Seq(FeedType) /\ Latest' = Latest
  BY NewDayFeeds
<1>2. /\ marked' = FALSE /\ pulled' = FALSE
      /\ UNCHANGED <<tmp, real, task, alone, mishaps>>
  BY DEF NewDay
<1>3. db' \in [tables : [Table -> Version], today : BOOLEAN]
  BY DEF NewDay, TypeOK
<1>4. txn \in Transaction
  BY DEF TypeOK, Transaction
<1>5. txn' \in Transaction
  BY <1>4 DEF NewDay, Transaction
<1>6. Version' = Version
  BY <1>1 DEF Version
<1>7. QED BY <1>1, <1>2, <1>3, <1>5, <1>6 DEF TypeOK, Transaction

(* Every other step leaves the source alone.                               *)
LEMMA OtherTypes ==
  ASSUME TypeOK, UNCHANGED published,
         tmp' \in [Table \cup {"info"} -> Version], real' \in [Table -> Version],
         marked' \in BOOLEAN, pulled' \in BOOLEAN, alone' \in BOOLEAN,
         db' \in [tables : [Table -> Version], today : BOOLEAN],
         txn' \in Transaction, task' \in [Worker -> Where], mishaps' \in 0..MaxMishaps
  PROVE  TypeOK'
<1>1. Latest' = Latest /\ Version' = Version
  BY DEF Latest, Version
<1>2. QED BY <1>1 DEF TypeOK, Transaction, Where

LEMMA StateTypes ==
  ASSUME TypeOK
  PROVE  /\ tmp \in [Table \cup {"info"} -> Version] /\ real \in [Table -> Version]
         /\ marked \in BOOLEAN /\ pulled \in BOOLEAN /\ alone \in BOOLEAN
         /\ db \in [tables : [Table -> Version], today : BOOLEAN]
         /\ txn \in Transaction /\ task \in [Worker -> Where] /\ mishaps \in 0..MaxMishaps
         /\ Latest \in Nat \ {0} /\ Latest \in Version /\ 0 \in Version
         /\ published \in Seq(FeedType)
<1>1. Latest \in 1..MaxVersion
  BY DEF TypeOK
<1>2. Latest \in Nat \ {0} /\ Latest \in Version /\ 0 \in Version
  BY <1>1, FetcherAssumption DEF Version
<1>3. QED BY <1>2 DEF TypeOK, Transaction, Where

LEMMA TaskTypes ==
  ASSUME task \in [Worker -> Where], NEW w \in Worker, NEW r \in Where,
         task' = [task EXCEPT ![w] = r]
  PROVE  task' \in [Worker -> Where]
OBVIOUS

LEMMA FileTypes ==
  ASSUME TypeOK
  PROVE  /\ NoFiles \in [Table \cup {"info"} -> Version]
         /\ NoTables \in [Table -> Version]
         /\ NoTransaction \in Transaction
BY StateTypes DEF NoFiles, NoTables, Transaction

LEMMA FileStepTypes ==
  ASSUME TypeOK, NEW w \in Worker,
         \/ ForcedRemoveTmp(w) \/ Download(w) \/ DownloadFails(w) \/ CheckUpdate(w)
         \/ Diagnose(w) \/ PromoteFile(w) \/ Mark(w) \/ RemoveTmp(w)
  PROVE  TypeOK'
<1> DEFINE Rest == UNCHANGED <<published, db, txn>>
<1>1. ASSUME tmp' \in [Table \cup {"info"} -> Version], real' \in [Table -> Version],
             marked' \in BOOLEAN, pulled' \in BOOLEAN, alone' \in BOOLEAN,
             task' \in [Worker -> Where], mishaps' \in 0..MaxMishaps, Rest
      PROVE  TypeOK'
  BY <1>1, StateTypes, OtherTypes
<1> HIDE DEF Rest
<1>2. task \in [Worker -> Where]
  BY StateTypes
<1>3. ASSUME Return(w) \/ \E step \in {"should_update", "diagnose", "mark", "clean",
                                       "begin"} : Goto(w, step)
      PROVE  task' \in [Worker -> Where]
  BY <1>2, <1>3, WhereTypes, TaskTypes DEF Return, Goto
<1>4. ASSUME Mishap
      PROVE  mishaps' \in 0..MaxMishaps
  <2>1. mishaps \in Nat /\ mishaps < MaxMishaps /\ MaxMishaps \in Nat
    BY <1>4, FetcherAssumption DEF TypeOK, Mishap
  <2>2. QED BY <1>4, <2>1 DEF Mishap
<1>5. ASSUME ForcedRemoveTmp(w)
      PROVE  TypeOK'
  <2>1. tmp' = NoFiles /\ Rest /\ UNCHANGED <<real, marked, pulled, mishaps>>
        /\ task' = [task EXCEPT ![w] = [at |-> "download", forced |-> TRUE]]
        /\ alone' = (alone /\ Working = {})
    BY <1>5 DEF ForcedRemoveTmp, Begins, Rest
  <2>2. [at |-> "download", forced |-> TRUE] \in Where
    BY WhereTypes
  <2>3. task' \in [Worker -> Where] /\ alone' \in BOOLEAN
    BY <1>2, <2>1, <2>2, TaskTypes
  <2>4. QED BY <1>1, <2>1, <2>3, StateTypes, FileTypes
<1>6. ASSUME Download(w)
      PROVE  TypeOK'
  <2>1. /\ tmp' = [f \in DOMAIN tmp |->
                     IF f = "info" /\ ~ published[Latest].info THEN tmp[f] ELSE Latest]
        /\ pulled' = (pulled \/ ~ task[w].forced) /\ Rest
        /\ UNCHANGED <<real, marked, alone, mishaps>>
        /\ Goto(w, AfterDownload(w))
    BY <1>6 DEF Download, Rest
  <2>2. AfterDownload(w) \in {"should_update", "diagnose"}
    BY DEF AfterDownload
  <2>3. tmp' \in [Table \cup {"info"} -> Version]
    BY <2>1, StateTypes
  <2>4. task' \in [Worker -> Where]
    BY <1>3, <2>1, <2>2
  <2>5. pulled' \in BOOLEAN
    BY <2>1
  <2>6. QED BY <1>1, <2>1, <2>3, <2>4, <2>5, StateTypes
<1>7. ASSUME DownloadFails(w)
      PROVE  TypeOK'
  <2>1. /\ Goto(w, AfterDownload(w)) \/ Return(w)
        /\ Mishap /\ Rest /\ UNCHANGED <<tmp, real, marked, pulled, alone>>
    BY <1>7 DEF DownloadFails, files, Rest
  <2>2. AfterDownload(w) \in {"should_update", "diagnose"}
    BY DEF AfterDownload
  <2>3. task' \in [Worker -> Where]
    BY <1>3, <2>1, <2>2
  <2>4. QED BY <1>1, <1>4, <2>1, <2>3, StateTypes
<1>8. ASSUME CheckUpdate(w)
      PROVE  TypeOK'
  <2>1. (Goto(w, "diagnose") \/ Return(w)) /\ Rest
        /\ UNCHANGED <<tmp, real, marked, pulled, alone, mishaps>>
    BY <1>8 DEF CheckUpdate, files, Rest
  <2>2. QED BY <1>1, <1>3, <2>1, StateTypes
<1>9. ASSUME Diagnose(w)
      PROVE  TypeOK'
  <2>1. Rest /\ UNCHANGED <<real, marked, pulled, alone, mishaps>>
    BY <1>9 DEF Diagnose, Rest
  <2>2. tmp' = tmp \/ tmp' = NoFiles
    BY <1>9 DEF Diagnose
  <2>3. Return(w) \/ GotoTable(w, "promote", 1)
    BY <1>9 DEF Diagnose
  <2>4. task' \in [Worker -> Where]
    <3>1. [at |-> "promote", n |-> 1] \in Where
      BY WhereTypes
    <3>2. QED BY <1>2, <1>3, <2>3, <3>1, TaskTypes DEF GotoTable
  <2>5. tmp' \in [Table \cup {"info"} -> Version]
    BY <2>2, StateTypes, FileTypes
  <2>6. QED BY <1>1, <2>1, <2>4, <2>5, StateTypes
<1>10. ASSUME PromoteFile(w)
       PROVE  TypeOK'
  <2> DEFINE n == task[w].n
             t == METADATA_FILE_LIST[n]
  <2>1. Rest /\ UNCHANGED <<marked, pulled, alone, mishaps>>
    BY <1>10 DEF PromoteFile, Rest
  <2>2. n \in 1..4
    <3>1. task[w].at = "promote" /\ task[w] \in Where
      BY <1>2, <1>10 DEF PromoteFile
    <3>2. QED BY <3>1, FourTables DEF Where, AtStep, AtDownload, AtTable
  <2>3. t \in Table
    BY <2>2, FourTables
  <2>4. IF n < 4 THEN GotoTable(w, "promote", n + 1) ELSE Goto(w, "mark")
    BY <1>10, FourTables DEF PromoteFile
  <2>5. \/ real' = [real EXCEPT ![t] = tmp[t]] /\ tmp' = [tmp EXCEPT ![t] = 0]
        \/ UNCHANGED <<real, tmp>>
    BY <1>10 DEF PromoteFile
  <2> HIDE DEF n, t
  <2>6. task' \in [Worker -> Where]
    <3>1. CASE n < 4
      <4>1. [at |-> "promote", n |-> n + 1] \in Where
        BY <2>2, <3>1, WhereTypes
      <4>2. QED BY <1>2, <2>4, <3>1, <4>1, TaskTypes DEF GotoTable
    <3>2. CASE ~ (n < 4)
      BY <1>3, <2>4, <3>2
    <3>3. QED BY <3>1, <3>2
  <2>7. /\ tmp' \in [Table \cup {"info"} -> Version]
        /\ real' \in [Table -> Version]
    <3>1. /\ tmp \in [Table \cup {"info"} -> Version]
          /\ real \in [Table -> Version]
      BY StateTypes
    <3>2. tmp[t] \in Version /\ 0 \in Version
      BY <2>3, <3>1, StateTypes
    <3>3. CASE real' = [real EXCEPT ![t] = tmp[t]] /\ tmp' = [tmp EXCEPT ![t] = 0]
      BY <2>3, <3>1, <3>2, <3>3
    <3>4. CASE UNCHANGED <<real, tmp>>
      BY <3>1, <3>4
    <3>5. QED BY <2>5, <3>3, <3>4
  <2>8. QED BY <1>1, <2>1, <2>6, <2>7, StateTypes
<1>11. ASSUME Mark(w)
       PROVE  TypeOK'
  <2>1. Goto(w, "clean") /\ marked' = TRUE /\ Rest
        /\ UNCHANGED <<tmp, real, pulled, alone, mishaps>>
    BY <1>11 DEF Mark, Rest
  <2>2. QED BY <1>1, <1>3, <2>1, StateTypes
<1>12. ASSUME RemoveTmp(w)
       PROVE  TypeOK'
  <2>1. Goto(w, "begin") /\ tmp' = NoFiles /\ Rest
        /\ UNCHANGED <<real, marked, pulled, alone, mishaps>>
    BY <1>12 DEF RemoveTmp, Rest
  <2>2. QED BY <1>1, <1>3, <2>1, StateTypes, FileTypes
<1>13. QED BY <1>5, <1>6, <1>7, <1>8, <1>9, <1>10, <1>11, <1>12

(* The task that is making upserts holds the transaction.                  *)
TransactionHeld == \A w \in Worker : task[w].at = "upsert" => txn.by = w

LEMMA HeldTransaction ==
  ASSUME TypeOK, TransactionHeld, NEW w \in Worker, task[w].at = "upsert"
  PROVE  txn \in [by : Worker, tables : [Table -> Version], today : BOOLEAN]
<1>1. txn \in Transaction /\ txn.by = w
  BY StateTypes DEF TransactionHeld
<1>2. txn # NoTransaction
  BY <1>1, FetcherAssumption DEF NoTransaction
<1>3. QED BY <1>1, <1>2 DEF Transaction

LEMMA TableStepTypes ==
  ASSUME TypeOK, TransactionHeld, NEW w \in Worker,
         \/ UpsertTransitSystem(w) \/ UpsertTable(w) \/ UpsertRaises(w) \/ Commit(w)
         \/ DatabaseError(w) \/ WorkerDies(w)
  PROVE  TypeOK'
<1> DEFINE Rest == UNCHANGED <<published, tmp, real, marked, pulled, alone>>
<1>1. ASSUME db' \in [tables : [Table -> Version], today : BOOLEAN], txn' \in Transaction,
             task' \in [Worker -> Where], mishaps' \in 0..MaxMishaps, Rest
      PROVE  TypeOK'
  BY <1>1, StateTypes, OtherTypes
<1> HIDE DEF Rest
<1>2. task \in [Worker -> Where]
  BY StateTypes
<1>3. ASSUME Return(w)
      PROVE  task' \in [Worker -> Where]
  BY <1>2, <1>3, WhereTypes, TaskTypes DEF Return
<1>4. ASSUME NEW n \in 1..5, GotoTable(w, "upsert", n)
      PROVE  task' \in [Worker -> Where]
  <2>1. [at |-> "upsert", n |-> n] \in Where
    BY WhereTypes
  <2>2. QED BY <1>2, <1>4, <2>1, TaskTypes DEF GotoTable
<1>5. ASSUME Mishap
      PROVE  mishaps' \in 0..MaxMishaps
  <2>1. mishaps \in Nat /\ mishaps < MaxMishaps /\ MaxMishaps \in Nat
    BY <1>5, FetcherAssumption DEF TypeOK, Mishap
  <2>2. QED BY <1>5, <2>1 DEF Mishap
<1>6. ASSUME UpsertTransitSystem(w)
      PROVE  TypeOK'
  <2>1. /\ txn' = [by |-> w, tables |-> db.tables, today |-> TRUE]
        /\ GotoTable(w, "upsert", 1) /\ Rest /\ UNCHANGED <<db, mishaps>>
    BY <1>6 DEF UpsertTransitSystem, files, Rest
  <2>2. txn' \in Transaction
    BY <2>1, StateTypes DEF Transaction
  <2>3. task' \in [Worker -> Where]
    BY <1>4, <2>1
  <2>4. QED BY <1>1, <2>1, <2>2, <2>3, StateTypes
<1>7. ASSUME UpsertTable(w)
      PROVE  TypeOK'
  <2> DEFINE n == task[w].n
             t == Tables[n]
  <2>1. /\ txn' = [txn EXCEPT !.tables[t] = real[t]] \/ txn' = txn
        /\ GotoTable(w, "upsert", n + 1) /\ n <= 4 /\ Rest /\ UNCHANGED <<db, mishaps>>
    BY <1>7, FourTables DEF UpsertTable, files, Rest
  <2>2. n \in 1..5
    <3>1. task[w].at = "upsert" /\ task[w] \in Where
      BY <1>2, <1>7 DEF UpsertTable
    <3>2. QED BY <3>1, FourTables DEF Where, AtStep, AtDownload, AtTable
  <2>3. t \in Table /\ n + 1 \in 1..5
    BY <2>1, <2>2, FourTables
  <2> HIDE DEF n, t
  <2>4. task' \in [Worker -> Where]
    BY <1>4, <2>1, <2>3
  <2>5. txn' \in Transaction
    <3>1. real[t] \in Version
      BY <2>3, StateTypes
    <3>2. txn \in [by : Worker, tables : [Table -> Version], today : BOOLEAN]
      BY <1>7, HeldTransaction DEF UpsertTable
    <3>3. QED BY <2>1, <2>3, <3>1, <3>2 DEF Transaction
  <2>6. QED BY <1>1, <2>1, <2>4, <2>5, StateTypes
<1>8. ASSUME UpsertRaises(w) \/ Commit(w)
      PROVE  TypeOK'
  <2>0. txn \in [by : Worker, tables : [Table -> Version], today : BOOLEAN]
    BY <1>8, HeldTransaction DEF UpsertRaises, Commit
  <2>1. /\ db' = [tables |-> txn.tables, today |-> txn.today] /\ txn' = NoTransaction
        /\ Return(w) /\ Rest /\ UNCHANGED mishaps
    BY <1>8 DEF UpsertRaises, Commit, Committed, files, Rest
  <2>2. db' \in [tables : [Table -> Version], today : BOOLEAN]
    BY <2>0, <2>1
  <2>3. QED BY <1>1, <1>3, <2>1, <2>2, StateTypes, FileTypes
<1>9. ASSUME DatabaseError(w)
      PROVE  TypeOK'
  <2>1. Mishap /\ txn' = NoTransaction /\ Return(w) /\ Rest /\ UNCHANGED db
    BY <1>9 DEF DatabaseError, files, Rest
  <2>2. QED BY <1>1, <1>3, <1>5, <2>1, StateTypes, FileTypes
<1>10. ASSUME WorkerDies(w)
       PROVE  TypeOK'
  <2>1. /\ Mishap /\ Return(w) /\ Rest /\ UNCHANGED db
        /\ txn' = NoTransaction \/ txn' = txn
    BY <1>10 DEF WorkerDies, files, Rest
  <2>2. QED BY <1>1, <1>3, <1>5, <2>1, StateTypes, FileTypes
<1>11. QED BY <1>6, <1>7, <1>8, <1>9, <1>10

LEMMA OtherStepTypes ==
  ASSUME TypeOK,
         (\E w \in Worker : StartFetchAll(w) \/ StartEnsure(w)) \/ Restart \/ UNCHANGED vars
  PROVE  TypeOK'
<1>1. ASSUME NEW w \in Worker, StartFetchAll(w) \/ StartEnsure(w)
      PROVE  TypeOK'
  <2>1. UNCHANGED <<published, tmp, real, marked, db, txn, pulled, mishaps>>
    BY <1>1 DEF StartFetchAll, StartEnsure, files
  <2>2. /\ \/ task' = [task EXCEPT ![w] = [at |-> "download", forced |-> FALSE]]
           \/ task' = [task EXCEPT ![w] = [at |-> "listed"]]
        /\ alone' = (alone /\ Working = {}) \/ alone' = alone
    BY <1>1 DEF StartFetchAll, StartEnsure, Begins, Goto
  <2>3. [at |-> "download", forced |-> FALSE] \in Where /\ [at |-> "listed"] \in Where
    BY WhereTypes
  <2>4. task' \in [Worker -> Where]
    BY <2>2, <2>3, StateTypes, TaskTypes
  <2>5. alone' \in BOOLEAN
    BY <2>2, StateTypes
  <2>6. QED BY <2>1, <2>4, <2>5, StateTypes, OtherTypes
<1>2. ASSUME Restart
      PROVE  TypeOK'
  <2>1. mishaps' \in 0..MaxMishaps
    <3>1. mishaps \in Nat /\ mishaps < MaxMishaps /\ MaxMishaps \in Nat
      BY <1>2, FetcherAssumption DEF TypeOK, Mishap, Restart
    <3>2. QED BY <1>2, <3>1 DEF Mishap, Restart
  <2>2. task' \in [Worker -> Where]
    BY <1>2, WhereTypes DEF Restart
  <2>3. /\ tmp' = NoFiles /\ real' = NoTables /\ marked' = FALSE /\ txn' = NoTransaction
        /\ UNCHANGED <<published, db, pulled, alone>>
    BY <1>2 DEF Restart
  <2>4. QED BY <2>1, <2>2, <2>3, StateTypes, FileTypes, OtherTypes
<1>3. ASSUME UNCHANGED vars
      PROVE  TypeOK'
  BY <1>3, StateTypes, OtherTypes DEF vars, files
<1>4. QED BY <1>1, <1>2, <1>3

LEMMA IdleIsNoUpsert == Idle.at # "upsert"
BY DEF Idle

(* The transaction is held from the update of the TransitSystem row to the *)
(* end, however it ends, also with several workers.                        *)
LEMMA TransactionHeldStep ==
  ASSUME TypeOK, TransactionHeld, [Next]_vars
  PROVE  TransactionHeld'
<1>1. task \in [Worker -> Where]
  BY StateTypes
<1>2. ASSUME NEW w \in Worker, txn' = txn,
             \A v \in Worker : v = w \/ task'[v] = task[v],
             task'[w].at = "upsert" => task[w].at = "upsert"
      PROVE  TransactionHeld'
  BY <1>2 DEF TransactionHeld
<1>3. ASSUME NEW w \in Worker, NEW r, task' = [task EXCEPT ![w] = r]
      PROVE  (\A v \in Worker : v = w \/ task'[v] = task[v]) /\ task'[w] = r
  BY <1>1, <1>3
<1>4. ASSUME NEW w \in Worker, txn' = txn,
             Return(w) \/ (\E n : GotoTable(w, "promote", n)) \/ (\E f : Begins(w, f))
               \/ \E s \in {"listed", "should_update", "diagnose", "mark", "clean",
                              "begin"} : Goto(w, s)
      PROVE  TransactionHeld'
  <2>1. ASSUME NEW r, task' = [task EXCEPT ![w] = r], r.at # "upsert"
        PROVE  TransactionHeld'
    BY <1>2, <1>3, <1>4, <2>1
  <2>2. ASSUME Return(w)
        PROVE  TransactionHeld'
    BY <2>1, <2>2, IdleIsNoUpsert DEF Return
  <2>3. ASSUME NEW n, GotoTable(w, "promote", n)
        PROVE  TransactionHeld'
    <3>1. [at |-> "promote", n |-> n].at # "upsert"
      OBVIOUS
    <3>2. QED BY <2>1, <2>3, <3>1 DEF GotoTable
  <2>4. ASSUME NEW s, s # "upsert", Goto(w, s)
        PROVE  TransactionHeld'
    <3>1. [at |-> s].at # "upsert"
      BY <2>4
    <3>2. QED BY <2>1, <2>4, <3>1 DEF Goto
  <2>5. ASSUME NEW f, Begins(w, f)
        PROVE  TransactionHeld'
    <3>1. [at |-> "download", forced |-> f].at # "upsert"
      OBVIOUS
    <3>2. QED BY <2>1, <2>5, <3>1 DEF Begins
  <2>6. QED BY <1>4, <2>2, <2>3, <2>4, <2>5
<1>5. ASSUME NEW w \in Worker, StartFetchAll(w) \/ StartEnsure(w)
      PROVE  TransactionHeld'
  BY <1>4, <1>5 DEF StartFetchAll, StartEnsure
<1>6. ASSUME NEW w \in Worker,
             \/ ForcedRemoveTmp(w) \/ Download(w) \/ DownloadFails(w) \/ CheckUpdate(w)
             \/ Diagnose(w) \/ PromoteFile(w) \/ Mark(w) \/ RemoveTmp(w)
      PROVE  TransactionHeld'
  <2>1. txn' = txn
    BY <1>6 DEF ForcedRemoveTmp, Download, DownloadFails, CheckUpdate, Diagnose, PromoteFile,
                Mark, RemoveTmp
  <2>2. Return(w) \/ (\E n : GotoTable(w, "promote", n)) \/ (\E f : Begins(w, f))
          \/ \E s \in {"listed", "should_update", "diagnose", "mark", "clean", "begin"} :
               Goto(w, s)
    BY <1>6 DEF ForcedRemoveTmp, Download, DownloadFails, CheckUpdate, Diagnose, PromoteFile,
                Mark, RemoveTmp, AfterDownload
  <2>3. QED BY <1>4, <2>1, <2>2
<1>7. ASSUME NEW w \in Worker, UpsertTransitSystem(w)
      PROVE  TransactionHeld'
  <2>1. /\ txn'.by = w /\ txn.by = None
        /\ task' = [task EXCEPT ![w] = [at |-> "upsert", n |-> 1]]
    BY <1>7 DEF UpsertTransitSystem, NoTransaction, GotoTable
  <2>2. QED BY <1>3, <2>1, FetcherAssumption DEF TransactionHeld
<1>8. ASSUME NEW w \in Worker, UpsertTable(w)
      PROVE  TransactionHeld'
  <2>1. task[w].at = "upsert"
    BY <1>8 DEF UpsertTable
  <2>2. txn'.by = txn.by
    <3>1. txn \in [by : Worker, tables : [Table -> Version], today : BOOLEAN]
      BY <2>1, HeldTransaction
    <3>2. QED BY <1>8, <3>1 DEF UpsertTable
  <2>3. PICK n : task' = [task EXCEPT ![w] = [at |-> "upsert", n |-> n]]
    BY <1>8 DEF UpsertTable, GotoTable
  <2>4. QED BY <1>3, <2>1, <2>2, <2>3 DEF TransactionHeld
<1>9. ASSUME NEW w \in Worker, UpsertRaises(w) \/ Commit(w) \/ DatabaseError(w)
      PROVE  TransactionHeld'
  <2>1. task[w].at = "upsert" /\ task' = [task EXCEPT ![w] = Idle]
    BY <1>9 DEF UpsertRaises, Commit, Committed, DatabaseError, Return
  <2>2. \A v \in Worker : v # w => task[v].at # "upsert"
    BY <2>1 DEF TransactionHeld
  <2>3. /\ task'[w].at # "upsert"
        /\ \A v \in Worker : v # w => task'[v].at # "upsert"
    BY <1>3, <2>1, <2>2, IdleIsNoUpsert
  <2>4. QED BY <2>3 DEF TransactionHeld
<1>10. ASSUME NEW w \in Worker, WorkerDies(w)
       PROVE  TransactionHeld'
  <2>1. /\ task' = [task EXCEPT ![w] = Idle]
        /\ txn' = txn \/ txn.by = w
    BY <1>10 DEF WorkerDies, Return
  <2>2. /\ task'[w].at # "upsert"
        /\ \A v \in Worker : v # w => task'[v] = task[v]
    BY <1>3, <2>1, IdleIsNoUpsert
  <2>3. ASSUME NEW v \in Worker, task'[v].at = "upsert"
        PROVE  txn'.by = v
    <3>1. v # w /\ txn.by = v
      BY <2>2, <2>3 DEF TransactionHeld
    <3>2. QED BY <2>1, <3>1
  <2>4. QED BY <2>3 DEF TransactionHeld
<1>11. ASSUME Restart
       PROVE  TransactionHeld'
  BY <1>11 DEF Restart, TransactionHeld, Idle
<1>12. ASSUME NEW f \in Feed, Publish(f)
       PROVE  TransactionHeld'
  BY <1>12 DEF Publish, TransactionHeld
<1>13. ASSUME NEW expired, NewDay(expired)
       PROVE  TransactionHeld'
  <2>1. task' = task
    BY <1>13 DEF NewDay
  <2>2. txn'.by = txn.by
    <3>1. txn \in Transaction
      BY StateTypes
    <3>2. CASE txn = NoTransaction
      BY <1>13, <3>2 DEF NewDay
    <3>3. CASE txn \in [by : Worker, tables : [Table -> Version], today : BOOLEAN]
      BY <1>13, <3>3 DEF NewDay
    <3>4. QED BY <3>1, <3>2, <3>3 DEF Transaction
  <2>3. QED BY <2>1, <2>2 DEF TransactionHeld
<1>14. ASSUME UNCHANGED vars
       PROVE  TransactionHeld'
  BY <1>14 DEF vars, TransactionHeld
<1>15. QED
  BY <1>5, <1>6, <1>7, <1>8, <1>9, <1>10, <1>11, <1>12, <1>13, <1>14, Zenon DEF Next, Step

(* Every reachable state has its types, and no commit finds the            *)
(* transaction gone.                                                       *)
THEOREM TypeCorrect == Spec => [](TypeOK /\ TransactionHeld)
<1>1. Init => TypeOK /\ TransactionHeld
  <2>1. Init => TransactionHeld
    BY DEF Init, TransactionHeld, Idle
  <2>2. QED BY <2>1, FirstTypes
<1>2. TypeOK /\ TransactionHeld /\ [Next]_vars => (TypeOK /\ TransactionHeld)'
  <2> SUFFICES ASSUME TypeOK, TransactionHeld, [Next]_vars
               PROVE  TypeOK'
    BY TransactionHeldStep
  <2>1. ASSUME NEW w \in Worker, Step(w) \/ DownloadFails(w) \/ DatabaseError(w) \/ WorkerDies(w)
        PROVE  TypeOK'
    BY <2>1, FileStepTypes, TableStepTypes, Zenon DEF Step
  <2>2. QED
    BY <2>1, OtherStepTypes, PublishTypes, NewDayTypes, Zenon DEF Next
<1>3. QED BY <1>1, <1>2, PTL DEF Spec

-----------------------------------------------------------------------------

(* One worker at a time uses the directories and the transaction.          *)
OneAtATime == \A v, w \in Worker : v = w \/ Resting(v) \/ Resting(w)

(* The version a promotion of tmp_dir() would leave of a file.             *)
Staged(t) == IF tmp[t] # 0 THEN tmp[t] ELSE real[t]

Emptied == \A t \in Table : tmp[t] = 0

(* tmp_dir() and real_dir() together hold one version, of all files, that  *)
(* is not older than what has been ingested.                               *)
OneVersion == \A t, u \in Table : Staged(t) = Staged(u) /\ db.tables[u] <= Staged(t)

(* What a task relies on at its step.                                      *)
Promoting(w) ==
  task[w].at = "promote" =>
    /\ OneVersion
    /\ tmp["stops"] # 0 => Usable(tmp["stops"])
    /\ \A i \in 1..4 : i < task[w].n => tmp[METADATA_FILE_LIST[i]] = 0

Promoted(w) ==
  task[w].at \in {"mark", "clean", "begin", "upsert"} => Emptied /\ OneVersion

Upserting(w) ==
  task[w].at = "upsert" =>
    \A i \in 1..4 :
      txn.tables[Tables[i]] = IF i < task[w].n /\ HasRows(Tables[i]) THEN real[Tables[i]]
                                                                   ELSE db.tables[Tables[i]]

(* A later table holds no newer version than an earlier one that version   *)
(* has rows for.                                                           *)
InOrder(tables) ==
  \A i, j \in 1..4 :
    i < j => \/ tables[Tables[i]] >= tables[Tables[j]]
             \/ Tables[i] \in published[tables[Tables[j]]].empty

(* The inductive invariant: left-overs of tmp_dir() are of one version     *)
(* with the files already promoted from it; a promotion is of a diagnosed  *)
(* feed; upserts replace the tables, one after the other, by one version.  *)
IngestInv ==
  /\ OneAtATime
  /\ Emptied \/ OneVersion
  /\ \A w \in Worker : Promoting(w) /\ Promoted(w) /\ Upserting(w)
  /\ real["stops"] # 0 => Usable(real["stops"])
  /\ InOrder(db.tables)

LEMMA RestingWorker ==
  ASSUME NEW w \in Worker, Resting(w)
  PROVE  Promoting(w) /\ Promoted(w) /\ Upserting(w)
BY DEF Resting, Promoting, Promoted, Upserting

LEMMA RestingWorkerNext ==
  ASSUME NEW w \in Worker, Resting(w)'
  PROVE  Promoting(w)' /\ Promoted(w)' /\ Upserting(w)'
BY DEF Resting, Promoting, Promoted, Upserting

(* A step of one task: the others rest, and go on to.                      *)
LEMMA StepAlone ==
  ASSUME TypeOK, NEW w \in Worker, NEW r \in Where,
         \A v \in Worker : v = w \/ Resting(v),
         task' = [task EXCEPT ![w] = r]
  PROVE  /\ OneAtATime'
         /\ task'[w] = r
         /\ \A v \in Worker : v = w \/ (Promoting(v)' /\ Promoted(v)' /\ Upserting(v)')
<1>1. task'[w] = r /\ \A v \in Worker : v = w \/ Resting(v)'
  BY StateTypes DEF Resting
<1>2. OneAtATime'
  BY <1>1 DEF OneAtATime
<1>3. QED BY <1>1, <1>2, RestingWorkerNext

LEMMA OthersRest ==
  ASSUME OneAtATime, NEW w \in Worker, ~ Resting(w)
  PROVE  \A v \in Worker : v = w \/ Resting(v)
BY DEF OneAtATime

LEMMA IdleRests == Idle.at = "idle" /\ Idle \in Where
BY WhereTypes DEF Idle

LEMMA FileVersions ==
  ASSUME TypeOK
  PROVE  /\ \A t \in Table : tmp[t] \in 0..Latest /\ real[t] \in 0..Latest
         /\ \A t \in Table : db.tables[t] \in 0..Latest
         /\ Latest \in Nat \ {0}
         /\ "stops" \in Table /\ "trips" \in Table /\ "stop_times" \in Table
BY StateTypes, FourTables DEF Version

(* Steps that end in a place of no obligation.                             *)
LEMMA Elsewhere ==
  ASSUME NEW w \in Worker,
         task'[w].at \in {"idle", "listed", "download", "should_update", "diagnose"}
  PROVE  Promoting(w)' /\ Promoted(w)' /\ Upserting(w)'
BY DEF Promoting, Promoted, Upserting

LEMMA SameFiles ==
  ASSUME UNCHANGED <<published, tmp, real, db>>
  PROVE  /\ Emptied' = Emptied /\ OneVersion' = OneVersion
         /\ (real["stops"] # 0 => Usable(real["stops"]))'
               = (real["stops"] # 0 => Usable(real["stops"]))
         /\ InOrder(db.tables)' = InOrder(db.tables)
BY DEF Emptied, OneVersion, Staged, Usable, InOrder

LEMMA NoFilesEmptied ==
  ASSUME tmp' = NoFiles
  PROVE  Emptied'
BY DEF Emptied, NoFiles

(* The steps from the download to the diagnosis.                           *)
LEMMA DiagnosisStep ==
  ASSUME TypeOK, IngestInv, NEW w \in Worker,
         Download(w) \/ DownloadFails(w) \/ CheckUpdate(w) \/ Diagnose(w)
  PROVE  IngestInv'
<1>1. ~ Resting(w)
  BY DEF Download, DownloadFails, CheckUpdate, Diagnose, Resting
<1>2. \A v \in Worker : v = w \/ Resting(v)
  BY <1>1, OthersRest DEF IngestInv
<1>3. UNCHANGED <<published, real, db>>
  BY DEF Download, DownloadFails, CheckUpdate, Diagnose, files
<1>4. (real["stops"] # 0 => Usable(real["stops"]))' /\ InOrder(db.tables)'
  BY <1>3 DEF IngestInv, Usable, InOrder
<1>5. ASSUME NEW r \in Where, task' = [task EXCEPT ![w] = r], (Emptied \/ OneVersion)',
             r.at \in {"idle", "should_update", "diagnose"}
      PROVE  IngestInv'
  <2>1. /\ OneAtATime' /\ task'[w] = r
        /\ \A v \in Worker : v = w \/ (Promoting(v)' /\ Promoted(v)' /\ Upserting(v)')
    BY <1>2, <1>5, StepAlone DEF IngestInv
  <2>2. Promoting(w)' /\ Promoted(w)' /\ Upserting(w)'
    BY <1>5, <2>1, Elsewhere
  <2>3. QED BY <1>4, <1>5, <2>1, <2>2 DEF IngestInv
<1>6. ASSUME (Emptied \/ OneVersion)',
             Return(w) \/ \E s \in {"should_update", "diagnose"} : Goto(w, s)
      PROVE  IngestInv'
  <2>2. ASSUME Return(w) PROVE IngestInv'
    BY <1>5, <1>6, <2>2, IdleRests DEF Return
  <2>3. ASSUME NEW s \in {"should_update", "diagnose"}, Goto(w, s)
        PROVE  IngestInv'
    <3>1. [at |-> s] \in Where
      BY WhereTypes
    <3>2. [at |-> s].at \in {"idle", "should_update", "diagnose"}
      OBVIOUS
    <3>3. QED BY <1>5, <1>6, <2>3, <3>1, <3>2 DEF Goto
  <2>4. QED BY <1>6, <2>2, <2>3
<1>7. ASSUME tmp' = tmp
      PROVE  (Emptied \/ OneVersion)'
  BY <1>3, <1>7, SameFiles DEF IngestInv
<1>9. AfterDownload(w) \in {"should_update", "diagnose"}
  BY DEF AfterDownload
<1>10. CASE Download(w)
  <2>1. \A t \in Table : tmp'[t] = Latest
    <3>1. DOMAIN tmp = Table \cup {"info"} /\ "info" \notin Table
      BY StateTypes, FourTables
    <3>2. QED BY <1>10, <3>1 DEF Download
  <2>2. \A t \in Table : db.tables[t] <= Latest /\ Latest # 0
    BY FileVersions
  <2>3. OneVersion'
    BY <1>3, <2>1, <2>2 DEF OneVersion, Staged
  <2>4. QED BY <1>6, <1>9, <1>10, <2>3 DEF Download
<1>11. CASE DownloadFails(w)
  BY <1>6, <1>7, <1>9, <1>11 DEF DownloadFails, files
<1>12. CASE CheckUpdate(w)
  BY <1>6, <1>7, <1>12 DEF CheckUpdate, files
<1>13. CASE Diagnose(w) /\ Return(w)
  <2>1. tmp' = tmp \/ tmp' = NoFiles
    BY <1>13 DEF Diagnose
  <2>2. QED BY <1>6, <1>7, <1>13, <2>1, NoFilesEmptied
<1>14. CASE /\ tmp["stop_times"] # 0 /\ DiagnosisPasses /\ tmp' = tmp
            /\ GotoTable(w, "promote", 1)
  <2> DEFINE r == [at |-> "promote", n |-> 1]
  <2>1. r \in Where /\ task' = [task EXCEPT ![w] = r]
    BY <1>14, WhereTypes DEF GotoTable
  <2>2. r.at = "promote" /\ r.n = 1
    OBVIOUS
  <2> HIDE DEF r
  <2>3. /\ OneAtATime' /\ task'[w] = r
        /\ \A v \in Worker : v = w \/ (Promoting(v)' /\ Promoted(v)' /\ Upserting(v)')
    BY <1>2, <2>1, StepAlone DEF IngestInv
  <2>4. OneVersion
    BY <1>14, FileVersions DEF IngestInv, Emptied
  <2>5. OneVersion'
    BY <1>3, <1>14, <2>4, SameFiles
  <2>6. (tmp["stops"] # 0 => Usable(tmp["stops"]))'
    BY <1>3, <1>14 DEF DiagnosisPasses, Usable
  <2>7. Promoting(w)'
    BY <2>2, <2>3, <2>5, <2>6 DEF Promoting
  <2>8. Promoted(w)' /\ Upserting(w)'
    BY <2>2, <2>3 DEF Promoted, Upserting
  <2>9. QED BY <1>4, <2>3, <2>5, <2>7, <2>8 DEF IngestInv
<1>15. ASSUME Diagnose(w)
       PROVE  \/ Diagnose(w) /\ Return(w)
              \/ /\ tmp["stop_times"] # 0 /\ DiagnosisPasses /\ tmp' = tmp
                 /\ GotoTable(w, "promote", 1)
  BY <1>15 DEF Diagnose
<1>16. QED BY <1>10, <1>11, <1>12, <1>13, <1>14, <1>15

(* The steps from the promotion to the start of the transaction.           *)
LEMMA PromotionStep ==
  ASSUME TypeOK, IngestInv, NEW w \in Worker,
         PromoteFile(w) \/ Mark(w) \/ RemoveTmp(w) \/ UpsertTransitSystem(w)
  PROVE  IngestInv'
<1>1. ~ Resting(w)
  BY DEF PromoteFile, Mark, RemoveTmp, UpsertTransitSystem, Resting
<1>2. \A v \in Worker : v = w \/ Resting(v)
  BY <1>1, OthersRest DEF IngestInv
<1>3. UNCHANGED <<published, db>>
  BY DEF PromoteFile, Mark, RemoveTmp, UpsertTransitSystem, files
<1>4. InOrder(db.tables)'
  BY <1>3 DEF IngestInv, InOrder
<1>5. ASSUME NEW r \in Where, task' = [task EXCEPT ![w] = r]
      PROVE  /\ OneAtATime' /\ task'[w] = r
             /\ \A v \in Worker : v = w \/ (Promoting(v)' /\ Promoted(v)' /\ Upserting(v)')
  BY <1>2, <1>5, StepAlone DEF IngestInv
<1>6. CASE PromoteFile(w)
  <2> DEFINE n == task[w].n
             t == METADATA_FILE_LIST[n]
             r == IF n < 4 THEN [at |-> "promote", n |-> n + 1] ELSE [at |-> "mark"]
  <2>1. n \in 1..4
    <3>1. task[w].at = "promote" /\ task[w] \in Where
      BY <1>6, StateTypes DEF PromoteFile
    <3>2. QED BY <3>1, FourTables DEF Where, AtStep, AtDownload, AtTable
  <2>2. t \in Table /\ r \in Where
    BY <2>1, FourTables, WhereTypes
  <2>3. task' = [task EXCEPT ![w] = r]
    BY <1>6, FourTables DEF PromoteFile, GotoTable, Goto
  <2>4. /\ OneAtATime' /\ task'[w] = r
        /\ \A v \in Worker : v = w \/ (Promoting(v)' /\ Promoted(v)' /\ Upserting(v)')
    BY <1>5, <2>2, <2>3
  <2>5. /\ OneVersion
        /\ tmp["stops"] # 0 => Usable(tmp["stops"])
        /\ \A i \in 1..4 : i < n => tmp[METADATA_FILE_LIST[i]] = 0
    BY <1>6 DEF IngestInv, Promoting, PromoteFile
  <2>6. IF tmp[t] # 0
        THEN real' = [real EXCEPT ![t] = tmp[t]] /\ tmp' = [tmp EXCEPT ![t] = 0]
        ELSE UNCHANGED <<real, tmp>>
    BY <1>6 DEF PromoteFile
  <2>7. /\ tmp'[t] = 0
        /\ real'[t] = IF tmp[t] # 0 THEN tmp[t] ELSE real[t]
        /\ \A u \in Table : u # t => tmp'[u] = tmp[u] /\ real'[u] = real[u]
    BY <2>2, <2>6, StateTypes
  <2>8. \A u \in Table : Staged(u)' = Staged(u)
    BY <2>7 DEF Staged
  <2>9. OneVersion'
    BY <1>3, <2>5, <2>8 DEF OneVersion
  <2>10. (real["stops"] # 0 => Usable(real["stops"]))'
    <3>1. real'["stops"] = real["stops"] \/ (tmp["stops"] # 0 /\ real'["stops"] = tmp["stops"])
      BY <2>7, FileVersions
    <3>2. QED BY <1>3, <2>5, <3>1 DEF IngestInv, Usable
  <2>11. \A i \in 1..4 : i < n + 1 => tmp'[METADATA_FILE_LIST[i]] = 0
    <3>1. ASSUME NEW i \in 1..4, i < n + 1
          PROVE  tmp'[METADATA_FILE_LIST[i]] = 0
      <4>1. CASE i = n
        BY <2>7, <4>1
      <4>2. CASE i # n
        <5>1. i < n /\ METADATA_FILE_LIST[i] \in Table
          BY <2>1, <3>1, <4>2, FourTables
        <5>2. tmp[METADATA_FILE_LIST[i]] = 0
          BY <2>5, <5>1
        <5>3. QED BY <2>7, <5>1, <5>2
      <4>3. QED BY <4>1, <4>2
    <3>2. QED BY <3>1
  <2> HIDE DEF n, t
  <2>12. CASE n < 4
    <3>1. task'[w].at = "promote" /\ task'[w].n = n + 1
      BY <2>4, <2>12
    <3>2. (tmp["stops"] # 0 => Usable(tmp["stops"]))'
      BY <1>3, <2>5, <2>7, FileVersions DEF Usable
    <3>3. Promoting(w)'
      BY <2>9, <2>11, <3>1, <3>2 DEF Promoting
    <3>4. Promoted(w)' /\ Upserting(w)'
      BY <3>1 DEF Promoted, Upserting
    <3>5. QED BY <1>4, <2>4, <2>9, <2>10, <3>3, <3>4 DEF IngestInv
  <2>13. CASE ~ (n < 4)
    <3>1. task'[w].at = "mark"
      BY <2>4, <2>13
    <3>2. \A i \in 1..4 : tmp'[METADATA_FILE_LIST[i]] = 0
      BY <2>1, <2>11, <2>13
    <3>3. Emptied'
      BY <3>2, FourTables DEF Emptied
    <3>4. Promoting(w)' /\ Promoted(w)' /\ Upserting(w)'
      BY <2>9, <3>1, <3>3 DEF Promoting, Promoted, Upserting
    <3>5. QED BY <1>4, <2>4, <2>9, <2>10, <3>4 DEF IngestInv
  <2>14. QED BY <2>12, <2>13
<1>7. ASSUME NEW r \in Where, task' = [task EXCEPT ![w] = r], r.at \in {"clean", "begin"},
             tmp' = tmp \/ tmp' = NoFiles, real' = real,
             task[w].at \in {"mark", "clean"}
      PROVE  IngestInv'
  <2>1. Emptied /\ OneVersion
    BY <1>7 DEF IngestInv, Promoted
  <2>2. \A t \in Table : tmp'[t] = tmp[t]
    BY <1>7, <2>1 DEF Emptied, NoFiles
  <2>3. Emptied' /\ OneVersion'
    BY <1>3, <1>7, <2>1, <2>2 DEF Emptied, OneVersion, Staged
  <2>4. /\ OneAtATime' /\ task'[w] = r
        /\ \A v \in Worker : v = w \/ (Promoting(v)' /\ Promoted(v)' /\ Upserting(v)')
    BY <1>5, <1>7
  <2>5. Promoting(w)' /\ Promoted(w)' /\ Upserting(w)'
    BY <1>7, <2>3, <2>4 DEF Promoting, Promoted, Upserting
  <2>6. (real["stops"] # 0 => Usable(real["stops"]))'
    BY <1>3, <1>7 DEF IngestInv, Usable
  <2>7. QED BY <1>4, <2>3, <2>4, <2>5, <2>6 DEF IngestInv
<1>8. CASE Mark(w)
  <2>1. [at |-> "clean"] \in Where /\ [at |-> "clean"].at = "clean"
    BY WhereTypes
  <2>2. QED BY <1>7, <1>8, <2>1 DEF Mark, Goto
<1>9. CASE RemoveTmp(w)
  <2>1. [at |-> "begin"] \in Where /\ [at |-> "begin"].at = "begin"
    BY WhereTypes
  <2>2. QED BY <1>7, <1>9, <2>1 DEF RemoveTmp, Goto
<1>10. CASE UpsertTransitSystem(w)
  <2> DEFINE r == [at |-> "upsert", n |-> 1]
  <2>1. /\ task[w].at = "begin" /\ task' = [task EXCEPT ![w] = r]
        /\ txn'.tables = db.tables /\ UNCHANGED <<tmp, real>>
    BY <1>10 DEF UpsertTransitSystem, GotoTable, files
  <2>2. r \in Where /\ r.at = "upsert" /\ r.n = 1
    BY WhereTypes
  <2> HIDE DEF r
  <2>3. /\ OneAtATime' /\ task'[w] = r
        /\ \A v \in Worker : v = w \/ (Promoting(v)' /\ Promoted(v)' /\ Upserting(v)')
    BY <1>5, <2>1, <2>2
  <2>4. Emptied /\ OneVersion
    BY <2>1 DEF IngestInv, Promoted
  <2>5. Emptied' /\ OneVersion' /\ (real["stops"] # 0 => Usable(real["stops"]))'
    BY <1>3, <2>1, <2>4, SameFiles DEF IngestInv
  <2>6. Promoting(w)' /\ Promoted(w)'
    BY <2>2, <2>3, <2>5 DEF Promoting, Promoted
  <2>7. Upserting(w)'
    BY <1>3, <2>1, <2>2, <2>3 DEF Upserting
  <2>8. QED BY <1>4, <2>3, <2>5, <2>6, <2>7 DEF IngestInv
<1>11. QED BY <1>6, <1>8, <1>9, <1>10

(* The order of the tables, with a part of them replaced by one version.   *)
LEMMA ReplacedInOrder ==
  ASSUME TypeOK, OneVersion, Emptied, InOrder(db.tables), NEW n \in 1..5, NEW tables,
         \A i \in 1..4 :
           tables[Tables[i]] = IF i < n /\ HasRows(Tables[i]) THEN real[Tables[i]]
                                                             ELSE db.tables[Tables[i]]
  PROVE  InOrder(tables)
<1>1. \A i, j \in 1..4 : /\ real[Tables[i]] = real[Tables[j]]
                         /\ db.tables[Tables[j]] <= real[Tables[i]]
  BY FourTables DEF OneVersion, Emptied, Staged
<1>2. \A i \in 1..4 : real[Tables[i]] \in Nat /\ db.tables[Tables[i]] \in Nat
  BY FileVersions, FourTables
<1> SUFFICES ASSUME NEW i \in 1..4, NEW j \in 1..4, i < j
             PROVE  \/ tables[Tables[i]] >= tables[Tables[j]]
                    \/ Tables[i] \in published[tables[Tables[j]]].empty
  BY DEF InOrder
<1>3. CASE j < n /\ HasRows(Tables[j])
  <2>1. tables[Tables[j]] = real[Tables[j]] /\ i < n
    BY <1>3
  <2>2. CASE HasRows(Tables[i])
    BY <1>1, <1>2, <2>1, <2>2
  <2>3. CASE ~ HasRows(Tables[i])
    BY <1>1, <2>1, <2>3 DEF HasRows
  <2>4. QED BY <2>2, <2>3
<1>4. CASE ~ (j < n /\ HasRows(Tables[j]))
  <2>1. tables[Tables[j]] = db.tables[Tables[j]]
    BY <1>4
  <2>2. CASE tables[Tables[i]] = real[Tables[i]]
    BY <1>1, <1>2, <2>1, <2>2
  <2>3. CASE tables[Tables[i]] = db.tables[Tables[i]]
    BY <2>1, <2>3 DEF InOrder
  <2>4. QED BY <2>2, <2>3
<1>5. QED BY <1>3, <1>4

(* The upserts, and the ways in which the transaction ends.                *)
LEMMA UpsertStep ==
  ASSUME TypeOK, TransactionHeld, IngestInv, NEW w \in Worker,
         UpsertTable(w) \/ UpsertRaises(w) \/ Commit(w)
  PROVE  IngestInv'
<1> DEFINE n == task[w].n
<1>1. task[w].at = "upsert" /\ ~ Resting(w)
  BY DEF UpsertTable, UpsertRaises, Commit, Resting
<1>2. \A v \in Worker : v = w \/ Resting(v)
  BY <1>1, OthersRest DEF IngestInv
<1>3. n \in 1..5
  <2>1. task[w] \in Where
    BY StateTypes
  <2>2. QED BY <1>1, <2>1, FourTables DEF Where, AtStep, AtDownload, AtTable
<1>4. UNCHANGED <<published, tmp, real>>
  BY DEF UpsertTable, UpsertRaises, Commit, files
<1>5. /\ Emptied /\ OneVersion
      /\ \A i \in 1..4 :
           txn.tables[Tables[i]] = IF i < n /\ HasRows(Tables[i]) THEN real[Tables[i]]
                                                                 ELSE db.tables[Tables[i]]
  BY <1>1 DEF IngestInv, Promoted, Upserting
<1>6. txn \in [by : Worker, tables : [Table -> Version], today : BOOLEAN]
  BY <1>1, HeldTransaction
<1>7. Emptied' /\ (real["stops"] # 0 => Usable(real["stops"]))'
  BY <1>4, <1>5 DEF Emptied, Usable, IngestInv
<1>8. CASE UpsertTable(w)
  <2> DEFINE t == Tables[n]
             r == [at |-> "upsert", n |-> n + 1]
  <2>1. n <= 4 /\ n \in 1..4 /\ t \in Table
    BY <1>3, <1>8, FourTables DEF UpsertTable
  <2>2. r \in Where /\ r.at = "upsert" /\ r.n = n + 1
    BY <2>1, WhereTypes
  <2>3. task' = [task EXCEPT ![w] = r] /\ db' = db
        /\ txn' = IF HasRows(t) THEN [txn EXCEPT !.tables[t] = real[t]] ELSE txn
    BY <1>8 DEF UpsertTable, GotoTable
  <2>4. /\ txn'.tables[t] = IF HasRows(t) THEN real[t] ELSE txn.tables[t]
        /\ \A u \in Table : u # t => txn'.tables[u] = txn.tables[u]
    BY <1>6, <2>1, <2>3
  <2> HIDE DEF r
  <2>5. /\ OneAtATime' /\ task'[w] = r
        /\ \A v \in Worker : v = w \/ (Promoting(v)' /\ Promoted(v)' /\ Upserting(v)')
    BY <1>2, <2>2, <2>3, StepAlone DEF IngestInv
  <2>6. ASSUME NEW i \in 1..4
        PROVE  txn'.tables[Tables[i]] = IF i < n + 1 /\ HasRows(Tables[i])
                                          THEN real[Tables[i]] ELSE db.tables[Tables[i]]
    <3>1. CASE i = n
      <4>1. i < n + 1 /\ ~ (i < n) /\ Tables[i] = t
        BY <2>1, <3>1
      <4>2. txn.tables[t] = db.tables[t]
        BY <1>5, <4>1
      <4>3. QED BY <2>4, <4>1, <4>2
    <3>2. CASE i # n
      <4>1. Tables[i] # t /\ Tables[i] \in Table
        BY <2>1, <3>2, FourTables
      <4>2. txn'.tables[Tables[i]] = txn.tables[Tables[i]]
        BY <2>4, <4>1
      <4>3. i < n + 1 <=> i < n
        BY <2>1, <3>2
      <4>4. txn.tables[Tables[i]] = IF i < n /\ HasRows(Tables[i]) THEN real[Tables[i]]
                                                                 ELSE db.tables[Tables[i]]
        BY <1>5
      <4>5. QED BY <4>2, <4>3, <4>4
    <3>3. QED BY <3>1, <3>2
  <2>7. Upserting(w)'
    <3>1. task'[w].n = n + 1 /\ real' = real /\ db' = db
      BY <1>4, <2>2, <2>3, <2>5
    <3> HIDE DEF n
    <3>2. \A i \in 1..4 :
            txn'.tables[Tables[i]] = IF i < task'[w].n /\ HasRows(Tables[i])'
                                       THEN real'[Tables[i]] ELSE db'.tables[Tables[i]]
      BY <1>4, <2>6, <3>1 DEF HasRows
    <3>3. QED BY <3>2 DEF Upserting
  <2>8. OneVersion' /\ InOrder(db.tables)'
    BY <1>4, <1>5, <2>3, SameFiles DEF IngestInv
  <2>9. Promoting(w)' /\ Promoted(w)'
    BY <1>7, <2>2, <2>5, <2>8 DEF Promoting, Promoted
  <2>10. QED BY <1>7, <2>5, <2>7, <2>8, <2>9 DEF IngestInv
<1>9. CASE UpsertRaises(w) \/ Commit(w)
  <2>1. db'.tables = txn.tables /\ task' = [task EXCEPT ![w] = Idle]
    BY <1>9 DEF UpsertRaises, Commit, Committed, Return
  <2>2. /\ OneAtATime' /\ task'[w] = Idle
        /\ \A v \in Worker : v = w \/ (Promoting(v)' /\ Promoted(v)' /\ Upserting(v)')
    BY <1>2, <2>1, WhereTypes, StepAlone DEF IngestInv
  <2>3. InOrder(txn.tables)
    BY <1>3, <1>5, ReplacedInOrder DEF IngestInv
  <2>4. InOrder(db.tables)'
    BY <1>4, <2>1, <2>3 DEF InOrder
  <2>5. Resting(w)'
    BY <2>2, IdleRests DEF Resting
  <2>6. QED BY <1>7, <2>2, <2>4, <2>5, RestingWorkerNext DEF IngestInv
<1>10. QED BY <1>8, <1>9

(* The start of a task: until two fetches overlap, a fetch begins when     *)
(* everybody rests.                                                        *)
LEMMA StartStep ==
  ASSUME TypeOK, IngestInv, alone', NEW w \in Worker,
         StartFetchAll(w) \/ StartEnsure(w) \/ ForcedRemoveTmp(w)
  PROVE  IngestInv'
<1>1. Resting(w) /\ UNCHANGED <<published, real, db>> /\ (tmp' = tmp \/ tmp' = NoFiles)
  BY IdleRests DEF StartFetchAll, StartEnsure, ForcedRemoveTmp, Resting, files
<1>2. (Emptied \/ OneVersion)'
  BY <1>1, SameFiles, NoFilesEmptied DEF IngestInv
<1>3. (real["stops"] # 0 => Usable(real["stops"]))' /\ InOrder(db.tables)'
  BY <1>1 DEF IngestInv, Usable, InOrder
<1>4. CASE StartFetchAll(w) \/ ForcedRemoveTmp(w)
  <2>1. PICK forced \in BOOLEAN : Begins(w, forced)
    BY <1>4 DEF StartFetchAll, ForcedRemoveTmp
  <2> DEFINE r == [at |-> "download", forced |-> forced]
  <2>2. r \in Where /\ r.at = "download" /\ task' = [task EXCEPT ![w] = r]
    BY <2>1, WhereTypes DEF Begins
  <2> HIDE DEF r
  <2>3. \A v \in Worker : Resting(v)
    BY <2>1 DEF Begins, Working
  <2>4. /\ OneAtATime' /\ task'[w] = r
        /\ \A v \in Worker : v = w \/ (Promoting(v)' /\ Promoted(v)' /\ Upserting(v)')
    BY <2>2, <2>3, StepAlone
  <2>5. Promoting(w)' /\ Promoted(w)' /\ Upserting(w)'
    BY <2>2, <2>4, Elsewhere
  <2>6. QED BY <1>2, <1>3, <2>4, <2>5 DEF IngestInv
<1>5. CASE StartEnsure(w)
  <2>1. UNCHANGED <<published, tmp, real, db, txn>> /\ task' = [task EXCEPT ![w] = [at |-> "listed"]]
    BY <1>5 DEF StartEnsure, Goto, files
  <2>2. Resting(w)' /\ \A v \in Worker : v = w \/ task'[v] = task[v]
    BY <2>1, StateTypes DEF Resting
  <2>3. OneAtATime'
    BY <2>2 DEF OneAtATime, IngestInv, Resting
  <2>4. ASSUME NEW v \in Worker, v # w
        PROVE  Promoting(v)' /\ Promoted(v)' /\ Upserting(v)'
    BY <2>1, <2>2, <2>4, SameFiles DEF IngestInv, Promoting, Promoted, Upserting, Usable, HasRows
  <2>5. Promoting(w)' /\ Promoted(w)' /\ Upserting(w)'
    BY <2>2, RestingWorkerNext
  <2>6. QED BY <1>2, <1>3, <2>3, <2>4, <2>5 DEF IngestInv
<1>6. QED BY <1>4, <1>5

(* The end of a task, and what happens around it.                          *)
LEMMA OutsideStep ==
  ASSUME TypeOK, TransactionHeld, IngestInv,
         \/ Restart \/ UNCHANGED vars
         \/ \E w \in Worker : DatabaseError(w) \/ WorkerDies(w)
         \/ \E f \in Feed : Publish(f)
         \/ \E expired \in SUBSET (1..Latest) : NewDay(expired)
  PROVE  IngestInv'
<1>2. ASSUME Restart
      PROVE  IngestInv'
  <2>1. /\ \A v \in Worker : Resting(v)'
        /\ Emptied' /\ real' = NoTables /\ db' = db /\ published' = published
    BY <1>2, NoFilesEmptied, IdleRests DEF Restart, Resting
  <2>2. (real["stops"] # 0 => Usable(real["stops"]))' /\ InOrder(db.tables)'
    BY <2>1, FileVersions DEF IngestInv, NoTables, InOrder
  <2>3. OneAtATime'
    BY <2>1 DEF OneAtATime
  <2>4. QED BY <2>1, <2>2, <2>3, RestingWorkerNext DEF IngestInv
<1>3. ASSUME NEW w \in Worker, DatabaseError(w) \/ WorkerDies(w)
      PROVE  IngestInv'
  <2>1. /\ UNCHANGED <<published, tmp, real, db>> /\ task' = [task EXCEPT ![w] = Idle]
        /\ txn' = txn \/ txn.by = w
    BY <1>3 DEF DatabaseError, WorkerDies, Return, files, TransactionHeld
  <2>2. Resting(w)' /\ \A v \in Worker : v = w \/ task'[v] = task[v]
    BY <2>1, StateTypes, IdleRests DEF Resting
  <2>3. OneAtATime'
    BY <2>2 DEF OneAtATime, IngestInv, Resting
  <2>4. ASSUME NEW v \in Worker, v # w
        PROVE  Promoting(v)' /\ Promoted(v)' /\ Upserting(v)'
    <3>1. task[v].at = "upsert" => txn' = txn
      BY <2>1, <2>4 DEF TransactionHeld
    <3>2. Promoting(v) /\ Promoted(v) /\ Upserting(v) /\ task'[v] = task[v]
      BY <2>2, <2>4 DEF IngestInv
    <3>3. Promoting(v)' /\ Promoted(v)'
      BY <2>1, <3>2, SameFiles DEF Promoting, Promoted, Usable
    <3>4. Upserting(v)'
      BY <2>1, <3>1, <3>2 DEF Upserting, HasRows
    <3>5. QED BY <3>3, <3>4
  <2>5. QED BY <2>1, <2>2, <2>3, <2>4, SameFiles, RestingWorkerNext DEF IngestInv
<1>4. ASSUME UNCHANGED <<tmp, real, task>>, db'.tables = db.tables,
             \A t \in Table : txn.by # None => txn'.tables[t] = txn.tables[t],
             \A v \in 1..Latest : published'[v].empty = published[v].empty
      PROVE  IngestInv'
  <2>1. Emptied' = Emptied /\ OneVersion' = OneVersion
    BY <1>4 DEF Emptied, OneVersion, Staged
  <2>2. OneAtATime' = OneAtATime
    BY <1>4 DEF OneAtATime, Resting
  <2>3. /\ (real["stops"] # 0 => Usable(real["stops"]))'
        /\ InOrder(db.tables)'
    <3>1. real["stops"] # 0 => real["stops"] \in 1..Latest
      BY FileVersions
    <3>2. ASSUME NEW i \in 1..4, NEW j \in 1..4, i < j
          PROVE  \/ db'.tables[Tables[i]] >= db'.tables[Tables[j]]
                 \/ Tables[i] \in published'[db'.tables[Tables[j]]].empty
      <4>1. /\ db.tables[Tables[i]] \in 0..Latest /\ db.tables[Tables[j]] \in 0..Latest
            /\ Latest \in Nat
        BY FileVersions, FourTables
      <4>2. CASE db.tables[Tables[j]] = 0
        BY <1>4, <4>1, <4>2
      <4>3. CASE db.tables[Tables[j]] # 0
        <5>1. db.tables[Tables[j]] \in 1..Latest
          BY <4>1, <4>3
        <5>2. published'[db.tables[Tables[j]]].empty = published[db.tables[Tables[j]]].empty
          BY <1>4, <5>1
        <5>3. QED BY <1>4, <3>2, <5>2 DEF IngestInv, InOrder
      <4>4. QED BY <4>2, <4>3
    <3>3. InOrder(db.tables)'
      BY <3>2 DEF InOrder
    <3>4. QED BY <1>4, <3>1, <3>3 DEF IngestInv, Usable
  <2>4. ASSUME NEW w \in Worker
        PROVE  Promoting(w)' /\ Promoted(w)' /\ Upserting(w)'
    <3>1. Promoting(w) /\ Promoted(w) /\ Upserting(w) /\ task'[w] = task[w]
      BY <1>4 DEF IngestInv
    <3>2. Promoted(w)'
      BY <2>1, <3>1 DEF Promoted
    <3>3. Promoting(w)'
      <4>1. tmp["stops"] # 0 => tmp["stops"] \in 1..Latest
        BY FileVersions
      <4>2. tmp'["stops"] # 0 /\ task[w].at = "promote" => Usable(tmp["stops"])'
        BY <1>4, <3>1, <4>1 DEF Promoting, Usable
      <4>3. QED BY <1>4, <2>1, <3>1, <4>2 DEF Promoting
    <3>4. Upserting(w)'
      <4>1. task[w].at = "upsert" => txn.by # None
        BY FetcherAssumption DEF TransactionHeld
      <4>2. \A i \in 1..4 : Tables[i] \in Table
        BY FourTables
      <4>3. task[w].at = "upsert" =>
              \A i \in 1..4 : txn'.tables[Tables[i]] = txn.tables[Tables[i]]
        BY <1>4, <4>1, <4>2
      <4>4. \A i \in 1..4 : task[w].at = "upsert" /\ real[Tables[i]] # 0 =>
                              HasRows(Tables[i])' = HasRows(Tables[i])
        BY <1>4, <4>2, FileVersions DEF HasRows
      <4>5. task[w].at = "upsert" =>
              \A i \in 1..4 : real[Tables[i]] = 0 => db.tables[Tables[i]] = 0
        BY <4>2, FileVersions DEF IngestInv, Promoted, OneVersion, Emptied, Staged
      <4>6. ASSUME task[w].at = "upsert", NEW i \in 1..4
            PROVE  txn'.tables[Tables[i]] =
                     IF i < task'[w].n /\ HasRows(Tables[i])' THEN real'[Tables[i]]
                                                               ELSE db'.tables[Tables[i]]
        <5>1. txn'.tables[Tables[i]] = IF i < task[w].n /\ HasRows(Tables[i])
                                         THEN real[Tables[i]] ELSE db.tables[Tables[i]]
          BY <3>1, <4>3, <4>6 DEF Upserting
        <5>2. real' = real /\ db'.tables = db.tables /\ task' = task
          BY <1>4
        <5>3. CASE real[Tables[i]] = 0
          BY <4>5, <4>6, <5>1, <5>2, <5>3
        <5>4. CASE real[Tables[i]] # 0
          BY <4>4, <4>6, <5>1, <5>2, <5>4
        <5>5. QED BY <5>3, <5>4
      <4>7. QED BY <1>4, <4>6 DEF Upserting
    <3>5. QED BY <3>2, <3>3, <3>4
  <2>5. QED BY <2>1, <2>2, <2>3, <2>4 DEF IngestInv
<1>5. ASSUME UNCHANGED vars
      PROVE  IngestInv'
  BY <1>4, <1>5 DEF vars, files
<1>6. ASSUME NEW f \in Feed, Publish(f)
      PROVE  IngestInv'
  <2>1. \A v \in 1..Latest : published'[v] = published[v]
    BY <1>6, StateTypes DEF Publish, Latest
  <2>2. QED BY <1>4, <1>6, <2>1 DEF Publish, files
<1>7. ASSUME NEW expired, NewDay(expired)
      PROVE  IngestInv'
  <2>1. \A v \in 1..Latest : published'[v].empty = published[v].empty
    BY <1>7, NewDayFeeds
  <2>2. UNCHANGED <<tmp, real, task>> /\ db'.tables = db.tables
    <3>1. db \in [tables : [Table -> Version], today : BOOLEAN]
      BY StateTypes
    <3>2. QED BY <1>7, <3>1 DEF NewDay
  <2>3. \A t \in Table : txn.by # None => txn'.tables[t] = txn.tables[t]
    <3>1. txn \in Transaction
      BY StateTypes
    <3>2. CASE txn = NoTransaction
      BY <3>2 DEF NoTransaction
    <3>3. CASE txn \in [by : Worker, tables : [Table -> Version], today : BOOLEAN]
      BY <1>7, <3>3 DEF NewDay
    <3>4. QED BY <3>1, <3>2, <3>3 DEF Transaction
  <2>4. QED BY <1>4, <2>1, <2>2, <2>3
<1>8. QED BY <1>2, <1>3, <1>5, <1>6, <1>7, Zenon

LEMMA OnlyAlone ==
  ASSUME [Next]_vars, alone'
  PROVE  alone
<1>1. alone' = alone \/ alone' = (alone /\ Working = {})
  <2>1. ASSUME NEW w \in Worker, StartFetchAll(w) \/ ForcedRemoveTmp(w)
        PROVE  alone' = (alone /\ Working = {})
    BY <2>1 DEF StartFetchAll, ForcedRemoveTmp, Begins
  <2>2. ASSUME NEW w \in Worker,
               \/ StartEnsure(w) \/ Download(w) \/ DownloadFails(w) \/ CheckUpdate(w)
               \/ Diagnose(w) \/ PromoteFile(w) \/ Mark(w) \/ RemoveTmp(w)
        PROVE  alone' = alone
    BY <2>2 DEF StartEnsure, Download, DownloadFails, CheckUpdate, Diagnose, PromoteFile, Mark,
                RemoveTmp
  <2>3. ASSUME NEW w \in Worker,
               \/ UpsertTransitSystem(w) \/ UpsertTable(w) \/ UpsertRaises(w) \/ Commit(w)
               \/ DatabaseError(w) \/ WorkerDies(w)
        PROVE  alone' = alone
    BY <2>3 DEF UpsertTransitSystem, UpsertTable, UpsertRaises, Commit, DatabaseError, WorkerDies
  <2>4. ASSUME Restart \/ UNCHANGED vars
        PROVE  alone' = alone
    BY <2>4 DEF Restart, vars
  <2>5. ASSUME NEW f \in Feed, Publish(f)
        PROVE  alone' = alone
    BY <2>5 DEF Publish
  <2>6. ASSUME NEW expired, NewDay(expired)
        PROVE  alone' = alone
    BY <2>6 DEF NewDay
  <2>7. QED BY <2>1, <2>2, <2>3, <2>4, <2>5, <2>6, Zenon DEF Next, Step
<1>2. QED BY <1>1

(* Until two fetches overlap the ingestion keeps its invariant, whatever   *)
(* fails, is killed or is published meanwhile.                             *)
THEOREM IngestInvariant == Spec => [](alone => IngestInv)
<1>1. Init => IngestInv
  <2> SUFFICES ASSUME Init PROVE IngestInv
    OBVIOUS
  <2>1. /\ \A w \in Worker : Resting(w)
        /\ \A t \in Table : tmp[t] = 0 /\ real[t] = 0 /\ db.tables[t] = 0
    BY IdleRests DEF Init, NoFiles, NoTables, Resting
  <2>2. Emptied /\ OneAtATime /\ real["stops"] = 0
    BY <2>1, FourTables DEF Emptied, OneAtATime
  <2>3. InOrder(db.tables)
    BY <2>1, FourTables DEF InOrder
  <2>4. QED BY <2>1, <2>2, <2>3, RestingWorker DEF IngestInv
<1>2. TypeOK /\ TransactionHeld /\ (alone => IngestInv) /\ [Next]_vars => (alone => IngestInv)'
  <2> SUFFICES ASSUME TypeOK, TransactionHeld, alone => IngestInv, [Next]_vars, alone'
               PROVE  IngestInv'
    OBVIOUS
  <2>0. IngestInv
    BY OnlyAlone
  <2>1. ASSUME NEW w \in Worker,
               StartFetchAll(w) \/ StartEnsure(w) \/ Step(w) \/ DownloadFails(w)
        PROVE  IngestInv'
    BY <2>0, <2>1, StartStep, DiagnosisStep, PromotionStep, UpsertStep, Zenon DEF Step
  <2>2. ASSUME NEW w \in Worker, DatabaseError(w) \/ WorkerDies(w)
        PROVE  IngestInv'
    BY <2>0, <2>2, OutsideStep, Zenon
  <2>3. QED
    BY <2>0, <2>1, <2>2, OutsideStep, Zenon DEF Next
<1>3. QED BY <1>1, <1>2, TypeCorrect, PTL DEF Spec

(* No feed without a usable stop is promoted, however many downloads,      *)
(* crashes and restarts have left their files in tmp_dir(), until two      *)
(* fetches overlap.                                                        *)
THEOREM DiagnosisGates == Spec => []DiagnosedBeforePromotion
<1>1. (alone => IngestInv) => DiagnosedBeforePromotion
  BY DEF IngestInv, DiagnosedBeforePromotion
<1>2. QED BY <1>1, IngestInvariant, PTL

(* No table is ever newer than one it refers to that has rows in its       *)
(* version, wherever an ingestion ends, until two fetches overlap.         *)
THEOREM TablesInOrder == Spec => []UpsertsInOrder
<1>1. (alone => IngestInv) => UpsertsInOrder
  BY FourTables DEF IngestInv, InOrder, UpsertsInOrder
<1>2. QED BY <1>1, IngestInvariant, PTL

(* The gate a regular fetch has passed stays open to it while it waits for *)
(* its download: only a commit would close it, and no other worker is at   *)
(* work.                                                                   *)
GateOpen == \A w \in Worker : task[w].at = "download" /\ ~ task[w].forced => ~ db.today

LEMMA GateStep ==
  ASSUME TypeOK, IngestInv, GateOpen, [Next]_vars
  PROVE  GateOpen'
<1>1. task \in [Worker -> Where]
  BY StateTypes
<1>2. ASSUME NEW w \in Worker, UpsertRaises(w) \/ Commit(w)
      PROVE  GateOpen'
  <2>1. task[w].at = "upsert" /\ task' = [task EXCEPT ![w] = Idle]
    BY <1>2 DEF UpsertRaises, Commit, Committed, Return
  <2>2. \A v \in Worker : v = w \/ Resting(v)
    BY <2>1, OthersRest DEF IngestInv, Resting
  <2>3. \A v \in Worker : task'[v].at # "download"
    BY <1>1, <2>1, <2>2, IdleRests DEF Resting
  <2>4. QED BY <2>3 DEF GateOpen
<1>3. ASSUME NEW w \in Worker, NEW r, task' = [task EXCEPT ![w] = r], db' = db,
             r.at = "download" => r.forced \/ ~ db.today
      PROVE  GateOpen'
  BY <1>1, <1>3 DEF GateOpen
<1>4. ASSUME NEW w \in Worker, Return(w), db' = db
      PROVE  GateOpen'
  BY <1>3, <1>4, IdleRests DEF Return
<1>5. ASSUME NEW w \in Worker, NEW s, s # "download", Goto(w, s), db' = db
      PROVE  GateOpen'
  <2>1. [at |-> s].at # "download"
    BY <1>5
  <2>2. QED BY <1>3, <1>5, <2>1 DEF Goto
<1>6. ASSUME NEW w \in Worker, NEW s, s # "download", NEW n, GotoTable(w, s, n), db' = db
      PROVE  GateOpen'
  <2>1. [at |-> s, n |-> n].at # "download"
    BY <1>6
  <2>2. QED BY <1>3, <1>6, <2>1 DEF GotoTable
<1>7. ASSUME NEW w \in Worker, NEW forced \in BOOLEAN, Begins(w, forced), db' = db,
             forced \/ ~ db.today
      PROVE  GateOpen'
  <2>1. [at |-> "download", forced |-> forced].forced = forced
    OBVIOUS
  <2>2. QED BY <1>3, <1>7, <2>1 DEF Begins
<1>8. ASSUME NEW w \in Worker, StartFetchAll(w) \/ StartEnsure(w) \/ ForcedRemoveTmp(w)
      PROVE  GateOpen'
  BY <1>5, <1>7, <1>8 DEF StartFetchAll, StartEnsure, ForcedRemoveTmp
<1>9. ASSUME NEW w \in Worker,
             \/ Download(w) \/ DownloadFails(w) \/ CheckUpdate(w) \/ Diagnose(w)
             \/ PromoteFile(w) \/ Mark(w) \/ RemoveTmp(w)
      PROVE  GateOpen'
  <2>1. \/ Return(w) \/ \E s : s # "download" /\ Goto(w, s)
        \/ \E n : GotoTable(w, "promote", n)
    BY <1>9 DEF Download, DownloadFails, CheckUpdate, Diagnose, PromoteFile, Mark, RemoveTmp,
                AfterDownload
  <2>2. db' = db
    BY <1>9 DEF Download, DownloadFails, CheckUpdate, Diagnose, PromoteFile, Mark, RemoveTmp
  <2>3. QED BY <1>4, <1>5, <1>6, <2>1, <2>2
<1>10. ASSUME NEW w \in Worker,
              UpsertTransitSystem(w) \/ UpsertTable(w) \/ DatabaseError(w) \/ WorkerDies(w)
       PROVE  GateOpen'
  <2>1. Return(w) \/ \E n : GotoTable(w, "upsert", n)
    BY <1>10 DEF UpsertTransitSystem, UpsertTable, DatabaseError, WorkerDies
  <2>2. db' = db
    BY <1>10 DEF UpsertTransitSystem, UpsertTable, DatabaseError, WorkerDies
  <2>3. QED BY <1>4, <1>6, <2>1, <2>2
<1>11. CASE Restart
  BY <1>1, <1>11, IdleRests DEF Restart, GateOpen
<1>12. ASSUME NEW f \in Feed, Publish(f)
       PROVE  GateOpen'
  BY <1>12 DEF Publish, GateOpen
<1>13. ASSUME NEW expired, NewDay(expired)
       PROVE  GateOpen'
  <2>1. db \in [tables : [Table -> Version], today : BOOLEAN]
    BY DEF TypeOK
  <2>2. task' = task /\ db'.today = FALSE
    BY <1>13, <2>1 DEF NewDay
  <2>3. QED BY <2>2 DEF GateOpen
<1>14. CASE UNCHANGED vars
  BY <1>14 DEF vars, GateOpen
<1>15. QED
  BY <1>2, <1>8, <1>9, <1>10, <1>11, <1>12, <1>13, <1>14, Zenon DEF Next, Step

(* Only a regular fetch goes on from its download to should_update().      *)
LEMMA RegularDownload ==
  ASSUME TypeOK, [Next]_vars, NEW w \in Worker, Downloaded(w)
  PROVE  ~ task[w].forced
<1>1. task \in [Worker -> Where] /\ task[w].at = "download" /\ task'[w].at = "should_update"
  BY StateTypes DEF Downloaded
<1>2. ASSUME NEW v \in Worker, NEW r, task' = [task EXCEPT ![v] = r],
             v = w => r.at # "should_update"
      PROVE  FALSE
  BY <1>1, <1>2
<1>3. ASSUME NEW v \in Worker, Return(v)
      PROVE  FALSE
  BY <1>2, <1>3, IdleRests DEF Return
<1>4. ASSUME NEW v \in Worker, NEW s, s # "should_update",
             Goto(v, s) \/ \E n : GotoTable(v, s, n)
      PROVE  FALSE
  <2>1. /\ [at |-> s].at # "should_update"
        /\ \A n : [at |-> s, n |-> n].at # "should_update"
    BY <1>4
  <2>2. QED BY <1>2, <1>4, <2>1 DEF Goto, GotoTable
<1>5. ASSUME NEW v \in Worker, NEW forced, Begins(v, forced)
      PROVE  FALSE
  <2>1. [at |-> "download", forced |-> forced].at # "should_update"
    OBVIOUS
  <2>2. QED BY <1>2, <1>5, <2>1 DEF Begins
<1>6. ASSUME NEW v \in Worker, StartFetchAll(v) \/ StartEnsure(v) \/ ForcedRemoveTmp(v)
      PROVE  FALSE
  BY <1>4, <1>5, <1>6 DEF StartFetchAll, StartEnsure, ForcedRemoveTmp
<1>7. ASSUME NEW v \in Worker, Download(v) \/ DownloadFails(v)
      PROVE  ~ task[w].forced
  <2>1. Goto(v, AfterDownload(v))
    BY <1>3, <1>7 DEF Download, DownloadFails
  <2>2. AfterDownload(v) = "should_update"
    BY <1>4, <2>1
  <2>3. v = w
    BY <1>1, <2>1 DEF Goto
  <2>4. QED BY <2>2, <2>3 DEF AfterDownload
<1>8. ASSUME NEW v \in Worker,
             CheckUpdate(v) \/ Diagnose(v) \/ PromoteFile(v) \/ Mark(v) \/ RemoveTmp(v)
      PROVE  FALSE
  <2>1. \/ Return(v) \/ Goto(v, "diagnose") \/ Goto(v, "mark") \/ Goto(v, "clean")
        \/ Goto(v, "begin") \/ \E n : GotoTable(v, "promote", n)
    BY <1>8 DEF CheckUpdate, Diagnose, PromoteFile, Mark, RemoveTmp
  <2>2. QED BY <1>3, <1>4, <2>1
<1>9. ASSUME NEW v \in Worker,
             \/ UpsertTransitSystem(v) \/ UpsertTable(v) \/ UpsertRaises(v) \/ Commit(v)
             \/ DatabaseError(v) \/ WorkerDies(v)
      PROVE  FALSE
  <2>1. Return(v) \/ \E n : GotoTable(v, "upsert", n)
    BY <1>9 DEF UpsertTransitSystem, UpsertTable, UpsertRaises, Commit, Committed, DatabaseError,
                WorkerDies
  <2>2. QED BY <1>3, <1>4, <2>1
<1>10. ASSUME task' = task
       PROVE  FALSE
  BY <1>1, <1>10
<1>11. ASSUME Restart
       PROVE  FALSE
  BY <1>1, <1>11, IdleRests DEF Restart
<1>12. ASSUME NEW f \in Feed, Publish(f)
       PROVE  FALSE
  BY <1>10, <1>12 DEF Publish
<1>13. ASSUME NEW expired, NewDay(expired)
       PROVE  FALSE
  BY <1>10, <1>13 DEF NewDay
<1>14. ASSUME UNCHANGED vars
       PROVE  FALSE
  BY <1>10, <1>14 DEF vars
<1>15. QED
  BY <1>6, <1>7, <1>8, <1>9, <1>11, <1>12, <1>13, <1>14, Zenon DEF Next, Step

(* The "DB-backed daily gate": fetch_all_systems downloads nothing for a   *)
(* system once an ingestion has been committed on the same day, whatever   *)
(* crashed or was restarted before, until two fetches overlap.             *)
THEOREM GateSurvives == Spec => GateSurvivesRestart
<1>1. Init => GateOpen
  BY IdleRests DEF Init, GateOpen
<1>2. /\ TypeOK /\ (alone => IngestInv) /\ (alone => GateOpen) /\ [Next]_vars
      => (alone => GateOpen)'
  BY GateStep, OnlyAlone
<1>3. TypeOK /\ (alone => GateOpen) /\ [Next]_vars =>
        [\A w \in Worker : alone /\ Downloaded(w) => ~ db.today]_vars
  <2> SUFFICES ASSUME TypeOK, alone => GateOpen, [Next]_vars,
                      NEW w \in Worker, alone, Downloaded(w)
               PROVE  ~ db.today
    OBVIOUS
  <2>1. ~ task[w].forced /\ task[w].at = "download"
    BY RegularDownload DEF Downloaded
  <2>2. QED BY <2>1 DEF GateOpen
<1>4. QED
  BY <1>1, <1>2, <1>3, TypeCorrect, IngestInvariant, PTL DEF Spec, GateSurvivesRestart
=============================================================================
