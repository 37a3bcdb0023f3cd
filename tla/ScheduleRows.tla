----------------------------- MODULE ScheduleRows -----------------------------
(***************************************************************************)
(* What the fetcher makes of the rows of a GTFS file: the scan of          *)
(* stop_times.txt for the two ends of a trip, and the batched upserts with *)
(* their deduplication.                                                    *)
(***************************************************************************)
EXTENDS Subsequences

NoNumber == -1
NoText == "none"

(* is_later_stop_sequence and is_earlier_stop_sequence.                    *)
IsLater(seq, best) == seq # NoNumber /\ (best = NoNumber \/ seq > best)
IsEarlier(seq, best) == seq # NoNumber /\ (best = NoNumber \/ seq < best)

NothingScanned ==
  [max |-> NoNumber, destination |-> NoText, min |-> NoNumber, headsign |-> NoText]

(* Mutant: a row without a headsign also counts as the earliest.           *)
ScanRowBlankHeadsign(found, row) ==
  LET ends == IF row.stop # NoText /\ IsLater(row.seq, found.max)
              THEN [found EXCEPT !.max = row.seq, !.destination = row.stop]
              ELSE found
  IN  IF IsEarlier(row.seq, ends.min)
      THEN [ends EXCEPT !.min = row.seq, !.headsign = row.headsign]
      ELSE ends

(* One row of _scan_stop_times, for one trip.                              *)
ScanRow(found, row) ==
  LET ends == IF row.stop # NoText /\ IsLater(row.seq, found.max)
              THEN [found EXCEPT !.max = row.seq, !.destination = row.stop]
              ELSE found
  IN  IF row.headsign # NoText /\ IsEarlier(row.seq, ends.min)
      THEN [ends EXCEPT !.min = row.seq, !.headsign = row.headsign]
      ELSE ends

ScanStopTimes(rows) ==
  LET found[n \in 0..Len(rows)] ==
        IF n = 0 THEN NothingScanned ELSE ScanRow(found[n - 1], rows[n])
  IN  found[Len(rows)]

-----------------------------------------------------------------------------

(* dedupe_rows_by_columns: a dict keeps the place of the first row of a    *)
(* key and the value of the last.                                          *)
Dedupe(rows) ==
  LET IsFirst(n) == \A k \in 1..n - 1 : rows[k].key # rows[n].key
      places == PlacesIn({n \in DOMAIN rows : IsFirst(n)}, Len(rows))
      LastOf(n) == CHOOSE k \in DOMAIN rows :
                   /\ rows[k].key = rows[n].key
                   /\ \A j \in k + 1..Len(rows) : rows[j].key # rows[n].key
  IN  [p \in DOMAIN places |-> rows[LastOf(places[p])]]

(* One INSERT ... ON CONFLICT DO UPDATE: `fresh` stands for the columns in *)
(* update_columns, `kept` for those that are written by an insert only.    *)
UpsertBatch(table, batch) ==
  [key \in DOMAIN table \cup {batch[n].key : n \in DOMAIN batch} |->
     IF \E n \in DOMAIN batch : batch[n].key = key
     THEN LET row == batch[CHOOSE n \in DOMAIN batch : batch[n].key = key]
          IN  [fresh |-> row.fresh,
               kept |-> IF key \in DOMAIN table THEN table[key].kept ELSE row.kept]
     ELSE table[key]]

(* The rows in batches of `size`, the last of which may be shorter.        *)
Batches(rows, size) ==
  [b \in 1..(Len(rows) + size - 1) \div size |->
     SubSeq(rows, (b - 1) * size + 1, IF b * size < Len(rows) THEN b * size ELSE Len(rows))]

(* _upsert_batched: the whole file is deduplicated before it is cut.       *)
BatchedStatements(rows, size) == Batches(Dedupe(rows), size)

(* Mutant: the batches of a file are not deduplicated.                     *)
StreamedStatementsRaw(rows, size) == Batches(rows, size)

(* upsert_stop_times: each batch of the stream is deduplicated by itself.  *)
StreamedStatements(rows, size) ==
  LET batches == Batches(rows, size)
  IN  [b \in DOMAIN batches |-> Dedupe(batches[b])]

Upserted(table, statements) ==
  LET after[n \in 0..Len(statements)] ==
        IF n = 0 THEN table ELSE UpsertBatch(after[n - 1], statements[n])
  IN  after[Len(statements)]
=============================================================================
