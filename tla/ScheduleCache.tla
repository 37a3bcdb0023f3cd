---------------------------- MODULE ScheduleCache ----------------------------
(***************************************************************************)
(* ScheduleCache.get and _load for one transit system, and TransferCache,  *)
(* which has the same shape: a freshness test, an asyncio.Lock, a second   *)
(* test, and asyncio.to_thread(_load).  The loader is an OS thread: it     *)
(* reads the tables one SELECT at a time while the ingestion may commit,   *)
(* and writes the class's dicts one at a time while the event loop runs    *)
(* other callers.  Cancelling a caller releases the lock but not the       *)
(* thread.  A dict is abstracted to the version of each table that it was  *)
(* built from.                                                             *)
(***************************************************************************)
EXTENDS Integers, Sequences, FiniteSets, SequencesExt

CONSTANTS
  Task,        \* coroutines that call get()
  Selects,     \* the tables in the order _load reads them
  Writes,      \* the dicts in the order _load assigns them
  BuiltFrom,   \* the tables each dict is built from
  ByName,      \* _load first looks up the system's row, and stops if there is none
  TTL,
  MaxTime, MaxVersion, MaxCancels  \* bounds of the runs

Nobody == "nobody"
Elements(seq) == {seq[i] : i \in 1..Len(seq)}
Table == Elements(Selects)
Dict == Elements(Writes)

ASSUME LoadAssumption ==
  /\ Nobody \notin Task
  /\ Selects \in Seq(Table) /\ Selects # << >>
  /\ Writes \in Seq(Dict)
  /\ BuiltFrom \in [Dict -> SUBSET Table]
  /\ ByName \in BOOLEAN
  /\ {TTL, MaxTime, MaxVersion, MaxCancels} \subseteq Nat

VARIABLES
  now,
  committed, \* version of the schedule data in the database, 0 for no row
  dict,      \* the dicts: the version of each table they were built from
  loadedAt,  \* _loaded_at
  queue,     \* _locks: the holder of the lock, then its waiters
  call,      \* where each task is inside get()
  loader,    \* the threads running _load
  whole,     \* history: what the last completed load had read
  cancels    \* history: cancellations so far

vars == <<now, committed, dict, loadedAt, queue, call, loader, whole, cancels>>

Slot == 1..MaxCancels + 1
NotLoaded == -1
Stopped == [at |-> "stopped"]
Nothing == [tbl \in Table |-> 0]
Part(read, d) == [tbl \in BuiltFrom[d] |-> read[tbl]]

Init ==
  /\ now = 0
  /\ committed = 0
  /\ dict = [d \in Dict |-> Part(Nothing, d)]
  /\ loadedAt = NotLoaded
  /\ queue = << >>
  /\ call = [t \in Task |-> "idle"]
  /\ loader = [l \in Slot |-> Stopped]
  /\ whole = Nothing
  /\ cancels = 0

-----------------------------------------------------------------------------

IsFresh == loadedAt # NotLoaded /\ now - loadedAt < TTL

Running == {l \in Slot : loader[l].at # "stopped"}

Owner(t) == queue # << >> /\ Head(queue) = t
Leave(t) == \E i \in 1..Len(queue) : queue[i] = t /\ queue' = RemoveAt(queue, i)

(* get() on a fresh cache returns the dicts, without the lock.             *)
CallFresh(t) ==
  /\ call[t] = "idle"
  /\ IsFresh
  /\ UNCHANGED vars

(* get() on a stale cache: it takes the lock, or waits behind its holder.  *)
Call(t) ==
  /\ call[t] = "idle"
  /\ ~ IsFresh
  /\ call' = [call EXCEPT ![t] = "waiting"]
  /\ queue' = Append(queue, t)
  /\ UNCHANGED <<now, committed, dict, loadedAt, loader, whole, cancels>>

(* The lock is acquired and the second test finds the cache fresh.         *)
EnterFresh(t) ==
  /\ call[t] = "waiting" /\ Owner(t)
  /\ IsFresh
  /\ call' = [call EXCEPT ![t] = "idle"]
  /\ Leave(t)
  /\ UNCHANGED <<now, committed, dict, loadedAt, loader, whole, cancels>>

(* Mutant: the cache is loaded without the lock.                           *)
EnterStaleUnlocked(t) ==
  /\ call[t] = "waiting"
  /\ ~ IsFresh
  /\ call' = [call EXCEPT ![t] = "loading"]
  /\ \E l \in Slot \ Running :
       /\ \A k \in Slot \ Running : l <= k
       /\ loader' = [loader EXCEPT ![l] =
                       [at |-> "lookup", owner |-> t, read |-> Nothing, done |-> 0]]
  /\ UNCHANGED <<now, committed, dict, loadedAt, queue, whole, cancels>>

(* The lock is acquired and the cache is still stale: a thread is started. *)
EnterStale(t) ==
  /\ call[t] = "waiting" /\ Owner(t)
  /\ ~ IsFresh
  /\ call' = [call EXCEPT ![t] = "loading"]
  /\ \E l \in Slot \ Running :
       /\ \A k \in Slot \ Running : l <= k
       /\ loader' = [loader EXCEPT ![l] =
                       [at |-> "lookup", owner |-> t, read |-> Nothing, done |-> 0]]
  /\ UNCHANGED <<now, committed, dict, loadedAt, queue, whole, cancels>>

(* The system's row is looked up; without one every dict is to be empty.   *)
Lookup(l) ==
  /\ loader[l].at = "lookup"
  /\ loader' = [loader EXCEPT ![l].at =
                  IF ByName /\ committed = 0 THEN "writing" ELSE "reading"]
  /\ UNCHANGED <<now, committed, dict, loadedAt, queue, call, whole, cancels>>

(* Mutant: _loaded_at is assigned before the dicts are.                    *)
ReadMarksLoaded(l) ==
  /\ loader[l].at = "reading"
  /\ LET n == loader[l].done + 1
         last == n = Len(Selects)
     IN  /\ loader' = [loader EXCEPT
              ![l].read[Selects[n]] = committed,
              ![l].done = IF last THEN 0 ELSE n,
              ![l].at = IF last THEN "writing" ELSE "reading"]
         /\ loadedAt' = IF last THEN now ELSE loadedAt
  /\ UNCHANGED <<now, committed, dict, queue, call, whole, cancels>>

(* One SELECT: under READ COMMITTED it sees what is committed now.         *)
Read(l) ==
  /\ loader[l].at = "reading"
  /\ LET n == loader[l].done + 1
     IN  loader' = [loader EXCEPT
            ![l].read[Selects[n]] = committed,
            ![l].done = IF n = Len(Selects) THEN 0 ELSE n,
            ![l].at = IF n = Len(Selects) THEN "writing" ELSE "reading"]
  /\ UNCHANGED <<now, committed, dict, loadedAt, queue, call, whole, cancels>>

(* One assignment of a dict.                                               *)
Write(l) ==
  /\ loader[l].at = "writing"
  /\ loader[l].done < Len(Writes)
  /\ LET d == Writes[loader[l].done + 1]
     IN  dict' = [dict EXCEPT ![d] = Part(loader[l].read, d)]
  /\ loader' = [loader EXCEPT ![l].done = @ + 1]
  /\ UNCHANGED <<now, committed, loadedAt, queue, call, whole, cancels>>

(* A thread ends; to_thread's future wakes the task that awaits it, if it  *)
(* still does.                                                             *)
Ended(l) ==
  IF loader[l].owner = Nobody
  THEN [loader EXCEPT ![l] = Stopped]
  ELSE [loader EXCEPT ![l].at = "ended"]

(* The last statement of _load: _loaded_at = now.                          *)
Finish(l) ==
  /\ loader[l].at = "writing"
  /\ loader[l].done = Len(Writes)
  /\ loadedAt' = now
  /\ whole' = loader[l].read
  /\ loader' = Ended(l)
  /\ UNCHANGED <<now, committed, dict, queue, call, cancels>>

(* The database raises inside _load: nothing has been written yet.         *)
LoadFails(l) ==
  /\ loader[l].at \in {"lookup", "reading"}
  /\ loader' = Ended(l)
  /\ UNCHANGED <<now, committed, dict, loadedAt, queue, call, whole, cancels>>

(* The event loop resumes the task: it releases the lock and returns the   *)
(* dicts, or propagates the loader's exception.                            *)
Resume(t) ==
  /\ call[t] = "loading"
  /\ \E l \in Slot :
       /\ loader[l].at = "ended" /\ loader[l].owner = t
       /\ loader' = [loader EXCEPT ![l] = Stopped]
  /\ call' = [call EXCEPT ![t] = "idle"]
  /\ Leave(t)
  /\ UNCHANGED <<now, committed, dict, loadedAt, whole, cancels>>

(* Mutant: a cancelled caller does not give up the lock.                   *)
CancelKeepsLock(t) ==
  /\ call[t] # "idle"
  /\ cancels < MaxCancels
  /\ cancels' = cancels + 1
  /\ call' = [call EXCEPT ![t] = "idle"]
  /\ loader' = [l \in Slot |->
                  IF loader[l].at = "stopped" \/ loader[l].owner # t THEN loader[l]
                  ELSE IF loader[l].at = "ended" THEN Stopped
                  ELSE [loader[l] EXCEPT !.owner = Nobody]]
  /\ UNCHANGED <<now, committed, dict, loadedAt, queue, whole>>

(* The client of a task disconnects: the task is cancelled, the lock (or   *)
(* its place in the queue) is given up, and its thread runs on.            *)
Cancel(t) ==
  /\ call[t] # "idle"
  /\ cancels < MaxCancels
  /\ cancels' = cancels + 1
  /\ call' = [call EXCEPT ![t] = "idle"]
  /\ Leave(t)
  /\ loader' = [l \in Slot |->
                  IF loader[l].at = "stopped" \/ loader[l].owner # t THEN loader[l]
                  ELSE IF loader[l].at = "ended" THEN Stopped
                  ELSE [loader[l] EXCEPT !.owner = Nobody]]
  /\ UNCHANGED <<now, committed, dict, loadedAt, whole>>

(* The ingestion commits new schedule data (Fetcher.do_upserts).           *)
Commit ==
  /\ committed < MaxVersion
  /\ committed' = committed + 1
  /\ UNCHANGED <<now, dict, loadedAt, queue, call, loader, whole, cancels>>

Tick ==
  /\ now < MaxTime
  /\ now' = now + 1
  /\ UNCHANGED <<committed, dict, loadedAt, queue, call, loader, whole, cancels>>

Thread(l) == Lookup(l) \/ Read(l) \/ Write(l) \/ Finish(l) \/ LoadFails(l)
Get(t) == EnterFresh(t) \/ EnterStale(t) \/ Resume(t)

Next ==
  \/ \E t \in Task : CallFresh(t) \/ Call(t) \/ Get(t) \/ Cancel(t)
  \/ \E l \in Slot : Thread(l)
  \/ Commit
  \/ Tick

(* Threads run, and the event loop resumes every coroutine that is ready.  *)
Fairness ==
  /\ \A t \in Task : WF_vars(Get(t))
  /\ \A l \in Slot : WF_vars(Thread(l))

Spec == Init /\ [][Next]_vars /\ Fairness

-----------------------------------------------------------------------------

Versions(tables) == [tables -> 0..MaxVersion]
Load == [at : {"lookup", "reading", "writing", "ended"}, owner : Task \cup {Nobody},
         read : Versions(Table), done : Nat]

(* The types of the state.                                                 *)
TypeOK ==
  /\ now \in 0..MaxTime /\ committed \in 0..MaxVersion /\ cancels \in 0..MaxCancels
  /\ DOMAIN dict = Dict /\ \A d \in Dict : dict[d] \in Versions(BuiltFrom[d])
  /\ loadedAt \in {NotLoaded} \cup 0..now
  /\ queue \in Seq(Task)
  /\ call \in [Task -> {"idle", "waiting", "loading"}]
  /\ loader \in [Slot -> {Stopped} \cup Load]
  /\ whole \in Versions(Table)

(* A fresh cache is what one load wrote, whole: get() on a fresh cache     *)
(* takes no lock, so a caller would otherwise see some dicts of one load   *)
(* and some of another.  Only when no caller was cancelled: see Cancel.    *)
FreshIsWhole ==
  cancels = 0 /\ IsFresh =>
    /\ \A d \in Dict : dict[d] = Part(whole, d)
    /\ \A l \in Slot : loader[l].at \in {"stopped", "ended"}

(* No dict goes back to older schedule data, unless the thread of a        *)
(* cancelled caller is still running.                                      *)
NeverOlder ==
  [][cancels = 0 => \A d \in Dict, tbl \in Table :
       tbl \in BuiltFrom[d] => dict'[d][tbl] >= dict[d][tbl]]_vars

(* A stale cache does not stampede the database: the lock lets one load    *)
(* run, whatever the number of callers, plus one per cancelled caller.     *)
NoStampede == Cardinality({l \in Slot : loader[l].at \in {"lookup", "reading", "writing"}})
                <= 1 + cancels

(* Every get() returns or raises, although loads fail and callers are      *)
(* cancelled while others wait behind them.                                *)
GetReturns == \A t \in Task : (call[t] # "idle") ~> (call[t] = "idle")
=============================================================================
