------------------------ MODULE ScheduleCache_proofs -------------------------
(***************************************************************************)
(* Proofs about ScheduleCache, for every set of callers, every order of    *)
(* SELECTs and of assignments, and every dependence of the dicts on the    *)
(* tables: the lock has one holder, each thread that somebody awaits       *)
(* belongs to it, and so the threads are bounded and, while nobody is      *)
(* cancelled, a fresh cache is whole and its data only move forward.       *)
(***************************************************************************)
EXTENDS ScheduleCache, FiniteSetTheorems, SequenceTheorems, TLAPS

(* `rest` is the queue q without its i-th entry, the others in order.      *)
Without(rest, q, i) ==
  /\ rest \in Seq(Task)
  /\ Len(rest) = Len(q) - 1
  /\ \A j \in 1..(Len(q) - 1) : rest[j] = IF j < i THEN q[j] ELSE q[j + 1]

(* What RemoveAt leaves of a queue.                                        *)
LEMMA RemovedEntry ==
  ASSUME NEW q \in Seq(Task), NEW i \in 1..Len(q)
  PROVE  Without(RemoveAt(q, i), q, i)
<1> DEFINE front == SubSeq(q, 1, i - 1)
           back == SubSeq(q, i + 1, Len(q))
<1>1. front \in Seq(Task) /\ Len(front) = i - 1 /\ \A j \in 1..(i - 1) : front[j] = q[j]
  OBVIOUS
<1>2. /\ back \in Seq(Task) /\ Len(back) = Len(q) - i
      /\ \A j \in 1..(Len(q) - i) : back[j] = q[i + j]
  OBVIOUS
<1>3. /\ front \o back \in Seq(Task)
      /\ Len(front \o back) = Len(front) + Len(back)
      /\ \A j \in 1..(Len(front) + Len(back)) :
           (front \o back)[j] = IF j <= Len(front) THEN front[j] ELSE back[j - Len(front)]
  BY <1>1, <1>2, ConcatProperties
<1> HIDE DEF front, back
<1>4. \A j \in 1..(Len(q) - 1) : (front \o back)[j] = IF j < i THEN q[j] ELSE q[j + 1]
  BY <1>1, <1>2, <1>3
<1>5. RemoveAt(q, i) = front \o back
  BY DEF RemoveAt, front, back
<1>6. QED BY <1>1, <1>2, <1>3, <1>4, <1>5 DEF Without

(* A task that leaves the lock or its queue removes one entry of its own.  *)
LEMMA EntryLeft ==
  ASSUME TypeOK, NEW t \in Task, Leave(t)
  PROVE  \E i \in 1..Len(queue) : queue[i] = t /\ Without(queue', queue, i)
BY RemovedEntry DEF Leave, TypeOK

-----------------------------------------------------------------------------

(* A new thread, and a thread after its last statement.                    *)
Started(t) == [at |-> "lookup", owner |-> t, read |-> Nothing, done |-> 0]

(* The fields of a thread's record.                                        *)
LEMMA LoadFields ==
  ASSUME NEW r \in Load
  PROVE  /\ r.at \in {"lookup", "reading", "writing", "ended"}
         /\ r.owner \in Task \cup {Nobody} /\ r.read \in Versions(Table) /\ r.done \in Nat
BY DEF Load

(* The updates of a thread's record that the steps make.                   *)
LEMMA LoadUpdates ==
  ASSUME NEW r \in Load
  PROVE  /\ [r EXCEPT !.owner = Nobody] \in Load
         /\ \A n \in Nat : [r EXCEPT !.done = n] \in Load
         /\ \A a \in {"lookup", "reading", "writing", "ended"} : [r EXCEPT !.at = a] \in Load
         /\ \A v \in Versions(Table), n \in Nat, a \in {"reading", "writing"} :
              [r EXCEPT !.read = v, !.done = n, !.at = a] \in Load
BY DEF Load

LEMMA LoaderTypes ==
  ASSUME TypeOK
  PROVE  /\ Nothing \in Versions(Table)
         /\ \A t \in Task : Started(t) \in Load
         /\ \A l \in Slot : loader[l].at # "stopped" => loader[l] \in Load
         /\ Stopped \notin Load
         /\ \A l \in Slot : loader[l] \in Load => Ended(l) \in [Slot -> {Stopped} \cup Load]
<1> USE LoadAssumption
<1>1. Nothing \in Versions(Table)
  BY DEF Nothing, Versions
<1>2. \A t \in Task : Started(t) \in Load
  BY <1>1 DEF Started, Load
<1>3. \A l \in Slot : loader[l].at # "stopped" => loader[l] \in Load
  BY DEF TypeOK, Stopped
<1>4. Stopped \notin Load
  BY DEF Stopped, Load
<1>5. ASSUME NEW l \in Slot, loader[l] \in Load
      PROVE  Ended(l) \in [Slot -> {Stopped} \cup Load]
  <2>1. CASE loader[l].owner = Nobody
    BY <2>1 DEF Ended, TypeOK
  <2>2. CASE loader[l].owner # Nobody
    <3>1. [loader[l] EXCEPT !.at = "ended"] \in Load
      BY <1>5 DEF Load
    <3>2. Ended(l) = [loader EXCEPT ![l] = [loader[l] EXCEPT !.at = "ended"]]
      BY <2>2 DEF Ended, TypeOK
    <3>3. QED BY <3>1, <3>2 DEF TypeOK
  <2>3. QED BY <2>1, <2>2
<1>6. QED BY <1>1, <1>2, <1>3, <1>4, <1>5

(* Every step keeps the types.                                             *)
LEMMA TypeStep ==
  ASSUME TypeOK, [Next]_vars
  PROVE  TypeOK'
<1> USE LoadAssumption DEF TypeOK
<1>1. ASSUME NEW t \in Task, Call(t)
      PROVE  TypeOK'
  BY <1>1 DEF Call
<1>2. ASSUME NEW t \in Task, Leave(t)
      PROVE  queue' \in Seq(Task)
  BY <1>2, EntryLeft DEF Without
<1>3. ASSUME NEW t \in Task, EnterFresh(t)
      PROVE  TypeOK'
  <2>1. call' \in [Task -> {"idle", "waiting", "loading"}]
    BY <1>3 DEF EnterFresh
  <2>2. queue' \in Seq(Task)
    BY <1>2, <1>3 DEF EnterFresh
  <2>3. QED BY <1>3, <2>1, <2>2 DEF EnterFresh
<1>4. ASSUME NEW t \in Task, EnterStale(t)
      PROVE  TypeOK'
  <2>1. loader' \in [Slot -> {Stopped} \cup Load]
    <3>1. PICK l \in Slot : loader' = [loader EXCEPT ![l] = Started(t)]
      BY <1>4 DEF EnterStale, Started, Running
    <3>2. Started(t) \in Load
      BY LoaderTypes
    <3>3. QED BY <3>1, <3>2
  <2>2. QED BY <1>4, <2>1 DEF EnterStale
<1>5. ASSUME NEW t \in Task, Resume(t)
      PROVE  TypeOK'
  <2>1. queue' \in Seq(Task)
    BY <1>2, <1>5 DEF Resume
  <2>2. loader' \in [Slot -> {Stopped} \cup Load]
    BY <1>5 DEF Resume
  <2>3. QED BY <1>5, <2>1, <2>2 DEF Resume
<1>6. ASSUME NEW t \in Task, Cancel(t)
      PROVE  TypeOK'
  <2>1. queue' \in Seq(Task)
    BY <1>2, <1>6 DEF Cancel
  <2>2. loader' \in [Slot -> {Stopped} \cup Load]
    <3>1. \A l \in Slot : loader[l] \in Load => [loader[l] EXCEPT !.owner = Nobody] \in Load
      BY LoadUpdates
    <3>2. \A l \in Slot : loader[l].at # "stopped" => loader[l] \in Load
      BY LoaderTypes
    <3>3. QED BY <1>6, <3>1, <3>2 DEF Cancel
  <2>3. QED BY <1>6, <2>1, <2>2 DEF Cancel
<1>7. ASSUME NEW l \in Slot, Thread(l)
      PROVE  TypeOK'
  <2>1. loader[l] \in Load
    <3>1. loader[l].at # "stopped"
      BY <1>7 DEF Thread, Lookup, Read, Write, Finish, LoadFails
    <3>2. QED BY <3>1, LoaderTypes
  <2>2. CASE Lookup(l)
    <3>1. \A a \in {"writing", "reading"} : [loader[l] EXCEPT !.at = a] \in Load
      BY <2>1, LoadUpdates
    <3>2. loader' \in [Slot -> {Stopped} \cup Load]
      BY <2>2, <3>1 DEF Lookup
    <3>3. QED BY <2>2, <3>2 DEF Lookup
  <2>3. CASE Read(l)
    <3> DEFINE n == loader[l].done + 1
               v == [loader[l].read EXCEPT ![Selects[n]] = committed]
               m == IF n = Len(Selects) THEN 0 ELSE n
               a == IF n = Len(Selects) THEN "writing" ELSE "reading"
               new == [loader[l] EXCEPT !.read = v, !.done = m, !.at = a]
    <3>1. new \in Load
      <4>1. v \in Versions(Table)
        BY <2>1, LoadFields DEF Versions
      <4>2. m \in Nat /\ a \in {"reading", "writing"}
        <5>1. loader[l].done \in Nat
          BY <2>1, LoadFields
        <5>2. QED BY <5>1
      <4> HIDE DEF v, m, a
      <4>3. QED BY <2>1, <4>1, <4>2, LoadUpdates
    <3>2. loader' = [loader EXCEPT ![l] = new]
      BY <2>1, <2>3 DEF Read, Load
    <3> HIDE DEF new
    <3>3. loader' \in [Slot -> {Stopped} \cup Load]
      BY <3>1, <3>2
    <3>4. QED BY <2>3, <3>3 DEF Read
  <2>4. CASE Write(l)
    <3>1. [loader[l] EXCEPT !.done = @ + 1] \in Load
      <4>1. loader[l].done + 1 \in Nat
        <5>1. loader[l].done \in Nat
          BY <2>1, LoadFields
        <5>2. QED BY <5>1
      <4>2. QED BY <2>1, <4>1, LoadUpdates
    <3>2. loader' \in [Slot -> {Stopped} \cup Load]
      BY <2>4, <3>1 DEF Write
    <3>3. \A d \in Dict : Part(loader[l].read, d) \in Versions(BuiltFrom[d])
      BY <2>1 DEF Load, Versions, Part
    <3>4. DOMAIN dict' = Dict /\ \A d \in Dict : dict'[d] \in Versions(BuiltFrom[d])
      BY <2>4, <3>3 DEF Write
    <3>5. QED BY <2>4, <3>2, <3>4 DEF Write, Versions
  <2>5. CASE Finish(l)
    <3>1. loader' \in [Slot -> {Stopped} \cup Load]
      BY <2>1, <2>5, LoaderTypes DEF Finish
    <3>2. whole' \in Versions(Table)
      BY <2>1, <2>5 DEF Finish, Load
    <3>3. QED BY <2>5, <3>1, <3>2 DEF Finish
  <2>6. CASE LoadFails(l)
    <3>1. loader' \in [Slot -> {Stopped} \cup Load]
      BY <2>1, <2>6, LoaderTypes DEF LoadFails
    <3>2. QED BY <2>6, <3>1 DEF LoadFails
  <2>7. QED BY <1>7, <2>2, <2>3, <2>4, <2>5, <2>6 DEF Thread
<1>8. CASE Commit
  <2>1. committed' \in 0..MaxVersion
    BY <1>8 DEF Commit
  <2>2. QED BY <1>8, <2>1 DEF Commit
<1>9. CASE Tick
  <2>1. now' \in 0..MaxTime /\ loadedAt' \in {NotLoaded} \cup 0..now'
    BY <1>9 DEF Tick
  <2>2. QED BY <1>9, <2>1 DEF Tick
<1>10. CASE UNCHANGED vars
  BY <1>10 DEF vars
<1>11. QED
  BY <1>1, <1>3, <1>4, <1>5, <1>6, <1>7, <1>8, <1>9, <1>10
     DEF Next, Get, CallFresh

-----------------------------------------------------------------------------

(* No task is twice in the queue, only calling tasks are in it, and only   *)
(* its head, the holder of the lock, loads.                                *)
LockInv ==
  /\ \A i, j \in 1..Len(queue) : queue[i] = queue[j] => i = j
  /\ \A i \in 1..Len(queue) : call[queue[i]] # "idle"
  /\ \A t \in Task : call[t] = "loading" => queue # << >> /\ queue[1] = t

Alive(l) == loader[l].at # "stopped"
Owned(l) == Alive(l) /\ loader[l].owner # Nobody
Orphan(l) == Alive(l) /\ loader[l].owner = Nobody

(* At most one thread is awaited, by the task that holds the lock; every   *)
(* other one was left behind by a cancelled task.                          *)
ThreadInv ==
  /\ \A l \in Slot : Owned(l) => call[loader[l].owner] = "loading"
  /\ \A k, l \in Slot : Owned(k) /\ Owned(l) => k = l
  /\ \A l \in Slot : Orphan(l) => loader[l].at # "ended"
  /\ Cardinality({l \in Slot : Orphan(l)}) <= cancels

Active(l) == loader[l].at \in {"lookup", "reading", "writing"}

(* What a thread has read is at least as new as what the dicts hold.       *)
NotOlderThan(l, tbl) ==
  \A d \in Dict : tbl \in BuiltFrom[d] => loader[l].read[tbl] >= dict[d][tbl]

(* Nothing anywhere is newer than the database.                            *)
VersionInv ==
  /\ \A l \in Slot : Alive(l) => \A tbl \in Table : loader[l].read[tbl] <= committed
  /\ \A d \in Dict : \A tbl \in BuiltFrom[d] : dict[d][tbl] <= committed

(* How far a thread has got, and what it has read and written by then.     *)
Progress(l) ==
  /\ Active(l) => ~ IsFresh
  /\ loader[l].at = "lookup" => loader[l].done = 0
  /\ loader[l].at = "reading" =>
       /\ loader[l].done < Len(Selects)
       /\ \A i \in 1..loader[l].done : NotOlderThan(l, Selects[i])
  /\ loader[l].at = "writing" =>
       /\ \A tbl \in Table : NotOlderThan(l, tbl)
       /\ \A i \in 1..loader[l].done : i <= Len(Writes) =>
            dict[Writes[i]] = Part(loader[l].read, Writes[i])

(* While nobody was cancelled: the dicts are those of the last load unless *)
(* a thread is writing them.                                               *)
DataInv ==
  cancels = 0 =>
    /\ \A l \in Slot : Progress(l)
    /\ (\A l \in Slot : loader[l].at # "writing") => \A d \in Dict : dict[d] = Part(whole, d)

IInv == TypeOK /\ LockInv /\ ThreadInv /\ VersionInv /\ DataInv

-----------------------------------------------------------------------------

(* A task that returns or is cancelled gives up the lock or its place.     *)
LEMMA LeaveLock ==
  ASSUME TypeOK, LockInv, NEW t \in Task, Leave(t), call' = [call EXCEPT ![t] = "idle"]
  PROVE  LockInv'
<1>1. PICK i \in 1..Len(queue) : queue[i] = t /\ Without(queue', queue, i)
  BY EntryLeft
<1> DEFINE From(j) == IF j < i THEN j ELSE j + 1
<1>2. /\ Len(queue) \in Nat /\ Len(queue') = Len(queue) - 1
      /\ queue \in Seq(Task) /\ queue' \in Seq(Task)
      /\ \A j \in 1..Len(queue') : queue'[j] = queue[From(j)] /\ From(j) \in 1..Len(queue)
                                   /\ From(j) # i
  BY <1>1 DEF Without, TypeOK
<1>3. \A j, k \in 1..Len(queue') : queue'[j] = queue'[k] => j = k
  BY <1>2 DEF LockInv
<1>4. \A j \in 1..Len(queue') : queue'[j] # t /\ queue'[j] \in Task
  BY <1>1, <1>2 DEF LockInv
<1>5. \A j \in 1..Len(queue') : call'[queue'[j]] # "idle"
  BY <1>2, <1>4 DEF LockInv, TypeOK
<1>6. ASSUME NEW u \in Task, call'[u] = "loading"
      PROVE  queue' # << >> /\ queue'[1] = u
  <2>1. u # t /\ call[u] = "loading"
    BY <1>6 DEF TypeOK
  <2>2. queue[1] = u /\ i # 1
    BY <1>1, <2>1 DEF LockInv
  <2>3. Len(queue') >= 1 /\ queue'[1] = queue[1]
    BY <1>1, <1>2, <2>2
  <2>4. QED BY <1>2, <2>2, <2>3
<1>7. QED BY <1>3, <1>5, <1>6 DEF LockInv

(* The lock has one holder and it alone loads.                             *)
LEMMA LockStep ==
  ASSUME TypeOK, LockInv, [Next]_vars
  PROVE  LockInv'
<1>1. ASSUME NEW t \in Task, Call(t)
      PROVE  LockInv'
  <2>1. \A i \in 1..Len(queue) : queue[i] \in Task /\ queue[i] # t
    BY <1>1 DEF Call, LockInv, TypeOK
  <2>2. /\ Len(queue) \in Nat /\ Len(queue') = Len(queue) + 1
        /\ \A i \in 1..Len(queue) : queue'[i] = queue[i]
        /\ queue'[Len(queue) + 1] = t
    BY <1>1 DEF Call, TypeOK
  <2>3. \A u \in Task : call'[u] = IF u = t THEN "waiting" ELSE call[u]
    BY <1>1 DEF Call, TypeOK
  <2>4. \A i \in 1..Len(queue') : i \in 1..Len(queue) \/ i = Len(queue) + 1
    BY <2>2
  <2>5. \A i, j \in 1..Len(queue') : queue'[i] = queue'[j] => i = j
    BY <2>1, <2>2, <2>4 DEF LockInv
  <2>6. \A i \in 1..Len(queue') : call'[queue'[i]] # "idle"
    BY <2>1, <2>2, <2>3, <2>4 DEF LockInv
  <2>7. ASSUME NEW u \in Task, call'[u] = "loading"
        PROVE  queue' # << >> /\ queue'[1] = u
    <3>1. queue # << >> /\ queue[1] = u
      BY <2>3, <2>7 DEF LockInv
    <3>2. 1 \in 1..Len(queue) /\ queue' \in Seq(Task)
      BY <3>1, <1>1 DEF Call, TypeOK
    <3>3. QED BY <2>2, <3>1, <3>2
  <2>8. QED BY <2>5, <2>6, <2>7 DEF LockInv
<1>2. ASSUME NEW t \in Task, EnterFresh(t) \/ Resume(t) \/ Cancel(t)
      PROVE  LockInv'
  BY <1>2, LeaveLock DEF EnterFresh, Resume, Cancel
<1>3. ASSUME NEW t \in Task, EnterStale(t)
      PROVE  LockInv'
  <2>1. queue # << >> /\ queue[1] = t /\ queue' = queue
    BY <1>3 DEF EnterStale, Owner, TypeOK
  <2>2. \A u \in Task : call'[u] = IF u = t THEN "loading" ELSE call[u]
    BY <1>3 DEF EnterStale, TypeOK
  <2>3. \A i \in 1..Len(queue) : queue[i] \in Task
    BY DEF TypeOK
  <2>4. QED BY <2>1, <2>2, <2>3 DEF LockInv
<1>4. CASE UNCHANGED <<queue, call>>
  BY <1>4 DEF LockInv
<1>5. QED
  BY <1>1, <1>2, <1>3, <1>4
     DEF Next, Get, CallFresh, Thread, Lookup, Read, Write, Finish, LoadFails, Commit, Tick, vars

-----------------------------------------------------------------------------

(* What a step of a thread changes.                                        *)
LEMMA ThreadFrame ==
  ASSUME TypeOK, NEW l \in Slot, Thread(l)
  PROVE  /\ loader[l] \in Load /\ Active(l)
         /\ UNCHANGED <<now, committed, queue, call, cancels>>
         /\ \A k \in Slot : k # l => loader'[k] = loader[k]
         /\ loader'[l].at # "stopped" => loader'[l].owner = loader[l].owner
         /\ loader'[l].at = "ended" => loader[l].owner # Nobody
<1>1. loader[l] \in Load /\ Active(l)
  <2>1. Active(l)
    BY DEF Thread, Lookup, Read, Write, Finish, LoadFails, Active
  <2>2. QED BY <2>1, LoaderTypes DEF Active
<1>2. UNCHANGED <<now, committed, queue, call, cancels>>
  BY DEF Thread, Lookup, Read, Write, Finish, LoadFails
<1>3. CASE loader' = Ended(l)
  BY <1>1, <1>2, <1>3 DEF Ended, TypeOK, Load, Stopped
<1>4. CASE Lookup(l) \/ Read(l) \/ Write(l)
  BY <1>1, <1>2, <1>4 DEF TypeOK, Load, Lookup, Read, Write, Active
<1>5. QED BY <1>3, <1>4 DEF Thread, Finish, LoadFails

(* A step that leaves nobody behind adds no orphan.                        *)
LEMMA FewerOrphans ==
  ASSUME TypeOK, ThreadInv, cancels' = cancels,
         \A l \in Slot : Orphan(l)' => Orphan(l)
  PROVE  Cardinality({l \in Slot : Orphan(l)'}) <= cancels'
<1> DEFINE A == {l \in Slot : Orphan(l)}
           B == {l \in Slot : Orphan(l)'}
<1>1. IsFiniteSet(Slot)
  BY FS_Interval, LoadAssumption DEF Slot
<1>2. IsFiniteSet(A) /\ B \in SUBSET A
  BY <1>1, FS_Subset
<1>3. IsFiniteSet(B) /\ Cardinality(B) <= Cardinality(A)
  BY <1>2, FS_Subset
<1>4. Cardinality(A) \in Nat /\ Cardinality(B) \in Nat /\ Cardinality(A) <= cancels
  BY <1>2, <1>3, FS_CardinalityType DEF ThreadInv
<1> HIDE DEF A, B
<1>5. Cardinality(B) <= cancels'
  BY <1>3, <1>4 DEF TypeOK
<1>6. QED BY <1>5 DEF B

(* A cancelled caller leaves at most the one thread that it awaited.       *)
LEMMA CancelAddsOneOrphan ==
  ASSUME TypeOK, ThreadInv, NEW t \in Task, Cancel(t)
  PROVE  Cardinality({l \in Slot : Orphan(l)'}) <= cancels'
<1> DEFINE A == {l \in Slot : Orphan(l)}
           B == {l \in Slot : Orphan(l)'}
<1>1. IsFiniteSet(Slot)
  BY FS_Interval, LoadAssumption DEF Slot
<1>2. IsFiniteSet(A) /\ Cardinality(A) \in Nat /\ Cardinality(A) <= cancels
  BY <1>1, FS_Subset, FS_CardinalityType DEF ThreadInv
<1>3. \A l \in Slot : Orphan(l)' => Orphan(l) \/ (Owned(l) /\ loader[l].owner = t)
  <2> SUFFICES ASSUME NEW l \in Slot, Orphan(l)', ~ Orphan(l)
               PROVE  Owned(l) /\ loader[l].owner = t
    OBVIOUS
  <2>1. loader'[l] = IF loader[l].at = "stopped" \/ loader[l].owner # t THEN loader[l]
                     ELSE IF loader[l].at = "ended" THEN Stopped
                     ELSE [loader[l] EXCEPT !.owner = Nobody]
    BY DEF Cancel
  <2>2. loader'[l] # loader[l]
    BY DEF Orphan, Alive
  <2>3. QED BY <2>1, <2>2, LoadAssumption DEF Owned, Alive
<1>4. \E x : B \subseteq A \cup {x}
  <2>1. CASE \E l \in Slot : Owned(l) /\ loader[l].owner = t
    <3>1. PICK x \in Slot : Owned(x)
      BY <2>1
    <3>2. B \subseteq A \cup {x}
      BY <1>3, <3>1 DEF ThreadInv
    <3>3. QED BY <3>2
  <2>2. CASE ~ \E l \in Slot : Owned(l) /\ loader[l].owner = t
    BY <1>3, <2>2
  <2>3. QED BY <2>1, <2>2
<1> HIDE DEF A, B
<1>5. PICK x : B \subseteq A \cup {x}
  BY <1>4
<1>6. /\ IsFiniteSet(A \cup {x})
      /\ Cardinality(A \cup {x}) = IF x \in A THEN Cardinality(A) ELSE Cardinality(A) + 1
  BY <1>2, FS_AddElement
<1>7. B \in SUBSET (A \cup {x})
  BY <1>5
<1>8. IsFiniteSet(B) /\ Cardinality(B) <= Cardinality(A \cup {x})
  BY <1>6, <1>7, FS_Subset
<1>9. Cardinality(B) \in Nat
  BY <1>8, FS_CardinalityType
<1>10. Cardinality(B) <= cancels + 1
  BY <1>2, <1>6, <1>8, <1>9 DEF TypeOK
<1>11. QED BY <1>10 DEF B, Cancel

(* The threads keep to their owners.                                       *)
LEMMA ThreadStep ==
  ASSUME TypeOK, LockInv, ThreadInv, [Next]_vars
  PROVE  ThreadInv'
<1>1. ASSUME UNCHANGED <<loader, call, cancels>>
      PROVE  ThreadInv'
  <2>1. \A l \in Slot : (Owned(l)' <=> Owned(l)) /\ (Orphan(l)' <=> Orphan(l))
    BY <1>1 DEF Owned, Orphan, Alive
  <2>2. QED BY <1>1, <2>1, FewerOrphans DEF ThreadInv
<1>2. ASSUME NEW t \in Task, Call(t) \/ EnterFresh(t)
      PROVE  ThreadInv'
  <2>1. /\ loader' = loader /\ cancels' = cancels
        /\ call[t] # "loading" /\ \A u \in Task : u # t => call'[u] = call[u]
    BY <1>2 DEF Call, EnterFresh, TypeOK
  <2>2. \A l \in Slot : (Owned(l)' <=> Owned(l)) /\ (Orphan(l)' <=> Orphan(l))
    BY <2>1 DEF Owned, Orphan, Alive
  <2>3. \A l \in Slot : Owned(l) => loader[l].owner \in Task
    BY LoaderTypes, LoadFields DEF Owned, Alive
  <2>4. QED BY <2>1, <2>2, <2>3, FewerOrphans DEF ThreadInv
<1>3. ASSUME NEW t \in Task, EnterStale(t)
      PROVE  ThreadInv'
  <2>1. PICK l \in Slot : loader[l].at = "stopped" /\ loader' = [loader EXCEPT ![l] = Started(t)]
    BY <1>3 DEF EnterStale, Started, Running
  <2>2. /\ cancels' = cancels
        /\ \A u \in Task : call'[u] = IF u = t THEN "loading" ELSE call[u]
        /\ call[t] = "waiting" /\ queue[1] = t
    BY <1>3 DEF EnterStale, TypeOK, Owner
  <2>3. \A k \in Slot : k # l => loader'[k] = loader[k]
    BY <2>1 DEF TypeOK
  <2>4. loader'[l] = Started(t) /\ loader'[l].at = "lookup" /\ loader'[l].owner = t /\ t # Nobody
    BY <2>1, LoadAssumption DEF TypeOK, Started
  <2>5. \A k \in Slot : ~ Owned(k)
    <3> SUFFICES ASSUME NEW k \in Slot, Owned(k) PROVE FALSE
      OBVIOUS
    <3>1. loader[k].owner \in Task /\ call[loader[k].owner] = "loading"
      BY LoaderTypes, LoadFields DEF Owned, Alive, ThreadInv
    <3>2. loader[k].owner = t
      BY <3>1, <2>2 DEF LockInv
    <3>3. QED BY <3>1, <3>2, <2>2
  <2>6. \A k \in Slot : Owned(k)' => k = l
    BY <2>3, <2>5 DEF Owned, Alive
  <2>7. \A k \in Slot : Orphan(k)' => Orphan(k)
    BY <2>3, <2>4 DEF Orphan, Alive
  <2>8. \A k \in Slot : Orphan(k)' => loader'[k].at # "ended"
    BY <2>3, <2>4, <2>7 DEF Orphan, Alive, ThreadInv
  <2>9. \A k \in Slot : Owned(k)' => call'[loader'[k].owner] = "loading"
    BY <2>2, <2>4, <2>6
  <2>10. QED BY <2>2, <2>6, <2>7, <2>8, <2>9, FewerOrphans DEF ThreadInv
<1>4. ASSUME NEW t \in Task, Resume(t)
      PROVE  ThreadInv'
  <2>1. PICK l \in Slot : /\ loader[l].at = "ended" /\ loader[l].owner = t
                          /\ loader' = [loader EXCEPT ![l] = Stopped]
    BY <1>4 DEF Resume
  <2>2. cancels' = cancels /\ t # Nobody /\ Owned(l)
    BY <1>4, <2>1, LoadAssumption DEF Resume, Owned, Alive
  <2>3. \A k \in Slot : k # l => loader'[k] = loader[k]
    BY <2>1 DEF TypeOK
  <2>4. loader'[l].at = "stopped"
    BY <2>1 DEF TypeOK, Stopped
  <2>5. \A k \in Slot : ~ Owned(k)'
    BY <2>2, <2>3, <2>4 DEF Owned, Alive, ThreadInv
  <2>6. \A k \in Slot : Orphan(k)' => Orphan(k) /\ k # l
    BY <2>3, <2>4 DEF Orphan, Alive
  <2>7. \A k \in Slot : Orphan(k)' => loader'[k].at # "ended"
    BY <2>3, <2>6 DEF Orphan, Alive, ThreadInv
  <2>8. QED BY <2>2, <2>5, <2>6, <2>7, FewerOrphans DEF ThreadInv
<1>5. ASSUME NEW t \in Task, Cancel(t)
      PROVE  ThreadInv'
  <2>1. \A l \in Slot :
          loader'[l] = IF loader[l].at = "stopped" \/ loader[l].owner # t THEN loader[l]
                       ELSE IF loader[l].at = "ended" THEN Stopped
                       ELSE [loader[l] EXCEPT !.owner = Nobody]
    BY <1>5 DEF Cancel
  <2>2. \A l \in Slot : loader[l].at # "stopped" /\ loader[l].at # "ended" =>
          /\ [loader[l] EXCEPT !.owner = Nobody].owner = Nobody
          /\ [loader[l] EXCEPT !.owner = Nobody].at = loader[l].at
    BY LoaderTypes DEF Load
  <2>3. \A l \in Slot : Owned(l)' =>
          Owned(l) /\ loader'[l].owner = loader[l].owner /\ loader[l].owner # t
    <3> SUFFICES ASSUME NEW l \in Slot, Owned(l)'
                 PROVE  Owned(l) /\ loader'[l].owner = loader[l].owner /\ loader[l].owner # t
      OBVIOUS
    <3>1. CASE loader[l].at = "stopped"
      BY <2>1, <3>1 DEF Owned, Alive
    <3>2. CASE loader[l].at # "stopped" /\ loader[l].owner # t
      BY <2>1, <3>2 DEF Owned, Alive
    <3>3. CASE loader[l].at # "stopped" /\ loader[l].owner = t
      <4>1. loader'[l] = Stopped \/ loader'[l] = [loader[l] EXCEPT !.owner = Nobody]
        BY <2>1, <3>3
      <4>2. loader'[l].at # "stopped" /\ loader'[l].owner # Nobody
        BY DEF Owned, Alive
      <4>3. loader'[l] # Stopped
        BY <4>2 DEF Stopped
      <4>4. CASE loader[l].at = "ended"
        BY <2>1, <3>3, <4>3, <4>4
      <4>5. CASE loader[l].at # "ended"
        <5>1. [loader[l] EXCEPT !.owner = Nobody].owner = Nobody
          BY <2>2, <3>3, <4>5
        <5>2. QED BY <4>1, <4>2, <4>3, <5>1
      <4>6. QED BY <4>4, <4>5
    <3>4. QED BY <3>1, <3>2, <3>3
  <2>4. \A l \in Slot : Owned(l) => loader[l].owner \in Task
    BY LoaderTypes, LoadFields DEF Owned, Alive
  <2>5. \A u \in Task : u # t => call'[u] = call[u]
    BY <1>5 DEF Cancel, TypeOK
  <2>6. \A l \in Slot : Owned(l)' => call'[loader'[l].owner] = "loading"
    BY <2>3, <2>4, <2>5 DEF ThreadInv
  <2>7. \A k, l \in Slot : Owned(k)' /\ Owned(l)' => k = l
    BY <2>3 DEF ThreadInv
  <2>8. \A l \in Slot : Orphan(l)' => loader'[l].at # "ended"
    <3> SUFFICES ASSUME NEW l \in Slot, Orphan(l)'
                 PROVE  loader'[l].at # "ended"
      OBVIOUS
    <3>1. CASE loader'[l] = loader[l]
      BY <3>1 DEF Orphan, Alive, ThreadInv
    <3>2. CASE loader'[l] # loader[l]
      <4>1. CASE loader[l].at = "ended"
        <5>1. loader'[l] = Stopped
          BY <2>1, <3>2, <4>1
        <5>2. QED BY <5>1 DEF Stopped
      <4>2. CASE loader[l].at # "ended"
        <5>1. loader[l].at # "stopped" /\ loader'[l] = [loader[l] EXCEPT !.owner = Nobody]
          BY <2>1, <3>2, <4>2
        <5>2. QED BY <2>2, <4>2, <5>1
      <4>3. QED BY <4>1, <4>2
    <3>3. QED BY <3>1, <3>2
  <2>9. QED BY <1>5, <2>6, <2>7, <2>8, CancelAddsOneOrphan DEF ThreadInv
<1>6. ASSUME NEW l \in Slot, Thread(l)
      PROVE  ThreadInv'
  <2>1. /\ Active(l) /\ UNCHANGED <<call, cancels>>
        /\ \A k \in Slot : k # l => loader'[k] = loader[k]
        /\ loader'[l].at # "stopped" => loader'[l].owner = loader[l].owner
        /\ loader'[l].at = "ended" => loader[l].owner # Nobody
    BY <1>6, ThreadFrame
  <2>2. Alive(l)
    BY <2>1 DEF Active, Alive
  <2>3. \A k \in Slot : Owned(k)' => Owned(k) /\ loader'[k].owner = loader[k].owner
    BY <2>1, <2>2 DEF Owned, Alive
  <2>4. \A k \in Slot : Orphan(k)' => Orphan(k)
    BY <2>1, <2>2 DEF Orphan, Alive
  <2>5. \A k \in Slot : Orphan(k)' => loader'[k].at # "ended"
    BY <2>1, <2>4 DEF Orphan, Alive, ThreadInv
  <2>6. QED BY <2>1, <2>3, <2>4, <2>5, FewerOrphans DEF ThreadInv
<1>7. QED
  BY <1>1, <1>2, <1>3, <1>4, <1>5, <1>6
     DEF Next, Get, CallFresh, Commit, Tick, vars

-----------------------------------------------------------------------------

(* The versions that the types allow are natural numbers.                  *)
LEMMA VersionTypes ==
  ASSUME TypeOK
  PROVE  /\ committed \in Nat /\ MaxVersion \in Nat
         /\ \A l \in Slot : Alive(l) => \A tbl \in Table : loader[l].read[tbl] \in Nat
         /\ \A d \in Dict : \A tbl \in BuiltFrom[d] : tbl \in Table /\ dict[d][tbl] \in Nat
<1>1. MaxVersion \in Nat /\ committed \in Nat
  BY LoadAssumption DEF TypeOK
<1>2. ASSUME NEW l \in Slot, Alive(l), NEW tbl \in Table
      PROVE  loader[l].read[tbl] \in Nat
  <2>1. loader[l].read \in Versions(Table)
    BY <1>2, LoaderTypes, LoadFields DEF Alive
  <2>2. QED BY <2>1, <1>1 DEF Versions
<1>3. ASSUME NEW d \in Dict, NEW tbl \in BuiltFrom[d]
      PROVE  tbl \in Table /\ dict[d][tbl] \in Nat
  <2>1. dict[d] \in Versions(BuiltFrom[d])
    BY DEF TypeOK
  <2>2. QED BY <2>1, <1>1, LoadAssumption DEF Versions
<1>4. QED BY <1>1, <1>2, <1>3

(* A step in which no thread reads and no dict is written.                 *)
LEMMA SameReads ==
  ASSUME TypeOK, TypeOK', VersionInv, dict' = dict, committed' >= committed,
         \A l \in Slot : Alive(l)' => Alive(l) /\ loader'[l].read = loader[l].read
  PROVE  VersionInv'
<1>1. committed \in Nat /\ committed' \in Nat
  BY LoadAssumption DEF TypeOK
<1>2. ASSUME NEW l \in Slot, Alive(l)', NEW tbl \in Table
      PROVE  loader'[l].read[tbl] <= committed'
  <2>1. loader[l].read[tbl] \in Nat /\ loader[l].read[tbl] <= committed
    BY <1>2, VersionTypes DEF VersionInv
  <2>2. QED BY <1>1, <1>2, <2>1
<1>3. ASSUME NEW d \in Dict, NEW tbl \in BuiltFrom[d]
      PROVE  dict'[d][tbl] <= committed'
  <2>1. dict[d][tbl] \in Nat /\ dict[d][tbl] <= committed
    BY VersionTypes DEF VersionInv
  <2>2. QED BY <1>1, <2>1
<1>4. QED BY <1>2, <1>3 DEF VersionInv

(* Every step that reads or writes takes what the database had.            *)
LEMMA VersionStep ==
  ASSUME TypeOK, TypeOK', VersionInv, [Next]_vars
  PROVE  VersionInv'
<1>0. committed \in Nat
  BY VersionTypes
<1>1. CASE UNCHANGED <<loader, committed, dict>>
  BY <1>0, <1>1, SameReads DEF Alive
<1>2. ASSUME NEW t \in Task, EnterStale(t)
      PROVE  VersionInv'
  <2>1. PICK l \in Slot : loader' = [loader EXCEPT ![l] = Started(t)]
    BY <1>2 DEF EnterStale, Started, Running
  <2>2. dict' = dict /\ committed' = committed
    BY <1>2 DEF EnterStale
  <2>3. \A k \in Slot : k # l => loader'[k] = loader[k]
    BY <2>1 DEF TypeOK
  <2>4. \A tbl \in Table : loader'[l].read[tbl] = 0
    BY <2>1 DEF TypeOK, Started, Nothing
  <2>5. \A k \in Slot : Alive(k)' => \A tbl \in Table : loader'[k].read[tbl] <= committed'
    BY <1>0, <2>2, <2>3, <2>4 DEF VersionInv, Alive
  <2>6. QED BY <2>2, <2>5 DEF VersionInv
<1>3. ASSUME NEW t \in Task, Resume(t)
      PROVE  VersionInv'
  <2>1. PICK l \in Slot : loader' = [loader EXCEPT ![l] = Stopped]
    BY <1>3 DEF Resume
  <2>2. \A k \in Slot : Alive(k)' => Alive(k) /\ loader'[k].read = loader[k].read
    BY <2>1 DEF TypeOK, Alive, Stopped
  <2>3. QED BY <1>0, <1>3, <2>2, SameReads DEF Resume
<1>4. ASSUME NEW t \in Task, Cancel(t)
      PROVE  VersionInv'
  <2>1. ASSUME NEW k \in Slot, Alive(k)'
        PROVE  Alive(k) /\ loader'[k].read = loader[k].read
    <3>1. loader'[k] = IF loader[k].at = "stopped" \/ loader[k].owner # t THEN loader[k]
                       ELSE IF loader[k].at = "ended" THEN Stopped
                       ELSE [loader[k] EXCEPT !.owner = Nobody]
      BY <1>4 DEF Cancel
    <3>2. CASE loader'[k] = loader[k]
      BY <2>1, <3>2 DEF Alive
    <3>3. CASE loader'[k] = Stopped
      BY <2>1, <3>3 DEF Alive, Stopped
    <3>4. CASE loader[k].at # "stopped" /\ loader'[k] = [loader[k] EXCEPT !.owner = Nobody]
      <4>1. loader[k] \in Load
        BY <3>4, LoaderTypes
      <4>2. QED BY <3>4, <4>1 DEF Alive, Load
    <3>5. QED BY <3>1, <3>2, <3>3, <3>4
  <2>2. QED BY <1>0, <1>4, <2>1, SameReads DEF Cancel
<1>5. ASSUME NEW l \in Slot, Lookup(l) \/ Finish(l) \/ LoadFails(l)
      PROVE  VersionInv'
  <2>1. loader[l] \in Load
    BY <1>5, LoaderTypes DEF Lookup, Finish, LoadFails
  <2>2. loader' = [loader EXCEPT ![l] = Stopped]
        \/ \E a \in {"writing", "reading", "ended"} : loader' = [loader EXCEPT ![l].at = a]
    BY <1>5 DEF Lookup, Finish, LoadFails, Ended
  <2>3. \A k \in Slot : k # l => loader'[k] = loader[k]
    BY <2>2 DEF TypeOK
  <2>4. Alive(l)
    BY <1>5 DEF Lookup, Finish, LoadFails, Alive
  <2>5. Alive(l)' => loader'[l].read = loader[l].read
    BY <2>1, <2>2 DEF TypeOK, Alive, Stopped, Load
  <2>6. QED BY <1>0, <1>5, <2>3, <2>4, <2>5, SameReads DEF Lookup, Finish, LoadFails, Alive
<1>6. ASSUME NEW l \in Slot, Read(l)
      PROVE  VersionInv'
  <2>1. loader[l] \in Load /\ Alive(l)
    BY <1>6, LoaderTypes DEF Read, Alive
  <2>2. dict' = dict /\ committed' = committed
        /\ \A k \in Slot : k # l => loader'[k] = loader[k]
    BY <1>6 DEF Read, TypeOK
  <2>3. loader'[l].read = [loader[l].read EXCEPT ![Selects[loader[l].done + 1]] = committed]
    BY <1>6, <2>1 DEF Read, TypeOK, Load
  <2>4. \A tbl \in Table : loader'[l].read[tbl] <= committed
    <3>1. loader[l].read \in Versions(Table)
      BY <2>1, LoadFields
    <3>2. \A tbl \in Table : loader'[l].read[tbl] \in {committed, loader[l].read[tbl]}
      BY <2>3, <3>1 DEF Versions
    <3>3. QED BY <1>0, <2>1, <3>2 DEF VersionInv
  <2>5. QED BY <2>2, <2>4 DEF VersionInv, Alive
<1>7. ASSUME NEW l \in Slot, Write(l)
      PROVE  VersionInv'
  <2>1. loader[l] \in Load /\ Alive(l)
    BY <1>7, LoaderTypes DEF Write, Alive
  <2>2. \A k \in Slot : loader'[k].read = loader[k].read /\ loader'[k].at = loader[k].at
    BY <1>7, <2>1 DEF Write, TypeOK, Load
  <2>3. \A d \in Dict : dict'[d] \in {dict[d], Part(loader[l].read, d)}
    BY <1>7 DEF Write, TypeOK
  <2>4. \A d \in Dict : \A tbl \in BuiltFrom[d] : dict'[d][tbl] <= committed
    BY <2>1, <2>3, VersionTypes DEF VersionInv, Part
  <2>5. committed' = committed
    BY <1>7 DEF Write
  <2>6. QED BY <2>2, <2>4, <2>5 DEF VersionInv, Alive
<1>8. CASE Commit
  BY <1>0, <1>8, SameReads DEF Commit, Alive
<1>9. QED
  BY <1>1, <1>2, <1>3, <1>4, <1>5, <1>6, <1>7, <1>8
     DEF Next, Get, Thread, CallFresh, Call, EnterFresh, Tick, vars

-----------------------------------------------------------------------------

(* While nobody was cancelled there is one thread at most.                 *)
LEMMA OneThread ==
  ASSUME TypeOK, ThreadInv, cancels = 0
  PROVE  \A k, l \in Slot : Alive(k) /\ Alive(l) => k = l
<1> DEFINE A == {l \in Slot : Orphan(l)}
<1>0. IsFiniteSet(Slot)
  BY FS_Interval, LoadAssumption DEF Slot
<1>1. IsFiniteSet(A)
  BY <1>0, FS_Subset
<1>2. Cardinality(A) = 0
  BY <1>1, FS_CardinalityType DEF ThreadInv
<1>3. A = {}
  BY <1>1, <1>2, FS_EmptySet
<1>4. \A l \in Slot : Alive(l) => Owned(l)
  BY <1>3 DEF Owned, Orphan
<1>5. QED BY <1>4 DEF ThreadInv

(* A step of the only thread: the others are stopped and have no progress. *)
LEMMA OthersIdle ==
  ASSUME TypeOK, ThreadInv, cancels = 0, NEW l \in Slot, Thread(l)
  PROVE  \A k \in Slot : k # l => Progress(k)' /\ loader[k].at = "stopped"
                                               /\ loader'[k].at = "stopped"
<1> SUFFICES ASSUME NEW k \in Slot, k # l
             PROVE  Progress(k)' /\ loader[k].at = "stopped" /\ loader'[k].at = "stopped"
  OBVIOUS
<1>1. Alive(l) /\ loader'[k] = loader[k]
  BY ThreadFrame DEF Active, Alive
<1>2. loader[k].at = "stopped" /\ loader'[k].at = "stopped"
  BY <1>1, OneThread DEF Alive
<1>3. QED BY <1>2 DEF Progress, Active

(* Reading a further table keeps what was read before.                     *)
LEMMA ReadKeepsData ==
  ASSUME TypeOK, VersionInv, NEW l \in Slot, Read(l), Progress(l)
  PROVE  Progress(l)' /\ UNCHANGED <<dict, whole>> /\ loader[l].at # "writing"
<1> DEFINE n == loader[l].done + 1
<1>1. /\ loader[l] \in Load /\ loader[l].at = "reading" /\ ~ IsFresh
      /\ loader[l].done \in Nat /\ loader[l].done < Len(Selects)
      /\ \A i \in 1..loader[l].done : NotOlderThan(l, Selects[i])
  <2>1. loader[l] \in Load /\ loader[l].at = "reading"
    BY LoaderTypes DEF Read
  <2>2. QED BY <2>1, LoadFields DEF Progress, Active
<1>2. /\ dict' = dict /\ whole' = whole /\ now' = now /\ loadedAt' = loadedAt
      /\ loader'[l].read = [loader[l].read EXCEPT ![Selects[n]] = committed]
      /\ loader'[l].done = IF n = Len(Selects) THEN 0 ELSE n
      /\ loader'[l].at = IF n = Len(Selects) THEN "writing" ELSE "reading"
  BY <1>1 DEF Read, TypeOK, Load
<1>3. ASSUME NEW i \in 1..n
      PROVE  NotOlderThan(l, Selects[i])'
  <2> SUFFICES ASSUME NEW d \in Dict, Selects[i] \in BuiltFrom[d]
               PROVE  loader'[l].read[Selects[i]] >= dict[d][Selects[i]]
    BY <1>2 DEF NotOlderThan
  <2>1. /\ dict[d][Selects[i]] \in Nat /\ dict[d][Selects[i]] <= committed
        /\ committed \in Nat /\ Selects[i] \in Table
    BY VersionTypes DEF VersionInv
  <2>2. loader[l].read \in Versions(Table)
    BY <1>1, LoadFields
  <2>3. CASE Selects[i] = Selects[n]
    BY <1>2, <2>1, <2>2, <2>3 DEF Versions
  <2>4. CASE Selects[i] # Selects[n]
    <3>1. i \in 1..loader[l].done
      BY <1>1, <2>4
    <3>2. loader'[l].read[Selects[i]] = loader[l].read[Selects[i]]
      BY <1>2, <2>1, <2>2, <2>4 DEF Versions
    <3>3. QED BY <1>1, <3>1, <3>2 DEF NotOlderThan
  <2>5. QED BY <2>3, <2>4
<1>4. ~ IsFresh'
  BY <1>1, <1>2 DEF IsFresh
<1>5. CASE n = Len(Selects)
  <2>1. \A tbl \in Table : \E i \in 1..n : tbl = Selects[i]
    BY <1>5 DEF Table, Elements
  <2>2. \A tbl \in Table : NotOlderThan(l, tbl)'
    BY <1>3, <2>1
  <2>3. loader'[l].at = "writing" /\ loader'[l].done = 0
    BY <1>2, <1>5
  <2>4. \A i \in 1..loader'[l].done : FALSE
    BY <2>3
  <2>5. QED BY <1>1, <1>2, <1>4, <2>2, <2>3, <2>4 DEF Progress
<1>6. CASE n # Len(Selects)
  <2>1. loader'[l].at = "reading" /\ loader'[l].done = n
    BY <1>2, <1>6
  <2>2. n < Len(Selects)
    BY <1>1, <1>6, LoadAssumption
  <2> HIDE DEF n
  <2>3. QED BY <1>1, <1>2, <1>3, <1>4, <2>1, <2>2 DEF Progress
<1>7. QED BY <1>5, <1>6

(* Writing a dict makes it what was read, which is not older.              *)
LEMMA WriteKeepsData ==
  ASSUME TypeOK, NEW l \in Slot, Write(l), Progress(l)
  PROVE  /\ Progress(l)' /\ loader'[l].at = "writing"
         /\ \A d \in Dict : \A tbl \in BuiltFrom[d] : dict'[d][tbl] >= dict[d][tbl]
<1> DEFINE n == loader[l].done + 1
<1>1. /\ loader[l] \in Load /\ loader[l].at = "writing" /\ ~ IsFresh
      /\ loader[l].done \in Nat /\ n \in 1..Len(Writes)
      /\ \A tbl \in Table : NotOlderThan(l, tbl)
      /\ \A i \in 1..loader[l].done : i <= Len(Writes) =>
           dict[Writes[i]] = Part(loader[l].read, Writes[i])
  <2>1. loader[l] \in Load /\ loader[l].at = "writing" /\ loader[l].done < Len(Writes)
    BY LoaderTypes DEF Write
  <2>2. loader[l].done \in Nat
    BY <2>1, LoadFields
  <2>3. n \in 1..Len(Writes)
    BY <2>1, <2>2, LoadAssumption
  <2>4. QED BY <2>1, <2>2, <2>3 DEF Progress, Active
<1>2. /\ now' = now /\ loadedAt' = loadedAt
      /\ dict' = [dict EXCEPT ![Writes[n]] = Part(loader[l].read, Writes[n])]
      /\ loader'[l].read = loader[l].read
      /\ loader'[l].done = n
      /\ loader'[l].at = "writing"
  BY <1>1 DEF Write, TypeOK, Load
<1>3. /\ dict'[Writes[n]] = Part(loader[l].read, Writes[n])
      /\ \A d \in Dict : d # Writes[n] => dict'[d] = dict[d]
  BY <1>1, <1>2 DEF TypeOK, Dict, Elements
<1>4. \A i \in 1..n : i <= Len(Writes) => dict'[Writes[i]] = Part(loader'[l].read, Writes[i])
  <2> SUFFICES ASSUME NEW i \in 1..n, i <= Len(Writes)
               PROVE  dict'[Writes[i]] = Part(loader[l].read, Writes[i])
    BY <1>2
  <2>1. CASE Writes[i] = Writes[n]
    BY <1>3, <2>1
  <2>2. CASE Writes[i] # Writes[n]
    <3>1. i \in 1..loader[l].done /\ Writes[i] \in Dict
      BY <1>1, <2>2 DEF Dict, Elements
    <3>2. QED BY <1>1, <1>3, <2>2, <3>1
  <2>3. QED BY <2>1, <2>2
<1>5. ASSUME NEW d \in Dict, NEW tbl \in BuiltFrom[d]
      PROVE  dict'[d][tbl] >= dict[d][tbl] /\ loader[l].read[tbl] >= dict'[d][tbl]
  <2>1. /\ dict[d][tbl] \in Nat /\ tbl \in Table /\ loader[l].read[tbl] \in Nat
        /\ loader[l].read[tbl] >= dict[d][tbl]
    BY <1>1, VersionTypes DEF NotOlderThan, Alive
  <2>2. CASE d = Writes[n]
    BY <1>3, <2>1, <2>2 DEF Part
  <2>3. CASE d # Writes[n]
    BY <1>3, <2>1, <2>3
  <2>4. QED BY <2>2, <2>3
<1>6. \A tbl \in Table : NotOlderThan(l, tbl)'
  BY <1>2, <1>5 DEF NotOlderThan
<1>7. ~ IsFresh'
  BY <1>1, <1>2 DEF IsFresh
<1> HIDE DEF n
<1>8. QED BY <1>2, <1>4, <1>5, <1>6, <1>7 DEF Progress

(* The last statement of a load leaves the dicts it has written, whole.    *)
LEMMA FinishKeepsData ==
  ASSUME TypeOK, ThreadInv, cancels = 0, NEW l \in Slot, Finish(l), Progress(l)
  PROVE  Progress(l)' /\ dict' = dict /\ \A d \in Dict : dict[d] = Part(whole', d)
<1>1. /\ loader[l] \in Load /\ loader[l].at = "writing" /\ loader[l].done = Len(Writes)
      /\ \A i \in 1..loader[l].done : i <= Len(Writes) =>
           dict[Writes[i]] = Part(loader[l].read, Writes[i])
  BY LoaderTypes DEF Finish, Progress
<1>2. loader'[l].at \in {"stopped", "ended"}
  BY <1>1 DEF Finish, Ended, TypeOK, Load, Stopped
<1>3. Progress(l)'
  BY <1>2 DEF Progress, Active
<1>4. ASSUME NEW d \in Dict
      PROVE  dict[d] = Part(whole', d)
  <2>1. PICK i \in 1..Len(Writes) : d = Writes[i]
    BY DEF Dict, Elements
  <2>2. whole' = loader[l].read
    BY DEF Finish
  <2>3. dict[Writes[i]] = Part(loader[l].read, Writes[i])
    BY <1>1, LoadAssumption
  <2>4. QED BY <2>1, <2>2, <2>3
<1>5. QED BY <1>3, <1>4 DEF Finish

(* Looking up the system starts the reading, or the emptying of the dicts. *)
LEMMA LookupKeepsData ==
  ASSUME TypeOK, VersionInv, NEW l \in Slot, Lookup(l), Progress(l),
         \A d \in Dict : dict[d] = Part(whole, d)
  PROVE  Progress(l)' /\ UNCHANGED <<dict, whole>>
<1>1. /\ loader[l] \in Load /\ loader[l].at = "lookup" /\ loader[l].done = 0 /\ ~ IsFresh
  BY LoaderTypes DEF Lookup, Progress, Active
<1>2. /\ UNCHANGED <<now, loadedAt, dict, whole>>
      /\ loader'[l].read = loader[l].read /\ loader'[l].done = 0
      /\ loader'[l].at = IF ByName /\ committed = 0 THEN "writing" ELSE "reading"
  BY <1>1 DEF Lookup, TypeOK, Load
<1>3. ~ IsFresh'
  BY <1>1, <1>2 DEF IsFresh
<1>4. \A i \in 1..loader'[l].done : FALSE
  BY <1>2
<1>5. CASE loader'[l].at = "reading"
  <2>1. 0 < Len(Selects)
    BY LoadAssumption
  <2>2. QED BY <1>2, <1>3, <1>4, <1>5, <2>1 DEF Progress
<1>6. CASE loader'[l].at = "writing" /\ committed = 0
  <2>1. ASSUME NEW d \in Dict, NEW tbl \in BuiltFrom[d]
        PROVE  loader[l].read[tbl] >= dict[d][tbl]
    <3>1. /\ dict[d][tbl] \in Nat /\ dict[d][tbl] <= 0 /\ tbl \in Table
      BY <1>6, VersionTypes DEF VersionInv
    <3>2. loader[l].read[tbl] \in Nat
      BY <1>1, <3>1, VersionTypes DEF Alive
    <3>3. QED BY <3>1, <3>2
  <2>2. \A tbl \in Table : NotOlderThan(l, tbl)'
    BY <1>2, <2>1 DEF NotOlderThan
  <2>3. QED BY <1>2, <1>3, <1>4, <1>6, <2>2 DEF Progress
<1>7. QED BY <1>2, <1>5, <1>6

(* A step that no thread takes and that makes no cache fresh.              *)
LEMMA FrameKeepsData ==
  ASSUME DataInv, cancels = 0, UNCHANGED <<dict, whole>>, IsFresh' => IsFresh,
         \A l \in Slot :
           \/ loader'[l] = loader[l]
           \/ /\ loader[l].at # "writing"
              /\ \/ loader'[l].at = "stopped"
                 \/ /\ loader'[l].at = "lookup" /\ loader'[l].done = 0
                    /\ ~ IsFresh'
  PROVE  DataInv'
<1>1. ASSUME NEW l \in Slot
      PROVE  Progress(l)'
  <2>1. CASE loader'[l] = loader[l]
    <3>1. \A tbl : NotOlderThan(l, tbl) => NotOlderThan(l, tbl)'
      BY <2>1 DEF NotOlderThan
    <3>2. Progress(l)
      BY DEF DataInv
    <3>3. QED BY <2>1, <3>1, <3>2 DEF Progress, Active
  <2>2. CASE loader'[l].at = "stopped"
    BY <2>2 DEF Progress, Active
  <2>3. CASE loader'[l].at = "lookup" /\ loader'[l].done = 0 /\ ~ IsFresh'
    BY <2>3 DEF Progress, Active
  <2>4. QED BY <2>1, <2>2, <2>3
<1>2. (\A l \in Slot : loader'[l].at # "writing") => \A l \in Slot : loader[l].at # "writing"
  BY DEF DataInv
<1>3. QED BY <1>1, <1>2 DEF DataInv

(* While nobody is cancelled, the threads keep the dicts as described.     *)
LEMMA DataStep ==
  ASSUME TypeOK, TypeOK', ThreadInv, VersionInv, DataInv, [Next]_vars
  PROVE  DataInv'
<1> SUFFICES ASSUME cancels' = 0
             PROVE  DataInv'
  BY DEF DataInv
<1>1. \A t \in Task : ~ Cancel(t)
  BY DEF Cancel, TypeOK
<1>2. cancels = 0
  BY <1>1 DEF Next, Get, Thread, CallFresh, Call, EnterFresh, EnterStale, Resume,
              Lookup, Read, Write, Finish, LoadFails, Commit, Tick, vars
<1>3. CASE UNCHANGED <<loader, dict, whole, loadedAt>> /\ (now' = now \/ now' = now + 1)
  <2>1. TTL \in Nat /\ now \in Nat /\ loadedAt \in Int
    BY LoadAssumption DEF TypeOK, NotLoaded
  <2>2. loadedAt' = loadedAt /\ (now' = now \/ now' = now + 1)
    BY <1>3
  <2>3. IsFresh' => IsFresh
    <3>1. now' - loadedAt < TTL => now - loadedAt < TTL
      BY <2>1, <2>2
    <3>2. QED BY <2>2, <3>1 DEF IsFresh
  <2>4. \A l \in Slot : loader'[l] = loader[l]
    BY <1>3
  <2>5. dict' = dict /\ whole' = whole
    BY <1>3
  <2>6. QED BY <1>2, <2>3, <2>4, <2>5, FrameKeepsData
<1>4. ASSUME NEW t \in Task, EnterStale(t)
      PROVE  DataInv'
  <2>1. PICK l \in Slot : loader[l].at = "stopped" /\ loader' = [loader EXCEPT ![l] = Started(t)]
    BY <1>4 DEF EnterStale, Started, Running
  <2>2. ~ IsFresh /\ UNCHANGED <<dict, whole, now, loadedAt>>
    BY <1>4 DEF EnterStale
  <2>3. \A k \in Slot : k # l => loader'[k] = loader[k]
    BY <2>1 DEF TypeOK
  <2>4. loader'[l].at = "lookup" /\ loader'[l].done = 0
    BY <2>1 DEF TypeOK, Started
  <2>5. IsFresh' => IsFresh
    BY <2>2 DEF IsFresh
  <2>6. QED BY <1>2, <2>1, <2>2, <2>3, <2>4, <2>5, FrameKeepsData
<1>5. ASSUME NEW t \in Task, Resume(t)
      PROVE  DataInv'
  <2>1. PICK l \in Slot : loader[l].at = "ended" /\ loader' = [loader EXCEPT ![l] = Stopped]
    BY <1>5 DEF Resume
  <2>2. UNCHANGED <<dict, whole, now, loadedAt>>
    BY <1>5 DEF Resume
  <2>3. \A k \in Slot : loader'[k] = loader[k] \/ (loader'[k].at = "stopped" /\ k = l)
    BY <2>1 DEF TypeOK, Stopped
  <2>4. IsFresh' => IsFresh
    BY <2>2 DEF IsFresh
  <2>5. QED BY <1>2, <2>1, <2>2, <2>3, <2>4, FrameKeepsData
<1>6. ASSUME NEW l \in Slot, Thread(l)
      PROVE  DataInv'
  <2>1. \A k \in Slot : k # l => Progress(k)' /\ loader[k].at = "stopped"
                                              /\ loader'[k].at = "stopped"
    BY <1>2, <1>6, OthersIdle
  <2>2. Progress(l)
    BY <1>2 DEF DataInv
  <2>3. loader[l].at # "writing" => \A d \in Dict : dict[d] = Part(whole, d)
    BY <1>2, <2>1 DEF DataInv
  <2>4. CASE Lookup(l)
    <3>1. \A d \in Dict : dict[d] = Part(whole, d)
      BY <2>3, <2>4 DEF Lookup
    <3>2. Progress(l)' /\ UNCHANGED <<dict, whole>>
      BY <2>2, <2>4, <3>1, LookupKeepsData
    <3>3. QED BY <2>1, <3>1, <3>2 DEF DataInv, Part
  <2>5. CASE Read(l)
    <3>1. Progress(l)' /\ UNCHANGED <<dict, whole>> /\ loader[l].at # "writing"
      BY <2>2, <2>5, ReadKeepsData
    <3>2. QED BY <2>1, <2>3, <3>1 DEF DataInv, Part
  <2>6. CASE Write(l)
    <3>1. Progress(l)' /\ loader'[l].at = "writing"
      BY <2>2, <2>6, WriteKeepsData
    <3>2. QED BY <2>1, <3>1 DEF DataInv
  <2>7. CASE Finish(l)
    <3>1. Progress(l)' /\ dict' = dict /\ \A d \in Dict : dict[d] = Part(whole', d)
      BY <1>2, <2>2, <2>7, FinishKeepsData
    <3>2. QED BY <2>1, <3>1 DEF DataInv, Part
  <2>8. CASE LoadFails(l)
    <3>1. UNCHANGED <<dict, whole>> /\ loader[l].at # "writing"
      BY <2>8 DEF LoadFails
    <3>2. loader'[l].at \in {"stopped", "ended"}
      BY <2>8, LoaderTypes DEF LoadFails, Ended, TypeOK, Load, Stopped
    <3>3. Progress(l)'
      BY <3>2 DEF Progress, Active
    <3>4. QED BY <2>1, <2>3, <3>1, <3>3 DEF DataInv, Part
  <2>9. QED BY <1>6, <2>4, <2>5, <2>6, <2>7, <2>8 DEF Thread
<1>7. QED
  BY <1>1, <1>3, <1>4, <1>5, <1>6
     DEF Next, Get, CallFresh, Call, EnterFresh, Commit, Tick, vars

-----------------------------------------------------------------------------

(* The inductive invariant holds at every step.                            *)
THEOREM LoadInvariant == Spec => []IInv
<1>1. Init => IInv
  <2> SUFFICES ASSUME Init PROVE IInv
    OBVIOUS
  <2>1. TypeOK
    BY LoadAssumption DEF Init, TypeOK, Versions, Part, Nothing, NotLoaded
  <2>2. LockInv
    BY DEF Init, LockInv
  <2>3. \A l \in Slot : ~ Alive(l) /\ Progress(l)
    BY DEF Init, Alive, Progress, Active, Stopped
  <2>4. {l \in Slot : Orphan(l)} = {}
    BY <2>3 DEF Orphan
  <2>5. Cardinality({l \in Slot : Orphan(l)}) = 0
    BY <2>4, FS_EmptySet
  <2>6. ThreadInv
    BY <2>3, <2>5 DEF ThreadInv, Owned, Orphan, Init
  <2>7. VersionInv
    BY <2>3, LoadAssumption DEF VersionInv, Init, Part, Nothing
  <2>8. DataInv
    BY <2>3 DEF DataInv, Init, Part
  <2>9. QED BY <2>1, <2>2, <2>6, <2>7, <2>8 DEF IInv
<1>2. IInv /\ [Next]_vars => IInv'
  BY TypeStep, LockStep, ThreadStep, VersionStep, DataStep DEF IInv
<1>3. QED BY <1>1, <1>2, PTL DEF Spec

(* The types hold, for every instance of the constants.                    *)
THEOREM LoadTypeCorrect == Spec => []TypeOK
<1>1. IInv => TypeOK
  BY DEF IInv
<1>2. QED BY <1>1, LoadInvariant, PTL

(* get() on a fresh cache, which takes no lock, never sees the dicts of    *)
(* two loads, as long as no caller was cancelled.                          *)
THEOREM FreshCacheIsWhole == Spec => []FreshIsWhole
<1>1. IInv => FreshIsWhole
  <2> SUFFICES ASSUME IInv, cancels = 0, IsFresh
               PROVE  /\ \A d \in Dict : dict[d] = Part(whole, d)
                      /\ \A l \in Slot : loader[l].at \in {"stopped", "ended"}
    BY DEF FreshIsWhole
  <2>1. \A l \in Slot : ~ Active(l)
    BY DEF IInv, DataInv, Progress
  <2>2. \A l \in Slot : loader[l].at \in {"stopped", "lookup", "reading", "writing", "ended"}
    BY LoaderTypes, LoadFields DEF IInv
  <2>3. \A l \in Slot : loader[l].at \in {"stopped", "ended"}
    BY <2>1, <2>2 DEF Active
  <2>4. QED BY <2>3 DEF IInv, DataInv
<1>2. QED BY <1>1, LoadInvariant, PTL

(* The database sees one load at a time, plus one per cancelled caller,    *)
(* whatever the number of callers that find the cache stale.               *)
THEOREM LoadsAreBounded == Spec => []NoStampede
<1>1. IInv => NoStampede
  <2> SUFFICES ASSUME IInv
               PROVE  Cardinality({l \in Slot : Active(l)}) <= 1 + cancels
    BY DEF NoStampede, Active
  <2> DEFINE A == {l \in Slot : Orphan(l)}
             B == {l \in Slot : Active(l)}
  <2>1. IsFiniteSet(Slot)
    BY FS_Interval, LoadAssumption DEF Slot
  <2>2. IsFiniteSet(A) /\ Cardinality(A) \in Nat /\ Cardinality(A) <= cancels
    BY <2>1, FS_Subset, FS_CardinalityType DEF IInv, ThreadInv
  <2>3. \E x : B \subseteq A \cup {x}
    <3>1. \A l \in Slot : Active(l) => Orphan(l) \/ Owned(l)
      BY DEF Active, Orphan, Owned, Alive
    <3>2. CASE \E l \in Slot : Owned(l)
      BY <3>1, <3>2 DEF IInv, ThreadInv
    <3>3. CASE ~ \E l \in Slot : Owned(l)
      BY <3>1, <3>3
    <3>4. QED BY <3>2, <3>3
  <2> HIDE DEF A, B
  <2>4. PICK x : B \subseteq A \cup {x}
    BY <2>3
  <2>5. /\ IsFiniteSet(A \cup {x})
        /\ Cardinality(A \cup {x}) = IF x \in A THEN Cardinality(A) ELSE Cardinality(A) + 1
    BY <2>2, FS_AddElement
  <2>6. B \in SUBSET (A \cup {x})
    BY <2>4
  <2>7. IsFiniteSet(B) /\ Cardinality(B) <= Cardinality(A \cup {x})
    BY <2>5, <2>6, FS_Subset
  <2>8. Cardinality(B) \in Nat /\ cancels \in Nat
    BY <2>7, FS_CardinalityType DEF IInv, TypeOK
  <2>9. Cardinality(B) <= 1 + cancels
    BY <2>2, <2>5, <2>7, <2>8
  <2>10. QED BY <2>9 DEF B
<1>2. QED BY <1>1, LoadInvariant, PTL

(* No dict goes back to older data while nobody is cancelled.              *)
THEOREM DataMoveForward == Spec => NeverOlder
<1> DEFINE Forward ==
      cancels = 0 => \A d \in Dict, tbl \in Table :
        tbl \in BuiltFrom[d] => dict'[d][tbl] >= dict[d][tbl]
<1>1. IInv /\ [Next]_vars => Forward
  <2> SUFFICES ASSUME IInv, [Next]_vars, cancels = 0, NEW d \in Dict, NEW tbl \in BuiltFrom[d]
               PROVE  dict'[d][tbl] >= dict[d][tbl]
    OBVIOUS
  <2>1. CASE dict' = dict
    <3>1. dict[d][tbl] \in Nat
      BY VersionTypes DEF IInv
    <3>2. QED BY <2>1, <3>1
  <2>2. ASSUME NEW l \in Slot, Write(l)
        PROVE  dict'[d][tbl] >= dict[d][tbl]
    <3>1. TypeOK /\ Progress(l)
      BY DEF IInv, DataInv
    <3>2. QED BY <2>2, <3>1, WriteKeepsData
  <2>3. QED
    BY <2>1, <2>2 DEF Next, Get, Thread, CallFresh, Call, EnterFresh, EnterStale, Resume,
                      Cancel, Lookup, Read, Finish, LoadFails, Commit, Tick, vars
<1>2. QED BY <1>1, LoadInvariant, PTL DEF Spec, NeverOlder
=============================================================================
