------------------------ MODULE FeedAlgorithms_proofs ------------------------
(***************************************************************************)
(* What the algorithms promise for inputs of any size, each of which is    *)
(* assumed to have the shape that its definition `...Shape` gives.         *)
(*                                                                         *)
(* A loop is a recursive function in the models; a fact about all its      *)
(* steps is proved for the least step at which it fails (UpTo, Recursion,  *)
(* LeastElement), and a selection of entries through the places it keeps   *)
(* (PlacesEnumerated, Selected).                                           *)
(***************************************************************************)
EXTENDS FeedAlgorithms, FiniteSetTheorems, WellFoundedInduction, TLAPS

Inputs == CombinedFeeds \cup LiveTrips \cup StationRows \cup TripScans \cup RowFiles
            \cup CoveredTrips \cup ViewedFeeds \cup AlertFeeds \cup DiagnosedFeeds
            \cup StationRuns

(* A call keeps its input.                                                 *)
LEMMA InputKept == Spec => [](input \in Inputs)
<1>1. Init => input \in Inputs
  BY DEF Init, Inputs
<1>2. input \in Inputs /\ [Next]_vars => (input \in Inputs)'
  BY DEF Next, vars
<1>3. QED BY <1>1, <1>2, PTL DEF Spec

-----------------------------------------------------------------------------

LEMMA LeastElement ==
  ASSUME NEW T, T \subseteq Nat, T # {}
  PROVE  \E n \in T : \A k \in T : n <= k
<1>1. PICK R : IsWellFoundedOn(R, Nat) /\ \A k, n \in Nat : <<k, n>> \in R <=> k < n
  <2>1. \A k, n \in Nat : <<k, n>> \in OpToRel(<, Nat) <=> k < n
    BY DEF OpToRel
  <2>2. QED BY <2>1, NatLessThanWellFounded
<1>2. IsWellFoundedOn(R, Nat)
  BY <1>1
<1>3. \A k, n \in Nat : <<k, n>> \in R <=> k < n
  BY <1>1, Zenon
<1>4. PICK n \in T : \A k \in T : ~ (<<k, n>> \in R)
  BY <1>2, WFMin, Zenon
<1>5. ASSUME NEW k \in T
      PROVE  n <= k
  <2>1. k \in Nat /\ n \in Nat
    OBVIOUS
  <2>2. ~ (k < n)
    BY <2>1, <1>3, <1>4, Zenon
  <2>3. QED BY <2>1, <2>2
<1>6. QED BY <1>5

(* Induction over the numbers up to m, about a set instead of a predicate. *)
LEMMA UpTo ==
  ASSUME NEW m \in Nat, NEW Good, 0 \in Good,
         \A n \in 1..m : n - 1 \in Good => n \in Good
  PROVE  \A n \in 0..m : n \in Good
<1> DEFINE Bad == {n \in 0..m : n \notin Good}
<1>1. ASSUME Bad # {} PROVE FALSE
  <2>1. Bad \subseteq Nat
    OBVIOUS
  <2>2. PICK n \in Bad : \A k \in Bad : n <= k
    <3> HIDE DEF Bad
    <3>1. QED BY <1>1, <2>1, LeastElement
  <2>3. n \in 1..m
    BY <2>2
  <2>4. n - 1 \in 0..m /\ ~ (n <= n - 1)
    BY <2>3
  <2>5. n - 1 \notin Bad
    <3> HIDE DEF Bad
    <3>1. QED BY <2>2, <2>4
  <2>6. n - 1 \in Good
    BY <2>4, <2>5
  <2>7. QED BY <2>2, <2>3, <2>6
<1>2. QED BY <1>1

(* A recursion over the numbers up to m, whose step is a function, has a   *)
(* solution.                                                               *)
Solves(f, m, V, base, step) ==
  /\ f \in [0..m -> V]
  /\ f[0] = base
  /\ \A n \in 1..m : f[n] = step[<<n, f[n - 1]>>]

LEMMA Recursion ==
  ASSUME NEW m \in Nat, NEW V, NEW base, NEW step,
         base \in V, step \in [(1..m) \X V -> V]
  PROVE  \E f : Solves(f, m, V, base, step)
<1> DEFINE Good == {k \in 0..m : \E f : Solves(f, k, V, base, step)}
<1>1. 0 \in Good
  <2>1. Solves([n \in 0..0 |-> base], 0, V, base, step)
    BY DEF Solves
  <2>2. QED BY <2>1
<1>2. ASSUME NEW k \in 1..m, k - 1 \in Good PROVE k \in Good
  <2>1. PICK f : Solves(f, k - 1, V, base, step)
    BY <1>2
  <2> DEFINE g == [n \in 0..k |-> IF n = k THEN step[<<k, f[k - 1]>>] ELSE f[n]]
  <2>2. k \in Nat /\ k > 0 /\ k - 1 \in 0..(k - 1)
    OBVIOUS
  <2>3. \A n \in 0..(k - 1) : n \in 0..k /\ n # k /\ g[n] = f[n] /\ f[n] \in V
    BY <2>1, <2>2 DEF Solves
  <2>4. f[k - 1] \in V /\ g[k] = step[<<k, f[k - 1]>>] /\ g[k] \in V
    <3>1. f[k - 1] \in V
      BY <2>2, <2>3
    <3>2. <<k, f[k - 1]>> \in (1..m) \X V
      BY <3>1
    <3>3. step[<<k, f[k - 1]>>] \in V
      BY <3>2
    <3>4. k \in 0..k
      BY <2>2
    <3>5. QED BY <3>1, <3>3, <3>4
  <2>5. g \in [0..k -> V]
    <3>1. ASSUME NEW n \in 0..k PROVE g[n] \in V
      <4>1. CASE n = k
        BY <4>1, <2>4
      <4>2. CASE n # k
        <5>1. n \in 0..(k - 1)
          BY <4>2
        <5>2. QED BY <5>1, <2>3
      <4>3. QED BY <4>1, <4>2
    <3>2. QED BY <3>1
  <2>6. g[0] = base
    <3>1. 0 \in 0..(k - 1)
      BY <2>2
    <3>2. QED BY <3>1, <2>3, <2>1 DEF Solves
  <2>7. ASSUME NEW n \in 1..k PROVE g[n] = step[<<n, g[n - 1]>>]
    <3>1. n - 1 \in 0..(k - 1)
      OBVIOUS
    <3>2. g[n - 1] = f[n - 1]
      BY <3>1, <2>3
    <3>3. CASE n = k
      BY <3>2, <3>3, <2>4
    <3>4. CASE n # k
      <4>1. n \in 1..(k - 1) /\ n \in 0..(k - 1)
        BY <3>4
      <4>2. f[n] = step[<<n, f[n - 1]>>]
        BY <4>1, <2>1 DEF Solves
      <4>3. QED BY <4>1, <4>2, <3>2, <2>3
    <3>5. QED BY <3>3, <3>4
  <2> HIDE DEF g
  <2>8. Solves(g, k, V, base, step)
    BY <2>5, <2>6, <2>7 DEF Solves
  <2>9. QED BY <2>8
<1>3. \A n \in 0..m : n \in Good
  <2> HIDE DEF Good
  <2>1. QED BY <1>1, <1>2, UpTo
<1>4. m \in Good
  BY <1>3
<1>5. QED BY <1>4

-----------------------------------------------------------------------------

(* The sequence of the places of P up to n.                                *)
Enumerates(places, P, n) ==
  /\ places \in Seq(1..n)
  /\ \A k \in DOMAIN places : places[k] \in P
  /\ \A j, k \in DOMAIN places : j < k => places[j] < places[k]
  /\ \A p \in 1..n : p \in P => \E k \in DOMAIN places : places[k] = p

LEMMA NextPlace ==
  ASSUME NEW P, NEW n \in Nat \ {0}, NEW places, Enumerates(places, P, n - 1)
  PROVE  Enumerates(IF n \in P THEN Append(places, n) ELSE places, P, n)
<1>1. /\ places \in Seq(1..(n - 1)) /\ Len(places) \in Nat /\ DOMAIN places = 1..Len(places)
      /\ \A k \in DOMAIN places : places[k] \in 1..(n - 1) /\ places[k] \in P
      /\ \A j, k \in DOMAIN places : j < k => places[j] < places[k]
      /\ \A p \in 1..(n - 1) : p \in P => \E k \in DOMAIN places : places[k] = p
  BY DEF Enumerates
<1>2. \A p \in 1..(n - 1) : p \in 1..n /\ p < n
  OBVIOUS
<1>3. CASE n \notin P
  <2>1. places \in Seq(1..n)
    BY <1>1, <1>2
  <2>2. \A p \in 1..n : p \in P => p \in 1..(n - 1)
    BY <1>3
  <2>3. QED BY <1>1, <1>3, <2>1, <2>2 DEF Enumerates
<1>4. CASE n \in P
  <2> DEFINE more == Append(places, n)
             L == Len(places)
  <2>1. /\ L \in Nat /\ DOMAIN places = 1..L /\ DOMAIN more = 1..(L + 1)
        /\ more[L + 1] = n /\ \A k \in 1..L : more[k] = places[k]
    BY <1>1
  <2>2. more \in Seq(1..n)
    <3>1. places \in Seq(1..n) /\ n \in 1..n
      BY <1>1, <1>2
    <3>2. QED BY <3>1
  <2> HIDE DEF more, L
  <2>3. \A k \in DOMAIN more : k \in 1..L \/ k = L + 1
    BY <2>1
  <2>4. \A k \in DOMAIN more : more[k] \in P
    BY <1>1, <1>4, <2>1, <2>3
  <2>5. ASSUME NEW j \in DOMAIN more, NEW k \in DOMAIN more, j < k
        PROVE  more[j] < more[k]
    <3>1. j \in 1..L
      BY <2>1, <2>5
    <3>2. CASE k \in 1..L
      BY <3>1, <3>2, <2>1, <2>5, <1>1
    <3>3. CASE k = L + 1
      BY <3>1, <3>3, <2>1, <1>1, <1>2
    <3>4. QED BY <3>2, <3>3, <2>3
  <2>6. ASSUME NEW p \in 1..n, p \in P PROVE \E k \in DOMAIN more : more[k] = p
    <3>1. CASE p = n
      BY <3>1, <2>1
    <3>2. CASE p # n
      <4>1. p \in 1..(n - 1)
        BY <3>2
      <4>2. PICK k \in DOMAIN places : places[k] = p
        BY <4>1, <2>6, <1>1
      <4>3. k \in DOMAIN more /\ more[k] = p
        BY <4>2, <2>1
      <4>4. QED BY <4>3
    <3>3. QED BY <3>1, <3>2
  <2>7. Enumerates(more, P, n)
    BY <2>2, <2>4, <2>5, <2>6 DEF Enumerates
  <2>8. QED BY <1>4, <2>7 DEF more
<1>5. QED BY <1>3, <1>4

LEMMA PlacesEnumerated ==
  ASSUME NEW m \in Nat, NEW P
  PROVE  Enumerates(PlacesIn(P, m), P, m)
<1> DEFINE V == Seq(1..m)
           step == [s \in (1..m) \X V |-> IF s[1] \in P THEN Append(s[2], s[1]) ELSE s[2]]
           Found(f) == f = [k \in 0..m |-> IF k = 0 THEN << >>
                                           ELSE IF k \in P THEN Append(f[k - 1], k)
                                           ELSE f[k - 1]]
           found == CHOOSE f : Found(f)
<1>1. \E f : Found(f)
  <2>1. step \in [(1..m) \X V -> V]
    <3>1. ASSUME NEW n \in 1..m, NEW s \in V PROVE Append(s, n) \in V
      OBVIOUS
    <3> HIDE DEF V
    <3>2. QED BY <3>1
  <2>2. << >> \in V
    OBVIOUS
  <2> HIDE DEF V
  <2>3. \A n \in 1..m, s \in V :
          step[<<n, s>>] = IF n \in P THEN Append(s, n) ELSE s
    OBVIOUS
  <2> HIDE DEF step
  <2>4. PICK f : Solves(f, m, V, << >>, step)
    BY <2>1, <2>2, Recursion
  <2> USE <2>4 DEF Solves
  <2>5. ASSUME NEW n \in 0..m
        PROVE  f[n] = IF n = 0 THEN << >>
                      ELSE IF n \in P THEN Append(f[n - 1], n)
                      ELSE f[n - 1]
    <3>1. CASE n = 0
      BY <3>1, <2>4
    <3>2. CASE n # 0
      <4>1. n \in 1..m /\ n - 1 \in 0..m
        BY <3>2
      <4>2. f[n - 1] \in V
        BY <4>1
      <4>3. QED BY <3>2, <4>1, <4>2, <2>3, <2>4
    <3>3. QED BY <3>1, <3>2
  <2>6. Found(f)
    BY <2>5
  <2> HIDE DEF Found
  <2>7. QED BY <2>6
<1>2. Found(found)
  <2> HIDE DEF Found
  <2>1. QED BY <1>1
<1>3. PlacesIn(P, m) = found[m]
  BY DEF PlacesIn
<1> HIDE DEF found
<1> DEFINE Good == {n \in 0..m : Enumerates(found[n], P, n)}
<1>4. 0 \in Good
  <2>1. found[0] = << >>
    BY <1>2
  <2>2. Enumerates(<< >>, P, 0)
    BY DEF Enumerates
  <2>3. QED BY <2>1, <2>2
<1>5. ASSUME NEW n \in 1..m, n - 1 \in Good PROVE n \in Good
  <2>1. found[n] = IF n \in P THEN Append(found[n - 1], n) ELSE found[n - 1]
    <3>1. n \in 0..m /\ n # 0
      OBVIOUS
    <3>2. QED BY <1>2, <3>1
  <2>2. Enumerates(found[n - 1], P, n - 1) /\ n \in Nat \ {0}
    BY <1>5
  <2>3. Enumerates(found[n], P, n)
    BY <2>1, <2>2, NextPlace
  <2>4. QED BY <2>3
<1>6. \A n \in 0..m : n \in Good
  <2> HIDE DEF Good
  <2>1. QED BY <1>4, <1>5, UpTo
<1>7. QED BY <1>3, <1>6

(* An entry of a selection is an entry of the sequence.                    *)
LEMMA EntriesOfPlaces ==
  ASSUME NEW seq, Len(seq) \in Nat, DOMAIN seq = 1..Len(seq), NEW P
  PROVE  LET places == PlacesIn(P, Len(seq))
         IN  /\ Enumerates(places, P, Len(seq))
             /\ DOMAIN EntriesAt(seq, P) = DOMAIN places
             /\ \A k \in DOMAIN places : /\ EntriesAt(seq, P)[k] = seq[places[k]]
                                         /\ places[k] \in DOMAIN seq /\ places[k] \in P
<1>1. Enumerates(PlacesIn(P, Len(seq)), P, Len(seq))
  BY PlacesEnumerated
<1>2. QED BY <1>1 DEF EntriesAt, Enumerates

-----------------------------------------------------------------------------

(* The tables are sets of pairs, the crosswalk is a function on pairs.     *)
StationTablesShape(db) ==
  \E Area, System, Stop :
    /\ db.areas \subseteq Area \X Stop
    /\ db.stops \subseteq System \X Stop
    /\ DOMAIN db.matches \subseteq System \X Stop

(* The other stops of the station a row is looked up at, and the rows of   *)
(* another system that are looked up at one of them.                       *)
StationOf(db, row) == Station!Neighbours(db, Station!EffectiveStop(db, row[1], row[2]))
LookedUpThere(db, row, other) ==
  {b \in db.stops \cup DOMAIN db.matches :
     b[1] = other /\ Station!EffectiveStop(db, other, b[2]) \in StationOf(db, row)}

LEMMA TransferOfferedBack ==
  ASSUME NEW db, StationTablesShape(db), NEW row \in db.stops,
         NEW other \in Station!ResolveTransfers(db, row[1], row[2])
  PROVE  /\ \A b \in LookedUpThere(db, row, other) :
              row[1] \in Station!ResolveTransfers(db, other, b[2])
         /\ LookedUpThere(db, row, other) = {} =>
              \E b \in db.stops \cap DOMAIN db.matches :
                b[1] = other /\ b[2] \in StationOf(db, row)
<1> DEFINE near == StationOf(db, row)
           there == LookedUpThere(db, row, other)
<1>a. near = Station!Neighbours(db, Station!EffectiveStop(db, row[1], row[2]))
  BY DEF StationOf
<1>b. there = {b \in db.stops \cup DOMAIN db.matches :
                 b[1] = other /\ Station!EffectiveStop(db, other, b[2]) \in near}
  BY DEF LookedUpThere
<1> HIDE DEF near, there
<1>0. PICK Area, System, Stop :
        /\ db.areas \subseteq Area \X Stop
        /\ db.stops \subseteq System \X Stop
        /\ DOMAIN db.matches \subseteq System \X Stop
  BY DEF StationTablesShape
<1> DEFINE here == Station!EffectiveStop(db, row[1], row[2])
<1>1. other # row[1] /\ near = Station!Neighbours(db, here)
  BY <1>a DEF Station!ResolveTransfers
<1>2. PICK s \in near : other \in Station!SystemsByStop(db, s)
  BY <1>a DEF Station!ResolveTransfers
(* The stop's own system is found under its effective id.                  *)
<1>3. row[1] \in Station!SystemsByStop(db, here)
  <2>1. row = <<row[1], row[2]>>
    BY <1>0
  <2>2. CASE <<row[1], row[2]>> \in DOMAIN db.matches
    BY <2>1, <2>2 DEF Station!SystemsByStop, Station!EffectiveStop, here
  <2>3. CASE <<row[1], row[2]>> \notin DOMAIN db.matches
    BY <2>1, <2>3 DEF Station!SystemsByStop, Station!EffectiveStop, here
  <2>4. QED BY <2>2, <2>3
<1> HIDE DEF here
(* To be at the same station is symmetric.                                 *)
<1>4. ASSUME NEW x \in near
      PROVE  here \in Station!Neighbours(db, x)
  <2>1. PICK a : /\ a \in Station!AreaIdsByStop(db, here)
                 /\ x \in Station!MembersByArea(db, a) /\ x # here
    BY <1>1, <1>4 DEF Station!Neighbours
  <2>2. /\ \E r \in db.areas : r[1] = a /\ r[2] = here
        /\ \E r \in db.areas : r[1] = a /\ r[2] = x
    BY <2>1 DEF Station!AreaIdsByStop, Station!MembersByArea
  <2>3. a \in Station!AreaIdsByStop(db, x) /\ here \in Station!MembersByArea(db, a)
    BY <2>2 DEF Station!AreaIdsByStop, Station!MembersByArea
  <2>4. QED BY <2>1, <2>3 DEF Station!Neighbours
<1>5. ASSUME NEW b \in there
      PROVE  row[1] \in Station!ResolveTransfers(db, other, b[2])
  <2>1. here \in Station!Neighbours(db, Station!EffectiveStop(db, other, b[2]))
    BY <1>4, <1>5, <1>b
  <2>2. QED BY <1>1, <1>3, <2>1 DEF Station!ResolveTransfers
<1>6. ASSUME there = {}
      PROVE  \E b \in db.stops \cap DOMAIN db.matches : b[1] = other /\ b[2] \in near
  <2>1. \/ \E r \in db.stops : r[2] = s /\ r[1] = other
        \/ \E m \in DOMAIN db.matches : db.matches[m] = s /\ m[1] = other
    BY <1>2 DEF Station!SystemsByStop
  <2>2. ASSUME NEW m \in DOMAIN db.matches, db.matches[m] = s, m[1] = other
        PROVE  FALSE
    <3>1. m = <<m[1], m[2]>>
      BY <1>0
    <3>2. Station!EffectiveStop(db, other, m[2]) = s
      BY <3>1, <2>2 DEF Station!EffectiveStop
    <3>3. m \in there
      BY <1>2, <2>2, <3>2, <1>b
    <3>4. QED BY <1>6, <3>3
  <2>3. ASSUME NEW r \in db.stops, r[2] = s, r[1] = other
        PROVE  r \in DOMAIN db.matches
    <3>1. r = <<other, s>>
      BY <1>0, <2>3
    <3>2. Station!EffectiveStop(db, other, s) \notin near
      BY <1>6, <2>3, <1>2, <1>b
    <3>3. QED BY <1>2, <3>1, <3>2 DEF Station!EffectiveStop
  <2>4. QED BY <1>2, <2>1, <2>2, <2>3
<1>7. QED BY <1>5, <1>6 DEF near, there

(* "Every other transit system sharing a station complex": over any        *)
(* tables, with the crosswalk of any stops, a transfer that is offered is  *)
(* offered back by every stop that is looked up at the station, and there  *)
(* is one unless the crosswalk leads the other system's stop elsewhere.    *)
THEOREM TransfersAreMutual ==
  ASSUME \A i \in Inputs : i.of = "station_rows" => StationTablesShape(i.db)
  PROVE  Spec => []TransfersGoBothWays
<1>1. ASSUME input \in Inputs, input.of = "station_rows" PROVE TransfersGoBothWays
  <2> DEFINE db == input.db
  <2>1. StationTablesShape(db)
    BY <1>1
  <2> HIDE DEF db
  <2>2. ASSUME NEW row \in db.stops,
               NEW other \in Station!ResolveTransfers(db, row[1], row[2])
        PROVE  /\ \A b \in LookedUpThere(db, row, other) :
                    row[1] \in Station!ResolveTransfers(db, other, b[2])
               /\ LookedUpThere(db, row, other) = {} =>
                    \E b \in db.stops \cap DOMAIN db.matches :
                      b[1] = other /\ b[2] \in StationOf(db, row)
    BY <2>1, <2>2, TransferOfferedBack
  <2>3. QED BY <2>2, Zenon DEF TransfersGoBothWays, LookedUpThere, StationOf, db
<1>2. input \in Inputs => TransfersGoBothWays
  BY <1>1 DEF TransfersGoBothWays
<1>3. QED BY <1>2, InputKept, PTL

-----------------------------------------------------------------------------

(* A trip with known and missing times, the known ones in order.           *)
Known(t) == t # Position!NoTime
StopTime == [arrival : Nat \cup {Position!NoTime}, departure : Nat \cup {Position!NoTime}]

InOrder(stops) ==
  \A i, j \in DOMAIN stops :
    /\ i <= j /\ Known(stops[i].arrival) /\ Known(stops[j].departure) =>
         stops[i].arrival <= stops[j].departure
    /\ i < j /\ Known(stops[i].arrival) /\ Known(stops[j].arrival) =>
         stops[i].arrival <= stops[j].arrival
    /\ i < j /\ Known(stops[i].departure) /\ Known(stops[j].arrival) =>
         stops[i].departure <= stops[j].arrival
    /\ i < j /\ Known(stops[i].departure) /\ Known(stops[j].departure) =>
         stops[i].departure <= stops[j].departure

LiveTripShape(i) == i.trip \in Seq(StopTime) /\ InOrder(i.trip) /\ i.now \in Nat

(* The times of a trip are those of its stops.                             *)
LEMMA TimeOfStop ==
  ASSUME NEW stops \in Seq(StopTime), NEW t
  PROVE  t \in Times(stops) <=>
           /\ Known(t)
           /\ \E n \in DOMAIN stops : t = stops[n].arrival \/ t = stops[n].departure
BY DEF Times, Known

LEMMA TimesAreNumbers ==
  ASSUME NEW stops \in Seq(StopTime)
  PROVE  \A t \in Times(stops) : t \in Nat
<1> SUFFICES ASSUME NEW t \in Times(stops) PROVE t \in Nat
  OBVIOUS
<1>1. PICK n \in DOMAIN stops : t = stops[n].arrival \/ t = stops[n].departure
  BY TimeOfStop
<1>2. stops[n] \in StopTime
  OBVIOUS
<1>3. Known(t)
  BY TimeOfStop
<1>4. QED BY <1>1, <1>2, <1>3 DEF StopTime, Known

LEMMA Placed ==
  ASSUME NEW stops \in Seq(StopTime), InOrder(stops), NEW now \in Nat,
         Position!GetLocation(stops, now) # Position!Nowhere
  PROVE  LET loc == Position!GetLocation(stops, now)
         IN  /\ loc.previous < now /\ now < loc.next
             /\ {loc.previous, loc.next} \subseteq Times(stops)
             /\ \A t \in Times(stops) : ~ (loc.previous < t /\ t < loc.next)
<1> DEFINE hits == {n \in DOMAIN stops : Position!AtStop(stops, n, now)
                                           \/ Position!InTransit(stops, n, now)}
           n == Position!Min(hits)
           loc == Position!GetLocation(stops, now)
<1>1. hits # {}
  BY DEF Position!GetLocation
<1>2. n \in hits
  <2>1. hits \subseteq Nat
    OBVIOUS
  <2> HIDE DEF hits
  <2>2. \E m \in hits : \A k \in hits : m <= k
    BY <1>1, <2>1, LeastElement
  <2>3. QED BY <2>2 DEF Position!Min
<1>3. DOMAIN stops = 1..Len(stops) /\ Len(stops) \in Nat
  OBVIOUS
<1>4. \A i \in DOMAIN stops : stops[i] \in StopTime
  OBVIOUS
<1>5. loc = IF Position!AtStop(stops, n, now)
            THEN [status |-> "AT_STOP", stop |-> n,
                  previous |-> stops[n].arrival, next |-> stops[n].departure]
            ELSE [status |-> "IN_TRANSIT", stop |-> n,
                  previous |-> stops[n - 1].departure, next |-> stops[n].arrival]
  BY <1>1 DEF Position!GetLocation
<1>6. n \in DOMAIN stops /\ (Position!AtStop(stops, n, now) \/ Position!InTransit(stops, n, now))
  BY <1>2
<1> HIDE DEF n, loc, hits
<1>7. CASE Position!AtStop(stops, n, now)
  <2>1. loc.previous = stops[n].arrival /\ loc.next = stops[n].departure
    BY <1>5, <1>7
  <2>2. /\ Known(stops[n].arrival) /\ Known(stops[n].departure)
        /\ stops[n].arrival < now /\ now < stops[n].departure
    BY <1>7 DEF Position!AtStop, Position!Between, Known
  <2>3. {loc.previous, loc.next} \subseteq Times(stops)
    BY <2>1, <2>2, <1>6, TimeOfStop
  <2>4. ASSUME NEW t \in Times(stops)
        PROVE  t <= stops[n].arrival \/ stops[n].departure <= t
    <3>1. PICK i \in DOMAIN stops : t = stops[i].arrival \/ t = stops[i].departure
      BY TimeOfStop
    <3>2. Known(t)
      BY TimeOfStop
    <3>3. i < n \/ i = n \/ n < i
      BY <1>3, <1>6
    <3>4. CASE i < n
      <4>1. t <= stops[n].arrival
        BY <3>1, <3>2, <3>4, <2>2, <1>6 DEF InOrder
      <4>2. QED BY <4>1
    <3>5. CASE i = n
      BY <3>1, <3>5, <1>4, <1>6, <2>2 DEF StopTime, Known
    <3>6. CASE n < i
      <4>1. stops[n].departure <= t
        BY <3>1, <3>2, <3>6, <2>2, <1>6 DEF InOrder
      <4>2. QED BY <4>1
    <3>7. QED BY <3>3, <3>4, <3>5, <3>6
  <2>5. QED
    <3>1. stops[n].arrival \in Nat /\ stops[n].departure \in Nat
      BY <1>4, <1>6, <2>2 DEF StopTime, Known
    <3>2. QED BY <2>1, <2>2, <2>3, <2>4, <3>1, TimesAreNumbers DEF loc
<1>8. CASE ~ Position!AtStop(stops, n, now)
  <2>1. loc.previous = stops[n - 1].departure /\ loc.next = stops[n].arrival
    BY <1>5, <1>8
  <2>2. /\ n > 1 /\ Known(stops[n].arrival) /\ Known(stops[n - 1].departure)
        /\ stops[n - 1].departure < now /\ now < stops[n].arrival
    BY <1>6, <1>8 DEF Position!InTransit, Position!Between, Known
  <2>3. n - 1 \in DOMAIN stops /\ n \in Int
    BY <1>3, <1>6, <2>2
  <2>4. {loc.previous, loc.next} \subseteq Times(stops)
    BY <2>1, <2>2, <2>3, <1>6, TimeOfStop
  <2>5. ASSUME NEW t \in Times(stops)
        PROVE  t <= stops[n - 1].departure \/ stops[n].arrival <= t
    <3>1. PICK i \in DOMAIN stops : t = stops[i].arrival \/ t = stops[i].departure
      BY TimeOfStop
    <3>2. Known(t)
      BY TimeOfStop
    <3>3. i <= n - 1 \/ n <= i
      BY <1>3, <2>3
    <3>4. CASE i <= n - 1
      <4>1. i < n /\ i <= n - 1 /\ (i = n - 1 \/ i < n - 1)
        BY <3>4, <1>3, <2>3
      <4>2. stops[i] \in StopTime /\ stops[n - 1] \in StopTime
        BY <2>3, <1>4
      <4>3. t = stops[i].arrival => t <= stops[n - 1].departure
        BY <4>1, <3>2, <2>2, <2>3 DEF InOrder
      <4>4. t = stops[i].departure => t <= stops[n - 1].departure
        BY <4>1, <4>2, <3>2, <2>2, <2>3 DEF InOrder, StopTime, Known
      <4>5. QED BY <4>3, <4>4, <3>1
    <3>5. CASE n <= i
      <4>1. n - 1 < i /\ (i = n \/ n < i)
        BY <3>5, <1>3, <2>3
      <4>2. stops[i] \in StopTime /\ stops[n] \in StopTime
        BY <1>6, <1>4
      <4>3. t = stops[i].arrival => stops[n].arrival <= t
        BY <4>1, <4>2, <3>2, <2>2, <1>6 DEF InOrder, StopTime, Known
      <4>4. t = stops[i].departure => stops[n].arrival <= t
        BY <3>5, <3>2, <2>2, <1>6 DEF InOrder
      <4>5. QED BY <4>3, <4>4, <3>1
    <3>6. QED BY <3>3, <3>4, <3>5
  <2>6. QED
    <3>1. stops[n].arrival \in Nat /\ stops[n - 1].departure \in Nat
      BY <1>4, <1>6, <2>2, <2>3 DEF StopTime, Known
    <3>2. QED BY <2>1, <2>2, <2>4, <2>5, <3>1, TimesAreNumbers DEF loc
<1>9. QED BY <1>7, <1>8

(* Between its first and its last time, a trip with all its times has its  *)
(* vehicle at or on the way to the first stop that is not behind it.       *)
LEMMA UnderWay ==
  ASSUME NEW stops \in Seq(StopTime), InOrder(stops), Complete(stops), NEW now \in Nat,
         now \notin Times(stops),
         \E t \in Times(stops) : t < now, \E t \in Times(stops) : now < t
  PROVE  Position!GetLocation(stops, now) # Position!Nowhere
<1> DEFINE After(i) == \/ Known(stops[i].arrival) /\ now < stops[i].arrival
                       \/ Known(stops[i].departure) /\ now < stops[i].departure
           ahead == {i \in DOMAIN stops : After(i)}
<1>1. DOMAIN stops = 1..Len(stops) /\ Len(stops) \in Nat
  OBVIOUS
<1>2. \A i \in DOMAIN stops : stops[i] \in StopTime
  OBVIOUS
<1>3. PICK n \in ahead : \A k \in ahead : n <= k
  <2>1. ahead # {}
    BY TimeOfStop
  <2>2. ahead \subseteq Nat
    BY <1>1
  <2> HIDE DEF ahead
  <2>3. QED BY <2>1, <2>2, LeastElement
<1>4. n \in DOMAIN stops /\ n \in Nat /\ After(n)
  BY <1>1, <1>3
<1>5. \A i \in DOMAIN stops : i < n => ~ After(i)
  BY <1>1, <1>3, <1>4
<1>6. PICK early \in Times(stops) : early < now
  OBVIOUS
<1>7. PICK j \in DOMAIN stops : early = stops[j].arrival \/ early = stops[j].departure
  BY <1>6, TimeOfStop
<1>8. Known(early) /\ early \in Nat
  BY <1>2, <1>7, TimeOfStop DEF StopTime, Known
<1>9. CASE Known(stops[n].arrival) /\ now < stops[n].arrival
  <2>1. n > 1
    <3>1. ASSUME n = 1 PROVE FALSE
      <4>1. n <= j
        BY <3>1, <1>1, <1>7
      <4>2. stops[n].arrival <= early
        BY <4>1, <1>4, <1>6, <1>7, <1>8, <1>9, <1>2, <1>1 DEF InOrder, StopTime, Known
      <4>3. stops[n].arrival \in Nat
        BY <1>2, <1>4, <1>9 DEF StopTime, Known
      <4>4. QED BY <4>2, <4>3, <1>6, <1>8, <1>9
    <3>2. QED BY <3>1, <1>1, <1>4
  <2>2. n - 1 \in DOMAIN stops /\ n - 1 < n /\ n - 1 < Len(stops)
    BY <2>1, <1>1, <1>4
  <2>3. Known(stops[n - 1].departure)
    BY <2>2 DEF Complete, Known
  <2>4. stops[n - 1].departure < now
    <3>1. stops[n - 1].departure \in Times(stops)
      BY <2>2, <2>3, TimeOfStop
    <3>2. ~ (now < stops[n - 1].departure)
      BY <2>2, <2>3, <1>5
    <3>3. stops[n - 1].departure \in Nat
      BY <2>2, <2>3, <1>2 DEF StopTime, Known
    <3>4. QED BY <3>1, <3>2, <3>3
  <2>5. Position!InTransit(stops, n, now)
    BY <2>1, <2>3, <2>4, <1>9 DEF Position!InTransit, Position!Between, Known
  <2>6. QED BY <2>5, <1>4 DEF Position!GetLocation, Position!Nowhere
<1>10. CASE ~ (Known(stops[n].arrival) /\ now < stops[n].arrival)
  <2>1. Known(stops[n].departure) /\ now < stops[n].departure
    BY <1>4, <1>10
  <2>2. stops[n].departure \in Nat
    BY <2>1, <1>2, <1>4 DEF StopTime, Known
  <2>3. Known(stops[n].arrival)
    <3>1. CASE n > 1
      BY <3>1, <1>4 DEF Complete, Known
    <3>2. CASE n = 1
      <4>1. ASSUME ~ Known(stops[n].arrival) PROVE FALSE
        <5>1. j = n \/ n < j
          BY <3>2, <1>1, <1>7
        <5>2. stops[n].departure <= early
          BY <5>1, <4>1, <1>4, <1>7, <1>8, <2>1, <2>2, <1>2, <1>1 DEF InOrder, StopTime, Known
        <5>3. QED BY <5>2, <2>1, <2>2, <1>6, <1>8
      <4>2. QED BY <4>1
    <3>3. QED BY <3>1, <3>2, <1>1, <1>4
  <2>4. stops[n].arrival < now
    <3>1. stops[n].arrival \in Times(stops)
      BY <2>3, <1>4, TimeOfStop
    <3>2. stops[n].arrival \in Nat
      BY <2>3, <1>2, <1>4 DEF StopTime, Known
    <3>3. QED BY <3>1, <3>2, <2>3, <1>10
  <2>5. Position!AtStop(stops, n, now)
    BY <2>1, <2>3, <2>4 DEF Position!AtStop, Position!Between, Known
  <2>6. QED BY <2>5, <1>4 DEF Position!GetLocation, Position!Nowhere
<1>11. QED BY <1>9, <1>10

(* A trip of any number of stops, any of whose times may be missing: its   *)
(* vehicle is placed between two adjacent known times, and while a trip    *)
(* with all its times is under way its vehicle is on the map.              *)
THEOREM VehiclesArePlaced ==
  ASSUME \A i \in Inputs : i.of = "live_trip" => LiveTripShape(i)
  PROVE  Spec => []VehicleIsPlaced
<1>1. input \in Inputs => VehicleIsPlaced
  <2> SUFFICES ASSUME input \in Inputs, input.of = "live_trip"
               PROVE  VehicleIsPlaced
    BY DEF VehicleIsPlaced
  <2> DEFINE stops == input.trip
             now == input.now
             loc == Position!GetLocation(stops, now)
  <2>1. stops \in Seq(StopTime) /\ InOrder(stops) /\ now \in Nat
    BY DEF LiveTripShape
  <2>2. loc # Position!Nowhere =>
          /\ loc.previous < now /\ now < loc.next
          /\ {loc.previous, loc.next} \subseteq Times(stops)
          /\ \A t \in Times(stops) : ~ (loc.previous < t /\ t < loc.next)
    BY <2>1, Placed
  <2>3. /\ Complete(stops)
        /\ now \notin Times(stops)
        /\ \E t \in Times(stops) : t < now
        /\ \E t \in Times(stops) : now < t
        => loc # Position!Nowhere
    BY <2>1, UnderWay
  <2> HIDE DEF stops, now, loc
  <2>4. loc # Position!Nowhere =>
          /\ now \notin Times(stops)
          /\ \E t \in Times(stops) : t < now
          /\ \E t \in Times(stops) : now < t
    BY <2>2
  <2>5. QED BY <2>2, <2>3, <2>4 DEF VehicleIsPlaced, stops, now, loc
<1>2. QED BY <1>1, InputKept, PTL

-----------------------------------------------------------------------------

(* Every instance of the algorithms selects alike.                         *)
LEMMA SameSelection ==
  ASSUME NEW seq, NEW P
  PROVE  /\ Regional!EntriesAt(seq, P) = EntriesAt(seq, P)
         /\ Views!EntriesAt(seq, P) = EntriesAt(seq, P)
         /\ Notices!EntriesAt(seq, P) = EntriesAt(seq, P)
         /\ Stops!EntriesAt(seq, P) = EntriesAt(seq, P)
<1>1. Regional!EntriesAt(seq, P) = EntriesAt(seq, P)
  BY DEF Regional!EntriesAt, Regional!PlacesIn, EntriesAt, PlacesIn
<1>2. Views!EntriesAt(seq, P) = EntriesAt(seq, P)
  BY DEF Views!EntriesAt, Views!PlacesIn, EntriesAt, PlacesIn
<1>3. Notices!EntriesAt(seq, P) = EntriesAt(seq, P)
  BY DEF Notices!EntriesAt, Notices!PlacesIn, EntriesAt, PlacesIn
<1>4. Stops!EntriesAt(seq, P) = EntriesAt(seq, P)
  BY DEF Stops!EntriesAt, Stops!PlacesIn, EntriesAt, PlacesIn
<1>5. QED BY <1>1, <1>2, <1>3, <1>4

-----------------------------------------------------------------------------

(* What the look-ups of one alert by itself would find.                    *)
Stored(schedule, t) == t \in Views!TripIds(schedule)
RouteOf(schedule, t) ==
  IF Stored(schedule, t) THEN Views!TripRow(schedule, t).route_id ELSE Views!None
HeadsignOf(schedule, t) ==
  IF Stored(schedule, t) THEN Views!TripRow(schedule, t).name ELSE Views!None
NameOf(schedule, r) ==
  IF r \in Views!RouteIds(schedule) THEN Notices!LastRow(schedule, r).name ELSE Views!None

(* The instances of ScheduleDicts read the tables alike.                   *)
LEMMA SameTables ==
  ASSUME NEW schedule, NEW t
  PROVE  /\ Notices!TripIds(schedule) = Views!TripIds(schedule)
         /\ Notices!TripRow(schedule, t) = Views!TripRow(schedule, t)
         /\ Notices!RouteIds(schedule) = Views!RouteIds(schedule)
         /\ Notices!None = Views!None
<1>1. Notices!TripRows(schedule) = Views!TripRows(schedule)
  BY DEF Notices!TripRows, Views!TripRows
<1>2. QED BY <1>1 DEF Notices!TripIds, Views!TripIds, Notices!TripRow, Views!TripRow,
                      Notices!RouteIds, Views!RouteIds, Notices!None, Views!None

(* One alert, hydrated from look-ups for the whole feed.                   *)
LEMMA AlertHydrated ==
  ASSUME NEW schedule, NEW feed, NEW trips, NEW routes, NEW alert,
         Notices!Named(alert, "trip_id") \subseteq trips,
         Notices!Named(alert, "route_id") \subseteq routes,
         Views!None \notin Notices!Named(alert, "route_id")
  PROVE  LET byId == Notices!TripsById(schedule, trips)
             data == [trips |-> byId, routes |-> Notices!RoutesById(schedule, byId, routes)]
             built == Notices!BuildAlert(alert, data)
             named == Notices!Named(alert, "trip_id")
         IN  /\ built.alert_id = alert.id
             /\ built.affected_trips
                  = {[trip_id |-> t, trip_headsign |-> HeadsignOf(schedule, t),
                      route_id |-> RouteOf(schedule, t)] : t \in named}
             /\ built.affected_routes
                  = {[route_id |-> r, route_name |-> NameOf(schedule, r)] :
                       r \in (Notices!Named(alert, "route_id")
                                \cup {RouteOf(schedule, t) : t \in named}) \ {Views!None}}
<1> DEFINE byId == Notices!TripsById(schedule, trips)
           names == Notices!RoutesById(schedule, byId, routes)
           data == [trips |-> byId, routes |-> names]
           built == Notices!BuildAlert(alert, data)
           named == Notices!Named(alert, "trip_id")
           namedRoutes == Notices!Named(alert, "route_id")
           Shown(t) == [trip_id |-> t, trip_headsign |-> HeadsignOf(schedule, t),
                        route_id |-> RouteOf(schedule, t)]
           reached == {RouteOf(schedule, t) : t \in named} \ {Views!None}
<1>1. /\ DOMAIN byId = trips \cap Views!TripIds(schedule)
      /\ \A t \in DOMAIN byId : byId[t] = [trip_headsign |-> HeadsignOf(schedule, t),
                                           route_id |-> RouteOf(schedule, t)]
  BY SameTables DEF Notices!TripsById, HeadsignOf, RouteOf, Stored
<1>2. ASSUME NEW t \in named
      PROVE  [trip_id |-> t,
              trip_headsign |-> IF t \in DOMAIN byId THEN byId[t].trip_headsign ELSE Notices!None,
              route_id |-> IF t \in DOMAIN byId THEN byId[t].route_id ELSE Notices!None]
               = Shown(t)
  BY <1>1, SameTables DEF HeadsignOf, RouteOf, Stored
<1> HIDE DEF byId, named, namedRoutes, Shown
<1>3. /\ built.alert_id = alert.id
      /\ built.affected_trips = {Shown(t) : t \in named}
  BY <1>2 DEF Notices!BuildAlert, named
<1>4. {x.route_id : x \in {Shown(t) : t \in named}} = {RouteOf(schedule, t) : t \in named}
  <2>1. \A t : Shown(t).route_id = RouteOf(schedule, t)
    BY DEF Shown
  <2>2. QED BY <2>1
<1>5. built.affected_routes
        = {[route_id |-> r, route_name |-> Notices!Lookup(names, r)] :
             r \in namedRoutes \cup reached}
  <2>1. built.affected_routes
          = {[route_id |-> r, route_name |-> Notices!Lookup(names, r)] :
               r \in namedRoutes
                       \cup ({x.route_id : x \in built.affected_trips} \ {Notices!None})}
    BY DEF Notices!BuildAlert, namedRoutes
  <2>2. {x.route_id : x \in built.affected_trips} \ {Notices!None} = reached
    <3> HIDE DEF built
    <3>1. QED BY <1>3, <1>4, SameTables
  <2> HIDE DEF reached
  <2>3. QED BY <2>1, <2>2
<1>6. ASSUME NEW r \in namedRoutes \cup reached
      PROVE  Notices!Lookup(names, r) = NameOf(schedule, r)
  <2>1. r \in routes \cup {byId[t].route_id : t \in DOMAIN byId}
    <3>1. CASE r \in namedRoutes
      BY <3>1 DEF namedRoutes
    <3>2. CASE r \in reached
      <4>1. PICK t \in named : r = RouteOf(schedule, t) /\ r # Views!None
        BY <3>2
      <4>2. t \in DOMAIN byId
        BY <4>1, <1>1 DEF RouteOf, Stored, named
      <4>3. byId[t].route_id = r
        BY <4>1, <4>2, <1>1
      <4>4. QED BY <4>2, <4>3
    <3>3. QED BY <3>1, <3>2
  <2>2. QED BY <2>1, SameTables DEF Notices!Lookup, NameOf, Notices!RoutesById
<1>7. Views!None \notin namedRoutes
  BY DEF namedRoutes
<1>8. namedRoutes \cup reached
        = (namedRoutes \cup {RouteOf(schedule, t) : t \in named}) \ {Views!None}
  BY <1>7
<1>9. built.affected_routes
        = {[route_id |-> r, route_name |-> NameOf(schedule, r)] : r \in namedRoutes \cup reached}
  BY <1>5, <1>6
<1> HIDE DEF built, data, names, reached
<1>10. QED BY <1>3, <1>8, <1>9 DEF built, data, names, byId, named, namedRoutes, Shown

(* No alert names None, which stands for what is missing.                  *)
AlertFeedShape(i) ==
  \A n \in DOMAIN Notices!Alerts(i.feed) :
    Views!None \notin Notices!Named(Notices!Alerts(i.feed)[n], "route_id")

(* An alert of a feed with any number of alerts, over any tables, shows    *)
(* each of its trips and routes as looking it up by itself would, although *)
(* service_alerts looks up those of all alerts at once.                    *)
THEOREM AlertsAreHydrated ==
  ASSUME \A i \in Inputs : i.of = "alert_feed" => AlertFeedShape(i)
  PROVE  Spec => []AlertsHydrated
<1>1. input \in Inputs => AlertsHydrated
  <2> SUFFICES ASSUME input \in Inputs, input.of = "alert_feed"
               PROVE  AlertsHydrated
    BY DEF AlertsHydrated
  <2> DEFINE schedule == input.schedule
             feed == Notices!Alerts(input.feed)
             trips == Notices!ReferencedIds(input.feed, "trip_id")
             routes == Notices!ReferencedIds(input.feed, "route_id")
             byId == Notices!TripsById(schedule, trips)
             data == [trips |-> byId, routes |-> Notices!RoutesById(schedule, byId, routes)]
             Alpha(value) == [s \in {"Alpha"} |-> value]
             page == Notices!ServiceAlertsPage(Alpha(schedule), Alpha("url"), "Alpha", input.feed)
             Routes(alert) ==
               (Notices!Named(alert, "route_id")
                  \cup {RouteOf(schedule, t) : t \in Notices!Named(alert, "trip_id")})
                 \ {Views!None}
  <2>1. page.alerts = [n \in DOMAIN feed |-> Notices!BuildAlert(feed[n], data)]
    <3>1. Notices!HydrationData(Alpha(schedule), "Alpha", trips, routes) = data
      BY DEF Notices!HydrationData
    <3>2. Notices!Lookup(Alpha("url"), "Alpha") # Notices!None
      BY DEF Notices!Lookup, Notices!None
    <3> HIDE DEF data, trips, routes, feed, schedule
    <3>3. page.alerts = Notices!BuildServiceAlerts(input.feed, data)
      BY <3>1, <3>2 DEF Notices!ServiceAlertsPage, trips, routes
    <3>4. QED BY <3>3 DEF Notices!BuildServiceAlerts, feed
  <2>2. ASSUME NEW n \in DOMAIN feed
        PROVE  LET alert == page.alerts[n]
               IN  /\ alert.alert_id = feed[n].id
                   /\ alert.affected_trips
                        = {[trip_id |-> t, trip_headsign |-> HeadsignOf(schedule, t),
                            route_id |-> RouteOf(schedule, t)] :
                             t \in Notices!Named(feed[n], "trip_id")}
                   /\ alert.affected_routes
                        = {[route_id |-> r, route_name |-> NameOf(schedule, r)] :
                             r \in Routes(feed[n])}
    <3>1. /\ Notices!Named(feed[n], "trip_id") \subseteq trips
          /\ Notices!Named(feed[n], "route_id") \subseteq routes
      BY DEF Notices!ReferencedIds
    <3>2. Views!None \notin Notices!Named(feed[n], "route_id")
      BY DEF AlertFeedShape
    <3>3. page.alerts[n] = Notices!BuildAlert(feed[n], data)
      BY <2>1
    <3> HIDE DEF page, trips, routes, feed, schedule
    <3>4. QED BY <3>1, <3>2, <3>3, AlertHydrated
  <2>3. DOMAIN page.alerts = DOMAIN feed
    BY <2>1
  <2> HIDE DEF page
  <2>4. QED BY <2>2, <2>3 DEF AlertsHydrated, page, HeadsignOf, RouteOf, NameOf, Stored
<1>2. QED BY <1>1, InputKept, PTL

-----------------------------------------------------------------------------

IsSeq(s) == \E S : s \in Seq(S)

(* x or y, and x or y or z.                                                *)
HasValue(v) == v # Views!None /\ v # Views!Blank

LEMMA LeastPlace ==
  ASSUME NEW S, S \subseteq Nat, S # {}
  PROVE  /\ Views!Min(S) \in S /\ \A n \in S : Views!Min(S) <= n
         /\ Regional!Min(S) \in S /\ \A n \in S : Regional!Min(S) <= n
<1>1. PICK n \in S : \A k \in S : n <= k
  BY LeastElement
<1>2. QED BY <1>1 DEF Views!Min, Regional!Min

LEMMA GreatestElement ==
  ASSUME NEW m \in Nat, NEW T, T \subseteq 1..m, T # {}
  PROVE  \E n \in T : \A k \in T : k <= n
<1> DEFINE U == {m - k : k \in T}
<1>1. U \subseteq Nat /\ U # {}
  <2>1. \A k \in T : k \in 1..m /\ m - k \in Nat
    OBVIOUS
  <2>2. \E k \in T : m - k \in U
    OBVIOUS
  <2>3. QED BY <2>1, <2>2
<1>2. PICK u \in U : \A v \in U : u <= v
  <2> HIDE DEF U
  <2>1. QED BY <1>1, LeastElement
<1>3. PICK n \in T : u = m - n
  BY <1>2
<1>4. ASSUME NEW k \in T PROVE k <= n
  <2>1. m - k \in U /\ m - n <= m - k
    BY <1>2, <1>3
  <2>2. k \in 1..m /\ n \in 1..m
    OBVIOUS
  <2>3. QED BY <2>1, <2>2
<1>5. QED BY <1>4

LEMMA GreatestPlace ==
  ASSUME NEW m \in Nat, NEW T, T \subseteq 1..m, T # {}
  PROVE  Views!Max(T) \in T /\ Notices!Max(T) = Views!Max(T)
<1>1. PICK n \in T : \A k \in T : k <= n
  BY GreatestElement
<1>2. \A k \in T : n >= k
  BY <1>1
<1>3. QED BY <1>2 DEF Views!Max, Notices!Max

LEMMA FirstKnownOfTwo ==
  ASSUME NEW a, NEW b
  PROVE  Views!FirstKnown(<<a, b>>) = IF HasValue(a) THEN a
                                      ELSE IF HasValue(b) THEN b ELSE Views!None
<1> DEFINE values == <<a, b>>
           known == {n \in DOMAIN values : values[n] \notin {Views!None, Views!Blank}}
           low == Views!Min(known)
<1>1. DOMAIN values = {1, 2} /\ values[1] = a /\ values[2] = b
  OBVIOUS
<1>2. (1 \in known <=> HasValue(a)) /\ (2 \in known <=> HasValue(b)) /\ known \subseteq {1, 2}
  BY <1>1 DEF HasValue
<1>3. Views!FirstKnown(values) = IF known = {} THEN Views!None ELSE values[low]
  BY DEF Views!FirstKnown
<1> HIDE DEF known, values
<1>4. known # {} => low \in known /\ \A n \in known : low <= n
  <2>1. known \subseteq Nat
    BY <1>2
  <2>2. QED BY <2>1, LeastPlace
<1> HIDE DEF low
<1>low. (1 \in known => low = 1) /\ (1 \notin known /\ 2 \in known => low = 2)
  <2>1. known # {} => low \in {1, 2}
    BY <1>2, <1>4
  <2>2. 1 \in known => low <= 1
    BY <1>4
  <2>3. QED BY <1>4, <2>1, <2>2
<1>5. HasValue(a) => Views!FirstKnown(values) = a
  BY <1>1, <1>2, <1>3, <1>low
<1>6. ~ HasValue(a) /\ HasValue(b) => Views!FirstKnown(values) = b
  BY <1>1, <1>2, <1>3, <1>low
<1>7. ~ HasValue(a) /\ ~ HasValue(b) => Views!FirstKnown(values) = Views!None
  BY <1>2, <1>3
<1>8. QED BY <1>5, <1>6, <1>7 DEF values

LEMMA FirstKnownOfThree ==
  ASSUME NEW a, NEW b, NEW c
  PROVE  Views!FirstKnown(<<a, b, c>>) = IF HasValue(a) THEN a
                                         ELSE IF HasValue(b) THEN b
                                         ELSE IF HasValue(c) THEN c ELSE Views!None
<1> DEFINE values == <<a, b, c>>
           known == {n \in DOMAIN values : values[n] \notin {Views!None, Views!Blank}}
           low == Views!Min(known)
<1>1. DOMAIN values = {1, 2, 3} /\ values[1] = a /\ values[2] = b /\ values[3] = c
  OBVIOUS
<1>2. /\ (1 \in known <=> HasValue(a)) /\ (2 \in known <=> HasValue(b))
      /\ (3 \in known <=> HasValue(c)) /\ known \subseteq {1, 2, 3}
  BY <1>1 DEF HasValue
<1>3. Views!FirstKnown(values) = IF known = {} THEN Views!None ELSE values[low]
  BY DEF Views!FirstKnown
<1> HIDE DEF known, values
<1>4. known # {} => low \in known /\ \A n \in known : low <= n
  <2>1. known \subseteq Nat
    BY <1>2
  <2>2. QED BY <2>1, LeastPlace
<1> HIDE DEF low
<1>low. /\ 1 \in known => low = 1
        /\ 1 \notin known /\ 2 \in known => low = 2
        /\ 1 \notin known /\ 2 \notin known /\ 3 \in known => low = 3
  <2>1. known # {} => low \in {1, 2, 3}
    BY <1>2, <1>4
  <2>2. (1 \in known => low <= 1) /\ (2 \in known => low <= 2)
    BY <1>4
  <2>3. QED BY <1>4, <2>1, <2>2
<1>5. HasValue(a) => Views!FirstKnown(values) = a
  BY <1>1, <1>2, <1>3, <1>low
<1>6. ~ HasValue(a) /\ HasValue(b) => Views!FirstKnown(values) = b
  BY <1>1, <1>2, <1>3, <1>low
<1>7. ~ HasValue(a) /\ ~ HasValue(b) /\ HasValue(c) => Views!FirstKnown(values) = c
  BY <1>1, <1>2, <1>3, <1>low
<1>8. ~ HasValue(a) /\ ~ HasValue(b) /\ ~ HasValue(c) =>
        Views!FirstKnown(values) = Views!None
  BY <1>2, <1>3
<1>9. QED BY <1>5, <1>6, <1>7, <1>8 DEF values

(* The ids of stored rows are values, and what is stored is a value or is  *)
(* missing.                                                                *)
TablesShape(schedule) ==
  /\ IsSeq(schedule.trips)
  /\ \A row \in Views!TripRows(schedule) :
       HasValue(row.trip_id) /\ row.name # Views!Blank /\ row.route_id # Views!Blank
  /\ \A t \in DOMAIN schedule.stop_times : IsSeq(schedule.stop_times[t])
  /\ IsSeq(schedule.routes)
  /\ \A n \in DOMAIN schedule.routes :
       LET row == schedule.routes[n]
       IN  /\ row.route_id # Views!None
           /\ Views!Blank \notin {row.name, row.color, row.text_color}

LEMMA StoredTrip ==
  ASSUME NEW schedule, NEW t \in Views!TripIds(schedule)
  PROVE  Views!TripRow(schedule, t) \in Views!TripRows(schedule)
         /\ Views!TripRow(schedule, t).trip_id = t
BY DEF Views!TripIds, Views!TripRow

(* What the dicts by trip and by route hold.                               *)
LEMMA DictEntries ==
  ASSUME NEW schedule, NEW t, NEW field
  PROVE  /\ Views!Lookup(Views!RouteIdByTrip(schedule), t) = RouteOf(schedule, t)
         /\ Views!Lookup(Views!TripHeadsigns(schedule), t) = HeadsignOf(schedule, t)
         /\ \A r : Views!Lookup(Views!ByRoute(schedule, field), r)
                     = IF Views!RowsKept(schedule, r, field) = {} THEN Views!None
                       ELSE schedule.routes[Views!Max(Views!RowsKept(schedule, r, field))][field]
         /\ Views!Lookup(Views!ByTrip(schedule, field), t)
              = IF Stored(schedule, t)
                THEN Views!Lookup(Views!ByRoute(schedule, field), RouteOf(schedule, t))
                ELSE Views!None
<1>1. /\ Views!Lookup(Views!RouteIdByTrip(schedule), t) = RouteOf(schedule, t)
      /\ Views!Lookup(Views!TripHeadsigns(schedule), t) = HeadsignOf(schedule, t)
  BY DEF Views!Lookup, Views!RouteIdByTrip, Views!TripHeadsigns, RouteOf, HeadsignOf, Stored
<1>2. ASSUME NEW r
      PROVE  Views!Lookup(Views!ByRoute(schedule, field), r)
               = IF Views!RowsKept(schedule, r, field) = {} THEN Views!None
                 ELSE schedule.routes[Views!Max(Views!RowsKept(schedule, r, field))][field]
  <2>1. Views!RowsKept(schedule, r, field) # {} => r \in Views!RouteIds(schedule)
    BY DEF Views!RowsKept, Views!RowsOfRoute, Views!RouteIds
  <2>2. QED BY <2>1 DEF Views!Lookup, Views!ByRoute
<1> DEFINE names == Views!ByRoute(schedule, field)
           ids == Views!RouteIdByTrip(schedule)
<1>3. \A x \in Views!TripIds(schedule) : ids[x] = RouteOf(schedule, x)
  BY DEF Views!RouteIdByTrip, RouteOf, Stored
<1>4. Views!Lookup(Views!ByTrip(schedule, field), t)
        = IF Stored(schedule, t) THEN Views!Lookup(names, RouteOf(schedule, t))
          ELSE Views!None
  <2>1. Views!ByTrip(schedule, field)
          = [x \in {y \in Views!TripIds(schedule) : Views!Lookup(names, ids[y]) # Views!None} |->
               Views!Lookup(names, ids[x])]
    BY DEF Views!ByTrip, Views!OfKnown
  <2> HIDE DEF names, ids
  <2>2. QED BY <2>1, <1>3 DEF Views!Lookup, Stored
<1>5. QED BY <1>1, <1>2, <1>4

(* The entity shown at some place of the poll is an entity of the feed.    *)
LEMMA ShownEntity ==
  ASSUME NEW feed, IsSeq(feed), NEW n \in DOMAIN Views!Emitted(feed)
  PROVE  \E p \in DOMAIN feed :
           /\ Views!Emitted(feed)[n] = feed[p]
           /\ feed[p].kind = "trip_update" /\ feed[p].at # 0
<1> DEFINE P == {k \in DOMAIN feed : feed[k].kind = "trip_update" /\ feed[k].at # 0}
           places == PlacesIn(P, Len(feed))
<1>1. Views!Emitted(feed) = EntriesAt(feed, P)
  BY SameSelection DEF Views!Emitted
<1> HIDE DEF P
<1>2. n \in DOMAIN places
  BY <1>1, EntriesOfPlaces DEF IsSeq
<1>3. EntriesAt(feed, P)[n] = feed[places[n]] /\ places[n] \in DOMAIN feed /\ places[n] \in P
  BY <1>2, EntriesOfPlaces DEF IsSeq
<1>4. QED BY <1>1, <1>3 DEF P

(* The headsign of the first trip of a route and a direction that has one. *)
LEMMA HeadsignUnderRoute ==
  ASSUME NEW schedule, TablesShape(schedule), NEW route, NEW direction,
         <<route, direction>> \in DOMAIN Views!HeadsignsByRouteDir(schedule)
  PROVE  \E row \in Views!TripRows(schedule) :
           /\ row.route_id = route /\ HasValue(row.name)
           /\ row.name = Views!HeadsignsByRouteDir(schedule)[<<route, direction>>]
<1> DEFINE trips == schedule.trips
           Under(r, d) == {n \in DOMAIN trips : /\ trips[n].route_id = r
                                                /\ trips[n].name # Views!None
                                                /\ d \in {Views!None, trips[n].direction}}
           first == Views!Min(Under(route, direction))
<1>1. /\ Under(route, direction) # {}
      /\ Views!HeadsignsByRouteDir(schedule)[<<route, direction>>] = trips[first].name
  <2> DEFINE keys == {trips[n].route_id : n \in DOMAIN trips}
                       \X ({Views!None} \cup {trips[n].direction : n \in DOMAIN trips})
  <2>1. Views!HeadsignsByRouteDir(schedule)
          = [key \in {k \in keys : Under(k[1], k[2]) # {}} |->
               trips[Views!Min(Under(key[1], key[2]))].name]
    BY DEF Views!HeadsignsByRouteDir
  <2> HIDE DEF Under, keys, trips
  <2>2. <<route, direction>>[1] = route /\ <<route, direction>>[2] = direction
    OBVIOUS
  <2>3. QED BY <2>1, <2>2
<1>2. Under(route, direction) \subseteq Nat
  BY DEF TablesShape, IsSeq
<1>3. first \in Under(route, direction)
  <2> HIDE DEF Under
  <2>1. QED BY <1>1, <1>2, LeastPlace
<1>4. /\ trips[first] \in Views!TripRows(schedule)
      /\ trips[first].route_id = route /\ trips[first].name # Views!None
  <2> HIDE DEF first
  <2>1. QED BY <1>3 DEF Views!TripRows
<1> HIDE DEF first
<1>5. HasValue(trips[first].name)
  BY <1>4 DEF TablesShape, HasValue
<1>6. QED BY <1>1, <1>4, <1>5

(* The row that the dict of a field takes for a route: the last of its     *)
(* rows that has the field.                                                *)
RowTaken(schedule, route, field) ==
  schedule.routes[Views!Max(Views!RowsKept(schedule, route, field))]

LEMMA TakenRow ==
  ASSUME NEW schedule, TablesShape(schedule), NEW route, NEW field,
         Views!RowsKept(schedule, route, field) # {}
  PROVE  /\ Views!Max(Views!RowsKept(schedule, route, field)) \in Views!RowsOfRoute(schedule, route)
         /\ Views!Keeps(RowTaken(schedule, route, field), field)
<1> DEFINE kept == Views!RowsKept(schedule, route, field)
<1>1. PICK S : schedule.routes \in Seq(S)
  BY DEF TablesShape, IsSeq
<1>2. kept \subseteq 1..Len(schedule.routes) /\ Len(schedule.routes) \in Nat
  BY <1>1 DEF Views!RowsKept, Views!RowsOfRoute
<1>3. Views!Max(kept) \in kept
  <2> HIDE DEF kept
  <2>1. QED BY <1>2, GreatestPlace DEF kept
<1>4. QED BY <1>3 DEF Views!RowsKept, RowTaken

(* What the stream finds of a route for a trip of that route.              *)
LEMMA FieldOfRoute ==
  ASSUME NEW schedule, TablesShape(schedule), NEW t, Stored(schedule, t),
         NEW field \in {"name", "color", "text_color"}
  PROVE  LET stored == Views!Lookup(Views!ByRoute(schedule, field), RouteOf(schedule, t))
             byTrip == Views!Lookup(Views!ByTrip(schedule, field), t)
             kept == Views!RowsKept(schedule, RouteOf(schedule, t), field)
         IN  /\ byTrip = stored
             /\ stored # Views!None => HasValue(stored)
             /\ kept # {} => /\ stored = RowTaken(schedule, RouteOf(schedule, t), field)[field]
                             /\ HasValue(stored)
<1> DEFINE route == RouteOf(schedule, t)
           stored == Views!Lookup(Views!ByRoute(schedule, field), route)
           byTrip == Views!Lookup(Views!ByTrip(schedule, field), t)
           kept == Views!RowsKept(schedule, route, field)
           row == RowTaken(schedule, route, field)
<1>1. byTrip = stored
  BY DictEntries
<1>2. stored = IF kept = {} THEN Views!None ELSE row[field]
  BY DictEntries DEF RowTaken
<1> HIDE DEF stored, byTrip, route
<1>3. ASSUME kept # {} PROVE HasValue(row[field])
  <2>1. Views!Keeps(row, field) /\ \E n \in DOMAIN schedule.routes : row = schedule.routes[n]
    BY <1>3, TakenRow DEF Views!RowsOfRoute, RowTaken
  <2> HIDE DEF row
  <2>2. Views!Blank \notin {row.name, row.color, row.text_color}
    BY <2>1 DEF TablesShape
  <2>3. QED BY <2>1, <2>2 DEF Views!Keeps, HasValue
<1> HIDE DEF kept, row
<1>4. QED BY <1>1, <1>2, <1>3 DEF stored, byTrip, kept, row, route

LEMMA LineListed ==
  ASSUME NEW schedule, TablesShape(schedule), NEW e,
         Views!Lookup(Views!RouteIdByTrip(schedule), e.trip_id) # Views!None,
         Views!TripPosition(schedule, e).route_id
           = Views!Lookup(Views!RouteIdByTrip(schedule), e.trip_id),
         \/ Views!Lookup(Views!TripHeadsigns(schedule), e.trip_id) # Views!None
         \/ <<Views!TripPosition(schedule, e).route_id, e.direction>>
              \in DOMAIN Views!HeadsignsByRouteDir(schedule)
  PROVE  \E line \in Views!Lines(schedule) :
           /\ line.route_id = Views!TripPosition(schedule, e).route_id
           /\ line.trip_headsign = Views!TripPosition(schedule, e).trip_headsign
           /\ line.route_name = Views!TripPosition(schedule, e).route_name
<1> DEFINE t == e.trip_id
           event == Views!TripPosition(schedule, e)
           route == Views!LiveRoute(schedule, e)
           names == Views!ByRoute(schedule, "name")
           own == HeadsignOf(schedule, t)
           shared == Views!Lookup(Views!HeadsignsByRouteDir(schedule), <<route, e.direction>>)
           destination == e.stops[Len(e.stops)]
           stop == IF destination \in DOMAIN schedule.stops
                   THEN schedule.stops[destination].name ELSE Views!None
           byTrip == Views!Lookup(Views!ByTrip(schedule, "name"), t)
           LineOf(row) == [route_id |-> row.route_id, trip_headsign |-> row.name,
                           route_name |-> Views!Lookup(names, row.route_id)]
<1>1. /\ event.route_id = route
      /\ event.trip_headsign = Views!FirstKnown(<<own, shared, stop>>)
      /\ event.route_name = Views!FirstKnown(<<byTrip, Views!Lookup(names, route)>>)
  BY DictEntries DEF Views!TripPosition
<1>2. \A row \in Views!TripRows(schedule) : LineOf(row) \in Views!Lines(schedule)
  BY DEF Views!Lines
<1>3. route = RouteOf(schedule, t) /\ Stored(schedule, t)
  BY <1>1, DictEntries DEF RouteOf
<1> HIDE DEF event, names, shared, stop, byTrip, LineOf, own, route
<1>4. event.route_name = Views!Lookup(names, route)
  <2>1. byTrip = Views!Lookup(names, route)
    BY <1>3, FieldOfRoute DEF byTrip, names
  <2>2. Views!Lookup(names, route) # Views!None => HasValue(Views!Lookup(names, route))
    BY <1>3, FieldOfRoute DEF names
  <2>3. ~ HasValue(Views!None)
    BY DEF HasValue
  <2>4. QED BY <1>1, <2>1, <2>2, <2>3, FirstKnownOfTwo
<1>5. \E row \in Views!TripRows(schedule) : row.route_id = route /\ row.name = event.trip_headsign
  <2>1. CASE HasValue(own)
    <3> DEFINE row == Views!TripRow(schedule, t)
    <3>1. row \in Views!TripRows(schedule)
      BY <1>3, StoredTrip DEF Stored
    <3>2. row.route_id = route /\ row.name = own
      BY <1>3 DEF RouteOf, HeadsignOf, own
    <3>3. event.trip_headsign = own
      BY <1>1, <2>1, FirstKnownOfThree
    <3> HIDE DEF row
    <3>4. QED BY <3>1, <3>2, <3>3
  <2>2. CASE ~ HasValue(own)
    <3>1. own = Views!None
      <4>1. Views!TripRow(schedule, t) \in Views!TripRows(schedule)
        BY <1>3, StoredTrip DEF Stored
      <4>2. own = Views!TripRow(schedule, t).name
        BY <1>3 DEF HeadsignOf, own
      <4>3. QED BY <4>1, <4>2, <2>2 DEF TablesShape, HasValue
    <3>2. <<route, e.direction>> \in DOMAIN Views!HeadsignsByRouteDir(schedule)
      BY <3>1, <1>1, DictEntries DEF own, event
    <3>3. PICK row \in Views!TripRows(schedule) :
            /\ row.route_id = route /\ HasValue(row.name)
            /\ row.name = Views!HeadsignsByRouteDir(schedule)[<<route, e.direction>>]
      BY <3>2, HeadsignUnderRoute
    <3>4. shared = row.name
      BY <3>2, <3>3 DEF shared, Views!Lookup
    <3>5. event.trip_headsign = row.name
      BY <1>1, <2>2, <3>3, <3>4, FirstKnownOfThree
    <3>6. QED BY <3>3, <3>5
  <2>3. QED BY <2>1, <2>2
<1>6. PICK row \in Views!TripRows(schedule) :
        row.route_id = route /\ row.name = event.trip_headsign
  BY <1>5
<1>7. /\ LineOf(row).route_id = route /\ LineOf(row).trip_headsign = event.trip_headsign
      /\ LineOf(row).route_name = event.route_name
  BY <1>4, <1>6 DEF LineOf
<1>8. LineOf(row) \in Views!Lines(schedule)
  BY <1>2, <1>6
<1>9. QED BY <1>1, <1>7, <1>8 DEF event

(* A live entity names its trip with a string, which may be blank, and its *)
(* place is one of its stops.                                              *)
EntityShape(e) ==
  e.kind = "trip_update" =>
    /\ e.trip_id # Views!None
    /\ IsSeq(e.stops) /\ e.at \in 0..Len(e.stops)

ViewedFeedShape(i) ==
  /\ TablesShape(i.schedule)
  /\ IsSeq(i.feed)
  /\ \A n \in DOMAIN i.feed : EntityShape(i.feed[n])

(* Over any tables, the line filter lists the line of every trip on the    *)
(* map that it could list.                                                 *)
THEOREM LineFilterIsComplete ==
  ASSUME \A i \in Inputs : i.of = "viewed_feed" => ViewedFeedShape(i)
  PROVE  Spec => []LineFilterCovers
<1>1. input \in Inputs => LineFilterCovers
  <2> SUFFICES ASSUME input \in Inputs, input.of = "viewed_feed"
               PROVE  LineFilterCovers
    BY DEF LineFilterCovers
  <2>1. TablesShape(input.schedule)
    BY DEF ViewedFeedShape
  <2>2. QED BY <2>1, LineListed DEF LineFilterCovers
<1>2. QED BY <1>1, InputKept, PTL

-----------------------------------------------------------------------------

(* The visits of a stop, in order.                                         *)
VisitsOf(stops, stop) == {n \in DOMAIN stops : stops[n] = stop}

LEMMA VisitsEnumerated ==
  ASSUME NEW stops, IsSeq(stops), NEW stop
  PROVE  Enumerates(Trip!Occurrences(stops, stop), VisitsOf(stops, stop), Len(stops))
<1>1. Trip!Occurrences(stops, stop) = PlacesIn(VisitsOf(stops, stop), Len(stops))
  BY DEF Trip!Occurrences, Trip!PlacesIn, PlacesIn, VisitsOf
<1>2. QED BY <1>1, PlacesEnumerated DEF IsSeq

LEMMA EnumeratesIsSeq ==
  ASSUME NEW places, NEW P, NEW n \in Nat, Enumerates(places, P, n)
  PROVE  /\ IsSeq(places)
         /\ \A k \in DOMAIN places : places[k] \in 1..n /\ places[k] \in P
BY DEF Enumerates, IsSeq

(* The anchor is a scheduled stop, if there is one.                        *)
LEMMA AnchorIsStop ==
  ASSUME NEW schedule, IsSeq(schedule), NEW live, IsSeq(live), live # << >>
  PROVE  Trip!Anchor(schedule, live) \in 0..Len(schedule)
<1> DEFINE last == live[Len(live)]
           visits == Trip!Occurrences(schedule, last)
           reports == Trip!Occurrences(live, last)
<1>1. Trip!Anchor(schedule, live) = IF Len(visits) < Len(reports) THEN 0 ELSE visits[Len(reports)]
  BY DEF Trip!Anchor
<1>2. Len(live) \in DOMAIN live /\ live[Len(live)] = last
  BY DEF IsSeq
<1> HIDE DEF last, visits, reports
<1>3. /\ IsSeq(visits) /\ \A k \in DOMAIN visits : visits[k] \in 1..Len(schedule)
      /\ IsSeq(reports) /\ Enumerates(reports, VisitsOf(live, last), Len(live))
      /\ Len(schedule) \in Nat
  BY VisitsEnumerated, EnumeratesIsSeq DEF IsSeq, visits, reports
<1>4. Len(visits) \in Nat /\ DOMAIN visits = 1..Len(visits)
      /\ Len(reports) \in Nat /\ DOMAIN reports = 1..Len(reports)
  BY <1>3 DEF IsSeq
<1>5. Len(reports) > 0
  <2>1. Len(live) \in VisitsOf(live, last) /\ Len(live) \in 1..Len(live)
    BY <1>2 DEF VisitsOf, IsSeq
  <2>2. PICK k \in DOMAIN reports : reports[k] = Len(live)
    BY <2>1, <1>3 DEF Enumerates
  <2>3. QED BY <2>2, <1>4
<1>6. QED BY <1>1, <1>3, <1>4, <1>5

LEMMA TailIsSeq ==
  ASSUME NEW schedule, IsSeq(schedule), NEW live, IsSeq(live)
  PROVE  IsSeq(Trip!TailStops(schedule, live))
<1>1. CASE live = << >> \/ Trip!Anchor(schedule, live) = 0
  BY <1>1 DEF Trip!TailStops, IsSeq
<1>2. CASE live # << >> /\ Trip!Anchor(schedule, live) # 0
  <2> DEFINE a == Trip!Anchor(schedule, live)
  <2>1. a \in 0..Len(schedule) /\ Len(schedule) \in Nat
    BY <1>2, AnchorIsStop DEF IsSeq
  <2>2. PICK S : schedule \in Seq(S)
    BY DEF IsSeq
  <2>3. Trip!TailStops(schedule, live) = SubSeq(schedule, a + 1, Len(schedule))
    BY <1>2 DEF Trip!TailStops
  <2> HIDE DEF a
  <2>4. SubSeq(schedule, a + 1, Len(schedule)) \in Seq(S)
    BY <2>1, <2>2
  <2>5. QED BY <2>3, <2>4 DEF IsSeq
<1>3. QED BY <1>1, <1>2

(* A function on 1..n is a sequence.                                       *)
LEMMA FunctionIsSeq ==
  ASSUME NEW m \in Nat, NEW S, NEW f \in [1..m -> S]
  PROVE  f \in Seq(S) /\ Len(f) = m
OBVIOUS

LEMMA SelectionIsSeq ==
  ASSUME NEW seq, IsSeq(seq), NEW P
  PROVE  IsSeq(EntriesAt(seq, P))
<1> DEFINE places == PlacesIn(P, Len(seq))
<1>1. PICK S : seq \in Seq(S)
  BY DEF IsSeq
<1>2. Enumerates(places, P, Len(seq))
  BY <1>1, PlacesEnumerated
<1>3. /\ Len(places) \in Nat /\ DOMAIN places = 1..Len(places)
      /\ \A k \in DOMAIN places : places[k] \in 1..Len(seq)
  BY <1>2 DEF Enumerates
<1>4. EntriesAt(seq, P) = [k \in DOMAIN places |-> seq[places[k]]]
  BY DEF EntriesAt
<1> HIDE DEF places
<1>5. EntriesAt(seq, P) \in [1..Len(places) -> S]
  BY <1>1, <1>3, <1>4
<1>6. EntriesAt(seq, P) \in Seq(S)
  BY <1>3, <1>5, FunctionIsSeq
<1>7. QED BY <1>6 DEF IsSeq

-----------------------------------------------------------------------------

LEMMA TailOfPage ==
  ASSUME NEW schedule, NEW live
  PROVE  Views!Schedule!TailStops(schedule, live) = Trip!TailStops(schedule, live)
<1>1. \A stops, stop : Views!Schedule!Occurrences(stops, stop) = Trip!Occurrences(stops, stop)
  BY DEF Views!Schedule!Occurrences, Trip!Occurrences, Views!Schedule!PlacesIn, Trip!PlacesIn
<1>2. Views!Schedule!Anchor(schedule, live) = Trip!Anchor(schedule, live)
  BY <1>1 DEF Views!Schedule!Anchor, Trip!Anchor
<1>3. QED BY <1>2 DEF Views!Schedule!TailStops, Trip!TailStops

(* No other entity of the feed claims the identity of one of them.         *)
OnlyOne(feed, trip) ==
  \A n, k \in DOMAIN feed :
    Views!EntityTripId(feed[n]) = trip /\ Views!EntityTripId(feed[k]) = trip => n = k

NamedStops(e) == EntriesAt(e.stops, {n \in DOMAIN e.stops : e.stops[n] # Views!Blank})

(* The page of a trip is about the only entity with its identity.          *)
LEMMA PageOfEntity ==
  ASSUME NEW schedule, NEW feed, IsSeq(feed), NEW p \in DOMAIN feed,
         NEW e, e = feed[p], e.kind = "trip_update",
         NEW trip, trip = Views!EntityTripId(e)
  PROVE  LET page == Views!TripDetailPage(schedule, feed, trip)
             context == Views!ScheduleContext(schedule, trip)
             route == Views!DetailRoute(context, e)
             tail == Views!ScheduledTailStops(schedule, trip, NamedStops(e))
         IN  /\ page.status = 200
             /\ OnlyOne(feed, trip) =>
                  /\ page.route_id = route
                  /\ page.trip_headsign = context.trip.name
                  /\ page.route_name = context.route.name
                  /\ page.color = context.route.color
                  /\ page.text_color = context.route.text_color
                  /\ page.stops = Views!DetailStops(schedule, e, route, tail)
<1> DEFINE found == {n \in DOMAIN feed : feed[n].kind = "trip_update"
                                           /\ Views!EntityTripId(feed[n]) = trip}
           q == Views!Min(found)
           context == Views!ScheduleContext(schedule, trip)
           route == Views!DetailRoute(context, feed[q])
           tail == Views!ScheduledTailStops(schedule, trip, NamedStops(feed[q]))
           page == Views!TripDetailPage(schedule, feed, trip)
<1>1. p \in found
  OBVIOUS
<1>2. q \in found
  <2>1. found \subseteq Nat
    BY DEF IsSeq
  <2> HIDE DEF found
  <2>2. QED BY <1>1, <2>1, LeastPlace
<1>3. page = [status |-> 200, trip_id |-> trip, route_id |-> route,
              trip_headsign |-> context.trip.name,
              route_name |-> context.route.name,
              color |-> context.route.color, text_color |-> context.route.text_color,
              stops |-> Views!DetailStops(schedule, feed[q], route, tail)]
  <2> DEFINE live == Views!EntriesAt(feed[q].stops,
                       {n \in DOMAIN feed[q].stops : feed[q].stops[n] # Views!Blank})
  <2>1. live = NamedStops(feed[q])
    BY SameSelection DEF NamedStops
  <2>2. page = IF found = {} THEN Views!NotFound
               ELSE [status |-> 200, trip_id |-> trip, route_id |-> route,
                     trip_headsign |-> context.trip.name,
                     route_name |-> context.route.name,
                     color |-> context.route.color, text_color |-> context.route.text_color,
                     stops |-> Views!DetailStops(schedule, feed[q], route,
                                 Views!ScheduledTailStops(schedule, trip, live))]
    BY DEF Views!TripDetailPage
  <2> HIDE DEF found, q, page, live, route, context
  <2>3. QED BY <1>1, <2>1, <2>2
<1>4. ASSUME OnlyOne(feed, trip) PROVE feed[q] = e
  BY <1>2, <1>4 DEF OnlyOne
<1> HIDE DEF page, context, q
<1>5. QED BY <1>3, <1>4 DEF page, context

(* A stop of the page that the live entity names.                          *)
LiveStopShown(schedule, e, route, tail, at) ==
  LET stop == Views!DetailStops(schedule, e, route, tail)[at]
  IN  /\ stop.stop_id = e.stops[at]
      /\ stop.transfers = Views!IntraTransfers(schedule, e.stops[at]) \ {route}

LEMMA LiveStopOfPage ==
  ASSUME NEW schedule, NEW e, IsSeq(e.stops), NEW at \in DOMAIN e.stops, NEW route,
         NEW tail, IsSeq(tail)
  PROVE  LiveStopShown(schedule, e, route, tail, at)
<1> DEFINE Stop(id, live) == [stop_id |-> id, live |-> live,
                              transfers |-> Views!IntraTransfers(schedule, id) \ {route}]
           first == [n \in DOMAIN e.stops |-> Stop(e.stops[n], TRUE)]
           rest == [n \in DOMAIN tail |-> Stop(tail[n], FALSE)]
<1>1. Views!DetailStops(schedule, e, route, tail) = first \o rest
  BY DEF Views!DetailStops
<1>2. /\ Len(e.stops) \in Nat /\ DOMAIN e.stops = 1..Len(e.stops)
      /\ Len(tail) \in Nat /\ DOMAIN tail = 1..Len(tail)
  BY DEF IsSeq
<1> DEFINE S == {first[n] : n \in DOMAIN e.stops} \cup {rest[n] : n \in DOMAIN tail}
<1>3. /\ \A n \in DOMAIN e.stops : first[n] \in S
      /\ \A n \in DOMAIN tail : rest[n] \in S
      /\ first[at] = Stop(e.stops[at], TRUE)
  OBVIOUS
<1>4. /\ first = [n \in 1..Len(e.stops) |-> first[n]]
      /\ rest = [n \in 1..Len(tail) |-> rest[n]]
  BY <1>2
<1> HIDE DEF S, first, rest, Stop
<1>5. first \in Seq(S) /\ rest \in Seq(S) /\ Len(first) = Len(e.stops)
  <2>1. first \in [1..Len(e.stops) -> S] /\ rest \in [1..Len(tail) -> S]
    BY <1>2, <1>3, <1>4
  <2>2. QED BY <1>2, <2>1, FunctionIsSeq
<1>6. (first \o rest)[at] = first[at]
  BY <1>2, <1>5
<1>7. QED BY <1>1, <1>3, <1>6 DEF Stop, LiveStopShown

(* What the page shows of a trip and what the event does.                  *)
LEMMA PageAgreesWithEvent ==
  ASSUME NEW schedule, TablesShape(schedule), NEW e, e.trip_id # Views!None,
         e.trip_id = Views!Blank => e.id \notin Views!TripIds(schedule)
  PROVE  LET event == Views!TripPosition(schedule, e)
             context == Views!ScheduleContext(schedule, Views!EntityTripId(e))
         IN  /\ Views!DetailRoute(context, e) = event.route_id
             /\ context.trip.name # Views!None => context.trip.name = event.trip_headsign
             /\ context.route.name # Views!None =>
                  \E n \in Views!RowsOfRoute(schedule, RouteOf(schedule, e.trip_id)) :
                    event.route_name = schedule.routes[n].name
             /\ Views!None \notin {context.route.color, context.route.text_color} =>
                  \E n \in Views!RowsOfRoute(schedule, RouteOf(schedule, e.trip_id)) :
                    /\ event.color = schedule.routes[n].color
                    /\ event.text_color = schedule.routes[n].text_color
<1> DEFINE t == e.trip_id
           trip == Views!EntityTripId(e)
           event == Views!TripPosition(schedule, e)
           context == Views!ScheduleContext(schedule, trip)
           row == context.trip
           route == Views!LiveRoute(schedule, e)
           nameByTrip == Views!Lookup(Views!ByTrip(schedule, "name"), t)
           ColorByTrip(f) == Views!Lookup(Views!ByTrip(schedule, f), t)
           destination == e.stops[Len(e.stops)]
           stop == IF destination \in DOMAIN schedule.stops
                   THEN schedule.stops[destination].name ELSE Views!None
           shared == Views!Lookup(Views!HeadsignsByRouteDir(schedule), <<route, e.direction>>)
           nameOfRoute == Views!Lookup(Views!ByRoute(schedule, "name"), route)
           ColorOfRoute(f) == Views!Lookup(Views!ByRoute(schedule, f), route)
           ColorOfStop(f) == Views!Lookup(Views!ColorsByStop(schedule, f), destination)
<1>1. /\ event.route_id = route
      /\ event.trip_headsign = Views!FirstKnown(<<HeadsignOf(schedule, t), shared, stop>>)
      /\ event.route_name = Views!FirstKnown(<<nameByTrip, nameOfRoute>>)
      /\ event.color
           = Views!FirstKnown(<<ColorByTrip("color"), ColorOfRoute("color"), ColorOfStop("color")>>)
      /\ event.text_color
           = Views!FirstKnown(<<ColorByTrip("text_color"), ColorOfRoute("text_color"),
                                ColorOfStop("text_color")>>)
  BY DictEntries DEF Views!TripPosition
<1>2. route = Views!FirstKnown(<<e.route_id, RouteOf(schedule, t)>>)
  BY DictEntries DEF Views!LiveRoute
<1>3. /\ row = IF Stored(schedule, trip) THEN Views!TripRow(schedule, trip) ELSE Views!NoRow
      /\ context.route = Views!RouteRow(schedule, row.route_id)
  BY DEF Views!ScheduleContext, Stored
<1>4. Views!DetailRoute(context, e) = Views!FirstKnown(<<e.route_id, row.route_id>>)
  BY DEF Views!DetailRoute
<1>5. trip = Views!FirstKnown(<<t, e.id>>)
  BY DEF Views!EntityTripId
<1> HIDE DEF event, context, route, nameByTrip, ColorByTrip, stop, shared, nameOfRoute,
             ColorOfRoute, ColorOfStop, trip
(* The page reads the rows of the trip that the dicts are asked about.     *)
<1>6. ~ Stored(schedule, Views!None) /\ ~ Stored(schedule, Views!Blank)
  BY DEF Stored, TablesShape, Views!TripIds, HasValue
<1>7. \/ trip = t
      \/ ~ Stored(schedule, trip) /\ ~ Stored(schedule, t)
  <2>1. CASE t # Views!Blank
    <3>1. HasValue(t)
      BY <2>1 DEF HasValue
    <3>2. QED BY <3>1, <1>5, FirstKnownOfTwo
  <2>2. CASE t = Views!Blank
    <3>1. trip = e.id \/ trip = Views!None
      <4>1. ~ HasValue(t)
        BY <2>2 DEF HasValue
      <4>2. QED BY <4>1, <1>5, FirstKnownOfTwo
    <3>2. QED BY <3>1, <2>2, <1>6 DEF Stored
  <2>3. QED BY <2>1, <2>2
<1>8. row.route_id = RouteOf(schedule, t) /\ row.name = HeadsignOf(schedule, t)
  BY <1>3, <1>7 DEF RouteOf, HeadsignOf, Views!NoRow
<1>9. ASSUME row.name # Views!None PROVE row.name = event.trip_headsign
  <2>1. Stored(schedule, t) /\ row.name = Views!TripRow(schedule, t).name
    BY <1>8, <1>9 DEF HeadsignOf
  <2>2. HasValue(row.name)
    BY <2>1, <1>9, StoredTrip DEF Stored, TablesShape, HasValue
  <2>3. QED BY <2>2, <1>1, <1>8, FirstKnownOfThree
(* The rows of the trip's route.                                           *)
<1> DEFINE own == RouteOf(schedule, t)
           rows == Views!RowsOfRoute(schedule, own)
           shown == context.route
<1>10. shown = IF own \in Views!RouteIds(schedule)
               THEN schedule.routes[CHOOSE n \in rows : TRUE] ELSE Views!NoRow
  BY <1>3, <1>8 DEF Views!RouteRow
<1>11. ASSUME shown # Views!NoRow
       PROVE  Stored(schedule, t) /\ \E n \in rows : shown = schedule.routes[n]
  <2>1. own \in Views!RouteIds(schedule)
    BY <1>10, <1>11
  <2>2. rows # {} /\ own # Views!None
    BY <2>1 DEF Views!RouteIds, Views!RowsOfRoute, TablesShape
  <2> HIDE DEF rows, shown
  <2>3. \E n \in rows : shown = schedule.routes[n]
    BY <1>10, <2>1, <2>2
  <2>4. QED BY <2>2, <2>3 DEF RouteOf
<1>12. ASSUME shown.name # Views!None
       PROVE  \E n \in rows : event.route_name = schedule.routes[n].name
  <2>1. Stored(schedule, t) /\ \E n \in rows : shown = schedule.routes[n]
    BY <1>11, <1>12 DEF Views!NoRow
  <2>2. Views!RowsKept(schedule, own, "name") # {}
    BY <2>1, <1>12 DEF Views!RowsKept, Views!Keeps
  <2>3. /\ nameByTrip = RowTaken(schedule, own, "name").name /\ HasValue(nameByTrip)
        /\ Views!Max(Views!RowsKept(schedule, own, "name")) \in rows
    BY <2>1, <2>2, FieldOfRoute, TakenRow DEF nameByTrip
  <2>4. event.route_name = nameByTrip
    BY <2>3, <1>1, FirstKnownOfTwo
  <2>5. QED BY <2>3, <2>4 DEF RowTaken
<1>13. ASSUME Views!None \notin {shown.color, shown.text_color}
       PROVE  \E n \in rows : /\ event.color = schedule.routes[n].color
                               /\ event.text_color = schedule.routes[n].text_color
  <2>1. Stored(schedule, t) /\ \E n \in rows : shown = schedule.routes[n]
    BY <1>11, <1>13 DEF Views!NoRow
  <2>2. /\ Views!RowsKept(schedule, own, "color") # {}
        /\ Views!RowsKept(schedule, own, "text_color") = Views!RowsKept(schedule, own, "color")
    BY <2>1, <1>13 DEF Views!RowsKept, Views!Keeps
  <2>3. /\ ColorByTrip("color") = RowTaken(schedule, own, "color").color
        /\ HasValue(ColorByTrip("color"))
        /\ Views!Max(Views!RowsKept(schedule, own, "color")) \in rows
    BY <2>1, <2>2, FieldOfRoute, TakenRow DEF ColorByTrip
  <2>4. /\ ColorByTrip("text_color") = RowTaken(schedule, own, "text_color").text_color
        /\ HasValue(ColorByTrip("text_color"))
    BY <2>1, <2>2, FieldOfRoute DEF ColorByTrip
  <2>5. event.color = ColorByTrip("color")
    BY <2>3, <1>1, FirstKnownOfThree
  <2>6. event.text_color = ColorByTrip("text_color")
    BY <2>4, <1>1, FirstKnownOfThree
  <2>7. QED BY <2>2, <2>3, <2>4, <2>5, <2>6 DEF RowTaken
<1>14. Views!DetailRoute(context, e) = event.route_id
  BY <1>1, <1>2, <1>4, <1>8
<1> HIDE DEF rows
<1>15. QED BY <1>9, <1>12, <1>13, <1>14 DEF event, context, trip, rows

(* The rows of the stored route of a trip.                                 *)
OfRoute(schedule, e) == Views!RowsOfRoute(schedule, RouteOf(schedule, e.trip_id))

(* Over any tables and feeds, the page of a trip agrees with its event.    *)
THEOREM DetailAgreesWithStream ==
  ASSUME \A i \in Inputs : i.of = "viewed_feed" => ViewedFeedShape(i)
  PROVE  Spec => []DetailMatchesStream
<1>1. input \in Inputs => DetailMatchesStream
  <2> SUFFICES ASSUME input \in Inputs, input.of = "viewed_feed",
                      NEW n \in DOMAIN Views!Emitted(input.feed)
               PROVE  LET feed == input.feed
                          schedule == input.schedule
                          e == Views!Emitted(feed)[n]
                          event == Views!TripPosition(schedule, e)
                          page == Views!TripDetailPage(schedule, feed, event.trip_id)
                      IN  /\ page.status = 200
                          /\ /\ \A m, k \in DOMAIN feed :
                                    Views!EntityTripId(feed[m]) = Views!EntityTripId(e)
                                    /\ Views!EntityTripId(feed[k]) = Views!EntityTripId(e) => m = k
                             /\ e.trip_id = Views!Blank => e.id \notin Views!TripIds(schedule)
                             => /\ page.route_id = event.route_id
                                /\ page.stops[e.at].stop_id = event.stop_id
                                /\ page.stops[e.at].transfers = event.transfers
                                /\ page.trip_headsign # Views!None =>
                                     page.trip_headsign = event.trip_headsign
                                /\ page.route_name # Views!None =>
                                     \E k \in OfRoute(schedule, e) :
                                       event.route_name = schedule.routes[k].name
                                /\ Views!None \notin {page.color, page.text_color} =>
                                     \E k \in OfRoute(schedule, e) :
                                       /\ event.color = schedule.routes[k].color
                                       /\ event.text_color = schedule.routes[k].text_color
    <3>1. \A schedule, e :
            Views!RowsOfRoute(schedule, Views!Lookup(Views!RouteIdByTrip(schedule), e.trip_id))
              = OfRoute(schedule, e)
      BY DEF OfRoute, Views!Lookup, Views!RouteIdByTrip, RouteOf, Stored
    <3> HIDE DEF OfRoute
    <3>2. QED BY <3>1, SMTT(60) DEF DetailMatchesStream
  <2> DEFINE feed == input.feed
             schedule == input.schedule
             e == Views!Emitted(feed)[n]
             trip == Views!EntityTripId(e)
             event == Views!TripPosition(schedule, e)
             page == Views!TripDetailPage(schedule, feed, trip)
             context == Views!ScheduleContext(schedule, trip)
             route == Views!DetailRoute(context, e)
             tail == Views!ScheduledTailStops(schedule, trip, NamedStops(e))
  <2>1. TablesShape(schedule) /\ IsSeq(feed) /\ \A k \in DOMAIN feed : EntityShape(feed[k])
    BY DEF ViewedFeedShape
  <2>2. PICK p \in DOMAIN feed : e = feed[p] /\ e.kind = "trip_update" /\ e.at # 0
    BY <2>1, ShownEntity
  <2>3. e.trip_id # Views!None /\ IsSeq(e.stops) /\ e.at \in DOMAIN e.stops
    BY <2>1, <2>2 DEF EntityShape, IsSeq
  <2>4. /\ event.trip_id = trip /\ event.stop_id = e.stops[e.at]
        /\ event.transfers = Views!IntraTransfers(schedule, e.stops[e.at]) \ {event.route_id}
    BY DEF Views!TripPosition
  <2> HIDE DEF feed, schedule, e, trip, event, page, context, route, tail
  <2>5. /\ page.status = 200
        /\ OnlyOne(feed, trip) =>
             /\ page.route_id = route
             /\ page.trip_headsign = context.trip.name
             /\ page.route_name = context.route.name
             /\ page.color = context.route.color
             /\ page.text_color = context.route.text_color
             /\ page.stops = Views!DetailStops(schedule, e, route, tail)
    <3>1. IsSeq(feed) /\ trip = Views!EntityTripId(e)
      BY <2>1 DEF trip
    <3>2. QED BY <2>2, <3>1, PageOfEntity DEF page, context, route, tail
  <2>6. ASSUME e.trip_id = Views!Blank => e.id \notin Views!TripIds(schedule)
        PROVE  /\ route = event.route_id
               /\ context.trip.name # Views!None => context.trip.name = event.trip_headsign
               /\ context.route.name # Views!None =>
                    \E k \in OfRoute(schedule, e) : event.route_name = schedule.routes[k].name
               /\ Views!None \notin {context.route.color, context.route.text_color} =>
                    \E k \in OfRoute(schedule, e) :
                      /\ event.color = schedule.routes[k].color
                      /\ event.text_color = schedule.routes[k].text_color
    BY <2>1, <2>3, <2>6, PageAgreesWithEvent DEF route, context, trip, event, OfRoute
  <2>7. IsSeq(tail)
    <3>1. IsSeq(NamedStops(e))
      BY <2>3, SelectionIsSeq DEF NamedStops
    <3>2. CASE NamedStops(e) = << >> \/ trip \notin DOMAIN schedule.stop_times
      BY <3>2 DEF tail, Views!ScheduledTailStops, IsSeq
    <3>3. CASE NamedStops(e) # << >> /\ trip \in DOMAIN schedule.stop_times
      <4>1. IsSeq(schedule.stop_times[trip])
        BY <2>1, <3>3 DEF TablesShape
      <4>2. tail = Trip!TailStops(schedule.stop_times[trip], NamedStops(e))
        BY <3>3, TailOfPage DEF tail, Views!ScheduledTailStops
      <4>3. QED BY <3>1, <4>1, <4>2, TailIsSeq
    <3>4. QED BY <3>2, <3>3
  <2>8. /\ Views!DetailStops(schedule, e, route, tail)[e.at].stop_id = e.stops[e.at]
        /\ Views!DetailStops(schedule, e, route, tail)[e.at].transfers
              = Views!IntraTransfers(schedule, e.stops[e.at]) \ {route}
    <3> DEFINE at == e.at
    <3>1. IsSeq(e.stops) /\ at \in DOMAIN e.stops
      BY <2>3
    <3> HIDE DEF at
    <3>2. LiveStopShown(schedule, e, route, tail, at)
      BY <2>7, <3>1, LiveStopOfPage
    <3>3. QED BY <3>2 DEF LiveStopShown, at
  <2>9. OnlyOne(feed, trip) /\ (e.trip_id = Views!Blank => e.id \notin Views!TripIds(schedule))
        => /\ page.route_id = event.route_id
           /\ page.stops[e.at].stop_id = event.stop_id
           /\ page.stops[e.at].transfers = event.transfers
           /\ page.trip_headsign # Views!None => page.trip_headsign = event.trip_headsign
           /\ page.route_name # Views!None =>
                \E k \in OfRoute(schedule, e) : event.route_name = schedule.routes[k].name
           /\ Views!None \notin {page.color, page.text_color} =>
                \E k \in OfRoute(schedule, e) :
                  /\ event.color = schedule.routes[k].color
                  /\ event.text_color = schedule.routes[k].text_color
    BY <2>4, <2>5, <2>6, <2>8
  <2>10. page = Views!TripDetailPage(schedule, feed, event.trip_id)
    BY <2>4 DEF page
  <2> HIDE DEF page
  <2>11. LET shown == Views!TripDetailPage(schedule, feed, event.trip_id)
         IN  /\ shown.status = 200
             /\ OnlyOne(feed, trip)
                 /\ (e.trip_id = Views!Blank => e.id \notin Views!TripIds(schedule))
                 => /\ shown.route_id = event.route_id
                    /\ shown.stops[e.at].stop_id = event.stop_id
                    /\ shown.stops[e.at].transfers = event.transfers
                    /\ shown.trip_headsign # Views!None => shown.trip_headsign = event.trip_headsign
                    /\ shown.route_name # Views!None =>
                         \E k \in OfRoute(schedule, e) : event.route_name = schedule.routes[k].name
                    /\ Views!None \notin {shown.color, shown.text_color} =>
                         \E k \in OfRoute(schedule, e) :
                           /\ event.color = schedule.routes[k].color
                           /\ event.text_color = schedule.routes[k].text_color
    BY <2>5, <2>9, <2>10
  <2>12. QED BY <2>11, ZenonT(30) DEF event, trip, e, feed, schedule, OnlyOne
<1>2. QED BY <1>1, InputKept, PTL

-----------------------------------------------------------------------------

(* Rows as the reader hands them over: a stop_sequence is a number or      *)
(* missing.                                                                *)
ScannedRows(rows) ==
  IsSeq(rows) /\ \A n \in DOMAIN rows : rows[n].seq \in Nat \cup {Rows!NoNumber}

NamesStop(row) == row.seq # Rows!NoNumber /\ row.stop # Rows!NoText
NamesHeadsign(row) == row.seq # Rows!NoNumber /\ row.headsign # Rows!NoText

(* What the scan knows of the two ends after n rows.                       *)
LatestOf(found, rows, n) ==
  \/ /\ \A k \in 1..n : ~ NamesStop(rows[k])
     /\ found.max = Rows!NoNumber /\ found.destination = Rows!NoText
  \/ \E k \in 1..n :
       /\ NamesStop(rows[k])
       /\ found.max = rows[k].seq /\ found.destination = rows[k].stop
       /\ \A j \in 1..n : NamesStop(rows[j]) => rows[j].seq <= rows[k].seq

EarliestOf(found, rows, n) ==
  \/ /\ \A k \in 1..n : ~ NamesHeadsign(rows[k])
     /\ found.min = Rows!NoNumber /\ found.headsign = Rows!NoText
  \/ \E k \in 1..n :
       /\ NamesHeadsign(rows[k])
       /\ found.min = rows[k].seq /\ found.headsign = rows[k].headsign
       /\ \A j \in 1..n : NamesHeadsign(rows[j]) => rows[j].seq >= rows[k].seq

(* The scan's record: whose texts are those of the rows.                   *)
ScanRecords(rows) ==
  [max : Nat \cup {Rows!NoNumber}, min : Nat \cup {Rows!NoNumber},
   destination : {rows[n].stop : n \in DOMAIN rows} \cup {Rows!NoText},
   headsign : {rows[n].headsign : n \in DOMAIN rows} \cup {Rows!NoText}]

(* What a row does to each end.                                            *)
LEMMA ScanRowEffect ==
  ASSUME NEW rows, ScannedRows(rows), NEW found \in ScanRecords(rows), NEW n \in DOMAIN rows
  PROVE  LET row == rows[n]
             next == Rows!ScanRow(found, row)
         IN  /\ next \in ScanRecords(rows)
             /\ IF NamesStop(row) /\ (found.max = Rows!NoNumber \/ row.seq > found.max)
                THEN next.max = row.seq /\ next.destination = row.stop
                ELSE next.max = found.max /\ next.destination = found.destination
             /\ IF NamesHeadsign(row) /\ (found.min = Rows!NoNumber \/ row.seq < found.min)
                THEN next.min = row.seq /\ next.headsign = row.headsign
                ELSE next.min = found.min /\ next.headsign = found.headsign
<1> DEFINE row == rows[n]
           later == row.stop # Rows!NoText /\ Rows!IsLater(row.seq, found.max)
           ends == IF later THEN [found EXCEPT !.max = row.seq, !.destination = row.stop]
                   ELSE found
           earlier == row.headsign # Rows!NoText /\ Rows!IsEarlier(row.seq, ends.min)
           next == IF earlier THEN [ends EXCEPT !.min = row.seq, !.headsign = row.headsign]
                   ELSE ends
<1>1. Rows!ScanRow(found, row) = next
  BY DEF Rows!ScanRow
<1>2. row.seq \in Nat \cup {Rows!NoNumber}
  BY DEF ScannedRows
<1>3. /\ ends \in ScanRecords(rows)
      /\ ends.min = found.min /\ ends.headsign = found.headsign
      /\ IF later THEN ends.max = row.seq /\ ends.destination = row.stop
         ELSE ends.max = found.max /\ ends.destination = found.destination
  <2> HIDE DEF later
  <2>1. QED BY <1>2 DEF ScanRecords
<1> HIDE DEF ends
<1>4. /\ next \in ScanRecords(rows)
      /\ next.max = ends.max /\ next.destination = ends.destination
      /\ IF earlier THEN next.min = row.seq /\ next.headsign = row.headsign
         ELSE next.min = ends.min /\ next.headsign = ends.headsign
  <2> HIDE DEF earlier
  <2>1. QED BY <1>2, <1>3 DEF ScanRecords
<1> HIDE DEF next
<1>5. /\ later <=> NamesStop(row) /\ (found.max = Rows!NoNumber \/ row.seq > found.max)
      /\ earlier <=> NamesHeadsign(row) /\ (found.min = Rows!NoNumber \/ row.seq < found.min)
  BY <1>3 DEF NamesStop, NamesHeadsign, Rows!IsLater, Rows!IsEarlier
<1>6. QED BY <1>1, <1>3, <1>4, <1>5

LEMMA ScanExists ==
  ASSUME NEW rows, ScannedRows(rows)
  PROVE  \E f : /\ f \in [0..Len(rows) -> ScanRecords(rows)]
                /\ f[0] = Rows!NothingScanned
                /\ \A n \in 1..Len(rows) : f[n] = Rows!ScanRow(f[n - 1], rows[n])
                /\ Rows!ScanStopTimes(rows) = f[Len(rows)]
<1> DEFINE m == Len(rows)
           V == ScanRecords(rows)
           step == [s \in (1..m) \X V |-> Rows!ScanRow(s[2], rows[s[1]])]
           Found(f) == f = [n \in 0..m |-> IF n = 0 THEN Rows!NothingScanned
                                           ELSE Rows!ScanRow(f[n - 1], rows[n])]
           found == CHOOSE f : Found(f)
<1>1. m \in Nat /\ DOMAIN rows = 1..m
  BY DEF ScannedRows, IsSeq
<1>2. Rows!NothingScanned \in V
  BY DEF Rows!NothingScanned, ScanRecords
<1> HIDE DEF V
<1>3. ASSUME NEW n \in 1..m, NEW r \in V PROVE Rows!ScanRow(r, rows[n]) \in V
  BY <1>1, ScanRowEffect DEF V
<1> HIDE DEF m
<1>4. step \in [(1..m) \X V -> V] /\ \A n \in 1..m, r \in V : step[<<n, r>>] = Rows!ScanRow(r, rows[n])
  BY <1>3
<1> HIDE DEF step
<1>5. PICK f : Solves(f, m, V, Rows!NothingScanned, step)
  BY <1>1, <1>2, <1>4, Recursion
<1>6. /\ f \in [0..m -> V] /\ f[0] = Rows!NothingScanned
      /\ \A n \in 1..m : f[n] = step[<<n, f[n - 1]>>]
  BY <1>5 DEF Solves
<1>7. ASSUME NEW n \in 1..m PROVE f[n] = Rows!ScanRow(f[n - 1], rows[n])
  <2>1. n - 1 \in 0..m
    BY <1>1
  <2>2. f[n - 1] \in V
    BY <2>1, <1>6
  <2>3. QED BY <2>2, <1>4, <1>6
<1>8. Found(f)
  <2>1. ASSUME NEW n \in 0..m
        PROVE  f[n] = IF n = 0 THEN Rows!NothingScanned ELSE Rows!ScanRow(f[n - 1], rows[n])
    BY <1>1, <1>6, <1>7
  <2>2. QED BY <1>6, <2>1
<1>9. Found(found)
  <2> HIDE DEF Found
  <2>1. QED BY <1>8
<1>10. found[m] = Rows!ScanStopTimes(rows)
  BY DEF Rows!ScanStopTimes, m
<1> HIDE DEF found
<1>11. \A n \in 0..m : found[n] = IF n = 0 THEN Rows!NothingScanned
                                  ELSE Rows!ScanRow(found[n - 1], rows[n])
  BY <1>9
<1> HIDE DEF Found
<1>12. \A n \in 0..m : found[n] = f[n]
  <2> DEFINE Good == {n \in 0..m : found[n] = f[n]}
  <2>1. 0 \in Good
    BY <1>1, <1>6, <1>11
  <2>2. ASSUME NEW n \in 1..m, n - 1 \in Good PROVE n \in Good
    <3>1. n \in 0..m /\ n # 0 /\ found[n - 1] = f[n - 1]
      BY <2>2
    <3>2. QED BY <3>1, <1>7, <1>11
  <2>3. \A n \in 0..m : n \in Good
    <3> HIDE DEF Good
    <3>1. QED BY <1>1, <2>1, <2>2, UpTo
  <2>4. QED BY <2>3
<1>13. found[m] = f[m]
  BY <1>1, <1>12
<1>14. QED BY <1>6, <1>7, <1>10, <1>13 DEF V, m

(* One more row.                                                           *)
LEMMA ScanStep ==
  ASSUME NEW rows, ScannedRows(rows), NEW found \in ScanRecords(rows), NEW n \in DOMAIN rows,
         LatestOf(found, rows, n - 1), EarliestOf(found, rows, n - 1)
  PROVE  /\ LatestOf(Rows!ScanRow(found, rows[n]), rows, n)
         /\ EarliestOf(Rows!ScanRow(found, rows[n]), rows, n)
<1> DEFINE row == rows[n]
           next == Rows!ScanRow(found, row)
<1>1. /\ IF NamesStop(row) /\ (found.max = Rows!NoNumber \/ row.seq > found.max)
         THEN next.max = row.seq /\ next.destination = row.stop
         ELSE next.max = found.max /\ next.destination = found.destination
      /\ IF NamesHeadsign(row) /\ (found.min = Rows!NoNumber \/ row.seq < found.min)
         THEN next.min = row.seq /\ next.headsign = row.headsign
         ELSE next.min = found.min /\ next.headsign = found.headsign
  BY ScanRowEffect
<1>2. /\ n \in Nat /\ n >= 1 /\ \A k \in 1..(n - 1) : k \in 1..n /\ k \in DOMAIN rows
      /\ n \in 1..n /\ \A k \in 1..n : k = n \/ k \in 1..(n - 1)
  BY DEF ScannedRows, IsSeq
<1>3. /\ \A k \in 1..n : rows[k].seq \in Nat \cup {Rows!NoNumber}
      /\ \A k \in 1..n : NamesStop(rows[k]) \/ NamesHeadsign(rows[k]) => rows[k].seq \in Nat
  BY <1>2 DEF ScannedRows, NamesStop, NamesHeadsign
<1>4. \A k \in Nat : k # Rows!NoNumber
  BY DEF Rows!NoNumber
<1> HIDE DEF next
<1>5. LatestOf(next, rows, n)
  <2>1. CASE /\ \A k \in 1..(n - 1) : ~ NamesStop(rows[k])
             /\ found.max = Rows!NoNumber /\ found.destination = Rows!NoText
    <3>1. CASE NamesStop(row)
      BY <2>1, <3>1, <1>1, <1>2, <1>3 DEF LatestOf
    <3>2. CASE ~ NamesStop(row)
      BY <2>1, <3>2, <1>1, <1>2 DEF LatestOf
    <3>3. QED BY <3>1, <3>2
  <2>2. CASE \E k \in 1..(n - 1) :
               /\ NamesStop(rows[k])
               /\ found.max = rows[k].seq /\ found.destination = rows[k].stop
               /\ \A j \in 1..(n - 1) : NamesStop(rows[j]) => rows[j].seq <= rows[k].seq
    <3>1. PICK k \in 1..(n - 1) :
               /\ NamesStop(rows[k])
               /\ found.max = rows[k].seq /\ found.destination = rows[k].stop
               /\ \A j \in 1..(n - 1) : NamesStop(rows[j]) => rows[j].seq <= rows[k].seq
      BY <2>2
    <3>2. k \in 1..n /\ rows[k].seq \in Nat /\ found.max # Rows!NoNumber
      BY <3>1, <1>2, <1>3, <1>4
    <3>3. CASE NamesStop(row) /\ row.seq > found.max
      <4>1. next.max = row.seq /\ next.destination = row.stop
        BY <3>3, <1>1
      <4>2. \A j \in 1..n : NamesStop(rows[j]) => rows[j].seq <= row.seq
        BY <3>1, <3>2, <3>3, <1>2, <1>3
      <4>3. QED BY <3>3, <4>1, <4>2, <1>2 DEF LatestOf
    <3>4. CASE ~ (NamesStop(row) /\ row.seq > found.max)
      <4>1. next.max = rows[k].seq /\ next.destination = rows[k].stop
        BY <3>1, <3>2, <3>4, <1>1
      <4>2. \A j \in 1..n : NamesStop(rows[j]) => rows[j].seq <= rows[k].seq
        BY <3>1, <3>2, <3>4, <1>2, <1>3
      <4>3. QED BY <3>1, <3>2, <4>1, <4>2 DEF LatestOf
    <3>5. QED BY <3>3, <3>4
  <2>3. QED BY <2>1, <2>2 DEF LatestOf
<1>6. EarliestOf(next, rows, n)
  <2>1. CASE /\ \A k \in 1..(n - 1) : ~ NamesHeadsign(rows[k])
             /\ found.min = Rows!NoNumber /\ found.headsign = Rows!NoText
    <3>1. CASE NamesHeadsign(row)
      BY <2>1, <3>1, <1>1, <1>2, <1>3 DEF EarliestOf
    <3>2. CASE ~ NamesHeadsign(row)
      BY <2>1, <3>2, <1>1, <1>2 DEF EarliestOf
    <3>3. QED BY <3>1, <3>2
  <2>2. CASE \E k \in 1..(n - 1) :
               /\ NamesHeadsign(rows[k])
               /\ found.min = rows[k].seq /\ found.headsign = rows[k].headsign
               /\ \A j \in 1..(n - 1) : NamesHeadsign(rows[j]) => rows[j].seq >= rows[k].seq
    <3>1. PICK k \in 1..(n - 1) :
               /\ NamesHeadsign(rows[k])
               /\ found.min = rows[k].seq /\ found.headsign = rows[k].headsign
               /\ \A j \in 1..(n - 1) : NamesHeadsign(rows[j]) => rows[j].seq >= rows[k].seq
      BY <2>2
    <3>2. k \in 1..n /\ rows[k].seq \in Nat /\ found.min # Rows!NoNumber
      BY <3>1, <1>2, <1>3, <1>4
    <3>3. CASE NamesHeadsign(row) /\ row.seq < found.min
      <4>1. next.min = row.seq /\ next.headsign = row.headsign
        BY <3>3, <1>1
      <4>2. \A j \in 1..n : NamesHeadsign(rows[j]) => rows[j].seq >= row.seq
        BY <3>1, <3>2, <3>3, <1>2, <1>3
      <4>3. QED BY <3>3, <4>1, <4>2, <1>2 DEF EarliestOf
    <3>4. CASE ~ (NamesHeadsign(row) /\ row.seq < found.min)
      <4>1. next.min = rows[k].seq /\ next.headsign = rows[k].headsign
        BY <3>1, <3>2, <3>4, <1>1
      <4>2. \A j \in 1..n : NamesHeadsign(rows[j]) => rows[j].seq >= rows[k].seq
        BY <3>1, <3>2, <3>4, <1>2, <1>3
      <4>3. QED BY <3>1, <3>2, <4>1, <4>2 DEF EarliestOf
    <3>5. QED BY <3>3, <3>4
  <2>3. QED BY <2>1, <2>2 DEF EarliestOf
<1>7. QED BY <1>5, <1>6 DEF next

(* "destination" and "headsign" of a trip of any number of rows, in any    *)
(* order, are those of its ends: by induction on the rows scanned so far,  *)
(* of which the scan's record always describes both ends.                  *)
THEOREM ScanKeepsBothEnds ==
  ASSUME \A i \in Inputs : i.of = "trip_scan" => ScannedRows(i.rows)
  PROVE  Spec => []ScanFindsBothEnds
<1>1. ASSUME input \in Inputs, input.of = "trip_scan"
      PROVE  ScanFindsBothEnds
  <2> DEFINE rows == input.rows
             m == Len(rows)
             found == Rows!ScanStopTimes(rows)
             numbered == {n \in DOMAIN rows : rows[n].seq # Rows!NoNumber}
             stops == {n \in numbered : rows[n].stop # Rows!NoText}
             signed == {n \in numbered : rows[n].headsign # Rows!NoText}
  <2>1. ScannedRows(rows)
    BY <1>1
  <2>2. m \in Nat /\ DOMAIN rows = 1..m
    BY <2>1 DEF ScannedRows, IsSeq
  <2> HIDE DEF m, rows, found
  <2>3. /\ \A n \in 1..m : n \in stops <=> NamesStop(rows[n])
        /\ \A n \in 1..m : n \in signed <=> NamesHeadsign(rows[n])
        /\ stops \subseteq 1..m /\ signed \subseteq 1..m
    BY <2>2 DEF NamesStop, NamesHeadsign
  <2> HIDE DEF stops, signed
  <2>4. PICK f : /\ f \in [0..m -> ScanRecords(rows)]
                 /\ f[0] = Rows!NothingScanned
                 /\ \A n \in 1..m : f[n] = Rows!ScanRow(f[n - 1], rows[n])
                 /\ found = f[m]
    BY <2>1, ScanExists DEF m, found
  <2> DEFINE Good == {n \in 0..m : LatestOf(f[n], rows, n) /\ EarliestOf(f[n], rows, n)}
  <2>5. 0 \in Good
    BY <2>2, <2>4 DEF LatestOf, EarliestOf, Rows!NothingScanned
  <2>6. ASSUME NEW n \in 1..m, n - 1 \in Good PROVE n \in Good
    <3>1. f[n - 1] \in ScanRecords(rows) /\ n \in DOMAIN rows /\ n \in 0..m
      BY <2>2, <2>4, <2>6
    <3>2. LatestOf(f[n - 1], rows, n - 1) /\ EarliestOf(f[n - 1], rows, n - 1)
      BY <2>6
    <3>3. f[n] = Rows!ScanRow(f[n - 1], rows[n])
      BY <2>4
    <3>4. LatestOf(f[n], rows, n) /\ EarliestOf(f[n], rows, n)
      BY <2>1, <3>1, <3>2, <3>3, ScanStep
    <3>5. QED BY <3>1, <3>4
  <2>7. \A n \in 0..m : n \in Good
    <3> HIDE DEF Good
    <3>1. QED BY <2>2, <2>5, <2>6, UpTo
  <2>8. LatestOf(found, rows, m) /\ EarliestOf(found, rows, m)
    BY <2>2, <2>4, <2>7
  <2>9. IF stops = {} THEN found.destination = Rows!NoText
        ELSE \E n \in stops : /\ found.destination = rows[n].stop
                              /\ \A k \in stops : rows[k].seq <= rows[n].seq
    BY <2>3, <2>8 DEF LatestOf
  <2>10. IF signed = {} THEN found.headsign = Rows!NoText
         ELSE \E n \in signed : /\ found.headsign = rows[n].headsign
                                /\ \A k \in signed : rows[k].seq >= rows[n].seq
    BY <2>3, <2>8 DEF EarliestOf
  <2>11. QED BY <2>9, <2>10 DEF ScanFindsBothEnds, rows, found, stops, signed
<1>2. input \in Inputs => ScanFindsBothEnds
  BY <1>1 DEF ScanFindsBothEnds
<1>3. QED BY <1>2, InputKept, PTL

-----------------------------------------------------------------------------

(* The parts of a combined feed: entities of agencies, with their own ids. *)
(* An entity of a trip has an id of its own, an alert informs of something *)
(* and its ids, which the source does not prefix, do not look as if it did.*)
Ids == Seq(STRING) \ {<< >>}

TripEntities ==
  [kind : {"trip_update"}, id : Ids \ {Regional!Blank}, route_id : Ids, trip_id : Ids,
   stop_ids : Seq(Ids)]

InformedEntities == [agency_id : STRING, route_id : Ids, trip_id : Ids, stop_id : Ids]

AlertEntities == [kind : {"alert"}, id : Ids, informed : Seq(InformedEntities) \ {<< >>}]

PartShape(p) ==
  /\ p.agency \in STRING \ {Regional!None, Regional!Empty}
  /\ \/ p.entity \in TripEntities
     \/ /\ p.entity \in AlertEntities
        /\ \A n \in DOMAIN p.entity.informed :
             p.agency \notin {Regional!AgencyCode(p.entity.informed[n].route_id),
                              Regional!AgencyCode(p.entity.informed[n].trip_id),
                              Regional!AgencyCode(p.entity.informed[n].stop_id)}

PartsShape(parts) == IsSeq(parts) /\ \A n \in DOMAIN parts : PartShape(parts[n])

(* The first code that is known.                                           *)
LEMMA FirstCode ==
  ASSUME NEW codes, DOMAIN codes \subseteq Nat, NEW p \in DOMAIN codes,
         codes[p] \notin {Regional!None, Regional!Empty},
         \A n \in DOMAIN codes : n < p => codes[n] \in {Regional!None, Regional!Empty}
  PROVE  Regional!FirstOf(codes) = codes[p]
<1> DEFINE known == {n \in DOMAIN codes : codes[n] \notin {Regional!None, Regional!Empty}}
           low == Regional!Min(known)
<1>1. Regional!FirstOf(codes) = IF known = {} THEN Regional!None ELSE codes[low]
  BY DEF Regional!FirstOf
<1>2. p \in known /\ known \subseteq Nat /\ known \subseteq DOMAIN codes
  OBVIOUS
<1>3. \A n \in known : ~ (n < p)
  OBVIOUS
<1> HIDE DEF known
<1>4. low \in known /\ low <= p
  BY <1>2, LeastPlace
<1> HIDE DEF low
<1>5. low = p
  BY <1>2, <1>3, <1>4
<1>6. QED BY <1>1, <1>2, <1>5

LEMMA Prepended ==
  ASSUME NEW S, NEW x \in S, NEW s \in Seq(S)
  PROVE  LET long == <<x>> \o s
         IN  long \in Seq(S) /\ Len(long) = Len(s) + 1 /\ long[1] = x /\ Tail(long) = s
OBVIOUS

(* A prefix is recognised and taken off again.                             *)
LEMMA PrefixedId ==
  ASSUME NEW agency \in STRING, agency # Regional!None, NEW id \in Ids
  PROVE  /\ Regional!AgencyCode(Prefixed(id, agency))
              = IF id = Regional!Blank THEN Regional!None ELSE agency
         /\ Regional!Strip(Prefixed(id, agency), agency) = id
<1>1. CASE id = Regional!Blank
  <2>1. Prefixed(id, agency) = id
    BY <1>1 DEF Prefixed
  <2>2. Len(id) = 1
    BY <1>1 DEF Regional!Blank
  <2>3. Regional!AgencyCode(id) = Regional!None
    BY <2>2 DEF Regional!AgencyCode
  <2>4. QED BY <1>1, <2>1, <2>3 DEF Regional!Strip
<1>2. CASE id # Regional!Blank
  <2> DEFINE long == <<agency>> \o id
  <2>1. id \in Seq(STRING) /\ Len(id) \in Nat /\ Len(id) >= 1
    BY DEF Ids
  <2>2. long \in Seq(STRING) /\ Len(long) = Len(id) + 1 /\ long[1] = agency
    BY <2>1, Prepended
  <2>3. Tail(long) = id
    BY <2>1, Prepended
  <2> HIDE DEF long
  <2>4. Prefixed(id, agency) = long
    BY <1>2 DEF Prefixed, long
  <2>5. Regional!AgencyCode(long) = agency
    <3>1. Len(long) > 1
      BY <2>1, <2>2
    <3>2. QED BY <2>2, <3>1 DEF Regional!AgencyCode
  <2>6. QED BY <1>2, <2>3, <2>4, <2>5 DEF Regional!Strip
<1>3. QED BY <1>1, <1>2

(* The only entity of a trip with these ids.                               *)
OneTripEntity(i, r, t, s) ==
  [kind : {"trip_update"}, id : {i}, route_id : {r}, trip_id : {t}, stop_ids : {s}]

WithIds(e, i, r, t, s) ==
  [e EXCEPT !.id = i, !.route_id = r, !.trip_id = t, !.stop_ids = s]

LEMMA UpdatedTripEntity ==
  ASSUME NEW i1, NEW r1, NEW t1, NEW s1, NEW e \in OneTripEntity(i1, r1, t1, s1),
         NEW i, NEW r, NEW t, NEW s
  PROVE  WithIds(e, i, r, t, s) \in OneTripEntity(i, r, t, s)
BY DEF OneTripEntity, WithIds

LEMMA SameTripEntity ==
  ASSUME NEW i, NEW r, NEW t, NEW s,
         NEW x \in OneTripEntity(i, r, t, s), NEW y \in OneTripEntity(i, r, t, s)
  PROVE  x = y
BY DEF OneTripEntity

(* The code of an entity of the combined feed is that of its agency, and   *)
(* what is left of the entity is its own.                                  *)
PartRestored(p) ==
  /\ Regional!EntityAgencyCode(Combined(p)) = p.agency
  /\ Regional!StrippedEntity(Combined(p), p.agency) = Restored(p)

LEMMA TripPartRestored ==
  ASSUME NEW p, p.agency \in STRING \ {Regional!None, Regional!Empty}, p.entity \in TripEntities
  PROVE  PartRestored(p)
<1> DEFINE a == p.agency
           e == p.entity
           c == Combined(p)
<1>1. a \in STRING \ {Regional!None, Regional!Empty} /\ e \in TripEntities
  OBVIOUS
<1> HIDE DEF a, e
<1>2. /\ e.kind = "trip_update" /\ e.id \in Ids /\ e.id # Regional!Blank
      /\ e.route_id \in Ids /\ e.trip_id \in Ids /\ e.stop_ids \in Seq(Ids)
  BY <1>1 DEF TripEntities
<1>3. c = [e EXCEPT !.id = Prefixed(e.id, a), !.route_id = Prefixed(e.route_id, a),
                    !.trip_id = Prefixed(e.trip_id, a),
                    !.stop_ids = [n \in DOMAIN e.stop_ids |-> Prefixed(e.stop_ids[n], a)]]
  BY <1>2 DEF Combined, a, e
<1>4. /\ c.kind = "trip_update" /\ c.id = Prefixed(e.id, a)
      /\ c.route_id = Prefixed(e.route_id, a) /\ c.trip_id = Prefixed(e.trip_id, a)
      /\ c.stop_ids = [n \in DOMAIN e.stop_ids |-> Prefixed(e.stop_ids[n], a)]
      /\ e \in OneTripEntity(e.id, e.route_id, e.trip_id, e.stop_ids)
      /\ c \in OneTripEntity(c.id, c.route_id, c.trip_id, c.stop_ids)
  <2>1. e \in OneTripEntity(e.id, e.route_id, e.trip_id, e.stop_ids)
    BY <1>1 DEF TripEntities, OneTripEntity
  <2> DEFINE i == Prefixed(e.id, a)
             r == Prefixed(e.route_id, a)
             t == Prefixed(e.trip_id, a)
             s == [n \in DOMAIN e.stop_ids |-> Prefixed(e.stop_ids[n], a)]
  <2>2. c = WithIds(e, i, r, t, s)
    BY <1>3 DEF WithIds
  <2> HIDE DEF i, r, t, s
  <2>3. c \in OneTripEntity(i, r, t, s)
    BY <2>1, <2>2, UpdatedTripEntity
  <2>4. c.kind = "trip_update" /\ c.id = i /\ c.route_id = r /\ c.trip_id = t /\ c.stop_ids = s
    BY <2>3 DEF OneTripEntity
  <2>5. QED BY <2>1, <2>3, <2>4 DEF i, r, t, s
<1>5. /\ Regional!AgencyCode(c.id) = a
      /\ Regional!AgencyCode(c.route_id) \in {a, Regional!None}
      /\ Regional!AgencyCode(c.trip_id) \in {a, Regional!None}
  BY <1>1, <1>2, <1>4, PrefixedId
<1> DEFINE codes == <<Regional!AgencyCode(c.route_id), Regional!AgencyCode(c.trip_id),
                      Regional!AgencyCode(c.id)>>
<1>6. Regional!EntityAgencyCode(c) = Regional!FirstOf(codes)
  BY <1>4 DEF Regional!EntityAgencyCode
<1>7. /\ DOMAIN codes = {1, 2, 3} /\ codes[1] = Regional!AgencyCode(c.route_id)
      /\ codes[2] = Regional!AgencyCode(c.trip_id) /\ codes[3] = Regional!AgencyCode(c.id)
  OBVIOUS
<1> HIDE DEF codes, c
<1>8. Regional!EntityAgencyCode(c) = a
  <2>1. PICK q \in DOMAIN codes : /\ codes[q] = a
                                  /\ \A n \in DOMAIN codes : n < q => codes[n] = Regional!None
    BY <1>5, <1>7
  <2>2. QED BY <1>1, <1>6, <1>7, <2>1, FirstCode
<1>9. Regional!StrippedEntity(c, a)
        = [c EXCEPT !.id = Regional!Strip(c.id, a), !.route_id = Regional!Strip(c.route_id, a),
                    !.trip_id = Regional!Strip(c.trip_id, a),
                    !.stop_ids = [n \in DOMAIN c.stop_ids |-> Regional!Strip(c.stop_ids[n], a)]]
  BY <1>4 DEF Regional!StrippedEntity
<1>10. /\ Regional!Strip(c.id, a) = e.id /\ Regional!Strip(c.route_id, a) = e.route_id
       /\ Regional!Strip(c.trip_id, a) = e.trip_id
  <2>1. /\ Regional!Strip(Prefixed(e.id, a), a) = e.id
        /\ Regional!Strip(Prefixed(e.route_id, a), a) = e.route_id
        /\ Regional!Strip(Prefixed(e.trip_id, a), a) = e.trip_id
    BY <1>1, <1>2, PrefixedId
  <2>2. QED BY <1>4, <2>1
<1>11. [n \in DOMAIN c.stop_ids |-> Regional!Strip(c.stop_ids[n], a)] = e.stop_ids
  <2>1. DOMAIN c.stop_ids = DOMAIN e.stop_ids
    BY <1>4
  <2>2. ASSUME NEW n \in DOMAIN e.stop_ids
        PROVE  Regional!Strip(c.stop_ids[n], a) = e.stop_ids[n]
    <3>1. e.stop_ids[n] \in Ids /\ c.stop_ids[n] = Prefixed(e.stop_ids[n], a)
      BY <1>2, <1>4
    <3>2. QED BY <1>1, <3>1, PrefixedId
  <2>3. e.stop_ids = [n \in DOMAIN e.stop_ids |-> e.stop_ids[n]]
    BY <1>2
  <2>4. QED BY <2>1, <2>2, <2>3
<1>12. Regional!StrippedEntity(c, a)
         = WithIds(c, e.id, e.route_id, e.trip_id, e.stop_ids)
  BY <1>9, <1>10, <1>11 DEF WithIds
<1>13. Regional!StrippedEntity(c, a) = e
  <2>1. Regional!StrippedEntity(c, a) \in OneTripEntity(e.id, e.route_id, e.trip_id, e.stop_ids)
    BY <1>4, <1>12, UpdatedTripEntity
  <2>2. QED BY <1>4, <2>1, SameTripEntity
<1>14. Restored(p) = e
  BY <1>2 DEF Restored, e
<1>15. QED BY <1>8, <1>13, <1>14 DEF PartRestored, c, a

LEMMA AlertPartRestored ==
  ASSUME NEW p, PartShape(p), p.entity \in AlertEntities
  PROVE  PartRestored(p)
<1> DEFINE a == p.agency
           e == p.entity
           c == Combined(p)
<1>1. /\ a \in STRING \ {Regional!None, Regional!Empty} /\ e \in AlertEntities
      /\ \A n \in DOMAIN e.informed :
           a \notin {Regional!AgencyCode(e.informed[n].route_id),
                     Regional!AgencyCode(e.informed[n].trip_id),
                     Regional!AgencyCode(e.informed[n].stop_id)}
  BY DEF PartShape, TripEntities, AlertEntities
<1>2. Combined(p) = [e EXCEPT !.informed = [n \in DOMAIN e.informed |->
                                              [e.informed[n] EXCEPT !.agency_id = a]]]
  BY DEF Combined, AlertEntities
<1>3. Restored(p) = [c EXCEPT !.id = Regional!Strip(c.id, a)]
  BY DEF Restored, AlertEntities
<1> HIDE DEF a, e
<1>4. /\ e.kind = "alert" /\ e.informed \in Seq(InformedEntities) /\ e.informed # << >>
      /\ 1 \in DOMAIN e.informed
  BY <1>1 DEF AlertEntities
<1>5. /\ c.kind = "alert" /\ c.id = e.id
      /\ c.informed = [n \in DOMAIN e.informed |-> [e.informed[n] EXCEPT !.agency_id = a]]
      /\ c = [kind |-> c.kind, id |-> c.id, informed |-> c.informed]
  BY <1>1, <1>2 DEF AlertEntities
<1> HIDE DEF c
<1>6. ASSUME NEW n \in DOMAIN e.informed
      PROVE  /\ n \in DOMAIN c.informed /\ c.informed[n].agency_id = a
             /\ Regional!StrippedInformed(c.informed[n], a) = c.informed[n]
  <2> DEFINE i == c.informed[n]
  <2>1. e.informed[n] \in InformedEntities
    BY <1>4
  <2>2. n \in DOMAIN c.informed /\ i = [e.informed[n] EXCEPT !.agency_id = a]
    BY <1>5
  <2> HIDE DEF i
  <2>3. /\ i = [agency_id |-> a, route_id |-> i.route_id, trip_id |-> i.trip_id,
                stop_id |-> i.stop_id]
        /\ i.agency_id = a /\ i.route_id = e.informed[n].route_id
        /\ i.trip_id = e.informed[n].trip_id /\ i.stop_id = e.informed[n].stop_id
    BY <2>1, <2>2 DEF InformedEntities
  <2>4. /\ Regional!Strip(i.route_id, a) = i.route_id
        /\ Regional!Strip(i.trip_id, a) = i.trip_id
        /\ Regional!Strip(i.stop_id, a) = i.stop_id
    BY <1>1, <2>3 DEF Regional!Strip
  <2>5. Regional!StrippedInformed(i, a) = i
    BY <2>3, <2>4 DEF Regional!StrippedInformed
  <2>6. QED BY <2>2, <2>3, <2>5 DEF i
<1>7. Regional!EntityAgencyCode(c) = a
  <2> DEFINE i == c.informed[1]
             codes == <<i.agency_id, Regional!AgencyCode(i.route_id),
                        Regional!AgencyCode(i.trip_id), Regional!AgencyCode(c.id)>>
  <2>1. c.informed # << >> /\ i.agency_id = a
    <3>1. 1 \in DOMAIN c.informed /\ i.agency_id = a
      BY <1>4, <1>6
    <3>2. DOMAIN << >> = {}
      OBVIOUS
    <3>3. QED BY <3>1, <3>2
  <2>2. Regional!EntityAgencyCode(c) = Regional!FirstOf(codes)
    BY <1>5, <2>1 DEF Regional!EntityAgencyCode
  <2>3. DOMAIN codes = 1..4 /\ codes[1] = a
    BY <2>1
  <2> HIDE DEF codes
  <2>4. QED BY <1>1, <2>2, <2>3, FirstCode
<1>8. Regional!StrippedEntity(c, a) = [c EXCEPT !.id = Regional!Strip(c.id, a)]
  <2>1. Regional!StrippedEntity(c, a)
          = [c EXCEPT !.id = Regional!Strip(c.id, a),
                      !.informed = [n \in DOMAIN c.informed |-> Regional!StrippedInformed(c.informed[n], a)]]
    <3>1. c.kind # "trip_update"
      BY <1>5
    <3>2. QED BY <3>1 DEF Regional!StrippedEntity
  <2>2. \A n \in DOMAIN c.informed : Regional!StrippedInformed(c.informed[n], a) = c.informed[n]
    BY <1>5, <1>6
  <2>3. [n \in DOMAIN c.informed |-> Regional!StrippedInformed(c.informed[n], a)] = c.informed
    BY <1>5, <2>2
  <2>4. QED BY <1>5, <2>1, <2>3
<1>9. QED BY <1>3, <1>7, <1>8 DEF PartRestored, a, c
LEMMA RestoredPart ==
  ASSUME NEW p, PartShape(p)
  PROVE  PartRestored(p)
<1>1. CASE p.entity \in TripEntities
  BY <1>1, TripPartRestored DEF PartShape
<1>2. CASE p.entity \in AlertEntities
  BY <1>2, AlertPartRestored
<1>3. QED BY <1>1, <1>2 DEF PartShape

(* Taking the combined feed apart for any map of codes.                    *)
OwnerOf(p, systems) ==
  IF p.agency \in DOMAIN systems THEN systems[p.agency] ELSE Regional!None

OwnParts(parts, systems, s) ==
  EntriesAt(parts, {n \in DOMAIN parts : OwnerOf(parts[n], systems) = s})

CombinedOf(parts) == [n \in DOMAIN parts |-> Combined(parts[n])]

FeedsRestored(parts, systems) ==
  LET split == Regional!SplitFeed(CombinedOf(parts), systems)
  IN  /\ DOMAIN split = {OwnerOf(parts[n], systems) : n \in DOMAIN parts} \ {Regional!None}
      /\ \A s \in DOMAIN split :
           split[s] = [n \in DOMAIN OwnParts(parts, systems, s) |->
                         Restored(OwnParts(parts, systems, s)[n])]

LEMMA SplitOfCombined ==
  ASSUME NEW parts, PartsShape(parts), NEW systems
  PROVE  FeedsRestored(parts, systems)
<1> DEFINE feed == CombinedOf(parts)
           split == Regional!SplitFeed(feed, systems)
           Owner(e) == LET code == Regional!EntityAgencyCode(e)
                       IN  IF code \in DOMAIN systems THEN systems[code] ELSE Regional!None
           Stripped(e) == Regional!StrippedEntity(e, Regional!EntityAgencyCode(e))
           Own(s) == Regional!EntriesAt(feed, {n \in DOMAIN feed : Owner(feed[n]) = s})
<1>1. split = [s \in {Owner(feed[n]) : n \in DOMAIN feed} \ {Regional!None} |->
                 [n \in DOMAIN Own(s) |-> Stripped(Own(s)[n])]]
  BY DEF Regional!SplitFeed
<1>2. /\ Len(parts) \in Nat /\ DOMAIN parts = 1..Len(parts)
      /\ \A n \in DOMAIN parts : PartShape(parts[n])
  BY DEF PartsShape, IsSeq
<1>3. DOMAIN feed = DOMAIN parts /\ \A n \in DOMAIN parts : feed[n] = Combined(parts[n])
  BY DEF CombinedOf
<1>4. Len(feed) = Len(parts)
  <2> DEFINE S == {Combined(parts[n]) : n \in DOMAIN parts}
  <2>1. \A n \in DOMAIN parts : Combined(parts[n]) \in S
    OBVIOUS
  <2> HIDE DEF S
  <2>2. feed \in [1..Len(parts) -> S]
    BY <1>2, <2>1 DEF CombinedOf
  <2> HIDE DEF feed
  <2>3. QED BY <1>2, <2>2, FunctionIsSeq
<1> HIDE DEF feed
<1>5. ASSUME NEW n \in DOMAIN parts
      PROVE  /\ Owner(feed[n]) = OwnerOf(parts[n], systems)
             /\ Stripped(feed[n]) = Restored(parts[n])
  <2>1. PartRestored(parts[n]) /\ feed[n] = Combined(parts[n])
    BY <1>2, <1>3, RestoredPart
  <2>2. /\ Regional!EntityAgencyCode(feed[n]) = parts[n].agency
        /\ Regional!StrippedEntity(feed[n], parts[n].agency) = Restored(parts[n])
    BY <2>1 DEF PartRestored
  <2>3. QED BY <2>2 DEF OwnerOf
<1> HIDE DEF Owner, Stripped
<1>6. {Owner(feed[n]) : n \in DOMAIN feed} = {OwnerOf(parts[n], systems) : n \in DOMAIN parts}
  BY <1>3, <1>5
<1>7. ASSUME NEW s
      PROVE  [n \in DOMAIN Own(s) |-> Stripped(Own(s)[n])]
               = [n \in DOMAIN OwnParts(parts, systems, s) |->
                    Restored(OwnParts(parts, systems, s)[n])]
  <2> DEFINE P == {n \in DOMAIN parts : OwnerOf(parts[n], systems) = s}
             places == PlacesIn(P, Len(parts))
  <2>1. Own(s) = EntriesAt(feed, P)
    <3>1. {n \in DOMAIN feed : Owner(feed[n]) = s} = P
      BY <1>3, <1>5
    <3> HIDE DEF P
    <3>2. QED BY <3>1, SameSelection
  <2>2. OwnParts(parts, systems, s) = EntriesAt(parts, P)
    BY DEF OwnParts
  <2>3. Enumerates(places, P, Len(parts))
    BY <1>2, PlacesEnumerated
  <2>4. \A k \in DOMAIN places : places[k] \in DOMAIN parts
    BY <1>2, <2>3 DEF Enumerates
  <2>5. /\ EntriesAt(feed, P) = [k \in DOMAIN places |-> feed[places[k]]]
        /\ EntriesAt(parts, P) = [k \in DOMAIN places |-> parts[places[k]]]
    BY <1>4 DEF EntriesAt
  <2> DEFINE theirs == EntriesAt(feed, P)
             own == EntriesAt(parts, P)
  <2>6. theirs = [k \in DOMAIN places |-> feed[places[k]]]
          /\ own = [k \in DOMAIN places |-> parts[places[k]]]
    BY <2>5
  <2> HIDE DEF theirs, own, places, P, Own
  <2>7. DOMAIN theirs = DOMAIN places /\ DOMAIN own = DOMAIN places
    BY <2>6
  <2>8. \A k \in DOMAIN places : Stripped(theirs[k]) = Restored(own[k])
    BY <1>5, <2>4, <2>6
  <2>9. [n \in DOMAIN theirs |-> Stripped(theirs[n])] = [n \in DOMAIN own |-> Restored(own[n])]
    BY <2>7, <2>8
  <2>10. QED BY <2>1, <2>2, <2>9 DEF theirs, own
<1> DEFINE Given(s) == [n \in DOMAIN Own(s) |-> Stripped(Own(s)[n])]
           Theirs(s) == [n \in DOMAIN OwnParts(parts, systems, s) |->
                           Restored(OwnParts(parts, systems, s)[n])]
           X == {OwnerOf(parts[n], systems) : n \in DOMAIN parts} \ {Regional!None}
<1>8. split = [s \in X |-> Given(s)] /\ \A s : Given(s) = Theirs(s)
  BY <1>1, <1>6, <1>7
<1> HIDE DEF split, Given, Theirs, X
<1>9. DOMAIN split = X /\ \A s \in DOMAIN split : split[s] = Theirs(s)
  BY <1>8
<1>10. QED BY <1>9 DEF FeedsRestored, split, feed, Theirs, X

(* "Exactly the same ID format": over a combined feed of any length, for   *)
(* any map of agencies to systems, each system gets its own entities back. *)
THEOREM DemuxIsExact ==
  ASSUME \A i \in Inputs : i.of = "combined_feed" => PartsShape(i.parts)
  PROVE  Spec => []DemuxRestoresFeeds
<1>1. ASSUME input \in Inputs, input.of = "combined_feed" PROVE DemuxRestoresFeeds
  <2> DEFINE parts == input.parts
  <2>1. FeedsRestored(parts, Systems)
    BY <1>1, SplitOfCombined
  <2>2. QED BY <2>1 DEF DemuxRestoresFeeds, FeedsRestored, OwnerOf, OwnParts, CombinedOf
<1>2. input \in Inputs => DemuxRestoresFeeds
  BY <1>1 DEF DemuxRestoresFeeds
<1>3. QED BY <1>2, InputKept, PTL

-----------------------------------------------------------------------------

(* The last entity of a kind with an id.                                   *)
LEMMA EntityById ==
  ASSUME NEW feed, NEW m \in Nat, DOMAIN feed = 1..m, NEW kind,
         NEW id \in DOMAIN Regional!ById(feed, kind)
  PROVE  \E n \in DOMAIN feed : /\ feed[n].kind = kind /\ feed[n].id = id
                                /\ Regional!ById(feed, kind)[id] = feed[n]
<1> DEFINE places == {n \in DOMAIN feed : feed[n].kind = kind}
           T == {n \in places : feed[n].id = id}
           Last(n) == feed[n].id = id /\ \A k \in places : feed[k].id = id => k <= n
           last == CHOOSE n \in places : Last(n)
<1>1. T # {} /\ T \subseteq 1..m
  BY DEF Regional!ById
<1>2. PICK n \in T : \A k \in T : k <= n
  <2> HIDE DEF T
  <2>1. QED BY <1>1, GreatestElement
<1>3. n \in places /\ Last(n)
  BY <1>2
<1>4. Regional!ById(feed, kind)[id] = feed[last]
  BY DEF Regional!ById
<1> HIDE DEF Last
<1>5. last \in places /\ Last(last)
  BY <1>3
<1>6. QED BY <1>4, <1>5 DEF Last

(* The parts of the combined feed, and the agency's own feed fetched       *)
(* before it: an agency uses an id once in either.                         *)
DiagnosedShape(i) ==
  /\ PartsShape(i.parts) /\ IsSeq(i.direct)
  /\ \A n \in DOMAIN i.parts : i.parts[n].agency = "A" =>
       /\ i.parts[n].entity.kind = "alert" =>
            Regional!AgencyCode(i.parts[n].entity.id) # "A"
       /\ \A k \in DOMAIN i.parts :
            i.parts[k].agency = "A" /\ i.parts[k].entity.id = i.parts[n].entity.id => k = n
  /\ \A n, k \in DOMAIN i.direct : i.direct[n].id = i.direct[k].id => n = k

(* What the comparison sees of an entity is not changed on the way.        *)
LEMMA SeenAlike ==
  ASSUME NEW p, PartShape(p),
         p.entity.kind = "alert" => Regional!AgencyCode(p.entity.id) # p.agency
  PROVE  /\ Restored(p).kind = p.entity.kind /\ Restored(p).id = p.entity.id
         /\ Regional!Seen(Restored(p)) = Regional!Seen(p.entity)
<1>1. CASE p.entity \in TripEntities
  <2>1. p.entity.kind = "trip_update"
    BY <1>1 DEF TripEntities
  <2>2. QED BY <2>1 DEF Restored
<1>2. CASE p.entity \in AlertEntities
  <2> DEFINE e == p.entity
             a == p.agency
             c == Combined(p)
             x == Restored(p)
  <2>1. e.kind = "alert" /\ e.informed \in Seq(InformedEntities) /\ Regional!Strip(e.id, a) = e.id
    BY <1>2 DEF AlertEntities, Regional!Strip
  <2>2. c = [e EXCEPT !.informed = [n \in DOMAIN e.informed |->
                                      [e.informed[n] EXCEPT !.agency_id = a]]]
    BY <2>1 DEF Combined
  <2>3. x = [c EXCEPT !.id = Regional!Strip(c.id, a)]
    BY <2>1 DEF Restored
  <2> HIDE DEF c, x
  <2>4. /\ c.kind = "alert" /\ c.id = e.id /\ DOMAIN c = {"kind", "id", "informed"}
        /\ c.informed = [n \in DOMAIN e.informed |-> [e.informed[n] EXCEPT !.agency_id = a]]
    BY <1>2, <2>1, <2>2 DEF AlertEntities
  <2>5. x.kind = "alert" /\ x.id = e.id /\ x.informed = c.informed
    BY <2>1, <2>3, <2>4
  <2>6. /\ DOMAIN x.informed = DOMAIN e.informed
        /\ \A n \in DOMAIN e.informed : /\ x.informed[n].route_id = e.informed[n].route_id
                                        /\ x.informed[n].trip_id = e.informed[n].trip_id
    <3>1. DOMAIN x.informed = DOMAIN e.informed
      BY <2>4, <2>5
    <3>2. ASSUME NEW n \in DOMAIN e.informed
          PROVE  /\ x.informed[n].route_id = e.informed[n].route_id
                 /\ x.informed[n].trip_id = e.informed[n].trip_id
      <4>1. e.informed[n] \in InformedEntities
        BY <2>1
      <4>2. x.informed[n] = [e.informed[n] EXCEPT !.agency_id = a]
        BY <2>4, <2>5
      <4>3. QED BY <4>1, <4>2 DEF InformedEntities
    <3>3. QED BY <3>1, <3>2
  <2> DEFINE Pairs(f) == [n \in DOMAIN f.informed |-> <<f.informed[n].route_id, f.informed[n].trip_id>>]
  <2>7. Pairs(x) = Pairs(e)
    BY <2>6
  <2>8. Regional!InformedPairs(x) = Regional!InformedPairs(e)
    <3>1. /\ Regional!InformedPairs(x) = Regional!Sorted(Pairs(x))
          /\ Regional!InformedPairs(e) = Regional!Sorted(Pairs(e))
      BY DEF Regional!InformedPairs
    <3> HIDE DEF Pairs
    <3>2. QED BY <2>7, <3>1
  <2>9. QED BY <2>1, <2>5, <2>8 DEF Regional!Seen, x
<1>3. QED BY <1>1, <1>2 DEF PartShape

(* What is taken out of the combined feed for the agency.                  *)
DemuxedFeed(i) ==
  LET split == Regional!SplitFeed(CombinedOf(i.parts), [code \in {"A"} |-> "Alpha"])
  IN  IF "Alpha" \in DOMAIN split THEN split["Alpha"] ELSE << >>

(* Every entity taken out is one of the agency's, and all of them are.     *)
LEMMA DemuxedEntities ==
  ASSUME NEW i, DiagnosedShape(i)
  PROVE  LET parts == i.parts
             feed == DemuxedFeed(i)
         IN  /\ \E m \in Nat : DOMAIN feed = 1..m
             /\ \A q \in DOMAIN feed : \E n \in DOMAIN parts :
                  parts[n].agency = "A" /\ feed[q] = Restored(parts[n])
             /\ \A n \in DOMAIN parts : parts[n].agency = "A" =>
                  \E q \in DOMAIN feed : feed[q] = Restored(parts[n])
<1> DEFINE parts == i.parts
           systems == [code \in {"A"} |-> "Alpha"]
           split == Regional!SplitFeed(CombinedOf(parts), systems)
           P == {n \in DOMAIN parts : OwnerOf(parts[n], systems) = "Alpha"}
           places == PlacesIn(P, Len(parts))
           own == OwnParts(parts, systems, "Alpha")
           feed == DemuxedFeed(i)
<1>1. Len(parts) \in Nat /\ DOMAIN parts = 1..Len(parts) /\ PartsShape(parts)
  BY DEF DiagnosedShape, PartsShape, IsSeq
<1>2. ASSUME NEW n \in DOMAIN parts
      PROVE  OwnerOf(parts[n], systems) = IF parts[n].agency = "A" THEN "Alpha" ELSE Regional!None
  BY DEF OwnerOf
<1>3. "Alpha" # Regional!None
  BY DEF Regional!None
<1>4. \A n \in DOMAIN parts : n \in P <=> parts[n].agency = "A"
  BY <1>2, <1>3
<1>5. /\ DOMAIN split = {OwnerOf(parts[n], systems) : n \in DOMAIN parts} \ {Regional!None}
      /\ "Alpha" \in DOMAIN split =>
           split["Alpha"] = [n \in DOMAIN own |-> Restored(own[n])]
  <2> HIDE DEF systems, parts
  <2>1. FeedsRestored(parts, systems)
    BY <1>1, SplitOfCombined
  <2>2. QED BY <2>1 DEF FeedsRestored
<1>6. "Alpha" \in DOMAIN split <=> \E n \in DOMAIN parts : parts[n].agency = "A"
  BY <1>2, <1>3, <1>5
<1>7. feed = IF "Alpha" \in DOMAIN split THEN split["Alpha"] ELSE << >>
  BY DEF DemuxedFeed
<1>8. own = EntriesAt(parts, P)
  BY DEF OwnParts
<1> HIDE DEF P, feed, split, own, parts
<1>9. /\ Enumerates(places, P, Len(parts)) /\ own = [k \in DOMAIN places |-> parts[places[k]]]
      /\ Len(places) \in Nat /\ DOMAIN places = 1..Len(places)
      /\ \A k \in DOMAIN places : places[k] \in DOMAIN parts /\ places[k] \in P
      /\ \A n \in DOMAIN parts : n \in P => \E k \in DOMAIN places : places[k] = n
  <2>1. Enumerates(places, P, Len(parts))
    BY <1>1, PlacesEnumerated
  <2>2. own = [k \in DOMAIN places |-> parts[places[k]]]
    BY <1>8 DEF EntriesAt
  <2>3. /\ Len(places) \in Nat /\ DOMAIN places = 1..Len(places)
        /\ \A k \in DOMAIN places : places[k] \in 1..Len(parts) /\ places[k] \in P
        /\ \A n \in 1..Len(parts) : n \in P => \E k \in DOMAIN places : places[k] = n
    <3> HIDE DEF places
    <3>1. QED BY <2>1 DEF Enumerates
  <2>4. DOMAIN parts = 1..Len(parts)
    BY <1>1 DEF IsSeq
  <2> HIDE DEF places
  <2>5. QED BY <2>1, <2>2, <2>3, <2>4
<1> HIDE DEF places
<1> DEFINE Goal == /\ \E m \in Nat : DOMAIN feed = 1..m
                   /\ \A q \in DOMAIN feed : \E n \in DOMAIN parts :
                        parts[n].agency = "A" /\ feed[q] = Restored(parts[n])
                   /\ \A n \in DOMAIN parts : parts[n].agency = "A" =>
                        \E q \in DOMAIN feed : feed[q] = Restored(parts[n])
<1>10. ASSUME "Alpha" \in DOMAIN split PROVE Goal
  <2>1. /\ DOMAIN feed = DOMAIN places
        /\ \A k \in DOMAIN places : feed[k] = Restored(parts[places[k]])
    BY <1>5, <1>7, <1>9, <1>10
  <2>2. \A q \in DOMAIN feed : \E n \in DOMAIN parts :
          parts[n].agency = "A" /\ feed[q] = Restored(parts[n])
    BY <1>4, <1>9, <2>1
  <2>3. ASSUME NEW n \in DOMAIN parts, parts[n].agency = "A"
        PROVE  \E q \in DOMAIN feed : feed[q] = Restored(parts[n])
    <3>1. n \in P
      BY <1>4, <2>3
    <3>2. PICK k \in DOMAIN places : places[k] = n
      BY <1>9, <3>1
    <3>3. QED BY <2>1, <3>2
  <2>4. \E m \in Nat : DOMAIN feed = 1..m
    <3>1. DOMAIN feed = 1..Len(places) /\ Len(places) \in Nat
      BY <1>9, <2>1
    <3>2. QED BY <3>1
  <2>5. QED BY <2>2, <2>3, <2>4
<1>11. ASSUME "Alpha" \notin DOMAIN split PROVE Goal
  <2>1. DOMAIN feed = 1..0 /\ 0 \in Nat /\ DOMAIN feed = {}
    BY <1>7, <1>11
  <2>2. QED BY <1>6, <1>11, <2>1
<1>12. QED BY <1>10, <1>11 DEF feed, parts

(* What the report is to say of one kind of entities.                      *)
OwnOfKind(i, kind) ==
  {n \in DOMAIN i.parts : i.parts[n].agency = "A" /\ i.parts[n].entity.kind = kind}
EarlierOfKind(i, kind) == {n \in DOMAIN i.direct : i.direct[n].kind = kind}
Changed(i, kind, id) ==
  \E n \in OwnOfKind(i, kind), k \in EarlierOfKind(i, kind) :
    /\ i.parts[n].entity.id = id /\ i.direct[k].id = id
    /\ Regional!Seen(i.direct[k]) # Regional!Seen(i.parts[n].entity)

ReportIsRight(i, kind) ==
  LET report == Regional!Diagnosis(i.direct, CombinedOf(i.parts), "A", "Alpha", kind)
      now == {i.parts[n].entity.id : n \in OwnOfKind(i, kind)}
      before == {i.direct[n].id : n \in EarlierOfKind(i, kind)}
  IN  /\ report.mismatches = {id \in before \cap now : Changed(i, kind, id)}
      /\ report.matched = Cardinality(before \cap now)
      /\ report.ids_only_in_direct = before \ now
      /\ report.ids_only_in_demuxed = now \ before

LEMMA SameCardinality ==
  ASSUME NEW S
  PROVE  Regional!Cardinality(S) = Cardinality(S)
BY DEF Regional!Cardinality, Cardinality

LEMMA ReportOfKind ==
  ASSUME NEW i, DiagnosedShape(i), NEW kind
  PROVE  ReportIsRight(i, kind)
<1> DEFINE parts == i.parts
           direct == i.direct
           demuxed == DemuxedFeed(i)
           report == Regional!Diagnosis(direct, CombinedOf(parts), "A", "Alpha", kind)
           now == {parts[n].entity.id : n \in OwnOfKind(i, kind)}
           before == {direct[n].id : n \in EarlierOfKind(i, kind)}
           mine == Regional!ById(direct, kind)
           theirs == Regional!ById(demuxed, kind)
<1>1. /\ report.mismatches = Regional!Mismatches(mine, theirs)
      /\ report.matched = Cardinality(DOMAIN mine \cap DOMAIN theirs)
      /\ report.ids_only_in_direct = DOMAIN mine \ DOMAIN theirs
      /\ report.ids_only_in_demuxed = DOMAIN theirs \ DOMAIN mine
  <2>1. report = Regional!CompareFeeds(direct, demuxed, kind)
    BY DEF Regional!Diagnosis, DemuxedFeed
  <2> HIDE DEF direct, demuxed, report
  <2>2. report.matched = Regional!Cardinality(DOMAIN mine \cap DOMAIN theirs)
    BY <2>1 DEF Regional!CompareFeeds
  <2>3. report.matched = Cardinality(DOMAIN mine \cap DOMAIN theirs)
    BY <2>2, SameCardinality
  <2>4. /\ report.mismatches = Regional!Mismatches(mine, theirs)
        /\ report.ids_only_in_direct = DOMAIN mine \ DOMAIN theirs
        /\ report.ids_only_in_demuxed = DOMAIN theirs \ DOMAIN mine
    BY <2>1 DEF Regional!CompareFeeds
  <2>5. QED BY <2>3, <2>4
<1>2. DOMAIN mine = before
  BY DEF Regional!ById, EarlierOfKind
<1>3. DOMAIN theirs = {demuxed[q].id : q \in {m \in DOMAIN demuxed : demuxed[m].kind = kind}}
  BY DEF Regional!ById
<1>4. ASSUME NEW n \in DOMAIN parts, parts[n].agency = "A"
      PROVE  /\ Restored(parts[n]).kind = parts[n].entity.kind
             /\ Restored(parts[n]).id = parts[n].entity.id
             /\ Regional!Seen(Restored(parts[n])) = Regional!Seen(parts[n].entity)
  <2> DEFINE p == parts[n]
  <2>1. PartShape(p) /\ (p.entity.kind = "alert" => Regional!AgencyCode(p.entity.id) # p.agency)
    BY <1>4 DEF DiagnosedShape, PartsShape
  <2> HIDE DEF p
  <2>2. QED BY <2>1, SeenAlike DEF p
<1>5. /\ \E m \in Nat : DOMAIN demuxed = 1..m
      /\ \A q \in DOMAIN demuxed : \E n \in DOMAIN parts :
           parts[n].agency = "A" /\ demuxed[q] = Restored(parts[n])
      /\ \A n \in DOMAIN parts : parts[n].agency = "A" =>
           \E q \in DOMAIN demuxed : demuxed[q] = Restored(parts[n])
  BY DemuxedEntities
<1>6. /\ \E m \in Nat : DOMAIN direct = 1..m
      /\ \A n, k \in DOMAIN direct : direct[n].id = direct[k].id => n = k
  BY DEF DiagnosedShape, IsSeq
<1>7. \A n, k \in DOMAIN parts :
        parts[n].agency = "A" /\ parts[k].agency = "A"
          /\ parts[k].entity.id = parts[n].entity.id => k = n
  BY DEF DiagnosedShape
<1>own. /\ OwnOfKind(i, kind)
             = {m \in DOMAIN parts : parts[m].agency = "A" /\ parts[m].entity.kind = kind}
        /\ EarlierOfKind(i, kind) = {m \in DOMAIN direct : direct[m].kind = kind}
        /\ \A id : Changed(i, kind, id) <=>
             \E n \in OwnOfKind(i, kind), k \in EarlierOfKind(i, kind) :
               /\ parts[n].entity.id = id /\ direct[k].id = id
               /\ Regional!Seen(direct[k]) # Regional!Seen(parts[n].entity)
  BY DEF OwnOfKind, EarlierOfKind, Changed
<1> HIDE DEF parts, direct, demuxed, report
<1>8. DOMAIN theirs = now
  <2>1. ASSUME NEW id \in DOMAIN theirs PROVE id \in now
    <3>1. PICK q \in DOMAIN demuxed : demuxed[q].kind = kind /\ demuxed[q].id = id
      BY <1>3
    <3>2. PICK n \in DOMAIN parts : parts[n].agency = "A" /\ demuxed[q] = Restored(parts[n])
      BY <1>5
    <3>3. QED BY <1>4, <1>own, <3>1, <3>2
  <2>2. ASSUME NEW id \in now PROVE id \in DOMAIN theirs
    <3>1. PICK n \in DOMAIN parts : /\ parts[n].agency = "A" /\ parts[n].entity.kind = kind
                                    /\ parts[n].entity.id = id
      BY <1>own
    <3>2. PICK q \in DOMAIN demuxed : demuxed[q] = Restored(parts[n])
      BY <1>5, <3>1
    <3>3. demuxed[q].kind = kind /\ demuxed[q].id = id
      BY <1>4, <3>1, <3>2
    <3>4. QED BY <1>3, <3>3
  <2>3. QED BY <2>1, <2>2
<1> HIDE DEF now, before
<1>9. ASSUME NEW id \in DOMAIN mine \cap DOMAIN theirs
      PROVE  Regional!Seen(mine[id]) # Regional!Seen(theirs[id]) <=> Changed(i, kind, id)
  <2>1. PICK q \in DOMAIN direct :
          direct[q].kind = kind /\ direct[q].id = id /\ mine[id] = direct[q]
    BY <1>6, EntityById
  <2>2. PICK r \in DOMAIN demuxed :
          demuxed[r].kind = kind /\ demuxed[r].id = id /\ theirs[id] = demuxed[r]
    BY <1>5, EntityById
  <2>3. PICK n \in DOMAIN parts : parts[n].agency = "A" /\ demuxed[r] = Restored(parts[n])
    BY <1>5
  <2>4. /\ parts[n].entity.id = id /\ parts[n].entity.kind = kind
        /\ Regional!Seen(theirs[id]) = Regional!Seen(parts[n].entity)
    BY <1>4, <2>2, <2>3
  <2>5. n \in OwnOfKind(i, kind) /\ q \in EarlierOfKind(i, kind)
    BY <1>own, <2>1, <2>3, <2>4
  <2>6. \A m \in OwnOfKind(i, kind) : parts[m].entity.id = id => m = n
    BY <1>7, <1>own, <2>3, <2>4
  <2>7. \A k \in EarlierOfKind(i, kind) : direct[k].id = id => k = q
    BY <1>6, <1>own, <2>1
  <2>8. QED BY <1>own, <2>1, <2>4, <2>5, <2>6, <2>7
<1> HIDE DEF mine, theirs
<1>10. Regional!Mismatches(mine, theirs)
         = {id \in DOMAIN mine \cap DOMAIN theirs : Changed(i, kind, id)}
  BY <1>9 DEF Regional!Mismatches
<1>11. /\ report.mismatches = {id \in before \cap now : Changed(i, kind, id)}
       /\ report.matched = Cardinality(before \cap now)
       /\ report.ids_only_in_direct = before \ now
       /\ report.ids_only_in_demuxed = now \ before
  BY <1>1, <1>2, <1>8, <1>10
<1>12. QED BY <1>11 DEF ReportIsRight, report, direct, parts, now, before

(* For feeds of any length, whatever has gone, come and changed in         *)
(* between: the report lists what the source shows differently in its two  *)
(* answers, nothing else, and counts what both have.                       *)
THEOREM ReportIsExact ==
  ASSUME \A i \in Inputs : i.of = "diagnosed_feed" => DiagnosedShape(i)
  PROVE  Spec => []ReportListsChanges
<1>1. ASSUME input \in Inputs, input.of = "diagnosed_feed" PROVE ReportListsChanges
  <2>1. DiagnosedShape(input)
    BY <1>1
  <2>2. \A kind : ReportIsRight(input, kind)
    BY <2>1, ReportOfKind
  <2>3. QED BY <2>2 DEF ReportListsChanges, ReportIsRight, CombinedOf,
                      OwnOfKind, EarlierOfKind, Changed
<1>2. input \in Inputs => ReportListsChanges
  BY <1>1 DEF ReportListsChanges
<1>3. QED BY <1>2, InputKept, PTL

-----------------------------------------------------------------------------

(* A strictly increasing function between initial segments.                *)
Increasing(h, r, j) ==
  /\ h \in [1..r -> 1..j]
  /\ \A k, m \in 1..r : k < m => h[k] < h[m]

LEMMA IncreasingBound ==
  ASSUME NEW r \in Nat, NEW j \in Nat, NEW h, Increasing(h, r, j)
  PROVE  r <= j /\ (r = j => \A k \in 1..r : h[k] = k)
<1>1. /\ \A k \in 1..r : h[k] \in 1..j
      /\ \A k, m \in 1..r : k < m => h[k] < h[m]
  BY DEF Increasing
<1>2. \A n \in 0..r : n = 0 \/ h[n] >= n
  <2> DEFINE Good == {n \in 0..r : n = 0 \/ h[n] >= n}
  <2>1. 0 \in Good
    OBVIOUS
  <2>2. ASSUME NEW n \in 1..r, n - 1 \in Good PROVE n \in Good
    <3>1. CASE n = 1
      <4>1. h[n] \in 1..j /\ n \in 0..r
        BY <1>1
      <4>2. QED BY <3>1, <4>1
    <3>2. CASE n # 1
      <4>1. n - 1 \in 1..r /\ n - 1 < n /\ n \in 0..r /\ n - 1 # 0
        BY <3>2
      <4>2. h[n - 1] < h[n] /\ h[n - 1] \in 1..j /\ h[n] \in 1..j
        BY <1>1, <4>1
      <4>3. h[n - 1] >= n - 1
        BY <2>2, <4>1
      <4>4. h[n] >= n
        BY <4>1, <4>2, <4>3
      <4>5. QED BY <4>1, <4>4
    <3>3. QED BY <3>1, <3>2
  <2>3. \A n \in 0..r : n \in Good
    <3> HIDE DEF Good
    <3>1. QED BY <2>1, <2>2, UpTo
  <2>4. QED BY <2>3
<1>3. r <= j
  <2>1. CASE r = 0
    BY <2>1
  <2>2. CASE r # 0
    <3>1. r \in 1..r /\ r \in 0..r
      BY <2>2
    <3>2. h[r] >= r /\ h[r] \in 1..j
      BY <1>1, <1>2, <2>2, <3>1
    <3>3. QED BY <3>2
  <2>3. QED BY <2>1, <2>2
<1>4. ASSUME r = j PROVE \A m \in 0..r : m = r \/ h[r - m] <= r - m
  <2> DEFINE Good == {m \in 0..r : m = r \/ h[r - m] <= r - m}
  <2>1. 0 \in Good
    <3>1. CASE r = 0
      BY <3>1
    <3>2. CASE r # 0
      <4>1. r \in 1..r /\ r - 0 = r
        BY <3>2
      <4>2. h[r] \in 1..r
        BY <1>1, <1>4, <4>1
      <4>3. QED BY <4>1, <4>2
    <3>3. QED BY <3>1, <3>2
  <2>2. ASSUME NEW m \in 1..r, m - 1 \in Good PROVE m \in Good
    <3>1. CASE m = r
      BY <3>1
    <3>2. CASE m # r
      <4> DEFINE k == r - m
      <4>1. /\ k \in 1..r /\ k + 1 \in 1..r /\ k < k + 1 /\ r - (m - 1) = k + 1
            /\ m \in 0..r /\ m - 1 # r
        BY <3>2
      <4>2. h[r - (m - 1)] <= r - (m - 1)
        BY <2>2, <4>1
      <4> HIDE DEF k
      <4>3. h[k + 1] <= k + 1
        BY <4>1, <4>2
      <4>4. h[k] < h[k + 1] /\ h[k] \in 1..j /\ h[k + 1] \in 1..j
        BY <1>1, <4>1
      <4>5. h[k] <= k
        BY <4>1, <4>3, <4>4
      <4>6. QED BY <4>1, <4>5 DEF k
    <3>3. QED BY <3>1, <3>2
  <2>3. \A m \in 0..r : m \in Good
    <3> HIDE DEF Good
    <3>1. QED BY <2>1, <2>2, UpTo
  <2>4. QED BY <2>3
<1>5. ASSUME r = j, NEW k \in 1..r PROVE h[k] = k
  <2>1. r - k \in 0..r /\ r - k # r /\ r - (r - k) = k /\ k \in 0..r /\ k # 0
    OBVIOUS
  <2>2. h[k] <= k
    <3>1. h[r - (r - k)] <= r - (r - k)
      BY <1>4, <1>5, <2>1
    <3>2. QED BY <2>1, <3>1
  <2>3. h[k] >= k /\ h[k] \in 1..j
    BY <1>1, <1>2, <2>1
  <2>4. QED BY <2>2, <2>3
<1>6. QED BY <1>3, <1>5

(* Of the places in `covered`, the last of which is `last`, those in W are *)
(* counted by `reports`: that many places of W do not reach beyond `last`, *)
(* and they reach it exactly if no place of W before it is left out.       *)
Counted(N, covered, W, last, at, visits, reports) ==
  /\ covered \subseteq 1..N /\ W \subseteq 1..N
  /\ last \in covered /\ last \in W /\ \A n \in covered : n <= last
  /\ Enumerates(at, covered, N) /\ Enumerates(visits, W, N)
  /\ Enumerates(reports, {k \in 1..Len(at) : at[k] \in W}, Len(at))

LEMMA VisitOfReports ==
  ASSUME NEW N \in Nat, NEW covered, NEW W, NEW last, NEW at, NEW visits, NEW reports,
         Counted(N, covered, W, last, at, visits, reports)
  PROVE  /\ Len(reports) \in DOMAIN visits
         /\ visits[Len(reports)] \in 1..last
         /\ visits[Len(reports)] = last <=> \A n \in 1..last : n \in W => n \in covered
<1> DEFINE r == Len(reports)
<1> DEFINE R == {k \in 1..Len(at) : at[k] \in W}
<1>0. /\ covered \subseteq 1..N /\ W \subseteq 1..N
      /\ last \in covered /\ last \in W /\ \A n \in covered : n <= last
      /\ Enumerates(at, covered, N) /\ Enumerates(visits, W, N)
      /\ Enumerates(reports, R, Len(at))
  BY DEF Counted
<1> USE <1>0
<1>1. /\ Len(at) \in Nat /\ DOMAIN at = 1..Len(at)
      /\ \A k \in DOMAIN at : at[k] \in 1..N /\ at[k] \in covered
      /\ \A k, m \in DOMAIN at : k < m => at[k] < at[m]
      /\ \A n \in 1..N : n \in covered => \E k \in DOMAIN at : at[k] = n
  <2>1. /\ at \in Seq(1..N)
        /\ \A k \in DOMAIN at : at[k] \in covered
        /\ \A k, m \in DOMAIN at : k < m => at[k] < at[m]
        /\ \A n \in 1..N : n \in covered => \E k \in DOMAIN at : at[k] = n
    BY DEF Enumerates
  <2>2. Len(at) \in Nat /\ DOMAIN at = 1..Len(at)
    BY <2>1
  <2>3. \A k \in DOMAIN at : at[k] \in 1..N
    BY <2>1
  <2>4. QED BY <2>1, <2>2, <2>3
<1>2. /\ Len(visits) \in Nat /\ DOMAIN visits = 1..Len(visits)
      /\ \A k \in DOMAIN visits : visits[k] \in 1..N /\ visits[k] \in W
      /\ \A k, m \in DOMAIN visits : k < m => visits[k] < visits[m]
      /\ \A n \in 1..N : n \in W => \E k \in DOMAIN visits : visits[k] = n
  <2>1. /\ visits \in Seq(1..N)
        /\ \A k \in DOMAIN visits : visits[k] \in W
        /\ \A k, m \in DOMAIN visits : k < m => visits[k] < visits[m]
        /\ \A n \in 1..N : n \in W => \E k \in DOMAIN visits : visits[k] = n
    BY DEF Enumerates
  <2>2. Len(visits) \in Nat /\ DOMAIN visits = 1..Len(visits)
    BY <2>1
  <2>3. \A k \in DOMAIN visits : visits[k] \in 1..N
    BY <2>1
  <2>4. QED BY <2>1, <2>2, <2>3
<1>3. /\ r \in Nat /\ DOMAIN reports = 1..r
      /\ \A k \in 1..r : reports[k] \in DOMAIN at /\ at[reports[k]] \in W
      /\ \A k, m \in 1..r : k < m => reports[k] < reports[m]
      /\ \A q \in DOMAIN at : at[q] \in W => \E k \in 1..r : reports[k] = q
  <2>1. /\ reports \in Seq(1..Len(at))
        /\ \A k \in DOMAIN reports : reports[k] \in R
        /\ \A k, m \in DOMAIN reports : k < m => reports[k] < reports[m]
        /\ \A q \in 1..Len(at) : q \in R => \E k \in DOMAIN reports : reports[k] = q
    BY DEF Enumerates
  <2>2. r \in Nat /\ DOMAIN reports = 1..r
    BY <2>1
  <2>3. QED BY <1>1, <2>1, <2>2
<1>4. PICK j \in DOMAIN visits : visits[j] = last
  BY <1>2
<1>5. j \in Nat /\ j >= 1 /\ \A p \in 1..j : p \in DOMAIN visits
  BY <1>2
<1> HIDE DEF r
(* A visit that is not after the last one.                                 *)
<1>6. ASSUME NEW p \in DOMAIN visits, visits[p] <= last PROVE p \in 1..j
  <2>1. p \in 1..Len(visits) /\ j \in 1..Len(visits)
    BY <1>2
  <2>2. ~ (j < p)
    BY <1>2, <1>4, <1>6
  <2>3. QED BY <2>1, <2>2
(* The reports, as visits.                                                 *)
<1>7. ASSUME NEW k \in 1..r PROVE \E p \in 1..j : visits[p] = at[reports[k]]
  <2>1. at[reports[k]] \in covered /\ at[reports[k]] \in W /\ at[reports[k]] \in 1..N
    BY <1>1, <1>3
  <2>2. PICK p \in DOMAIN visits : visits[p] = at[reports[k]]
    BY <1>2, <2>1
  <2>3. QED BY <1>6, <2>1, <2>2
<1> DEFINE h == [k \in 1..r |-> CHOOSE p \in 1..j : visits[p] = at[reports[k]]]
<1>8. \A k \in 1..r : h[k] \in 1..j /\ visits[h[k]] = at[reports[k]]
  BY <1>7
<1>9. Increasing(h, r, j)
  <2>1. h \in [1..r -> 1..j]
    BY <1>7
  <2> HIDE DEF h
  <2>2. ASSUME NEW k \in 1..r, NEW m \in 1..r, k < m PROVE h[k] < h[m]
    <3>1. reports[k] < reports[m] /\ reports[k] \in DOMAIN at /\ reports[m] \in DOMAIN at
      BY <1>3, <2>2
    <3>2. at[reports[k]] < at[reports[m]] /\ at[reports[k]] \in 1..N /\ at[reports[m]] \in 1..N
      BY <1>1, <3>1
    <3>3. visits[h[k]] < visits[h[m]] /\ h[k] \in DOMAIN visits /\ h[m] \in DOMAIN visits
      BY <1>5, <1>8, <3>2
    <3>4. h[k] \in 1..j /\ h[m] \in 1..j
      BY <1>8
    <3>5. ~ (h[m] < h[k]) /\ h[m] # h[k]
      <4> DEFINE a == visits[h[k]]
                 b == visits[h[m]]
      <4>0. a \in 1..N /\ b \in 1..N
        BY <1>2, <3>3
      <4>1. a < b
        BY <3>3
      <4>2. h[m] < h[k] => b < a
        BY <1>2, <3>3
      <4>3. h[m] = h[k] => a = b
        OBVIOUS
      <4> HIDE DEF a, b
      <4>4. QED BY <4>0, <4>1, <4>2, <4>3
    <3>6. QED BY <3>4, <3>5
  <2>3. QED BY <2>1, <2>2 DEF Increasing
<1> HIDE DEF h
<1>10. r <= j /\ (r = j => \A k \in 1..r : h[k] = k)
  BY <1>3, <1>5, <1>9, IncreasingBound
<1>11. r >= 1
  <2>1. PICK q \in DOMAIN at : at[q] = last
    BY <1>1
  <2>2. PICK k \in 1..r : reports[k] = q
    BY <1>3, <2>1
  <2>3. QED BY <1>3, <2>2
<1>12. r \in DOMAIN visits /\ r \in 1..j
  BY <1>3, <1>5, <1>10, <1>11
<1>13. visits[r] \in 1..last /\ (visits[r] = last <=> r = j)
  <2>1. visits[r] \in 1..N /\ visits[j] \in 1..N /\ last \in 1..N
    BY <1>2, <1>4, <1>12
  <2>2. CASE r = j
    BY <1>4, <2>1, <2>2
  <2>3. CASE r # j
    <3>1. r < j
      BY <1>3, <1>5, <1>10, <2>3
    <3>2. visits[r] < visits[j]
      BY <1>2, <1>12, <3>1
    <3>3. QED BY <1>4, <2>1, <2>3, <3>2
  <2>4. QED BY <2>2, <2>3
<1>14. ASSUME r = j, NEW n \in 1..last, n \in W PROVE n \in covered
  <2>1. n \in 1..N /\ n <= last
    OBVIOUS
  <2>2. PICK p \in DOMAIN visits : visits[p] = n
    BY <1>2, <1>14, <2>1
  <2>3. p \in 1..r
    BY <1>6, <1>14, <2>1, <2>2
  <2>4. visits[p] = at[reports[p]]
    BY <1>8, <1>10, <1>14, <2>3
  <2>5. QED BY <1>1, <1>3, <2>2, <2>3, <2>4
<1>15. ASSUME \A n \in 1..last : n \in W => n \in covered PROVE r = j
  <2>1. ASSUME NEW p \in 1..j PROVE \E k \in 1..r : at[reports[k]] = visits[p]
    <3>1. visits[p] \in 1..N /\ visits[p] \in W
      BY <1>2, <1>5
    <3>2. visits[p] <= last
      <4>1. p = j \/ p < j
        BY <1>5
      <4>2. p < j => visits[p] < visits[j]
        BY <1>2, <1>5
      <4>3. last \in 1..N
        OBVIOUS
      <4>4. QED BY <1>4, <3>1, <4>1, <4>2, <4>3
    <3>3. visits[p] \in covered
      <4>1. visits[p] \in 1..last
        BY <3>1, <3>2
      <4>2. QED BY <1>15, <3>1, <4>1
    <3>4. PICK q \in DOMAIN at : at[q] = visits[p]
      BY <1>1, <3>1, <3>3
    <3>5. PICK k \in 1..r : reports[k] = q
      BY <1>3, <3>1, <3>4
    <3>6. QED BY <3>4, <3>5
  <2> DEFINE g == [p \in 1..j |-> CHOOSE k \in 1..r : at[reports[k]] = visits[p]]
  <2>2. \A p \in 1..j : g[p] \in 1..r /\ at[reports[g[p]]] = visits[p]
    BY <2>1
  <2>3. Increasing(g, j, r)
    <3>1. g \in [1..j -> 1..r]
      BY <2>1
    <3> HIDE DEF g
    <3>2. ASSUME NEW k \in 1..j, NEW m \in 1..j, k < m PROVE g[k] < g[m]
      <4>1. visits[k] < visits[m] /\ visits[k] \in 1..N /\ visits[m] \in 1..N
        BY <1>2, <1>5, <3>2
      <4>2. at[reports[g[k]]] < at[reports[g[m]]]
        BY <2>2, <4>1
      <4>3. g[k] \in 1..r /\ g[m] \in 1..r /\ reports[g[k]] \in DOMAIN at /\ reports[g[m]] \in DOMAIN at
        BY <1>3, <2>2
      <4>4. at[reports[g[k]]] \in 1..N /\ at[reports[g[m]]] \in 1..N
        BY <1>1, <4>3
      <4>5. ASSUME g[m] < g[k] PROVE FALSE
        <5>1. reports[g[m]] < reports[g[k]]
          BY <1>3, <4>3, <4>5
        <5>2. at[reports[g[m]]] < at[reports[g[k]]]
          BY <1>1, <4>3, <5>1
        <5>3. QED BY <4>2, <4>4, <5>2
      <4>6. g[m] # g[k]
        BY <4>2, <4>4
      <4>7. QED BY <4>3, <4>5, <4>6
    <3>3. QED BY <3>1, <3>2 DEF Increasing
  <2> HIDE DEF g
  <2>4. j <= r
    BY <1>3, <1>5, <2>3, IncreasingBound
  <2>5. QED BY <1>3, <1>5, <1>10, <2>4
<1>16. QED BY <1>12, <1>13, <1>14, <1>15 DEF r

(* A longer rest of a sequence ends with a shorter one.                    *)
LEMMA RestOfRest ==
  ASSUME NEW S, NEW s \in Seq(S), NEW a \in 0..Len(s), NEW b \in a..Len(s)
  PROVE  LET tail == SubSeq(s, a + 1, Len(s))
             rest == SubSeq(s, b + 1, Len(s))
         IN  /\ Len(tail) = Len(s) - a /\ Len(rest) = Len(s) - b
             /\ SubSeq(tail, Len(tail) - Len(rest) + 1, Len(tail)) = rest
<1> DEFINE N == Len(s)
           tail == SubSeq(s, a + 1, N)
           rest == SubSeq(s, b + 1, N)
<1>1. N \in Nat /\ a \in Nat /\ b \in Nat /\ a <= b /\ b <= N
  OBVIOUS
<1>2. /\ tail \in Seq(S) /\ Len(tail) = N - a
      /\ \A k \in 1..(N - a) : tail[k] = s[a + k]
  BY <1>1
<1>3. /\ rest \in Seq(S) /\ Len(rest) = N - b
      /\ \A k \in 1..(N - b) : rest[k] = s[b + k]
  BY <1>1
<1> HIDE DEF tail, rest, N
<1> DEFINE end == SubSeq(tail, (b - a) + 1, N - a)
<1>4. /\ end \in Seq(S) /\ Len(end) = N - b
      /\ \A k \in 1..(N - b) : end[k] = tail[(b - a) + k]
  BY <1>1, <1>2
<1> HIDE DEF end
<1>5. \A k \in 1..(N - b) : end[k] = rest[k]
  <2>1. ASSUME NEW k \in 1..(N - b) PROVE end[k] = rest[k]
    <3>1. (b - a) + k \in 1..(N - a) /\ a + ((b - a) + k) = b + k
      BY <1>1
    <3>2. QED BY <1>2, <1>3, <1>4, <3>1
  <2>2. QED BY <2>1
<1>6. end = rest
  BY <1>1, <1>3, <1>4, <1>5
<1>7. Len(tail) - Len(rest) + 1 = (b - a) + 1
  BY <1>1, <1>2, <1>3
<1>8. QED BY <1>2, <1>3, <1>6, <1>7 DEF end, tail, rest, N

CoveredTripShape(i) ==
  IsSeq(i.schedule) /\ i.covered # {} /\ i.covered \subseteq DOMAIN i.schedule

(* The anchor of a live feed that reports some of the scheduled stops.     *)
LEMMA AnchorOfCovered ==
  ASSUME NEW schedule, IsSeq(schedule),
         NEW covered, covered \subseteq DOMAIN schedule,
         NEW last \in covered, \A n \in covered : n <= last,
         NEW live, live = EntriesAt(schedule, covered)
  PROVE  /\ IsSeq(live) /\ live # << >>
         /\ Trip!Anchor(schedule, live) \in 1..last
         /\ Trip!Anchor(schedule, live) = last
              <=> \A n \in 1..last : schedule[n] = schedule[last] => n \in covered
<1> DEFINE N == Len(schedule)
           at == PlacesIn(covered, N)
<1>1. N \in Nat /\ DOMAIN schedule = 1..N
  BY DEF IsSeq
<1>2. Enumerates(at, covered, N) /\ live = [k \in DOMAIN at |-> schedule[at[k]]]
  BY <1>1, PlacesEnumerated DEF EntriesAt
<1>3. IsSeq(live)
  BY SelectionIsSeq
<1> HIDE DEF N, at
<1>4. /\ Len(at) \in Nat /\ DOMAIN at = 1..Len(at)
      /\ \A k \in DOMAIN at : at[k] \in 1..N /\ at[k] \in covered
      /\ \A k, m \in DOMAIN at : k < m => at[k] < at[m]
      /\ \A n \in 1..N : n \in covered => \E k \in DOMAIN at : at[k] = n
  <2>1. Enumerates(at, covered, N)
    BY <1>2
  <2>2. /\ at \in Seq(1..N)
        /\ \A k \in DOMAIN at : at[k] \in covered
        /\ \A k, m \in DOMAIN at : k < m => at[k] < at[m]
        /\ \A n \in 1..N : n \in covered => \E k \in DOMAIN at : at[k] = n
    BY <2>1 DEF Enumerates
  <2>3. Len(at) \in Nat /\ DOMAIN at = 1..Len(at) /\ \A k \in DOMAIN at : at[k] \in 1..N
    <3>1. at \in Seq(1..N)
      BY <2>2
    <3>2. QED BY <1>1, <3>1
  <2>4. QED BY <2>2, <2>3
<1>5. /\ DOMAIN live = 1..Len(at) /\ Len(live) = Len(at)
      /\ \A k \in 1..Len(at) : live[k] = schedule[at[k]]
  <2>1. DOMAIN live = 1..Len(at) /\ \A k \in 1..Len(at) : live[k] = schedule[at[k]]
    BY <1>2, <1>4
  <2>2. DOMAIN live = 1..Len(live) /\ Len(live) \in Nat
    BY <1>3 DEF IsSeq
  <2>3. QED BY <1>4, <2>1, <2>2
<1>6. PICK q \in DOMAIN at : at[q] = last
  BY <1>1, <1>4
<1>7. Len(at) \in DOMAIN at /\ at[Len(at)] = last
  <2>1. q \in 1..Len(at) /\ Len(at) \in DOMAIN at
    BY <1>4
  <2>2. at[Len(at)] <= last /\ at[Len(at)] \in 1..N /\ last \in 1..N
    BY <1>1, <1>4, <2>1
  <2>3. ~ (q < Len(at))
    BY <1>4, <1>6, <2>1, <2>2
  <2>4. q = Len(at)
    BY <1>4, <2>1, <2>3
  <2>5. QED BY <1>6, <2>1, <2>4
<1> DEFINE x == schedule[last]
           W == VisitsOf(schedule, x)
           R == VisitsOf(live, x)
           visits == Trip!Occurrences(schedule, x)
           reports == Trip!Occurrences(live, x)
<1>8. live[Len(live)] = x /\ live # << >>
  <2>1. live[Len(live)] = x
    BY <1>4, <1>5, <1>7
  <2>2. DOMAIN live # {} /\ DOMAIN << >> = {}
    BY <1>5, <1>7, <1>4
  <2>3. QED BY <2>1, <2>2
<1>9. Trip!Anchor(schedule, live) = IF Len(visits) < Len(reports) THEN 0 ELSE visits[Len(reports)]
  BY <1>8 DEF Trip!Anchor
<1>10. Enumerates(visits, W, N) /\ Enumerates(reports, R, Len(at))
  BY <1>3, <1>5, VisitsEnumerated DEF N
<1>11. /\ W \subseteq 1..N /\ last \in W /\ covered \subseteq 1..N
       /\ \A n \in 1..N : n \in W <=> schedule[n] = x
  BY <1>1 DEF VisitsOf
<1>12. R = {k \in 1..Len(at) : at[k] \in W}
  <2>1. \A k \in 1..Len(at) : k \in R <=> at[k] \in W
    BY <1>4, <1>5, <1>11 DEF VisitsOf
  <2>2. R \subseteq 1..Len(at)
    BY <1>5 DEF VisitsOf
  <2>3. QED BY <2>1, <2>2
<1> HIDE DEF visits, reports, W, R, x
<1>13. /\ Len(reports) \in DOMAIN visits
       /\ visits[Len(reports)] \in 1..last
       /\ visits[Len(reports)] = last <=> \A n \in 1..last : n \in W => n \in covered
  <2>1. Counted(N, covered, W, last, at, visits, reports)
    BY <1>2, <1>10, <1>11, <1>12 DEF Counted
  <2>2. QED BY <1>1, <2>1, VisitOfReports
<1>14. Len(visits) \in Nat /\ DOMAIN visits = 1..Len(visits)
  BY <1>10 DEF Enumerates
<1>15. Trip!Anchor(schedule, live) = visits[Len(reports)]
  BY <1>9, <1>13, <1>14
<1>16. \A n \in 1..last : n \in W <=> schedule[n] = x
  <2>1. last \in 1..N
    BY <1>11
  <2>2. QED BY <1>1, <1>11, <2>1
<1>17. QED BY <1>3, <1>8, <1>13, <1>15, <1>16 DEF x

(* Loops and turnbacks of any length: the tail of a trip never loses a     *)
(* stop after the last one reported, and repeats one only if the feed left *)
(* out a visit to the last stop.                                           *)
THEOREM TailIsComplete ==
  ASSUME \A i \in Inputs : i.of = "covered_trip" => CoveredTripShape(i)
  PROVE  Spec => []TailCompletesTrip
<1>1. ASSUME input \in Inputs, input.of = "covered_trip" PROVE TailCompletesTrip
  <2> DEFINE schedule == input.schedule
             covered == input.covered
             N == Len(schedule)
             last == CHOOSE n \in covered : \A k \in covered : k <= n
             places == PlacesIn(covered, N)
             live == [n \in DOMAIN places |-> schedule[places[n]]]
             tail == Trip!TailStops(schedule, live)
             rest == SubSeq(schedule, last + 1, N)
             a == Trip!Anchor(schedule, live)
  <2>1. IsSeq(schedule) /\ covered # {} /\ covered \subseteq DOMAIN schedule
    BY <1>1 DEF CoveredTripShape
  <2>2. N \in Nat /\ DOMAIN schedule = 1..N
    BY <2>1 DEF IsSeq
  <2>3. last \in covered /\ \A k \in covered : k <= last
    <3> HIDE DEF covered, N
    <3>1. \E n \in covered : \A k \in covered : k <= n
      BY <2>1, <2>2, GreatestElement
    <3>2. QED BY <3>1
  <2>4. live = EntriesAt(schedule, covered)
    BY DEF EntriesAt
  <2> HIDE DEF schedule, covered, N, last, places, live
  <2>5. /\ IsSeq(live) /\ live # << >> /\ a \in 1..last
        /\ a = last <=> \A n \in 1..last : schedule[n] = schedule[last] => n \in covered
    BY <2>1, <2>3, <2>4, AnchorOfCovered
  <2>6. tail = SubSeq(schedule, a + 1, N)
    <3>1. a # 0
      BY <2>1, <2>2, <2>3, <2>5
    <3>2. QED BY <2>5, <3>1 DEF Trip!TailStops, N
  <2> HIDE DEF a, tail
  <2>7. last \in 1..N /\ a \in 0..N /\ last \in a..N
    BY <2>1, <2>2, <2>3, <2>5
  <2>8. PICK S : schedule \in Seq(S)
    BY <2>1 DEF IsSeq
  <2>9. /\ Len(tail) = N - a /\ Len(rest) = N - last
        /\ SubSeq(tail, Len(tail) - Len(rest) + 1, Len(tail)) = rest
    BY <2>6, <2>7, <2>8, RestOfRest DEF N
  <2>10. Len(tail) >= Len(rest)
    BY <2>2, <2>7, <2>9
  <2>11. tail = rest <=> a = last
    <3>1. ASSUME a = last PROVE tail = rest
      BY <2>6, <3>1
    <3>2. ASSUME tail = rest PROVE a = last
      BY <2>2, <2>7, <2>9, <3>2
    <3>3. QED BY <3>1, <3>2
  <2> HIDE DEF rest
  <2>12. /\ Len(tail) >= Len(rest)
         /\ SubSeq(tail, Len(tail) - Len(rest) + 1, Len(tail)) = rest
         /\ tail = rest <=> \A n \in 1..last : schedule[n] = schedule[last] => n \in covered
    BY <2>5, <2>9, <2>10, <2>11
  <2>13. QED BY <2>12 DEF TailCompletesTrip, schedule, covered, N, last, places, live, tail, rest
<1>2. input \in Inputs => TailCompletesTrip
  BY <1>1 DEF TailCompletesTrip
<1>3. QED BY <1>2, InputKept, PTL

-----------------------------------------------------------------------------

(* A list without its repetitions has each key once, with its last row.    *)
KeysOnce(rows) == \A p, q \in DOMAIN rows : rows[p].key = rows[q].key => p = q

LastOfKey(rows, k) == \A j \in DOMAIN rows : rows[j].key = rows[k].key => j <= k

LEMMA Deduplicated ==
  ASSUME NEW rows, IsSeq(rows)
  PROVE  LET short == Rows!Dedupe(rows)
         IN  /\ IsSeq(short) /\ KeysOnce(short)
             /\ \A n \in DOMAIN rows : \E p \in DOMAIN short : short[p].key = rows[n].key
             /\ \A p \in DOMAIN short :
                  \E k \in DOMAIN rows : short[p] = rows[k] /\ LastOfKey(rows, k)
<1> DEFINE m == Len(rows)
           IsFirst(n) == \A k \in 1..n - 1 : rows[k].key # rows[n].key
           P == {n \in DOMAIN rows : IsFirst(n)}
           places == Rows!PlacesIn(P, m)
           IsLast(n, k) == /\ rows[k].key = rows[n].key
                           /\ \A j \in k + 1..m : rows[j].key # rows[n].key
           LastOf(n) == CHOOSE k \in DOMAIN rows : IsLast(n, k)
           short == Rows!Dedupe(rows)
<1>1. m \in Nat /\ DOMAIN rows = 1..m
  BY DEF IsSeq
<1>2. short = [p \in DOMAIN places |-> rows[LastOf(places[p])]]
  BY DEF Rows!Dedupe
<1>3. Enumerates(places, P, m)
  <2>1. places = PlacesIn(P, m)
    BY DEF Rows!PlacesIn, PlacesIn
  <2> HIDE DEF places, P, m
  <2>2. QED BY <1>1, <2>1, PlacesEnumerated
<1> HIDE DEF m, places, LastOf, short, IsLast
<1>4. ASSUME NEW n \in DOMAIN rows PROVE LastOf(n) \in DOMAIN rows /\ IsLast(n, LastOf(n))
  <2> DEFINE T == {k \in 1..m : rows[k].key = rows[n].key}
  <2>1. n \in T /\ T \subseteq 1..m
    BY <1>1
  <2>2. PICK k \in T : \A j \in T : j <= k
    <3> HIDE DEF T
    <3>1. QED BY <1>1, <2>1, GreatestElement
  <2>3. k \in DOMAIN rows /\ rows[k].key = rows[n].key
    BY <1>1
  <2>4. ASSUME NEW j \in k + 1..m PROVE rows[j].key # rows[n].key
    <3>1. j \in 1..m /\ ~ (j <= k)
      BY <1>1, <2>3
    <3>2. QED BY <2>2, <3>1
  <2>5. IsLast(n, k)
    BY <2>3, <2>4 DEF IsLast
  <2>6. QED BY <2>3, <2>5 DEF LastOf
<1>5. /\ places \in Seq(1..m) /\ Len(places) \in Nat /\ DOMAIN places = 1..Len(places)
      /\ \A p \in DOMAIN places : places[p] \in DOMAIN rows /\ places[p] \in P
      /\ \A p, q \in DOMAIN places : p < q => places[p] < places[q]
      /\ \A n \in 1..m : n \in P => \E p \in DOMAIN places : places[p] = n
  <2>1. /\ places \in Seq(1..m)
        /\ \A p \in DOMAIN places : places[p] \in P
        /\ \A p, q \in DOMAIN places : p < q => places[p] < places[q]
        /\ \A n \in 1..m : n \in P => \E p \in DOMAIN places : places[p] = n
    BY <1>3 DEF Enumerates
  <2>2. Len(places) \in Nat /\ DOMAIN places = 1..Len(places)
    BY <2>1
  <2>3. QED BY <2>1, <2>2
<1>6. /\ DOMAIN short = DOMAIN places
      /\ \A p \in DOMAIN places : /\ short[p] = rows[LastOf(places[p])]
                                  /\ short[p].key = rows[places[p]].key
  BY <1>2, <1>4, <1>5 DEF IsLast
<1>7. IsSeq(short)
  <2> DEFINE S == {rows[k] : k \in DOMAIN rows}
  <2>1. \A p \in DOMAIN places : short[p] \in S
    BY <1>4, <1>5, <1>6
  <2> HIDE DEF S
  <2>2. short \in [1..Len(places) -> S]
    BY <1>2, <1>5, <2>1
  <2>3. short \in Seq(S)
    BY <1>5, <2>2, FunctionIsSeq
  <2>4. QED BY <2>3 DEF IsSeq
<1>8. KeysOnce(short)
  <2>1. ASSUME NEW p \in DOMAIN places, NEW q \in DOMAIN places, p < q
        PROVE  rows[places[p]].key # rows[places[q]].key
    <3>1. places[p] \in 1..m /\ places[q] \in 1..m /\ places[p] < places[q] /\ IsFirst(places[q])
      BY <1>1, <1>5, <2>1
    <3>2. places[p] \in 1..places[q] - 1
      BY <1>1, <3>1
    <3>3. QED BY <3>1, <3>2
  <2>2. \A p, q \in DOMAIN places : p < q \/ q < p \/ p = q
    BY <1>5
  <2>3. QED BY <1>6, <2>1, <2>2 DEF KeysOnce
<1>9. ASSUME NEW n \in DOMAIN rows PROVE \E p \in DOMAIN short : short[p].key = rows[n].key
  <2> DEFINE T == {k \in 1..m : rows[k].key = rows[n].key}
  <2>1. n \in T /\ T \subseteq Nat
    BY <1>1
  <2>2. PICK k \in T : \A j \in T : k <= j
    <3> HIDE DEF T
    <3>1. QED BY <2>1, LeastElement
  <2>3. k \in 1..m /\ rows[k].key = rows[n].key
    OBVIOUS
  <2>4. ASSUME NEW j \in 1..k - 1 PROVE rows[j].key # rows[k].key
    <3>1. j \in 1..m /\ ~ (k <= j)
      BY <1>1, <2>3
    <3>2. QED BY <2>2, <2>3, <3>1
  <2>5. k \in P
    BY <1>1, <2>3, <2>4
  <2>6. QED BY <1>5, <1>6, <2>3, <2>5
<1>10. ASSUME NEW p \in DOMAIN short
       PROVE  \E k \in DOMAIN rows : short[p] = rows[k] /\ LastOfKey(rows, k)
  <2> DEFINE k == LastOf(places[p])
  <2>1. k \in DOMAIN rows /\ IsLast(places[p], k) /\ short[p] = rows[k]
    BY <1>4, <1>5, <1>6
  <2> HIDE DEF k
  <2>2. ASSUME NEW j \in DOMAIN rows, rows[j].key = rows[k].key PROVE j <= k
    <3>1. j \in 1..m /\ k \in 1..m /\ j \notin k + 1..m
      BY <1>1, <2>1, <2>2 DEF IsLast
    <3>2. QED BY <1>1, <3>1
  <2>3. QED BY <2>1, <2>2 DEF LastOfKey
<1>11. QED BY <1>7, <1>8, <1>9, <1>10 DEF short
LEMMA Multiples ==
  ASSUME NEW a \in Nat, NEW b \in Nat, NEW s \in Nat, a <= b
  PROVE  a * s <= b * s /\ a * s \in Nat /\ b * s \in Nat
<1>1. (b - a) * s >= 0 /\ b * s = a * s + (b - a) * s
  OBVIOUS
<1>2. a * s \in Nat /\ b * s \in Nat /\ (b - a) * s \in Nat
  OBVIOUS
<1>3. QED BY <1>1, <1>2

LEMMA Quotient ==
  ASSUME NEW a \in Nat, NEW s \in Nat \ {0}
  PROVE  /\ a \div s \in Nat /\ (a \div s) * s \in Nat
         /\ (a \div s) * s <= a /\ a < (a \div s) * s + s
<1>1. a = ((a \div s) * s) + (a % s)
  OBVIOUS
<1>2. (a % s) \in 0..s - 1
  OBVIOUS
<1>3. a \div s \in Nat
  OBVIOUS
<1>4. (a \div s) * s \in Nat
  BY <1>3
<1>5. QED BY <1>1, <1>2, <1>3, <1>4

(* The place in the file of row i of batch b.                              *)
PlaceOf(size, b, i) == (b - 1) * size + i

BatchesOf(batches, rows, size) ==
  /\ IsSeq(batches)
  /\ \A b \in DOMAIN batches :
       /\ IsSeq(batches[b])
       /\ \A i \in DOMAIN batches[b] : /\ i \in 1..size
                                       /\ PlaceOf(size, b, i) \in DOMAIN rows
                                       /\ batches[b][i] = rows[PlaceOf(size, b, i)]
  /\ \A n \in DOMAIN rows : \E b \in DOMAIN batches : \E i \in DOMAIN batches[b] :
       PlaceOf(size, b, i) = n

LEMMA PlacesInOrder ==
  ASSUME NEW size \in Nat \ {0}, NEW b \in Nat \ {0}, NEW c \in Nat, b < c,
         NEW i \in 1..size, NEW k \in Nat \ {0}
  PROVE  PlaceOf(size, b, i) < PlaceOf(size, c, k)
<1>1. b * size <= (c - 1) * size /\ b * size \in Nat /\ (c - 1) * size \in Nat
  BY Multiples
<1>2. (b - 1) * size + size = b * size /\ (b - 1) * size \in Nat
  OBVIOUS
<1>3. (b - 1) * size + i <= b * size
  BY <1>2
<1>4. QED BY <1>1, <1>2, <1>3 DEF PlaceOf

(* A file is cut into batches: each row is in one, and they are in order.  *)
LEMMA FileInBatches ==
  ASSUME NEW rows, IsSeq(rows), NEW size \in Nat \ {0}
  PROVE  BatchesOf(Rows!Batches(rows, size), rows, size)
<1> DEFINE L == Len(rows)
           B == (L + size - 1) \div size
           Low(b) == (b - 1) * size + 1
           High(b) == IF b * size < L THEN b * size ELSE L
           batches == Rows!Batches(rows, size)
<1>1. PICK S : rows \in Seq(S)
  BY DEF IsSeq
<1>2. L \in Nat /\ DOMAIN rows = 1..L
  BY <1>1
<1>3. batches = [b \in 1..B |-> SubSeq(rows, Low(b), High(b))]
  BY DEF Rows!Batches
<1> HIDE DEF L, batches
<1>4. L + size - 1 \in Nat
  BY <1>2
<1>5. B \in Nat /\ B * size <= L + size - 1 /\ L + size - 1 < B * size + size /\ B * size \in Nat
  BY <1>4, Quotient
<1> HIDE DEF B
<1>6. ASSUME NEW b \in 1..B
      PROVE  /\ Low(b) \in Nat \ {0} /\ High(b) \in 0..L
             /\ High(b) - Low(b) + 1 <= size
             /\ b \in Nat /\ (b - 1) * size \in Nat /\ b * size = (b - 1) * size + size
  <2>1. b \in Nat /\ b - 1 \in Nat /\ b * size = (b - 1) * size + size
    BY <1>5
  <2>2. (b - 1) * size \in Nat
    BY <2>1
  <2> DEFINE x == (b - 1) * size
             hi == High(b)
  <2>3. hi = (IF x + size < L THEN x + size ELSE L) /\ Low(b) = x + 1 /\ x \in Nat
    BY <2>1, <2>2
  <2> HIDE DEF x, hi, Low
  <2>4. Low(b) \in Nat \ {0} /\ hi \in 0..L /\ hi - Low(b) + 1 <= size
    BY <1>2, <2>3
  <2>5. QED BY <2>1, <2>2, <2>4 DEF x, hi
<1>7. ASSUME NEW b \in 1..B
      PROVE  LET batch == SubSeq(rows, Low(b), High(b))
             IN  /\ batch \in Seq(S)
                 /\ DOMAIN batch = 1..(High(b) - Low(b) + 1)
                 /\ \A i \in DOMAIN batch : /\ i \in 1..size
                                            /\ PlaceOf(size, b, i) \in 1..L
                                            /\ batch[i] = rows[PlaceOf(size, b, i)]
  <2> DEFINE lo == Low(b)
             hi == High(b)
             batch == SubSeq(rows, lo, hi)
  <2>1. lo \in Nat \ {0} /\ hi \in 0..L /\ hi - lo + 1 <= size /\ lo = (b - 1) * size + 1
        /\ (b - 1) * size \in Nat
    BY <1>6
  <2> HIDE DEF lo, hi
  <2>2. /\ batch \in Seq(S) /\ DOMAIN batch = 1..(hi - lo + 1)
        /\ \A i \in 1..(hi - lo + 1) : batch[i] = rows[lo + i - 1]
    BY <1>1, <1>2, <2>1 DEF L
  <2> HIDE DEF batch
  <2>3. ASSUME NEW i \in 1..(hi - lo + 1)
        PROVE  /\ i \in 1..size /\ PlaceOf(size, b, i) = lo + i - 1 /\ lo + i - 1 \in 1..L
    <3> DEFINE x == (b - 1) * size
    <3>1. PlaceOf(size, b, i) = x + i /\ x \in Nat /\ lo = x + 1
      BY <2>1 DEF PlaceOf
    <3> HIDE DEF x
    <3>2. QED BY <1>2, <2>1, <3>1
  <2>4. ASSUME NEW i \in DOMAIN batch
        PROVE  /\ i \in 1..size /\ PlaceOf(size, b, i) \in 1..L
               /\ batch[i] = rows[PlaceOf(size, b, i)]
    <3>1. i \in 1..(hi - lo + 1)
      BY <2>2
    <3>2. PlaceOf(size, b, i) = lo + i - 1
      BY <2>3, <3>1
    <3>3. QED BY <2>2, <2>3, <3>1, <3>2
  <2>5. QED BY <2>2, <2>4 DEF lo, hi, batch
<1>8. ASSUME NEW n \in 1..L
      PROVE  \E b \in 1..B : \E i \in 1..(High(b) - Low(b) + 1) : PlaceOf(size, b, i) = n
  <2> DEFINE q == (n - 1) \div size
             x == q * size
             y == B * size
  <2>1. n \in Nat /\ n >= 1 /\ n - 1 \in Nat /\ n <= L
    BY <1>2
  <2>2. q \in Nat /\ x \in Nat /\ x <= n - 1 /\ n - 1 < x + size
    BY <2>1, Quotient
  <2> HIDE DEF q
  <2>3. q < B
    <3>1. CASE B <= q
      <4>1. y <= x /\ y \in Nat
        BY <1>5, <2>2, <3>1, Multiples
      <4>2. L + size - 1 < y + size
        BY <1>5
      <4> HIDE DEF x, y
      <4>3. QED BY <1>2, <2>1, <2>2, <4>1, <4>2
    <3>2. QED BY <1>5, <2>2, <3>1
  <2> DEFINE b == q + 1
  <2>4. b \in 1..B /\ b - 1 = q
    BY <1>5, <2>2, <2>3
  <2>5. Low(b) = x + 1 /\ b * size = x + size
    BY <2>2, <2>4
  <2>6. n <= High(b)
    <3>1. High(b) = IF x + size < L THEN x + size ELSE L
      BY <2>5
    <3> HIDE DEF High, b, x
    <3>2. QED BY <1>2, <2>1, <2>2, <3>1
  <2> DEFINE i == n - x
  <2>7. i \in 1..(High(b) - Low(b) + 1) /\ PlaceOf(size, b, i) = n
    <3>1. PlaceOf(size, b, i) = x + i
      BY <2>4 DEF PlaceOf
    <3>2. High(b) \in 0..L
      BY <1>6, <2>4
    <3> HIDE DEF x, b, High, Low
    <3>3. QED BY <1>2, <2>1, <2>2, <2>5, <2>6, <3>1, <3>2
  <2>8. QED BY <2>4, <2>7
<1> HIDE DEF Low, High
<1> DEFINE C == {SubSeq(rows, Low(b), High(b)) : b \in 1..B}
<1>9. IsSeq(batches)
  <2>1. \A b \in 1..B : SubSeq(rows, Low(b), High(b)) \in C
    OBVIOUS
  <2> HIDE DEF C
  <2>2. batches \in [1..B -> C]
    BY <1>3, <2>1
  <2>3. batches \in Seq(C)
    BY <1>5, <2>2, FunctionIsSeq
  <2>4. QED BY <2>3 DEF IsSeq
<1>10. /\ DOMAIN batches = 1..B
       /\ \A b \in 1..B : batches[b] = SubSeq(rows, Low(b), High(b))
  BY <1>3
<1>11. ASSUME NEW b \in DOMAIN batches
       PROVE  /\ IsSeq(batches[b])
              /\ \A i \in DOMAIN batches[b] : /\ i \in 1..size
                                              /\ PlaceOf(size, b, i) \in DOMAIN rows
                                              /\ batches[b][i] = rows[PlaceOf(size, b, i)]
  BY <1>2, <1>7, <1>10 DEF IsSeq
<1>12. ASSUME NEW n \in DOMAIN rows
       PROVE  \E b \in DOMAIN batches : \E i \in DOMAIN batches[b] : PlaceOf(size, b, i) = n
  BY <1>2, <1>7, <1>8, <1>10
<1>13. QED BY <1>9, <1>11, <1>12 DEF BatchesOf, batches
Writes(batch, key) == \E i \in DOMAIN batch : batch[i].key = key

Tables(K) == UNION {[D -> [fresh : Nat, kept : Nat]] : D \in SUBSET K}
FileRows(K) == [key : K, fresh : Nat, kept : Nat]

(* One statement, which has no key twice.                                  *)
LEMMA BatchUpserted ==
  ASSUME NEW K, NEW table \in Tables(K), NEW batch, KeysOnce(batch),
         \A i \in DOMAIN batch : batch[i] \in FileRows(K)
  PROVE  LET result == Rows!UpsertBatch(table, batch)
         IN  /\ result \in Tables(K)
             /\ \A key : key \in DOMAIN result <=> key \in DOMAIN table \/ Writes(batch, key)
             /\ \A i \in DOMAIN batch : result[batch[i].key].fresh = batch[i].fresh
             /\ \A key \in DOMAIN table : ~ Writes(batch, key) => result[key] = table[key]
<1> DEFINE result == Rows!UpsertBatch(table, batch)
           D == DOMAIN table \cup {batch[n].key : n \in DOMAIN batch}
           At(key) == CHOOSE n \in DOMAIN batch : batch[n].key = key
           Wrote(key) == \E n \in DOMAIN batch : batch[n].key = key
           Row(key) == [fresh |-> batch[At(key)].fresh,
                        kept |-> IF key \in DOMAIN table THEN table[key].kept
                                 ELSE batch[At(key)].kept]
<1>1. result = [key \in D |-> IF Wrote(key) THEN Row(key) ELSE table[key]]
  BY DEF Rows!UpsertBatch
<1>2. /\ DOMAIN table \subseteq K
      /\ \A key \in DOMAIN table : table[key] \in [fresh : Nat, kept : Nat]
  BY DEF Tables
<1>3. \A i \in DOMAIN batch : batch[i].key \in K /\ batch[i].fresh \in Nat /\ batch[i].kept \in Nat
  BY DEF FileRows
<1>4. \A key : Wrote(key) => At(key) \in DOMAIN batch /\ batch[At(key)].key = key
  OBVIOUS
<1>5. \A key : key \in D <=> key \in DOMAIN table \/ Wrote(key)
  OBVIOUS
<1> HIDE DEF At, Wrote
<1>6. ASSUME NEW key, Wrote(key) PROVE Row(key) \in [fresh : Nat, kept : Nat]
  BY <1>2, <1>3, <1>4, <1>6
<1> HIDE DEF D, result
<1>7. result \in Tables(K)
  <2>1. D \in SUBSET K
    BY <1>2, <1>3 DEF D
  <2>2. ASSUME NEW key \in D
        PROVE  (IF Wrote(key) THEN Row(key) ELSE table[key]) \in [fresh : Nat, kept : Nat]
    BY <1>2, <1>5, <1>6
  <2>3. result \in [D -> [fresh : Nat, kept : Nat]]
    BY <1>1, <2>2
  <2>4. QED BY <2>1, <2>3 DEF Tables
<1>8. ASSUME NEW i \in DOMAIN batch PROVE result[batch[i].key].fresh = batch[i].fresh
  <2> DEFINE key == batch[i].key
  <2>1. Wrote(key)
    BY DEF Wrote
  <2>2. At(key) = i
    BY <1>4, <2>1 DEF KeysOnce
  <2>3. result[key] = Row(key)
    BY <1>1, <1>5, <2>1
  <2>4. Row(key).fresh = batch[At(key)].fresh
    OBVIOUS
  <2>5. QED BY <2>2, <2>3, <2>4
<1>9. \A key \in DOMAIN table : ~ Wrote(key) => result[key] = table[key]
  BY <1>1, <1>5
<1>10. DOMAIN result = D
  BY <1>1
<1>11. \A key : Wrote(key) <=> Writes(batch, key)
  BY DEF Wrote, Writes
<1>12. QED BY <1>5, <1>7, <1>8, <1>9, <1>10, <1>11 DEF result

(* After m statements each key has the columns of the last one writing it. *)
LastWritten(table, statements, m, result) ==
  /\ \A key : key \in DOMAIN result
                <=> key \in DOMAIN table \/ \E s \in 1..m : Writes(statements[s], key)
  /\ \A key \in DOMAIN table :
       (\A s \in 1..m : ~ Writes(statements[s], key)) => result[key] = table[key]
  /\ \A s \in 1..m : \A i \in DOMAIN statements[s] :
       (\A t \in s + 1..m : ~ Writes(statements[t], statements[s][i].key))
         => result[statements[s][i].key].fresh = statements[s][i].fresh

StatementsShape(K, statements) ==
  /\ IsSeq(statements)
  /\ \A s \in DOMAIN statements : /\ KeysOnce(statements[s])
                                  /\ \A i \in DOMAIN statements[s] : statements[s][i] \in FileRows(K)

LEMMA OneMoreStatement ==
  ASSUME NEW K, NEW table \in Tables(K), NEW statements, StatementsShape(K, statements),
         NEW m \in DOMAIN statements, NEW before \in Tables(K),
         LastWritten(table, statements, m - 1, before)
  PROVE  LastWritten(table, statements, m, Rows!UpsertBatch(before, statements[m]))
<1> DEFINE batch == statements[m]
           after == Rows!UpsertBatch(before, batch)
<1>1. m \in Nat /\ m >= 1
  BY DEF StatementsShape, IsSeq
<1>2. /\ \A key : key \in DOMAIN after <=> key \in DOMAIN before \/ Writes(batch, key)
      /\ \A i \in DOMAIN batch : after[batch[i].key].fresh = batch[i].fresh
      /\ \A key \in DOMAIN before : ~ Writes(batch, key) => after[key] = before[key]
  <2>1. KeysOnce(batch) /\ \A i \in DOMAIN batch : batch[i] \in FileRows(K)
    BY DEF StatementsShape
  <2> HIDE DEF batch
  <2>2. QED BY <2>1, BatchUpserted
<1>3. /\ \A key : key \in DOMAIN before
                    <=> key \in DOMAIN table \/ \E s \in 1..m - 1 : Writes(statements[s], key)
      /\ \A key \in DOMAIN table :
           (\A s \in 1..m - 1 : ~ Writes(statements[s], key)) => before[key] = table[key]
      /\ \A s \in 1..m - 1 : \A i \in DOMAIN statements[s] :
           (\A t \in s + 1..m - 1 : ~ Writes(statements[t], statements[s][i].key))
             => before[statements[s][i].key].fresh = statements[s][i].fresh
  BY DEF LastWritten
<1>4. /\ \A s \in 1..m : s = m \/ s \in 1..m - 1
      /\ m \in 1..m /\ \A s \in 1..m - 1 : s \in 1..m /\ m \in s + 1..m
      /\ \A s \in 1..m - 1 : \A t \in s + 1..m - 1 : t \in s + 1..m
  BY <1>1
<1> HIDE DEF batch, after
<1>5. \A key : key \in DOMAIN after
                 <=> key \in DOMAIN table \/ \E s \in 1..m : Writes(statements[s], key)
  BY <1>2, <1>3, <1>4 DEF batch
<1>6. ASSUME NEW key \in DOMAIN table, \A s \in 1..m : ~ Writes(statements[s], key)
      PROVE  after[key] = table[key]
  <2>1. key \in DOMAIN before /\ ~ Writes(batch, key)
    BY <1>3, <1>4, <1>6 DEF batch
  <2>2. before[key] = table[key]
    BY <1>3, <1>4, <1>6
  <2>3. QED BY <1>2, <2>1, <2>2
<1>7. ASSUME NEW s \in 1..m, NEW i \in DOMAIN statements[s],
             \A t \in s + 1..m : ~ Writes(statements[t], statements[s][i].key)
      PROVE  after[statements[s][i].key].fresh = statements[s][i].fresh
  <2>1. CASE s = m
    BY <1>2, <2>1 DEF batch
  <2>2. CASE s \in 1..m - 1
    <3> DEFINE key == statements[s][i].key
    <3>1. Writes(statements[s], key)
      BY DEF Writes
    <3>2. ~ Writes(batch, key) /\ \A t \in s + 1..m - 1 : ~ Writes(statements[t], key)
      BY <1>4, <1>7, <2>2 DEF batch
    <3>3. key \in DOMAIN before /\ before[key].fresh = statements[s][i].fresh
      BY <1>3, <2>2, <3>1, <3>2
    <3> HIDE DEF key
    <3>4. after[key] = before[key]
      BY <1>2, <3>2, <3>3
    <3>5. QED BY <3>3, <3>4 DEF key
  <2>3. QED BY <1>4, <2>1, <2>2
<1>8. LastWritten(table, statements, m, after)
  BY <1>5, <1>6, <1>7 DEF LastWritten
<1>9. QED BY <1>8 DEF after, batch

LEMMA StatementsUpserted ==
  ASSUME NEW K, NEW table \in Tables(K), NEW statements, StatementsShape(K, statements)
  PROVE  LastWritten(table, statements, Len(statements), Rows!Upserted(table, statements))
<1> DEFINE m == Len(statements)
           V == Tables(K)
           step == [s \in (1..m) \X V |-> Rows!UpsertBatch(s[2], statements[s[1]])]
           Found(f) == f = [n \in 0..m |-> IF n = 0 THEN table
                                           ELSE Rows!UpsertBatch(f[n - 1], statements[n])]
           found == CHOOSE f : Found(f)
<1>1. m \in Nat /\ DOMAIN statements = 1..m
  BY DEF StatementsShape, IsSeq
<1>2. ASSUME NEW n \in 1..m, NEW t \in V PROVE Rows!UpsertBatch(t, statements[n]) \in V
  <2>1. /\ KeysOnce(statements[n])
        /\ \A i \in DOMAIN statements[n] : statements[n][i] \in FileRows(K)
    BY <1>1 DEF StatementsShape
  <2>2. QED BY <2>1, BatchUpserted
<1> HIDE DEF m, V
<1>3. /\ step \in [(1..m) \X V -> V]
      /\ \A n \in 1..m, t \in V : step[<<n, t>>] = Rows!UpsertBatch(t, statements[n])
  BY <1>2
<1> HIDE DEF step
<1>4. PICK f : Solves(f, m, V, table, step)
  <2>1. table \in V
    BY DEF V
  <2>2. QED BY <1>1, <1>3, <2>1, Recursion
<1>5. /\ f \in [0..m -> V] /\ f[0] = table
      /\ \A n \in 1..m : f[n] = step[<<n, f[n - 1]>>]
  BY <1>4 DEF Solves
<1>6. ASSUME NEW n \in 1..m
      PROVE  f[n - 1] \in V /\ f[n] = Rows!UpsertBatch(f[n - 1], statements[n])
  <2>1. n - 1 \in 0..m
    BY <1>1
  <2>2. f[n - 1] \in V
    BY <2>1, <1>5
  <2>3. QED BY <2>2, <1>3, <1>5
<1>7. Found(f)
  <2>1. ASSUME NEW n \in 0..m
        PROVE  f[n] = IF n = 0 THEN table ELSE Rows!UpsertBatch(f[n - 1], statements[n])
    BY <1>1, <1>5, <1>6
  <2>2. QED BY <1>5, <2>1
<1>8. Found(found)
  <2> HIDE DEF Found
  <2>1. QED BY <1>7
<1>9. Rows!Upserted(table, statements) = found[m]
  BY DEF Rows!Upserted, m
<1> HIDE DEF found
<1>10. \A n \in 0..m : found[n] = IF n = 0 THEN table
                                  ELSE Rows!UpsertBatch(found[n - 1], statements[n])
  BY <1>8
<1> HIDE DEF Found
<1> DEFINE Good == {n \in 0..m : found[n] \in V /\ LastWritten(table, statements, n, found[n])}
<1>11. 0 \in Good
  <2>1. found[0] = table /\ 0 \in 0..m
    BY <1>1, <1>10
  <2>2. LastWritten(table, statements, 0, table)
    BY DEF LastWritten
  <2>3. QED BY <2>1, <2>2 DEF V
<1>12. ASSUME NEW n \in 1..m, n - 1 \in Good PROVE n \in Good
  <2>1. n \in 0..m /\ n # 0 /\ n \in DOMAIN statements
    BY <1>1
  <2>2. found[n] = Rows!UpsertBatch(found[n - 1], statements[n])
    BY <1>10, <2>1
  <2>3. found[n - 1] \in V /\ LastWritten(table, statements, n - 1, found[n - 1])
    BY <1>12
  <2>4. found[n] \in V
    BY <1>2, <2>2, <2>3
  <2>5. LastWritten(table, statements, n, found[n])
    BY <2>1, <2>2, <2>3, OneMoreStatement DEF V
  <2>6. QED BY <2>1, <2>4, <2>5
<1>13. \A n \in 0..m : n \in Good
  <2> HIDE DEF Good
  <2>1. QED BY <1>1, <1>11, <1>12, UpTo
<1>14. m \in 0..m
  BY <1>1
<1>15. QED BY <1>9, <1>13, <1>14 DEF m

(* The statements of a file: each row of each is the last one of its key   *)
(* in the file, unless a later statement writes the key again.             *)
FileStatements(rows, statements) ==
  /\ IsSeq(statements)
  /\ \A s \in DOMAIN statements : KeysOnce(statements[s])
  /\ \A s \in DOMAIN statements : \A i \in DOMAIN statements[s] : \E k \in DOMAIN rows :
       /\ statements[s][i] = rows[k]
       /\ (\A t \in DOMAIN statements : s < t => ~ Writes(statements[t], rows[k].key))
            => LastOfKey(rows, k)
  /\ \A n \in DOMAIN rows : \E s \in DOMAIN statements : Writes(statements[s], rows[n].key)

LEMMA BatchedFile ==
  ASSUME NEW rows, IsSeq(rows), NEW size \in Nat \ {0}
  PROVE  FileStatements(rows, Rows!BatchedStatements(rows, size))
<1> DEFINE short == Rows!Dedupe(rows)
           statements == Rows!BatchedStatements(rows, size)
<1>1. /\ IsSeq(short) /\ KeysOnce(short)
      /\ \A n \in DOMAIN rows : \E p \in DOMAIN short : short[p].key = rows[n].key
      /\ \A p \in DOMAIN short : \E k \in DOMAIN rows : short[p] = rows[k] /\ LastOfKey(rows, k)
  BY Deduplicated
<1>2. statements = Rows!Batches(short, size)
  BY DEF Rows!BatchedStatements
<1> HIDE DEF short, statements
<1>3. BatchesOf(statements, short, size)
  BY <1>1, <1>2, FileInBatches
<1>4. /\ IsSeq(statements)
      /\ \A b \in DOMAIN statements : \A i \in DOMAIN statements[b] :
           /\ i \in 1..size /\ PlaceOf(size, b, i) \in DOMAIN short
           /\ statements[b][i] = short[PlaceOf(size, b, i)]
      /\ \A n \in DOMAIN short : \E b \in DOMAIN statements : \E i \in DOMAIN statements[b] :
           PlaceOf(size, b, i) = n
  BY <1>3 DEF BatchesOf
<1>5. ASSUME NEW s \in DOMAIN statements PROVE KeysOnce(statements[s])
  <2>1. ASSUME NEW p \in DOMAIN statements[s], NEW q \in DOMAIN statements[s],
               statements[s][p].key = statements[s][q].key
        PROVE  p = q
    <3>1. PlaceOf(size, s, p) = PlaceOf(size, s, q)
      BY <1>1, <1>4, <2>1 DEF KeysOnce
    <3>2. s \in Nat /\ (s - 1) * size \in Int /\ p \in 1..size /\ q \in 1..size
      BY <1>4 DEF IsSeq
    <3> DEFINE x == (s - 1) * size
    <3>3. x + p = x + q
      BY <3>1 DEF PlaceOf
    <3>4. x \in Int
      BY <3>2
    <3> HIDE DEF x
    <3>5. QED BY <3>2, <3>3, <3>4
  <2>2. QED BY <2>1 DEF KeysOnce
<1>6. ASSUME NEW s \in DOMAIN statements, NEW i \in DOMAIN statements[s]
      PROVE  \E k \in DOMAIN rows : statements[s][i] = rows[k] /\ LastOfKey(rows, k)
  BY <1>1, <1>4
<1>7. ASSUME NEW n \in DOMAIN rows
      PROVE  \E s \in DOMAIN statements : Writes(statements[s], rows[n].key)
  <2>1. PICK p \in DOMAIN short : short[p].key = rows[n].key
    BY <1>1
  <2>2. PICK s \in DOMAIN statements :
          \E i \in DOMAIN statements[s] : PlaceOf(size, s, i) = p
    BY <1>4
  <2>5. PICK i \in DOMAIN statements[s] : PlaceOf(size, s, i) = p
    BY <2>2
  <2>3. statements[s][i].key = rows[n].key
    BY <1>4, <2>1, <2>5
  <2>4. QED BY <2>3 DEF Writes
<1>8. QED BY <1>4, <1>5, <1>6, <1>7 DEF FileStatements, statements

LEMMA StreamedFile ==
  ASSUME NEW rows, IsSeq(rows), NEW size \in Nat \ {0}
  PROVE  FileStatements(rows, Rows!StreamedStatements(rows, size))
<1> DEFINE batches == Rows!Batches(rows, size)
           statements == Rows!StreamedStatements(rows, size)
<1>1. BatchesOf(batches, rows, size)
  BY FileInBatches
<1>2. statements = [b \in DOMAIN batches |-> Rows!Dedupe(batches[b])]
  BY DEF Rows!StreamedStatements
<1> HIDE DEF batches, statements
<1>3. /\ IsSeq(batches)
      /\ \A b \in DOMAIN batches : IsSeq(batches[b])
      /\ \A b \in DOMAIN batches : \A i \in DOMAIN batches[b] :
           /\ i \in 1..size /\ PlaceOf(size, b, i) \in DOMAIN rows
           /\ batches[b][i] = rows[PlaceOf(size, b, i)]
      /\ \A n \in DOMAIN rows : \E b \in DOMAIN batches : \E i \in DOMAIN batches[b] :
           PlaceOf(size, b, i) = n
  BY <1>1 DEF BatchesOf
<1>4. /\ Len(batches) \in Nat /\ DOMAIN batches = 1..Len(batches)
      /\ DOMAIN statements = DOMAIN batches
      /\ \A b \in DOMAIN batches : statements[b] = Rows!Dedupe(batches[b])
  BY <1>2, <1>3 DEF IsSeq
<1>5. IsSeq(statements)
  <2> DEFINE S == {statements[b] : b \in DOMAIN batches}
  <2>1. \A b \in DOMAIN batches : statements[b] \in S
    OBVIOUS
  <2>2. statements = [b \in 1..Len(batches) |-> statements[b]]
    BY <1>2, <1>4
  <2> HIDE DEF S
  <2>3. statements \in [1..Len(batches) -> S]
    BY <1>4, <2>1, <2>2
  <2>4. statements \in Seq(S)
    BY <1>4, <2>3, FunctionIsSeq
  <2>5. QED BY <2>4 DEF IsSeq
<1>6. ASSUME NEW b \in DOMAIN batches
      PROVE  /\ KeysOnce(statements[b])
             /\ \A i \in DOMAIN batches[b] : Writes(statements[b], batches[b][i].key)
             /\ \A p \in DOMAIN statements[b] : \E i \in DOMAIN batches[b] :
                  statements[b][p] = batches[b][i] /\ LastOfKey(batches[b], i)
  <2> DEFINE batch == batches[b]
             short == Rows!Dedupe(batch)
  <2>1. IsSeq(batch)
    BY <1>3
  <2> HIDE DEF batch
  <2>2. /\ KeysOnce(short)
        /\ \A n \in DOMAIN batch : \E p \in DOMAIN short : short[p].key = batch[n].key
        /\ \A p \in DOMAIN short : \E k \in DOMAIN batch :
             short[p] = batch[k] /\ LastOfKey(batch, k)
    BY <2>1, Deduplicated
  <2>3. statements[b] = short
    BY <1>4 DEF batch
  <2> HIDE DEF short
  <2>4. QED BY <2>2, <2>3 DEF batch, Writes
<1>7. ASSUME NEW n \in DOMAIN rows
      PROVE  \E s \in DOMAIN statements : Writes(statements[s], rows[n].key)
  <2>1. PICK b \in DOMAIN batches :
          \E i \in DOMAIN batches[b] : PlaceOf(size, b, i) = n
    BY <1>3
  <2>4. PICK i \in DOMAIN batches[b] : PlaceOf(size, b, i) = n
    BY <2>1
  <2>2. batches[b][i] = rows[n]
    BY <1>3, <2>4
  <2>3. QED BY <1>4, <1>6, <2>2, <2>4
(* A row of a statement, with no later row of its key.                     *)
<1>8. ASSUME NEW s \in DOMAIN statements, NEW p \in DOMAIN statements[s]
      PROVE  \E k \in DOMAIN rows :
               /\ statements[s][p] = rows[k]
               /\ (\A t \in DOMAIN statements : s < t => ~ Writes(statements[t], rows[k].key))
                    => LastOfKey(rows, k)
  <2>1. PICK i \in DOMAIN batches[s] :
          statements[s][p] = batches[s][i] /\ LastOfKey(batches[s], i)
    BY <1>4, <1>6
  <2> DEFINE k == PlaceOf(size, s, i)
  <2>2. k \in DOMAIN rows /\ batches[s][i] = rows[k] /\ i \in 1..size
    BY <1>3, <1>4
  <2>3. ASSUME \A t \in DOMAIN statements : s < t => ~ Writes(statements[t], rows[k].key),
               NEW j \in DOMAIN rows, rows[j].key = rows[k].key
        PROVE  j <= k
    <3>0. PICK c \in DOMAIN batches :
            \E n \in DOMAIN batches[c] : PlaceOf(size, c, n) = j
      BY <1>3
    <3>1. PICK n \in DOMAIN batches[c] : PlaceOf(size, c, n) = j
      BY <3>0
    <3>2. batches[c][n] = rows[j] /\ n \in 1..size
      BY <1>3, <3>1
    <3>3. s \in Nat \ {0} /\ c \in Nat \ {0}
      BY <1>4
    <3>4. ~ (s < c)
      <4>1. Writes(statements[c], rows[j].key)
        BY <1>6, <3>2
      <4>2. QED BY <1>4, <2>3, <4>1
    <3>5. k \in Nat /\ j \in Nat
      <4> HIDE DEF k
      <4>1. DOMAIN rows \subseteq Nat
        BY DEF IsSeq
      <4>2. QED BY <2>2, <4>1
    <3>6. CASE c < s
      <4>1. j < k
        BY <2>2, <3>1, <3>2, <3>3, <3>6, PlacesInOrder
      <4>2. QED BY <3>5, <4>1
    <3>7. CASE c = s
      <4>1. n <= i
        <5>1. n \in DOMAIN batches[s] /\ batches[s][n].key = batches[s][i].key
          BY <2>2, <2>3, <3>2, <3>7
        <5>2. QED BY <2>1, <5>1 DEF LastOfKey
      <4> DEFINE x == (s - 1) * size
      <4>2. k = x + i /\ j = x + n /\ x \in Int
        BY <3>1, <3>3, <3>7 DEF PlaceOf
      <4> HIDE DEF x, k
      <4>3. QED BY <2>2, <3>2, <4>1, <4>2
    <3>8. QED BY <3>3, <3>4, <3>6, <3>7
  <2>4. QED BY <2>1, <2>2, <2>3 DEF LastOfKey
<1>9. QED BY <1>4, <1>5, <1>6, <1>7, <1>8 DEF FileStatements, statements

(* The rows of a file and the table they are upserted into, as the property *)
(* numbers them.                                                            *)
NumberedRows(keys) == [n \in DOMAIN keys |-> [key |-> keys[n], fresh |-> n, kept |-> n]]

EmptyRows(existing) == [key \in existing |-> [fresh |-> 0, kept |-> 0]]

LastPlace(rows, key) ==
  LET places == {n \in DOMAIN rows : rows[n].key = key}
  IN  IF places = {} THEN 0
      ELSE CHOOSE n \in places : \A k \in places : k <= n

LastRowsWin(existing, rows, statements, result) ==
  /\ \A s \in DOMAIN statements : KeysOnce(statements[s])
  /\ DOMAIN result = existing \cup {rows[n].key : n \in DOMAIN rows}
  /\ \A key \in DOMAIN result : result[key].fresh = LastPlace(rows, key)

LEMMA NumberedFile ==
  ASSUME NEW keys, IsSeq(keys)
  PROVE  /\ IsSeq(NumberedRows(keys))
         /\ DOMAIN NumberedRows(keys) = DOMAIN keys
         /\ \A n \in DOMAIN keys : /\ NumberedRows(keys)[n].key = keys[n]
                                   /\ NumberedRows(keys)[n].fresh = n
                                   /\ n \in Nat \ {0}
<1> DEFINE rows == NumberedRows(keys)
           S == {rows[n] : n \in DOMAIN keys}
<1>1. Len(keys) \in Nat /\ DOMAIN keys = 1..Len(keys)
  BY DEF IsSeq
<1>2. rows = [n \in 1..Len(keys) |-> [key |-> keys[n], fresh |-> n, kept |-> n]]
  BY <1>1 DEF NumberedRows
<1>3. DOMAIN rows = DOMAIN keys
  BY <1>1, <1>2
<1>4. \A n \in DOMAIN keys : /\ rows[n].key = keys[n]
                             /\ rows[n].fresh = n
                             /\ n \in Nat \ {0}
  BY <1>1, <1>2
<1>5. \A n \in DOMAIN keys : rows[n] \in S
  OBVIOUS
<1>6. rows = [n \in 1..Len(keys) |-> rows[n]]
  BY <1>2
<1> HIDE DEF rows, S
<1>7. rows \in [1..Len(keys) -> S]
  BY <1>1, <1>5, <1>6
<1>8. rows \in Seq(S)
  BY <1>1, <1>7, FunctionIsSeq
<1>9. IsSeq(rows)
  BY <1>8 DEF IsSeq
<1>10. QED BY <1>3, <1>4, <1>9 DEF rows

LEMMA FileUpserted ==
  ASSUME NEW keys, IsSeq(keys), NEW existing, NEW statements,
         FileStatements(NumberedRows(keys), statements)
  PROVE  LastRowsWin(existing, NumberedRows(keys), statements,
                     Rows!Upserted(EmptyRows(existing), statements))
<1> DEFINE rows == NumberedRows(keys)
           table == EmptyRows(existing)
           K == existing \cup {keys[n] : n \in DOMAIN keys}
           result == Rows!Upserted(table, statements)
           m == Len(statements)
<1>1. /\ IsSeq(rows)
      /\ DOMAIN rows = DOMAIN keys
      /\ \A n \in DOMAIN keys : rows[n].key = keys[n] /\ rows[n].fresh = n /\ n \in Nat \ {0}
  BY NumberedFile
<1>2. \A n \in DOMAIN rows : rows[n] \in FileRows(K)
  BY DEF NumberedRows, FileRows, IsSeq
<1>3. table \in Tables(K) /\ DOMAIN table = existing /\ \A key \in existing : table[key].fresh = 0
  <2>1. table \in [existing -> [fresh : Nat, kept : Nat]]
    BY DEF EmptyRows
  <2>2. existing \in SUBSET K
    OBVIOUS
  <2>3. table \in Tables(K)
    <3> HIDE DEF table, K
    <3>1. QED BY <2>1, <2>2 DEF Tables
  <2>4. QED BY <2>3 DEF EmptyRows
<1>4. /\ IsSeq(statements)
      /\ \A s \in DOMAIN statements : KeysOnce(statements[s])
      /\ \A s \in DOMAIN statements : \A i \in DOMAIN statements[s] : \E k \in DOMAIN rows :
           /\ statements[s][i] = rows[k]
           /\ (\A t \in DOMAIN statements : s < t => ~ Writes(statements[t], rows[k].key))
                => LastOfKey(rows, k)
      /\ \A n \in DOMAIN rows : \E s \in DOMAIN statements : Writes(statements[s], rows[n].key)
  BY DEF FileStatements
<1> HIDE DEF rows, table, K
<1>5. StatementsShape(K, statements)
  BY <1>2, <1>4 DEF StatementsShape
<1>6. LastWritten(table, statements, m, result)
  BY <1>3, <1>5, StatementsUpserted
<1>7. m \in Nat /\ DOMAIN statements = 1..m
  BY <1>4 DEF IsSeq
<1> HIDE DEF m, result
<1>8. ASSUME NEW s \in DOMAIN statements, NEW key, Writes(statements[s], key)
      PROVE  \E n \in DOMAIN rows : rows[n].key = key
  <2>1. PICK i \in DOMAIN statements[s] : statements[s][i].key = key
    BY <1>8 DEF Writes
  <2>2. PICK k \in DOMAIN rows : statements[s][i] = rows[k]
    BY <1>4
  <2>3. QED BY <2>1, <2>2
<1>9. ASSUME NEW key
      PROVE  key \in DOMAIN result
               <=> key \in existing \cup {rows[n].key : n \in DOMAIN rows}
  <2>1. key \in DOMAIN result
          <=> key \in existing \/ \E s \in 1..m : Writes(statements[s], key)
    BY <1>3, <1>6 DEF LastWritten
  <2>2. QED BY <1>4, <1>7, <1>8, <2>1
<1>10. ASSUME NEW key \in DOMAIN result, \A n \in DOMAIN rows : rows[n].key # key
       PROVE  result[key].fresh = LastPlace(rows, key)
  <2>1. key \in existing /\ \A s \in 1..m : ~ Writes(statements[s], key)
    BY <1>7, <1>8, <1>9, <1>10
  <2>2. result[key] = table[key]
    BY <1>3, <1>6, <2>1 DEF LastWritten
  <2>3. {n \in DOMAIN rows : rows[n].key = key} = {}
    BY <1>10
  <2>4. LastPlace(rows, key) = 0
    BY <2>3 DEF LastPlace
  <2>5. QED BY <1>3, <2>1, <2>2, <2>4
<1>11. ASSUME NEW key \in DOMAIN result, NEW n \in DOMAIN rows, rows[n].key = key
       PROVE  result[key].fresh = LastPlace(rows, key)
  <2> DEFINE W == {s \in 1..m : Writes(statements[s], key)}
  <2>1. W # {}
    BY <1>4, <1>7, <1>11
  <2>2. W \subseteq 1..m
    OBVIOUS
  <2>3. PICK s \in W : \A t \in W : t <= s
    <3> HIDE DEF W
    <3>1. QED BY <1>7, <2>1, <2>2, GreatestElement
  <2>4. PICK i \in DOMAIN statements[s] : statements[s][i].key = key
    BY <2>3 DEF Writes
  <2>5. PICK k \in DOMAIN rows :
          /\ statements[s][i] = rows[k]
          /\ (\A t \in DOMAIN statements : s < t => ~ Writes(statements[t], rows[k].key))
               => LastOfKey(rows, k)
    BY <1>4, <1>7, <2>3
  <2>6. rows[k].key = key /\ statements[s][i].fresh = k
    BY <1>1, <2>4, <2>5
  <2>7. \A t \in 1..m : s < t => ~ Writes(statements[t], key)
    BY <1>7, <2>3
  <2>8. LastOfKey(rows, k)
    BY <1>7, <2>5, <2>6, <2>7
  <2>9. result[key].fresh = k
    <3>1. \A t \in s + 1..m : ~ Writes(statements[t], statements[s][i].key)
      BY <1>7, <2>3, <2>4, <2>7
    <3>2. s \in 1..m
      BY <2>3
    <3>3. result[statements[s][i].key].fresh = statements[s][i].fresh
      BY <1>6, <3>1, <3>2 DEF LastWritten
    <3>4. QED BY <2>4, <2>6, <3>3
  <2>10. LastPlace(rows, key) = k
    <3> DEFINE places == {j \in DOMAIN rows : rows[j].key = key}
    <3>1. places # {} /\ k \in places /\ \A j \in places : j <= k
      BY <2>6, <2>8 DEF LastOfKey
    <3>2. places \subseteq Nat
      BY <1>1
    <3>3. LastPlace(rows, key) = CHOOSE j \in places : \A l \in places : l <= j
      BY <3>1 DEF LastPlace
    <3> HIDE DEF places
    <3>4. \A j \in places : (\A l \in places : l <= j) => j = k
      BY <3>1, <3>2
    <3>5. QED BY <3>1, <3>3, <3>4
  <2>11. QED BY <2>9, <2>10
<1>12. DOMAIN result = existing \cup {rows[n].key : n \in DOMAIN rows}
  BY <1>9
<1>13. \A key \in DOMAIN result : result[key].fresh = LastPlace(rows, key)
  BY <1>10, <1>11
<1>14. LastRowsWin(existing, rows, statements, result)
  BY <1>4, <1>12, <1>13 DEF LastRowsWin
<1>15. QED BY <1>14 DEF rows, result, table

RowFileShape(i) == IsSeq(i.keys) /\ i.size \in Nat \ {0}

(* Upserting a file of rows in statements of a bounded size leaves each key *)
(* of the table with the columns of the last row that has it, and never    *)
(* writes a key twice in a statement, whether the file is deduplicated as  *)
(* a whole (_upsert_batched) or batch by batch (upsert_stop_times).        *)
THEOREM LastRowStays ==
  ASSUME \A i \in Inputs : i.of = "row_file" => RowFileShape(i)
  PROVE  Spec => []LastWriteWins
<1>1. ASSUME NEW keys, IsSeq(keys), NEW existing, NEW size \in Nat \ {0},
             NEW statements \in {Rows!BatchedStatements(NumberedRows(keys), size),
                                 Rows!StreamedStatements(NumberedRows(keys), size)}
      PROVE  LastRowsWin(existing, NumberedRows(keys), statements,
                         Rows!Upserted(EmptyRows(existing), statements))
  <2>1. IsSeq(NumberedRows(keys))
    BY <1>1, NumberedFile
  <2>2. FileStatements(NumberedRows(keys), statements)
    BY <2>1, BatchedFile, StreamedFile
  <2>3. QED BY <1>1, <2>2, FileUpserted
<1>2. ASSUME input \in Inputs PROVE LastWriteWins
  <2>1. SUFFICES ASSUME input.of = "row_file" PROVE LastWriteWins
    BY DEF LastWriteWins
  <2>2. IsSeq(input.keys) /\ input.size \in Nat \ {0}
    BY <1>2, <2>1 DEF RowFileShape
  <2>3. \A statements \in {Rows!BatchedStatements(NumberedRows(input.keys), input.size),
                           Rows!StreamedStatements(NumberedRows(input.keys), input.size)} :
          LastRowsWin(input.existing, NumberedRows(input.keys), statements,
                      Rows!Upserted(EmptyRows(input.existing), statements))
    BY <1>1, <2>2
  <2>4. QED BY <2>3 DEF LastWriteWins, LastRowsWin, NumberedRows, EmptyRows, LastPlace, KeysOnce
<1>3. input \in Inputs => LastWriteWins
  BY <1>2
<1>4. QED BY <1>3, InputKept, PTL

(* The entries that a selection keeps, as a set.                           *)
LEMMA Selected ==
  ASSUME NEW seq, IsSeq(seq), NEW P
  PROVE  LET kept == EntriesAt(seq, P)
         IN  /\ IsSeq(kept)
             /\ \A k \in DOMAIN kept : \E n \in DOMAIN seq : n \in P /\ kept[k] = seq[n]
             /\ \A n \in DOMAIN seq : n \in P => \E k \in DOMAIN kept : kept[k] = seq[n]
<1> DEFINE places == PlacesIn(P, Len(seq))
           kept == EntriesAt(seq, P)
<1>1. Len(seq) \in Nat /\ DOMAIN seq = 1..Len(seq)
  BY DEF IsSeq
<1>2. Enumerates(places, P, Len(seq))
  BY <1>1, PlacesEnumerated
<1>3. /\ \A k \in DOMAIN places : places[k] \in 1..Len(seq) /\ places[k] \in P
      /\ \A n \in 1..Len(seq) : n \in P => \E k \in DOMAIN places : places[k] = n
  <2> HIDE DEF places
  <2>1. QED BY <1>2 DEF Enumerates
<1>4. kept = [k \in DOMAIN places |-> seq[places[k]]]
  BY DEF EntriesAt
<1>5. IsSeq(kept)
  BY SelectionIsSeq
<1> HIDE DEF places, kept
<1>6. DOMAIN kept = DOMAIN places /\ \A k \in DOMAIN places : kept[k] = seq[places[k]]
  BY <1>4
<1>7. \A k \in DOMAIN kept : \E n \in DOMAIN seq : n \in P /\ kept[k] = seq[n]
  BY <1>1, <1>3, <1>6
<1>8. \A n \in DOMAIN seq : n \in P => \E k \in DOMAIN kept : kept[k] = seq[n]
  BY <1>1, <1>3, <1>6
<1>9. QED BY <1>5, <1>7, <1>8 DEF kept

-----------------------------------------------------------------------------

(* The rows of the active systems, and the ones with a place.              *)
Natives(db) == {db.stops[n] : n \in DOMAIN db.stops}

StopRowsShape(rows) == IsSeq(rows) /\ \A n \in DOMAIN rows : rows[n].place \in Int

LEMMA PlacedRows ==
  ASSUME NEW db, StopRowsShape(db.stops)
  PROVE  /\ IsSeq(Stops!Placed(db))
         /\ \A k \in DOMAIN Stops!Placed(db) :
              /\ Stops!Placed(db)[k] \in Natives(db)
              /\ Stops!Placed(db)[k].place \in Int /\ Stops!Placed(db)[k].place # Stops!NoPlace
         /\ \A native \in Natives(db) : native.place # Stops!NoPlace =>
              \E k \in DOMAIN Stops!Placed(db) : Stops!Placed(db)[k] = native
<1> DEFINE rows == db.stops
           P == {n \in DOMAIN rows : rows[n].place # Stops!NoPlace}
           kept == Stops!Placed(db)
<1>1. IsSeq(rows) /\ \A n \in DOMAIN rows : rows[n].place \in Int
  BY DEF StopRowsShape
<1>2. kept = EntriesAt(rows, P)
  BY SameSelection DEF Stops!Placed
<1>3. \A n \in DOMAIN rows : n \in P <=> rows[n].place # Stops!NoPlace
  OBVIOUS
<1>4. /\ \A native \in Natives(db) : \E n \in DOMAIN rows : native = rows[n]
      /\ \A n \in DOMAIN rows : rows[n] \in Natives(db)
  BY DEF Natives
<1> HIDE DEF rows, P, kept
<1>5. /\ IsSeq(kept)
      /\ \A k \in DOMAIN kept : \E n \in DOMAIN rows : n \in P /\ kept[k] = rows[n]
      /\ \A n \in DOMAIN rows : n \in P => \E k \in DOMAIN kept : kept[k] = rows[n]
  BY <1>1, <1>2, Selected
<1>6. \A k \in DOMAIN kept : /\ kept[k] \in Natives(db)
                             /\ kept[k].place \in Int /\ kept[k].place # Stops!NoPlace
  BY <1>1, <1>3, <1>4, <1>5
<1>7. \A native \in Natives(db) : native.place # Stops!NoPlace =>
        \E k \in DOMAIN kept : kept[k] = native
  BY <1>3, <1>4, <1>5
<1>8. QED BY <1>5, <1>6, <1>7 DEF kept

(* The nearest stop is one of those near: there is a least distance, and a *)
(* first stop at it.                                                       *)
LEMMA NearestIsNear ==
  ASSUME NEW db, StopRowsShape(db.stops), NEW place \in Int, Stops!Within(db, place) # {}
  PROVE  \E n \in Stops!Within(db, place) : Stops!Nearest(db, place) = Stops!Placed(db)[n]
<1> DEFINE native == Stops!Placed(db)
           W == Stops!Within(db, place)
           Far(n) == Stops!Distance(native[n].place, place)
           D == {Far(n) : n \in W}
           Best(n) == \A k \in W : Far(n) < Far(k) \/ (Far(n) = Far(k) /\ n <= k)
<1>1. IsSeq(native) /\ \A k \in DOMAIN native : native[k].place \in Int
  BY PlacedRows
<1>2. W \subseteq DOMAIN native /\ DOMAIN native \subseteq Nat
  BY <1>1 DEF Stops!Within, IsSeq
<1>3. \A n \in W : Far(n) \in Nat
  <2> HIDE DEF native, W
  <2>1. QED BY <1>1, <1>2 DEF Stops!Distance
<1>4. Stops!Nearest(db, place) = native[CHOOSE n \in W : Best(n)]
  BY DEF Stops!Nearest
<1> HIDE DEF native, W, Far
<1>5. D \subseteq Nat /\ D # {}
  BY <1>3 DEF W
<1>6. PICK d \in D : \A e \in D : d <= e
  <2> HIDE DEF D
  <2>1. QED BY <1>5, LeastElement
<1> DEFINE T == {n \in W : Far(n) = d}
<1>7. T \subseteq Nat /\ T # {}
  BY <1>2, <1>6
<1>8. PICK n \in T : \A k \in T : n <= k
  <2> HIDE DEF T
  <2>1. QED BY <1>7, LeastElement
<1>9. n \in W /\ Best(n)
  <2>1. n \in W /\ Far(n) = d
    BY <1>8
  <2>2. ASSUME NEW k \in W PROVE Far(n) < Far(k) \/ (Far(n) = Far(k) /\ n <= k)
    <3>1. d <= Far(k) /\ Far(k) \in Nat /\ d \in Nat
      BY <1>3, <1>5, <1>6
    <3>2. Far(k) = d => n <= k
      BY <1>8
    <3>3. QED BY <2>1, <3>1, <3>2
  <2>3. QED BY <2>1, <2>2
<1> HIDE DEF Best
<1>10. (CHOOSE k \in W : Best(k)) \in W
  BY <1>9
<1>11. QED BY <1>4, <1>10 DEF W, native

(* A regional id is matched to a stop exactly if it is none of the systems' *)
(* own, the stop is near it, and none is nearer.                           *)
LEMMA MatchedIsWanted ==
  ASSUME NEW db, StopRowsShape(db.stops), NEW x, x.place \in Int, NEW native \in Natives(db)
  PROVE  Stops!Matched(db, x) /\ Stops!Nearest(db, x.place) = native
           <=> /\ \A other \in Natives(db) : other.place # Stops!NoPlace => other.stop # x.stop
               /\ native.place # Stops!NoPlace
               /\ Stops!Distance(x.place, native.place) <= MAX_MATCH_DISTANCE_METERS
               /\ Stops!Nearest(db, x.place) = native
<1> DEFINE placed == Stops!Placed(db)
           W == Stops!Within(db, x.place)
<1>1. /\ \A k \in DOMAIN placed :
           placed[k] \in Natives(db) /\ placed[k].place \in Int /\ placed[k].place # Stops!NoPlace
      /\ \A other \in Natives(db) : other.place # Stops!NoPlace =>
           \E k \in DOMAIN placed : placed[k] = other
  BY PlacedRows
<1>2. \A k : k \in W <=> /\ k \in DOMAIN placed
                         /\ Stops!Distance(placed[k].place, x.place) <= MAX_MATCH_DISTANCE_METERS
  BY DEF Stops!Within
<1>3. x.stop \notin Stops!NativeIds(db)
        <=> \A other \in Natives(db) : other.place # Stops!NoPlace => other.stop # x.stop
  <2>1. x.stop \in Stops!NativeIds(db) <=> \E k \in DOMAIN placed : placed[k].stop = x.stop
    BY DEF Stops!NativeIds
  <2> HIDE DEF placed
  <2>2. QED BY <1>1, <2>1
<1>4. \A k \in DOMAIN placed :
        Stops!Distance(placed[k].place, x.place) = Stops!Distance(x.place, placed[k].place)
  <2>1. \A p \in Int : Stops!Distance(p, x.place) = Stops!Distance(x.place, p)
    BY DEF Stops!Distance
  <2> HIDE DEF placed
  <2>2. QED BY <1>1, <2>1
<1>5. W # {} => \E n \in W : Stops!Nearest(db, x.place) = placed[n]
  BY NearestIsNear
<1>6. Stops!Matched(db, x) <=> x.stop \notin Stops!NativeIds(db) /\ W # {}
  BY DEF Stops!Matched
<1> HIDE DEF placed, W
<1>7. QED BY <1>1, <1>2, <1>3, <1>4, <1>5, <1>6

MatchOf(db, row) ==
  LET native == Stops!Nearest(db, row.place)
  IN  [key |-> <<native.system, native.stop>>, regional |-> row.stop,
       distance |-> Stops!Distance(native.place, row.place)]

LEMMA MatchesMade ==
  ASSUME NEW db, NEW coords, IsSeq(coords)
  PROVE  LET rows == Stops!MatchRegionalStops(db, coords)
         IN  /\ IsSeq(rows)
             /\ \A k \in DOMAIN rows : \E n \in DOMAIN coords :
                  Stops!Matched(db, coords[n]) /\ rows[k] = MatchOf(db, coords[n])
             /\ \A n \in DOMAIN coords : Stops!Matched(db, coords[n]) =>
                  \E k \in DOMAIN rows : rows[k] = MatchOf(db, coords[n])
<1> DEFINE P == {n \in DOMAIN coords : Stops!Matched(db, coords[n])}
           foreign == EntriesAt(coords, P)
           rows == Stops!MatchRegionalStops(db, coords)
           S == {rows[n] : n \in DOMAIN rows}
<1>1. /\ IsSeq(foreign)
      /\ \A k \in DOMAIN foreign : \E n \in DOMAIN coords : n \in P /\ foreign[k] = coords[n]
      /\ \A n \in DOMAIN coords : n \in P => \E k \in DOMAIN foreign : foreign[k] = coords[n]
  <2> HIDE DEF P
  <2>1. QED BY Selected
<1>2. rows = [k \in DOMAIN foreign |-> MatchOf(db, foreign[k])]
  <2>1. Stops!EntriesAt(coords, P) = foreign
    BY SameSelection
  <2>2. QED BY <2>1 DEF Stops!MatchRegionalStops, MatchOf
<1>3. \A n \in DOMAIN coords : n \in P <=> Stops!Matched(db, coords[n])
  OBVIOUS
<1>4. \A k \in DOMAIN rows : rows[k] \in S
  OBVIOUS
<1> HIDE DEF P, foreign, rows, S
<1>5. IsSeq(rows)
  <2>1. Len(foreign) \in Nat /\ DOMAIN foreign = 1..Len(foreign)
    BY <1>1 DEF IsSeq
  <2>2. rows = [k \in 1..Len(foreign) |-> rows[k]]
    BY <1>2, <2>1
  <2>3. rows \in [1..Len(foreign) -> S]
    BY <1>2, <1>4, <2>1, <2>2
  <2>4. rows \in Seq(S)
    BY <2>1, <2>3, FunctionIsSeq
  <2>5. QED BY <2>4 DEF IsSeq
<1>6. DOMAIN rows = DOMAIN foreign /\ \A k \in DOMAIN foreign : rows[k] = MatchOf(db, foreign[k])
  BY <1>2
<1>7. \A k \in DOMAIN rows : \E n \in DOMAIN coords :
        Stops!Matched(db, coords[n]) /\ rows[k] = MatchOf(db, coords[n])
  BY <1>1, <1>3, <1>6
<1>8. \A n \in DOMAIN coords : Stops!Matched(db, coords[n]) =>
        \E k \in DOMAIN rows : rows[k] = MatchOf(db, coords[n])
  BY <1>1, <1>3, <1>6
<1>9. QED BY <1>5, <1>7, <1>8 DEF rows
LEMMA SameDedupe == ASSUME NEW rows PROVE Stops!Rows!Dedupe(rows) = Rows!Dedupe(rows)
BY DEF Stops!Rows!Dedupe, Stops!Rows!PlacesIn, Rows!Dedupe, Rows!PlacesIn

(* What the upsert of the matches leaves of the database.                  *)
MatchesReplaced(db, rows, after) ==
  /\ after.stops = db.stops /\ after.areas = db.areas
  /\ \A key : key \in DOMAIN after.matches
                <=> key \in DOMAIN db.matches \/ \E k \in DOMAIN rows : rows[k].key = key
  /\ \A key \in DOMAIN db.matches : (\A k \in DOMAIN rows : rows[k].key # key) =>
       after.matches[key] = db.matches[key]
  /\ \A n \in DOMAIN rows : \E k \in DOMAIN rows :
       /\ rows[k].key = rows[n].key
       /\ after.matches[rows[n].key] = [regional |-> rows[k].regional, distance |-> rows[k].distance]

LEMMA MatchesUpserted ==
  ASSUME NEW stops, NEW areas, NEW matches, NEW rows, IsSeq(rows)
  PROVE  LET db == [stops |-> stops, areas |-> areas, matches |-> matches]
         IN  MatchesReplaced(db, rows, Stops!UpsertMatches(db, rows))
<1> DEFINE db == [stops |-> stops, areas |-> areas, matches |-> matches]
           after == Stops!UpsertMatches(db, rows)
           fresh == Stops!Rows!Dedupe(rows)
           RowOf(key) == fresh[CHOOSE n \in DOMAIN fresh : fresh[n].key = key]
           keys == {fresh[n].key : n \in DOMAIN fresh}
           table == [key \in DOMAIN matches \cup keys |->
                       IF key \in keys
                       THEN [regional |-> RowOf(key).regional, distance |-> RowOf(key).distance]
                       ELSE matches[key]]
<1>1. /\ \A n \in DOMAIN rows : \E p \in DOMAIN fresh : fresh[p].key = rows[n].key
      /\ \A p \in DOMAIN fresh : \E k \in DOMAIN rows : fresh[p] = rows[k]
  BY Deduplicated, SameDedupe
<1>2. after = [stops |-> stops, areas |-> areas, matches |-> table]
  <2> DEFINE inner == [key \in DOMAIN db.matches \cup keys |->
                         IF key \in keys
                         THEN [regional |-> RowOf(key).regional, distance |-> RowOf(key).distance]
                         ELSE db.matches[key]]
  <2>1. after = [db EXCEPT !.matches = inner]
    BY DEF Stops!UpsertMatches
  <2>2. inner = table
    <3> HIDE DEF keys, RowOf
    <3>1. QED OBVIOUS
  <2> HIDE DEF inner, table
  <2>3. QED BY <2>1, <2>2
<1> HIDE DEF after, fresh
<1>3. \A key : key \in keys <=> \E k \in DOMAIN rows : rows[k].key = key
  BY <1>1
<1>4. ASSUME NEW key \in keys
      PROVE  \E k \in DOMAIN rows : RowOf(key) = rows[k] /\ rows[k].key = key
  <2>1. \E p \in DOMAIN fresh : fresh[p].key = key
    BY <1>4
  <2>2. PICK p \in DOMAIN fresh : RowOf(key) = fresh[p] /\ fresh[p].key = key
    BY <2>1
  <2>3. QED BY <1>1, <2>2
<1> HIDE DEF keys, RowOf
<1>5. /\ DOMAIN table = DOMAIN matches \cup keys
      /\ \A key \in keys : table[key] = [regional |-> RowOf(key).regional,
                                         distance |-> RowOf(key).distance]
      /\ \A key \in DOMAIN matches : key \notin keys => table[key] = matches[key]
  OBVIOUS
<1> HIDE DEF table
<1>6. after.stops = stops /\ after.areas = areas /\ after.matches = table
  BY <1>2
<1>7. db.stops = stops /\ db.areas = areas /\ db.matches = matches
  OBVIOUS
<1> HIDE DEF db
<1>8. ASSUME NEW n \in DOMAIN rows
      PROVE  \E k \in DOMAIN rows :
               /\ rows[k].key = rows[n].key
               /\ table[rows[n].key] = [regional |-> rows[k].regional, distance |-> rows[k].distance]
  <2>1. rows[n].key \in keys
    BY <1>3
  <2>2. PICK k \in DOMAIN rows : RowOf(rows[n].key) = rows[k] /\ rows[k].key = rows[n].key
    BY <1>4, <2>1
  <2>3. table[rows[n].key] = [regional |-> rows[k].regional, distance |-> rows[k].distance]
    BY <1>5, <2>1, <2>2
  <2>4. QED BY <2>2, <2>3
<1>9. MatchesReplaced(db, rows, after)
  BY <1>3, <1>5, <1>6, <1>7, <1>8 DEF MatchesReplaced
<1>10. QED BY <1>9 DEF after, db

(* The run's input: a database whose systems have each stop once, with     *)
(* places that are numbers, as has the region's schedule.                  *)
StationRunShape(i) ==
  /\ \E stops, areas, matches : i.db = [stops |-> stops, areas |-> areas, matches |-> matches]
  /\ StopRowsShape(i.db.stops)
  /\ StopRowsShape(i.zip.stops)
  /\ \A n, k \in DOMAIN i.db.stops :
       i.db.stops[n].system = i.db.stops[k].system /\ i.db.stops[n].stop = i.db.stops[k].stop
         => i.db.stops[n] = i.db.stops[k]

RegionalPlaces(i) ==
  LET coords == Stops!StopCoordinates(i.zip, {row[2] : row \in Stops!RealStationComplexes(i.zip)})
  IN  {coords[n] : n \in DOMAIN coords}

KeyOf(native) == <<native.system, native.stop>>

WantedFor(i, native) ==
  {x \in RegionalPlaces(i) :
     /\ \A other \in Natives(i.db) : other.place # Stops!NoPlace => other.stop # x.stop
     /\ native.place # Stops!NoPlace
     /\ Stops!Distance(x.place, native.place) <= MAX_MATCH_DISTANCE_METERS
     /\ Stops!Nearest(i.db, x.place) = native}

(* What a run leaves for a stop of a system.                               *)
CrosswalkOf(i, native, after) ==
  LET wanted == WantedFor(i, native)
      key == KeyOf(native)
  IN  /\ wanted = {} => /\ key \in DOMAIN after.matches <=> key \in DOMAIN i.db.matches
                        /\ key \in DOMAIN i.db.matches =>
                             after.matches[key] = i.db.matches[key]
      /\ wanted # {} => /\ key \in DOMAIN after.matches
                        /\ \E x \in wanted :
                             after.matches[key]
                               = [regional |-> x.stop,
                                  distance |-> Stops!Distance(x.place, native.place)]

LEMMA SameStopRows ==
  ASSUME NEW db, NEW other, other.stops = db.stops, NEW place, NEW row
  PROVE  /\ Stops!Nearest(other, place) = Stops!Nearest(db, place)
         /\ Stops!Matched(other, row) <=> Stops!Matched(db, row)
<1>1. Stops!Placed(other) = Stops!Placed(db)
  BY DEF Stops!Placed
<1>2. /\ Stops!NativeIds(other) = Stops!NativeIds(db)
      /\ \A p : Stops!Within(other, p) = Stops!Within(db, p)
  BY <1>1 DEF Stops!NativeIds, Stops!Within
<1> DEFINE Near(placed, within) ==
             placed[CHOOSE n \in within : \A k \in within :
                      LET Far(m) == Stops!Distance(placed[m].place, place)
                      IN  Far(n) < Far(k) \/ (Far(n) = Far(k) /\ n <= k)]
<1>3. /\ Stops!Nearest(other, place) = Near(Stops!Placed(other), Stops!Within(other, place))
      /\ Stops!Nearest(db, place) = Near(Stops!Placed(db), Stops!Within(db, place))
  BY DEF Stops!Nearest
<1> HIDE DEF Near
<1>4. Stops!Nearest(other, place) = Stops!Nearest(db, place)
  BY <1>1, <1>2, <1>3
<1>5. Stops!Matched(other, row) <=> Stops!Matched(db, row)
  BY <1>2 DEF Stops!Matched
<1>6. QED BY <1>4, <1>5

(* The matches of a run with the key of a stop are those wanted for it.    *)
LEMMA RowsForStop ==
  ASSUME NEW i, StationRunShape(i), NEW native \in Natives(i.db),
         NEW db, db.stops = i.db.stops, NEW coords, IsSeq(coords),
         \A n \in DOMAIN coords : coords[n].place \in Int,
         RegionalPlaces(i) = {coords[n] : n \in DOMAIN coords}
  PROVE  LET rows == Stops!MatchRegionalStops(db, coords)
         IN  /\ IsSeq(rows)
             /\ \A k \in DOMAIN rows : rows[k].key = KeyOf(native) =>
                  \E x \in WantedFor(i, native) :
                    /\ rows[k].regional = x.stop
                    /\ rows[k].distance = Stops!Distance(x.place, native.place)
             /\ WantedFor(i, native) # {} => \E k \in DOMAIN rows : rows[k].key = KeyOf(native)
<1> DEFINE rows == Stops!MatchRegionalStops(db, coords)
           near(x) == Stops!Nearest(i.db, x.place)
           wanted == WantedFor(i, native)
<1>1. /\ IsSeq(rows)
      /\ \A k \in DOMAIN rows : \E n \in DOMAIN coords :
           Stops!Matched(db, coords[n]) /\ rows[k] = MatchOf(db, coords[n])
      /\ \A n \in DOMAIN coords : Stops!Matched(db, coords[n]) =>
           \E k \in DOMAIN rows : rows[k] = MatchOf(db, coords[n])
  BY MatchesMade
<1>2. StopRowsShape(i.db.stops)
  BY DEF StationRunShape
<1>3. \A x : Stops!Matched(db, x) <=> Stops!Matched(i.db, x)
  BY SameStopRows
<1>4. \A x : /\ MatchOf(db, x).key = KeyOf(near(x)) /\ MatchOf(db, x).regional = x.stop
             /\ MatchOf(db, x).distance = Stops!Distance(near(x).place, x.place)
  <2>1. \A x : Stops!Nearest(db, x.place) = near(x)
    BY SameStopRows
  <2> HIDE DEF near
  <2>2. QED BY <2>1 DEF MatchOf, KeyOf
<1>5. ASSUME NEW n \in DOMAIN coords
      PROVE  coords[n] \in wanted <=> Stops!Matched(i.db, coords[n]) /\ near(coords[n]) = native
  <2> DEFINE x == coords[n]
  <2>1. x.place \in Int /\ x \in RegionalPlaces(i)
    OBVIOUS
  <2> HIDE DEF x
  <2>2. Stops!Matched(i.db, x) /\ near(x) = native
          <=> /\ \A other \in Natives(i.db) : other.place # Stops!NoPlace => other.stop # x.stop
              /\ native.place # Stops!NoPlace
              /\ Stops!Distance(x.place, native.place) <= MAX_MATCH_DISTANCE_METERS
              /\ near(x) = native
    BY <1>2, <2>1, MatchedIsWanted
  <2>3. QED BY <2>1, <2>2 DEF WantedFor, x
<1>6. ASSUME NEW x, x.place \in Int, Stops!Matched(i.db, x), KeyOf(near(x)) = KeyOf(native)
      PROVE  near(x) = native
  <2>1. Stops!Within(i.db, x.place) # {}
    BY <1>6 DEF Stops!Matched
  <2>2. PICK n \in Stops!Within(i.db, x.place) : near(x) = Stops!Placed(i.db)[n]
    BY <1>2, <1>6, <2>1, NearestIsNear
  <2>3. n \in DOMAIN Stops!Placed(i.db)
    BY DEF Stops!Within
  <2>4. near(x) \in Natives(i.db)
    BY <1>2, <2>2, <2>3, PlacedRows
  <2> HIDE DEF near
  <2>5. near(x).system = native.system /\ near(x).stop = native.stop
    BY <1>6 DEF KeyOf
  <2>6. QED BY <2>4, <2>5 DEF Natives, StationRunShape
<1>7. \A x : x.place \in Int =>
        Stops!Distance(native.place, x.place) = Stops!Distance(x.place, native.place)
  <2>1. native.place \in Int
    BY <1>2 DEF StopRowsShape, Natives
  <2>2. QED BY <2>1 DEF Stops!Distance
<1> HIDE DEF rows, near, wanted
<1>8. ASSUME NEW k \in DOMAIN rows, rows[k].key = KeyOf(native)
      PROVE  \E x \in wanted : /\ rows[k].regional = x.stop
                               /\ rows[k].distance = Stops!Distance(x.place, native.place)
  <2>1. PICK n \in DOMAIN coords :
          Stops!Matched(db, coords[n]) /\ rows[k] = MatchOf(db, coords[n])
    BY <1>1
  <2> DEFINE x == coords[n]
  <2>2. x.place \in Int /\ Stops!Matched(i.db, x) /\ rows[k] = MatchOf(db, x)
    BY <1>3, <2>1
  <2>3. x \in wanted <=> Stops!Matched(i.db, x) /\ near(x) = native
    BY <1>5
  <2> HIDE DEF x
  <2>4. near(x) = native
    BY <1>4, <1>6, <1>8, <2>2
  <2>5. QED BY <1>4, <1>7, <2>2, <2>3, <2>4
<1>9. ASSUME wanted # {} PROVE \E k \in DOMAIN rows : rows[k].key = KeyOf(native)
  <2>1. PICK x : x \in wanted
    BY <1>9
  <2>2. x \in RegionalPlaces(i)
    BY <2>1 DEF wanted, WantedFor
  <2>3. PICK n \in DOMAIN coords : x = coords[n]
    BY <2>2
  <2>4. Stops!Matched(db, x) /\ near(x) = native
    BY <1>3, <1>5, <2>1, <2>3
  <2>5. PICK k \in DOMAIN rows : rows[k] = MatchOf(db, x)
    BY <1>1, <2>3, <2>4
  <2>6. QED BY <1>4, <2>4, <2>5
<1>10. QED BY <1>1, <1>8, <1>9 DEF rows, wanted

RunKeepsStops(i, after) ==
  /\ after.stops = i.db.stops
  /\ after.areas = i.db.areas \cup Stops!RealStationComplexes(i.zip)

LEMMA CrosswalkFollows ==
  ASSUME NEW i, StationRunShape(i)
  PROVE  LET after == Stops!FetchRegionalStopAreas(i.db, i.zip)
         IN  /\ RunKeepsStops(i, after)
             /\ \A native \in Natives(i.db) : CrosswalkOf(i, native, after)
<1> DEFINE complexes == Stops!RealStationComplexes(i.zip)
           members == {row[2] : row \in complexes}
           coords == Stops!StopCoordinates(i.zip, members)
           after == Stops!FetchRegionalStopAreas(i.db, i.zip)
<1>1. PICK stops, areas, matches : i.db = [stops |-> stops, areas |-> areas, matches |-> matches]
  BY DEF StationRunShape
<1> DEFINE db == [stops |-> stops, areas |-> areas \cup complexes, matches |-> matches]
           rows == Stops!MatchRegionalStops(db, coords)
<1>2. Stops!IngestAreas(i.db, i.zip) = db
  <2> HIDE DEF complexes
  <2>1. Stops!IngestAreas(i.db, i.zip) = Stops!UpsertStopAreas(i.db, complexes)
    BY DEF Stops!IngestAreas, complexes
  <2>2. Stops!UpsertStopAreas(i.db, complexes) = [i.db EXCEPT !.areas = i.db.areas \cup complexes]
    BY DEF Stops!UpsertStopAreas
  <2>3. i.db.areas = areas
    BY <1>1
  <2>4. \A x : [i.db EXCEPT !.areas = x] = [stops |-> stops, areas |-> x, matches |-> matches]
    BY <1>1
  <2>5. QED BY <2>1, <2>2, <2>3, <2>4
<1>3. after = Stops!UpsertMatches(db, rows)
  BY <1>2 DEF Stops!FetchRegionalStopAreas
<1>4. /\ db.stops = i.db.stops /\ db.areas = i.db.areas \cup complexes /\ db.matches = i.db.matches
  BY <1>1
<1>5. IsSeq(coords) /\ \A n \in DOMAIN coords : coords[n].place \in Int
  <2> DEFINE P == {n \in DOMAIN i.zip.stops : /\ i.zip.stops[n].stop \in members
                                             /\ i.zip.stops[n].place # Stops!NoPlace}
  <2>1. coords = EntriesAt(i.zip.stops, P)
    BY SameSelection DEF Stops!StopCoordinates
  <2>2. IsSeq(i.zip.stops) /\ \A n \in DOMAIN i.zip.stops : i.zip.stops[n].place \in Int
    BY DEF StationRunShape, StopRowsShape
  <2> HIDE DEF coords, P
  <2>3. QED BY <2>1, <2>2, Selected
<1>6. RegionalPlaces(i) = {coords[n] : n \in DOMAIN coords}
  BY DEF RegionalPlaces
<1> HIDE DEF coords, after, complexes
<1>7. MatchesReplaced(db, rows, after)
  <2>1. IsSeq(rows)
    <3> HIDE DEF db
    <3>1. QED BY <1>5, MatchesMade
  <2> HIDE DEF rows
  <2>2. QED BY <1>3, <2>1, MatchesUpserted
<1> HIDE DEF db
<1>8. ASSUME NEW native \in Natives(i.db) PROVE CrosswalkOf(i, native, after)
  <2> DEFINE wanted == WantedFor(i, native)
             key == KeyOf(native)
  <2>1. /\ IsSeq(rows)
        /\ \A k \in DOMAIN rows : rows[k].key = key =>
             \E x \in wanted : /\ rows[k].regional = x.stop
                               /\ rows[k].distance = Stops!Distance(x.place, native.place)
        /\ wanted # {} => \E k \in DOMAIN rows : rows[k].key = key
    BY <1>4, <1>5, <1>6, RowsForStop
  <2> HIDE DEF rows, wanted, key
  <2>2. /\ key \in DOMAIN after.matches
             <=> key \in DOMAIN i.db.matches \/ \E k \in DOMAIN rows : rows[k].key = key
        /\ key \in DOMAIN i.db.matches /\ (\A k \in DOMAIN rows : rows[k].key # key) =>
             after.matches[key] = i.db.matches[key]
        /\ \A n \in DOMAIN rows : \E k \in DOMAIN rows :
             /\ rows[k].key = rows[n].key
             /\ after.matches[rows[n].key]
                  = [regional |-> rows[k].regional, distance |-> rows[k].distance]
    BY <1>4, <1>7, <2>1 DEF MatchesReplaced
  <2>3. ASSUME wanted = {}
        PROVE  /\ key \in DOMAIN after.matches <=> key \in DOMAIN i.db.matches
               /\ key \in DOMAIN i.db.matches => after.matches[key] = i.db.matches[key]
    BY <2>1, <2>2, <2>3
  <2>4. ASSUME wanted # {}
        PROVE  /\ key \in DOMAIN after.matches
               /\ \E x \in wanted :
                    after.matches[key]
                      = [regional |-> x.stop, distance |-> Stops!Distance(x.place, native.place)]
    <3>1. PICK n \in DOMAIN rows : rows[n].key = key
      BY <2>1, <2>4
    <3>2. PICK k \in DOMAIN rows :
            /\ rows[k].key = key
            /\ after.matches[key] = [regional |-> rows[k].regional, distance |-> rows[k].distance]
      BY <2>2, <3>1
    <3>3. PICK x \in wanted : /\ rows[k].regional = x.stop
                              /\ rows[k].distance = Stops!Distance(x.place, native.place)
      BY <2>1, <3>2
    <3>4. QED BY <2>2, <3>1, <3>2, <3>3
  <2>5. QED BY <2>3, <2>4 DEF CrosswalkOf, wanted, key
<1>9. RunKeepsStops(i, after)
  BY <1>4, <1>7 DEF MatchesReplaced, RunKeepsStops, complexes
<1>10. QED BY <1>8, <1>9 DEF after
LEMMA OnlyWanted ==
  ASSUME NEW i, StationRunShape(i), NEW native, Cardinality(WantedFor(i, native)) = 1,
         NEW x \in WantedFor(i, native), NEW y \in WantedFor(i, native)
  PROVE  x = y
<1> DEFINE members == {row[2] : row \in Stops!RealStationComplexes(i.zip)}
           coords == Stops!StopCoordinates(i.zip, members)
           P == {n \in DOMAIN i.zip.stops : /\ i.zip.stops[n].stop \in members
                                           /\ i.zip.stops[n].place # Stops!NoPlace}
           wanted == WantedFor(i, native)
<1>1. IsSeq(coords)
  <2>1. coords = EntriesAt(i.zip.stops, P)
    BY SameSelection DEF Stops!StopCoordinates
  <2>2. IsSeq(i.zip.stops)
    BY DEF StationRunShape, StopRowsShape
  <2> HIDE DEF coords, P
  <2>3. QED BY <2>1, <2>2, SelectionIsSeq
<1>2. RegionalPlaces(i) = {coords[n] : n \in DOMAIN coords}
  BY DEF RegionalPlaces
<1> HIDE DEF coords
<1>3. IsFiniteSet(DOMAIN coords)
  <2>1. Len(coords) \in Nat /\ DOMAIN coords = 1..Len(coords)
    BY <1>1 DEF IsSeq
  <2>2. IsFiniteSet(1..Len(coords))
    BY <2>1, FS_Interval
  <2>3. QED BY <2>1, <2>2
<1>4. IsFiniteSet({coords[n] : n \in DOMAIN coords})
  <2> DEFINE f == [n \in DOMAIN coords |-> coords[n]]
             T == {coords[n] : n \in DOMAIN coords}
  <2>1. f \in Surjection(DOMAIN coords, T)
    BY DEF Surjection
  <2> HIDE DEF f, T
  <2>2. IsFiniteSet(T)
    BY <1>3, <2>1, FS_Surjection
  <2>3. QED BY <2>2 DEF T
<1>5. wanted \subseteq RegionalPlaces(i)
  BY DEF WantedFor
<1> HIDE DEF wanted
<1>6. IsFiniteSet(wanted)
  BY <1>2, <1>4, <1>5, FS_Subset
<1>7. \E z : wanted = {z}
  BY <1>6, FS_Singleton DEF wanted
<1>8. x \in wanted /\ y \in wanted
  BY DEF wanted
<1>9. QED BY <1>7, <1>8

(* The only foreign id of a stop brings it the transfers of its station.   *)
LEMMA TransferShown ==
  ASSUME NEW i, StationRunShape(i), NEW native \in Natives(i.db), NEW after,
         RunKeepsStops(i, after), CrosswalkOf(i, native, after),
         Cardinality(WantedFor(i, native)) = 1, NEW x \in WantedFor(i, native),
         NEW a \in Stops!RealStationComplexes(i.zip),
         NEW b \in Stops!RealStationComplexes(i.zip), NEW other \in Natives(i.db),
         a[2] = x.stop, b[1] = a[1], other.stop = b[2], other.stop # x.stop,
         other.system # native.system
  PROVE  other.system \in Station!ResolveTransfers(StationTables(after),
                                                   native.system, native.stop)
<1> DEFINE tables == StationTables(after)
           key == KeyOf(native)
<1>1. key \in DOMAIN after.matches /\ after.matches[key].regional = x.stop
  <2>1. WantedFor(i, native) # {}
    OBVIOUS
  <2>2. /\ key \in DOMAIN after.matches
        /\ \E y \in WantedFor(i, native) :
             after.matches[key]
               = [regional |-> y.stop, distance |-> Stops!Distance(y.place, native.place)]
    BY <2>1 DEF CrosswalkOf
  <2>3. PICK y \in WantedFor(i, native) :
          after.matches[key]
            = [regional |-> y.stop, distance |-> Stops!Distance(y.place, native.place)]
    BY <2>2
  <2>4. x = y
    BY OnlyWanted
  <2> HIDE DEF key
  <2>5. QED BY <2>2, <2>3, <2>4
<1>2. /\ tables.areas = after.areas
      /\ <<other.system, other.stop>> \in tables.stops
      /\ key \in DOMAIN tables.matches /\ tables.matches[key] = x.stop
  <2>1. tables.areas = after.areas
    BY DEF StationTables
  <2>2. <<other.system, other.stop>> \in tables.stops
    BY DEF StationTables, RunKeepsStops, Natives
  <2>3. key \in DOMAIN tables.matches /\ tables.matches[key] = x.stop
    <3> HIDE DEF key
    <3>1. QED BY <1>1 DEF StationTables
  <2>4. QED BY <2>1, <2>2, <2>3
<1>3. a \in tables.areas /\ b \in tables.areas
  BY <1>2 DEF RunKeepsStops
<1> HIDE DEF tables
<1>4. Station!EffectiveStop(tables, native.system, native.stop) = x.stop
  BY <1>2 DEF Station!EffectiveStop, KeyOf
<1>5. a[1] \in Station!AreaIdsByStop(tables, x.stop)
  BY <1>3 DEF Station!AreaIdsByStop
<1>6. b[2] \in Station!MembersByArea(tables, a[1])
  BY <1>3 DEF Station!MembersByArea
<1>7. other.system \in Station!SystemsByStop(tables, b[2])
  <2>1. /\ <<other.system, other.stop>>[1] = other.system
        /\ <<other.system, other.stop>>[2] = b[2]
    OBVIOUS
  <2>2. QED BY <1>2, <2>1 DEF Station!SystemsByStop
<1>8. b[2] \in Station!Neighbours(tables, x.stop)
  BY <1>5, <1>6 DEF Station!Neighbours
<1>9. other.system \in Station!ResolveTransfers(tables, native.system, native.stop)
  BY <1>4, <1>7, <1>8 DEF Station!ResolveTransfers
<1>10. QED BY <1>9 DEF tables

(* "A later run finding a closer/different match should overwrite a stale  *)
(* one": after a run of fetch_regional_stop_areas over any database and    *)
(* any schedule of the region, the crosswalk has a foreign id that is near *)
(* for each stop that has one, and is as before for the others; and a stop *)
(* with only one is offered the transfers of that id's station.            *)
THEOREM CrosswalkStaysCurrent ==
  ASSUME \A i \in Inputs : i.of = "station_run" => StationRunShape(i)
  PROVE  Spec => []CrosswalkCurrent
<1>1. ASSUME input \in Inputs, input.of = "station_run" PROVE CrosswalkCurrent
  <2> DEFINE after == Stops!FetchRegionalStopAreas(input.db, input.zip)
             complexes == Stops!RealStationComplexes(input.zip)
             natives == Natives(input.db)
  <2>1. StationRunShape(input)
    BY <1>1
  <2>2. RunKeepsStops(input, after) /\ \A native \in natives : CrosswalkOf(input, native, after)
    BY <2>1, CrosswalkFollows
  <2> HIDE DEF after, complexes, natives
  <2>3. after.areas = input.db.areas \cup complexes
    BY <2>2 DEF RunKeepsStops, complexes
  <2>4. ASSUME NEW native \in natives
        PROVE  IF WantedFor(input, native) = {}
               THEN /\ KeyOf(native) \in DOMAIN after.matches
                         <=> KeyOf(native) \in DOMAIN input.db.matches
                    /\ KeyOf(native) \in DOMAIN input.db.matches =>
                         after.matches[KeyOf(native)] = input.db.matches[KeyOf(native)]
               ELSE /\ \E x \in WantedFor(input, native) :
                         after.matches[KeyOf(native)]
                           = [regional |-> x.stop,
                              distance |-> Stops!Distance(x.place, native.place)]
                    /\ Cardinality(WantedFor(input, native)) = 1 =>
                         \A x \in WantedFor(input, native),
                            a \in complexes, b \in complexes, other \in natives :
                           /\ a[2] = x.stop /\ b[1] = a[1]
                           /\ other.stop = b[2] /\ other.stop # x.stop
                           /\ other.system # native.system
                           => other.system \in Station!ResolveTransfers(StationTables(after),
                                                                        native.system, native.stop)
    <3> DEFINE wanted == WantedFor(input, native)
    <3>1. CrosswalkOf(input, native, after)
      BY <2>2
    <3>2. ASSUME Cardinality(wanted) = 1, NEW x \in wanted,
                 NEW a \in complexes, NEW b \in complexes, NEW other \in natives,
                 a[2] = x.stop, b[1] = a[1], other.stop = b[2], other.stop # x.stop,
                 other.system # native.system
          PROVE  other.system \in Station!ResolveTransfers(StationTables(after),
                                                           native.system, native.stop)
      BY <2>1, <2>2, <3>1, <3>2, TransferShown DEF complexes, natives
    <3>3. CASE wanted = {}
      BY <3>1, <3>3 DEF CrosswalkOf
    <3>4. CASE wanted # {}
      <4>1. \E x \in wanted :
              after.matches[KeyOf(native)]
                = [regional |-> x.stop, distance |-> Stops!Distance(x.place, native.place)]
        BY <3>1, <3>4 DEF CrosswalkOf
      <4> HIDE DEF wanted
      <4>2. Cardinality(wanted) = 1 =>
              \A x \in wanted, a \in complexes, b \in complexes, other \in natives :
                /\ a[2] = x.stop /\ b[1] = a[1]
                /\ other.stop = b[2] /\ other.stop # x.stop
                /\ other.system # native.system
                => other.system \in Station!ResolveTransfers(StationTables(after),
                                                             native.system, native.stop)
        BY <3>2
      <4>3. QED BY <3>4, <4>1, <4>2 DEF wanted
    <3>5. QED BY <3>3, <3>4
  <2>5. QED BY <2>3, <2>4, ZenonT(30)
          DEF CrosswalkCurrent, after, complexes, natives, Natives, WantedFor, RegionalPlaces, KeyOf
<1>2. input \in Inputs => CrosswalkCurrent
  BY <1>1 DEF CrosswalkCurrent
<1>3. QED BY <1>2, InputKept, PTL
==============================================================================
