------------------------- MODULE RoomCalendar_proofs -------------------------
(* What the calendar keeps for any rooms, forms, vacations, lengths of days  *)
(* and any number of requests that overlap.                                  *)
EXTENDS RoomCalendar, FiniteSetTheorems, WellFoundedInduction, TLAPS

-----------------------------------------------------------------------------
(* The ids the database gives.                                             *)

\* Strictly smaller subsets of a finite set cannot be chosen for ever, so a set of
\* numbers has a smallest one.
LEMMA SmallestIsLeast ==
  ASSUME NEW S \in SUBSET Nat, S # {}, IsFiniteSet(S)
  PROVE  Smallest(S) \in S /\ \A y \in S : Smallest(S) <= y
<1> DEFINE upTo(x) == {z \in S : z <= x}
           T == {upTo(x) : x \in S}
<1>1. T \subseteq FiniteSubsetsOf(S) /\ T # {}
  <2>1. T \subseteq SUBSET S
    OBVIOUS
  <2>2. T # {}
    OBVIOUS
  <2> HIDE DEF T
  <2> QED
    BY <2>1, <2>2, FS_FiniteSubsetsOfFinite
<1>2. PICK m \in T : \A t \in T : ~(<<t, m>> \in StrictSubsetOrdering(S))
  <2> HIDE DEF T
  <2> QED
    BY <1>1, FS_StrictSubsetOrderingWellFounded, WFMin
<1>3. PICK x \in S : m = upTo(x)
  OBVIOUS
<1>4. ASSUME NEW y \in S, y < x PROVE FALSE
  <2>1. x \in Nat /\ y \in Nat /\ \A z \in S : z \in Nat
    OBVIOUS
  <2>2. \A z \in S : z <= y => z <= x
    BY <1>4, <2>1
  <2>3. x \in upTo(x) /\ x \notin upTo(y)
    BY <1>4, <2>1
  <2>4. upTo(y) \subseteq upTo(x)
    BY <2>2
  <2>5. upTo(y) \in T
    OBVIOUS
  <2>6. <<upTo(y), upTo(x)>> \in StrictSubsetOrdering(S)
    BY <2>3, <2>4 DEF StrictSubsetOrdering
  <2> QED
    BY <1>2, <1>3, <2>5, <2>6
<1>5. \E z \in S : \A y \in S : z <= y
  BY <1>4
<1> QED
  BY <1>5 DEF Smallest

LEMMA RankType ==
  ASSUME NEW S \in SUBSET Nat, IsFiniteSet(S), NEW x \in S
  PROVE  rank(x, S) \in Nat /\ rank(x, S) < Cardinality(S)
<1>1. {y \in S : y < x} \in SUBSET S /\ x \notin {y \in S : y < x}
  OBVIOUS
<1> QED
  BY <1>1, FS_Subset, FS_CardinalityType DEF rank

LEMMA RankGrows ==
  ASSUME NEW S \in SUBSET Nat, IsFiniteSet(S), NEW x \in S, NEW z \in S, x < z
  PROVE  rank(x, S) < rank(z, S)
<1> DEFINE low == {y \in S : y < x}
           high == {y \in S : y < z}
<1>0. x \in Nat /\ z \in Nat /\ \A y \in S : y \in Nat
  OBVIOUS
<1>1. low \in SUBSET high /\ x \in high /\ x \notin low /\ high \in SUBSET S
  <2>1. \A y \in S : y < x => y < z
    BY <1>0
  <2>2. low \subseteq high /\ high \subseteq S
    BY <2>1
  <2>3. x \in high /\ x \notin low
    BY <1>0
  <2> QED
    BY <2>2, <2>3
<1>2. IsFiniteSet(high) /\ IsFiniteSet(low)
  BY <1>1, FS_Subset
<1>3. Cardinality(low) <= Cardinality(high) /\ Cardinality(low) # Cardinality(high)
  BY <1>1, <1>2, FS_Subset
<1> QED
  BY <1>2, <1>3, FS_CardinalityType DEF rank

\* The ranks of a set of numbers are 0, 1, 2, ... without a gap.
LEMMA RanksAreTaken ==
  ASSUME NEW S \in SUBSET Nat, IsFiniteSet(S), NEW k \in Nat, k < Cardinality(S)
  PROVE  \E x \in S : rank(x, S) = k
<1> DEFINE K == {n \in Nat : n < Cardinality(S) /\ \A x \in S : rank(x, S) # n}
<1> SUFFICES ASSUME K # {} PROVE FALSE
  OBVIOUS
<1>1. Cardinality(S) \in Nat
  BY FS_CardinalityType
<1>2. IsFiniteSet(K) /\ K \subseteq Nat
  <2>1. K \in SUBSET Nat
    OBVIOUS
  <2>2. \A n \in K : n <= Cardinality(S)
    BY <1>1
  <2> HIDE DEF K
  <2> QED
    BY <1>1, <2>1, <2>2, FS_BoundedSetOfNaturals
<1>3. PICK n \in K : \A y \in K : n <= y
  <2> HIDE DEF K
  <2> QED
    BY <1>2, SmallestIsLeast
<1>4. CASE n = 0
  <2>1. S # {}
    BY <1>1, <1>4, FS_EmptySet
  <2>2. PICK z \in S : \A y \in S : z <= y
    BY <2>1, SmallestIsLeast
  <2>3. z \in Nat /\ \A y \in S : y \in Nat
    OBVIOUS
  <2>4. \A y \in S : ~(y < z)
    BY <2>2, <2>3
  <2>5. {y \in S : y < z} = {}
    BY <2>4
  <2>6. rank(z, S) = 0
    BY <2>5, FS_EmptySet DEF rank
  <2> QED
    BY <1>3, <1>4, <2>6
<1>5. CASE n # 0
  <2>1. n - 1 \in Nat /\ n - 1 < Cardinality(S) /\ n - 1 \notin K
    BY <1>1, <1>3, <1>5
  <2>2. PICK x \in S : rank(x, S) = n - 1
    BY <2>1
  <2> DEFINE low == {y \in S : y < x}
             upTo == {y \in S : y <= x}
             above == {y \in S : y > x}
  <2>0. x \in Nat /\ \A y \in S : y \in Nat
    OBVIOUS
  <2>3. low \in SUBSET S /\ above \in SUBSET S
    OBVIOUS
  <2>4. upTo = low \cup {x} /\ x \notin low
    <3>1. \A y \in S : y <= x <=> (y < x \/ y = x)
      BY <2>0
    <3>2. ~(x < x)
      BY <2>0
    <3>3. \A y : y \in upTo <=> y \in low \cup {x}
      BY <3>1
    <3> HIDE DEF upTo
    <3>4. upTo = low \cup {x}
      BY <3>3
    <3> QED
      BY <3>2, <3>4
  <2>5. IsFiniteSet(low) /\ IsFiniteSet(above) /\ Cardinality(low) = n - 1
    BY <2>2, <2>3, FS_Subset DEF rank
  <2>6. Cardinality(upTo) = n
    <3>1. Cardinality(low \cup {x}) = n - 1 + 1
      BY <2>4, <2>5, FS_AddElement
    <3>2. n \in Nat
      OBVIOUS
    <3> QED
      BY <2>4, <3>1, <3>2
  <2>7. above # {}
    <3>1. \A y \in S : y > x \/ y <= x
      BY <2>0
    <3>2. ASSUME above = {} PROVE upTo = S
      BY <3>1, <3>2
    <3>3. n # Cardinality(S)
      BY <1>1, <1>3
    <3> QED
      BY <2>6, <3>2, <3>3
  <2>8. PICK z \in above : \A y \in above : z <= y
    <3>1. above \in SUBSET Nat
      OBVIOUS
    <3> HIDE DEF above
    <3> QED
      BY <2>5, <2>7, <3>1, SmallestIsLeast
  <2>9. {y \in S : y < z} = upTo
    <3>1. z \in Nat /\ x < z
      BY <2>0
    <3>2. \A y \in S : y < z <=> y <= x
      BY <2>0, <2>8, <3>1
    <3> QED
      BY <3>2
  <2>10. rank(z, S) = n /\ z \in S
    BY <2>6, <2>9 DEF rank
  <2> QED
    BY <1>3, <2>10
<1> QED
  BY <1>4, <1>5

LEMMA RowIdsAreFinite ==
  /\ IsFiniteSet(FreeRows) /\ FreeRows \subseteq Rows /\ Rows \subseteq Nat
  /\ IsFiniteSet(FreeSeries) /\ FreeSeries \subseteq SeriesIds /\ SeriesIds \subseteq Nat
  /\ \A D \in SUBSET Days : IsFiniteSet(D) /\ D \subseteq Nat
<1>1. MaxRows \in Nat /\ MaxSeries \in Nat /\ LastDay \in Nat
  BY BoundsAssumption
<1>2. /\ IsFiniteSet(Rows) /\ IsFiniteSet(SeriesIds) /\ IsFiniteSet(Days)
      /\ Rows \subseteq Nat /\ SeriesIds \subseteq Nat /\ Days \subseteq Nat
  BY <1>1, FS_Interval DEF Rows, SeriesIds, Days
<1> QED
  BY <1>2, FS_Subset DEF FreeRows, FreeSeries

LEMMA FreshIds ==
  /\ FreeRows # {} => Smallest(FreeRows) \in FreeRows
  /\ FreeSeries # {} => Smallest(FreeSeries) \in FreeSeries
BY RowIdsAreFinite, SmallestIsLeast

\* Every day gets a free id, and no two days the same one.
LEMMA IdsAreFreeAndDistinct ==
  ASSUME NEW D \in SUBSET Days, enoughRows(D)
  PROVE  /\ \A d \in D : idOf(D)[d] \in FreeRows
         /\ \A d, e \in D : idOf(D)[d] = idOf(D)[e] => d = e
<1>1. /\ IsFiniteSet(D) /\ D \subseteq Nat /\ IsFiniteSet(FreeRows) /\ FreeRows \subseteq Nat
      /\ Cardinality(D) <= Cardinality(FreeRows)
      /\ Cardinality(D) \in Nat /\ Cardinality(FreeRows) \in Nat
  BY RowIdsAreFinite, FS_CardinalityType DEF enoughRows
<1>2. ASSUME NEW d \in D
      PROVE  idOf(D)[d] \in FreeRows /\ rank(idOf(D)[d], FreeRows) = rank(d, D)
  <2>1. rank(d, D) \in Nat /\ rank(d, D) < Cardinality(FreeRows)
    BY <1>1, RankType
  <2>2. \E i \in FreeRows : rank(i, FreeRows) = rank(d, D)
    BY <1>1, <2>1, RanksAreTaken
  <2>3. idOf(D)[d] = CHOOSE i \in FreeRows : rank(i, FreeRows) = rank(d, D)
    BY DEF idOf
  <2> QED
    BY <2>2, <2>3
<1>3. ASSUME NEW d \in D, NEW e \in D, rank(d, D) = rank(e, D) PROVE d = e
  <2>1. d \in Nat /\ e \in Nat /\ ~(d < e) /\ ~(e < d)
    BY <1>1, <1>3, RankGrows, RankType
  <2> QED
    BY <2>1
<1> QED
  BY <1>2, <1>3

-----------------------------------------------------------------------------
(* Days and times.                                                         *)

LEMMA DayBounds ==
  /\ DayLength \in Nat \ {0} /\ LastDay \in Nat /\ MaxNow \in Nat /\ Ahead \in Nat
  /\ MaxRequests \in Nat /\ MaxRows \in Nat /\ MaxSeries \in Nat
BY BoundsAssumption

LEMMA DaysFollow ==
  ASSUME NEW d \in Nat, NEW e \in Nat, d < e
  PROVE  d * DayLength + DayLength <= e * DayLength
BY DayBounds

LEMMA DayOfTime ==
  ASSUME NEW t \in Nat
  PROVE  /\ dayOf(t) \in Nat /\ t % DayLength \in 0..(DayLength - 1)
         /\ dayOf(t) * DayLength <= t /\ t < dayOf(t) * DayLength + DayLength
<1>1. t \div DayLength \in Nat /\ (t \div DayLength) * DayLength <= t
  BY DayBounds
<1>2. t < (t \div DayLength) * DayLength + DayLength
  BY DayBounds
<1> QED
  BY <1>1, <1>2, DayBounds DEF dayOf

LEMMA TimesOfDay ==
  ASSUME NEW d \in Days, NEW x \in 0..DayLength
  PROVE  d * DayLength + x \in Times /\ d * DayLength \in Times /\ d \in Nat
<1>1. d \in Nat /\ d < LastDay + 1 /\ LastDay + 1 \in Nat /\ x \in Nat /\ x <= DayLength
  BY DayBounds DEF Days
<1>2. /\ d * DayLength + DayLength <= (LastDay + 1) * DayLength
      /\ d * DayLength \in Nat /\ (LastDay + 1) * DayLength \in Nat
  BY <1>1, DaysFollow, DayBounds
<1> QED
  BY <1>1, <1>2, DayBounds DEF Times

LEMMA TimeBounds ==
  /\ Times \subseteq Nat /\ 0 \in Times
  /\ \A t \in 0..MaxNow : t \in Times /\ midnight(t) \in Times /\ midnight(t) <= t
<1>1. (LastDay + 1) * DayLength \in Nat /\ MaxNow <= (LastDay + 1) * DayLength
  BY BoundsAssumption
<1>2. \A t \in 0..MaxNow : t \in Nat /\ t <= (LastDay + 1) * DayLength
  BY <1>1, DayBounds
<1>3. \A t \in 0..MaxNow : midnight(t) \in Nat /\ midnight(t) <= t
  BY DayOfTime, DayBounds DEF midnight
<1> QED
  BY <1>1, <1>2, <1>3 DEF Times

-----------------------------------------------------------------------------
(* What requests know.  Their facts are stated of a record q, so that they   *)
(* can be said of a request before and after a step.                         *)

StepsOf ==
  [none |-> {"idle"}, create |-> {"insert"}, update |-> {"check", "save"},
   delete |-> {"save", "remove"}, transfer |-> {"save"}, createSeries |-> {"commit"},
   split |-> {"dryRun", "begin", "commit"}, updateSeries |-> {"saveSeries"},
   deleteSeries |-> {"purge", "drop"}, transferSeries |-> {"saveSeries"},
   reorganize |-> {"fetch", "import", "begin", "commit"}]
RowKinds == {"update", "delete", "transfer"}
SeriesKinds == {"split", "updateSeries", "deleteSeries", "transferSeries"}
Extends(q) == q.kind = "reorganize" /\ q.step \in {"begin", "commit"}

Writers == {"createSeries", "split", "updateSeries", "transferSeries"}

\* The rows and series a request works on are in the tables, and what it is going to
\* write is live.
Known(q) ==
  /\ q.step \in StepsOf[q.kind]
  /\ q.kind = "create" => q.row.series = None
  /\ q.kind \in RowKinds => q.event \in Rows /\ rows[q.event].state # "free"
  /\ q.kind \in RowKinds /\ q.step \in {"check", "save"} => q.row.state = "live"
  /\ q.kind \in SeriesKinds =>
       /\ q.series \in SeriesIds /\ series[q.series].state # "free"
       /\ q.entities[q.series].state = "live"
  /\ q.kind \in Writers => q.entity.state = "live"
  /\ q.kind = "split" => DayLength <= q.since
  /\ Extends(q) => \A s \in q.left : series[s].state # "free" /\ q.entities[s].state = "live"
  /\ Extends(q) /\ q.step = "commit" => q.left # {} /\ q.entity.state = "live"
Typed == TypeOK /\ \A r \in Requests : Known(req[r])

SameCall(p, q) ==
  /\ q.kind = p.kind /\ q.step = p.step /\ q.event = p.event /\ q.row = p.row
  /\ q.series = p.series /\ q.entities = p.entities /\ q.entity = p.entity
  /\ q.occurrences = p.occurrences /\ q.days = p.days /\ q.unread = p.unread
  /\ q.todo = p.todo /\ q.left = p.left /\ q.since = p.since

\* The other requests take no part in a step of r, which has written the objects O.
Others(r, O) ==
  \A x \in Requests \ {r} :
    SameCall(req[x], req'[x]) /\ req'[x].fresh \subseteq req[x].fresh \ O

\* A step changes what it says it has written: an event or series that was there, a
\* place that gets a booking, the holidays.
Confined(O) ==
  /\ \A i \in Rows : Event(i) \in O \/ rows[i].state = "free" \/ rows'[i] = rows[i]
  /\ \A i \in Rows : rows[i].state # "free" => rows'[i].state # "free"
  /\ \A s \in SeriesIds : Series(s) \in O \/ series[s].state = "free" \/ series'[s] = series[s]
  /\ \A s \in SeriesIds : series[s].state # "free" => series'[s].state # "free"
  /\ \A i \in Rows : rows'[i].state = "live" =>
       \/ Place(rows'[i].place) \in O
       \/ /\ rows[i].state = "live" /\ rows'[i].place = rows[i].place
          /\ rows'[i].start = rows[i].start /\ rows'[i].end = rows[i].end
          /\ rows'[i].background = rows[i].background /\ rows'[i].series = rows[i].series
  /\ Holidays \in O \/ holidays' = holidays

LEMMA Defaults ==
  /\ NoRow \in Row /\ NoEntity \in Entity
  /\ NoRow.state = "free" /\ NoRow.series = None /\ NoEntity.state = "free"
<1>1. Rooms # {} /\ Places # {} /\ Rooms \subseteq Places
  BY PlacesAssumption DEF Places
<1>2. (CHOOSE p \in Rooms : TRUE) \in Rooms /\ (CHOOSE p \in Places : TRUE) \in Places
  BY <1>1
<1>3. 0 \in Times /\ 0 \in 0..DayLength
  BY TimeBounds, DayBounds
<1> QED
  BY <1>2, <1>3 DEF NoRow, NoEntity, Row, Entity, None

LEMMA NewRequestFields ==
  ASSUME NEW kind \in Kinds, NEW step \in Steps, NEW N, N = NewRequest(kind, step)
  PROVE  /\ N \in Request /\ N.kind = kind /\ N.step = step
         /\ N.left = {} /\ N.fresh = {}
<1>1. /\ [s \in SeriesIds |-> NoEntity] \in [SeriesIds -> Entity] /\ 0 \in Times
      /\ NoRow \in Row /\ NoEntity \in Entity
  BY Defaults, TimeBounds
<1> QED
  BY <1>1 DEF NewRequest, Request, None

LEMMA IdleFields ==
  Idle \in Request /\ Idle.kind = "none" /\ Idle.step = "idle"
<1>1. PICK N : N = NewRequest("none", "idle")
  OBVIOUS
<1>2. "none" \in Kinds /\ "idle" \in Steps
  BY DEF Kinds, Steps
<1> QED
  BY <1>1, <1>2, NewRequestFields DEF Idle

LEMMA ObjectTypes ==
  /\ \A i \in Rows : Event(i) \in Objects
  /\ \A s \in SeriesIds : Series(s) \in Objects
  /\ \A p \in Places : Place(p) \in Objects
  /\ Holidays \in Objects
BY DEF Objects

\* Objects of different sorts are different.
LEMMA ObjectsDiffer ==
  /\ \A a, b : Event(a) # Series(b) /\ Event(a) # Place(b) /\ Event(a) # Holidays
               /\ Series(a) # Place(b) /\ Series(a) # Holidays /\ Place(a) # Holidays
  /\ \A a, b : (Event(a) = Event(b) => a = b) /\ (Series(a) = Series(b) => a = b)
               /\ (Place(a) = Place(b) => a = b)
BY DEF Event, Series, Place, Holidays

-----------------------------------------------------------------------------
(* How requests begin, go on and end.                                      *)

\* The request r is N from now on.
becomes(r, N) == req' \in [Requests -> Request] /\ req'[r] = N

LEMMA Becomes ==
  ASSUME TypeOK, NEW r \in Requests, NEW N \in Request, req' = [req EXCEPT ![r] = N]
  PROVE  becomes(r, N) /\ Others(r, {})
<1>1. req \in [Requests -> Request]
  BY DEF TypeOK
<1>2. \A x \in Requests \ {r} : req'[x] = req[x]
  BY <1>1
<1> QED
  BY <1>1, <1>2 DEF becomes, Others, SameCall

LEMMA Writes ==
  ASSUME TypeOK, NEW r \in Requests, NEW N \in Request, NEW O,
         NEW R, R = [req EXCEPT ![r] = N], req' = written(r, O, R)
  PROVE  becomes(r, N) /\ Others(r, O)
<1>1. /\ req \in [Requests -> Request] /\ R \in [Requests -> Request] /\ R[r] = N
      /\ \A x \in Requests \ {r} : R[x] = req[x]
  BY DEF TypeOK
<1>2. req'[r] = N
  BY <1>1 DEF written
<1>3. ASSUME NEW x \in Requests \ {r}
      PROVE  /\ req'[x] \in Request /\ SameCall(req[x], req'[x])
             /\ req'[x].fresh \subseteq req[x].fresh \ O
  <2>1. PICK q \in Request : q = req[x]
    BY <1>1
  <2>2. req'[x] = [q EXCEPT !.fresh = @ \ O]
    BY <1>1, <2>1 DEF written
  <2>3. PICK F : F = q.fresh \ O
    OBVIOUS
  <2>4. req'[x] = [q EXCEPT !.fresh = F]
    BY <2>2, <2>3
  <2>5. F \in SUBSET Objects
    BY <2>1, <2>3 DEF Request
  <2>6. req'[x] \in Request /\ SameCall(q, req'[x]) /\ req'[x].fresh = F
    BY <2>1, <2>4, <2>5 DEF Request, SameCall
  <2> QED
    BY <2>1, <2>3, <2>6
<1>4. req' = [x \in Requests |-> req'[x]]
  BY DEF written
<1>5. \A x \in Requests : req'[x] \in Request
  BY <1>2, <1>3
<1> QED
  BY <1>2, <1>3, <1>4, <1>5 DEF becomes, Others

LEMMA Ends ==
  ASSUME TypeOK, NEW r \in Requests, req' = Finish(r)
  PROVE  becomes(r, Idle) /\ Others(r, {})
BY Becomes, IdleFields DEF Finish

LEMMA EndsWriting ==
  ASSUME TypeOK, NEW r \in Requests, NEW O, req' = written(r, O, Finish(r))
  PROVE  becomes(r, Idle) /\ Others(r, O)
<1>1. PICK R : R = Finish(r)
  OBVIOUS
<1> QED
  BY <1>1, Writes, IdleFields DEF Finish

LEMMA StepTypes ==
  ASSUME TypeOK, NEW r \in Requests, NEW step \in Steps
  PROVE  /\ [req[r] EXCEPT !.step = step] \in Request
         /\ Goto(r, step) = [req EXCEPT ![r] = [req[r] EXCEPT !.step = step]]
<1>1. req[r] \in Request /\ req \in [Requests -> Request]
  BY DEF TypeOK
<1> QED
  BY <1>1 DEF Request, Goto

LEMMA Begins ==
  ASSUME TypeOK, NEW r \in Requests, NEW N \in Request, Start(r, N)
  PROVE  becomes(r, N) /\ Others(r, {}) /\ started' \in 0..MaxRequests /\ req[r].kind = "none"
<1>1. /\ req' = [req EXCEPT ![r] = N] /\ started < MaxRequests /\ started' = started + 1
      /\ req[r].kind = "none"
  BY DEF Start, CanStart, Is
<1>2. started' \in 0..MaxRequests
  BY <1>1, DayBounds DEF TypeOK
<1> QED
  BY <1>1, <1>2, Becomes

-----------------------------------------------------------------------------
(* What requests have read, checked and computed, as long as it is fresh.  *)

\* A row that is going to be saved is the one in the table, but for what the
\* request changes: an update the times and the place, a transfer the owner.
RowCopied(q) ==
  q.kind \in RowKinds /\ q.step \in {"check", "save"} =>
    /\ q.kind = "transfer" => q.row.series = None
    /\ Event(q.event) \in q.fresh =>
         /\ rows[q.event].state = "live" /\ q.row.series = rows[q.event].series
         /\ q.kind # "transfer" => q.row.owner = rows[q.event].owner
         /\ q.kind # "update" =>
              /\ q.row.place = rows[q.event].place /\ q.row.background = rows[q.event].background
              /\ q.row.start = rows[q.event].start /\ q.row.end = rows[q.event].end

\* The same for series; the time until which one is generated is only changed by
\* the reorganization, the owner only by a transfer.
SeriesCopied(q) ==
  /\ q.kind \in SeriesKinds =>
       /\ Series(q.series) \in q.fresh =>
            series[q.series] = q.entities[q.series] /\ series[q.series].state = "live"
       /\ q.kind \in {"updateSeries", "transferSeries"} =>
            q.entity.until = q.entities[q.series].until
       /\ q.kind = "updateSeries" => q.entity.owner = q.entities[q.series].owner
  /\ Extends(q) => \A s \in q.left : Series(s) \in q.fresh =>
       series[s] = q.entities[s] /\ series[s].state = "live"
  /\ Extends(q) /\ q.step = "commit" =>
       q.entity.owner = q.entities[Smallest(q.left)].owner

\* The booking, or the occurrences, of a request fit in with what stands.
replaced(q, i) == q.kind = "split" /\ rows[i].series = q.series /\ rows[i].start >= q.since
Checked(q) ==
  /\ q.kind = "create" /\ Place(q.row.place) \in q.fresh => Free(q.row, {})
  /\ q.kind = "update" /\ q.step = "save" /\ Place(q.row.place) \in q.fresh =>
       Free(q.row, {q.event})
  /\ q.step = "commit" /\ Place(q.entity.place) \in q.fresh =>
       \A d \in q.occurrences, i \in Live :
         ~replaced(q, i) => ~Overlap(rows[i], occurrence(q.entity, Unsaved, d))

\* The dry run of a split has found no conflict on the days it has looked at.
DryRunPassed(q) ==
  /\ q.kind = "split" /\ q.step \in {"dryRun", "begin"}
  /\ {Place(q.entity.place), Holidays} \subseteq q.fresh
  => \A d \in wanted(q.entity, visited(q.entity, q.since, twoYearsAhead(q.since))), i \in Live :
       (q.step = "dryRun" => d \notin q.unread) /\ rows[i].series # q.series
       => ~Overlap(rows[i], occurrence(q.entity, Unsaved, d))

\* The days between the times from which and until which a series is generated.
Generates(q) ==
  /\ q.kind = "split" =>
       /\ q.entity.first = q.since
       /\ q.entity.until = Earlier(q.entity.last, twoYearsAhead(q.since))
  /\ q.step = "commit" =>
       /\ q.entity.until <= q.entity.last
       /\ q.kind # "reorganize" => q.days = visited(q.entity, q.entity.first, q.entity.until)
       /\ q.kind = "reorganize" =>
            LET old == q.entities[Smallest(q.left)] IN
            /\ q.entity.last = old.last /\ (old.until <= old.last => old.until <= q.entity.until)
            /\ q.days = visited(q.entity, old.until + DayLength, q.entity.until)

\* The holidays to come, while they are imported and afterwards.
Imports(q) ==
  q.kind = "reorganize" /\ Holidays \in q.fresh =>
    /\ q.step \in {"fetch", "import"} => q.since <= now
    /\ \A v \in Vacations :
         /\ q.step = "fetch" /\ v[1] * DayLength >= q.since => holidays[v] = 0
         /\ q.step = "import" /\ v[1] * DayLength >= q.since =>
              holidays[v] = IF v \in q.todo THEN 0 ELSE 1
         /\ q.step \in {"begin", "commit"} /\ v[1] * DayLength >= now => holidays[v] = 1

-----------------------------------------------------------------------------
RowsHaveSeries ==
  \A i \in Rows : rows[i].state # "free" /\ rows[i].series # None =>
    series[rows[i].series].state # "free"
NewSeriesAreNew == \A s \in SeriesIds : series[s].state = "free" =>
  \A d \in Days : considered[s][d] = 0
GeneratedUntil ==
  \A s \in LiveSeries \ (stale \cup shortened) :
    /\ series[s].until <= series[s].last
    /\ \A d \in Days : considered[s][d] > 0 => d * DayLength <= series[s].until

-----------------------------------------------------------------------------
(* What the requests are when they begin.                                  *)

\* A request that changes nothing when it begins.
begun(r) ==
  /\ req' \in [Requests -> Request] /\ Others(r, {}) /\ started' \in 0..MaxRequests
  /\ req[r].kind = "none" /\ UNCHANGED <<now, tables, history>>

LEMMA FormTypes ==
  /\ \A f \in Forms : /\ f.start \in Times \cup {Keep} /\ f.end \in Times \cup {Keep}
                      /\ f.background \in BOOLEAN
  /\ \A f \in SeriesForms : /\ f.place \in Rooms /\ f.days \in SUBSET Days /\ f.from \in 0..DayLength
                            /\ f.to \in 0..DayLength /\ f.first \in Times /\ f.last \in Times
                            /\ f.inHolidays \in BOOLEAN
BY FormsAssumption

LEMMA BeginInsert ==
  ASSUME TypeOK, NEW r \in Requests, NEW row \in Row, beginInsert(r, row)
  PROVE  /\ begun(r) /\ req'[r].kind = "create" /\ req'[r].step = "insert" /\ req'[r].row = row
         /\ req'[r].left = {} /\ Free(row, {})
<1>1. PICK M : M = NewRequest("create", "insert")
  OBVIOUS
<1>2. M \in Request /\ M.kind = "create" /\ M.step = "insert" /\ M.left = {}
  BY <1>1, NewRequestFields DEF Kinds, Steps
<1>3. PICK F : F = {Place(row.place)}
  OBVIOUS
<1>4. row.place \in Places /\ F \in SUBSET Objects
  BY <1>3, ObjectTypes DEF Row
<1>5. PICK N : N = [M EXCEPT !.row = row, !.fresh = F]
  OBVIOUS
<1>6. N \in Request /\ N.kind = "create" /\ N.step = "insert" /\ N.row = row /\ N.left = {}
  BY <1>2, <1>4, <1>5 DEF Request
<1>7. Start(r, N) /\ Free(row, {}) /\ UNCHANGED <<now, tables, history>>
  BY <1>1, <1>3, <1>5 DEF beginInsert
<1> QED
  BY <1>6, <1>7, Begins DEF begun, becomes

LEMMA CreateBegins ==
  ASSUME TypeOK, NEW r \in Requests, NEW p, NEW o \in Owners, NEW f \in Forms,
         create(r, p, o, f) \/ createResourceEvent(r, p, o, f)
  PROVE  /\ begun(r) /\ req'[r].kind = "create" /\ req'[r].step = "insert"
         /\ req'[r].row.series = None /\ req'[r].left = {} /\ Free(req'[r].row, {})
<1>1. /\ p \in Places /\ f.start \in Times /\ f.end \in Times /\ f.background \in BOOLEAN
      /\ beginInsert(r, booking(p, o, f))
  BY FormTypes DEF create, createResourceEvent, Places
<1>2. PICK row : row = booking(p, o, f)
  OBVIOUS
<1>3. row \in Row /\ row.series = None
  BY <1>1, <1>2 DEF booking, Row
<1> QED
  BY <1>1, <1>2, <1>3, BeginInsert

LEMMA ChangedRow ==
  ASSUME TypeOK, NEW i \in Live, NEW p \in Places, NEW f \in Forms
  PROVE  /\ i \in Rows /\ rows[i] \in Row /\ changed(i, p, f) \in Row
         /\ changed(i, p, f).state = "live" /\ changed(i, p, f).series = rows[i].series
         /\ changed(i, p, f).owner = rows[i].owner
<1>1. i \in Rows /\ rows[i] \in Row /\ rows[i].state = "live"
  BY DEF TypeOK, Live
<1>2. PICK row \in Row : row = rows[i]
  BY <1>1
<1>3. PICK a : a = IF f.start = Keep THEN row.start ELSE f.start
  OBVIOUS
<1>4. PICK b : b = IF f.end = Keep THEN row.end ELSE f.end
  OBVIOUS
<1>5. a \in Times /\ b \in Times /\ f.background \in BOOLEAN
  BY <1>2, <1>3, <1>4, FormTypes DEF Row
<1>6. PICK w : w = changed(i, p, f)
  OBVIOUS
<1>7. w = [row EXCEPT !.place = p, !.background = f.background, !.start = a, !.end = b]
  BY <1>2, <1>3, <1>4, <1>6 DEF changed, Row
<1>8. w \in Row /\ w.state = row.state /\ w.series = row.series /\ w.owner = row.owner
  BY <1>2, <1>5, <1>7 DEF Row
<1> QED
  BY <1>1, <1>2, <1>6, <1>8

LEMMA BeginUpdate ==
  ASSUME TypeOK, NEW r \in Requests, NEW i \in Rows, NEW row \in Row, beginUpdate(r, i, row)
  PROVE  /\ begun(r) /\ req'[r].kind = "update" /\ req'[r].step = "check" /\ req'[r].event = i
         /\ req'[r].row = row /\ req'[r].left = {}
<1>1. PICK M : M = NewRequest("update", "check")
  OBVIOUS
<1>2. M \in Request /\ M.kind = "update" /\ M.step = "check" /\ M.left = {}
  BY <1>1, NewRequestFields DEF Kinds, Steps
<1>3. PICK F : F = {Event(i)}
  OBVIOUS
<1>4. F \in SUBSET Objects
  BY <1>3, ObjectTypes
<1>5. PICK N : N = [M EXCEPT !.event = i, !.row = row, !.fresh = F]
  OBVIOUS
<1>6. /\ N \in Request /\ N.kind = "update" /\ N.step = "check" /\ N.event = i /\ N.row = row
      /\ N.left = {}
  BY <1>2, <1>4, <1>5 DEF Request
<1>7. Start(r, N) /\ UNCHANGED <<now, tables, history>>
  BY <1>1, <1>3, <1>5 DEF beginUpdate
<1> QED
  BY <1>6, <1>7, Begins DEF begun, becomes

LEMMA UpdateBegins ==
  ASSUME TypeOK, NEW r \in Requests, NEW i \in Rows, NEW p, NEW f \in Forms,
         update(r, i, p, f) \/ updateResourceEvent(r, i, p, f)
  PROVE  /\ begun(r) /\ req'[r].kind = "update" /\ req'[r].step = "check" /\ req'[r].event = i
         /\ req'[r].left = {} /\ rows[i].state = "live" /\ req'[r].row.state = "live"
         /\ req'[r].row.series = rows[i].series /\ req'[r].row.owner = rows[i].owner
<1>1. i \in Live /\ p \in Places /\ beginUpdate(r, i, changed(i, p, f))
  BY DEF update, updateResourceEvent, Places
<1>2. PICK row : row = changed(i, p, f)
  OBVIOUS
<1>3. /\ row \in Row /\ row.state = "live" /\ row.series = rows[i].series
      /\ row.owner = rows[i].owner
  BY <1>1, <1>2, ChangedRow
<1>4. rows[i].state = "live"
  BY <1>1 DEF Live
<1> QED
  BY <1>1, <1>2, <1>3, <1>4, BeginUpdate

LEMMA BeginDelete ==
  ASSUME TypeOK, NEW r \in Requests, NEW i \in Rows, delete(r, i) \/ deleteResourceEvent(r, i)
  PROVE  /\ begun(r) /\ req'[r].kind = "delete" /\ req'[r].event = i /\ req'[r].left = {}
         /\ rows[i].state = "live"
         /\ \/ req'[r].step = "remove"
            \/ req'[r].step = "save" /\ req'[r].row = rows[i]
<1>1. i \in Live /\ rows[i] \in Row /\ rows[i].state = "live"
  BY DEF TypeOK, delete, deleteResourceEvent, Live
<1>2. PICK F : F = {Event(i)}
  OBVIOUS
<1>3. F \in SUBSET Objects
  BY <1>2, ObjectTypes
<1>4. CASE delete(r, i)
  <2>1. PICK step : step = IF rows[i].series = None THEN "remove" ELSE "save"
    OBVIOUS
  <2>2. step \in {"remove", "save"}
    BY <2>1
  <2>3. PICK M : M = NewRequest("delete", step)
    OBVIOUS
  <2>4. M \in Request /\ M.kind = "delete" /\ M.step = step /\ M.left = {}
    BY <2>2, <2>3, NewRequestFields DEF Kinds, Steps
  <2>5. PICK row \in Row : row = rows[i]
    BY <1>1
  <2>6. PICK N : N = [M EXCEPT !.event = i, !.row = row, !.fresh = F]
    OBVIOUS
  <2>7. /\ N \in Request /\ N.kind = "delete" /\ N.step = step /\ N.event = i /\ N.row = row
        /\ N.left = {}
    BY <1>3, <2>4, <2>6 DEF Request
  <2>8. Start(r, N) /\ UNCHANGED <<now, tables, history>>
    BY <1>2, <1>4, <2>1, <2>3, <2>5, <2>6 DEF delete
  <2> QED
    BY <1>1, <2>2, <2>5, <2>7, <2>8, Begins DEF begun, becomes
<1>5. CASE deleteResourceEvent(r, i)
  <2>1. PICK M : M = NewRequest("delete", "remove")
    OBVIOUS
  <2>2. M \in Request /\ M.kind = "delete" /\ M.step = "remove" /\ M.left = {}
    BY <2>1, NewRequestFields DEF Kinds, Steps
  <2>3. PICK N : N = [M EXCEPT !.event = i, !.fresh = F]
    OBVIOUS
  <2>4. N \in Request /\ N.kind = "delete" /\ N.step = "remove" /\ N.event = i /\ N.left = {}
    BY <1>3, <2>2, <2>3 DEF Request
  <2>5. Start(r, N) /\ UNCHANGED <<now, tables, history>>
    BY <1>2, <1>5, <2>1, <2>3 DEF deleteResourceEvent
  <2> QED
    BY <1>1, <2>4, <2>5, Begins DEF begun, becomes
<1> QED
  BY <1>4, <1>5

LEMMA BeginTransfer ==
  ASSUME TypeOK, NEW r \in Requests, NEW i \in Rows, NEW o \in Owners,
         transferCalendarEvent(r, i, o)
  PROVE  /\ begun(r) /\ req'[r].kind = "transfer" /\ req'[r].step = "save" /\ req'[r].event = i
         /\ req'[r].left = {} /\ rows[i].state = "live" /\ req'[r].row.state = "live"
         /\ req'[r].row.series = None /\ rows[i].series = None
         /\ req'[r].row.place = rows[i].place /\ req'[r].row.background = rows[i].background
         /\ req'[r].row.start = rows[i].start /\ req'[r].row.end = rows[i].end
<1>1. rows[i] \in Row /\ rows[i].state = "live" /\ rows[i].series = None
  BY DEF TypeOK, transferCalendarEvent, Live
<1>2. PICK row : row = [rows[i] EXCEPT !.owner = o]
  OBVIOUS
<1>3. /\ row \in Row /\ row.state = "live" /\ row.series = None
      /\ row.place = rows[i].place /\ row.background = rows[i].background
      /\ row.start = rows[i].start /\ row.end = rows[i].end
  BY <1>1, <1>2 DEF Row
<1>4. PICK M : M = NewRequest("transfer", "save")
  OBVIOUS
<1>5. M \in Request /\ M.kind = "transfer" /\ M.step = "save" /\ M.left = {}
  BY <1>4, NewRequestFields DEF Kinds, Steps
<1>6. PICK F : F = {Event(i)}
  OBVIOUS
<1>7. F \in SUBSET Objects
  BY <1>6, ObjectTypes
<1>8. PICK N : N = [M EXCEPT !.event = i, !.row = row, !.fresh = F]
  OBVIOUS
<1>9. /\ N \in Request /\ N.kind = "transfer" /\ N.step = "save" /\ N.event = i /\ N.row = row
      /\ N.left = {}
  BY <1>3, <1>5, <1>7, <1>8 DEF Request
<1>10. Start(r, N) /\ UNCHANGED <<now, tables, history>>
  BY <1>2, <1>4, <1>6, <1>8 DEF transferCalendarEvent
<1> QED
  BY <1>1, <1>3, <1>9, <1>10, Begins DEF begun, becomes

LEMMA EntityTypes ==
  ASSUME NEW f, f.place \in Rooms, f.days \in SUBSET Days, f.from \in 0..DayLength,
         f.to \in 0..DayLength, f.first \in Times, f.last \in Times, f.inHolidays \in BOOLEAN,
         NEW o \in Owners \cup {Nobody}
  PROVE  /\ entityOf(f, o) \in Entity
         /\ entityOf(f, o).first = f.first /\ entityOf(f, o).last = f.last
         /\ entityOf(f, o).place = f.place /\ entityOf(f, o).owner = o
         /\ entityOf(f, o).state = "live"
<1>1. 0 \in Times
  BY TimeBounds
<1> QED
  BY <1>1 DEF entityOf, Entity

LEMMA EarlierTypes ==
  ASSUME NEW a \in Times, NEW b \in Nat
  PROVE  /\ Earlier(a, b) \in Times /\ Earlier(a, b) <= a /\ Earlier(a, b) <= b
         /\ twoYearsAhead(b) \in Nat /\ (Earlier(a, b) = a \/ Earlier(a, b) = b)
<1>1. a \in Nat /\ Times = 0..((LastDay + 1) * DayLength) /\ (LastDay + 1) * DayLength \in Nat
  BY TimeBounds, DayBounds DEF Times
<1>2. twoYearsAhead(b) \in Nat
  BY DayBounds DEF twoYearsAhead
<1>3. Earlier(a, b) \in Times /\ Earlier(a, b) <= a /\ Earlier(a, b) <= b
  BY <1>1 DEF Earlier
<1> QED
  BY <1>2, <1>3 DEF Earlier

LEMMA VisitedTypes ==
  /\ \A e, from, until : visited(e, from, until) \in SUBSET Days
  /\ \A e, s, D, visible : D \in SUBSET Days => generated(e, s, D, visible) \in SUBSET D
  /\ \A e, D : D \in SUBSET Days => unlessHoliday(e, D) \in SUBSET Days
BY DEF visited, generated, unlessHoliday

LEMMA CreateSeriesBegins ==
  ASSUME TypeOK, NEW r \in Requests, NEW o \in Owners, NEW f \in SeriesForms,
         createSeries(r, o, f)
  PROVE  /\ begun(r) /\ req'[r].kind = "createSeries" /\ req'[r].step = "commit"
         /\ req'[r].entity \in Entity /\ req'[r].entity.state = "live" /\ req'[r].left = {}
         /\ req'[r].entity.until = Earlier(req'[r].entity.last, twoYearsAhead(now))
         /\ req'[r].days = visited(req'[r].entity, req'[r].entity.first, twoYearsAhead(now))
         /\ req'[r].occurrences = generated(req'[r].entity, Unsaved, req'[r].days, Live)
<1>1. PICK e : e = entityOf(f, o)
  OBVIOUS
<1>2. PICK until : until = Earlier(f.last, twoYearsAhead(now))
  OBVIOUS
<1>3. now \in Nat /\ now \in 0..MaxNow
  BY DayBounds DEF TypeOK
<1>4. until \in Times
  BY <1>2, <1>3, FormTypes, EarlierTypes
<1>5. /\ e \in Entity /\ e.first = f.first /\ e.last = f.last /\ e.place = f.place
      /\ e.state = "live"
  BY <1>1, <1>4, FormTypes, EntityTypes
<1>6. PICK n : n = [e EXCEPT !.until = until]
  OBVIOUS
<1>7. /\ n \in Entity /\ n.first = e.first /\ n.last = e.last /\ n.place = e.place
      /\ n.until = until /\ n.days = e.days /\ n.inHolidays = e.inHolidays
      /\ n.from = e.from /\ n.to = e.to /\ n.owner = e.owner /\ n.state = e.state
  BY <1>4, <1>5, <1>6 DEF Entity
<1>8. PICK D : D = visited(e, f.first, twoYearsAhead(now))
  OBVIOUS
<1>9. PICK G : G = generated(e, Unsaved, D, Live)
  OBVIOUS
<1>10. D \in SUBSET Days /\ G \in SUBSET Days
  BY <1>8, <1>9, VisitedTypes
<1>11. PICK M : M = NewRequest("createSeries", "commit")
  OBVIOUS
<1>12. M \in Request /\ M.kind = "createSeries" /\ M.step = "commit" /\ M.left = {}
  BY <1>11, NewRequestFields DEF Kinds, Steps
<1>13. PICK F : F = {Place(f.place)}
  OBVIOUS
<1>14. PICK U : U = unlessHoliday(e, G)
  OBVIOUS
<1>21. F \in SUBSET Objects /\ U \in SUBSET Days
  BY <1>10, <1>13, <1>14, FormTypes, ObjectTypes, VisitedTypes DEF Places
<1>15. PICK N : N = [M EXCEPT !.entity = n, !.days = D, !.occurrences = G, !.unread = U,
                              !.fresh = F]
  OBVIOUS
<1>16. /\ N \in Request /\ N.kind = "createSeries" /\ N.step = "commit" /\ N.left = {}
       /\ N.entity = n /\ N.days = D /\ N.occurrences = G
  BY <1>7, <1>10, <1>12, <1>15, <1>21 DEF Request
<1>17. Start(r, N) /\ UNCHANGED <<now, tables, history>>
  BY <1>1, <1>2, <1>6, <1>8, <1>9, <1>11, <1>13, <1>14, <1>15 DEF createSeries
<1>18. D = visited(n, n.first, twoYearsAhead(now))
  BY <1>5, <1>7, <1>8 DEF visited
<1>19. G = generated(n, Unsaved, D, Live)
  BY <1>7, <1>9 DEF generated, occurrence
<1>20. n.until = Earlier(n.last, twoYearsAhead(now))
  BY <1>2, <1>5, <1>7
<1> QED
  BY <1>5, <1>7, <1>16, <1>17, <1>18, <1>19, <1>20, Begins DEF begun, becomes

\* A request that has read the series s.
LEMMA ReadsSeries ==
  ASSUME TypeOK, NEW s \in SeriesIds, NEW kind \in Kinds, NEW step \in Steps, NEW r,
         NEW N, N = readSeries(r, s, kind, step)
  PROVE  /\ N \in Request /\ N.kind = kind /\ N.step = step /\ N.series = s
         /\ N.entities[s] = series[s] /\ N.left = {}
<1>1. PICK M : M = NewRequest(kind, step)
  OBVIOUS
<1>2. M \in Request /\ M.kind = kind /\ M.step = step /\ M.left = {}
  BY <1>1, NewRequestFields
<1>3. PICK E : E = [M.entities EXCEPT ![s] = series[s]]
  OBVIOUS
<1>4. E \in [SeriesIds -> Entity] /\ E[s] = series[s]
  BY <1>2, <1>3 DEF TypeOK, Request
<1>5. PICK F : F = {Series(s)}
  OBVIOUS
<1>6. F \in SUBSET Objects
  BY <1>5, ObjectTypes
<1>7. N = [M EXCEPT !.series = s, !.entities = E, !.fresh = F]
  BY <1>1, <1>2, <1>3, <1>5 DEF readSeries, Request
<1> QED
  BY <1>2, <1>4, <1>6, <1>7 DEF Request

LEMMA DeleteSeriesBegins ==
  ASSUME TypeOK, NEW r \in Requests, NEW s \in SeriesIds, deleteSeries(r, s)
  PROVE  /\ begun(r) /\ req'[r].kind = "deleteSeries" /\ req'[r].step = "purge"
         /\ req'[r].series = s /\ req'[r].entities[s] = series[s] /\ series[s].state = "live"
         /\ req'[r].left = {}
<1>1. PICK N : N = readSeries(r, s, "deleteSeries", "purge")
  OBVIOUS
<1>2. /\ N \in Request /\ N.kind = "deleteSeries" /\ N.step = "purge" /\ N.series = s
      /\ N.entities[s] = series[s] /\ N.left = {}
  BY <1>1, ReadsSeries DEF Kinds, Steps
<1>3. /\ Start(r, N) /\ UNCHANGED <<now, tables, history>> /\ series[s].state = "live"
  BY <1>1 DEF deleteSeries, LiveSeries
<1> QED
  BY <1>2, <1>3, Begins DEF begun, becomes

LEMMA SaveSeriesBegins ==
  ASSUME TypeOK, NEW r \in Requests, NEW s \in SeriesIds, NEW kind \in {"updateSeries", "transferSeries"},
         NEW e \in Entity, s \in LiveSeries,
         Start(r, [readSeries(r, s, kind, "saveSeries") EXCEPT !.entity = e]),
         UNCHANGED <<now, tables, history>>
  PROVE  /\ begun(r) /\ req'[r].kind = kind /\ req'[r].step = "saveSeries"
         /\ req'[r].series = s /\ req'[r].entities[s] = series[s] /\ series[s].state = "live"
         /\ req'[r].entity = e /\ req'[r].left = {}
<1>1. PICK M : M = readSeries(r, s, kind, "saveSeries")
  OBVIOUS
<1>2. /\ M \in Request /\ M.kind = kind /\ M.step = "saveSeries" /\ M.series = s
      /\ M.entities[s] = series[s] /\ M.left = {}
  BY <1>1, ReadsSeries DEF Kinds, Steps
<1>3. PICK N : N = [M EXCEPT !.entity = e]
  OBVIOUS
<1>4. /\ N \in Request /\ N.kind = kind /\ N.step = "saveSeries" /\ N.series = s
      /\ N.entities[s] = series[s] /\ N.left = {} /\ N.entity = e
  BY <1>2, <1>3 DEF Request
<1>5. Start(r, N) /\ series[s].state = "live"
  BY <1>1, <1>3 DEF LiveSeries
<1> QED
  BY <1>4, <1>5, Begins DEF begun, becomes

LEMMA UpdateSeriesBegins ==
  ASSUME TypeOK, NEW r \in Requests, NEW s \in SeriesIds, NEW f \in SeriesForms,
         updateSeries(r, s, f)
  PROVE  /\ begun(r) /\ req'[r].kind = "updateSeries" /\ req'[r].step = "saveSeries"
         /\ req'[r].series = s /\ req'[r].entities[s] = series[s] /\ series[s].state = "live"
         /\ req'[r].entity.until = series[s].until /\ req'[r].entity.owner = series[s].owner
         /\ req'[r].entity.state = "live" /\ req'[r].left = {}
<1>1. PICK old \in Entity : old = series[s]
  BY DEF TypeOK
<1>2. PICK d : d = entityOf(f, old.owner)
  OBVIOUS
<1>3. d \in Entity /\ d.owner = old.owner /\ d.state = "live"
  <2>1. old.owner \in Owners \cup {Nobody}
    BY DEF Entity
  <2> QED
    BY <1>2, <2>1, FormTypes, EntityTypes
<1>4. PICK e : e = [d EXCEPT !.until = old.until]
  OBVIOUS
<1>5. e \in Entity /\ e.owner = old.owner /\ e.until = old.until /\ e.state = "live"
  BY <1>1, <1>3, <1>4 DEF Entity
<1>6. /\ s \in LiveSeries /\ UNCHANGED <<now, tables, history>>
      /\ Start(r, [readSeries(r, s, "updateSeries", "saveSeries") EXCEPT !.entity = e])
  BY <1>1, <1>2, <1>4 DEF updateSeries
<1>7. /\ begun(r) /\ req'[r].kind = "updateSeries" /\ req'[r].step = "saveSeries"
      /\ req'[r].series = s /\ req'[r].entities[s] = series[s] /\ series[s].state = "live"
      /\ req'[r].entity = e /\ req'[r].left = {}
  BY <1>5, <1>6, SaveSeriesBegins
<1> QED
  BY <1>1, <1>5, <1>7

LEMMA TransferSeriesBegins ==
  ASSUME TypeOK, NEW r \in Requests, NEW s \in SeriesIds, NEW o \in Owners,
         transferSeries(r, s, o)
  PROVE  /\ begun(r) /\ req'[r].kind = "transferSeries" /\ req'[r].step = "saveSeries"
         /\ req'[r].series = s /\ req'[r].entities[s] = series[s] /\ series[s].state = "live"
         /\ req'[r].entity.until = series[s].until /\ req'[r].entity.state = "live"
         /\ req'[r].left = {}
<1>1. PICK old \in Entity : old = series[s]
  BY DEF TypeOK
<1>2. PICK e : e = [old EXCEPT !.owner = o]
  OBVIOUS
<1>3. e \in Entity /\ e.until = old.until /\ e.state = old.state
  BY <1>1, <1>2 DEF Entity
<1>4. /\ s \in LiveSeries /\ UNCHANGED <<now, tables, history>>
      /\ Start(r, [readSeries(r, s, "transferSeries", "saveSeries") EXCEPT !.entity = e])
  BY <1>1, <1>2 DEF transferSeries
<1>5. /\ begun(r) /\ req'[r].kind = "transferSeries" /\ req'[r].step = "saveSeries"
      /\ req'[r].series = s /\ req'[r].entities[s] = series[s] /\ series[s].state = "live"
      /\ req'[r].entity = e /\ req'[r].left = {}
  BY <1>3, <1>4, SaveSeriesBegins
<1> QED
  BY <1>1, <1>3, <1>5

LEMMA SplitBegins ==
  ASSUME TypeOK, NEW r \in Requests, NEW s \in SeriesIds, NEW f \in SeriesForms \cup {series[s]},
         NEW since \in Times, updateFromDate(r, s, f, since)
  PROVE  /\ begun(r) /\ req'[r].kind = "split" /\ req'[r].step = "dryRun"
         /\ req'[r].series = s /\ req'[r].entities[s] = series[s] /\ series[s].state = "live"
         /\ req'[r].left = {} /\ req'[r].since = since
         /\ req'[r].entity.first = req'[r].since
         /\ req'[r].entity.until = Earlier(req'[r].entity.last, twoYearsAhead(req'[r].since))
         /\ req'[r].entity.owner = series[s].owner /\ req'[r].entity.state = "live"
         /\ visited(req'[r].entity, since, twoYearsAhead(since)) \cap req'[r].entity.days
              \subseteq req'[r].unread
<1>2. since \in Nat
  BY TimeBounds
<1>3. PICK old \in Entity : old = series[s]
  BY DEF TypeOK
<1>4. /\ f.place \in Rooms /\ f.days \in SUBSET Days /\ f.from \in 0..DayLength
      /\ f.to \in 0..DayLength /\ f.first \in Times /\ f.last \in Times
      /\ f.inHolidays \in BOOLEAN
  <2>1. CASE f \in SeriesForms
    BY <2>1, FormTypes
  <2>2. CASE f = series[s]
    BY <1>3, <2>2 DEF Entity
  <2> QED
    BY <2>1, <2>2
<1>5. PICK n : n = entityOf(f, old.owner)
  OBVIOUS
<1>6. /\ n \in Entity /\ n.last = f.last /\ n.owner = old.owner /\ n.state = "live"
      /\ n.place = f.place
  <2>1. old.owner \in Owners \cup {Nobody}
    BY DEF Entity
  <2> QED
    BY <1>4, <1>5, <2>1, EntityTypes
<1>7. PICK until : until = Earlier(f.last, twoYearsAhead(since))
  OBVIOUS
<1>8. until \in Times
  BY <1>2, <1>4, <1>7, EarlierTypes
<1>9. PICK e : e = [n EXCEPT !.first = since, !.until = until]
  OBVIOUS
<1>10. /\ e \in Entity /\ e.first = since /\ e.until = until /\ e.last = f.last
       /\ e.owner = old.owner /\ e.state = "live" /\ e.days = n.days
  BY <1>2, <1>6, <1>8, <1>9 DEF Entity
<1>11. PICK M : M = readSeries(r, s, "split", "dryRun")
  OBVIOUS
<1>12. /\ M \in Request /\ M.kind = "split" /\ M.step = "dryRun" /\ M.series = s
       /\ M.entities[s] = series[s] /\ M.left = {}
  BY <1>11, ReadsSeries DEF Kinds, Steps
<1>16. PICK U : U = visited(n, since, twoYearsAhead(since)) \cap n.days
  OBVIOUS
<1>17. PICK F : F = {Series(s), Place(f.place), Holidays}
  OBVIOUS
<1>18. U \in SUBSET Days /\ F \in SUBSET Objects
  BY <1>4, <1>16, <1>17, VisitedTypes, ObjectTypes DEF Places
<1>19. visited(e, since, twoYearsAhead(since)) \cap e.days \subseteq U
  BY <1>6, <1>10, <1>16 DEF visited
<1>13. PICK N : N = [M EXCEPT !.since = since, !.entity = e, !.unread = U, !.fresh = F]
  OBVIOUS
<1>14. /\ N \in Request /\ N.kind = "split" /\ N.step = "dryRun" /\ N.series = s
       /\ N.entities[s] = series[s] /\ N.left = {} /\ N.since = since /\ N.entity = e
       /\ N.unread = U
  BY <1>10, <1>12, <1>13, <1>18 DEF Request
<1>15. Start(r, N) /\ UNCHANGED <<now, tables, history>> /\ series[s].state = "live"
  BY <1>3, <1>5, <1>7, <1>9, <1>11, <1>13, <1>16, <1>17 DEF updateFromDate, LiveSeries
<1> QED
  BY <1>2, <1>3, <1>7, <1>10, <1>14, <1>15, <1>19, Begins DEF begun, becomes

\* The reorganization begins with deleting the holidays to come.
LEMMA ImportBegins ==
  ASSUME TypeOK, NEW r \in Requests, importOpenHolidays(r)
  PROVE  /\ req' \in [Requests -> Request] /\ Others(r, {Holidays}) /\ started' \in 0..MaxRequests
         /\ req[r].kind = "none" /\ UNCHANGED <<now, rows, series, history>>
         /\ holidays' \in [Vacations -> Nat]
         /\ req'[r].kind = "reorganize" /\ req'[r].step = "fetch" /\ req'[r].since = now
         /\ \A v \in Vacations : v[1] * DayLength >= now => holidays'[v] = 0
<1>1. /\ started < MaxRequests /\ started' = started + 1 /\ req[r].kind = "none"
      /\ holidays' = [v \in Vacations |-> IF v[1] * DayLength >= now THEN 0 ELSE holidays[v]]
      /\ UNCHANGED <<now, rows, series, history>>
  BY DEF importOpenHolidays, Is
<1>2. started' \in 0..MaxRequests /\ now \in Times
  BY <1>1, DayBounds, TimeBounds DEF TypeOK
<1>3. PICK M : M = NewRequest("reorganize", "fetch")
  OBVIOUS
<1>4. M \in Request /\ M.kind = "reorganize" /\ M.step = "fetch"
  BY <1>3, NewRequestFields DEF Kinds, Steps
<1>5. PICK F : F = {Holidays}
  OBVIOUS
<1>6. PICK N : N = [M EXCEPT !.since = now, !.fresh = F]
  OBVIOUS
<1>7. F \in SUBSET Objects
  BY <1>5, ObjectTypes
<1>8. N \in Request /\ N.kind = "reorganize" /\ N.step = "fetch" /\ N.since = now
  BY <1>2, <1>4, <1>6, <1>7 DEF Request
<1>9. PICK R : R = [req EXCEPT ![r] = N]
  OBVIOUS
<1>10. req' = written(r, {Holidays}, R)
  BY <1>3, <1>5, <1>6, <1>9 DEF importOpenHolidays
<1>11. becomes(r, N) /\ Others(r, {Holidays})
  BY <1>8, <1>9, <1>10, Writes
<1>12. holidays' \in [Vacations -> Nat]
  BY <1>1 DEF TypeOK
<1> QED
  BY <1>1, <1>2, <1>8, <1>11, <1>12 DEF becomes

-----------------------------------------------------------------------------
(* How requests go on.                                                     *)

\* What no step of a request changes: what it is about.
SameTask(p, q) ==
  q.kind = p.kind /\ q.event = p.event /\ q.row = p.row /\ q.series = p.series

LEMMA KindsAt ==
  ASSUME Typed, NEW r \in Requests
  PROVE  /\ At(r, "insert") => req[r].kind = "create"
         /\ At(r, "check") => req[r].kind = "update"
         /\ At(r, "save") => req[r].kind \in RowKinds
         /\ At(r, "remove") => req[r].kind = "delete"
         /\ At(r, "dryRun") => req[r].kind = "split"
         /\ At(r, "saveSeries") => req[r].kind \in {"updateSeries", "transferSeries"}
         /\ At(r, "purge") \/ At(r, "drop") => req[r].kind = "deleteSeries"
         /\ At(r, "fetch") \/ At(r, "import") => req[r].kind = "reorganize"
         /\ At(r, "begin") => req[r].kind \in {"split", "reorganize"}
         /\ At(r, "commit") => req[r].kind \in {"createSeries", "split", "reorganize"}
<1>1. req[r].kind \in Kinds /\ req[r].step \in StepsOf[req[r].kind]
  BY DEF Typed, TypeOK, Request, Known
<1> QED
  BY <1>1 DEF At, StepsOf, Kinds, RowKinds

LEMMA RequestTypes ==
  ASSUME Typed, NEW r \in Requests
  PROVE  req[r] \in Request /\ Known(req[r])
BY DEF Typed, TypeOK

\* r stands at the step, and F is what it relies on.
stepsTo(r, step, F) == req' = [req EXCEPT ![r].step = step, ![r].fresh = F]
LEMMA StepsOn ==
  ASSUME TypeOK, NEW r \in Requests, NEW step \in Steps, NEW F \in SUBSET Objects,
         stepsTo(r, step, F)
  PROVE  /\ req' \in [Requests -> Request] /\ Others(r, {})
         /\ req'[r].step = step /\ req'[r].fresh = F
         /\ SameTask(req[r], req'[r]) /\ req'[r].entities = req[r].entities
         /\ req'[r].entity = req[r].entity /\ req'[r].since = req[r].since
         /\ req'[r].left = req[r].left
<1>1. PICK q \in Request : q = req[r]
  BY DEF TypeOK
<1>2. PICK N : N = [q EXCEPT !.step = step, !.fresh = F]
  OBVIOUS
<1>3. /\ N \in Request /\ N.step = step /\ N.fresh = F /\ SameTask(q, N)
      /\ N.entities = q.entities /\ N.entity = q.entity /\ N.since = q.since /\ N.left = q.left
  BY <1>2 DEF Request, SameTask
<1>4. req' = [req EXCEPT ![r] = N]
  BY <1>1, <1>2 DEF TypeOK, Request, stepsTo
<1> QED
  BY <1>1, <1>3, <1>4, Becomes DEF becomes

LEMMA CheckMoves ==
  ASSUME Typed, NEW r \in Requests, check(r)
  PROVE  /\ req' \in [Requests -> Request] /\ Others(r, {}) /\ req[r].kind = "update"
         /\ UNCHANGED <<now, tables, started, history>>
         /\ \/ req'[r] = Idle
            \/ /\ req'[r].step = "save" /\ SameTask(req[r], req'[r])
               /\ req'[r].fresh = req[r].fresh \cup {Place(req[r].row.place)}
               /\ Free(req[r].row, {req[r].event})
<1>1. /\ req[r].kind = "update" /\ UNCHANGED <<now, tables, started, history>> /\ TypeOK
  BY KindsAt DEF check, Typed
<1>2. PICK F : F = req[r].fresh \cup {Place(req[r].row.place)}
  OBVIOUS
<1>3. F \in SUBSET Objects
  BY <1>2, RequestTypes, ObjectTypes DEF Request, Row
<1>4. CASE Free(req[r].row, {req[r].event})
  <2>1. stepsTo(r, "save", F)
    <3>1. PICK P : P = Place(req[r].row.place)
      OBVIOUS
    <3>2. req' = [req EXCEPT ![r].step = "save", ![r].fresh = @ \cup {P}]
      BY <1>4, <3>1 DEF check
    <3> QED
      BY <1>1, <1>2, <3>1, <3>2 DEF TypeOK, Request, stepsTo
  <2>2. "save" \in Steps
    BY DEF Steps
  <2> QED
    BY <1>1, <1>2, <1>3, <1>4, <2>1, <2>2, StepsOn
<1>5. CASE ~Free(req[r].row, {req[r].event})
  BY <1>1, <1>5, Ends DEF check, becomes
<1> QED
  BY <1>4, <1>5

LEMMA DryRunMoves ==
  ASSUME Typed, NEW r \in Requests, dryRun(r)
  PROVE  /\ req' \in [Requests -> Request] /\ Others(r, {}) /\ req[r].kind = "split"
         /\ UNCHANGED <<now, tables, started, history>>
         /\ \/ req'[r] = Idle
            \/ /\ SameTask(req[r], req'[r]) /\ req'[r].fresh = req[r].fresh
               /\ req'[r].entities = req[r].entities /\ req'[r].entity = req[r].entity
               /\ req'[r].since = req[r].since
               /\ \/ req'[r].step = "begin" /\ req[r].unread = {}
                  \/ /\ req'[r].step = "dryRun"
                     /\ \E d : /\ req'[r].unread = req[r].unread \ {d}
                              /\ ~checkRangeConflicts(r, d)
<1>1. /\ req[r].kind = "split" /\ UNCHANGED <<now, tables, started, history>> /\ TypeOK
      /\ req[r].step = "dryRun"
  BY KindsAt DEF dryRun, Typed, At
<1>2. PICK q \in Request : q = req[r]
  BY RequestTypes
<1>3. PICK d : d = Smallest(req[r].unread)
  OBVIOUS
<1>4. CASE req[r].unread = {} /\ req' = Goto(r, "begin")
  <2>1. PICK F : F = q.fresh
    OBVIOUS
  <2>2. stepsTo(r, "begin", F)
    BY <1>1, <1>2, <1>4, <2>1 DEF Goto, stepsTo, TypeOK, Request
  <2>3. "begin" \in Steps /\ F \in SUBSET Objects
    BY <2>1 DEF Steps, Request
  <2> QED
    BY <1>1, <1>2, <1>4, <2>1, <2>2, <2>3, StepsOn
<1>5. CASE checkRangeConflicts(r, d) /\ req' = Finish(r)
  BY <1>1, <1>5, Ends DEF becomes
<1>6. CASE ~checkRangeConflicts(r, d) /\ req' = [req EXCEPT ![r].unread = @ \ {d}]
  <2>1. PICK U : U = q.unread \ {d}
    OBVIOUS
  <2>2. PICK N : N = [q EXCEPT !.unread = U]
    OBVIOUS
  <2>3. /\ N \in Request /\ SameTask(q, N) /\ N.fresh = q.fresh /\ N.entities = q.entities
        /\ N.entity = q.entity /\ N.since = q.since /\ N.step = q.step /\ N.unread = U
    BY <2>1, <2>2 DEF Request, SameTask
  <2>4. req' = [req EXCEPT ![r] = N]
    BY <1>1, <1>2, <1>6, <2>1, <2>2 DEF TypeOK, Request
  <2>5. becomes(r, N) /\ Others(r, {})
    BY <1>1, <2>3, <2>4, Becomes
  <2> QED
    BY <1>1, <1>2, <1>6, <2>1, <2>3, <2>5 DEF becomes
<1> QED
  BY <1>3, <1>4, <1>5, <1>6 DEF dryRun

\* r has opened a transaction: it is going to generate occurrences of e on the days
\* G, which it found among the days D, once it has asked the holidays of the days U.
opens(r, e, D, G, U) ==
  /\ e \in Entity /\ D \in SUBSET Days /\ G \in SUBSET Days /\ U \in SUBSET Days
  /\ req' = [req EXCEPT ![r].step = "commit", ![r].entity = e, ![r].days = D,
                        ![r].occurrences = G, ![r].unread = U,
                        ![r].fresh = @ \cup {Place(e.place)}]
LEMMA GenerationBegins ==
  ASSUME Typed, NEW r \in Requests, NEW e, NEW D, NEW G, NEW U, opens(r, e, D, G, U)
  PROVE  /\ req' \in [Requests -> Request] /\ Others(r, {})
         /\ req'[r].step = "commit" /\ SameTask(req[r], req'[r])
         /\ req'[r].entities = req[r].entities /\ req'[r].entity = e /\ req'[r].days = D
         /\ req'[r].occurrences = G
         /\ req'[r].since = req[r].since /\ req'[r].left = req[r].left
         /\ req'[r].fresh = req[r].fresh \cup {Place(e.place)}
<1>1. PICK q \in Request : q = req[r]
  BY RequestTypes
<1>3. PICK F : F = q.fresh \cup {Place(e.place)}
  OBVIOUS
<1>4. /\ F \in SUBSET Objects /\ "commit" \in Steps
      /\ e \in Entity /\ D \in SUBSET Days /\ G \in SUBSET Days /\ U \in SUBSET Days
  BY <1>3, ObjectTypes DEF opens, Request, Entity, Places, Steps
<1>5. PICK N : N = [q EXCEPT !.step = "commit", !.entity = e, !.days = D, !.occurrences = G,
                             !.unread = U, !.fresh = F]
  OBVIOUS
<1>6. /\ N \in Request /\ N.step = "commit" /\ SameTask(q, N)
      /\ N.entities = q.entities /\ N.entity = e /\ N.days = D /\ N.occurrences = G
      /\ N.since = q.since /\ N.left = q.left /\ N.fresh = F
  BY <1>4, <1>5 DEF Request, SameTask
<1>7. req' = [req EXCEPT ![r].step = "commit", ![r].entity = e, ![r].days = D,
                         ![r].occurrences = G, ![r].unread = U, ![r].fresh = F]
  <2>1. PICK P : P = {Place(e.place)}
    OBVIOUS
  <2>2. req' = [req EXCEPT ![r].step = "commit", ![r].entity = e, ![r].days = D,
                           ![r].occurrences = G, ![r].unread = U, ![r].fresh = @ \cup P]
    BY <2>1 DEF opens
  <2> QED
    BY <1>1, <1>3, <2>1, <2>2 DEF Typed, TypeOK, Request
<1>8. req' = [req EXCEPT ![r] = N]
  BY <1>1, <1>5, <1>7 DEF Typed, TypeOK, Request
<1> QED
  BY <1>1, <1>3, <1>6, <1>8, Becomes DEF becomes, Typed

\* A day of an open transaction asks the holidays.
LEMMA AskHolidayMoves ==
  ASSUME Typed, NEW r \in Requests, askHoliday(r)
  PROVE  /\ req' \in [Requests -> Request] /\ Others(r, {})
         /\ UNCHANGED <<now, tables, started, history>>
         /\ req[r].step = "commit" /\ req'[r].step = "commit" /\ SameTask(req[r], req'[r])
         /\ req[r].kind \in {"createSeries", "split", "reorganize"}
         /\ req'[r].entities = req[r].entities /\ req'[r].entity = req[r].entity
         /\ req'[r].days = req[r].days /\ req'[r].since = req[r].since
         /\ req'[r].left = req[r].left /\ req'[r].fresh = req[r].fresh
         /\ req'[r].occurrences \subseteq req[r].occurrences
<1>1. PICK q \in Request : q = req[r]
  BY RequestTypes
<1>2. PICK d : d = Smallest(req[r].unread)
  OBVIOUS
<1>3. PICK U, G : U = q.unread \ {d} /\ G = IF isSchoolHoliday(d) THEN q.occurrences \ {d}
                                          ELSE q.occurrences
  OBVIOUS
<1>4. G \subseteq q.occurrences
  BY <1>3
<1>5. PICK N : N = [q EXCEPT !.unread = U, !.occurrences = G]
  OBVIOUS
<1>6. /\ N \in Request /\ SameTask(q, N) /\ N.fresh = q.fresh /\ N.entities = q.entities
      /\ N.entity = q.entity /\ N.since = q.since /\ N.step = q.step /\ N.occurrences = G
      /\ N.days = q.days /\ N.left = q.left
  BY <1>3, <1>4, <1>5 DEF Request, SameTask
<1>7. req' = [req EXCEPT ![r].unread = U, ![r].occurrences = G]
  BY <1>1, <1>2, <1>3 DEF askHoliday, Typed, TypeOK, Request
<1>8. req' = [req EXCEPT ![r] = N]
  BY <1>1, <1>5, <1>7 DEF Typed, TypeOK, Request
<1>9. becomes(r, N) /\ Others(r, {})
  BY <1>6, <1>8, Becomes DEF Typed
<1>10. /\ UNCHANGED <<now, tables, started, history>> /\ req[r].step = "commit"
       /\ req[r].kind \in {"createSeries", "split", "reorganize"}
  BY KindsAt DEF askHoliday, At
<1> QED
  BY <1>1, <1>4, <1>6, <1>9, <1>10 DEF becomes

LEMMA SplitMoves ==
  ASSUME Typed, NEW r \in Requests, splitSeries(r)
  PROVE  /\ req' \in [Requests -> Request] /\ Others(r, {}) /\ req[r].kind = "split"
         /\ req[r].step = "begin"
         /\ UNCHANGED <<now, tables, started, history>>
         /\ req'[r].step = "commit" /\ SameTask(req[r], req'[r])
         /\ req'[r].entities = req[r].entities /\ req'[r].entity = req[r].entity
         /\ req'[r].since = req[r].since /\ req'[r].days = splitDays(r)
         /\ req'[r].occurrences =
              generated(req[r].entity, Unsaved, splitDays(r),
                        {i \in Live : ~(rows[i].series = req[r].series
                                        /\ rows[i].start >= req[r].since)})
         /\ req'[r].fresh = req[r].fresh \cup {Place(req[r].entity.place)}
<1>1. PICK G : G = generated(req[r].entity, Unsaved, splitDays(r),
                             {i \in Live : ~(rows[i].series = req[r].series
                                             /\ rows[i].start >= req[r].since)})
  OBVIOUS
<1>5. PICK U : U = unlessHoliday(req[r].entity, G)
  OBVIOUS
<1>2. /\ req[r].entity \in Entity /\ splitDays(r) \in SUBSET Days /\ G \in SUBSET Days
      /\ U \in SUBSET Days
  BY <1>1, <1>5, RequestTypes, VisitedTypes DEF Request, splitDays
<1>3. /\ opens(r, req[r].entity, splitDays(r), G, U)
      /\ req[r].kind = "split" /\ req[r].step = "begin"
      /\ UNCHANGED <<now, tables, started, history>>
  BY <1>1, <1>2, <1>5 DEF splitSeries, beginGeneration, opens, At, Is
<1>4. /\ req' \in [Requests -> Request] /\ Others(r, {})
      /\ req'[r].step = "commit" /\ SameTask(req[r], req'[r])
      /\ req'[r].entities = req[r].entities /\ req'[r].entity = req[r].entity
      /\ req'[r].days = splitDays(r) /\ req'[r].occurrences = G
      /\ req'[r].since = req[r].since
      /\ req'[r].fresh = req[r].fresh \cup {Place(req[r].entity.place)}
  BY <1>3, GenerationBegins
<1> QED
  BY <1>1, <1>3, <1>4

-----------------------------------------------------------------------------
(* What the steps write.                                                   *)

effect(r, O) == req' \in [Requests -> Request] /\ Others(r, O) /\ Confined(O)

LEMMA TablesStay ==
  ASSUME UNCHANGED tables
  PROVE  Confined({})
BY DEF tables, Confined

\* One row is written.
LEMMA RowWritten ==
  ASSUME TypeOK, NEW i \in Rows, NEW row \in Row, rows' = [rows EXCEPT ![i] = row]
  PROVE  /\ rows' \in [Rows -> Row] /\ rows'[i] = row
         /\ \A j \in Rows \ {i} : rows'[j] = rows[j]
BY DEF TypeOK

LEMMA InsertMoves ==
  ASSUME Typed, NEW r \in Requests, insert(r)
  PROVE  /\ effect(r, {Place(req[r].row.place)}) /\ req'[r] = Idle /\ req[r].kind = "create"
         /\ \E i \in Rows : /\ rows[i].state = "free" /\ rows'[i] = req[r].row
                            /\ \A j \in Rows \ {i} : rows'[j] = rows[j]
                            /\ unchecked' = IF Place(req[r].row.place) \in req[r].fresh
                                            THEN unchecked ELSE unchecked \cup {i}
         /\ rows' \in [Rows -> Row]
         /\ UNCHANGED <<now, series, holidays, started, stale, shortened, considered>>
<1>1. PICK i : i = Smallest(FreeRows)
  OBVIOUS
<1>2. i \in Rows /\ rows[i].state = "free"
  BY <1>1, FreshIds DEF insert, FreeRows
<1>3. PICK row : row = req[r].row
  OBVIOUS
<1>4. row \in Row /\ req[r].kind = "create" /\ TypeOK
  BY <1>3, RequestTypes, KindsAt DEF insert, Request, Typed
<1>5. rows' = [rows EXCEPT ![i] = row]
  BY <1>1, <1>3 DEF insert
<1>6. /\ rows' \in [Rows -> Row] /\ rows'[i] = row
      /\ \A j \in Rows \ {i} : rows'[j] = rows[j]
  BY <1>2, <1>4, <1>5, RowWritten
<1>7. /\ unchecked' = IF Place(row.place) \in req[r].fresh THEN unchecked ELSE unchecked \cup {i}
      /\ UNCHANGED <<now, series, holidays, started, stale, shortened, considered>>
  BY <1>1, <1>3 DEF insert, Fresh
<1>8. becomes(r, Idle) /\ Others(r, {Place(row.place)})
  BY <1>3, <1>4, EndsWriting DEF insert
<1>9. Confined({Place(row.place)})
  BY <1>2, <1>6, <1>7 DEF Confined
<1> QED
  BY <1>2, <1>3, <1>4, <1>6, <1>7, <1>8, <1>9 DEF effect, becomes

LEMMA RemoveMoves ==
  ASSUME Typed, NEW r \in Requests, remove(r)
  PROVE  /\ effect(r, {Event(req[r].event)}) /\ req'[r] = Idle
         /\ \A i \in Rows : \/ rows'[i] = rows[i]
                            \/ /\ rows[i].state = "live" /\ rows'[i].state = "deleted"
                               /\ rows'[i].series = rows[i].series
         /\ rows' \in [Rows -> Row]
         /\ UNCHANGED <<now, series, holidays, started, history>>
<1>1. PICK i : i = req[r].event
  OBVIOUS
<1>2. i \in Rows /\ TypeOK
  BY <1>1, RequestTypes, KindsAt DEF remove, Known, RowKinds, Typed
<1>3. becomes(r, Idle) /\ Others(r, {Event(i)})
  BY <1>1, <1>2, EndsWriting DEF remove
<1>4. /\ \A j \in Rows : \/ rows'[j] = rows[j]
                         \/ /\ j = i /\ rows[j].state = "live" /\ rows'[j].state = "deleted"
                            /\ rows'[j].series = rows[j].series
      /\ rows' \in [Rows -> Row]
  <2>1. CASE i \in Live
    <3>1. PICK row \in Row : row = rows[i]
      BY <1>2 DEF TypeOK
    <3>2. PICK w : w = [row EXCEPT !.state = "deleted"]
      OBVIOUS
    <3>3. w \in Row /\ w.state = "deleted" /\ w.series = row.series /\ row.state = "live"
      BY <2>1, <3>1, <3>2 DEF Row, Live
    <3>4. rows' = [rows EXCEPT ![i] = w]
      BY <1>1, <1>2, <2>1, <3>1, <3>2 DEF remove, TypeOK
    <3> QED
      BY <1>2, <3>1, <3>3, <3>4, RowWritten
  <2>2. CASE i \notin Live
    BY <1>1, <1>2, <2>2 DEF remove, TypeOK
  <2> QED
    BY <2>1, <2>2
<1>5. UNCHANGED <<now, series, holidays, started, history>>
  BY DEF remove
<1>6. Confined({Event(i)})
  BY <1>4, <1>5 DEF Confined
<1> QED
  BY <1>1, <1>3, <1>4, <1>5, <1>6 DEF effect, becomes

\* What a save does: it is refused, or it writes the row as it was read.
LEMMA SaveMoves ==
  ASSUME Typed, NEW r \in Requests, save(r)
  PROVE  /\ rows' \in [Rows -> Row] /\ req[r].event \in Rows /\ req[r].kind \in RowKinds
         /\ unchecked' \in SUBSET Rows /\ unchecked \subseteq unchecked'
         /\ stale' \in SUBSET SeriesIds /\ stale \subseteq stale'
         /\ \E O : effect(r, O)
         /\ \A j \in Rows \ {req[r].event} : rows'[j] = rows[j]
         /\ \/ rows' = rows
            \/ /\ rows'[req[r].event] = req[r].row
               /\ req[r].row.series # None => series[req[r].row.series].state = "live"
         /\ rows' # rows =>
              /\ Event(req[r].event) \in req[r].fresh \/ req[r].row.series = None
                 \/ req[r].row.series \in stale'
              /\ \/ req[r].event \in unchecked'
                 \/ /\ Event(req[r].event) \in req[r].fresh
                    /\ req[r].kind = "update" => Place(req[r].row.place) \in req[r].fresh
         /\ \/ req'[r] = Idle
            \/ req[r].kind = "delete" /\ req'[r].step = "remove" /\ SameTask(req[r], req'[r])
         /\ UNCHANGED <<now, series, holidays, started, shortened, considered>>
<1>1. PICK i : i = req[r].event
  OBVIOUS
<1>2. PICK q \in Request : q = req[r]
  BY RequestTypes
<1>3. PICK row \in Row : row = q.row
  BY <1>2 DEF Request
<1>4. /\ i \in Rows /\ TypeOK /\ q.kind \in RowKinds /\ q.step = "save"
      /\ row.state = "live" /\ rows[i].state # "free" /\ rows[i] \in Row
  <2>1. q.kind \in RowKinds /\ q.step = "save" /\ Known(q) /\ TypeOK
    BY <1>2, KindsAt DEF save, At, Typed
  <2>2. i \in Rows /\ row.state = "live" /\ rows[i].state # "free"
    BY <1>1, <1>2, <1>3, <2>1 DEF Known
  <2> QED
    BY <2>1, <2>2 DEF TypeOK
<1>5. row.series \in {None} \cup SeriesIds
  BY DEF Row
<1>6. UNCHANGED <<now, series, holidays, started, shortened, considered>>
  BY DEF save
<1>7. PICK N : N = IF q.kind = "delete" THEN [q EXCEPT !.step = "remove"] ELSE Idle
  OBVIOUS
<1>8. /\ N \in Request
      /\ \/ N = Idle
         \/ q.kind = "delete" /\ N.step = "remove" /\ SameTask(q, N)
  <2>1. CASE q.kind = "delete"
    BY <1>7, <2>1 DEF Request, Steps, SameTask
  <2>2. CASE q.kind # "delete"
    BY <1>7, <2>2, IdleFields
  <2> QED
    BY <2>1, <2>2
<1>9. PICK then : then = [req EXCEPT ![r] = N]
  OBVIOUS
<1>10. then = IF Is(r, "delete") THEN Goto(r, "remove") ELSE Finish(r)
  <2>1. CASE q.kind = "delete"
    <3>1. Goto(r, "remove") = [req EXCEPT ![r] = [req[r] EXCEPT !.step = "remove"]]
      BY <1>4, StepTypes DEF Steps
    <3> QED
      BY <1>2, <1>7, <1>9, <2>1, <3>1 DEF Is
  <2>2. CASE q.kind # "delete"
    BY <1>2, <1>7, <1>9, <2>2 DEF Is, Finish
  <2> QED
    BY <2>1, <2>2
<1>11. CASE row.series # None /\ series[row.series].state # "live"
  <2>1. req' = Finish(r) /\ UNCHANGED <<rows, unchecked, stale>>
    BY <1>2, <1>3, <1>11 DEF save
  <2>2. becomes(r, Idle) /\ Others(r, {}) /\ UNCHANGED tables
    BY <1>4, <1>6, <2>1, Ends DEF tables
  <2>3. effect(r, {}) /\ req'[r] = Idle
    BY <2>2, TablesStay DEF effect, becomes
  <2> QED
    BY <1>1, <1>2, <1>4, <1>6, <2>1, <2>3 DEF TypeOK
<1>12. CASE ~(row.series # None /\ series[row.series].state # "live")
  <2>1. PICK moved : moved = ([rows[i] EXCEPT !.owner = row.owner] # row)
    OBVIOUS
  <2>2. PICK O : O = {Event(i)} \cup IF moved THEN {Place(row.place)} ELSE {}
    OBVIOUS
  <2>3. /\ rows' = [rows EXCEPT ![i] = row]
        /\ unchecked' = IF ~Fresh(r, basis(r)) THEN unchecked \cup {i} ELSE unchecked
        /\ stale' = IF Fresh(r, {Event(i)}) THEN stale ELSE stale \cup ({row.series} \ {None})
        /\ req' = IF rows' = rows THEN then ELSE written(r, O, then)
    BY <1>1, <1>2, <1>3, <1>10, <1>12, <2>1, <2>2 DEF save
  <2>4. /\ rows' \in [Rows -> Row] /\ rows'[i] = row
        /\ \A j \in Rows \ {i} : rows'[j] = rows[j]
    BY <1>4, <2>3, RowWritten
  <2>5. ASSUME rows' = rows PROVE effect(r, {}) /\ req'[r] = N
    <3>1. becomes(r, N) /\ Others(r, {}) /\ UNCHANGED tables
      BY <1>4, <1>6, <1>8, <1>9, <2>3, <2>5, Becomes DEF tables
    <3> QED
      BY <3>1, TablesStay DEF effect, becomes
  <2>6. ASSUME rows' # rows PROVE effect(r, O) /\ req'[r] = N
    <3>1. becomes(r, N) /\ Others(r, O)
      BY <1>4, <1>8, <1>9, <2>3, <2>6, Writes
    <3>2. ~moved => /\ rows[i].state = "live" /\ row.place = rows[i].place
                    /\ row.start = rows[i].start /\ row.end = rows[i].end
                    /\ row.background = rows[i].background /\ row.series = rows[i].series
      BY <1>4, <2>1 DEF Row
    <3>3. Event(i) \in O /\ (moved => Place(row.place) \in O)
      BY <2>2
    <3>4. Confined(O)
      BY <1>4, <1>6, <2>4, <3>2, <3>3 DEF Confined
    <3> QED
      BY <3>1, <3>4 DEF effect, becomes
  <2>7. (\E O1 : effect(r, O1)) /\ req'[r] = N
    BY <2>5, <2>6
  <2>8. /\ unchecked' \in SUBSET Rows /\ unchecked \subseteq unchecked'
        /\ stale' \in SUBSET SeriesIds /\ stale \subseteq stale'
    <3>1. unchecked \in SUBSET Rows /\ stale \in SUBSET SeriesIds
      BY <1>4 DEF TypeOK
    <3> QED
      BY <1>4, <1>5, <2>3, <3>1
  <2>9. Event(i) \in req[r].fresh \/ row.series = None \/ row.series \in stale'
    BY <2>3 DEF Fresh
  <2>10. \/ i \in unchecked'
         \/ /\ Event(i) \in req[r].fresh
            /\ q.kind = "update" => Place(row.place) \in req[r].fresh
    BY <1>1, <1>2, <1>3, <2>3 DEF Fresh, basis, Is
  <2> QED
    BY <1>1, <1>2, <1>3, <1>4, <1>6, <1>8, <1>12, <2>4, <2>7, <2>8, <2>9, <2>10
<1> QED
  BY <1>11, <1>12

\* The day of the new row i.
dayFor(D, i) == CHOOSE d \in D : idOf(D)[d] = i

\* The rows of table are joined by one occurrence of e for each of the days D.
grown(e, s, D, table) ==
  /\ rows' \in [Rows -> Row] /\ newRows(D) \subseteq FreeRows
  /\ \A i \in newRows(D) : /\ dayFor(D, i) \in D
                           /\ rows'[i] = occurrence(e, s, dayFor(D, i))
  /\ \A i, j \in newRows(D) : dayFor(D, i) = dayFor(D, j) => i = j
  /\ \A i \in Rows \ newRows(D) : rows'[i] = table[i]

LEMMA OccurrenceTypes ==
  ASSUME NEW e \in Entity, NEW s \in SeriesIds, NEW d \in Days
  PROVE  occurrence(e, s, d) \in Row
<1>1. d * DayLength + e.from \in Times /\ d * DayLength + e.to \in Times /\ e.place \in Places
  BY TimesOfDay DEF Entity, Places
<1> QED
  BY <1>1 DEF occurrence, Entity, Row

LEMMA Grows ==
  ASSUME NEW e \in Entity, NEW s \in SeriesIds, NEW D \in SUBSET Days, enoughRows(D),
         NEW table \in [Rows -> Row], rows' = withOccurrences(table, e, s, D)
  PROVE  grown(e, s, D, table)
<1>1. /\ \A d \in D : idOf(D)[d] \in FreeRows
      /\ \A d, x \in D : idOf(D)[d] = idOf(D)[x] => d = x
  BY IdsAreFreeAndDistinct
<1>2. newRows(D) \subseteq FreeRows
  BY <1>1 DEF newRows
<1>3. \A i : (\E d \in D : idOf(D)[d] = i) <=> i \in newRows(D)
  BY DEF newRows
<1>4. ASSUME NEW i \in newRows(D) PROVE dayFor(D, i) \in D /\ idOf(D)[dayFor(D, i)] = i
  BY <1>3 DEF dayFor
<1>5. FreeRows \subseteq Rows
  BY DEF FreeRows
<1>6. ASSUME NEW i \in newRows(D) PROVE rows'[i] = occurrence(e, s, dayFor(D, i))
  BY <1>2, <1>3, <1>5 DEF withOccurrences, dayFor
<1>7. ASSUME NEW i \in Rows \ newRows(D) PROVE rows'[i] = table[i]
  BY <1>3 DEF withOccurrences
<1>8. ASSUME NEW i \in newRows(D), NEW j \in newRows(D), dayFor(D, i) = dayFor(D, j) PROVE i = j
  BY <1>4, <1>8
<1>9. \A i \in Rows : rows'[i] \in Row
  BY <1>4, <1>6, <1>7, OccurrenceTypes
<1>10. rows' = [i \in Rows |-> rows'[i]]
  BY DEF withOccurrences
<1> QED
  BY <1>2, <1>4, <1>6, <1>7, <1>8, <1>9, <1>10 DEF grown

LEMMA NewRowFields ==
  ASSUME NEW e, NEW s, NEW D, NEW table, grown(e, s, D, table)
  PROVE  \A i \in newRows(D) :
           /\ i \in Rows /\ rows[i].state = "free" /\ rows'[i].state = "live"
           /\ rows'[i].place = e.place /\ rows'[i].owner = e.owner /\ rows'[i].series = s
           /\ ~rows'[i].background /\ dayFor(D, i) \in D
           /\ rows'[i].start = dayFor(D, i) * DayLength + e.from
           /\ rows'[i].end = dayFor(D, i) * DayLength + e.to
<1> TAKE i \in newRows(D)
<1>1. /\ i \in FreeRows /\ dayFor(D, i) \in D
      /\ rows'[i] = occurrence(e, s, dayFor(D, i))
  BY DEF grown
<1>2. PICK d : d = dayFor(D, i)
  OBVIOUS
<1>3. PICK row : row = occurrence(e, s, d)
  OBVIOUS
<1>4. /\ row.state = "live" /\ row.place = e.place /\ row.owner = e.owner /\ row.series = s
      /\ ~row.background /\ row.start = d * DayLength + e.from /\ row.end = d * DayLength + e.to
  BY <1>3 DEF occurrence
<1>5. i \in Rows /\ rows[i].state = "free"
  BY <1>1 DEF FreeRows
<1> QED
  BY <1>1, <1>2, <1>3, <1>4, <1>5

\* How often the days D of the series s were generated.
LEMMA Counted ==
  ASSUME TypeOK, NEW s \in SeriesIds, NEW D \in SUBSET Days, considered' = counted(s, D)
  PROVE  /\ considered' \in [SeriesIds -> [Days -> 0..2]]
         /\ \A x \in SeriesIds \ {s} : considered'[x] = considered[x]
         /\ \A d \in Days \ D : considered'[s][d] = considered[s][d]
         /\ \A d \in D : /\ considered'[s][d] > 0
                         /\ considered[s][d] = 0 => considered'[s][d] = 1
<1>1. PICK f \in [Days -> 0..2] : f = considered[s]
  BY DEF TypeOK
<1>2. PICK g : g = [d \in Days |-> IF d \in D /\ f[d] < 2 THEN f[d] + 1 ELSE f[d]]
  OBVIOUS
<1>3. g \in [Days -> 0..2] /\ \A d \in Days : g[d] = IF d \in D /\ f[d] < 2 THEN f[d] + 1 ELSE f[d]
  <2>1. \A d \in Days : (IF d \in D /\ f[d] < 2 THEN f[d] + 1 ELSE f[d]) \in 0..2
    <3> TAKE d \in Days
    <3>1. f[d] \in 0..2
      OBVIOUS
    <3> QED
      BY <3>1
  <2> QED
    BY <1>2, <2>1
<1>4. considered' = [considered EXCEPT ![s] = g]
  BY <1>1, <1>2 DEF counted, TypeOK
<1>5. considered' \in [SeriesIds -> [Days -> 0..2]] /\ considered'[s] = g
      /\ \A x \in SeriesIds \ {s} : considered'[x] = considered[x]
  BY <1>3, <1>4 DEF TypeOK
<1>6. \A d \in Days \ D : g[d] = f[d]
  BY <1>3
<1>7. ASSUME NEW d \in D PROVE g[d] > 0 /\ (f[d] = 0 => g[d] = 1)
  <2>1. f[d] \in 0..2 /\ g[d] = IF f[d] < 2 THEN f[d] + 1 ELSE f[d]
    BY <1>3
  <2> QED
    BY <2>1
<1> QED
  BY <1>1, <1>5, <1>6, <1>7

\* One series is written.
LEMMA SeriesWritten ==
  ASSUME TypeOK, NEW s \in SeriesIds, NEW e \in Entity, series' = [series EXCEPT ![s] = e]
  PROVE  /\ series' \in [SeriesIds -> Entity] /\ series'[s] = e
         /\ \A x \in SeriesIds \ {s} : series'[x] = series[x]
BY DEF TypeOK

\* The rows of r that are new are checked if its check still holds.
judged(r, e, D) ==
  unchecked' = IF Place(e.place) \in req[r].fresh THEN unchecked ELSE unchecked \cup newRows(D)

LEMMA CommitSeriesMoves ==
  ASSUME Typed, NEW r \in Requests, commitSeries(r)
  PROVE  /\ \E O : effect(r, O)
         /\ req[r].kind = "createSeries" /\ req[r].step = "commit" /\ req'[r] = Idle
         /\ \E s \in SeriesIds :
              /\ series[s].state = "free" /\ series'[s] = req[r].entity
              /\ \A x \in SeriesIds \ {s} : series'[x] = series[x]
              /\ grown(req[r].entity, s, req[r].occurrences, rows)
              /\ considered' = counted(s, req[r].days)
         /\ series' \in [SeriesIds -> Entity]
         /\ judged(r, req[r].entity, req[r].occurrences)
         /\ UNCHANGED <<now, holidays, started, stale, shortened>>
<1>1. PICK s : s = Smallest(FreeSeries)
  OBVIOUS
<1>2. s \in SeriesIds /\ series[s].state = "free"
  BY <1>1, FreshIds DEF commitSeries, FreeSeries
<1>3. PICK e \in Entity, D \in SUBSET Days : e = req[r].entity /\ D = req[r].occurrences
  BY RequestTypes DEF Request
<1>4. /\ TypeOK /\ req[r].kind = "createSeries" /\ req[r].step = "commit" /\ e.state = "live"
      /\ rows \in [Rows -> Row] /\ enoughRows(D)
  BY <1>3, RequestTypes DEF commitSeries, Is, At, Typed, TypeOK, Known, Writers
<1>5. PICK O : O = {Place(e.place) : i \in newRows(D)}
  OBVIOUS
<1>6. /\ series' = [series EXCEPT ![s] = e] /\ rows' = withOccurrences(rows, e, s, D)
      /\ considered' = counted(s, req[r].days) /\ req' = written(r, O, Finish(r))
  BY <1>1, <1>3, <1>5 DEF commitSeries
<1>7. /\ judged(r, e, D) /\ UNCHANGED <<now, holidays, started, stale, shortened>>
  BY <1>3 DEF commitSeries, Fresh, judged
<1>8. grown(e, s, D, rows)
  BY <1>2, <1>4, <1>6, Grows
<1>9. /\ series' \in [SeriesIds -> Entity] /\ series'[s] = e
      /\ \A x \in SeriesIds \ {s} : series'[x] = series[x]
  BY <1>2, <1>4, <1>6, SeriesWritten
<1>10. becomes(r, Idle) /\ Others(r, O)
  BY <1>4, <1>6, EndsWriting
<1>11. Confined(O)
  <2>1. \A i \in newRows(D) : rows[i].state = "free" /\ rows'[i].place = e.place
                              /\ rows'[i].state = "live" /\ Place(rows'[i].place) \in O
    BY <1>5, <1>8, NewRowFields
  <2>2. \A i \in Rows \ newRows(D) : rows'[i] = rows[i]
    BY <1>8 DEF grown
  <2> QED
    BY <1>2, <1>4, <1>7, <1>9, <2>1, <2>2 DEF Confined
<1> QED
  BY <1>2, <1>3, <1>4, <1>6, <1>7, <1>8, <1>9, <1>10, <1>11 DEF effect, becomes

\* The rows that stay when r splits its series, and those that are deleted.
splitOff(r) == {i \in Live : rows[i].series = req[r].series /\ rows[i].start >= req[r].since}
withoutFuture(r) ==
  [i \in Rows |-> IF i \in splitOff(r) THEN [rows[i] EXCEPT !.state = "deleted"] ELSE rows[i]]

LEMMA FutureIsDeleted ==
  ASSUME TypeOK, NEW r
  PROVE  /\ withoutFuture(r) \in [Rows -> Row] /\ splitOff(r) \subseteq Rows
         /\ \A i \in Rows \ splitOff(r) : withoutFuture(r)[i] = rows[i]
         /\ \A i \in splitOff(r) : /\ withoutFuture(r)[i].state = "deleted"
                                   /\ withoutFuture(r)[i].series = rows[i].series
                                   /\ rows[i].state = "live"
<1>1. ASSUME NEW i \in Rows
      PROVE  /\ [rows[i] EXCEPT !.state = "deleted"] \in Row
             /\ [rows[i] EXCEPT !.state = "deleted"].state = "deleted"
             /\ [rows[i] EXCEPT !.state = "deleted"].series = rows[i].series
             /\ rows[i] \in Row
  BY DEF TypeOK, Row
<1>2. splitOff(r) \subseteq Rows /\ \A i \in splitOff(r) : rows[i].state = "live"
  BY DEF splitOff, Live
<1> QED
  BY <1>1, <1>2 DEF withoutFuture

LEMMA CommitSplitMoves ==
  ASSUME Typed, NEW r \in Requests, commitSplit(r)
  PROVE  /\ \E O : effect(r, O)
         /\ req[r].kind = "split" /\ req[r].step = "commit" /\ req'[r] = Idle
         /\ req[r].series \in SeriesIds /\ series[req[r].series].state # "free"
         /\ series'[req[r].series].until = req[r].entities[req[r].series].until
         /\ series'[req[r].series].owner = req[r].entities[req[r].series].owner
         /\ series'[req[r].series].state = "live"
         /\ \E s \in SeriesIds :
              /\ series[s].state = "free" /\ series'[s] = req[r].entity
              /\ \A x \in SeriesIds \ {s, req[r].series} : series'[x] = series[x]
              /\ grown(req[r].entity, s, req[r].occurrences, withoutFuture(r))
              /\ considered' = counted(s, req[r].days)
         /\ series' \in [SeriesIds -> Entity]
         /\ judged(r, req[r].entity, req[r].occurrences)
         /\ stale' \in {stale, stale \cup {req[r].series}}
         /\ Series(req[r].series) \notin req[r].fresh => req[r].series \in stale'
         /\ shortened' \in {shortened, shortened \cup {req[r].series}}
         /\ req[r].series \in shortened'
            \/ series[req[r].series].until <= series'[req[r].series].last
         /\ UNCHANGED <<now, holidays, started>>
<1>1. PICK s : s = Smallest(FreeSeries)
  OBVIOUS
<1>2. s \in SeriesIds /\ series[s].state = "free"
  BY <1>1, FreshIds DEF commitSplit, FreeSeries
<1>3. PICK e \in Entity, D \in SUBSET Days, old \in {None} \cup SeriesIds, since \in Times :
        /\ e = req[r].entity /\ D = req[r].occurrences
        /\ old = req[r].series /\ since = req[r].since
  BY RequestTypes DEF Request
<1>4. /\ TypeOK /\ req[r].kind = "split" /\ req[r].step = "commit" /\ e.state = "live"
      /\ rows \in [Rows -> Row] /\ enoughRows(D)
  BY <1>3, RequestTypes DEF commitSplit, Is, At, Typed, TypeOK, Known, Writers
<1>5. /\ old \in SeriesIds /\ series[old].state # "free"
      /\ req[r].entities[old].state = "live" /\ DayLength <= since
  BY <1>3, <1>4, RequestTypes DEF Known, SeriesKinds
<1>6. PICK copy \in Entity : copy = req[r].entities[old]
  BY <1>5, RequestTypes DEF Request
<1>7. since - DayLength \in Times
  <2>4. since \in Nat /\ since <= (LastDay + 1) * DayLength /\ (LastDay + 1) * DayLength \in Nat
    BY DayBounds DEF Times
  <2> QED
    BY <1>5, <2>4, DayBounds DEF Times
<1>8. PICK ended : ended = [copy EXCEPT !.last = since - DayLength]
  OBVIOUS
<1>9. /\ ended \in Entity /\ ended.until = copy.until /\ ended.owner = copy.owner
      /\ ended.state = copy.state
  BY <1>7, <1>8 DEF Entity
<1>10. PICK O : O = {Series(old)} \cup {Event(i) : i \in splitOff(r)}
                    \cup {Place(e.place) : i \in newRows(D)}
  OBVIOUS
<1>11. /\ series' = [series EXCEPT ![old] = ended, ![s] = e]
       /\ rows' = withOccurrences(withoutFuture(r), e, s, D)
       /\ considered' = counted(s, req[r].days) /\ req' = written(r, O, Finish(r))
  BY <1>1, <1>3, <1>6, <1>8, <1>10 DEF commitSplit, splitOff, withoutFuture
<1>12. /\ judged(r, e, D) /\ UNCHANGED <<now, holidays, started>>
       /\ stale' = IF Series(old) \in req[r].fresh THEN stale ELSE stale \cup {old}
       /\ shortened' = IF ended.last < series[old].until THEN shortened \cup {old} ELSE shortened
  BY <1>3, <1>6, <1>8 DEF commitSplit, Fresh, judged, endsTooEarly
<1>13. grown(e, s, D, withoutFuture(r))
  BY <1>2, <1>4, <1>11, Grows, FutureIsDeleted
<1>14. /\ series' \in [SeriesIds -> Entity] /\ series'[s] = e /\ series'[old] = ended
       /\ \A x \in SeriesIds \ {s, old} : series'[x] = series[x]
  BY <1>2, <1>4, <1>5, <1>9, <1>11 DEF TypeOK
<1>15. becomes(r, Idle) /\ Others(r, O)
  BY <1>4, <1>11, EndsWriting
<1>16. Confined(O)
  <2>1. \A i \in newRows(D) : rows[i].state = "free" /\ rows'[i].place = e.place
                              /\ rows'[i].state = "live" /\ Place(rows'[i].place) \in O
    BY <1>10, <1>13, NewRowFields
  <2>2. \A i \in Rows \ newRows(D) :
          rows'[i] = rows[i] \/ (Event(i) \in O /\ rows'[i].state = "deleted")
    BY <1>4, <1>10, <1>13, FutureIsDeleted DEF grown
  <2>3. Series(old) \in O
    BY <1>10
  <2> QED
    BY <1>2, <1>4, <1>5, <1>6, <1>9, <1>12, <1>14, <2>1, <2>2, <2>3 DEF Confined
<1>17. old \in shortened' \/ series[old].until <= ended.last
  <2>1. series[old].until \in Nat /\ ended.last \in Nat
    BY <1>4, <1>5, <1>9, TimeBounds DEF TypeOK, Entity
  <2> QED
    BY <1>12, <2>1
<1>18. effect(r, O) /\ req'[r] = Idle
  BY <1>15, <1>16 DEF effect, becomes
<1> QED
  BY <1>2, <1>3, <1>4, <1>5, <1>6, <1>9, <1>11, <1>12, <1>13, <1>14, <1>17, <1>18

LEMMA SaveSeriesMoves ==
  ASSUME Typed, NEW r \in Requests, saveSeries(r)
  PROVE  /\ \E O : effect(r, O)
         /\ req[r].kind \in {"updateSeries", "transferSeries"} /\ req'[r] = Idle
         /\ req[r].series \in SeriesIds /\ series[req[r].series].state # "free"
         /\ series' \in [SeriesIds -> Entity] /\ series'[req[r].series] = req[r].entity
         /\ req[r].entity.state = "live"
         /\ \A x \in SeriesIds \ {req[r].series} : series'[x] = series[x]
         /\ rows' \in [Rows -> Row]
         /\ \A i \in Rows :
              /\ rows'[i].state = rows[i].state /\ rows'[i].place = rows[i].place
              /\ rows'[i].start = rows[i].start /\ rows'[i].end = rows[i].end
              /\ rows'[i].background = rows[i].background /\ rows'[i].series = rows[i].series
              /\ IF req[r].kind = "transferSeries" /\ i \in RowsOf(req[r].series)
                 THEN rows'[i].owner = req[r].entity.owner ELSE rows'[i] = rows[i]
         /\ stale' \in {stale, stale \cup {req[r].series}}
         /\ Series(req[r].series) \notin req[r].fresh => req[r].series \in stale'
         /\ shortened' \in {shortened, shortened \cup {req[r].series}}
         /\ req[r].series \in shortened' \/ series[req[r].series].until <= req[r].entity.last
         /\ UNCHANGED <<now, holidays, started, unchecked, considered>>
<1>1. PICK q \in Request : q = req[r]
  BY RequestTypes
<1>2. PICK s \in {None} \cup SeriesIds, e \in Entity : s = q.series /\ e = q.entity
  BY DEF Request
<1>3. /\ TypeOK /\ q.kind \in {"updateSeries", "transferSeries"} /\ s \in SeriesIds
      /\ series[s].state # "free" /\ e.state = "live" /\ rows \in [Rows -> Row]
  BY <1>1, <1>2, RequestTypes, KindsAt
     DEF saveSeries, Typed, TypeOK, Known, SeriesKinds, Writers
<1>4. PICK T : T = transferred(r)
  OBVIOUS
<1>5. \A i \in Rows : i \in T <=> q.kind = "transferSeries" /\ i \in RowsOf(s)
  BY <1>1, <1>2, <1>4 DEF transferred, Is
<1>6. PICK O : O = {Series(s)} \cup {Event(i) : i \in T}
  OBVIOUS
<1>7. /\ series' = [series EXCEPT ![s] = e]
      /\ rows' = [i \in Rows |-> IF i \in T THEN [rows[i] EXCEPT !.owner = e.owner] ELSE rows[i]]
      /\ req' = written(r, O, Finish(r))
      /\ stale' = IF Series(s) \in q.fresh THEN stale ELSE stale \cup {s}
      /\ shortened' = IF e.last < series[s].until THEN shortened \cup {s} ELSE shortened
      /\ UNCHANGED <<now, holidays, started, unchecked, considered>>
  BY <1>1, <1>2, <1>4, <1>6 DEF saveSeries, endsTooEarly, Fresh
<1>8. /\ series' \in [SeriesIds -> Entity] /\ series'[s] = e
      /\ \A x \in SeriesIds \ {s} : series'[x] = series[x]
  BY <1>3, <1>7, SeriesWritten
<1>9. becomes(r, Idle) /\ Others(r, O)
  BY <1>3, <1>7, EndsWriting
<1>10. ASSUME NEW i \in Rows
       PROVE  /\ rows'[i] \in Row
              /\ rows'[i].state = rows[i].state /\ rows'[i].place = rows[i].place
              /\ rows'[i].start = rows[i].start /\ rows'[i].end = rows[i].end
              /\ rows'[i].background = rows[i].background /\ rows'[i].series = rows[i].series
              /\ IF i \in T THEN rows'[i].owner = e.owner ELSE rows'[i] = rows[i]
  <2>1. PICK row \in Row : row = rows[i]
    BY <1>3
  <2>2. PICK w : w = [row EXCEPT !.owner = e.owner]
    OBVIOUS
  <2>3. /\ w \in Row /\ w.state = row.state /\ w.place = row.place /\ w.start = row.start
        /\ w.end = row.end /\ w.background = row.background /\ w.series = row.series
        /\ w.owner = e.owner
    BY <2>2 DEF Row, Entity
  <2>4. rows'[i] = IF i \in T THEN w ELSE row
    BY <1>7, <2>1, <2>2
  <2> QED
    BY <2>1, <2>3, <2>4
<1>11. rows' \in [Rows -> Row]
  BY <1>7, <1>10
<1>12. Confined(O)
  <2>1. Series(s) \in O /\ \A i \in T : Event(i) \in O
    BY <1>6
  <2> QED
    BY <1>3, <1>7, <1>8, <1>10, <2>1 DEF Confined
<1>13. s \in shortened' \/ series[s].until <= e.last
  <2>1. series[s].until \in Nat /\ e.last \in Nat
    BY <1>3, TimeBounds DEF TypeOK, Entity
  <2> QED
    BY <1>7, <2>1
<1>14. effect(r, O) /\ req'[r] = Idle
  BY <1>9, <1>12 DEF effect, becomes
<1> QED
  BY <1>1, <1>2, <1>3, <1>5, <1>7, <1>8, <1>10, <1>11, <1>13, <1>14

LEMMA PurgeMoves ==
  ASSUME Typed, NEW r \in Requests, purge(r)
  PROVE  /\ \E O : effect(r, O)
         /\ req[r].kind = "deleteSeries" /\ req'[r].step = "drop" /\ SameTask(req[r], req'[r])
         /\ req'[r].entities = req[r].entities /\ req'[r].fresh = req[r].fresh
         /\ rows' \in [Rows -> Row]
         /\ \A i \in Rows : \/ rows'[i] = rows[i]
                            \/ /\ rows[i].state # "free" /\ rows'[i].state = "gone"
                               /\ rows'[i].series = rows[i].series
         /\ UNCHANGED <<now, series, holidays, started, history>>
<1>1. PICK q \in Request : q = req[r]
  BY RequestTypes
<1>2. TypeOK /\ q.kind = "deleteSeries" /\ rows \in [Rows -> Row]
  BY <1>1, KindsAt DEF purge, Typed, TypeOK
<1>3. PICK ids : ids = RowsOf(q.series)
  OBVIOUS
<1>4. PICK O : O = {Event(i) : i \in ids}
  OBVIOUS
<1>5. /\ rows' = [i \in Rows |-> IF i \in ids THEN [rows[i] EXCEPT !.state = "gone"] ELSE rows[i]]
      /\ req' = written(r, O, Goto(r, "drop"))
      /\ UNCHANGED <<now, series, holidays, started, history>>
  BY <1>1, <1>3, <1>4 DEF purge
<1>6. PICK N : N = [q EXCEPT !.step = "drop"]
  OBVIOUS
<1>7. /\ N \in Request /\ N.step = "drop" /\ SameTask(q, N) /\ N.entities = q.entities
      /\ N.fresh = q.fresh
  BY <1>6 DEF Request, Steps, SameTask
<1>8. PICK R : R = [req EXCEPT ![r] = N]
  OBVIOUS
<1>9. R = Goto(r, "drop")
  BY <1>1, <1>2, <1>6, <1>8, StepTypes DEF Steps
<1>10. becomes(r, N) /\ Others(r, O)
  BY <1>2, <1>5, <1>7, <1>8, <1>9, Writes
<1>11. ASSUME NEW i \in Rows
       PROVE  /\ rows'[i] \in Row
              /\ \/ rows'[i] = rows[i]
                 \/ /\ i \in ids /\ rows[i].state # "free" /\ rows'[i].state = "gone"
                    /\ rows'[i].series = rows[i].series
  <2>1. PICK row \in Row : row = rows[i]
    BY <1>2
  <2>2. PICK w : w = [row EXCEPT !.state = "gone"]
    OBVIOUS
  <2>3. w \in Row /\ w.state = "gone" /\ w.series = row.series
    BY <2>2 DEF Row
  <2>4. rows'[i] = IF i \in ids THEN w ELSE row
    BY <1>5, <2>1, <2>2
  <2>5. i \in ids => row.state # "free"
    BY <1>3, <2>1 DEF RowsOf
  <2> QED
    BY <2>1, <2>3, <2>4, <2>5
<1>12. rows' \in [Rows -> Row]
  BY <1>5, <1>11
<1>13. Confined(O)
  <2>1. \A i \in ids : Event(i) \in O
    BY <1>4
  <2> QED
    BY <1>5, <1>11, <2>1 DEF Confined
<1> QED
  BY <1>1, <1>2, <1>5, <1>7, <1>10, <1>11, <1>12, <1>13 DEF effect, becomes

LEMMA DropMoves ==
  ASSUME Typed, NEW r \in Requests, drop(r)
  PROVE  /\ \E O : effect(r, O)
         /\ req[r].kind = "deleteSeries" /\ req'[r] = Idle /\ req[r].series \in SeriesIds
         /\ series' \in [SeriesIds -> Entity]
         /\ \A s \in SeriesIds :
              \/ series'[s] = series[s]
              \/ /\ s = req[r].series /\ series[s].state # "free" /\ series'[s].state = "gone"
                 /\ RowsOf(s) = {}
         /\ UNCHANGED <<now, rows, holidays, started, history>>
<1>1. PICK s : s = req[r].series
  OBVIOUS
<1>2. /\ TypeOK /\ req[r].kind = "deleteSeries" /\ s \in SeriesIds /\ series[s].state # "free"
  BY <1>1, RequestTypes, KindsAt DEF drop, Typed, Known, SeriesKinds
<1>3. PICK e \in Entity : e = series[s]
  BY <1>2 DEF TypeOK
<1>4. PICK n : n = [e EXCEPT !.state = "gone"]
  OBVIOUS
<1>5. n \in Entity /\ n.state = "gone"
  BY <1>4 DEF Entity
<1>6. /\ series' = IF RowsOf(s) = {} THEN [series EXCEPT ![s] = n] ELSE series
      /\ req' = IF series' = series THEN Finish(r) ELSE written(r, {Series(s)}, Finish(r))
      /\ UNCHANGED <<now, rows, holidays, started, history>>
  BY <1>1, <1>2, <1>3, <1>4 DEF drop, TypeOK
<1>7. /\ series' \in [SeriesIds -> Entity]
      /\ \A x \in SeriesIds : \/ series'[x] = series[x]
                              \/ x = s /\ series'[x].state = "gone" /\ RowsOf(s) = {}
  <2>1. CASE RowsOf(s) = {}
    BY <1>2, <1>5, <1>6, <2>1, SeriesWritten
  <2>2. CASE RowsOf(s) # {}
    BY <1>2, <1>6, <2>2 DEF TypeOK
  <2> QED
    BY <2>1, <2>2
<1>8. (\E O : effect(r, O)) /\ req'[r] = Idle
  <2>1. CASE series' = series
    <3>1. becomes(r, Idle) /\ Others(r, {}) /\ UNCHANGED tables
      BY <1>2, <1>6, <2>1, Ends DEF tables
    <3> QED
      BY <3>1, TablesStay DEF effect, becomes
  <2>2. CASE series' # series
    <3>1. becomes(r, Idle) /\ Others(r, {Series(s)})
      BY <1>2, <1>6, <2>2, EndsWriting
    <3>2. Confined({Series(s)})
      BY <1>2, <1>6, <1>7 DEF Confined
    <3> QED
      BY <3>1, <3>2 DEF effect, becomes
  <2> QED
    BY <2>1, <2>2
<1> QED
  BY <1>1, <1>2, <1>6, <1>7, <1>8

LEMMA FetchMoves ==
  ASSUME Typed, NEW r \in Requests, fetch(r)
  PROVE  /\ effect(r, {}) /\ UNCHANGED <<now, tables, started, history>>
         /\ req[r].kind = "reorganize" /\ req[r].step = "fetch" /\ req'[r].step = "import"
         /\ SameTask(req[r], req'[r]) /\ req'[r].since = req[r].since
         /\ req'[r].fresh = req[r].fresh
         /\ \A v \in Vacations : v \in req'[r].todo <=> v[2] >= dayOf(req[r].since)
<1>1. PICK q \in Request : q = req[r]
  BY RequestTypes
<1>2. /\ TypeOK /\ q.kind = "reorganize" /\ q.step = "fetch"
      /\ UNCHANGED <<now, tables, started, history>> /\ UNCHANGED tables
  BY <1>1, KindsAt DEF fetch, At, Typed, tables
<1>3. PICK T : T = {v \in Vacations : v[2] >= dayOf(q.since)}
  OBVIOUS
<1>4. PICK N : N = [q EXCEPT !.step = "import", !.todo = T]
  OBVIOUS
<1>5. T \in SUBSET Vacations
  BY <1>3
<1>6. /\ N \in Request /\ N.step = "import" /\ SameTask(q, N) /\ N.since = q.since
      /\ N.fresh = q.fresh /\ N.todo = T
  BY <1>4, <1>5 DEF Request, Steps, SameTask
<1>7. req' = [req EXCEPT ![r] = N]
  BY <1>1, <1>2, <1>3, <1>4 DEF fetch, TypeOK, Request
<1>8. effect(r, {}) /\ req'[r] = N
  BY <1>2, <1>6, <1>7, Becomes, TablesStay DEF effect, becomes
<1> QED
  BY <1>1, <1>2, <1>3, <1>6, <1>8

LEMMA SaveHolidayMoves ==
  ASSUME Typed, NEW r \in Requests, saveHoliday(r)
  PROVE  /\ effect(r, {Holidays}) /\ UNCHANGED <<now, rows, series, started, history>>
         /\ req[r].kind = "reorganize" /\ req[r].step = "import" /\ req'[r].step = "import"
         /\ SameTask(req[r], req'[r]) /\ req'[r].since = req[r].since
         /\ req'[r].fresh = req[r].fresh
         /\ holidays' \in [Vacations -> Nat]
         /\ \E v \in req[r].todo :
              /\ holidays'[v] = holidays[v] + 1 /\ req'[r].todo = req[r].todo \ {v}
              /\ \A w \in Vacations \ {v} : holidays'[w] = holidays[w]
<1>1. PICK q \in Request : q = req[r]
  BY RequestTypes
<1>2. /\ TypeOK /\ q.kind = "reorganize" /\ q.step = "import"
      /\ UNCHANGED <<now, rows, series, started, history>>
  BY <1>1, KindsAt DEF saveHoliday, At, Typed
<1>3. PICK v \in q.todo : /\ holidays' = [holidays EXCEPT ![v] = @ + 1]
                          /\ req' = written(r, {Holidays}, [req EXCEPT ![r].todo = @ \ {v}])
  BY <1>1 DEF saveHoliday
<1>4. v \in Vacations /\ q.todo \in SUBSET Vacations
  BY DEF Request
<1>5. /\ holidays' \in [Vacations -> Nat] /\ holidays'[v] = holidays[v] + 1
      /\ \A w \in Vacations \ {v} : holidays'[w] = holidays[w]
  BY <1>2, <1>3, <1>4 DEF TypeOK
<1>6. PICK T : T = q.todo \ {v}
  OBVIOUS
<1>7. PICK N : N = [q EXCEPT !.todo = T]
  OBVIOUS
<1>8. T \in SUBSET Vacations
  BY <1>4, <1>6
<1>9. /\ N \in Request /\ N.step = q.step /\ SameTask(q, N) /\ N.since = q.since
      /\ N.fresh = q.fresh /\ N.todo = T
  BY <1>7, <1>8 DEF Request, SameTask
<1>10. PICK R : R = [req EXCEPT ![r] = N]
  OBVIOUS
<1>11. R = [req EXCEPT ![r].todo = @ \ {v}]
  <2>1. R = [req EXCEPT ![r].todo = T]
    BY <1>1, <1>2, <1>7, <1>10 DEF TypeOK, Request
  <2> QED
    BY <1>1, <1>2, <1>6, <2>1 DEF TypeOK, Request
<1>12. becomes(r, N) /\ Others(r, {Holidays})
  BY <1>2, <1>3, <1>9, <1>10, <1>11, Writes
<1>13. Confined({Holidays})
  BY <1>2 DEF Confined
<1> QED
  BY <1>1, <1>2, <1>4, <1>5, <1>6, <1>9, <1>12, <1>13 DEF effect, becomes

LEMMA LoadSeriesMoves ==
  ASSUME Typed, NEW r \in Requests, loadSeries(r)
  PROVE  /\ effect(r, {}) /\ UNCHANGED <<now, tables, started, history>>
         /\ req[r].kind = "reorganize" /\ req[r].step = "import" /\ req[r].todo = {}
         /\ req'[r].step = "begin" /\ SameTask(req[r], req'[r])
         /\ req'[r].left = LiveSeries
         /\ \A s \in LiveSeries : req'[r].entities[s] = series[s]
         /\ Holidays \in req'[r].fresh => Holidays \in req[r].fresh
<1>1. PICK q \in Request : q = req[r]
  BY RequestTypes
<1>2. /\ TypeOK /\ q.kind = "reorganize" /\ q.step = "import" /\ q.todo = {}
      /\ UNCHANGED <<now, tables, started, history>> /\ UNCHANGED tables
  BY <1>1, KindsAt DEF loadSeries, At, Typed, tables
<1>3. PICK E : E = [s \in SeriesIds |-> IF s \in LiveSeries THEN series[s] ELSE NoEntity]
  OBVIOUS
<1>4. PICK F : F = q.fresh \cup {Series(s) : s \in LiveSeries}
  OBVIOUS
<1>5. PICK since : since = midnight(now)
  OBVIOUS
<1>6. /\ E \in [SeriesIds -> Entity] /\ since \in Times /\ LiveSeries \in SUBSET SeriesIds
      /\ \A s \in LiveSeries : E[s] = series[s]
  BY <1>2, <1>3, <1>5, Defaults, TimeBounds DEF TypeOK, LiveSeries
<1>7. F \in SUBSET Objects /\ (Holidays \in F => Holidays \in q.fresh)
  <2>1. \A s \in LiveSeries : Series(s) \in Objects /\ Series(s) # Holidays
    BY <1>6, ObjectTypes, ObjectsDiffer
  <2>2. q.fresh \in SUBSET Objects
    BY DEF Request
  <2> QED
    BY <1>4, <2>1, <2>2
<1>8. PICK N : N = [q EXCEPT !.step = "begin", !.since = since, !.left = LiveSeries,
                             !.entities = E, !.fresh = F]
  OBVIOUS
<1>9. /\ N \in Request /\ N.step = "begin" /\ SameTask(q, N) /\ N.left = LiveSeries
      /\ N.entities = E /\ N.fresh = F
  BY <1>6, <1>7, <1>8 DEF Request, Steps, SameTask
<1>10. req' = [req EXCEPT ![r] = N]
  <2>1. PICK G : G = {Series(s) : s \in LiveSeries}
    OBVIOUS
  <2>2. req' = [req EXCEPT ![r].step = "begin", ![r].since = since, ![r].left = LiveSeries,
                           ![r].entities = E, ![r].fresh = @ \cup G]
    BY <1>3, <1>5, <2>1 DEF loadSeries
  <2>3. F = q.fresh \cup G
    BY <1>4, <2>1
  <2> QED
    BY <1>1, <1>2, <1>8, <2>2, <2>3 DEF TypeOK, Request
<1>11. effect(r, {}) /\ req'[r] = N
  BY <1>2, <1>9, <1>10, Becomes, TablesStay DEF effect, becomes
<1> QED
  BY <1>1, <1>2, <1>6, <1>7, <1>9, <1>11

LEMMA SmallestLeft ==
  ASSUME Typed, NEW r \in Requests, req[r].left # {}
  PROVE  nextSeries(r) \in req[r].left /\ nextSeries(r) \in SeriesIds
<1>1. req[r].left \in SUBSET SeriesIds /\ IsFiniteSet(SeriesIds) /\ SeriesIds \subseteq Nat
  <2>1. 1 \in Int /\ MaxSeries \in Int
    BY DayBounds
  <2>2. IsFiniteSet(SeriesIds)
    BY <2>1, FS_Interval DEF SeriesIds
  <2>3. SeriesIds \subseteq Nat
    BY <2>1 DEF SeriesIds
  <2> QED
    BY <2>2, <2>3, RequestTypes DEF Request
<1> QED
  BY <1>1, FS_Subset, SmallestIsLeast DEF nextSeries

\* The series that comes next is left alone.
LEMMA SkipMoves ==
  ASSUME Typed, NEW r \in Requests, NEW s \in SeriesIds, req' = [req EXCEPT ![r].left = @ \ {s}]
  PROVE  /\ req' \in [Requests -> Request] /\ Others(r, {})
         /\ req'[r].step = req[r].step /\ SameTask(req[r], req'[r])
         /\ req'[r].left = req[r].left \ {s} /\ req'[r].entities = req[r].entities
         /\ req'[r].fresh = req[r].fresh
<1>1. PICK q \in Request : q = req[r]
  BY RequestTypes
<1>2. PICK L : L = q.left \ {s}
  OBVIOUS
<1>3. L \in SUBSET SeriesIds
  BY <1>2 DEF Request
<1>4. PICK N : N = [q EXCEPT !.left = L]
  OBVIOUS
<1>5. /\ N \in Request /\ N.step = q.step /\ SameTask(q, N) /\ N.left = L
      /\ N.entities = q.entities /\ N.fresh = q.fresh
  BY <1>3, <1>4 DEF Request, SameTask
<1>6. req' = [req EXCEPT ![r].left = L]
  BY <1>1, <1>2 DEF Typed, TypeOK, Request
<1>7. req' = [req EXCEPT ![r] = N]
  BY <1>1, <1>4, <1>6 DEF Typed, TypeOK, Request
<1> QED
  BY <1>1, <1>2, <1>5, <1>7, Becomes DEF becomes, Typed

\* Days are visited until the last one of the series, whichever later time is given.
LEMMA VisitedUntil ==
  ASSUME NEW e \in Entity, NEW from \in Nat, NEW t \in Nat
  PROVE  visited(e, from, Earlier(e.last, t)) = visited(e, from, t)
<1>1. e.last \in Nat
  BY TimeBounds DEF Entity
<1>2. ASSUME NEW d \in Days
      PROVE  (d * DayLength) + (from % DayLength) \in Nat
  <2>1. d \in Nat /\ DayLength \in Nat /\ from % DayLength \in 0..(DayLength - 1)
    BY DayOfTime, DayBounds DEF Days
  <2> QED
    BY <2>1
<1>3. \A c \in Nat : (c <= Earlier(e.last, t) /\ c <= e.last) <=> (c <= t /\ c <= e.last)
  BY <1>1 DEF Earlier
<1> QED
  BY <1>2, <1>3 DEF visited

LEMMA ReorganizeMoves ==
  ASSUME Typed, NEW r \in Requests, reorganizeSeries(r)
  PROVE  /\ effect(r, {}) /\ UNCHANGED <<now, tables, started, history>>
         /\ req[r].kind = "reorganize" /\ req[r].step = "begin" /\ req[r].left # {}
         /\ SameTask(req[r], req'[r]) /\ req'[r].entities = req[r].entities
         /\ \/ /\ req'[r].step = "begin" /\ req'[r].left \subseteq req[r].left
               /\ req'[r].fresh = req[r].fresh
            \/ /\ req'[r].step = "commit" /\ req'[r].left = req[r].left
               /\ req'[r].fresh = req[r].fresh \cup {Place(req'[r].entity.place)}
               /\ req'[r].entity \in Entity
               /\ req'[r].entity.owner = req[r].entities[nextSeries(r)].owner
               /\ req'[r].entity.last = req[r].entities[nextSeries(r)].last
               /\ req'[r].entity.state = req[r].entities[nextSeries(r)].state
               /\ req'[r].entity.until = Earlier(req[r].entities[nextSeries(r)].last,
                                                 twoYearsAhead(req[r].since))
               /\ req[r].entities[nextSeries(r)].until < twoYearsAhead(req[r].since)
               /\ req'[r].days = visited(req'[r].entity,
                                         req[r].entities[nextSeries(r)].until + DayLength,
                                         twoYearsAhead(req[r].since))
               /\ req'[r].occurrences =
                    generated(req'[r].entity, nextSeries(r), req'[r].days, Live)
<1>1. /\ TypeOK /\ req[r].kind = "reorganize" /\ req[r].step = "begin" /\ req[r].left # {}
      /\ UNCHANGED <<now, tables, started, history>> /\ UNCHANGED tables
  BY DEF reorganizeSeries, At, Is, Typed, tables
<1>2. PICK s : s = nextSeries(r)
  OBVIOUS
<1>3. s \in SeriesIds
  BY <1>1, <1>2, SmallestLeft
<1>4. PICK e \in Entity : e = req[r].entities[s]
  BY <1>3, RequestTypes DEF Request
<1>5. PICK since \in Times : since = req[r].since
  BY RequestTypes DEF Request
<1>6. PICK target : target = twoYearsAhead(since)
  OBVIOUS
<1>7. PICK until : until = Earlier(e.last, target)
  OBVIOUS
<1>8. until \in Times
  <2>1. e.last \in Times /\ since \in Nat
    BY TimeBounds DEF Entity
  <2>2. target \in Nat
    BY <1>6, <2>1, DayBounds DEF twoYearsAhead
  <2> QED
    BY <1>7, <2>1, <2>2, EarlierTypes
<1>9. PICK n : n = [e EXCEPT !.until = until]
  OBVIOUS
<1>10. /\ n \in Entity /\ n.owner = e.owner /\ n.last = e.last /\ n.state = e.state
       /\ n.until = until /\ n.place = e.place /\ n.days = e.days
       /\ n.inHolidays = e.inHolidays /\ n.from = e.from /\ n.to = e.to
  BY <1>8, <1>9 DEF Entity
<1>11. CASE isDue(r, e)
  <2>1. PICK D : D = visited(n, e.until + DayLength, target)
    OBVIOUS
  <2>2. D = visited(e, e.until + DayLength, target)
    BY <1>10, <2>1 DEF visited
  <2>3. PICK G : G = generated(n, s, D, Live)
    OBVIOUS
  <2>9. PICK U : U = unlessHoliday(n, G)
    OBVIOUS
  <2>4. D \in SUBSET Days /\ G \in SUBSET Days /\ U \in SUBSET Days
    BY <2>1, <2>3, <2>9, VisitedTypes
  <2>5. opens(r, n, D, G, U)
    <3>1. beginGeneration(r, n, s, D, Live)
      BY <1>2, <1>4, <1>5, <1>6, <1>7, <1>9, <1>11, <2>2 DEF reorganizeSeries
    <3> QED
      BY <1>10, <2>3, <2>4, <2>9, <3>1 DEF beginGeneration, opens
  <2>6. /\ req' \in [Requests -> Request] /\ Others(r, {})
        /\ req'[r].step = "commit" /\ SameTask(req[r], req'[r])
        /\ req'[r].entities = req[r].entities /\ req'[r].entity = n /\ req'[r].days = D
        /\ req'[r].occurrences = G /\ req'[r].left = req[r].left
        /\ req'[r].fresh = req[r].fresh \cup {Place(n.place)}
    BY <2>5, GenerationBegins
  <2>7. e.until < target
    BY <1>5, <1>6, <1>11 DEF isDue
  <2>8. effect(r, {})
    BY <1>1, <2>6, TablesStay DEF effect
  <2> QED
    BY <1>1, <1>2, <1>4, <1>5, <1>6, <1>7, <1>10, <2>1, <2>3, <2>6, <2>7, <2>8
<1>12. CASE ~isDue(r, e)
  <2>1. req' = [req EXCEPT ![r].left = @ \ {s}]
    BY <1>2, <1>4, <1>12 DEF reorganizeSeries
  <2>2. /\ req' \in [Requests -> Request] /\ Others(r, {})
        /\ req'[r].step = req[r].step /\ SameTask(req[r], req'[r])
        /\ req'[r].left = req[r].left \ {s} /\ req'[r].entities = req[r].entities
        /\ req'[r].fresh = req[r].fresh
    BY <1>3, <2>1, SkipMoves
  <2>3. effect(r, {})
    BY <1>1, <2>2, TablesStay DEF effect
  <2> QED
    BY <1>1, <2>2, <2>3
<1> QED
  BY <1>11, <1>12

\* The request is back at the loop, with the series s done.
loops(r, s, q) ==
  q = [req EXCEPT ![r].step = "begin", ![r].entity = NoEntity, ![r].days = {},
                  ![r].occurrences = {}, ![r].left = @ \ {s}]
LEMMA Loops ==
  ASSUME Typed, NEW r \in Requests, NEW s, NEW R, loops(r, s, R)
  PROVE  \E N \in Request :
           /\ R = [req EXCEPT ![r] = N] /\ N.step = "begin" /\ SameTask(req[r], N)
           /\ N.left = req[r].left \ {s} /\ N.entities = req[r].entities
           /\ N.fresh = req[r].fresh
<1>1. PICK q \in Request : q = req[r]
  BY RequestTypes
<1>2. PICK L : L = q.left \ {s}
  OBVIOUS
<1>3. L \in SUBSET SeriesIds
  BY <1>2 DEF Request
<1>4. PICK N : N = [q EXCEPT !.step = "begin", !.entity = NoEntity, !.days = {},
                             !.occurrences = {}, !.left = L]
  OBVIOUS
<1>5. /\ N \in Request /\ N.step = "begin" /\ SameTask(q, N) /\ N.left = L
      /\ N.entities = q.entities /\ N.fresh = q.fresh
  BY <1>3, <1>4, Defaults DEF Request, Steps, SameTask
<1>6. R = [req EXCEPT ![r].step = "begin", ![r].entity = NoEntity, ![r].days = {},
                      ![r].occurrences = {}, ![r].left = L]
  BY <1>1, <1>2 DEF loops, Typed, TypeOK, Request
<1>7. R = [req EXCEPT ![r] = N]
  BY <1>1, <1>4, <1>6 DEF Typed, TypeOK, Request
<1> QED
  BY <1>1, <1>2, <1>5, <1>7

LEMMA CommitReorganizationMoves ==
  ASSUME Typed, NEW r \in Requests, commitReorganization(r)
  PROVE  /\ \E O : effect(r, O)
         /\ req[r].kind = "reorganize" /\ req[r].step = "commit" /\ req[r].left # {}
         /\ UNCHANGED <<now, holidays, started, shortened>>
         /\ \/ req'[r] = Idle /\ UNCHANGED <<rows, series, history>>
            \/ /\ req'[r].step = "begin" /\ SameTask(req[r], req'[r])
               /\ req'[r].left = req[r].left \ {nextSeries(r)}
               /\ req'[r].entities = req[r].entities
               /\ req'[r].fresh = req[r].fresh
               /\ nextSeries(r) \in req[r].left /\ nextSeries(r) \in SeriesIds
               /\ series[nextSeries(r)].state # "free"
               /\ series' \in [SeriesIds -> Entity] /\ series'[nextSeries(r)] = req[r].entity
               /\ req[r].entity.state = "live"
               /\ \A x \in SeriesIds \ {nextSeries(r)} : series'[x] = series[x]
               /\ grown(req[r].entity, nextSeries(r), req[r].occurrences, rows)
               /\ considered' = counted(nextSeries(r), req[r].days)
               /\ judged(r, req[r].entity, req[r].occurrences)
               /\ stale' \in {stale, stale \cup {nextSeries(r)}}
               /\ Series(nextSeries(r)) \notin req[r].fresh => nextSeries(r) \in stale'
<1>1. PICK s : s = nextSeries(r)
  OBVIOUS
<1>2. PICK e \in Entity, D \in SUBSET Days : e = req[r].entity /\ D = req[r].occurrences
  BY RequestTypes DEF Request
<1>3. /\ TypeOK /\ req[r].kind = "reorganize" /\ req[r].step = "commit"
      /\ rows \in [Rows -> Row] /\ enoughRows(D) /\ UNCHANGED <<now, holidays, started>>
  BY <1>2 DEF commitReorganization, Is, At, Typed, TypeOK
<1>4. /\ req[r].left # {} /\ e.state = "live"
      /\ \A x \in req[r].left : series[x].state # "free"
  BY <1>2, <1>3, RequestTypes DEF Known, Extends
<1>5. s \in req[r].left /\ s \in SeriesIds /\ series[s].state # "free"
  BY <1>1, <1>4, SmallestLeft
<1>6. CASE D # {} /\ s \notin LiveSeries
  <2>1. req' = Finish(r) /\ UNCHANGED <<rows, series, history>>
    BY <1>1, <1>2, <1>6 DEF commitReorganization
  <2>2. becomes(r, Idle) /\ Others(r, {}) /\ UNCHANGED tables /\ UNCHANGED shortened
    BY <1>3, <2>1, Ends DEF tables, history
  <2> QED
    BY <1>3, <1>4, <2>1, <2>2, TablesStay DEF effect, becomes
<1>7. CASE ~(D # {} /\ s \notin LiveSeries)
  <2>1. PICK O : O = {Series(s)} \cup {Place(e.place) : i \in newRows(D)}
    OBVIOUS
  <2>2. PICK R : loops(r, s, R)
    BY DEF loops
  <2>3. /\ series' = [series EXCEPT ![s] = e] /\ rows' = withOccurrences(rows, e, s, D)
        /\ considered' = counted(s, req[r].days) /\ shortened' = shortened
        /\ req' = written(r, O, R)
    BY <1>1, <1>2, <1>7, <2>1, <2>2 DEF commitReorganization, loops
  <2>4. /\ judged(r, e, D)
        /\ stale' = IF Series(s) \in req[r].fresh THEN stale ELSE stale \cup {s}
    BY <1>1, <1>2, <1>7 DEF commitReorganization, Fresh, judged
  <2>5. grown(e, s, D, rows)
    BY <1>3, <1>5, <2>3, Grows
  <2>6. /\ series' \in [SeriesIds -> Entity] /\ series'[s] = e
        /\ \A x \in SeriesIds \ {s} : series'[x] = series[x]
    BY <1>3, <1>5, <2>3, SeriesWritten
  <2>7. PICK N \in Request :
          /\ R = [req EXCEPT ![r] = N] /\ N.step = "begin" /\ SameTask(req[r], N)
          /\ N.left = req[r].left \ {s} /\ N.entities = req[r].entities
          /\ N.fresh = req[r].fresh
    BY <2>2, Loops
  <2>8. becomes(r, N) /\ Others(r, O)
    BY <1>3, <2>3, <2>7, Writes
  <2>9. Confined(O)
    <3>1. \A i \in newRows(D) : rows[i].state = "free" /\ rows'[i].place = e.place
                                /\ rows'[i].state = "live" /\ Place(rows'[i].place) \in O
      BY <2>1, <2>5, NewRowFields
    <3>2. \A i \in Rows \ newRows(D) : rows'[i] = rows[i]
      BY <2>5 DEF grown
    <3>3. Series(s) \in O
      BY <2>1
    <3> QED
      BY <1>3, <1>4, <1>5, <2>6, <3>1, <3>2, <3>3 DEF Confined
  <2>10. effect(r, O) /\ req'[r] = N
    BY <2>8, <2>9 DEF effect, becomes
  <2> QED
    BY <1>1, <1>2, <1>3, <1>4, <1>5, <2>3, <2>4, <2>5, <2>6, <2>7, <2>10
<1> QED
  BY <1>6, <1>7

LEMMA EndMoves ==
  ASSUME Typed, NEW r \in Requests, endReorganization(r) \/ abort(r)
  PROVE  effect(r, {}) /\ req'[r] = Idle /\ UNCHANGED <<now, tables, started, history>>
<1>1. /\ TypeOK /\ req' = Finish(r) /\ UNCHANGED <<now, tables, started, history>>
      /\ UNCHANGED tables
  BY DEF endReorganization, abort, Typed, tables
<1> QED
  BY <1>1, Ends, TablesStay DEF effect, becomes

-----------------------------------------------------------------------------
(* The steps of the system.                                                *)

starts(r) ==
  \/ CalendarEventsController(r) \/ ResourceEventsController(r)
  \/ SeriesEventsController(r) \/ transfer(r)

\* What a request may be when it begins.
newCreate(q) ==
  q.kind = "create" /\ q.step = "insert" /\ q.row.series = None /\ Free(q.row, {})
newUpdate(q) ==
  /\ q.kind = "update" /\ q.step = "check" /\ q.event \in Rows /\ rows[q.event].state = "live"
  /\ q.row.state = "live" /\ q.row.series = rows[q.event].series
  /\ q.row.owner = rows[q.event].owner
newDelete(q) ==
  /\ q.kind = "delete" /\ q.event \in Rows /\ rows[q.event].state = "live"
  /\ \/ q.step = "remove"
     \/ q.step = "save" /\ q.row = rows[q.event]
newTransfer(q) ==
  /\ q.kind = "transfer" /\ q.step = "save" /\ q.event \in Rows /\ rows[q.event].state = "live"
  /\ q.row.state = "live" /\ q.row.series = None /\ rows[q.event].series = None
  /\ q.row.place = rows[q.event].place /\ q.row.background = rows[q.event].background
  /\ q.row.start = rows[q.event].start /\ q.row.end = rows[q.event].end
newSeries(q) ==
  /\ q.kind = "createSeries" /\ q.step = "commit" /\ q.entity \in Entity
  /\ q.entity.state = "live"
  /\ q.entity.until = Earlier(q.entity.last, twoYearsAhead(now))
  /\ q.days = visited(q.entity, q.entity.first, twoYearsAhead(now))
  /\ q.occurrences = generated(q.entity, Unsaved, q.days, Live)
copied(q) ==
  /\ q.series \in SeriesIds /\ q.entities[q.series] = series[q.series]
  /\ series[q.series].state = "live"
newDeleteSeries(q) == q.kind = "deleteSeries" /\ q.step = "purge" /\ copied(q)
newSaveSeries(q) ==
  /\ q.kind \in {"updateSeries", "transferSeries"} /\ q.step = "saveSeries" /\ copied(q)
  /\ q.entity.until = series[q.series].until /\ q.entity.state = "live"
  /\ q.kind = "updateSeries" => q.entity.owner = series[q.series].owner
newSplit(q) ==
  /\ q.kind = "split" /\ q.step = "dryRun" /\ copied(q)
  /\ DayLength <= q.since /\ q.entity.first = q.since
  /\ visited(q.entity, q.since, twoYearsAhead(q.since)) \cap q.entity.days \subseteq q.unread
  /\ q.entity.until = Earlier(q.entity.last, twoYearsAhead(q.since))
  /\ q.entity.state = "live"
new(q) ==
  \/ newCreate(q) \/ newUpdate(q) \/ newDelete(q) \/ newTransfer(q) \/ newSeries(q)
  \/ newDeleteSeries(q) \/ newSaveSeries(q) \/ newSplit(q)

LEMMA Starts ==
  ASSUME Typed, NEW r \in Requests, starts(r)
  PROVE  begun(r) /\ req'[r].left = {} /\ new(req'[r])
<1>0. TypeOK
  BY DEF Typed
<1>1. ASSUME NEW p, NEW o \in Owners, NEW f \in Forms,
             create(r, p, o, f) \/ createResourceEvent(r, p, o, f)
      PROVE  begun(r) /\ req'[r].left = {} /\ new(req'[r])
  <2>1. newCreate(req'[r]) /\ begun(r) /\ req'[r].left = {}
    BY <1>0, <1>1, CreateBegins DEF newCreate
  <2> QED
    BY <2>1 DEF new
<1>2. ASSUME NEW i \in Rows, NEW p, NEW f \in Forms,
             update(r, i, p, f) \/ updateResourceEvent(r, i, p, f)
      PROVE  begun(r) /\ req'[r].left = {} /\ new(req'[r])
  <2>1. newUpdate(req'[r]) /\ begun(r) /\ req'[r].left = {}
    BY <1>0, <1>2, UpdateBegins DEF newUpdate
  <2> QED
    BY <2>1 DEF new
<1>3. ASSUME NEW i \in Rows, delete(r, i) \/ deleteResourceEvent(r, i)
      PROVE  begun(r) /\ req'[r].left = {} /\ new(req'[r])
  <2>1. newDelete(req'[r]) /\ begun(r) /\ req'[r].left = {}
    BY <1>0, <1>3, BeginDelete DEF newDelete
  <2> QED
    BY <2>1 DEF new
<1>4. ASSUME NEW o \in Owners, NEW f \in SeriesForms, createSeries(r, o, f)
      PROVE  begun(r) /\ req'[r].left = {} /\ new(req'[r])
  <2>1. newSeries(req'[r]) /\ begun(r) /\ req'[r].left = {}
    BY <1>0, <1>4, CreateSeriesBegins DEF newSeries
  <2> QED
    BY <2>1 DEF new
<1>5. ASSUME NEW s \in SeriesIds, deleteSeries(r, s)
      PROVE  begun(r) /\ req'[r].left = {} /\ new(req'[r])
  <2>1. newDeleteSeries(req'[r]) /\ begun(r) /\ req'[r].left = {}
    BY <1>0, <1>5, DeleteSeriesBegins DEF newDeleteSeries, copied
  <2> QED
    BY <2>1 DEF new
<1>6. ASSUME NEW s \in SeriesIds, NEW f \in SeriesForms, updateSeries(r, s, f)
      PROVE  begun(r) /\ req'[r].left = {} /\ new(req'[r])
  <2>1. newSaveSeries(req'[r]) /\ begun(r) /\ req'[r].left = {}
    BY <1>0, <1>6, UpdateSeriesBegins DEF newSaveSeries, copied
  <2> QED
    BY <2>1 DEF new
<1>7. ASSUME NEW s \in SeriesIds, NEW f \in SeriesForms \cup {series[s]}, NEW since \in Times,
             DayLength <= since, updateFromDate(r, s, f, since)
      PROVE  begun(r) /\ req'[r].left = {} /\ new(req'[r])
  <2>1. newSplit(req'[r]) /\ begun(r) /\ req'[r].left = {}
    BY <1>0, <1>7, SplitBegins DEF newSplit, copied
  <2> QED
    BY <2>1 DEF new
<1>8. ASSUME NEW i \in Rows, NEW o \in Owners, transferCalendarEvent(r, i, o)
      PROVE  begun(r) /\ req'[r].left = {} /\ new(req'[r])
  <2>1. newTransfer(req'[r]) /\ begun(r) /\ req'[r].left = {}
    BY <1>0, <1>8, BeginTransfer DEF newTransfer
  <2> QED
    BY <2>1 DEF new
<1>9. ASSUME NEW s \in SeriesIds, NEW o \in Owners, transferSeries(r, s, o)
      PROVE  begun(r) /\ req'[r].left = {} /\ new(req'[r])
  <2>1. newSaveSeries(req'[r]) /\ begun(r) /\ req'[r].left = {}
    BY <1>0, <1>9, TransferSeriesBegins DEF newSaveSeries, copied
  <2> QED
    BY <2>1 DEF new
<1>10. CASE CalendarEventsController(r)
  BY <1>1, <1>2, <1>3, <1>10 DEF CalendarEventsController
<1>11. CASE ResourceEventsController(r)
  BY <1>1, <1>2, <1>3, <1>11 DEF ResourceEventsController
<1>12. CASE SeriesEventsController(r)
  BY <1>4, <1>5, <1>6, <1>7, <1>12 DEF SeriesEventsController
<1>13. CASE transfer(r)
  BY <1>8, <1>9, <1>13 DEF transfer
<1> QED
  BY <1>10, <1>11, <1>12, <1>13 DEF starts

LEMMA StartsAreConfined ==
  ASSUME NEW r, begun(r)
  PROVE  effect(r, {}) /\ UNCHANGED <<now, rows, series, holidays>> /\ UNCHANGED history
<1>1. UNCHANGED tables /\ UNCHANGED <<now, rows, series, holidays>> /\ UNCHANGED history
  BY DEF begun, tables
<1> QED
  BY <1>1, TablesStay DEF begun, effect

LEMMA ImportIsConfined ==
  ASSUME TypeOK, NEW r \in Requests, importOpenHolidays(r)
  PROVE  effect(r, {Holidays})
<1>1. /\ req' \in [Requests -> Request] /\ Others(r, {Holidays}) /\ UNCHANGED <<rows, series>>
  BY ImportBegins
<1> QED
  BY <1>1 DEF Confined, effect

\* Whatever a request does, it leaves the others to themselves and tells what it writes.
acts(r) ==
  \/ ~Is(r, "none") /\ Progress(r)
  \/ CanStart(r) /\ (starts(r) \/ importOpenHolidays(r))

LEMMA StepsAct ==
  ASSUME Next
  PROVE  tick \/ \E r \in Requests : acts(r)
BY DEF Next, acts, starts, ReorganizationService

LEMMA StepsAreConfined ==
  ASSUME Typed, NEW r \in Requests, acts(r)
  PROVE  \E O : effect(r, O)
<1>0. TypeOK
  BY DEF Typed
<1>1. CASE starts(r)
  BY <1>1, Starts, StartsAreConfined
<1>2. CASE importOpenHolidays(r)
  BY <1>0, <1>2, ImportIsConfined
<1>3. CASE Progress(r)
  <2>1. CASE insert(r) \/ remove(r) \/ save(r)
    BY <2>1, InsertMoves, RemoveMoves, SaveMoves
  <2>2. CASE check(r) \/ dryRun(r) \/ splitSeries(r) \/ askHoliday(r)
    <3>1. /\ req' \in [Requests -> Request] /\ Others(r, {})
          /\ UNCHANGED <<now, tables, started, history>>
      BY <2>2, CheckMoves, DryRunMoves, SplitMoves, AskHolidayMoves
    <3>2. UNCHANGED tables
      BY <3>1
    <3> QED
      BY <3>1, <3>2, TablesStay DEF effect
  <2>3. CASE commitSplit(r) \/ commitSeries(r) \/ saveSeries(r)
    BY <2>3, CommitSplitMoves, CommitSeriesMoves, SaveSeriesMoves
  <2>4. CASE purge(r) \/ drop(r)
    BY <2>4, PurgeMoves, DropMoves
  <2>5. CASE fetch(r) \/ saveHoliday(r) \/ loadSeries(r)
    BY <2>5, FetchMoves, SaveHolidayMoves, LoadSeriesMoves
  <2>6. CASE reorganizeSeries(r) \/ commitReorganization(r)
    BY <2>6, ReorganizeMoves, CommitReorganizationMoves
  <2>7. CASE endReorganization(r) \/ abort(r)
    BY <2>7, EndMoves
  <2> QED
    BY <1>3, <2>1, <2>2, <2>3, <2>4, <2>5, <2>6, <2>7 DEF Progress
<1> QED
  BY <1>1, <1>2, <1>3 DEF acts

-----------------------------------------------------------------------------
(* Type correctness.                                                       *)

\* Nothing that is in a table gets out of it.
LEMMA OthersStayKnown ==
  ASSUME Typed, NEW r \in Requests, NEW O, effect(r, O), NEW x \in Requests, x # r
  PROVE  Known(req[x])'
<1>1. SameCall(req[x], req'[x]) /\ Known(req[x]) /\ req[x] \in Request
  BY RequestTypes DEF effect, Others
<1>2. /\ \A i \in Rows : rows[i].state # "free" => rows'[i].state # "free"
      /\ \A s \in SeriesIds : series[s].state # "free" => series'[s].state # "free"
  BY DEF effect, Confined
<1>3. req[x].left \in SUBSET SeriesIds
  BY <1>1 DEF Request
<1> QED
  BY <1>1, <1>2, <1>3 DEF Known, SameCall, Extends

LEMMA IdleIsKnown ==
  ASSUME NEW r, req'[r] = Idle
  PROVE  Known(req[r])'
<1>1. req'[r].kind = "none" /\ req'[r].step = "idle"
  BY IdleFields
<1> QED
  BY <1>1 DEF Known, StepsOf, RowKinds, SeriesKinds, Writers, Extends

LEMMA NewIsKnown ==
  ASSUME NEW r, new(req'[r]), UNCHANGED <<now, rows, series, holidays>>
  PROVE  Known(req[r])'
<1>1. PICK q : q = req'[r]
  OBVIOUS
<1>2. UNCHANGED <<rows, series>>
  OBVIOUS
<1>3. CASE newCreate(q)
  BY <1>1, <1>2, <1>3 DEF newCreate, Known, StepsOf, RowKinds, SeriesKinds, Writers, Extends
<1>4. CASE newUpdate(q)
  BY <1>1, <1>2, <1>4 DEF newUpdate, Known, StepsOf, RowKinds, SeriesKinds, Writers, Extends
<1>5. CASE newDelete(q)
  BY <1>1, <1>2, <1>5 DEF newDelete, Known, StepsOf, RowKinds, SeriesKinds, Writers, Extends
<1>6. CASE newTransfer(q)
  BY <1>1, <1>2, <1>6 DEF newTransfer, Known, StepsOf, RowKinds, SeriesKinds, Writers, Extends
<1>7. CASE newSeries(q)
  BY <1>1, <1>2, <1>7 DEF newSeries, Known, StepsOf, RowKinds, SeriesKinds, Writers, Extends
<1>8. CASE newDeleteSeries(q)
  BY <1>1, <1>2, <1>8
     DEF newDeleteSeries, copied, Known, StepsOf, RowKinds, SeriesKinds, Writers, Extends
<1>9. CASE newSaveSeries(q)
  BY <1>1, <1>2, <1>9
     DEF newSaveSeries, copied, Known, StepsOf, RowKinds, SeriesKinds, Writers, Extends
<1>10. CASE newSplit(q)
  BY <1>1, <1>2, <1>10
     DEF newSplit, copied, Known, StepsOf, RowKinds, SeriesKinds, Writers, Extends
<1> QED
  BY <1>1, <1>3, <1>4, <1>5, <1>6, <1>7, <1>8, <1>9, <1>10 DEF new

\* A request that goes on still knows what it works on.
LEMMA OwnStaysKnown ==
  ASSUME Typed, NEW r \in Requests, acts(r)
  PROVE  Known(req[r])'
<1>0. Known(req[r]) /\ req[r] \in Request /\ TypeOK
  BY RequestTypes DEF Typed
<1>1. PICK O : effect(r, O)
  BY StepsAreConfined
<1>2. /\ \A i \in Rows : rows[i].state # "free" => rows'[i].state # "free"
      /\ \A s \in SeriesIds : series[s].state # "free" => series'[s].state # "free"
  BY <1>1 DEF effect, Confined
<1>3. CASE starts(r)
  BY <1>3, Starts, StartsAreConfined, NewIsKnown
<1>4. CASE importOpenHolidays(r)
  <2>1. req'[r].kind = "reorganize" /\ req'[r].step = "fetch"
    BY <1>0, <1>4, ImportBegins
  <2> QED
    BY <2>1 DEF Known, StepsOf, RowKinds, SeriesKinds, Writers, Extends
<1>5. CASE req'[r] = Idle
  BY <1>5, IdleIsKnown
<1>6. CASE req[r].kind = "update" /\ req'[r].step = "save" /\ SameTask(req[r], req'[r])
           /\ req[r].step = "check"
  BY <1>0, <1>2, <1>6 DEF SameTask, Known, StepsOf, RowKinds, SeriesKinds, Writers, Extends
<1>7. CASE req[r].kind = "delete" /\ req'[r].step = "remove" /\ SameTask(req[r], req'[r])
  BY <1>0, <1>2, <1>7 DEF SameTask, Known, StepsOf, RowKinds, SeriesKinds, Writers, Extends
<1>8. CASE /\ req[r].kind = "split" /\ req'[r].step \in {"dryRun", "begin", "commit"}
           /\ SameTask(req[r], req'[r]) /\ req'[r].entities = req[r].entities
           /\ req'[r].entity = req[r].entity /\ req'[r].since = req[r].since
  BY <1>0, <1>2, <1>8 DEF SameTask, Known, StepsOf, RowKinds, SeriesKinds, Writers, Extends
<1>9. CASE /\ req[r].kind = "deleteSeries" /\ req'[r].step = "drop"
           /\ SameTask(req[r], req'[r]) /\ req'[r].entities = req[r].entities
  BY <1>0, <1>2, <1>9 DEF SameTask, Known, StepsOf, RowKinds, SeriesKinds, Writers, Extends
<1>10. CASE req[r].kind = "reorganize" /\ req'[r].step = "import" /\ SameTask(req[r], req'[r])
  BY <1>10 DEF SameTask, Known, StepsOf, RowKinds, SeriesKinds, Writers, Extends
<1>11. CASE loadSeries(r)
  <2>1. /\ req'[r].kind = "reorganize" /\ req'[r].step = "begin" /\ req'[r].left = LiveSeries
        /\ \A s \in LiveSeries : req'[r].entities[s] = series[s]
        /\ UNCHANGED series
    BY <1>11, LoadSeriesMoves DEF SameTask, tables
  <2>2. \A s \in LiveSeries : series[s].state = "live"
    BY DEF LiveSeries
  <2> QED
    BY <2>1, <2>2 DEF Known, StepsOf, RowKinds, SeriesKinds, Writers, Extends
<1>12. CASE /\ Extends(req[r]) /\ req'[r].step = "begin" /\ SameTask(req[r], req'[r])
            /\ req'[r].left \subseteq req[r].left /\ req'[r].entities = req[r].entities
  <2>1. req[r].left \in SUBSET SeriesIds
    BY <1>0 DEF Request
  <2> QED
    BY <1>0, <1>2, <1>12, <2>1
       DEF SameTask, Known, StepsOf, RowKinds, SeriesKinds, Writers, Extends
<1>13. CASE /\ Extends(req[r]) /\ req[r].left # {} /\ req'[r].step = "commit"
            /\ SameTask(req[r], req'[r])
            /\ req'[r].left = req[r].left /\ req'[r].entities = req[r].entities
            /\ req'[r].entity.state = req[r].entities[nextSeries(r)].state
  <2>1. req[r].left \in SUBSET SeriesIds /\ nextSeries(r) \in req[r].left
    BY <1>0, <1>13, SmallestLeft DEF Request
  <2> QED
    BY <1>0, <1>2, <1>13, <2>1
       DEF SameTask, Known, StepsOf, RowKinds, SeriesKinds, Writers, Extends
<1>15. CASE askHoliday(r)
  <2>1. /\ SameTask(req[r], req'[r]) /\ req'[r].step = req[r].step /\ req'[r].since = req[r].since
        /\ req'[r].entities = req[r].entities /\ req'[r].entity = req[r].entity
        /\ req'[r].left = req[r].left /\ req[r].left \in SUBSET SeriesIds
    BY <1>0, <1>15, AskHolidayMoves DEF Request
  <2> QED
    BY <1>0, <1>2, <2>1 DEF SameTask, Known, RowKinds, SeriesKinds, Writers, Extends
<1>14. CASE Progress(r)
  <2>1. CASE insert(r) \/ remove(r) \/ commitSplit(r) \/ commitSeries(r) \/ saveSeries(r)
             \/ drop(r) \/ endReorganization(r) \/ abort(r)
    <3>1. req'[r] = Idle
      BY <2>1, InsertMoves, RemoveMoves, CommitSplitMoves, CommitSeriesMoves, SaveSeriesMoves,
         DropMoves, EndMoves
    <3> QED
      BY <1>5, <3>1
  <2>2. CASE save(r)
    BY <1>5, <1>7, <2>2, SaveMoves
  <2>3. CASE check(r)
    BY <1>5, <1>6, <2>3, CheckMoves DEF check, At
  <2>4. CASE dryRun(r)
    BY <1>5, <1>8, <2>4, DryRunMoves
  <2>5. CASE splitSeries(r)
    BY <1>8, <2>5, SplitMoves
  <2>6. CASE purge(r)
    BY <1>9, <2>6, PurgeMoves
  <2>7. CASE fetch(r) \/ saveHoliday(r)
    BY <1>10, <2>7, FetchMoves, SaveHolidayMoves
  <2>8. CASE loadSeries(r)
    BY <1>11, <2>8
  <2>9. CASE reorganizeSeries(r)
    BY <1>12, <1>13, <2>9, ReorganizeMoves DEF Extends
  <2>10. CASE commitReorganization(r)
    BY <1>5, <1>12, <2>10, CommitReorganizationMoves DEF Extends
  <2> QED
    BY <1>14, <1>15, <2>1, <2>2, <2>3, <2>4, <2>5, <2>6, <2>7, <2>8, <2>9, <2>10 DEF Progress
<1> QED
  BY <1>3, <1>4, <1>14 DEF acts

LEMMA JudgedTypes ==
  ASSUME TypeOK, NEW r, NEW e, NEW s, NEW D, NEW table, judged(r, e, D), grown(e, s, D, table)
  PROVE  unchecked' \in SUBSET Rows /\ unchecked \subseteq unchecked' /\ rows' \in [Rows -> Row]
<1>1. newRows(D) \subseteq Rows /\ rows' \in [Rows -> Row]
  BY DEF grown, FreeRows
<1> QED
  BY <1>1 DEF judged, TypeOK

\* The history only grows.
tablesTyped ==
  /\ rows' \in [Rows -> Row] /\ series' \in [SeriesIds -> Entity]
  /\ holidays' \in [Vacations -> Nat]
  /\ unchecked' \in SUBSET Rows /\ stale' \in SUBSET SeriesIds /\ shortened' \in SUBSET SeriesIds
  /\ considered' \in [SeriesIds -> [Days -> 0..2]]
  /\ unchecked \subseteq unchecked' /\ stale \subseteq stale' /\ shortened \subseteq shortened'

LEMMA TablesStayTyped ==
  ASSUME Typed, NEW r \in Requests, acts(r)
  PROVE  tablesTyped /\ now' = now /\ started' \in 0..MaxRequests
<1>1. /\ rows \in [Rows -> Row] /\ series \in [SeriesIds -> Entity]
      /\ holidays \in [Vacations -> Nat] /\ started \in 0..MaxRequests
      /\ unchecked \in SUBSET Rows /\ stale \in SUBSET SeriesIds /\ shortened \in SUBSET SeriesIds
      /\ considered \in [SeriesIds -> [Days -> 0..2]] /\ TypeOK
  BY DEF Typed, TypeOK
<1>2. req[r].days \in SUBSET Days
  BY RequestTypes DEF Request
<1>3. CASE starts(r)
  BY <1>1, <1>3, Starts DEF begun, tables, history, tablesTyped
<1>4. CASE importOpenHolidays(r)
  BY <1>1, <1>4, ImportBegins DEF history, tablesTyped
<1>5. CASE UNCHANGED <<now, tables, started, history>>
  BY <1>1, <1>5 DEF tables, history, tablesTyped
<1>6. CASE insert(r)
  <2>1. unchecked' \in SUBSET Rows /\ unchecked \subseteq unchecked'
    BY <1>1, <1>6, InsertMoves
  <2> QED
    BY <1>1, <1>6, <2>1, InsertMoves DEF tablesTyped
<1>7. CASE save(r)
  BY <1>1, <1>7, SaveMoves DEF tablesTyped
<1>8. CASE remove(r)
  BY <1>1, <1>8, RemoveMoves DEF tablesTyped, history
<1>9. CASE commitSplit(r)
  <2>1. PICK s \in SeriesIds :
          /\ grown(req[r].entity, s, req[r].occurrences, withoutFuture(r))
          /\ considered' = counted(s, req[r].days)
    BY <1>9, CommitSplitMoves
  <2>2. unchecked' \in SUBSET Rows /\ unchecked \subseteq unchecked' /\ rows' \in [Rows -> Row]
    BY <1>1, <1>9, <2>1, JudgedTypes, CommitSplitMoves
  <2>3. considered' \in [SeriesIds -> [Days -> 0..2]]
    BY <1>1, <1>2, <2>1, Counted
  <2>4. /\ series' \in [SeriesIds -> Entity] /\ UNCHANGED <<now, holidays, started>>
        /\ stale' \in SUBSET SeriesIds /\ stale \subseteq stale'
        /\ shortened' \in SUBSET SeriesIds /\ shortened \subseteq shortened'
    BY <1>1, <1>9, CommitSplitMoves
  <2> QED
    BY <1>1, <2>2, <2>3, <2>4 DEF tablesTyped
<1>10. CASE commitSeries(r)
  <2>1. PICK s \in SeriesIds : /\ grown(req[r].entity, s, req[r].occurrences, rows)
                               /\ considered' = counted(s, req[r].days)
    BY <1>10, CommitSeriesMoves
  <2>2. unchecked' \in SUBSET Rows /\ unchecked \subseteq unchecked' /\ rows' \in [Rows -> Row]
    BY <1>1, <1>10, <2>1, JudgedTypes, CommitSeriesMoves
  <2>3. considered' \in [SeriesIds -> [Days -> 0..2]]
    BY <1>1, <1>2, <2>1, Counted
  <2>4. /\ series' \in [SeriesIds -> Entity]
        /\ UNCHANGED <<now, holidays, started, stale, shortened>>
    BY <1>10, CommitSeriesMoves
  <2> QED
    BY <1>1, <2>2, <2>3, <2>4 DEF tablesTyped
<1>11. CASE saveSeries(r)
  <2>1. /\ stale' \in SUBSET SeriesIds /\ stale \subseteq stale'
        /\ shortened' \in SUBSET SeriesIds /\ shortened \subseteq shortened'
    BY <1>1, <1>11, SaveSeriesMoves
  <2> QED
    BY <1>1, <1>11, <2>1, SaveSeriesMoves DEF tablesTyped
<1>12. CASE purge(r)
  BY <1>1, <1>12, PurgeMoves DEF tablesTyped, history
<1>13. CASE drop(r)
  BY <1>1, <1>13, DropMoves DEF tablesTyped, history
<1>14. CASE saveHoliday(r)
  BY <1>1, <1>14, SaveHolidayMoves DEF tablesTyped, history
<1>15. CASE commitReorganization(r)
  <2>1. CASE UNCHANGED <<rows, series, history>>
    BY <1>1, <1>15, <2>1, CommitReorganizationMoves DEF tablesTyped, history
  <2>2. CASE ~UNCHANGED <<rows, series, history>>
    <3>1. PICK s : s = nextSeries(r)
      OBVIOUS
    <3>2. /\ s \in SeriesIds /\ series' \in [SeriesIds -> Entity]
          /\ grown(req[r].entity, s, req[r].occurrences, rows)
          /\ considered' = counted(s, req[r].days) /\ judged(r, req[r].entity, req[r].occurrences)
          /\ stale' \in {stale, stale \cup {s}}
          /\ UNCHANGED <<now, holidays, started, shortened>>
      BY <1>15, <2>2, <3>1, CommitReorganizationMoves
    <3>3. unchecked' \in SUBSET Rows /\ unchecked \subseteq unchecked' /\ rows' \in [Rows -> Row]
      BY <1>1, <3>2, JudgedTypes
    <3>4. considered' \in [SeriesIds -> [Days -> 0..2]]
      BY <1>1, <1>2, <3>2, Counted
    <3>5. stale' \in SUBSET SeriesIds /\ stale \subseteq stale'
      BY <1>1, <3>2
    <3> QED
      BY <1>1, <3>2, <3>3, <3>4, <3>5 DEF tablesTyped
  <2> QED
    BY <2>1, <2>2
<1>16. CASE Progress(r)
  <2>1. CASE check(r) \/ dryRun(r) \/ splitSeries(r) \/ fetch(r) \/ loadSeries(r)
             \/ reorganizeSeries(r) \/ endReorganization(r) \/ abort(r) \/ askHoliday(r)
    <3>1. UNCHANGED <<now, tables, started, history>>
      BY <2>1, CheckMoves, DryRunMoves, SplitMoves, FetchMoves, LoadSeriesMoves, ReorganizeMoves,
         EndMoves, AskHolidayMoves
    <3> QED
      BY <1>5, <3>1
  <2> QED
    BY <1>6, <1>7, <1>8, <1>9, <1>10, <1>11, <1>12, <1>13, <1>14, <1>15, <1>16, <2>1 DEF Progress
<1> QED
  BY <1>3, <1>4, <1>16 DEF acts

LEMMA TypedInitially ==
  ASSUME Init
  PROVE  Typed
<1>1. /\ now \in 0..MaxNow /\ started \in 0..MaxRequests /\ 0 \in Nat /\ 0 \in 0..2
      /\ DayLength - 1 <= MaxNow
  BY BoundsAssumption DEF Init
<1>2. \A r \in Requests : req[r] = Idle
  BY DEF Init
<1>3. \A r \in Requests : req[r] \in Request /\ Known(req[r])
  BY <1>2, IdleFields DEF Known, StepsOf, RowKinds, SeriesKinds, Writers, Extends
<1>4. req \in [Requests -> Request]
  BY <1>3 DEF Init
<1>5. rows \in [Rows -> Row] /\ series \in [SeriesIds -> Entity]
  BY Defaults DEF Init
<1>6. holidays \in [Vacations -> Nat] /\ considered \in [SeriesIds -> [Days -> 0..2]]
  BY <1>1 DEF Init
<1> QED
  BY <1>1, <1>3, <1>4, <1>5, <1>6 DEF Init, Typed, TypeOK

LEMMA TickMoves ==
  ASSUME Typed, tick
  PROVE  /\ now' = now + 1 /\ now' \in 0..MaxNow
         /\ UNCHANGED <<rows, series, holidays, req, started, unchecked, stale, shortened, considered>>
BY DayBounds DEF tick, tables, history, Typed, TypeOK

LEMMA StepsStayTyped ==
  ASSUME Typed, [Next]_vars
  PROVE  Typed'
<1>1. ASSUME NEW r \in Requests, acts(r) PROVE Typed'
  <2>1. tablesTyped /\ now' = now /\ started' \in 0..MaxRequests
    BY <1>1, TablesStayTyped
  <2>2. PICK O : effect(r, O)
    BY <1>1, StepsAreConfined
  <2>3. req' \in [Requests -> Request]
    BY <2>2 DEF effect
  <2>4. TypeOK'
    BY <2>1, <2>3 DEF tablesTyped, TypeOK, Typed
  <2>5. \A x \in Requests : Known(req[x])'
    BY <1>1, <2>2, OthersStayKnown, OwnStaysKnown
  <2> QED
    BY <2>4, <2>5 DEF Typed
<1>2. CASE tick
  BY <1>2, TickMoves DEF Typed, TypeOK, Known, Extends
<1>3. CASE UNCHANGED vars
  BY <1>3 DEF vars, tables, history, Typed, TypeOK, Known, Extends
<1> QED
  BY <1>1, <1>2, <1>3, StepsAct

\* No table, request or history of the calendar ever holds what it should not: rows
\* and series that are referred to exist, what is going to be saved is live.
THEOREM TypeCorrect == Spec => []TypeOK
<1>1. Init => Typed
  BY TypedInitially
<1>2. Typed /\ [Next]_vars => Typed'
  BY StepsStayTyped
<1>3. Typed => TypeOK
  BY DEF Typed
<1> QED
  BY <1>1, <1>2, <1>3, PTL DEF Spec

THEOREM AlwaysTyped == Spec => []Typed
BY TypedInitially, StepsStayTyped, PTL DEF Spec

-----------------------------------------------------------------------------
(* Copies of rows and series.                                              *)

LEMMA OthersFresh ==
  ASSUME Typed, NEW r \in Requests, NEW O, effect(r, O), NEW x \in Requests, x # r
  PROVE  /\ SameCall(req[x], req'[x])
         /\ \A o : o \in req'[x].fresh => o \in req[x].fresh /\ o \notin O
BY DEF effect, Others

\* A request ends, or it goes on with the same task.
LEMMA SameTaskOrIdle ==
  ASSUME Typed, NEW r \in Requests, Progress(r)
  PROVE  req'[r] = Idle \/ SameTask(req[r], req'[r])
<1>1. CASE insert(r) \/ remove(r) \/ commitSplit(r) \/ commitSeries(r) \/ saveSeries(r)
           \/ drop(r) \/ endReorganization(r) \/ abort(r)
  BY <1>1, InsertMoves, RemoveMoves, CommitSplitMoves, CommitSeriesMoves, SaveSeriesMoves,
     DropMoves, EndMoves
<1>2. CASE save(r) \/ check(r) \/ dryRun(r) \/ splitSeries(r) \/ askHoliday(r) \/ purge(r)
  BY <1>2, SaveMoves, CheckMoves, DryRunMoves, SplitMoves, AskHolidayMoves, PurgeMoves
<1>3. CASE fetch(r) \/ saveHoliday(r) \/ loadSeries(r) \/ reorganizeSeries(r)
           \/ commitReorganization(r)
  BY <1>3, FetchMoves, SaveHolidayMoves, LoadSeriesMoves, ReorganizeMoves,
     CommitReorganizationMoves
<1> QED
  BY <1>1, <1>2, <1>3 DEF Progress

\* The steps of requests about a row.
LEMMA RowSteps ==
  ASSUME Typed, NEW r \in Requests, Progress(r), req[r].kind \in RowKinds
  PROVE  req'[r] = Idle \/ save(r) \/ check(r)
<1>1. CASE insert(r) \/ remove(r) \/ commitSplit(r) \/ commitSeries(r) \/ saveSeries(r)
           \/ drop(r) \/ endReorganization(r) \/ abort(r)
  BY <1>1, InsertMoves, RemoveMoves, CommitSplitMoves, CommitSeriesMoves, SaveSeriesMoves,
     DropMoves, EndMoves
<1>2. CASE dryRun(r) \/ splitSeries(r) \/ askHoliday(r) \/ purge(r)
  BY <1>2, DryRunMoves, SplitMoves, AskHolidayMoves, PurgeMoves DEF RowKinds
<1>3. CASE fetch(r) \/ saveHoliday(r) \/ loadSeries(r) \/ reorganizeSeries(r)
           \/ commitReorganization(r)
  BY <1>3, FetchMoves, SaveHolidayMoves, LoadSeriesMoves, ReorganizeMoves,
     CommitReorganizationMoves DEF RowKinds
<1> QED
  BY <1>1, <1>2, <1>3 DEF Progress

LEMMA OthersKeepRows ==
  ASSUME Typed, NEW r \in Requests, NEW O, effect(r, O), NEW x \in Requests, x # r,
         RowCopied(req[x])
  PROVE  RowCopied(req[x])'
<1>1. /\ SameCall(req[x], req'[x]) /\ Known(req[x])
      /\ \A o : o \in req'[x].fresh => o \in req[x].fresh /\ o \notin O
  BY OthersFresh, RequestTypes
<1>2. ASSUME req[x].kind \in RowKinds, Event(req[x].event) \notin O
      PROVE  rows'[req[x].event] = rows[req[x].event]
  BY <1>1, <1>2 DEF effect, Confined, Known
<1> QED
  BY <1>1, <1>2 DEF RowCopied, SameCall

LEMMA OwnKeepsRow ==
  ASSUME Typed, NEW r \in Requests, acts(r), RowCopied(req[r])
  PROVE  RowCopied(req[r])'
<1>0. TypeOK
  BY DEF Typed
<1>1. CASE starts(r)
  <2>1. new(req'[r]) /\ UNCHANGED <<rows, series>>
    BY <1>1, Starts, StartsAreConfined
  <2>2. PICK q : q = req'[r]
    OBVIOUS
  <2>3. CASE newUpdate(q) \/ newDelete(q) \/ newTransfer(q)
    BY <2>1, <2>2, <2>3 DEF newUpdate, newDelete, newTransfer, RowCopied, RowKinds
  <2>4. CASE ~(newUpdate(q) \/ newDelete(q) \/ newTransfer(q))
    <3>1. q.kind \notin RowKinds
      BY <2>1, <2>2, <2>4 DEF new, newCreate, newSeries, newDeleteSeries, newSaveSeries,
                              newSplit, RowKinds
    <3> QED
      BY <2>2, <3>1 DEF RowCopied
  <2> QED
    BY <2>3, <2>4
<1>2. CASE importOpenHolidays(r)
  <2>1. req'[r].kind = "reorganize"
    BY <1>0, <1>2, ImportBegins
  <2> QED
    BY <2>1 DEF RowCopied, RowKinds
<1>3. CASE Progress(r)
  <2>1. CASE req'[r] = Idle
    BY <2>1, IdleFields DEF RowCopied, RowKinds
  <2>2. CASE req[r].kind \notin RowKinds /\ SameTask(req[r], req'[r])
    BY <2>2 DEF RowCopied, SameTask
  <2>3. CASE save(r)
    BY <2>1, <2>3, SaveMoves DEF RowCopied, RowKinds, SameTask
  <2>4. CASE check(r) /\ req'[r] # Idle
    <3>1. /\ req'[r].step = "save" /\ SameTask(req[r], req'[r]) /\ req[r].step = "check"
          /\ req'[r].fresh = req[r].fresh \cup {Place(req[r].row.place)} /\ UNCHANGED rows
      BY <2>4, CheckMoves DEF check, At, tables
    <3>2. \A i : Event(i) \in req'[r].fresh => Event(i) \in req[r].fresh
      BY <3>1, ObjectsDiffer
    <3> QED
      BY <3>1, <3>2 DEF RowCopied, SameTask
  <2> QED
    BY <1>3, <2>1, <2>2, <2>3, <2>4, SameTaskOrIdle, RowSteps
<1> QED
  BY <1>1, <1>2, <1>3 DEF acts

RowsCopied == \A r \in Requests : RowCopied(req[r])
LEMMA RowsStayCopied ==
  ASSUME Typed, RowsCopied, [Next]_vars
  PROVE  RowsCopied'
<1>1. ASSUME NEW r \in Requests, acts(r) PROVE RowsCopied'
  <2>1. PICK O : effect(r, O)
    BY <1>1, StepsAreConfined
  <2> QED
    BY <1>1, <2>1, OthersKeepRows, OwnKeepsRow DEF RowsCopied
<1>2. CASE tick
  BY <1>2, TickMoves DEF RowsCopied, RowCopied
<1>3. CASE UNCHANGED vars
  BY <1>3 DEF vars, tables, RowsCopied, RowCopied
<1> QED
  BY <1>1, <1>2, <1>3, StepsAct

LEMMA OthersKeepSeries ==
  ASSUME Typed, NEW r \in Requests, NEW O, effect(r, O), NEW x \in Requests, x # r,
         SeriesCopied(req[x])
  PROVE  SeriesCopied(req[x])'
<1>1. /\ SameCall(req[x], req'[x]) /\ Known(req[x]) /\ req[x].left \in SUBSET SeriesIds
      /\ \A o : o \in req'[x].fresh => o \in req[x].fresh /\ o \notin O
  BY OthersFresh, RequestTypes DEF Request
<1>2. \A s \in SeriesIds : series[s].state = "live" /\ Series(s) \notin O => series'[s] = series[s]
  BY DEF effect, Confined
<1>3. CASE req[x].kind \in SeriesKinds
  <2>1. req[x].series \in SeriesIds /\ ~Extends(req[x]) /\ ~Extends(req'[x])
    BY <1>1, <1>3 DEF Known, Extends, SeriesKinds, SameCall
  <2> QED
    BY <1>1, <1>2, <2>1 DEF SeriesCopied, SameCall
<1>4. CASE req[x].kind \notin SeriesKinds
  <2>1. \A s \in req[x].left : s \in SeriesIds
    BY <1>1
  <2> QED
    BY <1>1, <1>2, <1>4, <2>1 DEF SeriesCopied, SameCall, Extends
<1> QED
  BY <1>3, <1>4

LEMMA NewSeriesCopied ==
  ASSUME NEW r, new(req'[r]), UNCHANGED <<now, rows, series, holidays>>
  PROVE  SeriesCopied(req[r])'
<1>1. PICK q : q = req'[r]
  OBVIOUS
<1>2. UNCHANGED <<series>>
  OBVIOUS
<1>3. CASE newDeleteSeries(q)
  BY <1>1, <1>2, <1>3 DEF newDeleteSeries, copied, SeriesCopied, Extends
<1>4. CASE newSaveSeries(q)
  BY <1>1, <1>2, <1>4 DEF newSaveSeries, copied, SeriesCopied, Extends
<1>5. CASE newSplit(q)
  BY <1>1, <1>2, <1>5 DEF newSplit, copied, SeriesCopied, Extends
<1>6. CASE newCreate(q) \/ newUpdate(q) \/ newDelete(q) \/ newTransfer(q) \/ newSeries(q)
  BY <1>1, <1>6 DEF newCreate, newUpdate, newDelete, newTransfer, newSeries, SeriesCopied,
                    SeriesKinds, Extends
<1> QED
  BY <1>1, <1>3, <1>4, <1>5, <1>6 DEF new

\* The steps of requests about series, and of the reorganization once it has read them.
LEMMA SeriesSteps ==
  ASSUME Typed, NEW r \in Requests, Progress(r)
  PROVE  \/ req'[r] = Idle
         \/ req[r].kind \in RowKinds /\ SameTask(req[r], req'[r])
         \/ dryRun(r) \/ splitSeries(r) \/ askHoliday(r) \/ purge(r) \/ fetch(r) \/ saveHoliday(r)
         \/ loadSeries(r) \/ reorganizeSeries(r) \/ commitReorganization(r)
<1>1. CASE insert(r) \/ remove(r) \/ commitSplit(r) \/ commitSeries(r) \/ saveSeries(r)
           \/ drop(r) \/ endReorganization(r) \/ abort(r)
  BY <1>1, InsertMoves, RemoveMoves, CommitSplitMoves, CommitSeriesMoves, SaveSeriesMoves,
     DropMoves, EndMoves
<1>2. CASE save(r) \/ check(r)
  BY <1>2, SaveMoves, CheckMoves DEF RowKinds
<1> QED
  BY <1>1, <1>2 DEF Progress

LEMMA OwnKeepsSeries ==
  ASSUME Typed, NEW r \in Requests, acts(r), SeriesCopied(req[r])
  PROVE  SeriesCopied(req[r])'
<1>0. TypeOK /\ req[r].left \in SUBSET SeriesIds
  BY RequestTypes DEF Typed, Request
<1>1. CASE starts(r)
  BY <1>1, Starts, StartsAreConfined, NewSeriesCopied
<1>2. CASE importOpenHolidays(r)
  <2>1. req'[r].kind = "reorganize" /\ req'[r].step = "fetch"
    BY <1>0, <1>2, ImportBegins
  <2> QED
    BY <2>1 DEF SeriesCopied, SeriesKinds, Extends
<1>3. CASE Progress(r)
  <2>1. CASE req'[r] = Idle
    BY <2>1, IdleFields DEF SeriesCopied, SeriesKinds, Extends
  <2>2. CASE req[r].kind \in RowKinds /\ SameTask(req[r], req'[r])
    BY <2>2 DEF SeriesCopied, SameTask, SeriesKinds, RowKinds, Extends
  <2>3. CASE (dryRun(r) \/ splitSeries(r)) /\ req'[r] # Idle
    <3>1. /\ req[r].kind = "split" /\ SameTask(req[r], req'[r])
          /\ req'[r].entities = req[r].entities /\ req'[r].entity = req[r].entity
          /\ UNCHANGED series
      BY <2>3, DryRunMoves, SplitMoves DEF tables
    <3>2. \/ req'[r].fresh = req[r].fresh
          \/ req'[r].fresh = req[r].fresh \cup {Place(req[r].entity.place)}
      BY <2>3, DryRunMoves, SplitMoves
    <3>3. \A s : Series(s) \in req'[r].fresh => Series(s) \in req[r].fresh
      BY <3>2, ObjectsDiffer
    <3> QED
      BY <3>1, <3>3 DEF SeriesCopied, SameTask, SeriesKinds, Extends
  <2>4. CASE purge(r)
    BY <2>4, PurgeMoves DEF SeriesCopied, SameTask, Extends
  <2>5. CASE fetch(r) \/ saveHoliday(r)
    <3>1. req'[r].step = "import" /\ req'[r].kind = "reorganize"
      BY <2>5, FetchMoves, SaveHolidayMoves DEF SameTask
    <3> QED
      BY <3>1 DEF SeriesCopied, SeriesKinds, Extends
  <2>6. CASE loadSeries(r)
    <3>1. /\ req'[r].kind = "reorganize" /\ req'[r].step = "begin" /\ req'[r].left = LiveSeries
          /\ \A s \in LiveSeries : req'[r].entities[s] = series[s]
          /\ UNCHANGED series
      BY <2>6, LoadSeriesMoves DEF SameTask, tables
    <3>2. \A s \in LiveSeries : series[s].state = "live"
      BY DEF LiveSeries
    <3> QED
      BY <3>1, <3>2 DEF SeriesCopied, SeriesKinds, Extends
  <2>7. CASE reorganizeSeries(r)
    <3>1. /\ req[r].kind = "reorganize" /\ req[r].step = "begin" /\ SameTask(req[r], req'[r])
          /\ req'[r].entities = req[r].entities /\ req'[r].left \subseteq req[r].left
          /\ UNCHANGED series
      BY <2>7, ReorganizeMoves DEF tables
    <3>2. \/ req'[r].fresh = req[r].fresh
          \/ req'[r].fresh = req[r].fresh \cup {Place(req'[r].entity.place)}
      BY <2>7, ReorganizeMoves
    <3>3. \A s : Series(s) \in req'[r].fresh => Series(s) \in req[r].fresh
      BY <3>2, ObjectsDiffer
    <3>4. req'[r].step = "commit" =>
            req'[r].entity.owner = req'[r].entities[Smallest(req'[r].left)].owner
      BY <2>7, ReorganizeMoves DEF nextSeries
    <3> QED
      BY <3>1, <3>3, <3>4 DEF SeriesCopied, SameTask, SeriesKinds, Extends
  <2>8. CASE commitReorganization(r) /\ req'[r] # Idle
    <3>1. /\ req[r].kind = "reorganize" /\ req[r].step = "commit" /\ SameTask(req[r], req'[r])
          /\ req'[r].step = "begin" /\ req'[r].left = req[r].left \ {nextSeries(r)}
          /\ req'[r].entities = req[r].entities /\ req'[r].fresh = req[r].fresh
          /\ \A x \in SeriesIds \ {nextSeries(r)} : series'[x] = series[x]
      BY <2>8, CommitReorganizationMoves
    <3>2. \A s \in req'[r].left : s \in req[r].left /\ series'[s] = series[s]
      BY <1>0, <3>1
    <3> QED
      BY <3>1, <3>2 DEF SeriesCopied, SameTask, SeriesKinds, Extends
  <2>9. CASE askHoliday(r)
    <3>1. /\ SameTask(req[r], req'[r]) /\ req'[r].step = req[r].step
          /\ req'[r].entities = req[r].entities /\ req'[r].entity = req[r].entity
          /\ req'[r].left = req[r].left /\ req'[r].fresh = req[r].fresh /\ UNCHANGED series
      BY <2>9, AskHolidayMoves DEF tables
    <3> QED
      BY <1>0, <3>1 DEF SeriesCopied, SameTask, SeriesKinds, Extends
  <2> QED
    BY <1>3, <2>1, <2>2, <2>3, <2>4, <2>5, <2>6, <2>7, <2>8, <2>9, SeriesSteps
<1> QED
  BY <1>1, <1>2, <1>3 DEF acts

AllSeriesCopied == \A r \in Requests : SeriesCopied(req[r])
LEMMA SeriesStayCopied ==
  ASSUME Typed, AllSeriesCopied, [Next]_vars
  PROVE  AllSeriesCopied'
<1>1. ASSUME NEW r \in Requests, acts(r) PROVE AllSeriesCopied'
  <2>1. PICK O : effect(r, O)
    BY <1>1, StepsAreConfined
  <2> QED
    BY <1>1, <2>1, OthersKeepSeries, OwnKeepsSeries DEF AllSeriesCopied
<1>2. CASE tick
  BY <1>2, TickMoves DEF AllSeriesCopied, SeriesCopied, Extends
<1>3. CASE UNCHANGED vars
  BY <1>3 DEF vars, tables, AllSeriesCopied, SeriesCopied, Extends
<1> QED
  BY <1>1, <1>2, <1>3, StepsAct

Copies == Typed /\ RowsCopied /\ AllSeriesCopied
LEMMA CopiesStayCopied ==
  /\ Init => Copies
  /\ Copies /\ [Next]_vars => Copies'
<1>1. ASSUME Init PROVE Copies
  <2>1. \A r \in Requests : req[r] = Idle
    BY <1>1 DEF Init
  <2>2. \A r \in Requests : RowCopied(req[r]) /\ SeriesCopied(req[r])
    BY <2>1, IdleFields DEF RowCopied, SeriesCopied, RowKinds, SeriesKinds, Extends
  <2> QED
    BY <1>1, <2>2, TypedInitially DEF Copies, RowsCopied, AllSeriesCopied
<1>2. ASSUME Copies, [Next]_vars PROVE Copies'
  BY <1>2, StepsStayTyped, RowsStayCopied, SeriesStayCopied DEF Copies
<1> QED
  BY <1>1, <1>2

\* The row of a step that writes its copy.
LEMMA DeletedRowsStay ==
  ASSUME Copies, NEW r \in Requests, acts(r), NEW i \in Rows,
         rows[i].state \in {"deleted", "gone"}, rows'[i].state = "live"
  PROVE  At(r, "save") /\ req[r].event = i /\ ~Fresh(r, {Event(i)})
<1>0. Typed /\ TypeOK /\ RowCopied(req[r])
  BY DEF Copies, RowsCopied, Typed
<1>1. rows'[i] # rows[i] /\ rows[i].state # "free"
  OBVIOUS
<1>2. CASE save(r)
  <2>1. /\ req[r].event = i /\ req[r].kind \in RowKinds /\ req[r].step = "save"
    BY <1>0, <1>1, <1>2, SaveMoves DEF save, At
  <2>2. Event(i) \notin req[r].fresh
    BY <1>0, <2>1 DEF RowCopied
  <2> QED
    BY <2>1, <2>2 DEF At, Fresh
<1>3. CASE starts(r) \/ importOpenHolidays(r)
  BY <1>0, <1>1, <1>3, Starts, StartsAreConfined, ImportBegins
<1>4. CASE insert(r) \/ remove(r) \/ saveSeries(r) \/ purge(r)
  BY <1>0, <1>1, <1>4, InsertMoves, RemoveMoves, SaveSeriesMoves, PurgeMoves
<1>5. CASE commitSeries(r)
  <2>1. PICK s : grown(req[r].entity, s, req[r].occurrences, rows)
    BY <1>0, <1>5, CommitSeriesMoves
  <2>2. i \notin newRows(req[r].occurrences)
    BY <1>1, <2>1, NewRowFields
  <2> QED
    BY <1>1, <2>1, <2>2 DEF grown
<1>6. CASE commitSplit(r)
  <2>1. PICK s : grown(req[r].entity, s, req[r].occurrences, withoutFuture(r))
    BY <1>0, <1>6, CommitSplitMoves
  <2>2. i \notin newRows(req[r].occurrences)
    BY <1>1, <2>1, NewRowFields
  <2>3. rows'[i] = withoutFuture(r)[i]
    BY <2>1, <2>2 DEF grown
  <2> QED
    BY <1>0, <1>1, <2>3, FutureIsDeleted
<1>7. CASE commitReorganization(r)
  <2>1. grown(req[r].entity, nextSeries(r), req[r].occurrences, rows)
    BY <1>0, <1>1, <1>7, CommitReorganizationMoves
  <2>2. i \notin newRows(req[r].occurrences)
    BY <1>1, <2>1, NewRowFields
  <2> QED
    BY <1>1, <2>1, <2>2 DEF grown
<1>8. CASE drop(r) \/ saveHoliday(r)
  BY <1>0, <1>1, <1>8, DropMoves, SaveHolidayMoves
<1>9. CASE check(r) \/ dryRun(r) \/ splitSeries(r) \/ fetch(r) \/ loadSeries(r)
           \/ reorganizeSeries(r) \/ endReorganization(r) \/ abort(r) \/ askHoliday(r)
  <2>1. UNCHANGED tables
    BY <1>0, <1>9, CheckMoves, DryRunMoves, SplitMoves, FetchMoves, LoadSeriesMoves,
       ReorganizeMoves, EndMoves, AskHolidayMoves
  <2> QED
    BY <1>1, <2>1 DEF tables
<1> QED
  BY <1>2, <1>3, <1>4, <1>5, <1>6, <1>7, <1>8, <1>9 DEF acts, Progress

\* What the steps make of a series: the one that is written changes, from a fresh copy
\* if it is not stale afterwards, or a new one joins.
writesSeries(r, s) ==
  \/ (commitSplit(r) \/ saveSeries(r)) /\ s = req[r].series
  \/ commitReorganization(r) /\ req'[r] # Idle /\ s = nextSeries(r)
LEMMA SeriesChange ==
  ASSUME Copies, NEW r \in Requests, acts(r), NEW s \in SeriesIds, series'[s] # series[s]
  PROVE  \/ series[s].state = "free"
         \/ drop(r) /\ series'[s].state = "gone" /\ RowsOf(s) = {}
         \/ writesSeries(r, s)
<1>0. Typed /\ TypeOK
  BY DEF Copies, Typed
<1>1. CASE starts(r) \/ importOpenHolidays(r)
  BY <1>0, <1>1, Starts, StartsAreConfined, ImportBegins
<1>2. CASE insert(r) \/ remove(r) \/ save(r) \/ purge(r) \/ saveHoliday(r)
  BY <1>0, <1>2, InsertMoves, RemoveMoves, SaveMoves, PurgeMoves, SaveHolidayMoves
<1>3. CASE drop(r)
  BY <1>0, <1>3, DropMoves
<1>4. CASE commitSeries(r)
  BY <1>0, <1>4, CommitSeriesMoves
<1>5. CASE commitSplit(r) \/ saveSeries(r)
  <2>1. s = req[r].series \/ series[s].state = "free"
    BY <1>0, <1>5, CommitSplitMoves, SaveSeriesMoves
  <2> QED
    BY <1>5, <2>1 DEF writesSeries
<1>6. CASE commitReorganization(r)
  <2>1. s = nextSeries(r) /\ req'[r] # Idle
    <3>1. CASE req'[r] = Idle /\ UNCHANGED <<rows, series, history>>
      BY <3>1
    <3>2. CASE ~(req'[r] = Idle /\ UNCHANGED <<rows, series, history>>)
      <4>1. /\ req'[r].step = "begin"
            /\ \A x \in SeriesIds \ {nextSeries(r)} : series'[x] = series[x]
        BY <1>0, <1>6, <3>2, CommitReorganizationMoves
      <4> QED
        BY <4>1, IdleFields
    <3> QED
      BY <3>1, <3>2
  <2> QED
    BY <1>6, <2>1 DEF writesSeries
<1>7. CASE check(r) \/ dryRun(r) \/ splitSeries(r) \/ fetch(r) \/ loadSeries(r)
           \/ reorganizeSeries(r) \/ endReorganization(r) \/ abort(r) \/ askHoliday(r)
  <2>1. UNCHANGED tables
    BY <1>0, <1>7, CheckMoves, DryRunMoves, SplitMoves, FetchMoves, LoadSeriesMoves,
       ReorganizeMoves, EndMoves, AskHolidayMoves
  <2> QED
    BY <2>1 DEF tables
<1> QED
  BY <1>1, <1>2, <1>3, <1>4, <1>5, <1>6, <1>7 DEF acts, Progress

\* A series that is not stale after it was written was read as it is.
LEMMA SeriesWasRead ==
  ASSUME Copies, NEW r \in Requests, NEW s \in SeriesIds, writesSeries(r, s), s \notin stale'
  PROVE  /\ series[s].state = "live" /\ series[s] = req[r].entities[s]
         /\ Series(s) \in req[r].fresh
<1>0. Typed /\ SeriesCopied(req[r])
  BY DEF Copies, AllSeriesCopied
<1>1. CASE (commitSplit(r) \/ saveSeries(r)) /\ s = req[r].series
  <2>1. req[r].kind \in SeriesKinds /\ Series(s) \in req[r].fresh
    BY <1>0, <1>1, CommitSplitMoves, SaveSeriesMoves DEF SeriesKinds
  <2> QED
    BY <1>0, <1>1, <2>1 DEF SeriesCopied
<1>2. CASE commitReorganization(r) /\ req'[r] # Idle /\ s = nextSeries(r)
  <2>1. Extends(req[r]) /\ s \in req[r].left /\ Series(s) \in req[r].fresh
    BY <1>0, <1>2, CommitReorganizationMoves DEF Extends
  <2> QED
    BY <1>0, <2>1 DEF SeriesCopied
<1> QED
  BY <1>1, <1>2 DEF writesSeries

\* What DeletedStaysDeleted says of one step.
staysDeleted ==
  /\ \A i \in Rows : rows[i].state \in {"deleted", "gone"} /\ rows'[i].state = "live"
       => \E r \in Requests : At(r, "save") /\ req[r].event = i /\ ~Fresh(r, {Event(i)})
  /\ \A s \in SeriesIds : series[s].state = "gone" /\ series'[s].state = "live" => s \in stale'

\* Whatever requests overlap, a row that was deleted comes back only through one that
\* read it before, and a series that is gone only from an outdated copy.
THEOREM DeletedStays == Spec => DeletedStaysDeleted
<1>1. ASSUME Copies, Next PROVE staysDeleted
  <2>1. ASSUME NEW r \in Requests, acts(r) PROVE staysDeleted
    <3>1. ASSUME NEW i \in Rows, rows[i].state \in {"deleted", "gone"}, rows'[i].state = "live"
          PROVE  At(r, "save") /\ req[r].event = i /\ ~Fresh(r, {Event(i)})
      BY <1>1, <2>1, <3>1, DeletedRowsStay
    <3>2. ASSUME NEW s \in SeriesIds, series[s].state = "gone", series'[s].state = "live",
                 s \notin stale'
          PROVE  FALSE
      <4>1. series'[s] # series[s] /\ series[s].state # "free" /\ series'[s].state # "gone"
        BY <3>2
      <4>2. writesSeries(r, s)
        BY <1>1, <2>1, <4>1, SeriesChange
      <4> QED
        BY <1>1, <3>2, <4>2, SeriesWasRead
    <3> QED
      BY <3>1, <3>2 DEF staysDeleted
  <2>2. CASE tick
    BY <1>1, <2>2, TickMoves DEF staysDeleted, Copies
  <2> QED
    BY <1>1, <2>1, <2>2, StepsAct
<1>2. Copies /\ [Next]_vars => [staysDeleted]_vars
  BY <1>1
<1>3. Init => Copies
  BY CopiesStayCopied
<1>4. Copies /\ [Next]_vars => Copies'
  BY CopiesStayCopied
<1> QED
  BY <1>2, <1>3, <1>4, PTL DEF Spec, DeletedStaysDeleted, staysDeleted

-----------------------------------------------------------------------------
(* Series and their rows.                                                  *)

generates(r) == commitSplit(r) \/ commitSeries(r) \/ commitReorganization(r)

\* What a step makes of a row.
ended(i) ==
  rows[i].state # "free" /\ rows'[i].state \in {"deleted", "gone"}
  /\ rows'[i].series = rows[i].series
saved(r, i) ==
  save(r) /\ i = req[r].event /\ rows'[i] = req[r].row /\ rows' # rows
inserted(r, i) == insert(r) /\ rows[i].state = "free" /\ rows'[i] = req[r].row
handedOver(r, i) ==
  saveSeries(r) /\ req[r].kind = "transferSeries" /\ i \in RowsOf(req[r].series)
  /\ rows'[i].owner = req[r].entity.owner
joined(r, i) ==
  generates(r) /\ rows[i].state = "free" /\ rows'[i].series \in SeriesIds
  /\ series'[rows'[i].series] = req[r].entity /\ rows'[i].owner = req[r].entity.owner

LEMMA RowChange ==
  ASSUME Typed, NEW r \in Requests, acts(r), NEW i \in Rows
  PROVE  \/ rows'[i] = rows[i] \/ ended(i) \/ saved(r, i) \/ inserted(r, i)
         \/ handedOver(r, i) \/ joined(r, i)
<1>0. TypeOK
  BY DEF Typed
<1>1. CASE starts(r) \/ importOpenHolidays(r)
  BY <1>0, <1>1, Starts, StartsAreConfined, ImportBegins
<1>2. CASE insert(r)
  BY <1>2, InsertMoves DEF inserted
<1>3. CASE save(r)
  BY <1>3, SaveMoves DEF saved
<1>4. CASE remove(r)
  BY <1>4, RemoveMoves DEF ended
<1>5. CASE purge(r)
  BY <1>5, PurgeMoves DEF ended
<1>6. CASE saveSeries(r)
  BY <1>6, SaveSeriesMoves DEF handedOver
<1>7. CASE commitSeries(r)
  <2>1. PICK s \in SeriesIds : /\ grown(req[r].entity, s, req[r].occurrences, rows)
                               /\ series'[s] = req[r].entity
    BY <1>7, CommitSeriesMoves
  <2>2. CASE i \in newRows(req[r].occurrences)
    BY <1>7, <2>1, <2>2, NewRowFields DEF joined, generates
  <2>3. CASE i \notin newRows(req[r].occurrences)
    BY <2>1, <2>3 DEF grown
  <2> QED
    BY <2>2, <2>3
<1>8. CASE commitSplit(r)
  <2>1. PICK s \in SeriesIds : /\ grown(req[r].entity, s, req[r].occurrences, withoutFuture(r))
                               /\ series'[s] = req[r].entity
    BY <1>8, CommitSplitMoves
  <2>2. CASE i \in newRows(req[r].occurrences)
    BY <1>8, <2>1, <2>2, NewRowFields DEF joined, generates
  <2>3. CASE i \notin newRows(req[r].occurrences)
    <3>1. rows'[i] = withoutFuture(r)[i]
      BY <2>1, <2>3 DEF grown
    <3> QED
      BY <1>0, <3>1, FutureIsDeleted DEF ended
  <2> QED
    BY <2>2, <2>3
<1>9. CASE commitReorganization(r)
  <2>1. CASE req'[r] = Idle /\ UNCHANGED <<rows, series, history>>
    BY <2>1
  <2>2. CASE ~(req'[r] = Idle /\ UNCHANGED <<rows, series, history>>)
    <3>1. /\ grown(req[r].entity, nextSeries(r), req[r].occurrences, rows)
          /\ series'[nextSeries(r)] = req[r].entity /\ nextSeries(r) \in SeriesIds
      BY <1>9, <2>2, CommitReorganizationMoves
    <3>2. CASE i \in newRows(req[r].occurrences)
      BY <1>9, <3>1, <3>2, NewRowFields DEF joined, generates
    <3>3. CASE i \notin newRows(req[r].occurrences)
      BY <3>1, <3>3 DEF grown
    <3> QED
      BY <3>2, <3>3
  <2> QED
    BY <2>1, <2>2
<1>10. CASE drop(r) \/ saveHoliday(r)
  BY <1>10, DropMoves, SaveHolidayMoves
<1>11. CASE check(r) \/ dryRun(r) \/ splitSeries(r) \/ fetch(r) \/ loadSeries(r)
            \/ reorganizeSeries(r) \/ endReorganization(r) \/ abort(r) \/ askHoliday(r)
  <2>1. UNCHANGED tables
    BY <1>11, CheckMoves, DryRunMoves, SplitMoves, FetchMoves, LoadSeriesMoves,
       ReorganizeMoves, EndMoves, AskHolidayMoves
  <2> QED
    BY <2>1 DEF tables
<1> QED
  BY <1>1, <1>2, <1>3, <1>4, <1>5, <1>6, <1>7, <1>8, <1>9, <1>10, <1>11 DEF acts, Progress

LEMMA RowSeriesStay ==
  ASSUME Typed, RowsHaveSeries, NEW r \in Requests, acts(r)
  PROVE  RowsHaveSeries'
<1>1. PICK O : effect(r, O)
  BY StepsAreConfined
<1>2. /\ \A s \in SeriesIds : series[s].state # "free" => series'[s].state # "free"
      /\ \A i \in Rows : rows'[i] \in Row /\ rows[i] \in Row
  BY <1>1, TablesStayTyped DEF effect, Confined, tablesTyped, Typed, TypeOK
<1>3. ASSUME NEW i \in Rows, rows'[i].state # "free", rows'[i].series # None
      PROVE  series'[rows'[i].series].state # "free"
  <2>1. rows'[i].series \in SeriesIds
    BY <1>2, <1>3 DEF Row
  <2>2. CASE rows'[i] = rows[i] \/ ended(i)
    BY <1>2, <1>3, <2>1, <2>2 DEF RowsHaveSeries, ended
  <2>3. CASE saved(r, i)
    <3>1. series[rows'[i].series].state = "live"
      BY <1>3, <2>3, SaveMoves DEF saved
    <3> QED
      BY <1>2, <2>1, <3>1
  <2>4. CASE inserted(r, i)
    <3>1. req[r].kind = "create" /\ Known(req[r]) /\ rows'[i].series = req[r].row.series
      BY <2>4, InsertMoves, RequestTypes DEF inserted
    <3> QED
      BY <1>3, <3>1 DEF Known
  <2>5. CASE handedOver(r, i)
    <3>1. rows[i].state # "free" /\ rows'[i].series = rows[i].series
      BY <2>5, SaveSeriesMoves DEF handedOver, RowsOf
    <3> QED
      BY <1>2, <1>3, <2>1, <3>1 DEF RowsHaveSeries
  <2>6. CASE joined(r, i)
    <3>1. req[r].entity.state = "live"
      <4>1. CASE commitSplit(r) \/ commitSeries(r)
        BY <4>1, CommitSplitMoves, CommitSeriesMoves, RequestTypes DEF Known, Writers
      <4>2. CASE commitReorganization(r)
        BY <4>2, CommitReorganizationMoves, RequestTypes DEF Known, Extends
      <4> QED
        BY <2>6, <4>1, <4>2 DEF joined, generates
    <3> QED
      BY <2>6, <3>1 DEF joined
  <2> QED
    BY <2>2, <2>3, <2>4, <2>5, <2>6, RowChange
<1> QED
  BY <1>3 DEF RowsHaveSeries

\* Only a transfer gives a series another owner.
LEMMA OwnerStays ==
  ASSUME Copies, NEW r \in Requests, NEW s \in SeriesIds, writesSeries(r, s), s \notin stale',
         ~(saveSeries(r) /\ req[r].kind = "transferSeries")
  PROVE  series'[s].owner = series[s].owner
<1>0. Typed /\ SeriesCopied(req[r])
  BY DEF Copies, AllSeriesCopied
<1>1. series[s] = req[r].entities[s]
  BY SeriesWasRead
<1>2. CASE commitSplit(r) /\ s = req[r].series
  BY <1>0, <1>1, <1>2, CommitSplitMoves
<1>3. CASE saveSeries(r) /\ s = req[r].series
  BY <1>0, <1>1, <1>3, SaveSeriesMoves DEF SeriesCopied, SeriesKinds
<1>4. CASE commitReorganization(r) /\ req'[r] # Idle /\ s = nextSeries(r)
  <2>1. Extends(req[r]) /\ req[r].step = "commit" /\ series'[s] = req[r].entity
    BY <1>0, <1>4, CommitReorganizationMoves DEF Extends
  <2> QED
    BY <1>0, <1>1, <1>4, <2>1 DEF SeriesCopied, nextSeries
<1> QED
  BY <1>2, <1>3, <1>4 DEF writesSeries

LEMMA OwnersStayAgreed ==
  ASSUME Copies, RowsHaveSeries, SeriesOwnersAgree, NEW r \in Requests, acts(r)
  PROVE  SeriesOwnersAgree'
<1>0. Typed /\ RowCopied(req[r]) /\ stale \subseteq stale'
  BY TablesStayTyped DEF Copies, RowsCopied, tablesTyped
<1>1. SUFFICES ASSUME NEW i \in Rows, rows'[i].state = "live", rows'[i].series # None,
                      rows'[i].series \notin stale'
               PROVE  rows'[i].owner = series'[rows'[i].series].owner
  BY DEF SeriesOwnersAgree, Live
<1>2. PICK s : s = rows'[i].series
  OBVIOUS
<1>3. s \in SeriesIds /\ s # None /\ s \notin stale' /\ s \notin stale
  BY <1>0, <1>1, <1>2, TablesStayTyped DEF tablesTyped, Row
<1>4. ASSUME rows[i].state = "live", rows[i].series = s
      PROVE  rows[i].owner = series[s].owner /\ series[s].state # "free" /\ i \in RowsOf(s)
  BY <1>3, <1>4 DEF SeriesOwnersAgree, RowsHaveSeries, Live, RowsOf
<1>5. CASE rows'[i] = rows[i]
  <2>1. rows[i].owner = series[s].owner /\ series[s].state # "free" /\ i \in RowsOf(s)
    BY <1>1, <1>2, <1>4, <1>5
  <2>2. CASE series'[s] = series[s]
    BY <1>2, <1>5, <2>1, <2>2
  <2>3. CASE drop(r) /\ RowsOf(s) = {}
    BY <2>1, <2>3
  <2>4. CASE writesSeries(r, s)
    <3>1. CASE saveSeries(r) /\ req[r].kind = "transferSeries"
      <4>1. s = req[r].series
        BY <1>0, <2>4, <3>1, CommitReorganizationMoves DEF writesSeries
      <4>2. rows'[i].owner = req[r].entity.owner /\ series'[s] = req[r].entity
        BY <1>0, <2>1, <3>1, <4>1, SaveSeriesMoves
      <4> QED
        BY <1>2, <4>2
    <3>2. CASE ~(saveSeries(r) /\ req[r].kind = "transferSeries")
      BY <1>2, <1>3, <1>5, <2>1, <2>4, <3>2, OwnerStays
    <3> QED
      BY <3>1, <3>2
  <2> QED
    BY <1>3, <2>1, <2>2, <2>3, <2>4, SeriesChange
<1>6. CASE ended(i)
  BY <1>1, <1>6 DEF ended
<1>7. CASE saved(r, i) /\ rows'[i] # rows[i]
  <2>1. /\ i = req[r].event /\ rows'[i] = req[r].row /\ req[r].row.series = s
        /\ req[r].kind \in RowKinds /\ req[r].step = "save" /\ UNCHANGED series
    BY <1>0, <1>2, <1>7, SaveMoves DEF saved, save, At
  <2>2. Event(i) \in req[r].fresh
    BY <1>0, <1>3, <1>7, <2>1, SaveMoves DEF saved
  <2>3. /\ rows[i].state = "live" /\ rows[i].series = s
        /\ rows'[i].owner = rows[i].owner
    BY <1>0, <1>3, <2>1, <2>2 DEF RowCopied
  <2> QED
    BY <1>2, <1>4, <2>1, <2>3
<1>8. CASE inserted(r, i)
  BY <1>0, <1>2, <1>3, <1>8, InsertMoves, RequestTypes DEF inserted, Known
<1>9. CASE handedOver(r, i)
  <2>1. rows'[i].series = rows[i].series /\ rows[i].series = req[r].series
    BY <1>0, <1>9, SaveSeriesMoves DEF handedOver, RowsOf
  <2> QED
    BY <1>0, <1>2, <1>9, <2>1, SaveSeriesMoves DEF handedOver
<1>10. CASE joined(r, i)
  BY <1>2, <1>10 DEF joined
<1> QED
  BY <1>0, <1>5, <1>6, <1>7, <1>8, <1>9, <1>10, RowChange

Owned == Copies /\ RowsHaveSeries /\ SeriesOwnersAgree
LEMMA StaysOwned ==
  /\ Init => Owned
  /\ Owned /\ [Next]_vars => Owned'
<1>1. ASSUME Init PROVE Owned
  <2>1. \A i \in Rows : rows[i].state = "free"
    BY <1>1, Defaults DEF Init
  <2> QED
    BY <1>1, <2>1, CopiesStayCopied DEF Owned, RowsHaveSeries, SeriesOwnersAgree, Live
<1>2. ASSUME Owned, [Next]_vars PROVE Owned'
  <2>1. Copies'
    BY <1>2, CopiesStayCopied DEF Owned
  <2>2. ASSUME NEW r \in Requests, acts(r) PROVE RowsHaveSeries' /\ SeriesOwnersAgree'
    BY <1>2, <2>2, RowSeriesStay, OwnersStayAgreed DEF Owned, Copies
  <2>3. ASSUME tick PROVE RowsHaveSeries' /\ SeriesOwnersAgree'
    BY <1>2, <2>3, TickMoves DEF Owned, Copies, RowsHaveSeries, SeriesOwnersAgree, Live
  <2>4. ASSUME UNCHANGED vars PROVE RowsHaveSeries' /\ SeriesOwnersAgree'
    BY <1>2, <2>4 DEF vars, tables, history, Owned, RowsHaveSeries, SeriesOwnersAgree, Live
  <2>5. RowsHaveSeries' /\ SeriesOwnersAgree'
    BY <1>2, <2>2, <2>3, <2>4, StepsAct
  <2> QED
    BY <2>1, <2>5 DEF Owned
<1> QED
  BY <1>1, <1>2

\* A series and its occurrences belong to one person through transfers, splits and
\* extensions that overlap as they like, unless one was saved from an outdated copy.
THEOREM OwnersAgree == Spec => []SeriesOwnersAgree
<1>1. Owned => SeriesOwnersAgree
  BY DEF Owned
<1>2. (Init => Owned) /\ (Owned /\ [Next]_vars => Owned')
  BY StaysOwned
<1> QED
  BY <1>1, <1>2, PTL DEF Spec

-----------------------------------------------------------------------------
(* The import of the holidays.                                             *)

\* What has not begun at a time has not ended the day before.
LEMMA ComingVacations ==
  ASSUME NEW v \in Vacations, NEW t \in Nat, v[1] * DayLength >= t
  PROVE  v[2] >= dayOf(t)
<1>1. v \in Days \X Days /\ v[1] <= v[2]
  BY FormsAssumption
<1>2. v[1] \in Nat /\ v[2] \in Nat /\ v[1] <= v[2]
  BY <1>1, DayBounds DEF Days
<1>3. dayOf(t) \in Nat /\ dayOf(t) * DayLength <= t
  BY DayOfTime
<1>4. ASSUME v[1] < dayOf(t) PROVE FALSE
  <2>1. v[1] * DayLength + DayLength <= dayOf(t) * DayLength
    BY <1>2, <1>3, <1>4, DaysFollow
  <2>2. v[1] * DayLength \in Nat /\ dayOf(t) * DayLength \in Nat
    BY <1>2, <1>3, DayBounds
  <2> QED
    BY <1>3, <2>1, <2>2, DayBounds
<1> QED
  BY <1>2, <1>3, <1>4

LEMMA OthersKeepHolidays ==
  ASSUME Typed, NEW r \in Requests, NEW O, effect(r, O), NEW x \in Requests, x # r,
         Imports(req[x]), now' = now
  PROVE  Imports(req[x])'
<1>1. /\ SameCall(req[x], req'[x])
      /\ Holidays \in req'[x].fresh => Holidays \in req[x].fresh /\ Holidays \notin O
  BY OthersFresh
<1>2. Holidays \notin O => holidays' = holidays
  BY DEF effect, Confined
<1> QED
  BY <1>1, <1>2 DEF Imports, SameCall

LEMMA OwnKeepsHolidays ==
  ASSUME Typed, NEW r \in Requests, acts(r), Imports(req[r])
  PROVE  Imports(req[r])'
<1>0. /\ TypeOK /\ now \in Nat /\ now' = now /\ req[r].since \in Nat
      /\ holidays \in [Vacations -> Nat] /\ req[r].todo \in SUBSET Vacations
      /\ \A v \in Vacations : v[1] * DayLength \in Nat
  <2>1. \A v \in Vacations : v[1] \in Days
    BY FormsAssumption
  <2>2. \A v \in Vacations : v[1] * DayLength \in Nat
    BY <2>1, DayBounds DEF Days
  <2>3. req[r].since \in Times /\ req[r].todo \in SUBSET Vacations
    BY RequestTypes DEF Request
  <2> QED
    BY <2>2, <2>3, TimeBounds, TablesStayTyped DEF Typed, TypeOK
<1>1. CASE starts(r)
  <2>1. req'[r].kind # "reorganize"
    BY <1>1, Starts DEF new, newCreate, newUpdate, newDelete, newTransfer, newSeries,
                        newDeleteSeries, newSaveSeries, newSplit
  <2> QED
    BY <2>1 DEF Imports
<1>2. CASE importOpenHolidays(r)
  BY <1>0, <1>2, ImportBegins DEF Imports
<1>3. CASE Progress(r)
  <2>1. CASE req'[r] = Idle
    BY <2>1, IdleFields DEF Imports
  <2>2. CASE req[r].kind # "reorganize" /\ SameTask(req[r], req'[r])
    BY <2>2 DEF Imports, SameTask
  <2>3. CASE fetch(r)
    <3>1. /\ req[r].kind = "reorganize" /\ req[r].step = "fetch" /\ req'[r].step = "import"
          /\ req'[r].since = req[r].since /\ req'[r].fresh = req[r].fresh
          /\ SameTask(req[r], req'[r]) /\ holidays' = holidays
          /\ \A v \in Vacations : v \in req'[r].todo <=> v[2] >= dayOf(req[r].since)
      BY <2>3, FetchMoves DEF tables
    <3>2. \A v \in Vacations : v[1] * DayLength >= req[r].since => v \in req'[r].todo
      BY <1>0, <3>1, ComingVacations
    <3> QED
      BY <1>0, <3>1, <3>2 DEF Imports, SameTask
  <2>4. CASE saveHoliday(r)
    <3>1. /\ req[r].kind = "reorganize" /\ req[r].step = "import" /\ req'[r].step = "import"
          /\ req'[r].since = req[r].since /\ req'[r].fresh = req[r].fresh
          /\ SameTask(req[r], req'[r])
      BY <2>4, SaveHolidayMoves
    <3>2. PICK v \in req[r].todo :
            /\ holidays'[v] = holidays[v] + 1 /\ req'[r].todo = req[r].todo \ {v}
            /\ \A w \in Vacations \ {v} : holidays'[w] = holidays[w]
      BY <2>4, SaveHolidayMoves
    <3>3. ASSUME Holidays \in req[r].fresh, NEW w \in Vacations,
                 w[1] * DayLength >= req[r].since
          PROVE  holidays'[w] = IF w \in req'[r].todo THEN 0 ELSE 1
      <4>1. holidays[w] = IF w \in req[r].todo THEN 0 ELSE 1
        BY <3>1, <3>3 DEF Imports
      <4> QED
        BY <3>2, <4>1
    <3> QED
      BY <1>0, <3>1, <3>3 DEF Imports, SameTask
  <2>5. CASE loadSeries(r)
    <3>1. /\ req[r].kind = "reorganize" /\ req[r].step = "import" /\ req[r].todo = {}
          /\ req'[r].step = "begin" /\ SameTask(req[r], req'[r]) /\ holidays' = holidays
          /\ Holidays \in req'[r].fresh => Holidays \in req[r].fresh
      BY <2>5, LoadSeriesMoves DEF tables
    <3>2. ASSUME Holidays \in req[r].fresh, NEW v \in Vacations, v[1] * DayLength >= now
          PROVE  holidays[v] = 1
      <4>1. req[r].since <= now
        BY <3>1, <3>2 DEF Imports
      <4>2. v[1] * DayLength >= req[r].since
        BY <1>0, <3>2, <4>1
      <4> QED
        BY <3>1, <3>2, <4>2 DEF Imports
    <3> QED
      BY <1>0, <3>1, <3>2 DEF Imports, SameTask
  <2>6. CASE (reorganizeSeries(r) \/ commitReorganization(r)) /\ req'[r] # Idle
    <3>1. /\ req[r].kind = "reorganize" /\ req[r].step \in {"begin", "commit"}
          /\ req'[r].step \in {"begin", "commit"} /\ SameTask(req[r], req'[r])
          /\ holidays' = holidays
      BY <2>6, ReorganizeMoves, CommitReorganizationMoves DEF tables
    <3>2. \/ req'[r].fresh = req[r].fresh
          \/ req'[r].fresh = req[r].fresh \cup {Place(req'[r].entity.place)}
      BY <2>6, ReorganizeMoves, CommitReorganizationMoves
    <3>3. Holidays \in req'[r].fresh => Holidays \in req[r].fresh
      BY <3>2, ObjectsDiffer
    <3> QED
      BY <1>0, <3>1, <3>3 DEF Imports, SameTask
  <2>7. CASE dryRun(r) \/ splitSeries(r) \/ purge(r)
    BY <2>1, <2>2, <2>7, DryRunMoves, SplitMoves, PurgeMoves
  <2>8. CASE askHoliday(r)
    <3>1. /\ SameTask(req[r], req'[r]) /\ req'[r].step = "commit" /\ req[r].step = "commit"
          /\ req'[r].fresh = req[r].fresh /\ holidays' = holidays
      BY <2>8, AskHolidayMoves DEF tables
    <3> QED
      BY <1>0, <3>1 DEF Imports, SameTask
  <2> QED
    BY <1>3, <2>1, <2>2, <2>3, <2>4, <2>5, <2>6, <2>7, <2>8, SeriesSteps DEF RowKinds
<1> QED
  BY <1>1, <1>2, <1>3 DEF acts

Importing == Typed /\ \A r \in Requests : Imports(req[r])
LEMMA StaysImporting ==
  /\ Init => Importing
  /\ Importing /\ [Next]_vars => Importing'
<1>1. ASSUME Init PROVE Importing
  <2>1. \A r \in Requests : req[r] = Idle
    BY <1>1 DEF Init
  <2> QED
    BY <1>1, <2>1, IdleFields, TypedInitially DEF Importing, Imports
<1>2. ASSUME Importing, [Next]_vars PROVE Importing'
  <2>1. Typed'
    BY <1>2, StepsStayTyped DEF Importing
  <2>2. ASSUME NEW r \in Requests, acts(r) PROVE \A x \in Requests : Imports(req[x])'
    <3>1. PICK O : effect(r, O)
      BY <1>2, <2>2, StepsAreConfined DEF Importing
    <3>2. now' = now
      BY <1>2, <2>2, TablesStayTyped DEF Importing
    <3> QED
      BY <1>2, <2>2, <3>1, <3>2, OthersKeepHolidays, OwnKeepsHolidays DEF Importing
  <2>3. ASSUME tick PROVE \A x \in Requests : Imports(req[x])'
    <3> TAKE x \in Requests
    <3>1. /\ now \in Nat /\ now' = now + 1 /\ UNCHANGED <<holidays, req>> /\ Imports(req[x])
          /\ req[x].since \in Nat
      <4>1. Typed /\ now \in Nat
        BY <1>2, DayBounds DEF Importing, Typed, TypeOK
      <4>2. req[x].since \in Nat
        BY <4>1, RequestTypes, TimeBounds DEF Request
      <4> QED
        BY <1>2, <2>3, <4>1, <4>2, TickMoves DEF Importing
    <3>2. \A v \in Vacations : v[1] * DayLength \in Nat
      <4>1. \A v \in Vacations : v[1] \in Days
        BY FormsAssumption
      <4> QED
        BY <4>1, DayBounds DEF Days
    <3>3. /\ req[x].since <= now => req[x].since <= now + 1
          /\ \A v \in Vacations : v[1] * DayLength >= now + 1 => v[1] * DayLength >= now
      BY <3>1, <3>2
    <3> QED
      BY <3>1, <3>3 DEF Imports
  <2>4. ASSUME UNCHANGED vars PROVE \A x \in Requests : Imports(req[x])'
    BY <1>2, <2>4 DEF vars, tables, Importing, Imports
  <2>5. \A x \in Requests : Imports(req[x])'
    BY <1>2, <2>2, <2>3, <2>4, StepsAct
  <2> QED
    BY <2>1, <2>5 DEF Importing
<1> QED
  BY <1>1, <1>2

\* The reorganization generates occurrences only when every holiday that is still to
\* come is listed, once, unless another import overlaps.
THEOREM HolidaysStayKnown == Spec => []HolidaysAreKnown
<1>1. Importing => HolidaysAreKnown
  BY DEF Importing, HolidaysAreKnown, Imports, At, Is, Fresh
<1>2. (Init => Importing) /\ (Importing /\ [Next]_vars => Importing')
  BY StaysImporting
<1> QED
  BY <1>1, <1>2, PTL DEF Spec

-----------------------------------------------------------------------------
(* The days that are generated.                                            *)

LEMMA TimeIsDayAndTime ==
  ASSUME NEW t \in Nat
  PROVE  t = dayOf(t) * DayLength + (t % DayLength)
<1>1. DayLength \in Nat /\ DayLength > 0
  BY DayBounds
<1> QED
  BY <1>1 DEF dayOf

LEMMA DayTimes ==
  /\ DayLength \in Nat /\ \A d \in Days : d \in Nat /\ d * DayLength \in Nat
  /\ \A t \in Nat : twoYearsAhead(t) \in Nat
<1>1. \A d \in Days : d \in Nat
  BY DayBounds DEF Days
<1>2. \A d \in Nat : d * DayLength \in Nat
  BY DayBounds
<1>3. Ahead * DayLength \in Nat
  BY <1>2, DayBounds
<1> QED
  BY <1>1, <1>2, <1>3, DayBounds DEF twoYearsAhead

LEMMA EntityTimes ==
  ASSUME NEW e \in Entity
  PROVE  /\ e.first \in Times /\ e.last \in Times /\ e.until \in Times
         /\ e.first \in Nat /\ e.last \in Nat /\ e.until \in Nat
BY TimeBounds DEF Entity

\* The loop comes along every day between the two times, and along no other day.
LEMMA VisitedDays ==
  ASSUME NEW e \in Entity, NEW from \in Nat, NEW until \in Nat
  PROVE  /\ until <= e.last => \A d \in Days :
              dayOf(from) <= d /\ d < dayOf(until) => d \in visited(e, from, until)
         /\ \A d \in visited(e, from, until) : dayOf(from) <= d /\ d * DayLength <= until
<1>0. e.last \in Nat /\ DayLength \in Nat /\ \A d \in Days : d \in Nat /\ d * DayLength \in Nat
  BY EntityTimes, DayTimes
<1>1. PICK m, f : m = from % DayLength /\ f = dayOf(from)
  OBVIOUS
<1>2. /\ from = f * DayLength + m /\ m < DayLength /\ f * DayLength \in Nat
      /\ m \in Nat /\ f \in Nat
  <2>1. f \in Nat /\ m \in 0..(DayLength - 1) /\ from = f * DayLength + m
    BY <1>1, TimeIsDayAndTime, DayOfTime
  <2> QED
    BY <1>0, <2>1
<1>3. ASSUME until <= e.last, NEW d \in Days, f <= d, d < dayOf(until)
      PROVE  d \in visited(e, from, until)
  <2>1. f * DayLength <= d * DayLength
    <3>1. CASE f = d
      BY <1>0, <3>1
    <3>2. CASE f < d
      BY <1>0, <1>2, <3>2, DaysFollow
    <3> QED
      BY <1>0, <1>2, <1>3, <3>1, <3>2
  <2>2. d * DayLength + DayLength <= dayOf(until) * DayLength
    BY <1>0, <1>3, DaysFollow, DayOfTime
  <2>3. dayOf(until) * DayLength \in Nat /\ dayOf(until) * DayLength <= until
    BY <1>0, DayOfTime
  <2>4. from <= d * DayLength + m /\ d * DayLength + m <= until /\ d * DayLength + m <= e.last
    BY <1>0, <1>2, <1>3, <2>1, <2>2, <2>3
  <2> QED
    BY <1>1, <2>4 DEF visited
<1>4. ASSUME NEW d \in visited(e, from, until)
      PROVE  f <= d /\ d * DayLength <= until
  <2>1. d \in Days /\ from <= d * DayLength + m /\ d * DayLength + m <= until
    BY <1>1 DEF visited
  <2>2. ASSUME d < f PROVE FALSE
    <3>1. d * DayLength + DayLength <= f * DayLength
      BY <1>0, <1>2, <2>1, <2>2, DaysFollow
    <3> QED
      BY <1>0, <1>2, <2>1, <3>1
  <2> QED
    BY <1>0, <1>2, <2>1, <2>2
<1> QED
  BY <1>1, <1>3, <1>4

LEMMA NextDay ==
  ASSUME NEW t \in Nat
  PROVE  dayOf(t + DayLength) = dayOf(t) + 1
<1>1. PICK k, j : k = dayOf(t) /\ j = dayOf(t + DayLength)
  OBVIOUS
<1>2. /\ k * DayLength <= t /\ t < k * DayLength + DayLength
      /\ j * DayLength <= t + DayLength /\ t + DayLength < j * DayLength + DayLength
      /\ DayLength \in Nat /\ k * DayLength \in Nat /\ j * DayLength \in Nat
      /\ (k + 1) * DayLength = k * DayLength + DayLength /\ k \in Nat /\ j \in Nat
  <2>1. t + DayLength \in Nat /\ DayLength \in Nat
    BY DayBounds
  <2>2. k \in Nat /\ k * DayLength <= t /\ t < k * DayLength + DayLength
    BY <1>1, DayOfTime
  <2>3. /\ j \in Nat /\ j * DayLength <= t + DayLength
        /\ t + DayLength < j * DayLength + DayLength
    BY <1>1, <2>1, DayOfTime
  <2> QED
    BY <2>1, <2>2, <2>3
<1>3. ASSUME j < k + 1 PROVE FALSE
  <2>1. j * DayLength + DayLength <= (k + 1) * DayLength
    BY <1>2, <1>3, DaysFollow
  <2> QED
    BY <1>2, <2>1
<1>4. ASSUME k + 1 < j PROVE FALSE
  <2>1. (k + 1) * DayLength + DayLength <= j * DayLength
    BY <1>2, <1>4, DaysFollow
  <2> QED
    BY <1>2, <2>1
<1> QED
  BY <1>1, <1>2, <1>3, <1>4

LEMMA NewGenerates ==
  ASSUME Typed, NEW r \in Requests, req' \in [Requests -> Request], new(req'[r])
  PROVE  Generates(req'[r])
<1>1. PICK q \in Request : q = req'[r]
  OBVIOUS
<1>2. CASE newSeries(q)
  <2>1. now \in Nat /\ twoYearsAhead(now) \in Nat /\ q.entity \in Entity
        /\ q.entity.first \in Nat /\ q.entity.last \in Times
    <3>1. now \in Nat
      BY DayBounds DEF Typed, TypeOK
    <3>2. q.entity \in Entity
      BY <1>2 DEF newSeries
    <3> QED
      BY <3>1, <3>2, EntityTimes, DayTimes
  <2>2. q.entity.until <= q.entity.last
    BY <1>2, <2>1, EarlierTypes DEF newSeries
  <2>3. q.days = visited(q.entity, q.entity.first, q.entity.until)
    BY <1>2, <2>1, VisitedUntil DEF newSeries
  <2> QED
    BY <1>1, <1>2, <2>2, <2>3 DEF newSeries, Generates
<1>3. CASE newSplit(q)
  BY <1>1, <1>3 DEF newSplit, Generates
<1>4. CASE /\ q.kind # "split" /\ q.step # "commit"
  BY <1>1, <1>4 DEF Generates
<1> QED
  BY <1>1, <1>2, <1>3, <1>4
     DEF new, newCreate, newUpdate, newDelete, newTransfer, newDeleteSeries, newSaveSeries

LEMMA OwnGenerates ==
  ASSUME Typed, NEW r \in Requests, acts(r), Generates(req[r])
  PROVE  Generates(req'[r])
<1>0. TypeOK /\ req[r] \in Request
  BY RequestTypes DEF Typed
<1>1. CASE starts(r)
  BY <1>1, Starts, NewGenerates DEF begun
<1>2. CASE importOpenHolidays(r)
  <2>1. req'[r].kind = "reorganize" /\ req'[r].step = "fetch"
    BY <1>0, <1>2, ImportBegins
  <2> QED
    BY <2>1 DEF Generates
<1>3. CASE Progress(r)
  <2>1. CASE req'[r] = Idle
    BY <2>1, IdleFields DEF Generates
  <2>2. CASE req[r].kind \in RowKinds /\ SameTask(req[r], req'[r])
    <3>1. req'[r].kind \in RowKinds /\ Known(req[r])'
      BY <1>3, <2>2, OwnStaysKnown DEF SameTask, acts
    <3>2. req'[r].step # "commit"
      BY <3>1 DEF Known, RowKinds, StepsOf
    <3> QED
      BY <3>1, <3>2 DEF Generates, RowKinds
  <2>3. CASE dryRun(r) /\ req'[r] # Idle
    BY <2>3, DryRunMoves DEF Generates, SameTask
  <2>4. CASE splitSeries(r)
    <3>1. /\ req[r].kind = "split" /\ req'[r].kind = "split"
          /\ req'[r].entity = req[r].entity /\ req'[r].since = req[r].since
          /\ req'[r].days = visited(req[r].entity, req[r].since, twoYearsAhead(req[r].since))
      BY <2>4, SplitMoves DEF SameTask, splitDays
    <3>2. PICK e \in Entity, t \in Times : e = req[r].entity /\ t = req[r].since
      BY <1>0 DEF Request
    <3>3. /\ e.first = t /\ e.until = Earlier(e.last, twoYearsAhead(t)) /\ t \in Nat
          /\ twoYearsAhead(t) \in Nat /\ e.last \in Times
      BY <3>1, <3>2, TimeBounds, DayTimes, EntityTimes DEF Generates
    <3>4. e.until <= e.last
      BY <3>3, EarlierTypes
    <3>5. req'[r].days = visited(e, e.first, e.until)
      BY <3>1, <3>2, <3>3, VisitedUntil
    <3> QED
      BY <3>1, <3>2, <3>3, <3>4, <3>5 DEF Generates
  <2>5. CASE purge(r)
    <3>1. req'[r].step = "drop" /\ req'[r].kind = "deleteSeries"
      BY <2>5, PurgeMoves DEF SameTask
    <3> QED
      BY <3>1 DEF Generates
  <2>6. CASE (fetch(r) \/ saveHoliday(r) \/ loadSeries(r) \/ commitReorganization(r))
             /\ req'[r] # Idle
    <3>1. req'[r].step # "commit" /\ req'[r].kind = "reorganize"
      BY <2>6, FetchMoves, SaveHolidayMoves, LoadSeriesMoves, CommitReorganizationMoves
         DEF SameTask
    <3> QED
      BY <3>1 DEF Generates
  <2>7. CASE reorganizeSeries(r)
    <3>1. CASE req'[r].step = "begin"
      <4>1. req'[r].kind = "reorganize"
        BY <2>7, ReorganizeMoves DEF SameTask
      <4> QED
        BY <3>1, <4>1 DEF Generates
    <3>2. CASE req'[r].step # "begin"
      <4>1. /\ req[r].kind = "reorganize" /\ req'[r].kind = "reorganize" /\ req[r].left # {}
            /\ req'[r].entities = req[r].entities /\ req'[r].left = req[r].left
            /\ req'[r].entity \in Entity
        BY <2>7, <3>2, ReorganizeMoves DEF SameTask
      <4>2. PICK e \in Entity, old \in Entity, since \in Nat :
              /\ e = req'[r].entity /\ old = req[r].entities[nextSeries(r)]
              /\ since = req[r].since
        BY <1>0, <4>1, SmallestLeft, TimeBounds DEF Request
      <4>3. /\ e.last = old.last /\ e.until = Earlier(old.last, twoYearsAhead(since))
            /\ old.until < twoYearsAhead(since)
            /\ req'[r].days = visited(e, old.until + DayLength, twoYearsAhead(since))
        BY <2>7, <3>2, <4>2, ReorganizeMoves
      <4>4. /\ old.until \in Nat /\ old.last \in Times /\ old.last \in Nat
            /\ twoYearsAhead(since) \in Nat /\ old.until + DayLength \in Nat
        BY EntityTimes, DayTimes
      <4>5. e.until <= e.last /\ (old.until <= old.last => old.until <= e.until)
        BY <4>3, <4>4 DEF Earlier
      <4>6. req'[r].days = visited(e, old.until + DayLength, e.until)
        BY <4>3, <4>4, VisitedUntil
      <4>7. old = req'[r].entities[Smallest(req'[r].left)]
        BY <4>1, <4>2 DEF nextSeries
      <4> QED
        BY <4>1, <4>2, <4>3, <4>5, <4>6, <4>7 DEF Generates
    <3> QED
      BY <3>1, <3>2
  <2>8. CASE askHoliday(r)
    BY <2>8, AskHolidayMoves DEF Generates, SameTask
  <2> QED
    BY <1>3, <2>1, <2>2, <2>3, <2>4, <2>5, <2>6, <2>7, <2>8, SeriesSteps
<1> QED
  BY <1>1, <1>2, <1>3 DEF acts

AllGenerate == \A r \in Requests : Generates(req[r])
LEMMA StepsGenerate ==
  ASSUME Typed, AllGenerate, [Next]_vars
  PROVE  AllGenerate'
<1>1. ASSUME NEW r \in Requests, acts(r) PROVE AllGenerate'
  <2>1. PICK O : effect(r, O)
    BY <1>1, StepsAreConfined
  <2>2. ASSUME NEW x \in Requests, x # r PROVE Generates(req'[x])
    <3>1. SameCall(req[x], req'[x]) /\ Generates(req[x])
      BY <2>1, <2>2, OthersFresh DEF AllGenerate
    <3> QED
      BY <3>1 DEF SameCall, Generates
  <2>3. Generates(req'[r])
    BY <1>1, OwnGenerates DEF AllGenerate
  <2>4. \A x \in Requests : Generates(req'[x])
    BY <2>2, <2>3
  <2> QED
    BY <2>4 DEF AllGenerate, Generates
<1>2. CASE tick
  BY <1>2, TickMoves DEF AllGenerate, Generates
<1>3. CASE UNCHANGED vars
  BY <1>3 DEF vars, AllGenerate, Generates
<1> QED
  BY <1>1, <1>2, <1>3, StepsAct

\* The series s is created by r, its days and the time until which it is generated
\* are written by r, or it is extended by r.
createdBy(r, s) ==
  /\ commitSplit(r) \/ commitSeries(r)
  /\ req[r].step = "commit" /\ req[r].kind # "reorganize"
  /\ series[s].state = "free" /\ series'[s] = req[r].entity
  /\ considered' = counted(s, req[r].days)
writtenBy(r, s) ==
  /\ writesSeries(r, s) /\ ~commitReorganization(r)
  /\ series'[s].until = req[r].entities[s].until /\ considered'[s] = considered[s]
  /\ s \in shortened' \/ series[s].until <= series'[s].last
extendedBy(r, s) ==
  /\ writesSeries(r, s) /\ req[r].kind = "reorganize" /\ req[r].step = "commit"
  /\ s = Smallest(req[r].left)
  /\ series'[s] = req[r].entity /\ considered' = counted(s, req[r].days)

LEMMA SeriesHistory ==
  ASSUME Copies, NEW r \in Requests, acts(r), NEW s \in SeriesIds
  PROVE  \/ series'[s] = series[s] /\ considered'[s] = considered[s]
         \/ series[s].state # "free" /\ series'[s].state = "gone"
         \/ series'[s].state = "live" /\ createdBy(r, s)
         \/ /\ series[s].state # "free" /\ series'[s].state = "live"
            /\ writtenBy(r, s) \/ extendedBy(r, s)
<1>0. /\ Typed /\ TypeOK /\ req[r].days \in SUBSET Days
      /\ req[r].kind \in Writers => req[r].entity.state = "live"
  BY RequestTypes DEF Copies, Typed, Request, Known
<1>1. CASE starts(r) \/ importOpenHolidays(r)
  BY <1>0, <1>1, Starts, StartsAreConfined, ImportBegins DEF history
<1>2. CASE insert(r) \/ save(r)
  BY <1>0, <1>2, InsertMoves, SaveMoves
<1>3. CASE remove(r) \/ purge(r) \/ saveHoliday(r) \/ drop(r)
  <2>1. considered' = considered
    BY <1>0, <1>3, RemoveMoves, PurgeMoves, SaveHolidayMoves, DropMoves DEF history
  <2> QED
    BY <1>0, <1>3, <2>1, RemoveMoves, PurgeMoves, SaveHolidayMoves, DropMoves
<1>4. CASE commitSeries(r)
  <2>1. PICK x \in SeriesIds :
          /\ series[x].state = "free" /\ series'[x] = req[r].entity
          /\ \A y \in SeriesIds \ {x} : series'[y] = series[y]
          /\ considered' = counted(x, req[r].days)
    BY <1>0, <1>4, CommitSeriesMoves
  <2>2. /\ req[r].entity.state = "live" /\ req[r].step = "commit" /\ req[r].kind # "reorganize"
    BY <1>0, <1>4, CommitSeriesMoves DEF Writers
  <2>3. CASE s = x
    BY <1>4, <2>1, <2>2, <2>3 DEF createdBy
  <2>4. CASE s # x
    BY <1>0, <2>1, <2>4, Counted
  <2> QED
    BY <2>3, <2>4
<1>5. CASE commitSplit(r)
  <2>1. PICK x \in SeriesIds :
          /\ series[x].state = "free" /\ series'[x] = req[r].entity
          /\ \A y \in SeriesIds \ {x, req[r].series} : series'[y] = series[y]
          /\ considered' = counted(x, req[r].days)
    BY <1>0, <1>5, CommitSplitMoves
  <2>2. /\ req[r].entity.state = "live" /\ req[r].step = "commit" /\ req[r].kind # "reorganize"
    BY <1>0, <1>5, CommitSplitMoves DEF Writers
  <2>3. CASE s = x
    BY <1>5, <2>1, <2>2, <2>3 DEF createdBy
  <2>4. CASE s # x /\ s # req[r].series
    BY <1>0, <2>1, <2>4, Counted
  <2>5. CASE s = req[r].series
    <3>1. /\ series[s].state # "free" /\ series'[s].state = "live"
          /\ series'[s].until = req[r].entities[s].until
          /\ s \in shortened' \/ series[s].until <= series'[s].last
      BY <1>0, <1>5, <2>5, CommitSplitMoves
    <3>2. considered'[s] = considered[s]
      BY <1>0, <2>1, <3>1, Counted
    <3>3. writesSeries(r, s) /\ ~commitReorganization(r)
      BY <1>0, <1>5, <2>2, <2>5, CommitReorganizationMoves DEF writesSeries
    <3> QED
      BY <3>1, <3>2, <3>3 DEF writtenBy
  <2> QED
    BY <2>3, <2>4, <2>5
<1>6. CASE saveSeries(r)
  <2>1. /\ considered' = considered /\ \A x \in SeriesIds \ {req[r].series} : series'[x] = series[x]
    BY <1>0, <1>6, SaveSeriesMoves
  <2>2. CASE s = req[r].series
    <3>1. /\ series[s].state # "free" /\ series'[s] = req[r].entity
          /\ series'[s].state = "live" /\ req[r].kind \in {"updateSeries", "transferSeries"}
          /\ s \in shortened' \/ series[s].until <= series'[s].last
      BY <1>0, <1>6, <2>2, SaveSeriesMoves
    <3>2. series'[s].until = req[r].entities[s].until
      BY <2>2, <3>1 DEF Copies, AllSeriesCopied, SeriesCopied, SeriesKinds
    <3>3. writesSeries(r, s) /\ ~commitReorganization(r)
      BY <1>0, <1>6, <2>2, <3>1, CommitReorganizationMoves DEF writesSeries
    <3> QED
      BY <2>1, <3>1, <3>2, <3>3 DEF writtenBy
  <2> QED
    BY <2>1, <2>2
<1>7. CASE commitReorganization(r)
  <2>1. CASE req'[r] = Idle /\ UNCHANGED <<rows, series, history>>
    BY <2>1 DEF history
  <2>2. CASE ~(req'[r] = Idle /\ UNCHANGED <<rows, series, history>>)
    <3>1. /\ req[r].kind = "reorganize" /\ req[r].step = "commit" /\ req'[r].step = "begin"
          /\ nextSeries(r) \in SeriesIds /\ series[nextSeries(r)].state # "free"
          /\ series'[nextSeries(r)] = req[r].entity /\ req[r].entity.state = "live"
          /\ \A x \in SeriesIds \ {nextSeries(r)} : series'[x] = series[x]
          /\ considered' = counted(nextSeries(r), req[r].days)
      BY <1>0, <1>7, <2>2, CommitReorganizationMoves
    <3>2. CASE s = nextSeries(r)
      BY <1>7, <3>1, <3>2, IdleFields DEF extendedBy, writesSeries, nextSeries
    <3>3. CASE s # nextSeries(r)
      BY <1>0, <3>1, <3>3, Counted
    <3> QED
      BY <3>2, <3>3
  <2> QED
    BY <2>1, <2>2
<1>8. CASE check(r) \/ dryRun(r) \/ splitSeries(r) \/ fetch(r) \/ loadSeries(r)
           \/ reorganizeSeries(r) \/ endReorganization(r) \/ abort(r) \/ askHoliday(r)
  <2>1. UNCHANGED tables /\ UNCHANGED history
    BY <1>0, <1>8, CheckMoves, DryRunMoves, SplitMoves, FetchMoves, LoadSeriesMoves,
       ReorganizeMoves, EndMoves, AskHolidayMoves
  <2> QED
    BY <2>1 DEF tables, history
<1> QED
  BY <1>1, <1>2, <1>3, <1>4, <1>5, <1>6, <1>7, <1>8 DEF acts, Progress

\* The series that r creates: its days are those from its start until its time.
LEMMA CreatedDays ==
  ASSUME Copies, AllGenerate, NEW r \in Requests, NEW s \in SeriesIds, createdBy(r, s)
  PROVE  \E e \in Entity, D \in SUBSET Days :
           /\ e = series'[s] /\ e.until <= e.last /\ considered' = counted(s, D)
           /\ D = visited(e, e.first, e.until)
<1>1. PICK e \in Entity, D \in SUBSET Days : e = req[r].entity /\ D = req[r].days
  BY RequestTypes DEF Copies, Request
<1>2. e.until <= e.last /\ D = visited(e, e.first, e.until)
  BY <1>1 DEF createdBy, AllGenerate, Generates
<1> QED
  BY <1>1, <1>2 DEF createdBy

\* The series that r extends, unless from an outdated copy: its days are those from
\* the day after the one until which it was generated.
LEMMA ExtendedDays ==
  ASSUME Copies, AllGenerate, NEW r \in Requests, NEW s \in SeriesIds, extendedBy(r, s),
         s \notin stale'
  PROVE  \E e \in Entity, D \in SUBSET Days :
           /\ e = series'[s] /\ e.until <= e.last /\ considered' = counted(s, D)
           /\ series[s].state = "live"
           /\ D = visited(e, series[s].until + DayLength, e.until)
           /\ series[s].until <= series[s].last => series[s].until <= e.until
<1>1. PICK e \in Entity, D \in SUBSET Days : e = req[r].entity /\ D = req[r].days
  BY RequestTypes DEF Copies, Request
<1>2. PICK old : old = req[r].entities[Smallest(req[r].left)]
  OBVIOUS
<1>3. /\ e.until <= e.last /\ D = visited(e, old.until + DayLength, e.until)
      /\ old.until <= old.last => old.until <= e.until
  BY <1>1, <1>2 DEF extendedBy, AllGenerate, Generates
<1>4. series[s].state = "live" /\ series[s] = old
  BY <1>2, SeriesWasRead DEF extendedBy
<1> QED
  BY <1>1, <1>3, <1>4 DEF extendedBy

onlyOnce == NewSeriesAreNew /\ GeneratedUntil /\ DaysAreGeneratedOnce

LEMMA DaysStayOnce ==
  ASSUME Copies, AllGenerate, onlyOnce, NEW r \in Requests, acts(r)
  PROVE  onlyOnce'
<1>0. /\ Typed /\ TypeOK /\ stale \subseteq stale' /\ shortened \subseteq shortened'
      /\ series \in [SeriesIds -> Entity] /\ series' \in [SeriesIds -> Entity]
      /\ considered \in [SeriesIds -> [Days -> 0..2]]
      /\ considered' \in [SeriesIds -> [Days -> 0..2]]
  BY TablesStayTyped DEF Copies, Typed, TypeOK, tablesTyped
<1>1. ASSUME NEW s \in SeriesIds, series'[s].state = "free", NEW d \in Days
      PROVE  considered'[s][d] = 0
  <2>1. series'[s] = series[s] /\ considered'[s] = considered[s]
    BY <1>1, SeriesHistory
  <2> QED
    BY <1>1, <2>1 DEF onlyOnce, NewSeriesAreNew
<1>2. ASSUME NEW s \in SeriesIds, series'[s].state = "live", s \notin stale', s \notin shortened'
      PROVE  /\ series'[s].until <= series'[s].last
             /\ \A d \in Days : /\ considered'[s][d] > 0 => d * DayLength <= series'[s].until
                                /\ considered'[s][d] <= 1
  <2>1. s \notin stale /\ s \notin shortened
    BY <1>0, <1>2
  <2>2. ASSUME series[s].state = "live"
        PROVE  /\ series[s].until <= series[s].last
               /\ \A d \in Days : /\ considered[s][d] > 0 => d * DayLength <= series[s].until
                                  /\ considered[s][d] <= 1
    BY <2>1, <2>2 DEF onlyOnce, GeneratedUntil, DaysAreGeneratedOnce, LiveSeries
  <2>3. CASE series'[s] = series[s] /\ considered'[s] = considered[s]
    BY <1>2, <2>2, <2>3
  <2>4. CASE createdBy(r, s)
    <3>1. PICK e \in Entity, D \in SUBSET Days :
            /\ e = series'[s] /\ e.until <= e.last /\ considered' = counted(s, D)
            /\ D = visited(e, e.first, e.until)
      BY <2>4, CreatedDays
    <3>2. \A d \in Days : considered[s][d] = 0
      BY <2>4 DEF createdBy, onlyOnce, NewSeriesAreNew
    <3>3. \A d \in D : d * DayLength <= e.until
      BY <3>1, VisitedDays, EntityTimes
    <3>4. \A d \in Days : IF d \in D THEN considered'[s][d] = 1 ELSE considered'[s][d] = 0
      BY <1>0, <3>1, <3>2, Counted
    <3> QED
      BY <3>1, <3>3, <3>4
  <2>5. CASE writtenBy(r, s)
    <3>1. series[s].state = "live" /\ series[s] = req[r].entities[s]
      BY <1>2, <2>5, SeriesWasRead DEF writtenBy
    <3>2. series'[s].until = series[s].until /\ considered'[s] = considered[s]
          /\ series[s].until <= series'[s].last
      BY <1>2, <2>5, <3>1 DEF writtenBy
    <3> QED
      BY <2>2, <3>1, <3>2
  <2>6. CASE extendedBy(r, s)
    <3>1. PICK e \in Entity, D \in SUBSET Days :
            /\ e = series'[s] /\ e.until <= e.last /\ considered' = counted(s, D)
            /\ series[s].state = "live"
            /\ D = visited(e, series[s].until + DayLength, e.until)
            /\ series[s].until <= series[s].last => series[s].until <= e.until
      BY <1>2, <2>6, ExtendedDays
    <3>2. PICK t \in Nat : t = series[s].until /\ t <= e.until
      BY <1>0, <2>2, <3>1, EntityTimes
    <3>3. ASSUME NEW d \in D
          PROVE  d * DayLength <= e.until /\ considered'[s][d] = 1
      <4>1. t + DayLength \in Nat /\ dayOf(t + DayLength) = dayOf(t) + 1 /\ e.until \in Nat
        BY NextDay, DayTimes, EntityTimes
      <4>2. dayOf(t) + 1 <= d /\ d * DayLength <= e.until
        BY <3>1, <3>2, <4>1, VisitedDays
      <4>3. dayOf(t) \in Nat /\ d \in Nat /\ t < dayOf(t) * DayLength + DayLength
        BY DayOfTime, DayTimes
      <4>4. dayOf(t) * DayLength + DayLength <= d * DayLength
        BY <4>2, <4>3, DaysFollow
      <4>5. ~(d * DayLength <= t)
        BY <4>3, <4>4, DayTimes, DayOfTime
      <4>6. considered[s][d] = 0
        <5>1. ~(considered[s][d] > 0) /\ considered[s][d] \in 0..2
          BY <1>0, <2>2, <3>1, <3>2, <4>5
        <5> QED
          BY <5>1
      <4> QED
        BY <1>0, <3>1, <4>2, <4>6, Counted
    <3>4. ASSUME NEW d \in Days \ D
          PROVE  considered'[s][d] = considered[s][d]
      BY <1>0, <3>1, Counted
    <3>5. ASSUME NEW d \in Days \ D, considered[s][d] > 0 PROVE d * DayLength <= e.until
      <4>1. d * DayLength <= t /\ t <= e.until
        BY <2>2, <3>1, <3>2, <3>5
      <4> QED
        BY <4>1, DayTimes, EntityTimes
    <3>6. ASSUME NEW d \in Days
          PROVE  /\ considered'[s][d] > 0 => d * DayLength <= e.until
                 /\ considered'[s][d] <= 1
      <4>1. CASE d \in D
        BY <3>3, <4>1
      <4>2. CASE d \notin D
        BY <2>2, <3>1, <3>4, <3>5, <4>2
      <4> QED
        BY <4>1, <4>2
    <3> QED
      BY <3>1, <3>6
  <2> QED
    BY <1>2, <2>3, <2>4, <2>5, <2>6, SeriesHistory
<1>3. NewSeriesAreNew'
  BY <1>1 DEF NewSeriesAreNew
<1>4. GeneratedUntil' /\ DaysAreGeneratedOnce'
  BY <1>2 DEF GeneratedUntil, DaysAreGeneratedOnce, LiveSeries
<1> QED
  BY <1>3, <1>4 DEF onlyOnce

Generating == Copies /\ AllGenerate /\ onlyOnce
LEMMA StaysGenerating ==
  /\ Init => Generating
  /\ Generating /\ [Next]_vars => Generating'
<1>1. ASSUME Init PROVE Generating
  <2>1. \A r \in Requests : req[r] = Idle
    BY <1>1 DEF Init
  <2>2. AllGenerate
    BY <2>1, IdleFields DEF AllGenerate, Generates
  <2>3. \A s \in SeriesIds : series[s].state = "free" /\ \A d \in Days : considered[s][d] = 0
    BY <1>1, Defaults DEF Init
  <2>4. onlyOnce
    BY <2>3 DEF onlyOnce, NewSeriesAreNew, GeneratedUntil, DaysAreGeneratedOnce, LiveSeries
  <2> QED
    BY <1>1, <2>2, <2>4, CopiesStayCopied DEF Generating
<1>2. ASSUME Generating, [Next]_vars PROVE Generating'
  <2>1. Copies' /\ AllGenerate'
    BY <1>2, CopiesStayCopied, StepsGenerate DEF Generating, Copies
  <2>2. ASSUME NEW r \in Requests, acts(r) PROVE onlyOnce'
    BY <1>2, <2>2, DaysStayOnce DEF Generating
  <2>3. ASSUME tick PROVE onlyOnce'
    BY <1>2, <2>3, TickMoves DEF Generating, Copies, onlyOnce, NewSeriesAreNew, GeneratedUntil,
                                 DaysAreGeneratedOnce, LiveSeries
  <2>4. ASSUME UNCHANGED vars PROVE onlyOnce'
    BY <1>2, <2>4 DEF vars, tables, history, Generating, onlyOnce, NewSeriesAreNew,
                      GeneratedUntil, DaysAreGeneratedOnce, LiveSeries
  <2> QED
    BY <1>2, <2>1, <2>2, <2>3, <2>4, StepsAct DEF Generating
<1> QED
  BY <1>1, <1>2

\* No day of a series is generated a second time, which would bring occurrences back
\* that were deleted, unless the series was shortened or saved from an outdated copy.
THEOREM GeneratedOnce == Spec => []DaysAreGeneratedOnce
<1>1. Generating => DaysAreGeneratedOnce
  BY DEF Generating, onlyOnce
<1>2. (Init => Generating) /\ (Generating /\ [Next]_vars => Generating')
  BY StaysGenerating
<1> QED
  BY <1>1, <1>2, PTL DEF Spec

\* What GenerationIsComplete says of one step.
completes ==
  \A s \in SeriesIds :
    /\ series'[s].state = "live" /\ s \notin stale'
    /\ series[s].state = "free" \/ series[s].until # series'[s].until
    => \A d \in Days :
         /\ IF series[s].state = "free" THEN dayOf(series'[s].first) <= d
            ELSE dayOf(series[s].until) < d
         /\ d < dayOf(series'[s].until)
         => considered'[s][d] > 0

LEMMA StepsComplete ==
  ASSUME Generating, NEW r \in Requests, acts(r)
  PROVE  completes
<1>0. /\ Typed /\ TypeOK /\ Copies /\ AllGenerate
      /\ series \in [SeriesIds -> Entity]
  BY DEF Generating, Copies, Typed, TypeOK
<1>1. SUFFICES ASSUME NEW s \in SeriesIds, series'[s].state = "live", s \notin stale',
                      series[s].state = "free" \/ series[s].until # series'[s].until,
                      NEW d \in Days,
                      IF series[s].state = "free" THEN dayOf(series'[s].first) <= d
                      ELSE dayOf(series[s].until) < d,
                      d < dayOf(series'[s].until)
               PROVE  considered'[s][d] > 0
  BY DEF completes
<1>2. CASE createdBy(r, s)
  <2>1. PICK e \in Entity, D \in SUBSET Days :
          /\ e = series'[s] /\ e.until <= e.last /\ considered' = counted(s, D)
          /\ D = visited(e, e.first, e.until)
    BY <1>0, <1>2, CreatedDays
  <2>2. series[s].state = "free"
    BY <1>2 DEF createdBy
  <2>3. d \in D
    BY <1>1, <2>1, <2>2, VisitedDays, EntityTimes
  <2> QED
    BY <1>0, <2>1, <2>3, Counted
<1>3. CASE writtenBy(r, s)
  <2>1. series[s].state = "live" /\ series[s] = req[r].entities[s]
    BY <1>0, <1>1, <1>3, SeriesWasRead DEF writtenBy
  <2> QED
    BY <1>1, <1>3, <2>1 DEF writtenBy
<1>4. CASE extendedBy(r, s)
  <2>1. PICK e \in Entity, D \in SUBSET Days :
          /\ e = series'[s] /\ e.until <= e.last /\ considered' = counted(s, D)
          /\ series[s].state = "live"
          /\ D = visited(e, series[s].until + DayLength, e.until)
    BY <1>0, <1>1, <1>4, ExtendedDays
  <2>2. PICK t \in Nat : t = series[s].until
    BY <1>0, EntityTimes
  <2>3. /\ t + DayLength \in Nat /\ dayOf(t + DayLength) = dayOf(t) + 1 /\ dayOf(t) \in Nat
        /\ e.until \in Nat /\ d \in Nat
    <3>1. DayLength \in Nat /\ d \in Nat /\ e.until \in Nat
      BY DayTimes, EntityTimes
    <3>2. dayOf(t) \in Nat /\ dayOf(t + DayLength) = dayOf(t) + 1
      BY NextDay, DayOfTime
    <3> QED
      BY <3>1, <3>2
  <2>4. dayOf(t + DayLength) <= d
    BY <1>1, <2>1, <2>2, <2>3
  <2>5. d \in D
    BY <1>1, <2>1, <2>2, <2>3, <2>4, VisitedDays
  <2> QED
    BY <1>0, <2>1, <2>5, Counted
<1>5. CASE series'[s] = series[s]
  BY <1>1, <1>5
<1> QED
  BY <1>0, <1>1, <1>2, <1>3, <1>4, <1>5, SeriesHistory

\* Whoever moves the time until which a series is generated has generated every day
\* before it, from the start of a new series or from the day after the one on which
\* the last generation ended.
THEOREM CompletelyGenerated == Spec => GenerationIsComplete
<1>1. ASSUME Generating, Next PROVE [completes]_vars
  <2>1. ASSUME NEW r \in Requests, acts(r) PROVE completes
    BY <1>1, <2>1, StepsComplete
  <2>2. ASSUME tick PROVE completes
    <3>1. UNCHANGED <<series, considered>>
      BY <1>1, <2>2, TickMoves DEF Generating, Copies
    <3> QED
      BY <3>1 DEF completes
  <2> QED
    BY <1>1, <2>1, <2>2, StepsAct
<1>2. Generating /\ [Next]_vars => [completes]_vars
  BY <1>1
<1>3. (Init => Generating) /\ (Generating /\ [Next]_vars => Generating')
  BY StaysGenerating
<1> QED
  BY <1>2, <1>3, PTL DEF Spec, GenerationIsComplete, completes

-----------------------------------------------------------------------------
(* What a request has found free stays free as long as its place is fresh. *)

\* Nothing has come to a place that was not written.
LEMMA NothingComes ==
  ASSUME NEW r, NEW O, effect(r, O), NEW i \in Rows, rows'[i].state = "live",
         Place(rows'[i].place) \notin O
  PROVE  /\ rows[i].state = "live" /\ rows'[i].place = rows[i].place
         /\ rows'[i].start = rows[i].start /\ rows'[i].end = rows[i].end
         /\ rows'[i].background = rows[i].background /\ rows'[i].series = rows[i].series
BY DEF effect, Confined

LEMMA StaysFree ==
  ASSUME NEW r, NEW O, effect(r, O), NEW row, Place(row.place) \notin O, NEW E, Free(row, E)
  PROVE  \A i \in Rows \ E : rows'[i].state = "live" /\ ~rows'[i].background
                             => ~Overlap(rows'[i], row)
<1> SUFFICES ASSUME NEW i \in Rows \ E, rows'[i].state = "live", ~rows'[i].background,
                    Overlap(rows'[i], row)
             PROVE  FALSE
  OBVIOUS
<1>1. rows'[i].place = row.place
  BY DEF Overlap
<1>2. /\ rows[i].state = "live" /\ rows'[i].place = rows[i].place
      /\ rows'[i].start = rows[i].start /\ rows'[i].end = rows[i].end
      /\ rows'[i].background = rows[i].background
  BY <1>1, NothingComes
<1>3. Overlap(rows[i], row) /\ ~rows[i].background /\ i \in Live \ E
  BY <1>2 DEF Overlap, Live
<1> QED
  BY <1>3 DEF Free

LEMMA OthersStayChecked ==
  ASSUME Typed, NEW r \in Requests, NEW O, effect(r, O), NEW x \in Requests, x # r,
         Checked(req[x])
  PROVE  Checked(req[x])'
<1>1. PICK q, n : q = req[x] /\ n = req'[x]
  OBVIOUS
<1>2. SameCall(q, n) /\ \A o : o \in n.fresh => o \in q.fresh /\ o \notin O
  BY <1>1, OthersFresh
<1>3. ASSUME n.kind = "create", Place(n.row.place) \in n.fresh
      PROVE  \A i \in Rows : rows'[i].state = "live" /\ ~rows'[i].background
                             => ~Overlap(rows'[i], n.row)
  <2>1. Free(q.row, {}) /\ Place(q.row.place) \notin O /\ n.row = q.row
    BY <1>1, <1>2, <1>3 DEF Checked, SameCall
  <2> QED
    BY <2>1, StaysFree
<1>4. ASSUME n.kind = "update", n.step = "save", Place(n.row.place) \in n.fresh
      PROVE  \A i \in Rows \ {n.event} : rows'[i].state = "live" /\ ~rows'[i].background
                                         => ~Overlap(rows'[i], n.row)
  <2>1. Free(q.row, {q.event}) /\ Place(q.row.place) \notin O /\ n.row = q.row /\ n.event = q.event
    BY <1>1, <1>2, <1>4 DEF Checked, SameCall
  <2> QED
    BY <2>1, StaysFree
<1>5. ASSUME n.step = "commit", Place(n.entity.place) \in n.fresh, NEW d \in n.occurrences,
             NEW i \in Rows, rows'[i].state = "live",
             ~(n.kind = "split" /\ rows'[i].series = n.series /\ rows'[i].start >= n.since),
             Overlap(rows'[i], occurrence(n.entity, Unsaved, d))
      PROVE  FALSE
  <2>1. /\ q.step = "commit" /\ q.kind = n.kind /\ q.entity = n.entity /\ q.occurrences = n.occurrences
        /\ q.series = n.series /\ q.since = n.since
        /\ Place(n.entity.place) \in q.fresh /\ Place(n.entity.place) \notin O
    BY <1>2, <1>5 DEF SameCall
  <2>2. PICK row : row = occurrence(n.entity, Unsaved, d)
    OBVIOUS
  <2>3. row.place = n.entity.place /\ rows'[i].place = row.place
    BY <1>5, <2>2 DEF occurrence, Overlap
  <2>4. /\ rows[i].state = "live" /\ rows'[i].place = rows[i].place
        /\ rows'[i].start = rows[i].start /\ rows'[i].end = rows[i].end
        /\ rows'[i].series = rows[i].series
    BY <1>5, <2>1, <2>3, NothingComes
  <2>5. Overlap(rows[i], row) /\ i \in Live /\ ~replaced(q, i)
    BY <1>5, <2>1, <2>2, <2>4 DEF Overlap, Live, replaced
  <2> QED
    BY <1>1, <1>5, <2>1, <2>2, <2>5 DEF Checked
<1> QED
  BY <1>1, <1>3, <1>4, <1>5 DEF Checked, Free, Live, replaced

\* The days that are generated overlap nothing that is visible.
LEMMA GeneratedDaysFit ==
  ASSUME NEW e, NEW s, NEW D, NEW V, NEW d \in generated(e, s, D, V), NEW i \in V
  PROVE  ~Overlap(rows[i], occurrence(e, Unsaved, d))
<1>1. ~Overlap(rows[i], occurrence(e, s, d))
  BY DEF generated, hasOverlap
<1>2. PICK a, b : a = occurrence(e, s, d) /\ b = occurrence(e, Unsaved, d)
  OBVIOUS
<1>3. a.place = b.place /\ a.start = b.start /\ a.end = b.end
  BY <1>2 DEF occurrence
<1> QED
  BY <1>1, <1>2, <1>3 DEF Overlap

LEMMA NewIsChecked ==
  ASSUME NEW r, new(req'[r]), UNCHANGED <<now, rows, series, holidays>>
  PROVE  Checked(req[r])'
<1>1. PICK q : q = req'[r]
  OBVIOUS
<1>2. UNCHANGED rows /\ Live' = Live
  BY DEF Live
<1>3. CASE newCreate(q)
  BY <1>1, <1>2, <1>3 DEF newCreate, Checked, Free
<1>4. CASE newSeries(q)
  <2>1. \A d \in q.occurrences, i \in Live : ~Overlap(rows[i], occurrence(q.entity, Unsaved, d))
    BY <1>4, GeneratedDaysFit DEF newSeries
  <2> QED
    BY <1>1, <1>2, <1>4, <2>1 DEF newSeries, Checked
<1>5. CASE newUpdate(q) \/ newDelete(q) \/ newTransfer(q) \/ newDeleteSeries(q)
           \/ newSaveSeries(q) \/ newSplit(q)
  BY <1>1, <1>5 DEF newUpdate, newDelete, newTransfer, newDeleteSeries, newSaveSeries, newSplit,
                    Checked
<1> QED
  BY <1>1, <1>3, <1>4, <1>5 DEF new

LEMMA OwnStaysChecked ==
  ASSUME Typed, NEW r \in Requests, acts(r), Checked(req[r])
  PROVE  Checked(req[r])'
<1>0. TypeOK
  BY DEF Typed
<1>1. CASE starts(r)
  BY <1>1, Starts, StartsAreConfined, NewIsChecked
<1>2. CASE importOpenHolidays(r)
  <2>1. req'[r].kind = "reorganize" /\ req'[r].step = "fetch"
    BY <1>0, <1>2, ImportBegins
  <2> QED
    BY <2>1 DEF Checked
<1>3. CASE Progress(r)
  <2>1. CASE req'[r] = Idle
    BY <2>1, IdleFields DEF Checked
  <2>2. CASE save(r) /\ req'[r] # Idle
    <3>1. req'[r].kind = "delete" /\ req'[r].step = "remove"
      BY <2>2, SaveMoves DEF SameTask
    <3> QED
      BY <3>1 DEF Checked
  <2>3. CASE check(r) /\ req'[r] # Idle
    <3>1. /\ req'[r].kind = "update" /\ req'[r].step = "save" /\ req'[r].row = req[r].row
          /\ req'[r].event = req[r].event /\ UNCHANGED rows
          /\ Free(req[r].row, {req[r].event})
      BY <2>3, CheckMoves DEF SameTask, tables
    <3> QED
      BY <3>1 DEF Checked, Free, Live
  <2>4. CASE splitSeries(r)
    <3>1. PICK V : V = {i \in Live : ~(rows[i].series = req[r].series
                                       /\ rows[i].start >= req[r].since)}
      OBVIOUS
    <3>2. /\ req'[r].kind = "split" /\ req'[r].step = "commit" /\ req'[r].series = req[r].series
          /\ req'[r].since = req[r].since
          /\ req'[r].occurrences = generated(req'[r].entity, Unsaved, splitDays(r), V)
          /\ UNCHANGED rows
      BY <2>4, <3>1, SplitMoves DEF SameTask, tables
    <3>3. \A d \in req'[r].occurrences, i \in V :
            ~Overlap(rows[i], occurrence(req'[r].entity, Unsaved, d))
      BY <3>2, GeneratedDaysFit
    <3> QED
      BY <3>1, <3>2, <3>3 DEF Checked, Live, replaced
  <2>5. CASE reorganizeSeries(r)
    <3>1. /\ req'[r].kind = "reorganize" /\ UNCHANGED rows
          /\ req'[r].step = "commit" =>
               req'[r].occurrences =
                 generated(req'[r].entity, nextSeries(r), req'[r].days, Live)
      BY <2>5, ReorganizeMoves DEF SameTask, tables
    <3>2. req'[r].step = "commit" => \A d \in req'[r].occurrences, i \in Live :
            ~Overlap(rows[i], occurrence(req'[r].entity, Unsaved, d))
      BY <3>1, GeneratedDaysFit
    <3> QED
      BY <3>1, <3>2 DEF Checked, Live
  <2>6. CASE (dryRun(r) \/ purge(r)) /\ req'[r] # Idle
    <3>1. req'[r].kind \in {"split", "deleteSeries"} /\ req'[r].step \in {"dryRun", "begin", "drop"}
      BY <2>6, DryRunMoves, PurgeMoves DEF SameTask
    <3> QED
      BY <3>1 DEF Checked
  <2>7. CASE (fetch(r) \/ saveHoliday(r) \/ loadSeries(r) \/ commitReorganization(r))
             /\ req'[r] # Idle
    <3>1. req'[r].step # "commit" /\ req'[r].kind = "reorganize"
      BY <2>7, FetchMoves, SaveHolidayMoves, LoadSeriesMoves, CommitReorganizationMoves
         DEF SameTask
    <3> QED
      BY <3>1 DEF Checked
  <2>8. CASE askHoliday(r)
    <3>1. /\ SameTask(req[r], req'[r]) /\ req[r].step = "commit" /\ req'[r].step = "commit"
          /\ req'[r].entity = req[r].entity /\ req'[r].fresh = req[r].fresh
          /\ req'[r].since = req[r].since /\ UNCHANGED rows
          /\ req[r].kind \in {"createSeries", "split", "reorganize"}
      BY <2>8, AskHolidayMoves DEF tables
    <3>2. \A d \in req'[r].occurrences : d \in req[r].occurrences
      BY <2>8, AskHolidayMoves
    <3> QED
      BY <3>1, <3>2 DEF Checked, SameTask, Live, replaced
  <2> QED
    BY <1>3, <2>1, <2>2, <2>3, <2>4, <2>5, <2>6, <2>7, <2>8, SeriesSteps, RowSteps
<1> QED
  BY <1>1, <1>2, <1>3 DEF acts

AllChecked == \A r \in Requests : Checked(req[r])
LEMMA StaysChecked ==
  /\ Init => Copies /\ AllChecked
  /\ Copies /\ AllChecked /\ [Next]_vars => (Copies /\ AllChecked)'
<1>1. ASSUME Init PROVE Copies /\ AllChecked
  <2>1. \A r \in Requests : req[r] = Idle
    BY <1>1 DEF Init
  <2> QED
    BY <1>1, <2>1, IdleFields, CopiesStayCopied DEF AllChecked, Checked
<1>2. ASSUME Copies, AllChecked, [Next]_vars PROVE (Copies /\ AllChecked)'
  <2>0. Typed /\ Copies'
    BY <1>2, CopiesStayCopied DEF Copies
  <2>1. ASSUME NEW r \in Requests, acts(r) PROVE AllChecked'
    <3>1. PICK O : effect(r, O)
      BY <2>0, <2>1, StepsAreConfined
    <3> QED
      BY <1>2, <2>0, <2>1, <3>1, OthersStayChecked, OwnStaysChecked DEF AllChecked
  <2>2. ASSUME tick PROVE AllChecked'
    <3>1. UNCHANGED <<rows, req>> /\ Live' = Live
      BY <2>0, <2>2, TickMoves DEF Live
    <3> QED
      BY <1>2, <3>1 DEF AllChecked, Checked, Free, replaced
  <2>3. ASSUME UNCHANGED vars PROVE AllChecked'
    <3>1. UNCHANGED <<rows, req>> /\ Live' = Live
      BY <2>3 DEF vars, tables, Live
    <3> QED
      BY <1>2, <3>1 DEF AllChecked, Checked, Free, replaced
  <2> QED
    BY <1>2, <2>0, <2>1, <2>2, <2>3, StepsAct
<1> QED
  BY <1>1, <1>2

-----------------------------------------------------------------------------
(* The calendar keeps what it promises about bookings.                     *)

standsNow(i) == rows[i].state = "live" /\ ~rows[i].background
standsNext(i) == rows'[i].state = "live" /\ ~rows'[i].background
comes(i) ==
  standsNext(i) /\ ~(/\ standsNow(i) /\ rows'[i].place = rows[i].place
                     /\ rows'[i].start = rows[i].start /\ rows'[i].end = rows[i].end)
fitsIn ==
  \A i \in Rows \ unchecked', j \in Rows \ unchecked' :
    i # j /\ comes(i) /\ standsNext(j) => ~Overlap(rows'[i], rows'[j])

slot(row) == [place |-> row.place, start |-> row.start, end |-> row.end]

LEMMA BookingsChange ==
  ASSUME TypeOK, TypeOK', unchecked \subseteq unchecked', fitsIn
  PROVE  B!Change
<1> DEFINE before == {j \in Live : ~rows[j].background}
           after == {j \in Rows : standsNext(j)}
           books == [i \in before |-> slot(rows[i])]
           next == [i \in after |-> slot(rows'[i])]
<1>1. after = {j \in Live' : ~rows'[j].background}
  BY DEF standsNext, Live
<1>2. ASSUME NEW i \in Rows PROVE rows[i] \in Row /\ rows'[i] \in Row
  BY DEF TypeOK
<1>3. \A i \in after : next[i] \in B!Booking
  BY <1>2 DEF B!Booking, slot, Row
<1>4. ASSUME NEW i \in after, ~(i \in before /\ books[i] = next[i])
      PROVE  comes(i) /\ i \in Rows
  BY <1>4 DEF comes, standsNow, standsNext, slot, Live
<1>5. ASSUME NEW i \in after \ unchecked', ~(i \in before /\ books[i] = next[i]),
             NEW j \in after \ unchecked', i # j
      PROVE  ~B!Overlap(next[i], next[j])
  <2>1. ~Overlap(rows'[i], rows'[j])
    BY <1>4, <1>5 DEF fitsIn
  <2> QED
    BY <2>1 DEF Overlap, B!Overlap, slot
<1>6. unchecked' \subseteq Rows /\ after \subseteq Rows
  BY DEF TypeOK
<1> QED
  BY <1>1, <1>3, <1>5, <1>6 DEF B!Change, B!Written, slot
LEMMA OverlapIsSymmetric ==
  ASSUME NEW a, NEW b, Overlap(a, b)
  PROVE  Overlap(b, a)
BY DEF Overlap

\* A series has at most the whole of each of its days.
LEMMA DaysAreApart ==
  ASSUME NEW e \in Entity, NEW d \in Days, NEW f \in Days, d # f
  PROVE  ~(/\ d * DayLength + e.from < f * DayLength + e.to
           /\ d * DayLength + e.to > f * DayLength + e.from)
<1>1. /\ e.from \in Nat /\ e.to \in Nat /\ e.from <= DayLength /\ e.to <= DayLength
      /\ DayLength \in Nat /\ d \in Nat /\ f \in Nat
      /\ d * DayLength \in Nat /\ f * DayLength \in Nat
  <2>1. e.from \in 0..DayLength /\ e.to \in 0..DayLength
    BY DEF Entity
  <2> QED
    BY <2>1, DayTimes
<1>2. CASE d < f
  <2>1. d * DayLength + DayLength <= f * DayLength
    BY <1>1, <1>2, DaysFollow
  <2> QED
    BY <1>1, <2>1
<1>3. CASE f < d
  <2>1. f * DayLength + DayLength <= d * DayLength
    BY <1>1, <1>3, DaysFollow
  <2> QED
    BY <1>1, <2>1
<1> QED
  BY <1>1, <1>2, <1>3

\* The occurrences that r generates fit in with what stands and with one another.
LEMMA NewRowsFit ==
  ASSUME Typed, NEW r \in Requests, Checked(req[r]), req[r].step = "commit",
         NEW e, NEW D, e = req[r].entity, D = req[r].occurrences,
         NEW s, NEW table, grown(e, s, D, table), judged(r, e, D),
         \A j \in Rows : table[j].state = "live"
                         => table[j] = rows[j] /\ ~replaced(req[r], j),
         NEW i \in newRows(D) \ unchecked', NEW j \in Rows, i # j, standsNext(j)
  PROVE  ~Overlap(rows'[i], rows'[j])
<1>1. e \in Entity /\ D \in SUBSET Days
  BY RequestTypes DEF Request
<1>2. Place(e.place) \in req[r].fresh
  BY DEF judged
<1>3. PICK d : d = dayFor(D, i)
  OBVIOUS
<1>4. /\ d \in D /\ rows'[i].place = e.place
      /\ rows'[i].start = d * DayLength + e.from /\ rows'[i].end = d * DayLength + e.to
  BY <1>3, NewRowFields
<1>5. CASE j \in newRows(D)
  <2>1. PICK f : f = dayFor(D, j)
    OBVIOUS
  <2>2. f # d
    <3>1. \A k, l \in newRows(D) : dayFor(D, k) = dayFor(D, l) => k = l
      BY DEF grown
    <3>2. i \in newRows(D)
      OBVIOUS
    <3> QED
      BY <1>3, <1>5, <2>1, <3>1, <3>2
  <2>3. /\ f \in D
        /\ rows'[j].start = f * DayLength + e.from /\ rows'[j].end = f * DayLength + e.to
    BY <1>5, <2>1, NewRowFields
  <2>4. d \in Days /\ f \in Days
    BY <1>1, <1>4, <2>3
  <2> QED
    BY <1>1, <1>4, <2>2, <2>3, <2>4, DaysAreApart DEF Overlap
<1>6. CASE j \notin newRows(D)
  <2>1. rows'[j] = table[j]
    BY <1>6 DEF grown
  <2>2. rows'[j] = rows[j] /\ j \in Live /\ ~replaced(req[r], j)
    BY <2>1 DEF standsNext, Live
  <2>3. PICK row : row = occurrence(e, Unsaved, d)
    OBVIOUS
  <2>4. ~Overlap(rows[j], row)
    BY <1>2, <1>4, <2>2, <2>3 DEF Checked
  <2>5. row.place = e.place /\ row.start = d * DayLength + e.from /\ row.end = d * DayLength + e.to
    BY <2>3 DEF occurrence
  <2>6. ~Overlap(rows'[j], rows'[i])
    BY <1>4, <2>2, <2>4, <2>5 DEF Overlap
  <2> QED
    BY <2>6, OverlapIsSymmetric
<1> QED
  BY <1>5, <1>6

\* A row that is new after a generation is one of those it generates.
LEMMA JoinedFits ==
  ASSUME Copies, AllChecked, NEW r \in Requests, NEW i \in Rows \ unchecked', joined(r, i),
         standsNext(i), NEW j \in Rows, i # j, standsNext(j)
  PROVE  ~Overlap(rows'[i], rows'[j])
<1>0. /\ Typed /\ TypeOK /\ Checked(req[r]) /\ rows[i].state = "free" /\ rows'[i].state = "live"
  BY DEF Copies, AllChecked, Typed, joined, standsNext
<1>1. PICK e, D : e = req[r].entity /\ D = req[r].occurrences
  OBVIOUS
<1>2. CASE commitSeries(r)
  <2>1. PICK s : grown(e, s, D, rows)
    BY <1>0, <1>1, <1>2, CommitSeriesMoves
  <2>2. /\ judged(r, e, D) /\ req[r].step = "commit" /\ \A k \in Rows : ~replaced(req[r], k)
    BY <1>0, <1>1, <1>2, CommitSeriesMoves DEF replaced
  <2>3. i \in newRows(D)
    BY <1>0, <2>1 DEF grown
  <2> QED
    BY <1>0, <1>1, <2>1, <2>2, <2>3, NewRowsFit
<1>3. CASE commitReorganization(r)
  <2>1. CASE UNCHANGED <<rows, series, history>>
    BY <1>0, <2>1
  <2>2. CASE ~UNCHANGED <<rows, series, history>>
    <3>1. grown(e, nextSeries(r), D, rows)
      BY <1>0, <1>1, <1>3, <2>2, CommitReorganizationMoves
    <3>2. /\ judged(r, e, D) /\ req[r].step = "commit" /\ \A k \in Rows : ~replaced(req[r], k)
      BY <1>0, <1>1, <1>3, <2>2, CommitReorganizationMoves DEF replaced
    <3>3. i \in newRows(D)
      BY <1>0, <3>1 DEF grown
    <3> QED
      BY <1>0, <1>1, <3>1, <3>2, <3>3, NewRowsFit
  <2> QED
    BY <2>1, <2>2
<1>4. CASE commitSplit(r)
  <2>1. PICK s : grown(e, s, D, withoutFuture(r))
    BY <1>0, <1>1, <1>4, CommitSplitMoves
  <2>2. judged(r, e, D) /\ req[r].step = "commit"
    BY <1>0, <1>1, <1>4, CommitSplitMoves
  <2>3. ASSUME NEW k \in Rows, withoutFuture(r)[k].state = "live"
        PROVE  withoutFuture(r)[k] = rows[k] /\ ~replaced(req[r], k)
    <3>1. k \notin splitOff(r) /\ withoutFuture(r)[k] = rows[k] /\ k \in Live
      BY <1>0, <2>3, FutureIsDeleted DEF Live
    <3> QED
      BY <3>1 DEF splitOff, replaced
  <2>4. i \in newRows(D)
    <3>1. i \notin newRows(D) => rows'[i] = withoutFuture(r)[i]
      BY <2>1 DEF grown
    <3> QED
      BY <1>0, <2>3, <3>1
  <2> QED
    BY <1>0, <1>1, <2>1, <2>2, <2>3, <2>4, NewRowsFit
<1> QED
  BY <1>2, <1>3, <1>4 DEF joined, generates

LEMMA StepsFitIn ==
  ASSUME Copies, AllChecked, NEW r \in Requests, acts(r)
  PROVE  fitsIn
<1>0. /\ Typed /\ TypeOK /\ Checked(req[r]) /\ RowCopied(req[r])
  BY DEF Copies, AllChecked, RowsCopied, Typed
<1>1. SUFFICES ASSUME NEW i \in Rows \ unchecked', NEW j \in Rows \ unchecked',
                      i # j, comes(i), standsNext(j)
               PROVE  ~Overlap(rows'[i], rows'[j])
  BY DEF fitsIn
<1>2. standsNext(i) /\ rows'[i] # rows[i]
  BY <1>1 DEF comes, standsNow, standsNext
<1>3. CASE ended(i)
  BY <1>2, <1>3 DEF ended, standsNext
<1>4. CASE saved(r, i)
  <2>1. /\ i = req[r].event /\ rows'[i] = req[r].row /\ rows'[j] = rows[j]
        /\ req[r].kind \in RowKinds /\ req[r].step = "save"
    BY <1>0, <1>1, <1>4, SaveMoves DEF saved, save, At
  <2>2. /\ Event(i) \in req[r].fresh
        /\ req[r].kind = "update" => Place(req[r].row.place) \in req[r].fresh
    BY <1>0, <1>1, <1>4, <2>1, SaveMoves DEF saved
  <2>3. req[r].kind = "update"
    <3>1. ASSUME req[r].kind # "update"
          PROVE  /\ rows[i].state = "live" /\ rows'[i].place = rows[i].place
                 /\ rows'[i].background = rows[i].background
                 /\ rows'[i].start = rows[i].start /\ rows'[i].end = rows[i].end
      BY <1>0, <2>1, <2>2, <3>1 DEF RowCopied
    <3> QED
      BY <1>1, <1>2, <3>1 DEF comes, standsNow, standsNext
  <2>4. Free(req[r].row, {i})
    BY <1>0, <2>1, <2>2, <2>3 DEF Checked
  <2>5. j \in Live /\ ~rows[j].background
    BY <1>1, <2>1 DEF standsNext, Live
  <2>6. ~Overlap(rows[j], req[r].row)
    BY <1>1, <2>4, <2>5 DEF Free
  <2> QED
    BY <2>1, <2>6, OverlapIsSymmetric
<1>5. CASE inserted(r, i)
  <2>1. PICK k \in Rows : /\ rows'[k] = req[r].row
                          /\ \A x \in Rows \ {k} : rows'[x] = rows[x]
                          /\ unchecked' = IF Place(req[r].row.place) \in req[r].fresh
                                          THEN unchecked ELSE unchecked \cup {k}
    BY <1>0, <1>5, InsertMoves DEF inserted
  <2>2. k = i
    BY <1>2, <2>1
  <2>3. Free(req[r].row, {}) /\ rows'[i] = req[r].row /\ rows'[j] = rows[j]
    BY <1>0, <1>1, <1>5, <2>1, <2>2, InsertMoves DEF Checked, inserted
  <2>4. ~Overlap(rows[j], req[r].row)
    BY <1>1, <2>3 DEF Free, standsNext, Live
  <2> QED
    BY <2>3, <2>4, OverlapIsSymmetric
<1>6. CASE handedOver(r, i)
  <2>1. /\ rows'[i].state = rows[i].state /\ rows'[i].place = rows[i].place
        /\ rows'[i].background = rows[i].background
        /\ rows'[i].start = rows[i].start /\ rows'[i].end = rows[i].end
    BY <1>0, <1>6, SaveSeriesMoves DEF handedOver
  <2> QED
    BY <1>1, <2>1 DEF comes, standsNow, standsNext
<1>7. CASE joined(r, i)
  BY <1>1, <1>2, <1>7, JoinedFits
<1> QED
  BY <1>0, <1>2, <1>3, <1>4, <1>5, <1>6, <1>7, RowChange

\* The calendar implements what it promises about bookings: whichever requests
\* overlap, what is booked, moved, generated or restored fits in with every other
\* booking, unless the place or the row has changed since it was checked.
THEOREM CalendarImplementsBookings == Spec => ImplementsBookings
<1> DEFINE Inv == Copies /\ AllChecked
<1>1. Init => B!Init
  <2>1. ASSUME Init PROVE {j \in Live : ~rows[j].background} = {} /\ unchecked = {}
    BY <2>1, Defaults DEF Init, Live
  <2> QED
    BY <2>1 DEF B!Init
<1>2. ASSUME Inv, Inv', [Next]_vars PROVE [B!Change]_(B!vars)
  <2>1. TypeOK /\ TypeOK' /\ Typed
    BY <1>2 DEF Copies, Typed
  <2>2. ASSUME NEW r \in Requests, acts(r) PROVE B!Change
    BY <1>2, <2>1, <2>2, StepsFitIn, TablesStayTyped, BookingsChange DEF tablesTyped
  <2>3. ASSUME tick PROVE UNCHANGED B!vars
    <3>1. UNCHANGED <<rows, unchecked>>
      BY <2>1, <2>3, TickMoves
    <3> QED
      BY <3>1 DEF B!vars, Live
  <2>4. ASSUME UNCHANGED vars PROVE UNCHANGED B!vars
    <3>1. UNCHANGED <<rows, unchecked>>
      BY <2>4 DEF vars, tables, history
    <3> QED
      BY <3>1 DEF B!vars, Live
  <2> QED
    BY <1>2, <2>2, <2>3, <2>4, StepsAct
<1>3. (Init => Inv) /\ (Inv /\ [Next]_vars => Inv')
  BY StaysChecked
<1> HIDE DEF Inv
<1> QED
  BY <1>1, <1>2, <1>3, PTL DEF Spec, ImplementsBookings, B!Spec

\* What the promise of the calendar comes to: of two bookings of a room or a resource
\* that stand and are no background events, one ends before the other begins, unless
\* one was written after the place or the row had changed since its check.
BookingsApart ==
  \A i, j \in Live \ unchecked :
    i # j /\ ~rows[i].background /\ ~rows[j].background => ~Overlap(rows[i], rows[j])

\* No room and no resource is ever booked twice by requests whose checks still held
\* when they wrote.
THEOREM NoDoubleBooking == Spec => []BookingsApart
<1>1. Init => B!Disjoint
  BY Defaults DEF Init, Live, B!Disjoint
<1>2. B!Disjoint /\ B!Change => B!Disjoint'
  <2> DEFINE b == [i \in {j \in Live : ~rows[j].background} |->
                     [place |-> rows[i].place, start |-> rows[i].start, end |-> rows[i].end]]
  <2> SUFFICES ASSUME B!Disjoint, B!Change,
                      NEW i \in DOMAIN b' \ unchecked', NEW j \in DOMAIN b' \ unchecked',
                      i # j, B!Overlap(b'[i], b'[j])
               PROVE  FALSE
    BY DEF B!Disjoint
  <2>1. \A x \in B!Written(b') \ unchecked', y \in DOMAIN b' \ unchecked' :
          x # y => ~B!Overlap(b'[x], b'[y])
    BY DEF B!Change
  <2>2. unchecked \subseteq unchecked'
    BY DEF B!Change
  <2>3. \A x \in DOMAIN b' : x \notin B!Written(b') => x \in DOMAIN b /\ b[x] = b'[x]
    BY DEF B!Written
  <2>4. \A x, y \in DOMAIN b \ unchecked : x # y => ~B!Overlap(b[x], b[y])
    BY DEF B!Disjoint
  <2> HIDE DEF b
  <2>5. B!Overlap(b'[j], b'[i])
    BY DEF B!Overlap
  <2> QED
    BY <2>1, <2>2, <2>3, <2>4, <2>5
<1>3. B!Disjoint /\ UNCHANGED B!vars => B!Disjoint'
  BY DEF B!vars, B!Disjoint
<1>4. B!Disjoint => BookingsApart
  BY DEF B!Disjoint, B!Overlap, BookingsApart, Overlap
<1>5. Spec => [][B!Change]_(B!vars)
  BY CalendarImplementsBookings, PTL DEF ImplementsBookings, B!Spec
<1>6. Spec => Init
  BY DEF Spec
<1> QED
  BY <1>1, <1>2, <1>3, <1>4, <1>5, <1>6, PTL

-----------------------------------------------------------------------------
(* A split generates the future that its dry run has checked.              *)

LEMMA OthersStayDry ==
  ASSUME Typed, NEW r \in Requests, NEW O, effect(r, O), NEW x \in Requests, x # r,
         DryRunPassed(req[x])
  PROVE  DryRunPassed(req[x])'
<1>1. PICK q, n : q = req[x] /\ n = req'[x]
  OBVIOUS
<1>2. SameCall(q, n) /\ \A o : o \in n.fresh => o \in q.fresh /\ o \notin O
  BY <1>1, OthersFresh
<1>3. PICK e, D : e = n.entity /\ D = visited(n.entity, n.since, twoYearsAhead(n.since))
  OBVIOUS
<1>4. ASSUME n.kind = "split", n.step \in {"dryRun", "begin"}, {Place(e.place), Holidays} \subseteq n.fresh
      PROVE  /\ q.kind = "split" /\ q.step = n.step /\ q.series = n.series
             /\ q.unread = n.unread
             /\ {Place(e.place), Holidays} \subseteq q.fresh
             /\ Place(e.place) \notin O /\ Holidays \notin O
             /\ D = visited(q.entity, q.since, twoYearsAhead(q.since)) /\ q.entity = e
  BY <1>2, <1>3, <1>4 DEF SameCall
<1>5. ASSUME n.kind = "split", n.step \in {"dryRun", "begin"},
             {Place(e.place), Holidays} \subseteq n.fresh,
             NEW d \in wanted(e, D)', n.step = "dryRun" => d \notin n.unread, NEW i \in Rows, rows'[i].state = "live",
             rows'[i].series # n.series, Overlap(rows'[i], occurrence(e, Unsaved, d))
      PROVE  FALSE
  <2>1. holidays' = holidays
    BY <1>4, <1>5 DEF effect, Confined
  <2>2. d \in wanted(e, D)
    BY <1>5, <2>1 DEF wanted, isSchoolHoliday
  <2>3. PICK row : row = occurrence(e, Unsaved, d)
    OBVIOUS
  <2>4. row.place = e.place /\ rows'[i].place = row.place
    BY <1>5, <2>3 DEF occurrence, Overlap
  <2>5. /\ rows[i].state = "live" /\ rows'[i].place = rows[i].place
        /\ rows'[i].start = rows[i].start /\ rows'[i].end = rows[i].end
        /\ rows'[i].series = rows[i].series
    BY <1>4, <1>5, <2>4, NothingComes
  <2>6. Overlap(rows[i], row) /\ i \in Live /\ rows[i].series # q.series
    BY <1>4, <1>5, <2>3, <2>5 DEF Overlap, Live
  <2> QED
    BY <1>1, <1>4, <1>5, <2>2, <2>3, <2>6 DEF DryRunPassed
<1>6. DryRunPassed(n)'
  BY <1>3, <1>5 DEF DryRunPassed, Live
<1> QED
  BY <1>1, <1>6 DEF DryRunPassed

LEMMA OwnStaysDry ==
  ASSUME Typed, NEW r \in Requests, acts(r), DryRunPassed(req[r])
  PROVE  DryRunPassed(req[r])'
<1>0. TypeOK
  BY DEF Typed
<1>1. CASE starts(r)
  <2>1. new(req'[r])
    BY <1>1, Starts
  <2>2. CASE newSplit(req'[r])
    <3>1. PICK q : q = req'[r]
      OBVIOUS
    <3>2. /\ q.step = "dryRun"
          /\ visited(q.entity, q.since, twoYearsAhead(q.since)) \cap q.entity.days \subseteq q.unread
      BY <2>2, <3>1 DEF newSplit
    <3>3. \A d \in wanted(q.entity, visited(q.entity, q.since, twoYearsAhead(q.since)))' :
            d \in q.unread
      BY <3>2 DEF wanted
    <3> QED
      BY <3>1, <3>2, <3>3 DEF DryRunPassed
  <2>3. CASE ~newSplit(req'[r])
    <3>1. req'[r].kind # "split"
      BY <2>1, <2>3 DEF new, newCreate, newUpdate, newDelete, newTransfer, newSeries,
                        newDeleteSeries, newSaveSeries
    <3> QED
      BY <3>1 DEF DryRunPassed
  <2> QED
    BY <2>2, <2>3
<1>2. CASE importOpenHolidays(r)
  <2>1. req'[r].kind = "reorganize"
    BY <1>0, <1>2, ImportBegins
  <2> QED
    BY <2>1 DEF DryRunPassed
<1>3. CASE Progress(r)
  <2>1. CASE req'[r] = Idle
    BY <2>1, IdleFields DEF DryRunPassed
  <2>2. CASE req[r].kind \in RowKinds /\ SameTask(req[r], req'[r])
    BY <2>2 DEF RowKinds, SameTask, DryRunPassed
  <2>3. CASE dryRun(r) /\ req'[r] # Idle
    <3>1. /\ req'[r].entity = req[r].entity /\ req'[r].since = req[r].since
          /\ req'[r].series = req[r].series /\ req'[r].fresh = req[r].fresh
          /\ UNCHANGED <<rows, holidays>> /\ req[r].kind = "split" /\ req[r].step = "dryRun"
      BY <2>3, DryRunMoves DEF SameTask, tables, dryRun, At
    <3>2. PICK e, D : e = req[r].entity /\ D = splitDays(r)
      OBVIOUS
    <3>3. ASSUME {Place(e.place), Holidays} \subseteq req[r].fresh, NEW d \in wanted(e, D),
                 req'[r].step = "dryRun" => d \notin req'[r].unread,
                 NEW i \in Live, rows[i].series # req[r].series
          PROVE  ~Overlap(rows[i], occurrence(e, Unsaved, d))
      <4>1. CASE d \notin req[r].unread
        BY <3>1, <3>2, <3>3, <4>1 DEF DryRunPassed, splitDays
      <4>2. CASE d \in req[r].unread
        <5>1. ~checkRangeConflicts(r, d)
          BY <2>3, <3>3, <4>2, DryRunMoves
        <5>2. d \in wanted(e, {d})
          BY <3>3 DEF wanted
        <5> QED
          BY <3>2, <3>3, <5>1, <5>2 DEF checkRangeConflicts, findOverlaps
      <4> QED
        BY <4>1, <4>2
    <3> QED
      BY <3>1, <3>2, <3>3 DEF DryRunPassed, splitDays, wanted, isSchoolHoliday, Live
  <2>4. CASE splitSeries(r) \/ askHoliday(r) \/ (purge(r) /\ req'[r] # Idle)
    <3>1. req'[r].step \in {"commit", "drop"}
      BY <2>4, SplitMoves, AskHolidayMoves, PurgeMoves
    <3> QED
      BY <3>1 DEF DryRunPassed
  <2>5. CASE (\/ fetch(r) \/ saveHoliday(r) \/ loadSeries(r) \/ reorganizeSeries(r)
              \/ commitReorganization(r)) /\ req'[r] # Idle
    <3>1. req'[r].kind = "reorganize"
      BY <2>5, FetchMoves, SaveHolidayMoves, LoadSeriesMoves, ReorganizeMoves,
         CommitReorganizationMoves DEF SameTask
    <3> QED
      BY <3>1 DEF DryRunPassed
  <2> QED
    BY <1>3, <2>1, <2>2, <2>3, <2>4, <2>5, SeriesSteps
<1> QED
  BY <1>1, <1>2, <1>3 DEF acts

Splitting == Typed /\ \A r \in Requests : DryRunPassed(req[r])
LEMMA StaysSplitting ==
  /\ Init => Splitting
  /\ Splitting /\ [Next]_vars => Splitting'
<1>1. ASSUME Init PROVE Splitting
  <2>1. \A r \in Requests : req[r] = Idle
    BY <1>1 DEF Init
  <2> QED
    BY <1>1, <2>1, IdleFields, TypedInitially DEF Splitting, DryRunPassed
<1>2. ASSUME Splitting, [Next]_vars PROVE Splitting'
  <2>1. Typed /\ Typed'
    BY <1>2, StepsStayTyped DEF Splitting
  <2>2. ASSUME NEW r \in Requests, acts(r) PROVE \A x \in Requests : DryRunPassed(req[x])'
    <3>1. PICK O : effect(r, O)
      BY <2>1, <2>2, StepsAreConfined
    <3> QED
      BY <1>2, <2>1, <2>2, <3>1, OthersStayDry, OwnStaysDry DEF Splitting
  <2>3. ASSUME UNCHANGED <<rows, holidays, req>>
        PROVE  \A x \in Requests : DryRunPassed(req[x])'
    BY <1>2, <2>3 DEF Splitting, DryRunPassed, wanted, isSchoolHoliday, Live
  <2>4. CASE tick
    BY <2>1, <2>3, <2>4, TickMoves DEF Splitting
  <2>5. CASE UNCHANGED vars
    BY <2>1, <2>3, <2>5 DEF vars, tables, Splitting
  <2> QED
    BY <1>2, <2>1, <2>2, <2>4, <2>5, StepsAct DEF Splitting
<1> QED
  BY <1>1, <1>2

LEMMA MidnightComesFirst ==
  ASSUME NEW t \in Nat, NEW d \in Nat, dayOf(t) <= d
  PROVE  midnight(t) <= d * DayLength /\ midnight(t) \in Nat
<1>1. PICK f : f = dayOf(t)
  OBVIOUS
<1>2. f \in Nat /\ f <= d /\ midnight(t) = f * DayLength
  BY <1>1, DayOfTime DEF midnight
<1>3. f * DayLength \in Nat /\ d * DayLength \in Nat /\ DayLength \in Nat
  BY <1>2, DayBounds
<1>4. CASE f = d
  BY <1>2, <1>3, <1>4
<1>5. CASE f < d
  BY <1>2, <1>3, <1>5, DaysFollow
<1> QED
  BY <1>2, <1>4, <1>5

\* A day of the future that the dry run has checked finds room, unless an old
\* occurrence that stands reaches into the day of the split.
LEMMA CheckedDayIsGenerated ==
  ASSUME Typed, NEW r \in Requests, Is(r, "split"), At(r, "begin"), DryRunPassed(req[r]),
         Fresh(r, {Place(req[r].entity.place), Holidays}),
         ~ \E i \in Live : /\ rows[i].series = req[r].series
                           /\ rows[i].place = req[r].entity.place
                           /\ rows[i].start < req[r].since
                           /\ rows[i].end > midnight(req[r].since),
         NEW V, V = {i \in Live : ~(rows[i].series = req[r].series
                                    /\ rows[i].start >= req[r].since)},
         NEW d \in wanted(req[r].entity, splitDays(r))
  PROVE  d \in generated(req[r].entity, Unsaved, splitDays(r), V)
<1>1. PICK e, since, row : /\ e = req[r].entity /\ since = req[r].since
                           /\ row = occurrence(e, Unsaved, d)
  OBVIOUS
<1>2. e \in Entity /\ since \in Nat
  <2>1. req[r].entity \in Entity /\ req[r].since \in Times
    BY RequestTypes DEF Request
  <2> QED
    BY <1>1, <2>1, TimeBounds, DayTimes
<1>3. /\ row.place = e.place /\ row.series = Unsaved /\ row.start = d * DayLength + e.from
      /\ e.from \in Nat
  BY <1>1, <1>2, DayBounds DEF occurrence, Entity
<1>4. midnight(since) <= row.start /\ row.start \in Nat /\ midnight(since) \in Nat
  <2>1. d \in splitDays(r) /\ twoYearsAhead(since) \in Nat
    BY <1>2, DayTimes DEF wanted
  <2>2. dayOf(since) <= d /\ d \in Days
    BY <1>1, <1>2, <2>1, VisitedDays DEF splitDays, visited
  <2>3. midnight(since) <= d * DayLength /\ d * DayLength \in Nat /\ midnight(since) \in Nat
    BY <1>2, <2>2, DayTimes, MidnightComesFirst
  <2> QED
    BY <1>2, <1>3, <2>3
<1>5. ASSUME NEW i \in V PROVE ~(rows[i].series = row.series /\ rows[i].start = row.start)
  <2>1. rows[i].series \in {None} \cup SeriesIds
    BY DEF Live, Typed, TypeOK, Row
  <2>2. Unsaved \notin {None} \cup SeriesIds
    BY DayBounds DEF None, Unsaved, SeriesIds
  <2> QED
    BY <1>3, <2>1, <2>2
<1>6. ASSUME NEW i \in V, Overlap(rows[i], row) PROVE FALSE
  <2>1. i \in Live /\ ~(rows[i].series = req[r].series /\ rows[i].start >= since)
    BY <1>1
  <2>2. CASE rows[i].series # req[r].series
    BY <1>1, <1>6, <2>1, <2>2 DEF DryRunPassed, Is, At, Fresh, splitDays
  <2>3. CASE rows[i].series = req[r].series
    <3>1. rows[i].start \in Nat /\ rows[i].end \in Nat
      BY <2>1, TimeBounds DEF Live, Typed, TypeOK, Row
    <3>2. /\ rows[i].place = e.place /\ rows[i].end > row.start
      BY <1>3, <1>6 DEF Overlap
    <3>3. rows[i].start < since /\ rows[i].end > midnight(since)
      BY <1>2, <1>4, <2>1, <2>3, <3>1, <3>2
    <3> QED
      BY <1>1, <2>1, <2>3, <3>2, <3>3
  <2> QED
    BY <2>2, <2>3
<1>7. d \in splitDays(r) \cap e.days
  BY <1>1 DEF wanted
<1> QED
  BY <1>1, <1>5, <1>6, <1>7 DEF generated, exists, hasOverlap

splitComplete ==
  \A r \in Requests :
    LET e == req[r].entity IN
    /\ At(r, "begin") /\ Is(r, "split") /\ req'[r].step = "commit"
    /\ Fresh(r, {Place(e.place), Holidays})
    /\ ~ \E i \in Live : /\ rows[i].series = req[r].series /\ rows[i].place = e.place
                        /\ rows[i].start < req[r].since /\ rows[i].end > midnight(req[r].since)
    => wanted(e, splitDays(r)) \subseteq req'[r].occurrences

LEMMA StepsSplit ==
  ASSUME Splitting, NEW x \in Requests, acts(x)
  PROVE  splitComplete
<1>0. Typed
  BY DEF Splitting
<1>1. SUFFICES ASSUME NEW r \in Requests, At(r, "begin"), Is(r, "split"),
                      req'[r].step = "commit",
                      Fresh(r, {Place(req[r].entity.place), Holidays}),
                      ~ \E i \in Live : /\ rows[i].series = req[r].series
                                        /\ rows[i].place = req[r].entity.place
                                        /\ rows[i].start < req[r].since
                                        /\ rows[i].end > midnight(req[r].since)
               PROVE  wanted(req[r].entity, splitDays(r)) \subseteq req'[r].occurrences
  BY DEF splitComplete
<1>2. x = r
  <2>1. PICK O : effect(x, O)
    BY <1>0, StepsAreConfined
  <2>2. x # r => req'[r].step = req[r].step
    BY <2>1 DEF effect, Others, SameCall
  <2> QED
    BY <1>1, <2>2 DEF At
<1>3. splitSeries(r)
  <2>1. Progress(r)
    BY <1>1, <1>2 DEF acts, CanStart, Is
  <2>2. req'[r] # Idle /\ req[r].kind = "split" /\ req[r].step = "begin"
    BY <1>1, IdleFields DEF At, Is
  <2>3. ~(purge(r) \/ fetch(r) \/ saveHoliday(r) \/ loadSeries(r) \/ reorganizeSeries(r)
          \/ commitReorganization(r))
    BY <1>0, <2>2, PurgeMoves, FetchMoves, SaveHolidayMoves, LoadSeriesMoves, ReorganizeMoves,
       CommitReorganizationMoves
  <2>4. ~(dryRun(r) \/ askHoliday(r))
    BY <2>2 DEF dryRun, askHoliday, At
  <2> QED
    BY <1>0, <2>1, <2>2, <2>3, <2>4, SeriesSteps DEF RowKinds
<1>4. PICK V : V = {i \in Live : ~(rows[i].series = req[r].series
                                   /\ rows[i].start >= req[r].since)}
  OBVIOUS
<1>5. req'[r].occurrences = generated(req[r].entity, Unsaved, splitDays(r), V)
  BY <1>0, <1>3, <1>4, SplitMoves
<1>6. \A d \in wanted(req[r].entity, splitDays(r)) :
        d \in generated(req[r].entity, Unsaved, splitDays(r), V)
  BY <1>0, <1>1, <1>4, CheckedDayIsGenerated DEF Splitting
<1> QED
  BY <1>5, <1>6

\* A split, at any time of a day, whose dry run found no conflict finds room for the
\* whole future of the series, if room and holidays have not changed since and no
\* occurrence of the old series that stands reaches into the day of the split.
THEOREM SplitsComplete == Spec => SplitIsComplete
<1>1. ASSUME Splitting, Next PROVE [splitComplete]_vars
  <2>1. ASSUME NEW r \in Requests, acts(r) PROVE splitComplete
    BY <1>1, <2>1, StepsSplit
  <2>2. ASSUME tick PROVE splitComplete
    <3>1. UNCHANGED req
      BY <1>1, <2>2, TickMoves DEF Splitting
    <3> QED
      BY <3>1 DEF splitComplete, At
  <2> QED
    BY <1>1, <2>1, <2>2, StepsAct
<1>2. Splitting /\ [Next]_vars => [splitComplete]_vars
  BY <1>1
<1>3. (Init => Splitting) /\ (Splitting /\ [Next]_vars => Splitting')
  BY StaysSplitting
<1> QED
  BY <1>2, <1>3, PTL DEF Spec, SplitIsComplete, splitComplete
=============================================================================
