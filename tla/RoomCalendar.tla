---------------------------- MODULE RoomCalendar ----------------------------
(***************************************************************************)
(* The calendar of rooms and resources: single bookings, series and their   *)
(* generated occurrences, the import of holidays, the reorganization that   *)
(* extends series, and the transfer of ownership.  A request is a process   *)
(* with one step per database call, or two per transaction: the first       *)
(* statement, which fixes the snapshot it reads, and the commit; holidays    *)
(* are read between the two, day by day and outside the transaction.        *)
(*                                                                         *)
(* Time is counted in parts of a day.  The days that the weekdays and the   *)
(* frequency of a series select are a set of days.  A request that a check  *)
(* refuses at its first call does not happen.                               *)
(***************************************************************************)
EXTENDS Naturals, FiniteSets

CONSTANTS Rooms, Resources, Owners, Requests,
          DayLength,                 \* parts of a day
          Ahead,                     \* days a series is generated ahead: two years
          Vacations,                 \* <<first, last>> days of what the holiday API lists
          Forms,                     \* bodies for single bookings
          SeriesForms,               \* bodies for series
          LastDay, MaxNow,           \* bounds: days there are, the last time of the clock
          MaxRequests, MaxRows, MaxSeries \* bounds: requests, rows of either kind

ASSUME BoundsAssumption ==
  /\ DayLength \in Nat \ {0}
  /\ {Ahead, LastDay, MaxNow, MaxRequests, MaxRows, MaxSeries} \subseteq Nat
  /\ DayLength <= MaxNow + 1 /\ MaxNow <= (LastDay + 1) * DayLength
ASSUME PlacesAssumption == Rooms # {} /\ Rooms \cap Resources = {}

Places == Rooms \cup Resources
Days == 0..LastDay
Times == 0..((LastDay + 1) * DayLength)
Rows == 1..MaxRows
SeriesIds == 1..MaxSeries
None == 0                            \* seriesid of a single booking
Unsaved == MaxSeries + 1             \* a series that has no id yet
Nobody == "nobody"
Keep == (LastDay + 1) * DayLength + 1 \* a field the body does not carry

ASSUME FormsAssumption ==
  /\ Vacations \subseteq Days \X Days /\ \A v \in Vacations : v[1] <= v[2]
  /\ Forms \subseteq [start : Times \cup {Keep}, end : Times \cup {Keep}, background : BOOLEAN]
  /\ SeriesForms \subseteq [place : Rooms, days : SUBSET Days, from : 0..DayLength,
                            to : 0..DayLength, first : Times, last : Times,
                            inHolidays : BOOLEAN]

VARIABLES
  now,         \* the clock
  rows,        \* the tables calendarevent (without holidays) and resourceevent
  series,      \* the table seriesevent
  holidays,    \* how often a vacation is listed in category 9999
  req,         \* the requests under way
  started,     \* number of requests so far
  unchecked,   \* history: rows that were written on an outdated check
  stale,       \* history: series or rows of theirs were saved from an outdated copy
  shortened,   \* history: series that were ended before days already generated
  considered   \* history: how often a day of a series was generated, up to 2
tables == <<rows, series, holidays>>
history == <<unchecked, stale, shortened, considered>>
vars == <<now, tables, req, started, history>>

Row == [state : {"free", "live", "deleted", "gone"}, place : Places, start : Times,
        end : Times, background : BOOLEAN, owner : Owners \cup {Nobody},
        series : {None} \cup SeriesIds]
Entity == [state : {"free", "live", "gone"}, place : Rooms, days : SUBSET Days,
           from : 0..DayLength, to : 0..DayLength, first : Times, last : Times,
           inHolidays : BOOLEAN, owner : Owners \cup {Nobody}, until : Times]
NoRow == [state |-> "free", place |-> CHOOSE p \in Places : TRUE, start |-> 0, end |-> 0,
          background |-> FALSE, owner |-> Nobody, series |-> None]
NoEntity == [state |-> "free", place |-> CHOOSE p \in Rooms : TRUE, days |-> {}, from |-> 0,
             to |-> 0, first |-> 0, last |-> 0, inHolidays |-> TRUE, owner |-> Nobody,
             until |-> 0]

\* What a request may depend on; fresh holds what nobody else has written since
\* the request read it, or began to.
Event(i) == <<"event", i>>
Series(s) == <<"series", s>>
Place(p) == <<"place", p>>
Holidays == <<"holidays", None>>
Objects == {Event(i) : i \in Rows} \cup {Series(s) : s \in SeriesIds}
           \cup {Place(p) : p \in Places} \cup {Holidays}

Kinds == {"none", "create", "update", "delete", "transfer", "createSeries", "split",
          "updateSeries", "deleteSeries", "transferSeries", "reorganize"}
Steps == {"idle", "insert", "check", "save", "remove", "dryRun", "begin", "commit",
          "saveSeries", "purge", "drop", "fetch", "import", "load"}
Request ==
  [kind : Kinds, step : Steps, event : {0} \cup Rows, row : Row,
   series : {None} \cup SeriesIds, entities : [SeriesIds -> Entity], entity : Entity,
   occurrences : SUBSET Days, days : SUBSET Days, unread : SUBSET Days, todo : SUBSET Vacations,
   left : SUBSET SeriesIds, since : Times, fresh : SUBSET Objects]
NewRequest(kind, step) ==
  [kind |-> kind, step |-> step, event |-> 0, row |-> NoRow, series |-> None,
   entities |-> [s \in SeriesIds |-> NoEntity], entity |-> NoEntity,
   occurrences |-> {}, days |-> {}, unread |-> {}, todo |-> {}, left |-> {}, since |-> 0,
   fresh |-> {}]
Idle == NewRequest("none", "idle")

Init ==
  /\ now \in 0..(DayLength - 1)
  /\ rows = [i \in Rows |-> NoRow]
  /\ series = [s \in SeriesIds |-> NoEntity]
  /\ holidays = [v \in Vacations |-> 0]
  /\ req = [r \in Requests |-> Idle]
  /\ started = 0
  /\ unchecked = {} /\ stale = {} /\ shortened = {}
  /\ considered = [s \in SeriesIds |-> [d \in Days |-> 0]]

-----------------------------------------------------------------------------
Live == {i \in Rows : rows[i].state = "live"}
FreeRows == {i \in Rows : rows[i].state = "free"}
LiveSeries == {s \in SeriesIds : series[s].state = "live"}
FreeSeries == {s \in SeriesIds : series[s].state = "free"}
RowsOf(s) == {i \in Rows : rows[i].series = s /\ rows[i].state \in {"live", "deleted"}}
Smallest(S) == CHOOSE x \in S : \A y \in S : x <= y
Earlier(a, b) == IF a < b THEN a ELSE b

At(r, step) == req[r].step = step
Is(r, kind) == req[r].kind = kind
Fresh(r, O) == O \subseteq req[r].fresh
CanStart(r) == Is(r, "none") /\ started < MaxRequests
Start(r, request) ==
  /\ CanStart(r)
  /\ started' = started + 1
  /\ req' = [req EXCEPT ![r] = request]
Goto(r, step) == [req EXCEPT ![r].step = step]
Finish(r) == [req EXCEPT ![r] = Idle]

\* The requests q after r has written the objects O.
written(r, O, q) ==
  [x \in Requests |-> IF x = r THEN q[x] ELSE [q[x] EXCEPT !.fresh = @ \ O]]

-----------------------------------------------------------------------------
(* Single bookings. *)

Overlap(a, b) == a.place = b.place /\ a.start < b.end /\ a.end > b.start

\* The check of both services; background rows do not count.
Free(row, except) ==
  ~ \E i \in Live \ except : ~rows[i].background /\ Overlap(rows[i], row)

\* Only the resource service refuses times in the wrong order, if both come.
validateDateRange(f) == f.start # Keep /\ f.end # Keep => f.start <= f.end

\* A booking whose check has found its time free is about to be saved.
booking(p, o, f) ==
  [state |-> "live", place |-> p, start |-> f.start, end |-> f.end,
   background |-> f.background, owner |-> o, series |-> None]
beginInsert(r, row) ==
  /\ Free(row, {})
  /\ Start(r, [NewRequest("create", "insert") EXCEPT !.row = row, !.fresh = {Place(row.place)}])
  /\ UNCHANGED <<now, tables, history>>

create(r, p, o, f) ==
  /\ p \in Rooms /\ f.start # Keep /\ f.end # Keep
  /\ beginInsert(r, booking(p, o, f))

createResourceEvent(r, p, o, f) ==
  /\ p \in Resources /\ f.start # Keep /\ f.end # Keep /\ ~f.background
  /\ validateDateRange(f)
  /\ beginInsert(r, booking(p, o, f))

insert(r) ==
  LET i == Smallest(FreeRows) IN
  /\ At(r, "insert") /\ FreeRows # {}
  /\ rows' = [rows EXCEPT ![i] = req[r].row]
  /\ unchecked' = IF Fresh(r, {Place(req[r].row.place)}) THEN unchecked ELSE unchecked \cup {i}
  /\ req' = written(r, {Place(req[r].row.place)}, Finish(r))
  /\ UNCHANGED <<now, series, holidays, started, stale, shortened, considered>>

\* What a body that carries f and p makes of the row i.
changed(i, p, f) ==
  [rows[i] EXCEPT !.place = p, !.background = f.background,
                  !.start = IF f.start = Keep THEN @ ELSE f.start,
                  !.end = IF f.end = Keep THEN @ ELSE f.end]
beginUpdate(r, i, row) ==
  /\ Start(r, [NewRequest("update", "check") EXCEPT !.event = i, !.row = row, !.fresh = {Event(i)}])
  /\ UNCHANGED <<now, tables, history>>

update_undefinedToo(r, i, p, f) ==
  /\ i \in Live /\ p \in Rooms /\ rows[i].place \in Rooms
  /\ beginUpdate(r, i, [rows[i] EXCEPT !.place = p, !.start = f.start, !.end = f.end])

update(r, i, p, f) ==
  /\ i \in Live /\ p \in Rooms /\ rows[i].place \in Rooms
  /\ beginUpdate(r, i, changed(i, p, f))

updateResourceEvent(r, i, p, f) ==
  /\ i \in Live /\ p \in Resources /\ rows[i].place \in Resources /\ ~f.background
  /\ validateDateRange(f)
  /\ beginUpdate(r, i, changed(i, p, f))

check_skipped(r) ==
  /\ At(r, "check")
  /\ req' = [req EXCEPT ![r].step = "save", ![r].fresh = @ \cup {Place(req[r].row.place)}]
  /\ UNCHANGED <<now, tables, started, history>>

check(r) ==
  /\ At(r, "check")
  /\ req' = IF Free(req[r].row, {req[r].event})
            THEN [req EXCEPT ![r].step = "save", ![r].fresh = @ \cup {Place(req[r].row.place)}]
            ELSE Finish(r)
  /\ UNCHANGED <<now, tables, started, history>>

\* An occurrence is saved as modified before it is deleted.
delete(r, i) ==
  /\ i \in Live /\ rows[i].place \in Rooms
  /\ Start(r, [NewRequest("delete", IF rows[i].series = None THEN "remove" ELSE "save") EXCEPT
                 !.event = i, !.row = rows[i], !.fresh = {Event(i)}])
  /\ UNCHANGED <<now, tables, history>>

deleteResourceEvent(r, i) ==
  /\ i \in Live /\ rows[i].place \in Resources
  /\ Start(r, [NewRequest("delete", "remove") EXCEPT !.event = i, !.fresh = {Event(i)}])
  /\ UNCHANGED <<now, tables, history>>

\* An occurrence is only transferred with its series.
transferCalendarEvent(r, i, o) ==
  /\ i \in Live /\ rows[i].place \in Rooms /\ rows[i].series = None
  /\ Start(r, [NewRequest("transfer", "save") EXCEPT
                 !.event = i, !.row = [rows[i] EXCEPT !.owner = o], !.fresh = {Event(i)}])
  /\ UNCHANGED <<now, tables, history>>

\* What the request relies on when it saves its row.
basis(r) ==
  {Event(req[r].event)} \cup IF Is(r, "update") THEN {Place(req[r].row.place)} ELSE {}

\* save writes the whole row as it was read, so that a row that was deleted in
\* between is back; the foreign key refuses a row whose series is gone.
save(r) ==
  LET i == req[r].event
      row == req[r].row
      rejected == row.series # None /\ series[row.series].state # "live"
      outdated == ~Fresh(r, basis(r))
      then == IF Is(r, "delete") THEN Goto(r, "remove") ELSE Finish(r)
      moved == [rows[i] EXCEPT !.owner = row.owner] # row IN
  /\ At(r, "save")
  /\ IF rejected
     THEN req' = Finish(r) /\ UNCHANGED <<rows, unchecked, stale>>
     ELSE /\ rows' = [rows EXCEPT ![i] = row]
          /\ unchecked' = IF outdated THEN unchecked \cup {i} ELSE unchecked
          /\ stale' = IF Fresh(r, {Event(i)}) THEN stale ELSE stale \cup ({row.series} \ {None})
          /\ req' = IF rows' = rows THEN then
                    ELSE written(r, {Event(i)} \cup IF moved THEN {Place(row.place)} ELSE {}, then)
  /\ UNCHANGED <<now, series, holidays, started, shortened, considered>>

remove_thenModified(r) ==
  LET i == req[r].event IN
  /\ At(r, "remove")
  /\ rows' = IF i \in Live THEN [rows EXCEPT ![i].state = "deleted"] ELSE rows
  /\ req' = written(r, {Event(i)}, IF rows[i].series = None THEN Finish(r) ELSE Goto(r, "save"))
  /\ UNCHANGED <<now, series, holidays, started, history>>

remove(r) ==
  LET i == req[r].event IN
  /\ At(r, "remove")
  /\ rows' = IF i \in Live THEN [rows EXCEPT ![i].state = "deleted"] ELSE rows
  /\ req' = written(r, {Event(i)}, Finish(r))
  /\ UNCHANGED <<now, series, holidays, started, history>>

-----------------------------------------------------------------------------
(* Series: generating occurrences. *)

dayOf(t) == t \div DayLength
midnight(t) == dayOf(t) * DayLength

\* The days at which the loop of generateRange stands: it keeps the time of day
\* of its first one.
visited(e, from, until) ==
  {d \in Days : LET current == (d * DayLength) + (from % DayLength) IN
                from <= current /\ current <= until /\ current <= e.last}

isSchoolHoliday(d) == \E v \in Vacations : holidays[v] > 0 /\ v[1] <= d /\ d <= v[2]

wanted(e, D) == {d \in D \cap e.days : e.inHolidays \/ ~isSchoolHoliday(d)}

occurrence(e, s, d) ==
  [state |-> "live", place |-> e.place, start |-> d * DayLength + e.from,
   end |-> d * DayLength + e.to, background |-> FALSE, owner |-> e.owner, series |-> s]

\* Background rows count here.
hasOverlap(row, visible) == \E i \in visible : Overlap(rows[i], row)
exists(row, visible) ==
  \E i \in visible : rows[i].series = row.series /\ rows[i].start = row.start

\* The days of D that get an occurrence unless they turn out to be holidays, for a
\* transaction that sees the rows visible.
generated(e, s, D, visible) ==
  {d \in D \cap e.days : LET row == occurrence(e, s, d) IN
                         ~exists(row, visible) /\ ~hasOverlap(row, visible)}
unlessHoliday(e, D) == IF e.inHolidays THEN {} ELSE D

\* The ids the database gives to the new rows, in the order of the days.
enoughRows(D) == Cardinality(D) <= Cardinality(FreeRows)
rank(x, S) == Cardinality({y \in S : y < x})
idOf(D) == [d \in D |-> CHOOSE i \in FreeRows : rank(i, FreeRows) = rank(d, D)]
newRows(D) == {idOf(D)[d] : d \in D}
withOccurrences(table, e, s, D) ==
  LET f == idOf(D) IN
  [i \in Rows |-> IF \E d \in D : f[d] = i
                  THEN occurrence(e, s, CHOOSE d \in D : f[d] = i)
                  ELSE table[i]]
counted(s, D) ==
  [considered EXCEPT ![s] = [d \in Days |-> IF d \in D /\ @[d] < 2 THEN @[d] + 1 ELSE @[d]]]

\* Opens the transaction that is going to generate occurrences of e on the days D.
beginGeneration(r, e, s, D, visible) ==
  req' = [req EXCEPT ![r].step = "commit", ![r].entity = e, ![r].days = D,
                     ![r].occurrences = generated(e, s, D, visible),
                     ![r].unread = unlessHoliday(e, generated(e, s, D, visible)),
                     ![r].fresh = @ \cup {Place(e.place)}]

\* The next day asks the holidays as they are by now.
askHoliday(r) ==
  LET d == Smallest(req[r].unread) IN
  /\ At(r, "commit") /\ req[r].unread # {}
  /\ req' = [req EXCEPT ![r].unread = @ \ {d},
                        ![r].occurrences = IF isSchoolHoliday(d) THEN @ \ {d} ELSE @]
  /\ UNCHANGED <<now, tables, started, history>>

twoYearsAhead(t) == t + Ahead * DayLength

entityOf(f, o) ==
  [state |-> "live", place |-> f.place, days |-> f.days, from |-> f.from, to |-> f.to,
   first |-> f.first, last |-> f.last, inHolidays |-> f.inHolidays, owner |-> o, until |-> 0]

createSeries(r, o, f) ==
  LET e == entityOf(f, o)
      D == visited(e, f.first, twoYearsAhead(now)) IN
  /\ Start(r, [NewRequest("createSeries", "commit") EXCEPT
                 !.entity = [e EXCEPT !.until = Earlier(f.last, twoYearsAhead(now))],
                 !.days = D, !.occurrences = generated(e, Unsaved, D, Live),
                 !.unread = unlessHoliday(e, generated(e, Unsaved, D, Live)),
                 !.fresh = {Place(f.place)}])
  /\ UNCHANGED <<now, tables, history>>

readSeries(r, s, kind, step) ==
  [NewRequest(kind, step) EXCEPT !.series = s, !.entities = [@ EXCEPT ![s] = series[s]],
                                 !.fresh = {Series(s)}]

\* The new series takes over what the body does not carry.
updateFromDate(r, s, f, splitDate) ==
  LET e == entityOf(f, series[s].owner) IN
  /\ s \in LiveSeries
  /\ Start(r, [readSeries(r, s, "split", "dryRun") EXCEPT
                 !.since = splitDate,
                 !.entity = [e EXCEPT !.first = splitDate,
                                      !.until = Earlier(f.last, twoYearsAhead(splitDate))],
                 !.unread = visited(e, splitDate, twoYearsAhead(splitDate)) \cap e.days,
                 !.fresh = {Series(s), Place(f.place), Holidays}])
  /\ UNCHANGED <<now, tables, history>>

splitDays(r) == visited(req[r].entity, req[r].since, twoYearsAhead(req[r].since))

\* The rows of the old series do not count.
findOverlaps(row, excludeSeriesId) ==
  {i \in Live : rows[i].series # excludeSeriesId /\ Overlap(rows[i], row)}
checkRangeConflicts(r, d) ==
  LET e == req[r].entity IN
  d \in wanted(e, {d}) /\ findOverlaps(occurrence(e, Unsaved, d), req[r].series) # {}

\* Day by day; a conflict ends the request.
dryRun(r) ==
  LET d == Smallest(req[r].unread) IN
  /\ At(r, "dryRun")
  /\ \/ req[r].unread = {} /\ req' = Goto(r, "begin")
     \/ /\ req[r].unread # {}
        /\ req' = IF checkRangeConflicts(r, d) THEN Finish(r) ELSE [req EXCEPT ![r].unread = @ \ {d}]
  /\ UNCHANGED <<now, tables, started, history>>

splitSeries_deletesLast(r) ==
  /\ At(r, "begin") /\ Is(r, "split")
  /\ beginGeneration(r, req[r].entity, Unsaved, splitDays(r), Live)
  /\ UNCHANGED <<now, tables, started, history>>

splitSeries(r) ==
  /\ At(r, "begin") /\ Is(r, "split")
  /\ beginGeneration(r, req[r].entity, Unsaved, splitDays(r),
                     {i \in Live : ~(rows[i].series = req[r].series
                                     /\ rows[i].start >= req[r].since)})
  /\ UNCHANGED <<now, tables, started, history>>

endsTooEarly(s, e) == e.last < series[s].until

\* The old series ends the day before; its occurrences since the split are
\* deleted, those that were moved too, and the new series has the generated ones.
commitSplit(r) ==
  LET old == req[r].series
      s == Smallest(FreeSeries)
      ended == [req[r].entities[old] EXCEPT !.last = req[r].since - DayLength]
      gone == {i \in Live : rows[i].series = old /\ rows[i].start >= req[r].since}
      new == newRows(req[r].occurrences) IN
  /\ At(r, "commit") /\ Is(r, "split") /\ req[r].unread = {}
  /\ FreeSeries # {} /\ enoughRows(req[r].occurrences)
  /\ series' = [series EXCEPT ![old] = ended, ![s] = req[r].entity]
  /\ rows' = withOccurrences([i \in Rows |-> IF i \in gone
                                             THEN [rows[i] EXCEPT !.state = "deleted"]
                                             ELSE rows[i]],
                             req[r].entity, s, req[r].occurrences)
  /\ considered' = counted(s, req[r].days)
  /\ unchecked' = IF Fresh(r, {Place(req[r].entity.place)}) THEN unchecked ELSE unchecked \cup new
  /\ stale' = IF Fresh(r, {Series(old)}) THEN stale ELSE stale \cup {old}
  /\ shortened' = IF endsTooEarly(old, ended) THEN shortened \cup {old} ELSE shortened
  /\ req' = written(r, {Series(old)} \cup {Event(i) : i \in gone}
                       \cup {Place(req[r].entity.place) : i \in new}, Finish(r))
  /\ UNCHANGED <<now, holidays, started>>

commitSeries(r) ==
  LET s == Smallest(FreeSeries)
      new == newRows(req[r].occurrences) IN
  /\ At(r, "commit") /\ Is(r, "createSeries") /\ req[r].unread = {}
  /\ FreeSeries # {} /\ enoughRows(req[r].occurrences)
  /\ series' = [series EXCEPT ![s] = req[r].entity]
  /\ rows' = withOccurrences(rows, req[r].entity, s, req[r].occurrences)
  /\ considered' = counted(s, req[r].days)
  /\ unchecked' = IF Fresh(r, {Place(req[r].entity.place)}) THEN unchecked ELSE unchecked \cup new
  /\ req' = written(r, {Place(req[r].entity.place) : i \in new}, Finish(r))
  /\ UNCHANGED <<now, holidays, started, stale, shortened>>

-----------------------------------------------------------------------------
(* Series: the other requests. *)

updateSeries(r, s, f) ==
  LET e == [entityOf(f, series[s].owner) EXCEPT !.until = series[s].until] IN
  /\ s \in LiveSeries
  /\ Start(r, [readSeries(r, s, "updateSeries", "saveSeries") EXCEPT !.entity = e])
  /\ UNCHANGED <<now, tables, history>>

transferSeries(r, s, o) ==
  /\ s \in LiveSeries
  /\ Start(r, [readSeries(r, s, "transferSeries", "saveSeries") EXCEPT
                 !.entity = [series[s] EXCEPT !.owner = o]])
  /\ UNCHANGED <<now, tables, history>>

\* The bulk update of a transfer reaches deleted occurrences too.
transferred_future(r) == {i \in RowsOf(req[r].series) : rows[i].start >= now}
transferred(r) == IF Is(r, "transferSeries") THEN RowsOf(req[r].series) ELSE {}

\* save writes the whole series as it was read; one that is gone is inserted again.
saveSeries(r) ==
  LET s == req[r].series
      e == req[r].entity IN
  /\ At(r, "saveSeries")
  /\ series' = [series EXCEPT ![s] = e]
  /\ rows' = [i \in Rows |-> IF i \in transferred(r) THEN [rows[i] EXCEPT !.owner = e.owner]
                             ELSE rows[i]]
  /\ stale' = IF Fresh(r, {Series(s)}) THEN stale ELSE stale \cup {s}
  /\ shortened' = IF endsTooEarly(s, e) THEN shortened \cup {s} ELSE shortened
  /\ req' = written(r, {Series(s)} \cup {Event(i) : i \in transferred(r)}, Finish(r))
  /\ UNCHANGED <<now, holidays, started, unchecked, considered>>

deleteSeries(r, s) ==
  /\ s \in LiveSeries
  /\ Start(r, readSeries(r, s, "deleteSeries", "purge"))
  /\ UNCHANGED <<now, tables, history>>

purge(r) ==
  LET ids == RowsOf(req[r].series) IN
  /\ At(r, "purge")
  /\ rows' = [i \in Rows |-> IF i \in ids THEN [rows[i] EXCEPT !.state = "gone"] ELSE rows[i]]
  /\ req' = written(r, {Event(i) : i \in ids}, Goto(r, "drop"))
  /\ UNCHANGED <<now, series, holidays, started, history>>

\* The foreign key refuses to delete a series that rows refer to.
drop(r) ==
  LET s == req[r].series IN
  /\ At(r, "drop")
  /\ series' = IF RowsOf(s) = {} THEN [series EXCEPT ![s].state = "gone"] ELSE series
  /\ req' = IF series' = series THEN Finish(r) ELSE written(r, {Series(s)}, Finish(r))
  /\ UNCHANGED <<now, rows, holidays, started, history>>

-----------------------------------------------------------------------------
(* The reorganization: holidays first, then the series. *)

\* Every holiday that is still to come is deleted, then they are fetched.
importOpenHolidays(r) ==
  /\ Is(r, "none") /\ started < MaxRequests
  /\ started' = started + 1
  /\ holidays' = [v \in Vacations |-> IF v[1] * DayLength >= now THEN 0 ELSE holidays[v]]
  /\ req' = written(r, {Holidays}, [req EXCEPT ![r] =
              [NewRequest("reorganize", "fetch") EXCEPT !.since = now, !.fresh = {Holidays}]])
  /\ UNCHANGED <<now, rows, series, history>>

fetch_failureIgnored(r) ==
  /\ At(r, "fetch")
  /\ \/ req' = [req EXCEPT ![r].step = "import",
                           ![r].todo = {v \in Vacations : v[2] >= dayOf(req[r].since)}]
     \/ req' = Goto(r, "import")
  /\ UNCHANGED <<now, tables, started, history>>

\* The API lists what has not ended; a failure ends the whole reorganization (abort).
fetch(r) ==
  /\ At(r, "fetch")
  /\ req' = [req EXCEPT ![r].step = "import",
                        ![r].todo = {v \in Vacations : v[2] >= dayOf(req[r].since)}]
  /\ UNCHANGED <<now, tables, started, history>>

saveHoliday(r) ==
  /\ At(r, "import")
  /\ \E v \in req[r].todo :
       /\ holidays' = [holidays EXCEPT ![v] = @ + 1]
       /\ req' = written(r, {Holidays}, [req EXCEPT ![r].todo = @ \ {v}])
  /\ UNCHANGED <<now, rows, series, started, history>>

loadSeries(r) ==
  /\ At(r, "import") /\ req[r].todo = {}
  /\ req' = [req EXCEPT
       ![r].step = "begin", ![r].since = midnight(now), ![r].left = LiveSeries,
       ![r].entities = [s \in SeriesIds |-> IF s \in LiveSeries THEN series[s] ELSE NoEntity],
       ![r].fresh = @ \cup {Series(s) : s \in LiveSeries}]
  /\ UNCHANGED <<now, tables, started, history>>

nextSeries(r) == Smallest(req[r].left)

\* Series that have ended or reach far enough are left alone.
isDue(r, e) == e.last >= now /\ e.until < twoYearsAhead(req[r].since)

reorganizeSeries_fromLastDay(r) ==
  LET s == nextSeries(r)
      e == req[r].entities[s]
      target == twoYearsAhead(req[r].since) IN
  /\ At(r, "begin") /\ Is(r, "reorganize") /\ req[r].left # {}
  /\ IF isDue(r, e)
     THEN beginGeneration(r, [e EXCEPT !.until = Earlier(e.last, target)], s,
                          visited(e, e.until, target), Live)
     ELSE req' = [req EXCEPT ![r].left = @ \ {s}]
  /\ UNCHANGED <<now, tables, started, history>>

reorganizeSeries_skipsADay(r) ==
  LET s == nextSeries(r)
      e == req[r].entities[s]
      target == twoYearsAhead(req[r].since) IN
  /\ At(r, "begin") /\ Is(r, "reorganize") /\ req[r].left # {}
  /\ IF isDue(r, e)
     THEN beginGeneration(r, [e EXCEPT !.until = Earlier(e.last, target)], s,
                          visited(e, e.until + 2 * DayLength, target), Live)
     ELSE req' = [req EXCEPT ![r].left = @ \ {s}]
  /\ UNCHANGED <<now, tables, started, history>>

reorganizeSeries(r) ==
  LET s == nextSeries(r)
      e == req[r].entities[s]
      target == twoYearsAhead(req[r].since) IN
  /\ At(r, "begin") /\ Is(r, "reorganize") /\ req[r].left # {}
  /\ IF isDue(r, e)
     THEN beginGeneration(r, [e EXCEPT !.until = Earlier(e.last, target)], s,
                          visited(e, e.until + DayLength, target), Live)
     ELSE req' = [req EXCEPT ![r].left = @ \ {s}]
  /\ UNCHANGED <<now, tables, started, history>>

\* Inserting occurrences of a series that is gone fails, and so does the rest of the
\* run; without an occurrence to insert the series itself is inserted again.
commitReorganization(r) ==
  LET s == nextSeries(r)
      e == req[r].entity
      new == newRows(req[r].occurrences) IN
  /\ At(r, "commit") /\ Is(r, "reorganize") /\ req[r].unread = {}
  /\ enoughRows(req[r].occurrences)
  /\ IF req[r].occurrences # {} /\ s \notin LiveSeries
     THEN req' = Finish(r) /\ UNCHANGED <<rows, series, history>>
     ELSE /\ series' = [series EXCEPT ![s] = e]
          /\ rows' = withOccurrences(rows, e, s, req[r].occurrences)
          /\ considered' = counted(s, req[r].days)
          /\ unchecked' = IF Fresh(r, {Place(e.place)}) THEN unchecked ELSE unchecked \cup new
          /\ stale' = IF Fresh(r, {Series(s)}) THEN stale ELSE stale \cup {s}
          /\ shortened' = shortened
          /\ req' = written(r, {Series(s)} \cup {Place(e.place) : i \in new},
                            [req EXCEPT ![r].step = "begin", ![r].entity = NoEntity,
                                        ![r].days = {}, ![r].occurrences = {},
                                        ![r].left = @ \ {s}])
  /\ UNCHANGED <<now, holidays, started>>

endReorganization(r) ==
  /\ At(r, "begin") /\ Is(r, "reorganize") /\ req[r].left = {}
  /\ req' = Finish(r)
  /\ UNCHANGED <<now, tables, started, history>>

-----------------------------------------------------------------------------
tick == now < MaxNow /\ now' = now + 1 /\ UNCHANGED <<tables, req, started, history>>

\* A call of the database or of the holiday API fails, or the process ends: the
\* request stops where it stands.
abort(r) ==
  /\ ~Is(r, "none")
  /\ req' = Finish(r)
  /\ UNCHANGED <<now, tables, started, history>>

Progress(r) ==
  \/ insert(r) \/ check(r) \/ save(r) \/ remove(r)
  \/ dryRun(r) \/ splitSeries(r) \/ askHoliday(r) \/ commitSplit(r) \/ commitSeries(r)
  \/ saveSeries(r) \/ purge(r) \/ drop(r)
  \/ fetch(r) \/ saveHoliday(r) \/ loadSeries(r)
  \/ reorganizeSeries(r) \/ commitReorganization(r) \/ endReorganization(r)
  \/ abort(r)

CalendarEventsController(r) ==
  \/ \E p \in Rooms, f \in Forms : \/ \E o \in Owners : create(r, p, o, f)
                                   \/ \E i \in Rows : update(r, i, p, f)
  \/ \E i \in Rows : delete(r, i)

ResourceEventsController(r) ==
  \/ \E p \in Resources, f \in Forms : \/ \E o \in Owners : createResourceEvent(r, p, o, f)
                                       \/ \E i \in Rows : updateResourceEvent(r, i, p, f)
  \/ \E i \in Rows : deleteResourceEvent(r, i)

SeriesEventsController(r) ==
  \/ \E o \in Owners, f \in SeriesForms : createSeries(r, o, f)
  \/ \E s \in SeriesIds :
       \/ deleteSeries(r, s)
       \/ \E f \in SeriesForms : updateSeries(r, s, f)
       \/ \E f \in SeriesForms \cup {series[s]}, splitDate \in Times :
            DayLength <= splitDate /\ updateFromDate(r, s, f, splitDate)

\* Either a single booking or a series.
transfer(r) ==
  \E o \in Owners : \/ \E i \in Rows : transferCalendarEvent(r, i, o)
                    \/ \E s \in SeriesIds : transferSeries(r, s, o)

\* The cron of the month and an admin start the reorganization; nothing keeps a
\* second one from starting meanwhile.
ReorganizationService(r) == importOpenHolidays(r)

Next ==
  \/ tick
  \/ \E r \in Requests :
       \/ ~Is(r, "none") /\ Progress(r)
       \/ /\ CanStart(r)
          /\ \/ CalendarEventsController(r) \/ ResourceEventsController(r)
             \/ SeriesEventsController(r) \/ transfer(r) \/ ReorganizationService(r)

Spec == Init /\ [][Next]_vars

-----------------------------------------------------------------------------
TypeOK ==
  /\ now \in 0..MaxNow
  /\ rows \in [Rows -> Row]
  /\ series \in [SeriesIds -> Entity]
  /\ holidays \in [Vacations -> Nat]
  /\ req \in [Requests -> Request]
  /\ started \in 0..MaxRequests
  /\ unchecked \subseteq Rows /\ stale \subseteq SeriesIds /\ shortened \subseteq SeriesIds
  /\ considered \in [SeriesIds -> [Days -> 0..2]]

\* The calendar keeps what it promises about bookings, whichever requests overlap:
\* what is booked, moved, generated or restored fits in with all other bookings,
\* unless the place, or the row that is saved, changed since it was checked.
B == INSTANCE Bookings WITH
       Ids <- Rows, Places <- Places, Times <- Times, unchecked <- unchecked,
       bookings <- [i \in {j \in Live : ~rows[j].background} |->
                      [place |-> rows[i].place, start |-> rows[i].start, end |-> rows[i].end]]
ImplementsBookings == B!Spec

\* A series and its occurrences belong to one person, through transfers, splits and
\* extensions, unless one of them was saved from a copy that had changed.
SeriesOwnersAgree ==
  \A i \in Live : rows[i].series # None /\ rows[i].series \notin stale
    => rows[i].owner = series[rows[i].series].owner

\* What was deleted only comes back through a request that read it before.
DeletedStaysDeleted ==
  [][/\ \A i \in Rows : rows[i].state \in {"deleted", "gone"} /\ rows'[i].state = "live"
          => \E r \in Requests : At(r, "save") /\ req[r].event = i /\ ~Fresh(r, {Event(i)})
     /\ \A s \in SeriesIds : series[s].state = "gone" /\ series'[s].state = "live"
          => s \in stale']_vars

\* The days of a series, from the first one that was generated until it is
\* generated, that were left out.
daysLeftOut(s) ==
  {d \in Days : /\ considered[s][d] = 0 /\ d * DayLength < series[s].until
                /\ \E first \in Days : first < d /\ considered[s][first] > 0}

\* No day of a series is generated twice, which would bring deleted occurrences
\* back - unless the series was ended before days that were generated already, or
\* saved from a copy that had changed.
DaysAreGeneratedOnce ==
  \A s \in LiveSeries \ (stale \cup shortened) : \A d \in Days : considered[s][d] <= 1

\* Whoever moves the time up to which a series is generated has generated every day
\* before the one of that time: from the start of a new series, from the day after
\* the one of the earlier time otherwise.  Saving a copy that had changed may not.
GenerationIsComplete ==
  [][\A s \in SeriesIds :
       /\ series'[s].state = "live" /\ s \notin stale'
       /\ series[s].state = "free" \/ series[s].until # series'[s].until
       => \A d \in Days :
            /\ IF series[s].state = "free" THEN dayOf(series'[s].first) <= d
               ELSE dayOf(series[s].until) < d
            /\ d < dayOf(series'[s].until)
            => considered'[s][d] > 0]_vars

\* "Until when were occurrences generated?" (lastGeneratedUntil): no day before
\* that is left out.
NoDayIsLeftOut ==
  \A s \in LiveSeries \ (stale \cup shortened) : daysLeftOut(s) = {}

\* A split whose dry run found no conflict finds room for the whole future of the
\* series, if the room and the holidays have not changed since and no occurrence of
\* the old series that started before the split reaches into the day of the split:
\* it is left to stand, but the dry run does not count it.
SplitIsComplete ==
  [][\A r \in Requests :
       LET e == req[r].entity IN
       /\ At(r, "begin") /\ Is(r, "split") /\ req'[r].step = "commit"
       /\ Fresh(r, {Place(e.place), Holidays})
       /\ ~ \E i \in Live : /\ rows[i].series = req[r].series /\ rows[i].place = e.place
                           /\ rows[i].start < req[r].since /\ rows[i].end > midnight(req[r].since)
       => wanted(e, splitDays(r)) \subseteq req'[r].occurrences]_vars

\* The reorganization generates occurrences only when it knows every holiday that
\* is still to come, and knows it once, unless another import overlaps.
HolidaysAreKnown ==
  \A r \in Requests :
    (At(r, "begin") \/ At(r, "commit")) /\ Is(r, "reorganize") /\ Fresh(r, {Holidays})
    => \A v \in Vacations : v[1] * DayLength >= now => holidays[v] = 1
=============================================================================
