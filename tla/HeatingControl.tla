--------------------------- MODULE HeatingControl ---------------------------
(***************************************************************************)
(* The heating scheduler at work (heating-scheduler.service.ts) together   *)
(* with the part of HeatingService that sends the actions of a location to *)
(* its FRITZ!Box (heating.service.ts), the persisted `heated` flag of each *)
(* room (rooms.service.ts), the calendar, and the thermostats themselves.  *)
(*                                                                         *)
(* A run reads the rooms, then the calendar, plans with HeatingRules, and  *)
(* executes the plan of every location concurrently: connect, send the     *)
(* device actions one after the other, and only then store the flags one   *)
(* after the other.  Each await of the code is a step of its own, so users *)
(* edit the calendar and the rooms, cron fires, and the process crashes    *)
(* between any two of them.                                                *)
(*                                                                         *)
(* Bounds: MaxTime (the clock stands still there, after the last booking), *)
(* MaxFaults (failed or lost calls and crashes), MaxEdits (user edits).    *)
(*                                                                         *)
(* A definition named <definition>_<fault> is a faulty form of the one     *)
(* that follows it: a property has to tell the two apart.                  *)
(***************************************************************************)
EXTENDS HeatingRules

CONSTANTS
  Rooms,            \* room ids; the code executes actions in id order
  LocOf,            \* room id -> location
  Prelim,           \* room id -> prelim_time
  HasAvm,           \* room id -> a thermostat (avm_id) is configured
  InvalidTargets,   \* pairs <<room id, kind>> whose temperature is invalid
  HallwayRoomIds,   \* HEATING_HALLWAY_ROOM_ID
  Bookings,         \* the calendar events users may book
  Seasons,          \* values the season check may take, see season
  SchedulerEnabled, \* HEATING_SCHEDULER_ENABLED
  FaultKinds,       \* the faults of this environment, a subset of AllFaults
  MaxTime, MaxFaults, MaxEdits

Locations == {LocOf[r] : r \in Rooms}
AllFaults == {"db_read", "connect", "thermostat", "unreachable",
              "lost_reply", "db_write", "crash", "room_form"}

ASSUME RoomsAssumption ==
  /\ Rooms \subseteq Nat
  /\ Prelim \in [Rooms -> Int]
  /\ HasAvm \in [Rooms -> BOOLEAN]
  /\ SchedulerEnabled \in BOOLEAN
ASSUME BookingsAssumption ==
  \A e \in Bookings : e.start \in Int /\ e.end \in Int
ASSUME BoundsAssumption ==
  /\ FaultKinds \subseteq AllFaults
  /\ Seasons \subseteq {"in", "out", "invalid"}
  /\ MaxTime \in Nat /\ MaxFaults \in Nat /\ MaxEdits \in Nat

VARIABLES
  now,             \* the clock, in minutes
  season,          \* the season check would say: in, out, or invalid config
  calendar,        \* calendar events in the database
  heated,          \* room.heated in the database
  thermostat,      \* what each thermostat is set to: the kind last applied
  currentRun,      \* a run is in progress (currentRun # null)
  rerunRequested,
  phase,           \* where the run stands: idle, loadRooms, loadEvents, execute, audit
  runNow,          \* `now` of the run
  runSeason,       \* inSeason of the run
  rooms,           \* the run's rooms, as loaded
  events,          \* the run's events, as loaded
  stage,           \* per location: connect, send, store, finished
  todo,            \* per location: device actions still to be sent
  done,            \* per location: applied or skipped, flag still to be stored
  errors,          \* result.errors is not empty
  faults, edits    \* how many faults and edits there have been

world == <<now, season, calendar, heated, thermostat>>
queue == <<currentRun, rerunRequested>>
run   == <<phase, runNow, runSeason, rooms, events, errors>>
exec  == <<stage, todo, done>>
vars  == <<now, season, calendar, heated, thermostat, currentRun, rerunRequested,
           phase, runNow, runSeason, rooms, events, stage, todo, done, errors,
           faults, edits>>

roomRecord(r, flags) ==
  [id |-> r, loc |-> LocOf[r], prelim |-> Prelim[r],
   heated |-> flags[r], avm |-> HasAvm[r]]

nothing == [l \in Locations |-> {}]

Init ==
  /\ now = 0
  /\ season \in Seasons
  /\ calendar = {}
  /\ heated = [r \in Rooms |-> FALSE]
  /\ thermostat = [r \in Rooms |-> "COOL"]
  /\ currentRun = FALSE /\ rerunRequested = FALSE
  /\ phase = "idle" /\ runNow = 0 /\ runSeason = "in"
  /\ rooms = {} /\ events = {}
  /\ stage = [l \in Locations |-> "finished"] /\ todo = nothing /\ done = nothing
  /\ errors = FALSE
  /\ faults = 0 /\ edits = 0

Fault(kind) ==
  /\ kind \in FaultKinds
  /\ faults < MaxFaults
  /\ faults' = faults + 1

-----------------------------------------------------------------------------
(* Starting a run: everything up to the first await.  An invalid season    *)
(* configuration ends execute() at once, with an error in the result.      *)

startRun(at) ==
  /\ runNow' = at
  /\ runSeason' = season
  /\ phase' = IF season = "invalid" THEN "audit" ELSE "loadRooms"
  /\ errors' = (season = "invalid")
  /\ rooms' = {} /\ events' = {}
  /\ UNCHANGED exec

endRun ==
  /\ phase' = "idle" /\ runNow' = 0 /\ runSeason' = "in"
  /\ rooms' = {} /\ events' = {} /\ errors' = FALSE
  /\ UNCHANGED exec

trigger_parallel(at) ==
  currentRun' = TRUE /\ UNCHANGED rerunRequested /\ startRun(at)

trigger(at) ==
  IF currentRun
  THEN rerunRequested' = TRUE /\ UNCHANGED <<currentRun, run, exec>>
  ELSE currentRun' = TRUE /\ UNCHANGED rerunRequested /\ startRun(at)

(* A minute passes and cron fires.                                         *)
handleCron ==
  LET at == IF now < MaxTime THEN now + 1 ELSE now
  IN  /\ now' = at
      /\ IF SchedulerEnabled THEN trigger(at) ELSE UNCHANGED <<queue, run, exec>>
      /\ UNCHANGED <<season, calendar, heated, thermostat, faults, edits>>

-----------------------------------------------------------------------------
(* Distributing a plan over the locations (executeActions and the first    *)
(* loop of executeLocationActions): an invalid temperature fails, a room   *)
(* without thermostat is skipped, the rest is for the device.              *)

validTarget(a) == <<a.room, a.kind>> \notin InvalidTargets

deviceActions(plan, l) == {a \in plan : a.loc = l /\ validTarget(a) /\ HasAvm[a.room]}
skippedActions(plan, l) == {a \in plan : a.loc = l /\ validTarget(a) /\ ~HasAvm[a.room]}

executeActions(plan) ==
  /\ phase' = "execute"
  /\ todo' = [l \in Locations |-> deviceActions(plan, l)]
  /\ done' = [l \in Locations |-> skippedActions(plan, l)]
  /\ stage' = [l \in Locations |->
                 CASE deviceActions(plan, l) # {}  -> "connect"
                   [] deviceActions(plan, l) = {} /\ skippedActions(plan, l) # {} -> "store"
                   [] OTHER -> "finished"]

executionErrors(plan) == \E a \in plan : ~validTarget(a)

(* Rooms and events could not be loaded: DATA_SOURCE_ERROR, nothing is     *)
(* executed.                                                               *)
loadFailed ==
  /\ Fault("db_read")
  /\ phase' = "audit" /\ errors' = TRUE
  /\ UNCHANGED <<world, queue, runNow, runSeason, rooms, events, exec, edits>>

loadRooms ==
  /\ phase = "loadRooms"
  /\ \/ loadFailed
     \/ /\ rooms' = {roomRecord(r, heated) : r \in Rooms}
        /\ IF runSeason = "out"
           THEN LET plan == planSeasonExit(rooms')
                IN  executeActions(plan) /\ errors' = executionErrors(plan)
           ELSE phase' = "loadEvents" /\ UNCHANGED <<exec, errors>>
        /\ UNCHANGED <<world, queue, runNow, runSeason, events, faults, edits>>

loadEvents ==
  /\ phase = "loadEvents"
  /\ \/ loadFailed
     \/ LET loaded == findActiveHeatingEvents(calendar, eventWindow(rooms, runNow))
            hallways == resolveHallways(HallwayRoomIds, rooms)
            plan == planHeating(runNow, rooms, loaded, hallways)
        IN  /\ events' = loaded
            /\ executeActions(plan)
            /\ errors' = \/ unknownRoomEvents(rooms, loaded) # {}
                         \/ Cardinality(hallways) # Cardinality(HallwayRoomIds)
                         \/ executionErrors(plan)
            /\ UNCHANGED <<world, queue, runNow, runSeason, rooms, faults, edits>>

-----------------------------------------------------------------------------
(* Executing the actions of one location.                                  *)

(* The order of the plan: rooms by id, the hallway last.                   *)
ofHallway(a) == a.reason \in {"HALLWAY_OCCUPIED", "HALLWAY_EMPTY"}
precedes(a, b) ==
  \/ ~ofHallway(a) /\ ofHallway(b)
  \/ (ofHallway(a) <=> ofHallway(b)) /\ a.room <= b.room
isFirst(a, actions) == a \in actions /\ \A b \in actions : precedes(a, b)

moveTo(l, s) == stage' = [stage EXCEPT ![l] = s]

(* connections.getConnection: the connection is there, or all device       *)
(* actions of the location fail.                                           *)
getConnection(l) ==
  /\ phase = "execute" /\ stage[l] = "connect"
  /\ \/ moveTo(l, "send") /\ UNCHANGED <<todo, errors, faults>>
     \/ /\ Fault("connect")
        /\ todo' = [todo EXCEPT ![l] = {}]
        /\ moveTo(l, "store")
        /\ errors' = TRUE
  /\ UNCHANGED <<world, queue, phase, runNow, runSeason, rooms, events, done, edits>>

(* applyToDevice succeeds.  The action waits for its flag to be stored.    *)
applied(l, a) ==
  /\ thermostat' = [thermostat EXCEPT ![a.room] = a.kind]
  /\ todo' = [todo EXCEPT ![l] = @ \ {a}]
  /\ done' = [done EXCEPT ![l] = @ \cup {a}]
  /\ UNCHANGED <<errors, faults>>

thermostatUnreachable_ignored(l, a) ==
  /\ Fault("thermostat")
  /\ todo' = [todo EXCEPT ![l] = @ \ {a}]
  /\ UNCHANGED <<thermostat, done, errors>>

thermostatUnreachable_stored(l, a) ==
  /\ Fault("thermostat")
  /\ todo' = [todo EXCEPT ![l] = @ \ {a}]
  /\ done' = [done EXCEPT ![l] = @ \cup {a}]
  /\ errors' = TRUE
  /\ UNCHANGED thermostat

(* The thermostat is unknown to the box or not present: this action fails. *)
(* So it does (ProtocolError) when the reply to a command that has been    *)
(* carried out cannot be understood.                                       *)
thermostatUnreachable(l, a) ==
  /\ \/ Fault("thermostat") /\ UNCHANGED thermostat
     \/ Fault("lost_reply") /\ thermostat' = [thermostat EXCEPT ![a.room] = a.kind]
  /\ todo' = [todo EXCEPT ![l] = @ \ {a}]
  /\ errors' = TRUE
  /\ UNCHANGED done

boxUnreachable_restApplied(l, a) ==
  /\ Fault("unreachable") /\ UNCHANGED thermostat
  /\ todo' = [todo EXCEPT ![l] = {}]
  /\ done' = [done EXCEPT ![l] = @ \cup todo[l]]
  /\ errors' = TRUE

(* The box does not answer: this action and the remaining ones fail.  With *)
(* a lost reply the thermostat has been set all the same.                  *)
boxUnreachable(l, a) ==
  /\ \/ Fault("unreachable") /\ UNCHANGED thermostat
     \/ Fault("lost_reply") /\ thermostat' = [thermostat EXCEPT ![a.room] = a.kind]
  /\ todo' = [todo EXCEPT ![l] = {}]
  /\ errors' = TRUE
  /\ UNCHANGED done

applyToDevice(l) ==
  /\ phase = "execute" /\ stage[l] = "send"
  /\ \E a \in todo[l] : /\ isFirst(a, todo[l])
                        /\ applied(l, a) \/ thermostatUnreachable(l, a) \/ boxUnreachable(l, a)
  /\ IF todo'[l] = {} THEN moveTo(l, "store") ELSE UNCHANGED stage
  /\ UNCHANGED <<now, season, calendar, heated, queue, phase, runNow, runSeason,
                 rooms, events, edits>>

flagOf(a) == a.kind = "HEAT"

(* roomsService.setHeated after an applied or skipped action; a database   *)
(* error is recorded and the next action follows.                          *)
setHeated(l) ==
  /\ phase = "execute" /\ stage[l] = "store"
  /\ \E a \in done[l] :
       /\ isFirst(a, done[l])
       /\ done' = [done EXCEPT ![l] = @ \ {a}]
       /\ \/ /\ heated' = [heated EXCEPT ![a.room] = flagOf(a)]
             /\ UNCHANGED <<errors, faults>>
          \/ Fault("db_write") /\ errors' = TRUE /\ UNCHANGED heated
  /\ UNCHANGED <<now, season, calendar, thermostat, queue, phase, runNow, runSeason,
                 rooms, events, stage, todo, edits>>

locationFinished(l) ==
  /\ phase = "execute" /\ stage[l] = "store" /\ done[l] = {}
  /\ moveTo(l, "finished")
  /\ UNCHANGED <<world, queue, run, todo, done, faults, edits>>

executeLocation(l) ==
  getConnection(l) \/ applyToDevice(l) \/ setHeated(l) \/ locationFinished(l)

(* Promise.all over the locations is settled.                              *)
executionFinished ==
  /\ phase = "execute"
  /\ \A l \in Locations : stage[l] = "finished"
  /\ phase' = "audit"
  /\ UNCHANGED <<world, queue, runNow, runSeason, rooms, events, errors, exec, faults, edits>>

runFinished_stillCurrent ==
  /\ phase = "audit"
  /\ IF rerunRequested
     THEN rerunRequested' = FALSE /\ startRun(now)
     ELSE endRun /\ UNCHANGED rerunRequested
  /\ UNCHANGED <<currentRun, world, faults, edits>>

(* The audit record is written (or failed), the run is over: a queued run  *)
(* follows with the time of that moment, else the scheduler is idle.       *)
runFinished ==
  /\ phase = "audit"
  /\ IF rerunRequested
     THEN rerunRequested' = FALSE /\ startRun(now) /\ UNCHANGED currentRun
     ELSE currentRun' = FALSE /\ endRun /\ UNCHANGED rerunRequested
  /\ UNCHANGED <<world, faults, edits>>

-----------------------------------------------------------------------------
(* The environment                                                         *)

(* The process dies and starts again: what is not in the database or in    *)
(* the thermostats is gone.                                                *)
crash ==
  /\ currentRun
  /\ Fault("crash")
  /\ currentRun' = FALSE /\ rerunRequested' = FALSE
  /\ phase' = "idle" /\ runNow' = 0 /\ runSeason' = "in"
  /\ rooms' = {} /\ events' = {} /\ errors' = FALSE
  /\ stage' = [l \in Locations |-> "finished"] /\ todo' = nothing /\ done' = nothing
  /\ UNCHANGED <<world, edits>>

Edit ==
  /\ edits < MaxEdits
  /\ edits' = edits + 1
  /\ UNCHANGED <<now, thermostat, queue, run, exec, faults>>

book(e)   == /\ e \notin calendar /\ calendar' = calendar \cup {e}
             /\ Edit /\ UNCHANGED <<season, heated>>
unbook(e) == /\ e \in calendar /\ calendar' = calendar \ {e}
             /\ Edit /\ UNCHANGED <<season, heated>>

(* The season begins or ends.                                              *)
turnSeason ==
  /\ \E s \in Seasons \ {"invalid", season} : season # "invalid" /\ season' = s
  /\ Edit /\ UNCHANGED <<calendar, heated>>

(* An administrator saves the form of a room, which carries the `heated`   *)
(* it was opened with (CreateRoomDto.heated): the flag is overwritten.     *)
saveRoomForm(r) ==
  /\ Fault("room_form")
  /\ heated' = [heated EXCEPT ![r] = ~@]
  /\ UNCHANGED <<now, season, calendar, thermostat, queue, run, exec, edits>>

Environment ==
  \/ crash
  \/ \E r \in Rooms : saveRoomForm(r)
  \/ \E e \in Bookings : book(e) \/ unbook(e)
  \/ turnSeason

RunStep == loadRooms \/ loadEvents \/ executionFinished \/ runFinished

Next ==
  \/ handleCron
  \/ RunStep
  \/ \E l \in Locations : executeLocation(l)
  \/ Environment

(* Cron keeps firing and every awaited call returns, with a value or with  *)
(* an error (HttpTransport limits a request to 10 seconds).                *)
Fairness ==
  /\ WF_vars(handleCron)
  /\ WF_vars(RunStep)
  /\ \A l \in Locations : WF_vars(executeLocation(l))

Spec == Init /\ [][Next]_vars /\ Fairness

(* The thermostat protocol this system implements, when FaultKinds has no  *)
(* crash, lost reply, failed write or room form.                           *)
Protocol == INSTANCE ThermostatProtocol

-----------------------------------------------------------------------------
(* Correctness                                                             *)

RoomRecords == [id : Rooms, loc : Locations, prelim : Int, heated : BOOLEAN, avm : BOOLEAN]
Actions     == [room : Rooms, loc : Locations, kind : Kinds, reason : Reasons]

WorldTypes ==
  /\ now \in 0..MaxTime
  /\ season \in Seasons
  /\ calendar \subseteq Bookings
  /\ heated \in [Rooms -> BOOLEAN]
  /\ thermostat \in [Rooms -> Kinds]

RunTypes ==
  /\ currentRun \in BOOLEAN /\ rerunRequested \in BOOLEAN
  /\ phase \in {"idle", "loadRooms", "loadEvents", "execute", "audit"}
  /\ runNow \in 0..MaxTime
  /\ runSeason \in {"in", "out", "invalid"}
  /\ rooms \subseteq RoomRecords
  /\ events \subseteq Bookings
  /\ errors \in BOOLEAN

ExecTypes ==
  /\ stage \in [Locations -> {"connect", "send", "store", "finished"}]
  /\ todo \in [Locations -> SUBSET Actions]
  /\ done \in [Locations -> SUBSET Actions]

(* The shape of the state.                                                 *)
TypeOK == WorldTypes /\ RunTypes /\ ExecTypes /\ faults \in Nat /\ edits \in Nat

(* The flag in the database and the thermostat agree, except for a room    *)
(* whose setting the box has just accepted and whose flag the current run  *)
(* is still going to store (heating-scheduler.service.ts: setHeated comes  *)
(* after all device actions of the location).  Whatever fails in between:  *)
(* connecting, a thermostat, the box, loading.  A crash, a lost reply, a   *)
(* failed write and a room form are the faults that break it.              *)
FlagsFollowThermostats ==
  \A r \in Rooms :
    HasAvm[r] =>
      \/ heated[r] = (thermostat[r] = "HEAT")
      \/ \E a \in done[LocOf[r]] : a.room = r /\ a.kind = thermostat[r]

(* A command is only ever sent to switch a room whose flag says otherwise, *)
(* however long ago the run read the flag: no room is heated or cooled     *)
(* twice by one run or by a run and its predecessor (idempotence).         *)
CommandsSwitch ==
  \A l \in Locations : \A a \in todo[l] : heated[a.room] # (a.kind = "HEAT")

RunStates ==
  /\ currentRun <=> phase # "idle"
  /\ phase = "loadEvents" => rooms = {roomRecord(r, heated) : r \in Rooms}

OrderlyAt(l) ==
  /\ phase # "execute" => todo[l] = {} /\ done[l] = {}
  /\ stage[l] \in {"store", "finished"} => todo[l] = {}
  /\ stage[l] = "finished" => done[l] = {}
  /\ \A a \in todo[l] : LocOf[a.room] = l /\ HasAvm[a.room]
  /\ \A a \in done[l] : LocOf[a.room] = l
  /\ \A a, b \in todo[l] \cup done[l] : a.room = b.room => a = b

(* A run in progress is orderly (without room forms): what it executes     *)
(* stems from flags that still hold, each room has one action at most, in  *)
(* the hands of its own location, and nothing is left over when locations  *)
(* and runs end - the ground the agreement of flags and thermostats is     *)
(* built on.                                                               *)
RunsAreOrderly ==
  RunStates /\ CommandsSwitch /\ \A l \in Locations : OrderlyAt(l)

(* What is about to be stored is what the thermostat was set to.           *)
DoneIsApplied ==
  \A l \in Locations : \A a \in done[l] : HasAvm[a.room] => thermostat[a.room] = a.kind

SafePlan ==
  loadEvents /\ phase' = "execute" =>
    \A l \in Locations : \A a \in todo'[l] \cup done'[l] :
      a.room \notin HallwayRoomIds =>
        LET r == roomRecord(a.room, heated)
        IN  IF a.kind = "HEAT"
            THEN Needed(r, calendar, runNow)
            ELSE /\ ~Needed(r, calendar, runNow)
                 /\ ~Bridging(eventsOfRoom(r, calendar), runNow)

(* The events a run loads are enough: what it plans to cool is neither     *)
(* needed by nor bridged to any event of the whole calendar at that time,  *)
(* within the season; what it plans to heat is needed.                     *)
PlanIsSafe == [][SafePlan]_vars

Target(r) ==
  LET hallways == resolveHallways(HallwayRoomIds, rooms)
      others   == {o \in rooms : o.loc = r.loc /\ ~isHallway(o, hallways)}
  IN  IF runSeason = "out" THEN FALSE
      ELSE IF isHallway(r, hallways)
      THEN HallwayTarget(r, others, eventsOfLocation(r.loc, rooms, events), runNow)
      ELSE RoomTarget(r, events, runNow)

(* A run that ends without an error leaves every flag where the rule wants *)
(* it, for the rooms and events it has loaded, whatever other locations    *)
(* and users did meanwhile.                                                *)
CleanRunReachesTarget ==
  phase = "audit" /\ ~errors => \A r \in rooms : heated[r.id] = Target(r)

Wanted(r) ==
  /\ season = "in"
  /\ Needed(roomRecord(r, heated), calendar, now)
Unwanted(r) ==
  \/ season = "out"
  \/ /\ season = "in"
     /\ ~Needed(roomRecord(r, heated), calendar, now)
     /\ ~Bridging(eventsOfRoom(roomRecord(r, heated), calendar), now)

SwitchedRooms == {r \in Rooms \ HallwayRoomIds : Prelim[r] # 0}

(* The flag of a room that is needed from some time on gets set, and that  *)
(* of a room that no longer is gets cleared, after any finite number of    *)
(* faults: failed actions are retried by later runs.                       *)
FlagsConverge ==
  \A r \in SwitchedRooms :
    /\ <>[]Wanted(r)   => <>[]heated[r]
    /\ <>[]Unwanted(r) => <>[]~heated[r]

(* The same for the thermostats themselves.                                *)
ThermostatsConverge ==
  \A r \in {r \in SwitchedRooms : HasAvm[r]} :
    /\ <>[]Wanted(r)   => <>[](thermostat[r] = "HEAT")
    /\ <>[]Unwanted(r) => <>[](thermostat[r] = "COOL")

(* "Damit bleibt kein Raum dauerhaft beheizt" (heating-rules.ts, fallback  *)
(* rule): a room that is no longer needed does not stay heated.            *)
NoRoomStaysHeated ==
  \A r \in {r \in SwitchedRooms : HasAvm[r]} :
    <>[]Unwanted(r) => <>[](thermostat[r] = "COOL")

(* The rooms follow the thermostat protocol: command, then confirmation.   *)
ImplementsProtocol == Protocol!Spec

(* The hallway follows the other rooms of its location.                    *)
HallwayConverges ==
  \A h \in HallwayRoomIds :
    LET others == {r \in Rooms : r # h /\ LocOf[r] = LocOf[h]}
    IN  HasAvm[h] =>
          /\ <>[](season = "in" /\ \E r \in others : heated[r]) => <>[]heated[h]
          /\ <>[](season \in {"in", "out"} /\ \A r \in others : Unwanted(r)) => <>[]~heated[h]
=============================================================================
