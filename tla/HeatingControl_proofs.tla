----------------------- MODULE HeatingControl_proofs ------------------------
(***************************************************************************)
(* Theorems about HeatingControl, for any rooms, locations, bookings,      *)
(* windows and any number of faults and edits.                             *)
(***************************************************************************)
EXTENDS HeatingControl, HeatingRules_proofs

USE RoomsAssumption, BookingsAssumption, BoundsAssumption

-----------------------------------------------------------------------------
(* Plans: what planHeating and planSeasonExit may contain.                 *)

AreRecords(R) == \A x \in R : \E f \in [Rooms -> BOOLEAN], r \in Rooms : x = roomRecord(r, f)

LEMMA RecordFields ==
  ASSUME NEW r \in Rooms, NEW f \in [Rooms -> BOOLEAN]
  PROVE  /\ roomRecord(r, f) \in RoomRecords
         /\ roomRecord(r, f).id = r
         /\ roomRecord(r, f).loc = LocOf[r]
         /\ roomRecord(r, f).avm = HasAvm[r]
         /\ roomRecord(r, f).heated = f[r]
BY DEF roomRecord, RoomRecords, Locations

LEMMA DecisionCases ==
  ASSUME NEW r, r.heated \in BOOLEAN, NEW R, NEW E, NEW hallways, NEW at
  PROVE  LET d == decisionFor(r, R, E, hallways, at)
         IN  \/ d = NoAction
             \/ /\ d.kind \in Kinds /\ d.reason \in Reasons
                /\ (d.kind = "HEAT") # r.heated
<1>1. ASSUME NEW n, NEW EE
      PROVE  LET d == evaluateHallway(r, n, EE, at)
             IN  \/ d = NoAction
                 \/ /\ d.kind \in Kinds /\ d.reason \in Reasons
                    /\ (d.kind = "HEAT") # r.heated
  BY HallwayDecision DEF Decide, Kinds, Reasons
<1>2. LET d == roomDecision(r, E, at)
      IN  \/ d = NoAction
          \/ /\ d.kind \in Kinds /\ d.reason \in Reasons
             /\ (d.kind = "HEAT") # r.heated
  BY RoomDecision DEF roomDecision, Decide, Kinds, Reasons
<1> QED
  BY <1>1, <1>2 DEF decisionFor

(* A plan made from the flags f: one action per room, for its location,    *)
(* and each one switches its room.                                         *)
GoodPlan(plan, f) ==
  /\ plan \subseteq Actions
  /\ \A a \in plan : a.loc = LocOf[a.room] /\ f[a.room] # (a.kind = "HEAT")
  /\ \A a, b \in plan : a.room = b.room => a = b

LEMMA PlanHeatingIsGood ==
  ASSUME NEW f \in [Rooms -> BOOLEAN], NEW E, NEW hallways, NEW at
  PROVE  GoodPlan(planHeating(at, {roomRecord(r, f) : r \in Rooms}, E, hallways), f)
<1> DEFINE R == {roomRecord(r, f) : r \in Rooms}
           d(r) == decisionFor(roomRecord(r, f), R, E, hallways, at)
<1>1. \A a \in planHeating(at, R, E, hallways) :
        \E r \in Rooms : d(r) # NoAction /\ a = Action(roomRecord(r, f), d(r))
  BY DEF planHeating
<1>2. \A r \in Rooms : d(r) # NoAction =>
        /\ d(r).kind \in Kinds /\ d(r).reason \in Reasons
        /\ (d(r).kind = "HEAT") # f[r]
  BY RecordFields, DecisionCases
<1>3. \A r \in Rooms : Action(roomRecord(r, f), d(r))
        = [room |-> r, loc |-> LocOf[r], kind |-> d(r).kind, reason |-> d(r).reason]
  BY RecordFields DEF Action
<1> HIDE DEF d
<1> QED
  BY <1>1, <1>2, <1>3 DEF GoodPlan, Actions, Locations

LEMMA PlanSeasonExitIsGood ==
  ASSUME NEW f \in [Rooms -> BOOLEAN]
  PROVE  GoodPlan(planSeasonExit({roomRecord(r, f) : r \in Rooms}), f)
<1> DEFINE R == {roomRecord(r, f) : r \in Rooms}
<1>1. \A a \in planSeasonExit(R) :
        \E r \in Rooms : f[r] /\ a = [room |-> r, loc |-> LocOf[r], kind |-> "COOL", reason |-> "SEASON_END"]
  BY RecordFields DEF planSeasonExit, Action, Decide
<1>2. \A a \in planSeasonExit(R) : a \in Actions /\ a.loc = LocOf[a.room]
  BY <1>1 DEF Actions, Locations, Kinds, Reasons
<1>3. \A a \in planSeasonExit(R) : f[a.room] = TRUE /\ a.kind = "COOL"
  BY <1>1
<1>4. \A a, b \in planSeasonExit(R) : a.room = b.room => a = b
  BY <1>1
<1> QED
  BY <1>2, <1>3, <1>4 DEF GoodPlan

-----------------------------------------------------------------------------
(* Type correctness *)

Phases == {"idle", "loadRooms", "loadEvents", "execute", "audit"}

(* Plans made of any room records are well typed.                          *)
LEMMA PlanTypes ==
  ASSUME NEW R \in SUBSET RoomRecords, NEW E, NEW hallways, NEW at
  PROVE  /\ planHeating(at, R, E, hallways) \in SUBSET Actions
         /\ planSeasonExit(R) \in SUBSET Actions
<1>1. \A r \in R : r.id \in Rooms /\ r.loc \in Locations /\ r.heated \in BOOLEAN
  BY DEF RoomRecords
<1>2. ASSUME NEW r \in R, decisionFor(r, R, E, hallways, at) # NoAction
      PROVE  Action(r, decisionFor(r, R, E, hallways, at)) \in Actions
  BY <1>1, <1>2, DecisionCases DEF Action, Actions
<1>3. ASSUME NEW r \in R
      PROVE  Action(r, Decide("COOL", "SEASON_END")) \in Actions
  BY <1>1 DEF Action, Actions, Decide, Kinds, Reasons
<1> QED
  BY <1>2, <1>3 DEF planHeating, planSeasonExit

(* Distributing a plan over the locations keeps the types.                 *)
LEMMA DistributedTypes ==
  ASSUME NEW plan \in SUBSET Actions, executeActions(plan)
  PROVE  /\ phase' \in Phases
         /\ stage' \in [Locations -> {"connect", "send", "store", "finished"}]
         /\ todo' \in [Locations -> SUBSET Actions]
         /\ done' \in [Locations -> SUBSET Actions]
<1>1. \A l \in Locations :
        (CASE deviceActions(plan, l) # {}  -> "connect"
           [] deviceActions(plan, l) = {} /\ skippedActions(plan, l) # {} -> "store"
           [] OTHER -> "finished") \in {"connect", "send", "store", "finished"}
  OBVIOUS
<1>2. \A l \in Locations : deviceActions(plan, l) \subseteq Actions /\ skippedActions(plan, l) \subseteq Actions
  BY DEF deviceActions, skippedActions
<1> QED
  BY <1>1, <1>2 DEF executeActions, Phases

LEMMA StartRunTypes ==
  ASSUME TypeOK, NEW at \in 0..MaxTime, startRun(at)
  PROVE  /\ runNow' \in 0..MaxTime /\ runSeason' \in {"in", "out", "invalid"}
         /\ phase' \in Phases /\ errors' \in BOOLEAN
         /\ rooms' \subseteq RoomRecords /\ events' \subseteq Bookings
         /\ UNCHANGED exec
BY DEF TypeOK, WorldTypes, startRun, Phases

Idle ==
  /\ currentRun = FALSE /\ rerunRequested \in BOOLEAN
  /\ phase = "idle" /\ runNow = 0 /\ runSeason = "in"
  /\ rooms = {} /\ events = {} /\ errors = FALSE

LEMMA IdleTypes == Idle => RunTypes
<1> SUFFICES ASSUME Idle PROVE RunTypes
  OBVIOUS
<1> USE DEF Idle
<1>1. rooms \subseteq RoomRecords /\ events \subseteq Bookings
  OBVIOUS
<1>2. currentRun \in BOOLEAN /\ rerunRequested \in BOOLEAN /\ errors \in BOOLEAN
  OBVIOUS
<1>3. /\ phase \in {"idle", "loadRooms", "loadEvents", "execute", "audit"}
      /\ runNow \in 0..MaxTime
      /\ runSeason \in {"in", "out", "invalid"}
  OBVIOUS
<1> QED
  BY <1>1, <1>2, <1>3 DEF RunTypes

LEMMA TypeInit == Init => TypeOK
<1> SUFFICES ASSUME Init PROVE TypeOK
  OBVIOUS
<1>1. WorldTypes
  BY DEF Init, WorldTypes, Kinds
<1>2. RunTypes
  BY IdleTypes DEF Init, Idle
<1>3. ExecTypes
  BY DEF Init, ExecTypes, nothing
<1> QED
  BY <1>1, <1>2, <1>3 DEF Init, TypeOK

(* What leaves a part of the state alone keeps its types.                  *)
LEMMA TypesUnchanged ==
  ASSUME TypeOK
  PROVE  /\ UNCHANGED world => WorldTypes'
         /\ UNCHANGED <<queue, run>> => RunTypes'
         /\ UNCHANGED exec => ExecTypes'
         /\ UNCHANGED <<faults, edits>> => faults' \in Nat /\ edits' \in Nat
         /\ \A kind : Fault(kind) => faults' \in Nat
         /\ Edit => edits' \in Nat /\ faults' \in Nat
<1> USE DEF TypeOK
<1>1. UNCHANGED world => WorldTypes'
  BY DEF world, WorldTypes
<1>2. UNCHANGED <<queue, run>> => RunTypes'
  BY DEF queue, run, RunTypes
<1>3. UNCHANGED exec => ExecTypes'
  BY DEF exec, ExecTypes
<1> QED
  BY <1>1, <1>2, <1>3 DEF Fault, Edit

LEMMA LoadFailedTypes ==
  ASSUME TypeOK, loadFailed PROVE TypeOK'
<1>1. RunTypes'
  BY DEF loadFailed, TypeOK, RunTypes, queue
<1> QED
  BY <1>1, TypesUnchanged DEF loadFailed, Fault, TypeOK

LEMMA TypeNext == TypeOK /\ [Next]_vars => TypeOK'
<1> SUFFICES ASSUME TypeOK, [Next]_vars PROVE TypeOK'
  OBVIOUS
<1>1. CASE handleCron
  <2> DEFINE at == IF now < MaxTime THEN now + 1 ELSE now
  <2>1. at \in 0..MaxTime /\ now' = at
    BY <1>1 DEF handleCron, TypeOK, WorldTypes
  <2>2. WorldTypes' /\ faults' \in Nat /\ edits' \in Nat
    BY <1>1, <2>1 DEF handleCron, TypeOK, WorldTypes
  <2>3. CASE ~SchedulerEnabled
    <3>1. UNCHANGED <<queue, run>> /\ UNCHANGED exec
      BY <1>1, <2>3 DEF handleCron
    <3> QED
      BY <2>2, <3>1, TypesUnchanged DEF TypeOK
  <2>4. CASE SchedulerEnabled /\ currentRun
    <3>1. rerunRequested' = TRUE /\ UNCHANGED <<currentRun, run>> /\ UNCHANGED exec
      BY <1>1, <2>4 DEF handleCron, trigger
    <3>2. RunTypes'
      BY <3>1 DEF TypeOK, RunTypes, run
    <3> QED
      BY <2>2, <3>1, <3>2, TypesUnchanged DEF TypeOK
  <2>5. CASE SchedulerEnabled /\ ~currentRun
    <3>1. startRun(at) /\ currentRun' = TRUE /\ UNCHANGED rerunRequested
      BY <1>1, <2>5 DEF handleCron, trigger
    <3> HIDE DEF at
    <3>2. RunTypes'
      BY <2>1, <3>1, StartRunTypes DEF TypeOK, RunTypes, Phases
    <3> QED
      BY <2>1, <2>2, <3>1, <3>2, StartRunTypes, TypesUnchanged DEF TypeOK
  <2> QED
    BY <2>3, <2>4, <2>5
<1>2. CASE loadRooms
  <2>1. CASE loadFailed
    BY <2>1, LoadFailedTypes
  <2>2. CASE ~loadFailed
    <3>1. /\ rooms' = {roomRecord(r, heated) : r \in Rooms}
          /\ UNCHANGED <<world, queue, runNow, runSeason, events, faults, edits>>
      BY <1>2, <2>2 DEF loadRooms
    <3>2. rooms' \in SUBSET RoomRecords
      BY <3>1, RecordFields DEF TypeOK, WorldTypes
    <3>3. CASE runSeason = "out"
      <4>1. executeActions(planSeasonExit(rooms')) /\ errors' \in BOOLEAN
        BY <1>2, <2>2, <3>3 DEF loadRooms, executionErrors
      <4>2. planSeasonExit(rooms') \in SUBSET Actions
        BY <3>2, PlanTypes
      <4>3. ExecTypes' /\ phase' \in Phases
        BY <4>1, <4>2, DistributedTypes DEF ExecTypes
      <4> QED
        BY <3>1, <3>2, <4>1, <4>3, TypesUnchanged DEF TypeOK, RunTypes, queue, Phases
    <3>4. CASE runSeason # "out"
      <4>1. phase' = "loadEvents" /\ UNCHANGED errors /\ UNCHANGED exec
        BY <1>2, <2>2, <3>4 DEF loadRooms
      <4> QED
        BY <3>1, <3>2, <4>1, TypesUnchanged DEF TypeOK, RunTypes, queue
    <3> QED
      BY <3>3, <3>4
  <2> QED
    BY <2>1, <2>2
<1>3. CASE loadEvents
  <2>1. CASE loadFailed
    BY <2>1, LoadFailedTypes
  <2>2. CASE ~loadFailed
    <3> DEFINE loaded == findActiveHeatingEvents(calendar, eventWindow(rooms, runNow))
               plan == planHeating(runNow, rooms, loaded, resolveHallways(HallwayRoomIds, rooms))
    <3>1. /\ events' = loaded
          /\ executeActions(plan)
          /\ errors' \in BOOLEAN
          /\ UNCHANGED <<world, queue, runNow, runSeason, rooms, faults, edits>>
      BY <1>3, <2>2 DEF loadEvents, executionErrors
    <3>2. plan \in SUBSET Actions
      BY PlanTypes DEF TypeOK, RunTypes
    <3>3. loaded \subseteq Bookings
      BY DEF findActiveHeatingEvents, TypeOK, WorldTypes
    <3> HIDE DEF plan, loaded
    <3>4. ExecTypes' /\ phase' \in Phases
      BY <3>1, <3>2, DistributedTypes DEF ExecTypes
    <3> QED
      BY <3>1, <3>3, <3>4, TypesUnchanged DEF TypeOK, RunTypes, queue, Phases
  <2> QED
    BY <2>1, <2>2
<1>4. CASE executionFinished
  <2>1. RunTypes'
    BY <1>4 DEF executionFinished, TypeOK, RunTypes, queue
  <2> QED
    BY <1>4, <2>1, TypesUnchanged DEF executionFinished, TypeOK
<1>5. CASE runFinished
  <2>1. UNCHANGED world /\ UNCHANGED <<faults, edits>>
    BY <1>5 DEF runFinished
  <2>2. CASE rerunRequested
    <3>1. startRun(now) /\ rerunRequested' = FALSE /\ UNCHANGED currentRun
      BY <1>5, <2>2 DEF runFinished
    <3>2. now \in 0..MaxTime
      BY DEF TypeOK, WorldTypes
    <3>3. RunTypes' /\ UNCHANGED exec
      BY <3>1, <3>2, StartRunTypes DEF TypeOK, RunTypes, Phases
    <3> QED
      BY <2>1, <3>3, TypesUnchanged DEF TypeOK
  <2>3. CASE ~rerunRequested
    <3>1. currentRun' = FALSE /\ endRun /\ UNCHANGED rerunRequested
      BY <1>5, <2>3 DEF runFinished
    <3>2. Idle' /\ UNCHANGED exec
      BY <3>1 DEF endRun, Idle, TypeOK, RunTypes
    <3>3. RunTypes'
      BY <3>2, IdleTypes, PTL
    <3> QED
      BY <2>1, <3>2, <3>3, TypesUnchanged DEF TypeOK
  <2> QED
    BY <2>2, <2>3
<1>6. ASSUME NEW l \in Locations, executeLocation(l) PROVE TypeOK'
  <2>1. CASE getConnection(l)
    <3>1. ExecTypes'
      BY <2>1 DEF getConnection, moveTo, TypeOK, ExecTypes
    <3>2. RunTypes'
      BY <2>1 DEF getConnection, TypeOK, RunTypes, queue
    <3>3. UNCHANGED world /\ faults' \in Nat /\ edits' \in Nat
      BY <2>1 DEF getConnection, Fault, TypeOK
    <3> QED
      BY <3>1, <3>2, <3>3, TypesUnchanged DEF TypeOK
  <2>2. CASE applyToDevice(l)
    <3>1. PICK a \in todo[l] : applied(l, a) \/ thermostatUnreachable(l, a) \/ boxUnreachable(l, a)
      BY <2>2 DEF applyToDevice
    <3>2. a.room \in Rooms /\ a.kind \in Kinds /\ a \in Actions
      BY <3>1 DEF Actions, TypeOK, ExecTypes
    <3> USE DEF applied, thermostatUnreachable, boxUnreachable
    <3>3. thermostat' = thermostat \/ thermostat' = [thermostat EXCEPT ![a.room] = a.kind]
      BY <3>1
    <3>4. errors' \in BOOLEAN
      BY <3>1 DEF TypeOK, RunTypes
    <3>10. faults' \in Nat
      BY <3>1, TypesUnchanged DEF TypeOK
    <3>5. todo' = [todo EXCEPT ![l] = @ \ {a}] \/ todo' = [todo EXCEPT ![l] = {}]
      BY <3>1
    <3>6. done' = done \/ done' = [done EXCEPT ![l] = @ \cup {a}]
      BY <3>1
    <3>7. ExecTypes'
      BY <2>2, <3>2, <3>5, <3>6 DEF applyToDevice, moveTo, TypeOK, ExecTypes
    <3>8. WorldTypes'
      BY <2>2, <3>2, <3>3 DEF applyToDevice, TypeOK, WorldTypes
    <3>9. RunTypes' /\ edits' \in Nat
      BY <2>2, <3>4 DEF applyToDevice, TypeOK, RunTypes, queue
    <3> QED
      BY <3>7, <3>8, <3>9, <3>10 DEF TypeOK
  <2>3. CASE setHeated(l)
    <3>1. WorldTypes'
      BY <2>3 DEF setHeated, flagOf, TypeOK, WorldTypes
    <3>2. RunTypes'
      BY <2>3 DEF setHeated, TypeOK, RunTypes, queue
    <3>3. ExecTypes'
      BY <2>3 DEF setHeated, TypeOK, ExecTypes
    <3>4. faults' \in Nat /\ edits' \in Nat
      BY <2>3 DEF setHeated, Fault, TypeOK
    <3> QED
      BY <3>1, <3>2, <3>3, <3>4 DEF TypeOK
  <2>4. CASE locationFinished(l)
    <3>1. ExecTypes'
      BY <2>4 DEF locationFinished, moveTo, TypeOK, ExecTypes
    <3> QED
      BY <2>4, <3>1, TypesUnchanged DEF locationFinished, TypeOK
  <2> QED
    BY <1>6, <2>1, <2>2, <2>3, <2>4 DEF executeLocation
<1>7. CASE Environment
  <2>1. CASE crash
    <3>1. Idle'
      BY <2>1 DEF crash, Idle
    <3>2. ExecTypes'
      BY <2>1 DEF crash, nothing, ExecTypes
    <3>3. RunTypes'
      BY <3>1, IdleTypes, PTL
    <3> QED
      BY <2>1, <3>2, <3>3, TypesUnchanged DEF crash, Fault, TypeOK
  <2>2. ASSUME NEW r \in Rooms, saveRoomForm(r) PROVE TypeOK'
    <3>1. WorldTypes'
      BY <2>2 DEF saveRoomForm, TypeOK, WorldTypes
    <3> QED
      BY <2>2, <3>1, TypesUnchanged DEF saveRoomForm, Fault, TypeOK
  <2>3. CASE (\E e \in Bookings : book(e) \/ unbook(e)) \/ turnSeason
    <3>1. WorldTypes'
      BY <2>3 DEF book, unbook, turnSeason, Edit, TypeOK, WorldTypes
    <3>2. Edit
      BY <2>3 DEF book, unbook, turnSeason
    <3> QED
      BY <3>1, <3>2, TypesUnchanged DEF Edit, TypeOK
  <2> QED
    BY <1>7, <2>1, <2>2, <2>3 DEF Environment
<1>8. CASE UNCHANGED vars
  BY <1>8, TypesUnchanged DEF vars, world, queue, run, exec, TypeOK
<1> QED
  BY <1>1, <1>2, <1>3, <1>4, <1>5, <1>6, <1>7, <1>8 DEF Next, RunStep

(* The state keeps its shape, whatever fails.                              *)
THEOREM TypeCorrect == Spec => []TypeOK
BY TypeInit, TypeNext, PTL DEF Spec

-----------------------------------------------------------------------------
(* Orderly runs.  Without room forms nothing but a run writes `heated`, so *)
(* what a run has read still holds when it plans and when it acts.         *)

NoRoomForms == "room_form" \notin FaultKinds

Orderly == \A l \in Locations : OrderlyAt(l)

LEMMA OrderlyInit == Init => RunsAreOrderly
BY DEF Init, RunsAreOrderly, RunStates, OrderlyAt, CommandsSwitch, nothing

(* The actions of no location change.                                      *)
LEMMA SameActions ==
  ASSUME RunsAreOrderly, UNCHANGED exec, UNCHANGED heated,
         \/ phase' = phase
         \/ phase # "execute"
         \/ \A l \in Locations : stage[l] = "finished"
  PROVE  Orderly' /\ CommandsSwitch'
<1>1. CommandsSwitch'
  BY DEF RunsAreOrderly, CommandsSwitch, exec
<1>2. \A l \in Locations : OrderlyAt(l)'
  BY DEF RunsAreOrderly, OrderlyAt, exec
<1> QED
  BY <1>1, <1>2 DEF Orderly

(* Distributing a good plan.                                               *)
LEMMA DistributedOrderly ==
  ASSUME NEW plan, GoodPlan(plan, heated), executeActions(plan), UNCHANGED heated
  PROVE  Orderly' /\ CommandsSwitch'
<1>1. ASSUME NEW l \in Locations
      PROVE  OrderlyAt(l)' /\ \A a \in todo'[l] : heated'[a.room] # (a.kind = "HEAT")
  <2>1. /\ phase' = "execute"
        /\ stage'[l] \in {"store", "finished"} => todo'[l] = {}
        /\ stage'[l] = "finished" => done'[l] = {}
    BY DEF executeActions
  <2>2. todo'[l] = deviceActions(plan, l) /\ done'[l] = skippedActions(plan, l)
    BY DEF executeActions
  <2>3. \A a \in todo'[l] : a \in plan /\ a.loc = l /\ HasAvm[a.room]
    BY <2>2 DEF deviceActions
  <2>4. \A a \in done'[l] : a \in plan /\ a.loc = l
    BY <2>2 DEF skippedActions
  <2>5. \A a \in todo'[l] : LocOf[a.room] = l /\ heated[a.room] # (a.kind = "HEAT")
    BY <2>3 DEF GoodPlan
  <2>6. \A a \in done'[l] : LocOf[a.room] = l
    BY <2>4 DEF GoodPlan
  <2>7. \A a, b \in todo'[l] \cup done'[l] : a.room = b.room => a = b
    BY <2>3, <2>4 DEF GoodPlan
  <2>8. OrderlyAt(l)'
    BY <2>1, <2>3, <2>5, <2>6, <2>7 DEF OrderlyAt
  <2> QED
    BY <2>5, <2>8
<1> QED
  BY <1>1 DEF Orderly, CommandsSwitch

(* A step of one location touches no action of another, and no room of     *)
(* another: a room belongs to the location whose actions name it.          *)
LEMMA LocationOrderly ==
  ASSUME TypeOK, RunsAreOrderly, NEW l \in Locations, executeLocation(l)
  PROVE  Orderly' /\ CommandsSwitch'
<1> DEFINE Shrinks(T, D) == /\ T \subseteq todo[l]
                            /\ D \subseteq todo[l] \cup done[l]
<1>1. /\ phase = "execute" /\ phase' = "execute"
      /\ OrderlyAt(l)
  BY DEF executeLocation, getConnection, applyToDevice, setHeated, locationFinished,
         run, RunsAreOrderly
<1>2. ASSUME NEW m \in Locations, m # l
      PROVE  stage'[m] = stage[m] /\ todo'[m] = todo[m] /\ done'[m] = done[m]
  <2>1. CASE getConnection(l)
    BY <1>2, <2>1 DEF getConnection, moveTo, TypeOK, ExecTypes
  <2>2. CASE applyToDevice(l)
    BY <1>2, <2>2 DEF applyToDevice, moveTo, applied, thermostatUnreachable, boxUnreachable,
                      TypeOK, ExecTypes
  <2>3. CASE setHeated(l)
    BY <1>2, <2>3 DEF setHeated, TypeOK, ExecTypes
  <2>4. CASE locationFinished(l)
    BY <1>2, <2>4 DEF locationFinished, moveTo, TypeOK, ExecTypes
  <2> QED
    BY <2>1, <2>2, <2>3, <2>4 DEF executeLocation
<1>3. /\ Shrinks(todo'[l], done'[l])
      /\ stage'[l] \in {"store", "finished"} => todo'[l] = {}
      /\ stage'[l] = "finished" => done'[l] = {}
  <2>1. CASE getConnection(l)
    BY <2>1 DEF getConnection, moveTo, TypeOK, ExecTypes
  <2>2. CASE applyToDevice(l)
    <3>1. PICK a \in todo[l] : applied(l, a) \/ thermostatUnreachable(l, a) \/ boxUnreachable(l, a)
      BY <2>2 DEF applyToDevice
    <3>2. todo'[l] \in {todo[l] \ {a}, {}} /\ done'[l] \in {done[l], done[l] \cup {a}}
      BY <3>1 DEF applied, thermostatUnreachable, boxUnreachable, TypeOK, ExecTypes
    <3>3. IF todo'[l] = {} THEN stage'[l] = "store" ELSE stage'[l] = "send"
      BY <2>2 DEF applyToDevice, moveTo, TypeOK, ExecTypes
    <3> QED
      BY <3>1, <3>2, <3>3
  <2>3. CASE setHeated(l)
    BY <1>1, <2>3 DEF setHeated, OrderlyAt, TypeOK, ExecTypes
  <2>4. CASE locationFinished(l)
    BY <1>1, <2>4 DEF locationFinished, moveTo, OrderlyAt, TypeOK, ExecTypes
  <2> QED
    BY <2>1, <2>2, <2>3, <2>4 DEF executeLocation
<1>4. OrderlyAt(l)'
  <2>1. \A a \in todo'[l] : LocOf[a.room] = l /\ HasAvm[a.room]
    BY <1>1, <1>3 DEF OrderlyAt
  <2>2. \A a \in done'[l] : LocOf[a.room] = l
    BY <1>1, <1>3 DEF OrderlyAt
  <2>3. \A a, b \in todo'[l] \cup done'[l] : a.room = b.room => a = b
    BY <1>1, <1>3 DEF OrderlyAt
  <2> QED
    BY <1>1, <1>3, <2>1, <2>2, <2>3 DEF OrderlyAt
<1>5. ASSUME NEW m \in Locations, m # l PROVE OrderlyAt(m)'
  BY <1>1, <1>2, <1>5 DEF RunsAreOrderly, OrderlyAt
<1>6. CommandsSwitch'
  <2>1. CASE UNCHANGED heated
    BY <1>2, <1>3, <2>1 DEF RunsAreOrderly, CommandsSwitch
  <2>2. CASE ~UNCHANGED heated
    <3>1. setHeated(l)
      BY <2>2 DEF executeLocation, getConnection, applyToDevice, locationFinished, world
    <3>2. PICK a \in done[l] : heated' = [heated EXCEPT ![a.room] = (a.kind = "HEAT")]
      BY <2>2, <3>1 DEF setHeated, flagOf
    <3>3. LocOf[a.room] = l /\ todo'[l] = {}
      BY <1>1, <1>3, <3>1, <3>2 DEF OrderlyAt, setHeated
    <3>4. ASSUME NEW m \in Locations, NEW b \in todo'[m]
          PROVE  heated'[b.room] # (b.kind = "HEAT")
      <4>1. m # l /\ b \in todo[m]
        BY <1>2, <3>3, <3>4
      <4>2. LocOf[b.room] = m /\ b.room \in Rooms
        BY <4>1 DEF RunsAreOrderly, OrderlyAt, TypeOK, ExecTypes, Actions
      <4>3. heated'[b.room] = heated[b.room]
        BY <3>2, <3>3, <4>1, <4>2 DEF TypeOK, WorldTypes
      <4> QED
        BY <4>1, <4>3 DEF RunsAreOrderly, CommandsSwitch
    <3> QED
      BY <3>4 DEF CommandsSwitch
  <2> QED
    BY <2>1, <2>2
<1> QED
  BY <1>4, <1>5, <1>6 DEF Orderly

LEMMA StartRunOrderly ==
  ASSUME RunsAreOrderly, NEW at, startRun(at), currentRun' = TRUE, UNCHANGED heated,
         phase # "execute"
  PROVE  RunsAreOrderly'
<1>1. RunStates'
  BY DEF startRun, RunStates
<1>2. UNCHANGED exec
  BY DEF startRun
<1> QED
  BY <1>1, <1>2, SameActions DEF RunsAreOrderly, Orderly

LEMMA OrderlyNext ==
  ASSUME NoRoomForms, TypeOK, RunsAreOrderly, [Next]_vars
  PROVE  RunsAreOrderly'
<1> SUFFICES RunStates' /\ Orderly' /\ CommandsSwitch'
  BY DEF RunsAreOrderly, Orderly
<1> USE DEF world, queue, run, exec
<1>1. CASE handleCron
  <2>1. UNCHANGED heated
    BY <1>1 DEF handleCron
  <2>2. CASE ~SchedulerEnabled \/ currentRun
    <3>1. UNCHANGED <<currentRun, phase, rooms>> /\ UNCHANGED exec
      BY <1>1, <2>2 DEF handleCron, trigger
    <3>2. RunStates'
      BY <2>1, <3>1 DEF RunStates, RunsAreOrderly
    <3> QED
      BY <2>1, <3>1, <3>2, SameActions
  <2>3. CASE SchedulerEnabled /\ ~currentRun
    <3>1. PICK at : startRun(at) /\ currentRun' = TRUE
      BY <1>1, <2>3 DEF handleCron, trigger
    <3>2. phase # "execute"
      BY <2>3 DEF RunsAreOrderly, RunStates
    <3> QED
      BY <2>1, <3>1, <3>2, StartRunOrderly DEF RunsAreOrderly, Orderly
  <2> QED
    BY <2>2, <2>3
<1>3. CASE loadRooms
  <2>1. /\ phase = "loadRooms" /\ UNCHANGED heated /\ UNCHANGED currentRun
    BY <1>3 DEF loadRooms, loadFailed
  <2>2. CASE loadFailed
    <3>1. phase' = "audit" /\ UNCHANGED exec
      BY <2>2 DEF loadFailed
    <3>2. RunStates'
      BY <2>1, <3>1 DEF RunStates, RunsAreOrderly
    <3> QED
      BY <2>1, <3>1, <3>2, SameActions
  <2>3. CASE ~loadFailed /\ runSeason = "out"
    <3>1. /\ rooms' = {roomRecord(r, heated) : r \in Rooms}
          /\ executeActions(planSeasonExit(rooms'))
      BY <1>3, <2>3 DEF loadRooms
    <3>2. GoodPlan(planSeasonExit(rooms'), heated)
      BY <3>1, PlanSeasonExitIsGood DEF TypeOK, WorldTypes
    <3>3. RunStates'
      BY <2>1, <3>1 DEF executeActions, RunStates, RunsAreOrderly
    <3> QED
      BY <2>1, <3>1, <3>2, <3>3, DistributedOrderly
  <2>4. CASE ~loadFailed /\ runSeason # "out"
    <3>1. /\ rooms' = {roomRecord(r, heated) : r \in Rooms}
          /\ phase' = "loadEvents" /\ UNCHANGED exec
      BY <1>3, <2>4 DEF loadRooms
    <3>2. RunStates'
      BY <2>1, <3>1 DEF RunStates, RunsAreOrderly
    <3> QED
      BY <2>1, <3>1, <3>2, SameActions
  <2> QED
    BY <2>2, <2>3, <2>4
<1>4. CASE loadEvents
  <2>1. phase = "loadEvents" /\ UNCHANGED heated /\ UNCHANGED currentRun
    BY <1>4 DEF loadEvents, loadFailed
  <2>2. CASE loadFailed
    <3>1. phase' = "audit" /\ UNCHANGED exec
      BY <2>2 DEF loadFailed
    <3>2. RunStates'
      BY <2>1, <3>1 DEF RunStates, RunsAreOrderly
    <3> QED
      BY <2>1, <3>1, <3>2, SameActions
  <2>3. CASE ~loadFailed
    <3>1. PICK E, hallways : executeActions(planHeating(runNow, rooms, E, hallways))
      BY <1>4, <2>3 DEF loadEvents
    <3>2. rooms = {roomRecord(r, heated) : r \in Rooms}
      BY <2>1 DEF RunsAreOrderly, RunStates
    <3>3. GoodPlan(planHeating(runNow, rooms, E, hallways), heated)
      BY <3>2, PlanHeatingIsGood DEF TypeOK, WorldTypes
    <3>4. RunStates'
      BY <2>1, <3>1 DEF executeActions, RunStates, RunsAreOrderly
    <3> QED
      BY <2>1, <3>1, <3>3, <3>4, DistributedOrderly
  <2> QED
    BY <2>2, <2>3
<1>5. CASE executionFinished
  <2>1. /\ UNCHANGED <<heated, currentRun>> /\ UNCHANGED exec
        /\ phase = "execute" /\ phase' = "audit"
        /\ \A l \in Locations : stage[l] = "finished"
    BY <1>5 DEF executionFinished
  <2>2. RunStates'
    BY <2>1 DEF RunStates, RunsAreOrderly
  <2> QED
    BY <2>1, <2>2, SameActions
<1>6. CASE runFinished
  <2>1. phase = "audit" /\ UNCHANGED heated
    BY <1>6 DEF runFinished
  <2>2. CASE rerunRequested
    <3>1. startRun(now) /\ currentRun' = TRUE
      BY <1>6, <2>1, <2>2 DEF runFinished, RunsAreOrderly, RunStates, TypeOK, RunTypes
    <3> QED
      BY <2>1, <3>1, StartRunOrderly DEF RunsAreOrderly, Orderly
  <2>3. CASE ~rerunRequested
    <3>1. currentRun' = FALSE /\ phase' = "idle" /\ UNCHANGED exec
      BY <1>6, <2>3 DEF runFinished, endRun
    <3>2. RunStates'
      BY <3>1 DEF RunStates
    <3> QED
      BY <2>1, <3>1, <3>2, SameActions
  <2> QED
    BY <2>2, <2>3
<1>7. ASSUME NEW l \in Locations, executeLocation(l) PROVE RunStates' /\ Orderly' /\ CommandsSwitch'
  <2>1. phase = "execute" /\ phase' = "execute" /\ UNCHANGED currentRun
    BY <1>7 DEF executeLocation, getConnection, applyToDevice, setHeated, locationFinished
  <2>2. RunStates'
    BY <2>1 DEF RunStates, RunsAreOrderly
  <2> QED
    BY <1>7, <2>2, LocationOrderly
<1>8. CASE crash
  <2>1. RunStates'
    BY <1>8 DEF crash, RunStates
  <2>2. Orderly' /\ CommandsSwitch'
    BY <1>8 DEF crash, nothing, Orderly, OrderlyAt, CommandsSwitch
  <2> QED
    BY <2>1, <2>2
<1>9. ASSUME NEW r \in Rooms, saveRoomForm(r) PROVE FALSE
  BY <1>9 DEF saveRoomForm, Fault, NoRoomForms
<1>10. CASE (\E e \in Bookings : book(e) \/ unbook(e)) \/ turnSeason
  <2>1. UNCHANGED <<heated, currentRun, phase, rooms>> /\ UNCHANGED exec
    BY <1>10 DEF book, unbook, turnSeason, Edit
  <2>2. RunStates'
    BY <2>1 DEF RunStates, RunsAreOrderly
  <2> QED
    BY <2>1, <2>2, SameActions
<1>11. CASE UNCHANGED vars
  <2>1. UNCHANGED <<heated, currentRun, phase, rooms>> /\ UNCHANGED exec
    BY <1>11 DEF vars
  <2>2. RunStates'
    BY <2>1 DEF RunStates, RunsAreOrderly
  <2> QED
    BY <2>1, <2>2, SameActions
<1> QED
  BY <1>1, <1>3, <1>4, <1>5, <1>6, <1>7, <1>8, <1>9, <1>10, <1>11
  DEF Next, RunStep, Environment

(* Runs are orderly, whatever else fails.                                  *)
THEOREM OrderlyRuns ==
  ASSUME NoRoomForms
  PROVE  Spec => []RunsAreOrderly
<1>1. TypeOK /\ RunsAreOrderly /\ [Next]_vars => RunsAreOrderly'
  BY OrderlyNext
<1> QED
  BY <1>1, OrderlyInit, TypeCorrect, PTL DEF Spec

-----------------------------------------------------------------------------
(* Flags and thermostats.                                                  *)

LEMMA DoneInit == Init => DoneIsApplied /\ FlagsFollowThermostats
BY DEF Init, DoneIsApplied, FlagsFollowThermostats, nothing

(* The flags, the thermostats and the pending stores are left alone.       *)
LEMMA SameDone ==
  UNCHANGED <<heated, thermostat, done>> =>
    /\ DoneIsApplied => DoneIsApplied'
    /\ FlagsFollowThermostats => FlagsFollowThermostats'
BY DEF DoneIsApplied, FlagsFollowThermostats

(* A new plan: only rooms without thermostat wait for their flag.          *)
LEMMA DistributedApplied ==
  ASSUME NEW plan, executeActions(plan), RunsAreOrderly, phase # "execute",
         UNCHANGED <<heated, thermostat>>
  PROVE  /\ DoneIsApplied'
         /\ FlagsFollowThermostats => FlagsFollowThermostats'
<1>1. ASSUME NEW l \in Locations, NEW a \in done'[l] PROVE ~HasAvm[a.room]
  <2>1. done'[l] = skippedActions(plan, l)
    BY DEF executeActions
  <2> QED
    BY <1>1, <2>1 DEF skippedActions
<1>2. \A l \in Locations : done[l] = {}
  BY DEF RunsAreOrderly, OrderlyAt
<1>3. ASSUME FlagsFollowThermostats, NEW r \in Rooms, HasAvm[r]
      PROVE  heated[r] = (thermostat[r] = "HEAT")
  <2>1. LocOf[r] \in Locations
    BY DEF Locations
  <2>2. done[LocOf[r]] = {}
    BY <1>2, <2>1
  <2> QED
    BY <1>3, <2>2 DEF FlagsFollowThermostats
<1>4. FlagsFollowThermostats => FlagsFollowThermostats'
  BY <1>3 DEF FlagsFollowThermostats
<1> QED
  BY <1>1, <1>4 DEF DoneIsApplied

(* One step of one location.  The device is set and the action handed over *)
(* to be stored; later the flag is stored: the agreement moves from one    *)
(* disjunct to the other.                                                  *)
LEMMA LocationApplied ==
  ASSUME TypeOK, RunsAreOrderly, DoneIsApplied, NEW l \in Locations, executeLocation(l)
  PROVE  DoneIsApplied'
<1>1. OrderlyAt(l) /\ \A m \in Locations : OrderlyAt(m)
  BY DEF RunsAreOrderly
<1>2. CASE getConnection(l) \/ locationFinished(l)
  BY <1>2, SameDone DEF getConnection, locationFinished, world
<1>3. CASE applyToDevice(l)
  <2>1. PICK a \in todo[l] : applied(l, a) \/ thermostatUnreachable(l, a) \/ boxUnreachable(l, a)
    BY <1>3 DEF applyToDevice
  <2>2. \/ UNCHANGED thermostat
        \/ thermostat' = [thermostat EXCEPT ![a.room] = a.kind]
    BY <2>1 DEF applied, thermostatUnreachable, boxUnreachable
  <2>3. \/ UNCHANGED done
        \/ /\ done' = [done EXCEPT ![l] = @ \cup {a}]
           /\ thermostat' = [thermostat EXCEPT ![a.room] = a.kind]
    BY <2>1 DEF applied, thermostatUnreachable, boxUnreachable
  <2>4. ASSUME NEW m \in Locations, NEW b \in done'[m], HasAvm[b.room]
        PROVE  thermostat'[b.room] = b.kind
    <3>1. a.room \in Rooms /\ LocOf[a.room] = l
      BY <1>1 DEF OrderlyAt, TypeOK, ExecTypes, Actions
    <3>2. CASE b \in done[m]
      <4>1. b.room \in Rooms /\ LocOf[b.room] = m /\ thermostat[b.room] = b.kind
        BY <1>1, <2>4, <3>2 DEF OrderlyAt, DoneIsApplied, TypeOK, ExecTypes, Actions
      <4>2. b.room = a.room => b = a
        BY <1>1, <3>1, <3>2, <4>1 DEF OrderlyAt
      <4> QED
        BY <2>2, <3>1, <4>1, <4>2 DEF TypeOK, WorldTypes
    <3>3. CASE b \notin done[m]
      <4>1. b = a /\ thermostat' = [thermostat EXCEPT ![a.room] = a.kind]
        BY <2>3, <2>4, <3>3 DEF TypeOK, ExecTypes
      <4> QED
        BY <3>1, <4>1 DEF TypeOK, WorldTypes
    <3> QED
      BY <3>2, <3>3
  <2> QED
    BY <2>4 DEF DoneIsApplied
<1>4. CASE setHeated(l)
  <2>1. UNCHANGED thermostat /\ \A m \in Locations : done'[m] \subseteq done[m]
    BY <1>4 DEF setHeated, TypeOK, ExecTypes
  <2> QED
    BY <2>1 DEF DoneIsApplied
<1> QED
  BY <1>2, <1>3, <1>4 DEF executeLocation

LEMMA LocationFollows ==
  ASSUME TypeOK, RunsAreOrderly, DoneIsApplied, FlagsFollowThermostats,
         "lost_reply" \notin FaultKinds, "db_write" \notin FaultKinds,
         NEW l \in Locations, executeLocation(l)
  PROVE  FlagsFollowThermostats'
<1>1. OrderlyAt(l) /\ \A m \in Locations : OrderlyAt(m)
  BY DEF RunsAreOrderly
<1>2. CASE getConnection(l) \/ locationFinished(l)
  BY <1>2, SameDone DEF getConnection, locationFinished, world
<1>3. CASE applyToDevice(l)
  <2>1. UNCHANGED heated
    BY <1>3 DEF applyToDevice
  <2>2. CASE UNCHANGED <<thermostat, done>>
    BY <2>1, <2>2, SameDone
  <2>3. CASE ~UNCHANGED <<thermostat, done>>
    <3>1. PICK a \in todo[l] : applied(l, a)
      BY <1>3, <2>3 DEF applyToDevice, thermostatUnreachable, boxUnreachable, Fault
    <3>2. a.room \in Rooms /\ LocOf[a.room] = l
      BY <1>1, <3>1 DEF OrderlyAt, TypeOK, ExecTypes, Actions
    <3>3. /\ a \in done'[l]
          /\ \A m \in Locations : done[m] \subseteq done'[m]
          /\ thermostat'[a.room] = a.kind
          /\ \A r \in Rooms : r # a.room => thermostat'[r] = thermostat[r]
      BY <3>1, <3>2 DEF applied, TypeOK, WorldTypes, ExecTypes
    <3>4. ASSUME NEW r \in Rooms, HasAvm[r]
          PROVE  \/ heated'[r] = (thermostat'[r] = "HEAT")
                 \/ \E b \in done'[LocOf[r]] : b.room = r /\ b.kind = thermostat'[r]
      <4>1. CASE r = a.room
        BY <3>2, <3>3, <4>1
      <4>2. CASE r # a.room
        <5>1. LocOf[r] \in Locations /\ thermostat'[r] = thermostat[r] /\ heated'[r] = heated[r]
          BY <2>1, <3>3, <4>2 DEF Locations
        <5> QED
          BY <3>3, <3>4, <5>1 DEF FlagsFollowThermostats
      <4> QED
        BY <4>1, <4>2
    <3> QED
      BY <3>4 DEF FlagsFollowThermostats
  <2> QED
    BY <2>2, <2>3
<1>4. CASE setHeated(l)
  <2>1. PICK a \in done[l] : /\ done' = [done EXCEPT ![l] = @ \ {a}]
                             /\ heated' = [heated EXCEPT ![a.room] = (a.kind = "HEAT")]
    BY <1>4 DEF setHeated, flagOf, Fault
  <2>2. /\ a.room \in Rooms /\ LocOf[a.room] = l
        /\ UNCHANGED thermostat
        /\ HasAvm[a.room] => thermostat[a.room] = a.kind
    BY <1>1, <1>4, <2>1 DEF setHeated, OrderlyAt, DoneIsApplied, TypeOK, ExecTypes, Actions
  <2>3. ASSUME NEW r \in Rooms, HasAvm[r]
        PROVE  \/ heated'[r] = (thermostat'[r] = "HEAT")
               \/ \E b \in done'[LocOf[r]] : b.room = r /\ b.kind = thermostat'[r]
    <3>1. CASE r = a.room
      BY <2>1, <2>2, <2>3, <3>1 DEF TypeOK, WorldTypes
    <3>2. CASE r # a.room
      <4>1. heated'[r] = heated[r] /\ thermostat'[r] = thermostat[r] /\ LocOf[r] \in Locations
        BY <2>1, <2>2, <3>2 DEF TypeOK, WorldTypes, Locations
      <4>2. ASSUME NEW b \in done[LocOf[r]], b.room = r PROVE b \in done'[LocOf[r]]
        BY <2>1, <3>2, <4>1, <4>2 DEF TypeOK, ExecTypes
      <4> QED
        BY <2>3, <4>1, <4>2 DEF FlagsFollowThermostats
    <3> QED
      BY <3>1, <3>2
  <2> QED
    BY <2>3 DEF FlagsFollowThermostats
<1> QED
  BY <1>2, <1>3, <1>4 DEF executeLocation

(* Every step but those of a location, a crash and a room form.            *)
LEMMA OtherSteps ==
  ASSUME TypeOK, RunsAreOrderly, [Next]_vars,
         ~(\E l \in Locations : executeLocation(l)), ~crash,
         ~(\E r \in Rooms : saveRoomForm(r))
  PROVE  \/ UNCHANGED <<heated, thermostat, done>>
         \/ /\ UNCHANGED <<heated, thermostat>>
            /\ phase # "execute"
            /\ \E plan : executeActions(plan)
<1> USE DEF world, exec
<1>1. CASE handleCron
  BY <1>1 DEF handleCron, trigger, startRun
<1>2. CASE loadRooms
  BY <1>2 DEF loadRooms, loadFailed
<1>3. CASE loadEvents
  BY <1>3 DEF loadEvents, loadFailed
<1>4. CASE executionFinished
  BY <1>4 DEF executionFinished
<1>5. CASE runFinished
  BY <1>5 DEF runFinished, startRun, endRun
<1>6. CASE (\E e \in Bookings : book(e) \/ unbook(e)) \/ turnSeason
  BY <1>6 DEF book, unbook, turnSeason, Edit
<1>7. CASE UNCHANGED vars
  BY <1>7 DEF vars
<1> QED
  BY <1>1, <1>2, <1>3, <1>4, <1>5, <1>6, <1>7 DEF Next, RunStep, Environment

LEMMA DoneNext ==
  ASSUME NoRoomForms, TypeOK, RunsAreOrderly, DoneIsApplied, [Next]_vars
  PROVE  DoneIsApplied'
<1>1. CASE \E l \in Locations : executeLocation(l)
  BY <1>1, LocationApplied
<1>2. CASE crash
  BY <1>2 DEF crash, nothing, DoneIsApplied
<1>3. ~(\E r \in Rooms : saveRoomForm(r))
  BY DEF saveRoomForm, Fault, NoRoomForms
<1> QED
  BY <1>1, <1>2, <1>3, OtherSteps, SameDone, DistributedApplied

(* Only what a thermostat was set to is ever stored for it.                *)
THEOREM OnlyAppliedIsStored ==
  ASSUME NoRoomForms
  PROVE  Spec => []DoneIsApplied
<1>1. TypeOK /\ RunsAreOrderly /\ DoneIsApplied /\ [Next]_vars => DoneIsApplied'
  BY DoneNext
<1> QED
  BY <1>1, DoneInit, TypeCorrect, OrderlyRuns, PTL DEF Spec

NothingIsLost == FaultKinds \cap {"crash", "lost_reply", "db_write", "room_form"} = {}

LEMMA FollowsNext ==
  ASSUME NothingIsLost, TypeOK, RunsAreOrderly, DoneIsApplied, FlagsFollowThermostats,
         [Next]_vars
  PROVE  FlagsFollowThermostats'
<1>1. CASE \E l \in Locations : executeLocation(l)
  BY <1>1, LocationFollows DEF NothingIsLost
<1>2. ~crash /\ ~(\E r \in Rooms : saveRoomForm(r))
  BY DEF crash, saveRoomForm, Fault, NothingIsLost
<1> QED
  BY <1>1, <1>2, OtherSteps, SameDone, DistributedApplied

(* However many connections, thermostats, boxes and reads fail, and        *)
(* however rooms and the calendar change: the flag and the thermostat of a *)
(* room agree, or the run in progress is about to store the flag.          *)
THEOREM FlagsFollow ==
  ASSUME NothingIsLost
  PROVE  Spec => []FlagsFollowThermostats
<1>1. NoRoomForms
  BY DEF NothingIsLost, NoRoomForms
<1>2. TypeOK /\ RunsAreOrderly /\ DoneIsApplied /\ FlagsFollowThermostats /\ [Next]_vars
        => FlagsFollowThermostats'
  BY FollowsNext
<1> QED
  BY <1>1, <1>2, DoneInit, TypeCorrect, OrderlyRuns, OnlyAppliedIsStored, PTL DEF Spec

-----------------------------------------------------------------------------
(* Plans are safe: a run that has read only a window of the calendar       *)
(* decides what the whole calendar asks for.                               *)

(* What a decision for a room says about the events.                       *)
LEMMA DecisionMeaning ==
  ASSUME NEW r, IsRoom(r), NEW E, AreEvents(E), NEW at \in Int
  PROVE  LET d == roomDecision(r, E, at)
         IN  /\ d.kind = "HEAT" => Needed(r, E, at)
             /\ d.kind = "COOL" => ~Needed(r, E, at) /\ ~Bridging(eventsOfRoom(r, E), at)
<1> DEFINE d == roomDecision(r, E, at)
<1>1. \/ d = NoAction
      \/ d.kind = "HEAT" /\ ~r.heated
      \/ d.kind = "COOL" /\ r.heated
  BY RoomDecision DEF roomDecision, Decide, IsRoom
<1>2. heatedAfter(r, d) = RoomTarget(r, E, at)
  BY RoomRule
<1>3. NoAction.kind = "NONE"
  BY DEF NoAction, Decide
<1> HIDE DEF d
<1>4. ASSUME d.kind = "HEAT" PROVE Needed(r, E, at)
  BY <1>1, <1>2, <1>3, <1>4 DEF heatedAfter, RoomTarget
<1>5. ASSUME d.kind = "COOL" PROVE ~Needed(r, E, at) /\ ~Bridging(eventsOfRoom(r, E), at)
  BY <1>1, <1>2, <1>3, <1>5 DEF heatedAfter, RoomTarget
<1> QED
  BY <1>4, <1>5 DEF d

FinitePrelims   == IsFiniteSet({Prelim[r] : r \in Rooms})
OrderedBookings == \A e \in Bookings : e.start <= e.end

(* The action property, in a state of an orderly run.                      *)
LEMMA PlanStep ==
  ASSUME FinitePrelims, OrderedBookings, TypeOK, RunsAreOrderly,
         loadEvents, phase' = "execute",
         NEW l \in Locations, NEW a \in todo'[l] \cup done'[l], a.room \notin HallwayRoomIds
  PROVE  LET r == roomRecord(a.room, heated)
         IN  IF a.kind = "HEAT"
             THEN Needed(r, calendar, runNow)
             ELSE ~Needed(r, calendar, runNow) /\ ~Bridging(eventsOfRoom(r, calendar), runNow)
<1> DEFINE hallways == resolveHallways(HallwayRoomIds, rooms)
           loaded == findActiveHeatingEvents(calendar, eventWindow(rooms, runNow))
           plan == planHeating(runNow, rooms, loaded, hallways)
<1>1. phase = "loadEvents" /\ executeActions(plan)
  BY DEF loadEvents, loadFailed
<1>2. a \in plan
  <2>1. todo'[l] = deviceActions(plan, l) /\ done'[l] = skippedActions(plan, l)
    BY <1>1 DEF executeActions
  <2>2. todo'[l] \subseteq plan
    BY <2>1 DEF deviceActions
  <2>3. done'[l] \subseteq plan
    BY <2>1 DEF skippedActions
  <2> QED
    BY <2>2, <2>3
<1>3. rooms = {roomRecord(r, heated) : r \in Rooms}
  BY <1>1 DEF RunsAreOrderly, RunStates
<1>4. \A r \in Rooms : /\ IsRoom(roomRecord(r, heated))
                       /\ roomRecord(r, heated).id = r
                       /\ roomRecord(r, heated).prelim = Prelim[r]
  BY DEF IsRoom, roomRecord, TypeOK, WorldTypes
<1>5. IsFiniteSet({r.prelim : r \in rooms})
  <2>1. {r.prelim : r \in rooms} = {Prelim[r] : r \in Rooms}
    BY <1>3, <1>4
  <2> QED
    BY <2>1 DEF FinitePrelims
<1>6. runNow \in Int /\ AreEvents(calendar) /\ \A e \in calendar : e.start <= e.end
  BY DEF AreEvents, OrderedBookings, TypeOK, WorldTypes, RunTypes
<1>7. plan = planHeating(runNow, rooms, calendar, hallways)
  <2>1. \A r \in rooms : IsRoom(r)
    BY <1>3, <1>4
  <2> HIDE DEF hallways
  <2> QED
    BY <1>5, <1>6, <2>1, WindowSuffices
<1> HIDE DEF plan, hallways
<1>8. PICK r \in Rooms : a = Action(roomRecord(r, heated),
                                    decisionFor(roomRecord(r, heated), rooms, calendar, hallways, runNow))
                         /\ decisionFor(roomRecord(r, heated), rooms, calendar, hallways, runNow) # NoAction
  BY <1>2, <1>3, <1>7 DEF planHeating
<1> DEFINE rr == roomRecord(r, heated)
           d  == roomDecision(rr, calendar, runNow)
<1>9. a.room = r
  BY <1>4, <1>8 DEF Action
<1>10. ~isHallway(rr, hallways)
  BY <1>4, <1>9 DEF isHallway, resolveHallways, hallways
<1>11. a.kind = d.kind /\ d # NoAction
  BY <1>8, <1>10 DEF decisionFor, Action
<1>12. a.kind \in {"HEAT", "COOL"}
  BY <1>4, <1>11, RoomDecision DEF roomDecision, Decide, IsRoom
<1>13. /\ d.kind = "HEAT" => Needed(rr, calendar, runNow)
       /\ d.kind = "COOL" => /\ ~Needed(rr, calendar, runNow)
                             /\ ~Bridging(eventsOfRoom(rr, calendar), runNow)
  BY <1>4, <1>6, DecisionMeaning
<1> HIDE DEF d
<1> QED
  BY <1>9, <1>11, <1>12, <1>13

(* What a run is about to cool is needed by no event of the whole calendar *)
(* and bridged to none, what it is about to heat is needed - although the  *)
(* run has only read a window of the calendar, and rooms before it.        *)
THEOREM PlansAreSafe ==
  ASSUME NoRoomForms, FinitePrelims, OrderedBookings
  PROVE  Spec => PlanIsSafe
<1>1. TypeOK /\ RunsAreOrderly /\ [Next]_vars => [SafePlan]_vars
  BY PlanStep DEF SafePlan
<1> QED
  BY <1>1, TypeCorrect, OrderlyRuns, PTL DEF Spec, PlanIsSafe

-----------------------------------------------------------------------------
(* Switching: each command and each store switches its room.  This is what *)
(* makes the system follow the protocol of a thermostat.                   *)

SwitchingAt(l) ==
  /\ todo[l] \cap done[l] = {}
  /\ \A a \in done[l] : heated[a.room] # (a.kind = "HEAT")
StoresSwitch == \A l \in Locations : SwitchingAt(l)

LEMMA DistributedSwitches ==
  ASSUME NEW plan, GoodPlan(plan, heated), executeActions(plan), UNCHANGED heated
  PROVE  StoresSwitch'
<1>1. ASSUME NEW l \in Locations PROVE SwitchingAt(l)'
  <2>1. todo'[l] = deviceActions(plan, l) /\ done'[l] = skippedActions(plan, l)
    BY DEF executeActions
  <2>2. todo'[l] \cap done'[l] = {}
    BY <2>1 DEF deviceActions, skippedActions
  <2>3. \A a \in done'[l] : heated'[a.room] # (a.kind = "HEAT")
    BY <2>1 DEF skippedActions, GoodPlan
  <2> QED
    BY <2>2, <2>3 DEF SwitchingAt
<1> QED
  BY <1>1 DEF StoresSwitch

(* What a step of a location does to its work lists.                       *)
LEMMA LocationMoves ==
  ASSUME TypeOK, RunsAreOrderly, NEW l \in Locations, executeLocation(l)
  PROVE  /\ phase = "execute" /\ phase' = "execute"
         /\ UNCHANGED <<runNow, runSeason, rooms, events>>
         /\ \A m \in Locations : m # l => todo'[m] = todo[m] /\ done'[m] = done[m]
         /\ errors => errors'
         /\ \/ UNCHANGED <<todo, done, heated, thermostat>>
            \/ \E a \in todo[l] : /\ todo'[l] = todo[l] \ {a} /\ done'[l] = done[l] \cup {a}
                                  /\ thermostat' = [thermostat EXCEPT ![a.room] = a.kind]
                                  /\ UNCHANGED heated
            \/ /\ errors' /\ todo'[l] \subseteq todo[l] /\ done'[l] \subseteq done[l]
               /\ UNCHANGED heated
               /\ UNCHANGED thermostat \/ "lost_reply" \in FaultKinds
            \/ \E a \in done[l] : /\ todo[l] = {} /\ UNCHANGED <<todo, thermostat>>
                                  /\ done'[l] = done[l] \ {a}
                                  /\ heated' = [heated EXCEPT ![a.room] = (a.kind = "HEAT")]
<1>1. OrderlyAt(l)
  BY DEF RunsAreOrderly
<1>2. CASE getConnection(l)
  BY <1>2 DEF getConnection, moveTo, world, TypeOK, ExecTypes
<1>3. CASE applyToDevice(l)
  <2>1. PICK a \in todo[l] : applied(l, a) \/ thermostatUnreachable(l, a) \/ boxUnreachable(l, a)
    BY <1>3 DEF applyToDevice
  <2>2. /\ phase = "execute" /\ UNCHANGED <<heated, phase, runNow, runSeason, rooms, events>>
    BY <1>3 DEF applyToDevice
  <2>3. \A m \in Locations : m # l => todo'[m] = todo[m] /\ done'[m] = done[m]
    BY <2>1 DEF applied, thermostatUnreachable, boxUnreachable, TypeOK, ExecTypes
  <2>4. CASE applied(l, a)
    BY <2>2, <2>3, <2>4 DEF applied, TypeOK, ExecTypes
  <2>5. CASE thermostatUnreachable(l, a) \/ boxUnreachable(l, a)
    <3>1. errors' /\ todo'[l] \subseteq todo[l] /\ done'[l] \subseteq done[l]
      BY <2>5 DEF thermostatUnreachable, boxUnreachable, TypeOK, ExecTypes
    <3>2. UNCHANGED thermostat \/ "lost_reply" \in FaultKinds
      BY <2>5 DEF thermostatUnreachable, boxUnreachable, Fault
    <3> QED
      BY <2>2, <2>3, <3>1, <3>2
  <2> QED
    BY <2>1, <2>4, <2>5
<1>4. CASE setHeated(l)
  <2>1. PICK a \in done[l] :
          /\ done' = [done EXCEPT ![l] = @ \ {a}]
          /\ \/ heated' = [heated EXCEPT ![a.room] = (a.kind = "HEAT")] /\ UNCHANGED errors
             \/ errors' = TRUE /\ UNCHANGED heated
    BY <1>4 DEF setHeated, flagOf
  <2>2. /\ phase = "execute" /\ UNCHANGED <<phase, runNow, runSeason, rooms, events, todo, thermostat>>
        /\ todo[l] = {}
    BY <1>1, <1>4 DEF setHeated, OrderlyAt
  <2>3. /\ done'[l] = done[l] \ {a}
        /\ \A m \in Locations : m # l => done'[m] = done[m]
    BY <2>1 DEF TypeOK, ExecTypes
  <2> QED
    BY <2>1, <2>2, <2>3
<1>5. CASE locationFinished(l)
  BY <1>5 DEF locationFinished, run, world
<1> QED
  BY <1>2, <1>3, <1>4, <1>5 DEF executeLocation

LEMMA LocationSwitches ==
  ASSUME TypeOK, RunsAreOrderly, StoresSwitch, NEW l \in Locations, executeLocation(l)
  PROVE  StoresSwitch'
<1>1. /\ OrderlyAt(l) /\ SwitchingAt(l) /\ \A a \in todo[l] : heated[a.room] # (a.kind = "HEAT")
      /\ \A m \in Locations : OrderlyAt(m) /\ SwitchingAt(m)
  BY DEF RunsAreOrderly, StoresSwitch, CommandsSwitch
<1>2. \A m \in Locations : m # l => todo'[m] = todo[m] /\ done'[m] = done[m]
  BY LocationMoves
<1>3. \A m \in Locations : \A a \in done[m] : a.room \in Rooms /\ LocOf[a.room] = m
  BY <1>1 DEF OrderlyAt, TypeOK, ExecTypes, Actions
<1>4. CASE UNCHANGED heated
  <2>1. todo'[l] \cap done'[l] = {} /\ done'[l] \subseteq todo[l] \cup done[l]
    BY <1>1, <1>4, LocationMoves DEF SwitchingAt
  <2> QED
    BY <1>1, <1>2, <1>4, <2>1 DEF StoresSwitch, SwitchingAt
<1>5. CASE ~UNCHANGED heated
  <2>1. PICK a \in done[l] : /\ UNCHANGED todo /\ todo[l] = {} /\ done'[l] = done[l] \ {a}
                             /\ heated' = [heated EXCEPT ![a.room] = (a.kind = "HEAT")]
    BY <1>5, LocationMoves
  <2>2. ASSUME NEW m \in Locations, NEW b \in done'[m]
        PROVE  heated'[b.room] # (b.kind = "HEAT")
    <3>1. b \in done[m] /\ heated[b.room] # (b.kind = "HEAT")
      BY <1>1, <1>2, <2>1, <2>2 DEF SwitchingAt
    <3>2. b.room # a.room
      <4>1. CASE m = l
        BY <1>1, <2>1, <2>2, <3>1, <4>1 DEF OrderlyAt
      <4>2. CASE m # l
        BY <1>3, <3>1, <4>2
      <4> QED
        BY <4>1, <4>2
    <3> QED
      BY <1>3, <2>1, <3>1, <3>2 DEF TypeOK, WorldTypes
  <2>3. \A m \in Locations : todo'[m] \cap done'[m] = {}
    BY <1>1, <1>2, <2>1 DEF SwitchingAt
  <2> QED
    BY <2>2, <2>3 DEF StoresSwitch, SwitchingAt
<1> QED
  BY <1>4, <1>5

(* The plans that are distributed switch their rooms.                      *)
LEMMA PlansAreGood ==
  ASSUME TypeOK, RunsAreOrderly, loadRooms \/ loadEvents, NEW plan, executeActions(plan)
  PROVE  \E good : executeActions(good) /\ GoodPlan(good, heated)
<1>0. phase' # "audit" /\ phase' # "loadEvents"
  BY DEF executeActions
<1>1. CASE loadRooms
  <2>1. /\ rooms' = {roomRecord(r, heated) : r \in Rooms}
        /\ executeActions(planSeasonExit(rooms'))
    BY <1>0, <1>1 DEF loadRooms, loadFailed
  <2> QED
    BY <2>1, PlanSeasonExitIsGood DEF TypeOK, WorldTypes
<1>2. CASE loadEvents
  <2>1. PICK E, hallways : executeActions(planHeating(runNow, rooms, E, hallways))
    BY <1>0, <1>2 DEF loadEvents, loadFailed
  <2>2. rooms = {roomRecord(r, heated) : r \in Rooms}
    BY <1>2 DEF loadEvents, RunsAreOrderly, RunStates
  <2> QED
    BY <2>1, <2>2, PlanHeatingIsGood DEF TypeOK, WorldTypes
<1> QED
  BY <1>1, <1>2

LEMMA StoresSwitchNext ==
  ASSUME NoRoomForms, TypeOK, RunsAreOrderly, StoresSwitch, [Next]_vars
  PROVE  StoresSwitch'
<1>1. CASE \E l \in Locations : executeLocation(l)
  BY <1>1, LocationSwitches
<1>2. CASE crash
  BY <1>2 DEF crash, nothing, StoresSwitch, SwitchingAt
<1>3. CASE loadRooms \/ loadEvents
  <2>1. CASE \E plan : executeActions(plan)
    <3>1. UNCHANGED heated
      BY <1>3 DEF loadRooms, loadEvents, loadFailed, world
    <3> QED
      BY <1>3, <2>1, <3>1, PlansAreGood, DistributedSwitches
  <2>2. CASE ~\E plan : executeActions(plan)
    <3>1. UNCHANGED <<heated, todo, done>>
      BY <1>3, <2>2 DEF loadRooms, loadEvents, loadFailed, world, exec
    <3> QED
      BY <3>1 DEF StoresSwitch, SwitchingAt
  <2> QED
    BY <2>1, <2>2
<1>4. CASE handleCron \/ executionFinished \/ runFinished
           \/ (\E e \in Bookings : book(e) \/ unbook(e)) \/ turnSeason \/ UNCHANGED vars
  <2>1. UNCHANGED <<heated, todo, done>>
    BY <1>4 DEF handleCron, trigger, startRun, executionFinished, runFinished, endRun, book,
                unbook, turnSeason, Edit, vars, exec, world
  <2> QED
    BY <2>1 DEF StoresSwitch, SwitchingAt
<1>5. ~(\E r \in Rooms : saveRoomForm(r))
  BY DEF saveRoomForm, Fault, NoRoomForms
<1> QED
  BY <1>1, <1>2, <1>3, <1>4, <1>5 DEF Next, RunStep, Environment

LEMMA StoresSwitchAlways ==
  ASSUME NoRoomForms
  PROVE  Spec => []StoresSwitch
<1>1. Init => StoresSwitch
  BY DEF Init, nothing, StoresSwitch, SwitchingAt
<1>2. TypeOK /\ RunsAreOrderly /\ StoresSwitch /\ [Next]_vars => StoresSwitch'
  BY StoresSwitchNext
<1> QED
  BY <1>1, <1>2, TypeCorrect, OrderlyRuns, PTL DEF Spec

Followed == TypeOK /\ RunsAreOrderly /\ DoneIsApplied /\ FlagsFollowThermostats /\ StoresSwitch

(* A step of a location commands, confirms or marks one room, or none.     *)
LEMMA LocationFollowsProtocol ==
  ASSUME NothingIsLost, Followed, NEW l \in Locations, executeLocation(l)
  PROVE  Protocol!Next \/ UNCHANGED Protocol!duty
<1>1. /\ TypeOK /\ OrderlyAt(l) /\ SwitchingAt(l)
      /\ \A a \in todo[l] : heated[a.room] # (a.kind = "HEAT")
      /\ heated \in [Rooms -> BOOLEAN] /\ thermostat \in [Rooms -> Kinds]
  BY DEF Followed, RunsAreOrderly, StoresSwitch, CommandsSwitch, TypeOK, WorldTypes
<1>2. \A a \in todo[l] \cup done[l] : /\ a.room \in Rooms /\ LocOf[a.room] = l
                                      /\ a.kind \in {"HEAT", "COOL"}
  BY <1>1 DEF OrderlyAt, TypeOK, ExecTypes, Actions, Kinds
<1>3. ASSUME NEW a \in todo[l], UNCHANGED heated,
             thermostat' = [thermostat EXCEPT ![a.room] = a.kind]
      PROVE  Protocol!Command(a.room)
  <2>1. \A b \in done[l] : b.room # a.room
    BY <1>1 DEF OrderlyAt, SwitchingAt
  <2>2. HasAvm[a.room] /\ Protocol!Agree(a.room)
    BY <1>1, <1>2, <2>1 DEF OrderlyAt, Followed, FlagsFollowThermostats, Protocol!Agree
  <2>3. a.kind = IF thermostat[a.room] = "HEAT" THEN "COOL" ELSE "HEAT"
    BY <1>1, <1>2, <2>2 DEF Protocol!Agree
  <2> QED
    BY <1>3, <2>2, <2>3 DEF Protocol!Command
<1>4. ASSUME NEW a \in done[l], UNCHANGED thermostat,
             heated' = [heated EXCEPT ![a.room] = (a.kind = "HEAT")]
      PROVE  Protocol!Confirm(a.room) \/ Protocol!Mark(a.room)
  <2>1. heated[a.room] # (a.kind = "HEAT") /\ heated[a.room] \in BOOLEAN
    BY <1>1, <1>2 DEF SwitchingAt
  <2>2. CASE HasAvm[a.room]
    <3>1. thermostat[a.room] = a.kind
      BY <2>2 DEF Followed, DoneIsApplied
    <3> QED
      BY <1>4, <2>1, <2>2, <3>1 DEF Protocol!Confirm, Protocol!Agree
  <2>3. CASE ~HasAvm[a.room]
    <3>1. (a.kind = "HEAT") = ~heated[a.room]
      BY <2>1
    <3> QED
      BY <1>4, <2>3, <3>1 DEF Protocol!Mark
  <2> QED
    BY <2>2, <2>3
<1>5. \/ UNCHANGED <<heated, thermostat>>
      \/ \E a \in todo[l] : UNCHANGED heated /\ thermostat' = [thermostat EXCEPT ![a.room] = a.kind]
      \/ \E a \in done[l] : /\ UNCHANGED thermostat
                            /\ heated' = [heated EXCEPT ![a.room] = (a.kind = "HEAT")]
  <2>1. "lost_reply" \notin FaultKinds
    BY DEF NothingIsLost
  <2> QED
    BY <1>1, <2>1, LocationMoves DEF Followed
<1> QED
  BY <1>2, <1>3, <1>4, <1>5 DEF Protocol!Next, Protocol!duty

(* However many connections, thermostats, boxes and reads fail: for each   *)
(* room, what the heating control does to its thermostat and its flag is a *)
(* command, followed by its confirmation before the next command; a room   *)
(* without thermostat is only marked.                                      *)
THEOREM RunsFollowProtocol ==
  ASSUME NothingIsLost
  PROVE  Spec => Protocol!Init /\ [][Protocol!Next]_(Protocol!duty)
<1>1. NoRoomForms
  BY DEF NothingIsLost, NoRoomForms
<1>2. ASSUME Followed, [Next]_vars PROVE [Protocol!Next]_(Protocol!duty)
  <2>1. CASE \E l \in Locations : executeLocation(l)
    BY <1>2, <2>1, LocationFollowsProtocol
  <2>2. ~crash /\ ~(\E r \in Rooms : saveRoomForm(r))
    BY DEF crash, saveRoomForm, Fault, NothingIsLost
  <2>3. CASE ~\E l \in Locations : executeLocation(l)
    BY <1>2, <2>2, <2>3, OtherSteps DEF Followed, Protocol!duty
  <2> QED
    BY <2>1, <2>3
<1>3. Init => Protocol!Init
  BY DEF Init, Protocol!Init
<1>4. Spec => []Followed
  BY <1>1, TypeCorrect, OrderlyRuns, OnlyAppliedIsStored, FlagsFollow, StoresSwitchAlways, PTL
     DEF Followed
<1>5. Spec => Init /\ [][Next]_vars
  BY PTL DEF Spec
<1> QED
  BY <1>2, <1>3, <1>4, <1>5, PTL

-----------------------------------------------------------------------------
(* Clean runs: what a run without errors leaves behind.                    *)

FiniteRooms == IsFiniteSet(Rooms)

ruleTarget(r, R, E, at) ==
  LET hallways == resolveHallways(HallwayRoomIds, R)
  IN  IF isHallway(r, hallways)
      THEN HallwayTarget(r, othersOf(r, R, hallways), eventsOfLocation(r.loc, R, E), at)
      ELSE RoomTarget(r, E, at)

(* The decision the plan takes for a room is the one the rule wants.       *)
LEMMA DecisionsAim ==
  ASSUME FiniteRooms, NEW f \in [Rooms -> BOOLEAN], NEW E, AreEvents(E), NEW at \in Int,
         NEW r \in Rooms
  PROVE  LET R == {roomRecord(q, f) : q \in Rooms}
             x == roomRecord(r, f)
         IN  heatedAfter(x, decisionFor(x, R, E, resolveHallways(HallwayRoomIds, R), at))
               = ruleTarget(x, R, E, at)
<1> DEFINE R == {roomRecord(q, f) : q \in Rooms}
           hallways == resolveHallways(HallwayRoomIds, R)
<1>1. PICK x : x = roomRecord(r, f)
  OBVIOUS
<1>2. \A y \in R : y \in RoomRecords
  BY RecordFields
<1>3. \A y \in R : IsRoom(y) /\ y.avm \in BOOLEAN
  BY <1>2 DEF RoomRecords, IsRoom
<1>4. IsFiniteSet(R)
  <2> DEFINE g == [q \in Rooms |-> roomRecord(q, f)]
  <2>1. g \in Surjection(Rooms, R)
    BY DEF Surjection
  <2> QED
    BY <2>1, FS_Surjection DEF FiniteRooms
<1>5. x \in R
  BY <1>1
<1> HIDE DEF R, hallways
<1>6. CASE isHallway(x, hallways)
  <2>1. decisionFor(x, R, E, hallways, at)
          = evaluateHallway(x, heatedRoomCount(x, R, E, hallways, at),
                            eventsOfLocation(x.loc, R, E), at)
    BY <1>6 DEF decisionFor
  <2>2. ruleTarget(x, R, E, at)
          = HallwayTarget(x, othersOf(x, R, hallways),
                          eventsOfLocation(x.loc, R, E), at)
    BY <1>6 DEF ruleTarget, hallways
  <2>3. heatedAfter(x, evaluateHallway(x, heatedRoomCount(x, R, E, hallways, at),
                                       eventsOfLocation(x.loc, R, E), at))
          = HallwayTarget(x, othersOf(x, R, hallways),
                          eventsOfLocation(x.loc, R, E), at)
    BY <1>3, <1>4, <1>5, HallwayRule
  <2>4. heatedAfter(x, decisionFor(x, R, E, hallways, at)) = ruleTarget(x, R, E, at)
    BY <2>1, <2>2, <2>3
  <2> QED
    BY <1>1, <2>4 DEF R, hallways
<1>7. CASE ~isHallway(x, hallways)
  <2>1. decisionFor(x, R, E, hallways, at) = roomDecision(x, E, at)
    BY <1>7 DEF decisionFor
  <2>2. ruleTarget(x, R, E, at) = RoomTarget(x, E, at)
    BY <1>7 DEF ruleTarget, hallways
  <2> QED
    BY <1>1, <1>3, <1>5, <2>1, <2>2, RoomRule DEF R, hallways
<1> QED
  BY <1>6, <1>7

(* The work lists of room r agree with what is wanted of it: either an     *)
(* action is there that brings it about, or the flag has it already.       *)
Agreeing(r, t) ==
  /\ \A a \in todo[LocOf[r]] \cup done[LocOf[r]] : a.room = r => (a.kind = "HEAT") = t
  /\ (\A a \in todo[LocOf[r]] \cup done[LocOf[r]] : a.room # r) => heated[r] = t

(* A plan that is made of decisions D, when all of its targets are valid,  *)
(* reaches the work lists as a whole.                                      *)
LEMMA PlanAgrees ==
  ASSUME NEW plan, executeActions(plan), ~executionErrors(plan), UNCHANGED heated,
         heated \in [Rooms -> BOOLEAN],
         NEW D, NEW T,
         \A a : a \in plan <=>
           \E r \in Rooms : D[r] # NoAction /\ a = Action(roomRecord(r, heated), D[r]),
         \A r \in Rooms : D[r] = NoAction \/ D[r].kind \in Kinds,
         \A r \in Rooms : heatedAfter(roomRecord(r, heated), D[r]) = T[r],
         NEW r \in Rooms
  PROVE  Agreeing(r, T[r])'
<1>1. \A q \in Rooms : /\ Action(roomRecord(q, heated), D[q]).room = q
                       /\ Action(roomRecord(q, heated), D[q]).loc = LocOf[q]
                       /\ Action(roomRecord(q, heated), D[q]).kind = D[q].kind
  BY RecordFields DEF Action
<1>2. \A a \in plan : a.room \in Rooms /\ D[a.room] # NoAction
                      /\ a.kind = D[a.room].kind /\ a.loc = LocOf[a.room]
  BY <1>1
<1>3. LocOf[r] \in Locations
  BY DEF Locations
<1>4. \A a : a \in todo'[LocOf[r]] \cup done'[LocOf[r]] <=> a \in plan /\ a.loc = LocOf[r]
  BY <1>3 DEF executeActions, executionErrors, deviceActions, skippedActions
<1>5. heatedAfter(roomRecord(r, heated), D[r]) = T[r]
  OBVIOUS
<1>6. heatedAfter(roomRecord(r, heated), D[r])
        = (D[r].kind = "HEAT" \/ (D[r].kind = "NONE" /\ heated[r]))
  <2>1. PICK x : x = roomRecord(r, heated)
    OBVIOUS
  <2>2. x.heated = heated[r]
    BY <2>1, RecordFields
  <2>3. heatedAfter(x, D[r]) = (D[r].kind = "HEAT" \/ (D[r].kind = "NONE" /\ x.heated))
    BY DEF heatedAfter
  <2> QED
    BY <2>1, <2>2, <2>3
<1>7. CASE D[r] = NoAction
  <2>1. D[r].kind = "NONE"
    BY ONLY <1>7 DEF NoAction, Decide
  <2>2. heated[r] \in BOOLEAN
    BY ONLY heated \in [Rooms -> BOOLEAN], r \in Rooms
  <2>3. T[r] = heated[r]
    BY ONLY <1>5, <1>6, <2>1, <2>2
  <2>4. \A a \in plan : a.room # r
    BY <1>2, <1>7
  <2> QED
    BY <1>4, <2>3, <2>4 DEF Agreeing
<1>8. CASE D[r] # NoAction
  <2>1. D[r].kind \in Kinds
    BY <1>8
  <2>2. T[r] = (D[r].kind = "HEAT")
    BY <1>5, <1>6, <2>1 DEF Kinds
  <2>3. \A a \in plan : a.room = r => (a.kind = "HEAT") = T[r]
    BY <1>2, <2>2
  <2>4. Action(roomRecord(r, heated), D[r]) \in plan
    BY <1>8
  <2>5. \E a \in plan : a.room = r /\ a.loc = LocOf[r]
    BY <1>1, <2>4
  <2> QED
    BY <1>4, <2>3, <2>5 DEF Agreeing
<1> QED
  BY <1>7, <1>8

(* Where a run without errors stands.                                      *)
OnCourse ==
  /\ phase = "loadEvents" => runSeason # "out"
  /\ phase \in {"execute", "audit"} /\ ~errors =>
       \A x \in rooms : /\ x.id \in Rooms /\ x.loc = LocOf[x.id]
                        /\ Agreeing(x.id, Target(x))

LEMMA OnCourseInit == Init => OnCourse
BY DEF Init, OnCourse

LEMMA PlanExecuted ==
  ASSUME FiniteRooms, TypeOK, RunsAreOrderly, OnCourse, loadRooms \/ loadEvents, ~loadFailed,
         phase' = "execute"
  PROVE  OnCourse'
<1> SUFFICES ASSUME ~errors' PROVE
      \A x \in rooms' : x.id \in Rooms /\ x.loc = LocOf[x.id] /\ Agreeing(x.id, Target(x))'
  BY DEF OnCourse
<1> DEFINE R == {roomRecord(q, heated) : q \in Rooms}
<1>1. heated \in [Rooms -> BOOLEAN] /\ runNow \in Int /\ AreEvents(calendar)
  <2>1. calendar \subseteq Bookings /\ heated \in [Rooms -> BOOLEAN]
    BY DEF TypeOK, WorldTypes
  <2>2. runNow \in Int
    BY DEF TypeOK, RunTypes
  <2>3. AreEvents(calendar)
    BY <2>1, BookingsAssumption DEF AreEvents
  <2> QED
    BY <2>1, <2>2, <2>3
<1>2. UNCHANGED <<heated, runNow, runSeason>>
  BY DEF loadRooms, loadEvents, world
<1>3. rooms' = R
  BY DEF loadRooms, loadEvents, RunsAreOrderly, RunStates
<1>4. \A x \in R : \E q \in Rooms : x = roomRecord(q, heated) /\ x.id = q /\ x.loc = LocOf[q]
  BY <1>1, RecordFields
<1>5. SUFFICES ASSUME NEW q \in Rooms PROVE Agreeing(q, Target(roomRecord(q, heated)))'
  BY <1>2, <1>3, <1>4
<1>6. CASE loadRooms
  <2>1. runSeason = "out" /\ executeActions(planSeasonExit(R)) /\ ~executionErrors(planSeasonExit(R))
    BY <1>3, <1>6 DEF loadRooms
  <2>0. PICK D : D = [r \in Rooms |-> IF heated[r] THEN Decide("COOL", "SEASON_END") ELSE NoAction]
    OBVIOUS
  <2>7. PICK T : T = [r \in Rooms |-> FALSE]
    OBVIOUS
  <2>2. \A a : a \in planSeasonExit(R) <=>
          \E r \in Rooms : D[r] # NoAction /\ a = Action(roomRecord(r, heated), D[r])
    <3>1. \A a : a \in planSeasonExit(R) <=>
            \E r \in Rooms : heated[r] /\ a = Action(roomRecord(r, heated), Decide("COOL", "SEASON_END"))
      BY <1>1, RecordFields DEF planSeasonExit
    <3>2. \A r \in Rooms : IF heated[r] THEN D[r] = Decide("COOL", "SEASON_END") /\ D[r] # NoAction
                           ELSE D[r] = NoAction
      BY <2>0 DEF Decide, NoAction
    <3> QED
      BY <1>1, <3>1, <3>2
  <2>3. \A r \in Rooms : D[r] = NoAction \/ D[r].kind \in Kinds
    BY <2>0 DEF Decide, NoAction, Kinds
  <2>4. \A r \in Rooms : heatedAfter(roomRecord(r, heated), D[r]) = T[r]
    BY <1>1, <2>0, <2>7, RecordFields DEF heatedAfter, Decide, NoAction
  <2>5. Agreeing(q, T[q])'
    BY <1>1, <1>2, <2>1, <2>2, <2>3, <2>4, PlanAgrees
  <2>6. (Target(roomRecord(q, heated)))' = FALSE
    BY <1>2, <2>1 DEF Target
  <2> QED
    BY <2>5, <2>6, <2>7
<1>7. CASE loadEvents
  <2> DEFINE E == findActiveHeatingEvents(calendar, eventWindow(rooms, runNow))
             hallways == resolveHallways(HallwayRoomIds, R)
             plan == planHeating(runNow, R, E, hallways)
  <2>1. /\ executeActions(plan) /\ ~executionErrors(plan)
        /\ events' = E /\ rooms = R
    BY <1>2, <1>3, <1>7 DEF loadEvents
  <2>2. runSeason # "out"
    BY <1>7 DEF loadEvents, OnCourse
  <2>3. AreEvents(E)
    BY <1>1 DEF findActiveHeatingEvents, AreEvents
  <2> DEFINE d(r) == decisionFor(roomRecord(r, heated), R, E, hallways, runNow)
  <2>9. PICK D : D = [r \in Rooms |-> d(r)]
    OBVIOUS
  <2>10. PICK T : T = [r \in Rooms |-> ruleTarget(roomRecord(r, heated), R, E, runNow)]
    OBVIOUS
  <2>4. \A a : a \in plan <=>
          \E r \in Rooms : D[r] # NoAction /\ a = Action(roomRecord(r, heated), D[r])
    BY <2>9 DEF planHeating
  <2>5. \A r \in Rooms : D[r] = NoAction \/ D[r].kind \in Kinds
    BY <1>1, <2>9, RecordFields, DecisionCases
  <2>6. \A r \in Rooms : heatedAfter(roomRecord(r, heated), D[r]) = T[r]
    BY <1>1, <2>3, <2>9, <2>10, DecisionsAim
  <2>7. T[q] = (Target(roomRecord(q, heated)))'
    <3>1. PICK x : x = roomRecord(q, heated)
      OBVIOUS
    <3>2. Target(x)' = ruleTarget(x, R, E, runNow)
      BY <1>2, <1>3, <2>1, <2>2 DEF Target, ruleTarget, othersOf
    <3>3. T[q] = ruleTarget(x, R, E, runNow)
      BY <2>10, <3>1
    <3>4. x = roomRecord(q, heated')
      BY <1>2, <3>1
    <3>5. (Target(roomRecord(q, heated)))' = Target(x)'
      BY <3>4
    <3> QED
      BY <3>2, <3>3, <3>5
  <2> HIDE DEF plan
  <2>8. Agreeing(q, T[q])'
    BY <1>1, <1>2, <2>1, <2>4, <2>5, <2>6, PlanAgrees
  <2> QED
    BY <2>7, <2>8
<1> QED
  BY <1>6, <1>7

LEMMA SameCourse ==
  ASSUME OnCourse, UNCHANGED <<runNow, runSeason, rooms, events, errors, todo, done, heated>>,
         phase' = phase \/ (phase = "execute" /\ phase' = "audit")
  PROVE  OnCourse'
<1>1. \A x : Target(x)' = Target(x)
  BY ONLY UNCHANGED <<runNow, runSeason, rooms, events>> DEF Target
<1>2. ASSUME NEW x \in rooms, phase \in {"execute", "audit"}, ~errors
      PROVE  x.id \in Rooms /\ x.loc = LocOf[x.id] /\ Agreeing(x.id, Target(x))'
  <2>1. x.id \in Rooms /\ x.loc = LocOf[x.id] /\ Agreeing(x.id, Target(x))
    BY ONLY <1>2, OnCourse DEF OnCourse
  <2>2. UNCHANGED <<todo, done, heated>> /\ Target(x)' = Target(x)
    BY <1>1
  <2> QED
    BY ONLY <2>1, <2>2 DEF Agreeing
<1>3. phase' = "loadEvents" => runSeason' # "out"
  BY DEF OnCourse
<1>4. phase' \in {"execute", "audit"} => phase \in {"execute", "audit"}
  OBVIOUS
<1> QED
  BY <1>2, <1>3, <1>4 DEF OnCourse

LEMMA LocationOnCourse ==
  ASSUME TypeOK, RunsAreOrderly, OnCourse, NEW l \in Locations, executeLocation(l)
  PROVE  OnCourse'
<1>1. /\ phase = "execute" /\ phase' = "execute"
      /\ UNCHANGED <<runNow, runSeason, rooms, events>>
      /\ \A m \in Locations : m # l => todo'[m] = todo[m] /\ done'[m] = done[m]
      /\ errors => errors'
  BY LocationMoves
<1> SUFFICES ASSUME ~errors', NEW x \in rooms
             PROVE  x.id \in Rooms /\ x.loc = LocOf[x.id] /\ Agreeing(x.id, Target(x))'
  BY <1>1 DEF OnCourse
<1>2. /\ x.id \in Rooms /\ x.loc = LocOf[x.id] /\ LocOf[x.id] \in Locations
      /\ Agreeing(x.id, Target(x))
  BY <1>1 DEF OnCourse, Locations
<1>3. Target(x)' = Target(x)
  BY <1>1 DEF Target
<1>4. OrderlyAt(l)
  BY DEF RunsAreOrderly
<1> DEFINE m == LocOf[x.id]
           t == Target(x)
<1> HIDE DEF t
<1>5. Agreeing(x.id, t)'
  <2>1. CASE UNCHANGED <<todo, done, heated, thermostat>>
    BY <1>2, <1>3, <2>1 DEF Agreeing, t
  <2>2. ASSUME NEW a \in todo[l], todo'[l] = todo[l] \ {a}, done'[l] = done[l] \cup {a},
               UNCHANGED heated
        PROVE  Agreeing(x.id, t)'
    <3>1. todo'[m] \cup done'[m] = todo[m] \cup done[m]
      BY <1>1, <1>2, <2>2
    <3> QED
      BY <1>2, <1>3, <2>2, <3>1 DEF Agreeing, t
  <2>3. ASSUME NEW a \in done[l], todo[l] = {}, UNCHANGED todo, done'[l] = done[l] \ {a},
               heated' = [heated EXCEPT ![a.room] = (a.kind = "HEAT")]
        PROVE  Agreeing(x.id, t)'
    <3>1. LocOf[a.room] = l /\ \A b \in done[l] : b.room = a.room => b = a
      BY <1>4, <2>3 DEF OrderlyAt
    <3>2. todo'[m] \cup done'[m] \subseteq todo[m] \cup done[m]
      BY <1>1, <1>2, <2>3
    <3>3. CASE x.id = a.room
      <4>1. m = l
        BY <3>1, <3>3
      <4>2. \A b \in todo'[m] \cup done'[m] : b.room # x.id
        BY <2>3, <3>1, <3>3, <4>1
      <4>3. heated'[x.id] = (a.kind = "HEAT")
        BY <1>2, <2>3, <3>3 DEF TypeOK, WorldTypes
      <4>4. (a.kind = "HEAT") = t
        BY <1>2, <2>3, <3>3, <4>1 DEF Agreeing, t
      <4> QED
        BY <1>3, <4>2, <4>3, <4>4 DEF Agreeing, t
    <3>4. CASE x.id # a.room
      <4>1. heated'[x.id] = heated[x.id]
        BY <1>2, <2>3, <3>4 DEF TypeOK, WorldTypes
      <4>2. \A b : b.room = x.id =>
              (b \in todo'[m] \cup done'[m] <=> b \in todo[m] \cup done[m])
        BY <1>1, <1>2, <2>3, <3>4
      <4> QED
        BY <1>2, <1>3, <4>1, <4>2 DEF Agreeing, t
    <3> QED
      BY <3>3, <3>4
  <2> QED
    BY <2>1, <2>2, <2>3, LocationMoves
<1> QED
  BY <1>2, <1>5 DEF t

LEMMA OnCourseNext ==
  ASSUME NoRoomForms, FiniteRooms, TypeOK, RunsAreOrderly, OnCourse, [Next]_vars
  PROVE  OnCourse'
<1>1. CASE \E l \in Locations : executeLocation(l)
  BY <1>1, LocationOnCourse
<1>2. CASE loadRooms \/ loadEvents
  <2>1. CASE loadFailed
    BY <2>1 DEF loadFailed, OnCourse
  <2>2. CASE ~loadFailed /\ phase' = "execute"
    BY <1>2, <2>2, PlanExecuted
  <2>3. CASE ~loadFailed /\ phase' # "execute"
    BY <1>2, <2>3 DEF loadRooms, loadEvents, executeActions, OnCourse
  <2> QED
    BY <2>1, <2>2, <2>3
<1>3. CASE handleCron
  <2>1. CASE UNCHANGED <<run, todo, done, heated>>
    BY <2>1, SameCourse DEF run
  <2>2. CASE \E at : startRun(at)
    BY <2>2 DEF startRun, OnCourse
  <2> QED
    BY <1>3, <2>1, <2>2 DEF handleCron, trigger, exec
<1>4. CASE runFinished \/ crash
  BY <1>4 DEF runFinished, startRun, endRun, crash, OnCourse
<1>5. CASE executionFinished
  <2>1. /\ phase = "execute" /\ phase' = "audit"
        /\ UNCHANGED <<runNow, runSeason, rooms, events, errors, todo, done, heated>>
    BY <1>5 DEF executionFinished, exec, world
  <2> QED
    BY <2>1, SameCourse
<1>6. CASE (\E e \in Bookings : book(e) \/ unbook(e)) \/ turnSeason \/ UNCHANGED vars
  <2>1. UNCHANGED <<run, todo, done, heated>>
    BY <1>6 DEF book, unbook, turnSeason, Edit, vars, run, exec
  <2> QED
    BY <2>1, SameCourse DEF run
<1>7. ~(\E r \in Rooms : saveRoomForm(r))
  BY DEF saveRoomForm, Fault, NoRoomForms
<1> QED
  BY <1>1, <1>2, <1>3, <1>4, <1>5, <1>6, <1>7 DEF Next, RunStep, Environment

(* A run that ends without an error leaves every flag where the rule wants *)
(* it, for the rooms and events it has loaded: the plan asks for what the  *)
(* rule wants, each action is stored once, and nothing is left over.       *)
THEOREM CleanRunsReachTargets ==
  ASSUME NoRoomForms, FiniteRooms
  PROVE  Spec => []CleanRunReachesTarget
<1>1. TypeOK /\ RunsAreOrderly /\ OnCourse /\ [Next]_vars => OnCourse'
  BY OnCourseNext
<1>2. RunsAreOrderly /\ OnCourse => CleanRunReachesTarget
  <2> SUFFICES ASSUME RunsAreOrderly, OnCourse, phase = "audit", ~errors, NEW x \in rooms
               PROVE  heated[x.id] = Target(x)
    BY DEF CleanRunReachesTarget
  <2>1. x.id \in Rooms /\ Agreeing(x.id, Target(x)) /\ LocOf[x.id] \in Locations
    BY DEF OnCourse, Locations
  <2>2. todo[LocOf[x.id]] = {} /\ done[LocOf[x.id]] = {}
    BY <2>1 DEF RunsAreOrderly, OrderlyAt
  <2> QED
    BY <2>1, <2>2 DEF Agreeing
<1> QED
  BY <1>1, <1>2, OnCourseInit, TypeCorrect, OrderlyRuns, PTL DEF Spec
=============================================================================
