---------------------------- MODULE HeatingRules ----------------------------
(***************************************************************************)
(* The calendar-driven heating rule of src/src/heating/domain as pure      *)
(* operators (heating-rules.ts): one room, the hallway of a location, the  *)
(* plan of a whole run, the season exit, and the window of calendar events *)
(* a run has to load.                                                      *)
(*                                                                         *)
(* Times are minutes (integers).  A room is a record                       *)
(*   [id, loc, prelim, heated, avm]   avm: a thermostat is configured      *)
(* and an event a record [id, room, start, end].  The temperatures, and    *)
(* the event named in an action (the one with the latest start, a label    *)
(* for the activity log), do not influence any decision and are left out.  *)
(*                                                                         *)
(* A definition named <definition>_<fault> is a faulty form of the one     *)
(* that follows it: a property has to tell the two apart.                  *)
(***************************************************************************)
EXTENDS Integers, FiniteSets, FiniteSetsExt

CONSTANTS
  COOL_WINDOW,     \* minutes after the end of an event (COOL_WINDOW_MINUTES)
  BRIDGE_WINDOW    \* minutes a following event bridges (BRIDGE_WINDOW_MINUTES)

ASSUME WindowAssumption ==
  /\ COOL_WINDOW \in Nat \ {0}
  /\ BRIDGE_WINDOW \in Nat \ {0}

Kinds   == {"HEAT", "COOL"}
Reasons == {"EVENT_PRELIM", "EVENT_ENDED", "NO_ACTIVE_EVENT",
            "HALLWAY_OCCUPIED", "HALLWAY_EMPTY", "SEASON_END"}

Decide(kind, reason) == [kind |-> kind, reason |-> reason]
NoAction == Decide("NONE", "NONE")

-----------------------------------------------------------------------------
(* One event *)

startsIn(e, now) == e.start - now
endedIn(e, now)  == now - e.end

hasPrelimTime(r) == r.prelim # 0

canHeat(r, e, now) ==
  /\ hasPrelimTime(r)
  /\ startsIn(e, now) < r.prelim
  /\ endedIn(e, now) < 0

isBridged(events, now) ==
  \E e \in events : 0 < startsIn(e, now) /\ startsIn(e, now) <= BRIDGE_WINDOW

canCool(r, e, now, bridged) ==
  /\ hasPrelimTime(r)
  /\ 0 < endedIn(e, now)
  /\ endedIn(e, now) < COOL_WINDOW
  /\ ~bridged

-----------------------------------------------------------------------------
(* One room: HEAT has priority over COOL, an action only when the stored   *)
(* state changes, and the fallback NO_ACTIVE_EVENT.                        *)

heatCandidates(r, events, now) == {e \in events : canHeat(r, e, now)}

coolCandidates(r, events, now) ==
  {e \in events : /\ heatCandidates(r, events, now) = {}
                  /\ canCool(r, e, now, isBridged(events, now))}

evaluateRoom_noFallback(r, events, now) ==
  CASE heatCandidates(r, events, now) # {} /\ ~r.heated -> Decide("HEAT", "EVENT_PRELIM")
    [] coolCandidates(r, events, now) # {} /\ r.heated -> Decide("COOL", "EVENT_ENDED")
    [] OTHER -> NoAction

evaluateRoom(r, events, now) ==
  LET heat    == heatCandidates(r, events, now) # {}
      cool    == coolCandidates(r, events, now) # {}
      bridged == isBridged(events, now)
  IN  CASE heat /\ ~r.heated -> Decide("HEAT", "EVENT_PRELIM")
        [] cool /\ r.heated  -> Decide("COOL", "EVENT_ENDED")
        [] ~heat /\ ~cool /\ ~bridged /\ r.heated /\ hasPrelimTime(r)
                             -> Decide("COOL", "NO_ACTIVE_EVENT")
        [] OTHER             -> NoAction

heatedAfter(r, decision) ==
  \/ decision.kind = "HEAT"
  \/ decision.kind = "NONE" /\ r.heated

-----------------------------------------------------------------------------
(* The hallway of a location *)

evaluateHallway_none(hallway, heatedRoomCount, locationEvents, now) ==
  CASE ~hallway.heated /\ heatedRoomCount > 0 /\ hallway.avm
         -> Decide("HEAT", "HALLWAY_OCCUPIED")
    [] hallway.heated /\ heatedRoomCount = 0 /\ ~isBridged(locationEvents, now)
         -> Decide("COOL", "HALLWAY_EMPTY")
    [] OTHER -> NoAction

evaluateHallway(hallway, heatedRoomCount, locationEvents, now) ==
  CASE ~hallway.heated /\ heatedRoomCount > 0 /\ hallway.avm
         -> Decide("HEAT", "HALLWAY_OCCUPIED")
    [] hallway.heated /\ heatedRoomCount = 1 /\ ~isBridged(locationEvents, now)
         -> Decide("COOL", "HALLWAY_EMPTY")
    [] OTHER -> NoAction

(* The hallway of each location, as pairs <<location, room>>: a configured  *)
(* room that exists, unless its location has a second one (ambiguous).      *)
resolveHallways(hallwayRoomIds, rooms) ==
  LET configured == {r \in rooms : r.id \in hallwayRoomIds}
  IN  {<<r.loc, r.id>> : r \in {r \in configured :
                                  \A o \in configured : o.loc = r.loc => o = r}}

isHallway(r, hallways) == <<r.loc, r.id>> \in hallways

-----------------------------------------------------------------------------
(* The plan of one run *)

eventsOfRoom(r, events) == {e \in events : e.room = r.id}

eventsOfLocation(loc, rooms, events) ==
  {e \in events : \E r \in rooms : r.id = e.room /\ r.loc = loc}

unknownRoomEvents(rooms, events) ==
  {e \in events : \A r \in rooms : r.id # e.room}

roomDecision(r, events, now) ==
  evaluateRoom(r, eventsOfRoom(r, events), now)

(* H of the hallway rule: the other rooms as the plan leaves them, and the  *)
(* hallway as it is.                                                        *)
heatedRoomCount(hallway, rooms, events, hallways, now) ==
  Cardinality({r \in rooms : /\ r.loc = hallway.loc
                             /\ ~isHallway(r, hallways)
                             /\ heatedAfter(r, roomDecision(r, events, now))})
    + (IF hallway.heated THEN 1 ELSE 0)

decisionFor(r, rooms, events, hallways, now) ==
  IF isHallway(r, hallways)
  THEN evaluateHallway(r, heatedRoomCount(r, rooms, events, hallways, now),
                       eventsOfLocation(r.loc, rooms, events), now)
  ELSE roomDecision(r, events, now)

Action(r, decision) ==
  [room |-> r.id, loc |-> r.loc, kind |-> decision.kind, reason |-> decision.reason]

planHeating_everyRoom(now, rooms, events, hallways) ==
  {Action(r, decisionFor(r, rooms, events, hallways, now)) : r \in rooms}

planHeating(now, rooms, events, hallways) ==
  {Action(r, decisionFor(r, rooms, events, hallways, now)) :
     r \in {r \in rooms : decisionFor(r, rooms, events, hallways, now) # NoAction}}

planSeasonExit(rooms) ==
  {Action(r, Decide("COOL", "SEASON_END")) : r \in {r \in rooms : r.heated}}

-----------------------------------------------------------------------------
(* The events a run loads *)

maxPrelim(rooms) == Max({0} \cup {r.prelim : r \in rooms})

aheadMinutes_prelim(rooms) == maxPrelim(rooms)
aheadMinutes(rooms) ==
  (IF maxPrelim(rooms) > BRIDGE_WINDOW THEN maxPrelim(rooms) ELSE BRIDGE_WINDOW) + 1

eventWindow(rooms, now) ==
  [from |-> now - COOL_WINDOW, to |-> now + aheadMinutes(rooms)]

findActiveHeatingEvents(calendar, window) ==
  {e \in calendar : e.end >= window.from /\ e.start <= window.to}

-----------------------------------------------------------------------------
(* What the rule has to achieve, stated without candidates and priorities: *)
(* a room is heated when an event is running or about to start, and stays  *)
(* heated over a gap that a following event bridges; a room without a      *)
(* prelim time is never switched.                                          *)

Needed(r, events, now) ==
  \E e \in events : /\ e.room = r.id
                    /\ e.start - now < r.prelim
                    /\ now < e.end

Bridging(events, now) ==
  \E e \in events : now < e.start /\ e.start - now <= BRIDGE_WINDOW

RoomTarget(r, events, now) ==
  IF r.prelim = 0
  THEN r.heated
  ELSE \/ Needed(r, events, now)
       \/ r.heated /\ Bridging(eventsOfRoom(r, events), now)

HallwayTarget(h, others, events, now) ==
  \/ \E r \in others : RoomTarget(r, events, now) /\ (h.avm \/ h.heated)
  \/ h.heated /\ Bridging(events, now)
=============================================================================
