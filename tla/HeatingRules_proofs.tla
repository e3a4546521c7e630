------------------------ MODULE HeatingRules_proofs -------------------------
(***************************************************************************)
(* Theorems about the heating rule, for every set of rooms and events and  *)
(* every length of the windows.                                            *)
(***************************************************************************)
EXTENDS HeatingRules, FiniteSetTheorems, WellFoundedInduction, TLAPS

(* A finite set of integers that is not empty has a greatest element.      *)
LEMMA FiniteMax ==
  ASSUME NEW S \in SUBSET Int, IsFiniteSet(S), S # {}
  PROVE  \E x \in S : \A y \in S : x >= y
<1> DEFINE NoMax(T) == T # {} /\ \A x \in T : \E y \in T : ~(x >= y)
           Sizes == {n \in Nat : \E T \in SUBSET S : NoMax(T) /\ Cardinality(T) = n}
<1> HIDE DEF NoMax
<1>1. \A T \in SUBSET S : IsFiniteSet(T) /\ Cardinality(T) \in Nat
  BY FS_Subset, FS_CardinalityType
<1>2. SUFFICES ASSUME NoMax(S) PROVE FALSE
  BY DEF NoMax
<1>3. Sizes # {}
  BY <1>1, <1>2
<1>4. PICK n \in Sizes : \A m \in Sizes : ~(<<m, n>> \in OpToRel(<, Nat))
  <2>1. Sizes \subseteq Nat
    OBVIOUS
  <2> QED
    BY <1>3, <2>1, NatLessThanWellFounded, WFMin
<1>5. \A m \in Sizes : ~(m < n)
  BY <1>4 DEF OpToRel
<1>6. PICK T \in SUBSET S : NoMax(T) /\ Cardinality(T) = n
  OBVIOUS
<1>7. PICK x \in T : TRUE
  BY <1>6 DEF NoMax
<1> DEFINE U == T \ {x}
<1>8. Cardinality(U) = n - 1 /\ U \in SUBSET S
  BY <1>1, <1>6, <1>7, FS_RemoveElement
<1>9. ~NoMax(U)
  BY <1>1, <1>5, <1>8
<1>10. CASE U = {}
  BY <1>6, <1>7, <1>10 DEF NoMax
<1>11. CASE U # {}
  <2>1. PICK m \in U : \A y \in U : m >= y
    BY <1>9, <1>11 DEF NoMax
  <2>2. PICK z \in T : ~(m >= z)
    BY <1>6, <2>1 DEF NoMax
  <2>3. z = x
    BY <2>1, <2>2
  <2>4. \A y \in T : x >= y
    BY <2>1, <2>2, <2>3, <1>6
  <2> QED
    BY <1>6, <1>7, <2>4 DEF NoMax
<1> QED
  BY <1>10, <1>11

-----------------------------------------------------------------------------
(* One room *)

IsRoom(r) == r.prelim \in Int /\ r.heated \in BOOLEAN
AreEvents(E) == \A e \in E : e.start \in Int /\ e.end \in Int

(* The outcome of the rule, with the side of the flag it is taken on: HEAT *)
(* is only decided for a room that is not heated, COOL for one that is.    *)
LEMMA RoomDecision ==
  ASSUME NEW r, r.heated \in BOOLEAN, NEW E, NEW now
  PROVE  LET d == evaluateRoom(r, E, now)
         IN  \/ d = NoAction
             \/ d = Decide("HEAT", "EVENT_PRELIM") /\ ~r.heated
             \/ d = Decide("COOL", "EVENT_ENDED") /\ r.heated
             \/ d = Decide("COOL", "NO_ACTIVE_EVENT") /\ r.heated
<1> DEFINE heat == heatCandidates(r, E, now) # {}
           cool == coolCandidates(r, E, now) # {}
           bridged == isBridged(E, now)
<1> HIDE DEF heat, cool, bridged
<1> QED
  BY DEF evaluateRoom, heat, cool, bridged

LEMMA HallwayDecision ==
  ASSUME NEW h, h.heated \in BOOLEAN, NEW n, NEW E, NEW now
  PROVE  LET d == evaluateHallway(h, n, E, now)
         IN  \/ d = NoAction
             \/ d = Decide("HEAT", "HALLWAY_OCCUPIED") /\ ~h.heated
             \/ d = Decide("COOL", "HALLWAY_EMPTY") /\ h.heated
BY DEF evaluateHallway

(* The cases of evaluateRoom, with their conditions as Booleans.           *)
LEMMA RoomCases ==
  ASSUME NEW heat \in BOOLEAN, NEW cool \in BOOLEAN, NEW bridged \in BOOLEAN,
         NEW heated \in BOOLEAN, NEW prelim \in BOOLEAN,
         cool => ~heat /\ prelim /\ ~bridged, heat => prelim
  PROVE  LET d == CASE heat /\ ~heated -> Decide("HEAT", "EVENT_PRELIM")
                    [] cool /\ heated  -> Decide("COOL", "EVENT_ENDED")
                    [] ~heat /\ ~cool /\ ~bridged /\ heated /\ prelim
                                        -> Decide("COOL", "NO_ACTIVE_EVENT")
                    [] OTHER            -> NoAction
         IN  (d.kind = "HEAT" \/ (d.kind = "NONE" /\ heated))
               <=> (heat \/ (heated /\ (bridged \/ ~prelim)))
<1>1. CASE heated
  BY <1>1 DEF Decide, NoAction
<1>2. CASE ~heated
  BY <1>2 DEF Decide, NoAction
<1> QED
  BY <1>1, <1>2

(* Candidates, priorities and the fallback of evaluateRoom leave a room    *)
(* heated exactly when an event needs it or a following event bridges it.  *)
THEOREM RoomRule ==
  ASSUME NEW r, IsRoom(r), NEW events, AreEvents(events), NEW now \in Int
  PROVE  heatedAfter(r, roomDecision(r, events, now)) = RoomTarget(r, events, now)
<1> DEFINE E == eventsOfRoom(r, events)
           heat == heatCandidates(r, E, now) # {}
           cool == coolCandidates(r, E, now) # {}
           bridged == isBridged(E, now)
<1>1. heat <=> r.prelim # 0 /\ Needed(r, events, now)
  BY DEF heatCandidates, canHeat, hasPrelimTime, startsIn, endedIn, Needed,
         eventsOfRoom, IsRoom, AreEvents
<1>2. bridged <=> Bridging(E, now)
  <2>1. \A e \in E : e.start \in Int
    BY DEF eventsOfRoom, AreEvents
  <2>2. \A e \in E : now < e.start <=> 0 < e.start - now
    BY <2>1
  <2> QED
    BY <2>2, WindowAssumption DEF isBridged, Bridging, startsIn
<1>3. cool => ~heat /\ r.prelim # 0 /\ ~bridged
  BY DEF coolCandidates, canCool, hasPrelimTime
<1>4. r.prelim # 0 <=> hasPrelimTime(r)
  BY DEF hasPrelimTime
<1>5. RoomTarget(r, events, now)
        = IF r.prelim = 0 THEN r.heated
          ELSE Needed(r, events, now) \/ (r.heated /\ Bridging(E, now))
  BY DEF RoomTarget
<1>6. Needed(r, events, now) \in BOOLEAN /\ Bridging(E, now) \in BOOLEAN
  BY DEF Needed, Bridging
<1>7. heatedAfter(r, roomDecision(r, events, now))
        = (heat \/ (r.heated /\ (bridged \/ ~hasPrelimTime(r))))
  <2>1. heat \in BOOLEAN /\ cool \in BOOLEAN /\ bridged \in BOOLEAN
          /\ r.heated \in BOOLEAN /\ hasPrelimTime(r) \in BOOLEAN
    BY DEF isBridged, hasPrelimTime, IsRoom
  <2>2. (cool => ~heat /\ hasPrelimTime(r) /\ ~bridged) /\ (heat => hasPrelimTime(r))
    BY <1>1, <1>3, <1>4
  <2>3. roomDecision(r, events, now) =
          CASE heat /\ ~r.heated -> Decide("HEAT", "EVENT_PRELIM")
            [] cool /\ r.heated  -> Decide("COOL", "EVENT_ENDED")
            [] ~heat /\ ~cool /\ ~bridged /\ r.heated /\ hasPrelimTime(r)
                                 -> Decide("COOL", "NO_ACTIVE_EVENT")
            [] OTHER             -> NoAction
    BY DEF roomDecision, evaluateRoom
  <2> HIDE DEF heat, cool, bridged, E
  <2>4. LET d == roomDecision(r, events, now)
        IN  (d.kind = "HEAT" \/ (d.kind = "NONE" /\ r.heated))
              <=> (heat \/ (r.heated /\ (bridged \/ ~hasPrelimTime(r))))
    BY <2>1, <2>2, <2>3, RoomCases
  <2> QED
    BY <2>1, <2>4 DEF heatedAfter
<1>8. r.heated \in BOOLEAN
  BY DEF IsRoom
<1> HIDE DEF heat, cool, bridged, E
<1> QED
  BY <1>1, <1>2, <1>4, <1>5, <1>6, <1>7, <1>8

-----------------------------------------------------------------------------
(* The window of events a run loads *)

LEMMA WindowCovers ==
  ASSUME NEW rooms, \A r \in rooms : IsRoom(r),
         IsFiniteSet({r.prelim : r \in rooms}),
         NEW now \in Int
  PROVE  LET w == eventWindow(rooms, now)
         IN  /\ w.from = now - COOL_WINDOW
             /\ w.to \in Int
             /\ w.to > now + BRIDGE_WINDOW
             /\ \A r \in rooms : w.to > now + r.prelim
<1> DEFINE P == {0} \cup {r.prelim : r \in rooms}
<1>1. P \in SUBSET Int /\ P # {}
  BY DEF IsRoom
<1>2. IsFiniteSet(P)
  BY FS_AddElement
<1>3. \E x \in P : \A y \in P : x >= y
  BY <1>1, <1>2, FiniteMax
<1>4. maxPrelim(rooms) = Max(P)
  BY DEF maxPrelim
<1>5. maxPrelim(rooms) \in P /\ \A y \in P : maxPrelim(rooms) >= y
  BY <1>3, <1>4 DEF Max
<1>6. maxPrelim(rooms) \in Int /\ \A r \in rooms : maxPrelim(rooms) >= r.prelim
  BY <1>1, <1>5
<1>7. BRIDGE_WINDOW \in Nat /\ COOL_WINDOW \in Nat
  BY WindowAssumption
<1>8. \A r \in rooms : r.prelim \in Int
  BY DEF IsRoom
<1> HIDE DEF P
<1> QED
  BY <1>6, <1>7, <1>8 DEF eventWindow, aheadMinutes

(* The window is wide enough: planning with the events of the window gives *)
(* the very plan that all events of the calendar would give, so that no    *)
(* event outside of it can keep a room heated or have it heated.           *)
THEOREM WindowSuffices ==
  ASSUME NEW rooms, \A r \in rooms : IsRoom(r),
         IsFiniteSet({r.prelim : r \in rooms}),
         NEW calendar, AreEvents(calendar), \A e \in calendar : e.start <= e.end,
         NEW now \in Int, NEW hallways
  PROVE  planHeating(now, rooms,
                     findActiveHeatingEvents(calendar, eventWindow(rooms, now)), hallways)
           = planHeating(now, rooms, calendar, hallways)
<1> DEFINE w == eventWindow(rooms, now)
           L == findActiveHeatingEvents(calendar, w)
<1>1. /\ w.from = now - COOL_WINDOW
      /\ w.to \in Int
      /\ w.to > now + BRIDGE_WINDOW
      /\ \A r \in rooms : w.to > now + r.prelim
  BY WindowCovers
<1>2. L = {e \in calendar : e.end >= w.from /\ e.start <= w.to}
  BY DEF findActiveHeatingEvents
<1>3. \A e \in calendar : e.start \in Int /\ e.end \in Int
  BY DEF AreEvents
<1>4. COOL_WINDOW \in Nat \ {0} /\ BRIDGE_WINDOW \in Nat
  BY WindowAssumption
<1>5. \A r \in rooms : r.prelim \in Int
  BY DEF IsRoom
<1> HIDE DEF w, L
<1>6. \A e \in calendar : 0 < startsIn(e, now) /\ startsIn(e, now) <= BRIDGE_WINDOW => e \in L
  BY <1>1, <1>2, <1>3, <1>4 DEF startsIn
<1>7. \A r \in rooms, e \in calendar : canHeat(r, e, now) => e \in L
  BY <1>1, <1>2, <1>3, <1>4, <1>5 DEF canHeat, startsIn, endedIn
<1>8. \A r \in rooms, e \in calendar, b \in BOOLEAN : canCool(r, e, now, b) => e \in L
  BY <1>1, <1>2, <1>3, <1>4, <1>5 DEF canCool, endedIn
<1>9. L \subseteq calendar
  BY <1>2
<1>10. ASSUME NEW r \in rooms
       PROVE  roomDecision(r, L, now) = roomDecision(r, calendar, now)
  <2> DEFINE EL == eventsOfRoom(r, L)
             EC == eventsOfRoom(r, calendar)
  <2>1. isBridged(EL, now) = isBridged(EC, now)
    BY <1>6, <1>9 DEF isBridged, eventsOfRoom
  <2>2. heatCandidates(r, EL, now) = heatCandidates(r, EC, now)
    BY <1>7, <1>9 DEF heatCandidates, eventsOfRoom
  <2>3. isBridged(EC, now) \in BOOLEAN
    BY DEF isBridged
  <2>4. coolCandidates(r, EL, now) = coolCandidates(r, EC, now)
    BY <1>8, <1>9, <2>1, <2>2, <2>3 DEF coolCandidates, eventsOfRoom
  <2> QED
    BY <2>1, <2>2, <2>4 DEF roomDecision, evaluateRoom
<1>11. ASSUME NEW loc
       PROVE  isBridged(eventsOfLocation(loc, rooms, L), now)
                = isBridged(eventsOfLocation(loc, rooms, calendar), now)
  BY <1>6, <1>9 DEF isBridged, eventsOfLocation
<1>12. ASSUME NEW h
       PROVE  heatedRoomCount(h, rooms, L, hallways, now)
                = heatedRoomCount(h, rooms, calendar, hallways, now)
  <2>1. {r \in rooms : r.loc = h.loc /\ ~isHallway(r, hallways)
                         /\ heatedAfter(r, roomDecision(r, L, now))}
        = {r \in rooms : r.loc = h.loc /\ ~isHallway(r, hallways)
                         /\ heatedAfter(r, roomDecision(r, calendar, now))}
    BY <1>10
  <2> QED
    BY <2>1 DEF heatedRoomCount
<1>13. ASSUME NEW r \in rooms
       PROVE  decisionFor(r, rooms, L, hallways, now)
                = decisionFor(r, rooms, calendar, hallways, now)
  BY <1>10, <1>11, <1>12 DEF decisionFor, evaluateHallway
<1> QED
  BY <1>13 DEF planHeating, L, w

-----------------------------------------------------------------------------
(* The hallway *)

(* A room of the location needs none but the events of the location.       *)
LEMMA LocationEvents ==
  ASSUME NEW rooms, NEW r \in rooms, NEW events, NEW now
  PROVE  RoomTarget(r, eventsOfLocation(r.loc, rooms, events), now) = RoomTarget(r, events, now)
<1> DEFINE L == eventsOfLocation(r.loc, rooms, events)
<1>1. \A e : e \in L /\ e.room = r.id <=> e \in events /\ e.room = r.id
  BY DEF eventsOfLocation
<1> HIDE DEF L
<1>2. Needed(r, L, now) <=> Needed(r, events, now)
  BY <1>1 DEF Needed
<1>3. eventsOfRoom(r, L) = eventsOfRoom(r, events)
  BY <1>1 DEF eventsOfRoom
<1> QED
  BY <1>2, <1>3 DEF RoomTarget, L

(* The cases of evaluateHallway, with their conditions as Booleans.        *)
LEMMA HallwayCases ==
  ASSUME NEW heated \in BOOLEAN, NEW occupied \in BOOLEAN, NEW alone \in BOOLEAN,
         NEW bridged \in BOOLEAN, NEW avm \in BOOLEAN
  PROVE  LET d == CASE ~heated /\ occupied /\ avm -> Decide("HEAT", "HALLWAY_OCCUPIED")
                    [] heated /\ alone /\ ~bridged -> Decide("COOL", "HALLWAY_EMPTY")
                    [] OTHER -> NoAction
         IN  (d.kind = "HEAT" \/ (d.kind = "NONE" /\ heated))
               <=> IF heated THEN ~alone \/ bridged ELSE occupied /\ avm
<1>1. CASE heated
  BY <1>1 DEF Decide, NoAction
<1>2. CASE ~heated
  BY <1>2 DEF Decide, NoAction
<1> QED
  BY <1>1, <1>2

othersOf(h, rooms, hallways) == {r \in rooms : r.loc = h.loc /\ ~isHallway(r, hallways)}

(* Counting the rooms the plan leaves heated, and the hallway with them,   *)
(* decides what the hallway has to be: heated while a room is, or while an *)
(* event of the location bridges; a hallway without thermostat is only     *)
(* ever switched off.                                                      *)
THEOREM HallwayRule ==
  ASSUME NEW rooms, IsFiniteSet(rooms), \A r \in rooms : IsRoom(r),
         NEW events, AreEvents(events), NEW now \in Int, NEW hallways,
         NEW h \in rooms, h.avm \in BOOLEAN
  PROVE  LET n      == heatedRoomCount(h, rooms, events, hallways, now)
             E      == eventsOfLocation(h.loc, rooms, events)
             others == othersOf(h, rooms, hallways)
         IN  heatedAfter(h, evaluateHallway(h, n, E, now)) = HallwayTarget(h, others, E, now)
<1> DEFINE n      == heatedRoomCount(h, rooms, events, hallways, now)
           E      == eventsOfLocation(h.loc, rooms, events)
           others == othersOf(h, rooms, hallways)
           left   == {r \in rooms : /\ r.loc = h.loc
                                    /\ ~isHallway(r, hallways)
                                    /\ heatedAfter(r, roomDecision(r, events, now))}
           bridged == isBridged(E, now)
<1>1. h.heated \in BOOLEAN /\ bridged \in BOOLEAN
  BY DEF IsRoom, isBridged
<1>2. left \in SUBSET rooms
  OBVIOUS
<1>3. \A r : r \in left <=> r \in others /\ RoomTarget(r, E, now)
  <2>1. ASSUME NEW r \in rooms, r.loc = h.loc
        PROVE  heatedAfter(r, roomDecision(r, events, now)) = RoomTarget(r, E, now)
    BY <2>1, RoomRule, LocationEvents
  <2>2. \A r : r \in others <=> r \in rooms /\ r.loc = h.loc /\ ~isHallway(r, hallways)
    BY DEF othersOf
  <2> QED
    BY <2>1, <2>2
<1>4. n = Cardinality(left) + (IF h.heated THEN 1 ELSE 0)
  BY DEF heatedRoomCount
<1>5. bridged <=> Bridging(E, now)
  <2>1. \A e \in E : e.start \in Int
    BY DEF eventsOfLocation, AreEvents
  <2>2. \A e \in E : now < e.start <=> 0 < e.start - now
    BY <2>1
  <2> HIDE DEF E
  <2> QED
    BY <2>2 DEF isBridged, Bridging, startsIn
<1> HIDE DEF n, E, others, left, bridged
<1>6. Cardinality(left) \in Nat /\ (Cardinality(left) = 0 <=> left = {})
  BY <1>2, FS_Subset, FS_CardinalityType, FS_EmptySet
<1>7. HallwayTarget(h, others, E, now) <=>
        \/ left # {} /\ (h.avm \/ h.heated)
        \/ h.heated /\ bridged
  BY <1>3, <1>5 DEF HallwayTarget
<1>8. /\ h.heated => (n = 1 <=> left = {})
      /\ ~h.heated => (n > 0 <=> left # {})
  BY <1>1, <1>4, <1>6
<1>9. heatedAfter(h, evaluateHallway(h, n, E, now))
        <=> IF h.heated THEN n # 1 \/ bridged ELSE n > 0 /\ h.avm
  <2> DEFINE occupied == n > 0
             alone == n = 1
  <2>1. evaluateHallway(h, n, E, now) =
          CASE ~h.heated /\ occupied /\ h.avm -> Decide("HEAT", "HALLWAY_OCCUPIED")
            [] h.heated /\ alone /\ ~bridged -> Decide("COOL", "HALLWAY_EMPTY")
            [] OTHER -> NoAction
    BY DEF evaluateHallway, bridged
  <2>2. alone \in BOOLEAN /\ occupied \in BOOLEAN
    BY <1>4, <1>6
  <2> HIDE DEF occupied, alone
  <2>3. LET d == evaluateHallway(h, n, E, now)
        IN  (d.kind = "HEAT" \/ (d.kind = "NONE" /\ h.heated))
              <=> IF h.heated THEN ~alone \/ bridged ELSE occupied /\ h.avm
    BY <1>1, <2>1, <2>2, HallwayCases
  <2> QED
    BY <2>3 DEF heatedAfter, occupied, alone
<1>10. /\ HallwayTarget(h, others, E, now) \in BOOLEAN
       /\ heatedAfter(h, evaluateHallway(h, n, E, now)) \in BOOLEAN
  BY DEF HallwayTarget, heatedAfter
<1>11. heatedAfter(h, evaluateHallway(h, n, E, now)) = HallwayTarget(h, others, E, now)
  BY <1>1, <1>7, <1>8, <1>9, <1>10
<1> QED
  BY <1>11 DEF n, E, others
=============================================================================
