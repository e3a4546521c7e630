-------------------------- MODULE MCHeatingControl --------------------------
(* Instances of HeatingControl for TLC.  The windows are scaled down (cool *)
(* 2, bridge 3 minutes).  Room 1 and the hallway 3 share location A; room  *)
(* 4 and room 5, which has no thermostat, share location B.                *)
EXTENDS HeatingControl

mcLocOf  == [r \in Rooms |-> IF r \in {4, 5} THEN "B" ELSE "A"]
mcPrelim == [r \in Rooms |-> CASE r = 3 -> 0 [] r = 5 -> 1 [] OTHER -> 2]
mcHasAvm == [r \in Rooms |-> r # 5]

booking(i, r, s, e) == [id |-> i, room |-> r, start |-> s, end |-> e]

(* Two meetings in room 1, the second within the bridge window of the      *)
(* first and outlasting the instance, one in each room of location B that  *)
(* overlaps the first, and one of a room that has been deleted.            *)
mcMeetings == {booking(1, 1, 1, 3), booking(2, 1, 6, 99), booking(3, 4, 2, 4),
               booking(4, 5, 2, 5), booking(9, 99, 1, 2)}

(* A short meeting and one that outlasts the instance.                     *)
mcOpenEnd == {booking(1, 1, 1, 2), booking(5, 1, 3, 99)}

(* Room 5 has no valid temperature to cool to.                             *)
mcInvalidTargets == {<<5, "COOL">>}
NoInvalidTargets == {}
=============================================================================
