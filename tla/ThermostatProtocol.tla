------------------------- MODULE ThermostatProtocol -------------------------
(***************************************************************************)
(* What the heating control promises about a room, as long as the process  *)
(* stays up and replies and writes are not lost: switching a room is a     *)
(* command to its thermostat followed by a confirmation in the database,   *)
(* one room at a time having at most one switch under way.  A room without *)
(* thermostat is only marked.  HeatingControl implements it.               *)
(***************************************************************************)
CONSTANTS Rooms, HasAvm
VARIABLES heated, thermostat

duty == <<heated, thermostat>>

Agree(r) == heated[r] = (thermostat[r] = "HEAT")

Init ==
  /\ heated = [r \in Rooms |-> FALSE]
  /\ thermostat = [r \in Rooms |-> "COOL"]

Command(r) ==
  /\ HasAvm[r] /\ Agree(r)
  /\ thermostat' = [thermostat EXCEPT ![r] = IF @ = "HEAT" THEN "COOL" ELSE "HEAT"]
  /\ UNCHANGED heated

Confirm(r) ==
  /\ HasAvm[r] /\ ~Agree(r)
  /\ heated' = [heated EXCEPT ![r] = (thermostat[r] = "HEAT")]
  /\ UNCHANGED thermostat

Mark(r) ==
  /\ ~HasAvm[r]
  /\ heated' = [heated EXCEPT ![r] = ~@]
  /\ UNCHANGED thermostat

Next == \E r \in Rooms : Command(r) \/ Confirm(r) \/ Mark(r)

Spec == Init /\ [][Next]_duty /\ \A r \in Rooms : WF_duty(Confirm(r))
=============================================================================
