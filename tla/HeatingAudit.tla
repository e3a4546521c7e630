---------------------------- MODULE HeatingAudit ----------------------------
(***************************************************************************)
(* HeatingAuditService.record (heating-audit.service.ts): which errors and *)
(* recoveries of the heating runs reach the activity log.  The scheduler   *)
(* repeats a failed command every minute; the log names an error once.     *)
(*                                                                         *)
(* A run is one step here: its results are chosen among those the          *)
(* scheduler can produce for the rooms it acts on (executeLocationActions, *)
(* executeLocation, resolveHallways, planHeating), then they are recorded. *)
(* AuditLogService.log swallows the error of an insert that fails, so any  *)
(* of the entries of a run may be missing in the log.  The wording of the  *)
(* entries is left out.                                                    *)
(*                                                                         *)
(* A definition named <definition>_<fault> is a faulty form of the one     *)
(* that follows it: a property has to tell the two apart.                  *)
(***************************************************************************)
EXTENDS Integers, FiniteSets

CONSTANTS
  Rooms, LocOf, HasAvm,   \* as in HeatingControl
  Configs,                \* the configurations a process may be started with
  UnknownEvents,          \* calendar events of rooms that do not exist
  Occurring,              \* the outcomes of actions in this environment
  None                    \* undefined

Locations == {LocOf[r] : r \in Rooms}

(* season: HEATING_SEASON_START and _END are valid; ambiguous: locations   *)
(* with more than one configured hallway; missing: configured hallways     *)
(* that are no rooms.                                                      *)
ASSUME AuditAssumption ==
  /\ Rooms \subseteq Nat
  /\ None \notin Nat /\ None \notin Locations
  /\ Configs \subseteq [season : BOOLEAN, ambiguous : SUBSET Locations,
                        missing : SUBSET (Nat \ Rooms)]

(* What the connection of a location may fail with; CONFIGURATION_ERROR is *)
(* e.g. a password that cannot be decrypted.                               *)
ConnectionCodes == {"FRITZBOX_UNREACHABLE", "UNKNOWN_LOCATION",
                    "MISSING_FRITZBOX_MAPPING", "CONFIGURATION_ERROR"}
LOCATION_ERROR_CODES == ConnectionCodes \ {"CONFIGURATION_ERROR"}
RoomCodes == {"THERMOSTAT_UNREACHABLE", "INVALID_TEMPERATURE"}

(* How an action of a run ends; "unsaved": applied, or skipped for want of *)
(* a thermostat, and the flag not stored.                                  *)
Outcomes == {"applied", "skipped", "unsaved"} \cup ConnectionCodes \cup RoomCodes

ASSUME OutcomesAssumption == Occurring \subseteq Outcomes

VARIABLES
  config,      \* the configuration of the running process
  active,      \* keys of the errors of the last run (memory)
  occurred,    \* errors of the last run
  open,        \* errors of the keys in memory that the log reports and has
               \* not reported as recovered
  unwritten,   \* keys in memory whose entry the log has lost
  entries      \* what the last run has logged: <<"error", e>>, <<"recovered", key>>

vars == <<config, active, occurred, open, unwritten, entries>>

Init ==
  /\ config \in Configs
  /\ active = {} /\ occurred = {} /\ open = {} /\ unwritten = {} /\ entries = {}

-----------------------------------------------------------------------------
(* The results of a run: a function from the rooms it acts on.             *)

Possible(res) ==
  \A r \in DOMAIN res :
    /\ IF HasAvm[r] THEN res[r] # "skipped"
                    ELSE res[r] \in {"skipped", "unsaved", "INVALID_TEMPERATURE"}
    /\ \A q \in DOMAIN res :
         (/\ LocOf[q] = LocOf[r] /\ HasAvm[q]
          /\ res[q] # "INVALID_TEMPERATURE" /\ res[r] \in ConnectionCodes)
           \* no connection: nothing is sent; the box gone: nothing after r
           => res[q] = res[r] \/ (res[r] = "FRITZBOX_UNREACHABLE" /\ q < r)

Results == UNION {{res \in [D -> Occurring] : Possible(res)} : D \in SUBSET Rooms}

(* An error of a run.  `cause` is where it comes from; for an error of no  *)
(* room and no location it stands for the message.                         *)
Error(code, loc, room, cause) == [code |-> code, loc |-> loc, room |-> room, cause |-> cause]

resultErrors(res) ==
  {Error(res[r], LocOf[r], None, "connection") :
     r \in {r \in DOMAIN res : res[r] \in ConnectionCodes}}
  \cup
  {Error(res[r], LocOf[r], r, "device") : r \in {r \in DOMAIN res : res[r] \in RoomCodes}}
  \cup
  {Error("DATA_SOURCE_ERROR", LocOf[r], r, "setHeated") :
     r \in {r \in DOMAIN res : res[r] = "unsaved"}}

hallwayErrors(c) ==
  {Error("CONFIGURATION_ERROR", l, None, "hallway") : l \in c.ambiguous}
  \cup {Error("UNKNOWN_ROOM", None, r, "hallway") : r \in c.missing}

eventErrors(events) == {Error("UNKNOWN_ROOM", None, None, e) : e \in events}
seasonError         == Error("CONFIGURATION_ERROR", None, None, "season")
loadError(what)     == Error("DATA_SOURCE_ERROR", None, None, what)

(* <<code, location, room, message>>, what does not matter being None.     *)
errorKey(e) ==
  IF e.code \in LOCATION_ERROR_CODES THEN <<e.code, e.loc, None, None>>
  ELSE <<e.code, e.loc, e.room, IF e.loc = None /\ e.room = None THEN e.cause ELSE None>>

-----------------------------------------------------------------------------
(* record(): recoveries from the actions applied, then the new errors.     *)

appliedRooms(res) == {r \in DOMAIN res : HasAvm[r] /\ res[r] \in {"applied", "unsaved"}}

recovered(key, res) ==
  IF key[1] \in LOCATION_ERROR_CODES
  THEN \E r \in appliedRooms(res) : LocOf[r] = key[2]
  ELSE key[3] \in appliedRooms(res)

recoveries(res)     == {key \in active : recovered(key, res)}
keysOf(errors)      == {errorKey(e) : e \in errors}
logged(res, errors) == {e \in errors : errorKey(e) \notin active \ recoveries(res)}

(* The entries for the keys `closed` and the errors `reported` are         *)
(* inserted, some of them in vain; `memory` is what is remembered either   *)
(* way.                                                                    *)
log(closed, reported, errors, memory) ==
  \E written \in SUBSET ({<<"recovered", key>> : key \in closed}
                           \cup {<<"error", e>> : e \in reported}) :
    LET stored == {e \in reported : <<"error", e>> \in written}
    IN  /\ active' = memory /\ occurred' = errors /\ entries' = written
        /\ open' = {e \in open : /\ <<"recovered", errorKey(e)>> \notin written
                                 /\ errorKey(e) \in memory} \cup stored
        /\ unwritten' = keysOf(reported \ stored) \cup ((unwritten \ closed) \cap memory)
        /\ UNCHANGED config

record_keepsActive(res, errors) ==
  log(recoveries(res), logged(res, errors), errors, active \cup keysOf(errors))
record_neverForgets(res, errors) ==
  log(recoveries(res), {e \in errors : errorKey(e) \notin active}, errors, active \cup keysOf(errors))
record_everyRun(res, errors) == log(recoveries(res), errors, errors, keysOf(errors))

record(res, errors) == log(recoveries(res), logged(res, errors), errors, keysOf(errors))

(* A run in the heating season, a run out of it (no events and no hallway  *)
(* rule), one that could not load rooms or events, and one that does not   *)
(* know the season.                                                        *)
runInSeason ==
  /\ config.season
  /\ \E res \in Results, events \in SUBSET UnknownEvents :
       record(res, resultErrors(res) \cup hallwayErrors(config) \cup eventErrors(events))
runOffSeason  == config.season /\ \E res \in Results : record(res, resultErrors(res))
runUnloaded   == config.season /\ \E what \in {"rooms", "calendar"} : record(<<>>, {loadError(what)})
runSeasonless == ~config.season /\ record(<<>>, {seasonError})

restart ==
  /\ config' \in Configs
  /\ active' = {} /\ occurred' = {} /\ open' = {} /\ unwritten' = {} /\ entries' = {}

Next == runInSeason \/ runOffSeason \/ runUnloaded \/ runSeasonless \/ restart

Spec == Init /\ [][Next]_vars

-----------------------------------------------------------------------------
Errors ==
  [code : ConnectionCodes \cup RoomCodes \cup {"DATA_SOURCE_ERROR", "UNKNOWN_ROOM"},
   loc : Locations \cup {None}, room : Nat \cup {None},
   cause : {"connection", "device", "setHeated", "hallway", "season", "rooms", "calendar"}
             \cup UnknownEvents]

TypeOK ==
  /\ config \in Configs
  /\ occurred \subseteq Errors /\ open \subseteq Errors
  /\ \A key \in active : \E e \in occurred : key = errorKey(e)
  /\ unwritten \subseteq active

(* Every error of a run has an entry in the log that no recovery has       *)
(* closed, unless the database has refused that entry (which is not tried  *)
(* again while the error persists): errors are neither swallowed by the    *)
(* memory of active errors nor closed by an entry of the same run that     *)
(* comes later.                                                            *)
EveryErrorIsOpen == \A e \in occurred : e \in open \/ errorKey(e) \in unwritten

(* What is logged anew with every run: a box that answered a command of    *)
(* the run before it vanished, and a flag that cannot be stored after its  *)
(* command was applied.  The command that worked counts as recovery.       *)
Repeats(e) == e.code = "FRITZBOX_UNREACHABLE" \/ (e.cause = "setHeated" /\ HasAvm[e.room])

(* Any other error is not logged again as long as it persists from run to  *)
(* run: no command of its room or location is applied meanwhile.           *)
NoRepetition ==
  [][ \A e \in occurred \cap occurred' : <<"error", e>> \in entries' => Repeats(e) ]_vars

(* "wird ein Fehler nur beim ersten Auftreten protokolliert und erst dann  *)
(* erneut, wenn er zwischenzeitlich verschwunden war"                      *)
(* (heating-audit.service.ts:53-55): no error is logged in each of two     *)
(* runs in a row that both have it.                                        *)
LoggedOnFirstOccurrence ==
  [][ \A e \in occurred \cap occurred' : <<"error", e>> \notin entries' ]_vars

(* A recovery is only logged for an error the log has reported before and  *)
(* that no later recovery has closed, or whose entry was lost.             *)
RecoveriesMatchErrors ==
  [][ \A entry \in entries' : entry[1] = "recovered" =>
        entry[2] \in unwritten \/ \E e \in open : errorKey(e) = entry[2] ]_vars
=============================================================================
