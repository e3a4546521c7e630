-------------------------- MODULE HeatingAudit_proofs --------------------------
(***************************************************************************)
(* Theorems about HeatingAudit, for any rooms, locations, configurations    *)
(* and outcomes.                                                            *)
(***************************************************************************)
EXTENDS HeatingAudit, TLAPS

USE AuditAssumption, OutcomesAssumption

(* The errors a run can have: in which of their fields they differ.         *)
ConnectionErrors == {Error(c, l, None, "connection") : c \in ConnectionCodes, l \in Locations}
DeviceErrors == {Error(c, LocOf[r], r, "device") : c \in RoomCodes, r \in Rooms}
SaveErrors == {Error("DATA_SOURCE_ERROR", LocOf[r], r, "setHeated") : r \in Rooms}
LoadErrors == {loadError(what) : what \in {"rooms", "calendar"}}
HallwayErrors == UNION {hallwayErrors(c) : c \in Configs}
PossibleErrors ==
  {e \in ConnectionErrors : e.code \in Occurring} \cup DeviceErrors \cup SaveErrors
    \cup HallwayErrors \cup eventErrors(UnknownEvents)
    \cup LoadErrors \cup {seasonError}

LEMMA ResultRooms ==
  ASSUME NEW res \in Results
  PROVE  /\ \A r \in DOMAIN res : r \in Rooms /\ LocOf[r] \in Locations /\ res[r] \in Occurring
         /\ Possible(res)
<1>1. PICK D \in SUBSET Rooms : res \in {f \in [D -> Occurring] : Possible(f)}
  BY DEF Results
<1>2. res \in [D -> Occurring]
  BY <1>1
<1> QED
  BY <1>1, <1>2 DEF Locations

LEMMA ResultErrorsPossible ==
  ASSUME NEW res \in Results
  PROVE  resultErrors(res) \subseteq PossibleErrors
<1>1. \A r \in DOMAIN res : r \in Rooms /\ LocOf[r] \in Locations /\ res[r] \in Occurring
  BY ResultRooms
<1>2. ASSUME NEW r \in DOMAIN res, res[r] \in ConnectionCodes
      PROVE  Error(res[r], LocOf[r], None, "connection") \in PossibleErrors
  <2>1. Error(res[r], LocOf[r], None, "connection") \in ConnectionErrors
    BY <1>1, <1>2 DEF ConnectionErrors
  <2>2. Error(res[r], LocOf[r], None, "connection").code = res[r]
    BY DEF Error
  <2> QED
    BY <1>1, <2>1, <2>2 DEF PossibleErrors
<1>3. ASSUME NEW r \in DOMAIN res, res[r] \in RoomCodes
      PROVE  Error(res[r], LocOf[r], r, "device") \in PossibleErrors
  BY <1>1, <1>3 DEF PossibleErrors, DeviceErrors
<1>4. ASSUME NEW r \in DOMAIN res
      PROVE  Error("DATA_SOURCE_ERROR", LocOf[r], r, "setHeated") \in PossibleErrors
  BY <1>1 DEF PossibleErrors, SaveErrors
<1> QED
  BY <1>2, <1>3, <1>4 DEF resultErrors

LEMMA OtherErrorsPossible ==
  ASSUME NEW c \in Configs, NEW events \in SUBSET UnknownEvents
  PROVE  hallwayErrors(c) \cup eventErrors(events) \subseteq PossibleErrors
<1>1. hallwayErrors(c) \subseteq HallwayErrors
  BY DEF HallwayErrors
<1>2. eventErrors(events) \subseteq eventErrors(UnknownEvents)
  BY DEF eventErrors
<1> QED
  BY <1>1, <1>2 DEF PossibleErrors

LEMMA PossibleTypes == PossibleErrors \subseteq Errors
<1>1. ConnectionErrors \subseteq Errors
  BY DEF ConnectionErrors, Errors, Error
<1>2. DeviceErrors \subseteq Errors
  BY DEF DeviceErrors, Errors, Error, Locations
<1>3. SaveErrors \subseteq Errors
  BY DEF SaveErrors, Errors, Error, Locations
<1>4. ASSUME NEW c \in Configs
      PROVE  hallwayErrors(c) \subseteq Errors
  <2>1. c.ambiguous \subseteq Locations /\ c.missing \subseteq Nat
    OBVIOUS
  <2> QED
    BY <2>1 DEF hallwayErrors, Errors, Error, ConnectionCodes
<1>5. eventErrors(UnknownEvents) \subseteq Errors
  BY DEF eventErrors, Errors, Error
<1>6. LoadErrors \subseteq Errors /\ seasonError \in Errors
  BY DEF LoadErrors, loadError, seasonError, Errors, Error, ConnectionCodes
<1> QED
  BY <1>1, <1>2, <1>3, <1>4, <1>5, <1>6 DEF PossibleErrors, HallwayErrors

(* Only what Repeats names is counted as recovered in a run that has it.    *)
LEMMA PersistsUnrecovered ==
  ASSUME NEW res \in Results, NEW e \in resultErrors(res), ~Repeats(e)
  PROVE  ~recovered(errorKey(e), res)
<1>1. /\ \A r \in DOMAIN res : r \in Rooms
      /\ Possible(res)
  BY ResultRooms
<1>2. CASE \E r \in DOMAIN res : res[r] \in ConnectionCodes /\ e = Error(res[r], LocOf[r], None, "connection")
  <2>1. PICK r \in DOMAIN res : res[r] \in ConnectionCodes /\ e = Error(res[r], LocOf[r], None, "connection")
    BY <1>2
  <2>2. e.code = res[r] /\ e.loc = LocOf[r] /\ e.room = None
    BY <2>1 DEF Error
  <2>3. res[r] # "FRITZBOX_UNREACHABLE"
    BY <2>2 DEF Repeats
  <2>4. \A q \in appliedRooms(res) : LocOf[q] # LocOf[r] /\ q # None
    BY <1>1, <2>1, <2>3 DEF Possible, appliedRooms, ConnectionCodes
  <2> QED
    BY <2>2, <2>4 DEF recovered, errorKey
<1>3. CASE \E r \in DOMAIN res : res[r] \in RoomCodes /\ e = Error(res[r], LocOf[r], r, "device")
  <2>1. PICK r \in DOMAIN res : res[r] \in RoomCodes /\ e = Error(res[r], LocOf[r], r, "device")
    BY <1>3
  <2>2. e.code \in RoomCodes /\ e.room = r
    BY <2>1 DEF Error
  <2>3. r \notin appliedRooms(res)
    BY <2>1 DEF appliedRooms, RoomCodes
  <2> QED
    BY <2>2, <2>3 DEF recovered, errorKey, LOCATION_ERROR_CODES, ConnectionCodes, RoomCodes
<1>4. CASE \E r \in DOMAIN res : e = Error("DATA_SOURCE_ERROR", LocOf[r], r, "setHeated")
  <2>1. PICK r \in DOMAIN res : e = Error("DATA_SOURCE_ERROR", LocOf[r], r, "setHeated")
    BY <1>4
  <2>2. e.code = "DATA_SOURCE_ERROR" /\ e.room = r /\ e.cause = "setHeated"
    BY <2>1 DEF Error
  <2>3. r \notin appliedRooms(res)
    BY <2>2 DEF appliedRooms, Repeats
  <2> QED
    BY <2>2, <2>3 DEF recovered, errorKey, LOCATION_ERROR_CODES, ConnectionCodes
<1> QED
  BY <1>2, <1>3, <1>4 DEF resultErrors

LEMMA OthersUnrecovered ==
  ASSUME NEW res, \A r \in DOMAIN res : r \in Rooms, NEW c \in Configs, NEW events,
         NEW e \in hallwayErrors(c) \cup eventErrors(events) \cup LoadErrors \cup {seasonError}
  PROVE  ~recovered(errorKey(e), res)
<1>1. e.code \notin LOCATION_ERROR_CODES /\ (e.room = None \/ e.room \in c.missing)
  BY DEF hallwayErrors, eventErrors, LoadErrors, loadError, seasonError, Error,
         LOCATION_ERROR_CODES, ConnectionCodes
<1>2. e.room \notin Rooms
  <2>1. c.missing \cap Rooms = {}
    OBVIOUS
  <2> QED
    BY <1>1, <2>1
<1> QED
  BY <1>1, <1>2 DEF recovered, errorKey, appliedRooms

(* What a run is: the results recorded and errors that can occur.          *)
LEMMA RunRecords ==
  ASSUME config \in Configs, runInSeason \/ runOffSeason \/ runUnloaded \/ runSeasonless
  PROVE  \E res : \E errors \in SUBSET PossibleErrors :
           /\ record(res, errors)
           /\ \A e \in errors : Repeats(e) \/ ~recovered(errorKey(e), res)
<1>1. DOMAIN <<>> = {}
  OBVIOUS
<1>2. CASE runInSeason
  <2>1. PICK res \in Results, events \in SUBSET UnknownEvents :
          record(res, resultErrors(res) \cup hallwayErrors(config) \cup eventErrors(events))
    BY <1>2 DEF runInSeason
  <2>2. \A r \in DOMAIN res : r \in Rooms
    BY ResultRooms
  <2>3. \A e \in resultErrors(res) : Repeats(e) \/ ~recovered(errorKey(e), res)
    BY PersistsUnrecovered
  <2>4. \A e \in hallwayErrors(config) \cup eventErrors(events) : ~recovered(errorKey(e), res)
    BY <2>2, OthersUnrecovered
  <2>5. resultErrors(res) \cup hallwayErrors(config) \cup eventErrors(events) \in SUBSET PossibleErrors
    BY ResultErrorsPossible, OtherErrorsPossible
  <2> QED
    BY <2>1, <2>3, <2>4, <2>5
<1>3. CASE runOffSeason
  <2>1. PICK res \in Results : record(res, resultErrors(res))
    BY <1>3 DEF runOffSeason
  <2> QED
    BY <2>1, ResultErrorsPossible, PersistsUnrecovered
<1>4. CASE runUnloaded
  <2>1. PICK what \in {"rooms", "calendar"} : record(<<>>, {loadError(what)})
    BY <1>4 DEF runUnloaded
  <2>2. loadError(what) \in LoadErrors
    BY DEF LoadErrors
  <2>3. ~recovered(errorKey(loadError(what)), <<>>)
    BY <1>1, <2>2, OthersUnrecovered
  <2>4. {loadError(what)} \in SUBSET PossibleErrors
    BY <2>2 DEF PossibleErrors
  <2> QED
    BY <2>1, <2>3, <2>4
<1>5. CASE runSeasonless
  <2>1. record(<<>>, {seasonError})
    BY <1>5 DEF runSeasonless
  <2>2. ~recovered(errorKey(seasonError), <<>>)
    BY <1>1, OthersUnrecovered
  <2>3. {seasonError} \in SUBSET PossibleErrors
    BY DEF PossibleErrors
  <2> QED
    BY <2>1, <2>2, <2>3
<1> QED
  BY <1>2, <1>3, <1>4, <1>5

-----------------------------------------------------------------------------
(* The memory holds the keys of the errors of the last run, and the log has *)
(* an open error for every key of the memory whose entry it has not lost.   *)
Remembered ==
  /\ config \in Configs
  /\ occurred \subseteq PossibleErrors /\ open \subseteq PossibleErrors
  /\ active = keysOf(occurred) /\ unwritten \subseteq active
  /\ \A key \in active : key \in unwritten \/ \E e \in open : errorKey(e) = key

(* What record() writes and keeps, the entries inserted being given.        *)
Recorded(res, errors) ==
  \E written \in SUBSET ({<<"recovered", key>> : key \in recoveries(res)}
                           \cup {<<"error", e>> : e \in logged(res, errors)}) :
    LET stored == {e \in logged(res, errors) : <<"error", e>> \in written}
    IN  /\ active' = keysOf(errors) /\ occurred' = errors /\ entries' = written
        /\ open' = {e \in open : /\ <<"recovered", errorKey(e)>> \notin written
                                 /\ errorKey(e) \in keysOf(errors)} \cup stored
        /\ unwritten' = keysOf(logged(res, errors) \ stored)
                          \cup ((unwritten \ recoveries(res)) \cap keysOf(errors))
        /\ config' = config

LEMMA RecordMeans ==
  ASSUME NEW res, NEW errors, record(res, errors)
  PROVE  Recorded(res, errors)
BY DEF record, log, Recorded

LEMMA RecordRemembers ==
  ASSUME Remembered, NEW res, NEW errors \in SUBSET PossibleErrors, record(res, errors)
  PROVE  Remembered'
<1>1. PICK written \in SUBSET ({<<"recovered", key>> : key \in recoveries(res)}
                                 \cup {<<"error", e>> : e \in logged(res, errors)}) :
        LET stored == {e \in logged(res, errors) : <<"error", e>> \in written}
        IN  /\ active' = keysOf(errors) /\ occurred' = errors /\ entries' = written
            /\ open' = {e \in open : /\ <<"recovered", errorKey(e)>> \notin written
                                     /\ errorKey(e) \in keysOf(errors)} \cup stored
            /\ unwritten' = keysOf(logged(res, errors) \ stored)
                              \cup ((unwritten \ recoveries(res)) \cap keysOf(errors))
            /\ config' = config
  BY RecordMeans DEF Recorded
<1> DEFINE stored == {e \in logged(res, errors) : <<"error", e>> \in written}
<1>2. logged(res, errors) \subseteq errors
  BY DEF logged
<1>3. ASSUME NEW e \in errors
      PROVE  errorKey(e) \in unwritten' \/ \E f \in open' : errorKey(f) = errorKey(e)
  <2>1. errorKey(e) \in keysOf(errors)
    BY DEF keysOf
  <2>2. CASE e \in stored
    BY <1>1, <2>2
  <2>3. CASE e \in logged(res, errors) \ stored
    BY <1>1, <2>3 DEF keysOf
  <2>4. CASE e \notin logged(res, errors)
    <3>1. errorKey(e) \in active /\ errorKey(e) \notin recoveries(res)
      BY <2>4 DEF logged
    <3>2. <<"recovered", errorKey(e)>> \notin written
      BY <3>1
    <3>3. CASE errorKey(e) \in unwritten
      BY <1>1, <2>1, <3>1, <3>3
    <3>4. CASE errorKey(e) \notin unwritten
      <4>1. PICK f \in open : errorKey(f) = errorKey(e)
        BY <3>1, <3>4 DEF Remembered
      <4> QED
        BY <1>1, <2>1, <3>2, <4>1
    <3> QED
      BY <3>3, <3>4
  <2> QED
    BY <2>2, <2>3, <2>4
<1>4. unwritten' \subseteq active'
  BY <1>1, <1>2 DEF keysOf
<1>5. open' \subseteq PossibleErrors
  BY <1>1, <1>2 DEF Remembered
<1>6. \A key \in active' : key \in unwritten' \/ \E f \in open' : errorKey(f) = key
  BY <1>1, <1>3 DEF keysOf
<1>7. occurred' = errors /\ active' = keysOf(occurred')
  BY <1>1
<1>8. config' \in Configs
  BY <1>1 DEF Remembered
<1> QED
  BY <1>4, <1>5, <1>6, <1>7, <1>8 DEF Remembered, keysOf

LEMMA RememberedNext ==
  ASSUME Remembered, [Next]_vars
  PROVE  Remembered'
<1>1. CASE runInSeason \/ runOffSeason \/ runUnloaded \/ runSeasonless
  <2>1. config \in Configs
    BY DEF Remembered
  <2> QED
    BY <1>1, <2>1, RunRecords, RecordRemembers
<1>2. CASE restart
  BY <1>2 DEF restart, Remembered, keysOf
<1>3. CASE UNCHANGED vars
  BY <1>3 DEF vars, Remembered, keysOf
<1> QED
  BY <1>1, <1>2, <1>3 DEF Next

(* What the memory of record() has to do with the log, in every state.      *)
LEMMA RememberedAlways == Spec => []Remembered
<1>1. Init => Remembered
  BY DEF Init, Remembered, keysOf
<1> QED
  BY <1>1, RememberedNext, PTL DEF Spec

(* Every entry names an error of the kinds record() of                      *)
(* heating-audit.service.ts is given, and the memory holds the keys of the  *)
(* last run.                                                                *)
THEOREM TypeCorrect == Spec => []TypeOK
<1>1. Remembered => TypeOK
  BY PossibleTypes DEF Remembered, TypeOK, keysOf
<1> QED
  BY <1>1, RememberedAlways, PTL

(* The properties as the steps of record() have them.                       *)
Unrepeated == \A e \in occurred \cap occurred' : <<"error", e>> \in entries' => Repeats(e)
Matched ==
  \A entry \in entries' : entry[1] = "recovered" =>
    entry[2] \in unwritten \/ \E e \in open : errorKey(e) = entry[2]

LEMMA RecordSteps ==
  ASSUME Remembered, NEW res, NEW errors \in SUBSET PossibleErrors, record(res, errors),
         \A e \in errors : Repeats(e) \/ ~recovered(errorKey(e), res)
  PROVE  Unrepeated /\ Matched
<1>1. PICK written \in SUBSET ({<<"recovered", key>> : key \in recoveries(res)}
                                 \cup {<<"error", e>> : e \in logged(res, errors)}) :
        occurred' = errors /\ entries' = written
  BY RecordMeans DEF Recorded
<1>2. ASSUME NEW e \in occurred \cap occurred', <<"error", e>> \in entries'
      PROVE  Repeats(e)
  <2>1. e \in logged(res, errors)
    BY <1>1, <1>2
  <2>2. errorKey(e) \in active
    BY <1>2 DEF Remembered, keysOf
  <2>3. recovered(errorKey(e), res)
    BY <2>1, <2>2 DEF logged, recoveries
  <2> QED
    BY <1>1, <1>2, <2>3
<1>3. ASSUME NEW entry \in entries', entry[1] = "recovered"
      PROVE  entry[2] \in unwritten \/ \E e \in open : errorKey(e) = entry[2]
  <2>1. PICK key \in recoveries(res) : entry = <<"recovered", key>>
    BY <1>1, <1>3
  <2>2. key \in active /\ entry[2] = key
    BY <2>1 DEF recoveries
  <2> QED
    BY <2>2 DEF Remembered
<1> QED
  BY <1>2, <1>3 DEF Unrepeated, Matched

LEMMA StepsMatch ==
  ASSUME Remembered, Next
  PROVE  Unrepeated /\ Matched
<1>1. CASE runInSeason \/ runOffSeason \/ runUnloaded \/ runSeasonless
  <2>1. config \in Configs
    BY DEF Remembered
  <2> QED
    BY <1>1, <2>1, RunRecords, RecordSteps
<1>2. CASE restart
  BY <1>2 DEF restart, Unrepeated, Matched
<1> QED
  BY <1>1, <1>2 DEF Next

(* record() repeats the entry of an error that persists only where a        *)
(* command of its location, or the command whose flag is not stored, was    *)
(* applied in the very run that has the error.                              *)
THEOREM NothingIsRepeated == Spec => NoRepetition
<1>1. Remembered /\ [Next]_vars => [Unrepeated]_vars
  BY StepsMatch
<1> QED
  BY <1>1, RememberedAlways, PTL DEF Spec, NoRepetition, Unrepeated

(* A recovery that record() reports closes an error that is open in the log *)
(* or whose entry the database has refused.                                 *)
THEOREM RecoveriesAreReal == Spec => RecoveriesMatchErrors
<1>1. Remembered /\ [Next]_vars => [Matched]_vars
  BY StepsMatch
<1> QED
  BY <1>1, RememberedAlways, PTL DEF Spec, RecoveriesMatchErrors, Matched

-----------------------------------------------------------------------------
(* Two errors share a key only if one of them is an ambiguous hallway and    *)
(* the other a connection that is configured wrongly.                       *)
KeysTellErrors ==
  "CONFIGURATION_ERROR" \notin Occurring \/ \A c \in Configs : c.ambiguous = {}

LEMMA KeysDiffer ==
  ASSUME KeysTellErrors, NEW e \in PossibleErrors, NEW f \in PossibleErrors,
         errorKey(e) = errorKey(f)
  PROVE  e = f
<1> DEFINE fields(x) == x = [code |-> x.code, loc |-> x.loc, room |-> x.room, cause |-> x.cause]
           class(x) == \/ /\ x.code \in ConnectionCodes \cap Occurring /\ x.room = None
                          /\ x.loc \in Locations /\ x.cause = "connection"
                       \/ x.code \in RoomCodes /\ x.room \in Rooms /\ x.cause = "device"
                       \/ x.code = "DATA_SOURCE_ERROR" /\ x.room \in Rooms /\ x.cause = "setHeated"
                       \/ /\ x.code = "CONFIGURATION_ERROR" /\ x.room = None /\ x.cause = "hallway"
                          /\ x.loc \in Locations /\ "CONFIGURATION_ERROR" \notin Occurring
                       \/ x.code = "UNKNOWN_ROOM" /\ x.room \in Nat /\ x.cause = "hallway"
                       \/ x.code = "UNKNOWN_ROOM" /\ x.room = None /\ x.loc = None
                       \/ x.code = "DATA_SOURCE_ERROR" /\ x.room = None /\ x.loc = None
                       \/ /\ x.code = "CONFIGURATION_ERROR" /\ x.room = None /\ x.loc = None
                          /\ x.cause = "season"
<1>1. ASSUME NEW x \in PossibleErrors
      PROVE  fields(x) /\ class(x)
  <2>1. CASE x \in ConnectionErrors /\ x.code \in Occurring
    BY <2>1 DEF ConnectionErrors, Error
  <2>2. CASE x \in DeviceErrors
    BY <2>2 DEF DeviceErrors, Error
  <2>3. CASE x \in SaveErrors
    BY <2>3 DEF SaveErrors, Error
  <2>4. CASE x \in HallwayErrors
    <3>1. PICK c \in Configs : x \in hallwayErrors(c)
      BY <2>4 DEF HallwayErrors
    <3>2. c.ambiguous \subseteq Locations /\ c.missing \subseteq Nat
      OBVIOUS
    <3>3. c.ambiguous = {} \/ "CONFIGURATION_ERROR" \notin Occurring
      BY DEF KeysTellErrors
    <3> QED
      BY <3>1, <3>2, <3>3 DEF hallwayErrors, Error
  <2>5. CASE x \in eventErrors(UnknownEvents)
    BY <2>5 DEF eventErrors, Error
  <2>6. CASE x \in LoadErrors \cup {seasonError}
    BY <2>6 DEF LoadErrors, loadError, seasonError, Error
  <2> QED
    BY <2>1, <2>2, <2>3, <2>4, <2>5, <2>6 DEF PossibleErrors
<1>2. /\ e.code = f.code /\ e.loc = f.loc
      /\ e.code \notin LOCATION_ERROR_CODES =>
           e.room = f.room /\ (e.loc = None /\ e.room = None => e.cause = f.cause)
  BY DEF errorKey
<1>3. class(e) /\ class(f) /\ fields(e) /\ fields(f)
  BY <1>1
<1> HIDE DEF fields
<1>4. e.room = f.room /\ e.cause = f.cause
  BY <1>2, <1>3 DEF LOCATION_ERROR_CODES, ConnectionCodes, RoomCodes
<1> USE DEF fields
<1> QED
  BY <1>2, <1>3, <1>4

LEMMA OpenNext ==
  ASSUME KeysTellErrors, Remembered, EveryErrorIsOpen, [Next]_vars
  PROVE  EveryErrorIsOpen'
<1>1. ASSUME NEW res, NEW errors \in SUBSET PossibleErrors, record(res, errors)
      PROVE  EveryErrorIsOpen'
  <2>1. PICK written \in SUBSET ({<<"recovered", key>> : key \in recoveries(res)}
                                   \cup {<<"error", e>> : e \in logged(res, errors)}) :
          LET stored == {e \in logged(res, errors) : <<"error", e>> \in written}
          IN  /\ occurred' = errors
              /\ open' = {e \in open : /\ <<"recovered", errorKey(e)>> \notin written
                                       /\ errorKey(e) \in keysOf(errors)} \cup stored
              /\ unwritten' = keysOf(logged(res, errors) \ stored)
                                \cup ((unwritten \ recoveries(res)) \cap keysOf(errors))
    BY <1>1, RecordMeans DEF Recorded
  <2>2. ASSUME NEW e \in errors PROVE e \in open' \/ errorKey(e) \in unwritten'
    <3>1. CASE e \in logged(res, errors)
      BY <2>1, <3>1 DEF keysOf
    <3>2. CASE e \notin logged(res, errors)
      <4>1. errorKey(e) \in active /\ errorKey(e) \notin recoveries(res)
        BY <3>2 DEF logged
      <4>2. PICK f \in occurred : errorKey(f) = errorKey(e)
        BY <4>1 DEF Remembered, keysOf
      <4>3. f = e
        BY <1>1, <4>2, KeysDiffer DEF Remembered
      <4>4. e \in open \/ errorKey(e) \in unwritten
        BY <4>2, <4>3 DEF EveryErrorIsOpen
      <4>5. errorKey(e) \in keysOf(errors)
        BY DEF keysOf
      <4> QED
        BY <2>1, <4>1, <4>4, <4>5
    <3> QED
      BY <3>1, <3>2
  <2>3. occurred' = errors
    BY <2>1
  <2>4. \A e \in occurred' : e \in open' \/ errorKey(e) \in unwritten'
    BY <2>2, <2>3
  <2> QED
    BY <2>4 DEF EveryErrorIsOpen
<1>2. CASE restart
  BY <1>2 DEF restart, EveryErrorIsOpen
<1>3. CASE UNCHANGED vars
  BY <1>3 DEF vars, EveryErrorIsOpen
<1>4. config \in Configs
  BY DEF Remembered
<1> QED
  BY <1>1, <1>2, <1>3, <1>4, RunRecords DEF Next

(* Where keys tell errors apart, every error of the last run is open in the *)
(* log unless the database has refused its entry: neither the memory of     *)
(* heating-audit.service.ts nor a recovery of the same run hides one.  (The *)
(* run that violates this has both errors that share a key.)                *)
THEOREM ErrorsAreOpen ==
  ASSUME KeysTellErrors
  PROVE  Spec => []EveryErrorIsOpen
<1>1. Init => EveryErrorIsOpen
  BY DEF Init, EveryErrorIsOpen
<1>2. Remembered /\ EveryErrorIsOpen /\ [Next]_vars => EveryErrorIsOpen'
  BY OpenNext
<1> QED
  BY <1>1, <1>2, RememberedAlways, PTL DEF Spec
=============================================================================
