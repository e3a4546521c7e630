SPECIFICATION Spec
CONSTANTS
  COOL_WINDOW = 2
  BRIDGE_WINDOW = 3
  Rooms = {1, 3, 4, 5}
  LocOf <- mcLocOf
  Prelim <- mcPrelim
  HasAvm <- mcHasAvm
  InvalidTargets <- mcInvalidTargets
  HallwayRoomIds = {3}
  Bookings <- mcMeetings
  Seasons = {"in", "out", "invalid"}
  SchedulerEnabled = TRUE
  FaultKinds = {"db_read", "connect", "thermostat", "unreachable"}
  MaxTime = 7
  MaxFaults = 2
  MaxEdits = 2
INVARIANTS TypeOK FlagsFollowThermostats RunsAreOrderly DoneIsApplied CleanRunReachesTarget
PROPERTIES PlanIsSafe ThermostatsConverge HallwayConverges ImplementsProtocol
