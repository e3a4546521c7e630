SPECIFICATION Spec
CONSTANTS
  COOL_WINDOW = 2
  BRIDGE_WINDOW = 3
  Rooms = {1, 3}
  LocOf <- mcLocOf
  Prelim <- mcPrelim
  HasAvm <- mcHasAvm
  InvalidTargets <- NoInvalidTargets
  HallwayRoomIds = {3}
  Bookings <- mcOpenEnd
  Seasons = {"in", "out"}
  SchedulerEnabled = TRUE
  FaultKinds = {"connect", "unreachable", "lost_reply", "db_write", "crash", "room_form"}
  MaxTime = 6
  MaxFaults = 1
  MaxEdits = 3
PROPERTIES FlagsConverge
