SPECIFICATION Spec
CONSTANTS
  COOL_WINDOW = 2
  BRIDGE_WINDOW = 3
  Rooms = {1}
  LocOf <- mcLocOf
  Prelim <- mcPrelim
  HasAvm <- mcHasAvm
  InvalidTargets <- NoInvalidTargets
  HallwayRoomIds = {}
  Bookings <- mcOpenEnd
  Seasons = {"in"}
  SchedulerEnabled = TRUE
  FaultKinds = {"crash"}
  MaxTime = 6
  MaxFaults = 1
  MaxEdits = 2
PROPERTIES NoRoomStaysHeated
