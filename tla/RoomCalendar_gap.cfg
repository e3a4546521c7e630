SPECIFICATION Spec
CONSTANTS
  Rooms = {room}
  Resources = {beamer}
  Owners = {ann}
  Requests = {r1}
  DayLength = 2
  Ahead = 1
  LastDay = 4
  MaxNow = 6
  MaxRequests = 3
  MaxRows = 6
  MaxSeries = 2
  Vacations <- MCVacations
  Forms <- NoForms
  SeriesForms <- MCSeriesForms
INVARIANT NoDayIsLeftOut
CHECK_DEADLOCK FALSE
