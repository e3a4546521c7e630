SPECIFICATION Spec
CONSTANTS
  Rooms = {room}
  Resources = {beamer}
  Owners = {ann, bob}
  Requests = {r1, r2}
  DayLength = 2
  Ahead = 1
  LastDay = 4
  MaxNow = 4
  MaxRequests = 3
  MaxRows = 6
  MaxSeries = 2
  Vacations <- MCVacations
  Forms <- MCForms
  SeriesForms <- MCSeriesForms
SYMMETRY MCSymmetry
INVARIANTS TypeOK SeriesOwnersAgree DaysAreGeneratedOnce HolidaysAreKnown
PROPERTIES ImplementsBookings GenerationIsComplete DeletedStaysDeleted SplitIsComplete
CHECK_DEADLOCK FALSE
