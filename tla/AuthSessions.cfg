SPECIFICATION Spec
CONSTANTS
  Users = {u1}
  Passwords <- MCPasswords
  Requests = {r1, r2}
  MaxRequests = 4
  MaxSessions = 2
  InitialUsers <- MCInitialUsers
  AdminDtos <- MCAdminDtos
SYMMETRY MCSymmetry
INVARIANTS TypeOK ClientCanRefresh
PROPERTIES NothingComesBack DecisionsAreKept OwnPasswordEndsSessions RefreshTokenIsUsedOnce
CHECK_DEADLOCK FALSE
