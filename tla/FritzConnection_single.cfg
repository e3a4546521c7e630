SPECIFICATION Spec
CONSTANTS
  Callers = {scheduler}
  Credentials = {k1, k2}
  Boxes = {b1, b2, b3}
  None = None
  MaxFaults = 2
  MaxMishaps = 2
  MaxEdits = 2
INVARIANTS TypeOK StuckBoxHasNoSession SessionsAreAccountedFor FingerprintTellsCredentials
PROPERTIES ConnectionIsCurrent DuplicateIdAtMostOnce ConnectionRecovers
