SPECIFICATION Spec
CONSTANTS
  Callers = {scheduler}
  Credentials = {k1, k2}
  Boxes = {b1, b2, b3}
  None = None
  MaxFaults = 1
  MaxMishaps = 1
  MaxEdits = 1
INVARIANTS ChangedCredentialsReconnect
