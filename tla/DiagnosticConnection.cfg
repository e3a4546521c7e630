SPECIFICATION Spec
CONSTANTS
  Requests = {r1, r2}
  Boxes = {b1, b2}
  Width = 2
  MaxAttempts = 2
  MaxLogins = 3
  MaxFaults = 2
SYMMETRY MCSymmetry
INVARIANTS TypeOK SessionsAreGivenBack NobodyWaitsInVain
PROPERTIES OneExpiryIsSurvived
