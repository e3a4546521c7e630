SPECIFICATION Spec
CONSTANTS
  Rooms = {1}
  LocOf <- mcLocOf
  HasAvm <- mcHasAvm
  Configs <- mcAmbiguous
  UnknownEvents = {}
  Occurring = {"applied", "CONFIGURATION_ERROR"}
  None = None
INVARIANTS EveryErrorIsOpen
