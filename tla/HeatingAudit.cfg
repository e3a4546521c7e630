SPECIFICATION Spec
CONSTANTS
  Rooms = {1, 3, 4}
  LocOf <- mcLocOf
  HasAvm <- mcHasAvm
  Configs <- mcSeasons
  UnknownEvents = {"event"}
  Occurring = {"applied", "skipped", "unsaved", "THERMOSTAT_UNREACHABLE", "FRITZBOX_UNREACHABLE"}
  None = None
INVARIANTS TypeOK EveryErrorIsOpen
PROPERTIES  RecoveriesMatchErrors
