SPECIFICATION Spec
CONSTANTS
  Ids = {lobby, r1, r2}
  Lobby = lobby
  Groups = {admin}
  NoFile = NoFile
  Torn = Torn
  SlotArgs <- MCSlotArgs
  SortArgs = {5}
  HalfSlot = 4
  Sorts = 4
  MaxCommands = 4
  MaxStarts = 3
  Snapshots <- MCSnapshots
INVARIANTS ReportedIsKept LobbyStays PermsAreMaxima
PROPERTIES IsDurable
CHECK_DEADLOCK FALSE
