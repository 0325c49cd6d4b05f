SPECIFICATION Spec
CONSTANTS
  Conns = {s1, s2}
  Users = {u1, u2}
  lobby = lobby
  room = room
  vault = vault
  Channels = {lobby, room}
  Default = lobby
  ConfigDefault = vault
  Initial = {lobby}
  Join <- MCJoin
  Power <- MCPower
  NoConn = NoConn
  NoUser = NoUser
  Readers = {"rel", "voice"}
  Commands = {"create", "delete"}
  MaxSwitch = 1
  StrayPackets = FALSE
SYMMETRY UserSymmetry
INVARIANTS EntriesConserved RosterExact EntryIsLive ReadersAfterAuth
