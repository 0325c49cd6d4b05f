SPECIFICATION RSSpec
CONSTANTS
  Conns = {s1, s2}
  Users = {u1, u2}
  lobby = lobby
  room = room
  Channels = {lobby, room}
  Default = lobby
  ConfigDefault = lobby
  Initial = {lobby}
  Join <- MCJoin
  Power <- MCPower
  NoConn = NoConn
  NoUser = NoUser
  NoChannel = NoChannel
  Readers = {"rel"}
  Commands = {"create", "delete"}
  MaxSwitch = 2
  StrayPackets = FALSE
SYMMETRY UserSymmetry
INVARIANTS ViewFollows KnownIsListed
