SPECIFICATION RSSpec
CONSTANTS
  Conns = {s1, s2, s3}
  Users = {u1, u2}
  lobby = lobby
  room = room
  Channels = {lobby}
  Default = lobby
  ConfigDefault = lobby
  Initial = {lobby}
  Join <- MCJoin
  Power <- MCPower
  NoConn = NoConn
  NoUser = NoUser
  NoChannel = NoChannel
  Readers = {"rel"}
  Commands = {"stop"}
  MaxSwitch = 0
  StrayPackets = TRUE
SYMMETRY UserSymmetry
INVARIANTS ViewFollows OneSession OnlineIsLive
PROPERTIES NoTakeover
