SPECIFICATION Spec
CONSTANTS
  Conns = {s1, s2}
  Users = {u1}
  lobby = lobby
  room = room
  vault = vault
  Channels = {lobby, room}
  Default = lobby
  ConfigDefault = lobby
  Initial = {lobby, room}
  Join <- MCJoin
  Power <- MCPower
  NoConn = NoConn
  NoUser = NoUser
  Readers = {"ka", "rel"}
  Commands = {}
  MaxSwitch = 1
  StrayPackets = FALSE
SYMMETRY ConnSymmetry
INVARIANTS FinishFindsItsUser
