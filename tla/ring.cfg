SPECIFICATION LiveSpec
CONSTANTS
  Pushers = {p1, p2}
  Items <- MCItems
  Cap = 21
  HeadMod = 64
  LenMod = 8
  Longest = 12
  MaxPush = 5
INVARIANTS NoCarry PushesApart GuardIntact
PROPERTIES IsQueue CallsReturn
CHECK_DEADLOCK FALSE
