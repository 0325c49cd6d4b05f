SPECIFICATION LiveSpec
CONSTANTS
  Threads = {t1, t2, t3}
  Items = {a, b, c}
  Empty = Empty
  InitialCap = 1
  Scale = 2
  Word = 16
  MaxCalls = 4
INVARIANTS SectionsApart NothingLost
PROPERTIES IsPool CallsEnd
CHECK_DEADLOCK FALSE
