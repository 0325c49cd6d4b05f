SPECIFICATION Spec
CONSTANTS
  Threads = {t1, t2, t3}
  Values = {a, b, c}
  Uninit = Uninit
INVARIANTS EachOnce
PROPERTIES IsOnce
CHECK_DEADLOCK FALSE
