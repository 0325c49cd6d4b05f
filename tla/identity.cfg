SPECIFICATION Spec
CONSTANTS
  k1 = k1
  k2 = k2
  k3 = k3
  Bits = 3
  Sha <- MCSha
  Keys = {k1, k2, k3}
  Uuid <- MCUuid
  Names = {"default", "second"}
  NoFile = NoFile
  Torn = Torn
  DEFAULT_SECURITY_LEVEL = 1
  ConfigLevels = {0, 2}
  BumpLevels = {2, 3}
  MaxCommands = 2
  MaxStarts = 3
  MaxAttempts = 2
INVARIANTS ProofsHold ProfilesKept WelcomeAgain StoredIsProven NeverPanics
CHECK_DEADLOCK FALSE
