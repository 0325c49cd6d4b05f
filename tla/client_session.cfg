SPECIFICATION FairSpec
CONSTANTS
  MaxBeats = 2
INVARIANTS ReportedOnce
PROPERTIES LossIsNoticed GivenUpIsClosed
CHECK_DEADLOCK FALSE
