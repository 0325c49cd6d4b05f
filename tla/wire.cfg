SPECIFICATION LiveSpec
CONSTANTS
  Places = 3
  Trials <- WireTrials
  Dirs = {"down", "up"}
  Senders = {t1, t2}
  Nobody = Nobody
  Packets <- WirePackets
  Frame <- FrameTable
  Size <- WireSize
  Decode <- DecodeTable
  View <- WireView
  Pieces <- WirePieces
  Limited = {"up"}
  SizeLimit = 120
  MaxSent = 2
INVARIANTS FramesRoundTrip PrimitivesAgree Faithful
PROPERTIES IsQueue EventuallyRead
CHECK_DEADLOCK FALSE
