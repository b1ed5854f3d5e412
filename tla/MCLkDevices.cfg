SPECIFICATION Spec
CONSTANTS
  MaxFaults = 1
  MaxEvents = 2
  MaxJobs = 2
  Commands = {"flash", "download", "continue", "unknown"}
  Lengths = {3, 4}
  Bulk = 2
  MaxDownload = 3
  MaxSetups = 2
  MaxPackets = 2
  OutBlk = 4
  OutFifo = 8
  QupLens = {1, 2, 5, 6, 9}
  UartWord = 2
  Texts <- MCTexts
  RowLen = 2
  MaxRows = 2
  Transfers = {1, 2, 3, 4, 5, 6, 7}
  CeWord = 2
  CeSegment = 4
  Images = {1, 2, 3, 4, 5, 7, 8, 9}
  Timing <- MCFrame
  LcdcFrame <- MCFrame
  Interval = 2
  Milli = 3
  SleepRate = 5
  TicksPerSec = 4
  GptFactor = 2
  PitCount = 3
  PitDelta = 5
  PitUnit = 2
  CountSize = 8
  WordSize = 16
  Delays = {2, 3, 4}
  MaxTime = 9
INVARIANT CompletionIsCurrent OneAnswer TransferOnce SuccessIsExact ScansWhenFed FrameIsScanned
  NothingStranded ClockKept
PROPERTY CommandAnswered CallsReturn
CHECK_DEADLOCK FALSE
