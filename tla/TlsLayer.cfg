SPECIFICATION FairSpec
CONSTANTS
  Handshake <- ShortHandshake
  MaxRecords = 2
  RecordUnits = 2
  RecordPieces = 2
  MaxMessages = 2
  MaxAttempts = 2
  MaxFaults = 2
  MaxWaits = 1
INVARIANTS AssertionsHold NothingLeft DataInTime
PROPERTY EverythingEnds
CHECK_DEADLOCK FALSE
