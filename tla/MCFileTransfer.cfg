SPECIFICATION Spec
CONSTANTS
  Files = {"firmware", "config"}
  Firmware = {"firmware"}
  Place <- MCPlace
  MaxRevision = 3
  Latest <- MCLatest
  MaxSize = 3
  Size <- MCSize
  Links = {"config"}
  MqttAlso = {"config"}
  UrlHandler = TRUE
  Reboots = TRUE
  Faulty = {"open", "write", "close"}
  MaxCrashes = 1
  MaxFaults = 1
  MaxLost = 1
  MaxEarly = 1
INVARIANTS ContextInv DamageIsNoticed
PROPERTIES RecordedIsTrue FinishedIsComplete Converges
CHECK_DEADLOCK FALSE
