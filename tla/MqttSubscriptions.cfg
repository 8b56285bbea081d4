SPECIFICATION Spec
CONSTANTS
  Q0 = {}
  Q1 = {}
  Subs = {s}
  Publications <- ThreePublications
  In1 = {"m1", "m2"}
  KeepAlive = TRUE
  ConnTimeout = TRUE
  IdMod = 8
  ControlTopic = TRUE
  InDomain = FALSE
  Sessions = {"CLEAN", "CONTINUE"}
  PublishIn = {"OPENED"}
  AppPhases = {"poll"}
  MaxConnects = 2
  MaxFaults = 1
  MaxTimeouts = 0
  s = s
INVARIANT AcknowledgedIsReceived
INVARIANT ReceivedInOrder
PROPERTY ImplementsDelivery
