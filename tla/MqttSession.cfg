SPECIFICATION Spec
CONSTANTS
  Q0 = {q}
  Q1 = {p}
  Subs = {}
  Publications <- NoPublications
  In1 = {}
  KeepAlive = TRUE
  ConnTimeout = TRUE
  IdMod = 8
  ControlTopic = TRUE
  InDomain = FALSE
  Sessions = {"CLEAN", "CONTINUE"}
  PublishIn = {"OPENED"}
  AppPhases = {"poll"}
  MaxConnects = 2
  MaxFaults = 1
  MaxTimeouts = 0
  q = q
  p = p
INVARIANT NoAssertionFails
INVARIANT NoTaskStalls
INVARIANT ClosedMeansReset
INVARIANT ErrorMeansFailed
PROPERTY ImplementsDelivery
