SPECIFICATION FairSpec
CONSTANTS
  Q0 = {}
  Q1 = {p}
  Subs = {}
  Publications <- NoPublications
  In1 = {}
  KeepAlive = TRUE
  ConnTimeout = TRUE
  IdMod = 8
  ControlTopic = TRUE
  InDomain = FALSE
  Sessions = {"CONTINUE"}
  PublishIn = {"OPENED"}
  AppPhases = {"poll"}
  MaxConnects = 2
  MaxFaults = 1
  MaxTimeouts = 0
  p = p
PROPERTY ConnectionsResolve
PROPERTY PublishResolves
