SPECIFICATION Spec
CONSTANTS
  Q0 = {}
  Q1 = {}
  Subs = {}
  Publications <- NoPublications
  In1 = {}
  KeepAlive = TRUE
  ConnTimeout = TRUE
  IdMod = 8
  ControlTopic = TRUE
  InDomain = FALSE
  Sessions = {"CONTINUE"}
  PublishIn = {"OPENED"}
  AppPhases = {"poll"}
  MaxConnects = 1
  MaxFaults = 1
  MaxTimeouts = 1
INVARIANT TimersDisabledAtClose
