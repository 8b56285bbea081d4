SPECIFICATION FairSpec
CONSTANTS
  Events = {e1, e2, e3, e4}
  Handles = {h1, h2}
  NoHandle = NoHandle
  NoEvent = NoEvent
  Capacity = 3
  MaxTime = 3
INVARIANTS
  ContainerInv
PROPERTIES
  ImplementsTimers
  OperationsReturn
