SPECIFICATION Spec
CONSTANTS
  BackoffLut <- XI_BACKOFF_LUT
  DecayLut <- XI_DECAY_LUT
  MaxContexts = 2
  MaxRefCount = 3
INVARIANTS
  BackoffInv
PROPERTIES
  CooldownKept
  PenaltyGrows
  PenaltyDecays
