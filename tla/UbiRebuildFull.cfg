SPECIFICATION Spec
CONSTANTS
  Avail = 4
  RawLimit = 5
  FactoryPebs = 2
  SyncPebs = 1
  FactoryBoard = TRUE
  Faults = FALSE
INVARIANT VolumeTableValid
