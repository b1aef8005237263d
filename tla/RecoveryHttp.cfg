SPECIFICATION FairSpec
CONSTANTS
  Conns = {c1, c2}
  NoConn = NoConn
  MaxLen = 2
  MaxTimers = 2
INVARIANTS
  TypeOK
  BodyOwnsServer
  FlashedImageComplete
  FlashAfterOwnAck
PROPERTIES
  FlashUndisturbed
  ResetJustified
  NoResetDuringUpload
  ServerFreed
