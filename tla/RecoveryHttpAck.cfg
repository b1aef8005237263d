SPECIFICATION Spec
CONSTANTS
  Conns = {c1, c2}
  NoConn = NoConn
  MaxLen = 2
  MaxTimers = 1
INVARIANTS
  FlashAfterAck
