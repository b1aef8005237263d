SPECIFICATION FairSpec
CONSTANTS
  Conns = {c1}
  PartLen = 2
  BufLen = 2
  SndBuf = 2
  MaxRetries = 2
INVARIANTS
  TypeOK
  NothingStaleSent
  QuietDownloadExact
  ShortExactlyOnError
  ReferencesBalanced
PROPERTIES
  ConnectionEnds
