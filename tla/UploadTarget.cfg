SPECIFICATION Spec
CONSTANTS
  Width = 4
  FipSize = 5
  Boards <- MCBoards
  Images <- MCImages
  NoImage = NoImage
  MaxSize = 12
  RawPartSize = 4
  MinFirmware = 2
  UbiOverhead = 2
  EraseSize = 2
  FactorySize = 1
  Fallback = 1
INVARIANTS
  TypeOK
  OnlyItsPartition
  FlashedBootloaderSound
PROPERTIES
  AcceptedHasTarget
