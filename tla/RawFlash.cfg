SPECIFICATION FairSpec
CONSTANT NBlocks = 4
INVARIANTS
  TypeOK
  FullProgressIsExact
PROPERTIES
  ProgramsOnlyErased
  JobEnds
  ImplementsUpdate
