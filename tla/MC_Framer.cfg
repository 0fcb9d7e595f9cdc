CONSTANTS
  MaxLen <- MCMaxLen
  MaxChunk <- MCMaxChunk
SPECIFICATION Spec
INVARIANTS
  TypeOK
  FramedAsReference
  UnitsDelimited
CHECK_DEADLOCK FALSE
