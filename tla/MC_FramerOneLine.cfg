CONSTANTS
  MaxLen <- MCMaxLen
  MaxChunk <- MCMaxChunk
SPECIFICATION Spec
INVARIANT UnitPerLine
CHECK_DEADLOCK FALSE
