CONSTANTS
  Dialect <- MCDialect
  MaxUnits <- MCMaxUnits
SPECIFICATION Spec
INVARIANT
  SyntaxErrorIsLegacy
CHECK_DEADLOCK FALSE
