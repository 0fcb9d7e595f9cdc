CONSTANTS
  Dialect <- MCDialect
  MaxUnits <- MCMaxUnits
SPECIFICATION Spec
INVARIANTS
  TypeOK
  AnsweredOnce
  ReplyConservation
  InOrder
  NothingReadAfterFatal
  UnreadOnlyAfterFatal
  SyntaxErrorIsLegacy
PROPERTIES
  ChannelRefined
  Termination
CHECK_DEADLOCK FALSE
