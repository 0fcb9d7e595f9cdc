CONSTANTS
  Dialect <- MCDialect
  MaxUnits <- MCMaxUnits
SPECIFICATION Spec
INVARIANTS
  TypeOK
  AnsweredOnce
  ReplyConservation
  NothingReadAfterFatal
  UnreadOnlyAfterFatal
  DrainBeforeClose
  QuitIsLast
PROPERTIES
  ChannelRefined
  Termination
CHECK_DEADLOCK FALSE
