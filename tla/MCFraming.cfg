SPECIFICATION FairSpec
CONSTANTS
  Base = 2
  Msg <- Messages
  NoMsg = NoMsg
  Error = Error
  Window = 6
INVARIANTS
  TypeOK
  ReadsWhatWasWritten
  ErrorsHaveCauses
PROPERTIES
  BothEnd
CHECK_DEADLOCK FALSE
