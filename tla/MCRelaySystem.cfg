SPECIFICATION FairSpec
CONSTANTS
  c1 = c1  c2 = c2  to2 = to2  to1 = to1
  Client = {c1, c2}
  Listener = {c2}
  Message = {to2, to1}
  Source <- FromEach
  Destination <- ToEach
  Oversized = {to1}
  MaxBreaks = 2
INVARIANTS
  TypeOK
  AnswerIsDialable
  ReachedOnlyAfterSuccess
PROPERTIES
  ServedOnceIntroduced
  EndsOrStranded
  FlushedByEitherSide
CHECK_DEADLOCK FALSE
