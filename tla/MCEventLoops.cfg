SPECIFICATION FairSpec
CONSTANTS
  a = a  b = b  c = c
  ab = ab  ba = ba  ca = ca  caSmall = caSmall
  Node = {a, b, c}
  Message = {ab, ba, ca, caSmall}
  NoMessage = NoMessage
  Source <- FromEach
  Destination <- ToEach
  Large = {ab, ba, ca}
  Capacity = 1
INVARIANTS
  TypeOK
  LossHasCause
PROPERTIES
  CaughtForGood
  ComesRoundUnlessCaught
CHECK_DEADLOCK FALSE
