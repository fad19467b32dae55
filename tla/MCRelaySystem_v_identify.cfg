SPECIFICATION Spec
CONSTANTS
  c1 = c1  c2 = c2  to2 = to2  to1 = to1
  Client = {c1, c2}
  Listener = {c2}
  Message = {to2, to1}
  Source <- FromEach
  Destination <- ToEach
  Oversized = {to1}
  MaxBreaks = 2
INVARIANT
  ReservesAfterIdentify
CHECK_DEADLOCK FALSE
