SPECIFICATION FairSpec
CONSTANTS
  n1 = n1  n2 = n2  x = x  y = y  m1 = m1  m2 = m2  m3 = m3
  Node = {n1, n2}
  NoNode = NoNode
  Addr = {x, y}
  Message = {m1, m2, m3}
  NoMessage = NoMessage
  To <- ToEach
  MayPanic = TRUE
INVARIANTS
  GoesToFirstListener
PROPERTIES
  SentAfterListenArrives
CHECK_DEADLOCK FALSE
