SPECIFICATION Spec
CONSTANTS
  a = a  b = b  x = x  y = y  h = h
  Peer = {x, y}
  NoPeer = NoPeer
  Host = {h}
  Node = {a, b}
  NoNode = NoNode
  Clock <- AnyName
  Target <- Direct
  Base <- Base1
  MayDrop = TRUE
  MaxMsgs = 2
  MaxListens = 1
INVARIANTS
  SettledOnReturn
  SenderOrder
  ReportsReachTheName
PROPERTIES
  KeepsMessageFate
CHECK_DEADLOCK FALSE
