SPECIFICATION Spec
CONSTANTS
  me = me  p1 = p1  h1 = h1  h2 = h2
  Peer = {me, p1}
  NoPeer = NoPeer
  Host = {h1, h2}
  LocalPeer = me
  Target <- Targets
  ListenAddr <- Listens
  Binds <- TwoInterfaces
  InMsg = {m1}
  From <- FromP1
  MaxMsgs = 2
  MaxCalls = 2
  MaxConns = 1
INVARIANTS
  ErrorsOnce
  ListenedIsLocal
  MetBeforeMessage
PROPERTIES
  KeepsMessageFate
CHECK_DEADLOCK FALSE
