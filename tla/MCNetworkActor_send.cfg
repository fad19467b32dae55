SPECIFICATION Spec
CONSTANTS
  me = me  p = p  q = q  r = r  h1 = h1  h2 = h2  m1 = m1  m2 = m2
  Peer = {me, p, q}
  NoPeer = NoPeer
  Host = {h1, h2}
  LocalPeer = me
  NodeType = "BrowserClient"
  RelayServer <- RelayAtP
  Target <- BrowserTargets
  ListenAddr <- Nowhere
  Binds <- NoBinds
  RelayAddr <- Nowhere
  InMsg <- Nowhere
  From <- NoFrom
  Env = {"Inbound", "Disconnect", "DialRefused", "DialFails", "StreamFails"}
  MaxMsgs = 3
  MaxCalls = 0
  MaxConns = 1
  MaxEvents = 1
  MaxListeners = 1
INVARIANTS
  TypeOK
  PendingOnlyWhenDisconnected
  WireInOrder
  ReportedOnce
  GoesToDestination
PROPERTIES
  KeepsMessageFate
CHECK_DEADLOCK FALSE
