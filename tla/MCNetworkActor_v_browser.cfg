SPECIFICATION Spec
CONSTANTS
  me = me  p = p  q = q  r = r  h1 = h1  h2 = h2  m1 = m1  m2 = m2
  Peer = {me, p, r}
  NoPeer = NoPeer
  Host = {h1, h2}
  LocalPeer = me
  NodeType = "BrowserClient"
  RelayServer <- RelayAtR
  Target <- OneTarget
  ListenAddr <- Nowhere
  Binds <- NoBinds
  RelayAddr <- Nowhere
  InMsg <- Nowhere
  From <- NoFrom
  Env = {}
  MaxMsgs = 1
  MaxCalls = 0
  MaxConns = 1
  MaxEvents = 2
  MaxListeners = 1
INVARIANTS
  TranslationParses
CHECK_DEADLOCK FALSE
