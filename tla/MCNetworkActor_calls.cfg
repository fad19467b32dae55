SPECIFICATION FairSpec
CONSTANTS
  me = me  p = p  q = q  r = r  h1 = h1  h2 = h2  m1 = m1  m2 = m2
  Peer = {me, r}
  NoPeer = NoPeer
  Host = {h1, h2}
  LocalPeer = me
  NodeType = "Server"
  RelayServer <- NoAddr
  Target <- Nowhere
  ListenAddr <- BothListens
  Binds <- BothBinds
  RelayAddr <- RelayR
  InMsg <- Nowhere
  From <- NoFrom
  Env = {"Inbound", "DialRefused", "DialFails", "ListenRefused", "ListenFails"}
  MaxMsgs = 0
  MaxCalls = 3
  MaxConns = 2
  MaxEvents = 1
  MaxListeners = 3
INVARIANTS
  CallHasOneAnswerer
  RelayAnswerIsCircuit
  LocalAddrsWereAnnounced
PROPERTIES
  ReturnsUnlessOrphaned
CHECK_DEADLOCK FALSE
