SPECIFICATION FairSpec
CONSTANTS
  me = me  p = p  q = q  r = r  h1 = h1  h2 = h2  m1 = m1  m2 = m2
  Peer = {me, p}
  NoPeer = NoPeer
  Host = {h1, h2}
  LocalPeer = me
  NodeType = "Server"
  RelayServer <- NoAddr
  Target <- OneTarget
  ListenAddr <- Nowhere
  Binds <- NoBinds
  RelayAddr <- Nowhere
  InMsg = {m1, m2}
  From <- FromP
  Env = {"Inbound", "Disconnect", "DialFails", "StreamFails", "StreamDropped"}
  MaxMsgs = 2
  MaxCalls = 0
  MaxConns = 2
  MaxEvents = 3
  MaxListeners = 1
INVARIANTS
  NoGhostPeers
  ConnectedBeforeReceived
PROPERTIES
  SettlesUnlessStranded
CHECK_DEADLOCK FALSE
