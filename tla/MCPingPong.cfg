SPECIFICATION FairSpec
CONSTANTS
  s = s  t = t  c1 = c1  c2 = c2  b1 = b1
  Server = {s, t}
  NoServer = NoServer
  NativeServer = s
  Connect = {c1, c2}
  NoConnect = NoConnect
  ServerOf <- Servers
  BrowserPing = {b1}
  MaxPings = 2
INVARIANTS
  StaticsBelongTogether
  CompleteMeansAnsweredOnce
PROPERTIES
  EveryPingEnds
CHECK_DEADLOCK FALSE
