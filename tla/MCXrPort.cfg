SPECIFICATION FairSpec
CONSTANTS
  d1 = d1  d2 = d2  x1 = x1  x2 = x2  u1 = u1  u2 = u2
  NoDev = NoDev  NoTty = NoTty
  Devs <- MCDevs
  Split <- MCSplit
  Ttys <- MCTtys
  Tasks <- MCTasks
  Minors <- OneMinor
  StaleOpen = FALSE
INVARIANTS TypeOK RefsExact PointersLive TtyOfItsMinor NoTrafficAfterFree NobodyWrites
PROPERTIES DisconnectEnds Reclaimed ImplementsLifetime
CHECK_DEADLOCK FALSE
