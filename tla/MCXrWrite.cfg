SPECIFICATION FairSpec
CONSTANTS
  NW = 3
  NIntf = 2
  MaxUnbacked = 1
  MaxDrift = 1
INVARIANTS
  TypeOK
  NoBufferReuse
  PMBalance
  QuietWhenSuspended
  ClosedIsQuiet
PROPERTIES
  ImplementsPool
  ImplementsPower
  DelayedGoesOut
  ShutdownFinishes
