SPECIFICATION FairSpec
CONSTANTS
  NW = 2
  NIntf = 2
  MaxUnbacked = 0
  MaxDrift = 1
INVARIANT AcceptedIsQueued
