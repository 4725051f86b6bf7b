SPECIFICATION Spec
CONSTANTS
  NR = 2
  NIntf = 2
INVARIANTS
  TypeOK
  OneOwner
  ClosedIsQuiet
  ReadsContinue
  StatusWatched
PROPERTIES
  ImplementsUrbs
  ImplementsPower
