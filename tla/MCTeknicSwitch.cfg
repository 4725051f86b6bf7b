SPECIFICATION Spec
CONSTANTS
  N = 2
  Homing <- MCNoHoming
  HomingValid <- MCHomingValid
  ReadOnly <- MCWritable
  ParamsOK <- MCAllOK
  NameOccursIn <- MCNames
  ControllerKeys <- MCAllKeys
  SequentialClaims = FALSE
  MaxActivations = 1
INVARIANTS
  UnclaimedIsNaN
  ModeMatchesClaim
  SwitchIsComplete
PROPERTY
  MovesAreClaimed
