SPECIFICATION Spec
CONSTANTS
  N = 2
  Homing <- MCNoHoming
  HomingValid <- MCHomingValid
  ReadOnly <- MCWritable
  ParamsOK <- MCAllOK
  NameOccursIn <- MCNames
  ControllerKeys <- MCAllKeys
  SequentialClaims = TRUE
  MaxActivations = 1
INVARIANT NeverBothClaimed
