SPECIFICATION Spec
CONSTANTS
  N = 2
  Homing <- MCHoming
  HomingValid <- MCHomingValid
  ReadOnly <- MCReadOnly
  ParamsOK <- MCAllOK
  NameOccursIn <- MCNames
  ControllerKeys <- MCVelocityOnly
  SequentialClaims = FALSE
  MaxActivations = 2
INVARIANT LimitsInDeclaredUnits
