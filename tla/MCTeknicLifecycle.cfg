SPECIFICATION FairSpec
CONSTANTS
  N = 2
  Homing <- MCHoming
  HomingValid <- MCHomingValid
  ReadOnly <- MCReadOnly
  ParamsOK <- MCAllOK
  NameOccursIn <- MCNames
  ControllerKeys <- MCVelocityOnly
  SequentialClaims = FALSE
  MaxActivations = 2
INVARIANTS
  TypeOK
  HomingHonoured
  UnitsAgree
PROPERTIES
  ActivationReturns
  ImplementsMotors
