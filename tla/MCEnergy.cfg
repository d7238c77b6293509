SPECIFICATION Spec
CONSTANTS
  Domain <- MCDomain
  Sample <- MCSample
  Window = 14400
  Margin = 125
  MaxEvents = 3
CHECK_DEADLOCK FALSE
INVARIANTS
  NoFlapping
  LifeSafetyKept
  SufficientLasts
