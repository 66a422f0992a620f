CONSTANTS
  a = a
  b = b
  Names = {a, b}
  Clocks = {}
  Window = 3
  Grace = 1
  Cause = a
  Soon = 1
  AtRest = TRUE
  MaxSaid = 1
  MaxChanges = 1
  MaxRestarts = 1
  MaxFaults = 1
  MaxMishaps = 1
SPECIFICATION FairSpec
PROPERTY StepsHelp
CHECK_DEADLOCK FALSE
