SPECIFICATION Spec
CONSTANTS
  Limit = 2
  ProcessOffset <- UTC
  StartHours = {20}
  MaxTicks = 26
  MaxWashes = 3
INVARIANTS
  CheckoutsKeepLimit
PROPERTIES
  RefusedHadThemToday
