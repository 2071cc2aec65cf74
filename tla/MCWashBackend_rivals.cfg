\* Two purchases of one machine, one request and one sweep at a time.
CONSTANTS
  m1 = m1  m2 = m2  s1 = s1  s2 = s2  p1 = p1
  None = None
  Machines = {m1}
  Sessions = {s1, s2}
  Plates = {p1}
  MachineOf <- SameMachine
  PlateOf <- SamePlate
  DailyLimit = 2
  Attempts = {1}
  Outcomes <- AllOutcomes
  Requests = {r1}
  Sweepers = {w1}
  MaxStops = 1
  MaxCrashes = 0
SPECIFICATION Spec
SYMMETRY SessionSymmetry
INVARIANTS TypeOK HolderIsLatest ApprovedIsAccounted ArmedIffAuthorized WaterIsPaid
PROPERTIES EmergencyStopDisarms EveryMoveIsDeclared AuthorizationUsedOnce RescueLeavesPending ImplementsLease
