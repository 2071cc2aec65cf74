\* Two purchases whose notifications repeat, one crash.
CONSTANTS
  m1 = m1  m2 = m2  s1 = s1  s2 = s2  p1 = p1
  None = None
  Machines = {m1}
  Sessions = {s1, s2}
  Plates = {p1}
  MachineOf <- SameMachine
  PlateOf <- SamePlate
  DailyLimit = 2
  Attempts = {1}
  Outcomes = {"APPROVED"}
  Requests = {r1}
  Sweepers = {w1}
  MaxStops = 0
  MaxCrashes = 1
SPECIFICATION NotifiedSpec
PROPERTIES PaidIsSettled StalePendingLeaves OverdueAuthorizationLeaves
