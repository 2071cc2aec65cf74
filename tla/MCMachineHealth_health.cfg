SPECIFICATION FairSpec
CONSTANTS
  m1 = m1
  m2 = m2
  r1 = r1
  r2 = r2
  p1 = p1
  None = None
  Machines = {m1}
  Rounds = {r1}
  Patches = {p1}
  Sold = {m1}
  Faulty = {m1}
  Online = 1
  Degraded = 2
  Every = 1
  Period = 1
  MaxDelay = 1
  MaxThrows = 1
  Edits = {"disable", "enable"}
  MaxPatches = 1
PROPERTIES
  SoldIsAlive
  SteadyIsOnline
  SilentGoesOffline
