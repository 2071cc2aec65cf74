SPECIFICATION FairSpec
CONSTANTS
  s1 = s1
  s2 = s2
  t1 = t1
  t2 = t2
  p1 = p1
  p2 = p2
  c1 = c1
  None = None
  Sessions = {s1}
  Stops = {c1}
  Ticks = {t1, t2}
  Presses = {p1, p2}
  Controls = {"disconnect", "reconnect", "reboot", "internet_cut", "internet_restore", "power_cut", "device_error", "clear_error", "restart"}
  Duration = 2
  Ttl = 1
  MaxGap = 1
  MaxRetries = 1
  MaxCallers = 2
  MaxIncidents = 2
INVARIANTS
  RelayIsGranted
  
  FinishedStaysDry
PROPERTIES
  WashIsReported
