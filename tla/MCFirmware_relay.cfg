SPECIFICATION Spec
CONSTANTS
  s1 = s1
  s2 = s2
  c1 = c1
  None = None
  Sessions = {s1, s2}
  Commands = {c1}
  Duration = 1
  AuthTtl = 1
  Margin = 1
  MaxGap = 1
  Watchdog = 1
  NtpWait = 1
  Wrap = 16
  MaxTime = 8
  MaxSkew = 1
  MaxResets = 1
SYMMETRY MCSymmetry
INVARIANTS
  FlowIsRecorded
  GuardBounds
  WaterIsBounded
PROPERTIES
  ImplementsTimer
