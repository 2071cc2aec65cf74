SPECIFICATION FairSysSpec
CONSTANTS
  s1 = s1
  s2 = s2
  c1 = c1
  c2 = c2
  None = None
  Sessions = {s1}
  Commands = {c1}
  CommandRank <- MCCommandRank
  Duration = 1
  AuthTtl = 1
  Margin = 1
  MaxGap = 1
  Watchdog = 2
  NtpWait = 1
  Wrap = 16
  MaxTime = 5
  MaxSkew = 0
  MaxResets = 0
  LastArm = 3
  MaxLosses = 1
PROPERTIES
  WashEnds
  
