SPECIFICATION Spec
CONSTANTS
  t = t
  a = a
  b = b
  o = o
  c1 = c1
  c2 = c2
  None = None
  Users = {t, a, b, o}
  Calls = {c1, c2}
  InitialRole <- MCRoles
  Kinds = {"promote", "demote", "deactivate", "reactivate", "reset", "create", "password", "poll", "login"}
  Exclusive = TRUE
  MaxChanges = 2
SYMMETRY MCSymmetry
INVARIANTS
  AdminRemains
  CutStaysCut
PROPERTIES
  OnlyDeadTokensDropped
