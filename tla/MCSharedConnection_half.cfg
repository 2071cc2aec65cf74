SPECIFICATION Spec
CONSTANTS
  a1 = a1
  a2 = a2
  a3 = a3
  b1 = b1
  b2 = b2
  n1 = n1
  n2 = n2
  None = None
  Approvals = {a1}
  Presses = {}
  Reservations = {n1}
  Exclusive = FALSE
INVARIANTS
  ApprovalIsWhole
