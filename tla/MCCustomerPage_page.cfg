SPECIFICATION Spec
CONSTANTS
  s1 = s1
  s2 = s2
  None = None
  Sessions = {s1, s2}
  Pins <- MCPins
  NoPin = ""
  Vehicle <- MCVehicle
  Tariff <- MCTariff
  Limit = 2
  Modes = {"demo", "mercadopago"}
  EditsMeanwhile = FALSE
  StaysOnPage = TRUE
  Outcomes = {"FINISHED"}
  MaxErrors = 1
  MaxLoads = 1
  MaxResets = 1
SYMMETRY MCSymmetry
INVARIANTS
  ShownIsCurrent
  StartedAgainStaysSo
PROPERTIES
  ForgetsOnlyOnRequest
CHECK_DEADLOCK FALSE
