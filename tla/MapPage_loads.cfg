\* Two loads of files with one record each, while the menu for vehicles is
\* used twice.
SPECIFICATION PageSpec
CONSTANTS
  m1 = m1
  Maps = {m1}
  NoMap = NoMap
  Records = 1
  MaxLoads = 2
  tx = tx
  car = car
  NoType = NoType
  TxTypes = {tx}
  VehicleTypes = {car}
  MaxChoices = 2
INVARIANTS
  PageTypeOK
  WholeMapSent
  SettledPage
  VehicleAsAsked
  OneFrame
PROPERTIES
  RoadsFit
CHECK_DEADLOCK FALSE
