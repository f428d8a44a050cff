\* Two nodes and two nodes with devices are enough; two selectors to edit between.
CONSTANTS
  grows = grows
  never = never
  n1 = n1
  n2 = n2
  s1 = s1
  s2 = s2
  Selector = {s1, s2}
  NoSelector = NoSelector
  Cluster = {grows, never}
  Growing = {grows}
  Node = {n1, n2}
  BD = {1, 2, 3}
  NoNode = NoNode
  NoClass = NoClass
  Host <- MCHost
  MinNodes = 2
  MinOSDNodes = 2
SPECIFICATION Spec
INVARIANTS
  TypeOK
  PromotionVetted
PROPERTIES
  HarmlessUpdatesPass
SYMMETRY SelectorSymmetry
CHECK_DEADLOCK FALSE
