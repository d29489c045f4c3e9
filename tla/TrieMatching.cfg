CONSTANTS
  c1 = c1
  c2 = c2
  Clients = {c1, c2}
  Filters <- SmallFilters
  Topics <- SmallTopics
  Malformed <- BadLevels
  QoS = {0, 2}
  MaxHeld = 2
  MaxPurges = 1
SYMMETRY ClientSymmetry
SPECIFICATION Spec
INVARIANTS
  RoutedToHolders
  BranchesPruned
