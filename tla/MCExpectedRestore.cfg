SPECIFICATION Spec
CONSTANTS
  Objects = {a, b}
  Values = {u, v}
  Gone = Gone
  Nothing = Nothing
  Traits <- MCTraits
SYMMETRY Symmetry
PROPERTIES RestoresOnThrow
CHECK_DEADLOCK FALSE
