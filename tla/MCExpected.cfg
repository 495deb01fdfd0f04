SPECIFICATION Spec
CONSTANTS
  Objects = {a, b}
  Values = {u, v}
  Gone = Gone
  Nothing = Nothing
  Traits <- MCTraits
SYMMETRY Symmetry
INVARIANTS TypeOK FlagTracksMember UndefinedNeedsThrow OnlyConvertOverwrites DifferNegatesEqual
PROPERTIES AssignTakesOrKeeps SwapExchanges
\* A program may stop at any time; after an undefined call or a termination it has.
CHECK_DEADLOCK FALSE
