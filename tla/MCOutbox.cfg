SPECIFICATION Spec
CONSTANTS
  Threads = {t1, t2}
  MaxId = 3
  MaxTells = 1
SYMMETRY Symmetry
INVARIANTS
  PlacesHaveBuilders
  ClosedExactly
  SlotsAreOwned
PROPERTY
  ImplementsEffectLog
