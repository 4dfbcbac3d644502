SPECIFICATION Either
CONSTANTS
  MaxId = 5
  MaxUnopened = 2
  MaxClosed = 1
  Effects = {e1, e2}
  Requests = {1}
  MaxEffects = 4
INVARIANTS
  Shape
PROPERTIES
  ImplementsMailMap
  BatchIsAList
