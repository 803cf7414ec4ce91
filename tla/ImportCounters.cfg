SPECIFICATION Spec
CONSTANTS
  MaxRows = 2
  MaxErrors = 1
INVARIANT CountersCoverEveryRow
