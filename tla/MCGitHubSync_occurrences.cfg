\* Two dispatches: two occurrences, or the two credentials of a rotation.
SPECIFICATION Spec
CONSTANTS
  a = a  b = b
  Slots = {1, 2}
  Creds = {a, b}
  MaxDispatches = 2
  MaxConfig = 2
  MaxAttempts = 2
  MaxFaults = 1
SYMMETRY CredSymmetry
CONSTRAINT OneChange SecondIsPlain
ACTION_CONSTRAINT FaultFirst
CHECK_DEADLOCK FALSE
INVARIANTS OneActiveItem RunIsOwned OutcomeTruth DispatchTruth
PROPERTIES MovesOnce
