\* Two batches, a base instance and its repair, two attempts at once.
SPECIFICATION Spec
CONSTANTS
  c1 = c1  e1 = e1  s1 = s1  s2 = s2
  BatchCount = 2
  Contents = {c1}
  Evidence = {e1}
  Cites <- OneEvidence
  MaxRepairs = 1
  Attempts <- RetriedSteps
  Slots = {s1, s2}
SYMMETRY SlotSymmetry
CONSTRAINT OneInterference
INVARIANTS TypeOK ReceiptsAreExact ProgressIsDurable CompletionIsCovered
PROPERTIES LeaseFences NothingStoredTwice FinishedOnClearEvidence
