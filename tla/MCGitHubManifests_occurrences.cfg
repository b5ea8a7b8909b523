\* Two occurrences whose attempts may overlap, and two jobs of retention before the second.
SPECIFICATION Spec
CONSTANTS
  p = p  q = q  j1 = j1  j2 = j2
  Paths = {p, q}
  Commits <- MCCommits
  Slots = {1, 2}
  Jobs = {j1, j2}
  MaxAttempts = 2
  MaxClaims = 3
  MaxFaults = 1
CONSTRAINT CiteOne RetentionFirst SecondIsPlain
ACTION_CONSTRAINT OnePush FaultFirst
SYMMETRY JobSymmetry
CHECK_DEADLOCK FALSE
INVARIANTS HistoryIsKept HistoryIsReplayable LossesAreReviewed PurgeIsAccounted
PROPERTIES LiveIsSpared
