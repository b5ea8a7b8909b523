\* Two revisions, a rebuild and the janitor, and one fault.
SPECIFICATION FairSpec
CONSTANTS
  w1 = w1  w2 = w2  a = a  j = j
  Nobody = Nobody  Dead = Dead  Expired = Expired
  Workflows = {w1, w2}
  Rebuilds = {a}
  Janitors = {j}
  MaxVersion = 2
  MaxAttempts = 2
  MaxRunning = 2
  MaxFaults = 1
CONSTRAINT FaultOrRebuild
CHECK_DEADLOCK FALSE
INVARIANTS CompletionIsReadable VectorsAreAccounted
PROPERTIES StaleNeverWins ReceiptsAreDrained
