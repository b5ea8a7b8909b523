\* The same instance, and the promise operations.md makes of every Workflow.
SPECIFICATION Spec
CONSTANTS
  w1 = w1  w2 = w2  a = a  j = j
  Nobody = Nobody  Dead = Dead  Expired = Expired
  Workflows = {w1, w2}
  Rebuilds = {a}
  Janitors = {j}
  MaxVersion = 2
  MaxAttempts = 2
  MaxRunning = 2
  MaxFaults = 1
CHECK_DEADLOCK FALSE
INVARIANT CompletedIsProjected

