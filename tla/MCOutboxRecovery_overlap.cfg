\* Two overlapping cron invocations dispatch and reconcile an event.
SPECIFICATION Spec
CONSTANTS
  e1 = e1  w1 = w1  w2 = w2  q1 = q1  q2 = q2  idle = idle
  Events = {e1}
  Kinds = {"queued", "memory", "rebuild"}
  Crons = {w1, w2}
  Consumers = {}
  Idle = idle
  MaxAttempts = 2
  MaxRepairs = 1
  AlertAt = 2
  MaxMessages = 1
  Synthetic = TRUE
SYMMETRY WorkerSymmetry
INVARIANTS TypeOK SingleExecution SettledTruthfully
PROPERTIES SettledIsFinal
\* A settled event needs nothing more.
CHECK_DEADLOCK FALSE
