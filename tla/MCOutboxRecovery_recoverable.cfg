\* Two overlapping cron invocations make the last attempt to dispatch an event.
SPECIFICATION Spec
CONSTANTS
  e1 = e1  w1 = w1  w2 = w2  q1 = q1  q2 = q2  idle = idle
  Events = {e1}
  Kinds = {"queued"}
  Crons = {w1, w2}
  Consumers = {}
  Idle = idle
  MaxAttempts = 2
  MaxRepairs = 0
  AlertAt = 1
  MaxMessages = 1
  Synthetic = FALSE
SYMMETRY WorkerSymmetry
INVARIANT DispatchedIsRecoverable
\* A settled event needs nothing more.
CHECK_DEADLOCK FALSE
