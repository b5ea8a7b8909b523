\* A rebuild whose first creation was in doubt, as the resume command sees it.
SPECIFICATION Spec
CONSTANTS
  e1 = e1  w1 = w1  w2 = w2  q1 = q1  q2 = q2  idle = idle
  Events = {e1}
  Kinds = {"rebuild"}
  Crons = {w1}
  Consumers = {}
  Idle = idle
  MaxAttempts = 2
  MaxRepairs = 1
  AlertAt = 1
  MaxMessages = 1
  Synthetic = FALSE
INVARIANT ResumeIsSafe
\* A settled event needs nothing more.
CHECK_DEADLOCK FALSE
