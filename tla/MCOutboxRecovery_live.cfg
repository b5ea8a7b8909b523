\* One cron invocation at a time and a consumer; every event is settled once
\* the faults stop.
SPECIFICATION FairSpec
CONSTANTS
  e1 = e1  w1 = w1  w2 = w2  q1 = q1  q2 = q2  idle = idle
  Events = {e1}
  Kinds = {"queued", "memory", "rebuild"}
  Crons = {w1}
  Consumers = {q1}
  Idle = idle
  MaxAttempts = 2
  MaxRepairs = 1
  AlertAt = 2
  MaxMessages = 1
  Synthetic = TRUE
PROPERTIES SettledOnceFaultsStop
\* A settled event needs nothing more.
CHECK_DEADLOCK FALSE
