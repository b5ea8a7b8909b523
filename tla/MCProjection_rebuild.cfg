\* Two commits on one memory, two operators and one fault.
SPECIFICATION FairSpec
CONSTANTS
  m1 = m1  m2 = m2  o1 = o1  o2 = o2
  Memories = {m1}
  Operators = {o1, o2}
  MaxVersion = 2
  MaxOrdinal = 1
  MaxRebuilds = 2
  MaxAttempts = 2
  MaxRepairs = 1
  MaxRunning = 2
  MaxFaults = 1
CONSTRAINT FaultApart
CHECK_DEADLOCK FALSE
INVARIANTS ActiveIsWhole OnlyRepairsOverlap VerifiedIsProjected
PROPERTY LastChangeIsProjected
