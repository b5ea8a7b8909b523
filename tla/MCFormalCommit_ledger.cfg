\* The tables of the coordinator implement the serial ledger: one candidate is
\* promoted, and its memory corrected, invalidated and rolled back
\* by two requests that interleave and retry.
SPECIFICATION Spec
CONSTANTS
  s1 = s1  s2 = s2  p1 = p1  k1 = k1  k2 = k2  c1 = c1
  x1 = x1  g1 = g1  tomb = tomb  none = none
  Slots = {s1, s2}
  Principals = {p1}
  Keys = {k1, k2}
  Candidates = {c1}
  Contents = {x1}
  Tombstone = tomb
  Kinds = {"approve", "correct", "invalidate", "rollback"}
  Provenances = {g1}
  Nothing = none
  Weight <- UnitWeight
  Capacity = 1
  Refused = {}
  Citable = {c1}
  Synthetic = FALSE
  MaxVersion = 3
SYMMETRY SlotAndKeySymmetry
CONSTRAINT RetryLast
INVARIANTS AuditChain LedgerComplete ReplyIsCommitted
PROPERTY ImplementsLedger
\* Clients stop at the version bound.
CHECK_DEADLOCK FALSE
