\* Candidate reviews and corrections: two requests decide two candidates that do
\* not fit the projection together; while they are in flight the grant is
\* revoked, the cleanup fence falls, or another writer stores the evidence they
\* cite between the preflight and the batch.
SPECIFICATION Spec
CONSTANTS
  s1 = s1  s2 = s2  p1 = p1  k1 = k1  k2 = k2  c1 = c1  c2 = c2
  x1 = x1  g1 = g1  g2 = g2  tomb = tomb  none = none
  Slots = {s1, s2}
  Principals = {p1}
  Keys = {k1, k2}
  Candidates = {c1, c2}
  Contents = {x1}
  Tombstone = tomb
  Kinds = {"approve", "reject", "request_changes", "correct"}
  Provenances = {g1, g2}
  Nothing = none
  Weight <- UnitWeight
  Capacity = 1
  Refused = {}
  Citable = {c1, c2}
  Synthetic = TRUE
  MaxVersion = 2
SYMMETRY Symmetry
CONSTRAINT OneInterference
INVARIANTS TypeOK CandidateHistory FitsCapacity LinkedProvenance AtMostOncePerKey
PROPERTIES OnlyMaintainersAppend
\* Clients stop at the version bound.
CHECK_DEADLOCK FALSE
