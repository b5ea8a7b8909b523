---------------------------- MODULE FormalLedger ----------------------------
(***************************************************************************)
(* What the formal write path of a project promises: one log of requests, *)
(* written serially.  A request is appended at most once per idempotency  *)
(* key, by a maintainer, and only if the versions it states are the ones  *)
(* the log itself gives its project, its memory or its candidate.         *)
(***************************************************************************)
EXTENDS Integers, Sequences, FiniteSets

VARIABLES
  log,           \* the requests applied, in order
  maintainers    \* who may append

MutationKinds == {"correct", "invalidate", "rollback"}

Slot(c) == <<c.actor, c.key,
             IF c.kind \in MutationKinds THEN c.kind ELSE "candidate_review">>

\* The log positions that wrote a revision of memory m: its promotion, at
\* position m, and the mutations of it.
Touches(m) ==
  {n \in DOMAIN log : \/ n = m /\ log[n].kind = "approve"
                      \/ log[n].kind \in MutationKinds /\ log[n].target = m}

MemoryVersion(m) == Cardinality(Touches(m))

\* The last change of m was not its invalidation.
Live(m) ==
  \E n \in Touches(m) :
    /\ \A k \in Touches(m) : k <= n
    /\ log[n].kind # "invalidate"

Decisions(c) == {n \in DOMAIN log : log[n].kind \notin MutationKinds /\ log[n].target = c}

CandidateVersion(c) == 1 + Cardinality(Decisions(c))

Open(c) == \A n \in Decisions(c) : log[n].kind = "request_changes"

Applies(r) ==
  IF r.kind \in MutationKinds
    THEN /\ r.project = Len(log)
         /\ r.target \in DOMAIN log
         /\ log[r.target].kind = "approve"
         /\ r.item = MemoryVersion(r.target)
         /\ r.kind = "rollback" => r.payload \in 1..MemoryVersion(r.target)
         /\ r.kind = "invalidate" => Live(r.target)
    ELSE /\ r.item = CandidateVersion(r.target)
         /\ Open(r.target)

Init == log = <<>>

Apply(r) ==
  /\ r.actor \in maintainers
  /\ \A n \in DOMAIN log : Slot(log[n]) # Slot(r)
  /\ Applies(r)
  /\ log' = Append(log, r)
  /\ UNCHANGED maintainers

Revoke ==
  /\ maintainers' \subseteq maintainers
  /\ UNCHANGED log

\* The request of a step is the one the step appends.
Next ==
  \/ Revoke
  \/ /\ Len(log') = Len(log) + 1
     /\ Apply(log'[Len(log')])

Spec == Init /\ [][Next]_<<log, maintainers>>

=============================================================================
