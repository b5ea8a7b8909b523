---------------------------- MODULE FormalCommit ----------------------------
(***************************************************************************)
(* The formal write path of one project: ProjectCoordinator.fetch (the    *)
(* /mutate route: correct, invalidate, rollback) and reviewCandidate      *)
(* (approve, reject, request_changes) of workers/memory-orchestrator,     *)
(* with the guarded D1 batches of src/storage and the triggers of the     *)
(* migrations.                                                            *)
(*                                                                        *)
(* A request lives in a slot.  One action is the code between two awaits  *)
(* (a D1 statement, a D1 batch, a Workflow call); a D1 batch is one       *)
(* transaction.  The input gates of a Durable Object do not cover D1      *)
(* awaits, so the slots interleave at every one of them.                  *)
(*                                                                        *)
(* Abstractions: one project; a random UUID is the project version of the *)
(* commit that stores it (revision n and memory n are the ones written by *)
(* commit n); SHA-256 and canonical JSON are injective, so the digest of  *)
(* a request is the request; every mutation cites one evidence item; an  *)
(* approval names its content; the byte, write and subrequest budgets of  *)
(* a projection are one Load.  The definitions called variants are what a *)
(* plausible bug would turn the next definition into: nothing uses them.  *)
(***************************************************************************)
EXTENDS Integers, Sequences, FiniteSets, FiniteSetsExt

CONSTANTS
  Slots,        \* requests the coordinator handles at the same time
  Principals,   \* principals that may hold a maintainer grant
  Keys,         \* idempotency keys
  Candidates,   \* observations of the project
  Contents,     \* memory contents a client can submit
  Tombstone,    \* INVALIDATED_MEMORY_TOMBSTONE
  Kinds,        \* the request kinds clients use
  Provenances,  \* commit/repository provenance of an evidence tuple
  Nothing,      \* an absent payload, target, response or evidence row
  Weight,       \* Weight[content] is what a projected memory costs
  Capacity,     \* the projection budget of a project
  Refused,      \* contents the sensitive-content inspection refuses
  Citable,      \* candidates whose taxonomy, scope owner, cited evidence and
                \* provenance pass the (immutable) checks of an approval
  Synthetic,    \* the project is a system.synthetic.* one, which is reaped
  MaxVersion    \* bound on the number of commits explored

MemoryKinds == {"correct", "invalidate", "rollback"}
ReviewKinds == {"approve", "reject", "request_changes"}

ASSUME ConstantsAssumption ==
  /\ Kinds \subseteq MemoryKinds \cup ReviewKinds
  /\ MaxVersion \in Nat
  /\ Synthetic \in BOOLEAN
  /\ Capacity \in Nat
  /\ Weight \in [Contents \cup {Tombstone} -> Nat]
  /\ Nothing \notin Contents \cup {Tombstone} \cup Provenances
  /\ Nothing \notin Nat
  /\ Nothing \notin Candidates

VARIABLES
  version,      \* projects.project_version
  head,         \* projects.audit_head_hash
  audit,        \* audit_events
  memories,     \* memories, by id
  revisions,    \* memory_versions
  candidates,   \* observations: status, candidate_version, promoted_memory_id
  reviews,      \* review_requests.status, by candidate
  decisions,    \* review_decisions
  idem,         \* idempotency_records
  outbox,       \* outbox_events
  evidence,     \* the evidence row of the tuple mutations cite
  links,        \* version_evidence: the revisions linked to that row
  maintainers,  \* principals with an unrevoked project maintainer grant
  fenced,       \* synthetic_cleanup_registry.cleanup_fenced_at is set
  started,      \* versions whose projection Workflow was created
  req           \* the requests in flight

stored == <<version, head, audit, memories, revisions, candidates, reviews,
            decisions, idem, outbox, evidence, links>>
authority == <<maintainers, fenced>>
vars == <<stored, authority, started, req>>

Ids == 1..MaxVersion
AllContents == Contents \cup {Tombstone}

Absent == [status |-> "absent", version |-> 0, content |-> Nothing]
OpenReview == {"pending", "changes_requested"}
Reviewable == {"pending_review", "request_changes"}

-----------------------------------------------------------------------------
(* Requests and their answers *)

Command ==
  {c \in [kind : Kinds, actor : Principals, key : Keys,
          target : Ids \cup Candidates, project : Nat, item : Nat,
          payload : Contents \cup Nat \cup {Nothing},
          source : Provenances \cup {Nothing}] :
     /\ c.kind \in MemoryKinds => c.target \in Ids /\ c.source \in Provenances
     /\ c.kind \in ReviewKinds => c.target \in Candidates
     /\ c.kind \in {"correct", "approve"} => c.payload \in Contents}

\* idempotency_records.operation: memory_<operation> or candidate_review
Operation(c) == IF c.kind \in MemoryKinds THEN c.kind ELSE "candidate_review"

SameKey(c, d) ==
  /\ c.actor = d.actor
  /\ c.key = d.key
  /\ Operation(c) = Operation(d)

\* The idempotency record a request finds, if any
Receipts(c) == {i \in idem : SameKey(i.digest, c)}

\* Variant: the stored digest is not compared.
AnyRequest(i, c) == TRUE
SameRequest(i, c) == i.digest = c

\* event_hash = sha256(previous \n digest \n next version)
Hash == Seq([digest : Command, sequence : Nat])
EventHash(previous, digest, sequence) ==
  Append(previous, [digest |-> digest, sequence |-> sequence])

Committed(n) == [code |-> "ok", version |-> n]
Failed(code) == [code |-> code, version |-> 0]

Codes == {"VERSION_CONFLICT", "PROJECT_UNAVAILABLE", "VALIDATION_FAILED",
          "IDEMPOTENCY_CONFLICT", "RESOURCE_UNAVAILABLE", "INTERNAL_ERROR"}

Pcs == {"idle", "auth", "context", "replay", "read_head", "resolve",
        "capacity", "evidence", "batch", "ensure", "done"}

IdleRequest ==
  [pc |-> "idle", cmd |-> Nothing, base |-> 0, previous |-> <<>>,
   content |-> Nothing, reply |-> Nothing]

Goto(s, pc) == req' = [req EXCEPT ![s].pc = pc]

\* Nothing of a request but the answer outlives the handler.
Answer(s, reply) ==
  req' = [req EXCEPT ![s] =
    [IdleRequest EXCEPT !.pc = "done", !.cmd = req[s].cmd, !.reply = reply]]

Fail(s, code) == Answer(s, Failed(code))

-----------------------------------------------------------------------------
(* What a reader of the database computes *)

\* memory_versions rows of memory m
HistoryOf(m) == {r \in revisions : r.memory = m}

\* The budget a projection of the memories M would use: only memories whose
\* current revision is active are projected.
Load(M) ==
  MapThenSumSet(LAMBDA m : Weight[M[m].content],
                {m \in Ids : M[m].status = "active"})

\* Variant: the change itself is not counted.
WithinCapacityBefore(c, content) ==
  CASE c.kind = "invalidate" -> memories[c.target].status = "active"
    [] OTHER -> Load(memories) <= Capacity

\* The capacity an accepted request must leave: invalidation only has to
\* shrink the projection, every other change has to fit.
WithinCapacity(c, content) ==
  CASE c.kind = "invalidate" -> memories[c.target].status = "active"
    [] c.kind = "approve" -> Load(memories) + Weight[content] <= Capacity
    [] OTHER ->
         Load([memories EXCEPT ![c.target].status = "invalidated"])
           + Weight[content] <= Capacity

-----------------------------------------------------------------------------
(* The state a project is created in *)

Init ==
  /\ version = 0
  /\ head = <<>>
  /\ audit = {}
  /\ memories = [m \in Ids |-> Absent]
  /\ revisions = {}
  /\ candidates = [c \in Candidates |->
       [status |-> "queued", version |-> 1, memory |-> Nothing]]
  /\ reviews = [c \in Candidates |-> "none"]
  /\ decisions = {}
  /\ idem = {}
  /\ outbox = {}
  /\ evidence = Nothing
  /\ links = {}
  /\ maintainers \in {P \in SUBSET Principals : P # {}}
  /\ fenced = FALSE
  /\ started = {}
  /\ req = [s \in Slots |-> IdleRequest]

-----------------------------------------------------------------------------
(* Clients *)

\* What a client may send with each kind; a rollback names a version of the
\* memory, perhaps one it does not have.
Payloads(kind, target) ==
  CASE kind \in {"correct", "approve"} -> Contents
    [] kind = "rollback" -> 1..(memories[target].version + 1)
    [] OTHER -> {Nothing}

\* A first attempt states the versions the client has just read.
NewMutations ==
  UNION {{[kind |-> k, actor |-> p, key |-> key, target |-> m,
           project |-> version, item |-> memories[m].version,
           payload |-> x, source |-> e]
            : p \in Principals, key \in Keys, x \in Payloads(k, m),
              e \in Provenances}
            : k \in Kinds \cap MemoryKinds, m \in 1..version}

NewReviews ==
  UNION {{[kind |-> k, actor |-> p, key |-> key, target |-> c,
           project |-> 0, item |-> candidates[c].version,
           payload |-> x, source |-> Nothing]
            : p \in Principals, key \in Keys, x \in Payloads(k, c)}
            : k \in Kinds \cap ReviewKinds, c \in Candidates}

\* A retry repeats a request that is in flight, was lost or was committed.
Retries ==
  {req[t].cmd : t \in {u \in Slots : req[u].cmd # Nothing}}
    \cup {i.digest : i \in idem}

Submit(s) ==
  /\ req[s].pc \in {"idle", "done"}
  /\ version < MaxVersion
  /\ \E c \in NewMutations \cup NewReviews \cup Retries :
       req' = [req EXCEPT ![s] = [IdleRequest EXCEPT !.pc = "auth", !.cmd = c]]
  /\ UNCHANGED <<stored, authority, started>>

\* The Durable Object is evicted, or the reply is lost on the way: the client
\* learns nothing.
Lose(s) ==
  /\ req[s].pc \notin {"idle", "done"}
  /\ Fail(s, "INTERNAL_ERROR")
  /\ UNCHANGED <<stored, authority, started>>

-----------------------------------------------------------------------------
(* The coordinator, one await at a time *)

\* requireProjectMaintainer
CheckMaintainer(s) ==
  /\ req[s].pc = "auth"
  /\ IF req[s].cmd.actor \in maintainers /\ ~fenced
       THEN Goto(s, IF req[s].cmd.kind \in MemoryKinds THEN "context" ELSE "replay")
       ELSE Fail(s, "PROJECT_UNAVAILABLE")
  /\ UNCHANGED <<stored, authority, started>>

\* resolveMemoryChangeRepositoryContext: the target is a memory of the project
ResolveContext(s) ==
  /\ req[s].pc = "context"
  /\ IF memories[req[s].cmd.target].status # "absent"
       THEN Goto(s, "replay")
       ELSE Fail(s, "VALIDATION_FAILED")
  /\ UNCHANGED <<stored, authority, started>>

\* The replay read: an equal digest answers with the stored response, and the
\* projection Workflow is ensured again first when a memory changed.
ReadReceipt(s) ==
  LET cmd == req[s].cmd IN
  /\ req[s].pc = "replay"
  /\ \/ /\ Receipts(cmd) = {}
        /\ Goto(s, "read_head")
     \/ \E i \in Receipts(cmd) :
          IF ~SameRequest(i, cmd)
            THEN Fail(s, "IDEMPOTENCY_CONFLICT")
            ELSE IF cmd.kind \in {"reject", "request_changes"}
                   THEN Answer(s, i.response)
                   ELSE req' = [req EXCEPT ![s].pc = "ensure",
                                           ![s].reply = i.response]
  /\ UNCHANGED <<stored, authority, started>>

\* A mutation states the versions its client has read.
Stale(c) == c.project # version \/ c.item # memories[c.target].version

\* The first-primary read of the project head and of the target's head
ReadMutationHead(s) ==
  LET cmd == req[s].cmd IN
  /\ req[s].pc = "read_head"
  /\ version < MaxVersion
  /\ cmd.kind \in MemoryKinds
  /\ IF Stale(cmd)
       THEN Fail(s, "VERSION_CONFLICT")
       ELSE req' = [req EXCEPT ![s].pc = "resolve", ![s].base = version,
                               ![s].previous = head]
  /\ UNCHANGED <<stored, authority, started>>

ReadCandidateHead(s) ==
  LET cmd == req[s].cmd
      candidate == candidates[cmd.target] IN
  /\ req[s].pc = "read_head"
  /\ version < MaxVersion
  /\ cmd.kind \in ReviewKinds
  /\ IF cmd.item # candidate.version \/ candidate.status \notin Reviewable
       THEN Fail(s, "VERSION_CONFLICT")
       ELSE IF reviews[cmd.target] = "none"
              THEN Fail(s, "VALIDATION_FAILED")
              ELSE req' = [req EXCEPT
                     ![s].pc = IF cmd.kind = "approve" THEN "resolve" ELSE "batch",
                     ![s].base = version,
                     ![s].previous = head]
  /\ UNCHANGED <<stored, authority, started>>

\* resolveMutationRevision, the approval's checks, and the inspection of the
\* content; a rollback reads the version it copies.
ResolveContent(s) ==
  LET cmd == req[s].cmd
      copied == {r \in HistoryOf(cmd.target) : r.version = cmd.payload} IN
  /\ req[s].pc = "resolve"
  /\ IF cmd.kind = "rollback" /\ copied = {}
       THEN Fail(s, "RESOURCE_UNAVAILABLE")
       ELSE \E content \in CASE cmd.kind = "invalidate" -> {Tombstone}
                             [] cmd.kind = "rollback" -> {r.content : r \in copied}
                             [] OTHER -> {cmd.payload} :
              IF \/ content \in Refused
                 \/ cmd.kind = "approve" /\ cmd.target \notin Citable
                THEN Fail(s, "VALIDATION_FAILED")
                ELSE req' = [req EXCEPT ![s].pc = "capacity", ![s].content = content]
  /\ UNCHANGED <<stored, authority, started>>

\* requireFormalProjectionCapacity / ...InvalidationCapacity read the formal
\* state at the expected version only.
CheckCapacity(s) ==
  LET cmd == req[s].cmd IN
  /\ req[s].pc = "capacity"
  /\ IF req[s].base # version
       THEN Fail(s, "VERSION_CONFLICT")
       ELSE IF WithinCapacity(cmd, req[s].content)
              THEN Goto(s, IF cmd.kind = "approve" THEN "batch" ELSE "evidence")
              ELSE Fail(s, "VALIDATION_FAILED")
  /\ UNCHANGED <<stored, authority, started>>

\* The preflight of the cited evidence: an absent row or the same provenance
PreflightEvidence(s) ==
  /\ req[s].pc = "evidence"
  /\ IF evidence \in {Nothing, req[s].cmd.source}
       THEN Goto(s, "batch")
       ELSE Fail(s, "VALIDATION_FAILED")
  /\ UNCHANGED <<stored, authority, started>>

-----------------------------------------------------------------------------
(* The D1 batch: one transaction, every statement guarded by the version *)

\* Every statement of the plan carries the project version (and a review's the
\* candidate version and status): a moved head makes the batch write nothing.
BatchGuard(s) ==
  LET cmd == req[s].cmd IN
  /\ version = req[s].base
  /\ cmd.kind \in ReviewKinds =>
       /\ candidates[cmd.target].version = cmd.item
       /\ candidates[cmd.target].status \in Reviewable

\* What aborts the transaction.  Variant of its guards: no guard.
NoGuard(s) == FALSE

\* audit_project_maintainer_guard
GrantMissing(s) == req[s].cmd.actor \notin maintainers

\* audit_sequence_guard
HeadMoved(s) == head # req[s].previous

\* The evidence row after the upsert of the cited tuple.  Variant: the upsert
\* leaves a stored row alone.
StoredEvidence(s) == IF evidence = Nothing THEN req[s].cmd.source ELSE evidence
UpsertedEvidence(s) == req[s].cmd.source

\* evidence_identity_immutable and the repository context triggers: the upsert
\* may not change a stored provenance.
EvidenceDiffers(s) ==
  /\ req[s].cmd.kind \in MemoryKinds
  /\ evidence \notin {Nothing, UpsertedEvidence(s)}

\* memory_version_guard
MemoryMoved(s) ==
  /\ req[s].cmd.kind \in MemoryKinds
  /\ memories[req[s].cmd.target].version # req[s].cmd.item

\* The primary key of idempotency_records
KeyConsumed(s) == Receipts(req[s].cmd) # {}

\* The answers the failing guards are translated to; which of several the
\* client is told is left open.
Aborts(s) ==
  {code \in Codes :
     \/ code = "PROJECT_UNAVAILABLE" /\ (GrantMissing(s) \/ fenced)
     \/ code = "VERSION_CONFLICT" /\ (HeadMoved(s) \/ MemoryMoved(s))
     \/ code = "VALIDATION_FAILED" /\ EvidenceDiffers(s)
     \/ code = "INTERNAL_ERROR" /\ KeyConsumed(s)}

BatchWritesNothing(s) ==
  /\ req[s].pc = "batch"
  /\ ~BatchGuard(s)
  /\ Fail(s, "VERSION_CONFLICT")
  /\ UNCHANGED <<stored, authority, started>>

BatchAborts(s) ==
  /\ req[s].pc = "batch"
  /\ BatchGuard(s)
  /\ \E code \in Aborts(s) : Fail(s, code)
  /\ UNCHANGED <<stored, authority, started>>

\* The audit event a request appends.  Variant: it takes the version it read.
AuditRowAtBase(s) ==
  [sequence |-> req[s].base, actor |-> req[s].cmd.actor, digest |-> req[s].cmd,
   previous |-> req[s].previous,
   hash |-> EventHash(req[s].previous, req[s].cmd, req[s].base)]
AuditRow(s) ==
  [sequence |-> req[s].base + 1, actor |-> req[s].cmd.actor, digest |-> req[s].cmd,
   previous |-> req[s].previous,
   hash |-> EventHash(req[s].previous, req[s].cmd, req[s].base + 1)]

\* The outbox event it announces.  Variant: it is numbered by the version read.
OutboxRowAtBase(s) ==
  [event |-> req[s].base, type |-> "memory.changed", digest |-> req[s].cmd]
OutboxRow(s) ==
  [event |-> req[s].base + 1,
   type |-> IF req[s].cmd.kind \in {"reject", "request_changes"}
              THEN "candidate.reviewed" ELSE "memory.changed",
   digest |-> req[s].cmd]

\* The rows every plan writes: the audit event, the receipt, the outbox event
\* and the new project head.
WriteLedger(s) ==
  LET next == req[s].base + 1 IN
  /\ version' = next
  /\ head' = AuditRow(s).hash
  /\ audit' = audit \cup {AuditRow(s)}
  /\ idem' = idem \cup
       {[digest |-> req[s].cmd, response |-> Committed(next), audit |-> next]}
  /\ outbox' = outbox \cup {OutboxRow(s)}

NextVersion(m) == memories[m].version + 1

\* memory_versions insert and the memory head moved to it
WriteRevision(s, m, status) ==
  /\ revisions' = revisions \cup
       {[id |-> req[s].base + 1, memory |-> m, version |-> NextVersion(m),
         content |-> req[s].content]}
  /\ memories' = [memories EXCEPT ![m] =
       [status |-> status, version |-> NextVersion(m), content |-> req[s].content]]

\* buildMemoryMutationPlan with buildMutationEvidencePlan
MutationCommits(s) ==
  LET cmd == req[s].cmd IN
  /\ req[s].pc = "batch"
  /\ cmd.kind \in MemoryKinds
  /\ BatchGuard(s)
  /\ Aborts(s) = {}
  /\ WriteLedger(s)
  /\ WriteRevision(s, cmd.target,
                   IF cmd.kind = "invalidate" THEN "invalidated" ELSE "active")
  /\ evidence' = UpsertedEvidence(s)
  /\ links' = IF UpsertedEvidence(s) = cmd.source
                THEN links \cup {req[s].base + 1} ELSE links
  /\ Answer(s, Committed(req[s].base + 1))
  /\ UNCHANGED <<candidates, reviews, decisions, authority, started>>

\* Variant: only a pending review request takes a decision.
ReviewPending(c) == reviews[c] = "pending"
ReviewOpen(c) == reviews[c] \in OpenReview

\* A decision is recorded, and the review request moves, only while the review
\* request is open; the candidate moves regardless.
DecideCandidate(s, status, review, memory) ==
  LET cmd == req[s].cmd
      c == cmd.target IN
  /\ decisions' = IF ReviewOpen(c)
       THEN decisions \cup {[candidate |-> c, version |-> cmd.item + 1,
                             decision |-> cmd.kind, audit |-> req[s].base + 1]}
       ELSE decisions
  /\ reviews' = IF ReviewOpen(c) THEN [reviews EXCEPT ![c] = review] ELSE reviews
  /\ candidates' = [candidates EXCEPT ![c] =
       [status |-> status, version |-> cmd.item + 1, memory |-> memory]]

\* buildCandidatePromotionPlan: the memory is inserted at version 0 and moved
\* to its first revision in the same batch.
PromotionCommits(s) ==
  LET cmd == req[s].cmd
      id == req[s].base + 1 IN
  /\ req[s].pc = "batch"
  /\ cmd.kind = "approve"
  /\ BatchGuard(s)
  /\ Aborts(s) = {}
  /\ WriteLedger(s)
  /\ WriteRevision(s, id, "active")
  /\ DecideCandidate(s, "promoted", "approved", id)
  /\ req' = [req EXCEPT ![s].pc = "ensure", ![s].reply = Committed(id)]
  /\ UNCHANGED <<evidence, links, authority, started>>

\* buildCandidateReviewPlan
ReviewCommits(s) ==
  LET cmd == req[s].cmd IN
  /\ req[s].pc = "batch"
  /\ cmd.kind \in {"reject", "request_changes"}
  /\ BatchGuard(s)
  /\ Aborts(s) = {}
  /\ WriteLedger(s)
  /\ IF cmd.kind = "reject"
       THEN DecideCandidate(s, "rejected", "rejected", Nothing)
       ELSE DecideCandidate(s, "request_changes", "changes_requested", Nothing)
  /\ Answer(s, Committed(req[s].base + 1))
  /\ UNCHANGED <<memories, revisions, evidence, links, authority, started>>

\* ensureProjectionWorkflow after a promotion or a replay: a fenced project
\* starts nothing, and the control plane may refuse.
EnsureProjection(s) ==
  /\ req[s].pc = "ensure"
  /\ \/ /\ started' = IF fenced THEN started
                                ELSE started \cup {req[s].reply.version}
        /\ Answer(s, req[s].reply)
     \/ /\ ~fenced
        /\ Fail(s, "INTERNAL_ERROR")
        /\ UNCHANGED started
  /\ UNCHANGED <<stored, authority>>

-----------------------------------------------------------------------------
(* Other writers of the same database *)

Queued(c) == candidates[c].status = "queued"

\* processCandidateSubmission moves a queued candidate out of the queue.
AnalyzeCandidate(c) ==
  /\ Queued(c)
  /\ \/ /\ candidates' = [candidates EXCEPT ![c].status = "pending_review"]
        /\ reviews' = [reviews EXCEPT ![c] = "pending"]
     \/ /\ candidates' = [candidates EXCEPT ![c].status = "noop"]
        /\ UNCHANGED reviews
  /\ UNCHANGED <<version, head, audit, memories, revisions, decisions, idem,
                 outbox, evidence, links, authority, started, req>>

\* A candidate submission stores the same evidence tuple first.
OtherEvidence(p) ==
  /\ evidence = Nothing
  /\ evidence' = p
  /\ UNCHANGED <<version, head, audit, memories, revisions, candidates, reviews,
                 decisions, idem, outbox, links, authority, started, req>>

\* An operator revokes a project maintainer grant.
RevokeGrant(p) ==
  /\ p \in maintainers
  /\ maintainers' = maintainers \ {p}
  /\ UNCHANGED <<stored, fenced, started, req>>

\* reapExpiredSyntheticProjects fences a synthetic project, once and for all.
Fence ==
  /\ Synthetic
  /\ ~fenced
  /\ fenced' = TRUE
  /\ UNCHANGED <<stored, maintainers, started, req>>

-----------------------------------------------------------------------------
Handle(s) ==
  \/ CheckMaintainer(s) \/ ResolveContext(s) \/ ReadReceipt(s)
  \/ ReadMutationHead(s) \/ ReadCandidateHead(s)
  \/ ResolveContent(s) \/ CheckCapacity(s) \/ PreflightEvidence(s)
  \/ BatchWritesNothing(s) \/ BatchAborts(s)
  \/ MutationCommits(s) \/ PromotionCommits(s) \/ ReviewCommits(s)
  \/ EnsureProjection(s)

Next ==
  \/ \E s \in Slots : Submit(s) \/ Lose(s) \/ Handle(s)
  \/ \E c \in Candidates : AnalyzeCandidate(c)
  \/ \E p \in Provenances : OtherEvidence(p)
  \/ \E p \in Principals : RevokeGrant(p)
  \/ Fence

Spec == Init /\ [][Next]_vars

-----------------------------------------------------------------------------
(* Properties *)

Request ==
  [pc : Pcs, cmd : Command \cup {Nothing}, base : 0..MaxVersion, previous : Hash,
   content : AllContents \cup {Nothing},
   reply : [code : Codes \cup {"ok"}, version : 0..MaxVersion] \cup {Nothing}]

AuditEvent ==
  [sequence : Ids, actor : Principals, digest : Command, previous : Hash, hash : Hash]
Memory ==
  [status : {"absent", "active", "invalidated"}, version : 0..MaxVersion,
   content : AllContents \cup {Nothing}]
Revision == [id : Ids, memory : Ids, version : Ids, content : AllContents]
Candidate ==
  [status : {"queued", "noop", "promoted", "rejected"} \cup Reviewable,
   version : Nat, memory : Ids \cup {Nothing}]
Decision == [candidate : Candidates, version : Nat, decision : ReviewKinds, audit : Ids]
Receipt ==
  [digest : Command, response : [code : {"ok"}, version : Ids], audit : Ids]
OutboxEvent ==
  [event : Ids, type : {"memory.changed", "candidate.reviewed"}, digest : Command]

\* Every variable holds values of the columns it stands for.
TypeOK ==
  /\ version \in 0..MaxVersion /\ head \in Hash
  /\ audit \subseteq AuditEvent
  /\ memories \in [Ids -> Memory] /\ revisions \subseteq Revision
  /\ candidates \in [Candidates -> Candidate]
  /\ reviews \in [Candidates -> {"none", "approved", "rejected"} \cup OpenReview]
  /\ decisions \subseteq Decision
  /\ idem \subseteq Receipt /\ outbox \subseteq OutboxEvent
  /\ evidence \in Provenances \cup {Nothing} /\ links \subseteq Ids
  /\ maintainers \subseteq Principals /\ fenced \in BOOLEAN
  /\ started \subseteq Ids
  /\ req \in [Slots -> Request]

\* The audit events are one hash chain: sequences 1..version, each linked to
\* the event before it, the last one the project head - though two requests
\* may have computed an event for the same predecessor.
AuditChain ==
  /\ {a.sequence : a \in audit} = 1..version
  /\ Cardinality(audit) = version
  /\ \A a \in audit :
       /\ a.hash = EventHash(a.previous, a.digest, a.sequence)
       /\ a.sequence = 1 => a.previous = <<>>
       /\ a.sequence = version => a.hash = head
       /\ \A b \in audit : b.sequence = a.sequence + 1 => b.previous = a.hash
  /\ version = 0 => head = <<>>

\* Every project version has its audit event, its receipt and its outbox event,
\* all of the same request, and a memory's revisions are numbered 1, 2, ...
\* without gap or fork up to the version its head shows: no commit of the
\* separately guarded statements is half written.
LedgerComplete ==
  /\ \A n \in 1..version :
       \E c \in {a.digest : a \in {b \in audit : b.sequence = n}} :
         /\ {i \in idem : i.audit = n} =
              {[digest |-> c, response |-> Committed(n), audit |-> n]}
         /\ {[event |-> o.event, digest |-> o.digest] : o \in {p \in outbox : p.event = n}}
              = {[event |-> n, digest |-> c]}
  /\ \A m \in Ids :
       /\ {r.version : r \in HistoryOf(m)} = 1..memories[m].version
       /\ Cardinality(HistoryOf(m)) = memories[m].version
       /\ memories[m].status = "absent" <=> HistoryOf(m) = {}
       /\ \A r \in HistoryOf(m) :
            r.version = memories[m].version => r.content = memories[m].content

\* An idempotency key is consumed at most once, whatever the retries, the lost
\* replies and the different payloads sent with it.
AtMostOncePerKey ==
  \A a, b \in audit : SameKey(a.digest, b.digest) => a = b

\* A client that is told a request succeeded is told the version at which that
\* very request was committed, on the first answer and on every replay.
ReplyIsCommitted ==
  \A s \in Slots :
    req[s].reply # Nothing /\ req[s].reply.code = "ok" =>
      \E a \in audit : a.digest = req[s].cmd /\ a.sequence = req[s].reply.version

\* A candidate's decisions are exactly the steps of its version, its last one
\* shows in its status and in its review request, and it became a memory at
\* most once, with the memory it names.
CandidateHistory ==
  \A c \in Candidates :
    LET taken == {d \in decisions : d.candidate = c}
        status == candidates[c].status IN
    /\ {d.version : d \in taken} = 2..candidates[c].version
    /\ Cardinality(taken) = candidates[c].version - 1
    /\ \A d \in taken :
         /\ d.version < candidates[c].version => d.decision = "request_changes"
         /\ d.version = candidates[c].version =>
              /\ d.decision = "approve" <=> status = "promoted"
              /\ d.decision = "reject" <=> status = "rejected"
              /\ d.decision = "request_changes" <=> status = "request_changes"
    /\ reviews[c] \in OpenReview <=> status \in Reviewable
    /\ status = "promoted" <=> candidates[c].memory # Nothing
    /\ status = "promoted" => memories[candidates[c].memory].status # "absent"
    /\ \A d \in Candidates \ {c} :
         status = "promoted" => candidates[d].memory # candidates[c].memory

\* The formal state always fits the projection budget, though the check and
\* the commit are separate statements.
FitsCapacity == Load(memories) <= Capacity

\* The revision of every memory mutation is linked to evidence, and to evidence
\* with the provenance its request declared, though another writer may store
\* the tuple after the preflight.
LinkedProvenance ==
  \A a \in audit :
    a.digest.kind \in MemoryKinds =>
      a.sequence \in links /\ a.digest.source = evidence

\* A principal whose grant is revoked while its request is in flight appends
\* nothing, and a fenced project appends nothing at all.
OnlyMaintainersAppend ==
  [][\A a \in audit' \ audit : a.actor \in maintainers /\ ~fenced]_vars

=============================================================================
