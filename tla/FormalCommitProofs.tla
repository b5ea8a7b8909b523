------------------------- MODULE FormalCommitProofs -------------------------
(***************************************************************************)
(* Proofs about FormalCommit for every value of its constants: type        *)
(* correctness, the audit chain and what a step may append, the evidence   *)
(* links, the replies, the rows and revisions of the ledger, the history   *)
(* of a candidate and the projection budget.                               *)
(***************************************************************************)
EXTENDS FormalCommit, FiniteSetTheorems, WellFoundedInduction, TLAPS

USE ConstantsAssumption

-----------------------------------------------------------------------------
(* Type correctness *)

Writing == {"resolve", "capacity", "evidence", "batch"}

\* What the program counter of a request says about its local values.
ControlOK ==
  \A s \in Slots :
    LET r == req[s] IN
    /\ r.pc # "idle" => r.cmd \in Command
    /\ r.pc \in {"context", "evidence"} => r.cmd.kind \in MemoryKinds
    /\ r.pc \in Writing => r.base < MaxVersion
    /\ r.pc \in {"capacity", "evidence"} => r.content \in AllContents
    /\ r.pc \in {"resolve", "capacity"} => r.cmd.kind \in MemoryKinds \cup {"approve"}
    /\ r.pc = "batch" /\ r.cmd.kind \in MemoryKinds \cup {"approve"}
         => r.content \in AllContents
    /\ r.pc = "ensure" => r.reply \in [code : {"ok"}, version : Ids]

\* A memory has no more revisions than the project has versions.
VersionsBounded == \A m \in Ids : memories[m].version <= version

TypeInv == TypeOK /\ ControlOK /\ VersionsBounded

\* Extending a hash by one event gives a hash.
LEMMA HashTyped ==
  ASSUME NEW h \in Hash, NEW c \in Command, NEW n \in Nat
  PROVE  EventHash(h, c, n) \in Hash
BY DEF EventHash, Hash

\* A slot without a request is well typed.
LEMMA IdleTyped == IdleRequest \in Request
BY DEF IdleRequest, Request, Pcs, Hash

\* The state a project is created in satisfies the invariant.
LEMMA TypeInvInit == Init => TypeInv
<1> SUFFICES ASSUME Init PROVE TypeInv
  OBVIOUS
<1>1. TypeOK
  <2>1. head \in Hash
    BY DEF Init, Hash
  <2>2. memories \in [Ids -> Memory]
    BY DEF Init, Absent, Memory
  <2>3. candidates \in [Candidates -> Candidate]
    BY DEF Init, Candidate
  <2>4. reviews \in [Candidates -> {"none", "approved", "rejected"} \cup OpenReview]
    BY DEF Init
  <2>5. req \in [Slots -> Request]
    BY IdleTyped DEF Init
  <2>6. version \in 0..MaxVersion /\ maintainers \subseteq Principals
    BY DEF Init
  <2>7. /\ audit \subseteq AuditEvent /\ revisions \subseteq Revision
        /\ decisions \subseteq Decision /\ idem \subseteq Receipt
        /\ outbox \subseteq OutboxEvent /\ links \subseteq Ids /\ started \subseteq Ids
    BY DEF Init
  <2>8. evidence \in Provenances \cup {Nothing} /\ fenced \in BOOLEAN
    BY DEF Init
  <2> QED BY <2>1, <2>2, <2>3, <2>4, <2>5, <2>6, <2>7, <2>8 DEF TypeOK
<1>2. ControlOK
  BY DEF Init, ControlOK, IdleRequest, Writing
<1>3. VersionsBounded
  BY DEF Init, VersionsBounded, Ids, Absent
<1> QED BY <1>1, <1>2, <1>3 DEF TypeInv

\* The steps that only move one request.
LEMMA LocalStep ==
  ASSUME TypeInv, NEW s \in Slots, NEW r \in Request,
         req' = [req EXCEPT ![s] = r],
         UNCHANGED <<stored, authority, started>>,
         r.pc # "idle" => r.cmd \in Command,
         r.pc \in {"context", "evidence"} => r.cmd.kind \in MemoryKinds,
         r.pc \in Writing => r.base < MaxVersion,
         r.pc \in {"capacity", "evidence"} => r.content \in AllContents,
         r.pc \in {"resolve", "capacity"} => r.cmd.kind \in MemoryKinds \cup {"approve"},
         r.pc = "batch" /\ r.cmd.kind \in MemoryKinds \cup {"approve"}
            => r.content \in AllContents,
         r.pc = "ensure" => r.reply \in [code : {"ok"}, version : Ids]
  PROVE  TypeInv'
<1>1. TypeOK'
  BY DEF TypeInv, TypeOK, stored, authority
<1>2. ControlOK'
  BY DEF TypeInv, TypeOK, ControlOK
<1>3. VersionsBounded'
  BY DEF TypeInv, VersionsBounded, stored
<1> QED BY <1>1, <1>2, <1>3 DEF TypeInv

\* An answer of the handler is a legal end of a request.
LEMMA FailStep ==
  ASSUME TypeInv, NEW s \in Slots, req[s].pc # "idle", NEW code \in Codes,
         Fail(s, code), UNCHANGED <<stored, authority, started>>
  PROVE  TypeInv'
<1> DEFINE r == [IdleRequest EXCEPT !.pc = "done", !.cmd = req[s].cmd, !.reply = Failed(code)]
<1>1. req' = [req EXCEPT ![s] = r]
  BY DEF Fail, Answer
<1>2. req[s].cmd \in Command
  BY DEF TypeInv, ControlOK
<1>3. r \in Request /\ r.pc = "done" /\ r.cmd \in Command
  BY <1>2, IdleTyped DEF Request, Failed, IdleRequest, Pcs
<1> HIDE DEF r
<1> QED BY <1>1, <1>3, LocalStep DEF Writing

\* Moving on to another step keeps the request's local values.
LEMMA GotoStep ==
  ASSUME TypeInv, NEW s \in Slots, req[s].pc # "idle", NEW pc \in Pcs,
         Goto(s, pc), UNCHANGED <<stored, authority, started>>,
         pc \in {"context", "evidence"} => req[s].cmd.kind \in MemoryKinds,
         pc \in Writing => req[s].base < MaxVersion,
         pc \in {"capacity", "evidence"} => req[s].content \in AllContents,
         pc \in {"resolve", "capacity"} =>
           req[s].cmd.kind \in MemoryKinds \cup {"approve"},
         pc = "batch" /\ req[s].cmd.kind \in MemoryKinds \cup {"approve"}
           => req[s].content \in AllContents,
         pc # "ensure"
  PROVE  TypeInv'
<1> DEFINE r == [req[s] EXCEPT !.pc = pc]
<1>1. req[s] \in Request /\ req[s].cmd \in Command
  BY DEF TypeInv, TypeOK, ControlOK
<1>2. req' = [req EXCEPT ![s] = r]
  BY <1>1 DEF Goto, Request, TypeInv, TypeOK
<1>3. /\ r \in Request /\ r.pc = pc /\ r.cmd = req[s].cmd /\ r.base = req[s].base
      /\ r.content = req[s].content
  BY <1>1 DEF Request
<1> HIDE DEF r
<1> QED BY <1>1, <1>2, <1>3, LocalStep

\* A client's request, new or retried, is a command.
LEMMA SubmitTyped ==
  ASSUME TypeInv, NEW s \in Slots, Submit(s)
  PROVE  TypeInv'
<1>1. PICK c \in NewMutations \cup NewReviews \cup Retries :
        req' = [req EXCEPT ![s] = [IdleRequest EXCEPT !.pc = "auth", !.cmd = c]]
  BY DEF Submit
<1>2. c \in Command
  <2>1. CASE c \in NewMutations
    <3>1. PICK k \in Kinds \cap MemoryKinds, m \in 1..version :
            c \in {[kind |-> k, actor |-> p, key |-> key, target |-> m,
                    project |-> version, item |-> memories[m].version,
                    payload |-> x, source |-> e]
                     : p \in Principals, key \in Keys, x \in Payloads(k, m),
                       e \in Provenances}
      BY <2>1 DEF NewMutations
    <3>2. PICK p \in Principals, key \in Keys, x \in Payloads(k, m), e \in Provenances :
            c = [kind |-> k, actor |-> p, key |-> key, target |-> m,
                 project |-> version, item |-> memories[m].version,
                 payload |-> x, source |-> e]
      BY <3>1
    <3>3. m \in Ids /\ version \in Nat /\ memories[m].version \in Nat
      BY DEF TypeInv, TypeOK, Ids, Memory
    <3>4. /\ x \in Contents \cup Nat \cup {Nothing}
          /\ k \in {"correct", "approve"} => x \in Contents
      BY <3>3 DEF Payloads
    <3> QED BY <3>2, <3>3, <3>4 DEF Command, MemoryKinds, ReviewKinds
  <2>2. CASE c \in NewReviews
    <3>1. PICK k \in Kinds \cap ReviewKinds, d \in Candidates :
            c \in {[kind |-> k, actor |-> p, key |-> key, target |-> d,
                    project |-> 0, item |-> candidates[d].version,
                    payload |-> x, source |-> Nothing]
                     : p \in Principals, key \in Keys, x \in Payloads(k, d)}
      BY <2>2 DEF NewReviews
    <3>2. PICK p \in Principals, key \in Keys, x \in Payloads(k, d) :
            c = [kind |-> k, actor |-> p, key |-> key, target |-> d,
                 project |-> 0, item |-> candidates[d].version,
                 payload |-> x, source |-> Nothing]
      BY <3>1
    <3>3. candidates[d].version \in Nat
      BY DEF TypeInv, TypeOK, Candidate
    <3>4. /\ x \in Contents \cup {Nothing}
          /\ k \in {"correct", "approve"} => x \in Contents
      BY DEF Payloads, ReviewKinds
    <3> QED BY <3>2, <3>3, <3>4 DEF Command, MemoryKinds, ReviewKinds
  <2>3. CASE c \in Retries
    <3>1. \A i \in idem : i.digest \in Command
      BY DEF TypeInv, TypeOK, Receipt
    <3>2. \A t \in Slots : req[t].cmd \in Command \cup {Nothing}
      BY DEF TypeInv, TypeOK, Request
    <3> QED BY <2>3, <3>1, <3>2 DEF Retries
  <2> QED BY <2>1, <2>2, <2>3
<1> DEFINE r == [IdleRequest EXCEPT !.pc = "auth", !.cmd = c]
<1>3. r \in Request /\ r.pc = "auth" /\ r.cmd \in Command
  BY <1>2, IdleTyped DEF IdleRequest, Request, Pcs
<1>4. UNCHANGED <<stored, authority, started>>
  BY DEF Submit
<1>5. req' = [req EXCEPT ![s] = r]
  BY <1>1
<1> HIDE DEF r
<1> QED BY <1>3, <1>4, <1>5, LocalStep DEF Writing

\* The steps that only read, and those that fail, keep the invariant.
LEMMA CheckTyped ==
  ASSUME TypeInv, NEW s \in Slots,
         \/ Lose(s) \/ CheckMaintainer(s) \/ ResolveContext(s)
         \/ CheckCapacity(s) \/ PreflightEvidence(s)
         \/ BatchWritesNothing(s) \/ BatchAborts(s)
  PROVE  TypeInv'
<1>1. /\ req[s] \in Request
      /\ req[s].pc # "idle" => req[s].cmd \in Command
  BY DEF TypeInv, TypeOK, ControlOK
<1>2. CASE Lose(s)
  BY <1>2, FailStep DEF Lose, Codes
<1>3. CASE CheckMaintainer(s)
  <2>1. CASE Fail(s, "PROJECT_UNAVAILABLE")
    BY <1>3, <2>1, FailStep DEF CheckMaintainer, Codes
  <2>2. CASE Goto(s, "context") /\ req[s].cmd.kind \in MemoryKinds
    BY <1>3, <2>2, GotoStep DEF CheckMaintainer, Pcs, Writing
  <2>3. CASE Goto(s, "replay")
    BY <1>3, <2>3, GotoStep DEF CheckMaintainer, Pcs, Writing
  <2> QED BY <1>3, <2>1, <2>2, <2>3 DEF CheckMaintainer
<1>4. CASE ResolveContext(s)
  <2>1. CASE Fail(s, "VALIDATION_FAILED")
    BY <1>4, <2>1, FailStep DEF ResolveContext, Codes
  <2>2. CASE Goto(s, "replay")
    BY <1>4, <2>2, GotoStep DEF ResolveContext, Pcs, Writing
  <2> QED BY <1>4, <2>1, <2>2 DEF ResolveContext
<1>5. CASE CheckCapacity(s)
  <2>1. /\ req[s].content \in AllContents /\ req[s].base < MaxVersion
        /\ req[s].cmd.kind \in MemoryKinds \cup {"approve"}
    BY <1>5 DEF CheckCapacity, TypeInv, ControlOK, Writing
  <2>2. CASE \E code \in Codes : Fail(s, code)
    BY <1>5, <2>2, FailStep DEF CheckCapacity
  <2>3. CASE Goto(s, "batch")
    BY <1>5, <2>1, <2>3, GotoStep DEF CheckCapacity, Pcs, Writing
  <2>4. CASE Goto(s, "evidence") /\ req[s].cmd.kind # "approve"
    BY <1>5, <2>1, <2>4, GotoStep DEF CheckCapacity, Pcs, Writing
  <2> QED BY <1>5, <2>2, <2>3, <2>4 DEF CheckCapacity, Codes
<1>6. CASE PreflightEvidence(s)
  <2>1. /\ req[s].content \in AllContents /\ req[s].base < MaxVersion
    BY <1>6 DEF PreflightEvidence, TypeInv, ControlOK, Writing
  <2>2. CASE Fail(s, "VALIDATION_FAILED")
    BY <1>6, <2>2, FailStep DEF PreflightEvidence, Codes
  <2>3. CASE Goto(s, "batch")
    BY <1>6, <2>1, <2>3, GotoStep DEF PreflightEvidence, Pcs, Writing
  <2> QED BY <1>6, <2>2, <2>3 DEF PreflightEvidence
<1>7. CASE BatchWritesNothing(s)
  BY <1>7, FailStep DEF BatchWritesNothing, Codes
<1>8. CASE BatchAborts(s)
  <2>1. Aborts(s) \subseteq Codes
    BY DEF Aborts
  <2> QED BY <1>8, <2>1, FailStep DEF BatchAborts
<1> QED BY <1>2, <1>3, <1>4, <1>5, <1>6, <1>7, <1>8

\* The replay read answers with what the receipt stores.
LEMMA ReceiptTyped ==
  ASSUME TypeInv, NEW s \in Slots, ReadReceipt(s)
  PROVE  TypeInv'
<1>1. /\ req[s] \in Request /\ req[s].pc = "replay" /\ req[s].cmd \in Command
      /\ UNCHANGED <<stored, authority, started>>
  BY DEF ReadReceipt, TypeInv, TypeOK, ControlOK
<1>2. CASE Goto(s, "read_head")
  BY <1>1, <1>2, GotoStep DEF Pcs, Writing
<1>3. CASE Fail(s, "IDEMPOTENCY_CONFLICT")
  BY <1>1, <1>3, FailStep DEF Codes
<1>4. ASSUME NEW i \in idem, Answer(s, i.response)
      PROVE  TypeInv'
  <2> DEFINE r == [IdleRequest EXCEPT !.pc = "done", !.cmd = req[s].cmd, !.reply = i.response]
  <2>1. i.response \in [code : {"ok"}, version : Ids]
    BY DEF TypeInv, TypeOK, Receipt
  <2>2. i.response \in [code : Codes \cup {"ok"}, version : 0..MaxVersion]
    BY <2>1 DEF Ids
  <2>3. r \in Request /\ r.pc = "done" /\ r.cmd \in Command
    BY <1>1, <2>2, IdleTyped DEF Request, IdleRequest, Pcs
  <2>4. req' = [req EXCEPT ![s] = r]
    BY <1>4 DEF Answer
  <2> HIDE DEF r
  <2> QED BY <1>1, <2>3, <2>4, LocalStep DEF Writing
<1>5. ASSUME NEW i \in idem,
             req' = [req EXCEPT ![s].pc = "ensure", ![s].reply = i.response]
      PROVE  TypeInv'
  <2> DEFINE r == [req[s] EXCEPT !.pc = "ensure", !.reply = i.response]
  <2>1. i.response \in [code : {"ok"}, version : Ids]
    BY DEF TypeInv, TypeOK, Receipt
  <2>2. i.response \in [code : Codes \cup {"ok"}, version : 0..MaxVersion]
    BY <2>1 DEF Ids
  <2>3. r \in Request /\ r.pc = "ensure" /\ r.cmd \in Command /\ r.reply = i.response
    BY <1>1, <2>2 DEF Request, Pcs
  <2>4. req' = [req EXCEPT ![s] = r]
    BY <1>1, <1>5 DEF TypeInv, TypeOK, Request
  <2> HIDE DEF r
  <2> QED BY <1>1, <2>1, <2>3, <2>4, LocalStep DEF Writing
<1> QED BY <1>2, <1>3, <1>4, <1>5 DEF ReadReceipt, Receipts

\* Both head reads pin the version and the audit head they read.
LEMMA PinTyped ==
  ASSUME TypeInv, NEW s \in Slots, req[s].pc = "read_head", version < MaxVersion,
         NEW pc \in {"resolve", "batch"},
         pc = "resolve" => req[s].cmd.kind \in MemoryKinds \cup {"approve"},
         pc = "batch" => req[s].cmd.kind \notin MemoryKinds \cup {"approve"},
         req' = [req EXCEPT ![s].pc = pc, ![s].base = version, ![s].previous = head],
         UNCHANGED <<stored, authority, started>>
  PROVE  TypeInv'
<1> DEFINE r == [req[s] EXCEPT !.pc = pc, !.base = version, !.previous = head]
<1>1. /\ req[s] \in Request /\ req[s].cmd \in Command
      /\ version \in 0..MaxVersion /\ head \in Hash
  BY DEF TypeInv, TypeOK, ControlOK
<1>2. req' = [req EXCEPT ![s] = r]
  BY <1>1 DEF TypeInv, TypeOK, Request
<1>3. r \in Request /\ r.pc = pc /\ r.cmd = req[s].cmd /\ r.base = version
  BY <1>1 DEF Request, Pcs
<1> HIDE DEF r
<1> QED BY <1>1, <1>2, <1>3, LocalStep

\* The head reads either fail or pin what they read.
LEMMA HeadTyped ==
  ASSUME TypeInv, NEW s \in Slots, ReadMutationHead(s) \/ ReadCandidateHead(s)
  PROVE  TypeInv'
<1>1. CASE ReadMutationHead(s)
  <2>1. CASE Fail(s, "VERSION_CONFLICT")
    BY <1>1, <2>1, FailStep DEF ReadMutationHead, Codes
  <2>2. CASE req' = [req EXCEPT ![s].pc = "resolve", ![s].base = version,
                                ![s].previous = head]
    BY <1>1, <2>2, PinTyped DEF ReadMutationHead
  <2> QED BY <1>1, <2>1, <2>2 DEF ReadMutationHead
<1>2. CASE ReadCandidateHead(s)
  <2>1. CASE \E code \in {"VERSION_CONFLICT", "VALIDATION_FAILED"} : Fail(s, code)
    BY <1>2, <2>1, FailStep DEF ReadCandidateHead, Codes
  <2>2. CASE req[s].cmd.kind = "approve" /\
             req' = [req EXCEPT ![s].pc = "resolve", ![s].base = version,
                                ![s].previous = head]
    BY <1>2, <2>2, PinTyped DEF ReadCandidateHead
  <2>3. CASE req[s].cmd.kind # "approve" /\
             req' = [req EXCEPT ![s].pc = "batch", ![s].base = version,
                                ![s].previous = head]
    BY <1>2, <2>3, PinTyped DEF ReadCandidateHead, MemoryKinds, ReviewKinds
  <2> QED BY <1>2, <2>1, <2>2, <2>3 DEF ReadCandidateHead
<1> QED BY <1>1, <1>2

\* The content resolved is one a revision may hold.
LEMMA ContentTyped ==
  ASSUME TypeInv, NEW s \in Slots, ResolveContent(s)
  PROVE  TypeInv'
<1>1. /\ req[s] \in Request /\ req[s].cmd \in Command /\ req[s].pc = "resolve"
      /\ req[s].base < MaxVersion
      /\ req[s].cmd.kind \in MemoryKinds \cup {"approve"}
      /\ UNCHANGED <<stored, authority, started>>
  BY DEF ResolveContent, TypeInv, TypeOK, ControlOK, Writing
<1>2. CASE \E code \in {"RESOURCE_UNAVAILABLE", "VALIDATION_FAILED"} : Fail(s, code)
  BY <1>1, <1>2, FailStep DEF Codes
<1>3. ASSUME NEW content \in AllContents,
             req' = [req EXCEPT ![s].pc = "capacity", ![s].content = content]
      PROVE  TypeInv'
  <2> DEFINE r == [req[s] EXCEPT !.pc = "capacity", !.content = content]
  <2>1. req' = [req EXCEPT ![s] = r]
    BY <1>1, <1>3 DEF TypeInv, TypeOK, Request
  <2>2. /\ r \in Request /\ r.pc = "capacity" /\ r.cmd = req[s].cmd
        /\ r.base = req[s].base /\ r.content = content
    BY <1>1 DEF Request, Pcs
  <2> HIDE DEF r
  <2> QED BY <1>1, <2>1, <2>2, LocalStep DEF Writing
<1>4. \A t \in revisions : t.content \in AllContents
  BY DEF TypeInv, TypeOK, Revision
<1>5. req[s].cmd.kind \in {"correct", "approve"} => req[s].cmd.payload \in AllContents
  BY <1>1 DEF Command, AllContents
<1>6. \/ \E code \in {"RESOURCE_UNAVAILABLE", "VALIDATION_FAILED"} : Fail(s, code)
      \/ \E content \in AllContents :
           req' = [req EXCEPT ![s].pc = "capacity", ![s].content = content]
  <2>1. CASE req[s].cmd.kind = "invalidate"
    BY <2>1 DEF ResolveContent, AllContents
  <2>2. CASE req[s].cmd.kind = "rollback"
    BY <2>2, <1>4 DEF ResolveContent, HistoryOf
  <2>3. CASE req[s].cmd.kind \in {"correct", "approve"}
    BY <2>3, <1>5 DEF ResolveContent
  <2> QED BY <1>1, <2>1, <2>2, <2>3 DEF MemoryKinds
<1> QED BY <1>2, <1>3, <1>6

\* The other writers of the database keep the invariant.
LEMMA EnvironmentTyped ==
  ASSUME TypeInv,
         \/ \E c \in Candidates : AnalyzeCandidate(c)
         \/ \E p \in Provenances : OtherEvidence(p)
         \/ \E p \in Principals : RevokeGrant(p)
         \/ Fence
  PROVE  TypeInv'
<1>1. ASSUME NEW c \in Candidates, AnalyzeCandidate(c)
      PROVE  TypeInv'
  <2>1. candidates' \in [Candidates -> Candidate]
    BY SMTT(30), <1>1 DEF AnalyzeCandidate, TypeInv, TypeOK, Candidate, Reviewable
  <2>2. reviews' \in [Candidates -> {"none", "approved", "rejected"} \cup OpenReview]
    BY <1>1 DEF AnalyzeCandidate, TypeInv, TypeOK, OpenReview
  <2>3. UNCHANGED <<version, head, audit, memories, revisions, decisions, idem,
                    outbox, evidence, links, authority, started, req>>
    BY <1>1 DEF AnalyzeCandidate
  <2>4. TypeOK'
    BY <2>1, <2>2, <2>3 DEF TypeInv, TypeOK, authority
  <2> QED BY <2>3, <2>4 DEF TypeInv, ControlOK, VersionsBounded
<1>2. ASSUME NEW p \in Provenances, OtherEvidence(p)
      PROVE  TypeInv'
  BY <1>2 DEF OtherEvidence, TypeInv, TypeOK, ControlOK, VersionsBounded, authority
<1>3. ASSUME NEW p \in Principals, RevokeGrant(p)
      PROVE  TypeInv'
  BY <1>3 DEF RevokeGrant, TypeInv, TypeOK, ControlOK, VersionsBounded, stored
<1>4. CASE Fence
  BY <1>4 DEF Fence, TypeInv, TypeOK, ControlOK, VersionsBounded, stored
<1> QED BY <1>1, <1>2, <1>3, <1>4

Commits(s) == MutationCommits(s) \/ PromotionCommits(s) \/ ReviewCommits(s)

\* What a commit finds: its base is the current version and its audit link the
\* current head, whatever has happened since it read them.
LEMMA CommitPins ==
  ASSUME TypeInv, NEW s \in Slots, Commits(s)
  PROVE  /\ req[s] \in Request /\ req[s].cmd \in Command /\ req[s].pc = "batch"
         /\ version = req[s].base /\ version + 1 \in Ids
         /\ head = req[s].previous
         /\ req[s].cmd.actor \in maintainers /\ ~fenced
         /\ Receipts(req[s].cmd) = {}
         /\ req[s].cmd.kind \in MemoryKinds =>
              /\ evidence \in {Nothing, req[s].cmd.source}
              /\ memories[req[s].cmd.target].version = req[s].cmd.item
         /\ req[s].cmd.kind \in MemoryKinds \cup {"approve"}
              => req[s].content \in AllContents
         /\ WriteLedger(s)
<1>1. req[s].pc = "batch" /\ BatchGuard(s) /\ Aborts(s) = {} /\ WriteLedger(s)
  BY DEF Commits, MutationCommits, PromotionCommits, ReviewCommits
<1>2. /\ req[s] \in Request /\ req[s].cmd \in Command /\ req[s].base < MaxVersion
      /\ version \in 0..MaxVersion
      /\ req[s].cmd.kind \in MemoryKinds \cup {"approve"} => req[s].content \in AllContents
  BY <1>1 DEF TypeInv, TypeOK, ControlOK, Writing
<1>3. version = req[s].base /\ version + 1 \in Ids
  BY <1>1, <1>2 DEF BatchGuard, Ids
<1>4. ~GrantMissing(s) /\ ~fenced /\ ~HeadMoved(s) /\ ~MemoryMoved(s)
      /\ ~EvidenceDiffers(s) /\ ~KeyConsumed(s)
  BY <1>1 DEF Aborts, Codes
<1>5. /\ req[s].cmd.actor \in maintainers /\ ~fenced
      /\ head = req[s].previous
      /\ Receipts(req[s].cmd) = {}
      /\ req[s].cmd.kind \in MemoryKinds =>
           /\ evidence \in {Nothing, req[s].cmd.source}
           /\ memories[req[s].cmd.target].version = req[s].cmd.item
  BY <1>4 DEF GrantMissing, HeadMoved, MemoryMoved, EvidenceDiffers, UpsertedEvidence, KeyConsumed
<1> QED BY <1>1, <1>2, <1>3, <1>5

\* A commit leaves the ledger tables typed.
LEMMA LedgerTyped ==
  ASSUME TypeInv, NEW s \in Slots, Commits(s)
  PROVE  /\ version' = version + 1 /\ version' \in 0..MaxVersion
         /\ head' \in Hash /\ audit' \subseteq AuditEvent
         /\ idem' \subseteq Receipt /\ outbox' \subseteq OutboxEvent
<1> DEFINE c == req[s].cmd
           n == version + 1
           h == EventHash(head, c, n)
<1>1. /\ c \in Command /\ version = req[s].base /\ n \in Ids /\ head = req[s].previous
      /\ WriteLedger(s)
  BY CommitPins
<1>2. h \in Hash /\ head \in Hash
  BY <1>1, HashTyped DEF TypeInv, TypeOK, Ids
<1>3. version' = n /\ head' = h
  BY <1>1 DEF WriteLedger, AuditRow
<1>4. c.actor \in Principals
  BY <1>1 DEF Command
<1>5. audit' = audit \cup {[sequence |-> n, actor |-> c.actor, digest |-> c,
                            previous |-> head, hash |-> h]}
  BY <1>1 DEF WriteLedger, AuditRow
<1>6. audit' \subseteq AuditEvent
  BY <1>1, <1>2, <1>4, <1>5 DEF AuditEvent, TypeInv, TypeOK
<1>7. idem' = idem \cup {[digest |-> c, response |-> [code |-> "ok", version |-> n],
                          audit |-> n]}
  BY <1>1 DEF WriteLedger, Committed
<1>8. idem' \subseteq Receipt
  BY <1>1, <1>7 DEF Receipt, TypeInv, TypeOK
<1>9. outbox' \subseteq OutboxEvent
  <2>1. \E t \in {"memory.changed", "candidate.reviewed"} :
          outbox' = outbox \cup {[event |-> n, type |-> t, digest |-> c]}
    BY <1>1 DEF WriteLedger, OutboxRow
  <2> QED BY <1>1, <2>1 DEF OutboxEvent, TypeInv, TypeOK
<1> QED BY <1>1, <1>2, <1>3, <1>6, <1>8, <1>9 DEF Ids

\* A revision of memory m at its next version keeps the memory tables typed.
LEMMA RevisionTyped ==
  ASSUME TypeInv, NEW s \in Slots, Commits(s), NEW m \in Ids,
         NEW status \in {"active", "invalidated"}, req[s].content \in AllContents,
         WriteRevision(s, m, status)
  PROVE  /\ memories' \in [Ids -> Memory]
         /\ revisions' \subseteq Revision
         /\ VersionsBounded'
<1>1. /\ memories \in [Ids -> Memory] /\ memories[m].version <= version
      /\ memories[m].version \in 0..MaxVersion /\ version \in 0..MaxVersion
      /\ version = req[s].base /\ version + 1 \in Ids /\ version' = version + 1
  BY CommitPins, LedgerTyped DEF TypeInv, TypeOK, VersionsBounded, Memory
<1>2. memories[m].version + 1 \in Ids /\ memories[m].version + 1 <= version'
  BY <1>1 DEF Ids
<1>3. memories' \in [Ids -> Memory]
  BY <1>1, <1>2 DEF WriteRevision, NextVersion, Memory, Ids
<1>4. revisions' \subseteq Revision
  BY <1>1, <1>2 DEF WriteRevision, NextVersion, Revision, TypeInv, TypeOK
<1>5. VersionsBounded'
  BY <1>1, <1>2 DEF WriteRevision, NextVersion, VersionsBounded, TypeInv, Memory
<1> QED BY <1>3, <1>4, <1>5

\* A decision keeps the candidate tables typed.
LEMMA DecisionTyped ==
  ASSUME TypeInv, NEW s \in Slots, Commits(s), req[s].cmd.kind \in ReviewKinds,
         NEW status \in {"promoted", "rejected", "request_changes"},
         NEW review \in {"approved", "rejected", "changes_requested"},
         NEW memory \in Ids \cup {Nothing},
         DecideCandidate(s, status, review, memory)
  PROVE  /\ candidates' \in [Candidates -> Candidate]
         /\ reviews' \in [Candidates -> {"none", "approved", "rejected"} \cup OpenReview]
         /\ decisions' \subseteq Decision
<1>1. /\ req[s].cmd \in Command /\ version = req[s].base /\ version + 1 \in Ids
      /\ req[s].cmd.target \in Candidates /\ req[s].cmd.item + 1 \in Nat
  BY CommitPins DEF Command
<1>2. candidates' \in [Candidates -> Candidate]
  BY <1>1 DEF DecideCandidate, TypeInv, TypeOK, Candidate, Reviewable
<1>3. reviews' \in [Candidates -> {"none", "approved", "rejected"} \cup OpenReview]
  BY <1>1 DEF DecideCandidate, TypeInv, TypeOK, OpenReview
<1>4. decisions' \subseteq Decision
  BY <1>1 DEF DecideCandidate, TypeInv, TypeOK, Decision
<1> QED BY <1>2, <1>3, <1>4

\* The request of a commit ends with an answer, or goes on to ensure the
\* projection Workflow.
LEMMA CommittedRequestTyped ==
  ASSUME TypeInv, NEW s \in Slots, Commits(s)
  PROVE  req' \in [Slots -> Request] /\ ControlOK'
<1>1. /\ req[s] \in Request /\ req[s].cmd \in Command
      /\ version = req[s].base /\ version + 1 \in Ids
  BY CommitPins
<1> DEFINE reply == [code |-> "ok", version |-> version + 1]
           r == [IdleRequest EXCEPT !.pc = "done", !.cmd = req[s].cmd, !.reply = reply]
           t == [req[s] EXCEPT !.pc = "ensure", !.reply = reply]
<1>2. /\ reply \in [code : {"ok"}, version : Ids]
      /\ reply \in [code : Codes \cup {"ok"}, version : 0..MaxVersion]
  BY <1>1 DEF Ids
<1>3. r \in Request /\ r.pc = "done" /\ r.cmd \in Command
  BY <1>1, <1>2, IdleTyped DEF Request, IdleRequest, Pcs
<1>4. t \in Request /\ t.pc = "ensure" /\ t.cmd \in Command /\ t.reply = reply
  BY <1>1, <1>2 DEF Request, Pcs
<1>5. req' = [req EXCEPT ![s] = r] \/ req' = [req EXCEPT ![s] = t]
  <2>1. CASE MutationCommits(s)
    BY <1>1, <2>1 DEF MutationCommits, Answer, Committed
  <2>2. CASE PromotionCommits(s)
    BY <1>1, <2>2 DEF PromotionCommits, Committed, TypeInv, TypeOK, Request
  <2>3. CASE ReviewCommits(s)
    BY <1>1, <2>3 DEF ReviewCommits, Answer, Committed
  <2> QED BY <2>1, <2>2, <2>3 DEF Commits
<1> HIDE DEF r, t, reply
<1>6. req' \in [Slots -> Request]
  BY <1>3, <1>4, <1>5 DEF TypeInv, TypeOK
<1>7. ControlOK'
  BY <1>2, <1>3, <1>4, <1>5 DEF TypeInv, TypeOK, ControlOK, Writing
<1> QED BY <1>6, <1>7

\* Each of the three commits keeps the invariant.
LEMMA CommitTyped ==
  ASSUME TypeInv, NEW s \in Slots, Commits(s)
  PROVE  TypeInv'
<1>1. /\ req[s].cmd \in Command /\ version = req[s].base /\ version + 1 \in Ids
      /\ req[s].cmd.kind \in MemoryKinds \cup {"approve"} => req[s].content \in AllContents
  BY CommitPins
<1>2. /\ version' = version + 1 /\ version' \in 0..MaxVersion
      /\ head' \in Hash /\ audit' \subseteq AuditEvent
      /\ idem' \subseteq Receipt /\ outbox' \subseteq OutboxEvent
  BY LedgerTyped
<1>3. req' \in [Slots -> Request] /\ ControlOK'
  BY CommittedRequestTyped
<1>4. /\ memories' \in [Ids -> Memory] /\ revisions' \subseteq Revision
      /\ candidates' \in [Candidates -> Candidate]
      /\ reviews' \in [Candidates -> {"none", "approved", "rejected"} \cup OpenReview]
      /\ decisions' \subseteq Decision
      /\ evidence' \in Provenances \cup {Nothing} /\ links' \subseteq Ids
      /\ VersionsBounded' /\ UNCHANGED <<authority, started>>
  <2>1. CASE MutationCommits(s)
    <3>1. req[s].cmd.target \in Ids /\ req[s].cmd.source \in Provenances
      BY <1>1, <2>1 DEF MutationCommits, Command
    <3>2. /\ memories' \in [Ids -> Memory] /\ revisions' \subseteq Revision
          /\ VersionsBounded'
      BY <1>1, <2>1, <3>1, RevisionTyped DEF MutationCommits, Commits
    <3> QED BY <1>1, <2>1, <3>1, <3>2 DEF MutationCommits, UpsertedEvidence, TypeInv, TypeOK
  <2>2. CASE PromotionCommits(s)
    <3>1. /\ req[s].cmd.kind \in ReviewKinds /\ req[s].cmd.kind = "approve"
          /\ WriteRevision(s, version + 1, "active")
          /\ DecideCandidate(s, "promoted", "approved", version + 1)
          /\ UNCHANGED <<evidence, links, authority, started>>
      BY <1>1, <2>2 DEF PromotionCommits, ReviewKinds
    <3>2. /\ memories' \in [Ids -> Memory] /\ revisions' \subseteq Revision
          /\ VersionsBounded'
      BY <1>1, <2>2, <3>1, RevisionTyped DEF Commits
    <3>3. /\ candidates' \in [Candidates -> Candidate]
          /\ reviews' \in [Candidates -> {"none", "approved", "rejected"} \cup OpenReview]
          /\ decisions' \subseteq Decision
      BY <1>1, <2>2, <3>1, DecisionTyped DEF Commits
    <3> QED BY <3>1, <3>2, <3>3 DEF TypeInv, TypeOK
  <2>3. CASE ReviewCommits(s)
    <3>1. /\ req[s].cmd.kind \in ReviewKinds
          /\ \/ DecideCandidate(s, "rejected", "rejected", Nothing)
             \/ DecideCandidate(s, "request_changes", "changes_requested", Nothing)
          /\ UNCHANGED <<memories, revisions, evidence, links, authority, started>>
      BY <2>3 DEF ReviewCommits, ReviewKinds
    <3>2. /\ candidates' \in [Candidates -> Candidate]
          /\ reviews' \in [Candidates -> {"none", "approved", "rejected"} \cup OpenReview]
          /\ decisions' \subseteq Decision
      BY <2>3, <3>1, DecisionTyped DEF Commits
    <3>3. VersionsBounded'
      BY <1>2, <3>1 DEF TypeInv, TypeOK, VersionsBounded, Memory
    <3> QED BY <3>1, <3>2, <3>3 DEF TypeInv, TypeOK
  <2> QED BY <2>1, <2>2, <2>3 DEF Commits
<1>5. TypeOK'
  BY <1>2, <1>3, <1>4 DEF TypeInv, TypeOK, authority
<1> QED BY <1>3, <1>4, <1>5 DEF TypeInv

\* Ensuring the projection Workflow keeps the invariant.
LEMMA EnsureTyped ==
  ASSUME TypeInv, NEW s \in Slots, EnsureProjection(s)
  PROVE  TypeInv'
<1>1. /\ req[s] \in Request /\ req[s].cmd \in Command /\ req[s].pc = "ensure"
      /\ req[s].reply \in [code : {"ok"}, version : Ids]
      /\ UNCHANGED <<stored, authority>>
  BY DEF EnsureProjection, TypeInv, TypeOK, ControlOK
<1>2. CASE Fail(s, "INTERNAL_ERROR") /\ UNCHANGED started
  BY <1>1, <1>2, FailStep DEF Codes
<1>3. CASE Answer(s, req[s].reply) /\ started' \subseteq started \cup {req[s].reply.version}
  <2> DEFINE r == [IdleRequest EXCEPT !.pc = "done", !.cmd = req[s].cmd,
                                      !.reply = req[s].reply]
  <2>1. req[s].reply \in [code : Codes \cup {"ok"}, version : 0..MaxVersion]
    BY <1>1 DEF Ids
  <2>2. r \in Request /\ r.pc = "done" /\ r.cmd \in Command
    BY <1>1, <2>1, IdleTyped DEF Request, IdleRequest, Pcs
  <2>3. req' = [req EXCEPT ![s] = r]
    BY <1>3 DEF Answer
  <2> HIDE DEF r
  <2>4. started' \subseteq Ids
    BY <1>1, <1>3 DEF TypeInv, TypeOK
  <2>5. TypeOK'
    BY <1>1, <2>2, <2>3, <2>4 DEF TypeInv, TypeOK, stored, authority
  <2>6. ControlOK'
    BY <2>2, <2>3 DEF TypeInv, TypeOK, ControlOK, Writing
  <2>7. VersionsBounded'
    BY <1>1 DEF TypeInv, VersionsBounded, stored
  <2> QED BY <2>5, <2>6, <2>7 DEF TypeInv
<1> QED BY <1>2, <1>3 DEF EnsureProjection

\* Every step keeps the invariant.
LEMMA TypeInvStep == TypeInv /\ [Next]_vars => TypeInv'
<1> SUFFICES ASSUME TypeInv, [Next]_vars PROVE TypeInv'
  OBVIOUS
<1>1. CASE UNCHANGED vars
  BY <1>1 DEF vars, stored, authority, TypeInv, TypeOK, ControlOK, VersionsBounded
<1>2. ASSUME NEW s \in Slots, Submit(s) \/ Lose(s) \/ Handle(s)
      PROVE  TypeInv'
  BY <1>2, SubmitTyped, CheckTyped, ReceiptTyped, HeadTyped, ContentTyped, CommitTyped,
     EnsureTyped DEF Handle, Commits
<1>3. CASE \/ \E c \in Candidates : AnalyzeCandidate(c)
           \/ \E p \in Provenances : OtherEvidence(p)
           \/ \E p \in Principals : RevokeGrant(p)
           \/ Fence
  BY <1>3, EnvironmentTyped
<1> QED BY <1>1, <1>2, <1>3 DEF Next

\* Every reachable state of the formal write path is well typed, whatever the
\* slots, principals, keys and candidates.
THEOREM TypeCorrect == Spec => []TypeOK
<1>1. Spec => []TypeInv
  BY TypeInvInit, TypeInvStep, PTL DEF Spec
<1> QED BY <1>1, PTL DEF TypeInv

-----------------------------------------------------------------------------
(* The audit chain and the receipts *)

\* Only a commit writes the ledger tables.
LEMMA LedgerStep ==
  ASSUME [Next]_vars
  PROVE  \/ \E s \in Slots : Commits(s)
         \/ UNCHANGED <<version, head, audit, idem, outbox>>
<1>1. CASE UNCHANGED vars
  BY <1>1 DEF vars, stored
<1>2. ASSUME NEW s \in Slots, Submit(s) \/ Lose(s) \/ Handle(s), ~Commits(s)
      PROVE  UNCHANGED <<version, head, audit, idem, outbox>>
  <2>1. UNCHANGED stored
    BY <1>2 DEF Submit, Lose, Handle, Commits, CheckMaintainer, ResolveContext,
       ReadReceipt, ReadMutationHead, ReadCandidateHead, ResolveContent, CheckCapacity,
       PreflightEvidence, BatchWritesNothing, BatchAborts, EnsureProjection
  <2> QED BY <2>1 DEF stored
<1>3. CASE \/ \E c \in Candidates : AnalyzeCandidate(c)
           \/ \E p \in Provenances : OtherEvidence(p)
           \/ \E p \in Principals : RevokeGrant(p)
           \/ Fence
  BY <1>3 DEF AnalyzeCandidate, OtherEvidence, RevokeGrant, Fence, stored
<1> QED BY <1>1, <1>2, <1>3 DEF Next

\* The audit event a commit appends, in terms of the state it appends to
LEMMA CommitAppends ==
  ASSUME TypeInv, NEW s \in Slots, Commits(s)
  PROVE  LET c == req[s].cmd
             n == version + 1
             h == EventHash(head, c, n) IN
         /\ version' = n /\ head' = h
         /\ audit' = audit \cup {[sequence |-> n, actor |-> c.actor, digest |-> c,
                                  previous |-> head, hash |-> h]}
         /\ idem' = idem \cup {[digest |-> c, audit |-> n,
                                response |-> [code |-> "ok", version |-> n]]}
         /\ \E t \in {"memory.changed", "candidate.reviewed"} :
              outbox' = outbox \cup {[event |-> n, type |-> t, digest |-> c]}
<1>1. version = req[s].base /\ head = req[s].previous /\ WriteLedger(s)
  BY CommitPins
<1> QED BY <1>1 DEF WriteLedger, AuditRow, OutboxRow, Committed

\* The inductive form of AuditChain: the table is finite, so that it can be
\* counted.
ChainInv == AuditChain /\ IsFiniteSet(audit)

\* Every step extends the chain or leaves it alone.
LEMMA ChainStep ==
  ASSUME TypeInv, ChainInv, NEW s \in Slots, Commits(s)
  PROVE  ChainInv'
<1> DEFINE c == req[s].cmd
           n == version + 1
           h == EventHash(head, c, n)
           e == [sequence |-> n, actor |-> c.actor, digest |-> c,
                 previous |-> head, hash |-> h]
<1>1. /\ version' = n /\ head' = h /\ audit' = audit \cup {e}
  BY CommitAppends
<1>2. version \in Nat
  BY DEF TypeInv, TypeOK
<1>3. \A a \in audit : a.sequence \in 1..version
  BY DEF ChainInv, AuditChain
<1>4. e \notin audit
  BY <1>2, <1>3
<1>5. IsFiniteSet(audit') /\ Cardinality(audit') = version'
  BY <1>1, <1>2, <1>4, FS_AddElement DEF ChainInv, AuditChain
<1>6. {a.sequence : a \in audit'} = 1..version'
  <2>1. e.sequence = n
    OBVIOUS
  <2> HIDE DEF e
  <2>2. {a.sequence : a \in audit'} = {a.sequence : a \in audit} \cup {e.sequence}
    BY <1>1
  <2>3. {a.sequence : a \in audit} = 1..version
    BY DEF ChainInv, AuditChain
  <2>4. (1..version) \cup {n} = 1..n
    BY <1>2
  <2> QED BY <1>1, <2>1, <2>2, <2>3, <2>4
<1>7. ASSUME NEW a \in audit'
      PROVE  /\ a.hash = EventHash(a.previous, a.digest, a.sequence)
             /\ a.sequence = 1 => a.previous = <<>>
             /\ a.sequence = version' => a.hash = head'
             /\ \A b \in audit' : b.sequence = a.sequence + 1 => b.previous = a.hash
  <2> HIDE DEF h
  <2>1. CASE a \in audit
    <3>1. /\ a.hash = EventHash(a.previous, a.digest, a.sequence)
          /\ a.sequence = 1 => a.previous = <<>>
          /\ a.sequence = version => a.hash = head
          /\ \A b \in audit : b.sequence = a.sequence + 1 => b.previous = a.hash
      BY <2>1 DEF ChainInv, AuditChain
    <3>2. a.sequence \in 1..version
      BY <1>3, <2>1
    <3>3. a.sequence # version'
      BY <1>1, <1>2, <3>2
    <3>4. ASSUME NEW b \in audit', b.sequence = a.sequence + 1
          PROVE  b.previous = a.hash
      <4>1. CASE b \in audit
        BY <3>1, <3>4, <4>1
      <4>2. CASE b = e
        BY <1>2, <3>1, <3>2, <3>4, <4>2
      <4> QED BY <1>1, <4>1, <4>2
    <3> QED BY <3>1, <3>3, <3>4
  <2>2. CASE a = e
    <3>1. a.hash = EventHash(a.previous, a.digest, a.sequence)
      BY <2>2 DEF h
    <3>2. a.sequence = 1 => a.previous = <<>>
      BY <1>2, <2>2 DEF ChainInv, AuditChain
    <3>3. a.sequence = version' => a.hash = head'
      BY <1>1, <2>2
    <3>4. \A b \in audit' : b.sequence # a.sequence + 1
      BY <1>1, <1>2, <1>3, <2>2
    <3> QED BY <3>1, <3>2, <3>3, <3>4
  <2> QED BY <1>1, <2>1, <2>2
<1>8. version' # 0
  BY <1>1, <1>2
<1> QED BY <1>5, <1>6, <1>7, <1>8 DEF ChainInv, AuditChain

\* The audit events of a project are one unbroken hash chain that ends in its
\* head, for any number of interleaved requests.
THEOREM AuditChainHolds == Spec => []AuditChain
<1>1. Init => TypeInv /\ ChainInv
  <2> SUFFICES ASSUME Init PROVE ChainInv
    BY TypeInvInit
  <2>1. version = 0 /\ head = <<>> /\ audit = {}
    BY DEF Init
  <2>2. IsFiniteSet(audit) /\ Cardinality(audit) = 0
    BY <2>1, FS_EmptySet
  <2>3. {a.sequence : a \in audit} = 1..version
    BY <2>1
  <2> QED BY <2>1, <2>2, <2>3 DEF ChainInv, AuditChain
<1>2. TypeInv /\ ChainInv /\ [Next]_vars => (TypeInv /\ ChainInv)'
  <2> SUFFICES ASSUME TypeInv, ChainInv, [Next]_vars PROVE ChainInv'
    BY TypeInvStep
  <2>1. CASE UNCHANGED <<version, head, audit, idem, outbox>>
    BY <2>1 DEF ChainInv, AuditChain
  <2> QED BY <2>1, LedgerStep, ChainStep
<1>3. TypeInv /\ ChainInv => AuditChain
  BY DEF ChainInv
<1> QED BY <1>1, <1>2, <1>3, PTL DEF Spec

\* Every audit event has the receipt of its request.
ReceiptInv == \A a \in audit : \E i \in idem : i.digest = a.digest

\* Receipts and audit events go together, and no two of them share a key.
LEMMA KeysInvariant == Spec => [](TypeInv /\ ReceiptInv /\ AtMostOncePerKey)
<1> DEFINE Inv == TypeInv /\ ReceiptInv /\ AtMostOncePerKey
<1>1. Init => Inv
  BY TypeInvInit DEF Init, ReceiptInv, AtMostOncePerKey
<1>2. Inv /\ [Next]_vars => Inv'
  <2> SUFFICES ASSUME Inv, [Next]_vars PROVE ReceiptInv' /\ AtMostOncePerKey'
    BY TypeInvStep
  <2>1. CASE UNCHANGED <<version, head, audit, idem, outbox>>
    BY <2>1 DEF ReceiptInv, AtMostOncePerKey
  <2>2. ASSUME NEW s \in Slots, Commits(s)
        PROVE  ReceiptInv' /\ AtMostOncePerKey'
    <3> DEFINE c == req[s].cmd
    <3>1. Receipts(c) = {}
      BY <2>2, CommitPins
    <3>2. \A a \in audit : ~SameKey(a.digest, c) /\ ~SameKey(c, a.digest)
      BY <3>1 DEF ReceiptInv, Receipts, SameKey
    <3> DEFINE e == [sequence |-> version + 1, actor |-> c.actor, digest |-> c,
                     previous |-> head, hash |-> EventHash(head, c, version + 1)]
               i == [digest |-> c, audit |-> version + 1,
                     response |-> [code |-> "ok", version |-> version + 1]]
    <3>3. audit' = audit \cup {e} /\ e.digest = c
      BY <2>2, CommitAppends
    <3>4. idem' = idem \cup {i} /\ i.digest = c
      BY <2>2, CommitAppends
    <3> HIDE DEF e, i
    <3>5. idem \subseteq idem' /\ \E j \in idem' : j.digest = c
      BY <3>4
    <3>6. ReceiptInv'
      <4> SUFFICES ASSUME NEW a \in audit' PROVE \E j \in idem' : j.digest = a.digest
        BY DEF ReceiptInv
      <4>1. CASE a \in audit
        BY <3>5, <4>1 DEF ReceiptInv
      <4>2. CASE a = e
        BY <3>3, <3>5, <4>2
      <4> QED BY <3>3, <4>1, <4>2
    <3>7. AtMostOncePerKey'
      <4> SUFFICES ASSUME NEW a \in audit', NEW b \in audit', SameKey(a.digest, b.digest)
                   PROVE  a = b
        BY DEF AtMostOncePerKey
      <4>1. CASE a \in audit /\ b \in audit
        BY <4>1 DEF AtMostOncePerKey
      <4>2. CASE a = e /\ b \in audit
        BY <3>2, <3>3, <4>2
      <4>3. CASE a \in audit /\ b = e
        BY <3>2, <3>3, <4>3
      <4> QED BY <3>3, <4>1, <4>2, <4>3
    <3> QED BY <3>6, <3>7
  <2> QED BY <2>1, <2>2, LedgerStep
<1> QED BY <1>1, <1>2, PTL DEF Spec

\* No idempotency key is ever consumed twice: not by retries that overtake each
\* other, nor by different payloads sent with one key.
THEOREM KeyConsumedOnce == Spec => []AtMostOncePerKey
BY KeysInvariant, PTL

\* A step appends an audit event only for a principal that holds its grant in
\* the state it commits in, and only before the cleanup fence.
THEOREM AppendsAreAuthorized == Spec => OnlyMaintainersAppend
<1>1. TypeInv /\ [Next]_vars =>
        [\A a \in audit' \ audit : a.actor \in maintainers /\ ~fenced]_vars
  <2> SUFFICES ASSUME TypeInv, [Next]_vars
               PROVE  \A a \in audit' \ audit : a.actor \in maintainers /\ ~fenced
    OBVIOUS
  <2> TAKE a \in audit' \ audit
  <2>1. PICK s \in Slots : Commits(s)
    BY LedgerStep
  <2>2. a.actor = req[s].cmd.actor
    BY <2>1, CommitAppends
  <2> QED BY <2>1, <2>2, CommitPins
<1>2. Spec => []TypeInv
  BY TypeInvInit, TypeInvStep, PTL DEF Spec
<1> QED BY <1>1, <1>2, PTL DEF Spec, OnlyMaintainersAppend

-----------------------------------------------------------------------------
(* The evidence and the replies *)

\* The steps of a request that commit nothing write no table.
LEMMA QuietRequest ==
  ASSUME NEW s \in Slots, Submit(s) \/ Lose(s) \/ Handle(s), ~Commits(s)
  PROVE  UNCHANGED stored
BY DEF Submit, Lose, Handle, Commits, CheckMaintainer, ResolveContext,
   ReadReceipt, ReadMutationHead, ReadCandidateHead, ResolveContent, CheckCapacity,
   PreflightEvidence, BatchWritesNothing, BatchAborts, EnsureProjection

\* Every step commits, or leaves every table alone except that a candidate is
\* analyzed or another writer stores the evidence tuple.
LEMMA TableStep ==
  ASSUME [Next]_vars
  PROVE  \/ \E s \in Slots : Commits(s)
         \/ /\ UNCHANGED <<version, head, audit, memories, revisions, decisions,
                           idem, outbox, links>>
            /\ \/ UNCHANGED <<candidates, reviews>>
               \/ \E c \in Candidates : AnalyzeCandidate(c)
            /\ evidence' = evidence \/ evidence = Nothing
<1>1. CASE UNCHANGED vars
  BY <1>1 DEF vars, stored
<1>2. ASSUME NEW s \in Slots, Submit(s) \/ Lose(s) \/ Handle(s), ~Commits(s)
      PROVE  UNCHANGED stored
  BY <1>2, QuietRequest
<1>3. ASSUME NEW c \in Candidates, AnalyzeCandidate(c)
      PROVE  UNCHANGED <<version, head, audit, memories, revisions, decisions,
                         idem, outbox, links, evidence>>
  BY <1>3 DEF AnalyzeCandidate
<1>4. ASSUME NEW p \in Provenances, OtherEvidence(p)
      PROVE  /\ UNCHANGED <<version, head, audit, memories, revisions, decisions,
                            idem, outbox, links, candidates, reviews>>
             /\ evidence = Nothing
  BY <1>4 DEF OtherEvidence
<1>5. ASSUME \/ \E p \in Principals : RevokeGrant(p)
             \/ Fence
      PROVE  UNCHANGED stored
  BY <1>5 DEF RevokeGrant, Fence
<1> QED BY <1>1, <1>2, <1>3, <1>4, <1>5 DEF Next, stored

\* Every memory mutation's revision is linked to evidence of the provenance its
\* request declared, whoever else stores the tuple.
THEOREM ProvenanceHolds == Spec => []LinkedProvenance
<1>1. Init => TypeInv /\ LinkedProvenance
  BY TypeInvInit DEF Init, LinkedProvenance
<1>2. TypeInv /\ LinkedProvenance /\ [Next]_vars => (TypeInv /\ LinkedProvenance)'
  <2> SUFFICES ASSUME TypeInv, LinkedProvenance, [Next]_vars PROVE LinkedProvenance'
    BY TypeInvStep
  <2>1. \A a \in audit : a.digest.kind \in MemoryKinds => evidence # Nothing
    BY DEF LinkedProvenance, TypeInv, TypeOK, AuditEvent, Command
  <2>2. ASSUME UNCHANGED <<audit, links>>, evidence' = evidence \/ evidence = Nothing
        PROVE  LinkedProvenance'
    BY <2>1, <2>2 DEF LinkedProvenance
  <2>3. ASSUME NEW s \in Slots, Commits(s)
        PROVE  LinkedProvenance'
    <3> DEFINE e == [sequence |-> version + 1, actor |-> req[s].cmd.actor,
                     digest |-> req[s].cmd, previous |-> head,
                     hash |-> EventHash(head, req[s].cmd, version + 1)]
    <3>1. /\ audit' = audit \cup {e} /\ e.digest = req[s].cmd /\ e.sequence = version + 1
      BY <2>3, CommitAppends
    <3> HIDE DEF e
    <3>2. CASE MutationCommits(s)
      <4>1. /\ evidence \in {Nothing, req[s].cmd.source}
            /\ version = req[s].base
        BY <3>2, CommitPins DEF Commits, MutationCommits
      <4>2. evidence' = req[s].cmd.source /\ links' = links \cup {version + 1}
        BY <3>2, <4>1 DEF MutationCommits, UpsertedEvidence
      <4> QED BY <2>1, <3>1, <4>1, <4>2 DEF LinkedProvenance
    <3>3. CASE PromotionCommits(s) \/ ReviewCommits(s)
      <4>1. UNCHANGED <<evidence, links>> /\ req[s].cmd.kind \notin MemoryKinds
        BY <3>3 DEF PromotionCommits, ReviewCommits, MemoryKinds
      <4> QED BY <3>1, <4>1 DEF LinkedProvenance
    <3> QED BY <2>3, <3>2, <3>3 DEF Commits
  <2> QED BY <2>2, <2>3, TableStep
<1> QED BY <1>1, <1>2, PTL DEF Spec

\* A receipt names the version at which its very request was committed.
ReceiptsTrue ==
  \A i \in idem :
    \E a \in audit : a.digest = i.digest /\ a.sequence = i.response.version


\* A request that moves keeps the answers true when its own answer is none, no
\* success, the one it had, or the version at which it was committed.
LEMMA ReplyMove ==
  ASSUME TypeInv, ReplyIsCommitted, NEW s \in Slots, NEW r,
         req' = [req EXCEPT ![s] = r], audit \subseteq audit',
         \/ r.reply = Nothing \/ r.reply.code # "ok"
         \/ r.reply = req[s].reply /\ r.cmd = req[s].cmd
         \/ \E a \in audit' : a.digest = r.cmd /\ a.sequence = r.reply.version
  PROVE  ReplyIsCommitted'
BY DEF ReplyIsCommitted, TypeInv, TypeOK

\* The steps of a request that commit nothing.
LEMMA ReplyKept ==
  ASSUME TypeInv, ReceiptsTrue, ReplyIsCommitted, NEW s \in Slots,
         Submit(s) \/ Lose(s) \/ Handle(s), ~Commits(s)
  PROVE  ReplyIsCommitted'
<1>1. /\ req \in [Slots -> Request] /\ req[s] \in Request
      /\ UNCHANGED stored /\ audit \subseteq audit'
  <2>1. UNCHANGED stored
    BY QuietRequest
  <2> QED BY <2>1 DEF TypeInv, TypeOK, stored
<1>2. ASSUME NEW code \in Codes, Fail(s, code)
      PROVE  ReplyIsCommitted'
  <2> DEFINE r == [IdleRequest EXCEPT !.pc = "done", !.cmd = req[s].cmd, !.reply = Failed(code)]
  <2>1. req' = [req EXCEPT ![s] = r] /\ r.reply.code # "ok"
    BY <1>2 DEF Fail, Answer, Failed, IdleRequest, Codes
  <2> HIDE DEF r
  <2> QED BY <1>1, <2>1, ReplyMove
<1>3. ASSUME NEW pc, Goto(s, pc)
      PROVE  ReplyIsCommitted'
  <2> DEFINE r == [req[s] EXCEPT !.pc = pc]
  <2>1. req' = [req EXCEPT ![s] = r] /\ r.reply = req[s].reply /\ r.cmd = req[s].cmd
    BY <1>1, <1>3 DEF Goto, Request
  <2> HIDE DEF r
  <2> QED BY <1>1, <2>1, ReplyMove
<1>5. ASSUME NEW i \in Receipts(req[s].cmd), SameRequest(i, req[s].cmd),
             \/ Answer(s, i.response)
             \/ req' = [req EXCEPT ![s].pc = "ensure", ![s].reply = i.response]
      PROVE  ReplyIsCommitted'
  <2>1. PICK r : /\ req' = [req EXCEPT ![s] = r]
                 /\ r.reply = i.response /\ r.cmd = req[s].cmd
    <3>1. CASE Answer(s, i.response)
      <4> DEFINE r == [IdleRequest EXCEPT !.pc = "done", !.cmd = req[s].cmd,
                                          !.reply = i.response]
      <4>1. r.reply = i.response /\ r.cmd = req[s].cmd
        BY DEF IdleRequest
      <4>2. req' = [req EXCEPT ![s] = r]
        BY <3>1 DEF Answer
      <4> HIDE DEF r
      <4> QED BY <4>1, <4>2
    <3>2. CASE req' = [req EXCEPT ![s].pc = "ensure", ![s].reply = i.response]
      <4> DEFINE r == [req[s] EXCEPT !.pc = "ensure", !.reply = i.response]
      <4>1. r.reply = i.response /\ r.cmd = req[s].cmd
        BY <1>1 DEF Request
      <4>2. req' = [req EXCEPT ![s] = r]
        BY <1>1, <3>2
      <4> HIDE DEF r
      <4> QED BY <4>1, <4>2
    <3> QED BY <1>5, <3>1, <3>2
  <2>2. \E a \in audit' : a.digest = req[s].cmd /\ a.sequence = i.response.version
    BY <1>1, <1>5 DEF ReceiptsTrue, Receipts, SameRequest
  <2> QED BY <1>1, <2>1, <2>2, ReplyMove
<1>6. CASE Submit(s)
  <2>1. PICK c : req' = [req EXCEPT ![s] = [IdleRequest EXCEPT !.pc = "auth", !.cmd = c]]
    BY <1>6 DEF Submit
  <2> DEFINE r == [IdleRequest EXCEPT !.pc = "auth", !.cmd = c]
  <2>2. req' = [req EXCEPT ![s] = r] /\ r.reply = Nothing
    BY <2>1 DEF IdleRequest
  <2> HIDE DEF r
  <2> QED BY <1>1, <2>2, ReplyMove
<1>7. CASE ReadReceipt(s)
  BY <1>2, <1>3, <1>5, <1>7 DEF ReadReceipt, Codes
<1>8. CASE \/ Lose(s) \/ CheckMaintainer(s) \/ ResolveContext(s) \/ CheckCapacity(s)
           \/ PreflightEvidence(s) \/ BatchWritesNothing(s) \/ BatchAborts(s)
  <2>1. Aborts(s) \subseteq Codes
    BY DEF Aborts
  <2> QED BY <1>2, <1>3, <1>8, <2>1 DEF Lose, CheckMaintainer, ResolveContext, CheckCapacity,
         PreflightEvidence, BatchWritesNothing, BatchAborts, Codes
<1>9. CASE ReadMutationHead(s) \/ ReadCandidateHead(s)
  <2>1. ASSUME NEW pc, req' = [req EXCEPT ![s].pc = pc, ![s].base = version,
                                          ![s].previous = head]
        PROVE  ReplyIsCommitted'
    <3> DEFINE r == [req[s] EXCEPT !.pc = pc, !.base = version, !.previous = head]
    <3>1. req' = [req EXCEPT ![s] = r] /\ r.reply = req[s].reply /\ r.cmd = req[s].cmd
      BY <1>1, <2>1 DEF Request
    <3> HIDE DEF r
    <3> QED BY <1>1, <3>1, ReplyMove
  <2> QED BY <1>2, <1>9, <2>1 DEF ReadMutationHead, ReadCandidateHead, Codes
<1>10. CASE ResolveContent(s)
  <2>1. ASSUME NEW content,
               req' = [req EXCEPT ![s].pc = "capacity", ![s].content = content]
        PROVE  ReplyIsCommitted'
    <3> DEFINE r == [req[s] EXCEPT !.pc = "capacity", !.content = content]
    <3>1. req' = [req EXCEPT ![s] = r] /\ r.reply = req[s].reply /\ r.cmd = req[s].cmd
      BY <1>1, <2>1 DEF Request
    <3> HIDE DEF r
    <3> QED BY <1>1, <3>1, ReplyMove
  <2> QED BY <1>2, <1>10, <2>1 DEF ResolveContent, Codes
<1>11. CASE EnsureProjection(s)
  <2>1. CASE Fail(s, "INTERNAL_ERROR")
    BY <1>2, <2>1 DEF Codes
  <2>2. CASE Answer(s, req[s].reply)
    <3> DEFINE r == [IdleRequest EXCEPT !.pc = "done", !.cmd = req[s].cmd,
                                        !.reply = req[s].reply]
    <3>1. r.reply = req[s].reply /\ r.cmd = req[s].cmd
      BY DEF IdleRequest
    <3>2. req' = [req EXCEPT ![s] = r]
      BY <2>2 DEF Answer
    <3> HIDE DEF r
    <3> QED BY <1>1, <3>1, <3>2, ReplyMove
  <2> QED BY <1>11, <2>1, <2>2 DEF EnsureProjection
<1> QED BY <1>6, <1>7, <1>8, <1>9, <1>10, <1>11 DEF Handle, Commits

\* A commit answers with the version it commits at.
LEMMA ReplyOfCommit ==
  ASSUME TypeInv, ReceiptsTrue, ReplyIsCommitted, NEW s \in Slots, Commits(s)
  PROVE  ReceiptsTrue' /\ ReplyIsCommitted'
<1> DEFINE e == [sequence |-> version + 1, actor |-> req[s].cmd.actor,
                 digest |-> req[s].cmd, previous |-> head,
                 hash |-> EventHash(head, req[s].cmd, version + 1)]
           i == [digest |-> req[s].cmd, audit |-> version + 1,
                 response |-> [code |-> "ok", version |-> version + 1]]
<1>1. /\ audit' = audit \cup {e} /\ e.digest = req[s].cmd /\ e.sequence = version + 1
      /\ idem' = idem \cup {i} /\ i.digest = req[s].cmd
      /\ i.response.version = version + 1
  BY CommitAppends
<1> HIDE DEF e, i
<1>2. ReceiptsTrue'
  BY <1>1 DEF ReceiptsTrue
<1>3. req[s] \in Request /\ version = req[s].base /\ req \in [Slots -> Request]
  BY CommitPins DEF TypeInv, TypeOK
<1>4. PICK r : /\ req' = [req EXCEPT ![s] = r]
               /\ r.reply.version = version + 1 /\ r.cmd = req[s].cmd
  <2>1. CASE MutationCommits(s) \/ ReviewCommits(s)
    <3> DEFINE r == [IdleRequest EXCEPT !.pc = "done", !.cmd = req[s].cmd,
                                        !.reply = Committed(version + 1)]
    <3>1. r.reply.version = version + 1 /\ r.cmd = req[s].cmd
      BY DEF IdleRequest, Committed
    <3>2. req' = [req EXCEPT ![s] = r]
      BY <1>3, <2>1 DEF MutationCommits, ReviewCommits, Answer
    <3> HIDE DEF r
    <3> QED BY <3>1, <3>2
  <2>2. CASE PromotionCommits(s)
    <3> DEFINE r == [req[s] EXCEPT !.pc = "ensure", !.reply = Committed(version + 1)]
    <3>1. r.reply.version = version + 1 /\ r.cmd = req[s].cmd
      BY <1>3 DEF Request, Committed
    <3>2. req' = [req EXCEPT ![s] = r]
      BY <1>3, <2>2 DEF PromotionCommits
    <3> HIDE DEF r
    <3> QED BY <3>1, <3>2
  <2> QED BY <2>1, <2>2 DEF Commits
<1> QED BY <1>1, <1>2, <1>4, ReplyMove

\* A client that is told of a success is told the version at which that very
\* request was committed: on its first answer, on a retry that finds the
\* receipt, and after any losses in between.
THEOREM RepliesAreTrue == Spec => []ReplyIsCommitted
<1> DEFINE Inv == TypeInv /\ ReceiptsTrue /\ ReplyIsCommitted
<1>1. Init => Inv
  BY TypeInvInit DEF Init, ReceiptsTrue, ReplyIsCommitted, IdleRequest
<1>2. Inv /\ [Next]_vars => Inv'
  <2> SUFFICES ASSUME Inv, [Next]_vars PROVE ReceiptsTrue' /\ ReplyIsCommitted'
    BY TypeInvStep
  <2>1. CASE UNCHANGED vars
    BY <2>1 DEF vars, stored, ReceiptsTrue, ReplyIsCommitted
  <2>2. ASSUME NEW s \in Slots, Submit(s) \/ Lose(s) \/ Handle(s)
        PROVE  ReceiptsTrue' /\ ReplyIsCommitted'
    <3>1. CASE Commits(s)
      BY <3>1, ReplyOfCommit
    <3>2. CASE ~Commits(s)
      <4>1. UNCHANGED stored
        BY <2>2, <3>2, QuietRequest
      <4> QED BY <2>2, <3>2, <4>1, ReplyKept DEF ReceiptsTrue, stored
    <3> QED BY <3>1, <3>2
  <2>3. CASE \/ \E c \in Candidates : AnalyzeCandidate(c)
             \/ \E p \in Provenances : OtherEvidence(p)
             \/ \E p \in Principals : RevokeGrant(p)
             \/ Fence
    <3>1. UNCHANGED <<audit, idem, req>>
      BY <2>3 DEF AnalyzeCandidate, OtherEvidence, RevokeGrant, Fence, stored
    <3> QED BY <3>1 DEF ReceiptsTrue, ReplyIsCommitted
  <2> QED BY <2>1, <2>2, <2>3 DEF Next
<1> QED BY <1>1, <1>2, PTL DEF Spec

-----------------------------------------------------------------------------
(* The tables of the ledger *)

\* The rows of version n: one receipt and one outbox event, of one request.
RowsAt(n) ==
  \E c \in {a.digest : a \in {b \in audit : b.sequence = n}} :
    /\ {i \in idem : i.audit = n} =
         {[digest |-> c, response |-> Committed(n), audit |-> n]}
    /\ {[event |-> o.event, digest |-> o.digest] : o \in {p \in outbox : p.event = n}}
         = {[event |-> n, digest |-> c]}

\* Every version has its rows, and there is no row of a later version.
RowsInv ==
  /\ \A n \in 1..version : RowsAt(n)
  /\ \A a \in audit : a.sequence \in 1..version
  /\ \A i \in idem : i.audit \in 1..version
  /\ \A o \in outbox : o.event \in 1..version

\* A commit adds the rows of its version and leaves those of the others alone.
LEMMA RowsStep ==
  ASSUME TypeInv, RowsInv, NEW s \in Slots, Commits(s)
  PROVE  RowsInv'
<1>0. PICK c, n : c = req[s].cmd /\ n = version + 1
  OBVIOUS
<1>1. PICK e : /\ e = [sequence |-> n, actor |-> c.actor, digest |-> c,
                       previous |-> head, hash |-> EventHash(head, c, n)]
  OBVIOUS
<1>2. PICK i : i = [digest |-> c, response |-> Committed(n), audit |-> n]
  OBVIOUS
<1>3. /\ version' = n /\ audit' = audit \cup {e} /\ idem' = idem \cup {i}
  BY <1>0, <1>1, <1>2, CommitAppends DEF Committed
<1>4. PICK t : outbox' = outbox \cup {[event |-> n, type |-> t, digest |-> c]}
  BY <1>0, CommitAppends
<1>5. PICK o : o = [event |-> n, type |-> t, digest |-> c]
  OBVIOUS
<1>6. /\ e.sequence = n /\ e.digest = c /\ i.audit = n /\ o.event = n /\ o.digest = c
      /\ outbox' = outbox \cup {o}
  BY <1>1, <1>2, <1>4, <1>5
<1>7. version \in Nat /\ n = version + 1
  BY <1>0 DEF TypeInv, TypeOK
<1>8. ASSUME NEW k \in 1..version
      PROVE  RowsAt(k)'
  <2>1. /\ {a \in audit' : a.sequence = k} = {a \in audit : a.sequence = k}
        /\ {j \in idem' : j.audit = k} = {j \in idem : j.audit = k}
        /\ {p \in outbox' : p.event = k} = {p \in outbox : p.event = k}
    BY <1>3, <1>6, <1>7
  <2>2. RowsAt(k)
    BY DEF RowsInv
  <2> QED BY <2>1, <2>2 DEF RowsAt
<1>9. RowsAt(n)'
  <2>1. /\ {a \in audit' : a.sequence = n} = {e}
        /\ {j \in idem' : j.audit = n} = {i}
        /\ {p \in outbox' : p.event = n} = {o}
    BY <1>3, <1>6, <1>7 DEF RowsInv
  <2>2. c \in {a.digest : a \in {b \in audit' : b.sequence = n}}
    BY <1>6, <2>1
  <2>3. {[event |-> p.event, digest |-> p.digest] : p \in {o}} = {[event |-> n, digest |-> c]}
    BY <1>6
  <2> QED BY <1>2, <2>1, <2>2, <2>3 DEF RowsAt
<1>10. \A k \in 1..version' : RowsAt(k)'
  BY <1>3, <1>7, <1>8, <1>9
<1>11. /\ \A a \in audit' : a.sequence \in 1..version'
       /\ \A j \in idem' : j.audit \in 1..version'
       /\ \A p \in outbox' : p.event \in 1..version'
  BY <1>3, <1>6, <1>7 DEF RowsInv
<1> QED BY <1>10, <1>11 DEF RowsInv

\* The revisions of memory m are numbered up to its head, which they show.
HistoryAt(m) ==
  /\ {r.version : r \in HistoryOf(m)} = 1..memories[m].version
  /\ Cardinality(HistoryOf(m)) = memories[m].version
  /\ memories[m].status = "absent" <=> HistoryOf(m) = {}
  /\ \A r \in HistoryOf(m) :
       r.version = memories[m].version => r.content = memories[m].content

HistoryInv == \A m \in Ids : HistoryAt(m) /\ IsFiniteSet(HistoryOf(m))

\* A revision appended to memory m at its next version
LEMMA HistoryStep ==
  ASSUME TypeInv, HistoryInv, NEW s \in Slots, NEW m \in Ids,
         NEW status \in {"active", "invalidated"}, WriteRevision(s, m, status)
  PROVE  HistoryInv'
<1>1. PICK t : t = [id |-> req[s].base + 1, memory |-> m,
                    version |-> memories[m].version + 1, content |-> req[s].content]
  OBVIOUS
<1>2. /\ revisions' = revisions \cup {t}
      /\ memories' = [memories EXCEPT ![m] =
           [status |-> status, version |-> memories[m].version + 1,
            content |-> req[s].content]]
      /\ memories \in [Ids -> Memory]
  BY <1>1 DEF WriteRevision, NextVersion, TypeInv, TypeOK
<1>3. t.memory = m /\ t.version = memories[m].version + 1 /\ t.content = req[s].content
  BY <1>1
<1>4. ASSUME NEW k \in Ids, k # m
      PROVE  HistoryAt(k)' /\ IsFiniteSet(HistoryOf(k))'
  <2>1. HistoryOf(k)' = HistoryOf(k) /\ memories'[k] = memories[k]
    BY <1>2, <1>3, <1>4 DEF HistoryOf
  <2> QED BY <2>1 DEF HistoryInv, HistoryAt
<1>5. HistoryAt(m)' /\ IsFiniteSet(HistoryOf(m))'
  <2> DEFINE H == HistoryOf(m)
             v == memories[m].version
  <2>1. /\ HistoryOf(m)' = H \cup {t}
        /\ memories'[m].status = status /\ memories'[m].version = v + 1
        /\ memories'[m].content = t.content
    BY <1>2, <1>3 DEF HistoryOf
  <2>2. /\ v \in Nat /\ IsFiniteSet(H) /\ Cardinality(H) = v
        /\ {r.version : r \in H} = 1..v
    BY <1>2 DEF HistoryInv, HistoryAt, Memory
  <2>3. \A r \in H : r.version \in 1..v
    BY <2>2
  <2>4. t \notin H
    BY <1>3, <2>2, <2>3
  <2>5. IsFiniteSet(H \cup {t}) /\ Cardinality(H \cup {t}) = v + 1
    BY <2>2, <2>4, FS_AddElement
  <2>6. {r.version : r \in H \cup {t}} = 1..(v + 1)
    <3> HIDE DEF H, v
    <3>1. {r.version : r \in H \cup {t}} = {r.version : r \in H} \cup {t.version}
      OBVIOUS
    <3>2. (1..v) \cup {v + 1} = 1..(v + 1)
      BY <2>2
    <3> QED BY <1>3, <2>2, <3>1, <3>2 DEF v
  <2>7. \A r \in H \cup {t} : r.version = v + 1 => r.content = t.content
    BY <2>2, <2>3
  <2> HIDE DEF H, v
  <2> QED BY <2>1, <2>5, <2>6, <2>7 DEF HistoryAt
<1> QED BY <1>4, <1>5 DEF HistoryInv

\* The rows of the versions and the histories of the memories are complete.
LEMMA TablesInvariant == Spec => [](TypeInv /\ RowsInv /\ HistoryInv)
<1> DEFINE Inv == TypeInv /\ RowsInv /\ HistoryInv
<1>1. Init => Inv
  <2> SUFFICES ASSUME Init PROVE RowsInv /\ HistoryInv
    BY TypeInvInit
  <2>1. RowsInv
    BY DEF Init, RowsInv
  <2>2. ASSUME NEW m \in Ids
        PROVE  HistoryAt(m) /\ IsFiniteSet(HistoryOf(m))
    <3>1. HistoryOf(m) = {} /\ memories[m].version = 0 /\ memories[m].status = "absent"
      BY DEF Init, HistoryOf, Absent
    <3>2. Cardinality(HistoryOf(m)) = 0 /\ IsFiniteSet(HistoryOf(m))
      BY <3>1, FS_EmptySet
    <3>3. {r.version : r \in HistoryOf(m)} = 1..memories[m].version
      BY <3>1
    <3> QED BY <3>1, <3>2, <3>3 DEF HistoryAt
  <2> QED BY <2>1, <2>2 DEF HistoryInv
<1>2. Inv /\ [Next]_vars => Inv'
  <2> SUFFICES ASSUME Inv, [Next]_vars PROVE RowsInv' /\ HistoryInv'
    BY TypeInvStep
  <2>1. CASE UNCHANGED <<version, audit, memories, revisions, idem, outbox>>
    BY <2>1 DEF RowsInv, RowsAt, HistoryInv, HistoryAt, HistoryOf
  <2>2. ASSUME NEW s \in Slots, Commits(s)
        PROVE  RowsInv' /\ HistoryInv'
    <3>1. RowsInv'
      BY <2>2, RowsStep
    <3>2. req[s].cmd \in Command /\ req[s].base + 1 \in Ids
      BY <2>2, CommitPins
    <3>3. CASE MutationCommits(s)
      <4>1. req[s].cmd.target \in Ids
        BY <3>2, <3>3 DEF MutationCommits, Command
      <4> QED BY <3>1, <3>3, <4>1, HistoryStep DEF MutationCommits
    <3>4. CASE PromotionCommits(s)
      BY <3>1, <3>2, <3>4, HistoryStep DEF PromotionCommits
    <3>5. CASE ReviewCommits(s)
      BY <3>1, <3>5 DEF ReviewCommits, HistoryInv, HistoryAt, HistoryOf
    <3> QED BY <2>2, <3>3, <3>4, <3>5 DEF Commits
  <2> QED BY <2>1, <2>2, TableStep
<1> QED BY <1>1, <1>2, PTL DEF Spec

\* No commit is half written: every version has its audit event, its receipt and
\* its outbox event of one request, and the revisions of a memory are numbered
\* without a gap or a fork up to the one its head shows.
THEOREM LedgerIsComplete == Spec => []LedgerComplete
<1>1. RowsInv /\ HistoryInv => LedgerComplete
  BY DEF RowsInv, RowsAt, HistoryInv, HistoryAt, LedgerComplete
<1> QED BY <1>1, TablesInvariant, PTL

-----------------------------------------------------------------------------
(* The candidates and their decisions *)

Taken(c) == {d \in decisions : d.candidate = c}

\* What the decisions on candidate c say about it.
DecisionsAt(c) ==
  /\ {d.version : d \in Taken(c)} = 2..candidates[c].version
  /\ Cardinality(Taken(c)) = candidates[c].version - 1
  /\ \A d \in Taken(c) :
       /\ d.version < candidates[c].version => d.decision = "request_changes"
       /\ d.version = candidates[c].version =>
            /\ d.decision = "approve" <=> candidates[c].status = "promoted"
            /\ d.decision = "reject" <=> candidates[c].status = "rejected"
            /\ d.decision = "request_changes" <=> candidates[c].status = "request_changes"
  /\ reviews[c] \in OpenReview <=> candidates[c].status \in Reviewable

DecisionsInv ==
  \A c \in Candidates :
    DecisionsAt(c) /\ candidates[c].version >= 1 /\ IsFiniteSet(Taken(c))

\* A promoted candidate names the memory of its own commit, and no other
\* candidate names that memory.
PromotionsInv ==
  \A c \in Candidates :
    /\ candidates[c].status = "promoted" <=> candidates[c].memory # Nothing
    /\ candidates[c].status = "promoted" =>
         /\ candidates[c].memory \in 1..version
         /\ memories[candidates[c].memory].status # "absent"
         /\ \A d \in Candidates \ {c} : candidates[d].memory # candidates[c].memory

\* A candidate whose status is neither reviewable nor decided has no decision.
LEMMA UndecidedIsFirst ==
  ASSUME TypeInv, DecisionsInv, NEW c \in Candidates,
         candidates[c].status \in {"queued", "noop", "pending_review"}
  PROVE  \A d \in Taken(c) : d.version < candidates[c].version
<1>1. /\ candidates[c].version \in Nat
      /\ {d.version : d \in Taken(c)} = 2..candidates[c].version
      /\ \A d \in Taken(c) : d \in Decision
  BY DEF DecisionsInv, DecisionsAt, TypeInv, TypeOK, Candidate, Taken
<1> SUFFICES ASSUME NEW d \in Taken(c), d.version = candidates[c].version PROVE FALSE
  BY <1>1
<1>2. d.decision \in {"approve", "reject", "request_changes"}
  BY <1>1 DEF Decision, ReviewKinds
<1> QED BY <1>2 DEF DecisionsInv, DecisionsAt

\* Taking a candidate out of the queue decides nothing.
LEMMA AnalysisKeepsDecisions ==
  ASSUME TypeInv, DecisionsInv, NEW k \in Candidates, AnalyzeCandidate(k)
  PROVE  DecisionsInv'
<1>1. /\ candidates \in [Candidates -> Candidate] /\ decisions' = decisions
      /\ reviews \in [Candidates -> {"none", "approved", "rejected"} \cup OpenReview]
      /\ candidates[k].status = "queued"
  BY DEF AnalyzeCandidate, Queued, TypeInv, TypeOK
<1>2. ASSUME NEW c \in Candidates, c # k
      PROVE  DecisionsAt(c)' /\ candidates'[c].version >= 1 /\ IsFiniteSet(Taken(c))'
  <2>1. candidates'[c] = candidates[c] /\ reviews'[c] = reviews[c] /\ Taken(c)' = Taken(c)
    BY <1>1, <1>2 DEF AnalyzeCandidate, Taken
  <2> QED BY <2>1 DEF DecisionsInv, DecisionsAt
<1>3. DecisionsAt(k)' /\ candidates'[k].version >= 1 /\ IsFiniteSet(Taken(k))'
  <2>1. /\ candidates'[k].version = candidates[k].version /\ Taken(k)' = Taken(k)
        /\ \/ candidates'[k].status = "pending_review" /\ reviews'[k] = "pending"
           \/ candidates'[k].status = "noop" /\ reviews'[k] = reviews[k]
    BY <1>1 DEF AnalyzeCandidate, Taken, Candidate
  <2>2. \A d \in Taken(k) : d.version < candidates[k].version
    BY <1>1, UndecidedIsFirst
  <2>3. /\ \A d \in Taken(k) : d.version # candidates[k].version
        /\ reviews[k] \notin OpenReview
    <3>1. candidates[k].version \in Nat /\ candidates[k].status \notin Reviewable
      BY <1>1 DEF Candidate, Reviewable
    <3> QED BY <2>2, <3>1 DEF DecisionsInv, DecisionsAt
  <2>4. reviews'[k] \in OpenReview <=> candidates'[k].status \in Reviewable
    BY <2>1, <2>3 DEF OpenReview, Reviewable
  <2> QED BY <2>1, <2>3, <2>4 DEF DecisionsInv, DecisionsAt
<1> QED BY <1>2, <1>3 DEF DecisionsInv

\* A commit on a reviewable candidate records its decision as the next step of
\* the candidate, whatever was read before.
LEMMA DecisionStep ==
  ASSUME TypeInv, DecisionsInv, NEW s \in Slots, BatchGuard(s),
         req[s].cmd \in Command, req[s].cmd.kind \in ReviewKinds,
         NEW status, NEW review, NEW memory,
         \/ req[s].cmd.kind = "approve" /\ status = "promoted" /\ review = "approved"
         \/ req[s].cmd.kind = "reject" /\ status = "rejected" /\ review = "rejected"
         \/ /\ req[s].cmd.kind = "request_changes"
            /\ status = "request_changes" /\ review = "changes_requested",
         DecideCandidate(s, status, review, memory)
  PROVE  DecisionsInv'
<1>1. PICK k, v, kind, e :
        /\ k = req[s].cmd.target /\ v = req[s].cmd.item /\ kind = req[s].cmd.kind
        /\ e = [candidate |-> k, version |-> v + 1, decision |-> kind,
                audit |-> req[s].base + 1]
  OBVIOUS
<1>2. /\ k \in Candidates /\ candidates[k].version = v /\ v \in Nat
      /\ candidates[k].status \in Reviewable
      /\ candidates \in [Candidates -> Candidate]
      /\ reviews \in [Candidates -> {"none", "approved", "rejected"} \cup OpenReview]
      /\ decisions \subseteq Decision
  BY <1>1 DEF BatchGuard, Command, TypeInv, TypeOK
<1>3. ReviewOpen(k)
  BY <1>2 DEF DecisionsInv, DecisionsAt, ReviewOpen
<1>4. /\ decisions' = decisions \cup {e} /\ reviews' = [reviews EXCEPT ![k] = review]
      /\ candidates' = [candidates EXCEPT ![k] =
           [status |-> status, version |-> v + 1, memory |-> memory]]
  BY <1>1, <1>3 DEF DecideCandidate
<1>5. e.candidate = k /\ e.version = v + 1 /\ e.decision = kind
  BY <1>1
<1>6. ASSUME NEW c \in Candidates, c # k
      PROVE  DecisionsAt(c)' /\ candidates'[c].version >= 1 /\ IsFiniteSet(Taken(c))'
  <2>1. candidates'[c] = candidates[c] /\ reviews'[c] = reviews[c] /\ Taken(c)' = Taken(c)
    BY <1>2, <1>4, <1>5, <1>6 DEF Taken
  <2> QED BY <2>1 DEF DecisionsInv, DecisionsAt
<1>7. DecisionsAt(k)' /\ candidates'[k].version >= 1 /\ IsFiniteSet(Taken(k))'
  <2>1. PICK T : T = Taken(k)
    OBVIOUS
  <2>2. /\ Taken(k)' = T \cup {e} /\ candidates'[k].version = v + 1
        /\ candidates'[k].status = status /\ reviews'[k] = review
    BY <1>2, <1>4, <1>5, <2>1 DEF Taken
  <2>3. /\ {d.version : d \in T} = 2..v /\ Cardinality(T) = v - 1 /\ IsFiniteSet(T)
        /\ v >= 1 /\ \A d \in T : d \in Decision
    BY <1>2, <2>1 DEF DecisionsInv, DecisionsAt, Taken
  <2>4. \A d \in T : d.version \in 2..v
    BY <2>3
  <2>5. e \notin T
    BY <1>2, <1>5, <2>4
  <2>6. IsFiniteSet(T \cup {e}) /\ Cardinality(T \cup {e}) = v
    BY <1>2, <2>3, <2>5, FS_AddElement
  <2>7. {d.version : d \in T \cup {e}} = 2..(v + 1)
    <3>1. {d.version : d \in T \cup {e}} = {d.version : d \in T} \cup {e.version}
      OBVIOUS
    <3>2. (2..v) \cup {v + 1} = 2..(v + 1)
      BY <1>2, <2>3
    <3> QED BY <1>5, <2>3, <3>1, <3>2
  <2>8. \A d \in T : d.decision = "request_changes"
    <3> SUFFICES ASSUME NEW d \in T PROVE d.decision = "request_changes"
      OBVIOUS
    <3>1. d.version < v \/ d.version = v
      BY <1>2, <2>4
    <3>2. d.decision \in {"approve", "reject", "request_changes"}
      BY <2>3 DEF Decision, ReviewKinds
    <3>3. /\ d.version < v => d.decision = "request_changes"
          /\ d.version = v => d.decision # "approve" /\ d.decision # "reject"
      BY <1>2, <2>1 DEF DecisionsInv, DecisionsAt, Reviewable
    <3> QED BY <3>1, <3>2, <3>3
  <2>9. \A d \in T : d.version # v + 1
    BY <1>2, <2>4
  <2>10. /\ kind = "approve" <=> status = "promoted"
         /\ kind = "reject" <=> status = "rejected"
         /\ kind = "request_changes" <=> status = "request_changes"
         /\ review \in OpenReview <=> status \in Reviewable
    BY <1>1 DEF OpenReview, Reviewable
  <2>11. /\ v + 1 >= 1 /\ (v + 1) - 1 = v /\ ~(v + 1 < v + 1)
    BY <1>2
  <2> QED BY <1>5, <2>2, <2>6, <2>7, <2>8, <2>9, <2>10, <2>11 DEF DecisionsAt
<1> QED BY <1>6, <1>7 DEF DecisionsInv

\* A memory that exists keeps existing.
LEMMA RevisionsStay ==
  ASSUME TypeInv, NEW s \in Slots, NEW m \in Ids, NEW status \in {"active", "invalidated"},
         WriteRevision(s, m, status)
  PROVE  /\ \A k \in Ids : memories[k].status # "absent" => memories'[k].status # "absent"
         /\ memories'[m].status # "absent"
<1>1. /\ memories \in [Ids -> Memory]
      /\ \E r : r.status = status /\ memories' = [memories EXCEPT ![m] = r]
  <2> DEFINE r == [status |-> status, version |-> NextVersion(m), content |-> req[s].content]
  <2>1. r.status = status /\ memories' = [memories EXCEPT ![m] = r]
    BY DEF WriteRevision
  <2> HIDE DEF r
  <2> QED BY <2>1 DEF TypeInv, TypeOK
<1> QED BY <1>1

\* A commit promotes to a memory no other candidate names.
LEMMA PromotionStep ==
  ASSUME TypeInv, PromotionsInv, NEW s \in Slots, Commits(s)
  PROVE  PromotionsInv'
<1>1. /\ req[s].cmd \in Command /\ version \in Nat /\ version' = version + 1
      /\ version = req[s].base /\ version + 1 \in Ids
      /\ candidates \in [Candidates -> Candidate]
      /\ 1..version \subseteq Ids
  BY CommitPins, LedgerTyped DEF TypeInv, TypeOK, Ids
<1>2. CASE MutationCommits(s)
  <2>1. /\ req[s].cmd.target \in Ids /\ UNCHANGED candidates
        /\ \E status \in {"active", "invalidated"} :
             WriteRevision(s, req[s].cmd.target, status)
    BY <1>1, <1>2 DEF MutationCommits, Command
  <2>2. \A k \in Ids : memories[k].status # "absent" => memories'[k].status # "absent"
    BY <2>1, RevisionsStay
  <2> QED BY <1>1, <2>1, <2>2 DEF PromotionsInv
<1>3. CASE PromotionCommits(s)
  <2>1. PICK k, id : k = req[s].cmd.target /\ id = version + 1
    OBVIOUS
  <2>2. PICK r : /\ candidates' = [candidates EXCEPT ![k] = r]
                 /\ r.status = "promoted" /\ r.memory = id
    <3> DEFINE r == [status |-> "promoted", version |-> req[s].cmd.item + 1, memory |-> id]
    <3>1. r.status = "promoted" /\ r.memory = id
      OBVIOUS
    <3>2. candidates' = [candidates EXCEPT ![k] = r]
      BY <1>1, <1>3, <2>1 DEF PromotionCommits, DecideCandidate
    <3> HIDE DEF r
    <3> QED BY <3>1, <3>2
  <2>3. k \in Candidates
    BY <1>1, <1>3, <2>1 DEF PromotionCommits, Command, ReviewKinds
  <2>4. /\ \A m \in Ids : memories[m].status # "absent" => memories'[m].status # "absent"
        /\ memories'[id].status # "absent"
    BY <1>1, <1>3, <2>1, RevisionsStay DEF PromotionCommits
  <2>5. id # Nothing /\ id \in 1..version' /\ \A c \in Candidates : candidates[c].memory # id
    <3>1. id \in Nat /\ id \notin 1..version
      BY <1>1, <2>1
    <3> QED BY <1>1, <2>1, <3>1 DEF PromotionsInv
  <2>6. ASSUME NEW c \in Candidates, c # k
        PROVE  candidates'[c] = candidates[c]
    BY <1>1, <2>2, <2>6
  <2>7. candidates'[k].status = "promoted" /\ candidates'[k].memory = id
    BY <1>1, <2>2, <2>3
  <2>8. ASSUME NEW c \in Candidates, c # k, candidates[c].status = "promoted"
        PROVE  /\ candidates[c].memory \in 1..version'
               /\ memories'[candidates[c].memory].status # "absent"
    BY <1>1, <2>4, <2>8 DEF PromotionsInv
  <2> QED BY <2>3, <2>4, <2>5, <2>6, <2>7, <2>8 DEF PromotionsInv
<1>4. CASE ReviewCommits(s)
  <2>1. PICK k : k = req[s].cmd.target
    OBVIOUS
  <2>2. PICK r : /\ candidates' = [candidates EXCEPT ![k] = r]
                 /\ r.status \in {"rejected", "request_changes"} /\ r.memory = Nothing
    <3> DEFINE r(status) ==
          [status |-> status, version |-> req[s].cmd.item + 1, memory |-> Nothing]
    <3>1. \E status \in {"rejected", "request_changes"} :
            candidates' = [candidates EXCEPT ![k] = r(status)]
      BY <1>4, <2>1 DEF ReviewCommits, DecideCandidate
    <3>2. \A status : r(status).status = status /\ r(status).memory = Nothing
      OBVIOUS
    <3> HIDE DEF r
    <3> QED BY <3>1, <3>2
  <2>3. k \in Candidates /\ UNCHANGED memories
    BY <1>1, <1>4, <2>1 DEF ReviewCommits, Command, ReviewKinds
  <2>4. ASSUME NEW c \in Candidates, c # k
        PROVE  candidates'[c] = candidates[c]
    BY <1>1, <2>2, <2>4
  <2>5. candidates'[k].status # "promoted" /\ candidates'[k].memory = Nothing
    BY <1>1, <2>2, <2>3
  <2>6. ASSUME NEW c \in Candidates, candidates[c].status = "promoted"
        PROVE  candidates[c].memory # Nothing /\ candidates[c].memory \in 1..version'
    BY <1>1, <2>6 DEF PromotionsInv
  <2> QED BY <2>3, <2>4, <2>5, <2>6 DEF PromotionsInv
<1> QED BY <1>2, <1>3, <1>4 DEF Commits

\* A candidate's decisions are the steps of its version without gap or
\* repetition, the last one shows in it and in its review request, and it became
\* a memory at most once: reviews that overtake each other, retries and the
\* analysis included.
THEOREM CandidatesAreDecidedOnce == Spec => []CandidateHistory
<1> DEFINE Inv == TypeInv /\ DecisionsInv /\ PromotionsInv
<1>1. Init => Inv
  <2> SUFFICES ASSUME Init PROVE DecisionsInv /\ PromotionsInv
    BY TypeInvInit
  <2>1. ASSUME NEW c \in Candidates
        PROVE  /\ Taken(c) = {} /\ reviews[c] = "none" /\ candidates[c].status = "queued"
               /\ candidates[c].version = 1 /\ candidates[c].memory = Nothing
    BY DEF Init, Taken
  <2>2. DecisionsInv
    <3> SUFFICES ASSUME NEW c \in Candidates
                 PROVE  DecisionsAt(c) /\ candidates[c].version >= 1 /\ IsFiniteSet(Taken(c))
      BY DEF DecisionsInv
    <3>1. Cardinality(Taken(c)) = 0 /\ IsFiniteSet(Taken(c))
      BY <2>1, FS_EmptySet
    <3>2. {d.version : d \in Taken(c)} = 2..candidates[c].version
      BY <2>1
    <3> QED BY <2>1, <3>1, <3>2 DEF DecisionsAt, OpenReview, Reviewable
  <2>3. PromotionsInv
    BY <2>1 DEF PromotionsInv
  <2> QED BY <2>2, <2>3
<1>2. Inv /\ [Next]_vars => Inv'
  <2> SUFFICES ASSUME Inv, [Next]_vars PROVE DecisionsInv' /\ PromotionsInv'
    BY TypeInvStep
  <2>1. CASE UNCHANGED <<version, memories, decisions, candidates, reviews>>
    BY <2>1 DEF DecisionsInv, DecisionsAt, Taken, PromotionsInv
  <2>2. ASSUME NEW c \in Candidates, AnalyzeCandidate(c), UNCHANGED <<version, memories>>
        PROVE  DecisionsInv' /\ PromotionsInv'
    <3>1. PromotionsInv'
      <4>1. PICK status \in {"pending_review", "noop"} :
              candidates' = [candidates EXCEPT ![c].status = status]
        BY <2>2 DEF AnalyzeCandidate
      <4>2. candidates[c].status = "queued" /\ candidates \in [Candidates -> Candidate]
        BY <2>2 DEF AnalyzeCandidate, Queued, TypeInv, TypeOK
      <4>3. /\ \A d \in Candidates : candidates'[d].memory = candidates[d].memory
            /\ \A d \in Candidates :
                 candidates'[d].status = "promoted" <=> candidates[d].status = "promoted"
        BY <4>1, <4>2 DEF Candidate
      <4> QED BY <2>2, <4>3 DEF PromotionsInv
    <3> QED BY <2>2, <3>1, AnalysisKeepsDecisions
  <2>3. ASSUME NEW s \in Slots, Commits(s)
        PROVE  DecisionsInv' /\ PromotionsInv'
    <3>1. PromotionsInv'
      BY <2>3, PromotionStep
    <3>2. req[s].cmd \in Command
      BY <2>3, CommitPins
    <3>3. CASE MutationCommits(s)
      BY <3>1, <3>3 DEF MutationCommits, DecisionsInv, DecisionsAt, Taken
    <3>4. CASE PromotionCommits(s)
      BY <3>1, <3>2, <3>4, DecisionStep DEF PromotionCommits, ReviewKinds
    <3>5. CASE ReviewCommits(s)
      BY <3>1, <3>2, <3>5, DecisionStep DEF ReviewCommits, ReviewKinds
    <3> QED BY <2>3, <3>3, <3>4, <3>5 DEF Commits
  <2> QED BY <2>1, <2>2, <2>3, TableStep
<1>3. Inv => CandidateHistory
  BY DEF DecisionsInv, DecisionsAt, Taken, PromotionsInv, CandidateHistory
<1> QED BY <1>1, <1>2, <1>3, PTL DEF Spec

-----------------------------------------------------------------------------
(* The projection budget.  Load folds the weights over a set; counting one  *)
(* element per unit of weight turns the fold into a cardinality, for which  *)
(* a minimal counterexample replaces the induction.                         *)

Active(M) == {m \in Ids : M[m].status = "active"}

\* A set with as many elements as the memories A weigh together
Stack(W, m) == {m} \X (1..W[m])
Units(W, A) == UNION {Stack(W, m) : m \in A}

\* The choice the fold of Load makes, and the function it recurses into
Chosen(A) == CHOOSE m \in A : TRUE
Step(W, f, A) == IF A = {} THEN 0 ELSE W[Chosen(A)] + f[A \ {Chosen(A)}]

Folds(f, W, A) == f = [T \in SUBSET A |-> Step(W, f, T)]

\* The choice is made among the members.
LEMMA ChosenIn ==
  ASSUME NEW A, A # {} PROVE Chosen(A) \in A
BY DEF Chosen

\* One memory weighs its weight.
LEMMA StackCounted ==
  ASSUME NEW W, NEW m, W[m] \in Nat
  PROVE  IsFiniteSet(Stack(W, m)) /\ Cardinality(Stack(W, m)) = W[m]
<1>1. IsFiniteSet({m}) /\ Cardinality({m}) = 1
  BY FS_Singleton
<1>2. IsFiniteSet(1..W[m]) /\ Cardinality(1..W[m]) = W[m]
  BY SMTT(30), FS_Interval
<1>3. IsFiniteSet(Stack(W, m)) /\ Cardinality(Stack(W, m)) = 1 * W[m]
  BY <1>1, <1>2, FS_Product DEF Stack
<1> QED BY <1>3

\* Finitely many memories weigh finitely much.
LEMMA UnitsFinite ==
  ASSUME NEW A, IsFiniteSet(A), NEW W, \A m \in A : W[m] \in Nat
  PROVE  IsFiniteSet(Units(W, A))
<1> DEFINE S == {Stack(W, m) : m \in A}
           f == [m \in A |-> Stack(W, m)]
<1>1. f \in Surjection(A, S)
  BY DEF Surjection
<1>2. IsFiniteSet(S)
  BY <1>1, FS_Surjection
<1>3. \A T \in S : IsFiniteSet(T)
  BY StackCounted
<1> QED BY <1>2, <1>3, FS_UNION DEF Units

\* Weighing one more memory
LEMMA UnitsAdd ==
  ASSUME NEW A, IsFiniteSet(A), NEW W, \A m \in A : W[m] \in Nat, NEW x \in A
  PROVE  Cardinality(Units(W, A)) = W[x] + Cardinality(Units(W, A \ {x}))
<1>1. Units(W, A) = Units(W, A \ {x}) \cup Stack(W, x)
  BY DEF Units
<1>2. Units(W, A \ {x}) \cap Stack(W, x) = {}
  BY DEF Units, Stack
<1>3. IsFiniteSet(A \ {x})
  BY FS_Subset
<1>4. IsFiniteSet(Units(W, A \ {x}))
  BY <1>3, UnitsFinite
<1>5. IsFiniteSet(Stack(W, x)) /\ Cardinality(Stack(W, x)) = W[x] /\ W[x] \in Nat
  BY StackCounted
<1>6. Cardinality(Units(W, A \ {x})) \in Nat
  BY <1>4, FS_CardinalityType
<1>7. Cardinality({}) = 0
  BY FS_EmptySet
<1>8. Cardinality(Units(W, A)) = Cardinality(Units(W, A \ {x})) + W[x] - 0
  BY <1>1, <1>2, <1>4, <1>5, <1>7, FS_Union
<1> QED BY <1>5, <1>6, <1>8

\* The fold has one solution, the number of units.
LEMMA FoldCounts ==
  ASSUME NEW A, IsFiniteSet(A), NEW W, \A m \in A : W[m] \in Nat,
         NEW f, Folds(f, W, A)
  PROVE  \A T \in SUBSET A : f[T] = Cardinality(Units(W, T))
<1> DEFINE Wrong == {T \in SUBSET A : f[T] # Cardinality(Units(W, T))}
           R == StrictSubsetOrdering(A)
<1> SUFFICES ASSUME Wrong # {} PROVE FALSE
  OBVIOUS
<1>1. IsWellFoundedOn(R, SUBSET A)
  <2>1. IsWellFoundedOn(R, FiniteSubsetsOf(A))
    BY FS_StrictSubsetOrderingWellFounded
  <2>2. FiniteSubsetsOf(A) = SUBSET A
    BY FS_FiniteSubsetsOfFinite
  <2> QED BY <2>1, <2>2
<1>2. Wrong \subseteq SUBSET A
  OBVIOUS
<1>3. PICK T \in Wrong : \A U \in Wrong : <<U, T>> \notin R
  <2> HIDE DEF Wrong, R
  <2> QED BY <1>1, <1>2, WFMin
<1>4. T \subseteq A /\ IsFiniteSet(T) /\ f[T] # Cardinality(Units(W, T))
      /\ f[T] = Step(W, f, T)
  BY FS_Subset DEF Folds
<1>5. CASE T = {}
  <2>1. Units(W, T) = {}
    BY <1>5 DEF Units
  <2> QED BY <1>4, <1>5, <2>1, FS_EmptySet DEF Step
<1>6. CASE T # {}
  <2> DEFINE x == Chosen(T)
             U == T \ {x}
  <2>1. x \in T
    BY <1>6, ChosenIn
  <2>2. <<U, T>> \in R
    BY <1>4, <2>1 DEF StrictSubsetOrdering
  <2>3. f[U] = Cardinality(Units(W, U))
    BY <1>3, <1>4, <2>2
  <2>4. Cardinality(Units(W, T)) = W[x] + Cardinality(Units(W, U))
    BY <1>4, <2>1, UnitsAdd
  <2>5. f[T] = W[x] + f[U]
    BY <1>4, <1>6 DEF Step
  <2> QED BY <1>4, <2>3, <2>4, <2>5
<1> QED BY <1>5, <1>6

\* The fold has a solution.
LEMMA FoldExists ==
  ASSUME NEW A, IsFiniteSet(A), NEW W, \A m \in A : W[m] \in Nat
  PROVE  \E f : Folds(f, W, A)
<1> DEFINE f == [T \in SUBSET A |-> Cardinality(Units(W, T))]
<1>1. ASSUME NEW T \in SUBSET A
      PROVE  Cardinality(Units(W, T)) = Step(W, f, T)
  <2>1. CASE T = {}
    <3>1. Units(W, T) = {}
      BY <2>1 DEF Units
    <3> QED BY <2>1, <3>1, FS_EmptySet DEF Step
  <2>2. CASE T # {}
    <3>1. Chosen(T) \in T /\ IsFiniteSet(T)
      BY <2>2, ChosenIn, FS_Subset
    <3>2. Cardinality(Units(W, T)) = W[Chosen(T)] + Cardinality(Units(W, T \ {Chosen(T)}))
      BY <3>1, UnitsAdd
    <3>3. f[T \ {Chosen(T)}] = Cardinality(Units(W, T \ {Chosen(T)}))
      OBVIOUS
    <3> QED BY <2>2, <3>2, <3>3 DEF Step
  <2> QED BY <2>1, <2>2
<1>2. Folds(f, W, A)
  BY <1>1 DEF Folds
<1> HIDE DEF f
<1> QED BY <1>2

\* The weights of the memories that are projected
Weights(M) == [m \in Active(M) |-> Weight[M[m].content]]
Projected(M) == Units(Weights(M), Active(M))

\* The load of a project is a number of units
LEMMA LoadCounts ==
  ASSUME NEW M, M \in [Ids -> Memory],
         \A m \in Active(M) : M[m].content \in AllContents
  PROVE  Load(M) = Cardinality(Projected(M)) /\ IsFiniteSet(Projected(M))
<1> DEFINE A == Active(M)
           W == Weights(M)
           G(f) == [T \in SUBSET A |->
                      IF T = {} THEN 0
                      ELSE Weight[M[Chosen(T)].content] + f[T \ {Chosen(T)}]]
<1>1. IsFiniteSet(Ids)
  BY FS_Interval DEF Ids
<1>2. IsFiniteSet(A)
  BY <1>1, FS_Subset DEF Active
<1>3. \A m \in A : W[m] \in Nat /\ W[m] = Weight[M[m].content]
  BY DEF Weights, AllContents
<1>4. Load(M) = (CHOOSE f : f = G(f))[A]
  BY DEF Load, MapThenSumSet, MapThenFoldSet, Chosen, Active
<1>5. ASSUME NEW f PROVE Folds(f, W, A) <=> f = G(f)
  <2>1. ASSUME NEW T \in SUBSET A, T # {}
        PROVE  W[Chosen(T)] = Weight[M[Chosen(T)].content]
    BY <1>3, <2>1, ChosenIn
  <2>2. [T \in SUBSET A |-> Step(W, f, T)] = G(f)
    BY <2>1 DEF Step
  <2> HIDE DEF G
  <2> QED BY <2>2 DEF Folds
<1> HIDE DEF A, W, G
<1>6. \E f : f = G(f)
  BY <1>2, <1>3, <1>5, FoldExists
<1>7. PICK f : f = (CHOOSE g : g = G(g))
  OBVIOUS
<1>8. f = G(f)
  BY <1>6, <1>7
<1>9. Folds(f, W, A)
  BY <1>5, <1>8
<1>10. f[A] = Cardinality(Units(W, A))
  <2>1. \A T \in SUBSET A : f[T] = Cardinality(Units(W, T))
    BY <1>2, <1>3, <1>9, FoldCounts
  <2> QED BY <2>1
<1>11. IsFiniteSet(Units(W, A))
  BY <1>2, <1>3, UnitsFinite
<1>12. Units(W, A) = Projected(M)
  BY DEF Projected, A, W
<1> QED BY <1>4, <1>7, <1>10, <1>11, <1>12

\* Only active memories have a weight, so their content must be one.
ActiveHasContent(M) == \A m \in Active(M) : M[m].content \in AllContents

\* Changing one memory adds at most the weight of its new content.
LEMMA LoadGrows ==
  ASSUME NEW M \in [Ids -> Memory], ActiveHasContent(M),
         NEW N \in [Ids -> Memory], ActiveHasContent(N), NEW m \in Ids,
         \A k \in Active(N) \ {m} : k \in Active(M) /\ N[k].content = M[k].content
  PROVE  /\ m \in Active(N) => Load(N) <= Load(M) + Weight[N[m].content]
         /\ m \notin Active(N) => Load(N) <= Load(M)
<1> DEFINE old == Projected(M)
           new == Projected(N)
           added == Stack(Weights(N), m)
<1>1. /\ Load(M) = Cardinality(old) /\ IsFiniteSet(old)
      /\ Load(N) = Cardinality(new) /\ IsFiniteSet(new)
  BY LoadCounts DEF ActiveHasContent
<1>2. \A k \in Active(N) \ {m} : Stack(Weights(N), k) = Stack(Weights(M), k)
  BY DEF Weights, Stack
<1>3. CASE m \notin Active(N)
  <2>1. new \in SUBSET old
    BY <1>2, <1>3 DEF Projected, Units
  <2> HIDE DEF old, new
  <2> QED BY <1>1, <1>3, <2>1, FS_Subset
<1>4. CASE m \in Active(N)
  <2>1. new \in SUBSET (old \cup added)
    BY <1>2 DEF Projected, Units
  <2>2. Weights(N)[m] = Weight[N[m].content] /\ Weights(N)[m] \in Nat
    <3>1. N[m].content \in Contents \cup {Tombstone}
      BY <1>4 DEF ActiveHasContent, AllContents
    <3>2. Weights(N)[m] = Weight[N[m].content]
      BY <1>4 DEF Weights
    <3> QED BY <3>1, <3>2
  <2>3. IsFiniteSet(added) /\ Cardinality(added) = Weight[N[m].content]
    BY <2>2, StackCounted
  <2> HIDE DEF old, new, added
  <2>4. /\ IsFiniteSet(old \cup added)
        /\ Cardinality(old \cup added)
             = Cardinality(old) + Cardinality(added) - Cardinality(old \cap added)
    BY <1>1, <2>3, FS_Union
  <2>5. IsFiniteSet(old \cap added)
    BY <1>1, FS_Intersection
  <2>6. /\ Cardinality(old) \in Nat /\ Cardinality(added) \in Nat
        /\ Cardinality(old \cap added) \in Nat /\ Cardinality(new) \in Nat
        /\ Cardinality(old \cup added) \in Nat
    BY <1>1, <2>3, <2>4, <2>5, FS_CardinalityType
  <2>7. Cardinality(new) <= Cardinality(old \cup added)
    BY <2>1, <2>4, FS_Subset
  <2>8. Cardinality(new) <= Cardinality(old) + Cardinality(added)
    BY <2>4, <2>6, <2>7
  <2> QED BY <1>1, <1>4, <2>3, <2>8
<1> QED BY <1>3, <1>4

CapacityKinds == MemoryKinds \cup {"approve"}

\* A request that is about to write, and whose base is still the project's
\* version, fits: nothing can have changed the memories since it was checked.
CheckedFits(r) ==
  r.pc \in {"evidence", "batch"} /\ r.cmd.kind \in CapacityKinds /\ r.base = version
    => WithinCapacity(r.cmd, r.content)

CapacityInv ==
  /\ ActiveHasContent(memories)
  /\ FitsCapacity
  /\ \A s \in Slots : req[s].pc \in Writing => req[s].base <= version
  /\ \A s \in Slots : CheckedFits(req[s])

\* Moving one request keeps the invariant when what it carries was checked.
LEMMA CapacityMove ==
  ASSUME TypeInv, CapacityInv, NEW s \in Slots, NEW r,
         req' = [req EXCEPT ![s] = r], UNCHANGED <<version, memories>>,
         r.pc \in Writing => r.base <= version,
         CheckedFits(r)
  PROVE  CapacityInv'
<1>1. \A t \in Slots : req'[t] = IF t = s THEN r ELSE req[t]
  BY DEF TypeInv, TypeOK
<1>3. ASSUME NEW t \in Slots, t # s
      PROVE  CheckedFits(req[t])'
  <2>1. req'[t] = req[t]
    BY <1>1, <1>3
  <2>2. CheckedFits(req[t])
    BY DEF CapacityInv
  <2> QED BY <2>1, <2>2 DEF CheckedFits, WithinCapacity
<1>4. CheckedFits(req[s])'
  BY <1>1 DEF CheckedFits, WithinCapacity
<1>5. ActiveHasContent(memories)' /\ FitsCapacity'
  BY DEF CapacityInv, FitsCapacity
<1>6. \A t \in Slots : req'[t].pc \in Writing => req'[t].base <= version'
  BY <1>1 DEF CapacityInv
<1> QED BY <1>3, <1>4, <1>5, <1>6 DEF CapacityInv

\* The steps of a request that commit nothing.
LEMMA CapacityKept ==
  ASSUME TypeInv, CapacityInv, NEW s \in Slots,
         Submit(s) \/ Lose(s) \/ Handle(s), ~Commits(s)
  PROVE  CapacityInv'
<1>1. /\ req \in [Slots -> Request] /\ req[s] \in Request
      /\ UNCHANGED <<version, memories>> /\ version \in Nat
      /\ req[s].pc \in Writing => req[s].base <= version
      /\ CheckedFits(req[s])
  <2>1. UNCHANGED stored
    BY QuietRequest
  <2> QED BY <2>1 DEF TypeInv, TypeOK, stored, CapacityInv
<1>2. ASSUME NEW reply, Answer(s, reply)
      PROVE  CapacityInv'
  <2> DEFINE r == [IdleRequest EXCEPT !.pc = "done", !.cmd = req[s].cmd, !.reply = reply]
  <2>1. req' = [req EXCEPT ![s] = r] /\ r.pc = "done"
    BY <1>2 DEF Answer, IdleRequest
  <2> HIDE DEF r
  <2> QED BY <1>1, <2>1, CapacityMove DEF Writing, CheckedFits
<1>3. ASSUME NEW code, Fail(s, code)
      PROVE  CapacityInv'
  BY <1>2, <1>3 DEF Fail
<1>4. ASSUME NEW pc, Goto(s, pc), pc \in Writing => req[s].base <= version,
             pc \in {"evidence", "batch"} /\ req[s].cmd.kind \in CapacityKinds
               /\ req[s].base = version => WithinCapacity(req[s].cmd, req[s].content)
      PROVE  CapacityInv'
  <2>1. PICK r : r = [req[s] EXCEPT !.pc = pc]
    OBVIOUS
  <2>2. /\ req' = [req EXCEPT ![s] = r] /\ r.pc = pc /\ r.cmd = req[s].cmd
        /\ r.base = req[s].base /\ r.content = req[s].content
    BY <1>1, <1>4, <2>1 DEF Goto, Request
  <2>3. CheckedFits(r)
    BY <1>4, <2>2 DEF CheckedFits
  <2> QED BY <1>1, <1>4, <2>2, <2>3, CapacityMove
<1>5. CASE Submit(s)
  <2>1. PICK c : req' = [req EXCEPT ![s] = [IdleRequest EXCEPT !.pc = "auth", !.cmd = c]]
    BY <1>5 DEF Submit
  <2> DEFINE r == [IdleRequest EXCEPT !.pc = "auth", !.cmd = c]
  <2>2. req' = [req EXCEPT ![s] = r] /\ r.pc = "auth"
    BY <2>1 DEF IdleRequest
  <2> HIDE DEF r
  <2> QED BY <1>1, <2>2, CapacityMove DEF Writing, CheckedFits
<1>6. CASE Lose(s) \/ CheckMaintainer(s) \/ ResolveContext(s) \/ BatchWritesNothing(s)
           \/ BatchAborts(s) \/ EnsureProjection(s)
  BY <1>2, <1>3, <1>4, <1>6 DEF Lose, CheckMaintainer, ResolveContext, BatchWritesNothing,
     BatchAborts, EnsureProjection, Writing
<1>7. CASE ReadReceipt(s)
  <2>1. ASSUME NEW i, req' = [req EXCEPT ![s].pc = "ensure", ![s].reply = i]
        PROVE  CapacityInv'
    <3> DEFINE r == [req[s] EXCEPT !.pc = "ensure", !.reply = i]
    <3>1. req' = [req EXCEPT ![s] = r] /\ r.pc = "ensure"
      BY <1>1, <2>1 DEF Request
    <3> HIDE DEF r
    <3> QED BY <1>1, <3>1, CapacityMove DEF Writing, CheckedFits
  <2> QED BY <1>2, <1>3, <1>4, <1>7, <2>1 DEF ReadReceipt, Writing
<1>8. ASSUME NEW pc, req' = [req EXCEPT ![s].pc = pc, ![s].base = version,
                                        ![s].previous = head],
             pc = "resolve" \/ (pc = "batch" /\ req[s].cmd.kind \notin CapacityKinds)
      PROVE  CapacityInv'
  <2>1. PICK r : r = [req[s] EXCEPT !.pc = pc, !.base = version, !.previous = head]
    OBVIOUS
  <2>2. /\ req' = [req EXCEPT ![s] = r] /\ r.pc = pc /\ r.cmd = req[s].cmd
        /\ r.base = version
    BY <1>1, <1>8, <2>1 DEF Request
  <2>3. CheckedFits(r)
    BY <1>8, <2>2 DEF CheckedFits
  <2>4. r.pc \in Writing => r.base <= version
    BY <1>1, <2>2
  <2> QED BY <1>1, <2>2, <2>3, <2>4, CapacityMove
<1>9. CASE ReadMutationHead(s)
  <2>1. CASE req' = [req EXCEPT ![s].pc = "resolve", ![s].base = version, ![s].previous = head]
    BY <1>8, <2>1
  <2> QED BY <1>3, <1>9, <2>1 DEF ReadMutationHead
<1>10. CASE ReadCandidateHead(s)
  <2> DEFINE pc == IF req[s].cmd.kind = "approve" THEN "resolve" ELSE "batch"
  <2>1. pc = "resolve" \/ (pc = "batch" /\ req[s].cmd.kind \notin CapacityKinds)
    <3>1. req[s].cmd.kind \in ReviewKinds
      BY <1>10 DEF ReadCandidateHead
    <3> QED BY <3>1 DEF CapacityKinds, ReviewKinds, MemoryKinds
  <2>2. CASE req' = [req EXCEPT ![s].pc = pc, ![s].base = version, ![s].previous = head]
    <3> HIDE DEF pc
    <3> QED BY <1>8, <2>1, <2>2
  <2> QED BY <1>3, <1>10, <2>2 DEF ReadCandidateHead
<1>11. CASE ResolveContent(s)
  <2>1. ASSUME NEW content,
               req' = [req EXCEPT ![s].pc = "capacity", ![s].content = content]
        PROVE  CapacityInv'
    <3>1. PICK r : r = [req[s] EXCEPT !.pc = "capacity", !.content = content]
      OBVIOUS
    <3>2. /\ req' = [req EXCEPT ![s] = r] /\ r.pc = "capacity" /\ r.base = req[s].base
      BY <1>1, <2>1, <3>1 DEF Request
    <3>3. req[s].pc = "resolve"
      BY <1>11 DEF ResolveContent
    <3> QED BY <1>1, <3>2, <3>3, CapacityMove DEF Writing, CheckedFits
  <2> QED BY <1>3, <1>11, <2>1 DEF ResolveContent
<1>12. CASE CheckCapacity(s)
  <2>1. req[s].pc = "capacity" /\ req[s].base <= version
    BY <1>1, <1>12 DEF CheckCapacity, Writing
  <2> QED BY <1>3, <1>4, <1>12, <2>1 DEF CheckCapacity
<1>13. CASE PreflightEvidence(s)
  <2>1. req[s].pc = "evidence" /\ req[s].base <= version
    BY <1>1, <1>13 DEF PreflightEvidence, Writing
  <2> QED BY <1>1, <1>3, <1>4, <1>13, <2>1 DEF PreflightEvidence, CheckedFits
<1> QED BY <1>5, <1>6, <1>7, <1>9, <1>10, <1>11, <1>12, <1>13 DEF Handle, Commits

\* Every request in flight but the one that commits has read an older version,
\* or has none yet.
LEMMA CommitOutdates ==
  ASSUME TypeInv, CapacityInv, NEW s \in Slots, Commits(s)
  PROVE  /\ \A t \in Slots : req'[t].pc \in Writing => req'[t].base <= version'
         /\ \A t \in Slots : CheckedFits(req[t])'
<1>1. /\ req \in [Slots -> Request] /\ version \in Nat /\ version' = version + 1
      /\ req[s] \in Request
  BY CommitAppends DEF TypeInv, TypeOK
<1>2. req'[s].pc \notin Writing
  <2>1. CASE MutationCommits(s) \/ ReviewCommits(s)
    BY ZenonT(40), <1>1, <2>1 DEF MutationCommits, ReviewCommits, Answer, Writing, IdleRequest
  <2>2. CASE PromotionCommits(s)
    BY <1>1, <2>2 DEF PromotionCommits, Writing, Request
  <2> QED BY <2>1, <2>2 DEF Commits
<1>3. ASSUME NEW t \in Slots, t # s PROVE req'[t] = req[t]
  BY <1>1, <1>3 DEF Commits, MutationCommits, PromotionCommits, ReviewCommits, Answer
<1>4. ASSUME NEW t \in Slots, req'[t].pc \in Writing
      PROVE  req'[t].base <= version /\ req'[t].base \in Nat
  <2>1. t # s /\ req'[t] = req[t]
    BY <1>2, <1>3, <1>4
  <2>2. req[t].base <= version /\ req[t].base \in Nat
    BY <1>1, <1>4, <2>1 DEF CapacityInv, Request
  <2> QED BY <2>1, <2>2
<1>5. ASSUME NEW t \in Slots, req'[t].pc \in Writing
      PROVE  req'[t].base <= version' /\ req'[t].base # version'
  BY <1>1, <1>4, <1>5
<1>6. {"evidence", "batch"} \subseteq Writing
  BY DEF Writing
<1>7. \A t \in Slots : CheckedFits(req[t])'
  BY <1>5, <1>6 DEF CheckedFits
<1> QED BY <1>5, <1>7

\* The memories after the revision of a commit are those before it but for one,
\* and they fit.
LEMMA RevisionFits ==
  ASSUME TypeInv, CapacityInv, NEW s \in Slots, Commits(s), req[s].cmd.kind \in CapacityKinds,
         NEW m \in Ids, NEW status \in {"active", "invalidated"},
         WriteRevision(s, m, status),
         req[s].cmd.kind = "approve" \/ m = req[s].cmd.target,
         status = "active" <=> req[s].cmd.kind # "invalidate"
  PROVE  ActiveHasContent(memories)' /\ FitsCapacity'
<1> DEFINE w == Weight[req[s].content]
<1>1. /\ memories \in [Ids -> Memory] /\ ActiveHasContent(memories)
      /\ memories' \in [Ids -> Memory]
      /\ Load(memories) <= Capacity /\ req[s].content \in AllContents /\ w \in Nat
      /\ WithinCapacity(req[s].cmd, req[s].content)
  <2>1. req[s].pc = "batch" /\ version = req[s].base /\ req[s].content \in AllContents
    BY CommitPins DEF CapacityKinds
  <2>2. TypeInv'
    BY CommitTyped
  <2> QED BY <2>1, <2>2 DEF TypeInv, TypeOK, CapacityInv, FitsCapacity, CheckedFits, AllContents
<1>2. PICK N : N = memories'
  OBVIOUS
<1>3. PICK M : M = memories
  OBVIOUS
<1>4. /\ N \in [Ids -> Memory]
      /\ \A k \in Ids \ {m} : N[k] = M[k]
      /\ N[m].status = status /\ N[m].content = req[s].content
  BY <1>1, <1>2, <1>3 DEF WriteRevision
<1>5. ActiveHasContent(N)
  BY <1>1, <1>3, <1>4 DEF ActiveHasContent, Active
<1>6. m \in Active(N) <=> status = "active"
  BY <1>4 DEF Active
<1>7. \A k \in Active(N) \ {m} : k \in Active(M) /\ N[k].content = M[k].content
  BY <1>4 DEF Active
<1>8. /\ m \in Active(N) => Load(N) <= Load(M) + w
      /\ m \notin Active(N) => Load(N) <= Load(M)
  BY <1>1, <1>3, <1>4, <1>5, <1>7, LoadGrows
<1>9. Load(M) \in Nat /\ Load(N) \in Nat
  BY <1>1, <1>3, <1>4, <1>5, LoadCounts, FS_CardinalityType DEF ActiveHasContent
<1>10. Load(N) <= Capacity
  <2>1. CASE req[s].cmd.kind = "invalidate"
    BY <1>1, <1>3, <1>6, <1>8, <1>9, <2>1
  <2>2. CASE req[s].cmd.kind = "approve"
    <3>1. Load(M) + w <= Capacity
      BY <1>1, <1>3, <2>2 DEF WithinCapacity
    <3> QED BY <1>1, <1>6, <1>8, <1>9, <2>2, <3>1
  <2>3. CASE req[s].cmd.kind \notin {"invalidate", "approve"}
    <3>1. PICK B : B = [M EXCEPT ![m].status = "invalidated"]
      OBVIOUS
    <3>2. B \in [Ids -> Memory]
      <4>1. PICK t : t = [M[m] EXCEPT !.status = "invalidated"]
        OBVIOUS
      <4>2. M \in [Ids -> Memory] /\ M[m] \in Memory
        BY <1>1, <1>3
      <4>3. t \in Memory
        BY <4>1, <4>2 DEF Memory
      <4> QED BY <3>1, <4>1, <4>2, <4>3
    <3>3. /\ \A k \in Ids \ {m} : B[k] = M[k]
          /\ B[m].status = "invalidated"
      BY <1>1, <1>3, <3>1 DEF Memory
    <3>4. ActiveHasContent(B)
      BY <1>1, <1>3, <3>3 DEF ActiveHasContent, Active
    <3>5. \A k \in Active(N) \ {m} : k \in Active(B) /\ N[k].content = B[k].content
      BY <1>4, <3>3 DEF Active
    <3>6. Load(N) <= Load(B) + w
      BY <1>4, <1>5, <1>6, <2>3, <3>2, <3>4, <3>5, LoadGrows
    <3>7. Load(B) \in Nat
      BY <3>2, <3>4, LoadCounts, FS_CardinalityType DEF ActiveHasContent
    <3>8. Load(B) + w <= Capacity
      BY <1>1, <1>3, <2>3, <3>1 DEF WithinCapacity
    <3> QED BY <1>1, <1>9, <3>6, <3>7, <3>8
  <2> QED BY <2>1, <2>2, <2>3
<1> QED BY <1>2, <1>5, <1>10 DEF FitsCapacity

\* The formal state fits the projection budget, though the capacity check and the
\* batch are separate statements with other requests' commits between them.
THEOREM CapacityHolds == Spec => []FitsCapacity
<1>1. Init => TypeInv /\ CapacityInv
  <2> SUFFICES ASSUME Init PROVE CapacityInv
    BY TypeInvInit
  <2>1. PICK M : M = memories
    OBVIOUS
  <2>2. Active(M) = {}
    BY <2>1 DEF Init, Active, Absent
  <2>3. M \in [Ids -> Memory]
    BY <2>1 DEF Init, Absent, Memory
  <2>4. Projected(M) = {}
    BY <2>2 DEF Projected, Units
  <2>5. Load(M) = 0
    BY <2>2, <2>3, <2>4, LoadCounts, FS_EmptySet
  <2>6. ActiveHasContent(memories) /\ FitsCapacity
    BY <2>1, <2>2, <2>5 DEF ActiveHasContent, FitsCapacity
  <2>7. \A s \in Slots : req[s].pc = "idle"
    BY DEF Init, IdleRequest
  <2> QED BY <2>6, <2>7 DEF CapacityInv, CheckedFits, Writing
<1>2. TypeInv /\ CapacityInv /\ [Next]_vars => (TypeInv /\ CapacityInv)'
  <2> SUFFICES ASSUME TypeInv, CapacityInv, [Next]_vars PROVE CapacityInv'
    BY TypeInvStep
  <2>1. CASE UNCHANGED <<version, memories, req>>
    BY <2>1 DEF CapacityInv, FitsCapacity, CheckedFits, WithinCapacity
  <2>2. ASSUME NEW s \in Slots, Commits(s)
        PROVE  CapacityInv'
    <3>1. CASE MutationCommits(s)
      <4>1. req[s].cmd \in Command /\ req[s].cmd.kind \in MemoryKinds
        BY <2>2, <3>1, CommitPins DEF MutationCommits
      <4>2. req[s].cmd.target \in Ids
        BY <4>1 DEF Command
      <4> DEFINE status == IF req[s].cmd.kind = "invalidate" THEN "invalidated" ELSE "active"
      <4>3. WriteRevision(s, req[s].cmd.target, status)
        BY <3>1 DEF MutationCommits
      <4>4. /\ status \in {"active", "invalidated"}
            /\ status = "active" <=> req[s].cmd.kind # "invalidate"
        OBVIOUS
      <4> HIDE DEF status
      <4> QED BY <2>2, <4>1, <4>2, <4>3, <4>4, RevisionFits, CommitOutdates
              DEF CapacityInv, CapacityKinds
    <3>2. CASE PromotionCommits(s)
      <4>1. /\ req[s].cmd.kind = "approve" /\ version + 1 \in Ids /\ version = req[s].base
            /\ WriteRevision(s, req[s].base + 1, "active")
        BY <2>2, <3>2, CommitPins DEF PromotionCommits
      <4> QED BY <2>2, <4>1, RevisionFits, CommitOutdates DEF CapacityInv, CapacityKinds
    <3>3. CASE ReviewCommits(s)
      <4>1. UNCHANGED memories
        BY <3>3 DEF ReviewCommits
      <4>2. ActiveHasContent(memories)' /\ FitsCapacity'
        BY <4>1 DEF CapacityInv, FitsCapacity
      <4> QED BY <2>2, <4>2, CommitOutdates DEF CapacityInv
    <3> QED BY <2>2, <3>1, <3>2, <3>3 DEF Commits
  <2>3. ASSUME \/ \E c \in Candidates : AnalyzeCandidate(c)
               \/ \E p \in Provenances : OtherEvidence(p)
               \/ \E p \in Principals : RevokeGrant(p)
               \/ Fence
        PROVE  UNCHANGED <<version, memories, req>>
    BY <2>3 DEF AnalyzeCandidate, OtherEvidence, RevokeGrant, Fence, stored
  <2>4. ASSUME UNCHANGED vars
        PROVE  UNCHANGED <<version, memories, req>>
    BY <2>4 DEF vars, stored
  <2> QED BY <2>1, <2>2, <2>3, <2>4, CapacityKept DEF Next
<1>3. CapacityInv => FitsCapacity
  BY DEF CapacityInv
<1> QED BY <1>1, <1>2, <1>3, PTL DEF Spec

=============================================================================
