-------------------- MODULE FormalCommitRefinementProofs --------------------
(***************************************************************************)
(* The tables of the coordinator implement the serial ledger, for every   *)
(* value of the constants: Init maps to Init, a commit to Apply, the      *)
(* revocation of a grant to Revoke, every other step to a stutter.        *)
(***************************************************************************)
EXTENDS FormalCommitRefinement, FormalCommitProofs, SequenceTheorems

USE ConstantsAssumption

-----------------------------------------------------------------------------
(* The log the audit table stands for *)

\* The ledger counts as the coordinator does.
LEMMA SameCount == \A S : Ledger!Cardinality(S) = Cardinality(S)
BY DEF Ledger!Cardinality, Cardinality

\* The audit events are numbered 1..version without repetition.
NumberedInv ==
  /\ \A a \in audit : a.sequence \in 1..version
  /\ \A n \in 1..version : \E a \in audit : a.sequence = n
  /\ \A a, b \in audit : a.sequence = b.sequence => a = b

LogOfAudit ==
  /\ Log \in Seq(Command) /\ Len(Log) = version /\ DOMAIN Log = 1..version
  /\ \A a \in audit : Log[a.sequence] = a.digest
  /\ \A n \in 1..version : \E a \in audit : a.sequence = n /\ Log[n] = a.digest

\* The log holds commands, one for each version.
LEMMA LogTyped ==
  TypeInv /\ NumberedInv => LogOfAudit
<1> SUFFICES ASSUME TypeInv, NumberedInv PROVE LogOfAudit
  OBVIOUS
<1>1. version \in Nat /\ \A a \in audit : a.digest \in Command
  BY DEF TypeInv, TypeOK, AuditEvent
<1>2. ASSUME NEW n \in 1..version
      PROVE  \E a \in audit :
               a.sequence = n /\ (CHOOSE b \in audit : b.sequence = n).digest = a.digest
  BY DEF NumberedInv
<1>3. \A n \in 1..version : \E a \in audit : a.sequence = n /\ Log[n] = a.digest
  BY <1>2 DEF Log
<1>4. DOMAIN Log = 1..version /\ Log \in [1..version -> Command]
  BY <1>1, <1>3 DEF Log
<1>5. Log \in Seq(Command) /\ Len(Log) = version
  BY <1>1, <1>4, IsASeq, LenProperties
<1>6. \A a \in audit : Log[a.sequence] = a.digest
  BY <1>3 DEF NumberedInv
<1> QED BY <1>3, <1>4, <1>5, <1>6 DEF LogOfAudit

\* A commit appends its request to the log.
LEMMA LogStep ==
  ASSUME TypeInv, NumberedInv, NEW s \in Slots, Commits(s)
  PROVE  /\ NumberedInv' /\ Log' = Append(Log, req[s].cmd)
         /\ DOMAIN Log' = 1..(version + 1)
         /\ \A n \in 1..version : Log'[n] = Log[n]
         /\ Log'[version + 1] = req[s].cmd
<1>1. PICK e : e = [sequence |-> version + 1, actor |-> req[s].cmd.actor,
                    digest |-> req[s].cmd, previous |-> head,
                    hash |-> EventHash(head, req[s].cmd, version + 1)]
  OBVIOUS
<1>2. /\ audit' = audit \cup {e} /\ version' = version + 1
      /\ e.sequence = version + 1 /\ e.digest = req[s].cmd
  BY <1>1, CommitAppends
<1>3. version \in Nat /\ TypeInv' /\ req[s].cmd \in Command
  BY CommitTyped, CommitPins DEF TypeInv, TypeOK
<1>4. NumberedInv'
  BY <1>2, <1>3 DEF NumberedInv
<1>5. LogOfAudit
  BY LogTyped
<1>6. LogOfAudit'
  <2>1. (TypeInv /\ NumberedInv => LogOfAudit)'
    BY LogTyped, PTL
  <2> QED BY <1>3, <1>4, <2>1
<1>7. \A n \in 1..version : Log'[n] = Log[n]
  BY <1>2, <1>5, <1>6 DEF LogOfAudit
<1>8. Log'[version + 1] = req[s].cmd
  BY <1>2, <1>3, <1>6 DEF LogOfAudit
<1>9. Log' = Append(Log, req[s].cmd)
  <2>1. PICK L : L = Append(Log, req[s].cmd)
    OBVIOUS
  <2>2. /\ L \in Seq(Command) /\ Len(L) = version + 1
        /\ \A n \in 1..version : L[n] = Log[n]
        /\ L[version + 1] = req[s].cmd
    BY <1>3, <1>5, <2>1, AppendProperties DEF LogOfAudit
  <2>3. \A n \in 1..(version + 1) : L[n] = Log'[n]
    BY <1>3, <1>7, <1>8, <2>2
  <2> QED BY <1>2, <1>6, <2>1, <2>2, <2>3, SeqEqual DEF LogOfAudit
<1> QED BY <1>2, <1>4, <1>6, <1>7, <1>8, <1>9 DEF LogOfAudit

-----------------------------------------------------------------------------
(* What the log says of the memories and of the candidates *)

\* The log counts the revisions of a memory, holds its promotion, and agrees
\* that an active memory was not invalidated last.
MemoriesMapped ==
  \A m \in Ids :
    /\ IsFiniteSet(Ledger!Touches(m))
    /\ Cardinality(Ledger!Touches(m)) = memories[m].version
    /\ memories[m].status # "absent" => m \in 1..version /\ Log[m].kind = "approve"
    /\ memories[m].status = "active" => Ledger!Live(m)

\* The log counts the decisions on a candidate, and only a promoted or rejected
\* one is closed in it.
CandidatesMapped ==
  \A c \in Candidates :
    /\ IsFiniteSet(Ledger!Decisions(c))
    /\ Cardinality(Ledger!Decisions(c)) = candidates[c].version - 1
    /\ candidates[c].status \notin {"promoted", "rejected"} => Ledger!Open(c)

\* The request r, at position n of the log, writes a revision of memory m.
Touched(r, n, m) ==
  \/ n = m /\ r.kind = "approve"
  \/ r.kind \in MemoryKinds /\ r.target = m

\* A commit adds its position to what it touches and to nothing else.
LEMMA TouchesStep ==
  ASSUME TypeInv, NumberedInv, NEW s \in Slots, Commits(s), NEW m \in Ids
  PROVE  /\ Touched(req[s].cmd, version + 1, m) =>
              Ledger!Touches(m)' = Ledger!Touches(m) \cup {version + 1}
         /\ ~Touched(req[s].cmd, version + 1, m) =>
              Ledger!Touches(m)' = Ledger!Touches(m)
         /\ Ledger!Touches(m) \subseteq 1..version
<1>1. /\ DOMAIN Log = 1..version /\ DOMAIN Log' = 1..(version + 1)
      /\ \A n \in 1..version : Log'[n] = Log[n]
      /\ Log'[version + 1] = req[s].cmd /\ version \in Nat
  BY LogStep, LogTyped DEF LogOfAudit, TypeInv, TypeOK
<1>2. 1..(version + 1) = (1..version) \cup {version + 1}
  BY <1>1
<1> QED BY <1>1, <1>2 DEF Ledger!Touches, Ledger!MutationKinds, MemoryKinds, Touched

\* A memory the commit does not touch keeps what the log says of it.
LEMMA UntouchedStep ==
  ASSUME TypeInv, NumberedInv, MemoriesMapped, NEW s \in Slots, Commits(s), NEW m \in Ids,
         ~Touched(req[s].cmd, version + 1, m), memories'[m] = memories[m]
  PROVE  /\ IsFiniteSet(Ledger!Touches(m)')
         /\ Cardinality(Ledger!Touches(m)') = memories'[m].version
         /\ memories'[m].status # "absent" => m \in 1..version' /\ Log'[m].kind = "approve"
         /\ memories'[m].status = "active" => Ledger!Live(m)'
<1>1. Ledger!Touches(m)' = Ledger!Touches(m) /\ Ledger!Touches(m) \subseteq 1..version
  BY TouchesStep
<1>2. /\ version' = version + 1 /\ version \in Nat
      /\ \A n \in 1..version : Log'[n] = Log[n]
  BY CommitAppends, LogStep DEF TypeInv, TypeOK
<1>3. Ledger!Live(m) => Ledger!Live(m)'
  BY <1>1, <1>2 DEF Ledger!Live
<1> QED BY <1>1, <1>2, <1>3 DEF MemoriesMapped

\* A memory the commit writes a revision of
LEMMA TouchedStep ==
  ASSUME TypeInv, NumberedInv, MemoriesMapped, NEW s \in Slots, Commits(s), NEW m \in Ids,
         Touched(req[s].cmd, version + 1, m),
         memories'[m].version = memories[m].version + 1,
         memories'[m].status = "active" => req[s].cmd.kind # "invalidate",
         (m = version + 1 /\ req[s].cmd.kind = "approve") \/ memories[m].status # "absent"
  PROVE  /\ IsFiniteSet(Ledger!Touches(m)')
         /\ Cardinality(Ledger!Touches(m)') = memories'[m].version
         /\ memories'[m].status # "absent" => m \in 1..version' /\ Log'[m].kind = "approve"
         /\ memories'[m].status = "active" => Ledger!Live(m)'
<1>1. PICK T, n : T = Ledger!Touches(m) /\ n = version + 1
  OBVIOUS
<1>2. Ledger!Touches(m)' = T \cup {n} /\ T \subseteq 1..version
  BY <1>1, TouchesStep
<1>3. /\ version' = n /\ version \in Nat
      /\ \A k \in 1..version : Log'[k] = Log[k]
      /\ Log'[n] = req[s].cmd
  BY <1>1, CommitAppends, LogStep DEF TypeInv, TypeOK
<1>4. IsFiniteSet(T) /\ Cardinality(T) = memories[m].version /\ n \notin T
  BY <1>1, <1>2, <1>3 DEF MemoriesMapped
<1>5. IsFiniteSet(T \cup {n}) /\ Cardinality(T \cup {n}) = memories'[m].version
  BY SMTT(30), <1>4, FS_AddElement
<1>6. m \in 1..version' /\ Log'[m].kind = "approve"
  BY <1>1, <1>3 DEF MemoriesMapped
<1>7. req[s].cmd.kind # "invalidate" => Ledger!Live(m)'
  <2>1. \A k \in T \cup {n} : k <= n
    BY <1>1, <1>2, <1>3
  <2> QED BY <1>2, <1>3, <2>1 DEF Ledger!Live
<1> QED BY <1>2, <1>5, <1>6, <1>7

\* The commits keep the memories mapped; a mutation is one of a memory.
LEMMA MemoriesStep ==
  ASSUME TypeInv, NumberedInv, MemoriesMapped, NEW s \in Slots, Commits(s),
         req[s].cmd.kind \in MemoryKinds => memories[req[s].cmd.target].status # "absent"
  PROVE  MemoriesMapped'
<1>1. /\ req[s].cmd \in Command /\ version + 1 \in Ids /\ version = req[s].base
      /\ memories \in [Ids -> Memory]
  BY CommitPins DEF TypeInv, TypeOK
<1> SUFFICES ASSUME NEW m \in Ids
             PROVE  /\ IsFiniteSet(Ledger!Touches(m)')
                    /\ Cardinality(Ledger!Touches(m)') = memories'[m].version
                    /\ memories'[m].status # "absent" =>
                         m \in 1..version' /\ Log'[m].kind = "approve"
                    /\ memories'[m].status = "active" => Ledger!Live(m)'
  BY DEF MemoriesMapped
<1>2. ASSUME NEW k \in Ids, NEW status, WriteRevision(s, k, status)
      PROVE  /\ m # k => memories'[m] = memories[m]
             /\ m = k => /\ memories'[m].version = memories[m].version + 1
                         /\ memories'[m].status = status
  BY <1>1, <1>2 DEF WriteRevision, NextVersion
<1>3. CASE MutationCommits(s)
  <2>1. /\ req[s].cmd.kind \in MemoryKinds /\ req[s].cmd.target \in Ids
        /\ memories[req[s].cmd.target].status # "absent"
    BY <1>1, <1>3 DEF MutationCommits, Command
  <2>2. Touched(req[s].cmd, version + 1, m) <=> m = req[s].cmd.target
    BY <2>1 DEF Touched, MemoryKinds
  <2>3. /\ m # req[s].cmd.target => memories'[m] = memories[m]
        /\ m = req[s].cmd.target =>
             /\ memories'[m].version = memories[m].version + 1
             /\ memories'[m].status = "active" => req[s].cmd.kind # "invalidate"
    BY <1>2, <1>3, <2>1 DEF MutationCommits
  <2> QED BY <2>1, <2>2, <2>3, TouchedStep, UntouchedStep
<1>4. CASE PromotionCommits(s)
  <2>1. req[s].cmd.kind = "approve" /\ WriteRevision(s, version + 1, "active")
    BY <1>1, <1>4 DEF PromotionCommits
  <2>2. Touched(req[s].cmd, version + 1, m) <=> m = version + 1
    BY <2>1 DEF Touched, MemoryKinds
  <2>3. /\ m # version + 1 => memories'[m] = memories[m]
        /\ m = version + 1 => memories'[m].version = memories[m].version + 1
    BY <1>1, <1>2, <2>1
  <2> QED BY <2>1, <2>2, <2>3, TouchedStep, UntouchedStep
<1>5. CASE ReviewCommits(s)
  <2>1. ~Touched(req[s].cmd, version + 1, m) /\ memories' = memories
    BY <1>5 DEF ReviewCommits, Touched, MemoryKinds
  <2> QED BY <2>1, UntouchedStep
<1> QED BY <1>3, <1>4, <1>5 DEF Commits

\* The commits keep the candidates mapped.
LEMMA CandidatesStep ==
  ASSUME TypeInv, NumberedInv, CandidatesMapped, NEW s \in Slots, Commits(s)
  PROVE  CandidatesMapped'
<1>1. PICK r, n : r = req[s].cmd /\ n = version + 1
  OBVIOUS
<1>2. /\ DOMAIN Log = 1..version /\ DOMAIN Log' = (1..version) \cup {n}
      /\ \A k \in 1..version : Log'[k] = Log[k]
      /\ Log'[n] = r /\ version \in Nat /\ n \notin 1..version
  <2>1. version \in Nat /\ 1..(version + 1) = (1..version) \cup {version + 1}
    BY DEF TypeInv, TypeOK
  <2>2. DOMAIN Log = 1..version
    BY LogTyped DEF LogOfAudit
  <2>3. /\ DOMAIN Log' = 1..(version + 1) /\ Log'[version + 1] = req[s].cmd
        /\ \A k \in 1..version : Log'[k] = Log[k]
    BY LogStep
  <2>4. version + 1 \notin 1..version
    BY <2>1
  <2> QED BY <1>1, <2>1, <2>2, <2>3, <2>4
<1>3. r \in Command /\ candidates \in [Candidates -> Candidate]
  BY <1>1, CommitPins DEF TypeInv, TypeOK
<1> SUFFICES ASSUME NEW c \in Candidates
             PROVE  /\ IsFiniteSet(Ledger!Decisions(c)')
                    /\ Cardinality(Ledger!Decisions(c)') = candidates'[c].version - 1
                    /\ candidates'[c].status \notin {"promoted", "rejected"} =>
                         Ledger!Open(c)'
  BY DEF CandidatesMapped
<1>4. PICK D : D = Ledger!Decisions(c)
  OBVIOUS
<1>5. /\ IsFiniteSet(D) /\ Cardinality(D) = candidates[c].version - 1 /\ D \subseteq 1..version
      /\ candidates[c].status \notin {"promoted", "rejected"} =>
           \A k \in D : Log[k].kind = "request_changes"
  BY <1>2, <1>4 DEF CandidatesMapped, Ledger!Open, Ledger!Decisions
<1>6. CASE r.kind \in MemoryKinds \/ r.target # c
  <2>1. Ledger!Decisions(c)' = D
    BY <1>2, <1>4, <1>6 DEF Ledger!Decisions, Ledger!MutationKinds, MemoryKinds
  <2>2. candidates'[c] = candidates[c]
    <3>1. CASE MutationCommits(s)
      BY <3>1 DEF MutationCommits
    <3>2. CASE PromotionCommits(s) \/ ReviewCommits(s)
      <4>1. r.target # c
        BY <1>1, <1>6, <3>2 DEF PromotionCommits, ReviewCommits, MemoryKinds
      <4>2. \E x : candidates' = [candidates EXCEPT ![r.target] = x]
        BY <1>1, <3>2 DEF PromotionCommits, ReviewCommits, DecideCandidate
      <4> QED BY <1>3, <4>1, <4>2
    <3> QED BY <3>1, <3>2 DEF Commits
  <2> QED BY <1>2, <1>5, <2>1, <2>2 DEF Ledger!Open
<1>7. CASE r.kind \notin MemoryKinds /\ r.target = c
  <2>1. Ledger!Decisions(c)' = D \cup {n}
    BY <1>2, <1>4, <1>7 DEF Ledger!Decisions, Ledger!MutationKinds, MemoryKinds
  <2>2. /\ candidates[c].version = r.item /\ r.item \in Nat
        /\ candidates[c].status \in Reviewable
    BY <1>1, <1>3, <1>7 DEF Commits, PromotionCommits, ReviewCommits, MutationCommits,
       BatchGuard, ReviewKinds, Command
  <2>3. PICK status : /\ candidates'[c].version = r.item + 1
                      /\ candidates'[c].status = status
                      /\ status \notin {"promoted", "rejected"} => r.kind = "request_changes"
    <3>1. CASE PromotionCommits(s)
      BY <1>1, <1>3, <1>7, <3>1 DEF PromotionCommits, DecideCandidate
    <3>2. CASE ReviewCommits(s)
      BY <1>1, <1>3, <1>7, <3>2 DEF ReviewCommits, DecideCandidate
    <3> QED BY <1>1, <1>7, <3>1, <3>2 DEF Commits, MutationCommits
  <2>4. IsFiniteSet(D \cup {n}) /\ Cardinality(D \cup {n}) = r.item
    BY <1>2, <1>5, <2>2, FS_AddElement
  <2>5. status \notin {"promoted", "rejected"} =>
          \A k \in D \cup {n} : Log'[k].kind = "request_changes"
    BY <1>2, <1>5, <2>2, <2>3 DEF Reviewable
  <2> QED BY <2>1, <2>2, <2>3, <2>4, <2>5 DEF Ledger!Open
<1> QED BY <1>6, <1>7

-----------------------------------------------------------------------------
(* What a mutation in flight has read *)

\* What the reads of a mutation r ensure of the current state: its memory
\* exists, the version it states is the one it read, the version it copies is
\* one of the memory, and the memory it invalidates is active unless the project
\* has moved on.
Pinned(r) ==
  r.cmd.kind \in MemoryKinds =>
    /\ r.pc \in {"replay", "read_head"} \cup Writing =>
         memories[r.cmd.target].status # "absent"
    /\ r.pc \in Writing => r.cmd.project = r.base /\ r.base <= version
    /\ r.pc \in {"capacity", "evidence", "batch"} /\ r.cmd.kind = "rollback" =>
         r.cmd.payload \in 1..memories[r.cmd.target].version
    /\ r.pc \in {"evidence", "batch"} /\ r.cmd.kind = "invalidate" /\ r.base = version =>
         memories[r.cmd.target].status = "active"

RequestsPinned == \A s \in Slots : req[s].pc # "idle" => Pinned(req[s])

\* A request that moves to a pinned one keeps the others pinned.
LEMMA PinnedMove ==
  ASSUME TypeInv, RequestsPinned, NEW s \in Slots, NEW r, req' = [req EXCEPT ![s] = r],
         UNCHANGED <<version, memories>>, Pinned(r)
  PROVE  RequestsPinned'
BY DEF RequestsPinned, Pinned, TypeInv, TypeOK

\* Moving on keeps a request pinned, when what its new step relies on holds.
LEMMA PinnedGoto ==
  ASSUME TypeInv, RequestsPinned, NEW s \in Slots, NEW pc \in Pcs, Goto(s, pc),
         UNCHANGED <<version, memories>>, req[s].pc # "idle",
         req[s].cmd.kind \in MemoryKinds /\ pc \in {"replay", "read_head"} \cup Writing =>
           memories[req[s].cmd.target].status # "absent",
         pc \in Writing => req[s].pc \in Writing,
         pc \in {"capacity", "evidence", "batch"} =>
           req[s].pc \in {"capacity", "evidence", "batch"},
         pc \in {"evidence", "batch"} =>
           \/ req[s].pc \in {"evidence", "batch"}
           \/ req[s].cmd.kind = "invalidate" => memories[req[s].cmd.target].status = "active"
  PROVE  RequestsPinned'
<1> DEFINE r == [req[s] EXCEPT !.pc = pc]
<1>1. req \in [Slots -> Request] /\ req[s] \in Request
  BY DEF TypeInv, TypeOK
<1>2. /\ req' = [req EXCEPT ![s] = r] /\ r.pc = pc /\ r.cmd = req[s].cmd
      /\ r.base = req[s].base
  BY <1>1 DEF Goto, Request
<1> HIDE DEF r
<1>3. Pinned(req[s])
  BY DEF RequestsPinned
<1>4. Pinned(r)
  BY <1>2, <1>3 DEF Pinned, Writing
<1> QED BY <1>1, <1>2, <1>4, PinnedMove

\* The steps of a request that commit nothing
LEMMA PinnedKept ==
  ASSUME TypeInv, HistoryInv, RequestsPinned, NEW s \in Slots,
         Submit(s) \/ Lose(s) \/ Handle(s), ~Commits(s)
  PROVE  RequestsPinned'
<1>1. /\ req \in [Slots -> Request] /\ req[s] \in Request
      /\ UNCHANGED <<version, memories>> /\ version \in Nat
      /\ memories \in [Ids -> Memory]
      /\ req[s].pc # "idle" => req[s].cmd \in Command /\ Pinned(req[s])
  <2>1. UNCHANGED stored
    BY QuietRequest
  <2> QED BY <2>1 DEF TypeInv, TypeOK, ControlOK, RequestsPinned, stored
<1>2. ASSUME NEW reply, Answer(s, reply)
      PROVE  RequestsPinned'
  <2> DEFINE r == [IdleRequest EXCEPT !.pc = "done", !.cmd = req[s].cmd, !.reply = reply]
  <2>1. req' = [req EXCEPT ![s] = r] /\ r.pc = "done"
    BY <1>2 DEF Answer, IdleRequest
  <2> HIDE DEF r
  <2> QED BY <1>1, <2>1, PinnedMove DEF Pinned, Writing
<1>3. ASSUME NEW code, Fail(s, code)
      PROVE  RequestsPinned'
  BY <1>2, <1>3 DEF Fail
<1>4. CASE Submit(s)
  <2>1. PICK c : req' = [req EXCEPT ![s] = [IdleRequest EXCEPT !.pc = "auth", !.cmd = c]]
    BY <1>4 DEF Submit
  <2> DEFINE r == [IdleRequest EXCEPT !.pc = "auth", !.cmd = c]
  <2>2. req' = [req EXCEPT ![s] = r] /\ r.pc = "auth"
    BY <2>1 DEF IdleRequest
  <2> HIDE DEF r
  <2> QED BY <1>1, <2>2, PinnedMove DEF Pinned, Writing
<1>5. CASE Lose(s) \/ BatchWritesNothing(s) \/ BatchAborts(s)
  BY <1>3, <1>5 DEF Lose, BatchWritesNothing, BatchAborts
<1>6. CASE CheckMaintainer(s)
  <2>1. CASE Goto(s, "context")
    BY <1>1, <1>6, <2>1, PinnedGoto DEF CheckMaintainer, Writing, Pcs
  <2>2. CASE Goto(s, "replay") /\ req[s].cmd.kind \notin MemoryKinds
    BY <1>1, <1>6, <2>2, PinnedGoto DEF CheckMaintainer, Writing, Pcs
  <2> QED BY <1>3, <1>6, <2>1, <2>2 DEF CheckMaintainer
<1>7. CASE ResolveContext(s)
  BY <1>1, <1>3, <1>7, PinnedGoto DEF ResolveContext, Writing, Pcs
<1>8. CASE ReadReceipt(s)
  <2>1. ASSUME NEW i, req' = [req EXCEPT ![s].pc = "ensure", ![s].reply = i.response]
        PROVE  RequestsPinned'
    <3> DEFINE r == [req[s] EXCEPT !.pc = "ensure", !.reply = i.response]
    <3>1. req' = [req EXCEPT ![s] = r] /\ r.pc = "ensure"
      BY <1>1, <2>1 DEF Request
    <3> HIDE DEF r
    <3> QED BY <1>1, <3>1, PinnedMove DEF Pinned, Writing
  <2>2. CASE Goto(s, "read_head")
    <3>1. req[s].cmd.kind \in MemoryKinds => memories[req[s].cmd.target].status # "absent"
      BY <1>1, <1>8 DEF ReadReceipt, Pinned
    <3> QED BY <1>1, <1>8, <2>2, <3>1, PinnedGoto DEF ReadReceipt, Writing, Pcs
  <2> QED BY <1>2, <1>3, <1>8, <2>1, <2>2 DEF ReadReceipt
<1>9. CASE ReadMutationHead(s) \/ ReadCandidateHead(s)
  <2>1. ASSUME NEW pc \in {"resolve", "batch"},
               req' = [req EXCEPT ![s].pc = pc, ![s].base = version, ![s].previous = head],
               req[s].cmd.kind \in MemoryKinds => pc = "resolve" /\ req[s].cmd.project = version
        PROVE  RequestsPinned'
    <3> DEFINE r == [req[s] EXCEPT !.pc = pc, !.base = version, !.previous = head]
    <3>1. /\ req' = [req EXCEPT ![s] = r] /\ r.pc = pc /\ r.cmd = req[s].cmd
          /\ r.base = version
      BY <1>1, <2>1 DEF Request
    <3> HIDE DEF r
    <3>2. Pinned(req[s]) /\ req[s].pc = "read_head"
      BY <1>1, <1>9 DEF ReadMutationHead, ReadCandidateHead
    <3>3. Pinned(r)
      BY <1>1, <2>1, <3>1, <3>2 DEF Pinned, Writing
    <3> QED BY <1>1, <3>1, <3>3, PinnedMove
  <2>2. CASE ReadMutationHead(s)
    BY <1>3, <2>1, <2>2 DEF ReadMutationHead, Stale
  <2>3. CASE ReadCandidateHead(s)
    <3>1. req[s].cmd.kind \notin MemoryKinds
      BY <2>3 DEF ReadCandidateHead, MemoryKinds, ReviewKinds
    <3>2. \/ \E code : Fail(s, code)
          \/ req' = [req EXCEPT
               ![s].pc = IF req[s].cmd.kind = "approve" THEN "resolve" ELSE "batch",
               ![s].base = version, ![s].previous = head]
      BY <2>3 DEF ReadCandidateHead
    <3> QED BY <1>3, <2>1, <3>1, <3>2
  <2> QED BY <1>9, <2>2, <2>3
<1>10. CASE ResolveContent(s)
  <2>1. ASSUME NEW content,
               req' = [req EXCEPT ![s].pc = "capacity", ![s].content = content],
               req[s].cmd.kind = "rollback" =>
                 \E x \in HistoryOf(req[s].cmd.target) : x.version = req[s].cmd.payload
        PROVE  RequestsPinned'
    <3> DEFINE r == [req[s] EXCEPT !.pc = "capacity", !.content = content]
    <3>1. /\ req' = [req EXCEPT ![s] = r] /\ r.pc = "capacity" /\ r.cmd = req[s].cmd
          /\ r.base = req[s].base
      BY <1>1, <2>1 DEF Request
    <3> HIDE DEF r
    <3>2. Pinned(req[s]) /\ req[s].pc = "resolve" /\ req[s].cmd \in Command
      BY <1>1, <1>10 DEF ResolveContent
    <3>3. req[s].cmd.kind = "rollback" =>
            req[s].cmd.payload \in 1..memories[req[s].cmd.target].version
      <4> SUFFICES ASSUME req[s].cmd.kind = "rollback"
                   PROVE  req[s].cmd.payload \in 1..memories[req[s].cmd.target].version
        OBVIOUS
      <4>1. req[s].cmd.target \in Ids
        BY <3>2 DEF Command, MemoryKinds
      <4>2. {x.version : x \in HistoryOf(req[s].cmd.target)}
              = 1..memories[req[s].cmd.target].version
        BY <4>1 DEF HistoryInv, HistoryAt
      <4> QED BY <2>1, <4>2
    <3>4. Pinned(r)
      BY <3>1, <3>2, <3>3 DEF Pinned, Writing
    <3> QED BY <1>1, <3>1, <3>4, PinnedMove
  <2>2. \/ \E code : Fail(s, code)
        \/ /\ \E content : req' = [req EXCEPT ![s].pc = "capacity", ![s].content = content]
           /\ req[s].cmd.kind = "rollback" =>
                \E x \in HistoryOf(req[s].cmd.target) : x.version = req[s].cmd.payload
    BY <1>10 DEF ResolveContent
  <2> QED BY <1>3, <2>1, <2>2
<1>11. CASE CheckCapacity(s)
  <2>1. Pinned(req[s]) /\ req[s].cmd \in Command
    BY <1>1, <1>11 DEF CheckCapacity
  <2>2. req[s].cmd.kind \in MemoryKinds => memories[req[s].cmd.target].status # "absent"
    BY <1>11, <2>1 DEF CheckCapacity, Pinned, Writing
  <2>3. ASSUME WithinCapacity(req[s].cmd, req[s].content),
               NEW pc \in {"batch", "evidence"}, Goto(s, pc)
        PROVE  RequestsPinned'
    <3>1. req[s].cmd.kind = "invalidate" => memories[req[s].cmd.target].status = "active"
      BY <2>3 DEF WithinCapacity
    <3> QED BY <1>1, <1>11, <2>2, <2>3, <3>1, PinnedGoto DEF CheckCapacity, Writing, Pcs
  <2>4. \/ \E code : Fail(s, code)
        \/ /\ WithinCapacity(req[s].cmd, req[s].content)
           /\ \E pc \in {"batch", "evidence"} : Goto(s, pc)
    BY <1>11 DEF CheckCapacity
  <2> QED BY <1>3, <2>3, <2>4
<1>12. CASE PreflightEvidence(s)
  <2>1. Pinned(req[s]) /\ req[s].pc = "evidence"
    BY <1>1, <1>12 DEF PreflightEvidence
  <2>2. req[s].cmd.kind \in MemoryKinds => memories[req[s].cmd.target].status # "absent"
    BY <2>1 DEF Pinned, Writing
  <2> QED BY <1>1, <1>3, <1>12, <2>1, <2>2, PinnedGoto DEF PreflightEvidence, Writing, Pcs
<1>13. CASE EnsureProjection(s)
  BY <1>2, <1>3, <1>13 DEF EnsureProjection
<1> QED BY <1>4, <1>5, <1>6, <1>7, <1>8, <1>9, <1>10, <1>11, <1>12, <1>13 DEF Handle, Commits

\* A commit moves the project past every other request in flight, and lets
\* memories only grow.
LEMMA PinnedCommit ==
  ASSUME TypeInv, RequestsPinned, NEW s \in Slots, Commits(s)
  PROVE  RequestsPinned'
<1>1. /\ req \in [Slots -> Request] /\ req[s] \in Request /\ req[s].cmd \in Command
      /\ version \in Nat /\ version' = version + 1 /\ version = req[s].base
      /\ version + 1 \in Ids /\ memories \in [Ids -> Memory]
      /\ req[s].pc = "batch"
  BY CommitPins, CommitAppends DEF TypeInv, TypeOK
<1>2. PICK r : req' = [req EXCEPT ![s] = r] /\ r.pc \in {"ensure", "done"}
  <2>1. CASE MutationCommits(s) \/ ReviewCommits(s)
    <3> DEFINE r == [IdleRequest EXCEPT !.pc = "done", !.cmd = req[s].cmd,
                                        !.reply = Committed(version + 1)]
    <3>1. req' = [req EXCEPT ![s] = r] /\ r.pc = "done"
      BY <1>1, <2>1 DEF MutationCommits, ReviewCommits, Answer, IdleRequest
    <3> HIDE DEF r
    <3> QED BY <3>1
  <2>2. CASE PromotionCommits(s)
    <3> DEFINE r == [req[s] EXCEPT !.pc = "ensure", !.reply = Committed(version + 1)]
    <3>1. req' = [req EXCEPT ![s] = r] /\ r.pc = "ensure"
      BY <1>1, <2>2 DEF PromotionCommits, Request
    <3> HIDE DEF r
    <3> QED BY <3>1
  <2> QED BY <2>1, <2>2 DEF Commits
<1>3. \A m \in Ids : /\ memories[m].status # "absent" => memories'[m].status # "absent"
                     /\ memories[m].version <= memories'[m].version
                     /\ memories'[m].version \in Nat
  <2>1. ASSUME NEW k \in Ids, NEW status \in {"active", "invalidated"},
               WriteRevision(s, k, status)
        PROVE  \A m \in Ids :
                 /\ memories[m].status # "absent" => memories'[m].status # "absent"
                 /\ memories[m].version <= memories'[m].version
                 /\ memories'[m].version \in Nat
    <3>1. PICK x : /\ memories' = [memories EXCEPT ![k] = x]
                   /\ x.status = status /\ x.version = memories[k].version + 1
      <4> DEFINE x == [status |-> status, version |-> memories[k].version + 1,
                       content |-> req[s].content]
      <4>1. memories' = [memories EXCEPT ![k] = x]
        BY <2>1 DEF WriteRevision, NextVersion
      <4>2. x.status = status /\ x.version = memories[k].version + 1
        OBVIOUS
      <4> HIDE DEF x
      <4> QED BY <4>1, <4>2
    <3>2. \A m \in Ids : memories[m].version \in Nat
      BY <1>1 DEF Memory
    <3> QED BY <1>1, <3>1, <3>2
  <2>2. CASE MutationCommits(s)
    <3>1. req[s].cmd.target \in Ids
      BY <1>1, <2>2 DEF MutationCommits, Command
    <3> QED BY <2>1, <2>2, <3>1 DEF MutationCommits
  <2>3. CASE PromotionCommits(s)
    BY <1>1, <2>1, <2>3 DEF PromotionCommits
  <2>4. CASE ReviewCommits(s)
    BY <1>1, <2>4 DEF ReviewCommits, Memory
  <2> QED BY <2>2, <2>3, <2>4 DEF Commits
<1>4. ASSUME NEW t \in Slots, t # s, req[t].pc # "idle", Pinned(req[t])
      PROVE  Pinned(req[t])'
  <2>1. req'[t] = req[t] /\ req[t].cmd \in Command /\ req[t] \in Request
    BY <1>1, <1>2, <1>4 DEF TypeInv, ControlOK
  <2>2. req[t].cmd.kind \in MemoryKinds => req[t].cmd.target \in Ids
    BY <2>1 DEF Command
  <2>3. req[t].base \in Nat /\ version \in Nat
    BY <1>1, <2>1 DEF Request
  <2>4. \A x : x \in Ids => memories[x].version \in Nat
    BY <1>1 DEF Memory
  <2> QED BY <1>1, <1>3, <1>4, <2>1, <2>2, <2>3, <2>4 DEF Pinned, Writing
<1>5. req'[s] = r /\ Pinned(r)'
  BY <1>1, <1>2 DEF Pinned, Writing
<1>6. ASSUME NEW t \in Slots, (req[t].pc # "idle")'
      PROVE  Pinned(req[t])'
  <2>1. CASE t = s
    BY <1>5, <2>1 DEF Pinned
  <2>2. CASE t # s
    <3>1. req'[t] = req[t]
      BY <1>1, <1>2, <2>2
    <3>2. req[t].pc # "idle" /\ Pinned(req[t])
      BY <1>6, <3>1 DEF RequestsPinned
    <3> QED BY <1>4, <2>2, <3>2
  <2> QED BY <2>1, <2>2
<1> QED BY <1>6 DEF RequestsPinned

-----------------------------------------------------------------------------
(* The refinement *)

\* The mapping and what the requests rely on, together.
MappedInv == NumberedInv /\ MemoriesMapped /\ CandidatesMapped /\ RequestsPinned

\* The state a project is created in maps to the empty log.
LEMMA MappedInit == Init => MappedInv /\ Ledger!Init
<1> SUFFICES ASSUME Init PROVE MappedInv /\ Ledger!Init
  OBVIOUS
<1>1. TypeInv /\ version = 0 /\ audit = {}
  BY TypeInvInit DEF Init
<1>2. NumberedInv
  BY <1>1 DEF NumberedInv
<1>3. Log \in Seq(Command) /\ Len(Log) = 0 /\ DOMAIN Log = {}
  BY <1>1, <1>2, LogTyped DEF LogOfAudit
<1>4. Log = <<>>
  BY <1>3, EmptySeq
<1>5. /\ \A m \in Ids : Ledger!Touches(m) = {}
      /\ \A c \in Candidates : Ledger!Decisions(c) = {}
  BY <1>3 DEF Ledger!Touches, Ledger!Decisions
<1>6. MemoriesMapped
  BY <1>5, FS_EmptySet DEF MemoriesMapped, Init, Absent
<1>7. CandidatesMapped
  <2>1. \A c \in Candidates : candidates[c].version - 1 = 0
    BY DEF Init
  <2> QED BY <1>5, <2>1, FS_EmptySet DEF CandidatesMapped, Ledger!Open
<1>8. RequestsPinned
  BY DEF RequestsPinned, Init, IdleRequest
<1> QED BY <1>2, <1>4, <1>6, <1>7, <1>8 DEF MappedInv, Ledger!Init

\* A step that writes no table keeps the log and what it says.
LEMMA MappedFrame ==
  ASSUME NumberedInv, MemoriesMapped, CandidatesMapped,
         UNCHANGED <<version, audit, memories, candidates>>
  PROVE  /\ NumberedInv' /\ MemoriesMapped' /\ CandidatesMapped' /\ Log' = Log
<1>1. Log' = Log
  BY DEF Log
<1>2. /\ \A m \in Ids : Ledger!Touches(m)' = Ledger!Touches(m) /\ (Ledger!Live(m) => Ledger!Live(m)')
      /\ \A c \in Candidates : /\ Ledger!Decisions(c)' = Ledger!Decisions(c)
                               /\ Ledger!Open(c) => Ledger!Open(c)'
  BY <1>1 DEF Ledger!Touches, Ledger!Live, Ledger!Decisions, Ledger!Open
<1>3. NumberedInv' /\ MemoriesMapped' /\ CandidatesMapped'
  BY <1>1, <1>2 DEF NumberedInv, MemoriesMapped, CandidatesMapped
<1> QED BY <1>1, <1>3

\* The analysis neither promotes nor rejects, and leaves the versions alone.
LEMMA MappedAnalysis ==
  ASSUME TypeInv, NumberedInv, MemoriesMapped, CandidatesMapped,
         NEW k \in Candidates, AnalyzeCandidate(k)
  PROVE  NumberedInv' /\ MemoriesMapped' /\ CandidatesMapped' /\ Log' = Log
<1>1. UNCHANGED <<version, audit, memories>> /\ Log' = Log
  BY DEF AnalyzeCandidate, Log
<1>2. /\ \A m \in Ids : Ledger!Touches(m)' = Ledger!Touches(m) /\ (Ledger!Live(m) => Ledger!Live(m)')
      /\ \A c \in Candidates : /\ Ledger!Decisions(c)' = Ledger!Decisions(c)
                               /\ Ledger!Open(c) => Ledger!Open(c)'
  BY <1>1 DEF Ledger!Touches, Ledger!Live, Ledger!Decisions, Ledger!Open
<1>3. \A c \in Candidates :
        /\ candidates'[c].version = candidates[c].version
        /\ candidates[c].status \in {"promoted", "rejected"} =>
             candidates'[c].status = candidates[c].status
  <2>1. PICK status : candidates' = [candidates EXCEPT ![k].status = status]
    BY DEF AnalyzeCandidate
  <2>2. candidates[k].status = "queued" /\ candidates \in [Candidates -> Candidate]
    BY DEF AnalyzeCandidate, Queued, TypeInv, TypeOK
  <2> QED BY <2>1, <2>2 DEF Candidate
<1>4. NumberedInv' /\ MemoriesMapped'
  BY <1>1, <1>2 DEF NumberedInv, MemoriesMapped
<1>5. CandidatesMapped'
  BY <1>2, <1>3 DEF CandidatesMapped
<1> QED BY <1>1, <1>4, <1>5

\* A commit is an append of the ledger: whatever the request read, the versions
\* it states are the ones the log gives.
LEMMA CommitApplies ==
  ASSUME TypeInv, ReceiptInv, MappedInv, NEW s \in Slots, Commits(s)
  PROVE  Ledger!Next
<1>1. PICK r : r = req[s].cmd
  OBVIOUS
<1>2. /\ r \in Command /\ r.actor \in maintainers /\ Receipts(r) = {}
      /\ req[s].pc = "batch" /\ version = req[s].base /\ version \in Nat
      /\ memories \in [Ids -> Memory] /\ candidates \in [Candidates -> Candidate]
      /\ BatchGuard(s) /\ UNCHANGED maintainers
      /\ r.kind \in MemoryKinds => memories[r.target].version = r.item
  BY SMTT(30), <1>1, CommitPins
     DEF TypeInv, TypeOK, Commits, MutationCommits, PromotionCommits,
     ReviewCommits, authority
<1>3. /\ Log \in Seq(Command) /\ Len(Log) = version /\ DOMAIN Log = 1..version
      /\ \A n \in 1..version : \E a \in audit : Log[n] = a.digest
  BY LogTyped DEF MappedInv, LogOfAudit
<1>4. Log' = Append(Log, r) /\ Len(Log') = Len(Log) + 1 /\ Log'[Len(Log')] = r
  <2>1. Log' = Append(Log, r)
    BY <1>1, LogStep DEF MappedInv
  <2> QED BY <1>2, <1>3, <2>1, AppendProperties
<1>5. \A n \in DOMAIN Log : Ledger!Slot(Log[n]) # Ledger!Slot(r)
  <2> SUFFICES ASSUME NEW n \in 1..version, Ledger!Slot(Log[n]) = Ledger!Slot(r)
               PROVE  FALSE
    BY <1>3
  <2>1. PICK i \in idem : i.digest = Log[n]
    BY <1>3 DEF ReceiptInv
  <2>2. SameKey(i.digest, r)
    BY <2>1 DEF Ledger!Slot, Ledger!MutationKinds, SameKey, Operation, MemoryKinds
  <2> QED BY <1>2, <2>2 DEF Receipts
<1>6. Ledger!Applies(r)
  <2>1. CASE r.kind \in MemoryKinds
    <3>1. PICK m : m = r.target /\ m \in Ids
      BY <1>2, <2>1 DEF Command
    <3>2. Pinned(req[s])
      BY <1>2 DEF MappedInv, RequestsPinned
    <3>3. /\ memories[m].status # "absent" /\ r.project = version
          /\ r.kind = "rollback" => r.payload \in 1..memories[m].version
          /\ r.kind = "invalidate" => memories[m].status = "active"
      BY <1>1, <1>2, <2>1, <3>1, <3>2 DEF Pinned, Writing
    <3>4. /\ Ledger!MemoryVersion(m) = memories[m].version
          /\ m \in 1..version /\ Log[m].kind = "approve"
          /\ memories[m].status = "active" => Ledger!Live(m)
      BY <3>1, <3>3, SameCount DEF MappedInv, MemoriesMapped, Ledger!MemoryVersion
    <3> QED BY <1>2, <1>3, <2>1, <3>1, <3>3, <3>4
            DEF Ledger!Applies, Ledger!MutationKinds, MemoryKinds
  <2>2. CASE r.kind \in ReviewKinds
    <3>1. /\ r.target \in Candidates /\ r.item \in Nat
          /\ candidates[r.target].version = r.item
          /\ candidates[r.target].status \in Reviewable
      BY <1>1, <1>2, <2>2 DEF Command, BatchGuard
    <3>2. /\ Cardinality(Ledger!Decisions(r.target)) = r.item - 1
          /\ Ledger!Open(r.target)
      BY <3>1 DEF MappedInv, CandidatesMapped, Reviewable
    <3>3. r.item = Ledger!CandidateVersion(r.target)
      BY <3>1, <3>2, SameCount DEF Ledger!CandidateVersion
    <3> QED BY <2>2, <3>2, <3>3 DEF Ledger!Applies, Ledger!MutationKinds, ReviewKinds
  <2>3. r.kind \in MemoryKinds \cup ReviewKinds
    BY <1>2 DEF Command
  <2> QED BY <2>1, <2>2, <2>3
<1>7. Ledger!Apply(r)
  BY <1>2, <1>4, <1>5, <1>6 DEF Ledger!Apply
<1> QED BY <1>4, <1>7 DEF Ledger!Next

\* Every step maps to an append, to a revocation or to a stutter.
LEMMA MappedStep ==
  ASSUME TypeInv, HistoryInv, ReceiptInv, MappedInv, [Next]_vars
  PROVE  MappedInv' /\ [Ledger!Next]_<<Log, maintainers>>
<1>1. ASSUME NEW s \in Slots, Commits(s)
      PROVE  MappedInv' /\ Ledger!Next
  <2>1. req[s].cmd.kind \in MemoryKinds => memories[req[s].cmd.target].status # "absent"
    BY <1>1, CommitPins DEF MappedInv, RequestsPinned, Pinned, Writing
  <2> QED BY <1>1, <2>1, LogStep, MemoriesStep, CandidatesStep, PinnedCommit, CommitApplies
          DEF MappedInv
<1>2. ASSUME NEW s \in Slots, Submit(s) \/ Lose(s) \/ Handle(s), ~Commits(s)
      PROVE  MappedInv' /\ UNCHANGED <<Log, maintainers>>
  <2>1. UNCHANGED <<version, audit, memories, candidates>>
    BY <1>2, QuietRequest DEF stored
  <2>2. UNCHANGED maintainers
    BY <1>2 DEF Submit, Lose, Handle, Commits, CheckMaintainer, ResolveContext,
       ReadReceipt, ReadMutationHead, ReadCandidateHead, ResolveContent, CheckCapacity,
       PreflightEvidence, BatchWritesNothing, BatchAborts, EnsureProjection, authority
  <2> QED BY <1>2, <2>1, <2>2, MappedFrame, PinnedKept DEF MappedInv
<1>3. ASSUME NEW c \in Candidates, AnalyzeCandidate(c)
      PROVE  MappedInv' /\ UNCHANGED <<Log, maintainers>>
  <2>1. UNCHANGED <<version, memories, req, maintainers>>
    BY <1>3 DEF AnalyzeCandidate, authority
  <2>2. RequestsPinned'
    BY <2>1 DEF MappedInv, RequestsPinned, Pinned
  <2> QED BY <1>3, <2>1, <2>2, MappedAnalysis DEF MappedInv
<1>4. ASSUME UNCHANGED <<version, audit, memories, candidates, req>>
      PROVE  MappedInv' /\ UNCHANGED Log
  <2>1. RequestsPinned'
    BY <1>4 DEF MappedInv, RequestsPinned, Pinned
  <2> QED BY <1>4, <2>1, MappedFrame DEF MappedInv
<1>5. ASSUME NEW p \in Principals, RevokeGrant(p)
      PROVE  MappedInv' /\ Ledger!Next
  <2>1. UNCHANGED <<version, audit, memories, candidates, req>>
        /\ maintainers' \subseteq maintainers
    BY <1>5 DEF RevokeGrant, stored
  <2> QED BY <1>4, <2>1 DEF Ledger!Next, Ledger!Revoke
<1>6. CASE Fence \/ (\E p \in Provenances : OtherEvidence(p)) \/ UNCHANGED vars
  <2>1. UNCHANGED <<version, audit, memories, candidates, req, maintainers>>
    BY <1>6 DEF Fence, OtherEvidence, stored, authority, vars
  <2> QED BY <1>4, <2>1
<1> QED BY <1>1, <1>2, <1>3, <1>5, <1>6 DEF Next

\* The coordinator implements the serial ledger: the interleaved requests,
\* retries, lost replies and revocations of any number of clients are one log,
\* to which each commit appends a request of a maintainer that has not been
\* applied before and states the versions of the log itself.
THEOREM LedgerImplemented == Spec => ImplementsLedger
<1>1. Spec => [](TypeInv /\ RowsInv /\ HistoryInv)
  BY TablesInvariant
<1>2. Spec => [](TypeInv /\ ReceiptInv /\ AtMostOncePerKey)
  BY KeysInvariant
<1>3. Init => MappedInv /\ Ledger!Init
  BY MappedInit
<1>4. TypeInv /\ HistoryInv /\ ReceiptInv /\ MappedInv /\ [Next]_vars
        => MappedInv' /\ [Ledger!Next]_<<Log, maintainers>>
  BY MappedStep
<1> QED BY <1>1, <1>2, <1>3, <1>4, PTL DEF Spec, ImplementsLedger, Ledger!Spec

=============================================================================
