------------------------ MODULE GitHubManifestsProofs ------------------------
(***************************************************************************)
(* Proofs about GitHubManifests for every value of its constants: the      *)
(* manifests of the heads are whole and stay so, the heads and their       *)
(* differences replay the history, losses are reviewed, a purge is         *)
(* accounted for, and retention spares the manifest of a live run.         *)
(***************************************************************************)
EXTENDS GitHubManifests, FiniteSetTheorems, SequenceTheorems, TLAPS

-----------------------------------------------------------------------------
(* Types *)

Statuses == {"none", "staging", "complete", "failed", "purging", "purged"}
Trees == [Paths -> Blobs \cup {"none", "partial"}]

RunRows ==
  [st : {"none", "running", "complete", "failed"}, live : BOOLEAN,
   head : Nat, cur : Nat]
ManifestRows ==
  [st : Statuses, entries : Trees, born : Nat, count : Nat, old : BOOLEAN,
   ver : Nat, hold : {"free", "leased", "deferred"}]
Receipts ==
  [old : SUBSET Manifests, new : Manifests, slot : Slots, cited : SUBSET Paths]
Events == [m : Manifests, ver : Nat, chunk : SUBSET Paths]

WorkflowLocals ==
  [pc : {"none", "sync", "wait", "list", "sweep", "record", "fail", "finish", "done"},
   tries : Nat, todo : SUBSET Manifests]
AttemptLocals ==
  [pc : {"idle", "head", "ref", "begin", "blobs", "store", "complete", "seal",
         "activate", "failed"},
   base : Nat, commit : Trees, entries : Trees, todo : SUBSET Paths, staged : BOOLEAN]
JobLocals ==
  [pc : {"none", "staging", "claim", "select", "delete", "purge", "done"},
   todo : SUBSET Manifests, m : SUBSET Manifests, ver : Nat, chunk : SUBSET Paths]
Failures == [m : SUBSET Manifests, n : Nat \cup {-1}]

WorldTyped ==
  clock \in Slots /\ remote \in Commits /\ cursor \in Nat \ {0} /\ cited \subseteq Paths
TablesTyped ==
  /\ run \in [Slots -> RunRows]
  /\ manifest \in [Manifests -> ManifestRows]
  /\ receipts \in Seq(Receipts)
  /\ events \subseteq Events
  /\ \A m \in Manifests : manifest[m].hold # "free" => manifest[m].st = "purging"
LocalsTyped ==
  /\ wf \in [Slots -> WorkflowLocals]
  /\ att \in [Slots -> AttemptLocals]
  /\ job \in [Jobs -> JobLocals]
  /\ fail \in [Failers -> Failures]

-----------------------------------------------------------------------------
(* The inductive invariant *)

Reading == {"store", "complete", "seal", "activate"}

\* Entries of the tree of a commit: every blob, or a mark for it
TreeRead(e, c) ==
  \A p \in Paths : /\ e[p] \in {"partial", c[p]}
                   /\ e[p] = "none" <=> c[p] = "none"

\* An attempt has read the tree of its commit.
AttemptKnows(s) ==
  /\ att[s].pc # "idle" => wf[s].pc # "none"
  /\ att[s].pc \in {"begin", "blobs"} \cup Reading => att[s].commit \in Commits
  /\ att[s].staged => att[s].commit \in Commits
  /\ att[s].pc \in Reading =>
       TreeRead(att[s].entries, att[s].commit)

AttemptsKnow == \A s \in Slots : AttemptKnows(s)

\* Whoever stored them, entries are of the manifest's commit; sealed is whole.
EntriesTrue ==
  \A m \in Manifests :
    /\ \A p \in Paths : manifest[m].entries[p] \in {"none", "partial", Commit(m)[p]}
    /\ manifest[m].st = "complete" => manifest[m].entries = Commit(m)
    /\ manifest[m].st # "none" => wf[Slot(m)].pc # "none"

\* A run is claimed once; the run of a receipt is over.
RunsTrue ==
  /\ \A s \in Slots : wf[s].pc = "none" => run[s].st = "none"
  /\ \A v \in 1 .. Len(receipts) :
       /\ receipts[v].slot = Slot(receipts[v].new)
       /\ run[receipts[v].slot].st = "complete"
       /\ manifest[receipts[v].new].st = "complete"
  /\ \A d \in deltas : \E v \in 1 .. Len(receipts) : d.new = receipts[v].new

\* What retention has put on its list stays abandoned: its run is not claimed
\* a second time.
Spared(m) ==
  /\ manifest[m].st # "none"
  /\ ~(run[Slot(m)].st = "running" /\ run[Slot(m)].live)

JobHas(j) == job[j].todo \cup fail[<<"job", j>>].m

RetentionTrue ==
  \A j \in Jobs :
    /\ \A m \in JobHas(j) : Spared(m)
    /\ job[j].pc \in {"claim", "select", "delete", "purge"} =>
         \E m \in Manifests : job[j].m = {m}

EventsOf(m) == {f \in events : f.m = m}
Chunks(m) == UNION {e.chunk : e \in EventsOf(m)}

\* What was purged and what is left never overlap, and are what there was.
Accounted ==
  \A m \in Manifests :
    /\ EventsOf(m) # {} => manifest[m].st \in {"purging", "purged"}
    /\ Chunks(m) \cap Stored(manifest[m].entries) = {}
    /\ manifest[m].st \in {"failed", "purging", "purged"} =>
         manifest[m].count = Cardinality(Chunks(m) \cup Stored(manifest[m].entries))
    /\ manifest[m].st = "purged" => Stored(manifest[m].entries) = {}

ManifestInv ==
  /\ WorldTyped /\ TablesTyped /\ LocalsTyped
  /\ AttemptsKnow /\ EntriesTrue /\ RunsTrue /\ RetentionTrue /\ Accounted
  /\ HistoryIsReplayable /\ LossesAreReviewed

-----------------------------------------------------------------------------
(* What a step does, whoever takes it *)

EventsKept(m) == EventsOf(m)' = EventsOf(m)

\* One manifest: begun, written, sealed whole, failed with the number of its
\* entries, claimed, purged of a chunk with an event, and purged altogether
RowKept(m) ==
  /\ manifest'[m].st = manifest[m].st
  /\ manifest'[m].entries = manifest[m].entries
  /\ manifest'[m].count = manifest[m].count
RowBegun(m) ==
  /\ manifest[m].st = "none" /\ manifest'[m].st = "staging"
  /\ manifest'[m].entries = manifest[m].entries
  /\ wf[Slot(m)].pc # "none"
RowWritten(m) ==
  /\ manifest[m].st = "staging" /\ manifest'[m].st = "staging"
  /\ \A p \in Paths :
       manifest'[m].entries[p] \in {manifest[m].entries[p], "none", "partial", Commit(m)[p]}
RowSealed(m) ==
  /\ manifest[m].st = "staging" /\ manifest'[m].st = "complete"
  /\ manifest'[m].entries = Commit(m)
RowFailed(m) ==
  /\ manifest[m].st = "staging" /\ manifest'[m].st = "failed"
  /\ manifest'[m].entries = manifest[m].entries
  /\ manifest'[m].count = Cardinality(Stored(manifest[m].entries))
RowClaimed(m) ==
  /\ manifest[m].st \in {"failed", "purging"} /\ manifest'[m].st = "purging"
  /\ manifest'[m].entries = manifest[m].entries
  /\ manifest'[m].count = manifest[m].count
RowEmptied(m) ==
  /\ manifest[m].st = "purging" /\ manifest'[m].st = "purged"
  /\ Stored(manifest[m].entries) = {}
  /\ manifest'[m].entries = manifest[m].entries
  /\ manifest'[m].count = manifest[m].count
RowPurged(m) ==
  /\ manifest[m].st = "purging" /\ manifest'[m].st = "purging"
  /\ manifest'[m].count = manifest[m].count
  /\ \E chunk \in SUBSET Paths, ver \in Nat :
       /\ chunk \subseteq Stored(manifest[m].entries)
       /\ manifest'[m].entries =
            [p \in Paths |-> IF p \in chunk THEN "none" ELSE manifest[m].entries[p]]
       /\ EventsOf(m)' = EventsOf(m) \cup {[m |-> m, ver |-> ver, chunk |-> chunk]}

RowStep(m) ==
  \/ /\ EventsKept(m)
     /\ RowKept(m) \/ RowBegun(m) \/ RowWritten(m) \/ RowSealed(m) \/ RowFailed(m)
          \/ RowClaimed(m) \/ RowEmptied(m)
  \/ RowPurged(m)

ManifestStep ==
  /\ manifest' \in [Manifests -> ManifestRows]
  /\ \A m \in Manifests : manifest'[m].hold # "free" => manifest'[m].st = "purging"
  /\ events' \subseteq Events
  /\ \A m \in Manifests : RowStep(m)

\* A run begins with its Workflow, and a completed run stays so.
RunStep ==
  /\ run' \in [Slots -> RunRows]
  /\ wf' \in [Slots -> WorkflowLocals]
  /\ \A s \in Slots :
       /\ run[s].st = "complete" => run'[s].st = "complete"
       /\ run'[s].st = "running" /\ run'[s].live =>
            (run[s].st = "running" /\ run[s].live) \/ wf[s].pc = "none"
       /\ wf'[s].pc = "none" => wf[s].pc = "none" /\ run'[s].st = run[s].st

AttemptStep ==
  /\ att' \in [Slots -> AttemptLocals]
  /\ \A s \in Slots : att'[s] = att[s] \/ AttemptKnows(s)'

\* Retention takes what is abandoned.
JobStep ==
  /\ job' \in [Jobs -> JobLocals]
  /\ fail' \in [Failers -> Failures]
  /\ \A j \in Jobs :
       /\ \A m \in JobHas(j)' : m \in JobHas(j) \/ m \in Abandoned
       /\ job'[j].pc \in {"claim", "select", "delete", "purge"} =>
            \E m \in Manifests : job'[j].m = {m}

\* An activation by the attempt of s, in one transaction
Activation(s) ==
  /\ At(s, "activate")
  /\ ActivationFence(s)
  /\ LET old == HeadAt(att[s].base) IN
     /\ Recorded(s, old, Deltas(old, Target(s), EntriesOf(old), manifest[Target(s)].entries))
     /\ Receipted(s, old)
  /\ UNCHANGED <<manifest, events>>

HistoryStep == UNCHANGED <<receipts, deltas, reviews>> \/ \E s \in Slots : Activation(s)

SafeStep ==
  /\ WorldTyped'
  /\ ManifestStep
  /\ RunStep
  /\ AttemptStep
  /\ JobStep
  /\ HistoryStep

-----------------------------------------------------------------------------
(* Facts about the operators *)

\* An occurrence and a commit name a manifest.
LEMMA Names ==
  /\ 1 \in Slots /\ Slots \subseteq Nat
  /\ \A m \in Manifests : Commit(m) \in Commits /\ Slot(m) \in Slots
  /\ Commits \subseteq Trees
  /\ Empty \in Trees
<1>1. Cardinality(Slots) \in Nat /\ Slots = 1..Cardinality(Slots) /\ Slots # {}
  BY GitHubManifestsAssumption, FS_CardinalityType
<1>2. \A m \in Manifests : Commit(m) \in Commits /\ Slot(m) \in Slots
  BY DEF Manifests, Commit, Slot
<1>3. Commits \subseteq Trees
  BY GitHubManifestsAssumption DEF Trees
<1>4. Empty \in Trees
  BY DEF Empty, Trees
<1> QED BY <1>1, <1>2, <1>3, <1>4

\* The stored paths are finitely many.
LEMMA StoredFinite ==
  ASSUME NEW e
  PROVE  /\ Stored(e) \subseteq Paths /\ IsFiniteSet(Stored(e))
         /\ Cardinality(Stored(e)) \in Nat
<1>1. Stored(e) \subseteq Paths
  BY DEF Stored
<1> QED BY <1>1, GitHubManifestsAssumption, FS_Subset, FS_CardinalityType

LEMMA InitHolds == Init => ManifestInv
<1> SUFFICES ASSUME Init PROVE ManifestInv
  OBVIOUS
<1>1. WorldTyped
  BY Names DEF Init, WorldTyped
<1>2. TablesTyped
  BY Names DEF Init, TablesTyped, RunRows, ManifestRows, NoManifest, Statuses, Receipts
<1>3. LocalsTyped
  <2>1. wf \in [Slots -> WorkflowLocals] /\ job \in [Jobs -> JobLocals]
    BY DEF Init, WorkflowLocals, JobLocals, IdleJob
  <2>2. att \in [Slots -> AttemptLocals]
    BY Names DEF Init, AttemptLocals, IdleAttempt
  <2>3. fail \in [Failers -> Failures]
    BY DEF Init, Failures, NotFailing
  <2> QED BY <2>1, <2>2, <2>3 DEF LocalsTyped
<1>4. AttemptsKnow
  BY DEF Init, AttemptsKnow, AttemptKnows, IdleAttempt, Reading
<1>5. EntriesTrue
  BY Names DEF Init, EntriesTrue, NoManifest, Empty
<1>6. RunsTrue /\ HistoryIsReplayable /\ LossesAreReviewed
  <2>1. Len(receipts) = 0 /\ 1 .. Len(receipts) = {} /\ 2 .. Len(receipts) = {}
    BY DEF Init
  <2> QED BY <2>1 DEF Init, RunsTrue, HistoryIsReplayable, LossesAreReviewed
<1>7. RetentionTrue
  BY DEF Init, RetentionTrue, JobHas, IdleJob, NotFailing, Failers
<1>8. Accounted
  BY DEF Init, Accounted, EventsOf, Chunks, NoManifest
<1> QED BY <1>1, <1>2, <1>3, <1>4, <1>5, <1>6, <1>7, <1>8 DEF ManifestInv

-----------------------------------------------------------------------------
(* Such steps keep the invariant *)

\* Nothing that was begun is undone.
LEMMA RowsAdvance ==
  ASSUME ManifestInv, ManifestStep, NEW m \in Manifests
  PROVE  /\ manifest[m].st # "none" => manifest'[m].st # "none"
         /\ manifest[m].st = "complete" =>
              manifest'[m].st = "complete" /\ manifest'[m].entries = manifest[m].entries
         /\ manifest'[m].st = "staging" =>
              manifest[m].st = "staging" \/ wf[Slot(m)].pc # "none"
BY DEF ManifestStep, RowStep, RowKept, RowBegun, RowWritten, RowSealed, RowFailed,
       RowClaimed, RowEmptied, RowPurged

LEMMA EntriesKept ==
  ASSUME ManifestInv, ManifestStep, RunStep
  PROVE  EntriesTrue'
<1> SUFFICES ASSUME NEW m \in Manifests
             PROVE  /\ \A p \in Paths :
                         manifest'[m].entries[p] \in {"none", "partial", Commit(m)[p]}
                    /\ manifest'[m].st = "complete" => manifest'[m].entries = Commit(m)
                    /\ manifest'[m].st # "none" => wf'[Slot(m)].pc # "none"
  BY DEF EntriesTrue
<1>1. /\ \A p \in Paths : manifest[m].entries[p] \in {"none", "partial", Commit(m)[p]}
      /\ manifest[m].st = "complete" => manifest[m].entries = Commit(m)
      /\ manifest[m].st # "none" => wf[Slot(m)].pc # "none"
  BY DEF ManifestInv, EntriesTrue
<1>2. wf[Slot(m)].pc # "none" => wf'[Slot(m)].pc # "none"
  BY Names DEF RunStep
<1>3. CASE RowPurged(m)
  BY <1>1, <1>2, <1>3 DEF RowPurged
<1>4. CASE \/ RowKept(m) \/ RowBegun(m) \/ RowWritten(m) \/ RowSealed(m) \/ RowFailed(m)
           \/ RowClaimed(m) \/ RowEmptied(m)
  BY <1>1, <1>2, <1>4
     DEF RowKept, RowBegun, RowWritten, RowSealed, RowFailed, RowClaimed, RowEmptied
<1> QED BY <1>3, <1>4 DEF ManifestStep, RowStep

LEMMA SparedKept ==
  ASSUME ManifestInv, ManifestStep, RunStep, NEW m \in Manifests, Spared(m)
  PROVE  Spared(m)'
<1>1. manifest[m].st # "none" /\ wf[Slot(m)].pc # "none" /\ Slot(m) \in Slots
  BY Names DEF ManifestInv, EntriesTrue, Spared
<1>2. manifest'[m].st # "none"
  BY <1>1, RowsAdvance
<1>3. run'[Slot(m)].st = "running" /\ run'[Slot(m)].live =>
        run[Slot(m)].st = "running" /\ run[Slot(m)].live
  BY <1>1 DEF RunStep
<1> QED BY <1>2, <1>3 DEF Spared

LEMMA RetentionKept ==
  ASSUME ManifestInv, ManifestStep, RunStep, JobStep
  PROVE  RetentionTrue'
<1>1. ASSUME NEW j \in Jobs, NEW m \in JobHas(j)'
      PROVE  Spared(m)'
  <2>1. m \in Manifests
    BY DEF JobStep, JobHas, JobLocals, Failures, Failers
  <2>2. m \in JobHas(j) \/ m \in Abandoned
    BY DEF JobStep
  <2>3. Spared(m)
    BY <2>2 DEF ManifestInv, RetentionTrue, Abandoned, Spared
  <2> QED BY <2>1, <2>3, SparedKept
<1>2. \A j \in Jobs : job'[j].pc \in {"claim", "select", "delete", "purge"} =>
                        \E m \in Manifests : job'[j].m = {m}
  BY DEF JobStep
<1> QED BY <1>1, <1>2 DEF RetentionTrue

LEMMA AttemptsKept ==
  ASSUME ManifestInv, RunStep, AttemptStep
  PROVE  AttemptsKnow'
<1> SUFFICES ASSUME NEW s \in Slots PROVE AttemptKnows(s)'
  BY DEF AttemptsKnow
<1>1. CASE att'[s] = att[s]
  <2>1. wf[s].pc # "none" => wf'[s].pc # "none"
    BY DEF RunStep
  <2> QED BY <1>1, <2>1 DEF ManifestInv, AttemptsKnow, AttemptKnows
<1> QED BY <1>1 DEF AttemptStep

\* One more event, one more chunk
LEMMA ChunksGrow ==
  ASSUME NEW E, NEW x
  PROVE  UNION {e.chunk : e \in E \cup {x}} = (UNION {e.chunk : e \in E}) \cup x.chunk
OBVIOUS

\* The chunk of a purge leaves the entries and joins the events.
LEMMA PurgeMoves ==
  ASSUME ManifestInv, NEW m \in Manifests, RowPurged(m)
  PROVE  /\ Chunks(m)' \cap Stored(manifest'[m].entries) = {}
         /\ Chunks(m)' \cup Stored(manifest'[m].entries) =
              Chunks(m) \cup Stored(manifest[m].entries)
<1>1. PICK chunk \in SUBSET Paths, ver \in Nat :
        /\ chunk \subseteq Stored(manifest[m].entries)
        /\ manifest'[m].entries =
             [p \in Paths |-> IF p \in chunk THEN "none" ELSE manifest[m].entries[p]]
        /\ EventsOf(m)' = EventsOf(m) \cup {[m |-> m, ver |-> ver, chunk |-> chunk]}
  BY DEF RowPurged
<1>2. Stored(manifest'[m].entries) = Stored(manifest[m].entries) \ chunk
  BY <1>1 DEF Stored
<1>3. Chunks(m)' = Chunks(m) \cup chunk
  <2>1. Chunks(m)' = UNION {e.chunk : e \in EventsOf(m)'}
    BY DEF Chunks
  <2>2. Chunks(m)' = UNION {e.chunk : e \in EventsOf(m) \cup
                               {[m |-> m, ver |-> ver, chunk |-> chunk]}}
    BY <1>1, <2>1
  <2>3. [m |-> m, ver |-> ver, chunk |-> chunk].chunk = chunk
    OBVIOUS
  <2> QED BY <2>2, <2>3, ChunksGrow DEF Chunks
<1>4. Chunks(m) \cap Stored(manifest[m].entries) = {}
  BY DEF ManifestInv, Accounted
<1> QED BY <1>1, <1>2, <1>3, <1>4

LEMMA AccountsKept ==
  ASSUME ManifestInv, ManifestStep
  PROVE  Accounted'
<1> SUFFICES ASSUME NEW m \in Manifests
             PROVE  /\ EventsOf(m)' # {} => manifest'[m].st \in {"purging", "purged"}
                    /\ Chunks(m)' \cap Stored(manifest'[m].entries) = {}
                    /\ manifest'[m].st \in {"failed", "purging", "purged"} =>
                         manifest'[m].count =
                           Cardinality(Chunks(m)' \cup Stored(manifest'[m].entries))
                    /\ manifest'[m].st = "purged" => Stored(manifest'[m].entries) = {}
  BY DEF Accounted, Stored
<1>1. /\ EventsOf(m) # {} => manifest[m].st \in {"purging", "purged"}
      /\ Chunks(m) \cap Stored(manifest[m].entries) = {}
      /\ manifest[m].st \in {"failed", "purging", "purged"} =>
           manifest[m].count = Cardinality(Chunks(m) \cup Stored(manifest[m].entries))
      /\ manifest[m].st = "purged" => Stored(manifest[m].entries) = {}
  BY DEF ManifestInv, Accounted
<1>2. CASE RowPurged(m)
  <2>1. /\ manifest[m].st = "purging" /\ manifest'[m].st = "purging"
        /\ manifest'[m].count = manifest[m].count
    BY <1>2 DEF RowPurged
  <2> QED BY <1>1, <1>2, <2>1, PurgeMoves
<1>3. CASE /\ EventsKept(m)
           /\ \/ RowKept(m) \/ RowBegun(m) \/ RowWritten(m) \/ RowSealed(m)
              \/ RowFailed(m) \/ RowClaimed(m) \/ RowEmptied(m)
  <2>1. EventsOf(m)' = EventsOf(m) /\ Chunks(m)' = Chunks(m)
    BY <1>3 DEF EventsKept, Chunks
  <2>2. manifest[m].st \notin {"purging", "purged"} => Chunks(m) = {}
    BY <1>1 DEF Chunks
  <2>3. CASE RowKept(m) \/ RowClaimed(m) \/ RowEmptied(m)
    BY <1>1, <2>1, <2>3 DEF RowKept, RowClaimed, RowEmptied
  <2>4. CASE RowBegun(m) \/ RowWritten(m) \/ RowSealed(m)
    BY <1>1, <2>1, <2>2, <2>4 DEF RowBegun, RowWritten, RowSealed
  <2>5. CASE RowFailed(m)
    <3>1. Chunks(m) \cup Stored(manifest[m].entries) = Stored(manifest[m].entries)
      BY <2>2, <2>5 DEF RowFailed
    <3> QED BY <1>1, <2>1, <2>2, <2>5, <3>1 DEF RowFailed
  <2> QED BY <1>3, <2>3, <2>4, <2>5
<1> QED BY <1>2, <1>3 DEF ManifestStep, RowStep

-----------------------------------------------------------------------------
(* The history *)

LEMMA AppendFacts ==
  ASSUME NEW S, NEW q \in Seq(S), NEW x \in S
  PROVE  /\ Len(q) \in Nat /\ DOMAIN q = 1 .. Len(q)
         /\ Append(q, x) \in Seq(S)
         /\ Len(Append(q, x)) = Len(q) + 1
         /\ \A v \in 1 .. Len(q) : Append(q, x)[v] = q[v]
         /\ Append(q, x)[Len(q) + 1] = x
OBVIOUS

LEMMA ReceiptsTyped ==
  ASSUME ManifestInv
  PROVE  /\ receipts \in Seq(Receipts)
         /\ Len(receipts) \in Nat /\ DOMAIN receipts = 1 .. Len(receipts)
         /\ \A v \in 1 .. Len(receipts) :
              receipts[v].new \in Manifests /\ receipts[v].slot \in Slots
<1>1. receipts \in Seq(Receipts)
  BY DEF ManifestInv, TablesTyped
<1>2. \A v \in 1 .. Len(receipts) : receipts[v] \in Receipts
  BY <1>1
<1>3. \A r \in Receipts : r.new \in Manifests /\ r.slot \in Slots
  BY DEF Receipts
<1>4. Len(receipts) \in Nat /\ DOMAIN receipts = 1 .. Len(receipts)
  BY <1>1
<1> QED BY <1>1, <1>2, <1>3, <1>4

\* What an activation appends, in terms of the tables before it
LEMMA ActivationAppends ==
  ASSUME ManifestInv, NEW s \in Slots, Activation(s)
  PROVE  /\ att[s].commit \in Commits /\ Target(s) \in Manifests
         /\ Commit(Target(s)) = att[s].commit /\ Slot(Target(s)) = s
         /\ att[s].base = Len(receipts)
         /\ run[s].st = "running" /\ run[s].live
         /\ manifest[Target(s)].st = "complete"
         /\ manifest[Target(s)].entries = Commit(Target(s))
         /\ HeadAt(att[s].base) \subseteq Manifests
         /\ receipts' = Append(receipts,
              [old |-> HeadAt(att[s].base), new |-> Target(s), slot |-> s, cited |-> cited])
         /\ [old |-> HeadAt(att[s].base), new |-> Target(s), slot |-> s, cited |-> cited]
              \in Receipts
         /\ run' = [run EXCEPT ![s].st = "complete"]
         /\ manifest' = manifest
<1>1. att[s].commit \in Commits
  BY DEF Activation, At, ManifestInv, AttemptsKnow, AttemptKnows, Reading
<1>2. Target(s) \in Manifests /\ Commit(Target(s)) = att[s].commit /\ Slot(Target(s)) = s
  BY <1>1 DEF Target, Manifests, Commit, Slot
<1>3. /\ att[s].base = Len(receipts) /\ run[s].st = "running" /\ run[s].live
      /\ manifest[Target(s)].st = "complete"
  BY DEF Activation, ActivationFence, RunHolds, HeadVersion
<1>4. manifest[Target(s)].entries = Commit(Target(s))
  BY <1>2, <1>3 DEF ManifestInv, EntriesTrue
<1>5. HeadAt(att[s].base) \subseteq Manifests
  BY ReceiptsTyped DEF HeadAt
<1>6. [old |-> HeadAt(att[s].base), new |-> Target(s), slot |-> s, cited |-> cited]
        \in Receipts
  BY <1>2, <1>5 DEF Receipts, ManifestInv, WorldTyped
<1> QED BY <1>1, <1>2, <1>3, <1>4, <1>5, <1>6 DEF Activation, Receipted

\* The history before and after it
LEMMA HistoryGrows ==
  ASSUME ManifestInv, NEW s \in Slots, Activation(s)
  PROVE  /\ Len(receipts) \in Nat /\ Len(receipts') = Len(receipts) + 1
         /\ receipts' \in Seq(Receipts)
         /\ \A v \in 1 .. Len(receipts) : receipts'[v] = receipts[v]
         /\ receipts'[Len(receipts) + 1].new = Target(s)
         /\ receipts'[Len(receipts) + 1].slot = s
         /\ receipts'[Len(receipts) + 1].old = HeadAt(Len(receipts))
         /\ receipts'[Len(receipts) + 1].cited = cited
<1> DEFINE r == [old |-> HeadAt(att[s].base), new |-> Target(s), slot |-> s,
                 cited |-> cited]
<1>1. receipts' = Append(receipts, r) /\ r \in Receipts
      /\ r.new = Target(s) /\ r.slot = s /\ r.old = HeadAt(Len(receipts))
      /\ r.cited = cited
  BY ActivationAppends
<1> HIDE DEF r
<1> QED BY <1>1, ReceiptsTyped, AppendFacts

\* The manifest is new to the history, and so are its differences.
LEMMA TargetIsNew ==
  ASSUME ManifestInv, NEW s \in Slots, Activation(s)
  PROVE  /\ \A v \in 1 .. Len(receipts) :
              receipts[v].slot # s /\ receipts[v].new # Target(s)
         /\ \A d \in deltas : d.new # Target(s)
<1>1. Slot(Target(s)) = s /\ run[s].st = "running"
  BY ActivationAppends
<1>2. \A v \in 1 .. Len(receipts) : receipts[v].slot # s /\ receipts[v].new # Target(s)
  BY <1>1 DEF ManifestInv, RunsTrue
<1> QED BY <1>2 DEF ManifestInv, RunsTrue

\* The head is the last receipt, and its entries are the tree of its commit.
LEMMA HeadIsLast ==
  ASSUME ManifestInv
  PROVE  /\ Len(receipts) \in Nat
         /\ Len(receipts) = 0 => HeadAt(Len(receipts)) = {}
         /\ Len(receipts) # 0 => HeadAt(Len(receipts)) = {receipts[Len(receipts)].new}
         /\ EntriesOf(HeadAt(Len(receipts))) =
              IF Len(receipts) = 0 THEN Empty ELSE Commit(receipts[Len(receipts)].new)
<1> DEFINE n == Len(receipts)
<1>1. n \in Nat /\ DOMAIN receipts = 1 .. n
  BY ReceiptsTyped
<1>2. CASE n = 0
  <2>1. HeadAt(n) = {}
    BY <1>1, <1>2 DEF HeadAt
  <2> QED BY <1>1, <1>2, <2>1 DEF EntriesOf
<1>3. CASE n # 0
  <2>1. n \in 1 .. n /\ {n} \cap DOMAIN receipts = {n}
    BY <1>1, <1>3
  <2>2. HeadAt(n) = {receipts[n].new}
    BY <2>1 DEF HeadAt
  <2>3. receipts[n].new \in Manifests
    BY <2>1, ReceiptsTyped
  <2>4. manifest[receipts[n].new].entries = Commit(receipts[n].new)
    BY <2>1, <2>3 DEF ManifestInv, RunsTrue, EntriesTrue
  <2>5. EntriesOf({receipts[n].new}) = manifest[receipts[n].new].entries
    BY DEF EntriesOf
  <2> QED BY <1>1, <1>3, <2>2, <2>4, <2>5
<1> QED BY <1>2, <1>3

LEMMA RunsTrueKept ==
  ASSUME ManifestInv, ManifestStep, RunStep, HistoryStep
  PROVE  RunsTrue'
<1>1. ASSUME NEW s \in Slots, wf'[s].pc = "none"
      PROVE  run'[s].st = "none"
  BY <1>1 DEF RunStep, ManifestInv, RunsTrue
<1>3. \A v \in 1 .. Len(receipts) :
        /\ receipts[v].slot \in Slots /\ receipts[v].new \in Manifests
        /\ receipts[v].slot = Slot(receipts[v].new)
        /\ run'[receipts[v].slot].st = "complete"
        /\ manifest'[receipts[v].new].st = "complete"
  <2> TAKE v \in 1 .. Len(receipts)
  <2>1. receipts[v].slot \in Slots /\ receipts[v].new \in Manifests
    BY ReceiptsTyped
  <2>2. /\ receipts[v].slot = Slot(receipts[v].new)
        /\ run[receipts[v].slot].st = "complete"
        /\ manifest[receipts[v].new].st = "complete"
    BY DEF ManifestInv, RunsTrue
  <2> QED BY <2>1, <2>2, RowsAdvance DEF RunStep
<1>4. \A d \in deltas : \E v \in 1 .. Len(receipts) : d.new = receipts[v].new
  BY DEF ManifestInv, RunsTrue
<1>5. CASE UNCHANGED <<receipts, deltas, reviews>>
  BY <1>1, <1>3, <1>4, <1>5 DEF RunsTrue
<1>6. ASSUME NEW s \in Slots, Activation(s)
      PROVE  RunsTrue'
  <2> DEFINE n == Len(receipts)
  <2>2. /\ n \in Nat /\ Len(receipts') = n + 1
        /\ \A v \in 1 .. n : receipts'[v] = receipts[v]
        /\ receipts'[n + 1].new = Target(s) /\ receipts'[n + 1].slot = s
    BY <1>6, HistoryGrows
  <2>3. Slot(Target(s)) = s /\ manifest'[Target(s)].st = "complete"
        /\ run'[s].st = "complete"
    <3>1. run' = [run EXCEPT ![s].st = "complete"] /\ run \in [Slots -> RunRows]
      BY <1>6, ActivationAppends DEF ManifestInv, TablesTyped
    <3>2. run'[s].st = "complete"
      BY <3>1 DEF RunRows
    <3> QED BY <1>6, <3>2, ActivationAppends
  <2>4. \A v \in 1 .. n + 1 :
          /\ receipts'[v].slot = Slot(receipts'[v].new)
          /\ run'[receipts'[v].slot].st = "complete"
          /\ manifest'[receipts'[v].new].st = "complete"
    BY <1>3, <2>2, <2>3
  <2>5. \A d \in deltas' : d \in deltas \/ d.new = Target(s)
    BY <1>6 DEF Activation, Recorded, Deltas
  <2>6. \A d \in deltas' : \E v \in 1 .. n + 1 : d.new = receipts'[v].new
    BY <1>4, <2>2, <2>5
  <2> QED BY <1>1, <2>2, <2>4, <2>6 DEF RunsTrue
<1> QED BY <1>5, <1>6 DEF HistoryStep

\* Of a new head exactly its differences are recorded.
LEMMA HistoryKept ==
  ASSUME ManifestInv, HistoryStep
  PROVE  HistoryIsReplayable'
<1> DEFINE n == Len(receipts)
<1>1. CASE UNCHANGED <<receipts, deltas, reviews>>
  BY <1>1 DEF ManifestInv, HistoryIsReplayable
<1>2. ASSUME NEW s \in Slots, Activation(s)
      PROVE  HistoryIsReplayable'
  <2>1. /\ n \in Nat /\ Len(receipts') = n + 1
        /\ \A v \in 1 .. n : receipts'[v] = receipts[v]
        /\ receipts'[n + 1].new = Target(s) /\ receipts'[n + 1].slot = s
        /\ receipts'[n + 1].old = HeadAt(n)
    BY <1>2, HistoryGrows
  <2>2. /\ \A v \in 1 .. n : receipts[v].slot # s /\ receipts[v].new # Target(s)
        /\ \A d \in deltas : d.new # Target(s)
    BY <1>2, TargetIsNew
  <2> DEFINE before == EntriesOf(HeadAt(n))
             ds == Deltas(HeadAt(n), Target(s), before, Commit(Target(s)))
  <2>3. deltas' = deltas \cup ds
    BY <1>2, ActivationAppends DEF Activation, Recorded
  <2>4. \A d \in ds : d.new = Target(s)
    BY DEF Deltas
  <2>5. SUFFICES ASSUME NEW v \in 1 .. n + 1
                 PROVE  /\ receipts'[v].old = IF v = 1 THEN {} ELSE {receipts'[v - 1].new}
                        /\ \A u \in 1 .. v - 1 : receipts'[u].slot # receipts'[v].slot
                        /\ {d \in deltas' : d.new = receipts'[v].new} =
                             Deltas(receipts'[v].old, receipts'[v].new,
                                    IF receipts'[v].old = {} THEN Empty
                                    ELSE Commit(receipts'[v - 1].new),
                                    Commit(receipts'[v].new))
    BY <2>1 DEF HistoryIsReplayable
  <2>6. CASE v \in 1 .. n
    <3>1. /\ receipts[v].old = IF v = 1 THEN {} ELSE {receipts[v - 1].new}
          /\ \A u \in 1 .. v - 1 : receipts[u].slot # receipts[v].slot
          /\ {d \in deltas : d.new = receipts[v].new} =
               Deltas(receipts[v].old, receipts[v].new,
                      IF receipts[v].old = {} THEN Empty
                      ELSE Commit(receipts[v - 1].new),
                      Commit(receipts[v].new))
      BY <2>6 DEF ManifestInv, HistoryIsReplayable
    <3>2. /\ receipts'[v] = receipts[v]
          /\ \A u \in 1 .. v - 1 : receipts'[u] = receipts[u]
          /\ v # 1 => v - 1 \in 1 .. v - 1
      BY <2>1, <2>6
    <3>3. {d \in deltas' : d.new = receipts[v].new} = {d \in deltas : d.new = receipts[v].new}
      <4> HIDE DEF ds
      <4> QED BY <2>2, <2>3, <2>4, <2>6
    <3>4. v = 1 => receipts[v].old = {}
      BY <3>1
    <3>5. Deltas(receipts'[v].old, receipts'[v].new,
                 IF receipts'[v].old = {} THEN Empty ELSE Commit(receipts'[v - 1].new),
                 Commit(receipts'[v].new)) =
          Deltas(receipts[v].old, receipts[v].new,
                 IF receipts[v].old = {} THEN Empty ELSE Commit(receipts[v - 1].new),
                 Commit(receipts[v].new))
      BY <3>2, <3>4
    <3> QED BY <3>1, <3>2, <3>3, <3>5
  <2>7. CASE v = n + 1
    <3>1. {d \in deltas' : d.new = Target(s)} = ds
      <4> HIDE DEF ds
      <4> QED BY <2>2, <2>3, <2>4
    <3>2. /\ HeadAt(n) = IF n = 0 THEN {} ELSE {receipts[n].new}
          /\ before = IF n = 0 THEN Empty ELSE Commit(receipts[n].new)
      BY HeadIsLast
    <3>3. n # 0 => n \in 1 .. n /\ receipts'[n] = receipts[n] /\ HeadAt(n) # {}
      BY <2>1, <3>2
    <3>4. receipts'[v].old = IF v = 1 THEN {} ELSE {receipts'[v - 1].new}
      <4>1. v - 1 = n /\ (v = 1 <=> n = 0) /\ receipts'[v].old = HeadAt(n)
        BY <2>1, <2>7
      <4> QED BY <3>2, <3>3, <4>1
    <3>5. \A u \in 1 .. v - 1 : receipts'[u].slot # receipts'[v].slot
      BY <2>1, <2>2, <2>7
    <3>6. before = IF receipts'[v].old = {} THEN Empty ELSE Commit(receipts'[v - 1].new)
      <4> HIDE DEF before
      <4>1. CASE n = 0
        BY <2>1, <2>7, <3>2, <4>1
      <4>2. CASE n # 0
        <5>1. v - 1 = n /\ receipts'[v - 1] = receipts[n] /\ receipts'[v].old # {}
          <6>1. v - 1 = n /\ receipts'[v].old = HeadAt(n)
            BY <2>1, <2>7
          <6> QED BY <3>3, <4>2, <6>1
        <5> QED BY <3>2, <4>2, <5>1
      <4> QED BY <4>1, <4>2
    <3>7. v = n + 1 /\ receipts'[v].new = Target(s) /\ receipts'[v].old = HeadAt(n)
      BY <2>1, <2>7
    <3> HIDE DEF before
    <3> QED BY <3>1, <3>4, <3>5, <3>6, <3>7
  <2> QED BY <2>1, <2>6, <2>7
<1> QED BY <1>1, <1>2 DEF HistoryStep

\* A path that was text and is not any more is deleted or withdrawn.
LEMMA LossKind ==
  ASSUME NEW old \in Text, NEW new \in Blobs \cup {"none"}, new \notin Text
  PROVE  DeltaKind(old, new) \in {"deleted", "withdrawn"}
BY DEF DeltaKind, Text, Withheld, Blobs

\* Its review is asked for by the activation that loses it.
LEMMA LossAsked ==
  ASSUME NEW old, NEW new, NEW before, NEW after, NEW p \in Paths, p \in cited,
         before[p] \in Text, after[p] \in Blobs \cup {"none"}, after[p] \notin Text
  PROVE  [old |-> old, new |-> new, path |-> p] \in
           LossReviews(Deltas(old, new, before, after))
<1> DEFINE d == [old |-> old, new |-> new, path |-> p,
                 kind |-> DeltaKind(before[p], after[p])]
<1>1. d \in Deltas(old, new, before, after)
  BY DEF Deltas
<1>2. d.kind \in {"deleted", "withdrawn"}
  BY LossKind
<1>3. d.path = p /\ d.old = old /\ d.new = new
  OBVIOUS
<1> HIDE DEF d
<1>4. CASE d.kind = "deleted"
  <2>1. d \in {x \in Deltas(old, new, before, after) : x.kind = "deleted"}
    BY <1>1, <1>4
  <2> QED BY <1>3, <2>1 DEF LossReviews, DeletionReviews, Asked
<1>5. CASE d.kind = "withdrawn"
  <2>1. d \in {x \in Deltas(old, new, before, after) : x.kind = "withdrawn" /\ x.path \in cited}
    BY <1>1, <1>3, <1>5
  <2> QED BY <1>3, <2>1 DEF LossReviews, WithdrawalReviews, Asked
<1> QED BY <1>2, <1>4, <1>5

LEMMA LossesKept ==
  ASSUME ManifestInv, HistoryStep
  PROVE  LossesAreReviewed'
<1> DEFINE n == Len(receipts)
<1>1. CASE UNCHANGED <<receipts, deltas, reviews>>
  BY <1>1 DEF ManifestInv, LossesAreReviewed
<1>2. ASSUME NEW s \in Slots, Activation(s)
      PROVE  LossesAreReviewed'
  <2>1. /\ n \in Nat /\ Len(receipts') = n + 1
        /\ \A v \in 1 .. n : receipts'[v] = receipts[v]
        /\ receipts'[n + 1].new = Target(s) /\ receipts'[n + 1].cited = cited
    BY <1>2, HistoryGrows
  <2>2. reviews \subseteq reviews'
    BY <1>2 DEF Activation, Recorded
  <2>3. SUFFICES ASSUME NEW v \in 2 .. n + 1, NEW p \in receipts'[v].cited,
                        Commit(receipts'[v - 1].new)[p] \in Text,
                        Commit(receipts'[v].new)[p] \notin Text
                 PROVE  [old |-> {receipts'[v - 1].new}, new |-> receipts'[v].new,
                         path |-> p] \in reviews'
    BY <2>1 DEF LossesAreReviewed
  <2>4. v - 1 \in 1 .. n /\ receipts'[v - 1] = receipts[v - 1]
    BY <2>1
  <2>5. CASE v \in 2 .. n
    <3>1. receipts'[v] = receipts[v]
      BY <2>1, <2>5
    <3> QED BY <2>2, <2>3, <2>4, <2>5, <3>1 DEF ManifestInv, LossesAreReviewed
  <2>6. CASE v = n + 1
    <3>1. /\ n # 0 /\ receipts'[v - 1] = receipts[n]
          /\ receipts'[v].new = Target(s) /\ p \in cited
      BY <2>1, <2>3, <2>4, <2>6
    <3>2. p \in Paths
      BY <3>1 DEF ManifestInv, WorldTyped
    <3> DEFINE head == receipts[n].new
               before == EntriesOf({head})
               after == Commit(Target(s))
    <3>3. HeadAt(n) = {head} /\ before = Commit(head)
      BY <3>1, HeadIsLast
    <3>4. after \in Trees /\ after[p] \in Blobs \cup {"none"}
      <4>1. after \in Commits
        BY <1>2, ActivationAppends
      <4>2. after \in [Paths -> Blobs \cup {"none"}]
        BY <4>1, GitHubManifestsAssumption
      <4> HIDE DEF after
      <4> QED BY <3>2, <4>1, <4>2, Names
    <3>5. reviews' = reviews \cup LossReviews(Deltas({head}, Target(s), before, after))
      BY <1>2, <3>3, ActivationAppends DEF Activation, Recorded
    <3>6. before[p] \in Text /\ after[p] \notin Text
      BY <2>3, <3>1, <3>3
    <3>7. \A o, m, b, a :
            b[p] \in Text /\ a[p] \in Blobs \cup {"none"} /\ a[p] \notin Text
            => [old |-> o, new |-> m, path |-> p] \in LossReviews(Deltas(o, m, b, a))
      BY <3>1, <3>2, LossAsked
    <3>8. [old |-> {head}, new |-> Target(s), path |-> p]
            \in LossReviews(Deltas({head}, Target(s), before, after))
      <4> HIDE DEF head, before, after
      <4> QED BY <3>4, <3>6, <3>7
    <3> QED BY <3>1, <3>5, <3>8
  <2> QED BY <2>1, <2>5, <2>6
<1> QED BY <1>1, <1>2 DEF HistoryStep

LEMMA TypesKept ==
  ASSUME ManifestInv, SafeStep
  PROVE  WorldTyped' /\ TablesTyped' /\ LocalsTyped'
<1>1. receipts' \in Seq(Receipts)
  <2>1. CASE UNCHANGED <<receipts, deltas, reviews>>
    BY <2>1, ReceiptsTyped
  <2>2. ASSUME NEW s \in Slots, Activation(s)
        PROVE  receipts' \in Seq(Receipts)
    BY <2>2, HistoryGrows
  <2> QED BY <2>1, <2>2 DEF SafeStep, HistoryStep
<1>2. TablesTyped'
  BY <1>1 DEF SafeStep, ManifestStep, RunStep, TablesTyped
<1>3. LocalsTyped'
  BY DEF SafeStep, RunStep, AttemptStep, JobStep, LocalsTyped
<1> QED BY <1>2, <1>3 DEF SafeStep

LEMMA SafeStepKeeps ==
  ASSUME ManifestInv, SafeStep
  PROVE  ManifestInv'
<1>1. ManifestStep /\ RunStep /\ AttemptStep /\ JobStep /\ HistoryStep
  BY DEF SafeStep
<1>2. EntriesTrue' /\ RetentionTrue' /\ AttemptsKnow' /\ Accounted'
  BY <1>1, EntriesKept, RetentionKept, AttemptsKept, AccountsKept
<1>3. RunsTrue' /\ HistoryIsReplayable' /\ LossesAreReviewed'
  BY <1>1, RunsTrueKept, HistoryKept, LossesKept
<1> QED BY <1>2, <1>3, TypesKept DEF ManifestInv

LEMMA StutterKeeps ==
  ASSUME ManifestInv, UNCHANGED vars
  PROVE  ManifestInv'
<1>1. UNCHANGED <<clock, remote, run, cursor, manifest, receipts, deltas, reviews,
                  candidates, events, cited, wf, att, job, fail, faults>>
  BY DEF vars, tables
<1>2. WorldTyped' /\ TablesTyped' /\ LocalsTyped'
  BY <1>1 DEF ManifestInv, WorldTyped, TablesTyped, LocalsTyped
<1>3. AttemptsKnow' /\ EntriesTrue' /\ RunsTrue'
  BY <1>1 DEF ManifestInv, AttemptsKnow, AttemptKnows, EntriesTrue, RunsTrue
<1>4. RetentionTrue'
  BY <1>1 DEF ManifestInv, RetentionTrue, JobHas, Spared
<1>5. Accounted'
  BY <1>1 DEF ManifestInv, Accounted, EventsOf, Chunks, Stored
<1>6. HistoryIsReplayable' /\ LossesAreReviewed'
  BY <1>1 DEF ManifestInv, HistoryIsReplayable, LossesAreReviewed
<1> QED BY <1>2, <1>3, <1>4, <1>5, <1>6 DEF ManifestInv

-----------------------------------------------------------------------------
(* What an action leaves alone *)

LEMMA ManifestRests ==
  ASSUME ManifestInv, UNCHANGED <<manifest, events>>
  PROVE  ManifestStep
<1>1. \A m \in Manifests : EventsKept(m) /\ RowKept(m)
  BY DEF EventsKept, EventsOf, RowKept
<1> QED BY <1>1 DEF ManifestInv, TablesTyped, ManifestStep, RowStep

LEMMA RunRests ==
  ASSUME ManifestInv, UNCHANGED run, wf' \in [Slots -> WorkflowLocals],
         \A s \in Slots : wf'[s].pc = "none" => wf[s].pc = "none"
  PROVE  RunStep
BY DEF ManifestInv, TablesTyped, RunStep

LEMMA WorkflowRests ==
  ASSUME ManifestInv, UNCHANGED <<run, wf>>
  PROVE  RunStep
BY DEF ManifestInv, TablesTyped, LocalsTyped, RunStep

LEMMA AttemptRests ==
  ASSUME ManifestInv, UNCHANGED att
  PROVE  AttemptStep
BY DEF ManifestInv, LocalsTyped, AttemptStep

LEMMA JobRests ==
  ASSUME ManifestInv, UNCHANGED <<job, fail>>
  PROVE  JobStep
BY DEF ManifestInv, LocalsTyped, RetentionTrue, JobHas, JobStep

\* A call of failGitHubTreeManifest that is not of retention
LEMMA JobsRest ==
  ASSUME ManifestInv, UNCHANGED job, fail' \in [Failers -> Failures],
         \A j \in Jobs : fail'[<<"job", j>>].m \subseteq fail[<<"job", j>>].m
  PROVE  JobStep
BY DEF ManifestInv, LocalsTyped, RetentionTrue, JobHas, JobStep

\* One row of the manifests
LEMMA OneRow ==
  ASSUME ManifestInv, NEW m \in Manifests, NEW r \in ManifestRows,
         manifest' = [manifest EXCEPT ![m] = r],
         r.hold # "free" => r.st = "purging",
         events' \subseteq Events,
         \A k \in Manifests \ {m} : EventsKept(k),
         RowStep(m)
  PROVE  ManifestStep
<1>1. \A k \in Manifests \ {m} : manifest'[k] = manifest[k]
  BY DEF ManifestInv, TablesTyped
<1>2. manifest' \in [Manifests -> ManifestRows] /\ manifest'[m] = r
  BY DEF ManifestInv, TablesTyped
<1>3. \A k \in Manifests : manifest'[k].hold # "free" => manifest'[k].st = "purging"
  BY <1>1, <1>2 DEF ManifestInv, TablesTyped
<1>4. \A k \in Manifests \ {m} : RowStep(k)
  BY <1>1 DEF RowStep, RowKept
<1> QED BY <1>2, <1>3, <1>4 DEF ManifestStep

LEMMA ActivationTyped ==
  ASSUME ManifestInv, NEW s \in Slots, Activation(s)
  PROVE  cursor' \in Nat \ {0}
BY DEF Activation, Receipted, ManifestInv, WorldTyped

-----------------------------------------------------------------------------
(* The world *)

LEMMA RowOf ==
  ASSUME ManifestInv, NEW m \in Manifests
  PROVE  /\ manifest[m] \in ManifestRows
         /\ manifest[m].hold # "free" => manifest[m].st = "purging"
BY DEF ManifestInv, TablesTyped

\* A row of which only the age or the hold changes
LEMMA RowTouched ==
  ASSUME ManifestInv, NEW m \in Manifests, NEW r \in ManifestRows,
         manifest' = [manifest EXCEPT ![m] = r], UNCHANGED events,
         r.st = manifest[m].st, r.entries = manifest[m].entries,
         r.count = manifest[m].count,
         r.hold # "free" => r.st = "purging"
  PROVE  ManifestStep
<1>1. manifest'[m] = r
  BY DEF ManifestInv, TablesTyped
<1>2. RowKept(m) /\ \A k \in Manifests : EventsKept(k)
  BY <1>1 DEF RowKept, EventsKept, EventsOf
<1>3. events' \subseteq Events
  BY DEF ManifestInv, TablesTyped
<1> QED BY <1>2, <1>3, OneRow DEF RowStep

LEMMA WorldIsSafe ==
  ASSUME ManifestInv, World
  PROVE  SafeStep
<1>1. WorldTyped
  BY DEF ManifestInv
<1>2. ASSUME UNCHANGED <<run, wf, att, job, fail, receipts, deltas, reviews>>, ManifestStep,
             WorldTyped'
      PROVE  SafeStep
  BY <1>2, WorkflowRests, AttemptRests, JobRests DEF SafeStep, HistoryStep
<1>3. ASSUME NEW c \in Commits, PushTo(c)
      PROVE  SafeStep
  <2>1. WorldTyped'
    BY <1>1, <1>3 DEF PushTo, WorldTyped
  <2> QED BY <1>2, <1>3, <2>1, ManifestRests DEF PushTo, tables
<1>4. CASE NextOccurrence
  <2>1. WorldTyped'
    BY <1>1, <1>4 DEF NextOccurrence, WorldTyped
  <2> QED BY <1>2, <1>4, <2>1, ManifestRests DEF NextOccurrence, tables
<1>5. ASSUME NEW p \in Paths, Cite(p)
      PROVE  SafeStep
  <2>1. WorldTyped'
    BY <1>1, <1>5 DEF Cite, WorldTyped
  <2> QED BY <1>2, <1>5, <2>1, ManifestRests DEF Cite, tables
<1>6. ASSUME NEW m \in Manifests, Ages(m)
      PROVE  SafeStep
  <2>1. WorldTyped'
    BY <1>1, <1>6 DEF Ages, WorldTyped
  <2>2. [manifest[m] EXCEPT !.old = TRUE] \in ManifestRows
    BY RowOf DEF ManifestRows
  <2>3. ManifestStep
    BY <1>6, <2>2, RowOf, RowTouched DEF Ages, ManifestRows
  <2> QED BY <1>2, <1>6, <2>1, <2>3 DEF Ages
<1>7. ASSUME NEW m \in Manifests, HoldEnds(m)
      PROVE  SafeStep
  <2>1. WorldTyped'
    BY <1>1, <1>7 DEF HoldEnds, WorldTyped
  <2>2. [manifest[m] EXCEPT !.hold = "free"] \in ManifestRows
    BY RowOf DEF ManifestRows
  <2>3. ManifestStep
    BY <1>7, <2>2, RowOf, RowTouched DEF HoldEnds, ManifestRows
  <2> QED BY <1>2, <1>7, <2>1, <2>3 DEF HoldEnds
<1> QED BY <1>3, <1>4, <1>5, <1>6, <1>7 DEF World

-----------------------------------------------------------------------------
(* The ref Workflow *)

LEMMA LocalsOf ==
  ASSUME ManifestInv, NEW s \in Slots
  PROVE  /\ wf[s] \in WorkflowLocals /\ att[s] \in AttemptLocals /\ run[s] \in RunRows
         /\ AttemptKnows(s)
BY DEF ManifestInv, LocalsTyped, TablesTyped, AttemptsKnow

\* A Workflow that goes on is not one that has not begun.
LEMMA WorkflowGoesOn ==
  ASSUME ManifestInv, NEW s \in Slots, UNCHANGED run, NEW l \in WorkflowLocals,
         wf' = [wf EXCEPT ![s] = l], l.pc = "none" => wf[s].pc = "none"
  PROVE  RunStep
<1>1. wf' \in [Slots -> WorkflowLocals]
  BY DEF ManifestInv, LocalsTyped
<1>2. \A r \in Slots : wf'[r].pc = "none" => wf[r].pc = "none"
  BY DEF ManifestInv, LocalsTyped
<1> QED BY <1>1, <1>2, RunRests

\* An attempt is another's while it does nothing.
LEMMA AttemptGoesOn ==
  ASSUME ManifestInv, NEW s \in Slots, NEW l \in AttemptLocals,
         att' = [att EXCEPT ![s] = l], wf'[s].pc # "none",
         l.pc \in {"begin", "blobs"} \cup Reading => l.commit \in Commits,
         l.staged => l.commit \in Commits,
         l.pc \in Reading => TreeRead(l.entries, l.commit)
  PROVE  AttemptStep
<1>1. att' \in [Slots -> AttemptLocals] /\ att'[s] = l
  BY DEF ManifestInv, LocalsTyped
<1>2. \A r \in Slots \ {s} : att'[r] = att[r]
  BY DEF ManifestInv, LocalsTyped
<1>3. AttemptKnows(s)'
  BY <1>1 DEF AttemptKnows
<1> QED BY <1>1, <1>2, <1>3 DEF AttemptStep

\* An attempt is over.
LEMMA AttemptEnds ==
  ASSUME ManifestInv, NEW s \in Slots, att' = [att EXCEPT ![s] = IdleAttempt]
  PROVE  AttemptStep
<1>1. IdleAttempt \in AttemptLocals
  BY Names DEF IdleAttempt, AttemptLocals
<1>2. att' \in [Slots -> AttemptLocals] /\ att'[s] = IdleAttempt
  BY <1>1 DEF ManifestInv, LocalsTyped
<1>3. \A r \in Slots \ {s} : att'[r] = att[r]
  BY DEF ManifestInv, LocalsTyped
<1>4. AttemptKnows(s)'
  BY <1>2 DEF AttemptKnows, IdleAttempt, Reading
<1> QED BY <1>2, <1>3, <1>4 DEF AttemptStep

LEMMA RefWorkflowIsSafe ==
  ASSUME ManifestInv, NEW s \in Slots, RefWorkflow(s)
  PROVE  SafeStep
<1>1. wf[s] \in WorkflowLocals /\ att[s] \in AttemptLocals /\ run[s] \in RunRows
      /\ AttemptKnows(s) /\ WorldTyped
  BY LocalsOf DEF ManifestInv
<1>2. ASSUME UNCHANGED <<clock, remote, cursor, tables, cited, att, job, fail>>, RunStep
      PROVE  SafeStep
  <2>1. WorldTyped'
    BY <1>1, <1>2 DEF WorldTyped
  <2> QED BY <1>2, <2>1, ManifestRests, AttemptRests, JobRests DEF SafeStep, HistoryStep, tables
<1>3. ASSUME NEW pc \in {"sync", "wait", "list", "sweep", "record", "fail", "finish", "done"},
             wf' = [wf EXCEPT ![s].pc = pc]
      PROVE  /\ [wf[s] EXCEPT !.pc = pc] \in WorkflowLocals
             /\ wf' \in [Slots -> WorkflowLocals]
             /\ \A r \in Slots \ {s} : wf'[r] = wf[r]
             /\ wf'[s].pc = pc
  <2>1. [wf[s] EXCEPT !.pc = pc] \in WorkflowLocals
    BY <1>1 DEF WorkflowLocals
  <2> QED BY <1>3, <2>1 DEF ManifestInv, LocalsTyped, WorkflowLocals
<1>4. ASSUME NEW pc \in {"sync", "wait", "list", "sweep", "record", "fail", "finish", "done"},
             wf' = [wf EXCEPT ![s].pc = pc], UNCHANGED run
      PROVE  RunStep
  <2>1. /\ wf' \in [Slots -> WorkflowLocals]
        /\ \A r \in Slots : wf'[r].pc = "none" => wf[r].pc = "none"
    BY <1>3, <1>4
  <2> QED BY <1>4, <2>1, RunRests
<1>5. CASE RunExpires(s)
  <2>1. run' = [run EXCEPT ![s].live = FALSE] /\ UNCHANGED wf /\ run \in [Slots -> RunRows]
    BY <1>5 DEF RunExpires, ManifestInv, TablesTyped
  <2>2. [run[s] EXCEPT !.live = FALSE] \in RunRows
    BY <1>1 DEF RunRows
  <2>3. run' \in [Slots -> RunRows] /\ run'[s] = [run[s] EXCEPT !.live = FALSE]
        /\ \A r \in Slots \ {s} : run'[r] = run[r]
    BY <2>1, <2>2
  <2>4. run'[s].st = run[s].st /\ run'[s].live = FALSE
    BY <1>1, <2>3 DEF RunRows
  <2>5. RunStep
    BY <2>1, <2>3, <2>4 DEF RunStep, ManifestInv, LocalsTyped
  <2> QED BY <1>2, <1>5, <2>5 DEF RunExpires
<1>6. CASE ClaimRun(s)
  <2>1. /\ wf[s].pc = "none" /\ wf' = [wf EXCEPT ![s].pc = "sync"]
        /\ run' = [r \in Slots |->
             IF r = s THEN [st |-> "running", live |-> TRUE, head |-> HeadVersion,
                            cur |-> cursor]
             ELSE IF run[r].st = "running"
             THEN [run[r] EXCEPT !.st = "failed"]
             ELSE run[r]]
    BY <1>6 DEF ClaimRun
  <2>2. run[s].st = "none"
    BY <2>1 DEF ManifestInv, RunsTrue
  <2>3. [st |-> "running", live |-> TRUE, head |-> HeadVersion, cur |-> cursor] \in RunRows
    BY <1>1, ReceiptsTyped DEF RunRows, WorldTyped, HeadVersion
  <2>4. \A r \in Slots :
          /\ run[r] \in RunRows /\ [run[r] EXCEPT !.st = "failed"] \in RunRows
          /\ [run[r] EXCEPT !.st = "failed"].st = "failed"
    BY LocalsOf DEF RunRows
  <2>5. run' \in [Slots -> RunRows]
    BY <2>1, <2>3, <2>4
  <2>6. /\ run'[s].st = "running"
        /\ \A r \in Slots \ {s} : run'[r] = run[r] \/ (run[r].st = "running" /\ run'[r].st = "failed")
    <3>1. run'[s].st = "running"
      BY <2>1
    <3>2. ASSUME NEW r \in Slots \ {s}
          PROVE  run'[r] = run[r] \/ (run[r].st = "running" /\ run'[r].st = "failed")
      BY <2>1, <2>4
    <3> QED BY <3>1, <3>2
  <2>7. /\ wf' \in [Slots -> WorkflowLocals] /\ wf'[s].pc = "sync"
        /\ \A r \in Slots \ {s} : wf'[r] = wf[r]
    BY <1>3, <2>1
  <2>8. \A r \in Slots : wf[r].pc = "none" => run[r].st = "none"
    BY DEF ManifestInv, RunsTrue
  <2>9. RunStep
    BY <2>1, <2>2, <2>5, <2>6, <2>7, <2>8 DEF RunStep
  <2> QED BY <1>2, <1>6, <2>9 DEF ClaimRun
<1>7. CASE StartAttempt(s)
  <2>1. UNCHANGED <<clock, remote, run, cursor, tables, cited, job, fail>>
    BY <1>7 DEF StartAttempt
  <2>2. CASE wf' = [wf EXCEPT ![s].pc = "finish"] /\ UNCHANGED att
    BY <1>2, <1>4, <2>1, <2>2
  <2>3. CASE wf' = [wf EXCEPT ![s].pc = "wait"] /\ att' = [att EXCEPT ![s].pc = "head"]
    <3>1. RunStep /\ wf'[s].pc = "wait"
      BY <1>3, <1>4, <2>1, <2>3
    <3>2. AttemptStep
      <4> DEFINE l == [att[s] EXCEPT !.pc = "head"]
      <4>1. l \in AttemptLocals /\ l.pc = "head" /\ l.staged = att[s].staged
            /\ l.commit = att[s].commit
        BY <1>1 DEF AttemptLocals
      <4>2. att' = [att EXCEPT ![s] = l]
        BY <2>3
      <4>3. att[s].staged => att[s].commit \in Commits
        BY <1>1 DEF AttemptKnows
      <4> HIDE DEF l
      <4> QED BY <3>1, <4>1, <4>2, <4>3, AttemptGoesOn DEF Reading
    <3>3. WorldTyped'
      BY <1>1, <2>1 DEF WorldTyped
    <3> QED BY <2>1, <3>1, <3>2, <3>3, ManifestRests, JobRests DEF SafeStep, HistoryStep, tables
  <2> QED BY <1>7, <2>2, <2>3 DEF StartAttempt
<1>8. CASE AttemptTimesOut(s)
  BY <1>2, <1>4, <1>8 DEF AttemptTimesOut
<1>9. CASE failStagedManifestsForScheduledRef(s)
  <2>1. UNCHANGED <<clock, remote, run, cursor, tables, cited, att, job>>
    BY <1>9 DEF failStagedManifestsForScheduledRef
  <2>2. WorldTyped' /\ ManifestStep /\ AttemptStep /\ HistoryStep
    BY <1>1, <2>1, ManifestRests, AttemptRests DEF WorldTyped, HistoryStep, tables
  <2>3. CASE /\ wf' = [wf EXCEPT ![s].pc = "sweep", ![s].todo =
                    {m \in Manifests : Slot(m) = s /\ manifest[m].st = "staging"}]
             /\ UNCHANGED fail
    <3> DEFINE l == [wf[s] EXCEPT !.pc = "sweep", !.todo =
                       {m \in Manifests : Slot(m) = s /\ manifest[m].st = "staging"}]
    <3>1. l \in WorkflowLocals /\ l.pc = "sweep"
      BY <1>1 DEF WorkflowLocals
    <3>2. wf' = [wf EXCEPT ![s] = l]
      BY <2>3
    <3> HIDE DEF l
    <3>3. RunStep
      BY <2>1, <3>1, <3>2, WorkflowGoesOn
    <3> QED BY <2>1, <2>2, <2>3, <3>3, JobRests DEF SafeStep
  <2>4. ASSUME NEW m \in wf[s].todo,
               wf' = [wf EXCEPT ![s].todo = @ \ {m}],
               fail' = [fail EXCEPT ![<<"sweep", s>>].m = {m}]
        PROVE  SafeStep
    <3> DEFINE l == [wf[s] EXCEPT !.todo = wf[s].todo \ {m}]
    <3>1. l \in WorkflowLocals /\ l.pc = wf[s].pc /\ m \in Manifests
      BY <1>1, <2>4 DEF WorkflowLocals
    <3>2. wf' = [wf EXCEPT ![s] = l]
      BY <2>4
    <3> HIDE DEF l
    <3>3. RunStep
      BY <2>1, <3>1, <3>2, WorkflowGoesOn
    <3>4. fail \in [Failers -> Failures]
      BY DEF ManifestInv, LocalsTyped
    <3>5. fail' \in [Failers -> Failures]
      BY <2>4, <3>1, <3>4 DEF Failures, Failers
    <3>6. \A j \in Jobs : <<"job", j>> \in Failers /\ <<"job", j>> # <<"sweep", s>>
      BY DEF Failers
    <3>7. \A j \in Jobs : fail'[<<"job", j>>] = fail[<<"job", j>>]
      BY <2>4, <3>4, <3>6
    <3>8. JobStep
      BY <2>1, <3>5, <3>7, JobsRest
    <3> QED BY <2>2, <3>3, <3>8 DEF SafeStep
  <2>5. CASE wf' = [wf EXCEPT ![s].pc = "record"] /\ UNCHANGED fail
    BY <1>4, <2>1, <2>2, <2>5, JobRests DEF SafeStep
  <2> QED BY <1>9, <2>3, <2>4, <2>5 DEF failStagedManifestsForScheduledRef
<1>10. CASE recordSyncFailure(s)
  <2>1. /\ UNCHANGED <<clock, remote, run, tables, cited, att, job, fail>>
        /\ wf' = [wf EXCEPT ![s].pc = "fail"]
        /\ cursor' \in {cursor, cursor + 1}
    BY <1>10 DEF recordSyncFailure
  <2>2. WorldTyped'
    BY <1>1, <2>1 DEF WorldTyped
  <2>3. RunStep
    BY <1>4, <2>1
  <2> QED BY <2>1, <2>2, <2>3, ManifestRests, AttemptRests, JobRests
          DEF SafeStep, HistoryStep, tables
<1>11. CASE finishRepositorySyncRun(s)
  <2>1. /\ wf' = [wf EXCEPT ![s].pc = "done"] /\ wf[s].pc \in {"finish", "fail"}
        /\ \/ UNCHANGED run
           \/ \E st \in {"complete", "failed"} : run' = [run EXCEPT ![s].st = st]
        /\ run[s].st # "running" => UNCHANGED run
    BY <1>11 DEF finishRepositorySyncRun
  <2>2. CASE UNCHANGED run
    BY <1>2, <1>4, <1>11, <2>1, <2>2 DEF finishRepositorySyncRun
  <2>3. ASSUME NEW st \in {"complete", "failed"}, run' = [run EXCEPT ![s].st = st],
               run[s].st = "running"
        PROVE  SafeStep
    <3>1. [run[s] EXCEPT !.st = st] \in RunRows /\ [run[s] EXCEPT !.st = st].st = st
      BY <1>1 DEF RunRows
    <3>2. run' \in [Slots -> RunRows] /\ run'[s].st = st
          /\ \A r \in Slots \ {s} : run'[r] = run[r]
      BY <2>3, <3>1 DEF ManifestInv, TablesTyped
    <3>3. /\ wf' \in [Slots -> WorkflowLocals] /\ wf'[s].pc = "done"
          /\ \A r \in Slots \ {s} : wf'[r] = wf[r]
      BY <1>3, <2>1
    <3>4. RunStep
      BY <2>3, <3>2, <3>3 DEF RunStep
    <3> QED BY <1>2, <1>11, <3>4 DEF finishRepositorySyncRun
  <2> QED BY <2>1, <2>2, <2>3
<1> QED BY <1>5, <1>6, <1>7, <1>8, <1>9, <1>10, <1>11 DEF RefWorkflow

-----------------------------------------------------------------------------
(* An attempt *)

\* Another's failure is not retention's.
LEMMA OthersFail ==
  ASSUME ManifestInv, NEW x \in {"attempt", "sweep"} \X Slots, NEW f \in Failures,
         fail' = [fail EXCEPT ![x] = f], UNCHANGED job
  PROVE  JobStep
<1>1. fail \in [Failers -> Failures]
  BY DEF ManifestInv, LocalsTyped
<1>2. \A j \in Jobs : <<"job", j>> \in Failers /\ <<"job", j>> # x
  BY DEF Failers
<1>3. x \in Failers
  BY DEF Failers
<1>4. fail' \in [Failers -> Failures]
  BY <1>1, <1>3
<1>5. \A j \in Jobs : fail'[<<"job", j>>] = fail[<<"job", j>>]
  BY <1>1, <1>2
<1> QED BY <1>4, <1>5, JobsRest

LEMMA HeardIsSafe ==
  ASSUME ManifestInv, NEW s \in Slots, UNCHANGED run, NEW tries \in Nat,
         NEW pc \in {"sync", "list", "finish"}, wf' = Heard(s, pc, tries)
  PROVE  RunStep
<1> DEFINE l == [wf[s] EXCEPT !.pc = pc, !.tries = tries]
<1>1. l \in WorkflowLocals /\ l.pc = pc
  BY LocalsOf DEF WorkflowLocals
<1>2. wf' = [wf EXCEPT ![s] = l] \/ UNCHANGED wf
  BY DEF Heard
<1> HIDE DEF l
<1> QED BY <1>1, <1>2, WorkflowGoesOn, WorkflowRests

\* A final error: the Workflow hears of it later.
LEMMA FailingIsSafe ==
  ASSUME ManifestInv, NEW s \in Slots, att[s].pc # "idle", syncRefFails(s), UNCHANGED job
  PROVE  AttemptStep /\ JobStep /\ UNCHANGED wf
<1>1. att[s] \in AttemptLocals /\ AttemptKnows(s)
  BY LocalsOf
<1>2. UNCHANGED wf /\ wf'[s].pc # "none"
  BY <1>1 DEF syncRefFails, AttemptKnows
<1>3. AttemptStep
  <2> DEFINE l == [att[s] EXCEPT !.pc = "failed"]
  <2>1. l \in AttemptLocals /\ l.pc = "failed" /\ l.staged = att[s].staged
        /\ l.commit = att[s].commit
    BY <1>1 DEF AttemptLocals
  <2>2. att' = [att EXCEPT ![s] = l]
    BY DEF syncRefFails, Goto
  <2>3. att[s].staged => att[s].commit \in Commits
    BY <1>1 DEF AttemptKnows
  <2> HIDE DEF l
  <2> QED BY <1>2, <2>1, <2>2, <2>3, AttemptGoesOn DEF Reading
<1>4. JobStep
  <2> DEFINE ms == IF att[s].staged THEN {Target(s)} ELSE {}
             f == [fail[<<"attempt", s>>] EXCEPT !.m = ms]
  <2>1. ms \subseteq Manifests
    BY <1>1 DEF AttemptKnows, Target, Manifests
  <2>2. <<"attempt", s>> \in Failers /\ <<"attempt", s>> \in {"attempt", "sweep"} \X Slots
    BY DEF Failers
  <2>3. fail[<<"attempt", s>>] \in Failures
    BY <2>2 DEF ManifestInv, LocalsTyped
  <2>4. f \in Failures
    <3> HIDE DEF ms
    <3> QED BY <2>1, <2>3 DEF Failures
  <2>5. fail' = [fail EXCEPT ![<<"attempt", s>>] = f]
    BY DEF syncRefFails
  <2> HIDE DEF f
  <2> QED BY <2>2, <2>4, <2>5, OthersFail
<1> QED BY <1>2, <1>3, <1>4

\* Only the locals of the attempt, and a cursor
LEMMA QuietIsSafe ==
  ASSUME ManifestInv, UNCHANGED <<clock, remote, tables, cited>>,
         cursor' \in {cursor, cursor + 1},
         RunStep, AttemptStep, JobStep
  PROVE  SafeStep
<1>1. WorldTyped'
  BY DEF WorldTyped, ManifestInv
<1> QED BY <1>1, ManifestRests DEF SafeStep, HistoryStep, tables

\* A row of the manifests too
LEMMA RowIsSafe ==
  ASSUME ManifestInv, UNCHANGED <<clock, remote, cursor, receipts, deltas, reviews, cited>>,
         ManifestStep, RunStep, AttemptStep, JobStep
  PROVE  SafeStep
<1>1. WorldTyped'
  BY DEF WorldTyped, ManifestInv
<1> QED BY <1>1 DEF SafeStep, HistoryStep

LEMMA SucceedsIsSafe ==
  ASSUME ManifestInv, NEW s \in Slots, Succeeds(s), UNCHANGED <<run, job>>
  PROVE  RunStep /\ AttemptStep /\ JobStep
<1>1. RunStep
  BY HeardIsSafe DEF Succeeds
<1> QED BY <1>1, AttemptEnds, JobRests DEF Succeeds

LEMMA EndIsSafe ==
  ASSUME ManifestInv, NEW s \in Slots,
         AttemptDies(s) \/ ReportFailure(s) \/ RetryableError(s)
  PROVE  SafeStep
<1>1. UNCHANGED <<clock, remote, tables, cited, cursor, run, job>>
      /\ att' = [att EXCEPT ![s] = IdleAttempt]
  BY DEF AttemptDies, ReportFailure, RetryableError
<1>2. AttemptStep
  BY <1>1, AttemptEnds
<1>3. RunStep
  <2>1. CASE AttemptDies(s)
    <3> DEFINE l == [wf[s] EXCEPT !.pc = "list"]
    <3>1. l \in WorkflowLocals /\ l.pc = "list"
      BY LocalsOf DEF WorkflowLocals
    <3>2. wf' = [wf EXCEPT ![s] = l] \/ UNCHANGED wf
      BY <2>1 DEF AttemptDies
    <3> HIDE DEF l
    <3> QED BY <1>1, <3>1, <3>2, WorkflowGoesOn, WorkflowRests
  <2>2. CASE ReportFailure(s)
    BY <1>1, <2>2, HeardIsSafe DEF ReportFailure
  <2>3. CASE RetryableError(s)
    <3>1. wf[s].tries + 1 \in Nat
      BY LocalsOf DEF WorkflowLocals
    <3>2. wf' = Heard(s, "sync", wf[s].tries + 1) \/ wf' = Heard(s, "list", 0)
      BY <2>3 DEF RetryableError
    <3> QED BY <1>1, <3>1, <3>2, HeardIsSafe
  <2> QED BY <2>1, <2>2, <2>3
<1>4. JobStep
  <2>1. CASE AttemptDies(s)
    <3>1. NotFailing \in Failures /\ <<"attempt", s>> \in {"attempt", "sweep"} \X Slots
      BY DEF NotFailing, Failures
    <3> QED BY <1>1, <2>1, <3>1, OthersFail DEF AttemptDies
  <2>2. CASE ReportFailure(s) \/ RetryableError(s)
    BY <2>2, JobRests DEF ReportFailure, RetryableError
  <2> QED BY <2>1, <2>2
<1> QED BY <1>1, <1>2, <1>3, <1>4, QuietIsSafe

LEMMA LookIsSafe ==
  ASSUME ManifestInv, NEW s \in Slots,
         readActiveGitHubTreeHead(s) \/ markUnchanged(s) \/ ReadTree(s)
  PROVE  SafeStep
<1>1. /\ UNCHANGED <<clock, remote, tables, cited, run, job>>
      /\ cursor' \in {cursor, cursor + 1}
      /\ att[s].pc # "idle"
  BY DEF readActiveGitHubTreeHead, markUnchanged, ReadTree, At
<1>2. CASE syncRefFails(s)
  BY <1>1, <1>2, FailingIsSafe, WorkflowRests, QuietIsSafe
<1>3. CASE Succeeds(s)
  BY <1>1, <1>3, SucceedsIsSafe, QuietIsSafe
<1>4. att[s] \in AttemptLocals /\ AttemptKnows(s)
  BY LocalsOf
<1>5. CASE /\ att' = [att EXCEPT ![s].pc = "ref", ![s].base = HeadVersion]
           /\ UNCHANGED <<wf, fail>>
  <2> DEFINE l == [att[s] EXCEPT !.pc = "ref", !.base = HeadVersion]
  <2>1. l \in AttemptLocals /\ l.pc = "ref" /\ l.staged = att[s].staged
        /\ l.commit = att[s].commit
    BY <1>4, ReceiptsTyped DEF AttemptLocals, HeadVersion
  <2>2. att' = [att EXCEPT ![s] = l]
    BY <1>5
  <2>3. wf'[s].pc # "none" /\ (att[s].staged => att[s].commit \in Commits)
    BY <1>1, <1>4, <1>5 DEF AttemptKnows
  <2> HIDE DEF l
  <2>4. AttemptStep
    BY <2>1, <2>2, <2>3, AttemptGoesOn DEF Reading
  <2> QED BY <1>1, <1>5, <2>4, WorkflowRests, JobRests, QuietIsSafe
<1>6. CASE ReadTree(s)
  <2> DEFINE l == [att[s] EXCEPT !.pc = "begin", !.commit = remote]
  <2>1. remote \in Commits
    BY DEF ManifestInv, WorldTyped
  <2>2. l \in AttemptLocals /\ l.pc = "begin" /\ l.commit = remote
    BY <1>4, <2>1, Names DEF AttemptLocals
  <2>3. att' = [att EXCEPT ![s] = l] /\ UNCHANGED <<wf, fail>>
    BY <1>6 DEF ReadTree
  <2>4. wf'[s].pc # "none"
    BY <1>1, <1>4, <2>3 DEF AttemptKnows
  <2> HIDE DEF l
  <2>5. AttemptStep
    BY <2>1, <2>2, <2>3, <2>4, AttemptGoesOn DEF Reading
  <2> QED BY <1>1, <2>3, <2>5, WorkflowRests, JobRests, QuietIsSafe
<1> QED BY <1>2, <1>3, <1>5, <1>6 DEF readActiveGitHubTreeHead, markUnchanged

\* The attempt goes on with what it has.
LEMMA GotoIsSafe ==
  ASSUME ManifestInv, NEW s \in Slots, UNCHANGED <<wf, job, fail>>,
         NEW l \in AttemptLocals, att' = [att EXCEPT ![s] = l],
         att[s].pc # "idle",
         l.commit = att[s].commit /\ att[s].commit \in Commits,
         l.pc \in Reading => TreeRead(l.entries, att[s].commit)
  PROVE  AttemptStep /\ JobStep
<1>1. wf'[s].pc # "none"
  BY LocalsOf DEF AttemptKnows
<1>2. AttemptStep
  BY <1>1, AttemptGoesOn
<1> QED BY <1>2, JobRests

LEMMA BeginIsSafe ==
  ASSUME ManifestInv, NEW s \in Slots, beginGitHubTreeManifest(s)
  PROVE  SafeStep
<1>1. /\ UNCHANGED <<clock, remote, run, cursor, receipts, deltas, reviews, candidates,
                     events, cited, job>>
      /\ att[s].pc = "begin"
  BY DEF beginGitHubTreeManifest, At
<1>2. att[s] \in AttemptLocals /\ AttemptKnows(s)
  BY LocalsOf
<1>3. att[s].commit \in Commits /\ wf[s].pc # "none"
  BY <1>1, <1>2 DEF AttemptKnows
<1>4. Target(s) \in Manifests /\ Slot(Target(s)) = s
  BY <1>3 DEF Target, Manifests, Slot
<1>5. ManifestStep
  <2>1. CASE UNCHANGED manifest
    BY <1>1, <2>1, ManifestRests
  <2>2. CASE /\ manifest[Target(s)].st = "none"
             /\ manifest' = [manifest EXCEPT ![Target(s)].st = "staging",
                                             ![Target(s)].born = clock]
    <3> DEFINE r == [manifest[Target(s)] EXCEPT !.st = "staging", !.born = clock]
    <3>1. clock \in Nat /\ manifest[Target(s)] \in ManifestRows
      BY <1>4, RowOf, Names DEF ManifestInv, WorldTyped
    <3>2. /\ r \in ManifestRows /\ r.st = "staging" /\ r.hold = manifest[Target(s)].hold
          /\ r.entries = manifest[Target(s)].entries
      BY <3>1 DEF ManifestRows, Statuses
    <3>3. manifest' = [manifest EXCEPT ![Target(s)] = r]
      BY <2>2
    <3>4. manifest[Target(s)].hold = "free"
      BY <1>4, <2>2, RowOf
    <3> HIDE DEF r
    <3>5. manifest'[Target(s)] = r
      BY <1>4, <3>3 DEF ManifestInv, TablesTyped
    <3>6. RowBegun(Target(s))
      BY <1>3, <1>4, <2>2, <3>2, <3>5 DEF RowBegun
    <3>7. events' \subseteq Events /\ \A m \in Manifests : EventsKept(m)
      BY <1>1 DEF ManifestInv, TablesTyped, EventsKept, EventsOf
    <3>8. r.hold # "free" => r.st = "purging"
      BY <3>2, <3>4
    <3> QED BY <1>4, <3>2, <3>3, <3>6, <3>7, <3>8, OneRow DEF RowStep
  <2> QED BY <2>1, <2>2 DEF beginGitHubTreeManifest
<1>6. CASE syncRefFails(s)
  BY <1>1, <1>5, <1>6, FailingIsSafe, WorkflowRests, RowIsSafe
<1>7. CASE /\ att' = [att EXCEPT ![s].pc = "blobs", ![s].staged = TRUE]
           /\ UNCHANGED <<wf, fail>>
  <2> DEFINE l == [att[s] EXCEPT !.pc = "blobs", !.staged = TRUE]
  <2>1. l \in AttemptLocals /\ l.pc = "blobs" /\ l.commit = att[s].commit
    BY <1>2 DEF AttemptLocals
  <2>2. att' = [att EXCEPT ![s] = l]
    BY <1>7
  <2> HIDE DEF l
  <2>3. AttemptStep /\ JobStep
    BY <1>1, <1>3, <1>7, <2>1, <2>2, GotoIsSafe DEF Reading
  <2> QED BY <1>1, <1>5, <1>7, <2>3, WorkflowRests, RowIsSafe
<1> QED BY <1>6, <1>7 DEF beginGitHubTreeManifest

\* What was read is the tree, with a mark for what could not be read.
LEMMA NormalizedKnows ==
  ASSUME NEW c \in Commits, NEW part \in SUBSET Stored(c)
  PROVE  Normalized(c, part) \in Trees /\ TreeRead(Normalized(c, part), c)
<1>1. c \in Trees
  BY Names
<1>2. \A p \in part : p \in Paths /\ c[p] # "none"
  BY DEF Stored
<1> QED BY <1>1, <1>2 DEF Normalized, Trees, TreeRead

LEMMA BlobsAreSafe ==
  ASSUME ManifestInv, NEW s \in Slots, persistGitHubTreeManifestEntries(s)
  PROVE  SafeStep
<1>1. /\ UNCHANGED <<clock, remote, run, cursor, tables, cited, job>>
      /\ att[s].pc = "blobs"
  BY DEF persistGitHubTreeManifestEntries, At
<1>2. att[s] \in AttemptLocals /\ AttemptKnows(s)
  BY LocalsOf
<1>3. att[s].commit \in Commits
  BY <1>1, <1>2 DEF AttemptKnows
<1>4. CASE syncRefFails(s)
  BY <1>1, <1>4, FailingIsSafe, WorkflowRests, QuietIsSafe
<1>5. ASSUME NEW part \in SUBSET Stored(att[s].commit),
             NEW todo \in SUBSET Paths, NEW pc \in {"store", "complete"},
             NEW e, e = Normalized(att[s].commit, part),
             att' = [att EXCEPT ![s] = [att[s] EXCEPT !.entries = e, !.pc = pc,
                                                      !.todo = todo]],
             UNCHANGED <<wf, fail>>
      PROVE  SafeStep
  <2>1. e \in Trees /\ TreeRead(e, att[s].commit)
    BY <1>3, <1>5, NormalizedKnows
  <2>2. PICK l : l = [att[s] EXCEPT !.entries = e, !.pc = pc, !.todo = todo]
    OBVIOUS
  <2>3. att' = [att EXCEPT ![s] = l]
    BY <1>5, <2>2
  <2>5. /\ l \in AttemptLocals /\ l.pc = pc /\ l.commit = att[s].commit
        /\ l.entries = e
    BY <1>2, <2>1, <2>2 DEF AttemptLocals
  <2>4. AttemptStep /\ JobStep
    BY <1>1, <1>3, <1>5, <2>1, <2>3, <2>5, GotoIsSafe
  <2> QED BY <1>1, <1>5, <2>4, WorkflowRests, QuietIsSafe
<1>6. ASSUME ~syncRefFails(s)
      PROVE  SafeStep
  <2>1. PICK part \in SUBSET Paths :
          /\ ReadBlobs(s, part)
          /\ UNCHANGED <<wf, fail>>
          /\ \/ att' = [att EXCEPT ![s] =
                  [att[s] EXCEPT !.entries = Normalized(att[s].commit, part),
                                 !.pc = "store",
                                 !.todo = Stored(Normalized(att[s].commit, part))]]
             \/ att' = [att EXCEPT ![s] =
                  [att[s] EXCEPT !.entries = Normalized(att[s].commit, part),
                                 !.pc = "complete", !.todo = att[s].todo]]
    BY <1>2, <1>6 DEF persistGitHubTreeManifestEntries, AttemptLocals
  <2>2. part \in SUBSET Stored(att[s].commit)
    BY <2>1 DEF ReadBlobs
  <2>3. att[s].todo \subseteq Paths /\ Stored(Normalized(att[s].commit, part)) \subseteq Paths
    BY <1>2 DEF AttemptLocals, Stored
  <2> QED BY <1>5, <2>1, <2>2, <2>3
<1> QED BY <1>4, <1>6

\* What an attempt that stores or compares entries knows
LEMMA ReaderKnows ==
  ASSUME ManifestInv, NEW s \in Slots, att[s].pc \in Reading
  PROVE  /\ att[s] \in AttemptLocals /\ att[s].commit \in Commits
         /\ TreeRead(att[s].entries, att[s].commit)
         /\ Target(s) \in Manifests /\ Commit(Target(s)) = att[s].commit
<1>1. att[s] \in AttemptLocals /\ AttemptKnows(s)
  BY LocalsOf
<1>2. att[s].commit \in Commits /\ TreeRead(att[s].entries, att[s].commit)
  BY <1>1 DEF AttemptKnows
<1>3. Target(s) \in Manifests /\ Commit(Target(s)) = att[s].commit
  BY <1>2 DEF Target, Manifests, Commit
<1> QED BY <1>1, <1>2, <1>3

\* A reader that goes on with the same entries
LEMMA ReaderGoesOn ==
  ASSUME ManifestInv, NEW s \in Slots, att[s].pc \in Reading,
         UNCHANGED <<wf, job, fail>>,
         NEW pc \in Reading, NEW todo \in SUBSET Paths,
         att' = [att EXCEPT ![s] = [att[s] EXCEPT !.pc = pc, !.todo = todo]]
  PROVE  AttemptStep /\ JobStep
<1>1. PICK l : l = [att[s] EXCEPT !.pc = pc, !.todo = todo]
  OBVIOUS
<1>2. att' = [att EXCEPT ![s] = l]
  BY <1>1
<1>3. /\ l \in AttemptLocals /\ l.commit = att[s].commit
      /\ l.entries = att[s].entries
  BY <1>1, ReaderKnows DEF AttemptLocals, Reading
<1>4. att[s].pc # "idle"
  BY DEF Reading
<1> QED BY <1>2, <1>3, <1>4, ReaderKnows, GotoIsSafe

LEMMA ReaderGoto ==
  ASSUME ManifestInv, NEW s \in Slots, att[s].pc \in Reading,
         UNCHANGED <<wf, job, fail>>, NEW pc \in Reading, Goto(s, pc)
  PROVE  AttemptStep /\ JobStep
<1>1. att[s] \in AttemptLocals
  BY ReaderKnows
<1>2. /\ att[s].todo \in SUBSET Paths
      /\ [att[s] EXCEPT !.pc = pc] = [att[s] EXCEPT !.pc = pc, !.todo = att[s].todo]
  BY <1>1 DEF AttemptLocals
<1>3. att' = [att EXCEPT ![s] = [att[s] EXCEPT !.pc = pc]]
  BY DEF Goto
<1> QED BY <1>2, <1>3, ReaderGoesOn

LEMMA StoreIsSafe ==
  ASSUME ManifestInv, NEW s \in Slots, StoreEntries(s)
  PROVE  SafeStep
<1>1. /\ UNCHANGED <<clock, remote, run, cursor, receipts, deltas, reviews, candidates,
                     events, cited, job>>
      /\ att[s].pc = "store" /\ att[s].pc \in Reading /\ att[s].pc # "idle"
  BY DEF StoreEntries, At, Reading
<1>2. CASE syncRefFails(s) /\ UNCHANGED manifest
  BY <1>1, <1>2, FailingIsSafe, WorkflowRests, ManifestRests, RowIsSafe
<1>3. CASE Goto(s, "complete") /\ UNCHANGED <<wf, fail, manifest>>
  <2>1. AttemptStep /\ JobStep
    BY <1>1, <1>3, ReaderGoto DEF Reading
  <2> QED BY <1>1, <1>3, <2>1, WorkflowRests, ManifestRests, RowIsSafe
<1>4. ASSUME NEW p \in att[s].todo, manifest[Target(s)].st = "staging",
             manifest' = [manifest EXCEPT ![Target(s)].entries[p] =
                            IF @ = "none" THEN att[s].entries[p] ELSE @],
             att' = [att EXCEPT ![s].todo = @ \ {p}],
             UNCHANGED <<wf, fail>>
      PROVE  SafeStep
  <2>1. /\ att[s] \in AttemptLocals /\ Target(s) \in Manifests
        /\ TreeRead(att[s].entries, att[s].commit) /\ Commit(Target(s)) = att[s].commit
    BY <1>1, ReaderKnows
  <2>2. p \in Paths /\ att[s].todo \ {p} \in SUBSET Paths
        /\ [att[s] EXCEPT !.todo = att[s].todo \ {p}] =
             [att[s] EXCEPT !.pc = "store", !.todo = att[s].todo \ {p}]
    BY <1>1, <2>1 DEF AttemptLocals
  <2>3. att' = [att EXCEPT ![s] = [att[s] EXCEPT !.todo = att[s].todo \ {p}]]
    BY <1>4
  <2>4. AttemptStep /\ JobStep
    BY ZenonT(40), <1>1, <1>4, <2>2, <2>3, ReaderGoesOn DEF Reading
  <2>5. PICK m : m = Target(s)
    OBVIOUS
  <2>6. PICK e : e = IF manifest[m].entries[p] = "none" THEN att[s].entries[p]
                     ELSE manifest[m].entries[p]
    OBVIOUS
  <2>7. manifest[m] \in ManifestRows /\ m \in Manifests
    BY <2>1, <2>5, RowOf
  <2>8. e \in Blobs \cup {"none", "partial"}
        /\ e \in {manifest[m].entries[p], "partial", Commit(m)[p]}
    BY <2>1, <2>2, <2>5, <2>6, <2>7 DEF AttemptLocals, ManifestRows, Trees, TreeRead
  <2>9. PICK r : r = [manifest[m] EXCEPT !.entries = [manifest[m].entries EXCEPT ![p] = e]]
    OBVIOUS
  <2>10. /\ r \in ManifestRows /\ r.st = "staging" /\ r.hold = manifest[m].hold
         /\ r.entries = [manifest[m].entries EXCEPT ![p] = e]
    BY <1>4, <2>2, <2>5, <2>7, <2>8, <2>9 DEF ManifestRows, Trees
  <2>11. manifest' = [manifest EXCEPT ![m] = r]
    BY <1>4, <2>5, <2>6, <2>9
  <2>12. manifest'[m] = r
    BY <2>7, <2>11 DEF ManifestInv, TablesTyped
  <2>13. manifest[m].entries \in Trees
    BY <2>7 DEF ManifestRows
  <2>14. \A q \in Paths :
           r.entries[q] \in {manifest[m].entries[q], "none", "partial", Commit(m)[q]}
    BY <2>8, <2>10, <2>13 DEF Trees
  <2>15. RowWritten(m)
    BY <1>4, <2>5, <2>10, <2>12, <2>14 DEF RowWritten
  <2>16. events' \subseteq Events /\ \A k \in Manifests : EventsKept(k)
    BY <1>1 DEF ManifestInv, TablesTyped, EventsKept, EventsOf
  <2>17. r.hold # "free" => r.st = "purging"
    BY <1>4, <2>5, <2>7, <2>10, RowOf
  <2>18. ManifestStep
    BY <2>7, <2>10, <2>11, <2>15, <2>16, <2>17, OneRow DEF RowStep
  <2> QED BY <1>1, <1>4, <2>4, <2>18, WorkflowRests, RowIsSafe
<1> QED BY <1>2, <1>3, <1>4 DEF StoreEntries

LEMMA CheckIsSafe ==
  ASSUME ManifestInv, NEW s \in Slots, CheckEntries(s)
  PROVE  SafeStep
<1>1. /\ UNCHANGED <<clock, remote, run, cursor, tables, cited, job>>
      /\ att[s].pc \in Reading /\ att[s].pc # "idle"
  BY DEF CheckEntries, At, Reading
<1>2. CASE syncRefFails(s)
  BY <1>1, <1>2, FailingIsSafe, WorkflowRests, QuietIsSafe
<1>3. ASSUME NEW pc \in {"seal", "activate"}, Goto(s, pc), UNCHANGED <<wf, fail>>
      PROVE  SafeStep
  <2>1. pc \in Reading
    BY DEF Reading
  <2>2. AttemptStep /\ JobStep
    BY <1>1, <1>3, <2>1, ReaderGoto
  <2> QED BY <1>1, <1>3, <2>2, WorkflowRests, QuietIsSafe
<1> QED BY <1>2, <1>3 DEF CheckEntries

\* Entries as many as those of the commit, none of them a mark, are the tree.
LEMMA WholeIsSealed ==
  ASSUME NEW e \in Trees, NEW c \in Commits, NEW r, TreeRead(r, c),
         Cardinality(Stored(e)) = Cardinality(Stored(r)),
         \A p \in Paths : e[p] \in {"none", "partial", c[p]} /\ e[p] # "partial"
  PROVE  e = c
<1>1. Stored(r) = Stored(c)
  BY DEF TreeRead, Stored
<1>2. Stored(e) \subseteq Stored(c)
  BY DEF Stored
<1>3. Stored(e) = Stored(c)
  BY <1>1, <1>2, StoredFinite, FS_Subset
<1>4. \A p \in Paths : e[p] = c[p]
  <2> TAKE p \in Paths
  <2>1. CASE e[p] = "none"
    BY <1>3, <2>1 DEF Stored
  <2> QED BY <2>1
<1>5. c \in Trees
  BY Names
<1> QED BY <1>4, <1>5 DEF Trees

LEMMA SealIsSafe ==
  ASSUME ManifestInv, NEW s \in Slots, completeGitHubTreeManifest(s)
  PROVE  SafeStep
<1>1. /\ UNCHANGED <<clock, remote, run, cursor, receipts, deltas, reviews, candidates,
                     events, cited, job>>
      /\ att[s].pc \in Reading /\ att[s].pc # "idle"
  BY DEF completeGitHubTreeManifest, At, Reading
<1>2. PICK m : m = Target(s)
  OBVIOUS
<1>3. /\ m \in Manifests /\ manifest[m] \in ManifestRows
      /\ att[s].commit \in Commits /\ Commit(m) = att[s].commit
      /\ TreeRead(att[s].entries, att[s].commit)
  BY <1>1, <1>2, ReaderKnows, RowOf
<1>4. ManifestStep
  <2>1. CASE UNCHANGED manifest
    BY <1>1, <2>1, ManifestRests
  <2>2. CASE /\ manifest[m].st = "staging"
             /\ Cardinality(Stored(manifest[m].entries)) =
                  Cardinality(Stored(att[s].entries))
             /\ \A p \in Paths : manifest[m].entries[p] # "partial"
             /\ manifest' = [manifest EXCEPT ![m].st = "complete",
                               ![m].count = Cardinality(Stored(manifest[m].entries))]
    <3>1. manifest[m].entries \in Trees
      BY <1>3 DEF ManifestRows
    <3>2. \A p \in Paths : manifest[m].entries[p] \in {"none", "partial", Commit(m)[p]}
      BY <1>3 DEF ManifestInv, EntriesTrue
    <3>3. manifest[m].entries = Commit(m)
      BY <1>3, <2>2, <3>1, <3>2, WholeIsSealed
    <3>4. PICK r : r = [manifest[m] EXCEPT !.st = "complete",
                          !.count = Cardinality(Stored(manifest[m].entries))]
      OBVIOUS
    <3>5. /\ r \in ManifestRows /\ r.st = "complete" /\ r.entries = manifest[m].entries
          /\ r.hold = manifest[m].hold
      BY <1>3, <3>4, StoredFinite DEF ManifestRows, Statuses
    <3>6. manifest' = [manifest EXCEPT ![m] = r] /\ manifest'[m] = r
      BY <1>3, <2>2, <3>4 DEF ManifestInv, TablesTyped
    <3>7. RowSealed(m)
      BY <2>2, <3>3, <3>5, <3>6 DEF RowSealed
    <3>8. events' \subseteq Events /\ \A k \in Manifests : EventsKept(k)
      BY <1>1 DEF ManifestInv, TablesTyped, EventsKept, EventsOf
    <3>9. r.hold # "free" => r.st = "purging"
      BY <1>3, <2>2, <3>5, RowOf
    <3> QED BY <1>3, <3>5, <3>6, <3>7, <3>8, <3>9, OneRow DEF RowStep
  <2> QED BY <1>2, <2>1, <2>2 DEF completeGitHubTreeManifest
<1>5. CASE syncRefFails(s)
  BY <1>1, <1>4, <1>5, FailingIsSafe, WorkflowRests, RowIsSafe
<1>6. CASE Goto(s, "activate") /\ UNCHANGED <<wf, fail>>
  <2>1. AttemptStep /\ JobStep
    BY <1>1, <1>6, ReaderGoto DEF Reading
  <2> QED BY <1>1, <1>4, <1>6, <2>1, WorkflowRests, RowIsSafe
<1> QED BY <1>5, <1>6 DEF completeGitHubTreeManifest

LEMMA ActivateIsSafe ==
  ASSUME ManifestInv, NEW s \in Slots, activateGitHubTreeManifest(s)
  PROVE  SafeStep
<1>1. /\ UNCHANGED <<clock, remote, manifest, events, cited, job>>
      /\ att[s].pc = "activate" /\ att[s].pc # "idle"
  BY DEF activateGitHubTreeManifest, At
<1>2. CASE syncRefFails(s) /\ UNCHANGED <<deltas, reviews, candidates, receipts, cursor, run>>
  BY <1>1, <1>2, FailingIsSafe, WorkflowRests, QuietIsSafe DEF tables
<1>3. CASE /\ ActivationFence(s)
           /\ LET old == HeadAt(att[s].base) IN
              /\ Recorded(s, old, Deltas(old, Target(s), EntriesOf(old),
                                         manifest[Target(s)].entries))
              /\ Receipted(s, old)
           /\ Succeeds(s)
  <2>1. Activation(s)
    BY <1>1, <1>3 DEF Activation, At
  <2>2. run[s].st = "running" /\ run' = [run EXCEPT ![s].st = "complete"]
    BY <2>1, ActivationAppends
  <2>3. WorldTyped'
    BY <1>1, <2>1, ActivationTyped DEF ManifestInv, WorldTyped
  <2>4. [run[s] EXCEPT !.st = "complete"] \in RunRows
        /\ [run[s] EXCEPT !.st = "complete"].st = "complete"
    BY LocalsOf DEF RunRows
  <2>5. run' \in [Slots -> RunRows] /\ run'[s].st = "complete"
        /\ \A r \in Slots \ {s} : run'[r] = run[r]
    BY <2>2, <2>4 DEF ManifestInv, TablesTyped
  <2>6. PICK l : l = [wf[s] EXCEPT !.pc = "finish", !.tries = 0]
    OBVIOUS
  <2>7. l \in WorkflowLocals /\ l.pc = "finish"
    BY <2>6, LocalsOf DEF WorkflowLocals
  <2>8. wf' = [wf EXCEPT ![s] = l] \/ UNCHANGED wf
    BY <1>3, <2>6 DEF Succeeds, Heard
  <2>9. wf[s].pc # "none"
    BY <1>1, LocalsOf DEF AttemptKnows
  <2>10. /\ wf' \in [Slots -> WorkflowLocals] /\ wf'[s].pc # "none"
         /\ \A r \in Slots \ {s} : wf'[r] = wf[r]
    BY <2>7, <2>8, <2>9 DEF ManifestInv, LocalsTyped
  <2>11. RunStep
    BY <2>2, <2>5, <2>10 DEF RunStep
  <2> QED BY <1>1, <1>3, <2>1, <2>3, <2>11, ManifestRests, AttemptEnds, JobRests
          DEF SafeStep, HistoryStep, Succeeds
<1> QED BY <1>2, <1>3 DEF activateGitHubTreeManifest

LEMMA AttemptIsSafe ==
  ASSUME ManifestInv, NEW s \in Slots, Attempt(s)
  PROVE  SafeStep
BY EndIsSafe, LookIsSafe, BeginIsSafe, BlobsAreSafe, StoreIsSafe, CheckIsSafe, SealIsSafe,
   ActivateIsSafe
   DEF Attempt

-----------------------------------------------------------------------------
(* Retention, and the calls of failGitHubTreeManifest *)

Purging == {"claim", "select", "delete", "purge"}

LEMMA JobOf ==
  ASSUME ManifestInv, NEW j \in Jobs
  PROVE  /\ job[j] \in JobLocals /\ fail[<<"job", j>>] \in Failures
         /\ <<"job", j>> \in Failers
         /\ job[j].pc \in Purging =>
              /\ Mine(j) \in Manifests /\ job[j].m = {Mine(j)}
              /\ manifest[Mine(j)] \in ManifestRows
<1>1. job[j] \in JobLocals /\ fail[<<"job", j>>] \in Failures /\ <<"job", j>> \in Failers
  BY DEF ManifestInv, LocalsTyped, Failers
<1>2. ASSUME job[j].pc \in Purging
      PROVE  Mine(j) \in Manifests /\ job[j].m = {Mine(j)}
  BY <1>2 DEF Purging, ManifestInv, RetentionTrue, Mine
<1> QED BY <1>1, <1>2, RowOf

LEMMA OneJob ==
  ASSUME ManifestInv, NEW j \in Jobs, NEW l \in JobLocals, NEW f \in Failures,
         job' = [job EXCEPT ![j] = l], fail' = [fail EXCEPT ![<<"job", j>>] = f],
         l.todo \cup f.m \subseteq JobHas(j) \cup Abandoned,
         l.pc \in Purging => \E m \in Manifests : l.m = {m}
  PROVE  JobStep
<1>1. \A i \in Jobs : <<"job", i>> \in Failers
  BY DEF Failers
<1>2. /\ job' \in [Jobs -> JobLocals] /\ job'[j] = l
      /\ \A i \in Jobs \ {j} : job'[i] = job[i]
  BY DEF ManifestInv, LocalsTyped
<1>3. /\ fail' \in [Failers -> Failures] /\ fail'[<<"job", j>>] = f
      /\ \A i \in Jobs \ {j} : fail'[<<"job", i>>] = fail[<<"job", i>>]
  BY <1>1 DEF ManifestInv, LocalsTyped
<1>4. \A i \in Jobs \ {j} :
        job[i].pc \in Purging => \E m \in Manifests : job[i].m = {m}
  BY DEF ManifestInv, RetentionTrue, Purging
<1>5. JobHas(j)' = l.todo \cup f.m /\ \A i \in Jobs \ {j} : JobHas(i)' = JobHas(i)
  BY <1>2, <1>3 DEF JobHas
<1>6. \A i \in Jobs : \A m \in JobHas(i)' : m \in JobHas(i) \/ m \in Abandoned
  BY <1>5
<1>7. \A i \in Jobs : job'[i].pc \in Purging => \E m \in Manifests : job'[i].m = {m}
  BY <1>2, <1>4
<1> QED BY <1>2, <1>3, <1>6, <1>7 DEF JobStep, Purging

\* A job goes on, and calls nothing.
LEMMA JobGoesOn ==
  ASSUME ManifestInv, NEW j \in Jobs, NEW l \in JobLocals,
         job' = [job EXCEPT ![j] = l], UNCHANGED fail,
         l.todo \subseteq JobHas(j) \cup Abandoned,
         l.pc \in Purging => \E m \in Manifests : l.m = {m}
  PROVE  JobStep
<1>1. PICK f : f = fail[<<"job", j>>]
  OBVIOUS
<1>2. f \in Failures /\ f.m \subseteq JobHas(j)
  BY <1>1, JobOf DEF JobHas
<1>3. fail' = [fail EXCEPT ![<<"job", j>>] = f]
  BY <1>1 DEF ManifestInv, LocalsTyped
<1> QED BY <1>2, <1>3, OneJob

LEMMA JobStops ==
  ASSUME ManifestInv, NEW j \in Jobs, NEW pc \in {"none", "done"}, JobGoto(j, pc), UNCHANGED fail
  PROVE  JobStep
<1>1. PICK l : l = IdleJob(pc)
  OBVIOUS
<1>2. l \in JobLocals /\ l.todo = {} /\ l.pc = pc
  BY <1>1 DEF IdleJob, JobLocals
<1>3. job' = [job EXCEPT ![j] = l]
  BY <1>1 DEF JobGoto
<1> QED BY <1>2, <1>3, JobGoesOn DEF Purging

LEMMA JobRestsIn ==
  ASSUME ManifestInv, NEW j \in Jobs, job[j].pc \in Purging, UNCHANGED fail,
         NEW pc \in Purging, NEW ver \in Nat, NEW chunk \in SUBSET Paths,
         job' = [job EXCEPT ![j] = [job[j] EXCEPT !.pc = pc, !.ver = ver, !.chunk = chunk]]
  PROVE  JobStep
<1>1. PICK l : l = [job[j] EXCEPT !.pc = pc, !.ver = ver, !.chunk = chunk]
  OBVIOUS
<1>2. l \in JobLocals /\ l.todo = job[j].todo /\ l.m = job[j].m
  BY <1>1, JobOf DEF JobLocals, Purging
<1>3. job' = [job EXCEPT ![j] = l] /\ l.todo \subseteq JobHas(j)
  BY <1>1, <1>2 DEF JobHas
<1>4. \E m \in Manifests : l.m = {m}
  BY <1>2, JobOf
<1> QED BY <1>2, <1>3, <1>4, JobGoesOn

LEMMA LookForManifestsIsSafe ==
  ASSUME ManifestInv, NEW j \in Jobs,
         maintainGitHubTreeManifestRetention(j) \/ loadRetentionCandidates(j)
           \/ JobRestarts(j)
  PROVE  SafeStep
<1>1. UNCHANGED <<clock, remote, run, cursor, tables, cited, wf, att>>
  BY DEF maintainGitHubTreeManifestRetention, loadRetentionCandidates, JobRestarts
<1>2. ASSUME JobStep PROVE SafeStep
  BY <1>1, <1>2, WorkflowRests, AttemptRests, QuietIsSafe
<1>3. job[j] \in JobLocals /\ fail[<<"job", j>>] \in Failures /\ <<"job", j>> \in Failers
  BY JobOf
<1>4. CASE maintainGitHubTreeManifestRetention(j)
  <2>1. PICK ms \in SUBSET Abandoned :
          job' = [job EXCEPT ![j] = [IdleJob("staging") EXCEPT !.todo = ms]]
    BY <1>4 DEF maintainGitHubTreeManifestRetention
  <2>2. PICK l : l = [IdleJob("staging") EXCEPT !.todo = ms]
    OBVIOUS
  <2>3. ms \subseteq Manifests
    BY DEF Abandoned
  <2>4. l \in JobLocals /\ l.todo = ms /\ l.pc = "staging"
    BY <2>2, <2>3 DEF IdleJob, JobLocals
  <2>5. job' = [job EXCEPT ![j] = l] /\ UNCHANGED fail
    BY <1>4, <2>1, <2>2 DEF maintainGitHubTreeManifestRetention
  <2> QED BY <1>2, <2>4, <2>5, JobGoesOn DEF Purging
<1>5. CASE JobRestarts(j)
  <2>1. PICK l : l = IdleJob("none")
    OBVIOUS
  <2>2. l \in JobLocals /\ l.todo = {} /\ l.pc = "none"
    BY <2>1 DEF IdleJob, JobLocals
  <2>3. NotFailing \in Failures /\ NotFailing.m = {}
    BY DEF NotFailing, Failures
  <2>4. job' = [job EXCEPT ![j] = l] /\ fail' = [fail EXCEPT ![<<"job", j>>] = NotFailing]
    BY <1>5, <2>1 DEF JobRestarts, JobGoto
  <2>5. JobStep
    BY <2>2, <2>3, <2>4, OneJob DEF Purging
  <2> QED BY <1>2, <2>5
<1>6. CASE loadRetentionCandidates(j)
  <2>1. ASSUME NEW m \in job[j].todo, job' = [job EXCEPT ![j].todo = @ \ {m}],
               fail' = [fail EXCEPT ![<<"job", j>>].m = {m}], job[j].pc = "staging"
        PROVE  SafeStep
    <3>1. PICK l : l = [job[j] EXCEPT !.todo = job[j].todo \ {m}]
      OBVIOUS
    <3>2. PICK f : f = [fail[<<"job", j>>] EXCEPT !.m = {m}]
      OBVIOUS
    <3>3. l \in JobLocals /\ l.todo \subseteq job[j].todo /\ l.pc = "staging"
      BY <1>3, <2>1, <3>1 DEF JobLocals
    <3>4. f \in Failures /\ f.m = {m}
      BY <1>3, <3>2 DEF Failures, JobLocals
    <3>5. job' = [job EXCEPT ![j] = l] /\ fail' = [fail EXCEPT ![<<"job", j>>] = f]
      BY <2>1, <3>1, <3>2
    <3>6. l.todo \cup f.m \subseteq JobHas(j)
      BY <3>3, <3>4 DEF JobHas
    <3>7. JobStep
      BY <3>3, <3>4, <3>5, <3>6, OneJob DEF Purging
    <3> QED BY <1>2, <3>7
  <2>2. ASSUME NEW m \in Manifests, UNCHANGED fail,
               job' = [job EXCEPT ![j] = [IdleJob("claim") EXCEPT
                          !.m = {m}, !.ver = manifest[m].ver]]
        PROVE  SafeStep
    <3>1. PICK l : l = [IdleJob("claim") EXCEPT !.m = {m}, !.ver = manifest[m].ver]
      OBVIOUS
    <3>2. manifest[m].ver \in Nat
      BY RowOf DEF ManifestRows
    <3>3. l \in JobLocals /\ l.todo = {} /\ l.m = {m}
      BY <3>1, <3>2 DEF IdleJob, JobLocals
    <3>4. job' = [job EXCEPT ![j] = l]
      BY <2>2, <3>1
    <3> QED BY <1>2, <2>2, <3>3, <3>4, JobGoesOn
  <2>3. ASSUME JobGoto(j, "done"), UNCHANGED fail
        PROVE  SafeStep
    BY <1>2, <2>3, JobStops
  <2> QED BY <1>6, <2>1, <2>2, <2>3 DEF loadRetentionCandidates, JobAt
<1> QED BY <1>4, <1>5, <1>6

\* A purge changes its row, and perhaps records a chunk.
LEMMA PurgeIsSafe ==
  ASSUME ManifestInv, NEW j \in Jobs, JobStep,
         UNCHANGED <<clock, remote, run, cursor, receipts, deltas, reviews, cited, wf, att>>,
         ManifestStep
  PROVE  SafeStep
BY WorkflowRests, AttemptRests, RowIsSafe

LEMMA ClaimIsSafe ==
  ASSUME ManifestInv, NEW j \in Jobs, claimFailedManifest(j)
  PROVE  SafeStep
<1>1. /\ UNCHANGED <<clock, remote, run, cursor, receipts, deltas, reviews, cited, wf, att,
                     events, fail>>
      /\ job[j].pc \in Purging
  BY DEF claimFailedManifest, JobAt, Purging
<1>2. CASE JobGoto(j, "done") /\ UNCHANGED manifest
  BY <1>1, <1>2, JobStops, ManifestRests, PurgeIsSafe
<1>3. CASE /\ Purgeable(Mine(j))
           /\ manifest' = [manifest EXCEPT ![Mine(j)].st = "purging",
                             ![Mine(j)].ver = @ + 1, ![Mine(j)].hold = "leased"]
           /\ job' = [job EXCEPT ![j].pc = "select", ![j].ver = @ + 1]
  <2>1. PICK m : m = Mine(j)
    OBVIOUS
  <2>2. m \in Manifests /\ manifest[m] \in ManifestRows /\ job[j] \in JobLocals
    BY <1>1, <2>1, JobOf
  <2>3. manifest[m].st \in {"failed", "purging"}
    BY <1>3, <2>1 DEF Purgeable
  <2>4. PICK r : r = [manifest[m] EXCEPT !.st = "purging", !.ver = manifest[m].ver + 1,
                                         !.hold = "leased"]
    OBVIOUS
  <2>5. /\ r \in ManifestRows /\ r.st = "purging" /\ r.entries = manifest[m].entries
        /\ r.count = manifest[m].count
    <3>1. manifest[m].ver + 1 \in Nat
      BY <2>2 DEF ManifestRows
    <3> QED BY <2>2, <2>4, <3>1 DEF ManifestRows, Statuses
  <2>6. manifest' = [manifest EXCEPT ![m] = r] /\ manifest'[m] = r
    BY <1>3, <2>1, <2>2, <2>4 DEF ManifestInv, TablesTyped
  <2>7. RowClaimed(m)
    BY <2>3, <2>5, <2>6 DEF RowClaimed
  <2>8. events' \subseteq Events /\ \A k \in Manifests : EventsKept(k)
    BY <1>1 DEF ManifestInv, TablesTyped, EventsKept, EventsOf
  <2>9. ManifestStep
    BY <2>2, <2>5, <2>6, <2>7, <2>8, OneRow DEF RowStep
  <2>10. job[j].ver + 1 \in Nat /\ job[j].chunk \in SUBSET Paths
         /\ [job[j] EXCEPT !.pc = "select", !.ver = job[j].ver + 1] =
              [job[j] EXCEPT !.pc = "select", !.ver = job[j].ver + 1, !.chunk = job[j].chunk]
    <3>1. job[j].ver \in Nat
      BY <2>2 DEF JobLocals
    <3>2. PICK v : v = job[j].ver + 1
      OBVIOUS
    <3>3. [job[j] EXCEPT !.pc = "select", !.ver = v] =
            [job[j] EXCEPT !.pc = "select", !.ver = v, !.chunk = job[j].chunk]
      BY <2>2 DEF JobLocals
    <3>4. job[j].ver + 1 \in Nat /\ job[j].chunk \in SUBSET Paths
      BY <2>2, <3>1 DEF JobLocals
    <3> QED BY <3>2, <3>3, <3>4
  <2>11. job' = [job EXCEPT ![j] = [job[j] EXCEPT !.pc = "select", !.ver = job[j].ver + 1]]
    BY <1>3
  <2>12. JobStep
    BY <1>1, <2>10, <2>11, JobRestsIn DEF Purging
  <2> QED BY <1>1, <2>9, <2>12, PurgeIsSafe
<1> QED BY <1>2, <1>3 DEF claimFailedManifest

LEMMA SelectIsSafe ==
  ASSUME ManifestInv, NEW j \in Jobs, SelectChunk(j)
  PROVE  SafeStep
<1>1. /\ UNCHANGED <<clock, remote, run, cursor, tables, cited, wf, att, fail>>
      /\ job[j].pc \in Purging
  BY DEF SelectChunk, JobAt, Purging
<1>2. job[j] \in JobLocals
  BY JobOf
<1>3. JobStep
  <2>1. CASE job' = [job EXCEPT ![j].pc = "purge"]
    <3>1. job[j].ver \in Nat /\ job[j].chunk \in SUBSET Paths
          /\ [job[j] EXCEPT !.pc = "purge"] =
               [job[j] EXCEPT !.pc = "purge", !.ver = job[j].ver, !.chunk = job[j].chunk]
      BY <1>2 DEF JobLocals
    <3>2. job' = [job EXCEPT ![j] = [job[j] EXCEPT !.pc = "purge"]]
      BY <2>1
    <3> QED BY <1>1, <3>1, <3>2, JobRestsIn DEF Purging
  <2>2. ASSUME NEW p \in Stored(manifest[Mine(j)].entries),
               job' = [job EXCEPT ![j].pc = "delete", ![j].chunk = {p}]
        PROVE  JobStep
    <3>1. p \in Paths
      BY DEF Stored
    <3>2. job[j].ver \in Nat /\ {p} \in SUBSET Paths
          /\ [job[j] EXCEPT !.pc = "delete", !.chunk = {p}] =
               [job[j] EXCEPT !.pc = "delete", !.ver = job[j].ver, !.chunk = {p}]
      BY <1>2, <3>1 DEF JobLocals
    <3>3. job' = [job EXCEPT ![j] = [job[j] EXCEPT !.pc = "delete", !.chunk = {p}]]
      BY <2>2
    <3> QED BY <1>1, <3>2, <3>3, JobRestsIn DEF Purging
  <2> QED BY <2>1, <2>2 DEF SelectChunk
<1> QED BY <1>1, <1>3, WorkflowRests, AttemptRests, QuietIsSafe

LEMMA PurgeEntriesIsSafe ==
  ASSUME ManifestInv, NEW j \in Jobs, purgeClaimedManifestEntries(j)
  PROVE  SafeStep
<1>1. /\ UNCHANGED <<clock, remote, run, cursor, receipts, deltas, reviews, cited, wf, att,
                     fail>>
      /\ job[j].pc \in Purging
  BY DEF purgeClaimedManifestEntries, JobAt, Purging
<1>2. PICK m : m = Mine(j)
  OBVIOUS
<1>3. m \in Manifests /\ manifest[m] \in ManifestRows /\ job[j] \in JobLocals
  BY <1>1, <1>2, JobOf
<1>4. PICK chunk : chunk = job[j].chunk
  OBVIOUS
<1>5. chunk \in SUBSET Paths /\ job[j].ver \in Nat
  BY <1>3, <1>4 DEF JobLocals
<1>6. CASE /\ manifest' = IF Deferrable(j)
                          THEN [manifest EXCEPT ![m].hold = "deferred"]
                          ELSE manifest
           /\ JobGoto(j, "done")
           /\ UNCHANGED events
  <2>1. JobStep
    BY <1>1, <1>6, JobStops
  <2>2. CASE UNCHANGED manifest
    BY <1>1, <1>6, <2>1, <2>2, ManifestRests, PurgeIsSafe
  <2>3. CASE manifest[m].st = "purging" /\ manifest' = [manifest EXCEPT ![m].hold = "deferred"]
    <3>1. PICK r : r = [manifest[m] EXCEPT !.hold = "deferred"]
      OBVIOUS
    <3>2. /\ r \in ManifestRows /\ r.st = manifest[m].st /\ r.entries = manifest[m].entries
          /\ r.count = manifest[m].count
      BY <1>3, <3>1 DEF ManifestRows
    <3>3. manifest' = [manifest EXCEPT ![m] = r]
      BY <2>3, <3>1
    <3>4. ManifestStep
      BY <1>3, <1>6, <2>3, <3>2, <3>3, RowTouched
    <3> QED BY <1>1, <2>1, <3>4, PurgeIsSafe
  <2> QED BY <1>2, <1>6, <2>2, <2>3 DEF Deferrable
<1>7. CASE /\ Claimed(j) /\ chunk \subseteq Stored(manifest[m].entries)
           /\ manifest' = [manifest EXCEPT ![m].entries =
                [p \in Paths |-> IF p \in chunk THEN "none" ELSE @[p]]]
           /\ events' = events \cup {[m |-> m, ver |-> job[j].ver, chunk |-> chunk]}
           /\ job' = [job EXCEPT ![j].pc = "select", ![j].chunk = {}]
  <2>1. manifest[m].st = "purging"
    BY <1>2, <1>7 DEF Claimed
  <2>2. PICK e : e = [p \in Paths |-> IF p \in chunk THEN "none" ELSE manifest[m].entries[p]]
    OBVIOUS
  <2>3. e \in Trees
    BY <1>3, <2>2 DEF Trees, ManifestRows
  <2>4. PICK r : r = [manifest[m] EXCEPT !.entries = e]
    OBVIOUS
  <2>5. /\ r \in ManifestRows /\ r.st = manifest[m].st /\ r.entries = e
        /\ r.count = manifest[m].count
    BY <1>3, <2>3, <2>4 DEF ManifestRows
  <2>6. manifest' = [manifest EXCEPT ![m] = r]
    BY <1>7, <2>2, <2>4
  <2>7. manifest'[m] = r
    BY <1>3, <2>6 DEF ManifestInv, TablesTyped
  <2>8. PICK v : v = job[j].ver
    OBVIOUS
  <2>9. PICK x : x = [m |-> m, ver |-> v, chunk |-> chunk]
    OBVIOUS
  <2>10. x \in Events /\ x.m = m
    BY <1>3, <1>5, <2>8, <2>9 DEF Events
  <2>11. events' = events \cup {x}
    BY <1>7, <2>8, <2>9
  <2>12. /\ EventsOf(m)' = EventsOf(m) \cup {x}
         /\ \A k \in Manifests \ {m} : EventsKept(k)
    BY <2>10, <2>11 DEF EventsOf, EventsKept
  <2>13. RowPurged(m)
    <3>1. manifest'[m].entries =
            [p \in Paths |-> IF p \in chunk THEN "none" ELSE manifest[m].entries[p]]
      BY <2>2, <2>5, <2>7
    <3>2. v \in Nat
      BY <1>5, <2>8
    <3> QED BY <1>5, <1>7, <2>1, <2>5, <2>7, <2>9, <2>12, <3>1, <3>2 DEF RowPurged
  <2>14. events' \subseteq Events
    BY <2>10, <2>11 DEF ManifestInv, TablesTyped
  <2>15. ManifestStep
    BY <1>3, <2>1, <2>5, <2>6, <2>12, <2>13, <2>14, OneRow DEF RowStep
  <2>16. job' = [job EXCEPT ![j] = [job[j] EXCEPT !.pc = "select", !.chunk = {}]]
    BY <1>7
  <2>17. [job[j] EXCEPT !.pc = "select", !.chunk = {}] =
           [job[j] EXCEPT !.pc = "select", !.ver = job[j].ver, !.chunk = {}]
    BY <1>3 DEF JobLocals
  <2>18. JobStep
    BY <1>1, <1>5, <2>16, <2>17, JobRestsIn DEF Purging
  <2> QED BY <1>1, <2>15, <2>18, PurgeIsSafe
<1> QED BY <1>2, <1>4, <1>6, <1>7 DEF purgeClaimedManifestEntries

LEMMA CompletePurgeIsSafe ==
  ASSUME ManifestInv, NEW j \in Jobs, CompletePurge(j)
  PROVE  SafeStep
<1>1. /\ UNCHANGED <<clock, remote, run, cursor, receipts, deltas, reviews, cited, wf, att,
                     events, fail>>
      /\ job[j].pc \in Purging
  BY DEF CompletePurge, JobAt, Purging
<1>2. JobStep
  BY <1>1, JobStops DEF CompletePurge
<1>3. CASE UNCHANGED manifest
  BY <1>1, <1>2, <1>3, ManifestRests, PurgeIsSafe
<1>4. CASE /\ Purged(j)
           /\ manifest' = [manifest EXCEPT ![Mine(j)].st = "purged",
                             ![Mine(j)].ver = @ + 1, ![Mine(j)].hold = "free"]
  <2>1. PICK m : m = Mine(j)
    OBVIOUS
  <2>2. m \in Manifests /\ manifest[m] \in ManifestRows
    BY <1>1, <2>1, JobOf
  <2>3. manifest[m].st = "purging" /\ Stored(manifest[m].entries) = {}
    BY <1>4, <2>1 DEF Purged, Claimed
  <2>4. PICK r : r = [manifest[m] EXCEPT !.st = "purged", !.ver = manifest[m].ver + 1,
                                         !.hold = "free"]
    OBVIOUS
  <2>5. /\ r \in ManifestRows /\ r.st = "purged" /\ r.entries = manifest[m].entries
        /\ r.count = manifest[m].count /\ r.hold = "free"
    <3>1. manifest[m].ver + 1 \in Nat
      BY <2>2 DEF ManifestRows
    <3> QED BY <2>2, <2>4, <3>1 DEF ManifestRows, Statuses
  <2>6. manifest' = [manifest EXCEPT ![m] = r] /\ manifest'[m] = r
    BY <1>4, <2>1, <2>2, <2>4 DEF ManifestInv, TablesTyped
  <2>7. RowEmptied(m)
    BY <2>3, <2>5, <2>6 DEF RowEmptied
  <2>8. events' \subseteq Events /\ \A k \in Manifests : EventsKept(k)
    BY <1>1 DEF ManifestInv, TablesTyped, EventsKept, EventsOf
  <2>9. ManifestStep
    BY <2>2, <2>5, <2>6, <2>7, <2>8, OneRow DEF RowStep
  <2> QED BY <1>1, <1>2, <2>9, PurgeIsSafe
<1> QED BY <1>3, <1>4 DEF CompletePurge

LEMMA RetentionIsSafe ==
  ASSUME ManifestInv, NEW j \in Jobs, Retention(j)
  PROVE  SafeStep
BY LookForManifestsIsSafe, ClaimIsSafe, SelectIsSafe, PurgeEntriesIsSafe, CompletePurgeIsSafe
   DEF Retention

\* The caller is done, or about to fail what it asked for.
LEMMA CallerGoesOn ==
  ASSUME ManifestInv, NEW x \in Failers, NEW f \in Failures,
         fail' = [fail EXCEPT ![x] = f], f.m \subseteq fail[x].m, UNCHANGED job
  PROVE  JobStep
<1>1. fail' \in [Failers -> Failures]
  BY DEF ManifestInv, LocalsTyped
<1>2. \A j \in Jobs : <<"job", j>> \in Failers
  BY DEF Failers
<1>3. \A j \in Jobs : fail'[<<"job", j>>].m \subseteq fail[<<"job", j>>].m
  BY <1>2 DEF ManifestInv, LocalsTyped
<1> QED BY <1>1, <1>3, JobsRest

LEMMA FailIsSafe ==
  ASSUME ManifestInv, NEW x \in Failers, ReadStaging(x) \/ failGitHubTreeManifest(x)
  PROVE  SafeStep
<1>1. /\ UNCHANGED <<clock, remote, run, cursor, receipts, deltas, reviews, events, cited,
                     wf, att, job>>
  BY DEF ReadStaging, failGitHubTreeManifest, tables
<1>2. fail[x] \in Failures
  BY DEF ManifestInv, LocalsTyped
<1>3. NotFailing \in Failures /\ NotFailing.m = {}
  BY DEF NotFailing, Failures
<1>4. CASE ReadStaging(x)
  <2>1. UNCHANGED manifest
    BY <1>4 DEF ReadStaging, tables
  <2>2. PICK m \in fail[x].m :
          fail' = [fail EXCEPT ![x] =
            IF manifest[m].st = "staging"
            THEN [m |-> {m}, n |-> Cardinality(Stored(manifest[m].entries))]
            ELSE NotFailing]
    BY <1>4 DEF ReadStaging
  <2>3. PICK f : f = IF manifest[m].st = "staging"
                     THEN [m |-> {m}, n |-> Cardinality(Stored(manifest[m].entries))]
                     ELSE NotFailing
    OBVIOUS
  <2>4. m \in Manifests /\ Cardinality(Stored(manifest[m].entries)) \in Nat
    BY <1>2, StoredFinite DEF Failures
  <2>5. f \in Failures /\ f.m \subseteq {m}
    BY <1>3, <2>3, <2>4 DEF Failures
  <2>6. JobStep
    BY <1>1, <2>2, <2>3, <2>5, CallerGoesOn
  <2> QED BY <1>1, <2>1, <2>6, ManifestRests, WorkflowRests, AttemptRests, RowIsSafe
<1>5. CASE failGitHubTreeManifest(x)
  <2>1. PICK m \in fail[x].m :
          manifest' = IF CanFail(m, fail[x].n)
                      THEN [manifest EXCEPT ![m].st = "failed", ![m].count = fail[x].n]
                      ELSE manifest
    BY <1>5 DEF failGitHubTreeManifest
  <2>2. JobStep
    BY <1>1, <1>3, <1>5, CallerGoesOn DEF failGitHubTreeManifest
  <2>3. CASE UNCHANGED manifest
    BY <1>1, <2>2, <2>3, ManifestRests, WorkflowRests, AttemptRests, RowIsSafe
  <2>4. CASE /\ CanFail(m, fail[x].n)
             /\ manifest' = [manifest EXCEPT ![m].st = "failed", ![m].count = fail[x].n]
    <3>1. m \in Manifests /\ manifest[m] \in ManifestRows
      BY <1>2, RowOf DEF Failures
    <3>2. /\ manifest[m].st = "staging"
          /\ fail[x].n = Cardinality(Stored(manifest[m].entries)) /\ fail[x].n \in Nat
      BY <2>4, StoredFinite DEF CanFail
    <3>3. PICK n : n = fail[x].n
      OBVIOUS
    <3>4. PICK r : r = [manifest[m] EXCEPT !.st = "failed", !.count = n]
      OBVIOUS
    <3>5. /\ r \in ManifestRows /\ r.st = "failed" /\ r.entries = manifest[m].entries
          /\ r.count = n /\ r.hold = manifest[m].hold
      BY <3>1, <3>2, <3>3, <3>4 DEF ManifestRows, Statuses
    <3>6. manifest' = [manifest EXCEPT ![m] = r] /\ manifest'[m] = r
      BY <2>4, <3>1, <3>3, <3>4 DEF ManifestInv, TablesTyped
    <3>7. RowFailed(m)
      BY <3>2, <3>3, <3>5, <3>6 DEF RowFailed
    <3>8. events' \subseteq Events /\ \A k \in Manifests : EventsKept(k)
      BY <1>1 DEF ManifestInv, TablesTyped, EventsKept, EventsOf
    <3>9. r.hold # "free" => r.st = "purging"
      BY <3>1, <3>2, <3>5, RowOf
    <3>10. ManifestStep
      BY <3>1, <3>5, <3>6, <3>7, <3>8, <3>9, OneRow DEF RowStep
    <3> QED BY <1>1, <2>2, <3>10, WorkflowRests, AttemptRests, RowIsSafe
  <2> QED BY <2>1, <2>3, <2>4
<1> QED BY <1>4, <1>5

LEMMA NextIsSafe ==
  ASSUME ManifestInv, Next
  PROVE  SafeStep
BY WorldIsSafe, RefWorkflowIsSafe, AttemptIsSafe, RetentionIsSafe, FailIsSafe DEF Next

-----------------------------------------------------------------------------
(* The theorems *)

\* Every step of an attempt, its Workflow, retention or GitHub keeps the
\* inductive invariant: activation, sealing and purging are fenced by what the
\* rows say at the moment of the write, not by what was read before it.
THEOREM ManifestInvariant == Spec => []ManifestInv
<1>1. Init => ManifestInv
  BY InitHolds
<1>2. ManifestInv /\ [Next]_vars => ManifestInv'
  BY NextIsSafe, SafeStepKeeps, StutterKeeps
<1> QED BY <1>1, <1>2, PTL DEF Spec

\* A manifest that has been a head stays sealed and whole, whoever is about to
\* fail it (completeGitHubTreeManifest, failGitHubTreeManifest).
THEOREM HeadsStayWhole == Spec => []HistoryIsKept
<1>1. ManifestInv => TypeOK
  BY DEF ManifestInv, WorldTyped, TablesTyped, TypeOK, RunRows, ManifestRows, Statuses,
         Trees, Receipts
<1>2. ASSUME ManifestInv, NEW v \in 1 .. Len(receipts)
      PROVE  /\ manifest[receipts[v].new].st = "complete"
             /\ manifest[receipts[v].new].entries = Commit(receipts[v].new)
  BY <1>2, ReceiptsTyped DEF ManifestInv, RunsTrue, EntriesTrue
<1>3. ManifestInv => HistoryIsKept
  BY <1>1, <1>2 DEF HistoryIsKept
<1> QED BY <1>3, ManifestInvariant, PTL

\* Each activation starts from the head before it, by a run of its own, and
\* records exactly the differences (activateGitHubTreeManifest).
THEOREM HistoryCanBeReplayed == Spec => []HistoryIsReplayable
<1>1. ManifestInv => HistoryIsReplayable
  BY DEF ManifestInv
<1> QED BY <1>1, ManifestInvariant, PTL

\* Text that disappears from a head under a memory has a review request
\* (insertDeltaReviews in the activation's transaction).
THEOREM LossesAreAsked == Spec => []LossesAreReviewed
<1>1. ManifestInv => LossesAreReviewed
  BY DEF ManifestInv
<1> QED BY <1>1, ManifestInvariant, PTL

\* What is left of a failed manifest and what its events record are what it had
\* when it failed (purgeClaimedManifestEntries, the lifecycle events).
THEOREM PurgesAreAccounted == Spec => []PurgeIsAccounted
<1>1. ASSUME ManifestInv, NEW m \in Manifests
      PROVE  /\ manifest[m].st \in {"failed", "purging", "purged"} =>
                  manifest[m].count = Cardinality(Stored(manifest[m].entries)) +
                                      Cardinality(Chunks(m))
             /\ manifest[m].st = "purged" => Stored(manifest[m].entries) = {}
  <2>1. /\ Chunks(m) \cap Stored(manifest[m].entries) = {}
        /\ manifest[m].st \in {"failed", "purging", "purged"} =>
             manifest[m].count = Cardinality(Chunks(m) \cup Stored(manifest[m].entries))
        /\ manifest[m].st = "purged" => Stored(manifest[m].entries) = {}
    BY <1>1 DEF ManifestInv, Accounted
  <2>2. \A e \in EventsOf(m) : e.chunk \subseteq Paths
    BY <1>1 DEF EventsOf, ManifestInv, TablesTyped, Events
  <2>3. Chunks(m) \subseteq Paths
    BY <2>2 DEF Chunks
  <2>4. IsFiniteSet(Chunks(m)) /\ IsFiniteSet(Stored(manifest[m].entries))
    BY <2>3, StoredFinite, GitHubManifestsAssumption, FS_Subset
  <2>5. Cardinality(Chunks(m) \cup Stored(manifest[m].entries)) =
          Cardinality(Chunks(m)) + Cardinality(Stored(manifest[m].entries)) -
          Cardinality(Chunks(m) \cap Stored(manifest[m].entries))
    BY <2>4, FS_Union
  <2>6. Cardinality(Chunks(m) \cap Stored(manifest[m].entries)) = 0
    BY <2>1, FS_EmptySet
  <2>7. /\ Cardinality(Chunks(m)) \in Nat
        /\ Cardinality(Stored(manifest[m].entries)) \in Nat
    BY <2>4, FS_CardinalityType
  <2> QED BY <2>1, <2>5, <2>6, <2>7
<1>2. ManifestInv => PurgeIsAccounted
  BY <1>1 DEF PurgeIsAccounted, Chunks, EventsOf
<1> QED BY <1>2, ManifestInvariant, PTL

\* Retention never fails the manifest of a run that holds its lease: the run of
\* what it found abandoned is not claimed a second time (claimGitHubRepositorySync).
THEOREM LiveRunsAreSpared == Spec => LiveIsSpared
<1>1. ASSUME ManifestInv, NEW j \in Jobs, NEW m \in Manifests,
             fail[<<"job", j>>].m = {m}
      PROVE  ~(run[Slot(m)].st = "running" /\ run[Slot(m)].live)
  BY <1>1 DEF ManifestInv, RetentionTrue, JobHas, Spared
<1>2. ManifestInv /\ [Next]_vars =>
        [\A j \in Jobs, m \in Manifests :
           /\ fail[<<"job", j>>].m = {m}
           /\ manifest[m].st = "staging" /\ manifest'[m].st = "failed"
           => ~(run[Slot(m)].st = "running" /\ run[Slot(m)].live)]_vars
  BY <1>1
<1> QED BY <1>2, ManifestInvariant, PTL DEF Spec, LiveIsSpared

=============================================================================
