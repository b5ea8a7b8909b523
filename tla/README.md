# edgemneme in TLA+

A verification development for edgemneme, a governed project memory for coding
agents that runs on Cloudflare Workers: D1 (two SQLite databases) is the
authority, one Durable Object per project serialises nothing but reduces
contention, a Queue and Workflows do the asynchronous work, R2 and Vectorize
hold projections that can be rebuilt. The interesting behaviour is coordination:
D1 statements are transactions of their own, every `await` lets another request,
another Cron invocation or another Workflow attempt run, and Queue deliveries,
Workflow creations and D1 markers fail independently of each other.

The modules translate the source, not the documentation. Each definition is
mapped to the lines it stands for in `PROJECT.json`.

## 1. Inventory

| # | component | state | operations | hard behaviour |
|---|---|---|---|---|
| 1 | **Formal write path** `workers/memory-orchestrator/index.ts` (`ProjectCoordinator`), `src/storage/*`, `migrations/0001` | projects, memories, memory_versions, observations, review_requests, review_decisions, audit_events, idempotency_records, outbox_events, evidence | correct, invalidate, rollback, approve, reject, request_changes | requests interleave at every D1 await; replay of lost answers; revoked grants; a fence; budget check and commit apart |
| 2 | **Outbox dispatch and Workflow recovery** same Worker (`scheduled`, `queue`, `MemoryWorkflow.run`), `src/workflows/recovery.ts` | outbox_events, workflow_runs, Queue, Workflow control plane | dispatch, deliver, create/repair, reconcile, settle | overlapping Cron runs, ambiguous creations, unknown statuses, dead letters, a Workflow that dies without a record |
| 3 | **Candidate analysis and consolidation** `src/workflows/quality*.ts`, `migrations/0016, 0018, 0020` | consolidation lease, batch receipts, observations, review_requests | claim/extend/finish/fail lease, consolidate a batch, analyse a candidate | leases that expire under a running step, step retries and timeouts, overlapping repair instances |
| 4 | **Projection snapshots** `src/projection/*`, `migrations/0012-0014` | projection_snapshots, R2 objects, active pointer | publish, rebuild, activate | a late Workflow of an older version, partial R2 writes, retries |
| 5 | **Search projection** `src/search/*`, `migrations/search` | projection heads, FTS chunks, vector receipts, cleanup leases, generations | publish a head, upsert/delete vectors, reap receipts | two databases and Vectorize without a transaction |
| 6 | **GitHub synchronisation** `workers/github-sync`, `src/github/*`, `migrations/0010-0021` | schedule occurrences, dispatch items, sync lanes, manifests, pages, retention state | schedule, dispatch, sync a ref, seal a manifest, prune | leases and fencing, request budgets, ref moves, retention against readers |
| 7 | **Gateway** `src/gateway/*`, `workers/memory-gateway`, `src/security/*` | sessions, candidates, rate windows, page tokens | open/close sessions, submit candidates and evidence, search | idempotent submission, sessions closed while they receive |
| 8 | **Synthetic cleanup** `src/workflows/synthetic-cleanup.ts`, `migrations/0002, 0004, 0005` | synthetic_cleanup_registry and every table of a project | fence, delete child-first, finish | late writers after the fence, restart between batches |
| 9 | **Operator scripts** `scripts/*.mjs` | outbox rows, deployments | enqueue/resume/verify a rebuild, deploy guards, canary | two operators at once, resume against a running execution |
| 10 | **Model runner, analysis, content inspection** `src/quality`, `containers`, `workers/claude-runner` | none | pure functions and HTTP calls | none (pure data) |

What makes each component correct:

1. One hash chain of audit events; a key consumed once; nothing appended
   without a grant or after the fence; revisions, decisions and answers agree
   with the log; the projection always fits its budget.
2. One execution of an event at a time; a settled row says the truth about its
   executions and is final; once faults stop, every event is settled.
3. One receipt for each batch, written by the holder of the lease; progress is
   durable; a consolidation finishes once, on all receipts and clear evidence.
4. The active pointer never goes back; an active snapshot has all its objects
   and they say what the formal state was at its version, also when two rebuilds
   of one version overlap.
5. What a publisher reported is readable while it is current; a stale publisher
   replaces nothing newer; vectors are named by the ledger or by a receipt, and
   receipts drain.
6. One active item of a ref at a time; every run in progress can be ended by
   somebody; the ledgers say what the cursor says; what becomes a head stays
   sealed and whole; losses are put up for review; retention spares live runs
   and accounts for what it purges.
7. A submission or a close takes effect once per key; a closed session
   receives nothing.
8. After the fence nothing is added; when the authority rows are gone,
   everything else of the project is.
9. A rebuild is resumed beside another execution of it only if that one was
   recorded as ended; what is verified stays projected.

Interactions: the gateway (7) and the formal path (1) write outbox rows in the
transaction of their change; dispatch (2) brings them to Workflows that run 3,
4 and 5; GitHub (6) submits candidates as the gateway does; cleanup (8) fences
1, 2 and 3 through `synthetic_cleanup_registry`; the scripts (9) write outbox
rows of kind `projection.rebuild.requested` and read what 2 has recorded. All
of them share nothing but D1 rows, the Queue and the Workflow control plane.

## 2. Modules

| module | models | state and actions |
|---|---|---|
| `FormalCommit` | component 1 | a request in a slot, one action per await; the batch of a mutation, a promotion or a review with every guard is one action |
| `FormalLedger` | its promise | one serial log: a request applies if its stated versions are the log's own |
| `FormalCommitRefinement` | 1 implements the promise | the audit events are the log |
| `OutboxRecovery` | component 2 | rows, instances, runs, Queue; a job per invocation, one action per await |
| `Consolidation` | component 3, consolidation | the row, receipts and outputs; Workflow instances and the attempts of their steps, one action per D1 answer |
| `Projection` | component 4, and the rebuild command of 9 | versions, objects, snapshot rows and the pointer; Workflow executions, their attempts and the operators, one action per await |
| `Search` | component 5 | authority, head, receipts, claims and vectors; publishers, rebuilds and the janitor, one action per D1 or Vectorize answer |
| `GitHubSync` | component 6, the ledgers | dispatches, items, runs, cursor, lanes; dispatch and ref Workflows, one action per durable step or transaction |
| `GitHubManifests` | component 6, the manifests | manifests with their entries, heads, differences, reviews; the attempt of a ref Workflow opened up, and retention |
| `*Proofs` | the theorems | see section 5 |
| `MC*`, `*.cfg` | instances for TLC | see section 3 |

**FormalCommit.** A slot runs `CheckMaintainer`, `ResolveContext`,
`ReadReceipt`, `ReadMutationHead` or `ReadCandidateHead`, `ResolveContent`,
`CheckCapacity`, `PreflightEvidence`, then one of `MutationCommits`,
`PromotionCommits`, `ReviewCommits`, or `BatchAborts`, then `EnsureProjection`.
Everything a handler read may be stale at its batch; the batch compares head
and versions again and aborts as a whole. `Lose` is an answer that does not
reach the client, which may retry (`Retries`). The surroundings are
`AnalyzeCandidate`, `OtherEvidence`, `RevokeGrant` and `Fence`. Random ids are
the version of the commit that stores them; hashes are injective.

**OutboxRecovery.** A row has `dispatched`, `failed`, `attempt`, `due`, `code`
and the count of unknown statuses. Cron jobs select a row, check admission,
send it to the Queue or create its Workflow, walk the repair ids, and write
their UPDATE under exactly the comparisons the code makes. A creation may fail
before or after it took effect; a status may be unavailable; a message may be
duplicated or dead-lettered; an instance may die without recording it.

**Consolidation.** An instance is a stage (claim, batch, finish, release), the
batch and token it carries and the attempts used. An attempt is a program
counter with the token and batch it started with and whether the engine still
waits for it: a timeout or a termination only clears that flag, so abandoned
attempts go on to their transactions. The triggers of migration 0018 are part
of `ReceiptAdmitted`, `MayFinish` and `ChangeSensitivity`. The claim id is
created once for an instance, so the instance is the owner; the expiry of the
lease is a flag, and what an attempt knows of it for the compare-and-swap of a
renewal is `seen`.

**Projection.** `Mutate` and `Review` are the commits of component 1 as this
part sees them: a version, and for a change an event. An attempt reads the
version (`Run`), then heads, revisions and evidence by three statements that
may each meet another version (`ReadRows`), puts one object at a time (`Put`),
activates in one batch (`Activate`), and a rebuild reads the authority once
more (`Recheck`). `Die` throws an attempt away; `TimeOut` gives it up and lets
it run on. `flow` is what an execution really does: its last instance publishes,
is done and records its completion (`Finish`), or fails (`Err`, or its last
attempt throws), and a failed one may be followed by a repair instance
(`Repair`). `recorded` is what D1 says of a rebuild: the status of its most
recently updated run, or `failed_at`. It is written at the start of an instance,
at its end and when its failure is recorded (`RecordFailure`), which may never
happen, and it lags: while a repair is queued it still says "failed". The
command's steps are `PlanFirst` (enqueue), `PlanResume`, `Enqueue` (the guarded
insert), `ReadOutcome` and `Verify`, each a read or a write that other operators
interleave with; `PlanResume` (`Resumable`, which is `isTerminalExecution`) and
`ReadOutcome` read `recorded` and never `flow`.

**Search.** The authority, the projection database and the vector index take
part in no common transaction, so each access is an action. A publisher drains
receipts (`Scan` to `Finalize`), reads the memory, upserts (`Upsert`, `Settle`),
reads again (`Recheck`) and commits in one batch (`CommitProjection`), or finds
it refused (`Withdraw`) or failed (`CommitFails`, whose batch may have taken
effect). The deletion of an invalidated or superseded memory is `DeleteLook` to
`Deleted`. All of them and the janitor claim receipts before they delete vectors;
a claim outlives its holder and expires (`Expire`).

**GitHubSync.** `scheduleGitHubSyncWorkflows` is a Cron event, which creates a
dispatch Workflow or restarts one that failed. A dispatch
Workflow takes the lane of its credential, closes what earlier occurrences left
(their items, runs and dispatches, bound or not), stores an item for the due
ref, and starts a ref Workflow; that one takes the lane in turn, claims a run,
binds the item, moves the cursor or head in its attempt, and finishes run and
item from what the cursor says. `ClaimAnswerLost` is a claim that was committed
and reported as an error; `AttemptTimesOut` leaves a ghost that goes on.

**GitHubManifests.** An attempt reads a commit (`ReadTree`), begins a staging
manifest, stores its entries (`persistGitHubTreeManifestEntries`, `StoreEntries`),
compares them (`CheckEntries`) and seals it (`completeGitHubTreeManifest`);
`activateGitHubTreeManifest` is the transaction that moves the head, records the
differences, asks for reviews and submits candidates, under the fence of run,
head and cursor.
`failGitHubTreeManifest` is called by the attempt, by the next occurrence and by
retention, always on what `ReadStaging` found. A purge claims a failed manifest
and deletes it chunk by chunk with an event for each. The two GitHub modules
meet in the claim, the lease and the cursor version of a run, which both have.

Definitions named variants, or marked as a bug, in comments are plausible bugs
used by no other definition; `PROJECT.json` names the property each breaks.

## 3. Runs

| run | instance | shows |
|---|---|---|
| `formal_review` | 2 requests, 2 candidates of which one fits the budget, synthetic project, 2 commits | decisions are the candidates' versions, the budget holds, keys are consumed once; grants revoked, the fence and foreign evidence between check and batch do no harm |
| `formal_ledger` | 2 requests, 2 keys, 1 candidate, 3 commits | audit chain, complete ledger, true answers under interleaving, retries and lost answers; `FormalCommit` implements `FormalLedger` |
| `outbox_overlap` | 2 Cron invocations, 1 event of any kind, 2 attempts, 1 repair | one execution at a time, settled rows are true and final |
| `outbox_live` | 1 Cron invocation, 1 consumer, fairness | every event is settled once faults stop |
| `outbox_recoverable` | 2 Cron invocations | violation, see section 6 |
| `outbox_resume` | 1 Cron invocation | violation, see section 6 |
| `consolidation` | 2 batches, base and one repair, 2 attempts at once, 2 attempts per batch | receipts are written once, in order, by the holder of the lease; completion covers all of them on clear evidence |
| `projection` | 1 memory, 2 versions, 2 operators, 2 rebuilds, 2 attempts of a step, 1 repair, 1 fault, fairness | the active snapshot is whole and true though rebuilds of a version overlap, only repairs overlap a later rebuild, what was verified stays, the last change is projected |
| `search_publish` | 2 change Workflows, 1 rebuild in either mode, the janitor, 2 at once, 1 fault, fairness | what was reported stays readable, no vector is forgotten by a cleanup, nothing newer is replaced, receipts drain |
| `search_refused` | the same instance without fairness | violation, see section 6 |
| `github_sync` | 2 occurrences or 2 credentials or 2 configurations, 1 fault | one active item, owned runs, true outcomes and dispatches, the cursor moves once per run |
| `github_manifests` | 2 paths, 2 trees, 2 occurrences, 2 retention jobs, 1 fault | heads stay sealed and whole, history has no gap, losses are reviewed, purges are accounted for, live runs are spared |

Why the bounds are enough for the interesting cases: two actors suffice for
every race on one row, since a statement compares one row with what one actor
read; three commits reach a promotion, a correction and a rollback of it; two
dispatch attempts have a first and a last one; one repair distinguishes "some"
from "all" instances failed; two batches have an earlier one behind and a later
one ahead, and two slots hold an abandoned attempt beside its retry or beside
the repair's attempt. Two versions of a project have a publisher of the older
one late, and a mix of the two when rows are read in between; two revisions of a
memory have a stale publisher, a retired vector and a receipt of either; two
trees of two paths contain a deletion, a withdrawal, an addition and a change.
One fault meets each step of each actor, beside everything the others do; two
attempts are a retried one and a last one. In `projection` one fault is enough to
fail a rebuild for good: `Err` leaves it as the loss of its last attempt does,
with an attempt that may run on, so that it is resumed after a failure, recorded
or not, and repaired before or after the next ordinal is enqueued.

`MaxVersion`, `MaxMessages`, `MaxRebuilds`, `MaxOrdinal`, `MaxRunning`,
`MaxDispatches`, `MaxConfig`, `MaxClaims` and `MaxFaults` are bounds of the
models; `MaxRepairs`, `Attempts`, `MaxAttempts` and the last ordinal are limits
of the code too. The epochs of a consolidation are bounded by the attempts of
its claim step. Most instances are narrowed further, by constraints defined and
explained in their MC modules, which keep each interference and each pair of
interferences the properties are about, and leave out their product:

- `formal_review`: of a revoked grant, the fence and foreign evidence, one meets
  the requests (`OneInterference`); `formal_ledger`: of the last two requests one
  repeats what was committed (`RetryLast`).
- `consolidation`: a foreign candidate, a rejection or unclear evidence, the first
  two before a repair (`OneInterference`).
- `projection`: a fault meets one operator at a time and two rebuilds of the first
  version; a version that is rebuilt twice and followed by another meets one
  operator at a time too (`FaultApart`).
- `search_publish`: a fault and a rebuild meet beside one change of the memory
  (`FaultOrRebuild`); `search_refused` has no constraint.
- `github_sync`: a rotation, a change of the configuration or a second occurrence
  (`OneChange`), the fault in the first occurrence (`FaultFirst`), no retries in
  the second (`SecondIsPlain`).
- `github_manifests`: one path is relied on (`CiteOne`), GitHub moves once
  (`OnePush`), the fault falls in the first occurrence (`FaultFirst`), and a second
  one comes without retention, or after one job and no fault (`RetentionFirst`,
  `SecondIsPlain`).

A constraint cuts behaviours off, so the liveness properties of
`search_publish` and `projection` are examined for behaviours inside it; in
`projection` these include all those of one operator and one rebuild. The theorems of
section 5 have no such limits: they hold for every product of interferences.
Symmetry is over slots, keys, candidates, workers, credentials or retention jobs,
which no definition tells apart, and only in runs without liveness.
Deadlock is not checked where clients stop at the version bound or where
everything given has ended and nobody has to ask for more.

## 4. Fairness

`FairSpec` of three modules has fairness; `FormalCommit`, `Consolidation`,
`GitHubSync` and `GitHubManifests` are checked for safety only.

*OutboxRecovery.* The Cron trigger fires every
minute whatever happened before, and a row stays selectable until it is
settled: strong fairness of the selection, because other rows and a running job
may interrupt it. A started invocation and a started Workflow take their next
step or are cut off: weak fairness. Time passes. Nothing is assumed of the
Queue consumers, which may lose every message. `SettledOnceFaultsStop` says that
an event is settled if from some point on the Cron invocations meet no more
faults (`Fault`: an invocation cut off, a failed D1 statement, send, creation or
status call); until then they may meet any number of them.

*Search.* The engine resumes every execution until it ends and the schedule of
the janitor returns: weak fairness of each task. Backoffs pass and claims
expire, since both are times in a row. Nobody has to mutate a memory or ask for
a rebuild, and faults are bounded by `MaxFaults`. `ReceiptsAreDrained` needs the
janitor: a Workflow that has used up its attempts leaves its receipts to it.

*Projection.* The engine runs every execution it was given and lets an attempt
go on: weak fairness of its steps as a whole, which suffices because attempts
and repairs are finite, and weak fairness of the repair of a change that failed,
which the Cron trigger drives until its repairs are used up. A rebuild whose
failure is recorded is settled and need not be repaired. Nobody has to commit,
review or run a command. `LastChangeIsProjected` is a promise about fewer faults
than attempts and no more than repairs, as in the instance: a Workflow that loses
all its attempts in all its instances leaves its change to the next one.

## 5. Proofs

All theorems hold for every value of the constants under the named assumptions
of their module: natural bounds, kinds from the code's list, distinct "nothing"
and claim markers, and occurrences numbered 1 to some last one. Workflows,
memories, paths and occurrences are finite where a module says so; no proof
assumes a bound on their number, and requests, keys, events and candidates may
be any sets. Since the constants are arbitrary, so are the bounds on versions,
faults and attempts. Every safety invariant and action property that a passing
run checks is a theorem, and so is the refinement.

- `FormalCommitProofs` starts from the types, what a program counter says of the
  local values (`ControlOK`) and that no memory has more versions than the project
  (`TypeCorrect`). `CommitPins` and `CommitAppends` say once what a batch that does
  not abort has found: its base is the version, the head it read is the head, its
  actor is a maintainer. From them follow `AuditChainHolds`, `KeyConsumedOnce` and
  `AppendsAreAuthorized`.
  - `ProvenanceHolds`: once a mutation is in the log the evidence row exists, and
    the upsert can no longer change it.
  - `RepliesAreTrue`: receipts name the commit of their own request
    (`ReceiptsTrue`), so that a replay answers as the first attempt would have.
  - `LedgerIsComplete`: `RowsInv` counts the receipts and outbox rows of each
    version, `HistoryInv` the revisions of each memory; a commit adds one of each
    at a version nobody has used.
  - `CandidatesAreDecidedOnce`: `DecisionsInv` numbers the decisions of a candidate,
    `PromotionsInv` says that promoted candidates name different memories of
    earlier versions, which is why a new one cannot clash.
  - `CapacityHolds`: a request past its check whose base is still the version fits
    (`CheckedFits`), because only commits change memories and every commit outdates
    the other requests (`CommitOutdates`). `Load` folds weights over a set; instead
    of an induction over that set, `FoldCounts` shows that the fold is the number of
    elements of a set with one element per unit of weight (a counterexample would
    have a smallest one), and `LoadGrows` compares the loads of two states by
    comparing these sets.
- `FormalCommitRefinementProofs`: `LedgerImplemented`, that `FormalCommit` implements
  `FormalLedger`. A commit is the ledger's append and every other step a stutter
  (`MappedStep`). The append needs that the versions a request states are those of
  the log, which the tables show: a memory's version is the number of events that
  touch it, and an active one was not invalidated since (`MemoriesMapped`); a
  candidate's version counts the decisions on it, and an undecided one is open in
  the log (`CandidatesMapped`); a request past its head read states the version it
  read, and names a memory, and a revision of it, that exist (`RequestsPinned`).
- `OutboxRecoveryProofs`: `OutboxTypeCorrect`, `ExecutionsNeverOverlap`,
  `SettlementsAreTrue`, `SettlementsAreFinal`. `SingleExecution` is not
  inductive: a job creates repair i on the strength of what it observed
  earlier. The strengthening `JobFacts` says what a job knows, namely that the
  instances before its own have failed and that its outcome is true; it
  survives the steps of others because failures, recorded ends and the fence
  are never undone (`Monotone`).
- `ConsolidationProofs`: the seven properties of the run and `FinalEnd`, that an
  ended consolidation is never reopened. Not inductive
  is above all `ProgressIsDurable`: an attempt returns on a receipt of some
  earlier claim and its instance moves on, so one must know that no receipt and
  no abandoned attempt carries a token newer than the instance that runs
  (`EpochOK`), which rests on there being one running instance (`EngineOK`), and
  that an attempt of a later batch, however old, has the earlier receipts behind
  it (`AttemptsOK`). `EvidenceOK` carries `FinishedOnClearEvidence`: receipts
  that were not invalidated stand on clear evidence. The proof splits a step
  into what it does to the tables (`TablesOK`) and to the engine (`Moves`, or a
  start or a repair).
- `ProjectionProofs`: `SnapshotsAreTrue`, `OnlyRepairsMayOverlap`, `VerifiedStays`.
  None of the three properties is inductive. The invariant adds what the parties
  know. An attempt that puts objects holds the truth of its version, since rows
  read while the version stood are of that version, and has stored what it has
  not left to put (`AttemptOK`), which makes the snapshot whole when it reaches
  the batch. An execution that was enqueued is of a committed version and one
  that is yet to be tried has an attempt left (`FlowOK`), so that a commit
  enqueues a change that is new. What is recorded as ended has ended once
  (`RecordsOK`), and so have the rebuilds before one that was enqueued and before
  one that an operator has planned and not yet inserted (`RebuildsOK`); that they
  are over does not follow, since a repair may run. Commits keep all of this
  because they touch no earlier version (`CommitKeepsTruth`), Workflow steps
  because objects are only added and ends are undone by nothing but a repair
  (`WorkflowStep`, `FlowKeeps`).
- `SearchProofs`: `NothingNewerIsReplaced` from a first invariant. A deletion
  compares the exact head with what its task carries, and the task may be
  arbitrarily late; the invariant says that what it carries is `Past`, and that this
  is for ever because revisions are named by the versions that make them. It is
  established where a task finds the memory not active (`InvalidatedMoves`,
  `RequestStep`) and carried through the pages of receipts in between
  (`PagingMoves`). That there is one head, of a version that was (`HeadOK`), comes
  from publishers that commit what they read.
  `CompletionsStayReadable` and `NoVectorIsLost` need a second one, `ReadInv`: a page
  deletes vectors of receipts it has claimed and found unpublished, and while it
  holds the claim no batch publishes them (`ClaimsOK`); a publisher of the current
  revision's time or later carries the current revision (`ReadsOK`); a vector that
  was deleted comes back only as a forgotten one, and one that was seen after it
  was published stays while it is current (`SeesOK`). A task's step keeps what
  the other tasks know because it touches no vector, receipt or claim they rely
  on (`Frame`, `StepKeeps`).
- `GitHubSyncProofs`: `OneItemIsActive`, `RunsAreOwned`, `OutcomesAreTrue`,
  `CompletedDispatchesAreTrue`, `CursorMovesOnce`, all from `SyncInvariant`. It
  says which run an item is bound to (`BindingsTrue`), what the runs in
  progress and the cursor owe each other (`MovesTrue`), and which facts a Workflow
  may carry to its next step: the outcome its attempt has recorded
  (`OutcomesCarried`), what a dispatch has closed and found complete
  (`DispatchesCarried`). `SyncStep` describes every action by what it does to each
  ledger, and `SyncStepKeeps` shows that such a step keeps the invariant; each
  action then only has to be a `SyncStep`.
- `GitHubManifestsProofs`: `HeadsStayWhole`, `HistoryCanBeReplayed`,
  `LossesAreAsked`, `PurgesAreAccounted`, `LiveRunsAreSpared`, all from
  `ManifestInvariant`, in the same way (`SafeStep`, `SafeStepKeeps`). An attempt
  holds entries of the tree it read, whoever stored an entry took it from the
  manifest's own commit, and a sealed manifest has all of them (`AttemptsKnow`,
  `EntriesTrue`); the run of what a retention job has selected, however long ago,
  is not claimed again, and that of a head is over (`RetentionTrue`, `RunsTrue`);
  what the events of a purge have taken and what is left are disjoint and together
  as many as were there (`Accounted`).

Only model-checked is liveness (`SettledOnceFaultsStop`, `ReceiptsAreDrained`,
`LastChangeIsProjected`), which is out of reach of the provers used.

## 6. Findings

- `outbox_recoverable`: two overlapping invocations at the last attempt leave a
  row both dispatched and failed without a code, which no reconciler reads
  again; the architecture document says dispatched rows remain recoverable.
- `outbox_resume`: the most recently updated run of a rebuild may be that of an
  instance that ended while its repair is queued, so the resume command may
  replace an execution that will still run. `Projection` shows what follows: two
  rebuilds of a version publish at once, which does no harm to the snapshot
  (`SnapshotsAreTrue`), and never other than by a repair (`OnlyRepairsMayOverlap`).
- `search_refused`: a publisher whose batch is refused answers `false`, which the
  Workflow ignores and records completion. Refused does not mean superseded: the
  cleanup another publisher of the same revision left behind refuses it too. If
  that other one then uses up its attempts, the current revision is not
  projected and its Workflow is complete; the operations document says that no
  completion is reported until every vector is readable.

Not a contradiction of any document, but worth knowing: a review of a candidate
takes a project version and publishes nothing, and a change whose Workflow runs
after a review is not current any more and publishes nothing either
(`workers/memory-orchestrator/index.ts:1550`). The change then stays out of the
active snapshot until the next change or a rebuild. `LastChangeIsProjected`
therefore speaks of projects whose last commit is a memory change.

## 7. Limits

- Statements of the reconcilers that D1 fails end the job; row limits and the
  start throttle only delay.
- `FormalCommit` takes one analysis of a candidate; that two attempts of an
  analysis overlap and disagree is a hazard without a property, and no document
  says what must hold then.
- In `Consolidation` one evidence row stands for those of a batch, the model's
  answer is any set of contents, and the operation witness of a transaction is
  set and cleared in it. The lease has no duration: that all repairs can fail
  while an abandoned lease lives (twenty minutes against repairs every five) is
  a hazard without a property.
- In `Projection` a run starts with the first memory, README, indexes and manifest
  are one object, and a read that is repeated before anything is done is left
  to the later one. The budget is `FormalCommit`'s, the search part of a rebuild
  `Search`'s, the delivery of its event `OutboxRecovery`'s. A repair may come at any
  time after a failure, as an invocation of `OutboxRecovery` that read the row before
  may be that late. The fence is left out: a fenced rebuild is given up with
  `failed_at` while it runs, and resume then finds no project to rebuild.
- In `Search` vectors are forgotten (`stray`) by a publisher that dies or throws
  between its upsert and its batch, by an upsert that overlaps a deletion of the
  same revision, and by a second upsert that comes late. Retrieval checks every
  hit against the authority (invariant 6 of the architecture document), so they
  cost space and no answer; `VectorsAreAccounted` says these are the only ways.
  The search generation is never replaced.
- In `GitHubSync` there is one repository with one ref, and reading GitHub is one
  step of an attempt; in `GitHubManifests` the claim and cursor of a run are
  those of `GitHubSync` without dispatches and credentials, and a statement that
  inserts many entries inserts one. Two commits of one occurrence may be staged
  there, whereas `UNIQUE (project_id, repository_id, ref, collection_key)`
  (`migrations/0011:75`) lets D1 refuse the second: `beginGitHubTreeManifest` then
  throws, which ends as `AttemptDies` does at that step. The model only does more.
  The lease of a run is one flag in `GitHubSync`, also where a write compares it
  with a time taken before the statement.
- Text, hashing, HTTP, GitHub and model calls, ranking and chunking are data.

Not modelled:

- *Gateway*: sessions and submissions are single guarded batches in front of
  components 1 to 3; tokens, page cursors and HTTP are parsing. That a session
  is closed while a candidate is being submitted is a hazard without a property.
- *Synthetic cleanup*: only the fence it drops is modelled, in `FormalCommit` and
  `OutboxRecovery`. That an attempt writes vectors or objects after they were found
  deleted is a hazard without a property.
- *Search ranking, the GitHub client, model runner, content inspection*: functions
  of text and scores, and calls whose result any model value stands for.
- *Maintenance scripts* other than the rebuild command: admission, quiescence,
  canary and rendering read deployments and files, and change none of the state
  modelled here.

## 8. Plan

What is left, in order of value:

1. `OutboxRecovery` composed with `Consolidation` by their two clocks, for the
   lease that outlives all repairs.
2. `analyzeCandidate` with overlapping attempts; the sessions of the Gateway, open
   against close against submission; synthetic cleanup against late writers.
