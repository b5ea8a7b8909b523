--------------------------- MODULE GitHubManifests ---------------------------
(***************************************************************************)
(* Tree manifests: how an attempt of a ref Workflow turns a commit into the *)
(* head of a ref, and how retention disposes of what failed                 *)
(* (workers/github-sync/index.ts: syncRef, src/github/tree-manifest*.ts,    *)
(* candidate-persistence.ts, sync-activation-fence.ts, migration 0011).     *)
(*                                                                         *)
(* An attempt stages the manifest of the commit it found, stores an entry   *)
(* for each blob, seals it, and activates it: in one transaction the head   *)
(* moves, the differences to the old head are recorded, losses are put up   *)
(* for review and text is submitted as candidates.  Meanwhile an attempt    *)
(* its Workflow has given up on goes on, GitHub moves, another occurrence   *)
(* begins, and retention fails stale manifests and purges old failures.     *)
(*                                                                         *)
(* Abstractions: one ref; a commit is its tree, a tree a blob for each      *)
(* path, so a manifest is named by its commit and occurrence; a checksum is *)
(* the entries; one statement inserts one entry; claim, lease and cursor of *)
(* a run as in module GitHubSync, without dispatches and credentials; the   *)
(* page and the quota of a retention scan are any choice of eligible        *)
(* manifests; a purge token is the retention version it was made from.      *)
(* Variants are bugs no definition uses.                                    *)
(***************************************************************************)
EXTENDS Integers, FiniteSets, Sequences

CONSTANTS
  Paths,        \* repository paths
  Commits,      \* trees GitHub may show: a blob or "none" for each path
  Slots,        \* occurrences of the Cron schedule, 1 .. n
  Jobs,         \* invocations of retention
  MaxAttempts,  \* attempts of the synchronisation step (3)
  MaxClaims,    \* bound on claims of one purge
  MaxFaults     \* bound on deaths, time-outs and unreadable blobs

Text == {"text1", "text2"}
\* Generated or binary, and refused by the content inspection
Withheld == {"binary", "secret"}
Blobs == Text \cup Withheld

ASSUME GitHubManifestsAssumption ==
  /\ IsFiniteSet(Slots) /\ Slots = 1 .. Cardinality(Slots) /\ Slots # {}
  /\ IsFiniteSet(Paths)
  /\ Commits \subseteq [Paths -> Blobs \cup {"none"}]
  /\ MaxAttempts \in Nat \ {0}
  /\ MaxClaims \in Nat \ {0}
  /\ MaxFaults \in Nat

VARIABLES
  clock,      \* the current occurrence
  remote,     \* the commit of the ref on GitHub
  run,        \* github_repository_sync_runs
  cursor,     \* sync_cursors.cursor_version
  manifest,   \* github_tree_manifests and github_tree_manifest_entries
  receipts,   \* github_tree_activation_receipts; the last one is the head
  deltas,     \* github_tree_manifest_deltas
  reviews,    \* review requests for deleted and withdrawn paths
  candidates, \* github_blob evidence, observations and their outbox events
  cited,      \* paths an active memory has evidence from
  events,     \* github_tree_manifest_lifecycle_events of purged chunks
  wf,         \* the ref Workflow of each occurrence
  att,        \* attempts
  job,        \* retention
  fail,       \* calls of failGitHubTreeManifest in progress
  faults      \* faults so far

tables == <<manifest, receipts, deltas, reviews, candidates, events>>
vars == <<clock, remote, run, cursor, tables, cited, wf, att, job, fail, faults>>

Manifests == Commits \X Slots
Commit(m) == m[1]
Slot(m) == m[2]

Empty == [p \in Paths |-> "none"]
NoManifest ==
  [st |-> "none", entries |-> Empty, born |-> 0, count |-> 0, old |-> FALSE,
   ver |-> 0, hold |-> "free"]
Failers == ({"attempt", "sweep"} \X Slots) \cup ({"job"} \X Jobs)
NotFailing == [m |-> {}, n |-> -1]
IdleAttempt ==
  [pc |-> "idle", base |-> 0, commit |-> Empty, entries |-> Empty, todo |-> {},
   staged |-> FALSE]
IdleJob(pc) == [pc |-> pc, todo |-> {}, m |-> {}, ver |-> 0, chunk |-> {}]

Init ==
  /\ clock = 1
  /\ remote \in Commits
  /\ run = [s \in Slots |-> [st |-> "none", live |-> FALSE, head |-> 0, cur |-> 0]]
  /\ cursor = 1
  /\ manifest = [m \in Manifests |-> NoManifest]
  /\ receipts = <<>>
  /\ deltas = {} /\ reviews = {} /\ candidates = {} /\ cited = {} /\ events = {}
  /\ wf = [s \in Slots |-> [pc |-> "none", tries |-> 0, todo |-> {}]]
  /\ att = [s \in Slots |-> IdleAttempt]
  /\ job = [j \in Jobs |-> IdleJob("none")]
  /\ fail = [x \in Failers |-> NotFailing]
  /\ faults = 0

-----------------------------------------------------------------------------
(* The tables *)

HeadVersion == Len(receipts)
HeadAt(v) == {receipts[u].new : u \in {v} \cap DOMAIN receipts}
RefHead == HeadAt(HeadVersion)
EntriesOf(ms) ==
  IF ms = {} THEN Empty ELSE manifest[CHOOSE m \in ms : TRUE].entries
Stored(e) == {p \in Paths : e[p] # "none"}

Target(s) == <<att[s].commit, s>>

-----------------------------------------------------------------------------
(* The world *)

PushTo(c) ==
  /\ c # remote
  /\ remote' = c
  /\ UNCHANGED <<clock, run, cursor, tables, cited, wf, att, job, fail, faults>>

NextOccurrence ==
  /\ clock + 1 \in Slots
  /\ clock' = clock + 1
  /\ UNCHANGED <<remote, run, cursor, tables, cited, wf, att, job, fail, faults>>

RunExpires(s) ==
  /\ run[s].st = "running" /\ run[s].live
  /\ run' = [run EXCEPT ![s].live = FALSE]
  /\ UNCHANGED <<clock, remote, cursor, tables, cited, wf, att, job, fail, faults>>

\* A candidate of the head is promoted to a memory.
Cite(p) ==
  /\ p \notin cited
  /\ RefHead # {}
  /\ EntriesOf(RefHead)[p] \in Text
  /\ cited' = cited \cup {p}
  /\ UNCHANGED <<clock, remote, run, cursor, tables, wf, att, job, fail, faults>>

\* Thirty days after the failure, when no invocation of then is left
Ages(m) ==
  /\ manifest[m].st = "failed" /\ ~manifest[m].old
  /\ \A s \in Slots : att[s].pc = "idle"
  /\ \A x \in Failers : fail[x] = NotFailing
  /\ \A j \in Jobs : job[j].pc \in {"none", "done"}
  /\ manifest' = [manifest EXCEPT ![m].old = TRUE]
  /\ UNCHANGED <<clock, remote, run, cursor, receipts, deltas, reviews, candidates,
                 events, cited, wf, att, job, fail, faults>>

\* The purge lease, or the back-off after an error, is over.
HoldEnds(m) ==
  /\ manifest[m].hold # "free"
  /\ manifest[m].ver < MaxClaims
  /\ manifest' = [manifest EXCEPT ![m].hold = "free"]
  /\ UNCHANGED <<clock, remote, run, cursor, receipts, deltas, reviews, candidates,
                 events, cited, wf, att, job, fail, faults>>

-----------------------------------------------------------------------------
(* The ref Workflow around its attempts; module GitHubSync has its details. *)

ClaimRun(s) ==
  /\ wf[s].pc = "none" /\ clock = s
  /\ \A r \in Slots : ~(run[r].st = "running" /\ run[r].live)
  /\ run' = [r \in Slots |->
       IF r = s THEN [st |-> "running", live |-> TRUE, head |-> HeadVersion,
                      cur |-> cursor]
       ELSE IF run[r].st = "running"
       THEN [run[r] EXCEPT !.st = "failed"]
       ELSE run[r]]
  /\ wf' = [wf EXCEPT ![s].pc = "sync"]
  /\ UNCHANGED <<clock, remote, cursor, tables, cited, att, job, fail, faults>>

RunHolds(s) ==
  /\ run[s].st = "running" /\ run[s].live
  /\ run[s].cur = cursor
  /\ run[s].head = HeadVersion

StartAttempt(s) ==
  /\ wf[s].pc = "sync"
  /\ IF run[s].st = "complete"
     THEN wf' = [wf EXCEPT ![s].pc = "finish"] /\ UNCHANGED att
     ELSE /\ wf' = [wf EXCEPT ![s].pc = "wait"]
          /\ att' = [att EXCEPT ![s].pc = "head"]
  /\ UNCHANGED <<clock, remote, run, cursor, tables, cited, job, fail, faults>>

\* The step is over after 13 minutes and not repeated; the attempt goes on.
AttemptTimesOut(s) ==
  /\ wf[s].pc = "wait"
  /\ faults < MaxFaults /\ faults' = faults + 1
  /\ wf' = [wf EXCEPT ![s].pc = "list"]
  /\ UNCHANGED <<clock, remote, run, cursor, tables, cited, att, job, fail>>

\* The isolate of an attempt is gone.
AttemptDies(s) ==
  /\ att[s].pc # "idle"
  /\ faults < MaxFaults /\ faults' = faults + 1
  /\ att' = [att EXCEPT ![s] = IdleAttempt]
  /\ fail' = [fail EXCEPT ![<<"attempt", s>>] = NotFailing]
  /\ wf' = IF wf[s].pc = "wait" THEN [wf EXCEPT ![s].pc = "list"] ELSE wf
  /\ UNCHANGED <<clock, remote, run, cursor, tables, cited, job>>

failStagedManifestsForScheduledRef(s) ==
  /\ \/ /\ wf[s].pc = "list"
        /\ wf' = [wf EXCEPT ![s].pc = "sweep", ![s].todo =
                    {m \in Manifests : Slot(m) = s /\ manifest[m].st = "staging"}]
        /\ UNCHANGED fail
     \/ /\ wf[s].pc = "sweep" /\ fail[<<"sweep", s>>] = NotFailing
        /\ \E m \in wf[s].todo :
             /\ wf' = [wf EXCEPT ![s].todo = @ \ {m}]
             /\ fail' = [fail EXCEPT ![<<"sweep", s>>].m = {m}]
     \/ /\ wf[s].pc = "sweep" /\ fail[<<"sweep", s>>] = NotFailing /\ wf[s].todo = {}
        /\ wf' = [wf EXCEPT ![s].pc = "record"]
        /\ UNCHANGED fail
  /\ UNCHANGED <<clock, remote, run, cursor, tables, cited, att, job, faults>>

recordSyncFailure(s) ==
  /\ wf[s].pc = "record"
  /\ cursor' = IF RunHolds(s) THEN cursor + 1 ELSE cursor
  /\ wf' = [wf EXCEPT ![s].pc = "fail"]
  /\ UNCHANGED <<clock, remote, run, tables, cited, att, job, fail, faults>>

finishRepositorySyncRun(s) ==
  /\ wf[s].pc \in {"finish", "fail"}
  /\ run' = IF run[s].st = "running"
            THEN [run EXCEPT ![s].st =
                    IF wf[s].pc = "finish" THEN "complete" ELSE "failed"]
            ELSE run
  /\ wf' = [wf EXCEPT ![s].pc = "done"]
  /\ UNCHANGED <<clock, remote, cursor, tables, cited, att, job, fail, faults>>

-----------------------------------------------------------------------------
(* How an attempt ends, and what its Workflow hears *)

At(s, pc) == att[s].pc = pc
Goto(s, pc) == att' = [att EXCEPT ![s].pc = pc]

Heard(s, pc, tries) ==
  IF wf[s].pc = "wait" THEN [wf EXCEPT ![s].pc = pc, ![s].tries = tries] ELSE wf

Succeeds(s) ==
  /\ att' = [att EXCEPT ![s] = IdleAttempt]
  /\ wf' = Heard(s, "finish", 0)
  /\ UNCHANGED fail

\* A final error fails the manifest the attempt has staged, and is reported.
syncRefFails(s) ==
  /\ Goto(s, "failed")
  /\ fail' = [fail EXCEPT ![<<"attempt", s>>].m =
                              IF att[s].staged THEN {Target(s)} ELSE {}]
  /\ UNCHANGED wf

ReportFailure(s) ==
  /\ At(s, "failed")
  /\ fail[<<"attempt", s>>] = NotFailing
  /\ att' = [att EXCEPT ![s] = IdleAttempt]
  /\ wf' = Heard(s, "list", 0)
  /\ UNCHANGED <<clock, remote, run, cursor, tables, cited, job, fail, faults>>

\* GitHub did not answer: the manifest stays, the Workflow tries again.
RetryableError(s) ==
  /\ att[s].pc \in {"ref", "blobs"}
  /\ att' = [att EXCEPT ![s] = IdleAttempt]
  /\ LET tries == wf[s].tries + 1 IN
     wf' = IF tries < MaxAttempts THEN Heard(s, "sync", tries)
           ELSE Heard(s, "list", 0)
  /\ UNCHANGED <<clock, remote, run, cursor, tables, cited, job, fail, faults>>

-----------------------------------------------------------------------------
(* An attempt *)

\* The head must be the one that was selected with the ref.
readActiveGitHubTreeHead(s) ==
  /\ At(s, "head")
  /\ IF HeadVersion = run[s].head
     THEN /\ att' = [att EXCEPT ![s].pc = "ref", ![s].base = HeadVersion]
          /\ UNCHANGED <<wf, fail>>
     ELSE syncRefFails(s)
  /\ UNCHANGED <<clock, remote, run, cursor, tables, cited, job, faults>>

\* Nothing new, and no full reconciliation: only the cursor moves, and the
\* write is fenced by the run.
markUnchanged(s) ==
  /\ At(s, "ref")
  /\ RefHead # {}
  /\ \A m \in RefHead : remote = Commit(m)
  /\ IF RunHolds(s)
     THEN cursor' = cursor + 1 /\ Succeeds(s)
     ELSE syncRefFails(s) /\ UNCHANGED cursor
  /\ UNCHANGED <<clock, remote, run, tables, cited, job, faults>>

\* The reference, its commit and its tree
ReadTree(s) ==
  /\ At(s, "ref")
  /\ att' = [att EXCEPT ![s].pc = "begin", ![s].commit = remote]
  /\ UNCHANGED <<clock, remote, run, cursor, tables, cited, wf, job, fail, faults>>

\* The manifest may have been staged, and even sealed, by an earlier attempt.
beginGitHubTreeManifest(s) ==
  /\ At(s, "begin")
  /\ manifest' = IF manifest[Target(s)].st = "none"
                 THEN [manifest EXCEPT ![Target(s)].st = "staging",
                                       ![Target(s)].born = clock]
                 ELSE manifest
  /\ IF manifest'[Target(s)].st \in {"staging", "complete"}
     THEN /\ att' = [att EXCEPT ![s].pc = "blobs", ![s].staged = TRUE]
          /\ UNCHANGED <<wf, fail>>
     ELSE syncRefFails(s)
  /\ UNCHANGED <<clock, remote, run, cursor, receipts, deltas, reviews, candidates,
                 events, cited, job, faults>>

\* A blob that does not match its entry, or is beyond a limit, is partial.
ReadBlobs(s, part) ==
  /\ part \subseteq Stored(att[s].commit)
  /\ Cardinality(part) <= 1
  /\ faults + Cardinality(part) <= MaxFaults
  /\ faults' = faults + Cardinality(part)

\* The entries of a tree: what could not be read is marked.
Normalized(c, part) == [p \in Paths |-> IF p \in part THEN "partial" ELSE c[p]]

\* What an earlier attempt has sealed must be what this one has read.
verifyCompletedManifest(m, entries) ==
  manifest[m].st = "complete" /\ manifest[m].entries = entries

\* The blobs are read, then the status of the manifest.
persistGitHubTreeManifestEntries(s) ==
  /\ At(s, "blobs")
  /\ \E part \in SUBSET Paths :
       /\ ReadBlobs(s, part)
       /\ LET read == [att[s] EXCEPT !.entries = Normalized(att[s].commit, part)] IN
          CASE manifest[Target(s)].st = "staging" ->
                 /\ att' = [att EXCEPT ![s] = [read EXCEPT !.pc = "store",
                                                 !.todo = Stored(read.entries)]]
                 /\ UNCHANGED <<wf, fail>>
            [] verifyCompletedManifest(Target(s), read.entries) ->
                 /\ att' = [att EXCEPT ![s] = [read EXCEPT !.pc = "complete"]]
                 /\ UNCHANGED <<wf, fail>>
            [] OTHER -> syncRefFails(s)
  /\ UNCHANGED <<clock, remote, run, cursor, tables, cited, job>>

\* An entry that is there stays as it is; the trigger refuses entries of a
\* manifest that is not staging.
StoreEntries(s) ==
  /\ At(s, "store")
  /\ IF att[s].todo = {}
     THEN /\ IF \A p \in Paths : att[s].entries[p] # "partial"
             THEN Goto(s, "complete") /\ UNCHANGED <<wf, fail>>
             ELSE syncRefFails(s)
          /\ UNCHANGED manifest
     ELSE \E p \in att[s].todo :
            IF manifest[Target(s)].st = "staging"
            THEN /\ manifest' = [manifest EXCEPT ![Target(s)].entries[p] =
                                   IF @ = "none" THEN att[s].entries[p] ELSE @]
                 /\ att' = [att EXCEPT ![s].todo = @ \ {p}]
                 /\ UNCHANGED <<wf, fail>>
            ELSE syncRefFails(s) /\ UNCHANGED manifest
  /\ UNCHANGED <<clock, remote, run, cursor, receipts, deltas, reviews, candidates,
                 events, cited, job, faults>>

\* The stored entries are read in pages and compared by their checksum.
CheckEntries(s) ==
  /\ At(s, "complete")
  /\ CASE /\ manifest[Target(s)].st = "staging"
          /\ manifest[Target(s)].entries = att[s].entries ->
            Goto(s, "seal") /\ UNCHANGED <<wf, fail>>
       [] verifyCompletedManifest(Target(s), att[s].entries) ->
            Goto(s, "activate") /\ UNCHANGED <<wf, fail>>
       [] OTHER -> syncRefFails(s)
  /\ UNCHANGED <<clock, remote, run, cursor, tables, cited, job, faults>>

completeGitHubTreeManifest(s) ==
  /\ At(s, "seal")
  /\ LET m == manifest[Target(s)]
         sealed == /\ m.st = "staging"
                   /\ Cardinality(Stored(m.entries)) =
                        Cardinality(Stored(att[s].entries))
                   /\ \A p \in Paths : m.entries[p] # "partial" IN
     /\ manifest' = IF sealed
                    THEN [manifest EXCEPT ![Target(s)].st = "complete",
                            ![Target(s)].count = Cardinality(Stored(m.entries))]
                    ELSE manifest
     /\ IF sealed \/ verifyCompletedManifest(Target(s), att[s].entries)
        THEN Goto(s, "activate") /\ UNCHANGED <<wf, fail>>
        ELSE syncRefFails(s)
  /\ UNCHANGED <<clock, remote, run, cursor, receipts, deltas, reviews, candidates,
                 events, cited, job, faults>>

-----------------------------------------------------------------------------
(* The activation *)

\* How a path differs between two trees
DeltaKind(old, new) ==
  CASE old = "none" -> "added"
    [] new = "none" -> "deleted"
    [] old \in Text /\ new \in Withheld -> "withdrawn"
    [] OTHER -> "changed"

Deltas(old, new, before, after) ==
  {[old |-> old, new |-> new, path |-> p, kind |-> DeltaKind(before[p], after[p])] :
     p \in {q \in Paths : before[q] # after[q]}}

Asked(ds) == {[old |-> d.old, new |-> d.new, path |-> d.path] : d \in ds}

\* A deletion always asks for a review, a withdrawal if a memory is affected.
DeletionReviews(ds) == Asked({d \in ds : d.kind = "deleted"})
WithdrawalReviews(ds) ==
  Asked({d \in ds : d.kind = "withdrawn" /\ d.path \in cited})
LossReviews(ds) == DeletionReviews(ds) \cup WithdrawalReviews(ds)

\* Text as evidence, observation and event; a refused blob as a tombstone,
\* unless the head had it as text, whose withdrawal is evidence of its own
BlobCandidates(c, before) ==
  {<<c, p>> : p \in {q \in Paths : \/ c[q] \in Text
                                   \/ c[q] = "secret" /\ before[q] \notin Text}}

\* A bug: whoever has sealed a manifest may activate it.
FencedBySeal(s) == manifest[Target(s)].st = "complete"

ActivationFence(s) ==
  /\ RunHolds(s)
  /\ att[s].base = HeadVersion
  /\ manifest[Target(s)].st = "complete"

\* What the transaction adds to the tables
Recorded(s, old, ds) ==
  /\ deltas' = deltas \cup ds
  /\ reviews' = reviews \cup LossReviews(ds)
  /\ candidates' = candidates \cup BlobCandidates(att[s].commit, EntriesOf(old))

\* The cursor and the run are closed, and the receipt asserts the final state.
Receipted(s, old) ==
  /\ cursor' = cursor + 1
  /\ run' = [run EXCEPT ![s].st = "complete"]
  /\ receipts' = Append(receipts, [old |-> old, new |-> Target(s), slot |-> s,
                                   cited |-> cited])

\* One transaction
activateGitHubTreeManifest(s) ==
  /\ At(s, "activate")
  /\ IF ActivationFence(s) /\ Target(s) \notin RefHead
     THEN /\ LET old == HeadAt(att[s].base) IN
             /\ Recorded(s, old, Deltas(old, Target(s), EntriesOf(old),
                                        manifest[Target(s)].entries))
             /\ Receipted(s, old)
          /\ Succeeds(s)
     ELSE /\ syncRefFails(s)
          /\ UNCHANGED <<deltas, reviews, candidates, receipts, cursor, run>>
  /\ UNCHANGED <<clock, remote, manifest, events, cited, job, faults>>

-----------------------------------------------------------------------------
(* failGitHubTreeManifest, called by attempts, Workflows and retention *)

\* A manifest that is not staging is left alone; otherwise its entries are read.
ReadStaging(x) ==
  /\ fail[x].m # {} /\ fail[x].n = -1
  /\ \E m \in fail[x].m :
       fail' = [fail EXCEPT ![x] =
         IF manifest[m].st = "staging"
         THEN [m |-> {m}, n |-> Cardinality(Stored(manifest[m].entries))]
         ELSE NotFailing]
  /\ UNCHANGED <<clock, remote, run, cursor, tables, cited, wf, att, job, faults>>

\* A bug: entries stored after the count was read do not refuse the failure.
AnyCount(m, n) == manifest[m].st = "staging"

\* A bug: a manifest that has been sealed since is failed.
AnyStatus(m, n) == Cardinality(Stored(manifest[m].entries)) = n

\* The trigger compares the count with the entries.
CanFail(m, n) ==
  /\ manifest[m].st = "staging"
  /\ Cardinality(Stored(manifest[m].entries)) = n

\* Who lost the race, or is refused, changes nothing.
failGitHubTreeManifest(x) ==
  /\ fail[x].m # {} /\ fail[x].n >= 0
  /\ \E m \in fail[x].m :
       manifest' = IF CanFail(m, fail[x].n)
                   THEN [manifest EXCEPT ![m].st = "failed",
                                         ![m].count = fail[x].n]
                   ELSE manifest
  /\ fail' = [fail EXCEPT ![x] = NotFailing]
  /\ UNCHANGED <<clock, remote, run, cursor, receipts, deltas, reviews, candidates,
                 events, cited, wf, att, job, faults>>

-----------------------------------------------------------------------------
(* Retention *)

JobAt(j, pc) == job[j].pc = pc
JobGoto(j, pc) == job' = [job EXCEPT ![j] = IdleJob(pc)]

\* A bug: manifests of a run that is going are taken for abandoned.
StaleByAge == {m \in Manifests : manifest[m].st = "staging" /\ manifest[m].born < clock}

\* Staged before this occurrence; a run whose lease is over may or may not have
\* held it when the occurrence began.
Abandoned ==
  {m \in Manifests :
     /\ manifest[m].st = "staging"
     /\ manifest[m].born < clock
     /\ ~(run[Slot(m)].st = "running" /\ run[Slot(m)].live)}

maintainGitHubTreeManifestRetention(j) ==
  /\ JobAt(j, "none")
  /\ \E ms \in SUBSET Abandoned :
       job' = [job EXCEPT ![j] = [IdleJob("staging") EXCEPT !.todo = ms]]
  /\ UNCHANGED <<clock, remote, run, cursor, tables, cited, wf, att, fail, faults>>

Unreferenced(m) ==
  /\ m \notin RefHead
  /\ \A d \in deltas : m # d.new /\ m \notin d.old

Purgeable(m) ==
  /\ manifest[m].st \in {"failed", "purging"}
  /\ manifest[m].old
  /\ manifest[m].hold = "free"
  /\ Unreferenced(m)

loadRetentionCandidates(j) ==
  /\ JobAt(j, "staging") /\ fail[<<"job", j>>] = NotFailing
  /\ \/ \E m \in job[j].todo :
          /\ job' = [job EXCEPT ![j].todo = @ \ {m}]
          /\ fail' = [fail EXCEPT ![<<"job", j>>].m = {m}]
     \/ /\ job[j].todo = {}
        /\ UNCHANGED fail
        /\ \/ \E m \in {n \in Manifests : Purgeable(n)} :
                job' = [job EXCEPT ![j] = [IdleJob("claim") EXCEPT
                          !.m = {m}, !.ver = manifest[m].ver]]
           \/ JobGoto(j, "done")
  /\ UNCHANGED <<clock, remote, run, cursor, tables, cited, wf, att, faults>>

Mine(j) == CHOOSE m \in job[j].m : TRUE

claimFailedManifest(j) ==
  /\ JobAt(j, "claim")
  /\ IF Purgeable(Mine(j)) /\ manifest[Mine(j)].ver = job[j].ver
     THEN /\ manifest' = [manifest EXCEPT ![Mine(j)].st = "purging",
                            ![Mine(j)].ver = @ + 1, ![Mine(j)].hold = "leased"]
          /\ job' = [job EXCEPT ![j].pc = "select", ![j].ver = @ + 1]
     ELSE JobGoto(j, "done") /\ UNCHANGED manifest
  /\ UNCHANGED <<clock, remote, run, cursor, receipts, deltas, reviews, candidates,
                 events, cited, wf, att, fail, faults>>

\* Every statement of a purge repeats the claim.
Claimed(j) ==
  /\ manifest[Mine(j)].st = "purging"
  /\ manifest[Mine(j)].ver = job[j].ver
  /\ manifest[Mine(j)].hold = "leased"
  /\ Unreferenced(Mine(j))

\* Nothing is left, or the chunks of this invocation (4) are used up.
SelectChunk(j) ==
  /\ JobAt(j, "select")
  /\ \/ job' = [job EXCEPT ![j].pc = "purge"]
     \/ /\ Claimed(j)
        /\ \E p \in Stored(manifest[Mine(j)].entries) :
             job' = [job EXCEPT ![j].pc = "delete", ![j].chunk = {p}]
  /\ UNCHANGED <<clock, remote, run, cursor, tables, cited, wf, att, fail, faults>>

Deferrable(j) ==
  manifest[Mine(j)].st = "purging" /\ manifest[Mine(j)].ver = job[j].ver

\* The event and the deletion in one transaction; otherwise the purge is put
\* off, if the claim still stands.
purgeClaimedManifestEntries(j) ==
  /\ JobAt(j, "delete")
  /\ LET m == Mine(j) IN
     IF Claimed(j) /\ job[j].chunk \subseteq Stored(manifest[m].entries)
     THEN /\ manifest' = [manifest EXCEPT ![m].entries =
               [p \in Paths |-> IF p \in job[j].chunk THEN "none" ELSE @[p]]]
          /\ events' = events \cup {[m |-> m, ver |-> job[j].ver,
                                     chunk |-> job[j].chunk]}
          /\ job' = [job EXCEPT ![j].pc = "select", ![j].chunk = {}]
     ELSE /\ manifest' = IF Deferrable(j)
                         THEN [manifest EXCEPT ![m].hold = "deferred"]
                         ELSE manifest
          /\ JobGoto(j, "done")
          /\ UNCHANGED events
  /\ UNCHANGED <<clock, remote, run, cursor, receipts, deltas, reviews, candidates,
                 cited, wf, att, fail, faults>>

Purged(j) == Claimed(j) /\ Stored(manifest[Mine(j)].entries) = {}

CompletePurge(j) ==
  /\ JobAt(j, "purge")
  /\ manifest' = IF Purged(j)
                 THEN [manifest EXCEPT ![Mine(j)].st = "purged",
                         ![Mine(j)].ver = @ + 1, ![Mine(j)].hold = "free"]
                 ELSE manifest
  /\ JobGoto(j, "done")
  /\ UNCHANGED <<clock, remote, run, cursor, receipts, deltas, reviews, candidates,
                 events, cited, wf, att, fail, faults>>

\* A retried step, or the Workflow of the next occurrence
JobRestarts(j) ==
  /\ job[j].pc # "none"
  /\ faults < MaxFaults /\ faults' = faults + 1
  /\ JobGoto(j, "none")
  /\ fail' = [fail EXCEPT ![<<"job", j>>] = NotFailing]
  /\ UNCHANGED <<clock, remote, run, cursor, tables, cited, wf, att>>

-----------------------------------------------------------------------------
World ==
  \/ \E c \in Commits : PushTo(c)
  \/ NextOccurrence
  \/ \E p \in Paths : Cite(p)
  \/ \E m \in Manifests : Ages(m) \/ HoldEnds(m)

RefWorkflow(s) ==
  \/ RunExpires(s)
  \/ ClaimRun(s)
  \/ StartAttempt(s)
  \/ AttemptTimesOut(s)
  \/ failStagedManifestsForScheduledRef(s)
  \/ recordSyncFailure(s)
  \/ finishRepositorySyncRun(s)

Attempt(s) ==
  \/ AttemptDies(s)
  \/ ReportFailure(s)
  \/ RetryableError(s)
  \/ readActiveGitHubTreeHead(s)
  \/ markUnchanged(s)
  \/ ReadTree(s)
  \/ beginGitHubTreeManifest(s)
  \/ persistGitHubTreeManifestEntries(s)
  \/ StoreEntries(s)
  \/ CheckEntries(s)
  \/ completeGitHubTreeManifest(s)
  \/ activateGitHubTreeManifest(s)

Retention(j) ==
  \/ maintainGitHubTreeManifestRetention(j)
  \/ loadRetentionCandidates(j)
  \/ claimFailedManifest(j)
  \/ SelectChunk(j)
  \/ purgeClaimedManifestEntries(j)
  \/ CompletePurge(j)
  \/ JobRestarts(j)

Next ==
  \/ World
  \/ \E s \in Slots : RefWorkflow(s) \/ Attempt(s)
  \/ \E j \in Jobs : Retention(j)
  \/ \E x \in Failers : ReadStaging(x) \/ failGitHubTreeManifest(x)

Spec == Init /\ [][Next]_vars

-----------------------------------------------------------------------------
(* Properties *)

\* The tables hold what their CHECKs and triggers allow.
TypeOK ==
  /\ clock \in Slots /\ remote \in Commits /\ cursor \in Nat \ {0}
  /\ run \in [Slots -> [st : {"none", "running", "complete", "failed"},
                        live : BOOLEAN, head : Nat, cur : Nat]]
  /\ manifest \in [Manifests ->
       [st : {"none", "staging", "complete", "failed", "purging", "purged"},
        entries : [Paths -> Blobs \cup {"none", "partial"}], born : Nat,
        count : Nat, old : BOOLEAN, ver : Nat,
        hold : {"free", "leased", "deferred"}]]
  /\ receipts \in Seq([old : SUBSET Manifests, new : Manifests, slot : Slots,
                       cited : SUBSET Paths])
  /\ cited \subseteq Paths
  /\ \A m \in Manifests : manifest[m].hold # "free" => manifest[m].st = "purging"

\* The tables are well formed (TypeOK), and
\* a manifest that has been a head stays sealed and stays the whole tree of its
\* commit, although the Workflow or retention may be about to fail it when the
\* attempt it has given up on seals and activates it.
HistoryIsKept ==
  /\ TypeOK
  /\ \A v \in 1 .. Len(receipts) :
       LET m == receipts[v].new IN
       manifest[m].st = "complete" /\ manifest[m].entries = Commit(m)

\* Heads follow one another: each activation started from the head before it,
\* belongs to a run of its own, and left exactly the differences between the
\* two trees.
HistoryIsReplayable ==
  \A v \in 1 .. Len(receipts) :
    LET r == receipts[v] IN
    /\ r.old = IF v = 1 THEN {} ELSE {receipts[v - 1].new}
    /\ \A u \in 1 .. v - 1 : receipts[u].slot # r.slot
    /\ {d \in deltas : d.new = r.new} =
         Deltas(r.old, r.new,
                IF r.old = {} THEN Empty ELSE Commit(receipts[v - 1].new),
                Commit(r.new))

\* A path that was text in one head and is not in the next has a review request
\* if a memory relied on it.
LossesAreReviewed ==
  \A v \in 2 .. Len(receipts) :
    \A p \in receipts[v].cited :
      /\ Commit(receipts[v - 1].new)[p] \in Text
      /\ Commit(receipts[v].new)[p] \notin Text
      => [old |-> {receipts[v - 1].new}, new |-> receipts[v].new, path |-> p]
           \in reviews

\* A purge loses nothing unrecorded: what is left of a failed manifest and the
\* chunks of its events are as many as it had when it failed, whichever jobs
\* overlapped, and a purged manifest has nothing left.
PurgeIsAccounted ==
  \A m \in Manifests :
    /\ manifest[m].st \in {"failed", "purging", "purged"} =>
         manifest[m].count =
           Cardinality(Stored(manifest[m].entries)) +
           Cardinality(UNION {e.chunk : e \in {f \in events : f.m = m}})
    /\ manifest[m].st = "purged" => Stored(manifest[m].entries) = {}

\* Retention leaves the manifest of a run alone whose lease has not expired.
LiveIsSpared ==
  [][\A j \in Jobs, m \in Manifests :
       /\ fail[<<"job", j>>].m = {m}
       /\ manifest[m].st = "staging" /\ manifest'[m].st = "failed"
       => ~(run[Slot(m)].st = "running" /\ run[Slot(m)].live)]_vars
=============================================================================
