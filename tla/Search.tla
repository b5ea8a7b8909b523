-------------------------------- MODULE Search --------------------------------
(***************************************************************************)
(* The search projection of one memory: publication, deletion and the       *)
(* cleanup of vectors (src/search/indexing.ts, vector-cleanup-janitor.ts,   *)
(* src/projection/rebuild.ts, migrations/search/0005).                      *)
(*                                                                         *)
(* The authority is one database, the projection another, and the vectors   *)
(* live in an index that takes part in no transaction.  A publisher reads   *)
(* the memory, upserts its vectors, reads it again and commits head,        *)
(* ledger and text rows in one batch that leaves a cleanup receipt for      *)
(* every vector it retires.  Publishers, deleters and the janitor drain     *)
(* the receipts, each under a claim.  Change Workflows, rebuilds and the    *)
(* janitor overlap, and any of them may die or fail at any step.            *)
(*                                                                         *)
(* Abstractions: one memory, in one search generation that stays active; a  *)
(* revision is named by the project version that made it; the chunks of a   *)
(* revision go through every statement together, so its vectors are one,    *)
(* and the ledger and text rows are those of the head, which every batch    *)
(* writes and deletes with it; a page holds all receipts.  The index        *)
(* applies mutations in order: `index` is its content once all are          *)
(* applied, and a poll may time out.  A claim outlives its holder: no       *)
(* execution lasts as long as a claim does.  A backoff that has passed is   *)
(* none.  The variants are bugs that no definition uses.                    *)
(***************************************************************************)
EXTENDS Naturals, FiniteSets

CONSTANTS
  Workflows,    \* Workflows of memory.changed events of the memory
  Rebuilds,     \* rebuild Workflows, in mode search or delete
  Janitors,     \* scheduled invocations
  MaxVersion,   \* bound on the project version
  MaxAttempts,  \* attempts of a Workflow step
  MaxRunning,   \* bound on executions that overlap
  MaxFaults,    \* bound on deaths, failed batches and polls timed out
  Nobody,       \* the receipt is not claimed
  Dead,         \* it is claimed by an execution that is gone
  Expired       \* and that claim has expired

Versions == 1 .. MaxVersion
Tasks == Workflows \cup Rebuilds \cup Janitors

ASSUME SearchAssumption ==
  /\ IsFiniteSet(Workflows) /\ Workflows # {}
  /\ MaxVersion \in Nat \ {0}
  /\ MaxAttempts \in Nat \ {0}
  /\ MaxRunning \in Nat \ {0}
  /\ MaxFaults \in Nat
  /\ Nobody \notin {Dead, Expired}
  /\ {Nobody, Dead, Expired} \cap Tasks = {}

VARIABLES
  mem,       \* the authority: project version, current revision and status
  head,      \* memory_projection_heads and its ledger: at most one head
  deletion,  \* memory_search_projection_deletions: at most one
  receipts,  \* memory_search_vector_cleanup_receipts
  claim,     \* who has claimed the receipt of a revision
  held,      \* receipts whose next attempt is in the future
  index,     \* revisions whose vectors are in the index
  task,      \* Workflows, rebuilds and the janitor
  stray,     \* history: vectors nothing in the database may ever name
  faults     \* faults so far

db == <<head, deletion, receipts, claim, held>>
vars == <<mem, db, index, task, stray, faults>>

NoTask ==
  [pc |-> "none", at |-> "none", rev |-> 0, ver |-> 0, rows |-> {}, pub |-> {},
   mine |-> {}, prev |-> {}, tries |-> 0, got |-> FALSE,
   mode |-> "search", want |-> 0, wantVer |-> 0, asked |-> 0]

Init ==
  /\ mem = [ver |-> 1, rev |-> 1, active |-> TRUE]
  /\ head = {} /\ deletion = {} /\ receipts = {} /\ held = {} /\ index = {}
  /\ claim = [r \in Versions |-> Nobody]
  /\ task = [x \in Tasks |->
               IF x = CHOOSE w \in Workflows : TRUE THEN [NoTask EXCEPT !.pc = "start"]
               ELSE NoTask]
  /\ stray = {}
  /\ faults = 0

Ledger == {h.rev : h \in head}
Deleting == {d.rev : d \in deletion}
Row(x) == [rev |-> task[x].rev, ver |-> task[x].ver]
\* The claims once x has released its own
Freed(x) == [r \in Versions |-> IF claim[r] = x THEN Nobody ELSE claim[r]]
\* x has upserted its vectors and committed nothing that names them
Publishing(x) == task[x].pc \in {"settle", "recheck", "commit", "withdraw", "unpublish"}
\* What x is about to upsert is being deleted, or has been since x's batch
UnderCleanup(x) ==
  \/ task[x].rev \in receipts \ Ledger
  \/ \E y \in Tasks : task[y].rev = task[x].rev
                     /\ task[y].pc \in {"deleteVectors", "deleteVerify", "deleteHead"}
  \/ task[x].pc = "upsertAgain" /\ task[x].rev \notin Ledger
Abandon(x) ==
  stray' = IF Publishing(x) THEN stray \cup ({task[x].rev} \ Ledger) ELSE stray

-----------------------------------------------------------------------------
(* Where a task goes *)

To(x, pc) == task' = [task EXCEPT ![x].pc = pc]

\* Drain the receipts, then go on at `at`
Draining(t, at) == [t EXCEPT !.pc = "scan", !.at = at, !.prev = {}]
CleanTo(x, at) == task' = [task EXCEPT ![x] = Draining(@, at)]

\* The step of a Workflow is attempted again until its attempts are used up;
\* the janitor comes back with the next schedule
Ended(t) ==
  [NoTask EXCEPT !.tries = t.tries, !.mode = t.mode, !.want = t.want,
                 !.wantVer = t.wantVer, !.asked = t.asked]
Failing(x) ==
  IF x \in Janitors THEN NoTask
  ELSE [Ended(task[x]) EXCEPT
          !.pc = IF task[x].tries < MaxAttempts THEN "start" ELSE "failed"]
Throw(x) == task' = [task EXCEPT ![x] = Failing(x)]

MayRun ==
  Cardinality({x \in Tasks : task[x].pc \notin {"none", "start", "complete", "failed"}})
    < MaxRunning

\* requireSearchAuthority
Authorised(x) ==
  /\ mem.ver = task[x].asked
  /\ IF task[x].mode = "search"
     THEN mem.active /\ mem.rev = task[x].want
     ELSE ~mem.active

\* A change Workflow ignores the answer of the publisher; a rebuild asks for TRUE
\* and for the authority it was requested under
Return(x, answer) ==
  IF x \in Workflows \/ (answer /\ Authorised(x))
  THEN task' = [task EXCEPT ![x] =
                  [NoTask EXCEPT !.pc = "complete", !.rev = task[x].rev, !.got = answer]]
  ELSE Throw(x)

-----------------------------------------------------------------------------
(* The authority and the requests *)

\* A formal mutation of the memory makes a revision and dispatches a Workflow; a
\* correction or rollback brings back what was invalidated
Mutate ==
  /\ mem.ver < MaxVersion
  /\ \E still \in BOOLEAN, w \in Workflows :
       /\ task[w].pc = "none"
       /\ mem' = [ver |-> mem.ver + 1, rev |-> mem.ver + 1, active |-> still]
       /\ To(w, "start")
  /\ UNCHANGED <<db, index, faults, stray>>

\* A mutation of another memory of the project
MutateOther ==
  /\ mem.ver < MaxVersion
  /\ mem' = [mem EXCEPT !.ver = @ + 1]
  /\ UNCHANGED <<db, index, task, faults, stray>>

\* The operator's inventory asks for the current memory to be published again,
\* or for the head of a memory that is not current to be deleted
RequestRebuild(x) ==
  /\ x \in Rebuilds /\ task[x].pc = "none"
  /\ \/ /\ mem.active
        /\ task' = [task EXCEPT ![x] = [@ EXCEPT
                      !.pc = "start", !.mode = "search", !.want = mem.rev, !.asked = mem.ver]]
     \/ /\ ~mem.active
        /\ \E h \in head :
             task' = [task EXCEPT ![x] = [@ EXCEPT
                        !.pc = "start", !.mode = "delete", !.want = h.rev,
                        !.wantVer = h.ver, !.asked = mem.ver]]
  /\ UNCHANGED <<mem, db, index, faults, stray>>

\* An attempt begins
Start(x) ==
  /\ task[x].pc = "start" /\ MayRun
  /\ LET t == [task[x] EXCEPT !.tries = @ + 1] IN
     IF x \in Rebuilds /\ ~Authorised(x)
     THEN task' = [task EXCEPT ![x] =
                     [t EXCEPT !.pc = IF t.tries < MaxAttempts THEN "start" ELSE "failed"]]
     ELSE IF t.mode = "delete"
     THEN task' = [task EXCEPT ![x] =
                     Draining([t EXCEPT !.rev = t.want, !.ver = t.wantVer], "deleteLook")]
     ELSE task' = [task EXCEPT ![x] = Draining(t, "read")]
  /\ UNCHANGED <<mem, db, index, faults, stray>>

-----------------------------------------------------------------------------
(* A page of receipts *)

\* No receipt is left: the caller goes on, or has its answer
Resume(x) ==
  LET at == task[x].at IN
  CASE at = "published" -> Return(x, TRUE)
    [] at = "refused" -> Return(x, FALSE)
    [] at = "rethrow" -> Throw(x)
    [] OTHER -> task' = [task EXCEPT ![x] = [@ EXCEPT !.pc = at, !.at = "none", !.prev = {}]]

Scan(x) ==
  /\ task[x].pc = "scan"
  /\ IF receipts = {}
     THEN Resume(x)
     ELSE task' = [task EXCEPT ![x] = [@ EXCEPT
                     !.pc = "claim", !.rows = receipts, !.pub = receipts \cap Ledger]]
  /\ UNCHANGED <<mem, db, index, faults, stray>>

\* A bug: a claim is for ever
OnlyUnclaimed(r) == claim[r] = Nobody

Claimable(r) == claim[r] \in {Nobody, Expired}

Claim(x) ==
  /\ task[x].pc = "claim"
  /\ LET mine == {r \in task[x].rows \ task[x].pub :
                    r \in receipts /\ Claimable(r) /\ r \notin Ledger} IN
     /\ claim' = [r \in Versions |-> IF r \in mine THEN x ELSE claim[r]]
     /\ task' = [task EXCEPT ![x] = [@ EXCEPT
                   !.mine = mine, !.pc = IF mine = {} THEN "finalize" ELSE "check"]]
  /\ UNCHANGED <<mem, head, deletion, receipts, held, index, faults, stray>>

\* The claims are released, the error goes on; the janitor records a backoff
PageFails(x) ==
  /\ claim' = Freed(x)
  /\ held' = IF x \in Janitors THEN receipts ELSE held
  /\ Throw(x)

\* requireCurrentSearchVectorCleanupClaims
ClaimsCurrent(x) ==
  \A r \in task[x].mine : r \in receipts /\ claim[r] = x /\ r \notin Ledger

Check(x) ==
  /\ task[x].pc = "check"
  /\ IF ClaimsCurrent(x)
     THEN To(x, "delete") /\ UNCHANGED <<claim, held>>
     ELSE PageFails(x)
  /\ UNCHANGED <<mem, head, deletion, receipts, index, faults, stray>>

Delete(x) ==
  /\ task[x].pc = "delete"
  /\ index' = index \ task[x].mine
  /\ To(x, "verify")
  /\ UNCHANGED <<mem, db, faults, stray>>

\* The checks before and after the poll, and the poll
Verify(x) ==
  /\ task[x].pc = "verify"
  /\ \/ /\ ClaimsCurrent(x) /\ task[x].mine \cap index = {}
        /\ To(x, "finalize")
        /\ UNCHANGED <<claim, held, faults>>
     \/ /\ ~ClaimsCurrent(x) \/ task[x].mine \cap index # {}
        /\ PageFails(x)
        /\ UNCHANGED faults
     \/ /\ faults < MaxFaults /\ faults' = faults + 1
        /\ PageFails(x)
  /\ UNCHANGED <<mem, head, deletion, receipts, index, stray>>

\* A bug: what the page saw published is dropped without another look
DropAsSeen(x, r) ==
  \/ r \in task[x].pub
  \/ r \in task[x].mine /\ claim[r] = x /\ r \notin Ledger

\* The guards of the finalizing batch
Finalizable(x, r) ==
  \/ r \in task[x].pub /\ claim[r] = Nobody /\ r \in Ledger
  \/ r \in task[x].mine /\ claim[r] = x /\ r \notin Ledger

Finalize(x) ==
  /\ task[x].pc = "finalize"
  /\ LET gone == {r \in task[x].rows \cap receipts : Finalizable(x, r)}
         t == [task[x] EXCEPT !.rows = {}, !.pub = {}, !.mine = {}] IN
     /\ receipts' = receipts \ gone
     /\ held' = held \ gone
     /\ claim' = [r \in Versions |-> IF r \in gone THEN Nobody ELSE Freed(x)[r]]
     /\ task' = [task EXCEPT ![x] =
          IF x \in Janitors THEN NoTask
          ELSE IF task[x].rows = task[x].prev THEN Failing(x)
          ELSE [t EXCEPT !.pc = "scan", !.prev = task[x].rows]]
  /\ UNCHANGED <<mem, head, deletion, index, faults, stray>>

\* The janitor moves its cursor to the owner and takes one page
Sweep(x) ==
  /\ x \in Janitors /\ task[x].pc = "none" /\ MayRun
  /\ receipts \cap held = {}
  /\ \E r \in receipts : Claimable(r)
  /\ CleanTo(x, "none")
  /\ UNCHANGED <<mem, db, index, faults, stray>>

BackoffPasses ==
  /\ held # {} /\ held' = {}
  /\ UNCHANGED <<mem, head, deletion, receipts, claim, index, task, faults, stray>>

Expire ==
  /\ \E r \in Versions : claim[r] = Dead
  /\ claim' = [r \in Versions |-> IF claim[r] = Dead THEN Expired ELSE claim[r]]
  /\ UNCHANGED <<mem, head, deletion, receipts, held, index, task, faults, stray>>

-----------------------------------------------------------------------------
(* publishMemorySearchProjection *)

\* The whole head is read in one statement
Read(x) ==
  /\ task[x].pc = "read"
  /\ task' = [task EXCEPT ![x] = [@ EXCEPT
                !.rev = mem.rev, !.ver = mem.ver,
                !.pc = IF mem.active THEN "upsert" ELSE "invalidated"]]
  /\ UNCHANGED <<mem, db, index, faults, stray>>

\* The memory is invalidated: the projected head goes, unless it is of a later
\* version than was read
Invalidated(x) ==
  /\ task[x].pc = "invalidated"
  /\ \/ head = {} /\ Return(x, TRUE)
     \/ \E h \in head :
          IF h.ver > task[x].ver THEN Return(x, FALSE)
          ELSE task' = [task EXCEPT ![x] =
                          Draining([@ EXCEPT !.rev = h.rev, !.ver = h.ver], "deleteLook")]
  /\ UNCHANGED <<mem, db, index, faults, stray>>

\* Embedding and upsert, before and after the commit
Upsert(x) ==
  /\ \/ task[x].pc = "upsert" /\ To(x, "settle")
     \/ task[x].pc = "upsertAgain" /\ To(x, "confirm")
  /\ index' = index \cup {task[x].rev}
  /\ stray' = IF UnderCleanup(x) THEN stray \cup {task[x].rev} ELSE stray
  /\ UNCHANGED <<mem, db, faults>>

\* waitForVectorAvailability: nothing catches what it throws
Settle(x) ==
  /\ task[x].pc \in {"settle", "confirm"}
  /\ \/ /\ task[x].rev \in index
        /\ IF task[x].pc = "settle" THEN To(x, "recheck") ELSE CleanTo(x, "published")
        /\ UNCHANGED <<stray, faults>>
     \/ task[x].rev \notin index /\ Throw(x) /\ Abandon(x) /\ UNCHANGED faults
     \/ faults < MaxFaults /\ faults' = faults + 1 /\ Throw(x) /\ Abandon(x)
  /\ UNCHANGED <<mem, db, index>>

\* deleteUnpublishedCandidateVectors: receipts for what is not published, and a
\* cleanup; then the publisher answers FALSE or throws on
Unpublish(x, at) ==
  /\ receipts' = receipts \cup ({task[x].rev} \ Ledger)
  /\ CleanTo(x, at)

Recheck(x) ==
  /\ task[x].pc = "recheck"
  /\ IF mem.rev = task[x].rev
     THEN To(x, "commit") /\ UNCHANGED receipts
     ELSE Unpublish(x, "refused")
  /\ UNCHANGED <<mem, head, deletion, claim, held, index, faults, stray>>

\* A bug: a revision is published while its vectors are being deleted
WriteUnderCleanup(x) ==
  /\ task[x].rev \notin Deleting
  /\ \A h \in head : task[x].ver > h.ver \/ Row(x) = h

\* A bug: the last to commit wins
WriteWhenever(x) ==
  /\ task[x].rev \notin Deleting
  /\ task[x].rev \notin receipts

\* The write lease is granted: no deletion and no cleanup of the revision is
\* under way, and the head is not newer
MayWrite(x) ==
  /\ task[x].rev \notin Deleting
  /\ task[x].rev \notin receipts
  /\ \A h \in head : task[x].ver > h.ver \/ Row(x) = h

\* The batch: head, ledger and text rows, and a receipt for what was published
Commit(x) ==
  /\ head' = {Row(x)}
  /\ receipts' = receipts \cup Ledger

CommitProjection(x) ==
  /\ task[x].pc = "commit"
  /\ \/ MayWrite(x) /\ Commit(x) /\ To(x, "upsertAgain")
     \/ ~MayWrite(x) /\ To(x, "unpublish") /\ UNCHANGED <<head, receipts>>
  /\ UNCHANGED <<mem, deletion, claim, held, index, faults, stray>>

\* The batch fails, or its answer is lost
CommitFails(x) ==
  /\ task[x].pc = "commit"
  /\ faults < MaxFaults /\ faults' = faults + 1
  /\ \/ MayWrite(x) /\ Commit(x)
     \/ UNCHANGED <<head, receipts>>
  /\ To(x, "withdraw")
  /\ UNCHANGED <<mem, deletion, claim, held, index, stray>>

Withdraw(x) ==
  /\ \/ task[x].pc = "unpublish" /\ Unpublish(x, "refused")
     \/ task[x].pc = "withdraw" /\ Unpublish(x, "rethrow")
  /\ UNCHANGED <<mem, head, deletion, claim, held, index, faults, stray>>

-----------------------------------------------------------------------------
(* deleteMemorySearchProjection *)

DeleteLook(x) ==
  /\ task[x].pc = "deleteLook"
  /\ \/ deletion = {Row(x)} /\ To(x, "deleteVectors")
     \/ deletion \notin {{}, {Row(x)}} /\ Return(x, FALSE)
     \/ deletion = {} /\ head = {Row(x)} /\ To(x, "deleteClaim")
     \/ deletion = {} /\ head # {Row(x)} /\ Return(x, head = {})
  /\ UNCHANGED <<mem, db, index, faults, stray>>

\* The deletion receipt is made from the exact head, unless there is one
DeleteClaim(x) ==
  /\ task[x].pc = "deleteClaim"
  /\ deletion' = IF deletion = {} /\ head = {Row(x)} THEN {Row(x)} ELSE deletion
  /\ To(x, "deleteHold")
  /\ UNCHANGED <<mem, head, receipts, claim, held, index, faults, stray>>

DeleteHold(x) ==
  /\ task[x].pc = "deleteHold"
  /\ IF deletion = {Row(x)} THEN To(x, "deleteVectors") ELSE Return(x, FALSE)
  /\ UNCHANGED <<mem, db, index, faults, stray>>

DeleteVectors(x) ==
  /\ task[x].pc = "deleteVectors"
  /\ index' = index \ {task[x].rev}
  /\ To(x, "deleteVerify")
  /\ UNCHANGED <<mem, db, faults, stray>>

DeleteVerify(x) ==
  /\ task[x].pc = "deleteVerify"
  /\ \/ task[x].rev \notin index /\ To(x, "deleteHead") /\ UNCHANGED faults
     \/ task[x].rev \in index /\ Throw(x) /\ UNCHANGED faults
     \/ faults < MaxFaults /\ faults' = faults + 1 /\ Throw(x)
  /\ UNCHANGED <<mem, db, index, stray>>

\* Head, ledger and receipt go in one batch, which its assertion aborts when a
\* head of the revision is left
DeleteHead(x) ==
  /\ task[x].pc = "deleteHead"
  /\ LET exact == deletion = {Row(x)}
         left == IF exact THEN head \ {Row(x)} ELSE head IN
     IF \A h \in left : h.rev # task[x].rev
     THEN /\ head' = left
          /\ deletion' = IF exact THEN {} ELSE deletion
          /\ CleanTo(x, "deleted")
     ELSE Throw(x) /\ UNCHANGED <<head, deletion>>
  /\ UNCHANGED <<mem, receipts, claim, held, index, faults, stray>>

Deleted(x) ==
  /\ task[x].pc = "deleted"
  /\ Return(x, deletion = {} /\ head # {Row(x)})
  /\ UNCHANGED <<mem, db, index, faults, stray>>

-----------------------------------------------------------------------------

\* The isolate is gone or the step times out: claims stay behind
Die(x) ==
  /\ task[x].pc \notin {"none", "start", "complete", "failed"}
  /\ faults < MaxFaults /\ faults' = faults + 1
  /\ claim' = [r \in Versions |-> IF claim[r] = x THEN Dead ELSE claim[r]]
  /\ Throw(x) /\ Abandon(x)
  /\ UNCHANGED <<mem, head, deletion, receipts, held, index>>

Page(x) ==
  Scan(x) \/ Claim(x) \/ Check(x) \/ Delete(x) \/ Verify(x) \/ Finalize(x)

Publication(x) ==
  \/ Read(x) \/ Invalidated(x) \/ Upsert(x) \/ Settle(x) \/ Recheck(x)
  \/ CommitProjection(x) \/ CommitFails(x) \/ Withdraw(x)

Deletion(x) ==
  \/ DeleteLook(x) \/ DeleteClaim(x) \/ DeleteHold(x) \/ DeleteVectors(x)
  \/ DeleteVerify(x) \/ DeleteHead(x) \/ Deleted(x)

Step(x) == Start(x) \/ Page(x) \/ Publication(x) \/ Deletion(x) \/ Sweep(x)

Next ==
  \/ Mutate \/ MutateOther \/ BackoffPasses \/ Expire
  \/ \E x \in Tasks : RequestRebuild(x) \/ Step(x) \/ Die(x)

Spec == Init /\ [][Next]_vars

\* The engine resumes every execution, the schedule returns, and time passes
Fairness ==
  /\ \A x \in Tasks : WF_vars(Step(x))
  /\ WF_vars(BackoffPasses) /\ WF_vars(Expire)

FairSpec == Spec /\ Fairness

-----------------------------------------------------------------------------
(* Properties *)

\* Types, and: a claim is on a receipt, and its holder is draining receipts
TypeOK ==
  /\ mem \in [ver : Versions, rev : Versions, active : BOOLEAN] /\ mem.rev <= mem.ver
  /\ head \subseteq [rev : Versions, ver : Versions] /\ Cardinality(head) <= 1
  /\ deletion \subseteq [rev : Versions, ver : Versions] /\ Cardinality(deletion) <= 1
  /\ held \subseteq receipts /\ receipts \subseteq Versions
  /\ index \subseteq Versions /\ stray \subseteq Versions
  /\ faults \in 0 .. MaxFaults
  /\ \A x \in Tasks : task[x].mine \cup task[x].pub \subseteq task[x].rows
  /\ \A r \in Versions : claim[r] # Nobody => r \in receipts
  /\ \A x \in Tasks, r \in Versions : claim[r] = x => r \in task[x].mine

\* A Workflow whose publisher has answered TRUE leaves its revision readable for
\* as long as it is the current one: it is the projected head and its vectors
\* are in the index, whatever cleanup, deletion or retry was under way
\* (operations.md: no completion until every vector is readable)
CompletionIsReadable ==
  \A x \in Workflows \cup Rebuilds :
    task[x].pc = "complete" /\ task[x].got /\ mem.active /\ task[x].rev = mem.rev =>
      mem.rev \in Ledger \cap index

\* The promise of operations.md for every Workflow that is complete, those whose
\* publisher was refused included
CompletedIsProjected ==
  \A x \in Workflows :
    task[x].pc = "complete" /\ mem.active /\ task[x].rev = mem.rev =>
      mem.rev \in Ledger \cap index

\* The rows are well formed (TypeOK), and
\* every vector in the index is named by the ledger or a receipt, or a publisher
\* is about to see to it; vectors are forgotten only by a publisher that dies or
\* throws before its batch, or upserts again what has been retired meanwhile
VectorsAreAccounted ==
  /\ TypeOK
  /\ index \subseteq Ledger \cup receipts \cup stray
                     \cup {task[x].rev : x \in {y \in Tasks : Publishing(y)}}

\* A late publisher replaces no newer head, and no head at all disappears while
\* its revision is the current one
StaleNeverWins ==
  [][\A h \in head :
       IF head' = {} THEN ~(mem.active /\ mem.rev = h.rev)
       ELSE \A n \in head' : n.ver > h.ver \/ n = h]_vars

\* The receipts are eventually drained, claims of the dead and backoffs included
ReceiptsAreDrained == <>[](receipts = {})
=============================================================================
