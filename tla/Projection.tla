------------------------------ MODULE Projection ------------------------------
(****************************************************************************)
(* The projection snapshots of one project: publication by the Workflows of *)
(* memory changes and of rebuilds, and the operator's rebuild command       *)
(* (src/projection/cloudflare.ts, snapshot.ts, rebuild.ts; workers/         *)
(* memory-orchestrator; scripts/enqueue-projection-rebuild.mjs and          *)
(* projection-rebuild-support.mjs).                                         *)
(*                                                                          *)
(* A snapshot is a prefix of immutable objects named by a project version   *)
(* and a row that makes it the active one.  A publisher reads the version,  *)
(* then heads, revisions and evidence each in a statement of its own, then  *)
(* the version again; puts the objects one at a time; and moves the pointer *)
(* in one batch.  Any attempt may stop between two of these steps, or go on *)
(* after its engine has given it up.  Operators enqueue, resume and verify  *)
(* rebuilds with reads and writes that other operators interleave with.     *)
(* They decide on what D1 records of an execution, which is not what is     *)
(* true of it: a Workflow instance may fail, be recorded or not, and be     *)
(* followed by a repair instance of the same execution.                     *)
(*                                                                          *)
(* Abstractions: a revision is named by the project version that made it    *)
(* and cites one evidence; README, indexes and manifest are one object, the *)
(* files of a memory another.  The projection budget holds (FormalCommit),  *)
(* the search generation is fixed and search is Search's.  Of the outbox    *)
(* (OutboxRecovery) there is what this module needs: an event is delivered, *)
(* its row is marked dispatched before anything ends (a marker that comes   *)
(* late makes a command refuse), and an instance that failed may be         *)
(* repaired, whatever was recorded of it.  Reads of a version that a later  *)
(* read of it repeats before anything is done are left to that one.  The    *)
(* variants are bugs that no definition uses.                               *)
(****************************************************************************)
EXTENDS Integers, FiniteSets

CONSTANTS
  Memories,     \* memories of the project
  Operators,    \* who may run the rebuild command
  MaxVersion,   \* bound on the project version
  MaxOrdinal,   \* executionOrdinal at which resume is exhausted
  MaxRebuilds,  \* bound on rebuilds enqueued
  MaxAttempts,  \* attempts of a Workflow step
  MaxRepairs,   \* repair instances of an execution
  MaxRunning,   \* bound on attempts that overlap
  MaxFaults     \* bound on attempts and instances that die or are given up

Versions == 1 .. MaxVersion

ASSUME ProjectionAssumption ==
  /\ IsFiniteSet(Memories) /\ Memories # {}
  /\ MaxVersion \in Nat \ {0}
  /\ MaxOrdinal \in Nat
  /\ MaxRebuilds \in Nat
  /\ MaxAttempts \in Nat \ {0}
  /\ MaxRunning \in Nat \ {0}
  /\ MaxRepairs \in Nat
  /\ MaxFaults \in Nat

VARIABLES
  version,   \* projects.project_version
  heads,     \* the current revision of each memory at each version, or 0
  changes,   \* versions made by a memory change; the others are reviews
  objects,   \* R2: the files of the prefixes of all versions
  status,    \* projection_snapshots.status of each version
  pointer,   \* projects.active_snapshot_id, or 0
  flow,      \* executions: what their last Workflow instance really does
  recorded,  \* workflow_runs: the latest status of each rebuild, or failed_at
  att,       \* attempts that still run
  op,        \* rebuild commands in progress
  verified,  \* history: versions a verify command called complete
  faults     \* faults so far

authority == <<version, heads, changes>>
snapshots == <<objects, status, pointer>>
commands == <<op, verified>>
vars == <<authority, snapshots, flow, recorded, att, commands, faults>>

-----------------------------------------------------------------------------
(* Executions, attempts and commands *)

Change(v) == [kind |-> "change", version |-> v, ordinal |-> 0]
Rebuild(v, n) == [kind |-> "rebuild", version |-> v, ordinal |-> n]

Executions ==
  {Change(v) : v \in Versions}
    \cup {Rebuild(v, n) : v \in Versions, n \in 0 .. MaxOrdinal}

Rebuilds == {x \in Executions : x.kind = "rebuild"}

\* "done": the instance has published and is yet to record its completion.
FlowStates == {"none", "queued", "running", "retry", "done", "complete", "failed"}
Terminal == {"complete", "failed"}

Queued(x) == [flow EXCEPT ![x].state = "queued"]
Become(x, state, n) == [flow EXCEPT ![x] = [@ EXCEPT !.state = state, !.tries = n]]

\* What D1 says of x is read of rebuilds only.
Recording(x, state) ==
  IF x \in Rebuilds THEN [recorded EXCEPT ![x] = state] ELSE recorded

Queries == {"heads", "revisions", "evidence"}
NoRows == [m \in Memories |-> 0]
NoContent == [m \in Memories |-> <<0, 0>>]

\* Attempt n of instance r of execution x at a step at which it keeps nothing
\* it has read
At(x, r, n, pc) ==
  [exec |-> x, repair |-> r, try |-> n, pc |-> pc, content |-> NoContent, left |-> {}]

Replace(a, b) == att' = (att \ {a}) \cup {b}
Goto(a, pc) == Replace(a, [a EXCEPT !.pc = pc])

\* The engine still waits for attempt a.
Current(a) ==
  flow[a.exec] = [state |-> "running", tries |-> a.try, repair |-> a.repair]

\* The engine retries a step of which attempt n has thrown.
AfterThrow(x, n) ==
  IF n < MaxAttempts THEN Become(x, "retry", n) ELSE Become(x, "failed", 0)

\* The attempt throws: the engine retries the step, if it still waits for it.
Throw(a) ==
  /\ att' = att \ {a}
  /\ flow' = IF Current(a) THEN AfterThrow(a.exec, a.try) ELSE flow

Complete(a) ==
  /\ att' = att \ {a}
  /\ flow' = IF Current(a) THEN Become(a.exec, "done", 0) ELSE flow

Idle == [pc |-> "idle", version |-> 0, ordinal |-> 0]

\* The first commit of the project has just approved its first memory.
Init ==
  /\ version = 1
  /\ \E m \in Memories :
       heads = [v \in Versions |-> IF v = 1 THEN [NoRows EXCEPT ![m] = 1] ELSE NoRows]
  /\ changes = {1}
  /\ objects = {}
  /\ status = [v \in Versions |-> "none"]
  /\ pointer = 0
  /\ flow = [x \in Executions |->
       [state |-> IF x = Change(1) THEN "queued" ELSE "none", tries |-> 0, repair |-> 0]]
  /\ recorded = [x \in Rebuilds |-> "none"]
  /\ att = {}
  /\ op = [o \in Operators |-> Idle]
  /\ verified = {}
  /\ faults = 0

-----------------------------------------------------------------------------
(* The formal state: every commit makes a version *)

\* A memory is given a revision, or is invalidated; its event is delivered.
Mutate(m, revision) ==
  /\ version < MaxVersion
  /\ revision # heads[version][m]
  /\ version' = version + 1
  /\ heads' = [heads EXCEPT ![version + 1] = [heads[version] EXCEPT ![m] = revision]]
  /\ changes' = changes \cup {version + 1}
  /\ flow' = Queued(Change(version + 1))
  /\ UNCHANGED <<snapshots, recorded, att, commands, faults>>

\* A candidate is rejected or sent back: no memory changes, and the Workflow
\* of the event returns at once.
Review ==
  /\ version < MaxVersion
  /\ version' = version + 1
  /\ heads' = [heads EXCEPT ![version + 1] = heads[version]]
  /\ UNCHANGED <<changes, snapshots, flow, recorded, att, commands, faults>>

-----------------------------------------------------------------------------
(* Publication, one await at a time *)

\* The instance has recorded its start and the engine starts an attempt, which
\* reads the version the formal state is at: checkProjectionSnapshotCapacity or
\* requireSnapshotAuthority, and the read before the rows.  A change that is not
\* current publishes nothing; a rebuild throws.
Run(x) ==
  LET n == flow[x].tries + 1
      Start(pc) ==
        /\ att' = att \cup {At(x, flow[x].repair, n, pc)}
        /\ flow' = Become(x, "running", n) IN
  /\ flow[x].state \in {"queued", "retry"}
  /\ Cardinality(att) < MaxRunning
  /\ \/ version = x.version /\ Start("rows")
     \/ version # x.version /\ x.kind = "change" /\ Start("search")
     \/ /\ version # x.version /\ x.kind = "rebuild"
        /\ flow' = AfterThrow(x, n)
        /\ UNCHANGED att
  /\ recorded' = Recording(x, "running")
  /\ UNCHANGED <<authority, snapshots, commands, faults>>

Moved(a) == version # a.exec.version

\* What it finds stale later on it treats in the same way.
Stale(a) ==
  IF a.exec.kind = "change"
    THEN Goto(a, "search") /\ UNCHANGED flow
    ELSE Throw(a)

Step(a, pc) ==
  /\ a.pc = pc
  /\ UNCHANGED <<authority, recorded, commands, faults>>

\* Every evidence row is of a revision that was read, and every head is its
\* memory's one revision.
Consistent(rows) ==
  /\ rows["heads"] = rows["revisions"]
  /\ \A m \in Memories : rows["evidence"][m] \in {0, rows["revisions"][m]}

\* What a snapshot says of each memory: its revision and the evidence of it
Content(rows) ==
  [m \in Memories |-> <<rows["revisions"][m], rows["evidence"][m]>>]

\* A memory's file holds its part of the content; the manifest holds all.
Body(content, file) ==
  [m \in (IF file \in Memories THEN {file} ELSE Memories) |-> content[m]]

\* The files of a snapshot
Files(content) == {"manifest"} \cup {m \in Memories : content[m][1] # 0}

\* They are put in the order of their keys: README.md, the indexes and
\* manifest.json before the objects of the memories, by a hash of their names.
NextFiles(left) == IF "manifest" \in left THEN {"manifest"} ELSE left

\* Bug: nothing is read again after the rows.
NeverMoved(a) == FALSE

\* The version has not moved while the rows were read.
MovedMeanwhile(a) == Moved(a)

\* The three queries answer in any order, each with the rows of some version
\* between the one read before them and the one read after them.
ReadRows(a) ==
  /\ Step(a, "rows")
  /\ \E at \in [Queries -> a.exec.version .. version] :
       LET rows == [q \in Queries |-> heads[at[q]]]
           content == Content(rows) IN
       IF MovedMeanwhile(a)
         THEN Stale(a)
         ELSE IF Consistent(rows)
                THEN /\ Replace(a, [a EXCEPT !.pc = "put", !.content = content,
                                             !.left = Files(content)])
                     /\ UNCHANGED flow
                ELSE Throw(a)
  /\ UNCHANGED snapshots

\* The files stored under the prefix of version v
Stored(v) == {o.file : o \in {p \in objects : p.version = v}}

\* Bug: an object that exists is a collision, whatever it holds.
AnyObject(a, file) == file \in Stored(a.exec.version)

\* An object of that key exists and holds something else.
Collides(a, file) ==
  \E o \in objects :
    /\ o.version = a.exec.version
    /\ o.file = file
    /\ o.body # Body(a.content, file)

\* The next object is put if its key is free; one that holds the same bytes is
\* left in place.
Put(a) ==
  /\ Step(a, "put")
  /\ \E file \in NextFiles(a.left) :
       IF Collides(a, file)
         THEN Throw(a) /\ UNCHANGED objects
         ELSE /\ objects' = objects \cup
                   {[version |-> a.exec.version, file |-> file,
                     body |-> Body(a.content, file)]}
              /\ IF a.left = {file}
                   THEN Replace(a, At(a.exec, a.repair, a.try, "activate"))
                   ELSE Replace(a, [a EXCEPT !.left = @ \ {file}])
              /\ UNCHANGED flow
  /\ UNCHANGED <<status, pointer>>

\* Bug: the batch does not ask whether the version is still the project's.
AnyVersion(v) == TRUE

\* The guard of every statement of the activation batch
IsCurrent(v) == v = version

\* The activation batch: the row is made ready, the active one superseded, the
\* pointer moved and the row made active.
Activate(a) ==
  LET v == a.exec.version
      ready == IF status[v] \in {"none", "ready"} THEN "ready" ELSE status[v]
      activated == IsCurrent(v) /\ ready \in {"ready", "active"} IN
  /\ Step(a, "activate")
  /\ IF activated
       THEN /\ status' = [u \in Versions |->
                 CASE u = v -> "active"
                   [] u # v /\ status[u] = "active" -> "superseded"
                   [] OTHER -> status[u]]
            /\ pointer' = v
            /\ Goto(a, IF a.exec.kind = "change" THEN "search" ELSE "recheck")
            /\ UNCHANGED flow
       ELSE Stale(a) /\ UNCHANGED <<status, pointer>>
  /\ UNCHANGED objects

\* A rebuild reads the authority once more.
Recheck(a) ==
  /\ Step(a, "recheck")
  /\ IF Moved(a) THEN Throw(a) ELSE Complete(a)
  /\ UNCHANGED snapshots

\* A change goes on to the search projection, whatever became of the snapshot,
\* and its completion is recorded.
Return(a) ==
  /\ Step(a, "search")
  /\ Complete(a)
  /\ UNCHANGED snapshots

\* The isolate is reset, or a database, R2 or the model fails the attempt.
Die(a) ==
  /\ faults < MaxFaults
  /\ faults' = faults + 1
  /\ Throw(a)
  /\ UNCHANGED <<authority, snapshots, recorded, commands>>

\* The engine's timer fires: the attempt is given up, and runs on.
TimeOut(a) ==
  /\ Current(a)
  /\ faults < MaxFaults
  /\ faults' = faults + 1
  /\ flow' = AfterThrow(a.exec, a.try)
  /\ UNCHANGED <<authority, snapshots, recorded, att, commands>>

-----------------------------------------------------------------------------
(* The end of an instance, what is recorded of it, and its repair *)

InstanceStep == UNCHANGED <<authority, snapshots, att, commands>>

\* "record workflow completion"
Finish(x) ==
  /\ InstanceStep
  /\ flow[x].state = "done"
  /\ flow' = Become(x, "complete", 0)
  /\ recorded' = Recording(x, "complete")
  /\ UNCHANGED faults

\* An operator terminates the instance, or a step beside the publication uses up
\* its retries, perhaps after its effect: the completion may be recorded.
Err(x) ==
  /\ InstanceStep
  /\ flow[x].state \in {"queued", "retry", "running", "done"}
  /\ faults < MaxFaults
  /\ faults' = faults + 1
  /\ flow' = Become(x, "failed", 0)
  /\ \/ UNCHANGED recorded
     \/ flow[x].state = "done" /\ recorded' = Recording(x, "complete")

\* "record workflow failure", which leaves a recorded completion alone, or the
\* outbox gives the event up with failed_at.
RecordFailure(x) ==
  /\ InstanceStep
  /\ flow[x].state = "failed"
  /\ recorded[x] # "complete"
  /\ recorded' = [recorded EXCEPT ![x] = "failed"]
  /\ UNCHANGED <<flow, faults>>

\* A reconciliation, which may have read the row before the failure was
\* recorded, creates the next instance.  It has recorded nothing yet.
Repair(x) ==
  /\ InstanceStep
  /\ flow[x].state = "failed"
  /\ flow[x].repair < MaxRepairs
  /\ flow' = [flow EXCEPT ![x].state = "queued", ![x].repair = @ + 1]
  /\ UNCHANGED <<recorded, faults>>

-----------------------------------------------------------------------------
(* The rebuild command *)

Say(o, pc, v, n) == op' = [op EXCEPT ![o] = [pc |-> pc, version |-> v, ordinal |-> n]]
Quit(o) == op' = [op EXCEPT ![o] = Idle]

CommandStep(o, pc) ==
  /\ op[o].pc = pc
  /\ UNCHANGED <<authority, snapshots, recorded, att, faults>>

\* The ordinals of the rebuilds of version v that were ever enqueued
Ordinals(v) == {n \in 0 .. MaxOrdinal : flow[Rebuild(v, n)].state # "none"}
Latest(v) == {n \in Ordinals(v) : \A k \in Ordinals(v) : k <= n}
Enqueued == {x \in Rebuilds : flow[x].state # "none"}

\* enqueue: the targets, of the version it finds, at ordinal 0
PlanFirst(o) ==
  /\ CommandStep(o, "idle")
  /\ Say(o, "planned", version, 0)
  /\ UNCHANGED <<flow, verified>>

\* Bug: a rebuild is resumed unless it is recorded as running.
NotRunning(v, n) == recorded[Rebuild(v, n)] # "running"

\* The latest execution is recorded as ended, whatever its instances do.
Resumable(v, n) == recorded[Rebuild(v, n)] \in Terminal

\* resume: the ordinal after the latest execution in the history; it refuses
\* while that one is recorded as pending.
PlanResume(o) ==
  /\ CommandStep(o, "idle")
  /\ \E n \in Latest(version) :
       /\ Resumable(version, n)
       /\ n < MaxOrdinal
       /\ Say(o, "planned", version, n + 1)
  /\ UNCHANGED <<flow, verified>>

\* verify: the latest execution in the history is recorded as complete.
ReadOutcome(o) ==
  /\ CommandStep(o, "idle")
  /\ \E n \in Latest(version) :
       /\ recorded[Rebuild(version, n)] = "complete"
       /\ Say(o, "settled", version, n)
  /\ UNCHANGED <<flow, verified>>

\* The guarded insert of the outbox event; an event that exists is left alone.
\* What the command then reads it only reports.
Enqueue(o) ==
  LET x == Rebuild(op[o].version, op[o].ordinal) IN
  /\ CommandStep(o, "planned")
  /\ Cardinality(Enqueued) < MaxRebuilds \/ x \in Enqueued
  /\ flow' = IF op[o].version = version /\ flow[x].state = "none" THEN Queued(x) ELSE flow
  /\ Quit(o)
  /\ UNCHANGED verified

\* verify reads the active snapshot; otherwise it polls again or gives up.
Verify(o) ==
  LET v == op[o].version IN
  /\ CommandStep(o, "settled")
  /\ verified' = IF version = v /\ pointer = v /\ status[v] = "active"
                   THEN verified \cup {v} ELSE verified
  /\ Quit(o)
  /\ UNCHANGED flow

-----------------------------------------------------------------------------

\* A step of a Workflow: the engine starts an attempt, one goes on, or the
\* instance ends.
Engine ==
  \/ \E x \in Executions : Run(x) \/ Finish(x)
  \/ \E a \in att :
       \/ ReadRows(a) \/ Put(a)
       \/ Activate(a) \/ Recheck(a) \/ Return(a)

Command(o) ==
  \/ PlanFirst(o) \/ PlanResume(o) \/ ReadOutcome(o) \/ Enqueue(o) \/ Verify(o)

Next ==
  \/ \E m \in Memories : Mutate(m, version + 1) \/ Mutate(m, 0)
  \/ Review
  \/ Engine
  \/ \E a \in att : Die(a) \/ TimeOut(a)
  \/ \E x \in Executions : Err(x) \/ Repair(x)
  \/ \E x \in Rebuilds : RecordFailure(x)
  \/ \E o \in Operators : Command(o)

Spec == Init /\ [][Next]_vars

\* The engine runs every execution it was given, and an attempt goes on until
\* it ends, dies or its isolate does: there are finitely many, so that it is
\* enough that they go on together.  The Cron trigger repairs changes
\* (OutboxRecovery); a rebuild whose failure is recorded it settles.  Nobody has
\* to commit or run a command.
FairSpec ==
  /\ Spec
  /\ WF_vars(Engine)
  /\ WF_vars(\E v \in Versions : Repair(Change(v)))

-----------------------------------------------------------------------------

TypeOK ==
  /\ version \in Versions
  /\ heads \in [Versions -> [Memories -> 0 .. MaxVersion]]
  /\ changes \subseteq 1 .. version
  /\ status \in [Versions -> {"none", "active", "superseded"}]
  /\ pointer \in 0 .. version
  /\ \A x \in Executions :
       /\ flow[x].state \in FlowStates
       /\ flow[x].tries \in 0 .. MaxAttempts
       /\ flow[x].repair \in 0 .. MaxRepairs
  /\ \A x \in Rebuilds : recorded[x] \in {"none", "running"} \cup Terminal
  /\ \A a \in att : a.exec \in Executions /\ a.try \in 1 .. MaxAttempts
  /\ faults \in 0 .. MaxFaults

\* What the formal state says a snapshot of version v is
Truth(v) == [m \in Memories |-> <<heads[v][m], heads[v][m]>>]

\* Every object of the prefix of version v is there.
Whole(v) == Files(Truth(v)) \subseteq Stored(v)

\* A reader who follows the pointer finds one active snapshot whose objects are
\* all there, and no object, of an active snapshot or of one in the making, says
\* anything but what the formal state was at the version of its prefix.
ActiveIsWhole ==
  /\ TypeOK
  /\ {v \in Versions : status[v] = "active"} = {pointer} \ {0}
  /\ pointer # 0 => Whole(pointer)
  /\ \A o \in objects : o.version <= version /\ o.body = Body(Truth(o.version), o.file)

\* The execution has ended at least once: it is over, or a repair of it runs.
EndedOnce(x) == flow[x].state \in Terminal \/ flow[x].repair > 0

\* Rebuilds of a version may overlap, since what is recorded as failed may be
\* repaired after the next one was resumed (ResumeIsSafe of OutboxRecovery).  Yet
\* however many operators enqueue and resume at once, and however late, it is
\* only by repairs: the first instance of every rebuild before the latest ended.
OnlyRepairsOverlap ==
  \A v \in Versions : \A n \in Ordinals(v) :
    \A earlier \in 0 .. n - 1 : EndedOnce(Rebuild(v, earlier))

\* What an operator has verified stays projected: its snapshot is whole, and it
\* is given up only for that of a later version.
VerifiedIsProjected ==
  \A v \in verified :
    /\ pointer >= v
    /\ status[v] \in {"active", "superseded"}
    /\ Whole(v)

\* When the last commit is a memory change, its snapshot becomes the active one
\* and stays so, whatever publishers of earlier versions still do, if its Workflow
\* loses fewer attempts than a step has and no more instances than it has
\* repairs.  Nothing is promised after a review: a change whose Workflow runs
\* after it is not current and stays out of the projection until the next change
\* or a rebuild.
LastChangeIsProjected == <>[](version \in changes => pointer = version)
=============================================================================
