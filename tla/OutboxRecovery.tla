--------------------------- MODULE OutboxRecovery ---------------------------
(***************************************************************************)
(* How an outbox event reaches its Workflow and is settled: the scheduled  *)
(* handler (dispatch and both reconciliations), the queue consumer, the    *)
(* coordinator's ensureProjectionWorkflow and MemoryWorkflow.run of        *)
(* workers/memory-orchestrator, with src/workflows/recovery.ts.            *)
(*                                                                         *)
(* The D1 row of an event, the Queue, the Workflow control plane and       *)
(* workflow_runs fail independently.  A job is the handling of one row or  *)
(* message by one invocation; one action is the code between two awaits.   *)
(* Cron invocations may overlap: one is started every minute and may run   *)
(* for many.                                                               *)
(*                                                                         *)
(* Abstractions: one project; valid payloads; instance 0 of an event is    *)
(* its base Workflow and instance i its repair-i; "errored" is errored or  *)
(* terminated; next_attempt_at is whether it has passed; the row limit and *)
(* the start throttle only delay; a reconciliation statement that D1 fails *)
(* ends the job.  Variants are bugs no definition uses.                    *)
(***************************************************************************)
EXTENDS Integers, FiniteSets

CONSTANTS
  Events,        \* rows of outbox_events
  Kinds,         \* the kinds of event, see EventKinds
  Crons,         \* scheduled invocations that may overlap
  Consumers,     \* queue consumers, and requests of the coordinator
  Idle,          \* the job of an invocation without one
  MaxAttempts,   \* dispatch attempts (10)
  MaxRepairs,    \* repair instances after the base one (3)
  AlertAt,       \* consecutive unknown statuses that raise the alert (12)
  MaxMessages,   \* bound on the messages of an event in the Queue
  Synthetic      \* the project is a synthetic one, which is fenced one day

\* candidate.submitted and the like go through the Queue, memory.changed and
\* projection.rebuild.requested straight to the Workflow.
EventKinds == {"queued", "memory", "rebuild"}

ASSUME ConstantsAssumption ==
  /\ Kinds \subseteq EventKinds
  /\ MaxAttempts \in Nat \ {0}
  /\ MaxRepairs \in Nat
  /\ AlertAt \in Nat \ {0}
  /\ MaxMessages \in Nat
  /\ Synthetic \in BOOLEAN

VARIABLES
  kind,      \* event_type, constant
  row,       \* outbox_events
  inst,      \* the control plane: the instances of each event
  run,       \* workflow_runs.status of each instance
  latest,    \* the instance of the most recently updated workflow_runs row
  queue,     \* messages of the event in the Queue
  fenced,    \* the project stopped admitting work
  job        \* what each invocation is doing

vars == <<kind, row, inst, run, latest, queue, fenced, job>>

Workers == Crons \cup Consumers
Ids == 0..MaxRepairs
NoRun == -1

Live == {"queued", "running", "recorded", "failing", "failed"}

\* last_error_code: the ones that leave a dispatched row to the reconciler
OpenCodes == {"none", "pending", "unknown"}
SettledCodes ==
  {"complete", "workflow_failed", "fenced", "exhausted", "unavailable"}
Codes == OpenCodes \cup SettledCodes \cup {"retry_pending", "dispatch_failed"}

NewRow ==
  [dispatched |-> FALSE, failed |-> FALSE, attempt |-> 0, due |-> TRUE,
   code |-> "none", unknown |-> 0]

Init ==
  /\ kind \in [Events -> Kinds]
  /\ row = [e \in Events |-> NewRow]
  /\ inst = [e \in Events |-> [i \in Ids |-> "none"]]
  /\ run = [e \in Events |-> [i \in Ids |-> "none"]]
  /\ latest = [e \in Events |-> NoRun]
  /\ queue = [e \in Events |-> 0]
  /\ fenced = FALSE
  /\ job = [w \in Workers |-> Idle]

-----------------------------------------------------------------------------
(* Jobs *)

\* attempt is the one the dispatch read; fresh says that the row still has the
\* next_attempt_at, last_error_code and unknown count the reconciliation read.
Begin(w, task, e, pc, result) ==
  job' = [job EXCEPT ![w] =
    [task |-> task, event |-> e, pc |-> pc, result |-> result, id |-> 0,
     attempt |-> row[e].attempt, fresh |-> TRUE]]

At(w, pc) == job[w] # Idle /\ job[w].pc = pc
Goto(w, pc) == job' = [job EXCEPT ![w].pc = pc]
End(w) == job' = [job EXCEPT ![w] = Idle]

AllErrored(e) == \A i \in Ids : inst[e][i] = "errored"

\* The last of the dispatch attempts has failed
LastAttempt(w) == job[w].attempt + 1 >= MaxAttempts

\* What follows the Workflow call of a job.  A rebuild is given up only after
\* every instance has been looked at once more.
Conclude(w, result) ==
  LET j == job[w]
      rebuild == kind[j.event] = "rebuild" IN
  CASE j.task \in {"deliver", "ensure"} -> End(w)
    [] /\ rebuild
       /\ \/ j.task = "dispatch" /\ result # "ok" /\ LastAttempt(w)
          \/ j.task = "reconcile" /\ result \in {"error", "exhausted"} ->
         Goto(w, "verify")
    [] OTHER ->
         job' = [job EXCEPT ![w].pc = "write",
           ![w].result = IF j.task = "dispatch" /\ result # "ok" THEN "error"
                                                                 ELSE result]

\* The Workflow is there, created or reused.
Ensured(w) ==
  LET e == job[w].event IN
  /\ queue' = IF job[w].task = "deliver" /\ queue[e] > 0
                THEN [queue EXCEPT ![e] = @ - 1] ELSE queue
  /\ IF job[w].task = "reconcile" THEN Goto(w, "observe") ELSE Conclude(w, "ok")

-----------------------------------------------------------------------------
(* Selecting work *)

\* Rows the dispatcher reads
SelectDispatch(w, e) ==
  /\ w \in Crons /\ job[w] = Idle
  /\ ~row[e].dispatched /\ ~row[e].failed /\ row[e].due
  /\ Begin(w, "dispatch", e, "admit", "none")
  /\ UNCHANGED <<kind, row, inst, run, latest, queue, fenced>>

\* The D1 status of the Workflow as the reconciliation query joins it
LatestStatus(e) == IF latest[e] = NoRun THEN "none" ELSE run[e][latest[e]]

\* Variants: a row whose event never had a Workflow run is not read; the code
\* of the row is not compared.
WithRun(e) ==
  /\ row[e].dispatched /\ ~row[e].failed /\ latest[e] # NoRun
  /\ row[e].code \in OpenCodes
AnyCode(e) == row[e].dispatched /\ ~row[e].failed
Reconcilable(e) ==
  /\ row[e].dispatched /\ ~row[e].failed
  /\ row[e].code \in OpenCodes

\* Rows the reconcilers read; a recorded completion (of a rebuild, a recorded
\* failure too) settles the row without asking the control plane.
SelectReconcile(w, e) ==
  /\ w \in Crons /\ job[w] = Idle
  /\ Reconcilable(e) /\ row[e].due
  /\ CASE LatestStatus(e) = "complete" -> Begin(w, "reconcile", e, "write", "complete")
       [] kind[e] = "rebuild" /\ LatestStatus(e) = "failed" ->
            Begin(w, "reconcile", e, "write", "workflow_failed")
       [] OTHER -> Begin(w, "reconcile", e, "admit", "none")
  /\ UNCHANGED <<kind, row, inst, run, latest, queue, fenced>>

\* A message is delivered, perhaps again.
Deliver(w, e) ==
  /\ w \in Consumers /\ job[w] = Idle
  /\ queue[e] > 0
  /\ Begin(w, "deliver", e, "admit", "none")
  /\ UNCHANGED <<kind, row, inst, run, latest, queue, fenced>>

\* A promotion or a replayed mutation ensures its projection Workflow itself.
Ensure(w, e) ==
  /\ w \in Consumers /\ job[w] = Idle
  /\ kind[e] = "memory"
  /\ Begin(w, "ensure", e, "admit", "none")
  /\ UNCHANGED <<kind, row, inst, run, latest, queue, fenced>>

-----------------------------------------------------------------------------
(* isProjectWorkAdmitted, and the send to the Queue *)

Admit(w) ==
  LET j == job[w]
      rebuild == kind[j.event] = "rebuild" IN
  /\ At(w, "admit")
  /\ IF ~fenced
       THEN /\ UNCHANGED queue
            /\ Goto(w, IF j.task # "dispatch" THEN "create"
                       ELSE IF kind[j.event] = "queued" THEN "send" ELSE "readmit")
       ELSE CASE j.task = "ensure" -> End(w) /\ UNCHANGED queue
              [] j.task = "deliver" -> Ensured(w)
              [] j.task = "reconcile" /\ rebuild -> Conclude(w, "unavailable") /\ UNCHANGED queue
              [] OTHER ->
                   /\ job' = [job EXCEPT ![w].pc = "write", ![w].result = "fenced"]
                   /\ UNCHANGED queue
  /\ UNCHANGED <<kind, row, inst, run, latest, fenced>>

\* ensureProjectionWorkflow asks again: a fenced rebuild throws, a fenced
\* memory change returns without a Workflow.
Readmit(w) ==
  /\ At(w, "readmit")
  /\ IF ~fenced THEN Goto(w, "create")
     ELSE Conclude(w, IF kind[job[w].event] = "rebuild" THEN "error" ELSE "ok")
  /\ UNCHANGED <<kind, row, inst, run, latest, queue, fenced>>

\* A D1 read fails before the Workflow call.
ReadFails(w) ==
  /\ At(w, "admit") \/ At(w, "readmit")
  /\ Conclude(w, "error")
  /\ UNCHANGED <<kind, row, inst, run, latest, queue, fenced>>

Send(w) ==
  /\ At(w, "send")
  /\ queue[job[w].event] < MaxMessages
  /\ queue' = [queue EXCEPT ![job[w].event] = @ + 1]
  /\ Conclude(w, "ok")
  /\ UNCHANGED <<kind, row, inst, run, latest, fenced>>

\* The send may fail, before or after the message is in the Queue.
SendFails(w) ==
  /\ At(w, "send")
  /\ \/ /\ queue[job[w].event] < MaxMessages
        /\ queue' = [queue EXCEPT ![job[w].event] = @ + 1]
     \/ UNCHANGED queue
  /\ Conclude(w, "error")
  /\ UNCHANGED <<kind, row, inst, run, latest, fenced>>

-----------------------------------------------------------------------------
(* ensureWorkflowWithRepair *)

\* create() succeeds once per instance id; its reply may be lost.
Create(w) ==
  LET e == job[w].event
      i == job[w].id IN
  /\ At(w, "create")
  /\ inst[e][i] = "none"
  /\ inst' = [inst EXCEPT ![e][i] = "queued"]
  /\ \/ Ensured(w)
     \/ Goto(w, "inspect") /\ UNCHANGED queue
  /\ UNCHANGED <<kind, row, run, latest, fenced>>

\* create() is refused: the id exists, or the control plane is unavailable.
CreateRefused(w) ==
  /\ At(w, "create")
  /\ Goto(w, "inspect")
  /\ UNCHANGED <<kind, row, inst, run, latest, queue, fenced>>

\* Variant: whatever does not run any more is repaired.
NotRunning(e, i) == inst[e][i] \notin Live
TerminalFailure(e, i) == inst[e][i] = "errored"

\* Variant: one repair too many.
OneMoreRepair(i) == i <= MaxRepairs
RepairsLeft(i) == i < MaxRepairs

\* The status decides: reuse the instance, or go on to the next repair id.
Inspect(w) ==
  LET e == job[w].event
      i == job[w].id IN
  /\ At(w, "inspect")
  /\ inst[e][i] # "none"
  /\ IF ~TerminalFailure(e, i)
       THEN Ensured(w)
       ELSE /\ UNCHANGED queue
            /\ IF RepairsLeft(i)
                 THEN job' = [job EXCEPT ![w].pc = "create", ![w].id = i + 1]
                 ELSE Conclude(w, "exhausted")
  /\ UNCHANGED <<kind, row, inst, run, latest, fenced>>

\* The status cannot be read, or is none of the known ones.
InspectUnknown(w) ==
  /\ At(w, "inspect")
  /\ Conclude(w, "unknown")
  /\ UNCHANGED <<kind, row, inst, run, latest, queue, fenced>>

-----------------------------------------------------------------------------
(* Reconciliation: the second look at the ensured instance *)

Observe(w) ==
  LET e == job[w].event
      i == job[w].id IN
  /\ At(w, "observe")
  /\ CASE inst[e][i] = "complete" -> Goto(w, "record")
       [] inst[e][i] = "errored" /\ kind[e] = "rebuild" -> Goto(w, "verify")
       [] OTHER -> Conclude(w, "active")
  /\ UNCHANGED <<kind, row, inst, run, latest, queue, fenced>>

ObserveUnknown(w) ==
  /\ At(w, "observe")
  /\ Conclude(w, "unknown")
  /\ UNCHANGED <<kind, row, inst, run, latest, queue, fenced>>

\* recordReconciled...Completion: the missing run record of a complete
\* instance, dated by the start of the invocation.
RecordCompletion(w) ==
  LET e == job[w].event
      i == job[w].id IN
  /\ At(w, "record")
  /\ IF run[e][i] = "failed"
       THEN Conclude(w, "error") /\ UNCHANGED <<run, latest>>
       ELSE /\ run' = [run EXCEPT ![e][i] = "complete"]
            /\ \/ latest' = [latest EXCEPT ![e] = i]
               \/ latest[e] # NoRun /\ UNCHANGED latest
            /\ Conclude(w, "complete")
  /\ UNCHANGED <<kind, row, inst, queue, fenced>>

\* projectionWorkflowRepairsExhausted.  Variant: a status that cannot be read
\* counts as a failure.
AnyStatus(e) == TRUE
Exhausted(e) == AllErrored(e)

Verify(w) ==
  /\ At(w, "verify")
  /\ Exhausted(job[w].event)
  /\ job' = [job EXCEPT ![w].pc = "write",
       ![w].result = IF job[w].task = "dispatch" THEN "give_up" ELSE "exhausted"]
  /\ UNCHANGED <<kind, row, inst, run, latest, queue, fenced>>

VerifyFails(w) ==
  /\ At(w, "verify")
  /\ job' = [job EXCEPT ![w].pc = "write",
       ![w].result = IF job[w].task = "dispatch" THEN "recover" ELSE "uncertain"]
  /\ UNCHANGED <<kind, row, inst, run, latest, queue, fenced>>

-----------------------------------------------------------------------------
(* The guarded UPDATE that ends a job *)

\* The row is written and what other jobs read of it is stale, or nothing is.
Write(w, guard, new) ==
  LET e == job[w].event IN
  /\ IF guard
       THEN /\ row' = [row EXCEPT ![e] = new]
            /\ job' = [v \in Workers |->
                 IF v = w THEN Idle
                 ELSE IF job[v] # Idle /\ job[v].event = e
                        THEN [job[v] EXCEPT !.fresh = FALSE] ELSE job[v]]
       ELSE End(w) /\ UNCHANGED row
  /\ UNCHANGED <<kind, inst, run, latest, queue, fenced>>

\* The compare-and-set of the attempt the dispatcher read
SameAttempt(w) ==
  LET r == row[job[w].event] IN
  r.attempt = job[w].attempt /\ ~r.dispatched /\ ~r.failed

WriteDispatch(w) ==
  LET j == job[w]
      r == row[j.event]
      next == j.attempt + 1 IN
  /\ At(w, "write") /\ j.task = "dispatch"
  /\ CASE j.result = "ok" ->
            Write(w, ~r.dispatched,
              [r EXCEPT !.dispatched = TRUE, !.due = TRUE, !.attempt = @ + 1, !.code = "none"])
       [] j.result = "fenced" /\ kind[j.event] = "rebuild" ->
            Write(w, SameAttempt(w),
              [r EXCEPT !.failed = TRUE, !.due = TRUE, !.attempt = @ + 1, !.code = "unavailable"])
       [] j.result = "fenced" /\ kind[j.event] # "rebuild" ->
            Write(w, ~r.dispatched,
              [r EXCEPT !.dispatched = TRUE, !.due = TRUE, !.attempt = @ + 1, !.code = "fenced"])
       [] j.result = "error" /\ ~LastAttempt(w) ->
            Write(w, ~r.dispatched,
              [r EXCEPT !.attempt = next, !.due = FALSE, !.code = "retry_pending"])
       [] j.result = "recover" ->
            Write(w, SameAttempt(w),
              [r EXCEPT !.dispatched = TRUE, !.due = TRUE, !.attempt = next, !.code = "none"])
       [] OTHER ->
            Write(w, SameAttempt(w),
              [r EXCEPT !.failed = TRUE, !.attempt = next, !.code = "dispatch_failed"])

\* The UPDATE that marks the row dispatched fails: the attempt is retried.
MarkerFails(w) ==
  /\ At(w, "write") /\ job[w].task = "dispatch" /\ job[w].result \in {"ok", "fenced"}
  /\ Conclude(w, "error")
  /\ UNCHANGED <<kind, row, inst, run, latest, queue, fenced>>

FreshRead(w) == job[w].fresh

Alerts(r) == r.unknown + 1 >= AlertAt \/ r.code = "unknown"

WriteReconcileOrdinary(w) ==
  LET j == job[w]
      r == row[j.event] IN
  /\ At(w, "write") /\ j.task = "reconcile" /\ kind[j.event] # "rebuild"
  /\ Write(w, Reconcilable(j.event) /\ FreshRead(w),
       CASE j.result \in {"complete", "fenced"} -> [r EXCEPT !.due = TRUE, !.code = j.result]
         [] j.result = "exhausted" ->
              [r EXCEPT !.failed = TRUE, !.due = TRUE, !.code = "exhausted"]
         [] j.result = "unknown" -> [r EXCEPT !.due = FALSE, !.code = "unknown"]
         [] OTHER -> [r EXCEPT !.due = FALSE, !.code = "pending"])

\* Only the observations of a rebuild compare what was read; its terminal
\* UPDATEs and the uncertain deferral do not.
WriteReconcileRebuild(w) ==
  LET j == job[w]
      r == row[j.event] IN
  /\ At(w, "write") /\ j.task = "reconcile" /\ kind[j.event] = "rebuild"
  /\ Write(w, Reconcilable(j.event) /\ (j.result \in {"unknown", "active"} => FreshRead(w)),
       CASE j.result \in {"complete", "workflow_failed"} ->
              [r EXCEPT !.due = TRUE, !.code = j.result]
         [] j.result \in {"exhausted", "unavailable"} ->
              [r EXCEPT !.failed = TRUE, !.due = TRUE, !.code = j.result]
         [] j.result = "unknown" ->
              [r EXCEPT !.due = FALSE,
                        !.unknown = IF r.unknown < AlertAt THEN r.unknown + 1 ELSE r.unknown,
                        !.code = IF Alerts(r) THEN "unknown" ELSE "none"]
         [] j.result = "active" -> [r EXCEPT !.due = FALSE, !.unknown = 0, !.code = "none"]
         [] OTHER -> [r EXCEPT !.due = FALSE])

-----------------------------------------------------------------------------
(* MemoryWorkflow.run *)

SetInst(e, i, status) == inst' = [inst EXCEPT ![e][i] = status]
SetRun(e, i, status) ==
  /\ run' = [run EXCEPT ![e][i] = status]
  /\ latest' = [latest EXCEPT ![e] = i]

\* "check workflow admission" and "record workflow start"
RunStarts(e, i) ==
  /\ inst[e][i] = "queued"
  /\ IF ~fenced
       THEN SetInst(e, i, "running") /\ SetRun(e, i, "running")
       ELSE /\ SetInst(e, i, IF kind[e] = "rebuild" THEN "failing" ELSE "complete")
            /\ UNCHANGED <<run, latest>>
  /\ UNCHANGED <<kind, row, queue, fenced, job>>

\* The work is done and "record workflow completion" is written
RunRecordsCompletion(e, i) ==
  /\ inst[e][i] = "running"
  /\ SetInst(e, i, "recorded") /\ SetRun(e, i, "complete")
  /\ UNCHANGED <<kind, row, queue, fenced, job>>

RunFinishes(e, i) ==
  /\ inst[e][i] = "recorded"
  /\ SetInst(e, i, "complete")
  /\ UNCHANGED <<kind, row, run, latest, queue, fenced, job>>

\* A step exhausts its retries, perhaps after its effect.
RunThrows(e, i) ==
  /\ inst[e][i] \in {"queued", "running", "recorded"}
  /\ SetInst(e, i, "failing")
  /\ UNCHANGED <<kind, row, run, latest, queue, fenced, job>>

\* "record workflow failure" leaves a recorded completion alone.
RunRecordsFailure(e, i) ==
  /\ inst[e][i] = "failing"
  /\ SetInst(e, i, "failed")
  /\ IF run[e][i] = "complete" THEN UNCHANGED <<run, latest>> ELSE SetRun(e, i, "failed")
  /\ UNCHANGED <<kind, row, queue, fenced, job>>

\* The instance ends as errored, after its failure was recorded or without.
RunErrs(e, i) ==
  /\ inst[e][i] \in {"failing", "failed"}
  /\ SetInst(e, i, "errored")
  /\ UNCHANGED <<kind, row, run, latest, queue, fenced, job>>

\* An operator terminates the instance.
RunTerminated(e, i) ==
  /\ inst[e][i] \in Live
  /\ SetInst(e, i, "errored")
  /\ UNCHANGED <<kind, row, run, latest, queue, fenced, job>>

-----------------------------------------------------------------------------
(* The rest of the world *)

\* An invocation is cut off: at a restart, or by an error of its last UPDATE.
Crash(w) ==
  /\ job[w] # Idle
  /\ End(w)
  /\ UNCHANGED <<kind, row, inst, run, latest, queue, fenced>>

\* The retries of a message are used up: it goes to the dead-letter queue.
DeadLetter(e) ==
  /\ queue[e] > 0
  /\ \A w \in Workers : job[w] # Idle => job[w].task # "deliver"
  /\ queue' = [queue EXCEPT ![e] = @ - 1]
  /\ UNCHANGED <<kind, row, inst, run, latest, fenced, job>>

\* next_attempt_at passes.
TimePasses(e) ==
  /\ ~row[e].due
  /\ row' = [row EXCEPT ![e].due = TRUE]
  /\ UNCHANGED <<kind, inst, run, latest, queue, fenced, job>>

Fence ==
  /\ Synthetic /\ ~fenced
  /\ fenced' = TRUE
  /\ UNCHANGED <<kind, row, inst, run, latest, queue, job>>

Step(w) ==
  \/ Admit(w) \/ Readmit(w) \/ ReadFails(w) \/ Send(w) \/ SendFails(w)
  \/ Create(w) \/ CreateRefused(w) \/ Inspect(w) \/ InspectUnknown(w)
  \/ Observe(w) \/ ObserveUnknown(w) \/ RecordCompletion(w)
  \/ Verify(w) \/ VerifyFails(w)
  \/ WriteDispatch(w) \/ MarkerFails(w)
  \/ WriteReconcileOrdinary(w) \/ WriteReconcileRebuild(w)
  \/ Crash(w)

Select(w, e) ==
  SelectDispatch(w, e) \/ SelectReconcile(w, e) \/ Deliver(w, e) \/ Ensure(w, e)

Run(e, i) ==
  \/ RunStarts(e, i) \/ RunRecordsCompletion(e, i) \/ RunFinishes(e, i)
  \/ RunThrows(e, i) \/ RunRecordsFailure(e, i) \/ RunErrs(e, i)
  \/ RunTerminated(e, i)

Next ==
  \/ \E w \in Workers : Step(w) \/ \E e \in Events : Select(w, e)
  \/ \E e \in Events : DeadLetter(e) \/ TimePasses(e) \/ \E i \in Ids : Run(e, i)
  \/ Fence

Spec == Init /\ [][Next]_vars

-----------------------------------------------------------------------------
(* Fairness: the Cron trigger keeps starting invocations, which read the oldest *)
(* due rows first and go on until they end or are cut off; a Workflow instance  *)
(* goes on until it completes or errs.                                          *)

Fairness ==
  /\ \A e \in Events :
       /\ WF_vars(TimePasses(e))
       /\ SF_vars(\E w \in Crons : SelectDispatch(w, e))
       /\ SF_vars(\E w \in Crons : SelectReconcile(w, e))
       /\ \A i \in Ids :
            WF_vars(\/ RunStarts(e, i) \/ RunRecordsCompletion(e, i)
                    \/ RunFinishes(e, i) \/ RunRecordsFailure(e, i) \/ RunErrs(e, i))
  /\ \A w \in Crons : WF_vars(Step(w))

FairSpec == Spec /\ Fairness

-----------------------------------------------------------------------------
(* Properties *)

Row ==
  [dispatched : BOOLEAN, failed : BOOLEAN, attempt : Nat, due : BOOLEAN,
   code : Codes, unknown : 0..AlertAt]
Job ==
  [task : {"dispatch", "reconcile", "deliver", "ensure"}, event : Events,
   pc : {"admit", "readmit", "send", "create", "inspect", "observe", "record",
         "verify", "write"},
   result : {"none", "ok", "error", "unknown", "active", "uncertain", "recover",
             "give_up"} \cup SettledCodes,
   id : Ids, attempt : Nat, fresh : BOOLEAN]

\* Every variable holds values of the columns and states it stands for.
TypeOK ==
  /\ kind \in [Events -> Kinds]
  /\ row \in [Events -> Row]
  /\ inst \in [Events -> [Ids -> Live \cup {"none", "complete", "errored"}]]
  /\ run \in [Events -> [Ids -> {"none", "running", "complete", "failed"}]]
  /\ latest \in [Events -> Ids \cup {NoRun}]
  /\ queue \in [Events -> 0..MaxMessages]
  /\ fenced \in BOOLEAN
  /\ job \in [Workers -> Job \cup {Idle}]

Settled(e) == row[e].failed \/ row[e].code \in SettledCodes

\* A repair instance exists only when every earlier instance of the event has
\* explicitly failed: duplicated deliveries, lost replies, unreadable statuses
\* and overlapping invocations never run two instances of one event.
SingleExecution ==
  \A e \in Events : \A i, j \in Ids :
    i < j /\ inst[e][j] # "none" => inst[e][i] = "errored"

\* What a settled row says is true: a completion was recorded by an instance
\* that did its work, exhausted means that every identity failed, a rebuild is
\* given up undispatched only then, and a fence has fallen.
SettledTruthfully ==
  \A e \in Events :
    LET code == row[e].code IN
    /\ code = "complete" => \E i \in Ids : run[e][i] = "complete"
    /\ code = "workflow_failed" => \E i \in Ids : run[e][i] = "failed"
    /\ code = "exhausted" => AllErrored(e)
    /\ code = "dispatch_failed" /\ kind[e] = "rebuild" => AllErrored(e)
    /\ code \in {"fenced", "unavailable"} => fenced
    /\ \A i \in Ids :
         run[e][i] = "complete" => inst[e][i] \notin {"none", "queued", "running"}

\* A dispatched row that was settled is never written again, by whatever
\* invocation read it before.
SettledIsFinal ==
  [][\A e \in Events :
       row[e].dispatched /\ Settled(e) => row'[e] = row[e]]_vars

\* What a healthy environment does not do
Fault(w) ==
  \/ Crash(w) \/ ReadFails(w) \/ SendFails(w) \/ MarkerFails(w) \/ ObserveUnknown(w)
  \/ CreateRefused(w) /\ inst[job[w].event][job[w].id] = "none"
  \/ InspectUnknown(w) /\ inst[job[w].event][job[w].id] # "none"
  \/ VerifyFails(w) /\ AllErrored(job[w].event)

\* Once the faults stop, every event is dispatched and settled, though its
\* message may have been dead-lettered, its Workflow have died without a record
\* or its creation be in doubt: D1 alone drives the recovery.
SettledOnceFaultsStop ==
  <>[][\A w \in Crons : ~Fault(w)]_vars => \A e \in Events : <>Settled(e)

\* docs/architecture.md: "dispatched Workflow-backed outbox rows remain
\* recoverable from D1": the reconciler reads them until they are settled.
DispatchedIsRecoverable ==
  \A e \in Events :
    row[e].dispatched => Reconcilable(e) \/ row[e].code \in SettledCodes

\* docs/operations.md: "--resume is rejected while the latest execution is
\* nonterminal", as isTerminalExecution of the rebuild scripts decides it.
TerminalExecution(e) ==
  \/ row[e].failed
  \/ row[e].dispatched /\ LatestStatus(e) \in {"complete", "failed"}
ResumeIsSafe ==
  \A e \in Events :
    kind[e] = "rebuild" /\ TerminalExecution(e) =>
      \A i \in Ids : inst[e][i] \notin {"queued", "running"}

=============================================================================
