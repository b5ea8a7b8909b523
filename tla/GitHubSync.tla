----------------------------- MODULE GitHubSync -----------------------------
(***************************************************************************)
(* The synchronisation Workflows of workers/github-sync and the ledgers    *)
(* they share: dispatches, dispatch items, repository runs, the cursor and *)
(* the head of a ref, and the lane of each credential                      *)
(* (src/github/sync-workflow.ts, migrations 0017 and 0019).                *)
(*                                                                         *)
(* Every six hours the Cron handler creates the dispatch Workflow of the   *)
(* occurrence and the deployed credential.  It settles what earlier        *)
(* occurrences and retired credentials left, materializes an item for each *)
(* due ref and starts a ref Workflow for it.  That one claims a run, binds *)
(* the item to it, moves the cursor or the head, and finishes both.  Any   *)
(* of them may die between two steps; an attempt that ran into its time    *)
(* limit goes on beside its Workflow.  One action is one durable step, or  *)
(* the part of it between two D1 transactions.                             *)
(*                                                                         *)
(* Abstractions: one repository and one ref, so an item is named by its    *)
(* dispatch and a run by its occurrence; the configuration is its version; *)
(* a cursor version stands for the row's status and time stamps, which     *)
(* never change without it; a lease is whether it has not expired; a lane  *)
(* token is current exactly while the lane names its holder; error codes   *)
(* are two, GITHUB_RECONCILIATION_REQUIRED and the rest; reading the       *)
(* repository from GitHub, and its manifest, are one step of an attempt    *)
(* (module GitHubManifests opens it).  Variants are bugs no definition     *)
(* uses.                                                                   *)
(***************************************************************************)
EXTENDS Integers, FiniteSets

CONSTANTS
  Slots,          \* occurrences of the Cron schedule, 1 .. n
  Creds,          \* credential versions
  MaxDispatches,  \* bound on the dispatch Workflows created
  MaxConfig,      \* bound on the versions of the configuration
  MaxAttempts,    \* attempts of the synchronisation step (3)
  MaxFaults       \* bound on crashes, restarts and lost answers

ASSUME GitHubSyncAssumption ==
  /\ IsFiniteSet(Slots)
  /\ Slots = 1 .. Cardinality(Slots)
  /\ Slots # {}
  /\ MaxDispatches \in Nat
  /\ MaxConfig \in Nat
  /\ MaxFaults \in Nat
  /\ MaxAttempts \in Nat \ {0}

\* githubDispatchIdentity hashes the credential version and the occurrence.
Dispatches == Slots \X Creds
Slot(d) == d[1]
Cred(d) == d[2]

VARIABLES
  clock,     \* the occurrence of the latest Cron event
  env,       \* the deployed GITHUB_CREDENTIAL_VERSION
  cfg,       \* repositories.github_sync_configuration_version
  cursor,    \* the sync_cursors row, version 0 while there is none
  head,      \* github_tree_ref_heads.head_version, 0 while there is none
  dispatch,  \* github_sync_dispatches and their materialization receipts
  item,      \* github_sync_dispatch_items and their receipts
  run,       \* github_repository_sync_runs; .moved is history
  lane,      \* github_credential_sync_lane
  dwf,       \* dispatch Workflows
  rwf,       \* ref Workflows
  faults     \* faults so far

ledgers == <<cursor, head, dispatch, item, run>>
vars == <<clock, env, cfg, ledgers, lane, dwf, rwf, faults>>
world == <<clock, env, cfg, faults>>

\* Workflow instances that are not running
Ended == {"none", "done", "errored"}

Codes == {"none", "reconcile", "other"}

NoItem ==
  [st |-> "none", bound |-> FALSE, cv |-> 0, hv |-> 0, cf |-> 0,
   code |-> "none"]
NoRun ==
  [st |-> "none", cv |-> 0, hv |-> 0, cf |-> 0, live |-> FALSE,
   code |-> "none", by |-> {}, moved |-> "no"]
\* A Workflow before its first step; its locals are what its steps returned.
DispatchAt(pc) ==
  [pc |-> pc, due |-> {}, closing |-> {}, cf |-> 0, cv |-> 0, hv |-> 0,
   code |-> "none", laned |-> FALSE]
RefAt(pc) ==
  [pc |-> pc, pend |-> FALSE, has |-> FALSE, code |-> "none", tries |-> 0,
   again |-> FALSE, laned |-> FALSE, ghost |-> FALSE]

Init ==
  /\ clock = 1
  /\ env \in Creds
  /\ cfg = 1
  /\ cursor = [v |-> 0, st |-> "absent", last |-> 0, next |-> 0,
               code |-> "none"]
  /\ head = 0
  /\ dispatch = [d \in Dispatches |->
                   [st |-> "none", receipt |-> FALSE, code |-> "none"]]
  /\ item = [d \in Dispatches |-> NoItem]
  /\ run = [s \in Slots |-> NoRun]
  /\ lane = [c \in Creds |-> [holder |-> {}, live |-> FALSE]]
  /\ dwf = [d \in Dispatches |-> DispatchAt("none")]
  /\ rwf = [d \in Dispatches |-> RefAt("none")]
  /\ faults = 0

-----------------------------------------------------------------------------
(* The ledgers *)

Active(i) == item[i].st \in {"pending", "running"}

Identity(r) == <<r.cv, r.hv, r.cf>>

\* What a statement compares with the rows of the selection it was given
Current(sel) == Identity(sel) = <<cursor.v, head, cfg>>

Rejected(i, code) == [item EXCEPT ![i].st = "failed", ![i].code = code]

\* A bug: an item that is running is rejected as well.
RejectedUnlessEnded(i, code) ==
  item' = IF Active(i) THEN Rejected(i, code) ELSE item

\* Nothing happens to an item that is not pending any more.
rejectPendingDispatchItem(i, code) ==
  item' = IF item[i].st = "pending" THEN Rejected(i, code) ELSE item

StatusOf(code) == IF code = "none" THEN "complete" ELSE "failed"

\* A run is finished once, and a second finish must agree with the first.
CanFinishRun(s, code) ==
  \/ run[s].st = "running"
  \/ run[s].st = StatusOf(code) /\ run[s].code = code

\* The lease and its holder mean nothing once the run has ended.
EndedRun(r, code) ==
  [r EXCEPT !.st = StatusOf(code), !.code = code, !.live = FALSE, !.by = {}]

FinishedRun(s, code) ==
  IF run[s].st = "running"
  THEN [run EXCEPT ![s] = EndedRun(@, code)]
  ELSE run

\* The receipt of the item is refused unless its run ended the same way.
CanFinishItem(i, code) ==
  /\ item[i].bound
  /\ item[i].st = "running" \/ (item[i].st = StatusOf(code) /\ item[i].code = code)
  /\ run[Slot(i)].st = StatusOf(code)
  /\ run[Slot(i)].code = code

FinishedItem(i, code) ==
  [item EXCEPT ![i].st = StatusOf(code), ![i].code = code]

\* A running run no item is bound to, and a rejected item with its identity
Orphan(i) ==
  /\ run[Slot(i)].st = "running"
  /\ item[i].st = "failed"
  /\ ~item[i].bound
  /\ Identity(item[i]) = Identity(run[Slot(i)])
  /\ \A j \in Dispatches : Slot(j) = Slot(i) => ~item[j].bound

OrphanFinished(s) == [run EXCEPT ![s] = EndedRun(@, "reconcile")]

CanMarkDispatch(i, st, code) ==
  \/ dispatch[i].st \in {"materialized", "dispatching"}
  \/ dispatch[i].st = st /\ dispatch[i].code = code

markGitHubDispatchStatus(i, st, code) ==
  IF dispatch[i].st \in {"materialized", "dispatching"}
  THEN [dispatch EXCEPT ![i].st = st, ![i].code = code]
  ELSE dispatch

\* The cursor is due again at the next occurrence.
computeNextSyncAt(s) == s + 1

MovedCursor(st, s, last, code) ==
  [v |-> cursor.v + 1, st |-> st, last |-> last,
   next |-> computeNextSyncAt(s), code |-> code]

-----------------------------------------------------------------------------
(* The lane of a credential *)

LaneFree(c, holder) ==
  lane[c].holder \in {{}, holder} \/ ~lane[c].live

tryAcquireGitHubCredentialLane(c, holder) ==
  /\ LaneFree(c, holder)
  /\ lane' = [lane EXCEPT ![c] = [holder |-> holder, live |-> TRUE]]

Released(c, holder) ==
  IF lane[c].holder = holder
  THEN [lane EXCEPT ![c] = [holder |-> {}, live |-> FALSE]]
  ELSE lane

LaneExpires(c) ==
  /\ lane[c].live
  /\ lane' = [lane EXCEPT ![c].live = FALSE]
  /\ UNCHANGED <<world, ledgers, dwf, rwf>>

RunExpires(s) ==
  /\ run[s].st = "running"
  /\ run[s].live
  /\ run' = [run EXCEPT ![s].live = FALSE]
  /\ UNCHANGED <<world, cursor, head, dispatch, item, lane, dwf, rwf>>

-----------------------------------------------------------------------------
(* Deployment, configuration and the Cron handler *)

\* A new credential version is deployed.
Rotate(c) ==
  /\ c # env
  /\ \A d \in Dispatches : Cred(d) = c => dwf[d].pc = "none"
  /\ env' = c
  /\ UNCHANGED <<clock, cfg, ledgers, lane, dwf, rwf, faults>>

Reconfigure ==
  /\ cfg < MaxConfig
  /\ cfg' = cfg + 1
  /\ UNCHANGED <<clock, env, ledgers, lane, dwf, rwf, faults>>

\* A Cron event, possibly delivered again: create, or restart what errored.
scheduleGitHubSyncWorkflows(d) ==
  /\ Slot(d) >= clock
  /\ Cred(d) = env
  /\ clock' = Slot(d)
  /\ \/ /\ dwf[d].pc = "none"
        /\ Cardinality({e \in Dispatches : dwf[e].pc # "none"}) < MaxDispatches
        /\ UNCHANGED faults
     \/ /\ dwf[d].pc = "errored"
        /\ faults < MaxFaults
        /\ faults' = faults + 1
  /\ dwf' = [dwf EXCEPT ![d] = DispatchAt("establish")]
  /\ UNCHANGED <<env, cfg, ledgers, lane, rwf>>

-----------------------------------------------------------------------------
(* The dispatch Workflow *)

DAt(d, pc) == dwf[d].pc = pc
DGoto(d, pc) == dwf' = [dwf EXCEPT ![d].pc = pc]
\* From here on nothing of what the steps returned is used.
DLeave(d, pc) == dwf' = [dwf EXCEPT ![d] = DispatchAt(pc)]
DFail(d, code) ==
  dwf' = [dwf EXCEPT ![d] = [DispatchAt("fail") EXCEPT
                               !.code = code, !.laned = dwf[d].laned]]
DHolder(d) == {<<"dispatch", d>>}

\* The occurrence and the credential are checked against the deployment, the
\* dispatch row is created, and the clock of the reconciliation is read.
establishGitHubDispatch(d) ==
  /\ DAt(d, "establish")
  /\ LET st == dispatch[d].st
         expired == {s \in Slots : run[s].st = "running" /\ ~run[s].live} IN
     IF Cred(d) # env
     THEN DLeave(d, "errored") /\ UNCHANGED dispatch
     ELSE /\ dispatch' = [dispatch EXCEPT ![d].st =
                            IF st = "none" THEN "materialized" ELSE st]
          /\ dwf' = [dwf EXCEPT ![d] =
               IF st \in {"complete", "failed"} THEN DispatchAt("done")
               ELSE [DispatchAt("pending") EXCEPT !.due = expired]]
  /\ UNCHANGED <<world, cursor, head, item, run, lane, rwf>>

Prior(i, d) == Slot(i) < Slot(d) \/ Cred(i) # Cred(d)

PriorPending(d) == {i \in Dispatches : item[i].st = "pending" /\ Prior(i, d)}

RejectPriorPending(d, i) ==
  /\ DAt(d, "pending")
  /\ i \in PriorPending(d)
  /\ rejectPendingDispatchItem(i, "reconcile")
  /\ UNCHANGED <<world, cursor, head, dispatch, run, lane, dwf, rwf>>

\* Whose lease had expired when the reconciliation began, or is retired
Recoverable(i, d) ==
  Cred(i) # Cred(d) \/ (Slot(i) < Slot(d) /\ Slot(i) \in dwf[d].due)

PriorOrphans(d) == {i \in Dispatches : Orphan(i) /\ Recoverable(i, d)}

FinishPriorOrphan(d, i) ==
  /\ DAt(d, "orphans")
  /\ i \in PriorOrphans(d)
  /\ run' = OrphanFinished(Slot(i))
  /\ UNCHANGED <<world, cursor, head, dispatch, item, lane, dwf, rwf>>

PriorRunning(d) ==
  {i \in Dispatches :
     /\ item[i].st = "running"
     /\ \/ Recoverable(i, d)
        \/ Slot(i) < Slot(d) /\ run[Slot(i)].st # "running"}

\* The run first, and then the item from what the run says: two transactions.
settlePriorRunningDispatchItem(d, i) ==
  /\ DAt(d, "running")
  /\ i \in PriorRunning(d)
  /\ \/ /\ run[Slot(i)].st = "running"
        /\ run' = FinishedRun(Slot(i), "reconcile")
        /\ UNCHANGED item
     \/ /\ CanFinishItem(i, run[Slot(i)].code)
        /\ item' = FinishedItem(i, run[Slot(i)].code)
        /\ UNCHANGED run
  /\ UNCHANGED <<world, cursor, head, dispatch, lane, dwf, rwf>>

\* A bug: a dispatch whose items were never counted closes as complete.
ClosableUncounted(d) ==
  {<<i, IF item[i].st # "failed" THEN "none" ELSE "reconcile">> :
     i \in {j \in Dispatches :
              /\ dispatch[j].st \in {"materialized", "dispatching"}
              /\ Prior(j, d)
              /\ ~Active(j)}}

\* Prior dispatches without an active item, with the status they will get
Closable(d) ==
  {<<i, IF dispatch[i].receipt /\ item[i].st # "failed" THEN "none"
        ELSE "reconcile">> :
     i \in {j \in Dispatches :
              /\ dispatch[j].st \in {"materialized", "dispatching"}
              /\ Prior(j, d)
              /\ ~Active(j)}}

\* Each loop of the reconciliation lists until its list is empty.
reconcilePriorDispatchState(d) ==
  /\ \/ DAt(d, "pending") /\ PriorPending(d) = {} /\ DGoto(d, "orphans")
     \/ DAt(d, "orphans") /\ PriorOrphans(d) = {} /\ DGoto(d, "running")
     \/ DAt(d, "running") /\ PriorRunning(d) = {} /\ DLeave(d, "close")
     \/ /\ DAt(d, "close")
        /\ dwf' = [dwf EXCEPT
             ![d].pc = IF Closable(d) = {} THEN "receipt" ELSE "mark",
             ![d].closing = Closable(d)]
  /\ UNCHANGED <<world, ledgers, lane, rwf>>

\* The statuses listed are those of the listing step.
ClosePriorDispatch(d) ==
  /\ DAt(d, "mark")
  /\ \E c \in dwf[d].closing :
       IF CanMarkDispatch(c[1], StatusOf(c[2]), c[2])
       THEN /\ dispatch' = markGitHubDispatchStatus(c[1], StatusOf(c[2]), c[2])
            /\ dwf' = [dwf EXCEPT
                 ![d].closing = @ \ {c},
                 ![d].pc = IF dwf[d].closing = {c} THEN "close" ELSE "mark"]
       ELSE DLeave(d, "errored") /\ UNCHANGED dispatch
  /\ UNCHANGED <<world, cursor, head, item, run, lane, rwf>>

\* Pages of the repositories, counted and fingerprinted
collectRepositoryAdmissionSummary == [DispatchAt("snapshot") EXCEPT !.cf = cfg]

hasGitHubDispatchMaterializationReceipt(d) ==
  /\ DAt(d, "receipt")
  /\ IF dispatch[d].receipt /\ dispatch[d].st \in {"dispatching", "complete"}
     THEN DLeave(d, "fanout")
     ELSE dwf' = [dwf EXCEPT ![d] = collectRepositoryAdmissionSummary]
  /\ UNCHANGED <<world, ledgers, lane, rwf>>

\* The inventory does not fit the steps and subrequests of one Workflow.
Inadmissible(d) == DFail(d, "other")

\* The snapshot must be the configuration of the summary.
collectRepositoryAdmissionSnapshots(d) ==
  /\ DAt(d, "snapshot")
  /\ \/ dwf[d].cf = cfg /\ DGoto(d, "lane")
     \/ dwf[d].cf # cfg /\ DFail(d, "reconcile")
     \/ Inadmissible(d)
  /\ UNCHANGED <<world, ledgers, lane, rwf>>

\* 32 attempts for a dispatch; a lane it does not get fails the dispatch.
AcquireDispatchLane(d) ==
  /\ DAt(d, "lane")
  /\ \/ /\ tryAcquireGitHubCredentialLane(Cred(d), DHolder(d))
        /\ dwf' = [dwf EXCEPT ![d].pc = "baseline", ![d].laned = TRUE]
     \/ /\ ~LaneFree(Cred(d), DHolder(d))
        /\ DFail(d, "other")
        /\ UNCHANGED lane
  /\ UNCHANGED <<world, ledgers, rwf>>

\* The access baseline holds, or its error is recorded with each due ref; the
\* lane has no time left
verifyApprovedAccessBaseline(d) ==
  /\ DAt(d, "baseline")
  /\ \/ \E code \in {"none", "other"} :
          dwf' = [dwf EXCEPT ![d].pc = "select", ![d].code = code]
     \/ DFail(d, "other")
  /\ UNCHANGED <<world, ledgers, lane, rwf>>

\* The cursor is created at the first sight of a ref.
CursorSeen(s) ==
  IF cursor.v > 0 THEN cursor
  ELSE [v |-> 1, st |-> "idle", last |-> 0, next |-> s, code |-> "none"]

Due(s) ==
  /\ CursorSeen(s).next <= s
  /\ \A i \in Dispatches : ~Active(i)

materializeAndSelectScheduledRefsGuarded(d) ==
  /\ DAt(d, "select")
  /\ IF dwf[d].cf # cfg
     THEN DFail(d, "reconcile") /\ UNCHANGED cursor
     ELSE /\ cursor' = CursorSeen(Slot(d))
          /\ dwf' = [dwf EXCEPT
               ![d].pc = IF Due(Slot(d))
                         THEN IF dwf[d].code = "none" THEN "persist"
                              ELSE "baselined"
                         ELSE IF dwf[d].code = "none" THEN "complete"
                              ELSE "fail",
               ![d].cv = IF Due(Slot(d)) THEN CursorSeen(Slot(d)).v ELSE 0,
               ![d].hv = IF Due(Slot(d)) THEN head ELSE 0]
  /\ UNCHANGED <<world, head, dispatch, item, run, lane, rwf>>

\* A bug: the rows are not compared with the selection again.
PersistableUnread(d) == dispatch[d].st = "materialized"

\* Everything the selection saw is compared again in the transaction.
Persistable(d) ==
  /\ dispatch[d].st = "materialized"
  /\ Current(dwf[d])
  /\ \A i \in Dispatches \ {d} : ~Active(i)
  /\ item[d].st \in {"none", "pending"}
  /\ item[d].st = "pending" => Identity(item[d]) = Identity(dwf[d])

\* A refused batch throws, and its step selects again or gives up.
persistDispatchItems(d) ==
  /\ DAt(d, "persist")
  /\ IF Persistable(d)
     THEN /\ item' = [item EXCEPT ![d] =
               [NoItem EXCEPT !.st = "pending", !.cv = dwf[d].cv,
                              !.hv = dwf[d].hv, !.cf = dwf[d].cf]]
          /\ DGoto(d, "complete")
     ELSE /\ DGoto(d, "select") \/ DFail(d, "reconcile")
          /\ UNCHANGED item
  /\ UNCHANGED <<world, cursor, head, dispatch, run, lane, rwf>>

\* Without a run, the failure is recorded on the cursor that was selected,
\* unless a run of the repository is going.
RecordBaselineFailure(d) ==
  /\ DAt(d, "baselined")
  /\ cursor' = IF /\ Current(dwf[d])
                  /\ \A s \in Slots : ~(run[s].st = "running" /\ run[s].live)
               THEN MovedCursor("failed", Slot(d), cursor.last, dwf[d].code)
               ELSE cursor
  /\ DGoto(d, "fail")
  /\ UNCHANGED <<world, head, dispatch, item, run, lane, rwf>>

completeGitHubDispatchMaterialization(d) ==
  /\ DAt(d, "complete")
  /\ IF dispatch[d].st = "materialized"
     THEN /\ dispatch' = [dispatch EXCEPT ![d].st = "dispatching",
                                          ![d].receipt = TRUE]
          /\ DGoto(d, "release")
     ELSE DFail(d, "other") /\ UNCHANGED dispatch
  /\ UNCHANGED <<world, cursor, head, item, run, lane, rwf>>

\* A lane that was lost throws.
ReleaseDispatchLane(d) ==
  /\ DAt(d, "release")
  /\ lane' = Released(Cred(d), DHolder(d))
  /\ DLeave(d, IF lane[Cred(d)].holder = DHolder(d) THEN "fanout" ELSE "errored")
  /\ UNCHANGED <<world, ledgers, rwf>>

\* The failure of a dispatch: its own pending item, its row, and its lane
FailPendingItem(d) ==
  /\ DAt(d, "fail")
  /\ rejectPendingDispatchItem(d, dwf[d].code)
  /\ DGoto(d, "failed")
  /\ UNCHANGED <<world, cursor, head, dispatch, run, lane, rwf>>

failDispatchWorkflow(d) ==
  /\ DAt(d, "failed")
  /\ dispatch' = markGitHubDispatchStatus(d, "failed", dwf[d].code)
  /\ lane' = IF dwf[d].laned THEN Released(Cred(d), DHolder(d)) ELSE lane
  /\ DLeave(d, "errored")
  /\ UNCHANGED <<world, cursor, head, item, run, rwf>>

\* Every item of the dispatch gets its Workflow; one that errored restarts.
Started(d) ==
  IF item[d].st # "none" /\ rwf[d].pc \in {"none", "errored"}
  THEN [rwf EXCEPT ![d] = [RefAt("open") EXCEPT !.ghost = rwf[d].ghost]]
  ELSE rwf

ensureGitHubRefWorkflowBatch(d) ==
  /\ DAt(d, "fanout")
  /\ \/ rwf' = Started(d) /\ DGoto(d, "finish")
     \/ UNCHANGED rwf /\ DFail(d, "other")
  /\ UNCHANGED <<world, ledgers, lane>>

CompleteDispatch(d) ==
  /\ DAt(d, "finish")
  /\ dispatch' = markGitHubDispatchStatus(d, "complete", "none")
  /\ IF CanMarkDispatch(d, "complete", "none")
     THEN DLeave(d, "done")
     ELSE DFail(d, "other")
  /\ UNCHANGED <<world, cursor, head, item, run, lane, rwf>>

\* Retries exhausted, a result lost for good, a terminated instance
DispatchDies(d) ==
  /\ dwf[d].pc \notin Ended
  /\ faults < MaxFaults
  /\ faults' = faults + 1
  /\ dwf' = [dwf EXCEPT ![d] = DispatchAt("errored")]
  /\ UNCHANGED <<clock, env, cfg, ledgers, lane, rwf>>

-----------------------------------------------------------------------------
(* The ref Workflow *)

RAt(d, pc) == rwf[d].pc = pc
RLeave(d, pc) ==
  rwf' = [rwf EXCEPT ![d] = [RefAt(pc) EXCEPT !.ghost = rwf[d].ghost]]
RGoto(d, pc) ==
  IF pc \in Ended THEN RLeave(d, pc) ELSE rwf' = [rwf EXCEPT ![d].pc = pc]
RFinish(d, code) == rwf' = [rwf EXCEPT ![d].pc = "finishRun", ![d].code = code]
RHolder(d) == {<<"ref", d>>}
Leave(d) == IF rwf[d].laned THEN "release" ELSE "done"
Abort(d) == IF rwf[d].laned THEN "abort" ELSE "errored"

\* The checks before the first write: the deployment, an item that already has
\* its receipt, and a dispatch that has been materialized
OpenItem(d) ==
  /\ RAt(d, "open")
  /\ IF Cred(d) # env THEN RLeave(d, "errored")
     ELSE IF item[d].st \in {"complete", "failed"} THEN RLeave(d, "done")
     ELSE IF dispatch[d].st \in {"dispatching", "complete"}
     THEN rwf' = [rwf EXCEPT ![d].pc = "recover",
                             ![d].pend = item[d].st = "pending"]
     ELSE RLeave(d, "errored")
  /\ UNCHANGED <<world, ledgers, lane, dwf>>

\* What a restarted Workflow finds of a run it had bound
readRecoverableBoundRun(d) ==
  item[d].st = "running" /\ Identity(item[d]) = Identity(run[Slot(d)])

CursorMoved(d) == cursor.v = item[d].cv + 1

CursorSaysComplete(d) ==
  /\ CursorMoved(d)
  /\ cursor.st = "complete"
  /\ cursor.last = Slot(d)
  /\ cursor.code = "none"

CursorSaysFailed(d) == CursorMoved(d) /\ cursor.st = "failed"

\* The outcome is decided from a copy; the run and the item are written later.
recoverBoundRunIfNeeded(d) ==
  /\ RAt(d, "recover")
  /\ LET r == run[Slot(d)] IN
     CASE ~readRecoverableBoundRun(d) -> RGoto(d, "validate")
       [] readRecoverableBoundRun(d) /\ r.st # "running" ->
            rwf' = [rwf EXCEPT ![d].pc = "finishItem", ![d].code = r.code]
       [] readRecoverableBoundRun(d) /\ r.st = "running" ->
            IF CursorSaysComplete(d) THEN RFinish(d, "none")
            ELSE IF CursorSaysFailed(d) THEN RFinish(d, cursor.code)
            ELSE IF ~r.live THEN RFinish(d, "reconcile")
            ELSE rwf' = [rwf EXCEPT ![d].pc = "validate", ![d].has = TRUE]
  /\ UNCHANGED <<world, ledgers, lane, dwf>>

\* The item must still be the selection it was materialized from.
readDispatchItem(d) ==
  /\ RAt(d, "validate")
  /\ IF dispatch[d].st \in {"dispatching", "complete"} /\ Current(item[d])
     THEN /\ RGoto(d, IF Active(d) THEN "lane" ELSE "done")
          /\ UNCHANGED item
     ELSE IF rwf[d].pend
     THEN rejectPendingDispatchItem(d, "reconcile") /\ RGoto(d, "done")
     ELSE RGoto(d, "errored") /\ UNCHANGED item
  /\ UNCHANGED <<world, cursor, head, dispatch, run, lane, dwf>>

\* No lane, or no time left on it: an unbound item is rejected, a bound run
\* fails.
Unadmitted(d) ==
  IF rwf[d].has
  THEN /\ rwf' = [rwf EXCEPT ![d].pc = "record", ![d].code = "other"]
       /\ UNCHANGED item
  ELSE rejectPendingDispatchItem(d, "other") /\ RGoto(d, Leave(d))

AcquireRefLane(d) ==
  /\ RAt(d, "lane")
  /\ \/ /\ tryAcquireGitHubCredentialLane(Cred(d), RHolder(d))
        /\ rwf' = [rwf EXCEPT ![d].pc = "start", ![d].laned = TRUE]
        /\ UNCHANGED item
     \/ /\ ~LaneFree(Cred(d), RHolder(d))
        /\ Unadmitted(d)
        /\ UNCHANGED lane
  /\ UNCHANGED <<world, cursor, head, dispatch, run, dwf>>

StartExecution(d) ==
  /\ RAt(d, "start")
  /\ \/ /\ rwf' = [rwf EXCEPT ![d].pc = IF rwf[d].has THEN "sync" ELSE "claim",
                              ![d].has = FALSE, ![d].pend = FALSE]
        /\ UNCHANGED item
     \/ Unadmitted(d)
  /\ UNCHANGED <<world, cursor, head, dispatch, run, lane, dwf>>

\* Runs whose lease is over fail; the caller's own is younger than the claim.
expireStaleRepositorySyncRuns(d) ==
  [s \in Slots |->
     IF run[s].st = "running" /\ ~run[s].live /\ run[s].by # RHolder(d)
     THEN EndedRun(run[s], "reconcile")
     ELSE run[s]]

Claimable(d, runs) ==
  /\ Current(item[d])
  /\ \A s \in Slots : runs[s].st # "running"
  /\ runs[Slot(d)].st = "none"

Claimed(d, runs) ==
  [runs EXCEPT ![Slot(d)] =
     [NoRun EXCEPT !.st = "running", !.live = TRUE, !.cv = item[d].cv,
                   !.hv = item[d].hv, !.cf = item[d].cf,
                   !.by = RHolder(d)]]

\* The answer of the insert was lost: the row must be exactly the caller's.
hasExactRecoveredRepositorySyncClaim(d, runs) ==
  /\ Current(item[d])
  /\ runs[Slot(d)].st = "running"
  /\ runs[Slot(d)].live
  /\ runs[Slot(d)].by = RHolder(d)

\* A claim refused twice rejects the item; after the first refusal the orphans
\* of other items are looked for.
claimRepositorySync(d) ==
  /\ RAt(d, "claim")
  /\ LET runs == expireStaleRepositorySyncRuns(d) IN
     IF Claimable(d, runs)
     THEN run' = Claimed(d, runs) /\ RGoto(d, "bind") /\ UNCHANGED item
     ELSE /\ run' = runs
          /\ IF hasExactRecoveredRepositorySyncClaim(d, runs)
             THEN RGoto(d, "bind") /\ UNCHANGED item
             ELSE IF rwf[d].again
             THEN rejectPendingDispatchItem(d, "reconcile") /\ RGoto(d, "release")
             ELSE RGoto(d, "orphan") /\ UNCHANGED item
  /\ UNCHANGED <<world, cursor, head, dispatch, lane, dwf>>

ClaimAnswerLost(d) ==
  /\ RAt(d, "claim")
  /\ faults < MaxFaults
  /\ LET runs == expireStaleRepositorySyncRuns(d) IN
     Claimable(d, runs) /\ run' = Claimed(d, runs)
  /\ faults' = faults + 1
  /\ UNCHANGED <<clock, env, cfg, cursor, head, dispatch, item, lane, dwf, rwf>>

\* The oldest orphan of the ref but the caller's own, whatever its credential
\* and its lease
finishRejectedUnboundRepositoryRun(d) ==
  LET others == {i \in Dispatches \ {d} : Orphan(i) /\ Slot(i) <= Slot(d)} IN
  /\ RAt(d, "orphan")
  /\ IF others = {} THEN UNCHANGED run
     ELSE \E i \in others :
            /\ \A j \in others : Slot(i) <= Slot(j)
            /\ run' = OrphanFinished(Slot(i))
  /\ rwf' = [rwf EXCEPT ![d].pc = "claim", ![d].again = TRUE]
  /\ UNCHANGED <<world, cursor, head, dispatch, item, lane, dwf>>

Bindable(d) ==
  /\ item[d].st = "pending"
  /\ run[Slot(d)].st = "running"
  /\ run[Slot(d)].live
  /\ Identity(run[Slot(d)]) = Identity(item[d])

\* An item that cannot be bound is rejected, and its run ended.
markDispatchItemRunning(d) ==
  /\ RAt(d, "bind")
  /\ IF Bindable(d)
     THEN /\ item' = [item EXCEPT ![d].st = "running", ![d].bound = TRUE]
          /\ rwf' = [rwf EXCEPT ![d] = [RefAt("sync") EXCEPT
                                          !.laned = TRUE, !.ghost = rwf[d].ghost]]
     ELSE rejectPendingDispatchItem(d, "reconcile") /\ RGoto(d, "unbound")
  /\ UNCHANGED <<world, cursor, head, dispatch, run, lane, dwf>>

FinishUnbindableRun(d) ==
  /\ RAt(d, "unbound")
  /\ run' = IF Orphan(d) THEN OrphanFinished(Slot(d)) ELSE run
  /\ RGoto(d, "release")
  /\ UNCHANGED <<world, cursor, head, dispatch, item, lane, dwf>>

-----------------------------------------------------------------------------
(* An attempt to synchronise the ref, and what it leaves *)

\* The outcome an earlier attempt committed without being heard
hasExactSuccessfulRefOutcome(d) ==
  \/ run[Slot(d)].st \in {"running", "complete"} /\ CursorSaysComplete(d)
  \/ /\ run[Slot(d)].moved = "activated"
     /\ CursorMoved(d)
     /\ cursor.st = "observed"
     /\ head = item[d].hv + 1

StartAttempt(d) ==
  /\ RAt(d, "sync")
  /\ IF hasExactSuccessfulRefOutcome(d) THEN RFinish(d, "none")
     ELSE RGoto(d, "attempt")
  /\ UNCHANGED <<world, ledgers, lane, dwf>>

\* A bug: a run that was ended, or whose lease is over, still moves the cursor.
FencedByCursorOnly(d) == item[d].bound /\ Current(item[d])

\* Every write of an attempt is fenced by its run, and by what it claimed.
Fenced(d) ==
  /\ item[d].bound
  /\ run[Slot(d)].st = "running"
  /\ run[Slot(d)].live
  /\ Identity(run[Slot(d)]) = Identity(item[d])
  /\ Current(item[d])

InFlight(d) == RAt(d, "attempt") \/ rwf[d].ghost

\* The writer is the attempt the Workflow waits for, which may not be heard, or
\* one it has given up on.
Heard(d) ==
  \/ RAt(d, "attempt") /\ (RFinish(d, "none") \/ UNCHANGED rwf)
  \/ rwf[d].ghost /\ rwf' = [rwf EXCEPT ![d].ghost = FALSE]

markUnchanged(d) ==
  /\ InFlight(d)
  /\ Fenced(d)
  /\ cursor' = MovedCursor("complete", Slot(d), Slot(d), "none")
  /\ run' = [run EXCEPT ![Slot(d)].moved = "unchanged"]
  /\ Heard(d)
  /\ UNCHANGED <<world, head, dispatch, item, lane, dwf>>

\* The activation of a manifest: head, cursor and run in one transaction
Activate(d) ==
  /\ InFlight(d)
  /\ Fenced(d)
  /\ cursor' = MovedCursor("observed", Slot(d), Slot(d), "none")
  /\ head' = head + 1
  /\ run' = [run EXCEPT ![Slot(d)] =
               [EndedRun(@, "none") EXCEPT !.moved = "activated"]]
  /\ Heard(d)
  /\ UNCHANGED <<world, dispatch, item, lane, dwf>>

\* The attempt reports an error: again, unless it is final or the last.
AttemptFails(d) ==
  /\ RAt(d, "attempt")
  /\ \/ /\ rwf[d].tries + 1 < MaxAttempts
        /\ rwf' = [rwf EXCEPT ![d].pc = "sync", ![d].tries = @ + 1]
     \/ rwf' = [rwf EXCEPT ![d].pc = "record", ![d].code = "other"]
  /\ UNCHANGED <<world, ledgers, lane, dwf>>

\* The step is over after 13 minutes, what it runs is not.
AttemptTimesOut(d) ==
  /\ RAt(d, "attempt")
  /\ rwf' = [rwf EXCEPT ![d].pc = "record", ![d].code = "reconcile",
                        ![d].ghost = TRUE]
  /\ UNCHANGED <<world, ledgers, lane, dwf>>

\* A bug: the failure overwrites a cursor that has moved since.
RecordableLate(d) == run[Slot(d)].st = "running"

Recordable(d) == Fenced(d)

\* Nothing is written, and nothing thrown, when the fence does not hold.
recordSyncFailure(d) ==
  /\ RAt(d, "record")
  /\ IF Recordable(d)
     THEN /\ cursor' = MovedCursor("failed", Slot(d), cursor.last, rwf[d].code)
          /\ run' = [run EXCEPT ![Slot(d)].moved = "failed"]
     ELSE UNCHANGED <<cursor, run>>
  /\ RGoto(d, "finishRun")
  /\ UNCHANGED <<world, head, dispatch, item, lane, dwf>>

FinishRefRun(d) ==
  /\ RAt(d, "finishRun")
  /\ IF CanFinishRun(Slot(d), rwf[d].code)
     THEN /\ run' = FinishedRun(Slot(d), rwf[d].code)
          /\ RGoto(d, "finishItem")
     ELSE RGoto(d, Abort(d)) /\ UNCHANGED run
  /\ UNCHANGED <<world, cursor, head, dispatch, item, lane, dwf>>

FinishRefItem(d) ==
  /\ RAt(d, "finishItem")
  /\ IF CanFinishItem(d, rwf[d].code)
     THEN /\ item' = FinishedItem(d, rwf[d].code)
          /\ RGoto(d, Leave(d))
     ELSE RGoto(d, Abort(d)) /\ UNCHANGED item
  /\ UNCHANGED <<world, cursor, head, dispatch, run, lane, dwf>>

ReleaseRefLane(d) ==
  /\ rwf[d].pc \in {"release", "abort"}
  /\ lane' = Released(Cred(d), RHolder(d))
  /\ RGoto(d, IF RAt(d, "release") /\ lane[Cred(d)].holder = RHolder(d)
              THEN "done" ELSE "errored")
  /\ UNCHANGED <<world, ledgers, dwf>>

\* The step of an attempt may still be running when its Workflow is gone.
RefDies(d) ==
  /\ rwf[d].pc \notin Ended
  /\ faults < MaxFaults
  /\ faults' = faults + 1
  /\ rwf' = [rwf EXCEPT ![d] = [RefAt("errored") EXCEPT
                                  !.ghost = InFlight(d)]]
  /\ run' = [run EXCEPT ![Slot(d)].by = {}]
  /\ UNCHANGED <<clock, env, cfg, cursor, head, dispatch, item, lane, dwf>>

-----------------------------------------------------------------------------
Environment ==
  \/ \E c \in Creds : Rotate(c) \/ LaneExpires(c)
  \/ Reconfigure
  \/ \E s \in Slots : RunExpires(s)

DispatchWorkflow(d) ==
  \/ scheduleGitHubSyncWorkflows(d)
  \/ establishGitHubDispatch(d)
  \/ \E i \in Dispatches :
       \/ RejectPriorPending(d, i)
       \/ FinishPriorOrphan(d, i)
       \/ settlePriorRunningDispatchItem(d, i)
  \/ reconcilePriorDispatchState(d)
  \/ ClosePriorDispatch(d)
  \/ hasGitHubDispatchMaterializationReceipt(d)
  \/ collectRepositoryAdmissionSnapshots(d)
  \/ AcquireDispatchLane(d)
  \/ verifyApprovedAccessBaseline(d)
  \/ materializeAndSelectScheduledRefsGuarded(d)
  \/ persistDispatchItems(d)
  \/ RecordBaselineFailure(d)
  \/ completeGitHubDispatchMaterialization(d)
  \/ ReleaseDispatchLane(d)
  \/ FailPendingItem(d)
  \/ failDispatchWorkflow(d)
  \/ ensureGitHubRefWorkflowBatch(d)
  \/ CompleteDispatch(d)
  \/ DispatchDies(d)

RefWorkflow(d) ==
  \/ OpenItem(d)
  \/ recoverBoundRunIfNeeded(d)
  \/ readDispatchItem(d)
  \/ AcquireRefLane(d)
  \/ StartExecution(d)
  \/ claimRepositorySync(d)
  \/ ClaimAnswerLost(d)
  \/ finishRejectedUnboundRepositoryRun(d)
  \/ markDispatchItemRunning(d)
  \/ FinishUnbindableRun(d)
  \/ StartAttempt(d)
  \/ markUnchanged(d)
  \/ Activate(d)
  \/ AttemptFails(d)
  \/ AttemptTimesOut(d)
  \/ recordSyncFailure(d)
  \/ FinishRefRun(d)
  \/ FinishRefItem(d)
  \/ ReleaseRefLane(d)
  \/ RefDies(d)

Next ==
  \/ Environment
  \/ \E d \in Dispatches : DispatchWorkflow(d) \/ RefWorkflow(d)

Spec == Init /\ [][Next]_vars

-----------------------------------------------------------------------------
(* Properties *)

Holders == {{}} \cup {DHolder(d) : d \in Dispatches}
                \cup {RHolder(d) : d \in Dispatches}

\* The ledgers hold what their tables allow: a binding belongs to an item that
\* has run, a lease to a run that is going, and the cursor has a version from
\* its first row on.
TypeOK ==
  /\ clock \in Slots /\ env \in Creds /\ cfg \in Nat /\ head \in Nat
  /\ cursor \in [v : Nat, last : Nat, next : Nat, code : Codes,
                 st : {"absent", "idle", "complete", "observed", "failed"}]
  /\ dispatch \in [Dispatches ->
       [st : {"none", "materialized", "dispatching", "complete", "failed"},
        receipt : BOOLEAN, code : Codes]]
  /\ item \in [Dispatches ->
       [st : {"none", "pending", "running", "complete", "failed"},
        bound : BOOLEAN, cv : Nat, hv : Nat, cf : Nat, code : Codes]]
  /\ run \in [Slots ->
       [st : {"none", "running", "complete", "failed"}, cv : Nat, hv : Nat,
        cf : Nat, live : BOOLEAN, code : Codes, by : Holders,
        moved : {"no", "unchanged", "activated", "failed"}]]
  /\ lane \in [Creds -> [holder : Holders, live : BOOLEAN]]
  /\ cursor.v = 0 <=> cursor.st = "absent"
  /\ \A s \in Slots : run[s].st # "running" => ~run[s].live /\ run[s].by = {}
  /\ \A d \in Dispatches :
       /\ item[d].bound => item[d].st \in {"running", "complete", "failed"}
       /\ item[d].st = "running" => item[d].bound

\* The ledgers are well formed (TypeOK), and
\* two occurrences, or the two credentials of a rotation, never have an active
\* item of the same ref at once: the count of active items is compared again
\* when the items are stored (persistDispatchItems).
OneActiveItem ==
  /\ TypeOK
  /\ Cardinality({d \in Dispatches : Active(d)}) <= 1

\* A run in progress can always be ended by somebody: its item is bound to it
\* or still may be, or was rejected with the same identity, which is what both
\* recoveries of unbound runs look for (workflow-orphan.ts).
RunIsOwned ==
  \A s \in Slots : run[s].st = "running" =>
    \E d \in Dispatches :
      /\ Slot(d) = s
      /\ Identity(item[d]) = Identity(run[s])
      /\ \/ item[d].st = "pending"
         \/ item[d].st = "running" /\ item[d].bound
         \/ Orphan(d)

\* The outcomes on the ledgers are true, whoever wrote them, after whatever
\* crash or time-out: a completed run moved the cursor, a failed one has not
\* activated a head, and an item that was bound ended like its run.
OutcomeTruth ==
  /\ \A s \in Slots :
       /\ run[s].st = "complete" => run[s].moved \in {"unchanged", "activated"}
       /\ run[s].moved = "activated" => run[s].st = "complete"
  /\ \A d \in Dispatches :
       /\ item[d].st = "complete" => item[d].bound
       /\ item[d].bound /\ ~Active(d) =>
            /\ run[Slot(d)].st = item[d].st
            /\ run[Slot(d)].code = item[d].code

\* A dispatch is complete only if its items were counted and each of them has
\* had a Workflow, also when a later occurrence closed it.
DispatchTruth ==
  \A d \in Dispatches : dispatch[d].st = "complete" =>
    /\ dispatch[d].receipt
    /\ item[d].st # "none" => rwf[d].pc # "none"

\* A run moves the cursor once: its own failure, a timed-out attempt and a
\* recovery do not move it again.
MovesOnce ==
  [][\A s \in Slots :
       run[s].moved # "no" => run'[s].moved = run[s].moved]_vars
=============================================================================
