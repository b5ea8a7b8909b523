---------------------------- MODULE Consolidation ----------------------------
(***************************************************************************)
(* Session consolidation of src/workflows/quality.ts, run step by step by  *)
(* MemoryWorkflow.run of workers/memory-orchestrator, under the triggers   *)
(* of migrations 0016 and 0018.                                            *)
(*                                                                         *)
(* A Workflow instance claims the lease of the consolidation, runs one     *)
(* durable step per batch of frozen inputs, and finishes.  A step is tried *)
(* several times; an attempt the engine has given up on (a timeout, an     *)
(* instance that was terminated) keeps running beside its successor, with  *)
(* the same token, and beside the repair instances that follow.  One       *)
(* action is the code between two D1 answers; a D1 batch is a transaction. *)
(* Every reply may be lost, whether or not the statement was applied.      *)
(*                                                                         *)
(* Abstractions: the claim id is created in a durable step, once per       *)
(* instance, so the instance stands for owner and claim id; the operation  *)
(* witness is set and cleared within one transaction; lease_expires_at is  *)
(* whether it has passed, and what an attempt knows of it; a suggestion is *)
(* its content hash, its evidence that of its batch; the analysis of a     *)
(* batch and the reads that filter it are one step, all of which the       *)
(* transaction checks again.  Variants are bugs no definition uses.        *)
(***************************************************************************)
EXTENDS Integers, FiniteSets

CONSTANTS
  BatchCount,   \* buckets of fifty frozen inputs
  Contents,     \* hashes of the contents the model may suggest
  Evidence,     \* evidence rows the frozen inputs cite
  Cites,        \* the evidence of each batch
  MaxRepairs,   \* repair instances after the base one (3)
  Attempts,     \* attempts of each kind of Workflow step
  Slots         \* attempts that may be running at once

Batches == 0 .. BatchCount - 1
Ids == 0 .. MaxRepairs
NoOwner == -1

\* The kinds of step, and where their attempts begin
FirstPc ==
  [claim |-> "claim", batch |-> "renew", finish |-> "terminal",
   release |-> "released"]

ASSUME ConsolidationAssumption ==
  /\ BatchCount \in Nat
  /\ Cites \in [Batches -> Evidence]
  /\ MaxRepairs \in Nat
  /\ Attempts \in [DOMAIN FirstPc -> Nat \ {0}]

VARIABLES
  con,       \* the session_consolidations row
  receipts,  \* consolidation_batch_receipts
  outputs,   \* consolidation_outputs with their candidates, <<batch, content>>
  rejected,  \* the outputs a reviewer rejected
  foreign,   \* contents of the other active candidates of the project
  clear,     \* evidence.sensitivity_status is clear
  wf,        \* the Workflow instances
  att        \* the running attempts of their steps

vars == <<con, receipts, outputs, rejected, foreign, clear, wf, att>>
tables == <<con, receipts, outputs, rejected, foreign, clear>>

Idle ==
  [pc |-> "idle", inst |-> 0, awaited |-> FALSE, batch |-> 0, epoch |-> 0,
   seen |-> "other", model |-> {}, outputs |-> {}]

\* An instance that has not begun, or ended
Rest(stage) == [stage |-> stage, batch |-> 0, epoch |-> 0, tries |-> 0]

Init ==
  /\ con = [status |-> "queued", owner |-> NoOwner, live |-> FALSE,
            epoch |-> 0, valid |-> TRUE]
  /\ receipts = {}
  /\ outputs = {}
  /\ rejected = {}
  /\ foreign \in SUBSET Contents
  /\ clear = [e \in Evidence |-> TRUE]
  /\ wf = [i \in Ids |-> Rest(IF i = 0 THEN "claim" ELSE "absent")]
  /\ att = [s \in Slots |-> Idle]

-----------------------------------------------------------------------------
(* The Workflow engine *)

At(s, pc) == att[s].pc = pc
Goto(s, pc) == att' = [att EXCEPT ![s].pc = pc] /\ UNCHANGED wf

\* The steps of the batches, in their order, and then the finish step
NextBatch(b, epoch) ==
  [stage |-> IF b < BatchCount THEN "batch" ELSE "finish", batch |-> b,
   epoch |-> epoch, tries |-> 0]

AfterReturn(i) ==
  CASE wf[i].stage = "batch" -> NextBatch(wf[i].batch + 1, wf[i].epoch)
    [] wf[i].stage = "finish" -> Rest("complete")
    [] OTHER -> Rest("errored")

\* The catch block of run releases the lease, if the claim step returned one.
AfterThrow(i) ==
  IF wf[i].tries < Attempts[wf[i].stage] THEN wf[i]
  ELSE IF wf[i].stage \in {"batch", "finish"}
  THEN [Rest("release") EXCEPT !.epoch = wf[i].epoch]
  ELSE Rest("errored")

\* The engine takes the outcome of the attempt it waits for, no other's.
EndAttempt(s, outcome) ==
  /\ att' = [att EXCEPT ![s] = Idle]
  /\ wf' = IF att[s].awaited THEN [wf EXCEPT ![att[s].inst] = outcome] ELSE wf

Return(s) == EndAttempt(s, AfterReturn(att[s].inst))
Throw(s) == EndAttempt(s, AfterThrow(att[s].inst))

\* "claim consolidation lease" returned the token, or null
ReturnLease(s, epoch) ==
  EndAttempt(s, NextBatch(0, epoch))
ReturnNull(s) == EndAttempt(s, Rest("complete"))

Active(i) == wf[i].stage \in DOMAIN FirstPc

StartAttempt(s, i) ==
  /\ att[s] = Idle
  /\ Active(i)
  /\ wf[i].tries < Attempts[wf[i].stage]
  /\ \A t \in Slots : ~(att[t].awaited /\ att[t].inst = i)
  /\ att' = [att EXCEPT ![s] =
       [Idle EXCEPT !.pc = FirstPc[wf[i].stage], !.inst = i, !.awaited = TRUE,
                    !.batch = wf[i].batch, !.epoch = wf[i].epoch]]
  /\ wf' = [wf EXCEPT ![i].tries = @ + 1]
  /\ UNCHANGED tables

\* A read or the model failed, or the project is not admitted any more; for an
\* attempt nobody waits for, also that its isolate is gone
AttemptFails(s) ==
  /\ att[s] # Idle
  /\ Throw(s)
  /\ UNCHANGED tables

\* The step times out, its attempt goes on.
TimeOut(s) ==
  /\ att[s].awaited
  /\ att' = [att EXCEPT ![s].awaited = FALSE]
  /\ wf' = [wf EXCEPT ![att[s].inst] = AfterThrow(att[s].inst)]
  /\ UNCHANGED tables

\* An operator or the platform ends the instance, and no catch block runs.
Terminate(i) ==
  /\ Active(i)
  /\ wf' = [wf EXCEPT ![i] = Rest("errored")]
  /\ att' = [s \in Slots |->
       IF att[s].inst = i THEN [att[s] EXCEPT !.awaited = FALSE] ELSE att[s]]
  /\ UNCHANGED tables

\* A repair instance is created once its predecessor has explicitly failed
\* (OutboxRecovery!SingleExecution).
Repair(i) ==
  /\ i + 1 \in Ids
  /\ wf[i].stage = "errored"
  /\ wf[i + 1].stage = "absent"
  /\ wf' = [wf EXCEPT ![i + 1].stage = "claim"]
  /\ UNCHANGED <<tables, att>>

-----------------------------------------------------------------------------
(* The lease *)

Terminal == {"complete", "noop"}

Claimable ==
  \/ con.status \in {"queued", "failed"}
  \/ con.status = "running" /\ ~con.live

\* Variant: the fence is the status alone.
OwnedByAnyone(a) == con.status = "running"

Owned(a) ==
  con.status = "running" /\ con.owner = a.inst /\ con.epoch = a.epoch
Held(a) == Owned(a) /\ con.live

Claimed(i) ==
  [con EXCEPT !.status = "running", !.owner = i, !.live = TRUE,
              !.epoch = @ + 1]

\* The row is the instance's own: the token, whoever's attempt claimed it.
InterpretClaim(s, row) ==
  IF row.status = "running" /\ row.owner = att[s].inst /\ row.live
  THEN ReturnLease(s, row.epoch)
  ELSE IF row.status \in Terminal THEN ReturnNull(s)
  ELSE Throw(s)

Claim(s) ==
  /\ At(s, "claim")
  /\ \/ /\ con' = IF Claimable THEN Claimed(att[s].inst) ELSE con
        /\ InterpretClaim(s, con')
     \/ /\ con' \in {con, IF Claimable THEN Claimed(att[s].inst) ELSE con}
        /\ Goto(s, "claimReread")
  /\ UNCHANGED <<receipts, outputs, rejected, foreign, clear>>

ClaimReread(s) ==
  /\ At(s, "claimReread")
  /\ InterpretClaim(s, con)
  /\ UNCHANGED tables

RenewRead(s) ==
  /\ At(s, "renew")
  /\ IF Held(att[s])
     THEN /\ att' = [att EXCEPT ![s].pc = "extend", ![s].seen = "current"]
          /\ UNCHANGED wf
     ELSE Throw(s)
  /\ UNCHANGED tables

\* The renewal of a batch goes on to its receipt, that of the finish step to
\* the receipt set.
AfterRenewal(s) ==
  [att[s] EXCEPT !.pc = IF att[s].batch < BatchCount THEN "recover" ELSE "verify",
                 !.seen = "other"]

\* The expiry becomes the one that s asked for: no attempt's other than that.
Extended(s) ==
  [t \in Slots |-> [att[t] EXCEPT !.seen = IF t = s THEN "asked" ELSE "other"]]

Extends(a) == Held(a) /\ a.seen = "current"

\* The compare-and-swap of lease_expires_at from the value the attempt read
RenewWrite(s) ==
  /\ At(s, "extend")
  /\ \/ /\ Extends(att[s])
        /\ \/ att' = [Extended(s) EXCEPT ![s] = AfterRenewal(s)]
           \/ att' = [Extended(s) EXCEPT ![s].pc = "extendReread"]
        /\ UNCHANGED wf
     \/ ~Extends(att[s]) /\ Throw(s)
     \/ Goto(s, "extendReread")
  /\ UNCHANGED tables

\* A renewal in doubt counts if the row has exactly the expiry it asked for.
RenewReread(s) ==
  /\ At(s, "extendReread")
  /\ IF Held(att[s]) /\ att[s].seen = "asked"
     THEN att' = [att EXCEPT ![s] = AfterRenewal(s)] /\ UNCHANGED wf
     ELSE Throw(s)
  /\ UNCHANGED tables

\* Twenty minutes without a renewal
LeaseExpires ==
  /\ con.status = "running" /\ con.live
  /\ con' = [con EXCEPT !.live = FALSE]
  /\ UNCHANGED <<receipts, outputs, rejected, foreign, clear, wf, att>>

-----------------------------------------------------------------------------
(* A batch *)

ReceiptsOf(b) == {r \in receipts : r.batch = b}
Linked(r) == r.outputs # {}

\* An earlier receipt, of whatever claim, stands for the batch; one whose
\* outputs or evidence are not as it says never does.
ExactPostState(r) ==
  /\ \A c \in r.outputs : <<r.batch, c>> \in outputs
  /\ Linked(r) => clear[Cites[r.batch]]

Recover(s) ==
  /\ At(s, "recover")
  /\ IF ReceiptsOf(att[s].batch) = {} THEN Goto(s, "prepare")
     ELSE IF \A r \in ReceiptsOf(att[s].batch) : ExactPostState(r)
     THEN Return(s) ELSE Throw(s)
  /\ UNCHANGED tables

\* Another candidate with this content, neither rejected nor of this batch
ActiveElsewhere(b, c) ==
  \/ c \in foreign
  \/ \E o \in outputs \ rejected : o[1] # b /\ o[2] = c

\* Inputs whose evidence is not clear are kept from the model, and duplicates
\* of active candidates are dropped.
Prepare(s) ==
  LET b == att[s].batch IN
  /\ At(s, "prepare")
  /\ \E suggested \in SUBSET Contents :
       /\ clear[Cites[b]] \/ suggested = {}
       /\ att' = [att EXCEPT ![s].pc = "persist", ![s].model = suggested,
            ![s].outputs = {c \in suggested : ~ActiveElsewhere(b, c)}]
  /\ UNCHANGED <<tables, wf>>

\* Variant: the filter of Prepare is trusted.
InsertedUnchecked(a) == {c \in a.outputs : Held(a)}

\* The outputs whose INSERT ... WHERE finds a row to write
Inserted(a) == {c \in a.outputs : Held(a) /\ ~ActiveElsewhere(a.batch, c)}

\* Variant: the receipt does not compare the rows with the manifest.
ReceiptUncompared(a) ==
  /\ Held(a)
  /\ ReceiptsOf(a.batch) = {}
  /\ a.outputs # {} => clear[Cites[a.batch]]

\* consolidation_batch_receipts_insert_guard and the primary key: anything that
\* differs from the manifest aborts the transaction.
ReceiptAdmitted(a) ==
  /\ Held(a)
  /\ ReceiptsOf(a.batch) = {}
  /\ Inserted(a) = a.outputs
  /\ a.outputs # {} => clear[Cites[a.batch]]

WriteBatch(a) ==
  /\ outputs' = outputs \cup {<<a.batch, c>> : c \in Inserted(a)}
  /\ receipts' = receipts \cup
       {[batch |-> a.batch, owner |-> a.inst, epoch |-> a.epoch,
         model |-> a.model, outputs |-> a.outputs]}

Persist(s) ==
  /\ At(s, "persist")
  /\ \/ ReceiptAdmitted(att[s]) /\ WriteBatch(att[s]) /\ Return(s)
     \/ ReceiptAdmitted(att[s]) /\ WriteBatch(att[s]) /\ Goto(s, "persistReread")
     \/ UNCHANGED <<outputs, receipts>> /\ Goto(s, "persistReread")
  /\ UNCHANGED <<con, rejected, foreign, clear>>

\* Variant: an answer that was lost counts as a success.
PersistAssumed(s) ==
  /\ At(s, "persistReread")
  /\ Return(s)
  /\ UNCHANGED tables

\* After a refusal or a lost answer only a receipt of the very same result
\* counts.
PersistReread(s) ==
  LET a == att[s] IN
  /\ At(s, "persistReread")
  /\ IF \E r \in ReceiptsOf(a.batch) :
          r.model = a.model /\ r.outputs = a.outputs /\ ExactPostState(r)
     THEN Return(s) ELSE Throw(s)
  /\ UNCHANGED tables

-----------------------------------------------------------------------------
(* Finish and release *)

\* Variant: an invalidated receipt set is accepted.
ReceiptSetUnvalidated ==
  /\ \A b \in Batches : Cardinality(ReceiptsOf(b)) = 1
  /\ \A r \in receipts : r.batch \in Batches
  /\ outputs = UNION {{<<r.batch, c>> : c \in r.outputs} : r \in receipts}

ReceiptSetExact ==
  /\ con.valid
  /\ \A b \in Batches : Cardinality(ReceiptsOf(b)) = 1
  /\ \A r \in receipts : r.batch \in Batches
  /\ outputs = UNION {{<<r.batch, c>> : c \in r.outputs} : r \in receipts}

ExactTerminal(a) ==
  /\ con.status = IF outputs = {} THEN "noop" ELSE "complete"
  /\ con.epoch = a.epoch

\* The finish step looks first whether an earlier attempt of it has finished.
FinishCheck(s) ==
  /\ At(s, "terminal")
  /\ IF ~ExactTerminal(att[s]) THEN Goto(s, "renew")
     ELSE IF ReceiptSetExact THEN Return(s) ELSE Throw(s)
  /\ UNCHANGED tables

Verify(s) ==
  /\ At(s, "verify")
  /\ IF ReceiptSetExact THEN Goto(s, "conclude") ELSE Throw(s)
  /\ UNCHANGED tables

\* Variant: the owner is left behind.
ReleasedWithOwner(status) == [con EXCEPT !.status = status, !.live = FALSE]

Released(status) ==
  [con EXCEPT !.status = status, !.owner = NoOwner, !.live = FALSE]

\* session_consolidations_terminal_receipt_guard
MayFinish(a) ==
  Held(a) /\ Cardinality(receipts) = BatchCount /\ ReceiptSetExact

FinishWrite(s) ==
  LET done == Released(IF outputs = {} THEN "noop" ELSE "complete") IN
  /\ At(s, "conclude")
  /\ \/ MayFinish(att[s]) /\ con' = done /\ Return(s)
     \/ MayFinish(att[s]) /\ con' = done /\ Goto(s, "settle")
     \/ con' = con /\ Goto(s, "settle")
  /\ UNCHANGED <<receipts, outputs, rejected, foreign, clear>>

FinishReread(s) ==
  /\ At(s, "settle")
  /\ IF ExactTerminal(att[s]) /\ ReceiptSetExact THEN Return(s) ELSE Throw(s)
  /\ UNCHANGED tables

ExactFailed(a) == con.status = "failed" /\ con.epoch = a.epoch

ReleaseCheck(s) ==
  /\ At(s, "released")
  /\ IF ExactFailed(att[s]) THEN Return(s) ELSE Goto(s, "release")
  /\ UNCHANGED tables

\* The release does not ask whether the lease has expired.
ReleaseWrite(s) ==
  LET freed == IF Owned(att[s]) THEN Released("failed") ELSE con IN
  /\ At(s, "release")
  /\ \/ Owned(att[s]) /\ con' = freed /\ Return(s)
     \/ con' \in {con, freed} /\ Goto(s, "releaseReread")
  /\ UNCHANGED <<receipts, outputs, rejected, foreign, clear>>

ReleaseReread(s) ==
  /\ At(s, "releaseReread")
  /\ IF ExactFailed(att[s]) THEN Return(s) ELSE Throw(s)
  /\ UNCHANGED tables

-----------------------------------------------------------------------------
(* The rest of the project *)

\* Another candidate with the content is submitted, or rejected.
OtherCandidate(c) ==
  /\ foreign' \in {foreign \cup {c}, foreign \ {c}}
  /\ UNCHANGED <<con, receipts, outputs, rejected, clear, wf, att>>

\* A maintainer rejects a candidate the consolidation proposed.
RejectOutput(o) ==
  /\ o \in outputs
  /\ rejected' = rejected \cup {o}
  /\ UNCHANGED <<con, receipts, outputs, foreign, clear, wf, att>>

\* Variant: the holder of the lease is trusted to look again.
NotHeld == {"queued", "failed"}

\* The statuses in which a change of linked evidence invalidates the receipts
Unfinished == {"queued", "running", "failed"}

\* An operator quarantines evidence, or clears it again.
ChangeSensitivity(e) ==
  /\ clear' = [clear EXCEPT ![e] = ~@]
  /\ con' = [con EXCEPT !.valid =
       @ /\ ~(/\ con.status \in Unfinished
              /\ \E r \in receipts : Linked(r) /\ Cites[r.batch] = e)]
  /\ UNCHANGED <<receipts, outputs, rejected, foreign, wf, att>>

-----------------------------------------------------------------------------

AttemptStep(s) ==
  \/ Claim(s) \/ ClaimReread(s)
  \/ RenewRead(s) \/ RenewWrite(s) \/ RenewReread(s)
  \/ Recover(s) \/ Prepare(s) \/ Persist(s) \/ PersistReread(s)
  \/ FinishCheck(s) \/ Verify(s) \/ FinishWrite(s) \/ FinishReread(s)
  \/ ReleaseCheck(s) \/ ReleaseWrite(s) \/ ReleaseReread(s)

Next ==
  \/ \E s \in Slots : AttemptStep(s) \/ AttemptFails(s) \/ TimeOut(s)
  \/ \E s \in Slots, i \in Ids : StartAttempt(s, i)
  \/ \E i \in Ids : Terminate(i) \/ Repair(i)
  \/ LeaseExpires
  \/ \E c \in Contents : OtherCandidate(c)
  \/ \E o \in Batches \X Contents : RejectOutput(o)
  \/ \E e \in Evidence : ChangeSensitivity(e)

Spec == Init /\ [][Next]_vars

-----------------------------------------------------------------------------
(* Properties *)

Lease ==
  [status : {"queued", "running", "failed", "complete", "noop"},
   owner : Ids \cup {NoOwner}, live : BOOLEAN, epoch : Nat,
   valid : BOOLEAN]

Receipt ==
  [batch : Batches, owner : Ids, epoch : Nat, model : SUBSET Contents,
   outputs : SUBSET Contents]

Instance ==
  [stage : {"absent", "claim", "batch", "finish", "release", "errored",
            "complete"},
   batch : 0 .. BatchCount, epoch : Nat, tries : Nat]

Attempt ==
  [pc : {"idle", "claim", "claimReread", "renew", "extend", "extendReread",
         "recover", "prepare", "persist", "persistReread", "terminal",
         "verify", "conclude", "settle", "released", "release",
         "releaseReread"},
   inst : Ids, awaited : BOOLEAN, batch : 0 .. BatchCount, epoch : Nat,
   seen : {"other", "current", "asked"}, model : SUBSET Contents,
   outputs : SUBSET Contents]

\* Types of the tables, the instances and the attempts; the row has a lease
\* exactly while it is running (session_consolidations_lease_update_guard).
TypeOK ==
  /\ con \in Lease
  /\ (con.owner # NoOwner) <=> con.status = "running"
  /\ con.live => con.status = "running"
  /\ receipts \in SUBSET Receipt
  /\ outputs \in SUBSET (Batches \X Contents)
  /\ rejected \in SUBSET outputs
  /\ foreign \in SUBSET Contents
  /\ clear \in [Evidence -> BOOLEAN]
  /\ wf \in [Ids -> Instance]
  /\ att \in [Slots -> Attempt]

\* A batch has at most one receipt, whichever attempts and instances raced for
\* it, and the stored outputs are exactly those the receipts list.
ReceiptsAreExact ==
  /\ \A q, r \in receipts : q.batch = r.batch => q = r
  /\ outputs = UNION {{<<r.batch, c>> : c \in r.outputs} : r \in receipts}

\* What an instance has got past is durable: the receipts of the earlier
\* batches, written under its claim or an earlier one, and, when it ends
\* without an error, the end of the consolidation.  So receipts are a prefix
\* of the batches, in the order of the claims.
ProgressIsDurable ==
  /\ \A i \in Ids :
       /\ wf[i].stage \in {"batch", "finish"} =>
            \A b \in Batches : b < wf[i].batch =>
              \E r \in receipts : r.batch = b /\ r.epoch <= wf[i].epoch
       /\ wf[i].stage = "complete" => con.status \in Terminal
  /\ \A r \in receipts :
       /\ r.epoch <= con.epoch
       /\ \A b \in Batches : b < r.batch =>
            \E q \in receipts : q.batch = b /\ q.epoch <= r.epoch

\* A finished consolidation has a receipt for every batch, its receipts were
\* never invalidated, and "noop" says that nothing was stored.
CompletionIsCovered ==
  con.status \in Terminal =>
    /\ con.valid
    /\ \A b \in Batches : \E r \in receipts : r.batch = b
    /\ (con.status = "noop") <=> (outputs = {})

\* A finished consolidation is never claimed, failed or added to again, by an
\* attempt of it that was given up or by a repair instance.
TerminalIsFinal ==
  [][con.status \in Terminal => UNCHANGED <<con, receipts, outputs>>]_vars

\* A live lease is not taken over; only an instance that has given up releases
\* it; and receipts are written by the attempts of its holder alone.
LeaseFences ==
  [][/\ con.live =>
          /\ con'.epoch = con.epoch
          /\ con'.status = "failed" => wf[con.owner].stage \in {"release", "errored"}
     /\ \A r \in receipts' \ receipts :
          con.live /\ r.owner = con.owner /\ r.epoch = con.epoch]_vars

\* No content is stored that another candidate of the project holds at that
\* moment, although the duplicates are filtered long before the transaction.
NothingStoredTwice ==
  [][\A o \in outputs' \ outputs : ~ActiveElsewhere(o[1], o[2])]_vars

\* When a consolidation finishes, the evidence of everything it stored is clear,
\* although it can be quarantined after its batch was written or recovered.
FinishedOnClearEvidence ==
  [][con.status # con'.status /\ con'.status \in Terminal =>
       \A o \in outputs : clear[Cites[o[1]]]]_vars

=============================================================================
