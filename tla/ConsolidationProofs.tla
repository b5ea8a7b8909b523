------------------------- MODULE ConsolidationProofs -------------------------
(***************************************************************************)
(* Proofs about Consolidation, for any number of batches, contents,        *)
(* repairs, attempts and attempts running at once.  The inductive          *)
(* invariant adds to the properties how the engine's view of an instance   *)
(* and its attempts fit together (EngineOK), that no token is newer than   *)
(* the row and none but the running instance's is the newest (EpochOK),    *)
(* that an attempt, even one given up, has the receipts of the earlier     *)
(* batches behind it (AttemptsOK), and that receipts not invalidated rest  *)
(* on clear evidence (EvidenceOK).                                         *)
(***************************************************************************)
EXTENDS Consolidation, FiniteSetTheorems, TLAPS

ClaimPcs == {"claim", "claimReread"}
BatchPcs == {"recover", "prepare", "persist", "persistReread"}
FinishPcs == {"terminal", "verify", "conclude", "settle"}
WorkPcs == BatchPcs \cup FinishPcs \cup {"renew", "extend", "extendReread"}
ReleasePcs == {"released", "release", "releaseReread"}
Steps == {"claim", "batch", "finish", "release"}
Holding == {"batch", "finish", "release"}

InstanceOK(w) ==
  /\ w.stage = "batch" => w.batch < BatchCount
  /\ w.stage = "finish" => w.batch = BatchCount
  /\ w.stage \notin {"batch", "finish"} => w.batch = 0

PcOK(a) ==
  /\ a.pc \in BatchPcs => a.batch < BatchCount
  /\ a.pc \in FinishPcs => a.batch = BatchCount

Matches(a, w) ==
  /\ w.stage \in Steps
  /\ w.stage = "claim" => a.pc \in ClaimPcs
  /\ w.stage \in {"batch", "finish"} => a.pc \in WorkPcs
  /\ w.stage = "release" => a.pc \in ReleasePcs
  /\ a.batch = w.batch
  /\ a.epoch = w.epoch

\* One instance runs at a time, and waits for at most one attempt, which is at
\* the step the instance is at.
EngineOK ==
  /\ \A i \in Ids : InstanceOK(wf[i])
  /\ \A s \in Slots : PcOK(att[s])
  /\ \A s \in Slots : att[s].awaited => Matches(att[s], wf[att[s].inst])
  /\ \A s \in Slots : att[s].pc \in ReleasePcs =>
       wf[att[s].inst].stage \in {"release", "errored"}
  /\ \A s, t \in Slots :
       att[s].awaited /\ att[t].awaited /\ att[s].inst = att[t].inst => s = t
  /\ \A i, j \in Ids : i < j /\ wf[j].stage # "absent" => wf[i].stage = "errored"

\* No token is newer than the row; nothing is newer than the token of the
\* instance that runs.
EpochOK ==
  /\ \A i \in Ids : wf[i].epoch <= con.epoch
  /\ \A s \in Slots : att[s].epoch <= con.epoch
  /\ \A r \in receipts : r.epoch <= con.epoch
  /\ \A i \in Ids : wf[i].stage \in Holding =>
       /\ \A s \in Slots : att[s].epoch <= wf[i].epoch
       /\ \A r \in receipts : r.epoch <= wf[i].epoch

\* The batches before b have receipts of the claims up to epoch e.
Behind(R, b, e) ==
  \A k \in Batches : k < b => \E r \in R : r.batch = k /\ r.epoch <= e

\* Attempts are of later batches only once the earlier ones have receipts.
AttemptsOK == \A s \in Slots : Behind(receipts, att[s].batch, att[s].epoch)

InstancesOK ==
  \A i \in Ids :
    /\ wf[i].stage \in {"batch", "finish"} =>
         Behind(receipts, wf[i].batch, wf[i].epoch)
    /\ wf[i].stage = "complete" => con.status \in Terminal

ReceiptsOK == \A r \in receipts : Behind(receipts, r.batch, r.epoch)

EvidenceOK ==
  con.valid /\ con.status \in Unfinished =>
    \A r \in receipts : Linked(r) => clear[Cites[r.batch]]

Inv ==
  /\ TypeOK /\ ReceiptsAreExact /\ CompletionIsCovered /\ EvidenceOK
  /\ EngineOK /\ EpochOK /\ AttemptsOK /\ InstancesOK /\ ReceiptsOK

-----------------------------------------------------------------------------
(* The shapes of a step *)

\* An attempt moves on within its step, or is given up.
AttemptMoves(a, n) ==
  /\ n.inst = a.inst /\ n.batch = a.batch /\ n.epoch = a.epoch
  /\ n.awaited => a.awaited
  /\ \A pcs \in {ClaimPcs, WorkPcs, ReleasePcs} : n.pc \in pcs <=> a.pc \in pcs
  /\ PcOK(n)

\* What the instance becomes when the attempt it waits for ends
OutcomeOK(w, i) ==
  /\ w \in Instance
  /\ InstanceOK(w)
  /\ w.stage # "absent"
  /\ wf[i].stage = "release" => w.stage \in {"release", "errored"}
  /\ w.epoch <= con'.epoch
  /\ w.stage \in Holding =>
       w.epoch = con'.epoch \/ (wf[i].stage \in Holding /\ w.epoch = wf[i].epoch)
  /\ w.stage \in {"batch", "finish"} => Behind(receipts', w.batch, w.epoch)
  /\ w.stage = "complete" => con'.status \in Terminal

\* What every step but a start and a repair does to the engine: attempts move
\* on or end, and instances take the outcome of an attempt they waited for.
Moves ==
  /\ att' \in [Slots -> Attempt]
  /\ wf' \in [Ids -> Instance]
  /\ \A t \in Slots : att'[t] = Idle \/ AttemptMoves(att[t], att'[t])
  /\ \A t \in Slots : att'[t].awaited => wf'[att[t].inst] = wf[att[t].inst]
  /\ \A i \in Ids :
       wf'[i] = wf[i] \/ (wf[i].stage \in Steps /\ OutcomeOK(wf'[i], i))

\* What every step does to the tables
TablesMove ==
  /\ con'.epoch \in Nat /\ con.epoch <= con'.epoch
  /\ con.status \in Terminal => con'.status \in Terminal
  /\ receipts \subseteq receipts'
  /\ \A r \in receipts' \ receipts :
       \E s \in Slots :
         r.batch = att[s].batch /\ r.epoch = att[s].epoch /\ att[s].pc = "persist"

LEMMA StepsOfFirstPc == DOMAIN FirstPc = Steps
  BY DEF FirstPc, Steps

LEMMA IdleTyped == Idle \in Attempt
  BY ConsolidationAssumption DEF Idle, Attempt, Ids

\* A read that fails: the instance retries, releases or gives up.
LEMMA ThrowOutcome ==
  ASSUME Inv, NEW i \in Ids, wf[i].stage \in Steps, TablesMove
  PROVE  OutcomeOK(AfterThrow(i), i)
<1>1. wf[i] \in Instance /\ InstanceOK(wf[i]) /\ wf[i].epoch <= con.epoch
  BY DEF Inv, TypeOK, EngineOK, EpochOK
<1>2. con.epoch \in Nat /\ con'.epoch \in Nat /\ wf[i].epoch \in Nat
  BY <1>1 DEF Inv, TypeOK, Lease, Instance, TablesMove
<1>3. CASE AfterThrow(i) = wf[i]
  <2>1. wf[i].stage \in {"batch", "finish"} => Behind(receipts', wf[i].batch, wf[i].epoch)
    BY DEF Inv, InstancesOK, Behind, TablesMove
  <2> QED BY <1>1, <1>2, <1>3, <2>1 DEF OutcomeOK, TablesMove, Steps, Holding
<1>4. CASE /\ wf[i].stage \in {"batch", "finish"}
           /\ AfterThrow(i) = [Rest("release") EXCEPT !.epoch = wf[i].epoch]
  <2> DEFINE w == [stage |-> "release", batch |-> 0, epoch |-> wf[i].epoch, tries |-> 0]
  <2>1. AfterThrow(i) = w BY <1>4 DEF Rest
  <2>2. w \in Instance BY <1>2, ConsolidationAssumption DEF Instance
  <2> QED BY <1>1, <1>2, <1>4, <2>1, <2>2 DEF OutcomeOK, TablesMove, InstanceOK, Holding
<1>5. CASE AfterThrow(i) = Rest("errored")
  <2>1. Rest("errored") \in Instance
    BY ConsolidationAssumption DEF Rest, Instance
  <2> QED BY <1>1, <1>2, <1>5, <2>1 DEF OutcomeOK, InstanceOK, Holding, Rest
<1> QED BY <1>3, <1>4, <1>5 DEF AfterThrow

-----------------------------------------------------------------------------
(* Every step but a start and a repair moves *)

\* One attempt goes on, the engine sees nothing.
LEMMA OneMoves ==
  ASSUME Inv, NEW s \in Slots, NEW n \in Attempt, AttemptMoves(att[s], n),
         att' = [att EXCEPT ![s] = n], wf' = wf
  PROVE  Moves
<1>1. att \in [Slots -> Attempt] /\ wf \in [Ids -> Instance]
  BY DEF Inv, TypeOK
<1>2. att' \in [Slots -> Attempt] BY <1>1
<1>3. ASSUME NEW t \in Slots PROVE AttemptMoves(att[t], att'[t])
  <2>1. CASE t = s BY <1>1, <2>1
  <2>2. CASE t # s
    <3>1. att'[t] = att[t] BY <1>1, <2>2
    <3>2. PcOK(att[t]) BY DEF Inv, EngineOK
    <3> QED BY <3>1, <3>2 DEF AttemptMoves
  <2> QED BY <2>1, <2>2
<1> QED BY <1>1, <1>2, <1>3 DEF Moves

\* The attempts that go on to their next statement
LEMMA GotoMoves ==
  ASSUME Inv, NEW s \in Slots, NEW pc, Goto(s, pc),
         \/ att[s].pc = "claim" /\ pc = "claimReread"
         \/ att[s].pc = "extend" /\ pc = "extendReread"
         \/ att[s].pc = "recover" /\ pc = "prepare"
         \/ att[s].pc = "persist" /\ pc = "persistReread"
         \/ att[s].pc = "terminal" /\ pc = "renew"
         \/ att[s].pc = "verify" /\ pc = "conclude"
         \/ att[s].pc = "conclude" /\ pc = "settle"
         \/ att[s].pc = "released" /\ pc = "release"
         \/ att[s].pc = "release" /\ pc = "releaseReread"
  PROVE  Moves
<1> DEFINE n == [att[s] EXCEPT !.pc = pc]
<1>1. att[s] \in Attempt /\ PcOK(att[s])
  BY DEF Inv, TypeOK, EngineOK
<1>2. n \in Attempt
  BY <1>1 DEF Attempt
<1>3. /\ n.pc = pc /\ n.inst = att[s].inst /\ n.batch = att[s].batch
      /\ n.epoch = att[s].epoch /\ n.awaited = att[s].awaited
  BY <1>1 DEF Attempt
<1>4. AttemptMoves(att[s], n)
  BY <1>1, <1>3
  DEF AttemptMoves, PcOK, ClaimPcs, WorkPcs, ReleasePcs, BatchPcs, FinishPcs
<1>5. att' = [att EXCEPT ![s] = n] /\ wf' = wf
  BY DEF Goto
<1> HIDE DEF n
<1> QED BY <1>2, <1>4, <1>5, OneMoves

\* An attempt ends, and its outcome counts if the instance waits for it.
LEMMA EndsMove ==
  ASSUME Inv, NEW s \in Slots, NEW w, EndAttempt(s, w),
         att[s].awaited => OutcomeOK(w, att[s].inst)
  PROVE  Moves
<1>1. att \in [Slots -> Attempt] /\ wf \in [Ids -> Instance] /\ att[s].inst \in Ids
  BY DEF Inv, TypeOK, Attempt
<1>2. att' = [att EXCEPT ![s] = Idle]
  BY DEF EndAttempt
<1>3. att' \in [Slots -> Attempt]
  BY <1>1, <1>2, IdleTyped
<1>4. ASSUME NEW t \in Slots, t # s
      PROVE  att'[t] = att[t] /\ AttemptMoves(att[t], att'[t])
  <2>1. att'[t] = att[t] BY <1>1, <1>2, <1>4
  <2>2. PcOK(att[t]) BY DEF Inv, EngineOK
  <2> QED BY <2>1, <2>2 DEF AttemptMoves
<1>5. att'[s] = Idle /\ ~att'[s].awaited
  BY <1>1, <1>2 DEF Idle
<1>6. CASE ~att[s].awaited
  <2>1. wf' = wf BY <1>6 DEF EndAttempt
  <2> QED BY <1>1, <1>3, <1>4, <1>5, <2>1 DEF Moves
<1>7. CASE att[s].awaited
  <2>1. wf' = [wf EXCEPT ![att[s].inst] = w] /\ OutcomeOK(w, att[s].inst)
    BY <1>7 DEF EndAttempt
  <2>2. wf' \in [Ids -> Instance]
    BY <1>1, <2>1 DEF OutcomeOK
  <2>3. wf[att[s].inst].stage \in Steps
    BY <1>7 DEF Inv, EngineOK, Matches
  <2>4. ASSUME NEW t \in Slots, att'[t].awaited
        PROVE  wf'[att[t].inst] = wf[att[t].inst]
    <3>1. t # s /\ att[t].awaited BY <1>4, <1>5, <2>4
    <3>2. att[t].inst # att[s].inst /\ att[t].inst \in Ids
      BY <1>7, <3>1 DEF Inv, EngineOK, TypeOK, Attempt
    <3> QED BY <1>1, <2>1, <3>2
  <2>5. ASSUME NEW i \in Ids
        PROVE  wf'[i] = wf[i] \/ (wf[i].stage \in Steps /\ OutcomeOK(wf'[i], i))
    BY <1>1, <2>1, <2>3
  <2> QED BY <1>3, <1>4, <1>5, <2>2, <2>4, <2>5 DEF Moves
<1> QED BY <1>6, <1>7

LEMMA ThrowMoves ==
  ASSUME Inv, NEW s \in Slots, Throw(s), TablesMove
  PROVE  Moves
<1>1. att[s].awaited => att[s].inst \in Ids /\ wf[att[s].inst].stage \in Steps
  BY DEF Inv, TypeOK, Attempt, EngineOK, Matches
<1> QED BY <1>1, ThrowOutcome, EndsMove DEF Throw

\* The step an awaited attempt is at, from where the attempt is
LEMMA AwaitedStage ==
  ASSUME Inv, NEW s \in Slots, att[s].awaited
  PROVE  LET w == wf[att[s].inst] IN
         /\ att[s].inst \in Ids /\ w \in Instance /\ w.epoch <= con.epoch
         /\ w.batch = att[s].batch /\ w.epoch = att[s].epoch
         /\ att[s].pc \in ClaimPcs => w.stage = "claim"
         /\ att[s].pc \in BatchPcs => w.stage = "batch"
         /\ att[s].pc \in FinishPcs => w.stage = "finish"
         /\ att[s].pc \in ReleasePcs => w.stage = "release"
<1> DEFINE w == wf[att[s].inst]
<1>1. att[s].inst \in Ids /\ w \in Instance /\ att[s] \in Attempt
  BY DEF Inv, TypeOK, Attempt
<1>2. InstanceOK(w) /\ PcOK(att[s]) /\ Matches(att[s], w) /\ w.epoch <= con.epoch
  BY <1>1 DEF Inv, EngineOK, EpochOK
<1>3. w.batch \in 0 .. BatchCount /\ BatchCount \in Nat
  BY <1>1, ConsolidationAssumption DEF Instance
<1> HIDE DEF w
<1>4. /\ att[s].pc \in ClaimPcs => w.stage = "claim"
      /\ att[s].pc \in ReleasePcs => w.stage = "release"
      /\ att[s].pc \in WorkPcs => w.stage \in {"batch", "finish"}
  BY <1>2 DEF Matches, Steps, ClaimPcs, WorkPcs, ReleasePcs, BatchPcs, FinishPcs
<1>5. /\ att[s].pc \in BatchPcs => w.batch < BatchCount
      /\ att[s].pc \in FinishPcs => w.batch = BatchCount
  BY <1>2 DEF PcOK, Matches
<1>6. att[s].pc \in BatchPcs => w.stage = "batch"
  BY <1>2, <1>3, <1>4, <1>5 DEF InstanceOK, WorkPcs
<1>7. att[s].pc \in FinishPcs => w.stage = "finish"
  BY <1>2, <1>3, <1>4, <1>5 DEF InstanceOK, WorkPcs
<1> QED BY <1>1, <1>2, <1>4, <1>6, <1>7 DEF w, Matches

\* The batch step returns: its receipt is there, of its claim or an earlier one.
LEMMA BatchReturns ==
  ASSUME Inv, TablesMove, NEW s \in Slots, Return(s), att[s].pc \in BatchPcs,
         \E r \in receipts' :
           /\ r.batch = att[s].batch
           /\ r \in receipts \/ r.epoch = att[s].epoch
  PROVE  Moves
<1> SUFFICES ASSUME att[s].awaited
             PROVE  OutcomeOK(AfterReturn(att[s].inst), att[s].inst)
  BY EndsMove DEF Return
<1> DEFINE i == att[s].inst
           w == AfterReturn(i)
<1>1. /\ i \in Ids /\ wf[i] \in Instance /\ wf[i].stage = "batch"
      /\ wf[i].batch = att[s].batch /\ wf[i].epoch = att[s].epoch
      /\ wf[i].epoch <= con.epoch
  BY AwaitedStage
<1>2. wf[i].batch \in Nat /\ wf[i].batch < BatchCount /\ BatchCount \in Nat
  BY <1>1, ConsolidationAssumption DEF Instance, Inv, EngineOK, InstanceOK
<1>3. w = NextBatch(wf[i].batch + 1, wf[i].epoch)
  BY <1>1 DEF AfterReturn
<1>4. /\ w.stage = IF wf[i].batch + 1 < BatchCount THEN "batch" ELSE "finish"
      /\ w.batch = wf[i].batch + 1 /\ w.epoch = wf[i].epoch /\ w.tries = 0
  BY <1>3 DEF NextBatch
<1>5. w \in Instance
  BY <1>1, <1>2, <1>3 DEF NextBatch, Instance
<1>6. Behind(receipts', w.batch, w.epoch)
  <2>1. Behind(receipts, wf[i].batch, wf[i].epoch)
    BY <1>1 DEF Inv, InstancesOK
  <2>2. \A r \in receipts : r.epoch <= wf[i].epoch
    BY <1>1 DEF Inv, EpochOK, Holding
  <2>3. \E r \in receipts' : r.batch = wf[i].batch /\ r.epoch <= wf[i].epoch
    BY <1>1, <2>2 DEF Instance
  <2>4. \A k \in Batches : k < w.batch => k < wf[i].batch \/ k = wf[i].batch
    BY <1>2, <1>4 DEF Batches
  <2> HIDE DEF w, i
  <2> QED BY <1>4, <2>1, <2>3, <2>4 DEF Behind, TablesMove
<1>7. con.epoch \in Nat /\ con'.epoch \in Nat /\ con.epoch <= con'.epoch /\ wf[i].epoch \in Nat
  BY <1>1 DEF Inv, TypeOK, Lease, Instance, TablesMove
<1>8. InstanceOK(w)
  BY <1>2, <1>4 DEF InstanceOK
<1> HIDE DEF w, i
<1> QED BY <1>1, <1>4, <1>5, <1>6, <1>7, <1>8 DEF OutcomeOK, Holding, w, i

\* The finish step returns once the consolidation is finished.
LEMMA FinishReturns ==
  ASSUME Inv, TablesMove, NEW s \in Slots, Return(s), att[s].pc \in FinishPcs,
         con'.status \in Terminal
  PROVE  Moves
<1> SUFFICES ASSUME att[s].awaited
             PROVE  OutcomeOK(AfterReturn(att[s].inst), att[s].inst)
  BY EndsMove DEF Return
<1>1. wf[att[s].inst].stage = "finish" /\ att[s].inst \in Ids
  BY AwaitedStage
<1>2. AfterReturn(att[s].inst) = Rest("complete")
  BY <1>1 DEF AfterReturn
<1>3. Rest("complete") \in Instance
  BY ConsolidationAssumption DEF Rest, Instance
<1> QED BY <1>1, <1>2, <1>3 DEF OutcomeOK, InstanceOK, Holding, Rest, TablesMove

LEMMA ReleaseReturns ==
  ASSUME Inv, TablesMove, NEW s \in Slots, Return(s), att[s].pc \in ReleasePcs
  PROVE  Moves
<1> SUFFICES ASSUME att[s].awaited
             PROVE  OutcomeOK(AfterReturn(att[s].inst), att[s].inst)
  BY EndsMove DEF Return
<1>1. wf[att[s].inst].stage = "release" /\ att[s].inst \in Ids
  BY AwaitedStage
<1>2. AfterReturn(att[s].inst) = Rest("errored")
  BY <1>1 DEF AfterReturn
<1>3. Rest("errored") \in Instance
  BY ConsolidationAssumption DEF Rest, Instance
<1> QED BY <1>1, <1>2, <1>3 DEF OutcomeOK, InstanceOK, Holding, Rest, TablesMove

\* The claim step returns the newest token, or null after the end.
LEMMA ClaimReturns ==
  ASSUME Inv, TablesMove, NEW s \in Slots, att[s].pc \in ClaimPcs,
         InterpretClaim(s, con')
  PROVE  Moves
<1>1. att[s].awaited => wf[att[s].inst].stage = "claim" /\ att[s].inst \in Ids
  BY AwaitedStage
<1>2. con'.epoch \in Nat BY DEF TablesMove
<1>3. CASE ReturnLease(s, con'.epoch)
  <2> DEFINE w == NextBatch(0, con'.epoch)
  <2>1. w \in Instance /\ InstanceOK(w) /\ w.epoch = con'.epoch /\ w.batch = 0
        /\ w.stage \in {"batch", "finish"}
    BY <1>2, ConsolidationAssumption DEF NextBatch, Instance, InstanceOK
  <2>2. Behind(receipts', 0, w.epoch)
    BY ConsolidationAssumption DEF Behind, Batches
  <2>3. EndAttempt(s, w)
    BY <1>3 DEF ReturnLease
  <2> HIDE DEF w
  <2>4. att[s].awaited => OutcomeOK(w, att[s].inst)
    BY <1>1, <1>2, <2>1, <2>2 DEF OutcomeOK
  <2> QED BY <2>3, <2>4, EndsMove
<1>4. CASE ReturnNull(s) /\ con'.status \in Terminal
  <2>1. Rest("complete") \in Instance
    BY ConsolidationAssumption DEF Rest, Instance
  <2>2. att[s].awaited => OutcomeOK(Rest("complete"), att[s].inst)
    BY <1>1, <1>2, <1>4, <2>1 DEF OutcomeOK, InstanceOK, Holding, Rest
  <2> QED BY <1>4, <2>2, EndsMove DEF ReturnNull
<1>5. CASE Throw(s)
  BY <1>5, ThrowMoves
<1> QED BY <1>3, <1>4, <1>5 DEF InterpretClaim

-----------------------------------------------------------------------------
(* The engine's part of the invariant *)

LEMMA EpochTypes ==
  ASSUME Inv
  PROVE  /\ con.epoch \in Nat
         /\ \A i \in Ids : wf[i].epoch \in Nat
         /\ \A s \in Slots : att[s].epoch \in Nat /\ att[s].inst \in Ids
         /\ \A r \in receipts : r.epoch \in Nat
  BY DEF Inv, TypeOK, Lease, Instance, Attempt, Receipt

\* Only one instance is active.
LEMMA OneActive ==
  ASSUME Inv, NEW i \in Ids, NEW j \in Ids,
         wf[i].stage \in Steps, wf[j].stage \in Steps
  PROVE  i = j
<1>1. i < j \/ i = j \/ j < i
  BY ConsolidationAssumption DEF Ids
<1> QED BY <1>1 DEF Inv, EngineOK, Steps

\* Receipts are never lost, so what was behind stays behind.
LEMMA BehindStays ==
  ASSUME TablesMove, NEW b, NEW e, Behind(receipts, b, e)
  PROVE  Behind(receipts', b, e)
  BY DEF Behind, TablesMove

LEMMA NewReceipts ==
  ASSUME Inv, TablesMove, NEW r \in receipts'
  PROVE  /\ r.epoch \in Nat /\ r.epoch <= con.epoch
         /\ \A i \in Ids : wf[i].stage \in Holding => r.epoch <= wf[i].epoch
         /\ Behind(receipts', r.batch, r.epoch)
<1>1. CASE r \in receipts
  BY <1>1, EpochTypes, BehindStays DEF Inv, EpochOK, ReceiptsOK
<1>2. CASE r \notin receipts
  <2>1. PICK s \in Slots : r.batch = att[s].batch /\ r.epoch = att[s].epoch
    BY <1>2 DEF TablesMove
  <2>2. Behind(receipts', att[s].batch, att[s].epoch)
    BY BehindStays DEF Inv, AttemptsOK
  <2> QED BY <2>1, <2>2, EpochTypes DEF Inv, EpochOK
<1> QED BY <1>1, <1>2

EngineInv ==
  EngineOK /\ EpochOK /\ AttemptsOK /\ InstancesOK /\ ReceiptsOK

\* What an attempt is after a step that moves
LEMMA MovedAttempt ==
  ASSUME Inv, Moves, NEW t \in Slots
  PROVE  /\ PcOK(att'[t])
         /\ att'[t].epoch = 0 \/ att'[t].epoch = att[t].epoch
         /\ Behind(receipts, att'[t].batch, att'[t].epoch)
         /\ att'[t].awaited \/ att'[t].pc \in ReleasePcs => AttemptMoves(att[t], att'[t])
<1>1. CASE att'[t] = Idle
  <2>1. Behind(receipts, 0, 0)
    BY ConsolidationAssumption DEF Behind, Batches
  <2> QED BY <1>1, <2>1 DEF Idle, PcOK, BatchPcs, FinishPcs, ReleasePcs
<1>2. CASE AttemptMoves(att[t], att'[t])
  BY <1>2 DEF AttemptMoves, Inv, AttemptsOK
<1> QED BY <1>1, <1>2 DEF Moves

LEMMA MovesEngine ==
  ASSUME Inv, Moves, TablesMove
  PROVE  EngineInv'
<1>1. ASSUME NEW j \in Ids
      PROVE  wf'[j] = wf[j] \/ (wf[j].stage \in Steps /\ OutcomeOK(wf'[j], j))
  BY DEF Moves
<1>2. EngineOK'
  <2>1. ASSUME NEW j \in Ids PROVE InstanceOK(wf'[j])
    BY <1>1 DEF Inv, EngineOK, OutcomeOK
  <2>2. ASSUME NEW t \in Slots PROVE PcOK(att'[t])
    BY MovedAttempt
  <2>3. ASSUME NEW t \in Slots, att'[t].awaited
        PROVE  /\ att[t].awaited /\ att'[t].inst = att[t].inst
               /\ Matches(att'[t], wf'[att'[t].inst])
    <3>1. AttemptMoves(att[t], att'[t])
      BY <2>3, MovedAttempt
    <3>2. Matches(att[t], wf[att[t].inst])
      BY <2>3, <3>1 DEF AttemptMoves, Inv, EngineOK
    <3>3. wf'[att'[t].inst] = wf[att[t].inst]
      BY <2>3, <3>1 DEF AttemptMoves, Moves
    <3> QED BY <2>3, <3>1, <3>2, <3>3 DEF AttemptMoves, Matches
  <2>4. ASSUME NEW t \in Slots, att'[t].pc \in ReleasePcs
        PROVE  wf'[att'[t].inst].stage \in {"release", "errored"}
    <3>1. att'[t].inst = att[t].inst /\ att[t].pc \in ReleasePcs
      BY <2>4, MovedAttempt DEF AttemptMoves
    <3>2. att[t].inst \in Ids /\ wf[att[t].inst].stage \in {"release", "errored"}
      BY <3>1, EpochTypes DEF Inv, EngineOK
    <3> QED BY <1>1, <3>1, <3>2 DEF OutcomeOK, Steps
  <2>5. ASSUME NEW s \in Slots, NEW t \in Slots,
               att'[s].awaited, att'[t].awaited, att'[s].inst = att'[t].inst
        PROVE  s = t
    BY <2>3, <2>5 DEF Inv, EngineOK
  <2>6. ASSUME NEW i \in Ids, NEW j \in Ids, i < j, wf'[j].stage # "absent"
        PROVE  wf'[i].stage = "errored"
    <3>1. wf[j].stage # "absent"
      BY <1>1, <2>6 DEF Steps
    <3>2. wf[i].stage = "errored"
      BY <2>6, <3>1 DEF Inv, EngineOK
    <3> QED BY <1>1, <3>2 DEF Steps
  <2> QED BY <2>1, <2>2, <2>3, <2>4, <2>5, <2>6 DEF EngineOK
<1>3. EpochOK'
  <2>1. con.epoch \in Nat /\ con'.epoch \in Nat /\ con.epoch <= con'.epoch
    BY EpochTypes DEF TablesMove
  <2>2. ASSUME NEW j \in Ids
        PROVE  /\ wf'[j].epoch \in Nat /\ wf'[j].epoch <= con'.epoch
               /\ wf'[j].stage \in Holding =>
                    \/ wf'[j].epoch = con'.epoch
                    \/ wf[j].stage \in Holding /\ wf'[j].epoch = wf[j].epoch
    <3>1. wf'[j] \in Instance BY DEF Moves
    <3> QED BY <1>1, <2>1, <3>1, EpochTypes DEF OutcomeOK, Instance, Inv, EpochOK
  <2>3. ASSUME NEW t \in Slots
        PROVE  /\ att'[t].epoch \in Nat /\ att'[t].epoch <= con'.epoch
               /\ \A j \in Ids : wf[j].stage \in Holding => att'[t].epoch <= wf[j].epoch
    <3>1. att'[t].epoch = 0 \/ att'[t].epoch = att[t].epoch
      BY MovedAttempt
    <3> QED BY <2>1, <3>1, EpochTypes DEF Inv, EpochOK
  <2>4. ASSUME NEW r \in receipts'
        PROVE  /\ r.epoch \in Nat /\ r.epoch <= con'.epoch
               /\ \A j \in Ids : wf[j].stage \in Holding => r.epoch <= wf[j].epoch
    <3>1. r.epoch \in Nat /\ r.epoch <= con.epoch BY NewReceipts
    <3> QED BY <2>1, <3>1, NewReceipts
  <2>5. ASSUME NEW j \in Ids, wf'[j].stage \in Holding
        PROVE  /\ \A t \in Slots : att'[t].epoch <= wf'[j].epoch
               /\ \A r \in receipts' : r.epoch <= wf'[j].epoch
    BY <2>2, <2>3, <2>4, <2>5
  <2> QED BY <2>2, <2>3, <2>4, <2>5 DEF EpochOK
<1>4. AttemptsOK'
  BY MovedAttempt, BehindStays DEF AttemptsOK
<1>5. InstancesOK'
  <2> SUFFICES ASSUME NEW j \in Ids
               PROVE  /\ wf'[j].stage \in {"batch", "finish"} =>
                           Behind(receipts', wf'[j].batch, wf'[j].epoch)
                      /\ wf'[j].stage = "complete" => con'.status \in Terminal
    BY DEF InstancesOK
  <2>1. CASE wf'[j] = wf[j]
    BY <2>1, BehindStays DEF Inv, InstancesOK, TablesMove
  <2>2. CASE OutcomeOK(wf'[j], j)
    BY <2>2 DEF OutcomeOK
  <2> QED BY <1>1, <2>1, <2>2
<1>6. ReceiptsOK'
  BY NewReceipts DEF ReceiptsOK
<1> QED BY <1>2, <1>3, <1>4, <1>5, <1>6 DEF EngineInv

-----------------------------------------------------------------------------
(* The actions of the engine *)

LEMMA StillTables ==
  ASSUME Inv, UNCHANGED tables
  PROVE  TablesMove
  BY EpochTypes DEF TablesMove, tables

\* An attempt starts with the token of its instance and nothing else of it.
LEMMA StartEngine ==
  ASSUME Inv, NEW s \in Slots, NEW i \in Ids, StartAttempt(s, i)
  PROVE  EngineInv' /\ att' \in [Slots -> Attempt] /\ wf' \in [Ids -> Instance]
<1> DEFINE n == [Idle EXCEPT !.pc = FirstPc[wf[i].stage], !.inst = i,
                             !.awaited = TRUE, !.batch = wf[i].batch,
                             !.epoch = wf[i].epoch]
           w == [wf[i] EXCEPT !.tries = @ + 1]
<1>1. /\ att \in [Slots -> Attempt] /\ wf \in [Ids -> Instance]
      /\ wf[i] \in Instance /\ wf[i].stage \in Steps
      /\ receipts' = receipts /\ con' = con
  BY StepsOfFirstPc DEF Inv, TypeOK, StartAttempt, Active, tables
<1>2. att' = [att EXCEPT ![s] = n]
  BY DEF StartAttempt
<1>3. wf' = [wf EXCEPT ![i] = w]
  BY DEF StartAttempt
<1>4. FirstPc[wf[i].stage] =
        CASE wf[i].stage = "claim" -> "claim"
          [] wf[i].stage = "batch" -> "renew"
          [] wf[i].stage = "finish" -> "terminal"
          [] wf[i].stage = "release" -> "released"
  BY <1>1 DEF FirstPc, Steps
<1>5. n \in Attempt /\ w \in Instance
  <2>1. FirstPc[wf[i].stage] \in {"claim", "renew", "terminal", "released"}
    BY <1>1, <1>4 DEF Steps
  <2>2. wf[i].batch \in 0 .. BatchCount /\ wf[i].epoch \in Nat /\ wf[i].tries \in Nat
    BY <1>1 DEF Instance
  <2>3. n \in Attempt BY <2>1, <2>2, IdleTyped DEF Attempt
  <2>4. w \in Instance BY <1>1, <2>2 DEF Instance
  <2> QED BY <2>3, <2>4
<1>6. /\ w.stage = wf[i].stage /\ w.batch = wf[i].batch /\ w.epoch = wf[i].epoch
      /\ n.pc = FirstPc[wf[i].stage] /\ n.inst = i /\ n.awaited = TRUE
      /\ n.batch = wf[i].batch /\ n.epoch = wf[i].epoch
  BY <1>1, IdleTyped DEF Instance, Attempt
<1> HIDE DEF n, w
<1>7. att' \in [Slots -> Attempt] /\ wf' \in [Ids -> Instance]
  BY <1>1, <1>2, <1>3, <1>5
<1>8. att'[s] = n /\ \A t \in Slots : t # s => att'[t] = att[t]
  BY <1>1, <1>2
<1>9. /\ wf'[i] = w /\ \A j \in Ids : j # i => wf'[j] = wf[j]
      /\ \A j \in Ids : wf'[j].stage = wf[j].stage
      /\ \A j \in Ids : wf'[j].batch = wf[j].batch
      /\ \A j \in Ids : wf'[j].epoch = wf[j].epoch
  BY <1>1, <1>3, <1>6
<1>10. EngineOK'
  <2>1. ASSUME NEW j \in Ids PROVE InstanceOK(wf'[j])
    BY <1>9 DEF Inv, EngineOK, InstanceOK
  <2>2. PcOK(n) /\ Matches(n, w)
    <3>1. InstanceOK(wf[i]) BY DEF Inv, EngineOK
    <3> QED BY <1>1, <1>4, <1>6, <3>1
            DEF PcOK, Matches, InstanceOK, Steps, ClaimPcs, BatchPcs, FinishPcs,
                WorkPcs, ReleasePcs
  <2>3. ASSUME NEW t \in Slots PROVE PcOK(att'[t])
    BY <1>8, <2>2 DEF Inv, EngineOK
  <2>4. ASSUME NEW t \in Slots, att'[t].awaited
        PROVE  Matches(att'[t], wf'[att'[t].inst])
    <3>1. CASE t = s BY <1>6, <1>8, <1>9, <2>2, <3>1
    <3>2. CASE t # s
      BY <1>8, <1>9, <2>4, <3>2, EpochTypes DEF Inv, EngineOK, Matches
    <3> QED BY <3>1, <3>2
  <2>5. ASSUME NEW t \in Slots, att'[t].pc \in ReleasePcs
        PROVE  wf'[att'[t].inst].stage \in {"release", "errored"}
    <3>1. CASE t = s
      BY <1>1, <1>4, <1>6, <1>8, <1>9, <2>5, <3>1 DEF ReleasePcs, Steps
    <3>2. CASE t # s
      BY <1>8, <1>9, <2>5, <3>2, EpochTypes DEF Inv, EngineOK
    <3> QED BY <3>1, <3>2
  <2>6. ASSUME NEW u \in Slots, NEW t \in Slots,
               att'[u].awaited, att'[t].awaited, att'[u].inst = att'[t].inst
        PROVE  u = t
    <3>1. \A x \in Slots : ~(att[x].awaited /\ att[x].inst = i)
      BY DEF StartAttempt
    <3>2. CASE u # s /\ t # s BY <1>8, <2>6, <3>2 DEF Inv, EngineOK
    <3>3. CASE u = s \/ t = s BY <1>6, <1>8, <2>6, <3>1, <3>3
    <3> QED BY <3>2, <3>3
  <2>7. ASSUME NEW k \in Ids, NEW j \in Ids, k < j, wf'[j].stage # "absent"
        PROVE  wf'[k].stage = "errored"
    BY <1>9, <2>7 DEF Inv, EngineOK
  <2> QED BY <2>1, <2>3, <2>4, <2>5, <2>6, <2>7 DEF EngineOK
<1>11. EpochOK'
  <2>1. \A j \in Ids : wf[j].stage \in Holding => j = i
    BY <1>1, OneActive DEF Holding, Steps
  <2>2. \A t \in Slots : att'[t].epoch = wf[i].epoch \/ att'[t].epoch = att[t].epoch
    BY <1>6, <1>8
  <2> QED BY <1>1, <1>9, <2>1, <2>2, EpochTypes DEF Inv, EpochOK
<1>12. AttemptsOK'
  <2>1. Behind(receipts, wf[i].batch, wf[i].epoch)
    <3>1. CASE wf[i].stage \in {"batch", "finish"}
      BY <3>1 DEF Inv, InstancesOK
    <3>2. CASE wf[i].stage \notin {"batch", "finish"}
      <4>1. wf[i].batch = 0 BY <3>2 DEF Inv, EngineOK, InstanceOK
      <4> QED BY <4>1, ConsolidationAssumption DEF Behind, Batches
    <3> QED BY <3>1, <3>2
  <2> QED BY <1>1, <1>6, <1>8, <2>1 DEF Inv, AttemptsOK
<1>13. InstancesOK' /\ ReceiptsOK'
  BY <1>1, <1>9 DEF Inv, InstancesOK, ReceiptsOK
<1> QED BY <1>7, <1>10, <1>11, <1>12, <1>13 DEF EngineInv

\* A repair begins when its predecessor, and so every instance, has failed.
LEMMA RepairEngine ==
  ASSUME Inv, NEW i \in Ids, Repair(i)
  PROVE  EngineInv' /\ att' \in [Slots -> Attempt] /\ wf' \in [Ids -> Instance]
<1> DEFINE w == [wf[i + 1] EXCEPT !.stage = "claim"]
<1>1. /\ wf \in [Ids -> Instance] /\ i + 1 \in Ids /\ wf[i + 1] \in Instance
      /\ att' = att /\ receipts' = receipts /\ con' = con
      /\ wf[i].stage = "errored" /\ wf[i + 1].stage = "absent"
  BY DEF Inv, TypeOK, Repair, tables
<1>2. wf' = [wf EXCEPT ![i + 1] = w]
  BY DEF Repair
<1>3. w \in Instance /\ w.stage = "claim" /\ w.batch = wf[i + 1].batch /\ w.epoch = wf[i + 1].epoch
  BY <1>1 DEF Instance
<1> HIDE DEF w
<1>4. wf' \in [Ids -> Instance]
  BY <1>1, <1>2, <1>3
<1>5. wf'[i + 1] = w /\ \A j \in Ids : j # i + 1 => wf'[j] = wf[j]
  BY <1>1, <1>2
<1>6. EngineOK'
  <2>1. \A j \in Ids : InstanceOK(wf'[j])
    BY <1>1, <1>3, <1>5 DEF Inv, EngineOK, InstanceOK
  <2>2. \A t \in Slots : PcOK(att'[t])
    BY <1>1 DEF Inv, EngineOK
  <2>3. ASSUME NEW t \in Slots, att[t].awaited \/ att[t].pc \in ReleasePcs
        PROVE  wf'[att[t].inst] = wf[att[t].inst]
    <3>1. wf[att[t].inst].stage # "absent"
      BY <2>3 DEF Inv, EngineOK, Matches, Steps
    <3> QED BY <1>1, <1>5, <3>1, EpochTypes
  <2>4. ASSUME NEW k \in Ids, NEW j \in Ids, k < j, wf'[j].stage # "absent"
        PROVE  wf'[k].stage = "errored"
    <3>1. CASE j = i + 1
      <4>1. k = i \/ k < i
        BY <2>4, <3>1, ConsolidationAssumption DEF Ids
      <4>2. wf[k].stage = "errored"
        BY <1>1, <4>1 DEF Inv, EngineOK
      <4> QED BY <1>1, <1>5, <4>2
    <3>2. CASE j # i + 1
      <4>1. wf[k].stage = "errored"
        BY <1>5, <2>4, <3>2 DEF Inv, EngineOK
      <4> QED BY <1>1, <1>5, <4>1
    <3> QED BY <3>1, <3>2
  <2> QED BY <1>1, <2>1, <2>2, <2>3, <2>4 DEF Inv, EngineOK
<1>7. EpochOK'
  BY <1>1, <1>3, <1>5 DEF Inv, EpochOK, Holding
<1>8. AttemptsOK' /\ InstancesOK' /\ ReceiptsOK'
  BY <1>1, <1>3, <1>5 DEF Inv, AttemptsOK, InstancesOK, ReceiptsOK
<1> QED BY <1>1, <1>4, <1>6, <1>7, <1>8 DEF EngineInv, Inv, TypeOK

\* An attempt that is given up goes on, and its instance as after a throw.
LEMMA TimeOutMoves ==
  ASSUME Inv, NEW s \in Slots, TimeOut(s)
  PROVE  Moves
<1> DEFINE n == [att[s] EXCEPT !.awaited = FALSE]
           k == att[s].inst
<1>1. /\ att \in [Slots -> Attempt] /\ wf \in [Ids -> Instance]
      /\ att[s] \in Attempt /\ att[s].awaited /\ k \in Ids
  BY DEF Inv, TypeOK, Attempt, TimeOut
<1>2. wf[k].stage \in Steps
  BY <1>1 DEF Inv, EngineOK, Matches
<1>3. OutcomeOK(AfterThrow(k), k)
  BY <1>1, <1>2, ThrowOutcome, StillTables DEF TimeOut
<1>4. att' = [att EXCEPT ![s] = n] /\ wf' = [wf EXCEPT ![k] = AfterThrow(k)]
  BY DEF TimeOut
<1>5. n \in Attempt /\ n.awaited = FALSE /\ n.pc = att[s].pc /\ n.inst = k
      /\ n.batch = att[s].batch /\ n.epoch = att[s].epoch
  BY <1>1 DEF Attempt
<1>6. \A t \in Slots : PcOK(att[t])
  BY DEF Inv, EngineOK
<1> HIDE DEF n, k
<1>7. att' \in [Slots -> Attempt] /\ wf' \in [Ids -> Instance]
  BY <1>1, <1>3, <1>4, <1>5 DEF OutcomeOK
<1>8. ASSUME NEW t \in Slots PROVE AttemptMoves(att[t], att'[t])
  <2>1. CASE t = s
    BY <1>1, <1>4, <1>5, <1>6, <2>1 DEF AttemptMoves, PcOK, k
  <2>2. CASE t # s
    <3>1. att'[t] = att[t] BY <1>1, <1>4, <2>2
    <3> QED BY <1>6, <3>1 DEF AttemptMoves
  <2> QED BY <2>1, <2>2
<1>9. ASSUME NEW t \in Slots, att'[t].awaited
      PROVE  wf'[att[t].inst] = wf[att[t].inst]
  <2>1. t # s /\ att'[t] = att[t]
    BY <1>1, <1>4, <1>5, <1>9
  <2>2. att[t].inst \in Ids /\ att[t].inst # k
    BY <1>1, <1>9, <2>1, EpochTypes DEF Inv, EngineOK, k
  <2> QED BY <1>1, <1>4, <2>2
<1>10. ASSUME NEW j \in Ids
       PROVE  wf'[j] = wf[j] \/ (wf[j].stage \in Steps /\ OutcomeOK(wf'[j], j))
  BY <1>1, <1>2, <1>3, <1>4
<1> QED BY <1>7, <1>8, <1>9, <1>10 DEF Moves

LEMMA TerminateMoves ==
  ASSUME Inv, NEW i \in Ids, Terminate(i)
  PROVE  Moves
<1>1. /\ att \in [Slots -> Attempt] /\ wf \in [Ids -> Instance]
      /\ wf[i].stage \in Steps
  BY StepsOfFirstPc DEF Inv, TypeOK, Terminate, Active
<1>2. /\ wf' = [wf EXCEPT ![i] = Rest("errored")]
      /\ att' = [t \in Slots |->
           IF att[t].inst = i THEN [att[t] EXCEPT !.awaited = FALSE] ELSE att[t]]
  BY DEF Terminate
<1>3. Rest("errored") \in Instance
  BY ConsolidationAssumption DEF Rest, Instance
<1>4. OutcomeOK(Rest("errored"), i)
  <2>1. con'.epoch \in Nat BY StillTables DEF Terminate, TablesMove
  <2> QED BY <1>3, <2>1 DEF OutcomeOK, InstanceOK, Holding, Rest
<1>5. ASSUME NEW t \in Slots
      PROVE  /\ att'[t] \in Attempt /\ AttemptMoves(att[t], att'[t])
             /\ att'[t].awaited => att[t].inst # i
  <2>1. att[t] \in Attempt /\ PcOK(att[t])
    BY <1>1 DEF Inv, EngineOK
  <2>2. CASE att[t].inst = i
    <3> DEFINE n == [att[t] EXCEPT !.awaited = FALSE]
    <3>1. att'[t] = n BY <1>2, <2>2
    <3>2. n \in Attempt /\ n.awaited = FALSE /\ n.pc = att[t].pc
          /\ n.inst = att[t].inst /\ n.batch = att[t].batch /\ n.epoch = att[t].epoch
      BY <2>1 DEF Attempt
    <3> HIDE DEF n
    <3> QED BY <2>1, <3>1, <3>2 DEF AttemptMoves, PcOK
  <2>3. CASE att[t].inst # i
    <3>1. att'[t] = att[t] BY <1>2, <2>3
    <3> QED BY <2>1, <2>3, <3>1 DEF AttemptMoves
  <2> QED BY <2>2, <2>3
<1>6. att' \in [Slots -> Attempt] /\ wf' \in [Ids -> Instance]
  BY <1>1, <1>2, <1>3, <1>5
<1>7. \A t \in Slots : att'[t].awaited => wf'[att[t].inst] = wf[att[t].inst]
  BY <1>1, <1>2, <1>5, EpochTypes
<1> QED BY <1>1, <1>2, <1>4, <1>5, <1>6, <1>7 DEF Moves

-----------------------------------------------------------------------------
(* The tables' part of the invariant *)

TablesTyped ==
  /\ con \in Lease
  /\ (con.owner # NoOwner) <=> con.status = "running"
  /\ con.live => con.status = "running"
  /\ receipts \in SUBSET Receipt
  /\ outputs \in SUBSET (Batches \X Contents)
  /\ rejected \in SUBSET outputs
  /\ foreign \in SUBSET Contents
  /\ clear \in [Evidence -> BOOLEAN]

\* What every step keeps, and what it may do
TablesInv ==
  TablesTyped /\ ReceiptsAreExact /\ CompletionIsCovered /\ EvidenceOK

TablesStep ==
  /\ con.status \in Terminal => UNCHANGED <<con, receipts, outputs>>
  /\ con.live =>
       /\ con'.epoch = con.epoch
       /\ con'.status = "failed" => wf[con.owner].stage \in {"release", "errored"}
  /\ \A r \in receipts' \ receipts :
       con.live /\ r.owner = con.owner /\ r.epoch = con.epoch
  /\ \A o \in outputs' \ outputs : ~ActiveElsewhere(o[1], o[2])
  /\ con.status # con'.status /\ con'.status \in Terminal =>
       \A o \in outputs : clear[Cites[o[1]]]

TablesOK == TablesInv' /\ TablesMove /\ TablesStep

LEMMA TablesNow ==
  ASSUME Inv
  PROVE  TablesInv /\ con \in Lease /\ con.epoch \in Nat /\ NoOwner \notin Ids
  BY ConsolidationAssumption
  DEF Inv, TypeOK, TablesInv, TablesTyped, Lease, NoOwner, Ids

\* A step that leaves the tables alone
LEMMA UnchangedTables ==
  ASSUME Inv, UNCHANGED tables
  PROVE  TablesOK
<1>1. TablesMove BY StillTables
<1>2. TablesInv'
  BY TablesNow DEF tables, TablesInv, TablesTyped, ReceiptsAreExact, CompletionIsCovered,
     EvidenceOK
<1>3. con.live => con.status # "failed"
  BY TablesNow DEF TablesInv, TablesTyped
<1>4. TablesStep
  BY <1>3 DEF TablesStep, tables
<1> QED BY <1>1, <1>2, <1>4 DEF TablesOK

\* A step that writes the row alone, into neither end
LEMMA RowTables ==
  ASSUME Inv, UNCHANGED <<receipts, outputs, rejected, foreign, clear>>,
         con.status \notin Terminal, con' \in Lease, con'.status \notin Terminal,
         (con'.owner # NoOwner) <=> con'.status = "running",
         con'.live => con'.status = "running",
         con'.valid = con.valid, con.epoch <= con'.epoch,
         con.live => con'.epoch = con.epoch,
         con'.status = "failed" => wf[con.owner].stage \in {"release", "errored"}
  PROVE  TablesOK
<1>1. TablesInv /\ con \in Lease
  BY TablesNow
<1>2. TablesMove
  BY DEF TablesMove, Lease
<1>3. TablesTyped' /\ ReceiptsAreExact' /\ CompletionIsCovered'
  BY <1>1 DEF TablesInv, TablesTyped, ReceiptsAreExact, CompletionIsCovered
<1>4. con.status \in Unfinished
  BY <1>1 DEF Lease, Unfinished, Terminal
<1>5. EvidenceOK'
  BY <1>1, <1>4 DEF TablesInv, EvidenceOK
<1>6. TablesStep
  BY DEF TablesStep
<1> QED BY <1>2, <1>3, <1>5, <1>6 DEF TablesOK, TablesInv

\* A lease is claimed when nobody holds it.
LEMMA ClaimTables ==
  ASSUME Inv, NEW s \in Slots, Claim(s)
  PROVE  TablesOK
<1>1. TablesInv /\ con \in Lease /\ con.epoch \in Nat /\ NoOwner \notin Ids
  BY TablesNow
<1>2. CASE con' = con
  BY <1>2, UnchangedTables DEF Claim, tables
<1>3. CASE Claimable /\ con' = Claimed(att[s].inst)
  <2>1. att[s].inst \in Ids BY EpochTypes
  <2>2. /\ con'.status = "running" /\ con'.owner = att[s].inst /\ con'.live = TRUE
        /\ con'.epoch = con.epoch + 1 /\ con'.valid = con.valid /\ con' \in Lease
    <3>1. con.epoch + 1 \in Nat BY <1>1
    <3>2. con' = [con EXCEPT !.status = "running", !.owner = att[s].inst,
                             !.live = TRUE, !.epoch = con.epoch + 1]
      BY <1>3 DEF Claimed
    <3>3. con' \in Lease
      BY <1>1, <2>1, <3>1, <3>2 DEF Lease
    <3> QED BY <1>1, <3>2, <3>3 DEF Lease
  <2>3. con.status \notin Terminal /\ ~con.live
    BY <1>1, <1>3 DEF Claimable, Terminal, TablesInv, TablesTyped
  <2>4. UNCHANGED <<receipts, outputs, rejected, foreign, clear>>
    BY DEF Claim
  <2> QED BY <1>1, <2>1, <2>2, <2>3, <2>4, RowTables DEF Terminal
<1> QED BY <1>2, <1>3 DEF Claim

LEMMA ExpiryTables ==
  ASSUME Inv, LeaseExpires
  PROVE  TablesOK
<1>1. TablesInv /\ con \in Lease /\ con.epoch \in Nat
  BY TablesNow
<1>2. /\ con'.status = "running" /\ con'.owner = con.owner /\ con'.live = FALSE
      /\ con'.epoch = con.epoch /\ con'.valid = con.valid /\ con' \in Lease
      /\ con.status = "running"
  BY <1>1 DEF LeaseExpires, Lease
<1>3. UNCHANGED <<receipts, outputs, rejected, foreign, clear>>
  BY DEF LeaseExpires
<1> QED BY <1>1, <1>2, <1>3, RowTables DEF Terminal, TablesInv, TablesTyped

\* A release by an attempt of the owner, which has given up
LEMMA ReleaseTables ==
  ASSUME Inv, NEW s \in Slots, ReleaseWrite(s)
  PROVE  TablesOK
<1>1. TablesInv /\ con \in Lease /\ con.epoch \in Nat
  BY TablesNow
<1>2. CASE con' = con
  BY <1>2, UnchangedTables DEF ReleaseWrite, tables
<1>3. CASE Owned(att[s]) /\ con' = Released("failed")
  <2>1. /\ con'.status = "failed" /\ con'.owner = NoOwner /\ con'.live = FALSE
        /\ con'.epoch = con.epoch /\ con'.valid = con.valid /\ con' \in Lease
    BY <1>1, <1>3 DEF Released, Lease
  <2>2. con.status = "running" /\ con.owner = att[s].inst
    BY <1>3 DEF Owned
  <2>3. wf[con.owner].stage \in {"release", "errored"}
    BY <2>2 DEF ReleaseWrite, At, ReleasePcs, Inv, EngineOK
  <2>4. UNCHANGED <<receipts, outputs, rejected, foreign, clear>>
    BY DEF ReleaseWrite
  <2> QED BY <1>1, <2>1, <2>2, <2>3, <2>4, RowTables DEF Terminal
<1> QED BY <1>2, <1>3 DEF ReleaseWrite

\* The transaction of a batch writes what the manifest says, or nothing.
LEMMA PersistTables ==
  ASSUME Inv, NEW s \in Slots, Persist(s)
  PROVE  TablesOK
<1>1. TablesInv /\ con \in Lease /\ con.epoch \in Nat
  BY TablesNow
<1>2. CASE UNCHANGED <<outputs, receipts>>
  BY <1>2, UnchangedTables DEF Persist, tables
<1>3. CASE ReceiptAdmitted(att[s]) /\ WriteBatch(att[s])
  <2> DEFINE a == att[s]
             new == [batch |-> a.batch, owner |-> a.inst, epoch |-> a.epoch,
                     model |-> a.model, outputs |-> a.outputs]
             rows == {<<a.batch, c>> : c \in a.outputs}
  <2>1. a \in Attempt /\ a.pc = "persist" /\ a.batch < BatchCount
    BY DEF Inv, TypeOK, Persist, At, EngineOK, PcOK, BatchPcs
  <2>2. a.batch \in Batches
    BY <2>1, ConsolidationAssumption DEF Attempt, Batches
  <2>3. /\ con.status = "running" /\ con.owner = a.inst /\ con.epoch = a.epoch
        /\ con.live = TRUE /\ ReceiptsOf(a.batch) = {} /\ Inserted(a) = a.outputs
        /\ a.outputs # {} => clear[Cites[a.batch]]
    BY <1>1, <1>3 DEF ReceiptAdmitted, Held, Owned, Lease
  <2>4. receipts' = receipts \cup {new} /\ outputs' = outputs \cup rows
    BY <1>3, <2>3 DEF WriteBatch
  <2>5. con' = con /\ rejected' = rejected /\ foreign' = foreign /\ clear' = clear
    BY DEF Persist
  <2>6. /\ new \in Receipt /\ new.batch = a.batch /\ new.owner = a.inst
        /\ new.epoch = a.epoch /\ new.outputs = a.outputs
    BY <2>1, <2>2 DEF Receipt, Attempt
  <2>7. rows \in SUBSET (Batches \X Contents)
    BY <2>1, <2>2 DEF Attempt
  <2>8. \A r \in receipts : r.batch # a.batch
    BY <2>3 DEF ReceiptsOf
  <2>9. \A c \in a.outputs : ~ActiveElsewhere(a.batch, c)
    BY <2>3 DEF Inserted
  <2>10. rows = {<<new.batch, c>> : c \in new.outputs}
    BY <2>6
  <2> HIDE DEF new, a
  <2>11. TablesTyped'
    BY <1>1, <2>4, <2>5, <2>6, <2>7 DEF TablesInv, TablesTyped
  <2>12. ReceiptsAreExact'
    <3>1. \A q, r \in receipts' : q.batch = r.batch => q = r
      BY <1>1, <2>4, <2>6, <2>8 DEF TablesInv, ReceiptsAreExact
    <3>2. outputs' = UNION {{<<r.batch, c>> : c \in r.outputs} : r \in receipts'}
      <4> HIDE DEF rows
      <4>1. outputs = UNION {{<<r.batch, c>> : c \in r.outputs} : r \in receipts}
        BY <1>1 DEF TablesInv, ReceiptsAreExact
      <4> QED BY <2>4, <2>10, <4>1
    <3> QED BY <3>1, <3>2 DEF ReceiptsAreExact
  <2>13. CompletionIsCovered'
    BY <2>3, <2>5 DEF CompletionIsCovered, Terminal
  <2>14. EvidenceOK'
    BY <1>1, <2>3, <2>4, <2>5, <2>6 DEF TablesInv, EvidenceOK, Linked
  <2>15. TablesMove
    BY <1>1, <2>1, <2>3, <2>4, <2>5, <2>6 DEF TablesMove, Terminal, a
  <2>16. \A r \in receipts' \ receipts :
           con.live /\ r.owner = con.owner /\ r.epoch = con.epoch
    BY <2>3, <2>4, <2>6
  <2>17. \A o \in outputs' \ outputs : ~ActiveElsewhere(o[1], o[2])
    BY <2>4, <2>9
  <2>18. TablesStep
    BY <2>3, <2>5, <2>16, <2>17 DEF TablesStep, Terminal
  <2> QED BY <2>11, <2>12, <2>13, <2>14, <2>15, <2>18 DEF TablesOK, TablesInv
<1> QED BY <1>2, <1>3 DEF Persist

\* The end is written over a receipt for each batch, none of them invalidated.
LEMMA FinishTables ==
  ASSUME Inv, NEW s \in Slots, FinishWrite(s)
  PROVE  TablesOK
<1>1. TablesInv /\ con \in Lease /\ con.epoch \in Nat
  BY TablesNow
<1>2. CASE con' = con
  BY <1>2, UnchangedTables DEF FinishWrite, tables
<1>3. CASE /\ MayFinish(att[s])
           /\ con' = Released(IF outputs = {} THEN "noop" ELSE "complete")
  <2>1. /\ con'.status = IF outputs = {} THEN "noop" ELSE "complete"
        /\ con'.owner = NoOwner /\ con'.live = FALSE /\ con'.epoch = con.epoch
        /\ con'.valid = con.valid /\ con' \in Lease
    BY <1>1, <1>3 DEF Released, Lease
  <2>2. con.status = "running" /\ con.valid
    BY <1>3 DEF MayFinish, Held, Owned, ReceiptSetExact
  <2>3. UNCHANGED <<receipts, outputs, rejected, foreign, clear>>
    BY DEF FinishWrite
  <2>4. ASSUME NEW b \in Batches PROVE \E r \in receipts : r.batch = b
    <3>1. Cardinality(ReceiptsOf(b)) = 1
      BY <1>3 DEF MayFinish, ReceiptSetExact
    <3>2. ReceiptsOf(b) # {}
      BY <3>1, FS_EmptySet
    <3> QED BY <3>2 DEF ReceiptsOf
  <2>5. \A o \in outputs : clear[Cites[o[1]]]
    <3>1. \A r \in receipts : r.outputs # {} => clear[Cites[r.batch]]
      BY <1>1, <2>2 DEF TablesInv, EvidenceOK, Unfinished, Linked
    <3>2. outputs = UNION {{<<r.batch, c>> : c \in r.outputs} : r \in receipts}
      BY <1>1 DEF TablesInv, ReceiptsAreExact
    <3>3. ASSUME NEW o \in outputs PROVE clear[Cites[o[1]]]
      <4>1. PICK r \in receipts : \E c \in r.outputs : o = <<r.batch, c>>
        BY <3>2
      <4> QED BY <3>1, <4>1
    <3> QED BY <3>3
  <2>6. TablesTyped' /\ ReceiptsAreExact'
    BY <1>1, <2>1, <2>3 DEF TablesInv, TablesTyped, ReceiptsAreExact
  <2>7. CompletionIsCovered'
    BY <2>1, <2>2, <2>3, <2>4 DEF CompletionIsCovered
  <2>8. EvidenceOK'
    BY <2>1 DEF EvidenceOK, Unfinished
  <2>9. TablesMove
    BY <1>1, <2>1, <2>2, <2>3 DEF TablesMove, Terminal
  <2>10. TablesStep
    BY <2>1, <2>2, <2>3, <2>5 DEF TablesStep, Terminal
  <2> QED BY <2>6, <2>7, <2>8, <2>9, <2>10 DEF TablesOK, TablesInv
<1> QED BY <1>2, <1>3 DEF FinishWrite

\* Quarantine invalidates the receipts it concerns until the end is written.
LEMMA SensitivityTables ==
  ASSUME Inv, NEW e \in Evidence, ChangeSensitivity(e)
  PROVE  TablesOK
<1> DEFINE hit == /\ con.status \in Unfinished
                  /\ \E r \in receipts : Linked(r) /\ Cites[r.batch] = e
<1>1. TablesInv /\ con \in Lease /\ con.epoch \in Nat
  BY TablesNow
<1>2. /\ UNCHANGED <<receipts, outputs, rejected, foreign, wf, att>>
      /\ clear' = [clear EXCEPT ![e] = ~clear[e]]
      /\ con' = [con EXCEPT !.valid = con.valid /\ ~hit]
  BY DEF ChangeSensitivity
<1> HIDE DEF hit
<1>3. (con.valid /\ ~hit) \in BOOLEAN
  OBVIOUS
<1>4. /\ con'.status = con.status /\ con'.owner = con.owner /\ con'.live = con.live
      /\ con'.epoch = con.epoch /\ con' \in Lease
      /\ con'.valid = (con.valid /\ ~hit)
  BY <1>1, <1>2, <1>3 DEF Lease
<1>5. clear' \in [Evidence -> BOOLEAN] /\ \A x \in Evidence : x # e => clear'[x] = clear[x]
  BY <1>1, <1>2 DEF TablesInv, TablesTyped
<1>6. TablesTyped' /\ ReceiptsAreExact'
  BY <1>1, <1>2, <1>4, <1>5 DEF TablesInv, TablesTyped, ReceiptsAreExact
<1>7. ASSUME con.status \in Terminal PROVE con' = con
  <2>1. ~hit BY <1>7 DEF hit, Terminal, Unfinished
  <2>2. con.valid \in BOOLEAN BY <1>1 DEF Lease
  <2>3. con'.valid = con.valid BY <1>4, <2>1, <2>2
  <2> QED BY <1>1, <1>4, <2>3 DEF Lease
<1>8. CompletionIsCovered'
  BY <1>1, <1>2, <1>4, <1>7 DEF TablesInv, CompletionIsCovered
<1>9. EvidenceOK'
  <2> SUFFICES ASSUME con'.valid, con'.status \in Unfinished,
                      NEW r \in receipts, Linked(r)
               PROVE  clear'[Cites[r.batch]]
    BY <1>2 DEF EvidenceOK
  <2>1. con.valid /\ Cites[r.batch] # e
    BY <1>4 DEF hit
  <2>2. clear[Cites[r.batch]]
    BY <1>1, <1>4, <2>1 DEF TablesInv, EvidenceOK
  <2>3. Cites[r.batch] \in Evidence
    BY <1>1, ConsolidationAssumption DEF TablesInv, TablesTyped, Receipt
  <2> QED BY <1>5, <2>1, <2>2, <2>3
<1>10. TablesMove
  BY <1>1, <1>2, <1>4 DEF TablesMove
<1>11. con.live => con.status # "failed"
  BY <1>1 DEF TablesInv, TablesTyped
<1>12. TablesStep
  BY <1>2, <1>4, <1>7, <1>11 DEF TablesStep
<1> QED BY <1>6, <1>8, <1>9, <1>10, <1>12 DEF TablesOK, TablesInv

\* Submissions and rejections beside the consolidation
LEMMA OtherTables ==
  ASSUME Inv, UNCHANGED <<con, receipts, outputs, clear>>,
         foreign' \in SUBSET Contents, rejected' \in SUBSET outputs
  PROVE  TablesOK
<1>1. TablesInv /\ con \in Lease /\ con.epoch \in Nat
  BY TablesNow
<1>2. TablesTyped' /\ ReceiptsAreExact' /\ CompletionIsCovered' /\ EvidenceOK'
  BY <1>1 DEF TablesInv, TablesTyped, ReceiptsAreExact, CompletionIsCovered, EvidenceOK
<1>3. con.live => con.status # "failed"
  BY <1>1 DEF TablesInv, TablesTyped
<1>4. TablesMove /\ TablesStep
  BY <1>1, <1>3 DEF TablesMove, TablesStep
<1> QED BY <1>2, <1>4 DEF TablesOK, TablesInv

-----------------------------------------------------------------------------
(* The steps of an attempt *)

LEMMA ClaimStep ==
  ASSUME Inv, NEW s \in Slots, Claim(s) \/ ClaimReread(s)
  PROVE  TablesOK /\ Moves
<1>1. CASE Claim(s)
  <2>1. TablesOK BY <1>1, ClaimTables
  <2>2. att[s].pc = "claim" BY <1>1 DEF Claim, At
  <2>3. Moves
    BY <1>1, <2>1, <2>2, ClaimReturns, GotoMoves DEF Claim, TablesOK, ClaimPcs
  <2> QED BY <2>1, <2>3
<1>2. CASE ClaimReread(s)
  <2>1. TablesOK BY <1>2, UnchangedTables DEF ClaimReread
  <2>2. con' = con /\ att[s].pc \in ClaimPcs
    BY <1>2 DEF ClaimReread, At, ClaimPcs, tables
  <2>3. InterpretClaim(s, con')
    BY <1>2, <2>2 DEF ClaimReread
  <2> QED BY <2>1, <2>2, <2>3, ClaimReturns DEF TablesOK
<1> QED BY <1>1, <1>2

LEMMA RenewStep ==
  ASSUME Inv, NEW s \in Slots, RenewRead(s) \/ RenewWrite(s) \/ RenewReread(s)
  PROVE  TablesOK /\ Moves
<1>1. TablesOK
  BY UnchangedTables DEF RenewRead, RenewWrite, RenewReread
<1> SUFFICES Moves BY <1>1
<1>2. TablesMove BY <1>1 DEF TablesOK
<1>3. /\ att \in [Slots -> Attempt] /\ wf \in [Ids -> Instance]
      /\ att[s] \in Attempt /\ PcOK(att[s])
  BY DEF Inv, TypeOK, EngineOK
<1>4. CASE Throw(s) BY <1>2, <1>4, ThrowMoves
<1>5. CASE Goto(s, "extendReread") /\ At(s, "extend")
  BY <1>5, GotoMoves DEF At
<1> DEFINE n == AfterRenewal(s)
<1>6. ASSUME att[s].pc \in {"extend", "extendReread"}
      PROVE  n \in Attempt /\ AttemptMoves(att[s], n)
  <2>1. att[s].batch \in 0 .. BatchCount BY <1>3 DEF Attempt
  <2>2. n \in Attempt
    BY <1>3 DEF AfterRenewal, Attempt
  <2>3. /\ n.pc = IF att[s].batch < BatchCount THEN "recover" ELSE "verify"
        /\ n.inst = att[s].inst /\ n.batch = att[s].batch
        /\ n.epoch = att[s].epoch /\ n.awaited = att[s].awaited
    BY <1>3 DEF AfterRenewal, Attempt
  <2> HIDE DEF n
  <2>4. PcOK(n)
    BY <2>1, <2>3, ConsolidationAssumption DEF PcOK, BatchPcs, FinishPcs
  <2> QED
    BY <1>6, <2>2, <2>3, <2>4
    DEF AttemptMoves, ClaimPcs, WorkPcs, ReleasePcs, BatchPcs, FinishPcs
<1>7. CASE /\ At(s, "renew")
           /\ att' = [att EXCEPT ![s].pc = "extend", ![s].seen = "current"]
           /\ UNCHANGED wf
  <2> DEFINE m == [att[s] EXCEPT !.pc = "extend", !.seen = "current"]
  <2>1. att' = [att EXCEPT ![s] = m] BY <1>7
  <2>2. m \in Attempt /\ m.pc = "extend" /\ m.inst = att[s].inst
        /\ m.batch = att[s].batch /\ m.epoch = att[s].epoch /\ m.awaited = att[s].awaited
    BY <1>3 DEF Attempt
  <2> HIDE DEF m
  <2>3. AttemptMoves(att[s], m)
    BY <1>7, <2>2
    DEF At, AttemptMoves, PcOK, ClaimPcs, WorkPcs, ReleasePcs, BatchPcs, FinishPcs
  <2> QED BY <1>7, <2>1, <2>2, <2>3, OneMoves
<1>8. CASE /\ At(s, "extendReread")
           /\ att' = [att EXCEPT ![s] = AfterRenewal(s)] /\ UNCHANGED wf
  BY <1>6, <1>8, OneMoves DEF At
<1>9. CASE /\ At(s, "extend") /\ UNCHANGED wf
           /\ \/ att' = [Extended(s) EXCEPT ![s] = AfterRenewal(s)]
              \/ att' = [Extended(s) EXCEPT ![s].pc = "extendReread"]
  <2> HIDE DEF n
  <2>1. ASSUME NEW t \in Slots
        PROVE  LET x == Extended(s)[t] IN
               /\ x \in Attempt /\ x.pc = att[t].pc /\ x.inst = att[t].inst
               /\ x.batch = att[t].batch /\ x.epoch = att[t].epoch
               /\ x.awaited = att[t].awaited
    BY <1>3 DEF Extended, Attempt
  <2>2. Extended(s) = [t \in Slots |-> Extended(s)[t]]
    BY DEF Extended
  <2>3. ASSUME NEW t \in Slots, t # s
        PROVE  att'[t] \in Attempt /\ AttemptMoves(att[t], att'[t])
    <3>1. att'[t] = Extended(s)[t]
      BY <1>9, <2>2, <2>3
    <3>2. PcOK(att[t]) BY DEF Inv, EngineOK
    <3> QED BY <2>1, <3>1, <3>2 DEF AttemptMoves, PcOK
  <2>4. att'[s] \in Attempt /\ AttemptMoves(att[s], att'[s])
    <3>1. CASE att' = [Extended(s) EXCEPT ![s] = AfterRenewal(s)]
      <4>1. att'[s] = n BY <2>2, <3>1 DEF n
      <4> QED BY <1>6, <1>9, <4>1 DEF At
    <3>2. CASE att' = [Extended(s) EXCEPT ![s].pc = "extendReread"]
      <4> DEFINE x == Extended(s)[s]
                 m == [x EXCEPT !.pc = "extendReread"]
      <4>1. att'[s] = m BY <2>2, <3>2
      <4>2. x \in Attempt /\ x.inst = att[s].inst
            /\ x.batch = att[s].batch /\ x.epoch = att[s].epoch
            /\ x.awaited = att[s].awaited
        BY <2>1
      <4> HIDE DEF x
      <4>3. m \in Attempt /\ m.pc = "extendReread" /\ m.inst = att[s].inst
            /\ m.batch = att[s].batch /\ m.epoch = att[s].epoch
            /\ m.awaited = att[s].awaited
        BY <4>2 DEF Attempt
      <4> HIDE DEF m
      <4> QED
        BY <1>9, <4>1, <4>3
        DEF At, AttemptMoves, PcOK, ClaimPcs, WorkPcs, ReleasePcs, BatchPcs, FinishPcs
    <3> QED BY <1>9, <3>1, <3>2
  <2>5. att' \in [Slots -> Attempt]
    <3>1. att' = [t \in Slots |-> att'[t]]
      BY <1>9, <2>2
    <3> QED BY <2>3, <2>4, <3>1
  <2> QED BY <1>3, <1>9, <2>3, <2>4, <2>5 DEF Moves
<1> QED
  BY <1>4, <1>5, <1>7, <1>8, <1>9 DEF RenewRead, RenewWrite, RenewReread

LEMMA BatchStep ==
  ASSUME Inv, NEW s \in Slots,
         Recover(s) \/ Prepare(s) \/ Persist(s) \/ PersistReread(s)
  PROVE  TablesOK /\ Moves
<1>1. CASE Recover(s)
  <2>1. TablesOK BY <1>1, UnchangedTables DEF Recover
  <2> SUFFICES Moves BY <2>1
  <2>2. att[s].pc = "recover" /\ receipts' = receipts
    BY <1>1 DEF Recover, At, tables
  <2>3. CASE Goto(s, "prepare") BY <2>2, <2>3, GotoMoves
  <2>4. CASE Throw(s) BY <2>1, <2>4, ThrowMoves DEF TablesOK
  <2>5. CASE Return(s) /\ ReceiptsOf(att[s].batch) # {}
    <3>1. \E r \in receipts : r.batch = att[s].batch
      BY <2>5 DEF ReceiptsOf
    <3> QED BY <2>1, <2>2, <2>5, <3>1, BatchReturns DEF TablesOK, BatchPcs
  <2> QED BY <1>1, <2>1, <2>3, <2>4, <2>5 DEF Recover
<1>2. CASE Prepare(s)
  <2>1. TablesOK BY <1>2, UnchangedTables DEF Prepare
  <2>2. att[s].pc = "prepare" /\ wf' = wf
    BY <1>2 DEF Prepare, At
  <2>3. PICK suggested \in SUBSET Contents :
          att' = [att EXCEPT ![s].pc = "persist", ![s].model = suggested,
            ![s].outputs = {c \in suggested : ~ActiveElsewhere(att[s].batch, c)}]
    BY <1>2 DEF Prepare
  <2> DEFINE kept == {c \in suggested : ~ActiveElsewhere(att[s].batch, c)}
             n == [att[s] EXCEPT !.pc = "persist", !.model = suggested, !.outputs = kept]
  <2>4. att[s] \in Attempt /\ PcOK(att[s])
    BY DEF Inv, TypeOK, EngineOK
  <2>5. kept \in SUBSET Contents OBVIOUS
  <2> HIDE DEF kept
  <2>6. n \in Attempt /\ n.pc = "persist" /\ n.inst = att[s].inst
        /\ n.batch = att[s].batch /\ n.epoch = att[s].epoch
        /\ n.awaited = att[s].awaited
    BY <2>4, <2>5 DEF Attempt
  <2>7. att' = [att EXCEPT ![s] = n] BY <2>3 DEF kept
  <2> HIDE DEF n
  <2>8. AttemptMoves(att[s], n)
    BY <2>2, <2>4, <2>6
    DEF AttemptMoves, PcOK, ClaimPcs, WorkPcs, ReleasePcs, BatchPcs, FinishPcs
  <2> QED BY <2>1, <2>2, <2>6, <2>7, <2>8, OneMoves
<1>3. CASE Persist(s)
  <2>1. TablesOK BY <1>3, PersistTables
  <2> SUFFICES Moves BY <2>1
  <2>2. att[s].pc = "persist"
    BY <1>3 DEF Persist, At
  <2>3. CASE Goto(s, "persistReread") BY <2>2, <2>3, GotoMoves
  <2>4. CASE WriteBatch(att[s]) /\ Return(s)
    <3> DEFINE new == [batch |-> att[s].batch, owner |-> att[s].inst,
                       epoch |-> att[s].epoch, model |-> att[s].model,
                       outputs |-> att[s].outputs]
    <3>1. new \in receipts' /\ new.batch = att[s].batch /\ new.epoch = att[s].epoch
      BY <2>4 DEF WriteBatch
    <3> HIDE DEF new
    <3> QED BY <2>1, <2>2, <2>4, <3>1, BatchReturns DEF TablesOK, BatchPcs
  <2> QED BY <1>3, <2>1, <2>3, <2>4 DEF Persist
<1>4. CASE PersistReread(s)
  <2>1. TablesOK BY <1>4, UnchangedTables DEF PersistReread
  <2> SUFFICES Moves BY <2>1
  <2>2. att[s].pc = "persistReread" /\ receipts' = receipts
    BY <1>4 DEF PersistReread, At, tables
  <2>3. CASE Throw(s) BY <2>1, <2>3, ThrowMoves DEF TablesOK
  <2>4. CASE Return(s) /\ ReceiptsOf(att[s].batch) # {}
    <3>1. \E r \in receipts : r.batch = att[s].batch
      BY <2>4 DEF ReceiptsOf
    <3> QED BY <2>1, <2>2, <2>4, <3>1, BatchReturns DEF TablesOK, BatchPcs
  <2> QED BY <1>4, <2>1, <2>3, <2>4 DEF PersistReread
<1> QED BY <1>1, <1>2, <1>3, <1>4

LEMMA FinishStep ==
  ASSUME Inv, NEW s \in Slots,
         FinishCheck(s) \/ Verify(s) \/ FinishWrite(s) \/ FinishReread(s)
  PROVE  TablesOK /\ Moves
<1>1. TablesOK
  BY UnchangedTables, FinishTables DEF FinishCheck, Verify, FinishReread
<1>2. TablesMove BY <1>1 DEF TablesOK
<1>3. CASE Throw(s) BY <1>1, <1>2, <1>3, ThrowMoves
<1>4. CASE FinishCheck(s) /\ ~Throw(s)
  <2>1. CASE Goto(s, "renew") BY <1>1, <1>4, <2>1, GotoMoves DEF FinishCheck, At
  <2>2. CASE Return(s) /\ ExactTerminal(att[s])
    BY <1>1, <1>2, <1>4, <2>2, FinishReturns
    DEF FinishCheck, At, FinishPcs, ExactTerminal, Terminal, tables
  <2> QED BY <1>4, <2>1, <2>2 DEF FinishCheck
<1>5. CASE Verify(s) /\ ~Throw(s)
  BY <1>1, <1>5, GotoMoves DEF Verify, At
<1>6. CASE FinishWrite(s)
  <2>1. att[s].pc = "conclude" BY <1>6 DEF FinishWrite, At
  <2>2. CASE Goto(s, "settle") BY <1>1, <2>1, <2>2, GotoMoves
  <2>3. CASE Return(s) /\ con' = Released(IF outputs = {} THEN "noop" ELSE "complete")
    <3>1. con'.status \in Terminal
      BY <2>3, TablesNow DEF Released, Lease, Terminal
    <3> QED BY <1>1, <1>2, <2>1, <2>3, <3>1, FinishReturns DEF FinishPcs
  <2> QED BY <1>6, <2>2, <2>3 DEF FinishWrite
<1>7. CASE FinishReread(s) /\ ~Throw(s)
  BY <1>1, <1>2, <1>7, FinishReturns
  DEF FinishReread, At, FinishPcs, ExactTerminal, Terminal, tables
<1> QED BY <1>3, <1>4, <1>5, <1>6, <1>7

LEMMA ReleaseStep ==
  ASSUME Inv, NEW s \in Slots, ReleaseCheck(s) \/ ReleaseWrite(s) \/ ReleaseReread(s)
  PROVE  TablesOK /\ Moves
<1>1. TablesOK
  BY UnchangedTables, ReleaseTables DEF ReleaseCheck, ReleaseReread
<1>2. TablesMove BY <1>1 DEF TablesOK
<1>3. att[s].pc \in ReleasePcs
  BY DEF ReleaseCheck, ReleaseWrite, ReleaseReread, At, ReleasePcs
<1>4. CASE Throw(s) BY <1>1, <1>2, <1>4, ThrowMoves
<1>5. CASE Return(s) BY <1>1, <1>2, <1>3, <1>5, ReleaseReturns
<1>6. CASE Goto(s, "release") /\ At(s, "released")
  BY <1>1, <1>6, GotoMoves DEF At
<1>7. CASE Goto(s, "releaseReread") /\ At(s, "release")
  BY <1>1, <1>7, GotoMoves DEF At
<1> QED BY <1>4, <1>5, <1>6, <1>7 DEF ReleaseCheck, ReleaseWrite, ReleaseReread

-----------------------------------------------------------------------------
(* The theorems *)

\* No instance runs, and there is nothing to be behind of.
LEMMA InitInv == Init => Inv
<1> SUFFICES ASSUME Init PROVE Inv
  OBVIOUS
<1>1. /\ BatchCount \in Nat /\ MaxRepairs \in Nat /\ 0 \in Ids /\ NoOwner \notin Ids
      /\ \A j \in Ids : j \in Nat
  BY ConsolidationAssumption DEF Ids, NoOwner
<1>2. ASSUME NEW st \in {"claim", "absent"}
      PROVE  Rest(st) \in Instance /\ InstanceOK(Rest(st)) /\ Rest(st).epoch = 0
             /\ Rest(st).stage = st
  BY <1>1 DEF Rest, Instance, InstanceOK
<1>3. ASSUME NEW j \in Ids
      PROVE  /\ wf[j] \in Instance /\ InstanceOK(wf[j]) /\ wf[j].epoch = 0
             /\ wf[j].stage = IF j = 0 THEN "claim" ELSE "absent"
  <2>1. wf[j] = Rest(IF j = 0 THEN "claim" ELSE "absent")
    BY DEF Init
  <2> QED BY <1>2, <2>1
<1>4. ASSUME NEW t \in Slots
      PROVE  /\ att[t] \in Attempt /\ PcOK(att[t]) /\ ~att[t].awaited
             /\ att[t].pc = "idle" /\ att[t].epoch = 0 /\ att[t].batch = 0
  BY IdleTyped DEF Init, Idle, PcOK, BatchPcs, FinishPcs
<1>5. TypeOK
  <2>1. con \in Lease BY <1>1 DEF Init, Lease
  <2>2. con.owner = NoOwner /\ con.status = "queued" /\ con.live = FALSE
    BY DEF Init
  <2>3. wf \in [Ids -> Instance] /\ att \in [Slots -> Attempt]
    BY <1>3, <1>4 DEF Init
  <2> QED BY <2>1, <2>2, <2>3 DEF Init, TypeOK
<1>6. receipts = {} /\ outputs = {} /\ con.status = "queued" /\ con.epoch = 0
  BY DEF Init
<1>7. ReceiptsAreExact /\ CompletionIsCovered /\ EvidenceOK /\ ReceiptsOK
  BY <1>6 DEF ReceiptsAreExact, CompletionIsCovered, EvidenceOK, ReceiptsOK, Terminal
<1>8. EngineOK
  BY <1>1, <1>3, <1>4 DEF EngineOK, ReleasePcs
<1>9. EpochOK
  BY <1>3, <1>4, <1>6 DEF EpochOK, Holding
<1>10. AttemptsOK /\ InstancesOK
  <2>1. Behind(receipts, 0, 0) BY <1>1 DEF Behind, Batches
  <2> QED BY <1>3, <1>4, <2>1 DEF AttemptsOK, InstancesOK
<1> QED BY <1>5, <1>7, <1>8, <1>9, <1>10 DEF Inv

LEMMA InvParts ==
  ASSUME TablesInv', EngineInv', att' \in [Slots -> Attempt], wf' \in [Ids -> Instance]
  PROVE  Inv'
  BY DEF Inv, TypeOK, TablesInv, TablesTyped, EngineInv

\* Every step keeps the invariant and does to the tables what it may.
LEMMA NextInv == Inv /\ [Next]_vars => Inv' /\ TablesStep
<1> SUFFICES ASSUME Inv, [Next]_vars PROVE Inv' /\ TablesStep
  OBVIOUS
<1>1. ASSUME TablesOK, Moves PROVE Inv' /\ TablesStep
  <2>1. EngineInv' BY <1>1, MovesEngine DEF TablesOK
  <2> QED BY <1>1, <2>1, InvParts DEF TablesOK, Moves
<1>2. ASSUME UNCHANGED <<wf, att>> PROVE Moves
  <2>1. \A t \in Slots : PcOK(att[t]) BY DEF Inv, EngineOK
  <2> QED BY <1>2, <2>1 DEF Moves, AttemptMoves, Inv, TypeOK
<1>3. ASSUME NEW s \in Slots, AttemptStep(s) PROVE TablesOK /\ Moves
  BY <1>3, ClaimStep, RenewStep, BatchStep, FinishStep, ReleaseStep DEF AttemptStep
<1>4. ASSUME NEW s \in Slots, AttemptFails(s) \/ TimeOut(s) PROVE TablesOK /\ Moves
  BY <1>4, UnchangedTables, StillTables, ThrowMoves, TimeOutMoves DEF AttemptFails, TimeOut
<1>5. ASSUME NEW s \in Slots, NEW i \in Ids, StartAttempt(s, i)
      PROVE  Inv' /\ TablesStep
  BY <1>5, UnchangedTables, StartEngine, InvParts DEF StartAttempt, TablesOK
<1>6. ASSUME NEW i \in Ids, Terminate(i) PROVE TablesOK /\ Moves
  BY <1>6, UnchangedTables, TerminateMoves DEF Terminate
<1>7. ASSUME NEW i \in Ids, Repair(i) PROVE Inv' /\ TablesStep
  <2>1. UNCHANGED tables BY <1>7 DEF Repair, tables
  <2> QED BY <1>7, <2>1, UnchangedTables, RepairEngine, InvParts DEF TablesOK
<1>8. CASE LeaseExpires
  BY <1>1, <1>2, <1>8, ExpiryTables DEF LeaseExpires
<1>9. ASSUME NEW c \in Contents, OtherCandidate(c) PROVE TablesOK /\ Moves
  <2>1. foreign \in SUBSET Contents /\ rejected \in SUBSET outputs
    BY DEF Inv, TypeOK
  <2>2. foreign' \in SUBSET Contents /\ rejected' = rejected
    BY <1>9, <2>1 DEF OtherCandidate
  <2> QED BY <1>2, <1>9, <2>1, <2>2, OtherTables DEF OtherCandidate
<1>10. ASSUME NEW o \in Batches \X Contents, RejectOutput(o) PROVE TablesOK /\ Moves
  <2>1. foreign \in SUBSET Contents /\ rejected \in SUBSET outputs
    BY DEF Inv, TypeOK
  <2>2. rejected' \in SUBSET outputs /\ foreign' = foreign
    BY <1>10, <2>1 DEF RejectOutput
  <2> QED BY <1>2, <1>10, <2>1, <2>2, OtherTables DEF RejectOutput
<1>11. ASSUME NEW e \in Evidence, ChangeSensitivity(e) PROVE TablesOK /\ Moves
  BY <1>2, <1>11, SensitivityTables DEF ChangeSensitivity
<1>12. CASE UNCHANGED vars
  <2>1. UNCHANGED tables /\ UNCHANGED <<wf, att>> BY <1>12 DEF vars, tables
  <2> QED BY <1>1, <1>2, <2>1, UnchangedTables
<1>13. CASE Next
  BY <1>1, <1>3, <1>4, <1>5, <1>6, <1>7, <1>8, <1>9, <1>10, <1>11, <1>13 DEF Next
<1> QED BY <1>12, <1>13

\* The parts of the invariant together are what ProgressIsDurable says.
LEMMA ProgressInInv == Inv => ProgressIsDurable
<1> SUFFICES ASSUME Inv PROVE ProgressIsDurable
  OBVIOUS
<1>1. ASSUME NEW r \in receipts
      PROVE  r.epoch <= con.epoch /\ Behind(receipts, r.batch, r.epoch)
  BY DEF Inv, EpochOK, ReceiptsOK
<1>2. ASSUME NEW i \in Ids
      PROVE  /\ wf[i].stage \in {"batch", "finish"} =>
                  Behind(receipts, wf[i].batch, wf[i].epoch)
             /\ wf[i].stage = "complete" => con.status \in Terminal
  BY DEF Inv, InstancesOK
<1> QED BY <1>1, <1>2 DEF ProgressIsDurable, Behind

\* The invariant holds in every state of the code's step-by-step execution.
THEOREM Invariance == Spec => []Inv
  BY InitInv, NextInv, PTL DEF Spec

\* The row, its receipts and outputs, instances and attempts are well typed,
\* and the row has an owner exactly while it is running.
THEOREM TypeCorrect == Spec => []TypeOK
  BY Invariance, PTL DEF Inv

\* However many attempts and repair instances race for a batch, it has at most
\* one receipt, and the stored outputs are those the receipts list.
THEOREM ExactReceipts == Spec => []ReceiptsAreExact
  BY Invariance, PTL DEF Inv

\* Whatever replies are lost and whichever attempts are given up, an instance
\* gets past a batch only with its receipt, and ends only after the end.
THEOREM DurableProgress == Spec => []ProgressIsDurable
  BY Invariance, ProgressInInv, PTL

\* The terminal status is never seen over a missing or invalidated receipt.
THEOREM CoveredCompletion == Spec => []CompletionIsCovered
  BY Invariance, PTL DEF Inv

\* No abandoned attempt or repair instance changes a finished consolidation.
THEOREM FinalEnd == Spec => TerminalIsFinal
<1>1. Inv /\ [Next]_vars =>
        [con.status \in Terminal => UNCHANGED <<con, receipts, outputs>>]_vars
  BY NextInv DEF TablesStep
<1> QED BY <1>1, Invariance, PTL DEF Spec, TerminalIsFinal

\* A live lease is not taken over or released under its holder, and every
\* receipt is written by an attempt of the holder with the newest token.
THEOREM FencedByLease == Spec => LeaseFences
<1>1. Inv /\ [Next]_vars =>
        [/\ con.live =>
              /\ con'.epoch = con.epoch
              /\ con'.status = "failed" => wf[con.owner].stage \in {"release", "errored"}
         /\ \A r \in receipts' \ receipts :
              con.live /\ r.owner = con.owner /\ r.epoch = con.epoch]_vars
  BY NextInv DEF TablesStep
<1> QED BY <1>1, Invariance, PTL DEF Spec, LeaseFences

\* No attempt stores a content that is active elsewhere in the project.
THEOREM NoDuplicateStored == Spec => NothingStoredTwice
<1>1. Inv /\ [Next]_vars =>
        [\A o \in outputs' \ outputs : ~ActiveElsewhere(o[1], o[2])]_vars
  BY NextInv DEF TablesStep
<1> QED BY <1>1, Invariance, PTL DEF Spec, NothingStoredTwice

\* The end is written only while the evidence of every stored output is clear.
THEOREM ClearAtFinish == Spec => FinishedOnClearEvidence
<1>1. Inv /\ [Next]_vars =>
        [con.status # con'.status /\ con'.status \in Terminal =>
           \A o \in outputs : clear[Cites[o[1]]]]_vars
  BY NextInv DEF TablesStep
<1> QED BY <1>1, Invariance, PTL DEF Spec, FinishedOnClearEvidence

=============================================================================
