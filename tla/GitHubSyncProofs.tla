-------------------------- MODULE GitHubSyncProofs --------------------------
(***************************************************************************)
(* Proofs about GitHubSync for every value of its constants: the types of  *)
(* the ledgers and of the Workflows' locals, the items and their runs, the *)
(* moves of the cursor and the outcomes, and the completed dispatches.     *)
(***************************************************************************)
EXTENDS GitHubSync, FiniteSetTheorems, TLAPS

-----------------------------------------------------------------------------
(* Types *)

DispatchPcs ==
  {"none", "establish", "pending", "orphans", "running", "close", "mark", "receipt",
   "snapshot", "lane", "baseline", "select", "persist", "baselined", "complete",
   "release", "fanout", "finish", "fail", "failed", "done", "errored"}
RefPcs ==
  {"none", "open", "recover", "validate", "lane", "start", "claim", "bind", "orphan",
   "unbound", "sync", "attempt", "record", "finishRun", "finishItem", "release",
   "abort", "done", "errored"}

\* The locals of a dispatch Workflow and of a ref Workflow
DispatchLocals ==
  [pc : DispatchPcs, due : SUBSET Slots, closing : SUBSET (Dispatches \X Codes),
   cf : Nat, cv : Nat, hv : Nat, code : Codes, laned : BOOLEAN]
RefLocals ==
  [pc : RefPcs, pend : BOOLEAN, has : BOOLEAN, code : Codes, tries : Nat,
   again : BOOLEAN, laned : BOOLEAN, ghost : BOOLEAN]

Cursors ==
  [v : Nat, last : Nat, next : Nat, code : Codes,
   st : {"absent", "idle", "complete", "observed", "failed"}]
DispatchRows ==
  [st : {"none", "materialized", "dispatching", "complete", "failed"},
   receipt : BOOLEAN, code : Codes]
ItemRows ==
  [st : {"none", "pending", "running", "complete", "failed"},
   bound : BOOLEAN, cv : Nat, hv : Nat, cf : Nat, code : Codes]
RunRows ==
  [st : {"none", "running", "complete", "failed"}, cv : Nat, hv : Nat,
   cf : Nat, live : BOOLEAN, code : Codes, by : Holders,
   moved : {"no", "unchanged", "activated", "failed"}]

\* The ledgers and the Workflows hold values of their types.
Types ==
  /\ clock \in Slots /\ env \in Creds /\ cfg \in Nat /\ head \in Nat
  /\ cursor \in Cursors
  /\ dispatch \in [Dispatches -> DispatchRows]
  /\ item \in [Dispatches -> ItemRows]
  /\ run \in [Slots -> RunRows]
  /\ lane \in [Creds -> [holder : Holders, live : BOOLEAN]]
  /\ dwf \in [Dispatches -> DispatchLocals]
  /\ rwf \in [Dispatches -> RefLocals]

\* The rest of TypeOK: what the tables' checks say of their columns.
Columns ==
  /\ cursor.v = 0 <=> cursor.st = "absent"
  /\ \A s \in Slots : run[s].st # "running" => ~run[s].live /\ run[s].by = {}
  /\ \A d \in Dispatches :
       /\ item[d].bound => item[d].st \in {"running", "complete", "failed"}
       /\ item[d].st = "running" => item[d].bound

LEMMA TypeParts == TypeOK <=>
  /\ clock \in Slots /\ env \in Creds /\ cfg \in Nat /\ head \in Nat
  /\ cursor \in Cursors
  /\ dispatch \in [Dispatches -> DispatchRows]
  /\ item \in [Dispatches -> ItemRows]
  /\ run \in [Slots -> RunRows]
  /\ lane \in [Creds -> [holder : Holders, live : BOOLEAN]]
  /\ Columns
BY DEF TypeOK, Cursors, DispatchRows, ItemRows, RunRows, Columns

\* Occurrences are numbers, and a dispatch is of an occurrence and a credential.
LEMMA Names ==
  /\ Slots \subseteq Nat /\ 1 \in Slots
  /\ \A d \in Dispatches : Slot(d) \in Slots /\ Cred(d) \in Creds
<1>1. Cardinality(Slots) \in Nat /\ Slots = 1..Cardinality(Slots) /\ Slots # {}
  BY GitHubSyncAssumption, FS_CardinalityType
<1>2. \A d \in Dispatches : Slot(d) \in Slots /\ Cred(d) \in Creds
  BY DEF Dispatches, Slot, Cred
<1> QED BY <1>1, <1>2

LEMMA HolderTyped ==
  /\ {} \in Holders
  /\ \A d \in Dispatches : DHolder(d) \in Holders /\ RHolder(d) \in Holders
BY DEF Holders

\* The first locals of a Workflow are typed.
LEMMA LocalsTyped ==
  /\ \A pc \in DispatchPcs : DispatchAt(pc) \in DispatchLocals /\ DispatchAt(pc).pc = pc
  /\ \A pc \in RefPcs : RefAt(pc) \in RefLocals /\ RefAt(pc).pc = pc
BY DEF DispatchAt, RefAt, DispatchLocals, RefLocals, Codes

LEMMA TypesInit == Init => Types /\ Columns
<1> SUFFICES ASSUME Init PROVE Types /\ Columns
  OBVIOUS
<1>1. clock \in Slots /\ env \in Creds /\ cfg \in Nat /\ head \in Nat
  BY Names DEF Init
<1>2. cursor \in Cursors /\ dispatch \in [Dispatches -> DispatchRows]
  BY DEF Init, Cursors, DispatchRows, Codes
<1>3. item \in [Dispatches -> ItemRows] /\ run \in [Slots -> RunRows]
  BY HolderTyped DEF Init, ItemRows, RunRows, NoItem, NoRun, Codes
<1>4. lane \in [Creds -> [holder : Holders, live : BOOLEAN]]
  BY HolderTyped DEF Init
<1>5. dwf \in [Dispatches -> DispatchLocals] /\ rwf \in [Dispatches -> RefLocals]
  BY LocalsTyped DEF Init, DispatchPcs, RefPcs
<1>6. Columns
  BY DEF Init, Columns, NoItem, NoRun
<1> QED BY <1>1, <1>2, <1>3, <1>4, <1>5, <1>6 DEF Types

-----------------------------------------------------------------------------
(* The inductive invariant *)

Recorded == {"unchanged", "activated"}

\* What the binding of an item says of its run, and a ref Workflow of its item.
BindingsTrue ==
  \A d \in Dispatches :
    /\ item[d].bound =>
         /\ run[Slot(d)].st # "none"
         /\ Identity(item[d]) = Identity(run[Slot(d)])
         /\ rwf[d].pc # "none"
    /\ item[d].bound /\ ~Active(d) =>
         /\ run[Slot(d)].st = item[d].st
         /\ run[Slot(d)].code = item[d].code
    /\ item[d].st = "complete" => item[d].bound
    /\ rwf[d].pc # "none" => item[d].st # "none"

SingleActive == \A d, e \in Dispatches : Active(d) /\ Active(e) => d = e

\* What the history of a run says of the cursor: a version is used up by the
\* first move, so that its run never finds it again.
MovesTrue ==
  /\ \A s \in Slots :
       /\ run[s].st = "none" => run[s].moved = "no"
       /\ run[s].moved # "no" => cursor.v > run[s].cv
       /\ run[s].st = "complete" => run[s].moved \in Recorded
       /\ run[s].moved = "activated" => run[s].st = "complete"
  /\ cursor.st = "complete" =>
       cursor.last \in Slots /\ run[cursor.last].moved = "unchanged"
  /\ cursor.st = "failed" => cursor.code # "none"

\* The outcomes the Workflows carry from one step to the next.
OutcomesCarried ==
  \A d \in Dispatches :
    /\ rwf[d].pc = "record" => rwf[d].code # "none"
    /\ rwf[d].pc = "finishRun" /\ rwf[d].code = "none" =>
         run[Slot(d)].moved \in Recorded
    /\ dwf[d].pc = "baselined" => dwf[d].code # "none"

\* What the dispatch Workflows know of the dispatches they are about to close.
DispatchesCarried ==
  \A d \in Dispatches :
    /\ dispatch[d].receipt => dispatch[d].st \notin {"none", "materialized"}
    /\ dwf[d].pc \in {"release", "fanout", "finish"} => dispatch[d].receipt
    /\ dwf[d].pc = "finish" /\ item[d].st # "none" => rwf[d].pc # "none"
    /\ \A c \in dwf[d].closing :
         c[2] = "none" =>
           dispatch[c[1]].receipt /\ item[c[1]].st \in {"none", "complete"}

SyncInv ==
  /\ Types /\ Columns
  /\ SingleActive /\ BindingsTrue /\ RunIsOwned
  /\ MovesTrue /\ OutcomesCarried
  /\ DispatchesCarried /\ DispatchTruth

-----------------------------------------------------------------------------
(* What a step does to the ledgers and to the Workflows, whoever takes it *)

\* The run goes on, or is over: only its lease may change hands.
Lasts(s) ==
  /\ run'[s].st = run[s].st
  /\ Identity(run'[s]) = Identity(run[s])
  /\ run'[s].code = run[s].code
  /\ run'[s].moved = run[s].moved
  /\ run[s].st # "running" => run'[s] = run[s]

\* A running run ends, complete only if it has moved the cursor.
Ends(s) ==
  /\ run[s].st = "running"
  /\ \E code \in Codes : /\ run'[s] = EndedRun(run[s], code)
                         /\ code = "none" => run[s].moved \in Recorded

CursorRests ==
  \/ cursor' = cursor
  \/ /\ cursor' \in Cursors
     /\ cursor'.v > cursor.v
     /\ cursor'.st \in {"idle", "failed"}
     /\ cursor'.st = "failed" => cursor'.code # "none"

ItemRejected ==
  \E i \in Dispatches, code \in Codes :
    item[i].st = "pending" /\ item' = Rejected(i, code)

\* Leases change, runs end, and at most one pending item is rejected.
Settles ==
  /\ item' = item \/ ItemRejected
  /\ run' \in [Slots -> RunRows]
  /\ \A s \in Slots : Lasts(s) \/ Ends(s)
  /\ CursorRests

\* The item of d gets the outcome of its run.
ItemEnds(d) ==
  /\ item[d].st = "running"
  /\ item[d].bound
  /\ \E code \in Codes :
       /\ run[Slot(d)].st = StatusOf(code)
       /\ run[Slot(d)].code = code
       /\ item' = FinishedItem(d, code)
  /\ UNCHANGED <<run, cursor>>

ItemStored(d) ==
  /\ Persistable(d)
  /\ dwf[d].pc = "persist"
  /\ item' = [item EXCEPT ![d] =
       [NoItem EXCEPT !.st = "pending", !.cv = dwf[d].cv,
                      !.hv = dwf[d].hv, !.cf = dwf[d].cf]]
  /\ UNCHANGED <<run, cursor>>

ItemBound(d) ==
  /\ Bindable(d)
  /\ rwf[d].pc = "bind"
  /\ item' = [item EXCEPT ![d].st = "running", ![d].bound = TRUE]
  /\ UNCHANGED <<run, cursor>>

\* The run of d begins; those whose lease is over have ended.
RunClaimed(d) ==
  /\ item[d].st # "none"
  /\ Claimable(d, expireStaleRepositorySyncRuns(d))
  /\ run' = Claimed(d, expireStaleRepositorySyncRuns(d))
  /\ UNCHANGED <<item, cursor>>

\* The first move of the cursor by the run of d: seen as unchanged, a manifest
\* activated, or a failure recorded.
RunMoves(d) ==
  /\ Fenced(d)
  /\ UNCHANGED item
  /\ cursor' \in Cursors
  /\ cursor'.v = cursor.v + 1
  /\ \/ /\ cursor'.st = "complete" /\ cursor'.last = Slot(d)
        /\ run' = [run EXCEPT ![Slot(d)].moved = "unchanged"]
     \/ /\ cursor'.st = "observed"
        /\ run' = [run EXCEPT ![Slot(d)] =
                     [EndedRun(@, "none") EXCEPT !.moved = "activated"]]
     \/ /\ cursor'.st = "failed" /\ cursor'.code # "none"
        /\ run' = [run EXCEPT ![Slot(d)].moved = "failed"]

LedgerStep ==
  \/ Settles
  \/ \E d \in Dispatches :
       ItemEnds(d) \/ ItemStored(d) \/ ItemBound(d) \/ RunClaimed(d) \/ RunMoves(d)

\* A dispatch advances, fails, or is complete with every item started.
RowStep(e) ==
  \/ dispatch'[e] = dispatch[e]
  \/ /\ dispatch[e].st = "none" /\ dispatch'[e].st = "materialized"
     /\ dispatch'[e].receipt = dispatch[e].receipt
  \/ /\ dispatch[e].st = "materialized" /\ dispatch'[e].st = "dispatching"
     /\ dispatch'[e].receipt
  \/ /\ dispatch[e].st # "none" /\ dispatch'[e].st = "failed"
     /\ dispatch'[e].receipt = dispatch[e].receipt
  \/ /\ dispatch[e].st # "none" /\ dispatch'[e].st = "complete"
     /\ dispatch[e].receipt /\ dispatch'[e].receipt
     /\ item[e].st # "none" => rwf[e].pc # "none"

\* How a step of the dispatch Workflow of d changes its locals.
DispatchStep(d) ==
  /\ dwf' \in [Dispatches -> DispatchLocals]
  /\ \A e \in Dispatches \ {d} : dwf'[e] = dwf[e]
  /\ dwf'[d].pc = "baselined" => dwf'[d].code # "none"
  /\ dwf'[d].pc \in {"release", "fanout", "finish"} =>
       dwf[d].pc \in {"release", "fanout", "finish"} \/ dispatch'[d].receipt
  /\ dwf'[d].pc = "finish" =>
       dwf[d].pc = "finish" \/ (item'[d].st # "none" => rwf'[d].pc # "none")
  /\ \/ dwf'[d].closing \subseteq dwf[d].closing
     \/ dwf'[d].closing = Closable(d)

\* How a step of the ref Workflow of d changes its locals.
RefStep(d) ==
  /\ item[d].st # "none"
  /\ rwf' \in [Dispatches -> RefLocals]
  /\ \A e \in Dispatches \ {d} : rwf'[e] = rwf[e]
  /\ rwf'[d].pc # "none"
  /\ rwf'[d].pc = "record" => rwf'[d].code # "none"
  /\ rwf'[d].pc = "finishRun" /\ rwf'[d].code = "none" =>
       \/ rwf[d].pc = "finishRun" /\ rwf[d].code = "none"
       \/ run'[Slot(d)].moved \in Recorded

WorldStep ==
  /\ clock' \in Slots /\ env' \in Creds /\ cfg' \in Nat /\ head' \in Nat
  /\ lane' \in [Creds -> [holder : Holders, live : BOOLEAN]]

SyncStep ==
  /\ WorldStep
  /\ LedgerStep
  /\ dispatch' \in [Dispatches -> DispatchRows] /\ \A e \in Dispatches : RowStep(e)
  /\ UNCHANGED dwf \/ \E d \in Dispatches : DispatchStep(d)
  /\ UNCHANGED rwf \/ \E d \in Dispatches : RefStep(d)

-----------------------------------------------------------------------------
(* Such steps keep the invariant *)

LEMMA SyncInvInit == Init => SyncInv
<1> SUFFICES ASSUME Init PROVE SyncInv
  OBVIOUS
<1>1. Types /\ Columns
  BY TypesInit
<1>2. SingleActive /\ BindingsTrue /\ RunIsOwned
  BY Names DEF Init, SingleActive, BindingsTrue, RunIsOwned, Active, NoItem, NoRun, RefAt
<1>3. MovesTrue /\ OutcomesCarried
  BY Names DEF Init, MovesTrue, OutcomesCarried, NoRun, RefAt, DispatchAt
<1>4. DispatchesCarried /\ DispatchTruth
  BY DEF Init, DispatchesCarried, DispatchTruth, DispatchAt
<1> QED BY <1>1, <1>2, <1>3, <1>4 DEF SyncInv

\* The ledgers keep their types and columns.
LEMMA LedgersTyped ==
  ASSUME SyncInv, LedgerStep
  PROVE  /\ item' \in [Dispatches -> ItemRows]
         /\ run' \in [Slots -> RunRows]
         /\ cursor' \in Cursors
<1> USE DEF SyncInv, Types
<1>1. CASE Settles
  <2>1. ASSUME NEW i \in Dispatches, NEW code \in Codes, item' = Rejected(i, code)
        PROVE  item' \in [Dispatches -> ItemRows]
    BY ZenonT(40), <2>1 DEF Rejected, ItemRows
  <2> QED BY <1>1, <2>1 DEF Settles, CursorRests, ItemRejected
<1>2. ASSUME NEW d \in Dispatches, ItemEnds(d)
      PROVE  item' \in [Dispatches -> ItemRows]
  <2>1. PICK code \in Codes : item' = FinishedItem(d, code)
    BY <1>2 DEF ItemEnds
  <2>2. StatusOf(code) \in {"complete", "failed"}
    BY DEF StatusOf
  <2> QED BY ZenonT(40), <2>1, <2>2 DEF FinishedItem, ItemRows
<1>3. ASSUME NEW d \in Dispatches, ItemStored(d)
      PROVE  item' \in [Dispatches -> ItemRows]
  <2>1. dwf[d] \in DispatchLocals
    OBVIOUS
  <2> QED BY <1>3, <2>1 DEF ItemStored, NoItem, ItemRows, DispatchLocals, Codes
<1>4. ASSUME NEW d \in Dispatches, ItemBound(d)
      PROVE  item' \in [Dispatches -> ItemRows]
  BY ZenonT(40), <1>4 DEF ItemBound, ItemRows
<1>5. ASSUME NEW d \in Dispatches, RunClaimed(d)
      PROVE  run' \in [Slots -> RunRows]
  <2>1. expireStaleRepositorySyncRuns(d) \in [Slots -> RunRows]
    BY ZenonT(40), HolderTyped
       DEF expireStaleRepositorySyncRuns, EndedRun, StatusOf, RunRows, Codes
  <2>2. [NoRun EXCEPT !.st = "running", !.live = TRUE, !.cv = item[d].cv,
                      !.hv = item[d].hv, !.cf = item[d].cf,
                      !.by = RHolder(d)] \in RunRows
    <3>1. item[d] \in ItemRows /\ RHolder(d) \in Holders
      BY HolderTyped
    <3> QED BY <3>1 DEF NoRun, RunRows, ItemRows, Codes
  <2> QED BY <1>5, <2>1, <2>2 DEF RunClaimed, Claimed
<1>6. ASSUME NEW d \in Dispatches, RunMoves(d)
      PROVE  run' \in [Slots -> RunRows] /\ cursor' \in Cursors
  <2>1. Slot(d) \in Slots /\ {} \in Holders
    BY Names, HolderTyped
  <2>2. run[Slot(d)] \in RunRows
    BY <2>1
  <2>3. /\ [run[Slot(d)] EXCEPT !.moved = "unchanged"] \in RunRows
        /\ [run[Slot(d)] EXCEPT !.moved = "failed"] \in RunRows
        /\ [EndedRun(run[Slot(d)], "none") EXCEPT !.moved = "activated"] \in RunRows
    BY <2>1, <2>2 DEF EndedRun, StatusOf, RunRows, Codes
  <2> QED BY <1>6, <2>1, <2>3 DEF RunMoves
<1> QED BY <1>1, <1>2, <1>3, <1>4, <1>5, <1>6
        DEF LedgerStep, ItemEnds, ItemStored, ItemBound, RunClaimed, RunMoves

\* Fields of the rows the steps write.
LEMMA EndedFields ==
  ASSUME NEW r \in RunRows, NEW code \in Codes
  PROVE  /\ EndedRun(r, code).st = StatusOf(code)
         /\ EndedRun(r, code).code = code
         /\ EndedRun(r, code).moved = r.moved
         /\ Identity(EndedRun(r, code)) = Identity(r)
         /\ ~EndedRun(r, code).live
         /\ EndedRun(r, code).by = {}
         /\ EndedRun(r, code).cv = r.cv
BY DEF EndedRun, RunRows, Identity

LEMMA ClaimedRuns ==
  ASSUME SyncInv, NEW d \in Dispatches, RunClaimed(d)
  PROVE  /\ run[Slot(d)].st = "none"
         /\ run'[Slot(d)].st = "running" /\ run'[Slot(d)].live
         /\ run'[Slot(d)].moved = "no" /\ run'[Slot(d)].code = "none"
         /\ Identity(run'[Slot(d)]) = Identity(item[d])
         /\ \A s \in Slots \ {Slot(d)} :
              /\ run'[s].st # "running"
              /\ Lasts(s) \/ Ends(s)
<1> DEFINE runs == expireStaleRepositorySyncRuns(d)
           mine == [NoRun EXCEPT !.st = "running", !.live = TRUE, !.cv = item[d].cv,
                                 !.hv = item[d].hv, !.cf = item[d].cf,
                                 !.by = RHolder(d)]
<1>0. Slot(d) \in Slots /\ run \in [Slots -> RunRows]
  BY Names DEF SyncInv, Types
<1>1. ASSUME NEW s \in Slots
      PROVE  \/ runs[s] = run[s]
             \/ run[s].st = "running" /\ runs[s] = EndedRun(run[s], "reconcile")
  BY DEF expireStaleRepositorySyncRuns
<1>2. /\ mine.st = "running" /\ mine.live /\ mine.moved = "no" /\ mine.code = "none"
      /\ Identity(mine) = Identity(item[d])
  BY DEF NoRun, Identity
<1>3. run' = [runs EXCEPT ![Slot(d)] = mine]
  BY DEF RunClaimed, Claimed
<1>4. /\ \A s \in Slots : runs[s].st # "running"
      /\ runs[Slot(d)].st = "none"
  BY DEF RunClaimed, Claimable
<1>5. DOMAIN runs = Slots
  BY DEF expireStaleRepositorySyncRuns
<1> HIDE DEF runs, mine
<1>6. run'[Slot(d)] = mine /\ \A s \in Slots \ {Slot(d)} : run'[s] = runs[s]
  BY <1>0, <1>3, <1>5
<1>7. run[Slot(d)].st = "none"
  <2>1. EndedRun(run[Slot(d)], "reconcile").st # "none"
    BY <1>0, EndedFields DEF StatusOf, Codes
  <2> QED BY <1>0, <1>1, <1>4, <2>1
<1>8. ASSUME NEW s \in Slots \ {Slot(d)}
      PROVE  run'[s].st # "running" /\ (Lasts(s) \/ Ends(s))
  BY <1>1, <1>4, <1>6, <1>8 DEF Lasts, Ends, Codes
<1> QED BY <1>2, <1>6, <1>7, <1>8

\* What a step of the ledgers does to one run.
LEMMA RunsStep ==
  ASSUME SyncInv, LedgerStep, NEW s \in Slots
  PROVE  \/ Lasts(s)
         \/ Ends(s)
         \/ \E d \in Dispatches : RunClaimed(d) /\ s = Slot(d)
         \/ \E d \in Dispatches : RunMoves(d) /\ s = Slot(d)
<1>0. run \in [Slots -> RunRows] /\ \A d \in Dispatches : Slot(d) \in Slots
  BY Names DEF SyncInv, Types
<1>1. run'[s] = run[s] => Lasts(s)
  BY DEF Lasts
<1>2. ASSUME NEW d \in Dispatches, RunMoves(d), s # Slot(d)
      PROVE  run'[s] = run[s]
  BY <1>0, <1>2 DEF RunMoves
<1> QED BY <1>0, <1>1, <1>2, ClaimedRuns
        DEF LedgerStep, Settles, ItemEnds, ItemStored, ItemBound

\* The fields of a run after its move.
LEMMA MovedRun ==
  ASSUME SyncInv, NEW d \in Dispatches, RunMoves(d)
  PROVE  /\ item[d].bound
         /\ run[Slot(d)].st = "running"
         /\ run[Slot(d)].moved = "no" /\ run[Slot(d)].cv = cursor.v
         /\ run'[Slot(d)].moved \in {"unchanged", "activated", "failed"}
         /\ Identity(run'[Slot(d)]) = Identity(run[Slot(d)])
         /\ run'[Slot(d)].cv = run[Slot(d)].cv
         /\ \/ /\ run'[Slot(d)].st = "running"
               /\ run'[Slot(d)].moved \in {"unchanged", "failed"}
               /\ run'[Slot(d)].code = run[Slot(d)].code
            \/ /\ run'[Slot(d)].st = "complete" /\ run'[Slot(d)].moved = "activated"
               /\ run'[Slot(d)].live = FALSE /\ run'[Slot(d)].by = {}
<1> DEFINE r == run[Slot(d)]
<1>0. Slot(d) \in Slots /\ run \in [Slots -> RunRows] /\ r \in RunRows
      /\ item[d] \in ItemRows /\ cursor.v \in Nat
  BY Names DEF SyncInv, Types, Cursors
<1>1. item[d].bound /\ r.st = "running" /\ r.cv = cursor.v
  BY DEF RunMoves, Fenced, Current, Identity
<1>2. r.moved = "no"
  BY <1>0, <1>1 DEF SyncInv, MovesTrue, RunRows
<1>3. CASE run' = [run EXCEPT ![Slot(d)].moved = "unchanged"]
  BY <1>0, <1>1, <1>2, <1>3 DEF RunRows, Identity
<1>4. CASE run' = [run EXCEPT ![Slot(d)].moved = "failed"]
  BY <1>0, <1>1, <1>2, <1>4 DEF RunRows, Identity
<1>5. CASE run' = [run EXCEPT ![Slot(d)] = [EndedRun(@, "none") EXCEPT !.moved = "activated"]]
  BY <1>0, <1>1, <1>2, <1>5 DEF RunRows, Identity, EndedRun, StatusOf
<1> QED BY <1>3, <1>4, <1>5 DEF RunMoves

\* What a step of the ledgers does to one item.
ItemKept(e) ==
  /\ item'[e].st = item[e].st
  /\ item'[e].bound = item[e].bound
  /\ item'[e].code = item[e].code
  /\ Identity(item'[e]) = Identity(item[e])

LEMMA ItemsStep ==
  ASSUME SyncInv, LedgerStep, NEW e \in Dispatches
  PROVE  \/ ItemKept(e)
         \/ /\ Settles
            /\ item[e].st = "pending" /\ item'[e].st = "failed"
            /\ item'[e].bound = item[e].bound
            /\ Identity(item'[e]) = Identity(item[e])
            /\ \A f \in Dispatches \ {e} : item'[f] = item[f]
         \/ /\ ItemEnds(e)
            /\ item'[e].bound
            /\ item'[e].st = run[Slot(e)].st
            /\ item'[e].code = run[Slot(e)].code
            /\ Identity(item'[e]) = Identity(item[e])
         \/ /\ ItemStored(e)
            /\ item'[e].st = "pending" /\ ~item'[e].bound
            /\ Identity(item'[e]) = Identity(dwf[e])
         \/ /\ ItemBound(e)
            /\ item'[e].st = "running" /\ item'[e].bound
            /\ Identity(item'[e]) = Identity(item[e])
<1>0. item \in [Dispatches -> ItemRows] /\ item[e] \in ItemRows
  BY DEF SyncInv, Types
<1>1. item'[e] = item[e] => ItemKept(e)
  BY DEF ItemKept
<1>2. CASE Settles
  <2>1. ASSUME NEW i \in Dispatches, NEW code \in Codes,
               item[i].st = "pending", item' = Rejected(i, code), i # e
        PROVE  item'[e] = item[e]
    BY <1>0, <2>1 DEF Rejected
  <2>2. ASSUME NEW code \in Codes, item[e].st = "pending", item' = Rejected(e, code)
        PROVE  /\ item'[e].st = "failed"
               /\ item'[e].bound = item[e].bound
               /\ Identity(item'[e]) = Identity(item[e])
               /\ \A f \in Dispatches \ {e} : item'[f] = item[f]
    BY <1>0, <2>2 DEF Rejected, ItemRows, Identity
  <2> QED BY <1>1, <1>2, <2>1, <2>2 DEF Settles, ItemRejected
<1>3. ASSUME NEW d \in Dispatches, ItemEnds(d)
      PROVE  IF d = e THEN /\ item'[e].bound
                           /\ item'[e].st = run[Slot(e)].st
                           /\ item'[e].code = run[Slot(e)].code
                           /\ Identity(item'[e]) = Identity(item[e])
             ELSE item'[e] = item[e]
  <2>1. PICK code \in Codes : /\ run[Slot(d)].st = StatusOf(code)
                              /\ run[Slot(d)].code = code
                              /\ item' = FinishedItem(d, code)
    BY <1>3 DEF ItemEnds
  <2>2. item' = [item EXCEPT ![d] = [item[d] EXCEPT !.st = StatusOf(code), !.code = code]]
    BY <2>1 DEF FinishedItem
  <2>3. CASE d = e
    BY <1>0, <1>3, <2>1, <2>2, <2>3 DEF ItemEnds, ItemRows, Identity
  <2> QED BY <1>0, <2>2, <2>3
<1>4. ASSUME NEW d \in Dispatches, ItemStored(d)
      PROVE  IF d = e THEN /\ item'[e].st = "pending" /\ ~item'[e].bound
                           /\ Identity(item'[e]) = Identity(dwf[e])
             ELSE item'[e] = item[e]
  BY <1>0, <1>4 DEF ItemStored, NoItem, Identity
<1>5. ASSUME NEW d \in Dispatches, ItemBound(d)
      PROVE  IF d = e THEN /\ item'[e].st = "running" /\ item'[e].bound
                           /\ Identity(item'[e]) = Identity(item[e])
             ELSE item'[e] = item[e]
  BY <1>0, <1>5 DEF ItemBound, ItemRows, Identity
<1> QED BY <1>1, <1>2, <1>3, <1>4, <1>5 DEF LedgerStep, RunClaimed, RunMoves

\* What of the other rows stays when one item changes.
LEMMA OtherItems ==
  ASSUME SyncInv, NEW d \in Dispatches, ItemEnds(d) \/ ItemStored(d) \/ ItemBound(d)
  PROVE  \A e \in Dispatches \ {d} : item'[e] = item[e]
<1>1. item \in [Dispatches -> ItemRows]
  BY DEF SyncInv, Types
<1> QED BY <1>1 DEF ItemEnds, ItemStored, ItemBound, FinishedItem

LEMMA ColumnsKept ==
  ASSUME SyncInv, LedgerStep
  PROVE  Columns'
<1>0. /\ run \in [Slots -> RunRows] /\ cursor \in Cursors
      /\ \A d \in Dispatches : Slot(d) \in Slots
      /\ item' \in [Dispatches -> ItemRows]
  BY Names, LedgersTyped DEF SyncInv, Types
<1>1. cursor'.v = 0 <=> cursor'.st = "absent"
  <2>1. cursor.v = 0 <=> cursor.st = "absent"
    BY DEF SyncInv, Columns
  <2>2. cursor' = cursor \/ (cursor'.v > cursor.v /\ cursor'.st # "absent")
    <3>1. ASSUME NEW d \in Dispatches, RunMoves(d)
          PROVE  cursor'.v > cursor.v /\ cursor'.st # "absent"
      BY <1>0, <3>1 DEF RunMoves, Cursors
    <3>2. Settles => cursor' = cursor \/ (cursor'.v > cursor.v /\ cursor'.st # "absent")
      BY DEF Settles, CursorRests
    <3> QED BY <3>1, <3>2 DEF LedgerStep, ItemEnds, ItemStored, ItemBound, RunClaimed
  <2>3. cursor' = cursor \/ cursor'.v # 0
    BY <1>0, <2>2, LedgersTyped DEF Cursors
  <2> QED BY <2>1, <2>2, <2>3
<1>2. ASSUME NEW s \in Slots, run'[s].st # "running"
      PROVE  ~run'[s].live /\ run'[s].by = {}
  <2>1. run[s].st # "running" => ~run[s].live /\ run[s].by = {}
    BY DEF SyncInv, Columns
  <2>2. CASE Lasts(s)
    BY <1>2, <2>1, <2>2 DEF Lasts
  <2>3. CASE Ends(s)
    <3>1. PICK code \in Codes : run'[s] = EndedRun(run[s], code)
      BY <2>3 DEF Ends
    <3> QED BY <1>0, <3>1, EndedFields
  <2>4. ASSUME NEW d \in Dispatches, RunMoves(d), s = Slot(d)
        PROVE  ~run'[s].live /\ run'[s].by = {}
    BY <1>2, <2>4, MovedRun
  <2> QED BY <1>2, <2>2, <2>3, <2>4, RunsStep, ClaimedRuns
<1>3. ASSUME NEW e \in Dispatches
      PROVE  /\ item'[e].bound => item'[e].st \in {"running", "complete", "failed"}
             /\ item'[e].st = "running" => item'[e].bound
  <2>1. /\ item[e].bound => item[e].st \in {"running", "complete", "failed"}
        /\ item[e].st = "running" => item[e].bound
    BY DEF SyncInv, Columns
  <2>2. ItemEnds(e) => run[Slot(e)].st \in {"complete", "failed"}
    BY DEF ItemEnds, StatusOf
  <2> QED BY <2>1, <2>2, ItemsStep DEF ItemKept
<1> QED BY <1>1, <1>2, <1>3 DEF Columns

LEMMA SingleKept ==
  ASSUME SyncInv, LedgerStep
  PROVE  SingleActive'
<1> SUFFICES ASSUME NEW d \in Dispatches, NEW e \in Dispatches, Active(d)', Active(e)'
             PROVE  d = e
  BY DEF SingleActive
<1>1. \A f \in Dispatches : Active(f)' => Active(f) \/ ItemStored(f)
  <2>1. ASSUME NEW f \in Dispatches, Active(f)'
        PROVE  Active(f) \/ ItemStored(f)
    <3>1. ItemEnds(f) \/ ItemBound(f) => Active(f)
      BY DEF ItemEnds, ItemBound, Bindable, Active
    <3> QED BY <2>1, <3>1, ItemsStep DEF Active, ItemKept
  <2> QED BY <2>1
<1>2. ASSUME NEW f \in Dispatches, ItemStored(f)
      PROVE  \A g \in Dispatches : Active(g)' => f = g
  BY <1>2, OtherItems DEF ItemStored, Persistable, Active
<1> QED BY <1>1, <1>2 DEF SyncInv, SingleActive

\* A bound item's run is under way or over.
LEMMA RunsAppear ==
  ASSUME SyncInv, LedgerStep, NEW s \in Slots, run[s].st # "none"
  PROVE  /\ run'[s].st # "none"
         /\ Identity(run'[s]) = Identity(run[s])
         /\ run[s].st # "running" =>
              run'[s].st = run[s].st /\ run'[s].code = run[s].code
<1>0. run[s] \in RunRows
  BY DEF SyncInv, Types
<1>1. CASE Lasts(s)
  BY <1>1 DEF Lasts
<1>2. CASE Ends(s)
  <2>1. PICK code \in Codes : run'[s] = EndedRun(run[s], code)
    BY <1>2 DEF Ends
  <2>2. StatusOf(code) # "none"
    BY DEF StatusOf
  <2>3. run[s].st = "running"
    BY <1>2 DEF Ends
  <2> QED BY <1>0, <2>1, <2>2, <2>3, EndedFields
<1>3. ASSUME NEW d \in Dispatches, RunMoves(d), s = Slot(d)
      PROVE  /\ run'[s].st # "none"
             /\ Identity(run'[s]) = Identity(run[s])
             /\ run[s].st = "running"
  BY <1>3, MovedRun
<1> QED BY <1>1, <1>2, <1>3, ClaimedRuns, RunsStep

\* Workflows that began have begun, and those that begin have their item.
WorkflowsBegin ==
  \A e \in Dispatches :
    /\ rwf[e].pc # "none" => rwf'[e].pc # "none"
    /\ rwf'[e].pc # "none" => rwf[e].pc # "none" \/ item[e].st # "none"

LEMMA RefsBegin ==
  ASSUME SyncInv, SyncStep
  PROVE  WorkflowsBegin
BY DEF SyncStep, RefStep, WorkflowsBegin

LEMMA BindingsKept ==
  ASSUME SyncInv, SyncStep
  PROVE  BindingsTrue'
<1> SUFFICES ASSUME NEW e \in Dispatches
             PROVE  /\ item'[e].bound =>
                         /\ run'[Slot(e)].st # "none"
                         /\ Identity(item'[e]) = Identity(run'[Slot(e)])
                         /\ rwf'[e].pc # "none"
                    /\ item'[e].bound /\ ~Active(e)' =>
                         /\ run'[Slot(e)].st = item'[e].st
                         /\ run'[Slot(e)].code = item'[e].code
                    /\ item'[e].st = "complete" => item'[e].bound
                    /\ rwf'[e].pc # "none" => item'[e].st # "none"
  BY DEF BindingsTrue, Identity
<1>0. Slot(e) \in Slots /\ LedgerStep
  BY Names DEF SyncStep
<1>1. /\ item[e].bound =>
           /\ run[Slot(e)].st # "none"
           /\ Identity(item[e]) = Identity(run[Slot(e)])
           /\ rwf[e].pc # "none"
      /\ item[e].bound /\ ~Active(e) =>
           /\ run[Slot(e)].st = item[e].st
           /\ run[Slot(e)].code = item[e].code
      /\ item[e].st = "complete" => item[e].bound
      /\ rwf[e].pc # "none" => item[e].st # "none"
  BY DEF SyncInv, BindingsTrue
<1>2. /\ item[e].bound => item[e].st \in {"running", "complete", "failed"}
      /\ item[e].st = "running" => item[e].bound
  BY DEF SyncInv, Columns
<1>3. WorkflowsBegin
  BY RefsBegin
<1>4. run[Slot(e)].st # "none" =>
        /\ run'[Slot(e)].st # "none"
        /\ Identity(run'[Slot(e)]) = Identity(run[Slot(e)])
        /\ run[Slot(e)].st # "running" =>
             run'[Slot(e)].st = run[Slot(e)].st /\ run'[Slot(e)].code = run[Slot(e)].code
  BY <1>0, RunsAppear
<1>5. CASE ItemKept(e)
  BY <1>1, <1>2, <1>3, <1>4, <1>5 DEF ItemKept, Active, WorkflowsBegin
<1>6. CASE /\ item[e].st = "pending" /\ item'[e].st = "failed"
           /\ item'[e].bound = item[e].bound
  BY <1>1, <1>2, <1>3, <1>6 DEF WorkflowsBegin
<1>7. CASE /\ ItemEnds(e)
           /\ item'[e].bound
           /\ item'[e].st = run[Slot(e)].st
           /\ item'[e].code = run[Slot(e)].code
           /\ Identity(item'[e]) = Identity(item[e])
  <2>1. run'[Slot(e)] = run[Slot(e)] /\ item[e].bound
        /\ run[Slot(e)].st \in {"complete", "failed"}
    BY <1>7 DEF ItemEnds, StatusOf
  <2> QED BY <1>1, <1>3, <1>7, <2>1 DEF WorkflowsBegin
<1>8. CASE /\ ItemStored(e) /\ item'[e].st = "pending" /\ ~item'[e].bound
           /\ Identity(item'[e]) = Identity(dwf[e])
  BY <1>8
<1>9. CASE /\ ItemBound(e)
           /\ item'[e].st = "running" /\ item'[e].bound
           /\ Identity(item'[e]) = Identity(item[e])
  <2>1. run'[Slot(e)] = run[Slot(e)] /\ rwf[e].pc = "bind"
        /\ run[Slot(e)].st = "running"
        /\ Identity(run[Slot(e)]) = Identity(item[e])
    BY <1>9 DEF ItemBound, Bindable
  <2> QED BY <1>3, <1>9, <2>1 DEF WorkflowsBegin, Active
<1> QED BY <1>0, <1>5, <1>6, <1>7, <1>8, <1>9, ItemsStep

\* Nothing but the binding step binds an item.
LEMMA NothingElseBinds ==
  ASSUME SyncInv, LedgerStep, NEW e \in Dispatches, item'[e].bound
  PROVE  item[e].bound \/ ItemBound(e)
BY ItemsStep DEF ItemKept, ItemEnds, SyncInv, Columns

\* While a run is going, an item of its that was bound is the active one.
LEMMA BoundIsActive ==
  ASSUME SyncInv, NEW d \in Dispatches, item[d].bound, run[Slot(d)].st = "running"
  PROVE  item[d].st = "running"
BY DEF SyncInv, Columns, BindingsTrue, Active

Owned(s, d) ==
  /\ Slot(d) = s
  /\ Identity(item[d]) = Identity(run[s])
  /\ \/ item[d].st = "pending"
     \/ item[d].st = "running" /\ item[d].bound
     \/ Orphan(d)

LEMMA OwnedKept ==
  ASSUME SyncInv, LedgerStep
  PROVE  RunIsOwned'
<1> SUFFICES ASSUME NEW s \in Slots, run'[s].st = "running"
             PROVE  \E d \in Dispatches : Owned(s, d)'
  BY DEF RunIsOwned, Owned
<1>0. run[s] \in RunRows
  BY DEF SyncInv, Types
<1>1. CASE \E j \in Dispatches : ItemBound(j) /\ Slot(j) = s
  <2>1. PICK j \in Dispatches : ItemBound(j) /\ Slot(j) = s
    BY <1>1
  <2>2. run' = run /\ Identity(run[s]) = Identity(item[j])
    BY <2>1 DEF ItemBound, Bindable
  <2>3. item \in [Dispatches -> ItemRows]
    BY DEF SyncInv, Types
  <2>4. item'[j].st = "running" /\ item'[j].bound /\ Identity(item'[j]) = Identity(item[j])
    BY <2>1, <2>3 DEF ItemBound, ItemRows, Identity
  <2> QED BY <2>1, <2>2, <2>4 DEF Owned, Identity
<1>2. CASE Lasts(s) /\ ~\E j \in Dispatches : ItemBound(j) /\ Slot(j) = s
  <2>1. run[s].st = "running" /\ Identity(run'[s]) = Identity(run[s])
    BY <1>2 DEF Lasts
  <2>2. PICK d \in Dispatches : Owned(s, d)
    BY <2>1 DEF SyncInv, RunIsOwned, Owned
  <2>3. \A j \in Dispatches : Slot(j) = s /\ item'[j].bound => item[j].bound
    BY <1>2, NothingElseBinds
  <2>4. Orphan(d)' <=>
          /\ item'[d].st = "failed"
          /\ ~item'[d].bound
          /\ Identity(item'[d]) = Identity(run'[s])
          /\ \A j \in Dispatches : Slot(j) = s => ~item'[j].bound
    BY <2>2 DEF Orphan, Owned, Identity
  <2>5. Owned(s, d)' <=>
          /\ Identity(item'[d]) = Identity(run'[s])
          /\ \/ item'[d].st = "pending"
             \/ item'[d].st = "running" /\ item'[d].bound
             \/ Orphan(d)'
    BY <2>2 DEF Owned, Identity
  <2>6. CASE ItemKept(d)
    <3>1. Orphan(d) => \A j \in Dispatches : Slot(j) = s => ~item'[j].bound
      BY <2>2, <2>3 DEF Orphan, Owned
    <3> QED BY <2>1, <2>2, <2>4, <2>5, <2>6, <3>1 DEF ItemKept, Owned, Orphan
  <2>7. CASE /\ item[d].st = "pending" /\ item'[d].st = "failed"
             /\ item'[d].bound = item[d].bound
             /\ Identity(item'[d]) = Identity(item[d])
    <3>1. ~item[d].bound
      BY <2>7 DEF SyncInv, Columns
    <3>2. \A j \in Dispatches : Slot(j) = s => ~item[j].bound
      BY <2>1, <2>7, BoundIsActive DEF SyncInv, SingleActive, Active
    <3>3. Identity(item[d]) = Identity(run[s])
      BY <2>2 DEF Owned
    <3> QED BY <2>1, <2>3, <2>4, <2>5, <2>7, <3>1, <3>2, <3>3
  <2>8. CASE ItemEnds(d)
    BY <2>1, <2>2, <2>8 DEF ItemEnds, StatusOf, Owned
  <2>9. CASE /\ ItemStored(d)
             /\ item'[d].st = "pending" /\ ~item'[d].bound
             /\ Identity(item'[d]) = Identity(dwf[d])
    <3>1. item[d].st \in {"none", "pending"}
          /\ (item[d].st = "pending" => Identity(item[d]) = Identity(dwf[d]))
      BY <2>9 DEF ItemStored, Persistable
    <3>2. Identity(item[d]) = Identity(run[s]) /\ item[d].st # "none"
      BY <2>2 DEF Owned, Orphan
    <3> QED BY <2>1, <2>5, <2>9, <3>1, <3>2
  <2>10. ~ItemBound(d)
    BY <1>2, <2>2 DEF Owned
  <2> QED BY <2>5, <2>6, <2>7, <2>8, <2>9, <2>10, ItemsStep
<1>3. CASE Ends(s)
  <2>1. PICK code \in Codes : run'[s] = EndedRun(run[s], code)
    BY <1>3 DEF Ends
  <2> QED BY <1>0, <2>1, EndedFields DEF StatusOf
<1>4. ASSUME NEW d \in Dispatches, RunClaimed(d), s = Slot(d)
      PROVE  Owned(s, d)'
  <2>1. run[s].st = "none" /\ Identity(run'[s]) = Identity(item[d])
    BY <1>4, ClaimedRuns
  <2>2. item' = item /\ item[d].st # "none"
    BY <1>4 DEF RunClaimed
  <2>3. \A j \in Dispatches : Slot(j) = s => ~item[j].bound
    BY <2>1 DEF SyncInv, BindingsTrue
  <2>4. item[d].st \in {"none", "pending", "running", "complete", "failed"}
    BY DEF SyncInv, Types, ItemRows
  <2>5. item[d].st \in {"pending", "failed"}
    BY <1>4, <2>2, <2>3, <2>4 DEF SyncInv, Columns, BindingsTrue
  <2> QED BY <1>4, <2>1, <2>2, <2>3, <2>5 DEF Owned, Orphan, Identity
<1>5. ASSUME NEW d \in Dispatches, RunMoves(d), s = Slot(d)
      PROVE  Owned(s, d)'
  <2>1. /\ item' = item /\ item[d].bound
        /\ Identity(run[s]) = Identity(item[d])
        /\ run[s].st = "running"
    BY <1>5 DEF RunMoves, Fenced
  <2>2. item[d].st = "running"
    BY <1>5, <2>1, BoundIsActive
  <2>3. Identity(run'[s]) = Identity(run[s])
    BY <1>5, MovedRun
  <2> QED BY <1>5, <2>1, <2>2, <2>3 DEF Owned, Identity
<1> QED BY <1>1, <1>2, <1>3, <1>4, <1>5, RunsStep

\* A run whose move is recorded keeps it.
LEMMA MovesKept ==
  ASSUME SyncInv, LedgerStep, NEW s \in Slots, run[s].moved # "no"
  PROVE  run'[s].moved = run[s].moved
<1>0. run[s] \in RunRows
  BY DEF SyncInv, Types
<1>1. CASE Ends(s)
  <2>1. PICK code \in Codes : run'[s] = EndedRun(run[s], code)
    BY <1>1 DEF Ends
  <2> QED BY <1>0, <2>1, EndedFields
<1>2. ASSUME NEW d \in Dispatches, RunClaimed(d) \/ RunMoves(d), s = Slot(d)
      PROVE  FALSE
  BY <1>2, ClaimedRuns, MovedRun DEF SyncInv, MovesTrue
<1> QED BY <1>1, <1>2, RunsStep DEF Lasts

LEMMA MovesTrueKept ==
  ASSUME SyncInv, LedgerStep
  PROVE  MovesTrue'
<1>0. /\ run \in [Slots -> RunRows] /\ cursor \in Cursors
      /\ \A d \in Dispatches : Slot(d) \in Slots
      /\ run' \in [Slots -> RunRows] /\ cursor' \in Cursors
  BY Names, LedgersTyped DEF SyncInv, Types
<1>1. cursor' = cursor \/ cursor'.v > cursor.v
  <2>1. ASSUME NEW d \in Dispatches, RunMoves(d)
        PROVE  cursor'.v > cursor.v
    BY <1>0, <2>1 DEF RunMoves, Cursors
  <2> QED BY <2>1 DEF LedgerStep, Settles, CursorRests, ItemEnds, ItemStored, ItemBound,
              RunClaimed
<1>2. ASSUME NEW s \in Slots
      PROVE  /\ run'[s].st = "none" => run'[s].moved = "no"
             /\ run'[s].moved # "no" => cursor'.v > run'[s].cv
             /\ run'[s].st = "complete" => run'[s].moved \in Recorded
             /\ run'[s].moved = "activated" => run'[s].st = "complete"
  <2>1. /\ run[s].st = "none" => run[s].moved = "no"
        /\ run[s].moved # "no" => cursor.v > run[s].cv
        /\ run[s].st = "complete" => run[s].moved \in Recorded
        /\ run[s].moved = "activated" => run[s].st = "complete"
    BY DEF SyncInv, MovesTrue
  <2>2. CASE Lasts(s)
    <3>1. run'[s].cv = run[s].cv
      BY <2>2 DEF Lasts, Identity
    <3>2. cursor.v \in Nat /\ cursor'.v \in Nat /\ run[s].cv \in Nat
      BY <1>0 DEF Cursors, RunRows
    <3> QED BY <1>1, <2>1, <2>2, <3>1, <3>2 DEF Lasts
  <2>3. CASE Ends(s)
    <3>1. PICK code \in Codes : /\ run'[s] = EndedRun(run[s], code)
                                /\ code = "none" => run[s].moved \in Recorded
      BY <2>3 DEF Ends
    <3>2. /\ run'[s].moved = run[s].moved /\ run'[s].cv = run[s].cv
          /\ run'[s].st = StatusOf(code)
      BY <1>0, <3>1, EndedFields
    <3>3. run[s].moved # "activated"
      BY <2>1, <2>3 DEF Ends
    <3>4. cursor.v \in Nat /\ cursor'.v \in Nat /\ run[s].cv \in Nat
      BY <1>0 DEF Cursors, RunRows
    <3> QED BY <1>1, <2>1, <3>1, <3>2, <3>3, <3>4 DEF StatusOf
  <2>4. ASSUME NEW d \in Dispatches, RunClaimed(d), s = Slot(d)
        PROVE  run'[s].st = "running" /\ run'[s].moved = "no"
    BY <2>4, ClaimedRuns
  <2>5. ASSUME NEW d \in Dispatches, RunMoves(d), s = Slot(d)
        PROVE  /\ run'[s].st # "none"
               /\ run'[s].cv < cursor'.v
               /\ run'[s].st = "complete" => run'[s].moved \in Recorded
               /\ run'[s].moved = "activated" => run'[s].st = "complete"
    <3>1. cursor'.v = cursor.v + 1 /\ cursor.v \in Nat
      BY <1>0, <2>5 DEF RunMoves, Cursors
    <3>2. run'[s].cv = cursor.v
      BY <2>5, MovedRun
    <3>3. \/ run'[s].st = "running" /\ run'[s].moved \in {"unchanged", "failed"}
          \/ run'[s].st = "complete" /\ run'[s].moved = "activated"
      BY <2>5, MovedRun
    <3> QED BY <3>1, <3>2, <3>3 DEF Recorded
  <2>6. cursor'.v \in Nat /\ run'[s].cv \in Nat
    BY <1>0 DEF Cursors, RunRows
  <2> QED BY <2>2, <2>3, <2>4, <2>5, <2>6, RunsStep
<1>3. ASSUME cursor'.st = "complete"
      PROVE  cursor'.last \in Slots /\ run'[cursor'.last].moved = "unchanged"
  <2>1. CASE cursor' = cursor
    <3>1. cursor.last \in Slots /\ run[cursor.last].moved = "unchanged"
      BY <1>3, <2>1 DEF SyncInv, MovesTrue
    <3> QED BY <2>1, <3>1, MovesKept
  <2>2. ASSUME NEW d \in Dispatches, RunMoves(d)
        PROVE  cursor'.last = Slot(d) /\ run'[Slot(d)].moved = "unchanged"
    <3>1. Slot(d) \in Slots /\ run[Slot(d)] \in RunRows
      BY <1>0
    <3> QED BY <1>0, <1>3, <2>2, <3>1 DEF RunMoves, RunRows
  <2> QED BY <1>0, <1>3, <2>1, <2>2 DEF LedgerStep, Settles, CursorRests, ItemEnds,
            ItemStored, ItemBound, RunClaimed
<1>4. cursor'.st = "failed" => cursor'.code # "none"
  BY DEF LedgerStep, Settles, CursorRests, ItemEnds, ItemStored, ItemBound,
         RunClaimed, RunMoves, SyncInv, MovesTrue
<1> QED BY <1>2, <1>3, <1>4 DEF MovesTrue

\* The Workflows and the dispatches.
LEMMA LocalsStep ==
  ASSUME SyncInv, SyncStep
  PROVE  /\ dwf' \in [Dispatches -> DispatchLocals]
         /\ rwf' \in [Dispatches -> RefLocals]
         /\ \A e \in Dispatches : dwf'[e] = dwf[e] \/ DispatchStep(e)
         /\ \A e \in Dispatches : rwf'[e] = rwf[e] \/ RefStep(e)
<1>1. dwf \in [Dispatches -> DispatchLocals] /\ rwf \in [Dispatches -> RefLocals]
  BY DEF SyncInv, Types
<1>2. UNCHANGED dwf \/ \E d \in Dispatches : DispatchStep(d)
  BY DEF SyncStep
<1>3. UNCHANGED rwf \/ \E d \in Dispatches : RefStep(d)
  BY DEF SyncStep
<1> QED BY <1>1, <1>2, <1>3 DEF DispatchStep, RefStep

LEMMA CarriedKept ==
  ASSUME SyncInv, SyncStep
  PROVE  OutcomesCarried'
<1> SUFFICES ASSUME NEW e \in Dispatches
             PROVE  /\ rwf'[e].pc = "record" => rwf'[e].code # "none"
                    /\ rwf'[e].pc = "finishRun" /\ rwf'[e].code = "none" =>
                         run'[Slot(e)].moved \in Recorded
                    /\ dwf'[e].pc = "baselined" => dwf'[e].code # "none"
  BY DEF OutcomesCarried
<1>1. /\ rwf[e].pc = "record" => rwf[e].code # "none"
      /\ rwf[e].pc = "finishRun" /\ rwf[e].code = "none" =>
           run[Slot(e)].moved \in Recorded
      /\ dwf[e].pc = "baselined" => dwf[e].code # "none"
  BY DEF SyncInv, OutcomesCarried
<1>2. run[Slot(e)].moved \in Recorded => run'[Slot(e)].moved = run[Slot(e)].moved
  BY Names, MovesKept DEF SyncStep, Recorded
<1>3. dwf'[e].pc = "baselined" => dwf'[e].code # "none"
  BY <1>1, LocalsStep DEF DispatchStep
<1>4. CASE rwf'[e] = rwf[e]
  BY <1>1, <1>2, <1>3, <1>4
<1>5. CASE RefStep(e)
  BY <1>1, <1>2, <1>3, <1>5 DEF RefStep
<1> QED BY <1>4, <1>5, LocalsStep

\* Of the items of a materialized dispatch none appears, and what is over stays.
LEMMA ItemsStay ==
  ASSUME SyncInv, LedgerStep, NEW e \in Dispatches
  PROVE  /\ item[e].st # "none" => item'[e].st # "none"
         /\ item[e].st = "none" /\ item'[e].st # "none" =>
              dispatch[e].st = "materialized" /\ dwf[e].pc = "persist"
         /\ item[e].st = "complete" => item'[e].st = "complete"
<1>1. ItemEnds(e) => run[Slot(e)].st \in {"complete", "failed"} /\ item[e].st = "running"
  BY DEF ItemEnds, StatusOf
<1>2. ItemStored(e) => /\ dispatch[e].st = "materialized" /\ dwf[e].pc = "persist"
                       /\ item[e].st \in {"none", "pending"}
  BY DEF ItemStored, Persistable
<1>3. ItemBound(e) => item[e].st = "pending"
  BY DEF ItemBound, Bindable
<1> QED BY <1>1, <1>2, <1>3, ItemsStep DEF ItemKept

LEMMA DispatchesKept ==
  ASSUME SyncInv, SyncStep
  PROVE  DispatchesCarried' /\ DispatchTruth'
<1>0. /\ LedgerStep
      /\ \A e \in Dispatches : RowStep(e)
      /\ WorkflowsBegin
  BY RefsBegin DEF SyncStep
<1>1. ASSUME NEW e \in Dispatches
      PROVE  /\ dispatch'[e].receipt => dispatch'[e].st \notin {"none", "materialized"}
             /\ dispatch[e].receipt => dispatch'[e].receipt
  BY <1>0 DEF RowStep, SyncInv, DispatchesCarried
<1>2. ASSUME NEW e \in Dispatches, dwf'[e].pc \in {"release", "fanout", "finish"}
      PROVE  dispatch'[e].receipt
  BY <1>1, <1>2, LocalsStep DEF SyncInv, DispatchesCarried, DispatchStep
<1>3. ASSUME NEW e \in Dispatches, dwf'[e].pc = "finish", item'[e].st # "none"
      PROVE  rwf'[e].pc # "none"
  <2>1. dwf[e].pc = "finish" => item[e].st # "none"
    BY <1>0, <1>3, ItemsStay
  <2>2. dwf[e].pc = "finish" => rwf'[e].pc # "none"
    BY <1>0, <2>1 DEF SyncInv, DispatchesCarried, WorkflowsBegin
  <2> QED BY <1>3, <2>2, LocalsStep DEF DispatchStep
<1>4. ASSUME NEW e \in Dispatches, NEW c \in dwf'[e].closing, c[2] = "none"
      PROVE  dispatch'[c[1]].receipt /\ item'[c[1]].st \in {"none", "complete"}
  <2>0. c[1] \in Dispatches
    <3>1. dwf'[e] \in DispatchLocals
      BY LocalsStep
    <3> QED BY <3>1, <1>4 DEF DispatchLocals
  <2>1. ASSUME dispatch[c[1]].receipt, item[c[1]].st \in {"none", "complete"}
        PROVE  dispatch'[c[1]].receipt /\ item'[c[1]].st \in {"none", "complete"}
    BY <1>0, <1>1, <2>0, <2>1, ItemsStay DEF SyncInv, DispatchesCarried
  <2>2. ASSUME c \in Closable(e)
        PROVE  dispatch[c[1]].receipt /\ item[c[1]].st \in {"none", "complete"}
    <3>1. PICK i \in Dispatches :
            /\ ~Active(i)
            /\ c = <<i, IF dispatch[i].receipt /\ item[i].st # "failed" THEN "none"
                        ELSE "reconcile">>
      BY <2>2 DEF Closable
    <3>2. item[i] \in ItemRows
      BY DEF SyncInv, Types
    <3> QED BY <1>4, <3>1, <3>2 DEF Active, ItemRows
  <2>3. CASE c \in dwf[e].closing
    BY <1>4, <2>1, <2>3 DEF SyncInv, DispatchesCarried
  <2> QED BY <1>4, <2>1, <2>2, <2>3, LocalsStep DEF DispatchStep
<1>5. ASSUME NEW e \in Dispatches, dispatch'[e].st = "complete"
      PROVE  /\ dispatch'[e].receipt
             /\ item'[e].st # "none" => rwf'[e].pc # "none"
  <2>1. CASE dispatch'[e] = dispatch[e]
    BY <1>0, <1>5, <2>1, ItemsStay DEF SyncInv, DispatchTruth, WorkflowsBegin
  <2>2. CASE /\ dispatch[e].st # "none" /\ dispatch[e].receipt /\ dispatch'[e].receipt
             /\ item[e].st # "none" => rwf[e].pc # "none"
    BY <1>0, <2>2, ItemsStay DEF SyncInv, DispatchesCarried, WorkflowsBegin
  <2> QED BY <1>0, <1>5, <2>1, <2>2 DEF RowStep
<1> QED BY <1>1, <1>2, <1>3, <1>4, <1>5 DEF DispatchesCarried, DispatchTruth

LEMMA SyncStepKeeps ==
  ASSUME SyncInv, SyncStep
  PROVE  /\ SyncInv'
         /\ \A s \in Slots : run[s].moved # "no" => run'[s].moved = run[s].moved
<1>1. LedgerStep
  BY DEF SyncStep
<1>2. Types'
  BY <1>1, LedgersTyped, LocalsStep DEF SyncStep, WorldStep, Types
<1> QED BY <1>1, <1>2, ColumnsKept, SingleKept, BindingsKept, OwnedKept, MovesTrueKept,
           CarriedKept, DispatchesKept, MovesKept DEF SyncInv

-----------------------------------------------------------------------------
(* Every step is such a step: what the operators do *)

LEMMA RowTypes ==
  ASSUME SyncInv
  PROVE  /\ clock \in Slots /\ env \in Creds /\ cfg \in Nat /\ head \in Nat
         /\ cursor \in Cursors
         /\ dispatch \in [Dispatches -> DispatchRows]
         /\ item \in [Dispatches -> ItemRows]
         /\ run \in [Slots -> RunRows]
         /\ lane \in [Creds -> [holder : Holders, live : BOOLEAN]]
         /\ dwf \in [Dispatches -> DispatchLocals]
         /\ rwf \in [Dispatches -> RefLocals]
         /\ \A d \in Dispatches : Slot(d) \in Slots /\ Cred(d) \in Creds
BY Names DEF SyncInv, Types

LEMMA LedgersRest ==
  ASSUME SyncInv, UNCHANGED <<cursor, item, run>>
  PROVE  LedgerStep
<1>1. \A s \in Slots : Lasts(s)
  BY DEF Lasts
<1> QED BY <1>1, RowTypes DEF LedgerStep, Settles, CursorRests

LEMMA RowsRest ==
  ASSUME SyncInv, UNCHANGED dispatch
  PROVE  dispatch' \in [Dispatches -> DispatchRows] /\ \A e \in Dispatches : RowStep(e)
BY RowTypes DEF RowStep

LEMMA WorldRests ==
  ASSUME SyncInv, UNCHANGED <<clock, env, cfg, head, lane>>
  PROVE  WorldStep
BY RowTypes DEF WorldStep

LEMMA LanesTyped ==
  ASSUME SyncInv, NEW d \in Dispatches, NEW holder \in Holders
  PROVE  /\ Released(Cred(d), holder) \in [Creds -> [holder : Holders, live : BOOLEAN]]
         /\ tryAcquireGitHubCredentialLane(Cred(d), holder) =>
              lane' \in [Creds -> [holder : Holders, live : BOOLEAN]]
<1>1. [holder |-> {}, live |-> FALSE] \in [holder : Holders, live : BOOLEAN]
      /\ [holder |-> holder, live |-> TRUE] \in [holder : Holders, live : BOOLEAN]
  BY HolderTyped
<1> QED BY <1>1, RowTypes DEF Released, tryAcquireGitHubCredentialLane

\* The jumps of a dispatch Workflow.
LEMMA DispatchJumps ==
  ASSUME SyncInv, NEW d \in Dispatches,
         NEW pc \in DispatchPcs \ {"baselined", "release", "fanout", "finish"},
         \/ DGoto(d, pc) \/ DLeave(d, pc)
         \/ \E code \in Codes : DFail(d, code)
  PROVE  DispatchStep(d)
<1>1. dwf \in [Dispatches -> DispatchLocals] /\ dwf[d] \in DispatchLocals
  BY RowTypes
<1>2. CASE DGoto(d, pc)
  BY <1>1, <1>2 DEF DGoto, DispatchStep, DispatchLocals
<1>3. CASE DLeave(d, pc)
  <2>1. DispatchAt(pc) \in DispatchLocals /\ DispatchAt(pc).pc = pc /\ DispatchAt(pc).closing = {}
    BY LocalsTyped DEF DispatchAt
  <2> QED BY <1>1, <1>3, <2>1 DEF DLeave, DispatchStep
<1>4. ASSUME NEW code \in Codes, DFail(d, code)
      PROVE  DispatchStep(d)
  <2> DEFINE l == [DispatchAt("fail") EXCEPT !.code = code, !.laned = dwf[d].laned]
  <2>1. l \in DispatchLocals /\ l.pc = "fail" /\ l.closing = {}
    <3>1. l \in DispatchLocals
      BY ZenonT(40), <1>1, LocalsTyped DEF DispatchLocals, DispatchPcs
    <3>2. l.pc = "fail" /\ l.closing = {}
      BY DEF DispatchAt
    <3> QED BY <3>1, <3>2
  <2>2. dwf' = [dwf EXCEPT ![d] = l]
    BY <1>4 DEF DFail
  <2> HIDE DEF l
  <2> QED BY <1>1, <2>1, <2>2 DEF DispatchStep
<1> QED BY <1>2, <1>3, <1>4

\* A step of a dispatch Workflow that writes no ledger.
LEMMA DispatchRests ==
  ASSUME SyncInv, NEW d \in Dispatches, DispatchStep(d), WorldStep,
         UNCHANGED <<cursor, item, run, dispatch, rwf>>
  PROVE  SyncStep
BY LedgersRest, RowsRest DEF SyncStep

LEMMA EnvironmentSteps ==
  ASSUME SyncInv, Environment
  PROVE  SyncStep
<1>1. ASSUME NEW c \in Creds, Rotate(c)
      PROVE  SyncStep
  BY <1>1, LedgersRest, RowsRest, RowTypes DEF Rotate, ledgers, SyncStep, WorldStep
<1>2. ASSUME NEW c \in Creds, LaneExpires(c)
      PROVE  SyncStep
  <2>1. lane' \in [Creds -> [holder : Holders, live : BOOLEAN]]
    BY <1>2, RowTypes DEF LaneExpires
  <2> QED BY <1>2, <2>1, LedgersRest, RowsRest, RowTypes
          DEF LaneExpires, world, ledgers, SyncStep, WorldStep
<1>3. CASE Reconfigure
  BY <1>3, LedgersRest, RowsRest, RowTypes DEF Reconfigure, ledgers, SyncStep, WorldStep
<1>4. ASSUME NEW s \in Slots, RunExpires(s)
      PROVE  SyncStep
  <2>1. run' = [run EXCEPT ![s].live = FALSE]
    BY <1>4 DEF RunExpires
  <2>2. run' \in [Slots -> RunRows]
    BY ZenonT(40), <2>1, RowTypes DEF RunRows
  <2>3. ASSUME NEW t \in Slots
        PROVE  Lasts(t)
    BY <1>4, <2>1, RowTypes DEF RunExpires, Lasts, RunRows, Identity
  <2>4. Settles
    BY <1>4, <2>2, <2>3 DEF Settles, CursorRests, RunExpires
  <2> QED BY <1>4, <2>4, RowsRest, WorldRests DEF RunExpires, world, SyncStep, LedgerStep
<1> QED BY <1>1, <1>2, <1>3, <1>4 DEF Environment

-----------------------------------------------------------------------------
(* The steps of a dispatch Workflow *)

LEMMA ScheduleSteps ==
  ASSUME SyncInv, NEW d \in Dispatches, scheduleGitHubSyncWorkflows(d) \/ DispatchDies(d)
  PROVE  SyncStep
<1>1. DispatchStep(d)
  <2>1. DLeave(d, "establish") \/ DLeave(d, "errored")
    BY DEF scheduleGitHubSyncWorkflows, DispatchDies, DLeave
  <2> QED BY <2>1, DispatchJumps DEF DispatchPcs
<1>2. WorldStep
  BY RowTypes DEF scheduleGitHubSyncWorkflows, DispatchDies, WorldStep, ledgers
<1> QED BY <1>1, <1>2, DispatchRests DEF scheduleGitHubSyncWorkflows, DispatchDies, ledgers

LEMMA EstablishSteps ==
  ASSUME SyncInv, NEW d \in Dispatches, establishGitHubDispatch(d)
  PROVE  SyncStep
<1> DEFINE st == dispatch[d].st
           expired == {s \in Slots : run[s].st = "running" /\ ~run[s].live}
           l == [DispatchAt("pending") EXCEPT !.due = expired]
<1>1. CASE DLeave(d, "errored") /\ UNCHANGED dispatch
  <2>1. DispatchStep(d)
    BY <1>1, DispatchJumps DEF DispatchPcs
  <2> QED BY <1>1, <2>1, WorldRests, DispatchRests DEF establishGitHubDispatch, world
<1>2. CASE /\ dispatch' = [dispatch EXCEPT ![d].st = IF st = "none" THEN "materialized" ELSE st]
           /\ dwf' = [dwf EXCEPT ![d] =
                        IF st \in {"complete", "failed"} THEN DispatchAt("done") ELSE l]
  <2>1. dispatch' \in [Dispatches -> DispatchRows] /\ \A e \in Dispatches : RowStep(e)
    BY <1>2, RowTypes DEF DispatchRows, RowStep
  <2>2. l \in DispatchLocals /\ l.pc = "pending" /\ l.closing = {}
    BY ZenonT(40), LocalsTyped DEF DispatchLocals, DispatchPcs, DispatchAt
  <2>3. /\ DispatchAt("done") \in DispatchLocals /\ DispatchAt("done").pc = "done"
        /\ DispatchAt("done").closing = {}
    BY LocalsTyped DEF DispatchPcs, DispatchAt
  <2>4. DispatchStep(d)
    <3> HIDE DEF l
    <3> QED BY <1>2, <2>2, <2>3, RowTypes DEF DispatchStep
  <2> QED BY <2>1, <2>4, LedgersRest, WorldRests DEF establishGitHubDispatch, world, SyncStep
<1> QED BY <1>1, <1>2 DEF establishGitHubDispatch

LEMMA Rejecting ==
  ASSUME SyncInv, NEW i \in Dispatches, NEW code \in Codes,
         rejectPendingDispatchItem(i, code), UNCHANGED <<cursor, run>>
  PROVE  LedgerStep
<1>1. item' = item \/ ItemRejected
  BY DEF rejectPendingDispatchItem, ItemRejected
<1>2. \A s \in Slots : Lasts(s)
  BY DEF Lasts
<1> QED BY <1>1, <1>2, RowTypes DEF LedgerStep, Settles, CursorRests

\* One run ends.
LEMMA Ending ==
  ASSUME SyncInv, NEW s \in Slots, NEW code \in Codes,
         run[s].st = "running", run' = [run EXCEPT ![s] = EndedRun(@, code)],
         code = "none" => run[s].moved \in Recorded,
         UNCHANGED <<cursor, item>>
  PROVE  LedgerStep
<1>1. EndedRun(run[s], code) \in RunRows
  BY RowTypes, HolderTyped DEF EndedRun, StatusOf, RunRows
<1>2. run' \in [Slots -> RunRows]
  BY <1>1, RowTypes
<1>3. Ends(s)
  BY RowTypes DEF Ends
<1>4. \A t \in Slots \ {s} : Lasts(t)
  BY RowTypes DEF Lasts
<1> QED BY <1>2, <1>3, <1>4 DEF LedgerStep, Settles, CursorRests

LEMMA ReconcileSteps ==
  ASSUME SyncInv, NEW d \in Dispatches, NEW i \in Dispatches,
         \/ RejectPriorPending(d, i)
         \/ FinishPriorOrphan(d, i)
         \/ settlePriorRunningDispatchItem(d, i)
  PROVE  SyncStep
<1>0. "reconcile" \in Codes /\ "reconcile" # "none" /\ Slot(i) \in Slots
  BY RowTypes DEF Codes
<1>1. LedgerStep
  <2>1. CASE RejectPriorPending(d, i)
    BY <1>0, <2>1, Rejecting DEF RejectPriorPending
  <2>2. CASE FinishPriorOrphan(d, i)
    BY <1>0, <2>2, Ending DEF FinishPriorOrphan, PriorOrphans, Orphan, OrphanFinished
  <2>3. CASE /\ run[Slot(i)].st = "running"
             /\ run' = FinishedRun(Slot(i), "reconcile")
             /\ UNCHANGED <<cursor, item>>
    BY <1>0, <2>3, Ending DEF FinishedRun
  <2>4. CASE /\ settlePriorRunningDispatchItem(d, i)
             /\ CanFinishItem(i, run[Slot(i)].code)
             /\ item' = FinishedItem(i, run[Slot(i)].code)
             /\ UNCHANGED run
    <3>1. item[i].st = "running"
      BY <2>4 DEF settlePriorRunningDispatchItem, PriorRunning
    <3>2. run[Slot(i)].code \in Codes
      BY <1>0, RowTypes DEF RunRows
    <3>3. ItemEnds(i)
      BY <2>4, <3>1, <3>2 DEF settlePriorRunningDispatchItem, CanFinishItem, ItemEnds
    <3> QED BY <3>3 DEF LedgerStep
  <2> QED BY <2>1, <2>2, <2>3, <2>4 DEF settlePriorRunningDispatchItem
<1>2. UNCHANGED <<world, head, dispatch, lane, dwf, rwf>>
  BY DEF RejectPriorPending, FinishPriorOrphan, settlePriorRunningDispatchItem
<1> QED BY <1>1, <1>2, RowsRest, WorldRests DEF SyncStep, world

\* The reconciliation moves from one loop to the next.
LEMMA LoopSteps ==
  ASSUME SyncInv, NEW d \in Dispatches, reconcilePriorDispatchState(d)
  PROVE  SyncStep
<1>1. DispatchStep(d)
  <2>1. CASE DGoto(d, "orphans") \/ DGoto(d, "running") \/ DLeave(d, "close")
    BY <2>1, DispatchJumps DEF DispatchPcs
  <2>2. CASE dwf' = [dwf EXCEPT ![d].pc = IF Closable(d) = {} THEN "receipt" ELSE "mark",
                                ![d].closing = Closable(d)]
    <3>1. Closable(d) \in SUBSET (Dispatches \X Codes)
      BY DEF Closable, Codes
    <3> DEFINE pc == IF Closable(d) = {} THEN "receipt" ELSE "mark"
               l == [dwf[d] EXCEPT !.pc = pc, !.closing = Closable(d)]
    <3>2. dwf' = [dwf EXCEPT ![d] = l]
      BY <2>2
    <3>3. pc \in {"receipt", "mark"} /\ pc \in DispatchPcs
      BY DEF DispatchPcs
    <3>4. l \in DispatchLocals /\ l.pc = pc /\ l.closing = Closable(d)
      <4> HIDE DEF pc
      <4> QED BY <3>1, <3>3, RowTypes DEF DispatchLocals
    <3> HIDE DEF l, pc
    <3> QED BY <3>2, <3>3, <3>4, RowTypes DEF DispatchStep
  <2> QED BY <2>1, <2>2 DEF reconcilePriorDispatchState
<1> QED BY <1>1, DispatchRests, WorldRests DEF reconcilePriorDispatchState, world, ledgers

\* What marking a dispatch does to its row.
LEMMA Marked ==
  ASSUME SyncInv, NEW i \in Dispatches, NEW st \in {"complete", "failed"}, NEW code \in Codes,
         dispatch' = markGitHubDispatchStatus(i, st, code),
         st = "complete" =>
           dispatch[i].receipt /\ (item[i].st # "none" => rwf[i].pc # "none")
  PROVE  dispatch' \in [Dispatches -> DispatchRows] /\ \A e \in Dispatches : RowStep(e)
<1>1. CASE dispatch' = dispatch
  BY <1>1, RowsRest
<1>2. CASE /\ dispatch[i].st \in {"materialized", "dispatching"}
           /\ dispatch' = [dispatch EXCEPT ![i].st = st, ![i].code = code]
  <2>1. dispatch' \in [Dispatches -> DispatchRows]
    BY ZenonT(40), <1>2, RowTypes DEF DispatchRows
  <2>2. /\ dispatch'[i].st = st /\ dispatch'[i].receipt = dispatch[i].receipt
        /\ \A e \in Dispatches \ {i} : dispatch'[e] = dispatch[e]
    BY <1>2, RowTypes DEF DispatchRows
  <2>3. \A e \in Dispatches : RowStep(e)
    BY <1>2, <2>2 DEF RowStep
  <2> QED BY <2>1, <2>3
<1> QED BY <1>1, <1>2 DEF markGitHubDispatchStatus

LEMMA CloseSteps ==
  ASSUME SyncInv, NEW d \in Dispatches, ClosePriorDispatch(d)
  PROVE  SyncStep
<1>1. PICK c \in dwf[d].closing :
        IF CanMarkDispatch(c[1], StatusOf(c[2]), c[2])
        THEN /\ dispatch' = markGitHubDispatchStatus(c[1], StatusOf(c[2]), c[2])
             /\ dwf' = [dwf EXCEPT
                  ![d].closing = @ \ {c},
                  ![d].pc = IF dwf[d].closing = {c} THEN "close" ELSE "mark"]
        ELSE DLeave(d, "errored") /\ UNCHANGED dispatch
  BY DEF ClosePriorDispatch
<1>2. c[1] \in Dispatches /\ c[2] \in Codes /\ dwf[d] \in DispatchLocals
      /\ StatusOf(c[2]) \in {"complete", "failed"}
  BY RowTypes DEF DispatchLocals, StatusOf
<1>3. StatusOf(c[2]) = "complete" =>
        /\ dispatch[c[1]].receipt
        /\ item[c[1]].st # "none" => rwf[c[1]].pc # "none"
  <2>1. StatusOf(c[2]) = "complete" => c[2] = "none"
    BY DEF StatusOf
  <2>2. c[2] = "none" => dispatch[c[1]].receipt /\ item[c[1]].st \in {"none", "complete"}
    BY DEF SyncInv, DispatchesCarried
  <2>3. item[c[1]].st = "complete" => rwf[c[1]].pc # "none"
    BY <1>2 DEF SyncInv, BindingsTrue
  <2> QED BY <2>1, <2>2, <2>3
<1>4. CASE dispatch' = markGitHubDispatchStatus(c[1], StatusOf(c[2]), c[2])
           /\ dwf' = [dwf EXCEPT
                ![d].closing = @ \ {c},
                ![d].pc = IF dwf[d].closing = {c} THEN "close" ELSE "mark"]
  <2>1. dispatch' \in [Dispatches -> DispatchRows] /\ \A e \in Dispatches : RowStep(e)
    <3>1. PICK i \in Dispatches, st \in {"complete", "failed"}, code \in Codes :
            i = c[1] /\ st = StatusOf(c[2]) /\ code = c[2]
      BY <1>2
    <3> QED BY <1>3, <1>4, <3>1, Marked
  <2>2. DispatchStep(d)
    BY <1>2, <1>4, RowTypes DEF DispatchStep, DispatchLocals, DispatchPcs
  <2> QED BY <2>1, <2>2, LedgersRest, WorldRests DEF ClosePriorDispatch, world, SyncStep
<1>5. CASE DLeave(d, "errored") /\ UNCHANGED dispatch
  <2>1. DispatchStep(d)
    BY <1>5, DispatchJumps DEF DispatchPcs
  <2> QED BY <1>5, <2>1, DispatchRests, WorldRests DEF ClosePriorDispatch, world
<1> QED BY <1>1, <1>4, <1>5

\* The admission of a dispatch: its receipt, the snapshot, the lane, the baseline.
LEMMA AdmissionSteps ==
  ASSUME SyncInv, NEW d \in Dispatches,
         \/ hasGitHubDispatchMaterializationReceipt(d)
         \/ collectRepositoryAdmissionSnapshots(d)
         \/ AcquireDispatchLane(d)
         \/ verifyApprovedAccessBaseline(d)
  PROVE  SyncStep
<1>0. "other" \in Codes /\ "reconcile" \in Codes
  BY DEF Codes
<1>1. CASE hasGitHubDispatchMaterializationReceipt(d)
  <2>1. CASE dispatch[d].receipt /\ DLeave(d, "fanout")
    <3>1. /\ DispatchAt("fanout") \in DispatchLocals /\ DispatchAt("fanout").pc = "fanout"
          /\ DispatchAt("fanout").closing = {}
      BY LocalsTyped DEF DispatchPcs, DispatchAt
    <3>2. dispatch' = dispatch
      BY <1>1 DEF hasGitHubDispatchMaterializationReceipt, ledgers
    <3>3. DispatchStep(d)
      BY <2>1, <3>1, <3>2, RowTypes DEF DLeave, DispatchStep
    <3> QED BY <1>1, <3>3, DispatchRests, WorldRests
            DEF hasGitHubDispatchMaterializationReceipt, world, ledgers
  <2>2. CASE dwf' = [dwf EXCEPT ![d] = collectRepositoryAdmissionSummary]
    <3>1. /\ collectRepositoryAdmissionSummary \in DispatchLocals
          /\ collectRepositoryAdmissionSummary.pc = "snapshot"
          /\ collectRepositoryAdmissionSummary.closing = {}
      BY ZenonT(40), RowTypes, LocalsTyped
         DEF DispatchPcs, DispatchLocals, DispatchAt, collectRepositoryAdmissionSummary
    <3>2. DispatchStep(d)
      BY <2>2, <3>1, RowTypes DEF DispatchStep
    <3> QED BY <1>1, <3>2, DispatchRests, WorldRests
            DEF hasGitHubDispatchMaterializationReceipt, world, ledgers
  <2> QED BY <1>1, <2>1, <2>2 DEF hasGitHubDispatchMaterializationReceipt
<1>2. CASE collectRepositoryAdmissionSnapshots(d)
  <2>1. DispatchStep(d)
    BY <1>0, <1>2, DispatchJumps
       DEF DispatchPcs, collectRepositoryAdmissionSnapshots, Inadmissible
  <2> QED BY <1>2, <2>1, DispatchRests, WorldRests
          DEF collectRepositoryAdmissionSnapshots, world, ledgers
<1>3. CASE AcquireDispatchLane(d)
  <2>1. DispatchStep(d)
    <3>1. CASE dwf' = [dwf EXCEPT ![d].pc = "baseline", ![d].laned = TRUE]
      <4> DEFINE l == [dwf[d] EXCEPT !.pc = "baseline", !.laned = TRUE]
      <4>1. l \in DispatchLocals /\ l.pc = "baseline" /\ l.closing = dwf[d].closing
        BY ZenonT(40), RowTypes DEF DispatchLocals, DispatchPcs
      <4>2. dwf' = [dwf EXCEPT ![d] = l]
        BY <3>1
      <4> HIDE DEF l
      <4> QED BY <4>1, <4>2, RowTypes DEF DispatchStep
    <3>2. CASE DFail(d, "other")
      BY <1>0, <3>2, DispatchJumps DEF DispatchPcs
    <3> QED BY <1>3, <3>1, <3>2 DEF AcquireDispatchLane
  <2>2. lane' \in [Creds -> [holder : Holders, live : BOOLEAN]]
    BY <1>3, LanesTyped, HolderTyped, RowTypes DEF AcquireDispatchLane
  <2> QED BY <1>3, <2>1, <2>2, DispatchRests, RowTypes
          DEF AcquireDispatchLane, WorldStep, world, ledgers
<1>4. CASE verifyApprovedAccessBaseline(d)
  <2>1. DispatchStep(d)
    <3>1. ASSUME NEW code \in {"none", "other"},
                 dwf' = [dwf EXCEPT ![d].pc = "select", ![d].code = code]
          PROVE  DispatchStep(d)
      <4> DEFINE l == [dwf[d] EXCEPT !.pc = "select", !.code = code]
      <4>1. l \in DispatchLocals /\ l.pc = "select" /\ l.closing = dwf[d].closing
        <5>1. dwf[d] \in DispatchLocals
          BY RowTypes
        <5>2. code \in Codes
          BY <3>1 DEF Codes
        <5>3. "select" \in DispatchPcs
          BY DEF DispatchPcs
        <5> QED BY <5>1, <5>2, <5>3 DEF DispatchLocals
      <4>2. dwf' = [dwf EXCEPT ![d] = l]
        BY <3>1
      <4> HIDE DEF l
      <4> QED BY <4>1, <4>2, RowTypes DEF DispatchStep
    <3>2. CASE DFail(d, "other")
      BY <1>0, <3>2, DispatchJumps DEF DispatchPcs
    <3> QED BY <1>4, <3>1, <3>2 DEF verifyApprovedAccessBaseline
  <2> QED BY <1>4, <2>1, DispatchRests, WorldRests
          DEF verifyApprovedAccessBaseline, world, ledgers
<1> QED BY <1>1, <1>2, <1>3, <1>4

LEMMA SelectSteps ==
  ASSUME SyncInv, NEW d \in Dispatches, materializeAndSelectScheduledRefsGuarded(d)
  PROVE  SyncStep
<1> DEFINE due == Due(Slot(d))
           pc == IF due THEN IF dwf[d].code = "none" THEN "persist" ELSE "baselined"
                 ELSE IF dwf[d].code = "none" THEN "complete" ELSE "fail"
           l == [dwf[d] EXCEPT !.pc = pc,
                               !.cv = IF due THEN CursorSeen(Slot(d)).v ELSE 0,
                               !.hv = IF due THEN head ELSE 0]
<1>0. Slot(d) \in Nat /\ cursor \in Cursors /\ head \in Nat /\ dwf[d] \in DispatchLocals
  BY RowTypes, Names
<1>1. CASE DFail(d, "reconcile") /\ UNCHANGED cursor
  <2>1. DispatchStep(d)
    BY <1>1, DispatchJumps DEF DispatchPcs, Codes
  <2> QED BY <1>1, <2>1, DispatchRests, WorldRests
          DEF materializeAndSelectScheduledRefsGuarded, world
<1>2. CASE cursor' = CursorSeen(Slot(d)) /\ dwf' = [dwf EXCEPT ![d] = l]
  <2>1. CursorSeen(Slot(d)) \in Cursors
    BY <1>0 DEF CursorSeen, Cursors, Codes
  <2>2. CursorRests
    BY <1>0, <1>2, <2>1 DEF CursorSeen, CursorRests, Cursors
  <2>3. LedgerStep
    <3>1. \A s \in Slots : Lasts(s)
      BY DEF materializeAndSelectScheduledRefsGuarded, Lasts
    <3> QED BY <2>2, <3>1, RowTypes
            DEF materializeAndSelectScheduledRefsGuarded, LedgerStep, Settles
  <2>4. pc \in {"persist", "baselined", "complete", "fail"}
        /\ (pc = "baselined" => dwf[d].code # "none")
    OBVIOUS
  <2>5. /\ l \in DispatchLocals
        /\ l.pc = pc /\ l.closing = dwf[d].closing /\ l.code = dwf[d].code
    <3>1. CursorSeen(Slot(d)).v \in Nat
      BY <2>1 DEF Cursors
    <3>2. pc \in DispatchPcs
      BY <2>4 DEF DispatchPcs
    <3> HIDE DEF pc, due
    <3> QED BY <1>0, <3>1, <3>2 DEF DispatchLocals
  <2>6. DispatchStep(d)
    <3> HIDE DEF l, pc
    <3> QED BY <1>2, <2>4, <2>5, RowTypes DEF DispatchStep
  <2> QED BY <2>3, <2>6, RowsRest, WorldRests
          DEF materializeAndSelectScheduledRefsGuarded, SyncStep, world
<1> QED BY <1>1, <1>2 DEF materializeAndSelectScheduledRefsGuarded

LEMMA PersistSteps ==
  ASSUME SyncInv, NEW d \in Dispatches, persistDispatchItems(d)
  PROVE  SyncStep
<1>1. DispatchStep(d)
  BY DispatchJumps DEF persistDispatchItems, DispatchPcs, Codes
<1>2. LedgerStep
  <2>1. UNCHANGED item => LedgerStep
    BY LedgersRest DEF persistDispatchItems
  <2>2. Persistable(d) => ItemStored(d)
    BY DEF persistDispatchItems, ItemStored, DAt
  <2> QED BY <2>1, <2>2 DEF persistDispatchItems, LedgerStep
<1> QED BY <1>1, <1>2, RowsRest, WorldRests DEF persistDispatchItems, SyncStep, world

LEMMA BaselineSteps ==
  ASSUME SyncInv, NEW d \in Dispatches, RecordBaselineFailure(d)
  PROVE  SyncStep
<1>1. DispatchStep(d)
  BY DispatchJumps DEF RecordBaselineFailure, DispatchPcs
<1>2. CursorRests
  <2>1. DAt(d, "baselined") /\ dwf[d].code \in Codes /\ dwf[d].code # "none"
    BY RowTypes DEF RecordBaselineFailure, DispatchLocals, SyncInv, OutcomesCarried, DAt
  <2>2. MovedCursor("failed", Slot(d), cursor.last, dwf[d].code) \in Cursors
    <3>1. Slot(d) \in Nat
      BY RowTypes, Names
    <3>2. cursor.v \in Nat /\ cursor.last \in Nat
      BY RowTypes DEF Cursors
    <3> QED BY <2>1, <3>1, <3>2 DEF MovedCursor, Cursors, computeNextSyncAt
  <2>3. cursor.v \in Nat
    BY RowTypes DEF Cursors
  <2> QED BY <2>1, <2>2, <2>3 DEF RecordBaselineFailure, CursorRests, MovedCursor
<1>3. \A s \in Slots : Lasts(s)
  BY DEF RecordBaselineFailure, Lasts
<1> QED BY <1>1, <1>2, <1>3, RowTypes, RowsRest, WorldRests
        DEF RecordBaselineFailure, LedgerStep, Settles, SyncStep, world

\* The receipt of the materialization, the lane, and the failure of a dispatch
LEMMA CompletionSteps ==
  ASSUME SyncInv, NEW d \in Dispatches,
         \/ completeGitHubDispatchMaterialization(d)
         \/ ReleaseDispatchLane(d)
         \/ FailPendingItem(d)
         \/ failDispatchWorkflow(d)
  PROVE  SyncStep
<1>0. "other" \in Codes /\ dwf[d].code \in Codes
  BY RowTypes DEF Codes, DispatchLocals
<1>1. CASE completeGitHubDispatchMaterialization(d)
  <2>1. CASE /\ dispatch[d].st = "materialized" /\ DGoto(d, "release")
             /\ dispatch' = [dispatch EXCEPT ![d].st = "dispatching", ![d].receipt = TRUE]
    <3>1. dispatch' \in [Dispatches -> DispatchRows] /\ \A e \in Dispatches : RowStep(e)
      BY <2>1, RowTypes DEF DispatchRows, RowStep
    <3>2. dispatch'[d].receipt
      BY <2>1, RowTypes DEF DispatchRows
    <3>3. DispatchStep(d)
      <4> DEFINE l == [dwf[d] EXCEPT !.pc = "release"]
      <4>1. l \in DispatchLocals /\ l.pc = "release" /\ l.closing = dwf[d].closing
        BY SMTT(30), RowTypes DEF DispatchLocals, DispatchPcs
      <4>2. dwf' = [dwf EXCEPT ![d] = l]
        BY <2>1 DEF DGoto
      <4> HIDE DEF l
      <4> QED BY <3>2, <4>1, <4>2, RowTypes DEF DispatchStep
    <3> QED BY <1>1, <3>1, <3>3, LedgersRest, WorldRests
            DEF completeGitHubDispatchMaterialization, SyncStep, world
  <2>2. CASE DFail(d, "other") /\ UNCHANGED dispatch
    <3>1. DispatchStep(d)
      BY <1>0, <2>2, DispatchJumps DEF DispatchPcs
    <3> QED BY <1>1, <2>2, <3>1, DispatchRests, WorldRests
            DEF completeGitHubDispatchMaterialization, world
  <2> QED BY <1>1, <2>1, <2>2 DEF completeGitHubDispatchMaterialization
<1>2. CASE ReleaseDispatchLane(d)
  <2>1. ASSUME DLeave(d, "fanout")
        PROVE  DispatchStep(d)
    <3>1. /\ DispatchAt("fanout") \in DispatchLocals /\ DispatchAt("fanout").pc = "fanout"
          /\ DispatchAt("fanout").closing = {}
      BY LocalsTyped DEF DispatchPcs, DispatchAt
    <3>2. dwf[d].pc = "release"
      BY <1>2 DEF ReleaseDispatchLane, DAt
    <3>3. dwf' = [dwf EXCEPT ![d] = DispatchAt("fanout")]
      BY <2>1 DEF DLeave
    <3> QED BY <3>1, <3>2, <3>3, RowTypes DEF DispatchStep
  <2>2. ASSUME DLeave(d, "errored")
        PROVE  DispatchStep(d)
    BY <2>2, DispatchJumps DEF DispatchPcs
  <2>3. DispatchStep(d)
    <3>1. DLeave(d, "fanout") \/ DLeave(d, "errored")
      BY <1>2 DEF ReleaseDispatchLane
    <3> QED BY <2>1, <2>2, <3>1
  <2>4. lane' \in [Creds -> [holder : Holders, live : BOOLEAN]]
    BY <1>2, LanesTyped, HolderTyped DEF ReleaseDispatchLane
  <2> QED BY <1>2, <2>3, <2>4, DispatchRests, RowTypes
          DEF ReleaseDispatchLane, WorldStep, world, ledgers
<1>3. CASE FailPendingItem(d)
  <2>1. DispatchStep(d)
    BY <1>3, DispatchJumps DEF FailPendingItem, DispatchPcs
  <2>2. LedgerStep
    <3>1. PICK code \in Codes : code = dwf[d].code
      BY <1>0
    <3> QED BY <1>3, <3>1, Rejecting DEF FailPendingItem
  <2> QED BY <1>3, <2>1, <2>2, RowsRest, WorldRests DEF FailPendingItem, SyncStep, world
<1>4. CASE failDispatchWorkflow(d)
  <2>1. DispatchStep(d)
    BY <1>4, DispatchJumps DEF failDispatchWorkflow, DispatchPcs
  <2>2. dispatch' \in [Dispatches -> DispatchRows] /\ \A e \in Dispatches : RowStep(e)
    <3>1. PICK code \in Codes : code = dwf[d].code
      BY <1>0
    <3> QED BY <1>4, <3>1, Marked DEF failDispatchWorkflow
  <2>3. lane' \in [Creds -> [holder : Holders, live : BOOLEAN]]
    BY <1>4, LanesTyped, HolderTyped, RowTypes DEF failDispatchWorkflow
  <2> QED BY <1>4, <2>1, <2>2, <2>3, LedgersRest, RowTypes
          DEF failDispatchWorkflow, SyncStep, WorldStep, world
<1> QED BY <1>1, <1>2, <1>3, <1>4

\* The Workflows of the items are started, and the dispatch is complete.
LEMMA FanoutSteps ==
  ASSUME SyncInv, NEW d \in Dispatches, ensureGitHubRefWorkflowBatch(d) \/ CompleteDispatch(d)
  PROVE  SyncStep
<1>0. "other" \in Codes /\ "none" \in Codes
  BY DEF Codes
<1>1. CASE ensureGitHubRefWorkflowBatch(d) /\ DFail(d, "other") /\ UNCHANGED rwf
  <2>1. DispatchStep(d)
    BY <1>0, <1>1, DispatchJumps DEF DispatchPcs
  <2> QED BY <1>1, <2>1, DispatchRests, WorldRests DEF ensureGitHubRefWorkflowBatch, world, ledgers
<1>2. CASE ensureGitHubRefWorkflowBatch(d) /\ rwf' = Started(d) /\ DGoto(d, "finish")
  <2> DEFINE l == [RefAt("open") EXCEPT !.ghost = rwf[d].ghost]
  <2>1. l \in RefLocals /\ l.pc = "open"
    BY ZenonT(40), RowTypes, LocalsTyped DEF RefLocals, RefPcs
  <2>2. rwf' = rwf \/ RefStep(d)
    <3>1. rwf' = rwf \/ (item[d].st # "none" /\ rwf' = [rwf EXCEPT ![d] = l])
      BY <1>2 DEF Started
    <3> HIDE DEF l
    <3> QED BY <2>1, <3>1, RowTypes DEF RefStep
  <2>3. item'[d].st # "none" => rwf'[d].pc # "none"
    <3>1. item' = item
      BY <1>2 DEF ensureGitHubRefWorkflowBatch, ledgers
    <3>2. CASE rwf' = [rwf EXCEPT ![d] = l]
      <4> HIDE DEF l
      <4> QED BY <2>1, <3>2, RowTypes
    <3>3. CASE rwf' = rwf /\ (item[d].st = "none" \/ rwf[d].pc \notin {"none", "errored"})
      BY <3>1, <3>3
    <3> QED BY <1>2, <3>2, <3>3 DEF Started
  <2>4. DispatchStep(d)
    <3> DEFINE k == [dwf[d] EXCEPT !.pc = "finish"]
    <3>1. k \in DispatchLocals /\ k.pc = "finish" /\ k.closing = dwf[d].closing
      BY SMTT(30), RowTypes DEF DispatchLocals, DispatchPcs
    <3>2. dwf' = [dwf EXCEPT ![d] = k]
      BY <1>2 DEF DGoto
    <3>3. dwf[d].pc = "fanout"
      BY <1>2 DEF ensureGitHubRefWorkflowBatch, DAt
    <3> HIDE DEF k
    <3> QED BY <2>3, <3>1, <3>2, <3>3, RowTypes DEF DispatchStep
  <2> QED BY <1>2, <2>2, <2>4, LedgersRest, RowsRest, WorldRests
          DEF ensureGitHubRefWorkflowBatch, SyncStep, world, ledgers
<1>3. CASE CompleteDispatch(d)
  <2>1. DispatchStep(d)
    BY <1>0, <1>3, DispatchJumps DEF CompleteDispatch, DispatchPcs
  <2>2. dispatch[d].receipt /\ (item[d].st # "none" => rwf[d].pc # "none")
    BY <1>3 DEF CompleteDispatch, DAt, SyncInv, DispatchesCarried
  <2>3. dispatch' \in [Dispatches -> DispatchRows] /\ \A e \in Dispatches : RowStep(e)
    BY <1>0, <1>3, <2>2, Marked DEF CompleteDispatch
  <2> QED BY <1>3, <2>1, <2>3, LedgersRest, WorldRests DEF CompleteDispatch, SyncStep, world
<1> QED BY <1>1, <1>2, <1>3 DEF ensureGitHubRefWorkflowBatch

LEMMA DispatchWorkflowSteps ==
  ASSUME SyncInv, NEW d \in Dispatches, DispatchWorkflow(d)
  PROVE  SyncStep
BY ScheduleSteps, EstablishSteps, ReconcileSteps, LoopSteps, CloseSteps, AdmissionSteps,
   SelectSteps, PersistSteps, BaselineSteps, CompletionSteps, FanoutSteps
   DEF DispatchWorkflow

-----------------------------------------------------------------------------
(* The steps of a ref Workflow *)

\* The jumps of a ref Workflow that has begun.
LEMMA RefJumps ==
  ASSUME SyncInv, NEW d \in Dispatches, NEW pc \in RefPcs \ {"none", "record", "finishRun"},
         rwf[d].pc # "none", RGoto(d, pc) \/ RLeave(d, pc)
  PROVE  RefStep(d)
<1>0. rwf \in [Dispatches -> RefLocals] /\ rwf[d] \in RefLocals /\ item[d].st # "none"
  BY RowTypes DEF SyncInv, BindingsTrue
<1>1. CASE RLeave(d, pc)
  <2> DEFINE l == [RefAt(pc) EXCEPT !.ghost = rwf[d].ghost]
  <2>1. l \in RefLocals /\ l.pc = pc
    BY <1>0, LocalsTyped DEF RefLocals
  <2>2. rwf' = [rwf EXCEPT ![d] = l]
    BY <1>1 DEF RLeave
  <2> HIDE DEF l
  <2> QED BY <1>0, <2>1, <2>2 DEF RefStep
<1>2. CASE rwf' = [rwf EXCEPT ![d].pc = pc]
  <2> DEFINE l == [rwf[d] EXCEPT !.pc = pc]
  <2>1. l \in RefLocals /\ l.pc = pc
    BY <1>0 DEF RefLocals
  <2>2. rwf' = [rwf EXCEPT ![d] = l]
    BY <1>2
  <2> HIDE DEF l
  <2> QED BY <1>0, <2>1, <2>2 DEF RefStep
<1> QED BY <1>1, <1>2 DEF RGoto

\* An outcome is carried to the run.
LEMMA RefFinishes ==
  ASSUME SyncInv, NEW d \in Dispatches, NEW code \in Codes, rwf[d].pc # "none",
         RFinish(d, code), code = "none" => run'[Slot(d)].moved \in Recorded
  PROVE  RefStep(d)
<1>0. rwf \in [Dispatches -> RefLocals] /\ rwf[d] \in RefLocals /\ item[d].st # "none"
  BY RowTypes DEF SyncInv, BindingsTrue
<1> DEFINE l == [rwf[d] EXCEPT !.pc = "finishRun", !.code = code]
<1>1. l \in RefLocals /\ l.pc = "finishRun" /\ l.code = code
  BY <1>0 DEF RefLocals, RefPcs
<1>2. rwf' = [rwf EXCEPT ![d] = l]
  BY DEF RFinish
<1> HIDE DEF l
<1> QED BY <1>0, <1>1, <1>2 DEF RefStep

\* A step of a ref Workflow that writes no ledger
LEMMA RefRests ==
  ASSUME SyncInv, NEW d \in Dispatches, UNCHANGED rwf \/ RefStep(d), WorldStep,
         UNCHANGED <<cursor, item, run, dispatch, dwf>>
  PROVE  SyncStep
BY LedgersRest, RowsRest DEF SyncStep

\* One that writes only the items, the runs or the cursor
LEMMA RefWrites ==
  ASSUME SyncInv, NEW d \in Dispatches, UNCHANGED rwf \/ RefStep(d), LedgerStep,
         WorldStep, UNCHANGED <<dispatch, dwf>>
  PROVE  SyncStep
BY RowsRest DEF SyncStep

LEMMA OpenSteps ==
  ASSUME SyncInv, NEW d \in Dispatches, OpenItem(d)
  PROVE  SyncStep
<1>0. rwf[d].pc # "none" /\ item[d].st # "none" /\ rwf[d] \in RefLocals
  BY RowTypes DEF OpenItem, RAt, SyncInv, BindingsTrue
<1>1. ASSUME RLeave(d, "errored") \/ RLeave(d, "done")
      PROVE  RefStep(d)
  BY <1>0, <1>1, RefJumps DEF RefPcs
<1>2. ASSUME rwf' = [rwf EXCEPT ![d].pc = "recover", ![d].pend = item[d].st = "pending"]
      PROVE  RefStep(d)
  <2> DEFINE b == item[d].st = "pending"
             l == [rwf[d] EXCEPT !.pc = "recover", !.pend = b]
  <2>1. l \in RefLocals /\ l.pc = "recover"
    <3>1. b \in BOOLEAN
      OBVIOUS
    <3> HIDE DEF b
    <3> QED BY <1>0, <3>1 DEF RefLocals, RefPcs
  <2>2. rwf' = [rwf EXCEPT ![d] = l]
    BY <1>2
  <2> HIDE DEF l
  <2> QED BY <1>0, <2>1, <2>2, RowTypes DEF RefStep
<1>3. RefStep(d)
  BY <1>1, <1>2 DEF OpenItem
<1> QED BY <1>3, RefRests, WorldRests DEF OpenItem, world, ledgers

\* What the cursor says of a run that was bound is so.
LEMMA CursorSays ==
  ASSUME SyncInv, NEW d \in Dispatches
  PROVE  /\ CursorSaysComplete(d) => run[Slot(d)].moved = "unchanged"
         /\ CursorSaysFailed(d) => cursor.code # "none" /\ cursor.code \in Codes
BY RowTypes DEF SyncInv, MovesTrue, CursorSaysComplete, CursorSaysFailed, Cursors

LEMMA RecoverSteps ==
  ASSUME SyncInv, NEW d \in Dispatches, recoverBoundRunIfNeeded(d)
  PROVE  SyncStep
<1>0. /\ rwf[d].pc # "none" /\ item[d].st # "none" /\ rwf[d] \in RefLocals
      /\ run[Slot(d)] \in RunRows
  BY RowTypes DEF recoverBoundRunIfNeeded, RAt, SyncInv, BindingsTrue
<1>1. ASSUME RGoto(d, "validate")
      PROVE  RefStep(d)
  BY <1>0, <1>1, RefJumps DEF RefPcs
<1>2. ASSUME rwf' = [rwf EXCEPT ![d].pc = "finishItem", ![d].code = run[Slot(d)].code]
      PROVE  RefStep(d)
  <2> DEFINE l == [rwf[d] EXCEPT !.pc = "finishItem", !.code = run[Slot(d)].code]
  <2>1. l \in RefLocals /\ l.pc = "finishItem"
    BY <1>0 DEF RefLocals, RefPcs, RunRows
  <2>2. rwf' = [rwf EXCEPT ![d] = l]
    BY <1>2
  <2> HIDE DEF l
  <2> QED BY <1>0, <2>1, <2>2, RowTypes DEF RefStep
<1>3. ASSUME CursorSaysComplete(d) /\ RFinish(d, "none")
      PROVE  RefStep(d)
  <2>1. run'[Slot(d)].moved \in Recorded
    BY <1>3, CursorSays DEF recoverBoundRunIfNeeded, ledgers, Recorded
  <2> QED BY <1>0, <1>3, <2>1, RefFinishes DEF Codes
<1>4. ASSUME CursorSaysFailed(d) /\ RFinish(d, cursor.code)
      PROVE  RefStep(d)
  <2>1. PICK code \in Codes : code = cursor.code /\ code # "none"
    BY <1>4, CursorSays
  <2> QED BY <1>0, <1>4, <2>1, RefFinishes
<1>5. ASSUME RFinish(d, "reconcile")
      PROVE  RefStep(d)
  BY <1>0, <1>5, RefFinishes DEF Codes
<1>6. ASSUME rwf' = [rwf EXCEPT ![d].pc = "validate", ![d].has = TRUE]
      PROVE  RefStep(d)
  <2> DEFINE l == [rwf[d] EXCEPT !.pc = "validate", !.has = TRUE]
  <2>1. l \in RefLocals /\ l.pc = "validate"
    BY <1>0 DEF RefLocals, RefPcs
  <2>2. rwf' = [rwf EXCEPT ![d] = l]
    BY <1>6
  <2> HIDE DEF l
  <2> QED BY <1>0, <2>1, <2>2, RowTypes DEF RefStep
<1>7. RefStep(d)
  <2>1. readRecoverableBoundRun(d) \in BOOLEAN
    BY DEF readRecoverableBoundRun
  <2>2. CASE ~readRecoverableBoundRun(d)
    BY <1>1, <2>2 DEF recoverBoundRunIfNeeded
  <2>3. CASE readRecoverableBoundRun(d) /\ run[Slot(d)].st # "running"
    BY <1>2, <2>3 DEF recoverBoundRunIfNeeded
  <2>4. CASE readRecoverableBoundRun(d) /\ run[Slot(d)].st = "running"
    BY <1>3, <1>4, <1>5, <1>6, <2>4 DEF recoverBoundRunIfNeeded
  <2> QED BY <2>2, <2>3, <2>4
<1> QED BY <1>7, RefRests, WorldRests DEF recoverBoundRunIfNeeded, world, ledgers

LEMMA ValidateSteps ==
  ASSUME SyncInv, NEW d \in Dispatches, readDispatchItem(d)
  PROVE  SyncStep
<1>0. rwf[d].pc # "none"
  BY DEF readDispatchItem, RAt
<1>1. RefStep(d)
  BY <1>0, RefJumps DEF readDispatchItem, RefPcs
<1>2. LedgerStep
  BY LedgersRest, Rejecting DEF readDispatchItem, Codes
<1> QED BY <1>1, <1>2, RefWrites, WorldRests DEF readDispatchItem, world

\* The locals of d become l.
LEMMA RefLocalsBecome ==
  ASSUME SyncInv, NEW d \in Dispatches, rwf[d].pc # "none",
         NEW l \in RefLocals, rwf' = [rwf EXCEPT ![d] = l],
         l.pc \notin {"none", "finishRun"}, l.pc = "record" => l.code # "none"
  PROVE  RefStep(d)
<1>1. rwf \in [Dispatches -> RefLocals] /\ item[d].st # "none"
  BY RowTypes DEF SyncInv, BindingsTrue
<1> QED BY <1>1 DEF RefStep

\* An item whose Workflow gets no lane or no time
LEMMA UnadmittedSteps ==
  ASSUME SyncInv, NEW d \in Dispatches, rwf[d].pc # "none",
         Unadmitted(d), UNCHANGED <<cursor, run>>
  PROVE  RefStep(d) /\ LedgerStep
<1>1. CASE /\ rwf' = [rwf EXCEPT ![d].pc = "record", ![d].code = "other"]
           /\ UNCHANGED item
  <2> DEFINE l == [rwf[d] EXCEPT !.pc = "record", !.code = "other"]
  <2>1. l \in RefLocals /\ l.pc = "record" /\ l.code = "other"
    BY ZenonT(40), RowTypes DEF RefLocals, RefPcs, Codes
  <2>2. rwf' = [rwf EXCEPT ![d] = l]
    BY <1>1
  <2> HIDE DEF l
  <2>3. RefStep(d)
    BY <2>1, <2>2, RefLocalsBecome
  <2> QED BY <1>1, <2>3, LedgersRest
<1>2. CASE rejectPendingDispatchItem(d, "other") /\ RGoto(d, Leave(d))
  <2>1. Leave(d) \in RefPcs \ {"none", "record", "finishRun"}
    BY DEF Leave, RefPcs
  <2>2. RefStep(d)
    BY <1>2, <2>1, RefJumps
  <2> QED BY <1>2, <2>2, Rejecting DEF Codes
<1> QED BY <1>1, <1>2 DEF Unadmitted

LEMMA StartSteps ==
  ASSUME SyncInv, NEW d \in Dispatches, AcquireRefLane(d) \/ StartExecution(d)
  PROVE  SyncStep
<1>0. rwf[d].pc # "none"
  BY DEF AcquireRefLane, StartExecution, RAt
<1>1. CASE AcquireRefLane(d)
  <2>1. RefStep(d) /\ LedgerStep
    <3>1. ASSUME rwf' = [rwf EXCEPT ![d].pc = "start", ![d].laned = TRUE], UNCHANGED item
          PROVE  RefStep(d) /\ LedgerStep
      <4> DEFINE l == [rwf[d] EXCEPT !.pc = "start", !.laned = TRUE]
      <4>1. l \in RefLocals /\ l.pc = "start"
        BY RowTypes DEF RefLocals, RefPcs
      <4>2. rwf' = [rwf EXCEPT ![d] = l]
        BY <3>1
      <4> HIDE DEF l
      <4>3. RefStep(d)
        BY <1>0, <4>1, <4>2, RefLocalsBecome
      <4> QED BY <1>1, <3>1, <4>3, LedgersRest DEF AcquireRefLane
    <3> QED BY <1>0, <1>1, <3>1, UnadmittedSteps DEF AcquireRefLane
  <2>2. lane' \in [Creds -> [holder : Holders, live : BOOLEAN]]
    BY <1>1, LanesTyped, HolderTyped, RowTypes DEF AcquireRefLane
  <2> QED BY <1>1, <2>1, <2>2, RefWrites, RowTypes DEF AcquireRefLane, WorldStep, world
<1>2. CASE StartExecution(d)
  <2>1. ASSUME rwf' = [rwf EXCEPT ![d].pc = IF rwf[d].has THEN "sync" ELSE "claim",
                                  ![d].has = FALSE, ![d].pend = FALSE],
               UNCHANGED item
        PROVE  RefStep(d) /\ LedgerStep
    <3> DEFINE pc == IF rwf[d].has THEN "sync" ELSE "claim"
               l == [rwf[d] EXCEPT !.pc = pc, !.has = FALSE, !.pend = FALSE]
    <3>1. pc \in {"sync", "claim"} /\ pc \in RefPcs
      BY DEF RefPcs
    <3>2. rwf' = [rwf EXCEPT ![d] = l]
      BY <2>1
    <3>3. l \in RefLocals /\ l.pc = pc
      <4> HIDE DEF pc
      <4> QED BY <3>1, RowTypes DEF RefLocals
    <3> HIDE DEF l, pc
    <3>4. RefStep(d)
      BY <1>0, <3>1, <3>2, <3>3, RefLocalsBecome
    <3> QED BY <1>2, <2>1, <3>4, LedgersRest DEF StartExecution
  <2>2. RefStep(d) /\ LedgerStep
    BY <1>0, <1>2, <2>1, UnadmittedSteps DEF StartExecution
  <2> QED BY <1>2, <2>2, RefWrites, WorldRests DEF StartExecution, world
<1> QED BY <1>1, <1>2

\* The runs that a claim leaves behind, whatever comes of it
LEMMA Expiring ==
  ASSUME SyncInv, NEW d \in Dispatches, run' = expireStaleRepositorySyncRuns(d),
         UNCHANGED cursor, item' = item \/ ItemRejected
  PROVE  LedgerStep
<1>1. ASSUME NEW s \in Slots
      PROVE  run'[s] \in RunRows /\ (Lasts(s) \/ Ends(s))
  <2>1. CASE run'[s] = run[s]
    BY <2>1, RowTypes DEF Lasts
  <2>2. CASE run[s].st = "running" /\ run'[s] = EndedRun(run[s], "reconcile")
    <3>1. EndedRun(run[s], "reconcile") \in RunRows
      BY ZenonT(40), RowTypes, HolderTyped DEF EndedRun, StatusOf, RunRows, Codes
    <3> QED BY <2>2, <3>1 DEF Ends, Codes
  <2> QED BY <2>1, <2>2 DEF expireStaleRepositorySyncRuns
<1>2. run' \in [Slots -> RunRows]
  BY <1>1 DEF expireStaleRepositorySyncRuns
<1> QED BY <1>1, <1>2 DEF LedgerStep, Settles, CursorRests

LEMMA ClaimSteps ==
  ASSUME SyncInv, NEW d \in Dispatches, claimRepositorySync(d) \/ ClaimAnswerLost(d)
  PROVE  SyncStep
<1> DEFINE runs == expireStaleRepositorySyncRuns(d)
<1>0. rwf[d].pc # "none" /\ item[d].st # "none"
  BY DEF claimRepositorySync, ClaimAnswerLost, RAt, SyncInv, BindingsTrue
<1>1. ASSUME Claimable(d, runs), run' = Claimed(d, runs), UNCHANGED <<item, cursor>>
      PROVE  LedgerStep
  BY <1>0, <1>1 DEF LedgerStep, RunClaimed
<1>2. CASE ClaimAnswerLost(d)
  <2>1. LedgerStep
    BY <1>1, <1>2 DEF ClaimAnswerLost
  <2> QED BY <1>2, <2>1, RefWrites, WorldRests DEF ClaimAnswerLost
<1>3. CASE claimRepositorySync(d)
  <2>1. RefStep(d)
    BY <1>0, <1>3, RefJumps DEF claimRepositorySync, RefPcs
  <2>2. ASSUME run' = runs, rejectPendingDispatchItem(d, "reconcile") \/ UNCHANGED item
        PROVE  LedgerStep
    <3>1. item' = item \/ ItemRejected
      BY <2>2 DEF rejectPendingDispatchItem, ItemRejected, Codes
    <3> QED BY <1>3, <2>2, <3>1, Expiring DEF claimRepositorySync
  <2>3. LedgerStep
    BY <1>1, <1>3, <2>2 DEF claimRepositorySync
  <2> QED BY <1>3, <2>1, <2>3, RefWrites, WorldRests DEF claimRepositorySync, world
<1> QED BY <1>2, <1>3

\* The run of an orphan ends, if there is one.
LEMMA OrphanEnds ==
  ASSUME SyncInv, NEW i \in Dispatches, Orphan(i), run' = OrphanFinished(Slot(i)),
         UNCHANGED <<cursor, item>>
  PROVE  LedgerStep
BY RowTypes, Ending DEF Orphan, OrphanFinished, Codes

LEMMA OrphanSteps ==
  ASSUME SyncInv, NEW d \in Dispatches,
         finishRejectedUnboundRepositoryRun(d) \/ FinishUnbindableRun(d)
  PROVE  SyncStep
<1>0. rwf[d].pc # "none"
  BY DEF finishRejectedUnboundRepositoryRun, FinishUnbindableRun, RAt
<1>1. CASE finishRejectedUnboundRepositoryRun(d)
  <2> DEFINE l == [rwf[d] EXCEPT !.pc = "claim", !.again = TRUE]
  <2>1. l \in RefLocals /\ l.pc = "claim"
    BY RowTypes DEF RefLocals, RefPcs
  <2>2. rwf' = [rwf EXCEPT ![d] = l]
    BY <1>1 DEF finishRejectedUnboundRepositoryRun
  <2> HIDE DEF l
  <2>3. RefStep(d)
    BY <1>0, <2>1, <2>2, RefLocalsBecome
  <2>4. LedgerStep
    BY <1>1, LedgersRest, OrphanEnds DEF finishRejectedUnboundRepositoryRun
  <2> QED BY <1>1, <2>3, <2>4, RefWrites, WorldRests
          DEF finishRejectedUnboundRepositoryRun, world
<1>2. CASE FinishUnbindableRun(d)
  <2>1. RefStep(d)
    BY <1>0, <1>2, RefJumps DEF FinishUnbindableRun, RefPcs
  <2>2. LedgerStep
    BY <1>2, LedgersRest, OrphanEnds DEF FinishUnbindableRun
  <2> QED BY <1>2, <2>1, <2>2, RefWrites, WorldRests DEF FinishUnbindableRun, world
<1> QED BY <1>1, <1>2

LEMMA BindSteps ==
  ASSUME SyncInv, NEW d \in Dispatches, markDispatchItemRunning(d)
  PROVE  SyncStep
<1>0. rwf[d].pc = "bind"
  BY DEF markDispatchItemRunning, RAt
<1>1. CASE Bindable(d)
  <2> DEFINE l == [RefAt("sync") EXCEPT !.laned = TRUE, !.ghost = rwf[d].ghost]
  <2>1. l \in RefLocals /\ l.pc = "sync"
    BY ZenonT(40), RowTypes, LocalsTyped DEF RefLocals, RefPcs
  <2>2. rwf' = [rwf EXCEPT ![d] = l]
    BY <1>1 DEF markDispatchItemRunning
  <2> HIDE DEF l
  <2>3. RefStep(d)
    BY <1>0, <2>1, <2>2, RefLocalsBecome
  <2>4. ItemBound(d)
    BY <1>0, <1>1 DEF markDispatchItemRunning, ItemBound
  <2> QED BY <2>3, <2>4, RefWrites, WorldRests DEF markDispatchItemRunning, world, LedgerStep
<1>2. CASE ~Bindable(d)
  <2>1. RefStep(d)
    BY <1>0, <1>2, RefJumps DEF markDispatchItemRunning, RefPcs
  <2>2. LedgerStep
    BY <1>2, Rejecting DEF markDispatchItemRunning, Codes
  <2> QED BY <2>1, <2>2, RefWrites, WorldRests DEF markDispatchItemRunning, world
<1> QED BY <1>1, <1>2

-----------------------------------------------------------------------------
(* An attempt to synchronise the ref, and its outcome *)

LEMMA AttemptSteps ==
  ASSUME SyncInv, NEW d \in Dispatches,
         StartAttempt(d) \/ AttemptFails(d) \/ AttemptTimesOut(d)
  PROVE  SyncStep
<1>0. rwf[d].pc # "none"
  BY DEF StartAttempt, AttemptFails, AttemptTimesOut, RAt
<1>1. CASE StartAttempt(d)
  <2>1. CASE hasExactSuccessfulRefOutcome(d) /\ RFinish(d, "none")
    <3>1. run'[Slot(d)].moved \in Recorded
      BY <1>1, <2>1, CursorSays
         DEF StartAttempt, hasExactSuccessfulRefOutcome, ledgers, Recorded
    <3>2. RefStep(d)
      BY <1>0, <2>1, <3>1, RefFinishes DEF Codes
    <3> QED BY <1>1, <3>2, RefRests, WorldRests DEF StartAttempt, world, ledgers
  <2>2. CASE RGoto(d, "attempt")
    <3>1. RefStep(d)
      BY <1>0, <2>2, RefJumps DEF RefPcs
    <3> QED BY <1>1, <3>1, RefRests, WorldRests DEF StartAttempt, world, ledgers
  <2> QED BY <1>1, <2>1, <2>2 DEF StartAttempt
<1>2. CASE AttemptFails(d)
  <2>1. ASSUME rwf' = [rwf EXCEPT ![d].pc = "sync", ![d].tries = @ + 1]
        PROVE  RefStep(d)
    <3> DEFINE l == [rwf[d] EXCEPT !.pc = "sync", !.tries = @ + 1]
    <3>1. l \in RefLocals /\ l.pc = "sync"
      <4>1. rwf[d] \in RefLocals /\ rwf[d].tries + 1 \in Nat /\ "sync" \in RefPcs
        BY RowTypes DEF RefLocals, RefPcs
      <4> QED BY <4>1 DEF RefLocals
    <3>2. rwf' = [rwf EXCEPT ![d] = l]
      BY <2>1
    <3> HIDE DEF l
    <3> QED BY <1>0, <3>1, <3>2, RefLocalsBecome
  <2>2. ASSUME rwf' = [rwf EXCEPT ![d].pc = "record", ![d].code = "other"]
        PROVE  RefStep(d)
    <3> DEFINE l == [rwf[d] EXCEPT !.pc = "record", !.code = "other"]
    <3>1. l \in RefLocals /\ l.pc = "record" /\ l.code = "other"
      BY ZenonT(40), RowTypes DEF RefLocals, RefPcs, Codes
    <3>2. rwf' = [rwf EXCEPT ![d] = l]
      BY <2>2
    <3> HIDE DEF l
    <3> QED BY <1>0, <3>1, <3>2, RefLocalsBecome
  <2> QED BY <1>2, <2>1, <2>2, RefRests, WorldRests DEF AttemptFails, world, ledgers
<1>3. CASE AttemptTimesOut(d)
  <2> DEFINE l == [rwf[d] EXCEPT !.pc = "record", !.code = "reconcile", !.ghost = TRUE]
  <2>1. l \in RefLocals /\ l.pc = "record" /\ l.code = "reconcile"
    BY ZenonT(40), RowTypes DEF RefLocals, RefPcs, Codes
  <2>2. rwf' = [rwf EXCEPT ![d] = l]
    BY <1>3 DEF AttemptTimesOut
  <2> HIDE DEF l
  <2>3. RefStep(d)
    BY <1>0, <2>1, <2>2, RefLocalsBecome
  <2> QED BY <1>3, <2>3, RefRests, WorldRests DEF AttemptTimesOut, world, ledgers
<1> QED BY <1>1, <1>2, <1>3

\* The cursor after the move of a run
LEMMA CursorMoves ==
  ASSUME SyncInv, NEW d \in Dispatches, NEW code \in Codes,
         NEW st \in {"complete", "observed", "failed"},
         NEW last \in {Slot(d), cursor.last}
  PROVE  LET c == MovedCursor(st, Slot(d), last, code) IN
         /\ c \in Cursors
         /\ c.v = cursor.v + 1 /\ c.st = st /\ c.last = last /\ c.code = code
<1>1. Slot(d) \in Nat /\ cursor.v \in Nat /\ cursor.last \in Nat
  BY RowTypes, Names DEF Cursors
<1> QED BY <1>1 DEF MovedCursor, computeNextSyncAt, Cursors

\* The answer of a write is heard by the Workflow, or by nobody.
LEMMA Hearing ==
  ASSUME SyncInv, NEW d \in Dispatches, item[d].bound, Heard(d),
         run'[Slot(d)].moved \in Recorded
  PROVE  UNCHANGED rwf \/ RefStep(d)
<1>0. /\ rwf \in [Dispatches -> RefLocals] /\ rwf[d] \in RefLocals
      /\ rwf[d].pc # "none" /\ item[d].st # "none"
  BY RowTypes DEF SyncInv, BindingsTrue
<1>1. CASE RAt(d, "attempt") /\ RFinish(d, "none")
  BY <1>1, RefFinishes DEF RAt, Codes
<1>2. CASE rwf[d].ghost /\ rwf' = [rwf EXCEPT ![d].ghost = FALSE]
  <2> DEFINE l == [rwf[d] EXCEPT !.ghost = FALSE]
  <2>1. l \in RefLocals /\ l.pc = rwf[d].pc /\ l.code = rwf[d].code
    BY <1>0 DEF RefLocals
  <2>2. rwf' = [rwf EXCEPT ![d] = l]
    BY <1>2
  <2>3. rwf[d].pc = "record" => rwf[d].code # "none"
    BY DEF SyncInv, OutcomesCarried
  <2> HIDE DEF l
  <2> QED BY <1>0, <1>2, <2>1, <2>2, <2>3 DEF RefStep
<1> QED BY <1>1, <1>2 DEF Heard

LEMMA MoveSteps ==
  ASSUME SyncInv, NEW d \in Dispatches, markUnchanged(d) \/ Activate(d)
  PROVE  SyncStep
<1>0. /\ Slot(d) \in Slots /\ run \in [Slots -> RunRows] /\ head + 1 \in Nat
      /\ Fenced(d) /\ item[d].bound
  BY RowTypes DEF markUnchanged, Activate, Fenced
<1>1. CASE markUnchanged(d)
  <2>1. run' = [run EXCEPT ![Slot(d)].moved = "unchanged"]
    BY <1>1 DEF markUnchanged
  <2>2. run'[Slot(d)].moved \in Recorded
    BY <1>0, <2>1 DEF RunRows, Recorded
  <2>3. RunMoves(d)
    <3>1. cursor' = MovedCursor("complete", Slot(d), Slot(d), "none")
      BY <1>1 DEF markUnchanged
    <3>2. /\ cursor' \in Cursors /\ cursor'.v = cursor.v + 1
          /\ cursor'.st = "complete" /\ cursor'.last = Slot(d)
      BY <3>1, CursorMoves DEF Codes
    <3> QED BY <1>0, <1>1, <2>1, <3>2 DEF markUnchanged, RunMoves
  <2>4. UNCHANGED rwf \/ RefStep(d)
    BY <1>0, <1>1, <2>2, Hearing DEF markUnchanged
  <2> QED BY <1>1, <2>3, <2>4, RefWrites, WorldRests DEF markUnchanged, LedgerStep, world
<1>2. CASE Activate(d)
  <2>1. run' = [run EXCEPT ![Slot(d)] = [EndedRun(@, "none") EXCEPT !.moved = "activated"]]
    BY <1>2 DEF Activate
  <2>2. run'[Slot(d)].moved \in Recorded
    BY <1>0, <2>1 DEF EndedRun, RunRows, Recorded
  <2>3. RunMoves(d)
    <3>1. cursor' = MovedCursor("observed", Slot(d), Slot(d), "none")
      BY <1>2 DEF Activate
    <3>2. cursor' \in Cursors /\ cursor'.v = cursor.v + 1 /\ cursor'.st = "observed"
      BY <3>1, CursorMoves DEF Codes
    <3> QED BY <1>0, <1>2, <2>1, <3>2 DEF Activate, RunMoves
  <2>4. UNCHANGED rwf \/ RefStep(d)
    BY <1>0, <1>2, <2>2, Hearing DEF Activate
  <2>5. WorldStep
    BY <1>0, <1>2, RowTypes DEF Activate, WorldStep, world
  <2> QED BY <1>2, <2>3, <2>4, <2>5, RefWrites DEF Activate, LedgerStep
<1> QED BY <1>1, <1>2

LEMMA RecordSteps ==
  ASSUME SyncInv, NEW d \in Dispatches, recordSyncFailure(d)
  PROVE  SyncStep
<1>0. rwf[d].pc = "record" /\ rwf[d].code \in Codes \ {"none"}
  BY RowTypes DEF recordSyncFailure, RAt, SyncInv, OutcomesCarried, RefLocals
<1>1. RefStep(d)
  <2>1. rwf' = [rwf EXCEPT ![d] = [rwf[d] EXCEPT !.pc = "finishRun"]]
    BY DEF recordSyncFailure, RGoto, Ended
  <2> DEFINE l == [rwf[d] EXCEPT !.pc = "finishRun"]
  <2>2. l \in RefLocals /\ l.pc = "finishRun" /\ l.code = rwf[d].code
    BY RowTypes DEF RefLocals, RefPcs
  <2>3. item[d].st # "none"
    BY <1>0 DEF SyncInv, BindingsTrue
  <2>4. rwf' = [rwf EXCEPT ![d] = l]
    BY <2>1
  <2> HIDE DEF l
  <2> QED BY <1>0, <2>2, <2>3, <2>4, RowTypes DEF RefStep
<1>2. CASE Recordable(d)
  <2>1. RunMoves(d)
    <3>1. cursor' = MovedCursor("failed", Slot(d), cursor.last, rwf[d].code)
      BY <1>2 DEF recordSyncFailure
    <3>2. PICK code \in Codes : code = rwf[d].code /\ code # "none"
      BY <1>0
    <3>3. PICK last \in {Slot(d), cursor.last} : last = cursor.last
      OBVIOUS
    <3>4. /\ cursor' \in Cursors /\ cursor'.v = cursor.v + 1
          /\ cursor'.st = "failed" /\ cursor'.code # "none"
      BY <3>1, <3>2, <3>3, CursorMoves
    <3> QED BY <1>2, <3>4 DEF recordSyncFailure, Recordable, RunMoves
  <2> QED BY <1>1, <2>1, RefWrites, WorldRests DEF recordSyncFailure, LedgerStep, world
<1>3. CASE UNCHANGED <<cursor, run>>
  BY <1>1, <1>3, RefRests, WorldRests DEF recordSyncFailure, world
<1> QED BY <1>2, <1>3 DEF recordSyncFailure

LEMMA FinishSteps ==
  ASSUME SyncInv, NEW d \in Dispatches, FinishRefRun(d) \/ FinishRefItem(d)
  PROVE  SyncStep
<1>0. /\ rwf[d].pc # "none" /\ rwf[d].code \in Codes /\ Slot(d) \in Slots
      /\ Abort(d) \in RefPcs \ {"none", "record", "finishRun"}
      /\ Leave(d) \in RefPcs \ {"none", "record", "finishRun"}
  BY RowTypes DEF FinishRefRun, FinishRefItem, RAt, RefLocals, Abort, Leave, RefPcs
<1>1. CASE FinishRefRun(d)
  <2>1. RefStep(d)
    BY <1>0, <1>1, RefJumps DEF FinishRefRun, RefPcs
  <2>2. LedgerStep
    <3>1. CASE UNCHANGED run
      BY <1>1, <3>1, LedgersRest DEF FinishRefRun
    <3>2. CASE run[Slot(d)].st = "running"
               /\ run' = [run EXCEPT ![Slot(d)] = EndedRun(@, rwf[d].code)]
      <4>1. rwf[d].code = "none" => run[Slot(d)].moved \in Recorded
        BY <1>1 DEF FinishRefRun, RAt, SyncInv, OutcomesCarried
      <4>2. PICK code \in Codes : code = rwf[d].code
        BY <1>0
      <4> QED BY <1>0, <1>1, <3>2, <4>1, <4>2, Ending DEF FinishRefRun
    <3> QED BY <1>1, <3>1, <3>2 DEF FinishRefRun, FinishedRun
  <2> QED BY <1>1, <2>1, <2>2, RefWrites, WorldRests DEF FinishRefRun, world
<1>2. CASE FinishRefItem(d)
  <2>1. RefStep(d)
    BY <1>0, <1>2, RefJumps DEF FinishRefItem
  <2>2. LedgerStep
    <3>1. CASE UNCHANGED item
      BY <1>2, <3>1, LedgersRest DEF FinishRefItem
    <3>2. CASE CanFinishItem(d, rwf[d].code) /\ item' = FinishedItem(d, rwf[d].code)
      <4>1. CASE item[d].st = "running"
        <5>1. ItemEnds(d)
          BY <1>0, <1>2, <3>2, <4>1 DEF FinishRefItem, CanFinishItem, ItemEnds
        <5> QED BY <5>1 DEF LedgerStep
      <4>2. CASE item[d].st = StatusOf(rwf[d].code) /\ item[d].code = rwf[d].code
        <5>1. item' = item
          BY <3>2, <4>2, RowTypes DEF FinishedItem, ItemRows
        <5> QED BY <1>2, <5>1, LedgersRest DEF FinishRefItem
      <4> QED BY <3>2, <4>1, <4>2 DEF CanFinishItem
    <3> QED BY <1>2, <3>1, <3>2 DEF FinishRefItem
  <2> QED BY <1>2, <2>1, <2>2, RefWrites, WorldRests DEF FinishRefItem, world
<1> QED BY <1>1, <1>2

LEMMA EndSteps ==
  ASSUME SyncInv, NEW d \in Dispatches, ReleaseRefLane(d) \/ RefDies(d)
  PROVE  SyncStep
<1>0. rwf[d].pc # "none"
  BY DEF ReleaseRefLane, RefDies, RAt, Ended
<1>1. CASE ReleaseRefLane(d)
  <2>1. RefStep(d)
    BY <1>0, <1>1, RefJumps DEF ReleaseRefLane, RefPcs
  <2>2. lane' \in [Creds -> [holder : Holders, live : BOOLEAN]]
    BY <1>1, LanesTyped, HolderTyped DEF ReleaseRefLane
  <2> QED BY <1>1, <2>1, <2>2, RefRests, RowTypes DEF ReleaseRefLane, WorldStep, world, ledgers
<1>2. CASE RefDies(d)
  <2> DEFINE b == InFlight(d)
             l == [RefAt("errored") EXCEPT !.ghost = b]
  <2>1. l \in RefLocals /\ l.pc = "errored"
    <3>1. b \in BOOLEAN
      BY RowTypes DEF InFlight, RAt, RefLocals
    <3> HIDE DEF b
    <3> QED BY <3>1, LocalsTyped DEF RefLocals, RefPcs
  <2>2. rwf' = [rwf EXCEPT ![d] = l]
    BY <1>2 DEF RefDies
  <2>3. RefStep(d)
    <3> HIDE DEF l
    <3> QED BY <1>0, <2>1, <2>2, RefLocalsBecome
  <2>4. run' \in [Slots -> RunRows] /\ Slot(d) \in Slots
    <3>1. Slot(d) \in Slots /\ run \in [Slots -> RunRows] /\ {} \in Holders
      BY RowTypes, HolderTyped
    <3>2. run' = [run EXCEPT ![Slot(d)] = [run[Slot(d)] EXCEPT !.by = {}]]
      BY <1>2 DEF RefDies
    <3>3. [run[Slot(d)] EXCEPT !.by = {}] \in RunRows
      BY <3>1 DEF RunRows
    <3> QED BY <3>1, <3>2, <3>3
  <2>5. ASSUME NEW s \in Slots
        PROVE  Lasts(s)
    <3>1. run[s].st # "running" => run[s].by = {}
      BY DEF SyncInv, Columns
    <3>2. run' = [run EXCEPT ![Slot(d)] = [run[Slot(d)] EXCEPT !.by = {}]]
      BY <1>2 DEF RefDies
    <3>3. CASE s # Slot(d)
      BY <2>4, <3>2, <3>3, RowTypes DEF Lasts
    <3>4. CASE s = Slot(d)
      <4>1. run'[s] = [run[s] EXCEPT !.by = {}] /\ run[s] \in RunRows
        BY <2>4, <3>2, <3>4, RowTypes
      <4>2. run[s].by = {} => run'[s] = run[s]
        BY <4>1 DEF RunRows
      <4> QED BY <3>1, <4>1, <4>2 DEF Lasts, RunRows, Identity
    <3> QED BY <3>3, <3>4
  <2>6. LedgerStep
    BY <1>2, <2>4, <2>5 DEF RefDies, LedgerStep, Settles, CursorRests
  <2> QED BY <1>2, <2>3, <2>6, RefWrites, WorldRests DEF RefDies
<1> QED BY <1>1, <1>2

LEMMA RefWorkflowSteps ==
  ASSUME SyncInv, NEW d \in Dispatches, RefWorkflow(d)
  PROVE  SyncStep
BY OpenSteps, RecoverSteps, ValidateSteps, StartSteps, ClaimSteps, OrphanSteps, BindSteps,
   AttemptSteps, MoveSteps, RecordSteps, FinishSteps, EndSteps
   DEF RefWorkflow

-----------------------------------------------------------------------------
(* The theorems *)

LEMMA NextIsSyncStep == SyncInv /\ Next => SyncStep
BY EnvironmentSteps, DispatchWorkflowSteps, RefWorkflowSteps DEF Next

LEMMA StutterKeeps == SyncInv /\ UNCHANGED vars =>
  SyncInv' /\ \A s \in Slots : run[s].moved # "no" => run'[s].moved = run[s].moved
<1> SUFFICES ASSUME SyncInv, UNCHANGED vars
             PROVE  SyncStep
  BY SyncStepKeeps
<1>1. UNCHANGED <<clock, env, cfg, cursor, head, dispatch, item, run, lane, dwf, rwf>>
  BY DEF vars, ledgers
<1> QED BY <1>1, LedgersRest, RowsRest, WorldRests DEF SyncStep

\* The inductive invariant of the synchronisation: the ledgers and the
\* Workflows between any two steps, whoever died or timed out before.
THEOREM SyncInvariant == Spec => []SyncInv
<1>1. Init => SyncInv
  BY SyncInvInit
<1>2. SyncInv /\ [Next]_vars => SyncInv'
  BY NextIsSyncStep, SyncStepKeeps, StutterKeeps
<1> QED BY <1>1, <1>2, PTL DEF Spec

\* The ledgers are well formed, and two occurrences, or two credentials of a
\* rotation, never have an active item of the same ref at once.
THEOREM OneItemIsActive == Spec => []OneActiveItem
<1>1. SyncInv => TypeOK
  BY TypeParts DEF SyncInv, Types
<1>2. ASSUME SyncInv
      PROVE  Cardinality({d \in Dispatches : Active(d)}) <= 1
  <2> DEFINE A == {d \in Dispatches : Active(d)}
  <2>1. A = {} \/ \E d \in Dispatches : A = {d}
    BY <1>2 DEF SyncInv, SingleActive
  <2>2. Cardinality(A) = 0 \/ Cardinality(A) = 1
    BY <2>1, FS_EmptySet, FS_Singleton
  <2> QED BY <2>2
<1>3. SyncInv => OneActiveItem
  BY <1>1, <1>2 DEF OneActiveItem
<1> QED BY <1>3, SyncInvariant, PTL

\* A run in progress can always be ended by somebody: no crash, lost claim or
\* rejection leaves one that neither its item nor a recovery finds.
THEOREM RunsAreOwned == Spec => []RunIsOwned
<1>1. SyncInv => RunIsOwned
  BY DEF SyncInv
<1> QED BY <1>1, SyncInvariant, PTL

\* The outcomes on the ledgers are true: a completed run moved the cursor, an
\* activated one is complete, and a bound item ended like its run.
THEOREM OutcomesAreTrue == Spec => []OutcomeTruth
<1>1. SyncInv => OutcomeTruth
  BY DEF SyncInv, OutcomeTruth, MovesTrue, BindingsTrue, Recorded
<1> QED BY <1>1, SyncInvariant, PTL

\* A dispatch is complete only if its items were counted and each of them has
\* had a Workflow, also when a later occurrence closed it.
THEOREM CompletedDispatchesAreTrue == Spec => []DispatchTruth
<1>1. SyncInv => DispatchTruth
  BY DEF SyncInv
<1> QED BY <1>1, SyncInvariant, PTL

\* A run moves the cursor once: its failure, an attempt that timed out and a
\* recovery do not move it again.
THEOREM CursorMovesOnce == Spec => MovesOnce
<1>1. SyncInv /\ [Next]_vars =>
        [\A s \in Slots : run[s].moved # "no" => run'[s].moved = run[s].moved]_vars
  BY NextIsSyncStep, SyncStepKeeps
<1> QED BY <1>1, SyncInvariant, PTL DEF Spec, MovesOnce

=============================================================================
