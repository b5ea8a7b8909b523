---------------------------- MODULE SearchProofs ----------------------------
(***************************************************************************)
(* A stale publisher or deletion replaces nothing newer, what was reported *)
(* stays readable while it is current, and every vector is accounted for,  *)
(* for every number of Workflows, rebuilds, janitors, versions and faults. *)
(* The guards of the batches compare rows with what a task has read; the   *)
(* first invariant, Inv, says what that is worth: a publisher that may     *)
(* commit has read a version that was, and what a deletion carries is not  *)
(* the current revision, and never will be again.  The second one, ReadInv, *)
(* adds claims and vectors: what a page holds it has claimed and nobody    *)
(* publishes, and what it has deleted comes back only as a vector that is  *)
(* forgotten.                                                              *)
(***************************************************************************)
EXTENDS Search, FiniteSetTheorems, TLAPS

Rows == [rev : Nat, ver : Nat]

Places ==
  {"none", "start", "complete", "failed", "scan", "claim", "check", "delete",
   "verify", "finalize", "read", "invalidated", "upsert", "settle", "recheck",
   "commit", "upsertAgain", "confirm", "unpublish", "withdraw", "deleteLook",
   "deleteClaim", "deleteHold", "deleteVectors", "deleteVerify", "deleteHead",
   "deleted"}
Goals == {"none", "read", "deleteLook", "deleted", "published", "refused", "rethrow"}

TaskRecords ==
  [pc : Places, at : Goals, rev : Nat, ver : Nat,
   rows : SUBSET Nat, pub : SUBSET Nat, mine : SUBSET Nat, prev : SUBSET Nat,
   tries : Nat, got : BOOLEAN, mode : {"search", "delete"},
   want : Nat, wantVer : Nat, asked : Nat]

\* The types of what the argument is about
Types ==
  /\ mem \in [ver : Nat, rev : Nat, active : BOOLEAN]
  /\ mem.rev <= mem.ver
  /\ head \subseteq Rows
  /\ receipts \subseteq Nat
  /\ task \in [Tasks -> TaskRecords]

\* There is one head, of a version that was.
HeadOK ==
  /\ \A g, h \in head : g = h
  /\ \A h \in head : h.rev <= h.ver /\ h.ver <= mem.ver

\* Revision r is not the current one, and never will be again.
Past(r) == r <= mem.ver /\ ~(mem.active /\ mem.rev = r)

Paging == {"scan", "claim", "check", "delete", "verify", "finalize"}
Deletions ==
  {"deleteLook", "deleteClaim", "deleteHold", "deleteVectors", "deleteVerify",
   "deleteHead"}

\* What a task knows
TaskOK(t) ==
  /\ t.pc \in {"upsert", "settle", "recheck", "commit"} =>
       t.rev <= t.ver /\ t.ver <= mem.ver
  /\ t.pc = "invalidated" =>
       t.ver <= mem.ver /\ (mem.active => mem.rev > t.ver)
  /\ t.pc \in Deletions => Past(t.rev)
  /\ t.pc \in Paging /\ t.at = "deleteLook" => Past(t.rev)
  /\ t.mode = "delete" => Past(t.want)

Inv == Types /\ HeadOK /\ \A x \in Tasks : TaskOK(task[x])

-----------------------------------------------------------------------------
(* How tasks move *)

\* A task moves to a state that knows what it must.
Moves ==
  \E x \in Tasks : \E t \in TaskRecords :
    TaskOK(t) /\ task' = [task EXCEPT ![x] = t]

LEMMA MovesKeep ==
  ASSUME Inv, mem' = mem, Moves \/ task' = task,
         head' \subseteq Rows, receipts' \subseteq Nat, HeadOK'
  PROVE  Inv'
<1>1. \A t : TaskOK(t)' = TaskOK(t)
  BY DEF TaskOK, Past
<1>2. task' \in [Tasks -> TaskRecords] /\ \A x \in Tasks : TaskOK(task'[x])
  <2>1. CASE task' = task
    BY <2>1 DEF Inv, Types
  <2>2. CASE Moves
    <3>1. PICK x \in Tasks, t \in TaskRecords :
            TaskOK(t) /\ task' = [task EXCEPT ![x] = t]
      BY <2>2 DEF Moves
    <3>. QED BY <3>1 DEF Inv, Types
  <2>. QED BY <2>1, <2>2
<1>3. \A x \in Tasks : TaskOK(task[x])'
  BY <1>1, <1>2
<1>. QED BY <1>2, <1>3 DEF Inv, Types

\* Nothing but tasks and what is left aside here changes.
LEMMA TaskStep ==
  ASSUME Inv, mem' = mem, head' = head, receipts' \subseteq Nat, Moves \/ task' = task
  PROVE  Inv'
<1>1. HeadOK' /\ head' \subseteq Rows
  BY DEF Inv, HeadOK, Types
<1>. QED BY <1>1, MovesKeep

LEMMA Known ==
  ASSUME Inv, NEW x \in Tasks
  PROVE  task[x] \in TaskRecords /\ TaskOK(task[x])
  BY DEF Inv, Types

LEMMA NoTaskOK == Inv => NoTask \in TaskRecords /\ TaskOK(NoTask)
  BY DEF NoTask, TaskRecords, Places, Goals, TaskOK, Paging, Deletions

\* The place a task goes to asks nothing of it.
LEMMA ToMoves ==
  ASSUME Inv, NEW x \in Tasks, NEW pc \in Places, To(x, pc),
         TaskOK([task[x] EXCEPT !.pc = pc])
  PROVE  Moves
<1>1. [task[x] EXCEPT !.pc = pc] \in TaskRecords
  BY Known DEF TaskRecords
<1>2. task' = [task EXCEPT ![x] = [task[x] EXCEPT !.pc = pc]]
  BY DEF To, Inv, Types
<1>. QED BY <1>1, <1>2 DEF Moves

LEMMA FailingOK ==
  ASSUME Inv, NEW x \in Tasks
  PROVE  Failing(x) \in TaskRecords /\ TaskOK(Failing(x))
<1>1. task[x] \in TaskRecords /\ TaskOK(task[x])
  BY Known
<1>2. Ended(task[x]) \in TaskRecords /\ TaskOK(Ended(task[x]))
      /\ Ended(task[x]).mode = task[x].mode /\ Ended(task[x]).want = task[x].want
  BY ZenonT(40), <1>1
     DEF Ended, NoTask, TaskRecords, Places, Goals, TaskOK, Paging, Deletions, Past
<1>3. \A pc \in {"start", "failed"} :
        LET t == [Ended(task[x]) EXCEPT !.pc = pc] IN t \in TaskRecords /\ TaskOK(t)
  BY <1>2 DEF TaskRecords, Places, Goals, TaskOK, Paging, Deletions, Past
<1>. QED BY <1>3, NoTaskOK DEF Failing

LEMMA ThrowMoves ==
  ASSUME Inv, NEW x \in Tasks, Throw(x)
  PROVE  Moves
  BY FailingOK DEF Throw, Moves

LEMMA ReturnMoves ==
  ASSUME Inv, NEW x \in Tasks, NEW answer \in BOOLEAN, Return(x, answer)
  PROVE  Moves
<1>1. CASE Throw(x)
  BY <1>1, ThrowMoves
<1>2. CASE task' = [task EXCEPT ![x] =
                      [NoTask EXCEPT !.pc = "complete", !.rev = task[x].rev,
                                     !.got = answer]]
  <2>1. PICK t : t = [NoTask EXCEPT !.pc = "complete", !.rev = task[x].rev,
                                    !.got = answer]
    OBVIOUS
  <2>2. t \in TaskRecords /\ TaskOK(t)
    BY <2>1, Known DEF NoTask, TaskRecords, Places, Goals, TaskOK, Paging, Deletions
  <2>. QED BY <1>2, <2>1, <2>2 DEF Moves
<1>. QED BY <1>1, <1>2 DEF Return

\* A task drains the receipts, and goes on at a place that asks nothing of it or
\* with a revision that is past.
LEMMA DrainingOK ==
  ASSUME Inv, NEW t \in TaskRecords, NEW at \in Goals,
         t.mode = "delete" => Past(t.want), at = "deleteLook" => Past(t.rev)
  PROVE  Draining(t, at) \in TaskRecords /\ TaskOK(Draining(t, at))
  BY ZenonT(40) DEF Draining, TaskRecords, Places, Goals, TaskOK, Paging, Deletions

LEMMA CleanMoves ==
  ASSUME Inv, NEW x \in Tasks, NEW at \in Goals \ {"deleteLook"}, CleanTo(x, at)
  PROVE  Moves
<1>1. task[x] \in TaskRecords /\ (task[x].mode = "delete" => Past(task[x].want))
  BY Known DEF TaskOK
<1>2. Draining(task[x], at) \in TaskRecords /\ TaskOK(Draining(task[x], at))
  BY <1>1, DrainingOK
<1>3. task' = [task EXCEPT ![x] = Draining(task[x], at)]
  BY DEF CleanTo, Inv, Types
<1>. QED BY <1>2, <1>3 DEF Moves

\* Places that ask nothing of a task
LEMMA FreeMoves ==
  ASSUME Inv, NEW x \in Tasks,
         NEW pc \in Places \ (Paging \cup Deletions \cup
                      {"upsert", "settle", "recheck", "commit", "invalidated"}),
         To(x, pc)
  PROVE  Moves
<1>1. task[x] \in TaskRecords /\ TaskOK(task[x])
  BY Known
<1>2. TaskOK([task[x] EXCEPT !.pc = pc])
  BY <1>1 DEF TaskOK, TaskRecords
<1>. QED BY <1>2, ToMoves

\* One place in a deletion, or in a publication before its batch, follows
\* another: what the task knows it goes on to know.
LEMMA NextMoves ==
  ASSUME Inv, NEW x \in Tasks, NEW pc \in Places, To(x, pc),
         \/ task[x].pc \in Deletions /\ pc \in Deletions
         \/ /\ task[x].pc \in {"upsert", "settle", "recheck"}
            /\ pc \in {"settle", "recheck", "commit"}
  PROVE  Moves
<1>1. task[x] \in TaskRecords /\ TaskOK(task[x])
  BY Known
<1>2. TaskOK([task[x] EXCEPT !.pc = pc])
  BY <1>1 DEF TaskOK, TaskRecords, Deletions, Paging
<1>. QED BY <1>2, ToMoves

-----------------------------------------------------------------------------
(* Requests, pages and the authority *)

\* Once a revision is past, it stays so: revisions are named by the versions
\* that make them.
LEMMA AuthorityStep ==
  ASSUME Inv, Mutate \/ MutateOther
  PROVE  Inv' /\ head' = head
<1>1. /\ head' = head /\ receipts' = receipts
      /\ mem'.ver = mem.ver + 1
      /\ mem' \in [ver : Nat, rev : Nat, active : BOOLEAN] /\ mem'.rev <= mem'.ver
      /\ \/ mem'.rev = mem.ver + 1
         \/ mem'.rev = mem.rev /\ mem'.active = mem.active
  BY DEF Mutate, MutateOther, Inv, Types, db
<1>2. \A r \in Nat : Past(r) => Past(r)'
  BY <1>1 DEF Past, Inv, Types
<1>3. \A t \in TaskRecords : TaskOK(t) => TaskOK(t)'
  BY <1>1, <1>2 DEF TaskOK, TaskRecords, Inv, Types
<1>4. HeadOK'
  BY <1>1 DEF HeadOK, Inv, Types, Rows
<1>5. Moves \/ task' = task
  <2>1. CASE Mutate
    <3>1. PICK w \in Workflows : To(w, "start")
      BY <2>1 DEF Mutate
    <3>2. w \in Tasks
      BY DEF Tasks
    <3>. QED BY <3>1, <3>2, FreeMoves DEF Places, Paging, Deletions
  <2>2. CASE MutateOther
    BY <2>2 DEF MutateOther
  <2>. QED BY <2>1, <2>2
<1>6. task' \in [Tasks -> TaskRecords] /\ \A x \in Tasks : TaskOK(task'[x])
  <2>1. CASE task' = task
    BY <2>1 DEF Inv, Types
  <2>2. CASE Moves
    <3>1. PICK x \in Tasks, t \in TaskRecords :
            TaskOK(t) /\ task' = [task EXCEPT ![x] = t]
      BY <2>2 DEF Moves
    <3>. QED BY <3>1 DEF Inv, Types
  <2>. QED BY <1>5, <2>1, <2>2
<1>7. \A x \in Tasks : TaskOK(task[x])'
  BY <1>3, <1>6
<1>. QED BY <1>1, <1>4, <1>6, <1>7 DEF Inv, Types

\* A deletion is asked for only of a head that is past.
LEMMA RequestStep ==
  ASSUME Inv, NEW x \in Tasks, RequestRebuild(x)
  PROVE  Inv' /\ head' = head
<1>1. mem' = mem /\ head' = head /\ receipts' = receipts
      /\ head \subseteq Rows /\ receipts \subseteq Nat
  BY DEF RequestRebuild, db, Inv, Types
<1>2. task[x] \in TaskRecords /\ TaskOK(task[x])
  BY Known
<1>3. Moves
  <2>1. CASE task' = [task EXCEPT ![x] = [@ EXCEPT
               !.pc = "start", !.mode = "search", !.want = mem.rev, !.asked = mem.ver]]
    <3>1. PICK t : t = [task[x] EXCEPT
               !.pc = "start", !.mode = "search", !.want = mem.rev, !.asked = mem.ver]
      OBVIOUS
    <3>2. t \in TaskRecords
      BY <1>2, <3>1 DEF TaskRecords, Places, Inv, Types
    <3>3. TaskOK(t)
      BY <1>2, <3>1 DEF TaskRecords, TaskOK, Paging, Deletions
    <3>4. task' = [task EXCEPT ![x] = t]
      BY <2>1, <3>1 DEF Inv, Types
    <3>. QED BY <3>2, <3>3, <3>4 DEF Moves
  <2>2. ASSUME ~mem.active, NEW h \in head,
               task' = [task EXCEPT ![x] = [@ EXCEPT
                 !.pc = "start", !.mode = "delete", !.want = h.rev,
                 !.wantVer = h.ver, !.asked = mem.ver]]
        PROVE  Moves
    <3>1. PICK t : t = [task[x] EXCEPT
                 !.pc = "start", !.mode = "delete", !.want = h.rev,
                 !.wantVer = h.ver, !.asked = mem.ver]
      OBVIOUS
    <3>2. h.rev \in Nat /\ h.ver \in Nat /\ h.rev <= mem.ver /\ mem.ver \in Nat
      BY <1>1 DEF Inv, HeadOK, Types, Rows
    <3>3. t \in TaskRecords
      BY <1>2, <3>1, <3>2 DEF TaskRecords, Places
    <3>4. t.pc = "start" /\ t.want = h.rev
      BY <1>2, <3>1 DEF TaskRecords
    <3>5. TaskOK(t)
      BY <2>2, <3>2, <3>4 DEF TaskOK, Paging, Deletions, Past
    <3>6. task' = [task EXCEPT ![x] = t]
      BY <2>2, <3>1 DEF Inv, Types
    <3>. QED BY <3>3, <3>5, <3>6 DEF Moves
  <2>. QED BY <2>1, <2>2 DEF RequestRebuild
<1>. QED BY <1>1, <1>3, TaskStep

LEMMA StartStep ==
  ASSUME Inv, NEW x \in Tasks, Start(x)
  PROVE  Inv' /\ head' = head
<1>1. mem' = mem /\ head' = head /\ receipts' = receipts /\ receipts \subseteq Nat
  BY DEF Start, db, Inv, Types
<1>2. task[x] \in TaskRecords /\ TaskOK(task[x]) /\ task[x].pc = "start"
  BY Known DEF Start
<1>3. PICK t : t = [task[x] EXCEPT !.tries = @ + 1]
  OBVIOUS
<1>4. t \in TaskRecords
  BY <1>2, <1>3 DEF TaskRecords
<1>5. t.pc = "start" /\ (t.mode = "delete" => Past(t.want))
  BY <1>2, <1>3 DEF TaskRecords, TaskOK
<1>6. Moves
  <2>1. ASSUME NEW pc \in {"start", "failed"},
               task' = [task EXCEPT ![x] = [t EXCEPT !.pc = pc]]
        PROVE  Moves
    <3>1. [t EXCEPT !.pc = pc] \in TaskRecords
      BY <1>4 DEF TaskRecords, Places
    <3>2. TaskOK([t EXCEPT !.pc = pc])
      BY <1>4, <1>5 DEF TaskRecords, TaskOK, Paging, Deletions
    <3>. QED BY <2>1, <3>1, <3>2 DEF Moves
  <2>2. ASSUME t.mode = "delete",
               task' = [task EXCEPT ![x] =
                 Draining([t EXCEPT !.rev = t.want, !.ver = t.wantVer], "deleteLook")]
        PROVE  Moves
    <3>1. PICK u : u = [t EXCEPT !.rev = t.want, !.ver = t.wantVer]
      OBVIOUS
    <3>2. u \in TaskRecords /\ u.rev = t.want /\ u.want = t.want
      BY <1>4, <3>1 DEF TaskRecords
    <3>3. Past(u.rev) /\ Past(u.want)
      BY <1>5, <2>2, <3>2
    <3>4. Draining(u, "deleteLook") \in TaskRecords /\ TaskOK(Draining(u, "deleteLook"))
      BY <3>2, <3>3, DrainingOK DEF Goals
    <3>. QED BY <2>2, <3>1, <3>4 DEF Moves
  <2>3. ASSUME task' = [task EXCEPT ![x] = Draining(t, "read")]
        PROVE  Moves
    <3>1. Draining(t, "read") \in TaskRecords /\ TaskOK(Draining(t, "read"))
      BY <1>4, <1>5, DrainingOK DEF Goals
    <3>. QED BY <2>3, <3>1 DEF Moves
  <2>. QED BY <1>3, <2>1, <2>2, <2>3 DEF Start
<1>. QED BY <1>1, <1>6, TaskStep

\* Within a page a task keeps where it is to go on and with which revision.
LEMMA PagingMoves ==
  ASSUME Inv, NEW x \in Tasks, NEW t \in TaskRecords,
         task[x].pc \in Paging, t.pc \in Paging,
         t.at = task[x].at, t.rev = task[x].rev, t.mode = task[x].mode,
         t.want = task[x].want, task' = [task EXCEPT ![x] = t]
  PROVE  Moves
<1>1. TaskOK(task[x])
  BY Known
<1>2. TaskOK(t)
  BY <1>1 DEF TaskOK, Paging, Deletions
<1>. QED BY <1>2 DEF Moves

LEMMA ScanMoves ==
  ASSUME Inv, NEW x \in Tasks, Scan(x)
  PROVE  Moves
<1>1. task[x] \in TaskRecords /\ TaskOK(task[x]) /\ task[x].pc = "scan"
      /\ receipts \subseteq Nat /\ task \in [Tasks -> TaskRecords]
  BY Known DEF Scan, Inv, Types
<1>2. ASSUME Resume(x)
      PROVE  Moves
  <2>1. CASE task[x].at = "published"
    BY <1>2, <2>1, ReturnMoves DEF Resume
  <2>2. CASE task[x].at = "refused"
    BY <1>2, <2>2, ReturnMoves DEF Resume
  <2>3. CASE task[x].at = "rethrow"
    BY <1>2, <2>3, ThrowMoves DEF Resume
  <2>4. CASE task[x].at \in {"none", "read", "deleteLook", "deleted"}
    <3>1. PICK t : t = [task[x] EXCEPT !.pc = task[x].at, !.at = "none", !.prev = {}]
      OBVIOUS
    <3>2. t \in TaskRecords
      BY <1>1, <2>4, <3>1 DEF TaskRecords, Places, Goals
    <3>3. t.pc = task[x].at /\ t.rev = task[x].rev /\ t.mode = task[x].mode
          /\ t.want = task[x].want
      BY <1>1, <3>1 DEF TaskRecords
    <3>4. TaskOK(t)
      BY <1>1, <2>4, <3>3 DEF TaskOK, Paging, Deletions
    <3>5. task' = [task EXCEPT ![x] = t]
      BY <1>1, <1>2, <2>4, <3>1 DEF Resume
    <3>. QED BY <3>2, <3>4, <3>5 DEF Moves
  <2>. QED BY <1>1, <2>1, <2>2, <2>3, <2>4 DEF TaskRecords, Goals
<1>3. ASSUME task' = [task EXCEPT ![x] = [@ EXCEPT
               !.pc = "claim", !.rows = receipts, !.pub = receipts \cap Ledger]]
      PROVE  Moves
  <2>1. PICK t : t = [task[x] EXCEPT
               !.pc = "claim", !.rows = receipts, !.pub = receipts \cap Ledger]
    OBVIOUS
  <2>2. receipts \in SUBSET Nat /\ receipts \cap Ledger \in SUBSET Nat
    BY <1>1
  <2>3. t \in TaskRecords
    BY <1>1, <2>1, <2>2 DEF TaskRecords, Places
  <2>4. t.pc \in Paging /\ t.at = task[x].at /\ t.rev = task[x].rev
        /\ t.mode = task[x].mode /\ t.want = task[x].want
    BY <1>1, <2>1 DEF TaskRecords, Paging
  <2>5. task' = [task EXCEPT ![x] = t]
    BY <1>1, <1>3, <2>1
  <2>6. task[x].pc \in Paging
    BY <1>1 DEF Paging
  <2>. QED BY <2>3, <2>4, <2>5, <2>6, PagingMoves
<1>. QED BY <1>2, <1>3 DEF Scan

LEMMA ClaimMoves ==
  ASSUME Inv, NEW x \in Tasks, Claim(x)
  PROVE  Moves
<1>1. task[x] \in TaskRecords /\ task[x].pc = "claim" /\ task \in [Tasks -> TaskRecords]
  BY Known DEF Claim, Inv, Types
<1>2. PICK mine : mine = {r \in task[x].rows \ task[x].pub :
                            r \in receipts /\ Claimable(r) /\ r \notin Ledger}
  OBVIOUS
<1>3. PICK t : t = [task[x] EXCEPT
              !.mine = mine, !.pc = IF mine = {} THEN "finalize" ELSE "check"]
  OBVIOUS
<1>4. mine \in SUBSET Nat
  BY <1>1, <1>2 DEF TaskRecords
<1>5. t \in TaskRecords
  BY <1>1, <1>3, <1>4 DEF TaskRecords, Places
<1>6. t.pc \in Paging /\ t.at = task[x].at /\ t.rev = task[x].rev
      /\ t.mode = task[x].mode /\ t.want = task[x].want
  BY <1>1, <1>3 DEF TaskRecords, Paging
<1>7. task' = [task EXCEPT ![x] = t]
  BY <1>1, <1>2, <1>3 DEF Claim
<1>8. task[x].pc \in Paging
  BY <1>1 DEF Paging
<1>. QED BY <1>5, <1>6, <1>7, <1>8, PagingMoves

LEMMA ToPagingMoves ==
  ASSUME Inv, NEW x \in Tasks, NEW pc \in Paging, task[x].pc \in Paging, To(x, pc)
  PROVE  Moves
<1>1. task[x] \in TaskRecords /\ TaskOK(task[x])
  BY Known
<1>2. TaskOK([task[x] EXCEPT !.pc = pc])
  BY <1>1 DEF TaskOK, TaskRecords, Deletions, Paging
<1>. QED BY <1>2, ToMoves DEF Paging, Places

LEMMA FinalizeMoves ==
  ASSUME Inv, NEW x \in Tasks, Finalize(x)
  PROVE  Moves
<1>1. task[x] \in TaskRecords /\ task[x].pc = "finalize"
      /\ task \in [Tasks -> TaskRecords]
  BY Known DEF Finalize, Inv, Types
<1>2. CASE task' = [task EXCEPT ![x] = NoTask]
  BY <1>2, NoTaskOK DEF Moves
<1>3. CASE task' = [task EXCEPT ![x] = Failing(x)]
  BY <1>3, FailingOK DEF Moves
<1>4. CASE task' = [task EXCEPT ![x] =
              [[task[x] EXCEPT !.rows = {}, !.pub = {}, !.mine = {}]
                 EXCEPT !.pc = "scan", !.prev = task[x].rows]]
  <2>1. PICK u : u = [task[x] EXCEPT !.rows = {}, !.pub = {}, !.mine = {}]
    OBVIOUS
  <2>2. u \in TaskRecords /\ u.at = task[x].at /\ u.rev = task[x].rev
        /\ u.mode = task[x].mode /\ u.want = task[x].want
    BY <1>1, <2>1 DEF TaskRecords
  <2>3. PICK t : t = [u EXCEPT !.pc = "scan", !.prev = task[x].rows]
    OBVIOUS
  <2>4. t \in TaskRecords
    BY <1>1, <2>2, <2>3 DEF TaskRecords, Places
  <2>5. t.pc \in Paging /\ t.at = task[x].at /\ t.rev = task[x].rev
        /\ t.mode = task[x].mode /\ t.want = task[x].want
    BY <2>2, <2>3 DEF TaskRecords, Paging
  <2>6. task' = [task EXCEPT ![x] = t]
    BY <1>4, <2>1, <2>3
  <2>7. task[x].pc \in Paging
    BY <1>1 DEF Paging
  <2>. QED BY <2>4, <2>5, <2>6, <2>7, PagingMoves
<1>5. task' = [task EXCEPT ![x] =
          IF x \in Janitors THEN NoTask
          ELSE IF task[x].rows = task[x].prev THEN Failing(x)
          ELSE [[task[x] EXCEPT !.rows = {}, !.pub = {}, !.mine = {}]
                  EXCEPT !.pc = "scan", !.prev = task[x].rows]]
  BY DEF Finalize
<1>. QED BY <1>2, <1>3, <1>4, <1>5

\* Draining receipts touches no head.
LEMMA PageStep ==
  ASSUME Inv, NEW x \in Tasks, Page(x) \/ Sweep(x)
  PROVE  Inv' /\ head' = head
<1>1. mem' = mem /\ head' = head
  BY DEF Page, Sweep, Scan, Claim, Check, Delete, Verify, Finalize, db
<1>2. receipts' \subseteq Nat
  BY DEF Page, Sweep, Scan, Claim, Check, Delete, Verify, Finalize, db, Inv, Types
<1>3. CASE Scan(x) \/ Claim(x) \/ Finalize(x)
  BY <1>1, <1>2, <1>3, ScanMoves, ClaimMoves, FinalizeMoves, TaskStep
<1>4. CASE Check(x)
  <2>1. task[x].pc \in Paging /\ (To(x, "delete") \/ Throw(x))
    BY <1>4 DEF Check, PageFails, Paging
  <2>2. Moves
    BY <2>1, ToPagingMoves, ThrowMoves DEF Paging
  <2>. QED BY <1>1, <1>2, <2>2, TaskStep
<1>5. CASE Delete(x)
  <2>1. task[x].pc \in Paging /\ To(x, "verify")
    BY <1>5 DEF Delete, Paging
  <2>2. Moves
    BY <2>1, ToPagingMoves DEF Paging
  <2>. QED BY <1>1, <1>2, <2>2, TaskStep
<1>6. CASE Verify(x)
  <2>1. task[x].pc \in Paging /\ (To(x, "finalize") \/ Throw(x))
    BY <1>6 DEF Verify, PageFails, Paging
  <2>2. Moves
    BY <2>1, ToPagingMoves, ThrowMoves DEF Paging
  <2>. QED BY <1>1, <1>2, <2>2, TaskStep
<1>7. CASE Sweep(x)
  <2>1. Moves
    BY <1>7, CleanMoves DEF Sweep, Goals
  <2>. QED BY <1>1, <1>2, <2>1, TaskStep
<1>. QED BY <1>3, <1>4, <1>5, <1>6, <1>7 DEF Page

-----------------------------------------------------------------------------
(* Publication and deletion *)

\* What a step may do to the head
HeadStep ==
  \A h \in head :
    IF head' = {} THEN ~(mem.active /\ mem.rev = h.rev)
    ELSE \A n \in head' : n.ver > h.ver \/ n = h

LEMMA SameHead ==
  ASSUME Inv, head' = head
  PROVE  HeadStep
  BY DEF HeadStep, Inv, HeadOK

LEMMA RowFields ==
  ASSUME Inv, NEW x \in Tasks
  PROVE  /\ Row(x) \in Rows
         /\ Row(x).rev = task[x].rev /\ Row(x).ver = task[x].ver
  BY Known DEF Row, Rows, TaskRecords

LEMMA ReadMoves ==
  ASSUME Inv, NEW x \in Tasks, Read(x)
  PROVE  Moves
<1>1. task[x] \in TaskRecords /\ TaskOK(task[x]) /\ task \in [Tasks -> TaskRecords]
      /\ mem.rev \in Nat /\ mem.ver \in Nat /\ mem.rev <= mem.ver
  BY Known DEF Inv, Types
<1>2. PICK t : t = [task[x] EXCEPT
              !.rev = mem.rev, !.ver = mem.ver,
              !.pc = IF mem.active THEN "upsert" ELSE "invalidated"]
  OBVIOUS
<1>3. t \in TaskRecords
  BY <1>1, <1>2 DEF TaskRecords, Places
<1>4. /\ t.rev = mem.rev /\ t.ver = mem.ver
      /\ t.pc = IF mem.active THEN "upsert" ELSE "invalidated"
      /\ t.mode = task[x].mode /\ t.want = task[x].want
  BY <1>1, <1>2 DEF TaskRecords
<1>5. TaskOK(t)
  BY <1>1, <1>4 DEF TaskOK, Paging, Deletions
<1>6. task' = [task EXCEPT ![x] = t]
  BY <1>1, <1>2 DEF Read
<1>. QED BY <1>3, <1>5, <1>6 DEF Moves

\* A head that is not of a later version than the one at which the memory was
\* not active is past.
LEMMA InvalidatedMoves ==
  ASSUME Inv, NEW x \in Tasks, Invalidated(x)
  PROVE  Moves
<1>1. task[x] \in TaskRecords /\ TaskOK(task[x]) /\ task \in [Tasks -> TaskRecords]
      /\ mem.rev \in Nat /\ mem.ver \in Nat /\ task[x].pc = "invalidated"
  BY Known DEF Inv, Types, Invalidated
<1>2. CASE Return(x, TRUE) \/ Return(x, FALSE)
  BY <1>2, ReturnMoves
<1>3. ASSUME NEW h \in head, ~(h.ver > task[x].ver),
             task' = [task EXCEPT ![x] =
                        Draining([@ EXCEPT !.rev = h.rev, !.ver = h.ver], "deleteLook")]
      PROVE  Moves
  <2>1. h.rev \in Nat /\ h.ver \in Nat /\ h.rev <= h.ver /\ h.ver <= mem.ver
        /\ task[x].ver \in Nat
    BY <1>1 DEF Inv, HeadOK, Types, Rows, TaskRecords
  <2>2. Past(h.rev)
    BY <1>1, <1>3, <2>1 DEF Past, TaskOK
  <2>3. PICK u : u = [task[x] EXCEPT !.rev = h.rev, !.ver = h.ver]
    OBVIOUS
  <2>4. u \in TaskRecords /\ u.rev = h.rev /\ u.mode = task[x].mode
        /\ u.want = task[x].want
    BY <1>1, <2>1, <2>3 DEF TaskRecords
  <2>5. u.mode = "delete" => Past(u.want)
    BY <1>1, <2>4 DEF TaskOK
  <2>6. Draining(u, "deleteLook") \in TaskRecords /\ TaskOK(Draining(u, "deleteLook"))
    BY <2>2, <2>4, <2>5, DrainingOK DEF Goals
  <2>7. task' = [task EXCEPT ![x] = Draining(u, "deleteLook")]
    BY <1>1, <1>3, <2>3
  <2>. QED BY <2>6, <2>7 DEF Moves
<1>. QED BY <1>2, <1>3 DEF Invalidated

LEMMA UnpublishMoves ==
  ASSUME Inv, NEW x \in Tasks, NEW at \in {"refused", "rethrow"}, Unpublish(x, at)
  PROVE  Moves /\ receipts' \subseteq Nat
<1>1. Moves
  BY CleanMoves DEF Unpublish, Goals
<1>2. task[x].rev \in Nat /\ receipts \subseteq Nat
  BY Known DEF TaskRecords, Inv, Types
<1>. QED BY <1>1, <1>2 DEF Unpublish

\* The batch replaces only an older head, or the same.
LEMMA CommitStep ==
  ASSUME Inv, NEW x \in Tasks, CommitProjection(x) \/ CommitFails(x)
  PROVE  Inv' /\ HeadStep
<1>1. task[x] \in TaskRecords /\ TaskOK(task[x]) /\ task[x].pc = "commit" /\ mem' = mem
      /\ receipts \subseteq Nat /\ head \subseteq Rows /\ mem.ver \in Nat
  BY Known DEF Inv, Types, CommitProjection, CommitFails
<1>2. Moves
  <2>1. To(x, "upsertAgain") \/ To(x, "unpublish") \/ To(x, "withdraw")
    BY DEF CommitProjection, CommitFails
  <2>. QED BY <2>1, FreeMoves DEF Places, Paging, Deletions
<1>3. CASE MayWrite(x) /\ Commit(x)
  <2>1. head' = {Row(x)} /\ receipts' = receipts \cup Ledger
    BY <1>3 DEF Commit
  <2>2. \A h \in head : Row(x).ver > h.ver \/ Row(x) = h
    BY <1>3, RowFields DEF MayWrite
  <2>3. receipts' \subseteq Nat
    BY <1>1, <2>1 DEF Ledger, Rows
  <2>4. HeadStep
    BY <2>1, <2>2 DEF HeadStep
  <2>5. Row(x).rev <= Row(x).ver /\ Row(x).ver <= mem.ver
    BY <1>1, RowFields DEF TaskOK
  <2>6. HeadOK'
    BY <1>1, <2>1, <2>5 DEF HeadOK
  <2>. QED BY <1>1, <1>2, <2>1, <2>3, <2>4, <2>6, RowFields, MovesKeep
<1>4. CASE UNCHANGED <<head, receipts>>
  BY <1>1, <1>2, <1>4, TaskStep, SameHead
<1>. QED BY <1>3, <1>4 DEF CommitProjection, CommitFails

LEMMA PublicationStep ==
  ASSUME Inv, NEW x \in Tasks, Publication(x)
  PROVE  Inv' /\ HeadStep
<1>1. CASE Read(x) \/ Invalidated(x)
  <2>1. mem' = mem /\ head' = head /\ receipts' = receipts /\ receipts \subseteq Nat
    BY <1>1 DEF Read, Invalidated, db, Inv, Types
  <2>. QED BY <1>1, <2>1, ReadMoves, InvalidatedMoves, TaskStep, SameHead
<1>2. CASE Upsert(x)
  <2>1. mem' = mem /\ head' = head /\ receipts' = receipts /\ receipts \subseteq Nat
    BY <1>2 DEF Upsert, db, Inv, Types
  <2>2. \/ task[x].pc = "upsert" /\ To(x, "settle")
        \/ To(x, "confirm")
    BY <1>2 DEF Upsert
  <2>3. Moves
    BY <2>2, NextMoves, FreeMoves DEF Places, Paging, Deletions
  <2>. QED BY <2>1, <2>3, TaskStep, SameHead
<1>3. CASE Settle(x)
  <2>1. mem' = mem /\ head' = head /\ receipts' = receipts /\ receipts \subseteq Nat
    BY <1>3 DEF Settle, db, Inv, Types
  <2>2. \/ task[x].pc = "settle" /\ To(x, "recheck")
        \/ CleanTo(x, "published")
        \/ Throw(x)
    BY <1>3 DEF Settle
  <2>3. Moves
    BY <2>2, NextMoves, CleanMoves, ThrowMoves DEF Places, Goals
  <2>. QED BY <2>1, <2>3, TaskStep, SameHead
<1>4. CASE Recheck(x)
  <2>1. mem' = mem /\ head' = head /\ receipts \subseteq Nat
    BY <1>4 DEF Recheck, Inv, Types
  <2>2. \/ task[x].pc = "recheck" /\ To(x, "commit") /\ receipts' = receipts
        \/ Unpublish(x, "refused")
    BY <1>4 DEF Recheck
  <2>3. Moves /\ receipts' \subseteq Nat
    BY <2>1, <2>2, NextMoves, UnpublishMoves DEF Places
  <2>. QED BY <2>1, <2>3, TaskStep, SameHead
<1>5. CASE CommitProjection(x) \/ CommitFails(x)
  BY <1>5, CommitStep
<1>6. CASE Withdraw(x)
  <2>1. mem' = mem /\ head' = head
    BY <1>6 DEF Withdraw
  <2>2. Moves /\ receipts' \subseteq Nat
    BY <1>6, UnpublishMoves DEF Withdraw
  <2>. QED BY <2>1, <2>2, TaskStep, SameHead
<1>. QED BY <1>1, <1>2, <1>3, <1>4, <1>5, <1>6 DEF Publication

\* A deletion removes only what is past.
LEMMA DeletionStep ==
  ASSUME Inv, NEW x \in Tasks, Deletion(x)
  PROVE  Inv' /\ HeadStep
<1>1. mem' = mem /\ receipts' = receipts /\ receipts \subseteq Nat
  BY DEF Deletion, DeleteLook, DeleteClaim, DeleteHold, DeleteVectors, DeleteVerify,
         DeleteHead, Deleted, db, Inv, Types
<1>2. CASE DeleteLook(x)
  <2>1. \/ task[x].pc = "deleteLook"
           /\ (To(x, "deleteVectors") \/ To(x, "deleteClaim"))
        \/ Return(x, FALSE) \/ Return(x, head = {})
    BY <1>2 DEF DeleteLook
  <2>2. Moves
    BY <2>1, NextMoves, ReturnMoves DEF Places, Deletions
  <2>3. head' = head
    BY <1>2 DEF DeleteLook, db
  <2>. QED BY <1>1, <2>2, <2>3, TaskStep, SameHead
<1>3. CASE DeleteClaim(x)
  <2>1. task[x].pc = "deleteClaim" /\ To(x, "deleteHold") /\ head' = head
    BY <1>3 DEF DeleteClaim
  <2>2. Moves
    BY <2>1, NextMoves DEF Places, Deletions
  <2>. QED BY <1>1, <2>1, <2>2, TaskStep, SameHead
<1>4. CASE DeleteHold(x)
  <2>1. \/ task[x].pc = "deleteHold" /\ To(x, "deleteVectors")
        \/ Return(x, FALSE)
    BY <1>4 DEF DeleteHold
  <2>2. Moves /\ head' = head
    BY <1>4, <2>1, NextMoves, ReturnMoves DEF Places, Deletions, DeleteHold, db
  <2>. QED BY <1>1, <2>2, TaskStep, SameHead
<1>5. CASE DeleteVectors(x) \/ DeleteVerify(x)
  <2>1. \/ task[x].pc = "deleteVectors" /\ To(x, "deleteVerify")
        \/ task[x].pc = "deleteVerify" /\ To(x, "deleteHead")
        \/ Throw(x)
    BY <1>5 DEF DeleteVectors, DeleteVerify
  <2>2. Moves
    BY <2>1, NextMoves, ThrowMoves DEF Places, Deletions
  <2>3. head' = head
    BY <1>5 DEF DeleteVectors, DeleteVerify, db
  <2>. QED BY <1>1, <2>2, <2>3, TaskStep, SameHead
<1>6. CASE DeleteHead(x)
  <2>1. Past(task[x].rev)
    BY <1>6, Known DEF DeleteHead, TaskOK, Deletions
  <2>2. \/ head' = head \/ head' = head \ {Row(x)}
    BY <1>6 DEF DeleteHead
  <2>3. Moves
    BY <1>6, CleanMoves, ThrowMoves DEF DeleteHead, Goals
  <2>4. HeadOK' /\ head' \subseteq Rows
    BY <1>1, <2>2 DEF HeadOK, Inv, Types
  <2>5. HeadStep
    <3>1. \A g, h \in head : g = h
      BY DEF Inv, HeadOK
    <3>2. \A h \in head : h \notin head' => ~(mem.active /\ mem.rev = h.rev)
      BY <2>1, <2>2, RowFields DEF Past
    <3>. QED BY <2>2, <3>1, <3>2 DEF HeadStep
  <2>. QED BY <1>1, <2>3, <2>4, <2>5, MovesKeep
<1>7. CASE Deleted(x)
  <2>1. head' = head
    BY <1>7 DEF Deleted, db
  <2>2. Moves
    BY <1>7, ReturnMoves DEF Deleted
  <2>. QED BY <1>1, <2>1, <2>2, TaskStep, SameHead
<1>. QED BY <1>2, <1>3, <1>4, <1>5, <1>6, <1>7 DEF Deletion

-----------------------------------------------------------------------------
(* The invariant and what follows from it *)

LEMMA InitInv == Init => Inv
<1> SUFFICES ASSUME Init PROVE Inv
  OBVIOUS
<1>1. PICK w \in Workflows : w = CHOOSE u \in Workflows : TRUE
  BY SearchAssumption
<1>2. NoTask \in TaskRecords /\ NoTask.mode = "search"
  BY DEF NoTask, TaskRecords, Places, Goals
<1>3. [NoTask EXCEPT !.pc = "start"] \in TaskRecords
  BY <1>2 DEF TaskRecords, Places
<1>4. task = [x \in Tasks |-> IF x = w THEN [NoTask EXCEPT !.pc = "start"] ELSE NoTask]
  BY <1>1 DEF Init
<1>5. Types
  BY <1>2, <1>3, <1>4 DEF Init, Types
<1>6. HeadOK
  BY DEF Init, HeadOK
<1>7. TaskOK(NoTask) /\ TaskOK([NoTask EXCEPT !.pc = "start"])
  BY DEF NoTask, TaskOK, Paging, Deletions
<1>. QED BY <1>4, <1>5, <1>6, <1>7 DEF Inv

LEMMA NextInv == Inv /\ [Next]_vars => Inv' /\ HeadStep
<1> SUFFICES ASSUME Inv, [Next]_vars PROVE Inv' /\ HeadStep
  OBVIOUS
<1>1. CASE Mutate \/ MutateOther
  BY <1>1, AuthorityStep, SameHead
<1>2. CASE BackoffPasses \/ Expire
  <2>1. mem' = mem /\ head' = head /\ task' = task /\ receipts' = receipts
        /\ receipts \subseteq Nat
    BY <1>2 DEF BackoffPasses, Expire, Inv, Types
  <2>. QED BY <2>1, TaskStep, SameHead
<1>3. ASSUME NEW x \in Tasks, RequestRebuild(x) \/ Step(x) \/ Die(x)
      PROVE  Inv' /\ HeadStep
  <2>1. CASE RequestRebuild(x)
    BY <2>1, RequestStep, SameHead
  <2>2. CASE Start(x)
    BY <2>2, StartStep, SameHead
  <2>3. CASE Page(x) \/ Sweep(x)
    BY <2>3, PageStep, SameHead
  <2>4. CASE Publication(x)
    BY <2>4, PublicationStep
  <2>5. CASE Deletion(x)
    BY <2>5, DeletionStep
  <2>6. CASE Die(x)
    <3>1. mem' = mem /\ head' = head /\ receipts' = receipts /\ receipts \subseteq Nat
      BY <2>6 DEF Die, Inv, Types
    <3>2. Moves
      BY <2>6, ThrowMoves DEF Die
    <3>. QED BY <3>1, <3>2, TaskStep, SameHead
  <2>. QED BY <1>3, <2>1, <2>2, <2>3, <2>4, <2>5, <2>6 DEF Step
<1>4. CASE UNCHANGED vars
  <2>1. mem' = mem /\ head' = head /\ task' = task /\ receipts' = receipts
        /\ receipts \subseteq Nat
    BY <1>4 DEF vars, db, Inv, Types
  <2>. QED BY <2>1, TaskStep, SameHead
<1>. QED BY <1>1, <1>2, <1>3, <1>4 DEF Next

\* A late publisher never replaces a newer head, and no deletion, of whatever age,
\* removes the head of the revision that is current.
THEOREM NothingNewerIsReplaced == Spec => StaleNeverWins
<1>1. Inv /\ [Next]_vars => [HeadStep]_vars
  BY NextInv
<1>2. Inv /\ [Next]_vars => Inv'
  BY NextInv
<1>3. Spec => [][HeadStep]_vars
  BY <1>1, <1>2, InitInv, PTL DEF Spec
<1>. QED BY <1>3 DEF StaleNeverWins, HeadStep

-----------------------------------------------------------------------------
(* What is readable, and who accounts for a vector *)

Current(r) == mem.active /\ mem.rev = r
VersionRows == [rev : Versions, ver : Versions]

\* The tables are of the versions there are, and a claim is on a receipt.
TablesOK ==
  /\ mem.ver \in Versions /\ mem.rev \in Versions
  /\ head \subseteq VersionRows
  /\ deletion \subseteq VersionRows /\ \A d, e \in deletion : d = e
  /\ held \subseteq receipts /\ receipts \subseteq Versions
  /\ index \subseteq Versions /\ stray \subseteq Versions
  /\ claim \in [Versions -> Tasks \cup {Nobody, Dead, Expired}]
  /\ faults \in 0 .. MaxFaults
  /\ \A r \in Versions : claim[r] # Nobody => r \in receipts

\* The ledger, a receipt or the history of forgotten vectors names r.
Named(r) == r \in Ledger \/ r \in receipts \/ r \in stray
Accounted ==
  \A r \in index : Named(r) \/ \E x \in Tasks : Publishing(x) /\ task[x].rev = r

Publishers ==
  {"upsert", "settle", "recheck", "commit", "withdraw", "unpublish", "upsertAgain",
   "confirm"}
Holding == {"check", "delete", "verify", "finalize"}

\* The claims of a task are those of its page, on what is not published.
ClaimsOK(x, t) ==
  /\ t.mine \cup t.pub \subseteq t.rows /\ t.mine \subseteq Versions
  /\ t.pc \notin Holding => t.mine = {}
  /\ \A r \in t.mine : claim[r] = x /\ r \notin Ledger
  /\ \A r \in Versions : claim[r] = x => r \in t.mine

\* What a task has read was so: a publisher that is of the current revision's
\* time or later carries the current revision.
ReadsOK(t) ==
  /\ t.rev <= mem.ver
  /\ t.pc \in Publishers => t.rev \in Versions /\ t.ver \in Versions
  /\ t.pc \in {"upsert", "settle", "recheck", "commit"} /\ t.ver >= mem.rev =>
       t.rev = mem.rev
  /\ t.pc \in {"invalidated", "deleted"} => Past(t.rev)
  /\ t.pc \in Paging /\ t.at = "deleted" => Past(t.rev)

\* What a task has seen of the index is still so, but for vectors that are
\* forgotten; what it has published stays while it is current.
SeesOK(t) ==
  /\ t.pc = "finalize" => t.mine \cap index \subseteq stray
  /\ t.pc = "deleteHead" /\ t.rev \in index => t.rev \in stray
  /\ Current(t.rev) =>
       /\ t.pc \in {"upsertAgain", "confirm"} => t.rev \in Ledger
       /\ t.pc \in Paging /\ t.at = "published" => t.rev \in Ledger /\ t.rev \in index
       /\ t.pc = "complete" /\ t.got => t.rev \in Ledger /\ t.rev \in index

Knows(x) == ClaimsOK(x, task[x]) /\ ReadsOK(task[x]) /\ SeesOK(task[x])

ReadInv == Inv /\ TablesOK /\ Accounted /\ \A x \in Tasks : Knows(x)

-----------------------------------------------------------------------------
(* What a step of x leaves to the others *)

Undisturbed(x, y) ==
  /\ task'[y] = task[y]
  /\ \A r \in Versions : claim'[r] = y <=> claim[r] = y

KeepsCurrent ==
  \A r \in Versions : Current(r) /\ r \in Ledger =>
    r \in Ledger' /\ (r \in index => r \in index')

Uncommitted == \A r \in Versions : r \in receipts /\ r \notin Ledger => r \notin Ledger'

\* What comes into the index is forgotten already, or under no cleanup.
NewVectors(x) ==
  \A r \in index' \ index :
    \/ r \in stray'
    \/ /\ r \in receipts => r \in Ledger
       /\ \A y \in Tasks \ {x} : task[y].pc = "deleteHead" => task[y].rev # r

Frame(x) ==
  /\ mem' = mem
  /\ \A y \in Tasks \ {x} : Undisturbed(x, y)
  /\ KeepsCurrent /\ Uncommitted /\ NewVectors(x) /\ stray \subseteq stray'

LEMMA FrameKeeps ==
  ASSUME ReadInv, NEW x \in Tasks, Frame(x), NEW y \in Tasks \ {x}, TablesOK'
  PROVE  Knows(y)'
<1>1. /\ task[y] \in TaskRecords /\ task'[y] = task[y] /\ mem' = mem
      /\ ClaimsOK(y, task[y]) /\ ReadsOK(task[y]) /\ SeesOK(task[y])
      /\ \A r \in Versions : claim'[r] = y <=> claim[r] = y
  BY Known DEF ReadInv, Frame, Undisturbed, Knows
<1>2. PICK t : t = task[y]
  OBVIOUS
<1>3. t \in TaskRecords /\ ClaimsOK(y, t) /\ ReadsOK(t) /\ SeesOK(t)
  BY <1>1, <1>2
<1>4. ReadsOK(t)'
  BY <1>1, <1>3 DEF ReadsOK, Past
<1>5. ClaimsOK(y, t)'
  <2>1. y # Nobody
    BY SearchAssumption
  <2>2. \A r \in t.mine : r \in Versions /\ r \in receipts /\ claim'[r] = y /\ r \notin Ledger
    BY <1>1, <1>3, <2>1 DEF ClaimsOK, ReadInv, TablesOK
  <2>3. \A r \in t.mine : r \notin Ledger'
    BY <2>2 DEF Frame, Uncommitted
  <2>. QED BY <1>1, <1>3, <2>2, <2>3 DEF ClaimsOK
<1>6. SeesOK(t)'
  <2>1. t.pc = "finalize" => t.mine \cap index' \subseteq stray'
    <3>1. ASSUME t.pc = "finalize", NEW r \in t.mine, r \in index'
          PROVE  r \in stray'
      <4>1. r \in Versions /\ claim[r] = y /\ r \notin Ledger /\ r \in receipts
        BY <1>3, <3>1, SearchAssumption DEF ClaimsOK, ReadInv, TablesOK
      <4>2. r \in index => r \in stray'
        BY <1>3, <3>1 DEF SeesOK, Frame
      <4>3. r \notin index => r \in stray'
        BY <3>1, <4>1 DEF Frame, NewVectors
      <4>. QED BY <4>2, <4>3
    <3>. QED BY <3>1
  <2>2. t.pc = "deleteHead" /\ t.rev \in index' => t.rev \in stray'
    BY <1>2, <1>3 DEF SeesOK, Frame, NewVectors
  <2>3. Current(t.rev)' => Current(t.rev) /\ t.rev \in Versions
    BY <1>1 DEF Current, ReadInv, TablesOK
  <2>. QED BY <1>3, <2>1, <2>2, <2>3 DEF SeesOK, Frame, KeepsCurrent
<1>. QED BY <1>1, <1>2, <1>4, <1>5, <1>6 DEF Knows

\* What a step of x leaves in the index is named, or x is about to see to it.
Names(x) ==
  \A r \in index' :
    r \notin index \/ Named(r) \/ (Publishing(x) /\ task[x].rev = r) =>
      Named(r)' \/ (Publishing(x)' /\ task'[x].rev = r)

LEMMA StepKeeps ==
  ASSUME ReadInv, NEW x \in Tasks, Inv', TablesOK', Frame(x), Names(x), Knows(x)'
  PROVE  ReadInv'
<1>1. \A y \in Tasks : Knows(y)'
  <2>1. ASSUME NEW y \in Tasks
        PROVE  Knows(y)'
    <3>1. CASE y = x
      BY <3>1
    <3>2. CASE y # x
      BY <3>2, FrameKeeps
    <3>. QED BY <3>1, <3>2
  <2>. QED BY <2>1
<1>2. Accounted'
  <2>1. ASSUME NEW r \in index'
        PROVE  Named(r)' \/ \E y \in Tasks : Publishing(y)' /\ task'[y].rev = r
    <3>1. CASE r \notin index \/ Named(r)
      BY <2>1, <3>1 DEF Names
    <3>2. CASE r \in index /\ ~Named(r)
      <4>1. PICK y \in Tasks : Publishing(y) /\ task[y].rev = r
        BY <3>2 DEF ReadInv, Accounted
      <4>2. CASE y = x
        BY <2>1, <4>1, <4>2 DEF Names
      <4>3. CASE y # x
        <5>1. task'[y] = task[y]
          BY <4>3 DEF Frame, Undisturbed
        <5>. QED BY <4>1, <5>1 DEF Publishing
      <4>. QED BY <4>2, <4>3
    <3>. QED BY <3>1, <3>2
  <2>. QED BY <2>1 DEF Accounted
<1>. QED BY <1>1, <1>2 DEF ReadInv

-----------------------------------------------------------------------------
(* Steps of a task that leave the tables and the index alone *)

SameTables == UNCHANGED <<mem, head, deletion, receipts, claim, held, index, stray>>

Reporting == {"settle", "recheck", "commit", "withdraw", "unpublish"}

\* What a task may become when the tables stay
Becomes(x, t) ==
  /\ task' = [task EXCEPT ![x] = t]
  /\ ClaimsOK(x, t) /\ ReadsOK(t) /\ SeesOK(t)
  /\ Publishing(x) /\ task[x].rev \in index =>
       \/ Named(task[x].rev)
       \/ t.pc \in Reporting /\ t.rev = task[x].rev

LEMMA OwnFields ==
  ASSUME ReadInv, NEW x \in Tasks
  PROVE  /\ task \in [Tasks -> TaskRecords] /\ task[x] \in TaskRecords /\ TaskOK(task[x])
         /\ ClaimsOK(x, task[x]) /\ ReadsOK(task[x]) /\ SeesOK(task[x])
         /\ mem.ver \in Nat /\ mem.rev \in Nat /\ mem.rev <= mem.ver
         /\ mem.rev \in Versions
  BY Known DEF ReadInv, Knows, TablesOK, Inv, Types

LEMMA OthersStay ==
  ASSUME ReadInv, NEW x \in Tasks, NEW t, task' = [task EXCEPT ![x] = t]
  PROVE  /\ task'[x] = t
         /\ \A y \in Tasks \ {x} : task'[y] = task[y]
  BY OwnFields

LEMMA QuietStep ==
  ASSUME ReadInv, NEW x \in Tasks, NEW t, Inv', SameTables, Becomes(x, t),
         faults' \in 0 .. MaxFaults
  PROVE  ReadInv'
<1>1. /\ mem' = mem /\ head' = head /\ deletion' = deletion /\ receipts' = receipts
      /\ claim' = claim /\ held' = held /\ index' = index /\ stray' = stray
      /\ Ledger' = Ledger
  BY DEF SameTables, Ledger
<1>2. task'[x] = t /\ \A y \in Tasks \ {x} : task'[y] = task[y]
  BY OthersStay DEF Becomes
<1>3. TablesOK'
  BY <1>1 DEF ReadInv, TablesOK
<1>4. Frame(x)
  BY <1>1, <1>2 DEF Frame, Undisturbed, KeepsCurrent, Uncommitted, NewVectors
<1>5. Names(x)
  <2>1. \A r : Named(r)' = Named(r)
    BY <1>1 DEF Named
  <2>. QED BY <1>1, <1>2, <2>1 DEF Names, Becomes, Publishing, Reporting
<1>6. Knows(x)'
  <2>1. ClaimsOK(x, t)' /\ ReadsOK(t)' /\ SeesOK(t)'
    BY <1>1 DEF Becomes, ClaimsOK, ReadsOK, SeesOK, Past, Current
  <2>. QED BY <1>2, <2>1 DEF Knows
<1>. QED BY <1>3, <1>4, <1>5, <1>6, StepKeeps

\* A task that holds no page has no claims.
LEMMA NoClaims ==
  ASSUME ReadInv, NEW x \in Tasks, task[x].pc \notin Holding
  PROVE  task[x].mine = {} /\ \A r \in Versions : claim[r] # x
  BY OwnFields DEF ClaimsOK

\* A task that has claimed nothing, wherever it goes on
LEMMA FreeClaims ==
  ASSUME NEW x, NEW t, t.mine = {}, t.pub \subseteq t.rows,
         \A r \in Versions : claim[r] # x
  PROVE  ClaimsOK(x, t)
  BY DEF ClaimsOK

\* A task that has ended knows nothing, but that what it reported is readable.
Ends(t) ==
  /\ t.pc \in {"none", "start", "failed", "complete"}
  /\ t.mine = {} /\ t.pub \subseteq t.rows
  /\ t.rev \in Nat /\ t.rev <= mem.ver
  /\ t.pc = "complete" /\ t.got /\ Current(t.rev) => t.rev \in Ledger /\ t.rev \in index

LEMMA EndsOK ==
  ASSUME NEW t, Ends(t)
  PROVE  ReadsOK(t) /\ SeesOK(t)
  BY DEF Ends, ReadsOK, SeesOK, Publishers, Paging

LEMMA FailingEnds ==
  ASSUME ReadInv, NEW x \in Tasks
  PROVE  Ends(Failing(x))
<1>1. task[x] \in TaskRecords /\ mem.ver \in Nat
  BY OwnFields
<1>2. \A pc \in {"start", "failed"} : Ends([Ended(task[x]) EXCEPT !.pc = pc])
  BY <1>1 DEF Ended, NoTask, Ends
<1>3. Ends(NoTask)
  BY <1>1 DEF NoTask, Ends
<1>. QED BY <1>2, <1>3 DEF Failing

LEMMA ReturnEnds ==
  ASSUME ReadInv, NEW x \in Tasks, NEW answer \in BOOLEAN, Return(x, answer),
         answer /\ Current(task[x].rev) => task[x].rev \in Ledger /\ task[x].rev \in index
  PROVE  \E t \in TaskRecords : Ends(t) /\ task' = [task EXCEPT ![x] = t]
<1>1. CASE Throw(x)
  BY <1>1, FailingEnds, FailingOK DEF Throw, ReadInv
<1>2. CASE task' = [task EXCEPT ![x] =
                      [NoTask EXCEPT !.pc = "complete", !.rev = task[x].rev,
                                     !.got = answer]]
  <2>1. PICK t : t = [NoTask EXCEPT !.pc = "complete", !.rev = task[x].rev,
                                    !.got = answer]
    OBVIOUS
  <2>2. t \in TaskRecords
    BY <2>1, OwnFields DEF NoTask, TaskRecords, Places, Goals
  <2>3. Ends(t)
    BY <2>1, OwnFields DEF NoTask, Ends, TaskRecords, ReadsOK
  <2>. QED BY <1>2, <2>1, <2>2, <2>3
<1>. QED BY <1>1, <1>2 DEF Return

LEMMA QuietEnd ==
  ASSUME ReadInv, NEW x \in Tasks, NEW t, Inv', SameTables, faults' \in 0 .. MaxFaults,
         Ends(t), task' = [task EXCEPT ![x] = t],
         \A r \in Versions : claim[r] # x,
         Publishing(x) /\ task[x].rev \in index => Named(task[x].rev)
  PROVE  ReadInv'
<1>1. ClaimsOK(x, t)
  BY FreeClaims DEF Ends
<1>2. Becomes(x, t)
  BY <1>1, EndsOK DEF Becomes
<1>. QED BY <1>2, QuietStep

LEMMA QuietReturn ==
  ASSUME ReadInv, NEW x \in Tasks, Inv', SameTables, faults' = faults,
         NEW answer \in BOOLEAN, Return(x, answer),
         task[x].pc \notin Holding, ~Publishing(x),
         answer /\ Current(task[x].rev) => task[x].rev \in Ledger /\ task[x].rev \in index
  PROVE  ReadInv'
<1>1. PICK t \in TaskRecords : Ends(t) /\ task' = [task EXCEPT ![x] = t]
  BY ReturnEnds
<1>2. faults' \in 0 .. MaxFaults
  BY DEF ReadInv, TablesOK
<1>. QED BY <1>1, <1>2, NoClaims, QuietEnd

\* A throw where nothing is held and nothing was put into the index
LEMMA QuietThrow ==
  ASSUME ReadInv, NEW x \in Tasks, Inv', SameTables, faults' \in 0 .. MaxFaults,
         Throw(x), task[x].pc \notin Holding, ~Publishing(x)
  PROVE  ReadInv'
  BY FailingEnds, NoClaims, QuietEnd DEF Throw

\* One place follows another; what the task knows it goes on to know.
LEMMA QuietTo ==
  ASSUME ReadInv, NEW x \in Tasks, Inv', SameTables, faults' \in 0 .. MaxFaults,
         NEW pc \in Places \ {"complete", "upsertAgain", "confirm"}, To(x, pc),
         pc \in Holding \/ task[x].mine = {},
         pc = "finalize" => task[x].mine \cap index \subseteq stray,
         pc = "deleteHead" => task[x].rev \notin index \/ task[x].rev \in stray,
         pc \in Publishers => task[x].pc \in Publishers,
         pc \in {"upsert", "settle", "recheck", "commit"} =>
           task[x].pc \in {"upsert", "settle", "recheck", "commit"},
         pc \in {"invalidated", "deleted"} => Past(task[x].rev),
         pc \in Paging => task[x].pc \in Paging,
         Publishing(x) => pc \in Reporting
  PROVE  ReadInv'
<1>1. PICK t : t = [task[x] EXCEPT !.pc = pc]
  OBVIOUS
<1>2. /\ t.pc = pc /\ t.at = task[x].at /\ t.rev = task[x].rev /\ t.ver = task[x].ver
      /\ t.rows = task[x].rows /\ t.pub = task[x].pub /\ t.mine = task[x].mine
  BY <1>1, OwnFields DEF TaskRecords
<1>3. task' = [task EXCEPT ![x] = t]
  BY <1>1, OwnFields DEF To
<1>4. ClaimsOK(x, t)
  BY <1>2, OwnFields DEF ClaimsOK
<1>5. ReadsOK(t)
  BY <1>2, OwnFields DEF ReadsOK
<1>6. SeesOK(t)
  BY <1>2, OwnFields DEF SeesOK
<1>7. Becomes(x, t)
  BY <1>2, <1>3, <1>4, <1>5, <1>6 DEF Becomes, Reporting
<1>. QED BY <1>7, QuietStep

\* A task begins to drain the receipts.
LEMMA QuietDraining ==
  ASSUME ReadInv, NEW x \in Tasks, Inv', SameTables, faults' \in 0 .. MaxFaults,
         NEW u \in TaskRecords, NEW at \in Goals \ {"deleted"},
         task' = [task EXCEPT ![x] = Draining(u, at)],
         u.mine = {}, u.pub \subseteq u.rows, u.rev <= mem.ver,
         \A r \in Versions : claim[r] # x, ~Publishing(x),
         at = "published" /\ Current(u.rev) => u.rev \in Ledger /\ u.rev \in index
  PROVE  ReadInv'
<1>1. PICK t : t = Draining(u, at)
  OBVIOUS
<1>2. /\ t.pc = "scan" /\ t.at = at /\ t.rev = u.rev
      /\ t.rows = u.rows /\ t.pub = u.pub /\ t.mine = u.mine
  BY <1>1 DEF Draining, TaskRecords
<1>3. ClaimsOK(x, t)
  BY <1>2, FreeClaims
<1>4. ReadsOK(t)
  BY <1>2 DEF ReadsOK, Publishers, Paging
<1>5. SeesOK(t)
  BY <1>2 DEF SeesOK
<1>6. Becomes(x, t)
  BY <1>1, <1>3, <1>4, <1>5 DEF Becomes
<1>. QED BY <1>6, QuietStep

LEMMA RequestQuiet ==
  ASSUME ReadInv, NEW x \in Tasks, Inv', RequestRebuild(x)
  PROVE  ReadInv'
<1>1. SameTables /\ faults' \in 0 .. MaxFaults
  BY DEF RequestRebuild, SameTables, db, ReadInv, TablesOK
<1>2. task[x].pc = "none" /\ ~Publishing(x) /\ \A r \in Versions : claim[r] # x
  BY NoClaims DEF RequestRebuild, Publishing, Holding
<1>3. task[x].mine = {}
  BY <1>2, NoClaims DEF Holding
<1>4. CASE task' = [task EXCEPT ![x] = [@ EXCEPT
               !.pc = "start", !.mode = "search", !.want = mem.rev, !.asked = mem.ver]]
  <2>1. PICK t : t = [task[x] EXCEPT
               !.pc = "start", !.mode = "search", !.want = mem.rev, !.asked = mem.ver]
    OBVIOUS
  <2>2. Ends(t)
    BY <1>3, <2>1, OwnFields DEF TaskRecords, Ends, ClaimsOK, ReadsOK
  <2>3. task' = [task EXCEPT ![x] = t]
    BY <1>4, <2>1, OwnFields
  <2>. QED BY <1>1, <1>2, <2>2, <2>3, QuietEnd
<1>5. ASSUME NEW h \in head,
             task' = [task EXCEPT ![x] = [@ EXCEPT
               !.pc = "start", !.mode = "delete", !.want = h.rev,
               !.wantVer = h.ver, !.asked = mem.ver]]
      PROVE  ReadInv'
  <2>1. PICK t : t = [task[x] EXCEPT
               !.pc = "start", !.mode = "delete", !.want = h.rev,
               !.wantVer = h.ver, !.asked = mem.ver]
    OBVIOUS
  <2>2. Ends(t)
    BY <1>3, <2>1, OwnFields DEF TaskRecords, Ends, ClaimsOK, ReadsOK
  <2>3. task' = [task EXCEPT ![x] = t]
    BY <1>5, <2>1, OwnFields
  <2>. QED BY <1>1, <1>2, <2>2, <2>3, QuietEnd
<1>. QED BY <1>4, <1>5 DEF RequestRebuild

LEMMA StartQuiet ==
  ASSUME ReadInv, NEW x \in Tasks, Inv', Start(x)
  PROVE  ReadInv'
<1>1. SameTables /\ faults' \in 0 .. MaxFaults
  BY DEF Start, SameTables, db, ReadInv, TablesOK
<1>2. task[x].pc = "start" /\ ~Publishing(x) /\ \A r \in Versions : claim[r] # x
  BY NoClaims DEF Start, Publishing, Holding
<1>3. PICK t : t = [task[x] EXCEPT !.tries = @ + 1]
  OBVIOUS
<1>4. /\ t \in TaskRecords /\ t.pc = "start"
      /\ t.mine = {} /\ t.pub \subseteq t.rows /\ t.rev <= mem.ver
      /\ t.mode = "delete" => Past(t.want)
  BY <1>2, <1>3, NoClaims, OwnFields DEF TaskRecords, Holding, ClaimsOK, ReadsOK, TaskOK
<1>5. ASSUME NEW pc \in {"start", "failed"},
             task' = [task EXCEPT ![x] = [t EXCEPT !.pc = pc]]
      PROVE  ReadInv'
  <2>1. Ends([t EXCEPT !.pc = pc])
    BY <1>4 DEF TaskRecords, Ends
  <2>. QED BY <1>1, <1>2, <1>5, <2>1, QuietEnd
<1>6. ASSUME t.mode = "delete",
             task' = [task EXCEPT ![x] =
               Draining([t EXCEPT !.rev = t.want, !.ver = t.wantVer], "deleteLook")]
      PROVE  ReadInv'
  <2>1. PICK u : u = [t EXCEPT !.rev = t.want, !.ver = t.wantVer]
    OBVIOUS
  <2>2. u \in TaskRecords /\ u.mine = {} /\ u.pub \subseteq u.rows /\ u.rev <= mem.ver
    BY <1>4, <1>6, <2>1 DEF TaskRecords, Past
  <2>3. task' = [task EXCEPT ![x] = Draining(u, "deleteLook")]
    BY <1>6, <2>1
  <2>. QED BY <1>1, <1>2, <2>2, <2>3, QuietDraining DEF Goals
<1>7. ASSUME task' = [task EXCEPT ![x] = Draining(t, "read")]
      PROVE  ReadInv'
  BY <1>1, <1>2, <1>4, <1>7, QuietDraining DEF Goals
<1>. QED BY <1>3, <1>5, <1>6, <1>7 DEF Start

LEMMA SweepQuiet ==
  ASSUME ReadInv, NEW x \in Tasks, Inv', Sweep(x)
  PROVE  ReadInv'
<1>1. SameTables /\ faults' \in 0 .. MaxFaults
  BY DEF Sweep, SameTables, db, ReadInv, TablesOK
<1>2. task[x].pc = "none" /\ ~Publishing(x) /\ task[x].mine = {}
      /\ \A r \in Versions : claim[r] # x
  BY NoClaims DEF Sweep, Publishing, Holding
<1>3. task' = [task EXCEPT ![x] = Draining(task[x], "none")]
  BY OwnFields DEF Sweep, CleanTo
<1>4. task[x].pub \subseteq task[x].rows /\ task[x].rev <= mem.ver
  BY OwnFields DEF ClaimsOK, ReadsOK
<1>. QED BY <1>1, <1>2, <1>3, <1>4, OwnFields, QuietDraining DEF Goals

LEMMA ScanQuiet ==
  ASSUME ReadInv, NEW x \in Tasks, Inv', Scan(x)
  PROVE  ReadInv'
<1>1. SameTables /\ faults' = faults /\ faults' \in 0 .. MaxFaults
  BY DEF Scan, SameTables, db, ReadInv, TablesOK
<1>2. task[x].pc = "scan" /\ ~Publishing(x) /\ task[x].mine = {}
      /\ task[x].pc \notin Holding /\ \A r \in Versions : claim[r] # x
  BY NoClaims DEF Scan, Publishing, Holding
<1>3. ASSUME Resume(x)
      PROVE  ReadInv'
  <2>1. CASE task[x].at = "published"
    <3>1. Return(x, TRUE)
      BY <1>3, <2>1 DEF Resume
    <3>2. Current(task[x].rev) => task[x].rev \in Ledger /\ task[x].rev \in index
      BY <1>2, <2>1, OwnFields DEF SeesOK, Paging
    <3>. QED BY <1>1, <1>2, <3>1, <3>2, QuietReturn
  <2>2. CASE task[x].at = "refused"
    <3>1. Return(x, FALSE)
      BY <1>3, <2>2 DEF Resume
    <3>. QED BY <1>1, <1>2, <3>1, QuietReturn
  <2>3. CASE task[x].at = "rethrow"
    <3>1. Throw(x)
      BY <1>3, <2>3 DEF Resume
    <3>. QED BY <1>1, <1>2, <3>1, QuietThrow
  <2>4. CASE task[x].at \in {"none", "read", "deleteLook", "deleted"}
    <3>1. PICK t : t = [task[x] EXCEPT !.pc = task[x].at, !.at = "none", !.prev = {}]
      OBVIOUS
    <3>2. /\ t.pc = task[x].at /\ t.rev = task[x].rev
          /\ t.mine = {} /\ t.pub = task[x].pub /\ t.rows = task[x].rows
      BY <1>2, <3>1, OwnFields DEF TaskRecords
    <3>3. task' = [task EXCEPT ![x] = t]
      BY <1>3, <2>4, <3>1, OwnFields DEF Resume
    <3>4. ClaimsOK(x, t)
      BY <1>2, <3>2, FreeClaims, OwnFields DEF ClaimsOK
    <3>5. ReadsOK(t)
      BY <1>2, <2>4, <3>2, OwnFields DEF ReadsOK, Publishers, Paging
    <3>6. SeesOK(t)
      BY <2>4, <3>2 DEF SeesOK, Paging
    <3>7. Becomes(x, t)
      BY <1>2, <3>3, <3>4, <3>5, <3>6 DEF Becomes
    <3>. QED BY <1>1, <3>7, QuietStep
  <2>. QED BY <2>1, <2>2, <2>3, <2>4, OwnFields DEF TaskRecords, Goals
<1>4. ASSUME task' = [task EXCEPT ![x] = [@ EXCEPT
               !.pc = "claim", !.rows = receipts, !.pub = receipts \cap Ledger]]
      PROVE  ReadInv'
  <2>1. PICK t : t = [task[x] EXCEPT
               !.pc = "claim", !.rows = receipts, !.pub = receipts \cap Ledger]
    OBVIOUS
  <2>2. /\ t.pc = "claim" /\ t.rev = task[x].rev /\ t.at = task[x].at
        /\ t.mine = {} /\ t.pub \subseteq t.rows
    BY <1>2, <2>1, OwnFields DEF TaskRecords
  <2>3. ClaimsOK(x, t)
    BY <1>2, <2>2, FreeClaims
  <2>4. ReadsOK(t) /\ SeesOK(t)
    BY <1>2, <2>2, OwnFields DEF ReadsOK, SeesOK, Publishers, Paging
  <2>5. task' = [task EXCEPT ![x] = t]
    BY <1>4, <2>1, OwnFields
  <2>6. Becomes(x, t)
    BY <1>2, <2>3, <2>4, <2>5 DEF Becomes
  <2>. QED BY <1>1, <2>6, QuietStep
<1>. QED BY <1>3, <1>4 DEF Scan

LEMMA ReadQuiet ==
  ASSUME ReadInv, NEW x \in Tasks, Inv', Read(x)
  PROVE  ReadInv'
<1>1. SameTables /\ faults' \in 0 .. MaxFaults
  BY DEF Read, SameTables, db, ReadInv, TablesOK
<1>2. task[x].pc = "read" /\ ~Publishing(x) /\ task[x].mine = {}
      /\ \A r \in Versions : claim[r] # x
  BY NoClaims DEF Read, Publishing, Holding
<1>3. PICK t : t = [task[x] EXCEPT
              !.rev = mem.rev, !.ver = mem.ver,
              !.pc = IF mem.active THEN "upsert" ELSE "invalidated"]
  OBVIOUS
<1>4. /\ t.rev = mem.rev /\ t.ver = mem.ver
      /\ t.pc = IF mem.active THEN "upsert" ELSE "invalidated"
      /\ t.mine = {} /\ t.pub = task[x].pub /\ t.rows = task[x].rows
  BY <1>2, <1>3, OwnFields DEF TaskRecords
<1>5. task' = [task EXCEPT ![x] = t]
  BY <1>3, OwnFields DEF Read
<1>6. ClaimsOK(x, t)
  BY <1>2, <1>4, FreeClaims, OwnFields DEF ClaimsOK
<1>7. ReadsOK(t)
  BY <1>4, OwnFields DEF ReadsOK, Publishers, Paging, Past, ReadInv, TablesOK
<1>8. SeesOK(t)
  BY <1>4 DEF SeesOK, Paging
<1>9. Becomes(x, t)
  BY <1>2, <1>5, <1>6, <1>7, <1>8 DEF Becomes
<1>. QED BY <1>1, <1>9, QuietStep

LEMMA InvalidatedQuiet ==
  ASSUME ReadInv, NEW x \in Tasks, Inv', Invalidated(x)
  PROVE  ReadInv'
<1>1. SameTables /\ faults' = faults /\ faults' \in 0 .. MaxFaults
  BY DEF Invalidated, SameTables, db, ReadInv, TablesOK
<1>2. task[x].pc = "invalidated" /\ ~Publishing(x) /\ task[x].mine = {}
      /\ task[x].pc \notin Holding /\ \A r \in Versions : claim[r] # x
  BY NoClaims DEF Invalidated, Publishing, Holding
<1>3. ~Current(task[x].rev)
  BY <1>2, OwnFields DEF ReadsOK, Past, Current
<1>4. CASE Return(x, TRUE) \/ Return(x, FALSE)
  BY <1>1, <1>2, <1>3, <1>4, QuietReturn
<1>5. ASSUME NEW h \in head,
             task' = [task EXCEPT ![x] =
                        Draining([@ EXCEPT !.rev = h.rev, !.ver = h.ver], "deleteLook")]
      PROVE  ReadInv'
  <2>1. h.rev \in Nat /\ h.ver \in Nat /\ h.rev <= mem.ver
    BY OwnFields DEF ReadInv, Inv, HeadOK, Types, Rows
  <2>2. PICK u : u = [task[x] EXCEPT !.rev = h.rev, !.ver = h.ver]
    OBVIOUS
  <2>3. u \in TaskRecords /\ u.rev = h.rev /\ u.mine = task[x].mine
        /\ u.pub = task[x].pub /\ u.rows = task[x].rows
    BY <2>1, <2>2, OwnFields DEF TaskRecords
  <2>4. u.mine = {} /\ u.pub \subseteq u.rows /\ u.rev <= mem.ver
    BY <1>2, <2>1, <2>3, OwnFields DEF ClaimsOK
  <2>5. task' = [task EXCEPT ![x] = Draining(u, "deleteLook")]
    BY <1>5, <2>2, OwnFields
  <2>. QED BY <1>1, <1>2, <2>3, <2>4, <2>5, QuietDraining DEF Goals
<1>. QED BY <1>4, <1>5 DEF Invalidated

\* Looking at the deletion receipt before the vectors go, and at the head after
LEMMA DeletionQuiet ==
  ASSUME ReadInv, NEW x \in Tasks, Inv', DeleteLook(x) \/ DeleteHold(x) \/ Deleted(x)
  PROVE  ReadInv'
<1>1. SameTables /\ faults' = faults /\ faults' \in 0 .. MaxFaults
  BY DEF DeleteLook, DeleteHold, Deleted, SameTables, db, ReadInv, TablesOK
<1>2. task[x].pc \in {"deleteLook", "deleteHold", "deleted"}
  BY DEF DeleteLook, DeleteHold, Deleted
<1>3. ~Publishing(x) /\ task[x].mine = {} /\ task[x].pc \notin Holding
  BY <1>2, NoClaims DEF Publishing, Holding
<1>4. ~Current(task[x].rev)
  BY <1>2, OwnFields DEF TaskOK, ReadsOK, Deletions, Past, Current
<1>5. \/ To(x, "deleteVectors") \/ To(x, "deleteClaim")
      \/ \E answer \in BOOLEAN : Return(x, answer)
  BY DEF DeleteLook, DeleteHold, Deleted
<1>6. CASE To(x, "deleteVectors") \/ To(x, "deleteClaim")
  BY <1>1, <1>3, <1>6, QuietTo DEF Places, Publishers, Paging
<1>7. CASE \E answer \in BOOLEAN : Return(x, answer)
  BY <1>1, <1>3, <1>4, <1>7, QuietReturn
<1>. QED BY <1>5, <1>6, <1>7

-----------------------------------------------------------------------------
(* Deletions *)

\* Steps that leave the claims alone, and whose task goes on with its page of
\* receipts, if it has any.
LEMMA SameClaims ==
  ASSUME ReadInv, NEW x \in Tasks, NEW t, Ledger' \subseteq Ledger, claim' = claim,
         t.rows = task[x].rows, t.pub = task[x].pub, t.mine = task[x].mine,
         t.pc \in Holding \/ t.mine = {}
  PROVE  ClaimsOK(x, t)'
  BY OwnFields DEF ClaimsOK

LEMMA ToFields ==
  ASSUME ReadInv, NEW x \in Tasks, NEW pc, To(x, pc)
  PROVE  \E t : /\ task' = [task EXCEPT ![x] = t] /\ task'[x] = t
                /\ \A y \in Tasks \ {x} : task'[y] = task[y]
                /\ t.pc = pc /\ t.at = task[x].at /\ t.rev = task[x].rev
                /\ t.ver = task[x].ver /\ t.rows = task[x].rows
                /\ t.pub = task[x].pub /\ t.mine = task[x].mine
<1>1. PICK t : t = [task[x] EXCEPT !.pc = pc]
  OBVIOUS
<1>2. task' = [task EXCEPT ![x] = t]
  BY <1>1, OwnFields DEF To
<1>3. /\ t.pc = pc /\ t.at = task[x].at /\ t.rev = task[x].rev
      /\ t.ver = task[x].ver /\ t.rows = task[x].rows
      /\ t.pub = task[x].pub /\ t.mine = task[x].mine
  BY <1>1, OwnFields DEF TaskRecords
<1>. QED BY <1>2, <1>3, OthersStay

LEMMA DeleteClaimKeeps ==
  ASSUME ReadInv, NEW x \in Tasks, Inv', DeleteClaim(x)
  PROVE  ReadInv'
<1>1. /\ mem' = mem /\ head' = head /\ receipts' = receipts /\ claim' = claim
      /\ held' = held /\ index' = index /\ stray' = stray /\ faults' = faults
      /\ Ledger' = Ledger
      /\ task[x].pc = "deleteClaim" /\ To(x, "deleteHold")
      /\ deletion' = deletion \/ (head = {Row(x)} /\ deletion' = {Row(x)})
  BY DEF DeleteClaim, Ledger
<1>2. PICK t : /\ task'[x] = t /\ \A y \in Tasks \ {x} : task'[y] = task[y]
               /\ t.pc = "deleteHold" /\ t.rev = task[x].rev /\ t.rows = task[x].rows
               /\ t.pub = task[x].pub /\ t.mine = task[x].mine
  BY <1>1, ToFields
<1>3. TablesOK'
  BY <1>1 DEF ReadInv, TablesOK
<1>4. Frame(x)
  BY <1>1, <1>2 DEF Frame, Undisturbed, KeepsCurrent, Uncommitted, NewVectors
<1>5. Names(x)
  <2>1. \A r : Named(r)' = Named(r)
    BY <1>1 DEF Named
  <2>. QED BY <1>1, <2>1 DEF Names, Publishing
<1>6. ClaimsOK(x, t)' /\ ReadsOK(t)' /\ SeesOK(t)'
  <2>1. t.mine = {}
    BY <1>1, <1>2, NoClaims DEF Holding
  <2>. QED BY <1>1, <1>2, <2>1, SameClaims, OwnFields
           DEF ReadsOK, SeesOK, Publishers, Paging
<1>. QED BY <1>2, <1>3, <1>4, <1>5, <1>6, StepKeeps DEF Knows

LEMMA DeleteVectorsKeeps ==
  ASSUME ReadInv, NEW x \in Tasks, Inv', DeleteVectors(x)
  PROVE  ReadInv'
<1>1. /\ mem' = mem /\ head' = head /\ deletion' = deletion /\ receipts' = receipts
      /\ claim' = claim /\ held' = held /\ stray' = stray /\ faults' = faults
      /\ Ledger' = Ledger
      /\ index' = index \ {task[x].rev}
      /\ task[x].pc = "deleteVectors" /\ To(x, "deleteVerify")
  BY DEF DeleteVectors, db, Ledger
<1>2. PICK t : /\ task'[x] = t /\ \A y \in Tasks \ {x} : task'[y] = task[y]
               /\ t.pc = "deleteVerify" /\ t.rev = task[x].rev /\ t.rows = task[x].rows
               /\ t.pub = task[x].pub /\ t.mine = task[x].mine
  BY <1>1, ToFields
<1>3. TablesOK'
  BY <1>1 DEF ReadInv, TablesOK
<1>4. ~Current(task[x].rev)
  BY <1>1, OwnFields DEF TaskOK, Deletions, Past, Current
<1>5. Frame(x)
  BY <1>1, <1>2, <1>4 DEF Frame, Undisturbed, KeepsCurrent, Uncommitted, NewVectors
<1>6. Names(x)
  <2>1. \A r : Named(r)' = Named(r)
    BY <1>1 DEF Named
  <2>. QED BY <1>1, <2>1 DEF Names, Publishing
<1>7. ClaimsOK(x, t)' /\ ReadsOK(t)' /\ SeesOK(t)'
  <2>1. t.mine = {}
    BY <1>1, <1>2, NoClaims DEF Holding
  <2>. QED BY <1>1, <1>2, <2>1, SameClaims, OwnFields
           DEF ReadsOK, SeesOK, Publishers, Paging
<1>. QED BY <1>2, <1>3, <1>5, <1>6, <1>7, StepKeeps DEF Knows

LEMMA DeleteVerifyQuiet ==
  ASSUME ReadInv, NEW x \in Tasks, Inv', DeleteVerify(x)
  PROVE  ReadInv'
<1>1. SameTables /\ faults' \in 0 .. MaxFaults
  BY SearchAssumption DEF DeleteVerify, SameTables, db, ReadInv, TablesOK
<1>2. task[x].pc = "deleteVerify" /\ ~Publishing(x) /\ task[x].mine = {}
      /\ task[x].pc \notin Holding
  BY NoClaims DEF DeleteVerify, Publishing, Holding
<1>3. CASE task[x].rev \notin index /\ To(x, "deleteHead")
  BY <1>1, <1>2, <1>3, QuietTo DEF Places, Publishers, Paging
<1>4. CASE Throw(x)
  BY <1>1, <1>2, <1>4, QuietThrow
<1>. QED BY <1>3, <1>4 DEF DeleteVerify

\* The head goes with its receipt, after its vectors: what came back meanwhile is
\* of a publisher that was late, and forgotten.
LEMMA DeleteHeadKeeps ==
  ASSUME ReadInv, NEW x \in Tasks, Inv', DeleteHead(x)
  PROVE  ReadInv'
<1>1. /\ mem' = mem /\ receipts' = receipts /\ claim' = claim
      /\ held' = held /\ index' = index /\ stray' = stray /\ faults' = faults
      /\ task[x].pc = "deleteHead"
      /\ faults' \in 0 .. MaxFaults
  BY DEF DeleteHead, ReadInv, TablesOK
<1>2. ~Publishing(x) /\ task[x].mine = {} /\ task[x].pc \notin Holding
      /\ \A r \in Versions : claim[r] # x
  BY <1>1, NoClaims DEF Publishing, Holding
<1>3. CASE Throw(x) /\ UNCHANGED <<head, deletion>>
  BY <1>1, <1>2, <1>3, QuietThrow DEF SameTables
<1>4. CASE /\ CleanTo(x, "deleted")
           /\ head' \in {head, head \ {Row(x)}}
           /\ deletion' \in {deletion, {}}
  <2>1. PICK t : t = Draining(task[x], "deleted")
    OBVIOUS
  <2>2. /\ t.pc = "scan" /\ t.at = "deleted" /\ t.rev = task[x].rev
        /\ t.rows = task[x].rows /\ t.pub = task[x].pub /\ t.mine = task[x].mine
    BY <2>1, OwnFields DEF Draining, TaskRecords
  <2>3. task'[x] = t /\ \A y \in Tasks \ {x} : task'[y] = task[y]
    BY <1>4, <2>1, OwnFields DEF CleanTo
  <2>4. TablesOK'
    BY <1>1, <1>4 DEF ReadInv, TablesOK
  <2>5. Ledger' \subseteq Ledger /\ \A r \in Ledger \ Ledger' : r = task[x].rev
    BY <1>4, RowFields DEF Ledger, ReadInv
  <2>6. ~Current(task[x].rev) /\ Past(task[x].rev)
    BY <1>1, OwnFields DEF TaskOK, Deletions, Past, Current
  <2>7. Frame(x)
    BY <1>1, <2>3, <2>5, <2>6
       DEF Frame, Undisturbed, KeepsCurrent, Uncommitted, NewVectors
  <2>8. Names(x)
    <3>1. task[x].rev \in index => task[x].rev \in stray
      BY <1>1, OwnFields DEF SeesOK
    <3>2. \A r \in index : Named(r) => Named(r)'
      BY <1>1, <2>5, <3>1 DEF Named
    <3>. QED BY <1>1, <1>2, <3>2 DEF Names
  <2>9. ClaimsOK(x, t)' /\ ReadsOK(t)' /\ SeesOK(t)'
    <3>1. ClaimsOK(x, t)'
      BY <1>1, <1>2, <2>2, <2>5, SameClaims
    <3>2. ReadsOK(t)' /\ SeesOK(t)'
      BY <1>1, <2>2, <2>6, OwnFields DEF ReadsOK, SeesOK, Publishers, Past
    <3>. QED BY <3>1, <3>2
  <2>. QED BY <2>3, <2>4, <2>7, <2>8, <2>9, StepKeeps DEF Knows
<1>. QED BY <1>3, <1>4 DEF DeleteHead

-----------------------------------------------------------------------------
(* Giving up *)

\* A task throws, dies or gives a page up: it has no claims any more, and what it
\* has upserted and not published is forgotten.
LEMMA GiveUp ==
  ASSUME ReadInv, NEW x \in Tasks, Inv', Throw(x),
         UNCHANGED <<mem, head, deletion, receipts, index>>,
         held' \subseteq receipts, faults' \in 0 .. MaxFaults,
         Abandon(x) \/ (stray' = stray /\ ~Publishing(x)),
         claim' \in [Versions -> Tasks \cup {Nobody, Dead, Expired}],
         \A r \in Versions : claim'[r] # x /\ (claim[r] = Nobody => claim'[r] = Nobody),
         \A r \in Versions, y \in Tasks \ {x} : claim'[r] = y <=> claim[r] = y
  PROVE  ReadInv'
<1>1. /\ mem' = mem /\ head' = head /\ deletion' = deletion /\ receipts' = receipts
      /\ index' = index /\ Ledger' = Ledger
  BY DEF Ledger
<1>2. PICK t : t = Failing(x)
  OBVIOUS
<1>3. task'[x] = t /\ (\A y \in Tasks \ {x} : task'[y] = task[y]) /\ Ends(t)
  BY <1>2, OthersStay, FailingEnds DEF Throw
<1>4. /\ stray \subseteq stray' /\ stray' \subseteq Versions
      /\ Publishing(x) => task[x].rev \in stray' \/ task[x].rev \in Ledger
  BY OwnFields DEF Abandon, Publishing, ReadInv, TablesOK, ReadsOK, Publishers
<1>5. TablesOK'
  BY <1>1, <1>4 DEF ReadInv, TablesOK
<1>6. Frame(x)
  BY <1>1, <1>3, <1>4 DEF Frame, Undisturbed, KeepsCurrent, Uncommitted, NewVectors
<1>7. Names(x)
  BY <1>1, <1>4 DEF Names, Named
<1>8. ClaimsOK(x, t)' /\ ReadsOK(t)' /\ SeesOK(t)'
  <2>1. ClaimsOK(x, t)'
    BY <1>3 DEF Ends, ClaimsOK
  <2>2. ReadsOK(t) /\ (t.pc # "complete" => SeesOK(t)')
    BY <1>3, EndsOK DEF Ends, SeesOK, Paging
  <2>3. t.pc # "complete"
    BY <1>2 DEF Failing, Ended, NoTask
  <2>. QED BY <1>1, <2>1, <2>2, <2>3 DEF ReadsOK, Past
<1>. QED BY <1>3, <1>5, <1>6, <1>7, <1>8, StepKeeps DEF Knows

LEMMA DieKeeps ==
  ASSUME ReadInv, NEW x \in Tasks, Inv', Die(x)
  PROVE  ReadInv'
<1>1. claim' = [r \in Versions |-> IF claim[r] = x THEN Dead ELSE claim[r]]
      /\ held' = held /\ faults' = faults + 1 /\ faults < MaxFaults
  BY DEF Die
<1>2. /\ claim \in [Versions -> Tasks \cup {Nobody, Dead, Expired}]
      /\ held \subseteq receipts /\ faults \in 0 .. MaxFaults
  BY DEF ReadInv, TablesOK
<1>3. x # Dead /\ x # Nobody /\ \A y \in Tasks : y # Dead
  BY SearchAssumption
<1>4. claim' \in [Versions -> Tasks \cup {Nobody, Dead, Expired}]
  BY <1>1, <1>2
<1>5. /\ \A r \in Versions : claim'[r] # x /\ (claim[r] = Nobody => claim'[r] = Nobody)
      /\ \A r \in Versions, y \in Tasks \ {x} : claim'[r] = y <=> claim[r] = y
  BY <1>1, <1>3
<1>6. faults' \in 0 .. MaxFaults
  BY <1>1, <1>2, SearchAssumption
<1>. QED BY <1>1, <1>2, <1>4, <1>5, <1>6, GiveUp DEF Die

LEMMA PageFailsKeeps ==
  ASSUME ReadInv, NEW x \in Tasks, Inv', PageFails(x), task[x].pc \in Holding,
         UNCHANGED <<mem, head, deletion, receipts, index, stray>>,
         faults' \in 0 .. MaxFaults
  PROVE  ReadInv'
<1>1. claim' = Freed(x) /\ held' \in {held, receipts} /\ Throw(x) /\ stray' = stray
  BY DEF PageFails
<1>2. /\ claim \in [Versions -> Tasks \cup {Nobody, Dead, Expired}]
      /\ held \subseteq receipts
  BY DEF ReadInv, TablesOK
<1>3. x # Nobody /\ \A y \in Tasks : y # Nobody
  BY SearchAssumption
<1>4. claim' \in [Versions -> Tasks \cup {Nobody, Dead, Expired}]
  BY <1>1, <1>2 DEF Freed
<1>5. /\ \A r \in Versions : claim'[r] # x /\ (claim[r] = Nobody => claim'[r] = Nobody)
      /\ \A r \in Versions, y \in Tasks \ {x} : claim'[r] = y <=> claim[r] = y
  BY <1>1, <1>3 DEF Freed
<1>6. ~Publishing(x) /\ held' \subseteq receipts
  BY <1>1, <1>2 DEF Publishing, Holding
<1>. QED BY <1>1, <1>4, <1>5, <1>6, GiveUp

-----------------------------------------------------------------------------
(* Publication *)

LEMMA UpsertKeeps ==
  ASSUME ReadInv, NEW x \in Tasks, Inv', Upsert(x)
  PROVE  ReadInv'
<1>1. /\ mem' = mem /\ head' = head /\ deletion' = deletion /\ receipts' = receipts
      /\ claim' = claim /\ held' = held /\ faults' = faults
      /\ Ledger' = Ledger
      /\ index' = index \cup {task[x].rev}
      /\ stray' = IF UnderCleanup(x) THEN stray \cup {task[x].rev} ELSE stray
      /\ \/ task[x].pc = "upsert" /\ To(x, "settle")
         \/ task[x].pc = "upsertAgain" /\ To(x, "confirm")
  BY DEF Upsert, db, Ledger
<1>2. PICK t : /\ task'[x] = t /\ \A y \in Tasks \ {x} : task'[y] = task[y]
               /\ t.rev = task[x].rev /\ t.rows = task[x].rows /\ t.ver = task[x].ver
               /\ t.pub = task[x].pub /\ t.mine = task[x].mine
               /\ \/ task[x].pc = "upsert" /\ t.pc = "settle"
                  \/ task[x].pc = "upsertAgain" /\ t.pc = "confirm"
  BY <1>1, ToFields
<1>3. task[x].rev \in Versions /\ task[x].ver \in Versions
  BY <1>1, OwnFields DEF ReadsOK, Publishers
<1>4. TablesOK'
  BY <1>1, <1>3 DEF ReadInv, TablesOK
<1>5. Frame(x)
  <2>1. NewVectors(x)
    BY <1>1 DEF NewVectors, UnderCleanup
  <2>. QED BY <1>1, <1>2, <2>1 DEF Frame, Undisturbed, KeepsCurrent, Uncommitted
<1>6. Names(x)
  <2>1. \A r : Named(r) => Named(r)'
    BY <1>1 DEF Named
  <2>2. ~Publishing(x)
    BY <1>1 DEF Publishing
  <2>3. task[x].pc = "upsert" => Publishing(x)'
    BY <1>2 DEF Publishing
  <2>4. ASSUME task[x].pc = "upsertAgain", NEW r, r = task[x].rev
        PROVE  Named(r)'
    <3>1. r \in Ledger \/ UnderCleanup(x)
      BY <2>4 DEF UnderCleanup
    <3>. QED BY <1>1, <2>4, <3>1 DEF Named
  <2>. QED BY <1>1, <1>2, <2>1, <2>2, <2>3, <2>4 DEF Names
<1>7. ClaimsOK(x, t)' /\ ReadsOK(t)' /\ SeesOK(t)'
  <2>1. t.mine = {}
    BY <1>1, <1>2, NoClaims DEF Holding
  <2>2. ClaimsOK(x, t)'
    BY <1>1, <1>2, <2>1, SameClaims
  <2>3. ReadsOK(t)'
    BY <1>1, <1>2, <1>3, OwnFields DEF ReadsOK, Paging
  <2>4. SeesOK(t)'
    BY <1>1, <1>2, OwnFields DEF SeesOK, Paging, Current
  <2>. QED BY <2>2, <2>3, <2>4
<1>. QED BY <1>2, <1>4, <1>5, <1>6, <1>7, StepKeeps DEF Knows

LEMMA SettleKeeps ==
  ASSUME ReadInv, NEW x \in Tasks, Inv', Settle(x)
  PROVE  ReadInv'
<1>1. /\ mem' = mem /\ head' = head /\ deletion' = deletion /\ receipts' = receipts
      /\ claim' = claim /\ held' = held /\ index' = index
      /\ task[x].pc \in {"settle", "confirm"}
      /\ faults' \in 0 .. MaxFaults
  BY SearchAssumption DEF Settle, db, ReadInv, TablesOK
<1>2. task[x].mine = {} /\ task[x].pc \notin Holding /\ \A r \in Versions : claim[r] # x
  BY <1>1, NoClaims DEF Holding
<1>3. CASE task[x].pc = "settle" /\ To(x, "recheck") /\ stray' = stray
  BY <1>1, <1>2, <1>3, QuietTo
     DEF SameTables, Places, Publishers, Paging, Reporting
<1>4. CASE /\ task[x].pc = "confirm" /\ CleanTo(x, "published") /\ stray' = stray
           /\ task[x].rev \in index
  <2>1. task' = [task EXCEPT ![x] = Draining(task[x], "published")]
    BY <1>4, OwnFields DEF CleanTo
  <2>2. ~Publishing(x)
    BY <1>4 DEF Publishing
  <2>3. Current(task[x].rev) => task[x].rev \in Ledger
    BY <1>4, OwnFields DEF SeesOK
  <2>4. task[x].pub \subseteq task[x].rows /\ task[x].rev <= mem.ver
    BY OwnFields DEF ClaimsOK, ReadsOK
  <2>. QED BY <1>1, <1>2, <1>4, <2>1, <2>2, <2>3, <2>4, OwnFields, QuietDraining
           DEF Goals, SameTables
<1>5. CASE Throw(x) /\ Abandon(x)
  <2>1. /\ claim \in [Versions -> Tasks \cup {Nobody, Dead, Expired}]
        /\ held \subseteq receipts
    BY DEF ReadInv, TablesOK
  <2>. QED BY <1>1, <1>2, <1>5, <2>1, GiveUp
<1>. QED BY <1>1, <1>3, <1>4, <1>5 DEF Settle

\* The publisher leaves receipts for what it has not published.
LEMMA UnpublishKeeps ==
  ASSUME ReadInv, NEW x \in Tasks, Inv', NEW at \in {"refused", "rethrow"},
         Unpublish(x, at), task[x].pc \in Publishers,
         UNCHANGED <<mem, head, deletion, claim, held, index, faults, stray>>
  PROVE  ReadInv'
<1>1. /\ mem' = mem /\ head' = head /\ deletion' = deletion /\ Ledger' = Ledger
      /\ claim' = claim /\ held' = held /\ index' = index /\ faults' = faults
      /\ stray' = stray /\ receipts' = receipts \cup ({task[x].rev} \ Ledger)
  BY DEF Unpublish, Ledger
<1>2. PICK t : t = Draining(task[x], at)
  OBVIOUS
<1>3. /\ t.pc = "scan" /\ t.at = at /\ t.rev = task[x].rev
      /\ t.rows = task[x].rows /\ t.pub = task[x].pub /\ t.mine = task[x].mine
  BY <1>2, OwnFields DEF Draining, TaskRecords
<1>4. task'[x] = t /\ \A y \in Tasks \ {x} : task'[y] = task[y]
  BY <1>2, OwnFields DEF CleanTo, Unpublish
<1>5. task[x].rev \in Versions
  BY OwnFields DEF ReadsOK
<1>6. TablesOK'
  BY <1>1, <1>5 DEF ReadInv, TablesOK
<1>7. Frame(x)
  BY <1>1, <1>4 DEF Frame, Undisturbed, KeepsCurrent, Uncommitted, NewVectors
<1>8. Names(x)
  BY <1>1 DEF Names, Named
<1>9. ClaimsOK(x, t)' /\ ReadsOK(t)' /\ SeesOK(t)'
  <2>1. t.mine = {}
    BY <1>3, NoClaims DEF Publishers, Holding
  <2>. QED BY <1>1, <1>3, <2>1, SameClaims, OwnFields DEF ReadsOK, SeesOK, Publishers
<1>. QED BY <1>4, <1>6, <1>7, <1>8, <1>9, StepKeeps DEF Knows

\* The batch makes its revision the projected one, and names what it retires.
LEMMA CommitKeeps ==
  ASSUME ReadInv, NEW x \in Tasks, Inv', task[x].pc = "commit",
         MayWrite(x), Commit(x), NEW pc \in {"upsertAgain", "withdraw"}, To(x, pc),
         UNCHANGED <<mem, deletion, claim, held, index, stray>>,
         faults' \in 0 .. MaxFaults
  PROVE  ReadInv'
<1>1. /\ mem' = mem /\ deletion' = deletion /\ claim' = claim /\ held' = held
      /\ index' = index /\ stray' = stray
      /\ head' = {Row(x)} /\ receipts' = receipts \cup Ledger
      /\ Ledger' = {task[x].rev}
  BY RowFields DEF Commit, Ledger, ReadInv
<1>2. PICK t : /\ task'[x] = t /\ \A y \in Tasks \ {x} : task'[y] = task[y]
               /\ t.pc = pc /\ t.rev = task[x].rev /\ t.ver = task[x].ver
               /\ t.rows = task[x].rows /\ t.pub = task[x].pub /\ t.mine = task[x].mine
  BY ToFields
<1>3. /\ task[x].rev \in Versions /\ task[x].ver \in Versions
      /\ task[x].ver >= mem.rev => task[x].rev = mem.rev
      /\ task[x].rev \notin receipts
      /\ \A h \in head : task[x].ver > h.ver \/ Row(x) = h
  BY OwnFields DEF ReadsOK, Publishers, MayWrite
<1>4. TablesOK'
  <2>1. Row(x) \in VersionRows
    BY <1>3 DEF Row, VersionRows
  <2>2. Ledger \subseteq Versions
    BY DEF Ledger, VersionRows, ReadInv, TablesOK
  <2>. QED BY <1>1, <2>1, <2>2 DEF ReadInv, TablesOK
<1>5. \A r \in Ledger : Current(r) => r = task[x].rev
  <2>1. ASSUME NEW h \in head, Current(h.rev)
        PROVE  h.rev = task[x].rev
    <3>1. CASE Row(x) = h
      BY <3>1, RowFields DEF ReadInv
    <3>2. CASE task[x].ver > h.ver
      <4>1. h.rev \in Nat /\ h.ver \in Nat /\ h.rev <= h.ver /\ task[x].ver \in Nat
            /\ mem.rev = h.rev
        BY <2>1, OwnFields DEF ReadInv, Inv, Types, HeadOK, Rows, TaskRecords, Current
      <4>. QED BY <1>3, <3>2, <4>1
    <3>. QED BY <1>3, <3>1, <3>2
  <2>. QED BY <2>1 DEF Ledger
<1>6. Frame(x)
  BY <1>1, <1>2, <1>3, <1>5 DEF Frame, Undisturbed, KeepsCurrent, Uncommitted, NewVectors
<1>7. Names(x)
  BY <1>1 DEF Names, Named
<1>8. ClaimsOK(x, t)' /\ ReadsOK(t)' /\ SeesOK(t)'
  <2>1. t.mine = {} /\ \A r \in Versions : claim[r] # x
    BY <1>2, NoClaims DEF Holding
  <2>2. ClaimsOK(x, t)'
    BY <1>1, <1>2, <2>1, OwnFields DEF ClaimsOK
  <2>3. ReadsOK(t)'
    BY <1>1, <1>2, <1>3, OwnFields DEF ReadsOK, Paging
  <2>4. SeesOK(t)'
    BY <1>1, <1>2 DEF SeesOK, Paging
  <2>. QED BY <2>2, <2>3, <2>4
<1>. QED BY <1>2, <1>4, <1>6, <1>7, <1>8, StepKeeps DEF Knows

LEMMA PublicationKeeps ==
  ASSUME ReadInv, NEW x \in Tasks, Inv', Publication(x)
  PROVE  ReadInv'
<1>1. CASE Read(x) \/ Invalidated(x) \/ Upsert(x) \/ Settle(x)
  BY <1>1, ReadQuiet, InvalidatedQuiet, UpsertKeeps, SettleKeeps
<1>2. CASE Recheck(x)
  <2>1. task[x].pc = "recheck" /\ task[x].mine = {} /\ faults' = faults
        /\ faults' \in 0 .. MaxFaults
    BY <1>2, NoClaims DEF Recheck, Holding, ReadInv, TablesOK
  <2>2. CASE To(x, "commit") /\ UNCHANGED receipts
    <3>1. SameTables
      BY <1>2, <2>2 DEF Recheck, SameTables
    <3>. QED BY <2>1, <2>2, <3>1, QuietTo DEF Places, Publishers, Paging, Reporting
  <2>3. CASE Unpublish(x, "refused")
    BY <1>2, <2>1, <2>3, UnpublishKeeps DEF Recheck, Publishers
  <2>. QED BY <1>2, <2>2, <2>3 DEF Recheck
<1>3. CASE CommitProjection(x) \/ CommitFails(x)
  <2>1. /\ task[x].pc = "commit" /\ task[x].mine = {} /\ faults' \in 0 .. MaxFaults
        /\ UNCHANGED <<mem, deletion, claim, held, index, stray>>
    BY <1>3, NoClaims, SearchAssumption
       DEF CommitProjection, CommitFails, Holding, ReadInv, TablesOK
  <2>2. CASE /\ MayWrite(x) /\ Commit(x)
             /\ To(x, "upsertAgain") \/ To(x, "withdraw")
    BY <2>1, <2>2, CommitKeeps
  <2>3. CASE /\ UNCHANGED <<head, receipts>>
             /\ To(x, "unpublish") \/ To(x, "withdraw")
    <3>1. SameTables
      BY <2>1, <2>3 DEF SameTables
    <3>. QED BY <2>1, <2>3, <3>1, QuietTo DEF Places, Publishers, Paging, Reporting
  <2>. QED BY <1>3, <2>2, <2>3 DEF CommitProjection, CommitFails
<1>4. CASE Withdraw(x)
  BY <1>4, UnpublishKeeps DEF Withdraw, Publishers
<1>. QED BY <1>1, <1>2, <1>3, <1>4 DEF Publication

-----------------------------------------------------------------------------
(* Pages *)

LEMMA ClaimKeeps ==
  ASSUME ReadInv, NEW x \in Tasks, Inv', Claim(x)
  PROVE  ReadInv'
<1>1. PICK mine : mine = {r \in task[x].rows \ task[x].pub :
                            r \in receipts /\ Claimable(r) /\ r \notin Ledger}
  OBVIOUS
<1>2. /\ mem' = mem /\ head' = head /\ deletion' = deletion /\ receipts' = receipts
      /\ held' = held /\ index' = index /\ stray' = stray /\ faults' = faults
      /\ Ledger' = Ledger
      /\ task[x].pc = "claim"
      /\ claim' = [r \in Versions |-> IF r \in mine THEN x ELSE claim[r]]
      /\ task' = [task EXCEPT ![x] = [task[x] EXCEPT
                    !.mine = mine, !.pc = IF mine = {} THEN "finalize" ELSE "check"]]
  BY <1>1, OwnFields DEF Claim, Ledger
<1>3. PICK t : t = [task[x] EXCEPT
                    !.mine = mine, !.pc = IF mine = {} THEN "finalize" ELSE "check"]
  OBVIOUS
<1>4. /\ t.pc = IF mine = {} THEN "finalize" ELSE "check"
      /\ t.at = task[x].at /\ t.rev = task[x].rev
      /\ t.rows = task[x].rows /\ t.pub = task[x].pub /\ t.mine = mine
  BY <1>3, OwnFields DEF TaskRecords
<1>5. task'[x] = t /\ \A y \in Tasks \ {x} : task'[y] = task[y]
  BY <1>2, <1>3, OwnFields
<1>6. /\ claim \in [Versions -> Tasks \cup {Nobody, Dead, Expired}]
      /\ receipts \subseteq Versions
      /\ \A r \in Versions : claim[r] # Nobody => r \in receipts
  BY DEF ReadInv, TablesOK
<1>7. /\ mine \subseteq receipts \cap task[x].rows
      /\ \A r \in mine : r \notin Ledger /\ claim[r] \in {Nobody, Expired}
  BY <1>1 DEF Claimable
<1>8. TablesOK'
  <2>1. claim' \in [Versions -> Tasks \cup {Nobody, Dead, Expired}]
    BY <1>2, <1>6
  <2>2. \A r \in Versions : claim'[r] # Nobody => r \in receipts
    BY <1>2, <1>6, <1>7
  <2>. QED BY <1>2, <2>1, <2>2 DEF ReadInv, TablesOK
<1>9. Frame(x)
  <2>1. ASSUME NEW y \in Tasks \ {x}, NEW r \in Versions
        PROVE  claim'[r] = y <=> claim[r] = y
    BY <1>2, <1>6, <1>7, SearchAssumption
  <2>. QED BY <1>2, <1>5, <2>1
           DEF Frame, Undisturbed, KeepsCurrent, Uncommitted, NewVectors
<1>10. Names(x)
  <2>1. \A r : Named(r)' = Named(r)
    BY <1>2 DEF Named
  <2>. QED BY <1>2, <2>1 DEF Names, Publishing
<1>11. ClaimsOK(x, t)' /\ ReadsOK(t)' /\ SeesOK(t)'
  <2>1. \A r \in Versions : claim[r] # x
    BY <1>2, NoClaims DEF Holding
  <2>2. ClaimsOK(x, t)'
    BY <1>2, <1>4, <1>6, <1>7, <2>1, OwnFields DEF ClaimsOK, Holding
  <2>3. ReadsOK(t)'
    BY <1>2, <1>4, OwnFields DEF ReadsOK, Publishers, Paging, Past
  <2>4. SeesOK(t)'
    BY <1>2, <1>4, OwnFields DEF SeesOK, Paging, Current
  <2>. QED BY <2>2, <2>3, <2>4
<1>. QED BY <1>5, <1>8, <1>9, <1>10, <1>11, StepKeeps DEF Knows

LEMMA CheckKeeps ==
  ASSUME ReadInv, NEW x \in Tasks, Inv', Check(x)
  PROVE  ReadInv'
<1>1. /\ mem' = mem /\ head' = head /\ deletion' = deletion /\ receipts' = receipts
      /\ index' = index /\ stray' = stray
      /\ faults' \in 0 .. MaxFaults /\ task[x].pc = "check" /\ ~Publishing(x)
  BY DEF Check, ReadInv, TablesOK, Publishing
<1>2. CASE To(x, "delete") /\ UNCHANGED <<claim, held>>
  BY <1>1, <1>2, QuietTo DEF SameTables, Places, Publishers, Paging, Holding
<1>3. CASE PageFails(x)
  BY <1>1, <1>3, PageFailsKeeps DEF Holding
<1>. QED BY <1>2, <1>3 DEF Check

\* The vectors that go are claimed, hence not published.
LEMMA DeleteKeeps ==
  ASSUME ReadInv, NEW x \in Tasks, Inv', Delete(x)
  PROVE  ReadInv'
<1>1. /\ mem' = mem /\ head' = head /\ deletion' = deletion /\ receipts' = receipts
      /\ claim' = claim /\ held' = held /\ stray' = stray /\ faults' = faults
      /\ Ledger' = Ledger
      /\ index' = index \ task[x].mine
      /\ task[x].pc = "delete" /\ To(x, "verify")
  BY DEF Delete, db, Ledger
<1>2. PICK t : /\ task'[x] = t /\ \A y \in Tasks \ {x} : task'[y] = task[y]
               /\ t.pc = "verify" /\ t.at = task[x].at
               /\ t.rev = task[x].rev /\ t.rows = task[x].rows
               /\ t.pub = task[x].pub /\ t.mine = task[x].mine
  BY <1>1, ToFields
<1>3. TablesOK'
  BY <1>1 DEF ReadInv, TablesOK
<1>4. \A r \in task[x].mine : r \notin Ledger
  BY OwnFields DEF ClaimsOK
<1>5. Frame(x)
  BY <1>1, <1>2, <1>4 DEF Frame, Undisturbed, KeepsCurrent, Uncommitted, NewVectors
<1>6. Names(x)
  <2>1. \A r : Named(r)' = Named(r)
    BY <1>1 DEF Named
  <2>. QED BY <1>1, <2>1 DEF Names, Publishing
<1>7. ClaimsOK(x, t)' /\ ReadsOK(t)' /\ SeesOK(t)'
  <2>1. ClaimsOK(x, t)'
    BY <1>1, <1>2, SameClaims DEF Holding
  <2>2. ReadsOK(t)'
    BY <1>1, <1>2, OwnFields DEF ReadsOK, Publishers, Paging, Past
  <2>3. SeesOK(t)'
    BY <1>1, <1>2, <1>4, OwnFields DEF SeesOK, Paging, Current
  <2>. QED BY <2>1, <2>2, <2>3
<1>. QED BY <1>2, <1>3, <1>5, <1>6, <1>7, StepKeeps DEF Knows

LEMMA VerifyKeeps ==
  ASSUME ReadInv, NEW x \in Tasks, Inv', Verify(x)
  PROVE  ReadInv'
<1>1. /\ mem' = mem /\ head' = head /\ deletion' = deletion /\ receipts' = receipts
      /\ index' = index /\ stray' = stray
      /\ faults' \in 0 .. MaxFaults /\ task[x].pc = "verify" /\ ~Publishing(x)
  BY SearchAssumption DEF Verify, ReadInv, TablesOK, Publishing
<1>2. CASE /\ To(x, "finalize") /\ UNCHANGED <<claim, held, faults>>
           /\ task[x].mine \cap index = {}
  BY <1>1, <1>2, QuietTo DEF SameTables, Places, Publishers, Paging, Holding
<1>3. CASE PageFails(x)
  BY <1>1, <1>3, PageFailsKeeps DEF Holding
<1>. QED BY <1>2, <1>3 DEF Verify

\* The receipts that go are of what is published, or of vectors that are gone or
\* were put back by a publisher that came late, and forgotten.
LEMMA FinalizeKeeps ==
  ASSUME ReadInv, NEW x \in Tasks, Inv', Finalize(x)
  PROVE  ReadInv'
<1>1. PICK gone : gone = {r \in task[x].rows \cap receipts : Finalizable(x, r)}
  OBVIOUS
<1>2. /\ mem' = mem /\ head' = head /\ deletion' = deletion
      /\ index' = index /\ stray' = stray /\ faults' = faults
      /\ Ledger' = Ledger
      /\ task[x].pc = "finalize"
      /\ receipts' = receipts \ gone /\ held' = held \ gone
      /\ claim' = [r \in Versions |-> IF r \in gone THEN Nobody ELSE Freed(x)[r]]
      /\ task' = [task EXCEPT ![x] =
           IF x \in Janitors THEN NoTask
           ELSE IF task[x].rows = task[x].prev THEN Failing(x)
           ELSE [[task[x] EXCEPT !.rows = {}, !.pub = {}, !.mine = {}]
                   EXCEPT !.pc = "scan", !.prev = task[x].rows]]
  BY <1>1 DEF Finalize, Ledger
<1>3. /\ \A r \in gone : r \in Ledger \/ r \in task[x].mine
      /\ \A r \in gone : claim[r] \in {Nobody, x}
  BY <1>1 DEF Finalizable
<1>4. /\ claim \in [Versions -> Tasks \cup {Nobody, Dead, Expired}]
      /\ held \subseteq receipts /\ receipts \subseteq Versions
      /\ \A r \in Versions : claim[r] # Nobody => r \in receipts
  BY DEF ReadInv, TablesOK
<1>5. \A r \in Versions :
        claim'[r] = IF r \in gone \/ claim[r] = x THEN Nobody ELSE claim[r]
  BY <1>2 DEF Freed
<1>6. x # Nobody /\ \A y \in Tasks : y # Nobody
  BY SearchAssumption
<1>7. TablesOK'
  <2>1. claim' \in [Versions -> Tasks \cup {Nobody, Dead, Expired}]
    BY <1>2, <1>4 DEF Freed
  <2>2. \A r \in Versions : claim'[r] # Nobody => r \in receipts'
    BY <1>2, <1>4, <1>5
  <2>3. held' \subseteq receipts' /\ receipts' \subseteq Versions
    BY <1>2, <1>4
  <2>. QED BY <1>2, <2>1, <2>2, <2>3 DEF ReadInv, TablesOK
<1>8. \A y \in Tasks \ {x} : task'[y] = task[y]
  BY <1>2, OwnFields
<1>9. Frame(x)
  <2>1. ASSUME NEW y \in Tasks \ {x}, NEW r \in Versions
        PROVE  claim'[r] = y <=> claim[r] = y
    BY <1>3, <1>5, <1>6
  <2>. QED BY <1>2, <1>8, <2>1
           DEF Frame, Undisturbed, KeepsCurrent, Uncommitted, NewVectors
<1>10. Names(x)
  <2>1. \A r \in index : r \in task[x].mine => r \in stray
    BY <1>2, OwnFields DEF SeesOK
  <2>2. \A r \in index : Named(r) => Named(r)'
    BY <1>2, <1>3, <2>1 DEF Named
  <2>3. ~Publishing(x)
    BY <1>2 DEF Publishing
  <2>. QED BY <1>2, <2>2, <2>3 DEF Names
<1>11. Knows(x)'
  <2>1. \A r \in Versions : claim'[r] # x
    BY <1>5, <1>6
  <2>2. ASSUME NEW t, Ends(t), t.pc # "complete", task' = [task EXCEPT ![x] = t]
        PROVE  Knows(x)'
    <3>1. ClaimsOK(x, t)'
      BY <2>1, <2>2 DEF Ends, ClaimsOK
    <3>2. ReadsOK(t)' /\ SeesOK(t)'
      BY <1>2, <2>2, EndsOK DEF Ends, ReadsOK, SeesOK, Paging, Past
    <3>3. task'[x] = t
      BY <2>2, OwnFields
    <3>. QED BY <3>1, <3>2, <3>3 DEF Knows
  <2>3. Ends(NoTask) /\ NoTask.pc # "complete"
    BY OwnFields DEF NoTask, Ends
  <2>4. Ends(Failing(x)) /\ Failing(x).pc # "complete"
    BY FailingEnds DEF Failing, Ended, NoTask
  <2>5. ASSUME task' = [task EXCEPT ![x] =
                 [[task[x] EXCEPT !.rows = {}, !.pub = {}, !.mine = {}]
                    EXCEPT !.pc = "scan", !.prev = task[x].rows]]
        PROVE  Knows(x)'
    <3>1. PICK t : t = [[task[x] EXCEPT !.rows = {}, !.pub = {}, !.mine = {}]
                          EXCEPT !.pc = "scan", !.prev = task[x].rows]
      OBVIOUS
    <3>2. /\ t.pc = "scan" /\ t.at = task[x].at /\ t.rev = task[x].rev
          /\ t.rows = {} /\ t.pub = {} /\ t.mine = {}
      BY <3>1, OwnFields DEF TaskRecords
    <3>3. task'[x] = t
      BY <2>5, <3>1, OwnFields
    <3>4. ClaimsOK(x, t)'
      BY <2>1, <3>2 DEF ClaimsOK
    <3>5. ReadsOK(t)'
      BY <1>2, <3>2, OwnFields DEF ReadsOK, Publishers, Paging, Past
    <3>6. SeesOK(t)'
      BY <1>2, <3>2, OwnFields DEF SeesOK, Paging, Current
    <3>. QED BY <3>3, <3>4, <3>5, <3>6 DEF Knows
  <2>. QED BY <1>2, <2>2, <2>3, <2>4, <2>5
<1>. QED BY <1>7, <1>9, <1>10, <1>11, StepKeeps

LEMMA PageKeeps ==
  ASSUME ReadInv, NEW x \in Tasks, Inv', Page(x)
  PROVE  ReadInv'
  BY ScanQuiet, ClaimKeeps, CheckKeeps, DeleteKeeps, VerifyKeeps, FinalizeKeeps DEF Page

-----------------------------------------------------------------------------
(* Mutations, and time *)

\* A mutation makes a revision that no task has read.
LEMMA AuthorityKeeps ==
  ASSUME ReadInv, Inv', Mutate \/ MutateOther
  PROVE  ReadInv'
<1>1. /\ head' = head /\ deletion' = deletion /\ receipts' = receipts
      /\ claim' = claim /\ held' = held /\ index' = index /\ stray' = stray
      /\ faults' = faults /\ Ledger' = Ledger
      /\ mem.ver < MaxVersion /\ mem'.ver = mem.ver + 1
      /\ \/ mem'.rev = mem.ver + 1
         \/ mem'.rev = mem.rev /\ mem'.active = mem.active
  BY DEF Mutate, MutateOther, db, Ledger, ReadInv, Inv, Types
<1>2. mem.ver \in Nat /\ mem.rev \in Nat /\ mem.rev <= mem.ver /\ mem.ver \in Versions
  BY DEF ReadInv, Inv, Types, TablesOK
<1>3. TablesOK'
  <2>1. mem'.ver \in Versions /\ mem'.rev \in Versions
    BY <1>1, <1>2, SearchAssumption DEF Versions, ReadInv, TablesOK
  <2>. QED BY <1>1, <2>1 DEF ReadInv, TablesOK
<1>4. ASSUME NEW t \in TaskRecords, TaskOK(t), NEW x \in Tasks,
             ClaimsOK(x, t), ReadsOK(t), SeesOK(t)
      PROVE  ClaimsOK(x, t)' /\ ReadsOK(t)' /\ SeesOK(t)'
  <2>1. ClaimsOK(x, t)'
    BY <1>1, <1>4 DEF ClaimsOK
  <2>2. t.rev <= mem.ver /\ t.rev \in Nat /\ t.ver \in Nat
    BY <1>4 DEF ReadsOK, TaskRecords
  <2>3. Past(t.rev) => Past(t.rev)'
    BY <1>1, <1>2, <2>2 DEF Past
  <2>4. ReadsOK(t)'
    BY <1>1, <1>2, <1>4, <2>2, <2>3 DEF ReadsOK, TaskOK
  <2>5. Current(t.rev)' => Current(t.rev)
    <3>1. mem'.rev = t.rev => mem'.rev # mem.ver + 1
      BY <1>2, <2>2
    <3>. QED BY <1>1, <3>1, Zenon DEF Current
  <2>6. SeesOK(t)'
    BY <1>1, <1>4, <2>5 DEF SeesOK
  <2>. QED BY <2>1, <2>4, <2>6
<1>5. ASSUME NEW y \in Tasks, task'[y] = task[y]
      PROVE  Knows(y)'
  BY <1>4, <1>5, OwnFields DEF Knows
<1>6. (\A y \in Tasks : Knows(y)') /\ \A y \in Tasks : Publishing(y) => task'[y] = task[y]
  <2>1. CASE task' = task
    BY <1>5, <2>1
  <2>2. ASSUME NEW w \in Workflows, task[w].pc = "none", To(w, "start")
        PROVE  (\A y \in Tasks : Knows(y)')
               /\ \A y \in Tasks : Publishing(y) => task'[y] = task[y]
    <3>1. w \in Tasks
      BY DEF Tasks
    <3>2. PICK t : t = [task[w] EXCEPT !.pc = "start"]
      OBVIOUS
    <3>3. /\ task'[w] = t /\ t \in TaskRecords /\ t.pc = "start"
          /\ t.mine = task[w].mine /\ t.pub = task[w].pub /\ t.rows = task[w].rows
          /\ t.rev = task[w].rev /\ t.mode = task[w].mode /\ t.want = task[w].want
      BY <2>2, <3>1, <3>2, OwnFields DEF To, TaskRecords, Places
    <3>4. \A y \in Tasks \ {w} : task'[y] = task[y]
      BY <2>2, <3>1, OwnFields DEF To
    <3>5. TaskOK(t)
      BY <3>1, <3>3, OwnFields DEF TaskOK, Paging, Deletions
    <3>6. ClaimsOK(w, t) /\ ReadsOK(t) /\ SeesOK(t)
      BY <2>2, <3>1, <3>3, OwnFields
         DEF ClaimsOK, ReadsOK, SeesOK, Holding, Publishers, Paging
    <3>7. Knows(w)'
      BY <1>4, <3>1, <3>3, <3>5, <3>6 DEF Knows
    <3>8. ~Publishing(w)
      BY <2>2 DEF Publishing
    <3>. QED BY <1>5, <3>4, <3>7, <3>8
  <2>. QED BY <2>1, <2>2 DEF Mutate, MutateOther
<1>7. Accounted'
  BY <1>1, <1>6 DEF ReadInv, Accounted, Named, Publishing
<1>. QED BY <1>3, <1>6, <1>7 DEF ReadInv

\* Backoffs pass, claims of the dead expire, and stuttering steps.
LEMMA TimeKeeps ==
  ASSUME ReadInv, Inv', BackoffPasses \/ Expire \/ UNCHANGED vars
  PROVE  ReadInv'
<1>1. /\ mem' = mem /\ head' = head /\ deletion' = deletion /\ receipts' = receipts
      /\ index' = index /\ stray' = stray /\ task' = task /\ faults' = faults
      /\ held' \in {held, {}}
      /\ claim' \in {claim, [r \in Versions |-> IF claim[r] = Dead THEN Expired ELSE claim[r]]}
      /\ Ledger' = Ledger
  BY DEF BackoffPasses, Expire, vars, db, Ledger
<1>2. /\ claim \in [Versions -> Tasks \cup {Nobody, Dead, Expired}]
      /\ \A r \in Versions : claim[r] # Nobody => r \in receipts
  BY DEF ReadInv, TablesOK
<1>3. /\ claim' \in [Versions -> Tasks \cup {Nobody, Dead, Expired}]
      /\ \A r \in Versions : claim'[r] # Nobody => r \in receipts
      /\ \A r \in Versions, y \in Tasks : claim'[r] = y <=> claim[r] = y
  BY <1>1, <1>2, SearchAssumption
<1>4. TablesOK'
  BY <1>1, <1>3 DEF ReadInv, TablesOK
<1>5. ASSUME NEW y \in Tasks
      PROVE  Knows(y)'
  <2>1. PICK t : t = task[y]
    OBVIOUS
  <2>2. \A r \in t.mine : r \in Versions
    BY <2>1, OwnFields DEF ClaimsOK
  <2>3. ClaimsOK(y, t)'
    BY <1>1, <1>3, <2>1, <2>2, OwnFields DEF ClaimsOK
  <2>4. ReadsOK(t)' /\ SeesOK(t)'
    BY <1>1, <2>1, OwnFields DEF ReadsOK, SeesOK, Past, Current
  <2>. QED BY <1>1, <2>1, <2>3, <2>4 DEF Knows
<1>6. Accounted'
  BY <1>1 DEF ReadInv, Accounted, Named, Publishing
<1>. QED BY <1>4, <1>5, <1>6 DEF ReadInv

LEMMA InitReads == Init => ReadInv
<1> SUFFICES ASSUME Init PROVE ReadInv
  OBVIOUS
<1>1. Inv
  BY InitInv
<1>2. 1 \in Versions
  BY SearchAssumption DEF Versions
<1>3. TablesOK
  BY <1>2, SearchAssumption DEF Init, TablesOK
<1>4. ASSUME NEW x \in Tasks
      PROVE  Knows(x)
  <2>1. task[x] \in {NoTask, [NoTask EXCEPT !.pc = "start"]}
    BY DEF Init
  <2>2. Ends(task[x])
    BY <2>1 DEF NoTask, Ends, Init
  <2>3. \A r \in Versions : claim[r] # x
    BY SearchAssumption DEF Init
  <2>. QED BY <2>2, <2>3, EndsOK, FreeClaims DEF Knows, Ends
<1>5. Accounted
  BY DEF Init, Accounted
<1>. QED BY <1>1, <1>3, <1>4, <1>5 DEF ReadInv

LEMMA NextReads == ReadInv /\ [Next]_vars => ReadInv'
<1> SUFFICES ASSUME ReadInv, [Next]_vars PROVE ReadInv'
  OBVIOUS
<1>1. Inv'
  BY NextInv DEF ReadInv
<1>2. CASE Mutate \/ MutateOther
  BY <1>1, <1>2, AuthorityKeeps
<1>3. CASE BackoffPasses \/ Expire \/ UNCHANGED vars
  BY <1>1, <1>3, TimeKeeps
<1>4. ASSUME NEW x \in Tasks, RequestRebuild(x) \/ Step(x) \/ Die(x)
      PROVE  ReadInv'
  <2>1. CASE RequestRebuild(x) \/ Start(x) \/ Sweep(x) \/ Die(x)
    BY <1>1, <2>1, RequestQuiet, StartQuiet, SweepQuiet, DieKeeps
  <2>2. CASE Page(x) \/ Publication(x)
    BY <1>1, <2>2, PageKeeps, PublicationKeeps
  <2>3. CASE Deletion(x)
    BY <1>1, <2>3, DeletionQuiet, DeleteClaimKeeps, DeleteVectorsKeeps,
       DeleteVerifyQuiet, DeleteHeadKeeps DEF Deletion
  <2>. QED BY <1>4, <2>1, <2>2, <2>3 DEF Step
<1>. QED BY <1>2, <1>3, <1>4 DEF Next

LEMMA ReadInvariant == Spec => []ReadInv
<1>. QED BY InitReads, NextReads, PTL DEF Spec

\* A Workflow or rebuild that reported TRUE leaves its revision readable while it
\* is the current one: cleanups delete only vectors they have claimed, which no
\* batch publishes meanwhile, and deletions only revisions that are past.
THEOREM CompletionsStayReadable == Spec => []CompletionIsReadable
<1>1. ReadInv => CompletionIsReadable
  <2>1. \A x \in Workflows \cup Rebuilds : x \in Tasks
    BY DEF Tasks
  <2>. QED BY <2>1 DEF ReadInv, Knows, SeesOK, Current, CompletionIsReadable
<1>. QED BY <1>1, ReadInvariant, PTL

\* Every vector is named by the ledger or a receipt, or a publisher is about to
\* see to it; the ones that are forgotten are those of publishers that died, threw
\* or came late.
THEOREM NoVectorIsLost == Spec => []VectorsAreAccounted
<1>1. ASSUME NEW S, \A g, h \in S : g = h
      PROVE  Cardinality(S) <= 1
  <2>1. CASE S = {}
    BY <2>1, FS_EmptySet
  <2>2. CASE S # {}
    <3>1. PICK g : S = {g}
      BY <1>1, <2>2
    <3>. QED BY <3>1, FS_Singleton
  <2>. QED BY <2>1, <2>2
<1>2. ReadInv => TypeOK
  <2> SUFFICES ASSUME ReadInv PROVE TypeOK
    OBVIOUS
  <2>1. mem \in [ver : Versions, rev : Versions, active : BOOLEAN] /\ mem.rev <= mem.ver
    BY DEF ReadInv, Inv, Types, TablesOK
  <2>2. Cardinality(head) <= 1 /\ Cardinality(deletion) <= 1
    BY <1>1 DEF ReadInv, Inv, HeadOK, TablesOK
  <2>3. \A x \in Tasks : task[x].mine \cup task[x].pub \subseteq task[x].rows
    BY OwnFields DEF ClaimsOK
  <2>4. \A x \in Tasks, r \in Versions : claim[r] = x => r \in task[x].mine
    BY OwnFields DEF ClaimsOK
  <2>. QED BY <2>1, <2>2, <2>3, <2>4 DEF TypeOK, ReadInv, TablesOK, VersionRows
<1>3. ReadInv => VectorsAreAccounted
  BY <1>2 DEF ReadInv, Accounted, Named, VectorsAreAccounted
<1>. QED BY <1>3, ReadInvariant, PTL
=============================================================================
