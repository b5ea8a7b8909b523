------------------------ MODULE OutboxRecoveryProofs ------------------------
(***************************************************************************)
(* Proofs about OutboxRecovery, for any number of events, invocations,     *)
(* attempts and repairs.  The inductive invariant adds to the properties   *)
(* what a job knows: the instances before the one it looks at have failed, *)
(* and the outcome it is about to write is true and stays true, since a    *)
(* failed instance, a recorded end of a run and a fence are never undone.  *)
(***************************************************************************)
EXTENDS OutboxRecovery, TLAPS

\* What job j knows in a state with the kinds K, instances I, runs R, fence F.
JobFacts(j, K, I, R, F) ==
  /\ \A i \in Ids : i < j.id => I[j.event][i] = "errored"
  /\ j.pc = "record" => I[j.event][j.id] = "complete"
  /\ j.pc = "write" /\ j.task = "dispatch" =>
       /\ j.result \in {"ok", "fenced", "error", "recover", "give_up"}
       /\ j.result = "error" /\ K[j.event] = "rebuild" => j.attempt + 1 < MaxAttempts
  /\ j.result = "complete" => \E i \in Ids : R[j.event][i] = "complete"
  /\ j.result = "workflow_failed" => \E i \in Ids : R[j.event][i] = "failed"
  /\ j.result \in {"exhausted", "give_up"} => \A i \in Ids : I[j.event][i] = "errored"
  /\ j.result \in {"fenced", "unavailable"} => F

JobsOK == \A w \in Workers : job[w] # Idle => JobFacts(job[w], kind, inst, run, fenced)

\* A run record is ahead of its instance by at most one step.
RunsOK ==
  \A e \in Events : \A i \in Ids :
    /\ run[e][i] = "complete" => inst[e][i] \notin {"none", "queued", "running"}
    /\ run[e][i] = "failed" => inst[e][i] \in {"failed", "errored"}

Inv == TypeOK /\ SingleExecution /\ RunsOK /\ JobsOK /\ SettledTruthfully

\* What no step undoes
Monotone ==
  /\ kind' = kind
  /\ fenced => fenced'
  /\ \A e \in Events : \A i \in Ids :
       /\ inst[e][i] \in {"errored", "complete"} => inst'[e][i] = inst[e][i]
       /\ run[e][i] \in {"complete", "failed"} => run'[e][i] = run[e][i]

\* The job of w becomes a job whose knowledge is true.
JobMoves(w) ==
  \E n \in Job \cup {Idle} :
    /\ job' = [job EXCEPT ![w] = n]
    /\ n # Idle => JobFacts(n, kind', inst', run', fenced')

-----------------------------------------------------------------------------
\* A job's knowledge survives the steps of everyone else.
LEMMA FactsStay ==
  ASSUME TypeOK, Monotone, NEW j \in Job, JobFacts(j, kind, inst, run, fenced)
  PROVE  JobFacts(j, kind', inst', run', fenced')
<1>1. j.event \in Events /\ j.id \in Ids
  BY DEF Job
<1> QED
  BY <1>1 DEF Monotone, JobFacts

\* After a step that only moves the job of w, all jobs are well typed and know
\* only true things.
LEMMA JobsStay ==
  ASSUME TypeOK, JobsOK, Monotone, NEW w \in Workers, JobMoves(w)
  PROVE  job' \in [Workers -> Job \cup {Idle}] /\ JobsOK'
<1>1. PICK n \in Job \cup {Idle} :
        /\ job' = [job EXCEPT ![w] = n]
        /\ n # Idle => JobFacts(n, kind', inst', run', fenced')
  BY DEF JobMoves
<1>2. job' \in [Workers -> Job \cup {Idle}]
  BY <1>1 DEF TypeOK
<1>3. ASSUME NEW v \in Workers, job'[v] # Idle
      PROVE  JobFacts(job'[v], kind', inst', run', fenced')
  <2>1. CASE v = w
    BY <1>1, <1>3, <2>1 DEF TypeOK
  <2>2. CASE v # w
    <3>1. job'[v] = job[v] /\ job[v] \in Job
      BY <1>1, <1>3, <2>2 DEF TypeOK
    <3>2. JobFacts(job[v], kind, inst, run, fenced)
      BY <1>3, <3>1 DEF JobsOK
    <3> QED BY <3>1, <3>2, FactsStay
  <2> QED BY <2>1, <2>2
<1>4. JobsOK'
  BY <1>3 DEF JobsOK
<1> QED BY <1>2, <1>4

\* Nothing happens to the jobs.
LEMMA JobsUntouched ==
  ASSUME TypeOK, JobsOK, Monotone, job' = job
  PROVE  job' \in [Workers -> Job \cup {Idle}] /\ JobsOK'
<1>1. ASSUME NEW v \in Workers, job'[v] # Idle
      PROVE  JobFacts(job'[v], kind', inst', run', fenced')
  <2>1. job'[v] = job[v] /\ job[v] \in Job
    BY <1>1 DEF TypeOK
  <2>2. JobFacts(job[v], kind, inst, run, fenced)
    BY <1>1, <2>1 DEF JobsOK
  <2> QED BY <2>1, <2>2, FactsStay
<1>2. JobsOK'
  BY <1>1 DEF JobsOK
<1> QED BY <1>2 DEF TypeOK

\* Rows that are not written stay truthful.
LEMMA TruthStays ==
  ASSUME TypeOK, Monotone, SettledTruthfully, RunsOK', row' = row
  PROVE  SettledTruthfully'
<1> SUFFICES ASSUME NEW e \in Events
    PROVE /\ row[e].code = "complete" => \E i \in Ids : run'[e][i] = "complete"
          /\ row[e].code = "workflow_failed" => \E i \in Ids : run'[e][i] = "failed"
          /\ row[e].code = "exhausted" => \A i \in Ids : inst'[e][i] = "errored"
          /\ row[e].code = "dispatch_failed" /\ kind[e] = "rebuild" =>
               \A i \in Ids : inst'[e][i] = "errored"
          /\ row[e].code \in {"fenced", "unavailable"} => fenced'
  BY DEF SettledTruthfully, RunsOK, AllErrored, Monotone
<1> QED BY DEF SettledTruthfully, AllErrored, Monotone

-----------------------------------------------------------------------------
\* A job that goes on to its next await knows what it knew.
LEMMA GotoMoves ==
  ASSUME TypeOK, JobsOK, Monotone, NEW w \in Workers, job[w] # Idle,
         NEW pc \in {"readmit", "send", "create", "inspect", "observe", "record", "verify"},
         Goto(w, pc),
         pc = "record" => inst'[job[w].event][job[w].id] = "complete"
  PROVE  JobMoves(w)
<1> DEFINE n == [job[w] EXCEPT !.pc = pc]
<1>1. job[w] \in Job
  BY DEF TypeOK
<1>2. n \in Job /\ n.pc = pc /\ n.event = job[w].event /\ n.id = job[w].id
      /\ n.result = job[w].result
  BY <1>1 DEF Job
<1>3. job' = [job EXCEPT ![w] = n]
  BY DEF Goto
<1>4. JobFacts(job[w], kind', inst', run', fenced')
  BY <1>1, FactsStay DEF JobsOK
<1>5. JobFacts(n, kind', inst', run', fenced')
  BY <1>2, <1>4 DEF JobFacts
<1> QED BY <1>2, <1>3, <1>5 DEF JobMoves

\* An invocation that is done knows nothing.
LEMMA EndMoves ==
  ASSUME NEW w \in Workers, End(w)
  PROVE  JobMoves(w)
BY DEF End, JobMoves

\* What a job brings to its UPDATE
Outcomes ==
  {"ok", "error", "unknown", "active", "uncertain", "recover", "give_up"} \cup SettledCodes

\* A job reaches its UPDATE with an outcome that is true.
LEMMA OutcomeMoves ==
  ASSUME TypeOK, JobsOK, Monotone, NEW w \in Workers, job[w] # Idle,
         NEW r \in Outcomes,
         job' = [job EXCEPT ![w].pc = "write", ![w].result = r],
         job[w].task = "dispatch" =>
           /\ r \in {"ok", "fenced", "error", "recover", "give_up"}
           /\ r = "error" /\ kind[job[w].event] = "rebuild" => ~LastAttempt(w),
         r = "complete" => \E i \in Ids : run'[job[w].event][i] = "complete",
         r # "workflow_failed",
         r \in {"exhausted", "give_up"} => \A i \in Ids : inst'[job[w].event][i] = "errored",
         r \in {"fenced", "unavailable"} => fenced'
  PROVE  JobMoves(w)
<1> DEFINE n == [job[w] EXCEPT !.pc = "write", !.result = r]
<1>1. job[w] \in Job
  BY DEF TypeOK
<1>2. /\ n \in Job /\ n.pc = "write" /\ n.event = job[w].event /\ n.id = job[w].id
      /\ n.result = r /\ n.task = job[w].task /\ n.attempt = job[w].attempt
  BY <1>1 DEF Job, Outcomes
<1>3. job' = [job EXCEPT ![w] = n]
  OBVIOUS
<1>4. JobFacts(job[w], kind', inst', run', fenced')
  BY <1>1, FactsStay DEF JobsOK
<1>5. job[w].attempt \in Nat /\ MaxAttempts \in Nat /\ kind' = kind
  BY <1>1, ConstantsAssumption DEF Job, Monotone
<1>6. JobFacts(n, kind', inst', run', fenced')
  BY <1>2, <1>4, <1>5 DEF JobFacts, LastAttempt
<1> QED BY <1>2, <1>3, <1>6 DEF JobMoves

\* What follows the Workflow call is true, if its outcome is.
LEMMA ConcludeMoves ==
  ASSUME TypeOK, JobsOK, Monotone, NEW w \in Workers, job[w] # Idle,
         NEW r \in {"ok", "error", "unknown", "active", "unavailable", "complete", "exhausted"},
         Conclude(w, r),
         r = "complete" => \E i \in Ids : run'[job[w].event][i] = "complete",
         r = "exhausted" => \A i \in Ids : inst'[job[w].event][i] = "errored",
         r = "unavailable" => fenced'
  PROVE  JobMoves(w)
<1> DEFINE out == IF job[w].task = "dispatch" /\ r # "ok" THEN "error" ELSE r
<1>1. CASE End(w)
  BY <1>1, EndMoves
<1>2. CASE Goto(w, "verify")
  BY <1>2, GotoMoves
<1>3. CASE /\ job' = [job EXCEPT ![w].pc = "write", ![w].result = out]
           /\ ~(kind[job[w].event] = "rebuild" /\ job[w].task = "dispatch"
                  /\ r # "ok" /\ LastAttempt(w))
  <2>1. out \in Outcomes
    BY DEF Outcomes, SettledCodes
  <2>2. job[w].task = "dispatch" =>
           /\ out \in {"ok", "fenced", "error", "recover", "give_up"}
           /\ out = "error" /\ kind[job[w].event] = "rebuild" => ~LastAttempt(w)
    BY <1>3
  <2>3. /\ out = "complete" => \E i \in Ids : run'[job[w].event][i] = "complete"
        /\ out # "workflow_failed"
        /\ out \in {"exhausted", "give_up"} => \A i \in Ids : inst'[job[w].event][i] = "errored"
        /\ out \in {"fenced", "unavailable"} => fenced'
    OBVIOUS
  <2> QED BY <1>3, <2>1, <2>2, <2>3, OutcomeMoves
<1> QED BY <1>1, <1>2, <1>3 DEF Conclude

\* An ensured Workflow lets the job go on.
LEMMA EnsuredMoves ==
  ASSUME TypeOK, JobsOK, Monotone, NEW w \in Workers, job[w] # Idle, Ensured(w)
  PROVE  JobMoves(w) /\ queue' \in [Events -> 0..MaxMessages]
<1>1. job[w] \in Job
  BY DEF TypeOK
<1>2. queue' \in [Events -> 0..MaxMessages]
  BY <1>1, ConstantsAssumption DEF Ensured, TypeOK, Job
<1>3. JobMoves(w)
  BY GotoMoves, ConcludeMoves DEF Ensured
<1> QED BY <1>2, <1>3

\* A step that only moves one job, or a message, preserves the invariant.
LEMMA LocalStep ==
  ASSUME Inv, NEW w \in Workers, JobMoves(w), queue' \in [Events -> 0..MaxMessages],
         UNCHANGED <<kind, row, inst, run, latest, fenced>>
  PROVE  Inv'
<1>1. Monotone
  BY DEF Monotone
<1>2. job' \in [Workers -> Job \cup {Idle}] /\ JobsOK'
  BY <1>1, JobsStay DEF Inv
<1>3. TypeOK'
  BY <1>2 DEF Inv, TypeOK
<1>4. RunsOK' /\ SingleExecution'
  BY DEF Inv, RunsOK, SingleExecution
<1>5. SettledTruthfully'
  BY <1>1, <1>4, TruthStays DEF Inv
<1> QED BY <1>2, <1>3, <1>4, <1>5 DEF Inv

-----------------------------------------------------------------------------
\* A job that is taken up knows what its row already says.
LEMMA BeginMoves ==
  ASSUME TypeOK, NEW w \in Workers, NEW e \in Events,
         NEW task \in {"dispatch", "reconcile", "deliver", "ensure"},
         NEW pc \in {"admit", "write"}, NEW result \in {"none", "complete", "workflow_failed"},
         Begin(w, task, e, pc, result), task = "dispatch" => pc = "admit",
         UNCHANGED <<kind, inst, run, fenced>>,
         result = "complete" => \E i \in Ids : run[e][i] = "complete",
         result = "workflow_failed" => \E i \in Ids : run[e][i] = "failed"
  PROVE  JobMoves(w)
<1> DEFINE n == [task |-> task, event |-> e, pc |-> pc, result |-> result, id |-> 0,
                 attempt |-> row[e].attempt, fresh |-> TRUE]
<1>1. row[e].attempt \in Nat /\ 0 \in Ids /\ \A i \in Ids : ~(i < 0)
  BY ConstantsAssumption DEF TypeOK, Row, Ids
<1>2. n \in Job
  BY <1>1 DEF Job, SettledCodes
<1>3. JobFacts(n, kind', inst', run', fenced')
  BY <1>1 DEF JobFacts
<1>4. job' = [job EXCEPT ![w] = n]
  BY DEF Begin
<1> QED BY <1>2, <1>3, <1>4 DEF JobMoves

\* Taking up a row or a message
LEMMA SelectStep ==
  ASSUME Inv, NEW w \in Workers, NEW e \in Events, Select(w, e)
  PROVE  Inv'
<1> USE DEF Inv
<1>1. UNCHANGED <<kind, row, inst, run, latest, queue, fenced>>
  BY DEF Select, SelectDispatch, SelectReconcile, Deliver, Ensure
<1>2. queue' \in [Events -> 0..MaxMessages]
  BY <1>1 DEF TypeOK
<1> SUFFICES JobMoves(w)
  BY <1>1, <1>2, LocalStep DEF Inv
<1>3. CASE Begin(w, "dispatch", e, "admit", "none")
  BY <1>1, <1>3, BeginMoves
<1>4. CASE Begin(w, "deliver", e, "admit", "none")
  BY <1>1, <1>4, BeginMoves
<1>5. CASE Begin(w, "ensure", e, "admit", "none")
  BY <1>1, <1>5, BeginMoves
<1>6. CASE Begin(w, "reconcile", e, "admit", "none")
  BY <1>1, <1>6, BeginMoves
<1>7. LatestStatus(e) # "none" => \E i \in Ids : run[e][i] = LatestStatus(e)
  BY DEF LatestStatus, TypeOK
<1>8. CASE Begin(w, "reconcile", e, "write", "complete") /\ LatestStatus(e) = "complete"
  <2>1. \E i \in Ids : run[e][i] = "complete"
    BY <1>7, <1>8
  <2> QED BY <1>1, <1>8, <2>1, BeginMoves
<1>9. CASE Begin(w, "reconcile", e, "write", "workflow_failed") /\ LatestStatus(e) = "failed"
  <2>1. \E i \in Ids : run[e][i] = "failed"
    BY <1>7, <1>9
  <2> QED BY <1>1, <1>9, <2>1, BeginMoves
<1> QED
  BY <1>3, <1>4, <1>5, <1>6, <1>8, <1>9
     DEF Select, SelectDispatch, SelectReconcile, Deliver, Ensure

\* Every step of a job but the creation of an instance, the record of a
\* completion and the final UPDATE
LocalSteps(w) ==
  \/ Admit(w) \/ Readmit(w) \/ ReadFails(w) \/ Send(w) \/ SendFails(w)
  \/ CreateRefused(w) \/ Inspect(w) \/ InspectUnknown(w)
  \/ Observe(w) \/ ObserveUnknown(w)
  \/ Verify(w) \/ VerifyFails(w) \/ MarkerFails(w) \/ Crash(w)

LEMMA LocalStepsMove ==
  ASSUME Inv, NEW w \in Workers, LocalSteps(w)
  PROVE  JobMoves(w) /\ queue' \in [Events -> 0..MaxMessages]
         /\ UNCHANGED <<kind, row, inst, run, latest, fenced>>
<1> USE DEF Inv
<1>1. UNCHANGED <<kind, row, inst, run, latest, fenced>>
  BY DEF LocalSteps, Admit, Readmit, ReadFails, Send, SendFails, CreateRefused, Inspect,
         InspectUnknown, Observe, ObserveUnknown, Verify, VerifyFails, MarkerFails, Crash
<1> SUFFICES JobMoves(w) /\ queue' \in [Events -> 0..MaxMessages]
  BY <1>1
<1>2. Monotone
  BY <1>1 DEF Monotone
<1>3. queue \in [Events -> 0..MaxMessages]
  BY DEF TypeOK
<1>4. job[w] # Idle /\ job[w] \in Job
  BY DEF LocalSteps, Admit, Readmit, ReadFails, Send, SendFails, CreateRefused, Inspect,
         InspectUnknown, Observe, ObserveUnknown, Verify, VerifyFails, MarkerFails, Crash,
         At, TypeOK
<1>5. job[w].event \in Events /\ job[w].id \in Ids
  BY <1>4 DEF Job
<1>6. CASE Admit(w)
  <2>1. CASE ~fenced
    BY <1>2, <1>3, <1>4, <1>6, <2>1, GotoMoves DEF Admit
  <2>2. CASE fenced /\ End(w) /\ UNCHANGED queue
    BY <1>3, <2>2, EndMoves
  <2>3. CASE fenced /\ Ensured(w)
    BY <1>2, <1>4, <2>3, EnsuredMoves
  <2>4. CASE fenced /\ Conclude(w, "unavailable") /\ UNCHANGED queue
    BY <1>1, <1>2, <1>3, <1>4, <2>4, ConcludeMoves
  <2>5. CASE fenced /\ job' = [job EXCEPT ![w].pc = "write", ![w].result = "fenced"]
             /\ UNCHANGED queue
    <3>1. "fenced" \in Outcomes
      BY DEF Outcomes, SettledCodes
    <3>2. JobMoves(w)
      BY <1>1, <1>2, <1>4, <2>5, <3>1, OutcomeMoves
    <3> QED BY <1>3, <2>5, <3>2
  <2> QED BY <1>6, <2>1, <2>2, <2>3, <2>4, <2>5 DEF Admit
<1>7. CASE Readmit(w)
  BY <1>2, <1>3, <1>4, <1>7, GotoMoves, ConcludeMoves DEF Readmit
<1>8. CASE ReadFails(w)
  BY <1>2, <1>3, <1>4, <1>8, ConcludeMoves DEF ReadFails
<1>9. CASE Send(w)
  <2>1. queue' \in [Events -> 0..MaxMessages]
    BY <1>3, <1>5, <1>9, ConstantsAssumption DEF Send
  <2> QED BY <1>2, <1>4, <1>9, <2>1, ConcludeMoves DEF Send
<1>10. CASE SendFails(w)
  <2>1. queue' \in [Events -> 0..MaxMessages]
    BY <1>3, <1>5, <1>10, ConstantsAssumption DEF SendFails
  <2> QED BY <1>2, <1>4, <1>10, <2>1, ConcludeMoves DEF SendFails
<1>11. CASE CreateRefused(w)
  BY <1>2, <1>3, <1>4, <1>11, GotoMoves DEF CreateRefused
<1>12. CASE Inspect(w)
  <2>1. JobFacts(job[w], kind, inst, run, fenced)
    BY <1>4 DEF JobsOK
  <2>2. CASE Ensured(w)
    BY <1>2, <1>4, <2>2, EnsuredMoves
  <2> SUFFICES ASSUME ~Ensured(w)
               PROVE  JobMoves(w) /\ queue' \in [Events -> 0..MaxMessages]
    BY <2>2
  <2>3. inst[job[w].event][job[w].id] = "errored" /\ UNCHANGED queue
    BY <1>12 DEF Inspect, TerminalFailure
  <2>4. \A i \in Ids : i < job[w].id + 1 => inst[job[w].event][i] = "errored"
    BY <1>5, <2>1, <2>3, ConstantsAssumption DEF JobFacts, Ids
  <2>5. CASE RepairsLeft(job[w].id)
    <3> DEFINE n == [job[w] EXCEPT !.pc = "create", !.id = job[w].id + 1]
    <3>1. job' = [job EXCEPT ![w] = n]
      BY <1>12, <2>5 DEF Inspect, TerminalFailure
    <3>2. job[w].id + 1 \in Ids
      BY <1>5, <2>5, ConstantsAssumption DEF RepairsLeft, Ids
    <3>3. /\ n \in Job /\ n.pc = "create" /\ n.id = job[w].id + 1
          /\ n.event = job[w].event /\ n.result = job[w].result
      BY <1>4, <3>2 DEF Job
    <3>4. JobFacts(n, kind', inst', run', fenced')
      BY <1>1, <2>1, <2>4, <3>3 DEF JobFacts
    <3> QED BY <1>3, <2>3, <3>1, <3>3, <3>4 DEF JobMoves
  <2>6. CASE ~RepairsLeft(job[w].id)
    <3>1. Conclude(w, "exhausted")
      BY <1>12, <2>6 DEF Inspect
    <3>2. \A i \in Ids : i < job[w].id + 1
      BY <1>5, <2>6, ConstantsAssumption DEF RepairsLeft, Ids
    <3>3. \A i \in Ids : inst'[job[w].event][i] = "errored"
      BY <1>1, <2>4, <3>2
    <3> QED BY <1>2, <1>3, <1>4, <2>3, <3>1, <3>3, ConcludeMoves
  <2> QED BY <2>5, <2>6
<1>13. CASE InspectUnknown(w)
  BY <1>2, <1>3, <1>4, <1>13, ConcludeMoves DEF InspectUnknown
<1>14. CASE Observe(w)
  <2>1. CASE Goto(w, "record") /\ inst[job[w].event][job[w].id] = "complete"
    BY <1>1, <1>2, <1>3, <1>4, <1>14, <2>1, GotoMoves DEF Observe
  <2>2. CASE Goto(w, "verify")
    BY <1>2, <1>3, <1>4, <1>14, <2>2, GotoMoves DEF Observe
  <2>3. CASE Conclude(w, "active")
    BY <1>2, <1>3, <1>4, <1>14, <2>3, ConcludeMoves DEF Observe
  <2> QED BY <1>14, <2>1, <2>2, <2>3 DEF Observe
<1>15. CASE ObserveUnknown(w)
  BY <1>2, <1>3, <1>4, <1>15, ConcludeMoves DEF ObserveUnknown
<1>16. CASE Verify(w)
  <2>1. \A i \in Ids : inst'[job[w].event][i] = "errored"
    BY <1>1, <1>16 DEF Verify, Exhausted, AllErrored
  <2>2. CASE job[w].task = "dispatch"
    <3>1. job' = [job EXCEPT ![w].pc = "write", ![w].result = "give_up"]
      BY <1>16, <2>2 DEF Verify
    <3>2. "give_up" \in Outcomes
      BY DEF Outcomes, SettledCodes
    <3>3. JobMoves(w)
      BY <1>2, <1>4, <2>1, <3>1, <3>2, OutcomeMoves
    <3> QED BY <1>3, <1>16, <3>3 DEF Verify
  <2>3. CASE job[w].task # "dispatch"
    <3>1. job' = [job EXCEPT ![w].pc = "write", ![w].result = "exhausted"]
      BY <1>16, <2>3 DEF Verify
    <3>2. "exhausted" \in Outcomes
      BY DEF Outcomes, SettledCodes
    <3>3. JobMoves(w)
      BY <1>2, <1>4, <2>1, <2>3, <3>1, <3>2, OutcomeMoves
    <3> QED BY <1>3, <1>16, <3>3 DEF Verify
  <2> QED BY <2>2, <2>3
<1>17. CASE VerifyFails(w)
  <2>1. CASE job[w].task = "dispatch"
    <3>1. job' = [job EXCEPT ![w].pc = "write", ![w].result = "recover"]
      BY <1>17, <2>1 DEF VerifyFails
    <3>2. "recover" \in Outcomes
      BY DEF Outcomes, SettledCodes
    <3>3. JobMoves(w)
      BY <1>2, <1>4, <3>1, <3>2, OutcomeMoves
    <3> QED BY <1>3, <1>17, <3>3 DEF VerifyFails
  <2>2. CASE job[w].task # "dispatch"
    <3>1. job' = [job EXCEPT ![w].pc = "write", ![w].result = "uncertain"]
      BY <1>17, <2>2 DEF VerifyFails
    <3>2. "uncertain" \in Outcomes
      BY DEF Outcomes, SettledCodes
    <3>3. JobMoves(w)
      BY <1>2, <1>4, <2>2, <3>1, <3>2, OutcomeMoves
    <3> QED BY <1>3, <1>17, <3>3 DEF VerifyFails
  <2> QED BY <2>1, <2>2
<1>18. CASE MarkerFails(w)
  BY <1>2, <1>3, <1>4, <1>18, ConcludeMoves DEF MarkerFails
<1>19. CASE Crash(w)
  BY <1>3, <1>19, EndMoves DEF Crash
<1> QED
  BY <1>6, <1>7, <1>8, <1>9, <1>10, <1>11, <1>12, <1>13, <1>14, <1>15, <1>16,
     <1>17, <1>18, <1>19 DEF LocalSteps

-----------------------------------------------------------------------------
\* An instance that exists and has not ended may change its status: the order
\* of the instances of an event is kept.
LEMMA InstanceMoves ==
  ASSUME TypeOK, SingleExecution, NEW e \in Events, NEW i \in Ids,
         NEW s \in Live \cup {"complete", "errored"},
         inst[e][i] \in Live, SetInst(e, i, s)
  PROVE  /\ inst' \in [Events -> [Ids -> Live \cup {"none", "complete", "errored"}]]
         /\ SingleExecution'
         /\ \A f \in Events : \A k \in Ids :
              /\ inst[f][k] \in {"errored", "complete"} => inst'[f][k] = inst[f][k]
              /\ inst'[f][k] = "none" <=> inst[f][k] = "none"
<1>1. inst' = [inst EXCEPT ![e][i] = s]
  BY DEF SetInst
<1>2. inst' \in [Events -> [Ids -> Live \cup {"none", "complete", "errored"}]]
  BY <1>1 DEF TypeOK
<1>3. \A f \in Events : \A k \in Ids :
        inst'[f][k] = IF f = e /\ k = i THEN s ELSE inst[f][k]
  BY <1>1 DEF TypeOK
<1>4. \A f \in Events : \A k \in Ids :
        /\ inst[f][k] \in {"errored", "complete"} => inst'[f][k] = inst[f][k]
        /\ inst'[f][k] = "none" <=> inst[f][k] = "none"
  BY <1>3 DEF Live
<1>5. SingleExecution'
  BY <1>4 DEF SingleExecution
<1> QED BY <1>2, <1>4, <1>5

\* A step of an instance that keeps the run records honest preserves the
\* invariant.
LEMMA InstanceStep ==
  ASSUME Inv, NEW e \in Events, NEW i \in Ids,
         NEW s \in Live \cup {"complete", "errored"},
         inst[e][i] \in Live, SetInst(e, i, s),
         NEW r \in {"none", "running", "complete", "failed"},
         \/ UNCHANGED <<run, latest>> /\ r = run[e][i]
         \/ SetRun(e, i, r),
         run[e][i] \in {"complete", "failed"} => r = run[e][i],
         r = "complete" => s \notin {"queued", "running"},
         r = "failed" => s \in {"failed", "errored"},
         UNCHANGED <<kind, row, queue, fenced, job>>
  PROVE  Inv'
<1> USE DEF Inv
<1>1. /\ inst' \in [Events -> [Ids -> Live \cup {"none", "complete", "errored"}]]
      /\ SingleExecution'
      /\ \A f \in Events : \A k \in Ids :
           inst[f][k] \in {"errored", "complete"} => inst'[f][k] = inst[f][k]
  BY InstanceMoves
<1>2. /\ run' \in [Events -> [Ids -> {"none", "running", "complete", "failed"}]]
      /\ latest' \in [Events -> Ids \cup {NoRun}]
  <2>1. CASE UNCHANGED <<run, latest>>
    BY <2>1 DEF TypeOK
  <2>2. CASE SetRun(e, i, r)
    BY <2>2 DEF SetRun, TypeOK
  <2> QED BY <2>1, <2>2
<1>3. \A f \in Events : \A k \in Ids :
        /\ inst'[f][k] = IF f = e /\ k = i THEN s ELSE inst[f][k]
        /\ run'[f][k] = IF f = e /\ k = i THEN r ELSE run[f][k]
  BY DEF SetInst, SetRun, TypeOK
<1>4. Monotone
  BY <1>1, <1>3 DEF Monotone
<1>5. RunsOK'
  BY <1>3 DEF RunsOK, Live
<1>6. job' \in [Workers -> Job \cup {Idle}] /\ JobsOK'
  BY <1>4, JobsUntouched
<1>7. TypeOK'
  BY <1>1, <1>2, <1>6 DEF TypeOK
<1>8. SettledTruthfully'
  BY <1>4, <1>5, TruthStays
<1> QED BY <1>1, <1>5, <1>6, <1>7, <1>8

LEMMA RunStep ==
  ASSUME Inv, NEW e \in Events, NEW i \in Ids, Run(e, i)
  PROVE  Inv'
<1>1. /\ run[e][i] \in {"none", "running", "complete", "failed"}
      /\ run[e][i] = "complete" => inst[e][i] \notin {"none", "queued", "running"}
      /\ run[e][i] = "failed" => inst[e][i] \in {"failed", "errored"}
  BY DEF Inv, TypeOK, RunsOK
<1>2. CASE RunStarts(e, i)
  <2>1. CASE ~fenced
    BY <1>1, <1>2, <2>1, InstanceStep DEF RunStarts, Live
  <2>2. CASE fenced /\ kind[e] = "rebuild"
    BY <1>1, <1>2, <2>2, InstanceStep DEF RunStarts, Live
  <2>3. CASE fenced /\ kind[e] # "rebuild"
    BY <1>1, <1>2, <2>3, InstanceStep DEF RunStarts, Live
  <2> QED BY <2>1, <2>2, <2>3
<1>3. CASE RunRecordsCompletion(e, i)
  BY <1>1, <1>3, InstanceStep DEF RunRecordsCompletion, Live
<1>4. CASE RunFinishes(e, i)
  BY <1>1, <1>4, InstanceStep DEF RunFinishes, Live
<1>5. CASE RunThrows(e, i)
  BY <1>1, <1>5, InstanceStep DEF RunThrows, Live
<1>6. CASE RunRecordsFailure(e, i)
  <2>1. CASE run[e][i] = "complete"
    BY <1>1, <1>6, <2>1, InstanceStep DEF RunRecordsFailure, Live
  <2>2. CASE run[e][i] # "complete"
    BY <1>1, <1>6, <2>2, InstanceStep DEF RunRecordsFailure, Live
  <2> QED BY <2>1, <2>2
<1>7. CASE RunErrs(e, i)
  BY <1>1, <1>7, InstanceStep DEF RunErrs, Live
<1>8. CASE RunTerminated(e, i)
  BY <1>1, <1>8, InstanceStep DEF RunTerminated, Live
<1> QED
  BY <1>2, <1>3, <1>4, <1>5, <1>6, <1>7, <1>8 DEF Run

-----------------------------------------------------------------------------
\* The creation of an instance: the job knows that the earlier ones failed, and
\* a later one would contradict the order.
LEMMA CreateStep ==
  ASSUME Inv, NEW w \in Workers, Create(w)
  PROVE  Inv'
<1> USE DEF Inv
<1> DEFINE e == job[w].event
           i == job[w].id
<1>1. job[w] # Idle /\ job[w] \in Job /\ e \in Events /\ i \in Ids
  BY DEF Create, At, TypeOK, Job
<1>2. inst[e][i] = "none" /\ UNCHANGED <<kind, row, run, latest, fenced>>
  BY DEF Create
<1>3. \A f \in Events : \A k \in Ids :
        inst'[f][k] = IF f = e /\ k = i THEN "queued" ELSE inst[f][k]
  BY <1>1 DEF Create, TypeOK
<1>4. inst' \in [Events -> [Ids -> Live \cup {"none", "complete", "errored"}]]
  BY <1>1 DEF Create, TypeOK, Live
<1>5. Monotone
  BY <1>2, <1>3 DEF Monotone
<1>6. \A k \in Ids : k < i => inst[e][k] = "errored"
  BY <1>1 DEF JobsOK, JobFacts
<1>7. SingleExecution'
  <2> SUFFICES ASSUME NEW f \in Events, NEW k \in Ids, NEW l \in Ids,
                      k < l, inst'[f][l] # "none"
               PROVE  inst'[f][k] = "errored"
    BY DEF SingleExecution
  <2>1. CASE f = e /\ l = i
    BY <1>3, <1>6, <2>1, ConstantsAssumption DEF Ids
  <2>2. CASE ~(f = e /\ l = i)
    BY <1>2, <1>3, <2>2 DEF SingleExecution
  <2> QED BY <2>1, <2>2
<1>8. RunsOK'
  BY <1>2, <1>3 DEF RunsOK
<1>9. JobMoves(w) /\ queue' \in [Events -> 0..MaxMessages]
  <2>1. CASE Ensured(w)
    BY <1>1, <1>5, <2>1, EnsuredMoves
  <2>2. CASE Goto(w, "inspect") /\ UNCHANGED queue
    BY <1>1, <1>5, <2>2, GotoMoves DEF TypeOK
  <2> QED BY <2>1, <2>2 DEF Create
<1>10. job' \in [Workers -> Job \cup {Idle}] /\ JobsOK'
  BY <1>5, <1>9, JobsStay
<1>11. TypeOK'
  BY <1>2, <1>4, <1>9, <1>10 DEF TypeOK
<1>12. SettledTruthfully'
  BY <1>2, <1>5, <1>8, TruthStays
<1> QED BY <1>7, <1>8, <1>10, <1>11, <1>12

\* A completion is recorded of an instance that was seen complete.
LEMMA RecordStep ==
  ASSUME Inv, NEW w \in Workers, RecordCompletion(w)
  PROVE  Inv'
<1> USE DEF Inv
<1> DEFINE e == job[w].event
           i == job[w].id
<1>1. job[w] # Idle /\ job[w] \in Job /\ e \in Events /\ i \in Ids
  BY DEF RecordCompletion, At, TypeOK, Job
<1>2. UNCHANGED <<kind, row, inst, queue, fenced>>
  BY DEF RecordCompletion
<1>3. CASE run[e][i] = "failed"
  <2>1. Conclude(w, "error") /\ UNCHANGED <<run, latest>>
    BY <1>3 DEF RecordCompletion
  <2>2. Monotone
    BY <1>2, <2>1 DEF Monotone
  <2>3. JobMoves(w)
    BY <1>1, <2>1, <2>2, ConcludeMoves
  <2>4. queue' \in [Events -> 0..MaxMessages]
    BY <1>2 DEF TypeOK
  <2> HIDE DEF Inv
  <2> QED BY <1>2, <2>1, <2>3, <2>4, LocalStep
<1>4. CASE run[e][i] # "failed"
  <2>1. Conclude(w, "complete") /\ run' = [run EXCEPT ![e][i] = "complete"]
    BY <1>4 DEF RecordCompletion
  <2>2. /\ run' \in [Events -> [Ids -> {"none", "running", "complete", "failed"}]]
        /\ latest' \in [Events -> Ids \cup {NoRun}]
    BY <1>1, <1>4, <2>1 DEF RecordCompletion, TypeOK
  <2>3. \A f \in Events : \A k \in Ids :
          run'[f][k] = IF f = e /\ k = i THEN "complete" ELSE run[f][k]
    BY <1>1, <2>1 DEF TypeOK
  <2>4. Monotone
    BY <1>2, <1>4, <2>3 DEF Monotone
  <2>5. inst[e][i] = "complete"
    BY <1>1 DEF RecordCompletion, At, JobsOK, JobFacts
  <2>6. RunsOK' /\ SingleExecution'
    BY <1>2, <2>3, <2>5 DEF RunsOK, SingleExecution
  <2>7. \E k \in Ids : run'[e][k] = "complete"
    BY <1>1, <2>3
  <2>8. JobMoves(w)
    BY <1>1, <2>1, <2>4, <2>7, ConcludeMoves
  <2>9. job' \in [Workers -> Job \cup {Idle}] /\ JobsOK'
    BY <2>4, <2>8, JobsStay
  <2>10. TypeOK'
    BY <1>2, <2>2, <2>9 DEF TypeOK
  <2>11. SettledTruthfully'
    BY <1>2, <2>4, <2>6, TruthStays
  <2> QED BY <2>6, <2>9, <2>10, <2>11
<1> QED BY <1>3, <1>4

-----------------------------------------------------------------------------
\* What a code in the row of e claims
Truthful(e, code) ==
  /\ code = "complete" => \E i \in Ids : run[e][i] = "complete"
  /\ code = "workflow_failed" => \E i \in Ids : run[e][i] = "failed"
  /\ code = "exhausted" => AllErrored(e)
  /\ code = "dispatch_failed" /\ kind[e] = "rebuild" => AllErrored(e)
  /\ code \in {"fenced", "unavailable"} => fenced

\* The UPDATE of a job found its row and wrote new.
Written(w, new) ==
  /\ row' = [row EXCEPT ![job[w].event] = new]
  /\ job' = [v \in Workers |->
       IF v = w THEN Idle
       ELSE IF job[v] # Idle /\ job[v].event = job[w].event
              THEN [job[v] EXCEPT !.fresh = FALSE] ELSE job[v]]

\* An UPDATE that writes the truth preserves the invariant.
LEMMA WrittenStep ==
  ASSUME Inv, NEW w \in Workers, job[w] # Idle, NEW new \in Row,
         Truthful(job[w].event, new.code), Written(w, new),
         UNCHANGED <<kind, inst, run, latest, queue, fenced>>
  PROVE  Inv'
<1> USE DEF Inv
<1>1. job[w].event \in Events
  BY DEF TypeOK, Job
<1>2. \A e \in Events : row'[e] = IF e = job[w].event THEN new ELSE row[e]
  BY <1>1 DEF Written, TypeOK
<1>3. row' \in [Events -> Row]
  BY <1>1 DEF Written, TypeOK
<1>4. ASSUME NEW v \in Workers, job'[v] # Idle
      PROVE  job'[v] \in Job /\ JobFacts(job'[v], kind', inst', run', fenced')
  <2>1. v # w /\ job[v] # Idle
    BY <1>4 DEF Written
  <2>2. job[v] \in Job /\ JobFacts(job[v], kind, inst, run, fenced)
    BY <2>1 DEF TypeOK, JobsOK
  <2>3. CASE job'[v] = job[v]
    BY <2>2, <2>3
  <2>4. CASE job'[v] = [job[v] EXCEPT !.fresh = FALSE]
    <3>1. /\ job'[v] \in Job
          /\ job'[v].task = job[v].task /\ job'[v].event = job[v].event
          /\ job'[v].pc = job[v].pc /\ job'[v].result = job[v].result
          /\ job'[v].id = job[v].id /\ job'[v].attempt = job[v].attempt
      BY <2>2, <2>4 DEF Job
    <3>2. JobFacts(job'[v], kind, inst, run, fenced)
      BY <2>2, <3>1 DEF JobFacts
    <3> QED BY <3>1, <3>2
  <2> QED BY <2>1, <2>3, <2>4 DEF Written
<1>5. JobsOK'
  BY <1>4 DEF JobsOK
<1>6. job' \in [Workers -> Job \cup {Idle}]
  <2>1. job' = [v \in Workers |-> job'[v]]
    BY DEF Written
  <2> QED BY <1>4, <2>1
<1>7. TypeOK'
  BY <1>3, <1>6 DEF TypeOK
<1>8. RunsOK' /\ SingleExecution'
  BY DEF RunsOK, SingleExecution
<1>9. SettledTruthfully'
  <2> SUFFICES ASSUME NEW e \in Events
      PROVE /\ row'[e].code = "complete" => \E i \in Ids : run[e][i] = "complete"
            /\ row'[e].code = "workflow_failed" => \E i \in Ids : run[e][i] = "failed"
            /\ row'[e].code = "exhausted" => \A i \in Ids : inst[e][i] = "errored"
            /\ row'[e].code = "dispatch_failed" /\ kind[e] = "rebuild" =>
                 \A i \in Ids : inst[e][i] = "errored"
            /\ row'[e].code \in {"fenced", "unavailable"} => fenced
    BY <1>8 DEF SettledTruthfully, RunsOK, AllErrored
  <2>1. CASE e = job[w].event
    BY <1>2, <2>1 DEF Truthful, AllErrored
  <2>2. CASE e # job[w].event
    BY <1>2, <2>2 DEF SettledTruthfully, AllErrored
  <2> QED BY <2>1, <2>2
<1> QED BY <1>5, <1>7, <1>8, <1>9

\* An UPDATE that found its row gone, or changed
LEMMA SkippedStep ==
  ASSUME Inv, NEW w \in Workers, End(w), UNCHANGED <<kind, row, inst, run, latest, queue, fenced>>
  PROVE  Inv'
<1>1. queue' \in [Events -> 0..MaxMessages]
  BY DEF Inv, TypeOK
<1> QED BY <1>1, EndMoves, LocalStep

LEMMA WriteDispatchStep ==
  ASSUME Inv, NEW w \in Workers, WriteDispatch(w)
  PROVE  Inv'
<1> DEFINE e == job[w].event
           r == row[e]
<1>1. /\ job[w] # Idle /\ job[w] \in Job /\ e \in Events /\ r \in Row
      /\ JobFacts(job[w], kind, inst, run, fenced)
      /\ job[w].pc = "write" /\ job[w].task = "dispatch"
  BY DEF Inv, WriteDispatch, At, TypeOK, Job, JobsOK
<1>2. UNCHANGED <<kind, inst, run, latest, queue, fenced>>
  BY DEF WriteDispatch, Write
<1>3. job[w].attempt + 1 \in Nat /\ r.attempt + 1 \in Nat /\ MaxAttempts \in Nat
  BY <1>1, ConstantsAssumption DEF Job, Row
<1>4. CASE End(w) /\ UNCHANGED row
  BY <1>2, <1>4, SkippedStep
<1>5. ASSUME NEW new \in Row, Written(w, new), Truthful(e, new.code)
      PROVE  Inv'
  BY <1>1, <1>2, <1>5, WrittenStep
<1>6. CASE job[w].result = "ok"
  <2> DEFINE n == [r EXCEPT !.dispatched = TRUE, !.due = TRUE, !.attempt = @ + 1, !.code = "none"]
  <2>1. n \in Row /\ n.code = "none"
    BY <1>1, <1>3 DEF Row, Codes, OpenCodes
  <2>2. Truthful(e, n.code)
    BY <2>1 DEF Truthful
  <2>3. Written(w, n) \/ (End(w) /\ UNCHANGED row)
    BY <1>6 DEF WriteDispatch, Write, Written
  <2> QED BY <1>4, <1>5, <2>1, <2>2, <2>3
<1>7. CASE job[w].result = "fenced" /\ kind[e] = "rebuild"
  <2> DEFINE n == [r EXCEPT !.failed = TRUE, !.due = TRUE, !.attempt = @ + 1,
                            !.code = "unavailable"]
  <2>1. n \in Row /\ n.code = "unavailable"
    BY <1>1, <1>3 DEF Row, Codes, SettledCodes
  <2>2. Truthful(e, n.code)
    BY <1>1, <1>7, <2>1 DEF Truthful, JobFacts
  <2>3. Written(w, n) \/ (End(w) /\ UNCHANGED row)
    BY <1>7 DEF WriteDispatch, Write, Written
  <2> QED BY <1>4, <1>5, <2>1, <2>2, <2>3
<1>8. CASE job[w].result = "fenced" /\ kind[e] # "rebuild"
  <2> DEFINE n == [r EXCEPT !.dispatched = TRUE, !.due = TRUE, !.attempt = @ + 1,
                            !.code = "fenced"]
  <2>1. n \in Row /\ n.code = "fenced"
    BY <1>1, <1>3 DEF Row, Codes, SettledCodes
  <2>2. Truthful(e, n.code)
    BY <1>1, <1>8, <2>1 DEF Truthful, JobFacts
  <2>3. Written(w, n) \/ (End(w) /\ UNCHANGED row)
    BY <1>8 DEF WriteDispatch, Write, Written
  <2> QED BY <1>4, <1>5, <2>1, <2>2, <2>3
<1>9. CASE job[w].result = "error" /\ ~LastAttempt(w)
  <2> DEFINE n == [r EXCEPT !.attempt = job[w].attempt + 1, !.due = FALSE,
                            !.code = "retry_pending"]
  <2>1. n \in Row /\ n.code = "retry_pending"
    BY <1>1, <1>3 DEF Row, Codes
  <2>2. Truthful(e, n.code)
    BY <2>1 DEF Truthful
  <2>3. Written(w, n) \/ (End(w) /\ UNCHANGED row)
    BY <1>9 DEF WriteDispatch, Write, Written
  <2> QED BY <1>4, <1>5, <2>1, <2>2, <2>3
<1>10. CASE job[w].result = "recover"
  <2> DEFINE n == [r EXCEPT !.dispatched = TRUE, !.due = TRUE, !.attempt = job[w].attempt + 1,
                            !.code = "none"]
  <2>1. n \in Row /\ n.code = "none"
    BY <1>1, <1>3 DEF Row, Codes, OpenCodes
  <2>2. Truthful(e, n.code)
    BY <2>1 DEF Truthful
  <2>3. Written(w, n) \/ (End(w) /\ UNCHANGED row)
    BY <1>10 DEF WriteDispatch, Write, Written
  <2> QED BY <1>4, <1>5, <2>1, <2>2, <2>3
<1>11. CASE \/ job[w].result = "give_up"
            \/ job[w].result = "error" /\ LastAttempt(w)
  <2> DEFINE n == [r EXCEPT !.failed = TRUE, !.attempt = job[w].attempt + 1,
                            !.code = "dispatch_failed"]
  <2>1. n \in Row /\ n.code = "dispatch_failed"
    BY <1>1, <1>3 DEF Row, Codes
  <2>2. kind[e] = "rebuild" => AllErrored(e)
    BY <1>1, <1>3, <1>11 DEF JobFacts, LastAttempt, AllErrored
  <2>3. Truthful(e, n.code)
    BY <2>1, <2>2 DEF Truthful
  <2>4. Written(w, n) \/ (End(w) /\ UNCHANGED row)
    BY <1>11 DEF WriteDispatch, Write, Written
  <2> QED BY <1>4, <1>5, <2>1, <2>3, <2>4
<1>12. job[w].result \in {"ok", "fenced", "error", "recover", "give_up"}
  BY <1>1 DEF JobFacts
<1> QED BY <1>6, <1>7, <1>8, <1>9, <1>10, <1>11, <1>12

LEMMA WriteReconcileStep ==
  ASSUME Inv, NEW w \in Workers, WriteReconcileOrdinary(w) \/ WriteReconcileRebuild(w)
  PROVE  Inv'
<1> DEFINE e == job[w].event
           r == row[e]
           res == job[w].result
<1>1. /\ job[w] # Idle /\ job[w] \in Job /\ e \in Events /\ r \in Row
      /\ JobFacts(job[w], kind, inst, run, fenced)
  BY DEF Inv, WriteReconcileOrdinary, WriteReconcileRebuild, At, TypeOK, Job, JobsOK
<1>2. UNCHANGED <<kind, inst, run, latest, queue, fenced>>
  BY DEF WriteReconcileOrdinary, WriteReconcileRebuild, Write
<1>3. r.unknown < AlertAt => r.unknown + 1 \in 0..AlertAt
  BY <1>1, ConstantsAssumption DEF Row
<1>4. 0 \in 0..AlertAt
  BY ConstantsAssumption
<1>5. CASE End(w) /\ UNCHANGED row
  BY <1>2, <1>5, SkippedStep
<1>6. ASSUME NEW new \in Row, Written(w, new), Truthful(e, new.code)
      PROVE  Inv'
  BY <1>1, <1>2, <1>6, WrittenStep
<1>7. Truthful(e, "none") /\ Truthful(e, "pending") /\ Truthful(e, "unknown") /\ Truthful(e, r.code)
  <2>1. Truthful(e, r.code)
    BY <1>1 DEF Inv, SettledTruthfully, Truthful
  <2> QED BY <2>1 DEF Truthful
<1>8. res \in {"complete", "fenced", "exhausted", "workflow_failed", "unavailable"} =>
        Truthful(e, res)
  BY <1>1 DEF Truthful, JobFacts, AllErrored
<1>9. CASE WriteReconcileOrdinary(w)
  <2> DEFINE n ==
        CASE res \in {"complete", "fenced"} -> [r EXCEPT !.due = TRUE, !.code = res]
          [] res = "exhausted" -> [r EXCEPT !.failed = TRUE, !.due = TRUE, !.code = "exhausted"]
          [] res = "unknown" -> [r EXCEPT !.due = FALSE, !.code = "unknown"]
          [] OTHER -> [r EXCEPT !.due = FALSE, !.code = "pending"]
  <2>1. n \in Row
    BY <1>1 DEF Row, Codes, OpenCodes, SettledCodes
  <2>2. n.code = IF res \in {"complete", "fenced", "exhausted", "unknown"} THEN res ELSE "pending"
    BY <1>1 DEF Row
  <2>3. Truthful(e, n.code)
    BY <1>7, <1>8, <2>2
  <2>4. Written(w, n) \/ (End(w) /\ UNCHANGED row)
    BY <1>9 DEF WriteReconcileOrdinary, Write, Written
  <2> HIDE DEF n
  <2> QED BY <1>5, <1>6, <2>1, <2>3, <2>4
<1>10. CASE WriteReconcileRebuild(w)
  <2> DEFINE n ==
        CASE res \in {"complete", "workflow_failed"} -> [r EXCEPT !.due = TRUE, !.code = res]
          [] res \in {"exhausted", "unavailable"} ->
               [r EXCEPT !.failed = TRUE, !.due = TRUE, !.code = res]
          [] res = "unknown" ->
               [r EXCEPT !.due = FALSE,
                         !.unknown = IF r.unknown < AlertAt THEN r.unknown + 1 ELSE r.unknown,
                         !.code = IF Alerts(r) THEN "unknown" ELSE "none"]
          [] res = "active" -> [r EXCEPT !.due = FALSE, !.unknown = 0, !.code = "none"]
          [] OTHER -> [r EXCEPT !.due = FALSE]
  <2>1. n \in Row
    BY <1>1, <1>3, <1>4 DEF Row, Codes, OpenCodes, SettledCodes
  <2>2. \/ n.code \in {"none", "unknown", r.code}
        \/ /\ n.code = res
           /\ res \in {"complete", "workflow_failed", "exhausted", "unavailable"}
    BY <1>1 DEF Row
  <2>3. Truthful(e, n.code)
    BY <1>7, <1>8, <2>2
  <2>4. Written(w, n) \/ (End(w) /\ UNCHANGED row)
    BY <1>10 DEF WriteReconcileRebuild, Write, Written
  <2> HIDE DEF n
  <2> QED BY <1>5, <1>6, <2>1, <2>3, <2>4
<1> QED BY <1>9, <1>10

-----------------------------------------------------------------------------
\* Messages, time and the fence
LEMMA WorldStep ==
  ASSUME Inv, Fence \/ \E e \in Events : DeadLetter(e) \/ TimePasses(e)
  PROVE  Inv'
<1> USE DEF Inv
<1>1. job' = job /\ UNCHANGED <<kind, inst, run, latest>> /\ (fenced => fenced')
  BY DEF Fence, DeadLetter, TimePasses
<1>2. Monotone
  BY <1>1 DEF Monotone
<1>3. job' \in [Workers -> Job \cup {Idle}] /\ JobsOK'
  BY <1>1, <1>2, JobsUntouched
<1>4. queue' \in [Events -> 0..MaxMessages] /\ fenced' \in BOOLEAN
  <2>1. CASE Fence
    BY <2>1 DEF Fence, TypeOK
  <2>2. ASSUME NEW e \in Events, DeadLetter(e)
        PROVE  queue' \in [Events -> 0..MaxMessages] /\ fenced' \in BOOLEAN
    BY <2>2, ConstantsAssumption DEF DeadLetter, TypeOK
  <2>3. ASSUME NEW e \in Events, TimePasses(e)
        PROVE  queue' \in [Events -> 0..MaxMessages] /\ fenced' \in BOOLEAN
    BY <2>3 DEF TimePasses, TypeOK
  <2> QED BY <2>1, <2>2, <2>3
<1>5. row' \in [Events -> Row] /\ \A e \in Events : row'[e].code = row[e].code
  <2>1. CASE UNCHANGED row
    BY <2>1 DEF TypeOK
  <2>2. ASSUME NEW f \in Events, TimePasses(f)
        PROVE  row' \in [Events -> Row] /\ \A e \in Events : row'[e].code = row[e].code
    <3>1. row' = [row EXCEPT ![f] = [row[f] EXCEPT !.due = TRUE]]
      BY <2>2 DEF TimePasses
    <3>2. [row[f] EXCEPT !.due = TRUE] \in Row /\ [row[f] EXCEPT !.due = TRUE].code = row[f].code
      BY DEF TypeOK, Row
    <3> QED BY <3>1, <3>2 DEF TypeOK
  <2> QED BY <2>1, <2>2 DEF Fence, DeadLetter
<1>6. TypeOK'
  BY <1>1, <1>3, <1>4, <1>5 DEF TypeOK
<1>7. RunsOK' /\ SingleExecution'
  BY <1>1 DEF RunsOK, SingleExecution
<1>8. SettledTruthfully'
  BY <1>1, <1>5 DEF SettledTruthfully, AllErrored
<1> QED BY <1>3, <1>6, <1>7, <1>8

LEMMA InvHolds == Spec => []Inv
<1>1. Init => Inv
  <2> SUFFICES ASSUME Init PROVE Inv
    OBVIOUS
  <2>1. NewRow \in Row
    BY ConstantsAssumption DEF NewRow, Row, Codes, OpenCodes
  <2>2. TypeOK
    <3>1. kind \in [Events -> Kinds] /\ row \in [Events -> Row]
      BY <2>1 DEF Init
    <3>2. /\ inst \in [Events -> [Ids -> Live \cup {"none", "complete", "errored"}]]
          /\ run \in [Events -> [Ids -> {"none", "running", "complete", "failed"}]]
      BY DEF Init
    <3>3. queue \in [Events -> 0..MaxMessages] /\ fenced \in BOOLEAN
      <4>1. 0 \in 0..MaxMessages
        BY ConstantsAssumption
      <4> QED BY <4>1 DEF Init
    <3>4. latest \in [Events -> Ids \cup {NoRun}] /\ job \in [Workers -> Job \cup {Idle}]
      BY DEF Init
    <3> QED BY <3>1, <3>2, <3>3, <3>4 DEF TypeOK
  <2>3. SingleExecution /\ RunsOK /\ JobsOK
    BY DEF Init, SingleExecution, RunsOK, JobsOK
  <2>4. SettledTruthfully
    <3>1. \A e \in Events : row[e].code = "none" /\ \A i \in Ids : run[e][i] = "none"
      BY DEF Init, NewRow
    <3> QED BY <3>1 DEF SettledTruthfully
  <2> QED BY <2>2, <2>3, <2>4 DEF Inv
<1>2. Inv /\ [Next]_vars => Inv'
  <2> SUFFICES ASSUME Inv, [Next]_vars PROVE Inv'
    OBVIOUS
  <2>1. ASSUME NEW w \in Workers, Step(w) PROVE Inv'
    <3>1. CASE LocalSteps(w)
      BY <3>1, LocalStepsMove, LocalStep
    <3> QED
      BY <2>1, <3>1, CreateStep, RecordStep, WriteDispatchStep, WriteReconcileStep
         DEF Step, LocalSteps
  <2>2. CASE UNCHANGED vars
    BY <2>2 DEF vars, Inv, TypeOK, SingleExecution, RunsOK, JobsOK, SettledTruthfully, AllErrored
  <2> QED
    BY <2>1, <2>2, SelectStep, RunStep, WorldStep DEF Next
<1> QED BY <1>1, <1>2, PTL DEF Spec

\* The rows, messages, instances and jobs keep their types.
THEOREM OutboxTypeCorrect == Spec => []TypeOK
<1>1. Inv => TypeOK
  BY DEF Inv
<1> QED BY <1>1, InvHolds, PTL

\* However many invocations overlap, and whatever replies are lost, statuses
\* unreadable and invocations cut off, ensureWorkflowWithRepair never lets two
\* instances of one event run.
THEOREM ExecutionsNeverOverlap == Spec => []SingleExecution
<1>1. Inv => SingleExecution
  BY DEF Inv
<1> QED BY <1>1, InvHolds, PTL

\* The outcome that an UPDATE writes into an outbox row is true when it is
\* written, although the job decided on it some awaits before, and stays true.
THEOREM SettlementsAreTrue == Spec => []SettledTruthfully
<1>1. Inv => SettledTruthfully
  BY DEF Inv
<1> QED BY <1>1, InvHolds, PTL

-----------------------------------------------------------------------------
\* A settled row has nothing to wait for: every UPDATE that settles a row
\* clears its next_attempt_at.
DueOK == \A e \in Events : row[e].dispatched /\ Settled(e) => row[e].due

\* A row changes only by the UPDATE of a job, or by the passing of time.
LEMMA RowChanges ==
  ASSUME TypeOK, DueOK, [Next]_vars
  PROVE  DueOK' /\ \A e \in Events : row[e].dispatched /\ Settled(e) => row'[e] = row[e]
<1>1. CASE UNCHANGED row
  BY <1>1 DEF DueOK, Settled
<1> USE DEF Settled
<1>2. ASSUME NEW w \in Workers, NEW new \in Row, job[w] \in Job, Written(w, new),
             ~(row[job[w].event].dispatched /\ Settled(job[w].event)),
             new.dispatched /\ (new.failed \/ new.code \in SettledCodes) => new.due
      PROVE  DueOK' /\ \A e \in Events : row[e].dispatched /\ Settled(e) => row'[e] = row[e]
  <2>1. job[w].event \in Events
    BY <1>2 DEF Job
  <2>2. \A e \in Events : row'[e] = IF e = job[w].event THEN new ELSE row[e]
    BY <1>2, <2>1 DEF Written, TypeOK
  <2> QED BY <1>2, <2>2 DEF DueOK
<1>3. ASSUME NEW w \in Workers, WriteDispatch(w), ~UNCHANGED row
      PROVE  DueOK' /\ \A e \in Events : row[e].dispatched /\ Settled(e) => row'[e] = row[e]
  <2> DEFINE e == job[w].event
             r == row[e]
  <2>1. job[w] \in Job /\ e \in Events /\ r \in Row
    BY <1>3 DEF WriteDispatch, At, TypeOK, Job
  <2>2. job[w].attempt + 1 \in Nat /\ r.attempt + 1 \in Nat
    BY <2>1 DEF Job, Row
  <2>3. PICK new \in
          { [r EXCEPT !.dispatched = TRUE, !.due = TRUE, !.attempt = @ + 1, !.code = "none"],
            [r EXCEPT !.failed = TRUE, !.due = TRUE, !.attempt = @ + 1, !.code = "unavailable"],
            [r EXCEPT !.dispatched = TRUE, !.due = TRUE, !.attempt = @ + 1, !.code = "fenced"],
            [r EXCEPT !.attempt = job[w].attempt + 1, !.due = FALSE, !.code = "retry_pending"],
            [r EXCEPT !.dispatched = TRUE, !.due = TRUE, !.attempt = job[w].attempt + 1,
                      !.code = "none"],
            [r EXCEPT !.failed = TRUE, !.attempt = job[w].attempt + 1,
                      !.code = "dispatch_failed"] } :
          Written(w, new) /\ ~r.dispatched
    BY <1>3 DEF WriteDispatch, Write, Written, SameAttempt
  <2>4. /\ new \in Row
        /\ new.dispatched = r.dispatched \/ new.due
    BY <2>1, <2>2, <2>3 DEF Row, Codes, OpenCodes, SettledCodes
  <2> QED BY <1>2, <2>1, <2>3, <2>4
<1>4. ASSUME NEW w \in Workers, WriteReconcileOrdinary(w) \/ WriteReconcileRebuild(w),
             ~UNCHANGED row
      PROVE  DueOK' /\ \A e \in Events : row[e].dispatched /\ Settled(e) => row'[e] = row[e]
  <2> DEFINE e == job[w].event
             r == row[e]
             res == job[w].result
             alert == IF Alerts(r) THEN "unknown" ELSE "none"
             count == IF r.unknown < AlertAt THEN r.unknown + 1 ELSE r.unknown
  <2>1. job[w] \in Job /\ e \in Events /\ r \in Row
    BY <1>4 DEF WriteReconcileOrdinary, WriteReconcileRebuild, At, TypeOK, Job
  <2>2. Reconcilable(e)
    BY <1>4 DEF WriteReconcileOrdinary, WriteReconcileRebuild, Write
  <2>3. ~r.failed /\ r.code \in OpenCodes /\ ~Settled(e)
    BY <2>2 DEF Reconcilable, OpenCodes, SettledCodes
  <2>4. count \in 0..AlertAt /\ 0 \in 0..AlertAt /\ alert \in OpenCodes
    BY <2>1, ConstantsAssumption DEF Row, OpenCodes
  <2> HIDE DEF alert, count
  <2>5. PICK new \in
          { [r EXCEPT !.due = TRUE, !.code = res],
            [r EXCEPT !.failed = TRUE, !.due = TRUE, !.code = res],
            [r EXCEPT !.due = FALSE, !.code = "unknown"],
            [r EXCEPT !.due = FALSE, !.code = "pending"],
            [r EXCEPT !.due = FALSE, !.unknown = count, !.code = alert],
            [r EXCEPT !.due = FALSE, !.unknown = 0, !.code = "none"],
            [r EXCEPT !.due = FALSE] } :
          /\ Written(w, new)
          /\ new.due => res \in SettledCodes
    <3>1. CASE WriteReconcileOrdinary(w)
      BY <1>4, <2>1, <3>1 DEF WriteReconcileOrdinary, Write, Written, Row, SettledCodes
    <3>2. CASE WriteReconcileRebuild(w)
      BY <1>4, <2>1, <3>2 DEF WriteReconcileRebuild, Write, Written, Row, SettledCodes, alert, count
    <3> QED BY <1>4, <3>1, <3>2
  <2>6. /\ new \in Row
        /\ new.due \/ (~new.failed /\ new.code \in OpenCodes)
    <3>1. CASE \/ new = [r EXCEPT !.due = TRUE, !.code = res]
               \/ new = [r EXCEPT !.failed = TRUE, !.due = TRUE, !.code = res]
      BY <2>1, <2>5, <3>1 DEF Row, Codes
    <3>2. CASE \/ new = [r EXCEPT !.due = FALSE, !.code = "unknown"]
               \/ new = [r EXCEPT !.due = FALSE, !.code = "pending"]
               \/ new = [r EXCEPT !.due = FALSE]
      <4>1. "unknown" \in OpenCodes /\ "pending" \in OpenCodes /\ OpenCodes \subseteq Codes
        BY DEF Codes, OpenCodes
      <4> QED BY <2>1, <2>3, <3>2, <4>1 DEF Row
    <3>3. CASE new = [r EXCEPT !.due = FALSE, !.unknown = count, !.code = alert]
      BY <2>1, <2>3, <2>4, <3>3 DEF Row, Codes
    <3>4. CASE new = [r EXCEPT !.due = FALSE, !.unknown = 0, !.code = "none"]
      BY <2>1, <2>3, <2>4, <3>4 DEF Row, Codes, OpenCodes
    <3> QED BY <2>5, <3>1, <3>2, <3>3, <3>4
  <2>7. new.dispatched /\ (new.failed \/ new.code \in SettledCodes) => new.due
    BY <2>6 DEF OpenCodes, SettledCodes
  <2> QED BY <1>2, <2>1, <2>3, <2>5, <2>6, <2>7
<1>5. ASSUME NEW f \in Events, TimePasses(f)
      PROVE  DueOK' /\ \A e \in Events : row[e].dispatched /\ Settled(e) => row'[e] = row[e]
  <2>1. row' = [row EXCEPT ![f] = [row[f] EXCEPT !.due = TRUE]] /\ ~row[f].due
    BY <1>5 DEF TimePasses
  <2>2. [row[f] EXCEPT !.due = TRUE].due
    BY DEF TypeOK, Row
  <2>3. \A e \in Events : row'[e] = IF e = f THEN [row[f] EXCEPT !.due = TRUE] ELSE row[e]
    BY <2>1 DEF TypeOK
  <2> QED BY <2>1, <2>2, <2>3 DEF DueOK
<1> QED
  BY ZenonT(40), <1>1, <1>3, <1>4, <1>5
     DEF Next, Step, Select, Run, vars, Admit, Readmit, ReadFails, Send, SendFails, Create,
         CreateRefused, Inspect, InspectUnknown, Observe, ObserveUnknown, RecordCompletion, Verify,
         VerifyFails, MarkerFails, Crash, SelectDispatch, SelectReconcile, Deliver, Ensure,
         RunStarts, RunRecordsCompletion, RunFinishes, RunThrows, RunRecordsFailure, RunErrs,
         RunTerminated, DeadLetter, Fence

\* A dispatched row that was settled is never written again: the guards of the
\* UPDATEs refuse every invocation that read it before.
THEOREM SettlementsAreFinal == Spec => SettledIsFinal
<1>1. Init => DueOK
  BY DEF Init, DueOK, NewRow
<1>2. TypeOK /\ DueOK /\ [Next]_vars =>
        DueOK' /\ [\A e \in Events : row[e].dispatched /\ Settled(e) => row'[e] = row[e]]_vars
  BY RowChanges
<1> QED BY <1>1, <1>2, OutboxTypeCorrect, PTL DEF Spec, SettledIsFinal

=============================================================================
