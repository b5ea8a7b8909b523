-------------------------- MODULE ProjectionProofs --------------------------
(***************************************************************************)
(* Safety of the projection snapshots for every number of memories,        *)
(* operators, versions, attempts and faults.  What the invariant adds to   *)
(* the properties is what the parties know: an attempt that puts objects   *)
(* holds the truth of its version and has stored what is not left to put,  *)
(* what is recorded as ended has ended at least once, and so have the      *)
(* rebuilds before a planned one.                                          *)
(***************************************************************************)
EXTENDS Projection, TLAPS

Names == Memories \cup {"manifest"}
Contents == [Memories -> Nat \X Nat]

Attempts ==
  [exec : Executions, repair : 0 .. MaxRepairs, try : 1 .. MaxAttempts,
   pc : {"rows", "put", "activate", "recheck", "search"},
   content : Contents, left : SUBSET Names]

FlowType ==
  [Executions -> [state : FlowStates, tries : 0 .. MaxAttempts, repair : 0 .. MaxRepairs]]
RecordedType == [Rebuilds -> {"none", "running"} \cup Terminal]

\* The types of all variables
Types ==
  /\ version \in Versions
  /\ heads \in [Versions -> [Memories -> 0 .. MaxVersion]]
  /\ changes \subseteq 1 .. version
  /\ status \in [Versions -> {"none", "active", "superseded"}]
  /\ pointer \in 0 .. version
  /\ flow \in FlowType
  /\ recorded \in RecordedType
  /\ att \subseteq Attempts
  /\ op \in [Operators -> [pc : {"idle", "planned", "settled"},
                           version : 0 .. MaxVersion, ordinal : 0 .. MaxOrdinal]]
  /\ verified \subseteq Versions
  /\ faults \in 0 .. MaxFaults

\* An execution that was enqueued is of a version that was committed, and one
\* that is yet to be tried, or may be tried again, has an attempt left.
FlowOK ==
  \A x \in Executions :
    /\ flow[x].state # "none" => x.version <= version
    /\ flow[x].state \in {"none", "queued", "retry", "failed"} =>
         flow[x].tries < MaxAttempts

\* Everything in the bucket is true.
ObjectsOK ==
  \A o \in objects :
    /\ o.version \in Versions
    /\ o.version <= version
    /\ o.body = Body(Truth(o.version), o.file)

\* What an attempt holds is true, and what it has put is stored.
AttemptOK(a) ==
  /\ a.exec.version <= version
  /\ a.pc = "put" =>
       /\ a.content = Truth(a.exec.version)
       /\ Files(Truth(a.exec.version)) \ a.left \subseteq Stored(a.exec.version)
  /\ a.pc = "activate" => Whole(a.exec.version)

AttemptsOK == \A a \in att : AttemptOK(a)

\* The pointer and the rows agree, and the active snapshot is whole.
ActiveOK ==
  /\ {v \in Versions : status[v] = "active"} = {pointer} \ {0}
  /\ pointer # 0 => Whole(pointer)

\* What is recorded as ended has ended once.
RecordsOK == \A x \in Rebuilds : recorded[x] \in Terminal => EndedOnce(x)

\* So have the rebuilds before one that was enqueued, or is about to be.
Settled(v, n) == \A k \in 0 .. n - 1 : EndedOnce(Rebuild(v, k))

RebuildsOK ==
  /\ \A v \in Versions : \A n \in Ordinals(v) : Settled(v, n)
  /\ \A o \in Operators : op[o].pc = "planned" =>
       op[o].version \in Versions /\ Settled(op[o].version, op[o].ordinal)
  /\ \A o \in Operators : op[o].pc = "settled" => op[o].version \in Versions

Inv ==
  /\ Types /\ FlowOK /\ ObjectsOK /\ AttemptsOK
  /\ ActiveOK /\ RecordsOK /\ RebuildsOK /\ VerifiedIsProjected

-----------------------------------------------------------------------------
(* Executions and what a step does to them *)

LEMMA ExecutionFields ==
  /\ \A x \in Executions : x.version \in Versions /\ x.kind \in {"change", "rebuild"}
  /\ \A v \in Versions : Change(v) \in Executions
  /\ \A v \in Versions, n \in 0 .. MaxOrdinal : Rebuild(v, n) \in Executions
  /\ \A v \in Versions, n \in 0 .. MaxOrdinal : Rebuild(v, n) \in Rebuilds
  /\ \A v, u \in Versions, n \in 0 .. MaxOrdinal : Change(v) # Rebuild(u, n)
<1>1. \A x \in Executions : x.version \in Versions /\ x.kind \in {"change", "rebuild"}
  <2> SUFFICES ASSUME NEW x \in Executions
               PROVE  x.version \in Versions /\ x.kind \in {"change", "rebuild"}
    OBVIOUS
  <2>1. CASE \E v \in Versions : x = Change(v)
    BY <2>1 DEF Change
  <2>2. CASE \E v \in Versions, n \in 0 .. MaxOrdinal : x = Rebuild(v, n)
    BY <2>2 DEF Rebuild
  <2>. QED BY <2>1, <2>2 DEF Executions
<1>2. \A v \in Versions : Change(v) \in Executions
  BY DEF Executions
<1>3. \A v \in Versions, n \in 0 .. MaxOrdinal : Rebuild(v, n) \in Executions
  BY DEF Executions
<1>4. \A v, u \in Versions, n \in 0 .. MaxOrdinal : Change(v) # Rebuild(u, n)
  <2> SUFFICES ASSUME NEW v \in Versions, NEW u \in Versions, NEW n \in 0 .. MaxOrdinal,
                      Change(v) = Rebuild(u, n)
               PROVE  FALSE
    OBVIOUS
  <2>1. Change(v).kind = "change" /\ Rebuild(u, n).kind = "rebuild"
    BY DEF Change, Rebuild
  <2>. QED BY <2>1
<1>5. \A v \in Versions, n \in 0 .. MaxOrdinal : Rebuild(v, n) \in Rebuilds
  BY <1>3 DEF Rebuilds, Rebuild
<1>. QED BY <1>1, <1>2, <1>3, <1>4, <1>5

\* Execution x goes on, is to be tried again, ends or is repaired: that it has
\* ended once stays true.
FlowChange(x) ==
  /\ \A y \in Executions \ {x} : flow'[y] = flow[y]
  /\ flow[x].state # "none" /\ flow'[x].state # "none"
  /\ flow'[x].state \in {"queued", "retry", "failed"} => flow'[x].tries < MaxAttempts
  /\ EndedOnce(x) => EndedOnce(x)'

FlowMoves ==
  /\ flow' \in FlowType
  /\ flow' = flow \/ \E x \in Executions : FlowChange(x)

\* An end is recorded only of what has ended.
RecordsMove ==
  /\ recorded' \in RecordedType
  /\ \A x \in Rebuilds :
       recorded'[x] \in Terminal => recorded[x] \in Terminal \/ EndedOnce(x)'

\* The instance goes to another state.
LEMMA BecomeMoves ==
  ASSUME Types, NEW x \in Executions, NEW n \in 0 .. MaxAttempts,
         NEW state \in FlowStates \ {"none", "queued"},
         flow[x].state \in {"queued", "retry", "running", "done"},
         state \in {"retry", "failed"} => n < MaxAttempts,
         flow' = Become(x, state, n)
  PROVE  /\ FlowMoves
         /\ flow'[x].state = state
<1>1. PICK f : f = [flow[x] EXCEPT !.state = state, !.tries = n]
  OBVIOUS
<1>2. flow' = [flow EXCEPT ![x] = f]
  BY <1>1 DEF Become
<1>3. f \in [state : FlowStates, tries : 0 .. MaxAttempts, repair : 0 .. MaxRepairs]
      /\ f.state = state /\ f.tries = n /\ f.repair = flow[x].repair
  BY <1>1 DEF Types, FlowType
<1>4. flow' \in FlowType /\ flow'[x] = f /\ \A y \in Executions \ {x} : flow'[y] = flow[y]
  BY <1>2, <1>3 DEF Types, FlowType
<1>5. FlowChange(x)
  BY <1>3, <1>4 DEF FlowChange, EndedOnce, Terminal
<1>. QED BY <1>3, <1>4, <1>5 DEF FlowMoves

LEMMA ThrowMoves ==
  ASSUME Types, NEW x \in Executions, NEW n \in 1 .. MaxAttempts,
         flow[x].state \in {"queued", "retry", "running"},
         flow' = AfterThrow(x, n)
  PROVE  FlowMoves
<1>1. CASE n < MaxAttempts
  BY <1>1, BecomeMoves DEF AfterThrow, FlowStates
<1>2. CASE ~(n < MaxAttempts)
  BY <1>2, BecomeMoves, ProjectionAssumption DEF AfterThrow, FlowStates
<1>. QED BY <1>1, <1>2

LEMMA AttemptMoves ==
  ASSUME Types, NEW a \in att, Throw(a) \/ Complete(a)
  PROVE  FlowMoves /\ att' = att \ {a}
<1>0. a.exec \in Executions /\ a.try \in 1 .. MaxAttempts
  BY DEF Types, Attempts
<1>1. att' = att \ {a}
  BY DEF Throw, Complete
<1>2. flow \in FlowType
  BY DEF Types
<1>3. CASE flow' = flow
  <2>1. flow' \in FlowType
    BY <1>2, <1>3
  <2>. QED BY <1>1, <1>3, <2>1 DEF FlowMoves
<1>4. CASE Current(a) /\ flow' = AfterThrow(a.exec, a.try)
  <2>1. flow[a.exec].state \in {"queued", "retry", "running"}
    BY <1>4 DEF Current
  <2>. QED BY <1>0, <1>1, <1>4, <2>1, ThrowMoves
<1>5. CASE Current(a) /\ flow' = Become(a.exec, "done", 0)
  <2>1. flow[a.exec].state \in {"queued", "retry", "running", "done"}
    BY <1>5 DEF Current
  <2>. QED
    BY <1>0, <1>1, <1>5, <2>1, BecomeMoves, ProjectionAssumption DEF FlowStates
<1>6. PICK x : x = a.exec /\ (flow' = flow \/ (Current(a) /\ flow' = AfterThrow(x, a.try))
                               \/ (Current(a) /\ flow' = Become(x, "done", 0)))
  BY DEF Throw, Complete
<1>. QED BY <1>1, <1>3, <1>4, <1>5, <1>6

\* What ended stays ended and nothing is enqueued: the rebuilds of a version
\* keep their order.
LEMMA RebuildsKeep ==
  ASSUME Types, RebuildsOK, op' = op,
         \A v \in Versions, n \in 0 .. MaxOrdinal :
           /\ EndedOnce(Rebuild(v, n)) => EndedOnce(Rebuild(v, n))'
           /\ flow'[Rebuild(v, n)].state # "none" => flow[Rebuild(v, n)].state # "none"
  PROVE  RebuildsOK'
<1>1. \A v \in Versions : Ordinals(v)' \subseteq Ordinals(v)
  BY DEF Ordinals
<1>2. \A v \in Versions, n \in 0 .. MaxOrdinal : Settled(v, n) => Settled(v, n)'
  BY ProjectionAssumption DEF Settled
<1>3. \A v \in Versions : \A n \in Ordinals(v) : n \in 0 .. MaxOrdinal
  BY DEF Ordinals
<1>4. \A o \in Operators : op[o].ordinal \in 0 .. MaxOrdinal
  BY DEF Types
<1>5. \A v \in Versions : \A n \in Ordinals(v)' : Settled(v, n)'
  BY <1>1, <1>2, <1>3 DEF RebuildsOK
<1>6. ASSUME NEW o \in Operators, op'[o].pc = "planned"
      PROVE  (op[o].version \in Versions /\ Settled(op[o].version, op[o].ordinal))'
  <2>1. op[o].version \in Versions /\ Settled(op[o].version, op[o].ordinal)
    BY <1>6 DEF RebuildsOK
  <2>2. PICK v, n : v = op[o].version /\ n = op[o].ordinal
    OBVIOUS
  <2>3. Settled(v, n)'
    BY <1>2, <1>4, <2>1, <2>2
  <2>4. op'[o].version = v /\ op'[o].ordinal = n
    BY <2>2
  <2>. QED BY <2>1, <2>2, <2>3, <2>4 DEF Settled, EndedOnce
<1>7. \A o \in Operators : op'[o].pc = "settled" => op'[o].version \in Versions
  BY DEF RebuildsOK
<1>. QED BY <1>5, <1>6, <1>7 DEF RebuildsOK

LEMMA FlowKeeps ==
  ASSUME Types, FlowOK, RecordsOK, RebuildsOK, FlowMoves, RecordsMove,
         version' = version, op' = op
  PROVE  FlowOK' /\ RecordsOK' /\ RebuildsOK'
<1>1. \A x \in Executions :
        /\ flow'[x].state # "none" => flow[x].state # "none"
        /\ EndedOnce(x) => EndedOnce(x)'
        /\ flow'[x].state \in {"none", "queued", "retry", "failed"} =>
             flow'[x].tries < MaxAttempts
  BY DEF FlowMoves, FlowChange, FlowOK, EndedOnce
<1>2. FlowOK'
  BY <1>1 DEF FlowOK
<1>3. RebuildsOK'
  BY <1>1, ExecutionFields, RebuildsKeep
<1>4. RecordsOK'
  BY <1>1 DEF RecordsMove, RecordsOK, Rebuilds
<1>. QED BY <1>2, <1>3, <1>4

-----------------------------------------------------------------------------
(* Truth, objects and attempts *)

\* A commit changes nothing that was true of the versions before it.
LEMMA CommitKeepsTruth ==
  ASSUME Types, version < MaxVersion, NEW row,
         version' = version + 1,
         heads' = [heads EXCEPT ![version + 1] = row]
  PROVE  \A v \in Versions : v <= version => Truth(v)' = Truth(v)
  BY DEF Types, Versions, Truth

LEMMA StoredGrows ==
  ASSUME objects \subseteq objects'
  PROVE  \A v : Stored(v) \subseteq Stored(v)'
  BY DEF Stored

\* While the truth stands, what attempts know stays so when objects are added.
LEMMA AttemptsKeep ==
  ASSUME AttemptsOK, objects \subseteq objects', version <= version',
         version \in Int, version' \in Int, att \subseteq Attempts,
         \A v \in Versions : v <= version => Truth(v)' = Truth(v)
  PROVE  \A a \in att : AttemptOK(a)'
<1> SUFFICES ASSUME NEW a \in att PROVE AttemptOK(a)'
  OBVIOUS
<1> DEFINE v == a.exec.version
<1>1. v \in Versions /\ v <= version /\ v \in Int
  BY ExecutionFields DEF AttemptsOK, AttemptOK, Attempts, Versions
<1>2. Truth(v)' = Truth(v) /\ Stored(v) \subseteq Stored(v)'
  BY <1>1, StoredGrows
<1>3. AttemptOK(a)
  BY DEF AttemptsOK
<1>4. v <= version'
  BY <1>1
<1>. QED BY <1>1, <1>2, <1>3, <1>4 DEF AttemptOK, Whole, Files

LEMMA WholeKeeps ==
  ASSUME NEW v, Truth(v)' = Truth(v), objects \subseteq objects', Whole(v)
  PROVE  Whole(v)'
<1>1. Stored(v) \subseteq Stored(v)'
  BY StoredGrows
<1>. QED BY <1>1 DEF Whole, Files

\* Nothing active, stored or verified is lost while pointer and rows stand.
LEMMA SnapshotsKeep ==
  ASSUME Types, ObjectsOK, ActiveOK, VerifiedIsProjected,
         status' = status, pointer' = pointer, verified' = verified,
         version <= version', version' \in Int, objects \subseteq objects',
         \A v \in Versions : v <= version => Truth(v)' = Truth(v)
  PROVE  /\ ActiveOK' /\ VerifiedIsProjected'
         /\ objects' = objects => ObjectsOK'
<1>0. version \in Int /\ pointer \in 0 .. version /\ verified \subseteq Versions
  BY DEF Types, Versions
<1>1. \A v \in Versions : v <= version /\ Whole(v) => Whole(v)'
  BY WholeKeeps
<1>2. ActiveOK'
  <2>1. CASE pointer = 0
    BY <2>1 DEF ActiveOK
  <2>2. CASE pointer # 0
    <3>1. PICK p : p = pointer
      OBVIOUS
    <3>2. p \in Versions /\ p <= version /\ Whole(p)
      BY <1>0, <2>2, <3>1 DEF ActiveOK, Types, Versions
    <3>3. Whole(p)' /\ pointer' = p
      BY <1>1, <3>1, <3>2
    <3>4. Whole(pointer)'
      BY <3>3
    <3>. QED BY <3>4 DEF ActiveOK
  <2>. QED BY <2>1, <2>2
<1>3. VerifiedIsProjected'
  <2> SUFFICES ASSUME NEW v \in verified
               PROVE  pointer >= v /\ status[v] \in {"active", "superseded"} /\ Whole(v)'
    BY DEF VerifiedIsProjected
  <2>1. pointer >= v /\ status[v] \in {"active", "superseded"} /\ Whole(v)
    BY DEF VerifiedIsProjected
  <2>2. v \in Versions /\ v <= version
    BY <1>0, <2>1 DEF Versions
  <2>. QED BY <1>1, <2>1, <2>2
<1>4. ASSUME objects' = objects
      PROVE  ObjectsOK'
  <2> SUFFICES ASSUME NEW o \in objects
               PROVE  /\ o.version \in Versions /\ o.version <= version'
                      /\ o.body = Body(Truth(o.version)', o.file)
    BY <1>4 DEF ObjectsOK, Body
  <2>1. o.version \in Versions /\ o.version <= version
        /\ o.body = Body(Truth(o.version), o.file)
    BY DEF ObjectsOK
  <2>2. o.version <= version'
    BY <1>0, <2>1 DEF Versions
  <2>3. Truth(o.version)' = Truth(o.version)
    BY <2>1
  <2>. QED BY <2>1, <2>2, <2>3
<1>. QED BY <1>2, <1>3, <1>4

-----------------------------------------------------------------------------
(* Steps of Workflows *)

SameAuthority == UNCHANGED <<version, heads, changes>>

LEMMA SameTruth ==
  ASSUME SameAuthority
  PROVE  \A v : Truth(v)' = Truth(v)
  BY DEF SameAuthority, Truth

\* Every attempt after the step was there before it or knows what it must.
AttemptsMove ==
  \A b \in att' : b \in att \/ (b \in Attempts /\ AttemptOK(b)')

\* A step of a Workflow that leaves the pointer alone and stores only what is
\* true keeps the invariant.
LEMMA WorkflowStep ==
  ASSUME Inv, SameAuthority, op' = op, verified' = verified,
         status' = status, pointer' = pointer, faults' \in 0 .. MaxFaults,
         objects \subseteq objects', objects' = objects \/ ObjectsOK',
         FlowMoves, RecordsMove, AttemptsMove
  PROVE  Inv'
<1>1. Types /\ FlowOK /\ RecordsOK /\ RebuildsOK /\ ObjectsOK /\ AttemptsOK /\ ActiveOK
      /\ VerifiedIsProjected
  BY DEF Inv
<1>2. version' = version /\ version \in Int
  BY <1>1 DEF SameAuthority, Types, Versions
<1>3. att' \subseteq Attempts
  BY <1>1 DEF AttemptsMove, Types
<1>4. Types'
  BY <1>1, <1>3 DEF Types, SameAuthority, FlowMoves, RecordsMove
<1>5. FlowOK' /\ RecordsOK' /\ RebuildsOK'
  BY <1>1, <1>2, FlowKeeps
<1>6. ActiveOK' /\ VerifiedIsProjected' /\ ObjectsOK'
  BY <1>1, <1>2, SameTruth, SnapshotsKeep
<1>7. AttemptsOK'
  <2>1. att \subseteq Attempts
    BY <1>1 DEF Types
  <2>2. \A a \in att : AttemptOK(a)'
    BY <1>1, <1>2, <2>1, SameTruth, AttemptsKeep
  <2>. QED BY <2>2 DEF AttemptsMove, AttemptsOK
<1>. QED BY <1>4, <1>5, <1>6, <1>7 DEF Inv

LEMMA StillRecorded ==
  ASSUME Inv, recorded' = recorded
  PROVE  RecordsMove
  BY DEF Inv, Types, RecordsMove

LEMMA AttemptFields ==
  ASSUME Inv, NEW a \in att
  PROVE  /\ a \in Attempts /\ AttemptOK(a)
         /\ a.exec \in Executions /\ a.exec.version \in Versions
         /\ a.exec.version \in Int /\ version \in Int
         /\ a.try \in 1 .. MaxAttempts /\ a.repair \in 0 .. MaxRepairs
  BY ExecutionFields DEF Inv, Types, Attempts, AttemptsOK, Versions

\* An attempt at a step at which it keeps nothing
LEMMA AtFields ==
  ASSUME NEW x \in Executions, NEW r \in 0 .. MaxRepairs, NEW n \in 1 .. MaxAttempts,
         NEW pc \in {"rows", "activate", "recheck", "search"}
  PROVE  /\ At(x, r, n, pc) \in Attempts
         /\ At(x, r, n, pc).exec = x /\ At(x, r, n, pc).pc = pc
<1>1. NoContent \in Contents
  BY DEF NoContent, Contents
<1>. QED BY <1>1 DEF At, Attempts

LEMMA RunStep ==
  ASSUME Inv, NEW x \in Executions, Run(x)
  PROVE  Inv'
<1>1. PICK n, r : n = flow[x].tries + 1 /\ r = flow[x].repair
  OBVIOUS
<1>2. flow[x].state \in {"queued", "retry"} /\ SameAuthority
      /\ UNCHANGED <<objects, status, pointer, op, verified, faults>>
  BY DEF Run, authority, snapshots, commands, SameAuthority
<1>3. n \in 1 .. MaxAttempts /\ r \in 0 .. MaxRepairs /\ x.version <= version
  BY <1>1, <1>2, ProjectionAssumption DEF Inv, Types, FlowType, FlowOK
<1>4. Types /\ faults' \in 0 .. MaxFaults
  BY <1>2 DEF Inv, Types
<1>5. ASSUME NEW pc \in {"rows", "search"}, att' = att \cup {At(x, r, n, pc)},
             flow' = Become(x, "running", n)
      PROVE  FlowMoves /\ AttemptsMove
  <2>1. FlowMoves
    BY <1>2, <1>3, <1>4, <1>5, BecomeMoves DEF FlowStates
  <2>2. At(x, r, n, pc) \in Attempts
        /\ At(x, r, n, pc).exec = x /\ At(x, r, n, pc).pc = pc
    BY <1>3, AtFields
  <2>3. AttemptOK(At(x, r, n, pc))'
    BY <1>2, <1>3, <2>2 DEF AttemptOK, SameAuthority
  <2>. QED BY <1>5, <2>1, <2>2, <2>3 DEF AttemptsMove
<1>6. ASSUME flow' = AfterThrow(x, n), att' = att
      PROVE  FlowMoves /\ AttemptsMove
  BY <1>2, <1>3, <1>4, <1>6, ThrowMoves DEF AttemptsMove
<1>7. FlowMoves /\ AttemptsMove
  BY <1>1, <1>5, <1>6 DEF Run
<1>8. RecordsMove
  BY <1>4 DEF Run, Recording, RecordsMove, Types, RecordedType, Terminal
<1>. QED BY <1>2, <1>4, <1>7, <1>8, WorkflowStep

\* An attempt that throws or completes leaves the others as they are.
LEMMA EndStep ==
  ASSUME Inv, NEW a \in att, Throw(a) \/ Complete(a)
  PROVE  FlowMoves /\ AttemptsMove
  BY AttemptMoves DEF Inv, AttemptsMove

\* A change of which an attempt finds its version stale goes on to search.
LEMMA StaleStep ==
  ASSUME Inv, SameAuthority, NEW a \in att, Stale(a)
  PROVE  FlowMoves /\ AttemptsMove
<1>1. CASE Throw(a)
  BY <1>1, EndStep
<1>2. CASE Goto(a, "search") /\ UNCHANGED flow
  <2>1. PICK b : b = [a EXCEPT !.pc = "search"]
    OBVIOUS
  <2>2. b \in Attempts /\ b.exec = a.exec /\ b.pc = "search"
    BY <2>1, AttemptFields DEF Attempts
  <2>3. AttemptOK(b)'
    BY <2>2, AttemptFields DEF AttemptOK, SameAuthority
  <2>4. FlowMoves
    BY <1>2 DEF Inv, Types, FlowMoves
  <2>. QED BY <1>2, <2>1, <2>2, <2>3, <2>4 DEF AttemptsMove, Goto, Replace
<1>. QED BY <1>1, <1>2 DEF Stale

LEMMA StillFlow ==
  ASSUME Inv, flow' = flow
  PROVE  FlowMoves
  BY DEF Inv, Types, FlowMoves

\* Rows that were read while the version stood are the truth of that version.
LEMMA ReadRowsStep ==
  ASSUME Inv, NEW a \in att, ReadRows(a)
  PROVE  Inv'
<1>1. SameAuthority /\ UNCHANGED <<objects, status, pointer, recorded, op, verified, faults>>
  BY DEF ReadRows, Step, authority, snapshots, commands, SameAuthority
<1>2. Types /\ faults' \in 0 .. MaxFaults
  BY <1>1 DEF Inv, Types
<1>3. PICK v : v = a.exec.version
  OBVIOUS
<1>4. a \in Attempts /\ a.exec \in Executions /\ v \in Versions /\ v <= version
      /\ v \in Int /\ version \in Int
  BY <1>3, AttemptFields DEF AttemptOK
<1>5. PICK at \in [Queries -> v .. version] :
        LET rows == [q \in Queries |-> heads[at[q]]]
            content == Content(rows) IN
        IF Moved(a)
          THEN Stale(a)
          ELSE IF Consistent(rows)
                 THEN /\ Replace(a, [a EXCEPT !.pc = "put", !.content = content,
                                              !.left = Files(content)])
                      /\ UNCHANGED flow
                 ELSE Throw(a)
  BY <1>3 DEF ReadRows, MovedMeanwhile
<1>6. ASSUME Moved(a)
      PROVE  FlowMoves /\ AttemptsMove
  BY <1>1, <1>5, <1>6, StaleStep
<1>7. ASSUME ~Moved(a)
      PROVE  FlowMoves /\ AttemptsMove
  <2>1. version = v
    BY <1>3, <1>7 DEF Moved
  <2>2. \A q \in Queries : at[q] = v
    BY <1>4, <1>5, <2>1
  <2>3. Content([q \in Queries |-> heads[at[q]]]) = Truth(v)
    BY <2>2 DEF Content, Truth, Queries
  <2>4. CASE Throw(a)
    BY <2>4, EndStep
  <2>5. ASSUME Replace(a, [a EXCEPT !.pc = "put", !.content = Truth(v),
                                    !.left = Files(Truth(v))]),
               flow' = flow
        PROVE  FlowMoves /\ AttemptsMove
    <3>1. PICK truth, b : /\ truth = Truth(v)
                          /\ b = [a EXCEPT !.pc = "put", !.content = truth,
                                           !.left = Files(truth)]
      OBVIOUS
    <3>2. truth \in Contents
      <4>1. \A m \in Memories : heads[v][m] \in Nat
        BY <1>2, <1>4, ProjectionAssumption DEF Types
      <4>. QED BY <3>1, <4>1 DEF Truth, Contents
    <3>3. Files(truth) \in SUBSET Names
      BY DEF Files, Names
    <3>4. b \in Attempts /\ b.exec = a.exec /\ b.pc = "put"
          /\ b.content = truth /\ b.left = Files(truth)
      BY <1>4, <3>1, <3>2, <3>3 DEF Attempts
    <3>5. Truth(v)' = truth /\ version' = version
      BY <1>1, <3>1, SameTruth DEF SameAuthority
    <3>6. AttemptOK(b)'
      BY <1>3, <1>4, <3>4, <3>5 DEF AttemptOK
    <3>. QED BY <2>5, <3>1, <3>4, <3>6, StillFlow DEF AttemptsMove, Replace
  <2>. QED BY <1>5, <1>7, <2>3, <2>4, <2>5
<1>. QED BY <1>1, <1>2, <1>6, <1>7, StillRecorded, WorkflowStep

\* What an attempt puts is true, whoever put it first.
LEMMA PutStep ==
  ASSUME Inv, NEW a \in att, Put(a)
  PROVE  Inv'
<1>1. SameAuthority /\ UNCHANGED <<status, pointer, recorded, op, verified, faults>>
  BY DEF Put, Step, authority, commands, SameAuthority
<1>2. Types /\ faults' \in 0 .. MaxFaults
  BY <1>1 DEF Inv, Types
<1>3. PICK v : v = a.exec.version
  OBVIOUS
<1>4. a \in Attempts /\ a.exec \in Executions /\ v \in Versions /\ v <= version
      /\ a.content = Truth(v) /\ Files(Truth(v)) \ a.left \subseteq Stored(v)
      /\ a.try \in 1 .. MaxAttempts /\ a.repair \in 0 .. MaxRepairs
  BY <1>3, AttemptFields DEF AttemptOK, Put, Step
<1>5. PICK file \in NextFiles(a.left) :
        IF Collides(a, file)
          THEN Throw(a) /\ UNCHANGED objects
          ELSE /\ objects' = objects \cup
                    {[version |-> v, file |-> file, body |-> Body(a.content, file)]}
               /\ IF a.left = {file}
                    THEN Replace(a, At(a.exec, a.repair, a.try, "activate"))
                    ELSE Replace(a, [a EXCEPT !.left = @ \ {file}])
               /\ UNCHANGED flow
  BY <1>3 DEF Put
<1>6. CASE Throw(a) /\ UNCHANGED objects
  BY <1>1, <1>2, <1>6, EndStep, StillRecorded, WorkflowStep
<1>7. CASE ~Collides(a, file)
  <2>1. PICK o : o = [version |-> v, file |-> file, body |-> Body(a.content, file)]
    OBVIOUS
  <2>2. objects' = objects \cup {o} /\ flow' = flow
    BY <1>5, <1>7, <2>1
  <2>3. \A u : Truth(u)' = Truth(u)
    BY <1>1, SameTruth
  <2>4. ObjectsOK'
    <3>1. \A p \in objects : p.version \in Versions /\ p.version <= version
            /\ p.body = Body(Truth(p.version), p.file)
      BY DEF Inv, ObjectsOK
    <3>2. o.version = v /\ o.body = Body(Truth(v), o.file)
      BY <1>4, <2>1
    <3>. QED BY <1>1, <1>4, <2>2, <2>3, <3>1, <3>2 DEF ObjectsOK, SameAuthority, Body
  <2>5. Stored(v) \cup {file} \subseteq Stored(v)'
    <3>1. o \in objects' /\ o.version = v /\ o.file = file
      BY <2>1, <2>2
    <3>. QED BY <2>2, <3>1 DEF Stored
  <2>6. Files(Truth(v)') \ (a.left \ {file}) \subseteq Stored(v)'
    BY <1>4, <2>3, <2>5
  <2>7. ASSUME a.left = {file}
        PROVE  AttemptsMove
    <3>1. PICK b : b = At(a.exec, a.repair, a.try, "activate")
      OBVIOUS
    <3>2. b \in Attempts /\ b.exec = a.exec /\ b.pc = "activate"
      BY <1>4, <3>1, AtFields
    <3>3. Whole(v)'
      BY <2>6, <2>7 DEF Whole, Files
    <3>4. AttemptOK(b)'
      BY <1>1, <1>3, <1>4, <3>2, <3>3 DEF AttemptOK, SameAuthority
    <3>. QED BY <1>5, <1>7, <2>7, <3>1, <3>2, <3>4 DEF AttemptsMove, Replace
  <2>8. ASSUME a.left # {file}
        PROVE  AttemptsMove
    <3>1. PICK b : b = [a EXCEPT !.left = @ \ {file}]
      OBVIOUS
    <3>2. b \in Attempts /\ b.exec = a.exec /\ b.pc = "put"
          /\ b.content = a.content /\ b.left = a.left \ {file}
      BY <1>4, <3>1 DEF Attempts, Put, Step
    <3>3. AttemptOK(b)'
      BY <1>1, <1>3, <1>4, <2>3, <2>6, <3>2 DEF AttemptOK, SameAuthority, Files
    <3>. QED BY <1>5, <1>7, <2>8, <3>1, <3>2, <3>3 DEF AttemptsMove, Replace
  <2>9. FlowMoves
    BY <2>2, StillFlow
  <2>. QED BY <1>1, <1>2, <2>2, <2>4, <2>7, <2>8, <2>9, StillRecorded, WorkflowStep
<1>. QED BY <1>5, <1>6, <1>7

\* The pointer moves to the version the project is at, whose objects an attempt
\* has put.
LEMMA ActivateStep ==
  ASSUME Inv, NEW a \in att, Activate(a)
  PROVE  Inv'
<1>1. SameAuthority /\ UNCHANGED <<objects, recorded, op, verified, faults>>
  BY DEF Activate, Step, authority, commands, SameAuthority
<1>2. Types /\ faults' \in 0 .. MaxFaults
  BY <1>1 DEF Inv, Types
<1>3. PICK v : v = a.exec.version
  OBVIOUS
<1>4. a \in Attempts /\ a.exec \in Executions /\ v \in Versions /\ v <= version
      /\ v \in Int /\ version \in Int /\ Whole(v)
  BY <1>3, AttemptFields DEF AttemptOK, Activate, Step
<1>5. CASE Stale(a) /\ UNCHANGED <<status, pointer>>
  BY <1>1, <1>2, <1>5, StaleStep, StillRecorded, WorkflowStep
<1>6. ASSUME v = version,
             status' = [u \in Versions |->
               CASE u = v -> "active"
                 [] u # v /\ status[u] = "active" -> "superseded"
                 [] OTHER -> status[u]],
             pointer' = v,
             NEW pc \in {"search", "recheck"}, Goto(a, pc), flow' = flow
      PROVE  Inv'
  <2>1. FlowMoves
    BY <1>6, StillFlow
  <2>2. AttemptsMove
    <3>1. PICK b : b = [a EXCEPT !.pc = pc]
      OBVIOUS
    <3>2. b \in Attempts /\ b.exec = a.exec /\ b.pc = pc
      BY <1>4, <3>1 DEF Attempts
    <3>3. AttemptOK(b)'
      BY <1>1, <1>3, <1>4, <3>2 DEF AttemptOK, SameAuthority
    <3>. QED BY <1>6, <3>1, <3>2, <3>3 DEF AttemptsMove, Goto, Replace
  <2>3. \A u \in Versions :
          /\ status'[u] \in {"none", "active", "superseded"}
          /\ status'[u] = "active" <=> u = v
          /\ status[u] \in {"active", "superseded"} =>
               status'[u] \in {"active", "superseded"}
    BY <1>2, <1>6 DEF Types
  <2>4. status' \in [Versions -> {"none", "active", "superseded"}]
    BY <1>6, <2>3
  <2>5. \A u : Truth(u)' = Truth(u)
    BY <1>1, SameTruth
  <2>6. \A u \in Versions : Whole(u) => Whole(u)'
    BY <1>1, <2>5, WholeKeeps
  <2>7. ActiveOK'
    <3>1. Whole(v)' /\ v # 0
      BY <1>4, <2>6 DEF Versions
    <3>2. Whole(pointer)'
      BY <1>6, <3>1
    <3>. QED BY <1>4, <1>6, <2>3, <3>1, <3>2 DEF ActiveOK
  <2>8. VerifiedIsProjected'
    <3> SUFFICES ASSUME NEW u \in verified
                 PROVE  /\ pointer' >= u
                        /\ status'[u] \in {"active", "superseded"} /\ Whole(u)'
      BY <1>1 DEF VerifiedIsProjected
    <3>1. u \in Versions /\ pointer \in 0 .. version
      BY <1>2 DEF Types
    <3>2. pointer >= u /\ status[u] \in {"active", "superseded"} /\ Whole(u)
      BY DEF Inv, VerifiedIsProjected
    <3>. QED BY <1>4, <1>6, <2>3, <2>6, <3>1, <3>2 DEF Versions
  <2>9. Types' /\ AttemptsOK' /\ ObjectsOK' /\ FlowOK' /\ RecordsOK' /\ RebuildsOK'
    <3>1. att' \subseteq Attempts
      BY <1>2, <2>2 DEF AttemptsMove, Types
    <3>2. pointer' \in 0 .. version'
      BY <1>1, <1>4, <1>6 DEF SameAuthority, Versions
    <3>3. Types'
      BY <1>1, <1>2, <2>1, <2>4, <3>1, <3>2
      DEF Types, SameAuthority, FlowMoves
    <3>4. att \subseteq Attempts /\ AttemptsOK /\ ObjectsOK /\ FlowOK
          /\ RecordsOK /\ RebuildsOK
      BY <1>2 DEF Inv, Types
    <3>5. \A b \in att : AttemptOK(b)'
      BY <1>1, <1>4, <2>5, <3>4, AttemptsKeep DEF SameAuthority
    <3>6. AttemptsOK'
      BY <2>2, <3>5 DEF AttemptsMove, AttemptsOK
    <3>7. ObjectsOK'
      BY <1>1, <2>5, <3>4 DEF ObjectsOK, SameAuthority, Body
    <3>8. FlowOK' /\ RecordsOK' /\ RebuildsOK'
      BY <1>1, <1>2, <2>1, <3>4, StillRecorded, FlowKeeps DEF SameAuthority
    <3>. QED BY <3>3, <3>6, <3>7, <3>8
  <2>. QED BY <2>7, <2>8, <2>9 DEF Inv
<1>7. \/ Stale(a) /\ UNCHANGED <<status, pointer>>
      \/ /\ v = version
         /\ status' = [u \in Versions |->
              CASE u = v -> "active"
                [] u # v /\ status[u] = "active" -> "superseded"
                [] OTHER -> status[u]]
         /\ pointer' = v
         /\ Goto(a, IF a.exec.kind = "change" THEN "search" ELSE "recheck")
         /\ flow' = flow
  BY <1>3 DEF Activate, IsCurrent
<1>8. (IF a.exec.kind = "change" THEN "search" ELSE "recheck") \in {"search", "recheck"}
  OBVIOUS
<1>. QED BY <1>5, <1>6, <1>7, <1>8

LEMMA FinalStep ==
  ASSUME Inv, NEW a \in att, Recheck(a) \/ Return(a)
  PROVE  Inv'
<1>1. SameAuthority /\ UNCHANGED <<objects, status, pointer, recorded, op, verified, faults>>
  BY DEF Recheck, Return, Step, authority, snapshots, commands, SameAuthority
<1>2. faults' \in 0 .. MaxFaults
  BY <1>1 DEF Inv, Types
<1>3. Throw(a) \/ Complete(a)
  BY DEF Recheck, Return
<1>. QED BY <1>1, <1>2, <1>3, EndStep, StillRecorded, WorkflowStep

LEMMA FaultStep ==
  ASSUME Inv, NEW a \in att, Die(a) \/ TimeOut(a)
  PROVE  Inv'
<1>1. SameAuthority /\ UNCHANGED <<objects, status, pointer, recorded, op, verified>>
  BY DEF Die, TimeOut, authority, snapshots, commands, SameAuthority
<1>2. Types
  BY DEF Inv
<1>3. faults' \in 0 .. MaxFaults
  BY <1>2, ProjectionAssumption DEF Die, TimeOut, Types
<1>4. CASE Die(a)
  BY <1>1, <1>3, <1>4, EndStep, StillRecorded, WorkflowStep DEF Die
<1>5. CASE TimeOut(a)
  <2>1. flow[a.exec].state \in {"queued", "retry", "running"}
    BY <1>5 DEF TimeOut, Current
  <2>2. flow' = AfterThrow(a.exec, a.try) /\ att' = att
    BY <1>5 DEF TimeOut
  <2>3. FlowMoves
    BY <1>2, <2>1, <2>2, ThrowMoves, AttemptFields
  <2>. QED BY <1>1, <1>3, <2>2, <2>3, StillRecorded, WorkflowStep DEF AttemptsMove
<1>. QED BY <1>4, <1>5

\* An instance ends, its end is recorded, or it is repaired.
LEMMA InstanceSteps ==
  ASSUME Inv,
         \/ \E x \in Executions : Finish(x) \/ Err(x) \/ Repair(x)
         \/ \E x \in Rebuilds : RecordFailure(x)
  PROVE  Inv'
<1>1. PICK x \in Executions : Finish(x) \/ Err(x) \/ Repair(x) \/ RecordFailure(x)
  BY DEF Rebuilds
<1>2. SameAuthority /\ UNCHANGED <<objects, status, pointer, att, op, verified>>
  BY <1>1 DEF Finish, Err, Repair, RecordFailure, InstanceStep, authority, snapshots,
              commands, SameAuthority
<1>3. Types /\ FlowOK /\ flow \in FlowType /\ recorded \in RecordedType
  BY DEF Inv, Types
<1>4. faults' \in 0 .. MaxFaults
  <2>1. faults' = faults \/ (faults < MaxFaults /\ faults' = faults + 1)
    BY <1>1 DEF Finish, Err, Repair, RecordFailure
  <2>. QED BY <1>3, <2>1, ProjectionAssumption DEF Types
<1>5. FlowMoves /\ RecordsMove
  <2>1. ASSUME NEW state \in Terminal, flow' = Become(x, state, 0),
               flow[x].state \in {"queued", "retry", "running", "done"},
               recorded' \in {recorded, Recording(x, "complete")}
        PROVE  FlowMoves /\ RecordsMove
    <3>1. FlowMoves /\ flow'[x].state = state
      BY <1>3, <2>1, BecomeMoves, ProjectionAssumption DEF Terminal, FlowStates
    <3>2. EndedOnce(x)'
      BY <3>1 DEF EndedOnce
    <3>3. RecordsMove
      BY <1>3, <2>1, <3>2 DEF RecordsMove, Recording, RecordedType, Terminal
    <3>. QED BY <3>1, <3>3
  <2>2. CASE Finish(x)
    BY <2>1, <2>2 DEF Finish, Terminal
  <2>3. CASE Err(x)
    BY <2>1, <2>3 DEF Err, Terminal
  <2>4. CASE Repair(x)
    <3>1. PICK n, f : n = flow[x].repair + 1
                      /\ f = [flow[x] EXCEPT !.state = "queued", !.repair = n]
      OBVIOUS
    <3>2. flow' = [flow EXCEPT ![x] = f] /\ flow[x].state = "failed"
          /\ flow[x].repair < MaxRepairs
      BY <2>4, <3>1 DEF Repair
    <3>3. /\ f \in [state : FlowStates, tries : 0 .. MaxAttempts, repair : 0 .. MaxRepairs]
          /\ f.state = "queued" /\ f.tries = flow[x].tries /\ f.repair = flow[x].repair + 1
      <4>1. n \in 0 .. MaxRepairs
        BY <1>3, <3>1, <3>2, ProjectionAssumption DEF FlowType
      <4>. QED BY <1>3, <3>1, <4>1 DEF FlowType, FlowStates
    <3>4. /\ flow' \in FlowType /\ flow'[x] = f
          /\ \A y \in Executions \ {x} : flow'[y] = flow[y]
      BY <1>3, <3>2, <3>3 DEF FlowType
    <3>5. flow[x].tries < MaxAttempts /\ flow[x].repair \in Nat
      BY <1>3, <3>2 DEF FlowOK, FlowType
    <3>6. EndedOnce(x)'
      BY <3>3, <3>4, <3>5 DEF EndedOnce
    <3>7. FlowChange(x)
      BY <3>2, <3>3, <3>4, <3>5, <3>6 DEF FlowChange
    <3>. QED BY <2>4, <3>4, <3>7, StillRecorded DEF FlowMoves, Repair
  <2>5. CASE RecordFailure(x)
    <3>1. flow' = flow /\ recorded' = [recorded EXCEPT ![x] = "failed"]
          /\ flow[x].state = "failed"
      BY <2>5 DEF RecordFailure
    <3>2. EndedOnce(x)'
      BY <3>1 DEF EndedOnce, Terminal
    <3>3. RecordsMove
      BY <1>3, <3>1, <3>2 DEF RecordsMove, RecordedType, Terminal
    <3>. QED BY <3>1, <3>3, StillFlow
  <2>. QED BY <1>1, <2>2, <2>3, <2>4, <2>5
<1>. QED BY <1>2, <1>4, <1>5, WorkflowStep DEF AttemptsMove

-----------------------------------------------------------------------------
(* Commits and commands *)

\* What a command leaves alone
LEMMA CommandKeeps ==
  ASSUME Inv, SameAuthority, UNCHANGED <<objects, status, pointer, recorded, att, faults>>
  PROVE  /\ AttemptsOK' /\ ActiveOK' /\ ObjectsOK'
         /\ verified' = verified => VerifiedIsProjected'
<1>1. Types /\ AttemptsOK /\ ObjectsOK /\ ActiveOK /\ VerifiedIsProjected
      /\ att \subseteq Attempts /\ version \in Int
  BY DEF Inv, Types, Versions
<1>2. version' = version /\ \A v : Truth(v)' = Truth(v)
  BY SameTruth DEF SameAuthority
<1>3. \A a \in att : AttemptOK(a)'
  BY <1>1, <1>2, AttemptsKeep
<1>4. AttemptsOK'
  BY <1>3 DEF AttemptsOK
<1>5. ObjectsOK'
  BY <1>1, <1>2 DEF ObjectsOK, Body
<1>6. \A v \in Versions : Whole(v) => Whole(v)'
  BY <1>2, WholeKeeps
<1>7. ActiveOK'
  <2>1. CASE pointer = 0
    BY <1>1, <2>1 DEF ActiveOK
  <2>2. CASE pointer # 0
    <3>1. PICK p : p = pointer
      OBVIOUS
    <3>2. p \in Versions /\ Whole(p)
      BY <1>1, <2>2, <3>1 DEF ActiveOK, Types, Versions
    <3>3. Whole(pointer)'
      BY <1>6, <3>1, <3>2
    <3>. QED BY <1>1, <3>3 DEF ActiveOK
  <2>. QED BY <2>1, <2>2
<1>8. ASSUME verified' = verified
      PROVE  VerifiedIsProjected'
  BY <1>1, <1>6, <1>8 DEF VerifiedIsProjected, Types
<1>. QED BY <1>4, <1>5, <1>7, <1>8

\* A command plans the first rebuild of the version, or the one after the
\* latest if that has ended; or it has read that the latest is complete.
LEMMA PlanStep ==
  ASSUME Inv, NEW o \in Operators, PlanFirst(o) \/ PlanResume(o) \/ ReadOutcome(o)
  PROVE  Inv'
<1>1. SameAuthority /\ UNCHANGED <<objects, status, pointer, recorded, att, faults, flow, verified>>
  BY DEF PlanFirst, PlanResume, ReadOutcome, CommandStep, authority, snapshots,
         SameAuthority
<1>2. Types /\ RecordsOK /\ RebuildsOK /\ FlowOK /\ version \in Versions
  BY DEF Inv, Types
<1>3. \A v \in Versions :
        Latest(v) \subseteq Ordinals(v) /\ Ordinals(v) \subseteq 0 .. MaxOrdinal
  BY DEF Latest, Ordinals
<1>4. \E pc \in {"planned", "settled"}, n \in 0 .. MaxOrdinal :
        /\ op' = [op EXCEPT ![o] = [pc |-> pc, version |-> version, ordinal |-> n]]
        /\ pc = "planned" => Settled(version, n)
  <2>1. CASE PlanFirst(o)
    <3>1. Settled(version, 0)
      BY DEF Settled
    <3>2. op' = [op EXCEPT ![o] = [pc |-> "planned", version |-> version, ordinal |-> 0]]
      BY <2>1 DEF PlanFirst, Say
    <3>3. 0 \in 0 .. MaxOrdinal
      BY ProjectionAssumption
    <3>. QED BY <3>1, <3>2, <3>3
  <2>2. CASE PlanResume(o)
    <3>1. PICK n \in Latest(version) :
            /\ recorded[Rebuild(version, n)] \in Terminal
            /\ n < MaxOrdinal
            /\ Say(o, "planned", version, n + 1)
      BY <2>2 DEF PlanResume, Resumable
    <3>2. n \in Ordinals(version) /\ n \in 0 .. MaxOrdinal
      BY <1>2, <1>3, <3>1
    <3>3. Settled(version, n)
      BY <1>2, <3>2 DEF RebuildsOK
    <3>4. n + 1 \in 0 .. MaxOrdinal
      BY <3>1, <3>2, ProjectionAssumption
    <3>5. Settled(version, n + 1)
      <4>1. \A k \in 0 .. (n + 1) - 1 : k \in 0 .. n - 1 \/ k = n
        BY <3>2
      <4>2. EndedOnce(Rebuild(version, n))
        BY <1>2, <3>1, <3>2, ExecutionFields DEF RecordsOK
      <4>. QED BY <3>3, <4>1, <4>2 DEF Settled
    <3>6. op' = [op EXCEPT ![o] = [pc |-> "planned", version |-> version,
                                   ordinal |-> n + 1]]
      BY <3>1 DEF Say
    <3>. QED BY <3>4, <3>5, <3>6
  <2>3. CASE ReadOutcome(o)
    <3>1. PICK n \in Latest(version) : Say(o, "settled", version, n)
      BY <2>3 DEF ReadOutcome
    <3>2. n \in 0 .. MaxOrdinal
      BY <1>2, <1>3, <3>1
    <3>. QED BY <3>1, <3>2 DEF Say
  <2>. QED BY <2>1, <2>2, <2>3
<1>5. Types'
  BY <1>1, <1>2, <1>4 DEF Types, SameAuthority, Versions
<1>6. FlowOK'
  BY <1>1, <1>2 DEF FlowOK, SameAuthority
<1>7. RecordsOK' /\ RebuildsOK'
  <2>0. RecordsOK'
    BY <1>1, <1>2 DEF RecordsOK, EndedOnce
  <2>1. \A v, n : Settled(v, n)' = Settled(v, n)
    BY <1>1 DEF Settled, EndedOnce
  <2>2. \A v : Ordinals(v)' = Ordinals(v)
    BY <1>1 DEF Ordinals
  <2>3. \A v \in Versions : \A n \in Ordinals(v)' : Settled(v, n)'
    BY <1>2, <2>1, <2>2 DEF RebuildsOK
  <2>4. ASSUME NEW q \in Operators
        PROVE  /\ op'[q].pc = "planned" =>
                    op'[q].version \in Versions /\ Settled(op'[q].version, op'[q].ordinal)
               /\ op'[q].pc = "settled" => op'[q].version \in Versions
    <3>1. CASE q = o
      BY <1>2, <1>4, <3>1 DEF Types
    <3>2. CASE q # o
      <4>1. op'[q] = op[q]
        BY <1>2, <1>4, <3>2 DEF Types
      <4>. QED BY <1>2, <4>1 DEF RebuildsOK
    <3>. QED BY <3>1, <3>2
  <2>5. \A q \in Operators : op'[q].pc = "planned" =>
          (op[q].version \in Versions /\ Settled(op[q].version, op[q].ordinal))'
    BY <1>1, <2>4 DEF Settled, EndedOnce
  <2>. QED BY <2>0, <2>3, <2>4, <2>5 DEF RebuildsOK
<1>. QED BY <1>1, <1>5, <1>6, <1>7, CommandKeeps DEF Inv

\* The event a command inserts is of the version the project is at; those of
\* the rebuilds before it have ended.
LEMMA EnqueueStep ==
  ASSUME Inv, NEW o \in Operators, Enqueue(o)
  PROVE  Inv'
<1>1. SameAuthority /\ UNCHANGED <<objects, status, pointer, recorded, att, faults, verified>>
  BY DEF Enqueue, CommandStep, authority, snapshots, SameAuthority
<1>2. Types /\ RecordsOK /\ RebuildsOK /\ FlowOK /\ version \in Versions
  BY DEF Inv, Types
<1>3. PICK v, n : v = op[o].version /\ n = op[o].ordinal
  OBVIOUS
<1>4. v \in Versions /\ n \in 0 .. MaxOrdinal /\ Settled(v, n)
  BY <1>2, <1>3 DEF Enqueue, CommandStep, RebuildsOK, Types
<1>5. PICK x : x = Rebuild(v, n)
  OBVIOUS
<1>6. x \in Executions /\ x.version = v
  BY <1>4, <1>5, ExecutionFields DEF Rebuild
<1>7. \/ flow' = flow
      \/ /\ v = version /\ flow[x].state = "none"
         /\ flow' = [flow EXCEPT ![x].state = "queued"]
  BY <1>3, <1>5 DEF Enqueue, Queued
<1>8. op' = [op EXCEPT ![o] = Idle]
  BY DEF Enqueue, Quit
<1>9. flow' \in FlowType
  <2>1. flow \in FlowType
    BY <1>2 DEF Types
  <2>. QED BY <1>6, <1>7, <2>1 DEF FlowType, FlowStates
<1>10. /\ \A y \in Executions : y # x => flow'[y] = flow[y]
       /\ flow'[x] = flow[x] \/
            (flow[x].state = "none" /\ flow'[x].state = "queued"
              /\ flow'[x].tries = flow[x].tries /\ flow'[x].repair = flow[x].repair
              /\ x.version <= version)
  BY <1>2, <1>6, <1>7 DEF Types, FlowType, Versions
<1>11. FlowOK'
  BY <1>1, <1>2, <1>10 DEF FlowOK, SameAuthority
<1>12. Types'
  BY <1>1, <1>2, <1>8, <1>9, ProjectionAssumption
  DEF Types, SameAuthority, Idle
<1>13. RecordsOK' /\ RebuildsOK'
  <2>1. \A y \in Executions : EndedOnce(y) => EndedOnce(y)'
    BY <1>10 DEF EndedOnce, Terminal
  <2>0. RecordsOK'
    BY <1>1, <1>2, <2>1 DEF RecordsOK, Rebuilds
  <2>2. \A u \in Versions, k \in 0 .. MaxOrdinal : Settled(u, k) => Settled(u, k)'
    BY <2>1, ExecutionFields, ProjectionAssumption DEF Settled
  <2>3. ASSUME NEW u \in Versions, NEW k \in Ordinals(u)'
        PROVE  Settled(u, k)'
    <3>1. k \in 0 .. MaxOrdinal /\ Rebuild(u, k) \in Executions
      BY <2>3, ExecutionFields DEF Ordinals
    <3>2. CASE Rebuild(u, k) = x
      <4>1. u = v /\ k = n
        BY <1>5, <3>2 DEF Rebuild
      <4>. QED BY <1>4, <2>2, <4>1
    <3>3. CASE Rebuild(u, k) # x
      <4>1. k \in Ordinals(u)
        BY <1>10, <2>3, <3>1, <3>3 DEF Ordinals
      <4>. QED BY <1>2, <2>2, <3>1, <4>1 DEF RebuildsOK
    <3>. QED BY <3>2, <3>3
  <2>4. ASSUME NEW q \in Operators, op'[q].pc # "idle"
        PROVE  op'[q] = op[q]
    BY <1>2, <1>8, <2>4 DEF Types, Idle
  <2>5. ASSUME NEW q \in Operators, op'[q].pc = "planned"
        PROVE  (op[q].version \in Versions /\ Settled(op[q].version, op[q].ordinal))'
    <3>1. PICK u, k : u = op[q].version /\ k = op[q].ordinal
      OBVIOUS
    <3>2. op'[q] = op[q] /\ op[q].pc = "planned"
      BY <2>4, <2>5
    <3>3. u \in Versions /\ k \in 0 .. MaxOrdinal /\ Settled(u, k)
      BY <1>2, <3>1, <3>2 DEF RebuildsOK, Types
    <3>4. Settled(u, k)'
      BY <2>2, <3>3
    <3>. QED BY <3>1, <3>2, <3>3, <3>4 DEF Settled, EndedOnce
  <2>6. \A q \in Operators : op'[q].pc = "settled" => op'[q].version \in Versions
    BY <1>2, <2>4 DEF RebuildsOK
  <2>. QED BY <2>0, <2>3, <2>5, <2>6 DEF RebuildsOK
<1>. QED BY <1>1, <1>11, <1>12, <1>13, CommandKeeps DEF Inv

\* What a command verifies is the active snapshot, which is whole.
LEMMA VerifyStep ==
  ASSUME Inv, NEW o \in Operators, Verify(o)
  PROVE  Inv'
<1>1. SameAuthority /\ UNCHANGED <<objects, status, pointer, recorded, att, faults, flow>>
  BY DEF Verify, CommandStep, authority, snapshots, SameAuthority
<1>2. Types /\ RecordsOK /\ RebuildsOK /\ FlowOK /\ ActiveOK /\ VerifiedIsProjected
  BY DEF Inv
<1>3. op' = [op EXCEPT ![o] = Idle]
  BY DEF Verify, Quit
<1>4. PICK v : v = op[o].version
  OBVIOUS
<1>5. v \in Versions
  BY <1>2, <1>4 DEF Verify, CommandStep, RebuildsOK
<1>6. verified' = verified \/
        (verified' = verified \cup {v} /\ pointer = v /\ status[v] = "active")
  BY <1>4 DEF Verify
<1>7. Types'
  BY <1>1, <1>2, <1>3, <1>5, <1>6, ProjectionAssumption DEF Types, SameAuthority, Idle
<1>8. FlowOK'
  BY <1>1, <1>2 DEF FlowOK, SameAuthority
<1>9. RecordsOK' /\ RebuildsOK'
  <2>0. RecordsOK'
    BY <1>1, <1>2 DEF RecordsOK, EndedOnce
  <2>1. \A u, n : Settled(u, n)' = Settled(u, n)
    BY <1>1 DEF Settled, EndedOnce
  <2>2. \A u : Ordinals(u)' = Ordinals(u)
    BY <1>1 DEF Ordinals
  <2>3. \A u \in Versions : \A n \in Ordinals(u)' : Settled(u, n)'
    BY <1>2, <2>1, <2>2 DEF RebuildsOK
  <2>4. \A q \in Operators : op'[q].pc # "idle" => op'[q] = op[q]
    BY <1>2, <1>3 DEF Types, Idle
  <2>5. \A q \in Operators : op'[q].pc = "planned" =>
          op'[q].version \in Versions /\ Settled(op'[q].version, op'[q].ordinal)
    BY <1>2, <2>4 DEF RebuildsOK
  <2>6. \A q \in Operators : op'[q].pc = "planned" =>
          (op[q].version \in Versions /\ Settled(op[q].version, op[q].ordinal))'
    BY <1>1, <2>5 DEF Settled, EndedOnce
  <2>7. \A q \in Operators : op'[q].pc = "settled" => op'[q].version \in Versions
    BY <1>2, <2>4 DEF RebuildsOK
  <2>. QED BY <2>0, <2>3, <2>6, <2>7 DEF RebuildsOK
<1>10. VerifiedIsProjected'
  <2>1. \A u \in verified' : /\ pointer >= u
                             /\ status[u] \in {"active", "superseded"} /\ Whole(u)
    <3>1. CASE verified' = verified
      BY <1>2, <3>1 DEF VerifiedIsProjected
    <3>2. CASE verified' = verified \cup {v} /\ pointer = v /\ status[v] = "active"
      <4>1. v # 0 /\ v \in Int
        BY <1>5 DEF Versions
      <4>2. Whole(v)
        <5>1. Whole(pointer)
          BY <1>2, <3>2, <4>1 DEF ActiveOK
        <5>. QED BY <3>2, <5>1
      <4>. QED BY <1>2, <3>2, <4>1, <4>2 DEF VerifiedIsProjected
    <3>. QED BY <1>6, <3>1, <3>2
  <2>2. \A u : Whole(u) => Whole(u)'
    BY <1>1, SameTruth, WholeKeeps
  <2>. QED BY <1>1, <2>1, <2>2 DEF VerifiedIsProjected
<1>. QED BY <1>1, <1>7, <1>8, <1>9, <1>10, CommandKeeps DEF Inv

\* A commit touches no version before it; its own change was never enqueued.
LEMMA CommitStep ==
  ASSUME Inv, NEW row \in [Memories -> 0 .. MaxVersion],
         version < MaxVersion, version' = version + 1,
         heads' = [heads EXCEPT ![version + 1] = row],
         changes' \subseteq changes \cup {version + 1},
         flow' = flow \/ flow' = Queued(Change(version + 1)),
         UNCHANGED <<objects, status, pointer, recorded, att, op, verified, faults>>
  PROVE  Inv'
<1>1. Types /\ FlowOK /\ ObjectsOK /\ AttemptsOK /\ ActiveOK /\ RecordsOK /\ RebuildsOK
      /\ VerifiedIsProjected /\ att \subseteq Attempts
  BY DEF Inv, Types
<1>2. /\ version \in Int /\ version' \in Versions /\ version < version'
      /\ version' \in Int /\ version \in 1 .. MaxVersion
  BY <1>1, ProjectionAssumption DEF Types, Versions
<1>3. \A v \in Versions : v <= version => Truth(v)' = Truth(v)
  BY <1>1, CommitKeepsTruth
<1>4. PICK x : x = Change(version')
  OBVIOUS
<1>5. x \in Executions /\ x.version = version'
  BY <1>2, <1>4, ExecutionFields DEF Change
<1>6. flow[x].state = "none"
  BY <1>1, <1>2, <1>5 DEF FlowOK
<1>7. flow' = flow \/ flow' = [flow EXCEPT ![x].state = "queued"]
  BY <1>4 DEF Queued
<1>8. flow' \in FlowType
  <2>1. flow \in FlowType
    BY <1>1 DEF Types
  <2>. QED BY <1>5, <1>7, <2>1 DEF FlowType, FlowStates
<1>9. /\ \A y \in Executions : y # x => flow'[y] = flow[y]
      /\ flow'[x] = flow[x] \/
           (flow'[x].state = "queued" /\ flow'[x].tries = flow[x].tries)
  BY <1>1, <1>5, <1>7 DEF Types, FlowType
<1>10. Types'
  <2>1. heads' \in [Versions -> [Memories -> 0 .. MaxVersion]]
    BY <1>1, <1>2 DEF Types
  <2>2. changes' \subseteq 1 .. version' /\ pointer' \in 0 .. version'
    BY <1>1, <1>2 DEF Types
  <2>. QED BY <1>1, <1>2, <1>8, <2>1, <2>2 DEF Types
<1>11. FlowOK'
  <2> SUFFICES ASSUME NEW y \in Executions
               PROVE  /\ flow'[y].state # "none" => y.version <= version'
                      /\ flow'[y].state \in {"none", "queued", "retry", "failed"} =>
                           flow'[y].tries < MaxAttempts
    BY DEF FlowOK
  <2>1. CASE flow'[y] = flow[y]
    BY <1>1, <1>2, <2>1, ExecutionFields DEF FlowOK, Versions
  <2>2. CASE flow'[y] # flow[y]
    BY <1>1, <1>2, <1>5, <1>6, <1>9, <2>2 DEF FlowOK
  <2>. QED BY <2>1, <2>2
<1>12. RebuildsOK'
  <2>1. \A v \in Versions, n \in 0 .. MaxOrdinal :
          Rebuild(v, n) \in Executions /\ Rebuild(v, n) # x
    BY <1>2, <1>4, ExecutionFields
  <2>2. \A v \in Versions, n \in 0 .. MaxOrdinal :
          flow'[Rebuild(v, n)] = flow[Rebuild(v, n)]
    BY <1>9, <2>1
  <2>3. \A v \in Versions, n \in 0 .. MaxOrdinal :
          /\ EndedOnce(Rebuild(v, n)) => EndedOnce(Rebuild(v, n))'
          /\ flow'[Rebuild(v, n)].state # "none" => flow[Rebuild(v, n)].state # "none"
    BY <2>2 DEF EndedOnce
  <2>. QED BY <1>1, <2>3, RebuildsKeep
<1>15. RecordsOK'
  <2>1. \A y \in Rebuilds : y \in Executions /\ y # x
    BY <1>4 DEF Rebuilds, Change
  <2>2. \A y \in Rebuilds : EndedOnce(y) => EndedOnce(y)'
    BY <1>9, <2>1 DEF EndedOnce
  <2>. QED BY <1>1, <2>2 DEF RecordsOK
<1>13. AttemptsOK'
  <2>1. \A a \in att : AttemptOK(a)'
    BY <1>1, <1>2, <1>3, AttemptsKeep
  <2>. QED BY <2>1 DEF AttemptsOK
<1>14. ActiveOK' /\ VerifiedIsProjected' /\ ObjectsOK'
  BY <1>1, <1>2, <1>3, SnapshotsKeep
<1>. QED BY <1>10, <1>11, <1>12, <1>13, <1>14, <1>15 DEF Inv

-----------------------------------------------------------------------------
(* The invariant and its consequences *)

LEMMA InitInv == Init => Inv
<1> SUFFICES ASSUME Init PROVE Inv
  OBVIOUS
<1>0. 1 \in Versions /\ version = 1 /\ faults = 0 /\ MaxVersion \in Nat /\ MaxRepairs \in Nat
      /\ MaxAttempts \in Nat \ {0} /\ MaxFaults \in Nat /\ MaxOrdinal \in Nat
  BY ProjectionAssumption DEF Init, Versions
<1>1. Types
  <2>1. heads \in [Versions -> [Memories -> 0 .. MaxVersion]]
    <3>1. PICK m \in Memories :
            heads = [v \in Versions |->
                       IF v = 1 THEN [NoRows EXCEPT ![m] = 1] ELSE NoRows]
      BY DEF Init
    <3>2. NoRows \in [Memories -> 0 .. MaxVersion]
      BY <1>0 DEF NoRows
    <3>3. 1 \in 0 .. MaxVersion
      BY <1>0 DEF Versions
    <3>4. [NoRows EXCEPT ![m] = 1] \in [Memories -> 0 .. MaxVersion]
      BY <3>2, <3>3
    <3>. QED BY <3>1, <3>2, <3>4
  <2>2. flow \in FlowType
    <3>1. \A x \in Executions :
            [state |-> IF x = Change(1) THEN "queued" ELSE "none", tries |-> 0, repair |-> 0]
              \in [state : FlowStates, tries : 0 .. MaxAttempts, repair : 0 .. MaxRepairs]
      BY <1>0 DEF FlowStates
    <3>. QED BY <3>1 DEF Init, FlowType
  <2>3. op \in [Operators -> [pc : {"idle", "planned", "settled"},
                              version : 0 .. MaxVersion, ordinal : 0 .. MaxOrdinal]]
    BY <1>0 DEF Init, Idle
  <2>4. recorded \in RecordedType
    BY DEF Init, RecordedType
  <2>. QED BY <1>0, <2>1, <2>2, <2>3, <2>4 DEF Types, Init
<1>2. FlowOK
  <2>1. \A x \in Executions : flow[x].tries = 0
          /\ flow[x].state = IF x = Change(1) THEN "queued" ELSE "none"
    BY DEF Init
  <2>2. Change(1).version = 1
    BY DEF Change
  <2>. QED BY <1>0, <2>1, <2>2 DEF FlowOK
<1>3. ObjectsOK /\ AttemptsOK /\ VerifiedIsProjected
  BY DEF Init, ObjectsOK, AttemptsOK, VerifiedIsProjected
<1>4. ActiveOK
  BY DEF Init, ActiveOK
<1>5. RebuildsOK
  <2>1. \A v \in Versions, n \in 0 .. MaxOrdinal : flow[Rebuild(v, n)].state = "none"
    BY <1>0, ExecutionFields DEF Init
  <2>2. \A v \in Versions : Ordinals(v) = {}
    BY <2>1 DEF Ordinals
  <2>3. \A o \in Operators : op[o].pc = "idle"
    BY DEF Init, Idle
  <2>. QED BY <2>2, <2>3 DEF RebuildsOK
<1>6. RecordsOK
  BY DEF Init, RecordsOK, Terminal
<1>. QED BY <1>1, <1>2, <1>3, <1>4, <1>5, <1>6 DEF Inv

LEMMA NextInv == Inv /\ [Next]_vars => Inv'
<1> SUFFICES ASSUME Inv, [Next]_vars PROVE Inv'
  OBVIOUS
<1>1. version \in Versions /\ version \in Int
      /\ heads[version] \in [Memories -> 0 .. MaxVersion]
  BY DEF Inv, Types, Versions
<1>2. ASSUME NEW m \in Memories, Mutate(m, version + 1) \/ Mutate(m, 0)
      PROVE  Inv'
  <2>1. PICK revision : Mutate(m, revision) /\ revision \in {version + 1, 0}
    BY <1>2
  <2>2. PICK row : row = [heads[version] EXCEPT ![m] = revision]
    OBVIOUS
  <2>3. version < MaxVersion
    BY <2>1 DEF Mutate
  <2>4. revision \in 0 .. MaxVersion
    BY <1>1, <2>1, <2>3, ProjectionAssumption DEF Versions
  <2>5. row \in [Memories -> 0 .. MaxVersion]
    BY <1>1, <2>2, <2>4
  <2>. QED BY <2>1, <2>2, <2>3, <2>5, CommitStep DEF Mutate, snapshots, commands
<1>3. CASE Review
  <2>1. PICK row : row = heads[version]
    OBVIOUS
  <2>. QED BY <1>1, <1>3, <2>1, CommitStep DEF Review, snapshots, commands
<1>4. CASE Engine
  BY <1>4, RunStep, ReadRowsStep, PutStep, ActivateStep, FinalStep, InstanceSteps DEF Engine
<1>5. CASE \E a \in att : Die(a) \/ TimeOut(a)
  BY <1>5, FaultStep
<1>8. CASE \/ \E x \in Executions : Err(x) \/ Repair(x)
           \/ \E x \in Rebuilds : RecordFailure(x)
  BY <1>8, InstanceSteps
<1>6. CASE \E o \in Operators : Command(o)
  BY <1>6, PlanStep, EnqueueStep, VerifyStep DEF Command
<1>7. CASE UNCHANGED vars
  <2>1. SameAuthority /\ op' = op /\ verified' = verified /\ flow' = flow /\ att' = att
        /\ UNCHANGED <<objects, status, pointer, recorded, faults>>
    BY <1>7 DEF vars, authority, snapshots, commands, SameAuthority
  <2>2. faults' \in 0 .. MaxFaults
    BY <2>1 DEF Inv, Types
  <2>. QED BY <2>1, <2>2, StillFlow, StillRecorded, WorkflowStep DEF AttemptsMove
<1>. QED BY <1>2, <1>3, <1>4, <1>5, <1>6, <1>7, <1>8 DEF Next

THEOREM Invariance == Spec => []Inv
  BY InitInv, NextInv, PTL DEF Spec

LEMMA InvImplies == Inv => ActiveIsWhole /\ OnlyRepairsOverlap /\ VerifiedIsProjected
<1> SUFFICES ASSUME Inv PROVE ActiveIsWhole /\ OnlyRepairsOverlap /\ VerifiedIsProjected
  OBVIOUS
<1>1. TypeOK
  BY DEF Inv, Types, FlowType, RecordedType, TypeOK, Attempts
<1>2. ActiveIsWhole
  BY <1>1 DEF Inv, ActiveOK, ObjectsOK, ActiveIsWhole
<1>3. OnlyRepairsOverlap
  BY DEF Inv, RebuildsOK, Settled, OnlyRepairsOverlap
<1>. QED BY <1>2, <1>3 DEF Inv

\* Whatever attempts die, overlap or outlive their timers, and whenever commits
\* fall between two of their steps, a reader who follows the pointer finds one
\* active snapshot, whole and true.
THEOREM SnapshotsAreTrue == Spec => []ActiveIsWhole
  BY Invariance, InvImplies, PTL

\* The commands decide on what D1 records, and a rebuild recorded as failed may be
\* repaired beside a later one.  Yet any number of operators that enqueue and
\* resume at once, on histories however old, never start a rebuild beside one
\* that has not ended once: what overlaps a later rebuild is a repair.
THEOREM OnlyRepairsMayOverlap == Spec => []OnlyRepairsOverlap
  BY Invariance, InvImplies, PTL

\* What a verify command has reported stays projected until a later version is.
THEOREM VerifiedStays == Spec => []VerifiedIsProjected
  BY Invariance, InvImplies, PTL
=============================================================================
