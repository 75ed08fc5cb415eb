------------------------- MODULE ExternalJobsProofs -------------------------
(***************************************************************************)
(* Proofs about ExternalJobs: for any targets, attempts and claims, a      *)
(* tracked job is submitted under one set of instructions, its checkpoint  *)
(* tells the truth and never goes back, and unresolved remote work stays   *)
(* within reach.                                                           *)
(***************************************************************************)
EXTENDS ExternalJobs, FiniteSetTheorems, TLAPS

-----------------------------------------------------------------------------
(***************************************************************************)
(* The inductive invariant.                                                *)
(***************************************************************************)

\* The lease is on an active attempt, and executions are told apart by their
\* tokens, none of which is newer than the last claim.
LeaseInv ==
    /\ lease.token # 0 => runs[lease.attempt] \in Active
    /\ lease.token <= claims
    /\ \A e \in execs : e.token <= claims
    /\ \A e, f \in execs : e.token = f.token => e = f

\* A checkpoint with its snapshot; compaction removes it.
Full(j) == j # NoRow /\ ~j.compacted

\* Nothing of a job exists before its row.
IntentFirst == row = NoRow => posted = {} /\ rec = NoRequest

\* A target recorded in the row, in a copy of it that somebody holds, or sent.
Recorded(t) ==
    \/ t \in posted
    \/ Full(row) /\ row.target = t
    \/ \E e \in execs : Full(e.job) /\ e.job.target = t
    \/ rec # NoRequest /\ rec.expected.target = t

\* There is one snapshot of the target.
OneSnapshot == \A t, u \in Targets : Recorded(t) /\ Recorded(u) => t = u

\* Work at a runner came by a submission.
SentFirst == \A o \in Origins : remote[o] # Runner!NoJob => remote[o].req \in posted

\* A checkpoint says no more than its runner: until the runner's ID is known
\* it is an intent.
TruthAt(jobs, j) ==
    /\ j.target \in Targets
    /\ j.known =>
        LET r == jobs[j.target.origin] IN
        /\ r # Runner!NoJob
        /\ Rank(j.status) <= Rank(r.status)
        /\ j.status \in Resolved => r.status = j.status
    /\ ~j.known => j.status = "submitting"

Truthful(j) == TruthAt(remote, j)

\* A row is compacted when its job is resolved and all its history is gone;
\* an unresolved one has a run left.
RowKept ==
    /\ row # NoRow /\ row.compacted =>
        row.status \in Resolved /\ \A a \in Attempts : runs[a] \in {"none", "pruned"}
    /\ row.status \in Unresolved => \E a \in Attempts : runs[a] \notin {"none", "pruned"}

\* A run's success is the row's, which stays resolved.
SuccessRecorded == \A a \in Attempts : runs[a] = "succeeded" => row.status = "succeeded"

\* What an execution holds at each step.
StepInv(e) ==
    /\ e.pc \in {"load", "intent"} => e.job = NoRow
    /\ e.pc = "register" => e.job = NoRow \/ Full(e.job)
    /\ e.pc \in {"post", "posted", "poll"} => Full(e.job) /\ e.job.status \in Unresolved
    /\ e.pc = "save" => Full(e.job) /\ e.job.known
    /\ e.pc = "return" => e.result # "none"

\* The execution with the live lease has the row as it last loaded or saved
\* it; an observation of its own is no older than the row it will replace.
InSync(e) ==
    /\ e.pc \in {"mark", "register", "intent", "post", "posted", "poll"} => row = e.job
    /\ e.pc = "save" =>
        /\ row # NoRow /\ row.status \in Unresolved
        /\ Rank(row.status) <= Rank(e.job.status)

ExecInv(e) ==
    /\ StepInv(e)
    /\ row = NoRow => e.job = NoRow
    /\ Full(e.job) => Truthful(e.job)
    /\ e.result = "succeeded" => row.status = "succeeded"
    /\ e.pc \in {"mark", "register"} /\ e.job.status = "succeeded" => row.status = "succeeded"
    /\ OwnsLive(e) => InSync(e)

\* A reconciliation started from an unresolved row and saw no older job.
RecInv ==
    rec # NoRequest =>
        /\ Full(rec.expected) /\ rec.expected.status \in Unresolved
        /\ Full(rec.observed)
        /\ Truthful(rec.expected) /\ Truthful(rec.observed)
        /\ rec.observed.target = rec.expected.target
        /\ rec.observed.deadline = rec.expected.deadline
        /\ rec.expected.known => rec.observed.known
        /\ Rank(rec.expected.status) <= Rank(rec.observed.status)

Safe ==
    /\ LeaseInv
    /\ IntentFirst
    /\ OneSnapshot
    /\ SentFirst
    /\ Full(row) => Truthful(row)
    /\ RowKept
    /\ SuccessRecorded
    /\ \A e \in execs : ExecInv(e)
    /\ RecInv

Inv == TypeOK /\ Safe

-----------------------------------------------------------------------------
(***************************************************************************)
(* Types.                                                                  *)
(***************************************************************************)

\* Attempts, and the targets' origins.
LEMMA ConstantTypes ==
    /\ 1 \in Attempts /\ MaxAttempts \in Nat
    /\ \A t \in Targets : t.origin \in Origins
BY TargetAssumption, JobBounds DEF Attempts

\* The first state has its types.
LEMMA InitTypes == Init => TypeOK
<1>. SUFFICES ASSUME Init PROVE TypeOK
  OBVIOUS
<1>1. lease \in [token : Nat, attempt : Attempts, live : BOOLEAN]
  BY ConstantTypes DEF Init, NoLease
<1>. QED
  BY <1>1 DEF Init, TypeOK

\* Checkpoints that executions make are checkpoints.
LEMMA CheckpointTypes ==
    ASSUME TypeOK
    PROVE  /\ \A t \in Targets, a \in Attempts : Checkpoint(t, a, "submitting", FALSE) \in Checkpoints
           /\ \A j \in Checkpoints : j.target \in Targets /\ RunnerJob(j) # Runner!NoJob =>
                 Observation(j) \in Checkpoints
           /\ \A j \in Checkpoints : Compacted(j) \in Checkpoints
<1>1. \A t \in Targets, a \in Attempts : Checkpoint(t, a, "submitting", FALSE) \in Checkpoints
  BY DEF Checkpoint, Checkpoints, Unresolved
<1>2. ASSUME NEW j \in Checkpoints, j.target \in Targets, RunnerJob(j) # Runner!NoJob
      PROVE  Observation(j) \in Checkpoints
  <2>1. RunnerJob(j) \in RemoteJobs
    BY <1>2, ConstantTypes DEF TypeOK, RunnerJob
  <2>2. RunnerJob(j).status \in Unresolved \union Resolved
    BY <2>1 DEF RemoteJobs, Unresolved, Resolved, Runner!Ended
  <2>. QED
    BY <1>2, <2>2 DEF Observation, Checkpoints
<1>3. \A j \in Checkpoints : Compacted(j) \in Checkpoints
  BY DEF Compacted, Checkpoints
<1>. QED
  BY <1>1, <1>2, <1>3

\* The results of an execution.
LEMMA ResultTypes ==
    /\ \A e \in Executions : Failure(e) \in Results \ {"none", "succeeded"}
    /\ \A s \in Resolved : JobResult(s) \in Results \ {"none"}
    /\ \A s \in Resolved : JobResult(s) = "succeeded" => s = "succeeded"
BY DEF Failure, JobResult, Results, Executions, Resolved

\* The next step of an execution is one.
LEMMA ContinueType ==
    ASSUME NEW e \in Executions, NEW j \in Checkpoints
    PROVE  Continue(e, j) \in Executions
<1>1. NextStep(j) \in {"return", "poll", "post"}
  BY DEF NextStep
<1>2. (IF j.status \in Resolved THEN JobResult(j.status) ELSE "none") \in Results
  BY ResultTypes DEF Results
<1>. QED
  BY <1>1, <1>2 DEF Continue, Executions

\* A step of an execution keeps the types of the others.
LEMMA BecomesTypes ==
    ASSUME execs \subseteq Executions, NEW e, NEW f \in Executions, Becomes(e, f)
    PROVE  execs' \subseteq Executions
BY DEF Becomes

\* An execution whose next step is known.
LEMMA ExecutionTypes ==
    ASSUME NEW e \in Executions
    PROVE  /\ \A c \in {"ok", "late", "cancelled"} : [e EXCEPT !.ctx = c] \in Executions
           /\ \A pc \in {"register", "intent", "posted"} : [e EXCEPT !.pc = pc] \in Executions
           /\ [e EXCEPT !.pc = "return", !.result = Failure(e)] \in Executions
           /\ [e EXCEPT !.pc = "return", !.result = "dead_lettered"] \in Executions
           /\ \A j \in Checkpoints : [e EXCEPT !.pc = "save", !.job = j] \in Executions
           /\ \A j \in {NoRow} \union Checkpoints, a \in Attempts :
                 [e EXCEPT !.pc = "mark", !.job = j, !.deadline = a] \in Executions
<1>1. Failure(e) \in Results /\ "dead_lettered" \in Results
  BY ResultTypes DEF Results
<1>. QED
  BY <1>1 DEF Executions

\* The runners keep their types.
LEMMA RemoteTypes ==
    ASSUME TypeOK
    PROVE  /\ \A t \in Targets : Runner!Accept(t.origin, t) => remote' \in [Origins -> {Runner!NoJob} \union RemoteJobs]
           /\ \A o \in Origins : RunnerWorks(o) => remote' \in [Origins -> {Runner!NoJob} \union RemoteJobs]
<1>1. ASSUME NEW t \in Targets, Runner!Accept(t.origin, t)
      PROVE  remote' \in [Origins -> {Runner!NoJob} \union RemoteJobs]
  BY <1>1, ConstantTypes DEF TypeOK, Runner!Accept, Runner!Job, RemoteJobs
<1>2. ASSUME NEW o \in Origins, RunnerWorks(o)
      PROVE  remote' \in [Origins -> {Runner!NoJob} \union RemoteJobs]
  <2>1. remote[o] \in RemoteJobs
    BY <1>2 DEF TypeOK, RunnerWorks, Runner!Start, Runner!Report, Runner!Succeed, Runner!Stop, Runner!NoJob
  <2>2. CASE Runner!Start(o)
    BY <2>1, <2>2 DEF TypeOK, Runner!Start, RemoteJobs
  <2>3. CASE Runner!Report(o)
    BY <2>1, <2>3 DEF TypeOK, Runner!Report, RemoteJobs
  <2>4. CASE Runner!Succeed(o)
    BY <2>1, <2>4 DEF TypeOK, Runner!Succeed, RemoteJobs, Runner!Ended
  <2>5. ASSUME NEW s \in {"failed", "cancelled"}, Runner!Stop(o, s)
        PROVE  remote' \in [Origins -> {Runner!NoJob} \union RemoteJobs]
    BY <2>1, <2>5 DEF TypeOK, Runner!Stop, RemoteJobs, Runner!Ended
  <2>. QED
    BY <1>2, <2>2, <2>3, <2>4, <2>5 DEF RunnerWorks
<1>. QED
  BY <1>1, <1>2

\* What the execution that takes a step holds.
LEMMA HeldTypes ==
    ASSUME Inv, NEW e \in execs
    PROVE  /\ e \in Executions
           /\ StepInv(e)
           /\ e.pc \in {"post", "posted", "poll", "save"} =>
                e.job \in Checkpoints /\ Full(e.job) /\ e.job.target \in Targets
<1>1. e \in Executions /\ ExecInv(e)
  BY DEF Inv, Safe, TypeOK
<1>2. e.pc \in {"post", "posted", "poll", "save"} => Full(e.job)
  BY <1>1 DEF ExecInv, StepInv
<1>. QED
  BY <1>1, <1>2 DEF ExecInv, Truthful, TruthAt, Full, Executions

\* The steps of an execution keep the types.
LEMMA ExecutionStepTypes ==
    ASSUME Inv, NEW e \in execs, Execution(e)
    PROVE  TypeOK'
<1>0. TypeOK /\ e \in Executions /\ StepInv(e)
  BY HeldTypes DEF Inv
<1>b. ASSUME NEW f \in Executions, Becomes(e, f)
      PROVE  execs' \subseteq Executions
  BY <1>0, <1>b, BecomesTypes DEF TypeOK
<1>c. Fails(e) => execs' \subseteq Executions
  BY <1>0, <1>b, ExecutionTypes DEF Fails
<1>a. e.pc \in {"post", "posted", "poll", "save"} =>
        e.job \in Checkpoints /\ Full(e.job) /\ e.job.target \in Targets
  BY HeldTypes
<1>1. CASE Load(e)
  <2>1. (IF row = NoRow THEN e.attempt ELSE row.deadline) \in Attempts
    BY <1>0 DEF TypeOK, Checkpoints, Executions
  <2>2. [e EXCEPT !.pc = "mark", !.job = row, !.deadline = IF row = NoRow THEN e.attempt ELSE row.deadline]
          \in Executions
    BY <1>0, <2>1, ExecutionTypes DEF TypeOK
  <2>3. execs' \subseteq Executions
    BY <1>1, <1>b, <2>2 DEF Load
  <2>. QED
    BY <1>0, <1>1, <2>3 DEF Load, TypeOK, ledger, dispatch, world
<1>d. Ends(e) => execs' \subseteq Executions /\ active' \in [Attempts -> Nat]
  BY <1>0 DEF Ends, TypeOK, Executions
<1>2. CASE MarkRunning(e)
  <2>1. runs' \in [Attempts -> {"none", Queued, "pruned"} \union Active \union Terminal]
    BY <1>0, <1>2 DEF MarkRunning, TypeOK, Active
  <2>2. execs' \subseteq Executions /\ active' \in [Attempts -> Nat]
    BY <1>0, <1>2, <1>b, <1>d, ExecutionTypes DEF MarkRunning, TypeOK
  <2>. QED
    BY <1>0, <1>2, <2>1, <2>2 DEF MarkRunning, TypeOK, world
<1>9. CASE Register(e)
  <2>1. active' \in [Attempts -> Nat]
    BY <1>0, <1>9 DEF Register, TypeOK, Executions
  <2>2. execs' \subseteq Executions
    <3>1. ASSUME NEW c \in {"ok", "late", "cancelled"}
          PROVE  /\ [[e EXCEPT !.ctx = c] EXCEPT !.pc = "intent"] \in Executions
                 /\ e.job # NoRow => Continue([e EXCEPT !.ctx = c], e.job) \in Executions
      <4>. DEFINE f == [e EXCEPT !.ctx = c]
      <4>1. f \in Executions
        BY <1>0, ExecutionTypes
      <4>2. [f EXCEPT !.pc = "intent"] \in Executions
        BY <4>1, ExecutionTypes
      <4>3. e.job # NoRow => e.job \in Checkpoints
        BY <1>0 DEF Executions
      <4>4. e.job # NoRow => Continue(f, e.job) \in Executions
        BY <4>1, <4>3, ContinueType
      <4>. QED
        BY <4>2, <4>4
    <3>2. e.ctx \in {"ok", "late", "cancelled"}
      BY <1>0 DEF Executions
    <3>3. PICK c \in {"ok", "late", "cancelled"} :
             Becomes(e, IF e.job = NoRow THEN [[e EXCEPT !.ctx = c] EXCEPT !.pc = "intent"]
                        ELSE Continue([e EXCEPT !.ctx = c], e.job))
      BY <1>9, <3>2 DEF Register
    <3>. QED
      BY <1>b, <3>1, <3>3
  <2>. QED
    BY <1>0, <1>9, <2>1, <2>2 DEF Register, TypeOK, ledger, world
<1>10. CASE Abandon(e)
  BY <1>0, <1>10, <1>d DEF Abandon, TypeOK, ledger, world
<1>3. CASE SaveIntent(e)
  <2>1. Checkpoint(e.target, e.deadline, "submitting", FALSE) \in Checkpoints
    BY <1>0, CheckpointTypes DEF Executions
  <2>2. Continue(e, Checkpoint(e.target, e.deadline, "submitting", FALSE)) \in Executions
    BY <1>0, <2>1, ContinueType
  <2>3. execs' \subseteq Executions /\ row' \in {NoRow} \union Checkpoints
    BY <1>0, <1>3, <1>b, <1>c, <2>1, <2>2 DEF SaveIntent, TypeOK
  <2>. QED
    BY <1>0, <1>3, <2>3 DEF SaveIntent, TypeOK, ledger, dispatch, world
<1>4. CASE Post(e)
  <2>1. execs' \subseteq Executions
    BY <1>0, <1>4, <1>b, <1>c, ExecutionTypes DEF Post, FailsForGood
  <2>2. posted' \subseteq Targets
    BY <1>0, <1>a, <1>4 DEF Post, TypeOK, At
  <2>. QED
    BY <1>0, <1>4, <2>1, <2>2 DEF Post, TypeOK, ledger, dispatch
<1>5. CASE Answer(e)
  <2>1. execs' \subseteq Executions
    <3>1. e.job \in Checkpoints /\ e.job.target \in Targets
      BY <1>a, <1>5 DEF Answer
    <3>2. Observation(e.job) \in Checkpoints
      BY <1>0, <1>5, <3>1, CheckpointTypes DEF Answer
    <3>3. [e EXCEPT !.pc = "save", !.job = Observation(e.job)] \in Executions
      BY <1>0, <3>2, ExecutionTypes
    <3>. QED
      BY <1>5, <1>b, <3>3 DEF Answer
  <2>. QED
    BY <1>0, <1>5, <2>1 DEF Answer, TypeOK, ledger, dispatch, world
<1>6. CASE NoAnswer(e)
  <2>1. execs' \subseteq Executions
    BY <1>0, <1>6, <1>b, <1>c, ExecutionTypes DEF NoAnswer, FailsForGood
  <2>. QED
    BY <1>0, <1>6, <2>1 DEF NoAnswer, TypeOK, ledger, dispatch, world
<1>7. CASE SaveObservation(e)
  <2>1. e.job \in Checkpoints
    BY <1>a, <1>7 DEF SaveObservation, At
  <2>2. Continue(e, e.job) \in Executions
    BY <1>0, <2>1, ContinueType
  <2>3. execs' \subseteq Executions /\ row' \in {NoRow} \union Checkpoints
    BY <1>0, <1>7, <1>b, <1>c, <2>1, <2>2 DEF SaveObservation, TypeOK
  <2>. QED
    BY <1>0, <1>7, <2>3 DEF SaveObservation, TypeOK, ledger, dispatch, world
<1>8. CASE Return(e)
  <2>1. FinishedAs(e) \in Results
    BY <1>0 DEF FinishedAs, Executions, Results
  <2>a. NoLease \in [token : Nat, attempt : Attempts, live : BOOLEAN]
    BY ConstantTypes DEF NoLease
  <2>2. lease' \in [token : Nat, attempt : Attempts, live : BOOLEAN]
    BY <1>0, <1>8, <2>a DEF Return, TypeOK
  <2>3. runs' \in [Attempts -> {"none", Queued, "pruned"} \union Active \union Terminal]
    <3>1. CASE Owns(e) /\ e.result # "deferred"
      <4>1. FinishedAs(e) \in {"none"} \union Terminal
        BY <2>1, <3>1 DEF FinishedAs, Terminal, Results
      <4>. QED
        BY <1>0, <1>8, <3>1, <4>1 DEF Return, TypeOK, Queued
    <3>2. CASE OwnsLive(e) /\ e.result = "deferred"
      BY <1>0, <1>8, <3>2 DEF Return, TypeOK, Queued
    <3>. QED
      BY <1>0, <1>8, <3>1, <3>2 DEF Return, TypeOK, OwnsLive
  <2>. QED
    BY <1>0, <1>8, <1>d, <2>2, <2>3 DEF Return, TypeOK, world
<1>. QED
  BY <1>1, <1>2, <1>3, <1>4, <1>5, <1>6, <1>7, <1>8, <1>9, <1>10 DEF Execution

\* Every step keeps the types.
LEMMA NextTypes ==
    ASSUME Inv, [Next]_vars
    PROVE  TypeOK'
<1>0. TypeOK
  BY DEF Inv
<1>1. ASSUME NEW t \in posted, SubmissionArrives(t)
      PROVE  TypeOK'
  BY <1>0, <1>1, RemoteTypes DEF SubmissionArrives, TypeOK, ledger, dispatch
<1>2. ASSUME NEW o \in Origins, RunnerWorks(o)
      PROVE  TypeOK'
  BY <1>0, <1>2, RemoteTypes DEF RunnerWorks, TypeOK, ledger, dispatch
<1>3. ASSUME NEW a \in Attempts, DeadlinePasses(a)
      PROVE  TypeOK'
  <2>1. execs' \subseteq Executions
    BY <1>0, <1>3, ExecutionTypes DEF DeadlinePasses, TypeOK
  <2>. QED
    BY <1>0, <1>3, <2>1 DEF DeadlinePasses, TypeOK, ledger, dispatch
<1>4. CASE LeaseExpires
  BY <1>0, <1>4 DEF LeaseExpires, TypeOK, dispatch, world
<1>5. CASE RecoverLease
  <2>1. toCancel' \in Attempts \union {0}
    BY <1>0, <1>5 DEF RecoverLease, TypeOK
  <2>2. lease' \in [token : Nat, attempt : Attempts, live : BOOLEAN]
    BY <1>0, <1>5, ConstantTypes DEF RecoverLease, TypeOK, NoLease
  <2>. QED
    BY <1>0, <1>5, <2>1, <2>2 DEF RecoverLease, TypeOK, dispatch, world
<1>6. ASSUME NEW a \in Attempts, NEW t \in Targets, Claim(a, t)
      PROVE  TypeOK'
  <2>1. claims + 1 \in Nat \ {0}
    BY <1>0 DEF TypeOK
  <2>2. execs' \subseteq Executions
    <3>1. [token |-> claims + 1, attempt |-> a, target |-> t, pc |-> "load", ctx |-> "ok",
           deadline |-> a, job |-> NoRow, result |-> "none"] \in Executions
      BY <2>1 DEF Executions, Results
    <3>. QED
      BY <1>0, <1>6, <3>1 DEF Claim, TypeOK
  <2>. QED
    BY <1>0, <1>6, <2>1, <2>2 DEF Claim, TypeOK, dispatch, world, Active
<1>7. CASE Restart
  BY <1>0, <1>7 DEF Restart, TypeOK, ledger, dispatch, world
<1>8. ASSUME NEW e \in execs, CancelExecution(e)
      PROVE  TypeOK'
  <2>1. execs' \subseteq Executions
    BY <1>0, <1>8, ExecutionTypes DEF CancelExecution, TypeOK
  <2>. QED
    BY <1>0, <1>8, <2>1 DEF CancelExecution, TypeOK, ledger, dispatch, world
<1>9. ASSUME NEW e \in execs, Execution(e)
      PROVE  TypeOK'
  BY <1>9, ExecutionStepTypes
<1>10. CASE ReconcileBegin
  BY <1>0, <1>10 DEF ReconcileBegin, TypeOK, ledger, dispatch, world, Reconciliations
<1>11. CASE ReconcileObserve
  <2>1. rec \in Reconciliations
    BY <1>0, <1>11 DEF ReconcileObserve, TypeOK, NoRequest
  <2>2. rec # NoRequest
    BY <1>11 DEF ReconcileObserve, NoRequest
  <2>3. rec.expected \in Checkpoints /\ rec.expected.target \in Targets
    BY <2>1, <2>2 DEF Reconciliations, Inv, Safe, RecInv, Truthful, TruthAt
  <2>4. rec' \in {NoRequest} \union Reconciliations
    BY <1>0, <1>11, <2>1, <2>3, CheckpointTypes DEF ReconcileObserve, Reconciliations
  <2>. QED
    BY <1>0, <1>11, <2>4 DEF ReconcileObserve, TypeOK, ledger, dispatch, world
<1>12. CASE ReconcileCommit
  <2>1. rec \in Reconciliations
    BY <1>0, <1>12 DEF ReconcileCommit, TypeOK, NoRequest
  <2>. QED
    BY <1>0, <1>12, <2>1 DEF ReconcileCommit, TypeOK, ledger, dispatch, world, Reconciliations
<1>13. ASSUME NEW a \in Attempts, Prune(a)
       PROVE  TypeOK'
  <2>1. row.status \in Resolved => row \in Checkpoints
    BY <1>0 DEF TypeOK, NoRow, Resolved
  <2>2. row' \in {NoRow} \union Checkpoints
    BY <1>0, <1>13, <2>1, CheckpointTypes DEF Prune, TypeOK
  <2>3. runs' \in [Attempts -> {"none", Queued, "pruned"} \union Active \union Terminal]
    BY <1>0, <1>13 DEF Prune, TypeOK
  <2>. QED
    BY <1>0, <1>13, <2>2, <2>3 DEF Prune, TypeOK, dispatch, world
<1>14. CASE UNCHANGED vars
  BY <1>0, <1>14 DEF vars, TypeOK
<1>15. CASE CancelRecovered
  <2>1. execs' \subseteq Executions
    BY <1>0, <1>15, ExecutionTypes DEF CancelRecovered, TypeOK
  <2>. QED
    BY <1>0, <1>15, <2>1 DEF CancelRecovered, TypeOK, ledger, world
<1>. QED
  BY <1>1, <1>2, <1>3, <1>4, <1>5, <1>6, <1>7, <1>8, <1>9, <1>10, <1>11, <1>12, <1>13, <1>14, <1>15
     DEF Next

-----------------------------------------------------------------------------
(***************************************************************************)
(* What a step leaves as it was.                                           *)
(***************************************************************************)

\* Statuses advance from the intent to the end.
LEMMA RankFacts ==
    /\ \A s \in Unresolved \union Resolved : Rank(s) \in 1..4
    /\ Rank("none") = 0
    /\ Rank("submitting") = 1
    /\ \A s \in {"queued", "running"} \union Resolved : Rank(s) >= 2
    /\ \A s \in Resolved : Rank(s) = 4
    /\ \A s \in Unresolved : Rank(s) < 4
BY DEF Rank, Unresolved, Resolved

\* What was true of a runner stays true while it works.
LEMMA RemoteForward ==
    ASSUME TypeOK,
           \/ remote' = remote
           \/ \E t \in posted : SubmissionArrives(t)
           \/ \E o \in Origins : RunnerWorks(o)
    PROVE  \A j \in Checkpoints : Truthful(j) => Truthful(j)'
<1>1. ASSUME NEW o \in Origins, remote[o] # Runner!NoJob
      PROVE  /\ remote'[o] # Runner!NoJob
             /\ Rank(remote[o].status) <= Rank(remote'[o].status)
             /\ remote[o].status \in Resolved => remote'[o].status = remote[o].status
             /\ remote'[o].req = remote[o].req
  <2>. DEFINE r == remote[o]
  <2>1. r \in RemoteJobs
    BY <1>1 DEF TypeOK
  <2>2. Rank(r.status) <= Rank(r.status)
    BY <2>1, RankFacts DEF RemoteJobs, Unresolved, Resolved, Runner!Ended
  <2>3. CASE remote' = remote
    BY <1>1, <2>2, <2>3
  <2>4. ASSUME NEW t \in posted, SubmissionArrives(t)
        PROVE  remote'[o] = remote[o]
    BY <1>1, <2>4, ConstantTypes DEF TypeOK, SubmissionArrives, Runner!Accept
  <2>5. ASSUME NEW p \in Origins, RunnerWorks(p)
        PROVE  /\ remote'[o] # Runner!NoJob
               /\ Rank(remote[o].status) <= Rank(remote'[o].status)
               /\ remote[o].status \in Resolved => remote'[o].status = remote[o].status
               /\ remote'[o].req = remote[o].req
    <3>1. CASE o # p
      BY <1>1, <2>2, <2>5, <3>1 DEF TypeOK, RunnerWorks, Runner!Start, Runner!Report, Runner!Succeed, Runner!Stop
    <3>2. CASE o = p
      <4>1. remote[o].status \in {"queued", "running"}
        BY <2>5, <3>2 DEF RunnerWorks, Runner!Start, Runner!Report, Runner!Succeed, Runner!Stop
      <4>2. CASE Runner!Start(o)
        BY <2>1, <4>2 DEF TypeOK, Runner!Start, Rank, Resolved, Runner!NoJob, RemoteJobs
      <4>3. CASE Runner!Report(o)
        BY <2>1, <4>3 DEF TypeOK, Runner!Report, Rank, Resolved, Runner!NoJob, RemoteJobs
      <4>4. CASE Runner!Succeed(o)
        BY <2>1, <4>4 DEF TypeOK, Runner!Succeed, Rank, Resolved, Runner!NoJob, RemoteJobs
      <4>5. ASSUME NEW s \in {"failed", "cancelled"}, Runner!Stop(o, s)
            PROVE  /\ remote'[o] # Runner!NoJob
                   /\ Rank(remote[o].status) <= Rank(remote'[o].status)
                   /\ remote[o].status \in Resolved => remote'[o].status = remote[o].status
                   /\ remote'[o].req = remote[o].req
        BY <2>1, <4>5 DEF TypeOK, Runner!Stop, Rank, Resolved, Runner!NoJob, RemoteJobs
      <4>. QED
        BY <2>5, <3>2, <4>2, <4>3, <4>4, <4>5 DEF RunnerWorks
    <3>. QED
      BY <3>1, <3>2
  <2>. QED
    BY <1>1, <2>2, <2>3, <2>4, <2>5
<1>. SUFFICES ASSUME NEW j \in Checkpoints, Truthful(j)
              PROVE  Truthful(j)'
  OBVIOUS
<1>2. CASE ~j.known
  BY <1>2 DEF Truthful, TruthAt
<1>3. CASE j.known
  <2>. DEFINE o == j.target.origin
  <2>1. /\ o \in Origins /\ remote[o] # Runner!NoJob
        /\ Rank(j.status) <= Rank(remote[o].status)
        /\ j.status \in Resolved => remote[o].status = j.status
    BY <1>3, ConstantTypes DEF Truthful, TruthAt
  <2>2. /\ remote'[o] # Runner!NoJob
        /\ Rank(remote[o].status) <= Rank(remote'[o].status)
        /\ remote[o].status \in Resolved => remote'[o].status = remote[o].status
    BY <1>1, <2>1
  <2>3. Rank(j.status) \in Nat /\ Rank(remote[o].status) \in Nat /\ Rank(remote'[o].status) \in Nat
    BY DEF Rank
  <2>. QED
    BY <1>3, <2>1, <2>2, <2>3 DEF Truthful, TruthAt
<1>. QED
  BY <1>2, <1>3

\* An execution that goes on with the same work, under the same row.
LEMMA SameRow ==
    ASSUME Inv, NEW g \in execs, NEW f \in Executions,
           f.pc = g.pc, f.job = g.job, f.result = g.result,
           OwnsLive(f)' => OwnsLive(g),
           row' = row,
           \A j \in Checkpoints : Truthful(j) => Truthful(j)'
    PROVE  ExecInv(f)'
<1>1. ExecInv(g) /\ g \in Executions
  BY DEF Inv, Safe, TypeOK
<1>2. Full(f.job) => Truthful(f.job)'
  BY <1>1 DEF ExecInv, Executions, Full
<1>. QED
  BY <1>1, <1>2 DEF ExecInv, StepInv, InSync, Full

\* An execution without the live lease, while others write the row.
LEMMA RowWritten ==
    ASSUME Inv, NEW g \in execs,
           ~OwnsLive(g)',
           row' # NoRow,
           row.status = "succeeded" => row'.status = "succeeded",
           \A j \in Checkpoints : Truthful(j) => Truthful(j)'
    PROVE  ExecInv(g)'
<1>1. ExecInv(g) /\ g \in Executions
  BY DEF Inv, Safe, TypeOK
<1>2. Full(g.job) => Truthful(g.job)'
  BY <1>1 DEF ExecInv, Executions, Full
<1>. QED
  BY <1>1, <1>2 DEF ExecInv, StepInv, Full

\* While someone holds a lease the history is there.
LEMMA HeldRow ==
    ASSUME Inv, lease.token # 0
    PROVE  /\ \E a \in Attempts : runs[a] \in Active
           /\ ~(row # NoRow /\ row.compacted)
<1>1. lease.attempt \in Attempts /\ runs[lease.attempt] \in Active
  BY DEF Inv, Safe, LeaseInv, TypeOK
<1>. QED
  BY <1>1 DEF Inv, Safe, RowKept, Active

\* The live lease is one execution's.
LEMMA OneOwner ==
    ASSUME Inv, NEW e \in execs, Owns(e)
    PROVE  /\ lease.token # 0
           /\ \A g \in execs : g # e => ~Owns(g)
<1>1. e.token # 0
  BY DEF Inv, TypeOK, Executions
<1>. QED
  BY <1>1 DEF Inv, Safe, LeaseInv, Owns

\* A step that leaves the row and what was sent alone, and at most ends
\* executions, changes their contexts or starts new ones.
LEMMA QuietStep ==
    ASSUME Inv, TypeOK',
           row' = row, posted' = posted, rec' \in {rec, NoRequest},
           \A j \in Checkpoints : Truthful(j) => Truthful(j)',
           SentFirst', LeaseInv',
           \A a \in Attempts :
              \/ runs'[a] = runs[a]
              \/ runs[a] \in {Queued} \union Active /\ runs'[a] \in {Queued} \union Active,
           \A f \in execs' :
              \/ \E g \in execs :
                    /\ f.pc = g.pc /\ f.job = g.job /\ f.result = g.result
                    /\ OwnsLive(f)' => OwnsLive(g)
              \/ f.pc = "load" /\ f.job = NoRow /\ f.result = "none"
    PROVE  Safe'
<1>1. IntentFirst'
  BY DEF IntentFirst, Inv, Safe
<1>2. OneSnapshot'
  BY DEF OneSnapshot, Recorded, Full, Inv, Safe
<1>3. Full(row)' => Truthful(row)'
  BY DEF Full, Inv, Safe, TypeOK, Truthful
<1>4. RowKept'
  BY DEF RowKept, Inv, Safe, Queued, Active
<1>5. SuccessRecorded'
  BY DEF SuccessRecorded, Inv, Safe, Queued, Active
<1>6. ASSUME NEW f \in execs'
      PROVE  ExecInv(f)'
  <2>1. f \in Executions
    BY DEF TypeOK
  <2>2. CASE f.pc = "load" /\ f.job = NoRow /\ f.result = "none"
    BY <2>2 DEF ExecInv, StepInv, InSync, Full
  <2>3. CASE \E g \in execs :
               /\ f.pc = g.pc /\ f.job = g.job /\ f.result = g.result
               /\ OwnsLive(f)' => OwnsLive(g)
    BY <2>1, <2>3, SameRow
  <2>. QED
    BY <1>6, <2>2, <2>3
<1>7. RecInv'
  BY DEF RecInv, Inv, Safe, TypeOK, Reconciliations, Full, Truthful
<1>. QED
  BY <1>1, <1>2, <1>3, <1>4, <1>5, <1>6, <1>7 DEF Safe

\* A step of one execution that leaves the row alone.
LEMMA OneStep ==
    ASSUME Inv, TypeOK', NEW e \in execs, NEW f \in Executions,
           Becomes(e, f), f.token = e.token,
           ExecInv(f)',
           Full(f.job) => Recorded(f.job.target),
           row' = row, rec' = rec, remote' = remote, lease' = lease, claims' = claims,
           posted \subseteq posted', \A t \in posted' : Recorded(t),
           row = NoRow => posted' = {},
           \A a \in Attempts : runs'[a] = runs[a] \/ (OwnsLive(e) /\ runs'[a] = "running")
    PROVE  Safe'
<1>0. \A j \in Checkpoints : Truthful(j) => Truthful(j)'
  BY RemoteForward DEF Inv
<1>a. \A g \in execs' : g = f \/ (g \in execs /\ g # e)
  BY DEF Becomes
<1>1. LeaseInv'
  BY <1>a DEF LeaseInv, Inv, Safe, TypeOK, Active
<1>2. IntentFirst'
  BY DEF IntentFirst, Inv, Safe
<1>3. OneSnapshot'
  <2>1. \A t \in Targets : Recorded(t)' => Recorded(t)
    BY <1>a DEF Recorded, Full
  <2>. QED
    BY <2>1 DEF OneSnapshot, Inv, Safe
<1>4. SentFirst'
  BY DEF SentFirst, Inv, Safe
<1>5. Full(row)' => Truthful(row)'
  BY <1>0 DEF Full, Inv, Safe, TypeOK, Truthful
<1>6. RowKept'
  <2>1. CASE OwnsLive(e)
    <3>1. ~(row # NoRow /\ row.compacted)
      BY <2>1, OneOwner, HeldRow DEF OwnsLive
    <3>. QED
      BY <3>1 DEF RowKept, Inv, Safe
  <2>2. CASE ~OwnsLive(e)
    BY <2>2 DEF RowKept, Inv, Safe
  <2>. QED
    BY <2>1, <2>2
<1>7. SuccessRecorded'
  BY DEF SuccessRecorded, Inv, Safe
<1>8. ASSUME NEW g \in execs'
      PROVE  ExecInv(g)'
  <2>1. CASE g = f
    BY <2>1
  <2>2. CASE g \in execs /\ g # e
    <3>1. g \in Executions
      BY <2>2 DEF Inv, TypeOK
    <3>2. OwnsLive(g)' => OwnsLive(g)
      BY DEF OwnsLive, Owns
    <3>. QED
      BY <1>0, <2>2, <3>1, <3>2, SameRow
  <2>. QED
    BY <1>8, <1>a, <2>1, <2>2
<1>9. RecInv'
  BY DEF RecInv, Inv, Safe, Full, Truthful
<1>. QED
  BY <1>1, <1>2, <1>3, <1>4, <1>5, <1>6, <1>7, <1>8, <1>9 DEF Safe

\* A step of one execution that only changes what it holds.
LEMMA HeldStep ==
    ASSUME Inv, TypeOK', NEW e \in execs, NEW f \in Executions,
           Becomes(e, f), f.token = e.token,
           ExecInv(f)',
           Full(f.job) => Recorded(f.job.target),
           UNCHANGED <<ledger, row, rec, world>>
    PROVE  Safe'
<1>1. /\ row' = row /\ rec' = rec /\ remote' = remote
      /\ lease' = lease /\ claims' = claims /\ runs' = runs /\ posted' = posted
  BY DEF ledger, world
<1>2. row = NoRow => posted' = {}
  BY <1>1 DEF Inv, Safe, IntentFirst
<1>3. \A t \in posted' : Recorded(t)
  BY <1>1 DEF Recorded
<1>. QED
  BY <1>1, <1>2, <1>3, OneStep

\* The owner of the live lease writes the row.
LEMMA OwnerWrites ==
    ASSUME Inv, TypeOK', NEW e \in execs, NEW f \in Executions,
           Becomes(e, f), f.token = e.token,
           OwnsLive(e), ExecInv(f)',
           row' \in Checkpoints, ~row'.compacted, Truthful(row'),
           f.job \in {NoRow, row'},
           row.status \in Resolved => row' = row,
           \/ \A t \in Targets : ~Recorded(t)
           \/ Recorded(row'.target),
           rec' = rec, remote' = remote, UNCHANGED ledger, posted' = posted
    PROVE  Safe'
<1>0. \A j \in Checkpoints : Truthful(j) => Truthful(j)'
  BY RemoteForward DEF Inv
<1>a. \A g \in execs' : g = f \/ (g \in execs /\ g # e)
  BY DEF Becomes
<1>b. row' # NoRow
  BY DEF Checkpoints, NoRow, Unresolved, Resolved
<1>c. /\ lease.token # 0 /\ lease.attempt \in Attempts /\ runs[lease.attempt] \in Active
      /\ \A g \in execs : g # e => ~Owns(g)
  BY OneOwner DEF OwnsLive, Inv, Safe, LeaseInv, TypeOK
<1>1. LeaseInv'
  BY <1>a DEF LeaseInv, Inv, Safe, TypeOK, ledger, dispatch
<1>2. IntentFirst'
  BY <1>b DEF IntentFirst
<1>3. OneSnapshot'
  <2>1. \A t \in Targets : Recorded(t)' => Recorded(t) \/ t = row'.target
    BY <1>a DEF Recorded, Full
  <2>. QED
    BY <2>1 DEF OneSnapshot, Inv, Safe
<1>4. SentFirst'
  BY DEF SentFirst, Inv, Safe
<1>5. Full(row)' => Truthful(row)'
  BY DEF Truthful
<1>6. RowKept'
  BY <1>c DEF RowKept, ledger, Active
<1>7. SuccessRecorded'
  BY DEF SuccessRecorded, Inv, Safe, ledger, Resolved
<1>8. ASSUME NEW g \in execs'
      PROVE  ExecInv(g)'
  <2>1. CASE g = f
    BY <2>1
  <2>2. CASE g \in execs /\ g # e
    <3>1. ~OwnsLive(g)'
      BY <1>c, <2>2 DEF OwnsLive, Owns, ledger
    <3>2. row.status = "succeeded" => row'.status = "succeeded"
      BY DEF Resolved
    <3>. QED
      BY <1>0, <1>b, <2>2, <3>1, <3>2, RowWritten
  <2>. QED
    BY <1>8, <1>a, <2>1, <2>2
<1>9. RecInv'
  BY DEF RecInv, Inv, Safe, Full, Truthful
<1>. QED
  BY <1>1, <1>2, <1>3, <1>4, <1>5, <1>6, <1>7, <1>8, <1>9 DEF Safe

-----------------------------------------------------------------------------
(***************************************************************************)
(* The steps of an execution.                                              *)
(***************************************************************************)

\* A failure is not success, and nothing else is asked of it.
LEMMA FailedExecution ==
    ASSUME Inv, NEW e \in execs, NEW f \in Executions,
           \/ f = [e EXCEPT !.pc = "return", !.result = Failure(e)]
           \/ f = [e EXCEPT !.pc = "return", !.result = "dead_lettered"],
           row = NoRow \/ row' # NoRow,
           \A j \in Checkpoints : Truthful(j) => Truthful(j)'
    PROVE  ExecInv(f)' /\ f.token = e.token /\ f.job = e.job
<1>0. e \in Executions /\ ExecInv(e)
  BY DEF Inv, Safe, TypeOK
<1>1. /\ f.token = e.token /\ f.job = e.job /\ f.pc = "return"
      /\ f.result \in Results \ {"none", "succeeded"}
  BY <1>0, ResultTypes DEF Executions, Results
<1>2. Full(f.job) => Truthful(f.job)'
  BY <1>0, <1>1 DEF ExecInv, Executions, Full
<1>3. row' = NoRow => f.job = NoRow
  BY <1>0, <1>1 DEF ExecInv
<1>. QED
  BY <1>1, <1>2, <1>3 DEF ExecInv, StepInv, InSync

\* An execution that goes on from a checkpoint, which is the row if it holds
\* the live lease.
LEMMA ContinuedExecution ==
    ASSUME NEW e \in Executions, NEW j \in Checkpoints,
           OwnsLive(e)' => row' = j, Full(j), Truthful(j)',
           j.status = "succeeded" => row'.status = "succeeded", row' # NoRow
    PROVE  /\ ExecInv(Continue(e, j))'
           /\ Continue(e, j).token = e.token
           /\ Continue(e, j).job = j
<1>. DEFINE f == Continue(e, j)
<1>1. f.token = e.token /\ f.job = j
  BY DEF Continue, Executions
<1>a. OwnsLive(f)' => row' = j
  BY <1>1 DEF OwnsLive, Owns
<1>2. CASE j.status \in Resolved
  <2>1. f.pc = "return" /\ f.result = JobResult(j.status)
    BY <1>2 DEF Continue, NextStep, Executions
  <2>. HIDE DEF f
  <2>2. ExecInv(f)'
    BY <1>1, <1>2, <2>1, ResultTypes DEF ExecInv, StepInv, InSync
  <2>. QED
    BY <1>1, <2>2 DEF f
<1>3. CASE j.status \notin Resolved
  <2>1. f.pc \in {"poll", "post"} /\ f.result = "none"
    BY <1>3 DEF Continue, NextStep, Executions
  <2>2. j.status \in Unresolved
    BY <1>3 DEF Checkpoints
  <2>. HIDE DEF f
  <2>3. ExecInv(f)'
    BY <1>1, <1>a, <2>1, <2>2 DEF ExecInv, StepInv, InSync
  <2>. QED
    BY <1>1, <2>3 DEF f
<1>. QED
  BY <1>2, <1>3

\* Reading the row.
LEMMA LoadKeeps ==
    ASSUME Inv, TypeOK', NEW e \in execs, Load(e)
    PROVE  Safe'
<1>0. TypeOK /\ e \in Executions /\ ExecInv(e)
  BY DEF Inv, Safe, TypeOK
<1>. DEFINE d == IF row = NoRow THEN e.attempt ELSE row.deadline
<1>1. d \in Attempts /\ row \in {NoRow} \union Checkpoints
  BY <1>0 DEF TypeOK, Checkpoints, Executions
<1>2. PICK f \in Executions : f = [e EXCEPT !.pc = "mark", !.job = row, !.deadline = d]
  BY <1>0, <1>1, ExecutionTypes
<1>3. Becomes(e, f) /\ row' = row /\ UNCHANGED <<ledger, rec, world>> /\ e.pc = "load"
  BY <1>2 DEF Load, At
<1>4. f.token = e.token /\ f.pc = "mark" /\ f.job = row /\ f.result = e.result
  BY <1>0, <1>2 DEF Executions
<1>5. Full(row) => Truthful(row)'
  BY <1>3 DEF Inv, Safe, Truthful, world
<1>6. ExecInv(f)'
  BY <1>0, <1>3, <1>4, <1>5 DEF ExecInv, StepInv, InSync
<1>7. Full(f.job) => Recorded(f.job.target)
  BY <1>4 DEF Recorded
<1>. QED
  BY <1>3, <1>4, <1>6, <1>7, HeldStep

\* An execution that gives up leaves everything else as it is.
LEMMA FailureKeeps ==
    ASSUME Inv, TypeOK', NEW e \in execs,
           Fails(e) \/ FailsForGood(e),
           UNCHANGED <<ledger, row, rec, world>>
    PROVE  Safe'
<1>0. e \in Executions
  BY DEF Inv, TypeOK
<1>1. PICK f \in Executions :
         /\ Becomes(e, f)
         /\ \/ f = [e EXCEPT !.pc = "return", !.result = Failure(e)]
            \/ f = [e EXCEPT !.pc = "return", !.result = "dead_lettered"]
  BY <1>0, ExecutionTypes DEF Fails, FailsForGood
<1>2. \A j \in Checkpoints : Truthful(j) => Truthful(j)'
  BY RemoteForward DEF Inv, world
<1>3. ExecInv(f)' /\ f.token = e.token /\ f.job = e.job
  BY <1>1, <1>2, FailedExecution
<1>4. Full(f.job) => Recorded(f.job.target)
  BY <1>3 DEF Recorded
<1>. QED
  BY <1>1, <1>3, <1>4, HeldStep

\* What the runner says of a job is as true as the checkpoint was, and newer.
LEMMA ObservationFacts ==
    ASSUME TypeOK, NEW j \in Checkpoints, Full(j), Truthful(j), j.status \in Unresolved,
           RunnerJob(j) # Runner!NoJob
    PROVE  \E k \in Checkpoints :
             /\ k = Observation(j)
             /\ Full(k) /\ k.known /\ Truthful(k)
             /\ k.target = j.target /\ k.deadline = j.deadline
             /\ Rank(j.status) <= Rank(k.status)
<1>1. j.target \in Targets /\ j.target.origin \in Origins /\ RunnerJob(j) \in RemoteJobs
  BY ConstantTypes DEF Truthful, TruthAt, TypeOK, RunnerJob
<1>2. PICK k \in Checkpoints : k = Observation(j)
  BY <1>1, CheckpointTypes
<1>3. /\ k.known /\ ~k.compacted /\ k.target = j.target /\ k.deadline = j.deadline
      /\ k.status = RunnerJob(j).status
  BY <1>2 DEF Observation, Checkpoints, Full
<1>4. k.status \in {"queued", "running"} \union Resolved
  BY <1>1, <1>3 DEF RemoteJobs, Runner!Ended, Resolved
<1>5. Full(k)
  BY <1>3, <1>4 DEF Full, NoRow, Resolved
<1>6. Rank(k.status) \in Nat /\ Rank(k.status) >= 2
  BY <1>4, RankFacts DEF Rank
<1>7. Truthful(k)
  BY <1>1, <1>3, <1>6 DEF Truthful, TruthAt, RunnerJob
<1>8. Rank(j.status) <= Rank(k.status)
  <2>1. CASE j.known
    BY <1>3, <2>1 DEF Truthful, TruthAt, RunnerJob
  <2>2. CASE ~j.known
    BY <1>6, <2>2, RankFacts DEF Truthful, TruthAt
  <2>. QED
    BY <2>1, <2>2
<1>. QED
  BY <1>2, <1>3, <1>5, <1>7, <1>8

\* An answer: what the runner says of the job.
LEMMA AnswerKeeps ==
    ASSUME Inv, TypeOK', NEW e \in execs, Answer(e)
    PROVE  Safe'
<1>0. TypeOK /\ e \in Executions /\ ExecInv(e)
  BY DEF Inv, Safe, TypeOK
<1>1. e.pc \in {"posted", "poll"} /\ RunnerJob(e.job) # Runner!NoJob
  BY DEF Answer
<1>2. /\ e.job \in Checkpoints /\ Full(e.job) /\ e.job.status \in Unresolved
      /\ Truthful(e.job)
  BY <1>0, <1>1, HeldTypes DEF ExecInv, StepInv
<1>3. PICK k \in Checkpoints :
         /\ k = Observation(e.job)
         /\ Full(k) /\ k.known /\ Truthful(k)
         /\ k.target = e.job.target
         /\ Rank(e.job.status) <= Rank(k.status)
  BY <1>0, <1>1, <1>2, ObservationFacts
<1>4. PICK f \in Executions : f = [e EXCEPT !.pc = "save", !.job = k]
  BY <1>0, ExecutionTypes
<1>5. Becomes(e, f) /\ row' = row /\ UNCHANGED <<ledger, rec, world>>
  BY <1>3, <1>4 DEF Answer
<1>6. f.token = e.token /\ f.pc = "save" /\ f.job = k /\ f.result = e.result
  BY <1>0, <1>4 DEF Executions
<1>7. Truthful(k)'
  BY <1>3, <1>5 DEF Truthful, world
<1>8. OwnsLive(f)' => OwnsLive(e)
  BY <1>5, <1>6 DEF OwnsLive, Owns, ledger
<1>9. ExecInv(f)'
  BY <1>0, <1>1, <1>2, <1>3, <1>5, <1>6, <1>7, <1>8 DEF ExecInv, StepInv, InSync, Full
<1>10. Full(f.job) => Recorded(f.job.target)
  BY <1>2, <1>3, <1>6 DEF Recorded
<1>. QED
  BY <1>5, <1>6, <1>9, <1>10, HeldStep

\* A submission to the recorded target.
LEMMA PostKeeps ==
    ASSUME Inv, TypeOK', NEW e \in execs, Post(e)
    PROVE  Safe'
<1>0. TypeOK /\ e \in Executions /\ ExecInv(e) /\ e.pc = "post"
  BY DEF Inv, Safe, TypeOK, Post, At
<1>1. CASE (Fails(e) \/ FailsForGood(e)) /\ UNCHANGED posted
  <2>1. UNCHANGED <<ledger, row, rec, world>>
    BY <1>1 DEF Post, world
  <2>. QED
    BY <1>1, <2>1, FailureKeeps
<1>2. CASE posted' = posted \union {e.job.target} /\ Becomes(e, [e EXCEPT !.pc = "posted"])
  <2>1. PICK f \in Executions : f = [e EXCEPT !.pc = "posted"]
    BY <1>0, ExecutionTypes
  <2>2. f.token = e.token /\ f.pc = "posted" /\ f.job = e.job /\ f.result = e.result
    BY <1>0, <2>1 DEF Executions
  <2>3. /\ Becomes(e, f) /\ row' = row /\ rec' = rec /\ remote' = remote
        /\ lease' = lease /\ claims' = claims /\ runs' = runs
        /\ posted' = posted \union {e.job.target}
    BY <1>2, <2>1 DEF Post, ledger
  <2>4. Full(e.job) /\ e.job.status \in Unresolved /\ Truthful(e.job)
    BY <1>0 DEF ExecInv, StepInv
  <2>5. Truthful(f.job)'
    BY <2>2, <2>3, <2>4 DEF Truthful
  <2>6. OwnsLive(f)' => OwnsLive(e)
    BY <2>2, <2>3 DEF OwnsLive, Owns
  <2>7. ExecInv(f)'
    BY <1>0, <2>2, <2>3, <2>4, <2>5, <2>6 DEF ExecInv, StepInv, InSync
  <2>8. Recorded(e.job.target)
    BY <2>4 DEF Recorded
  <2>9. \A t \in posted' : Recorded(t)
    BY <2>3, <2>8 DEF Recorded
  <2>10. row # NoRow
    BY <1>0, <2>4 DEF ExecInv, Full
  <2>11. /\ \A a \in Attempts : runs'[a] = runs[a] \/ (OwnsLive(e) /\ runs'[a] = "running")
         /\ posted \subseteq posted'
    BY <2>3
  <2>. QED
    BY <2>2, <2>3, <2>7, <2>8, <2>9, <2>10, <2>11, OneStep
<1>. QED
  BY <1>1, <1>2 DEF Post

\* An execution that ends leaves everything else as it is.
LEMMA EndKeeps ==
    ASSUME Inv, TypeOK', NEW e \in execs, Ends(e),
           UNCHANGED <<ledger, row, rec, world>>
    PROVE  Safe'
<1>1. /\ row' = row /\ rec' = rec /\ remote' = remote /\ posted' = posted
      /\ lease' = lease /\ claims' = claims /\ runs' = runs /\ execs' = execs \ {e}
  BY DEF Ends, ledger, world
<1>2. \A j \in Checkpoints : Truthful(j) => Truthful(j)'
  BY <1>1, RemoteForward DEF Inv
<1>3. SentFirst'
  BY <1>1 DEF SentFirst, Inv, Safe
<1>4. LeaseInv'
  BY <1>1 DEF LeaseInv, Inv, Safe
<1>5. \A f \in execs' : f \in execs /\ (OwnsLive(f)' => OwnsLive(f))
  BY <1>1 DEF OwnsLive, Owns
<1>. QED
  BY <1>1, <1>2, <1>3, <1>4, <1>5, QuietStep

\* The run starts, or the lease is gone and the execution with it.
LEMMA MarkRunningKeeps ==
    ASSUME Inv, TypeOK', NEW e \in execs, MarkRunning(e)
    PROVE  Safe'
<1>0. TypeOK /\ e \in Executions /\ ExecInv(e) /\ e.pc = "mark"
  BY DEF Inv, Safe, TypeOK, MarkRunning, At
<1>1. /\ row' = row /\ rec' = rec /\ remote' = remote /\ posted' = posted
      /\ lease' = lease /\ claims' = claims
  BY DEF MarkRunning, world
<1>a. \A j \in Checkpoints : Truthful(j) => Truthful(j)'
  BY <1>0, <1>1, RemoteForward
<1>2. CASE ~OwnsLive(e)
  <2>1. Ends(e) /\ UNCHANGED <<ledger, row, rec, world>>
    BY <1>2 DEF MarkRunning, ledger
  <2>. QED
    BY <2>1, EndKeeps
<1>3. CASE OwnsLive(e)
  <2>1. row = e.job
    BY <1>0, <1>3 DEF ExecInv, InSync
  <2>2. Full(row) \/ row = NoRow
    BY <1>3, HeldRow, OneOwner DEF Full, OwnsLive
  <2>3. PICK f \in Executions : f = [e EXCEPT !.pc = "register"]
    BY <1>0, ExecutionTypes
  <2>4. f.token = e.token /\ f.job = e.job /\ f.result = e.result /\ f.pc = "register"
    BY <1>0, <2>3 DEF Executions
  <2>5. Becomes(e, f)
    BY <1>3, <2>3 DEF MarkRunning
  <2>6. \A a \in Attempts : runs'[a] = runs[a] \/ (OwnsLive(e) /\ runs'[a] = "running")
    BY <1>0, <1>3 DEF MarkRunning, TypeOK
  <2>7. \A t \in posted' : Recorded(t)
    BY <1>1 DEF Recorded
  <2>8. row = NoRow => posted' = {}
    BY <1>1 DEF Inv, Safe, IntentFirst
  <2>9. Full(f.job) => Truthful(f.job)' /\ Recorded(f.job.target)
    BY <1>0, <1>a, <2>4 DEF ExecInv, Executions, Full, Recorded
  <2>10. ExecInv(f)'
    BY <1>0, <1>1, <2>1, <2>2, <2>4, <2>9 DEF ExecInv, StepInv, InSync
  <2>. QED
    BY <1>1, <2>4, <2>5, <2>6, <2>7, <2>8, <2>9, <2>10, OneStep
<1>. QED
  BY <1>2, <1>3

\* registerCancel, by the owner of the lease or late.
LEMMA RegisterKeeps ==
    ASSUME Inv, TypeOK', NEW e \in execs, Register(e)
    PROVE  Safe'
<1>0. TypeOK /\ e \in Executions /\ ExecInv(e) /\ e.pc = "register"
  BY DEF Inv, Safe, TypeOK, Register, At
<1>1. /\ row' = row /\ rec' = rec /\ remote' = remote /\ posted' = posted
      /\ lease' = lease /\ claims' = claims /\ runs' = runs
      /\ UNCHANGED <<ledger, row, rec, world>>
  BY DEF Register, world, ledger
<1>2. \A j \in Checkpoints : Truthful(j) => Truthful(j)'
  BY <1>0, <1>1, RemoteForward
<1>3. PICK c \in {"ok", "late", "cancelled"} :
         Becomes(e, IF e.job = NoRow THEN [[e EXCEPT !.ctx = c] EXCEPT !.pc = "intent"]
                    ELSE Continue([e EXCEPT !.ctx = c], e.job))
  BY <1>0 DEF Register, Executions
<1>4. PICK g \in Executions : g = [e EXCEPT !.ctx = c]
  BY <1>0, ExecutionTypes
<1>5. g.token = e.token /\ g.job = e.job /\ g.result = e.result
  BY <1>0, <1>4 DEF Executions
<1>6. OwnsLive(g)' => row' = e.job
  BY <1>0, <1>1, <1>5 DEF OwnsLive, Owns, ExecInv, InSync
<1>7. CASE e.job = NoRow
  <2>1. PICK f \in Executions : f = [g EXCEPT !.pc = "intent"]
    BY ExecutionTypes
  <2>2. f.token = g.token /\ f.job = NoRow /\ f.result = e.result /\ f.pc = "intent"
    BY <1>5, <1>7, <2>1 DEF Executions
  <2>3. Becomes(e, f)
    BY <1>3, <1>4, <1>7, <2>1
  <2>4. OwnsLive(f)' => row' = NoRow
    BY <1>6, <1>7, <2>2 DEF OwnsLive, Owns
  <2>5. ExecInv(f)'
    BY <1>0, <1>1, <2>2, <2>4 DEF ExecInv, StepInv, InSync, Full
  <2>6. ~Full(f.job)
    BY <2>2 DEF Full
  <2>. QED
    BY <1>1, <1>5, <2>2, <2>3, <2>5, <2>6, HeldStep
<1>8. CASE e.job # NoRow
  <2>1. e.job \in Checkpoints /\ Full(e.job) /\ Truthful(e.job)'
    BY <1>0, <1>2, <1>8 DEF Executions, ExecInv, StepInv
  <2>2. row' # NoRow /\ (e.job.status = "succeeded" => row'.status = "succeeded")
    BY <1>0, <1>1, <1>8 DEF ExecInv
  <2>3. PICK f \in Executions : f = Continue(g, e.job)
    BY <2>1, ContinueType
  <2>4. Becomes(e, f)
    BY <1>3, <1>4, <1>8, <2>3
  <2>5. ExecInv(f)' /\ f.token = g.token /\ f.job = e.job
    BY <1>6, <2>1, <2>2, <2>3, ContinuedExecution
  <2>6. Recorded(f.job.target)
    BY <2>1, <2>5 DEF Recorded
  <2>. QED
    BY <1>1, <1>5, <2>4, <2>5, <2>6, HeldStep
<1>. QED
  BY <1>7, <1>8

\* The intent is the first record of the occurrence.
LEMMA SaveIntentKeeps ==
    ASSUME Inv, TypeOK', NEW e \in execs, SaveIntent(e)
    PROVE  Safe'
<1>0. TypeOK /\ e \in Executions /\ ExecInv(e) /\ e.pc = "intent"
  BY DEF Inv, Safe, TypeOK, SaveIntent, At
<1>1. CASE Fails(e) /\ UNCHANGED row
  <2>1. UNCHANGED <<ledger, row, rec, world>>
    BY <1>1 DEF SaveIntent
  <2>. QED
    BY <1>1, <2>1, FailureKeeps
<1>2. CASE ~(Fails(e) /\ UNCHANGED row)
  <2>1. PICK j \in Checkpoints : j = Checkpoint(e.target, e.deadline, "submitting", FALSE)
    BY <1>0, CheckpointTypes DEF Executions
  <2>2. /\ OwnsLive(e) /\ row' = j /\ (Becomes(e, Continue(e, j)) \/ Fails(e))
        /\ rec' = rec /\ remote' = remote /\ UNCHANGED ledger /\ posted' = posted
    BY <1>2, <2>1 DEF SaveIntent, Accepts, world
  <2>3. Full(j) /\ Truthful(j)
    BY <1>0, <2>1 DEF Checkpoint, Full, NoRow, Truthful, TruthAt, Executions
  <2>4. row = NoRow
    BY <1>0, <2>2 DEF ExecInv, StepInv, InSync
  <2>5. /\ posted = {} /\ rec = NoRequest /\ \A g \in execs : g.job = NoRow
    BY <2>4 DEF Inv, Safe, IntentFirst, ExecInv
  <2>6. \A t \in Targets : ~Recorded(t)
    BY <2>4, <2>5 DEF Recorded, Full
  <2>7. Truthful(j)' /\ \A k \in Checkpoints : Truthful(k) => Truthful(k)'
    BY <1>0, <2>2, <2>3, RemoteForward
  <2>8. CASE Becomes(e, Continue(e, j))
    <3>1. PICK f \in Executions : f = Continue(e, j)
      BY <1>0, ContinueType
    <3>2. ExecInv(f)' /\ f.token = e.token /\ f.job = j
      BY <1>0, <2>2, <2>3, <2>7, <3>1, ContinuedExecution DEF Full
    <3>3. /\ row' \in Checkpoints /\ ~row'.compacted /\ Truthful(row') /\ f.job \in {NoRow, row'}
          /\ row.status \in Resolved => row' = row
      BY <2>2, <2>3, <2>4, <3>2 DEF Full, NoRow, Resolved
    <3>. QED
      BY <2>2, <2>6, <2>8, <3>1, <3>2, <3>3, OwnerWrites
  <2>9. CASE Fails(e)
    <3>1. PICK f \in Executions : f = [e EXCEPT !.pc = "return", !.result = Failure(e)]
      BY <1>0, ExecutionTypes
    <3>2. row = NoRow \/ row' # NoRow
      BY <2>4
    <3>3. ExecInv(f)' /\ f.token = e.token /\ f.job = e.job
      BY <2>7, <3>1, <3>2, FailedExecution
    <3>4. /\ row' \in Checkpoints /\ ~row'.compacted /\ Truthful(row') /\ f.job \in {NoRow, row'}
          /\ row.status \in Resolved => row' = row
      BY <2>2, <2>3, <2>4, <2>5, <3>3 DEF Full, NoRow, Resolved
    <3>5. Becomes(e, f)
      BY <2>9, <3>1 DEF Fails
    <3>. QED
      BY <2>2, <2>6, <3>3, <3>4, <3>5, OwnerWrites
  <2>. QED
    BY <2>2, <2>8, <2>9
<1>. QED
  BY <1>1, <1>2

\* An observation replaces the checkpoint it followed.
LEMMA SaveObservationKeeps ==
    ASSUME Inv, TypeOK', NEW e \in execs, SaveObservation(e)
    PROVE  Safe'
<1>0. TypeOK /\ e \in Executions /\ ExecInv(e) /\ e.pc = "save"
  BY DEF Inv, Safe, TypeOK, SaveObservation, At
<1>1. CASE Fails(e) /\ UNCHANGED row
  <2>1. UNCHANGED <<ledger, row, rec, world>>
    BY <1>1 DEF SaveObservation
  <2>. QED
    BY <1>1, <2>1, FailureKeeps
<1>2. CASE ~(Fails(e) /\ UNCHANGED row)
  <2>1. e.job \in Checkpoints /\ Full(e.job) /\ Truthful(e.job)
    BY <1>0, HeldTypes DEF ExecInv
  <2>2. /\ OwnsLive(e) /\ row' = e.job /\ (Becomes(e, Continue(e, e.job)) \/ Fails(e))
        /\ rec' = rec /\ remote' = remote /\ UNCHANGED ledger /\ posted' = posted
    BY <1>2 DEF SaveObservation, Accepts, world
  <2>3. row # NoRow /\ row.status \notin Resolved
    BY <1>0, <2>2 DEF ExecInv, InSync, Unresolved, Resolved
  <2>4. Recorded(row'.target)
    BY <2>1, <2>2 DEF Recorded
  <2>5. Truthful(e.job)' /\ \A k \in Checkpoints : Truthful(k) => Truthful(k)'
    BY <1>0, <2>1, <2>2, RemoteForward
  <2>6. PICK f \in Executions :
           /\ Becomes(e, f)
           /\ \/ f = Continue(e, e.job)
              \/ f = [e EXCEPT !.pc = "return", !.result = Failure(e)]
    BY <1>0, <2>1, <2>2, ContinueType, ExecutionTypes DEF Fails
  <2>7. ExecInv(f)' /\ f.token = e.token /\ f.job = e.job
    <3>1. CASE f = Continue(e, e.job)
      BY <1>0, <2>1, <2>2, <2>5, <3>1, ContinuedExecution DEF Full
    <3>2. CASE f = [e EXCEPT !.pc = "return", !.result = Failure(e)]
      <4>1. row = NoRow \/ row' # NoRow
        BY <2>1, <2>2 DEF Full
      <4>. QED
        BY <2>5, <3>2, <4>1, FailedExecution
    <3>. QED
      BY <2>6, <3>1, <3>2
  <2>8. /\ row' \in Checkpoints /\ ~row'.compacted /\ Truthful(row') /\ f.job \in {NoRow, row'}
        /\ row.status \in Resolved => row' = row
    BY <2>1, <2>2, <2>3, <2>7 DEF Full
  <2>. QED
    BY <2>2, <2>4, <2>6, <2>7, <2>8, OwnerWrites
<1>. QED
  BY <1>1, <1>2

\* The outcome, recorded under the exact token, or the run released.
LEMMA ReturnKeeps ==
    ASSUME Inv, TypeOK', NEW e \in execs, Return(e)
    PROVE  Safe'
<1>0. TypeOK /\ e \in Executions /\ ExecInv(e) /\ e.pc = "return"
  BY DEF Inv, Safe, TypeOK, Return, At
<1>1. /\ row' = row /\ rec' = rec /\ remote' = remote /\ posted' = posted
      /\ claims' = claims /\ execs' = execs \ {e}
  BY DEF Return, Ends, world
<1>2. lease' \in {lease, NoLease}
  BY DEF Return
<1>3. \/ /\ Owns(e) /\ lease' = NoLease
         /\ \A a \in Attempts : runs'[a] \in {runs[a], FinishedAs(e), Queued}
      \/ UNCHANGED <<runs, lease>>
  BY <1>0 DEF Return, OwnsLive, TypeOK
<1>4. FinishedAs(e) \notin {"none", "pruned"} /\ (FinishedAs(e) = "succeeded" => row.status = "succeeded")
  BY <1>0 DEF FinishedAs, ExecInv, StepInv, Executions, Results
<1>a. \A j \in Checkpoints : Truthful(j) => Truthful(j)'
  BY <1>0, <1>1, RemoteForward
<1>5. LeaseInv'
  <2>1. CASE lease' = NoLease
    BY <1>1, <2>1 DEF LeaseInv, Inv, Safe, NoLease, TypeOK
  <2>2. CASE UNCHANGED <<runs, lease>>
    BY <1>1, <2>2 DEF LeaseInv, Inv, Safe
  <2>. QED
    BY <1>3, <2>1, <2>2
<1>6. IntentFirst'
  BY <1>1 DEF IntentFirst, Inv, Safe
<1>7. OneSnapshot'
  BY <1>1 DEF OneSnapshot, Recorded, Full, Inv, Safe
<1>8. SentFirst'
  BY <1>1 DEF SentFirst, Inv, Safe
<1>9. Full(row)' => Truthful(row)'
  BY <1>1 DEF Full, Inv, Safe, Truthful
<1>10. RowKept'
  <2>1. CASE Owns(e) /\ \A a \in Attempts : runs'[a] \in {runs[a], FinishedAs(e), Queued}
    <3>1. ~(row # NoRow /\ row.compacted)
      BY <2>1, OneOwner, HeldRow
    <3>. QED
      BY <1>1, <1>4, <2>1, <3>1 DEF RowKept, Inv, Safe, Queued
  <2>2. CASE UNCHANGED <<runs, lease>>
    BY <1>1, <2>2 DEF RowKept, Inv, Safe
  <2>. QED
    BY <1>3, <2>1, <2>2
<1>11. SuccessRecorded'
  BY <1>1, <1>3, <1>4 DEF SuccessRecorded, Inv, Safe, Queued
<1>12. ASSUME NEW g \in execs'
       PROVE  ExecInv(g)'
  <2>1. g \in execs /\ g \in Executions
    BY <1>1, <1>12 DEF Inv, TypeOK
  <2>2. OwnsLive(g)' => OwnsLive(g)
    BY <1>2, <2>1 DEF OwnsLive, Owns, NoLease
  <2>. QED
    BY <1>1, <1>a, <2>1, <2>2, SameRow
<1>13. RecInv'
  BY <1>1 DEF RecInv, Inv, Safe, Full, Truthful
<1>. QED
  BY <1>5, <1>6, <1>7, <1>8, <1>9, <1>10, <1>11, <1>12, <1>13 DEF Safe

\* The steps of an execution keep the invariant.
LEMMA ExecutionKeeps ==
    ASSUME Inv, TypeOK', NEW e \in execs, Execution(e)
    PROVE  Safe'
<1>1. CASE NoAnswer(e)
  <2>1. UNCHANGED <<ledger, row, rec, world>>
    BY <1>1 DEF NoAnswer
  <2>. QED
    BY <1>1, <2>1, FailureKeeps DEF NoAnswer
<1>2. CASE Abandon(e)
  <2>1. Ends(e) /\ UNCHANGED <<ledger, row, rec, world>>
    BY <1>2 DEF Abandon
  <2>. QED
    BY <2>1, EndKeeps
<1>. QED
  BY <1>1, <1>2, LoadKeeps, MarkRunningKeeps, RegisterKeeps, SaveIntentKeeps, PostKeeps, AnswerKeeps,
     SaveObservationKeeps, ReturnKeeps DEF Execution

-----------------------------------------------------------------------------
(***************************************************************************)
(* The steps of the surroundings, of reconciliation and of retention.      *)
(***************************************************************************)

\* The clock, the runner, the dispatcher, and the daemon's death.
LEMMA SurroundingsKeep ==
    ASSUME Inv, TypeOK',
           \/ \E t \in posted : SubmissionArrives(t)
           \/ \E o \in Origins : RunnerWorks(o)
           \/ \E a \in Attempts : DeadlinePasses(a)
           \/ LeaseExpires
           \/ RecoverLease
           \/ CancelRecovered
           \/ \E a \in Attempts, t \in Targets : Claim(a, t)
           \/ Restart
           \/ \E e \in execs : CancelExecution(e)
           \/ UNCHANGED vars
    PROVE  Safe'
<1>0. TypeOK /\ LeaseInv /\ SentFirst
  BY DEF Inv, Safe
<1>1. ASSUME NEW t \in posted, SubmissionArrives(t)
      PROVE  Safe'
  <2>1. \A j \in Checkpoints : Truthful(j) => Truthful(j)'
    BY <1>0, <1>1, RemoteForward
  <2>2. /\ row' = row /\ posted' = posted /\ rec' = rec /\ execs' = execs
        /\ runs' = runs /\ lease' = lease /\ claims' = claims
    BY <1>1 DEF SubmissionArrives, ledger
  <2>3. t.origin \in Origins
    BY <1>0, ConstantTypes DEF TypeOK
  <2>4. SentFirst'
    BY <1>0, <1>1, <2>2, <2>3 DEF SentFirst, SubmissionArrives, Runner!Accept, Runner!Job, TypeOK
  <2>5. LeaseInv'
    BY <1>0, <2>2 DEF LeaseInv
  <2>6. \A f \in execs' : f \in execs /\ (OwnsLive(f)' => OwnsLive(f))
    BY <2>2 DEF OwnsLive, Owns
  <2>. QED
    BY <2>1, <2>2, <2>4, <2>5, <2>6, QuietStep
<1>2. ASSUME NEW o \in Origins, RunnerWorks(o)
      PROVE  Safe'
  <2>1. \A j \in Checkpoints : Truthful(j) => Truthful(j)'
    BY <1>0, <1>2, RemoteForward
  <2>2. /\ row' = row /\ posted' = posted /\ rec' = rec /\ execs' = execs
        /\ runs' = runs /\ lease' = lease /\ claims' = claims
    BY <1>2 DEF RunnerWorks, ledger
  <2>3. remote[o] \in RemoteJobs
    BY <1>0, <1>2 DEF TypeOK, RunnerWorks, Runner!Start, Runner!Report, Runner!Succeed, Runner!Stop, Runner!NoJob
  <2>4. /\ remote[o] # Runner!NoJob /\ remote'[o].req = remote[o].req
        /\ \A p \in Origins : p # o => remote'[p] = remote[p]
    BY <1>0, <1>2, <2>3 DEF TypeOK, RunnerWorks, RemoteJobs,
       Runner!Start, Runner!Report, Runner!Succeed, Runner!Stop, Runner!NoJob
  <2>5. SentFirst'
    BY <1>0, <2>2, <2>4 DEF SentFirst
  <2>6. LeaseInv'
    BY <1>0, <2>2 DEF LeaseInv
  <2>7. \A f \in execs' : f \in execs /\ (OwnsLive(f)' => OwnsLive(f))
    BY <2>2 DEF OwnsLive, Owns
  <2>. QED
    BY <2>1, <2>2, <2>5, <2>6, <2>7, QuietStep
<1>3. CASE /\ UNCHANGED <<row, posted, remote>> /\ rec' \in {rec, NoRequest}
           /\ \/ \E a \in Attempts : DeadlinePasses(a)
              \/ LeaseExpires
              \/ RecoverLease
              \/ CancelRecovered
              \/ \E a \in Attempts, t \in Targets : Claim(a, t)
              \/ Restart
              \/ \E e \in execs : CancelExecution(e)
              \/ UNCHANGED vars
  <2>1. \A j \in Checkpoints : Truthful(j) => Truthful(j)'
    BY <1>0, <1>3, RemoteForward
  <2>2. SentFirst'
    BY <1>0, <1>3 DEF SentFirst
  <2>3. SUFFICES /\ LeaseInv'
                 /\ \A a \in Attempts :
                       \/ runs'[a] = runs[a]
                       \/ runs[a] \in {Queued} \union Active /\ runs'[a] \in {Queued} \union Active
                 /\ \A f \in execs' :
                       \/ \E g \in execs :
                             /\ f.pc = g.pc /\ f.job = g.job /\ f.result = g.result
                             /\ OwnsLive(f)' => OwnsLive(g)
                       \/ f.pc = "load" /\ f.job = NoRow /\ f.result = "none"
    BY <1>3, <2>1, <2>2, QuietStep
  <2>. DEFINE Followed(f, g) ==
                f.pc = g.pc /\ f.job = g.job /\ f.result = g.result /\ f.token = g.token
  <2>4. ASSUME NEW a \in Attempts, DeadlinePasses(a)
        PROVE  /\ LeaseInv' /\ UNCHANGED <<runs, lease>>
               /\ \A f \in execs' : \E g \in execs : Followed(f, g)
    <3>. DEFINE up(g) == IF g.pc \in Started /\ g.ctx = "ok" /\ g.deadline = a THEN [g EXCEPT !.ctx = "late"] ELSE g
    <3>1. execs' = {up(g) : g \in execs} /\ UNCHANGED ledger
      BY <2>4 DEF DeadlinePasses
    <3>2. \A g \in execs : Followed(up(g), g)
      BY <1>0 DEF TypeOK, Executions
    <3>. HIDE DEF up
    <3>. QED
      BY <1>0, <3>1, <3>2 DEF LeaseInv, ledger
  <2>5. CASE LeaseExpires
    BY <1>0, <2>5 DEF LeaseExpires, LeaseInv, TypeOK, OwnsLive, Owns
  <2>6. ASSUME RecoverLease
        PROVE  /\ LeaseInv' /\ lease' = NoLease
               /\ \A a \in Attempts :
                     \/ runs'[a] = runs[a]
                     \/ runs[a] \in {Queued} \union Active /\ runs'[a] \in {Queued} \union Active
               /\ \A f \in execs' : \E g \in execs : Followed(f, g)
    <3>1. lease' = NoLease /\ claims' = claims /\ claims \in Nat /\ execs' = execs
      BY <1>0, <2>6 DEF RecoverLease, TypeOK
    <3>2. \A a \in Attempts :
             \/ runs'[a] = runs[a]
             \/ runs[a] \in {Queued} \union Active /\ runs'[a] \in {Queued} \union Active
      BY <1>0, <2>6 DEF RecoverLease, TypeOK
    <3>. QED
      BY <1>0, <3>1, <3>2 DEF LeaseInv, NoLease
  <2>c. ASSUME CancelRecovered
        PROVE  /\ LeaseInv' /\ UNCHANGED <<runs, lease>>
               /\ \A f \in execs' : \E g \in execs : Followed(f, g)
    <3>. DEFINE up(g) == IF g.attempt = toCancel /\ active[toCancel] = g.token
                            /\ g.pc \in Started /\ g.ctx = "ok"
                         THEN [g EXCEPT !.ctx = "cancelled"] ELSE g
    <3>1. execs' = {up(g) : g \in execs} /\ UNCHANGED ledger
      BY <2>c DEF CancelRecovered
    <3>2. \A g \in execs : Followed(up(g), g)
      BY <1>0 DEF TypeOK, Executions
    <3>. HIDE DEF up
    <3>. QED
      BY <1>0, <3>1, <3>2 DEF LeaseInv, ledger
  <2>7. ASSUME NEW a \in Attempts, NEW t \in Targets, Claim(a, t)
        PROVE  /\ LeaseInv'
               /\ \A b \in Attempts :
                     \/ runs'[b] = runs[b]
                     \/ runs[b] \in {Queued} \union Active /\ runs'[b] \in {Queued} \union Active
               /\ \A f \in execs' :
                     \/ f \in execs /\ ~OwnsLive(f)'
                     \/ f.pc = "load" /\ f.job = NoRow /\ f.result = "none"
    <3>1. PICK f : f = [token |-> claims + 1, attempt |-> a, target |-> t, pc |-> "load",
                        ctx |-> "ok", deadline |-> a, job |-> NoRow, result |-> "none"]
      OBVIOUS
    <3>2. /\ execs' \subseteq execs \union {f} /\ f.token = claims + 1
          /\ f.pc = "load" /\ f.job = NoRow /\ f.result = "none"
      BY <2>7, <3>1 DEF Claim
    <3>3. /\ lease' = [token |-> claims + 1, attempt |-> a, live |-> TRUE]
          /\ runs' = [runs EXCEPT ![a] = "claimed"] /\ runs[a] = Queued /\ claims' = claims + 1
      BY <2>7 DEF Claim
    <3>4. claims \in Nat /\ \A g \in execs : g.token <= claims /\ g.token \in Nat
      BY <1>0 DEF LeaseInv, TypeOK, Executions
    <3>5. LeaseInv'
      BY <1>0, <3>2, <3>3, <3>4 DEF LeaseInv, TypeOK, Active
    <3>6. \A g \in execs : ~OwnsLive(g)'
      BY <3>3, <3>4 DEF OwnsLive, Owns
    <3>. QED
      BY <1>0, <3>2, <3>3, <3>5, <3>6 DEF TypeOK, Active
  <2>8. CASE Restart
    BY <1>0, <2>8 DEF Restart, LeaseInv, ledger
  <2>9. ASSUME NEW e \in execs, CancelExecution(e)
        PROVE  /\ LeaseInv' /\ UNCHANGED <<runs, lease>>
               /\ \A f \in execs' : \E g \in execs : Followed(f, g)
    <3>1. PICK f : f = [e EXCEPT !.ctx = "cancelled"]
      OBVIOUS
    <3>2. Followed(f, e)
      BY <1>0, <3>1 DEF TypeOK, Executions
    <3>3. execs' = (execs \ {e}) \union {f} /\ UNCHANGED ledger
      BY <2>9, <3>1 DEF CancelExecution
    <3>. QED
      BY <1>0, <3>2, <3>3 DEF LeaseInv, ledger
  <2>10. CASE UNCHANGED vars
    BY <1>0, <2>10 DEF vars, LeaseInv, OwnsLive, Owns
  <2>11. lease' = lease \/ lease' = NoLease => \A f \in execs', g \in execs :
            Followed(f, g) => (OwnsLive(f)' => OwnsLive(g))
    BY DEF OwnsLive, Owns, NoLease
  <2>. QED
    BY <1>3, <2>4, <2>5, <2>6, <2>c, <2>7, <2>8, <2>9, <2>10, <2>11
<1>. QED
  BY <1>1, <1>2, <1>3 DEF DeadlinePasses, LeaseExpires, RecoverLease, CancelRecovered, Claim, Restart,
     CancelExecution, vars, world

\* Reading the row to reconcile, and the runner's answer.
LEMMA ReconcileBeginKeeps ==
    ASSUME Inv, TypeOK', ReconcileBegin
    PROVE  Safe'
<1>0. TypeOK /\ Safe
  BY DEF Inv
<1>1. /\ row # NoRow /\ Full(row) /\ row.status \in Unresolved /\ Truthful(row)
      /\ row \in Checkpoints
  BY <1>0 DEF ReconcileBegin, ReconciliationAvailable, Full, Safe, TypeOK
<1>2. PICK r : r = [pc |-> "observe", expected |-> row, observed |-> row]
  OBVIOUS
<1>3. r # NoRequest /\ r.expected = row /\ r.observed = row
  BY <1>2 DEF NoRequest
<1>4. /\ rec' = r /\ row' = row /\ execs' = execs /\ posted' = posted /\ remote' = remote
      /\ runs' = runs /\ lease' = lease /\ claims' = claims
  BY <1>2 DEF ReconcileBegin, ledger, world
<1>5. Rank(row.status) <= Rank(row.status)
  BY DEF Rank
<1>6. \A t \in Targets : Recorded(t)' => Recorded(t)
  BY <1>1, <1>3, <1>4 DEF Recorded, Full
<1>7. \A e \in execs' : ExecInv(e)'
  BY <1>0, <1>4 DEF Safe, ExecInv, StepInv, InSync, OwnsLive, Owns, Full, Truthful
<1>8. RecInv'
  BY <1>1, <1>3, <1>4, <1>5 DEF RecInv, Full, Truthful
<1>. QED
  BY <1>0, <1>1, <1>4, <1>6, <1>7, <1>8 DEF Safe, LeaseInv, IntentFirst, OneSnapshot, SentFirst,
     RowKept, SuccessRecorded, Full, Truthful

LEMMA ReconcileObserveKeeps ==
    ASSUME Inv, TypeOK', ReconcileObserve
    PROVE  Safe'
<1>0. TypeOK /\ Safe /\ RecInv
  BY DEF Inv, Safe
<1>1. rec # NoRequest /\ rec \in Reconciliations
  BY <1>0 DEF ReconcileObserve, NoRequest, TypeOK
<1>2. /\ row' = row /\ execs' = execs /\ posted' = posted /\ remote' = remote
      /\ runs' = runs /\ lease' = lease /\ claims' = claims
  BY DEF ReconcileObserve, ledger, world
<1>3. \A e \in execs' : ExecInv(e)'
  BY <1>0, <1>2 DEF Safe, ExecInv, StepInv, InSync, OwnsLive, Owns, Full, Truthful
<1>4. RecInv'
  <2>1. CASE rec' = NoRequest
    BY <2>1 DEF RecInv
  <2>2. CASE /\ RunnerJob(rec.expected) # Runner!NoJob
             /\ rec' = [rec EXCEPT !.pc = "commit", !.observed = Observation(rec.expected)]
    <3>1. /\ rec.expected \in Checkpoints /\ Full(rec.expected) /\ Truthful(rec.expected)
          /\ rec.expected.status \in Unresolved
      BY <1>0, <1>1 DEF RecInv, Reconciliations
    <3>2. PICK k \in Checkpoints :
             /\ k = Observation(rec.expected)
             /\ Full(k) /\ k.known /\ Truthful(k)
             /\ k.target = rec.expected.target /\ k.deadline = rec.expected.deadline
             /\ Rank(rec.expected.status) <= Rank(k.status)
      BY <1>0, <2>2, <3>1, ObservationFacts
    <3>3. rec'.expected = rec.expected /\ rec'.observed = k
      BY <1>1, <2>2, <3>2 DEF Reconciliations
    <3>. QED
      BY <1>2, <3>1, <3>2, <3>3 DEF RecInv, Truthful
  <2>. QED
    BY <2>1, <2>2 DEF ReconcileObserve
<1>5. \A t \in Targets : Recorded(t)' => Recorded(t)
  <2>1. rec' # NoRequest => rec'.expected = rec.expected
    BY <1>1 DEF ReconcileObserve, Reconciliations
  <2>. QED
    BY <1>1, <1>2, <2>1 DEF Recorded, Full
<1>6. IntentFirst'
  BY <1>0, <1>1, <1>2 DEF Safe, IntentFirst
<1>. QED
  BY <1>0, <1>2, <1>3, <1>4, <1>5, <1>6 DEF Safe, LeaseInv, OneSnapshot, SentFirst,
     RowKept, SuccessRecorded, Full, Truthful

\* The operator's write: nobody holds a lease, and the row is still the one
\* that was read.
LEMMA ReconcileCommitKeeps ==
    ASSUME Inv, TypeOK', ReconcileCommit
    PROVE  Safe'
<1>0. TypeOK /\ Safe /\ RecInv
  BY DEF Inv, Safe
<1>1. rec # NoRequest /\ rec \in Reconciliations
  BY <1>0 DEF ReconcileCommit, NoRequest, TypeOK
<1>2. /\ rec' = NoRequest /\ execs' = execs /\ posted' = posted /\ remote' = remote
      /\ runs' = runs /\ lease' = lease /\ claims' = claims
  BY DEF ReconcileCommit, ledger, world
<1>3. CASE row' = row
  <2>1. \A e \in execs' : ExecInv(e)'
    BY <1>0, <1>2, <1>3 DEF Safe, ExecInv, StepInv, InSync, OwnsLive, Owns, Full, Truthful
  <2>2. \A t \in Targets : Recorded(t)' => Recorded(t)
    BY <1>2, <1>3 DEF Recorded, Full
  <2>. QED
    BY <1>0, <1>2, <1>3, <2>1, <2>2 DEF Safe, LeaseInv, IntentFirst, OneSnapshot, SentFirst,
       RowKept, SuccessRecorded, RecInv, Full, Truthful
<1>4. CASE CanReconcile /\ row' = rec.observed
  <2>1. /\ row = rec.expected /\ Full(row) /\ row.status \in Unresolved
        /\ Full(row') /\ Truthful(row') /\ row'.target = row.target
    BY <1>0, <1>1, <1>4 DEF RecInv, CanReconcile
  <2>2. \A a \in Attempts : runs[a] \notin Active
    BY <1>4 DEF CanReconcile
  <2>3. \A g \in execs : ~OwnsLive(g)'
    BY <1>0, <1>2, <2>2 DEF Safe, LeaseInv, TypeOK, OwnsLive, Owns, Executions
  <2>4. row' # NoRow /\ row.status # "succeeded"
    BY <2>1 DEF Full, Unresolved
  <2>5. \A j \in Checkpoints : Truthful(j) => Truthful(j)'
    BY <1>0, <1>2, RemoteForward
  <2>6. \A e \in execs' : ExecInv(e)'
    BY <1>2, <2>3, <2>4, <2>5, RowWritten
  <2>7. \A t \in Targets : Recorded(t)' => Recorded(t)
    BY <1>2, <2>1 DEF Recorded, Full
  <2>8. RowKept'
    BY <1>0, <1>2, <2>1 DEF Safe, RowKept, Full
  <2>9. SuccessRecorded'
    BY <1>0, <1>2, <2>4 DEF Safe, SuccessRecorded
  <2>10. (Full(row) => Truthful(row))'
    BY <1>2, <2>1 DEF Truthful
  <2>. QED
    BY <1>0, <1>2, <2>4, <2>6, <2>7, <2>8, <2>9, <2>10 DEF Safe, LeaseInv, IntentFirst, OneSnapshot,
       SentFirst, RecInv
<1>. QED
  BY <1>3, <1>4 DEF ReconcileCommit

\* Retention: only finished runs go, and only a resolved row is compacted,
\* after the last of them.
LEMMA PruneKeeps ==
    ASSUME Inv, TypeOK', NEW u \in Attempts, Prune(u)
    PROVE  Safe'
<1>0. TypeOK /\ Safe
  BY DEF Inv
<1>1. /\ rec' = rec /\ execs' = execs /\ posted' = posted /\ remote' = remote
      /\ lease' = lease /\ claims' = claims /\ row.status \notin Unresolved
  BY DEF Prune, Prunable, world
<1>2. \A a \in Attempts : runs'[a] = runs[a] \/ (runs[a] \in Terminal /\ runs'[a] = "pruned")
  BY DEF Prune
<1>3. LeaseInv'
  BY <1>0, <1>1, <1>2 DEF Safe, LeaseInv, TypeOK, Active, Terminal
<1>4. SuccessRecorded'
  <2>1. row'.status = row.status
    BY <1>0 DEF Prune, Compacted, TypeOK, Checkpoints, NoRow, Resolved
  <2>. QED
    BY <1>0, <1>2, <2>1 DEF Safe, SuccessRecorded
<1>5. CASE row' = row
  <2>1. \A e \in execs' : ExecInv(e)'
    BY <1>0, <1>1, <1>5 DEF Safe, ExecInv, StepInv, InSync, OwnsLive, Owns, Full, Truthful
  <2>2. \A t \in Targets : Recorded(t)' => Recorded(t)
    BY <1>1, <1>5 DEF Recorded, Full
  <2>3. RowKept'
    BY <1>0, <1>1, <1>2, <1>5 DEF Safe, RowKept, Terminal
  <2>. QED
    BY <1>0, <1>1, <1>3, <1>4, <1>5, <2>1, <2>2, <2>3 DEF Safe, IntentFirst, OneSnapshot, SentFirst,
       RecInv, Full, Truthful
<1>6. CASE /\ row' = Compacted(row) /\ row.status \in Resolved
           /\ \A a \in Attempts : runs'[a] \in {"none", "pruned"}
  <2>1. row \in Checkpoints
    BY <1>0, <1>6 DEF TypeOK, NoRow, Resolved
  <2>2. row'.status = row.status /\ row'.compacted /\ row' # NoRow /\ row # NoRow
    <3>1. row'.status = row.status /\ row'.compacted
      BY <1>6, <2>1 DEF Compacted, Checkpoints
    <3>. QED
      BY <1>6, <3>1 DEF NoRow, Resolved
  <2>3. \A g \in execs : ~OwnsLive(g)'
    BY <1>0, <1>1, <1>3, <1>6 DEF LeaseInv, TypeOK, OwnsLive, Owns, Executions, Active
  <2>4. \A j \in Checkpoints : Truthful(j) => Truthful(j)'
    BY <1>0, <1>1, RemoteForward
  <2>5. \A e \in execs' : ExecInv(e)'
    BY <1>1, <2>2, <2>3, <2>4, RowWritten
  <2>6. \A t \in Targets : Recorded(t)' => Recorded(t)
    BY <1>1, <2>2 DEF Recorded, Full
  <2>7. RowKept'
    BY <1>1, <1>6, <2>2 DEF RowKept
  <2>. QED
    BY <1>0, <1>1, <1>3, <1>4, <2>2, <2>5, <2>6, <2>7 DEF Safe, IntentFirst, OneSnapshot, SentFirst,
       RecInv, Full, Truthful
<1>. QED
  BY <1>5, <1>6 DEF Prune

-----------------------------------------------------------------------------
(***************************************************************************)
(* The theorems.                                                           *)
(***************************************************************************)

LEMMA InitSafe == Init => Inv
<1>. SUFFICES ASSUME Init PROVE Safe
  BY InitTypes DEF Inv
<1>1. LeaseInv
  BY DEF Init, LeaseInv, NoLease
<1>2. RowKept /\ SuccessRecorded
  BY DEF Init, RowKept, SuccessRecorded, NoRow, Unresolved, Queued
<1>. QED
  BY <1>1, <1>2 DEF Init, Safe, IntentFirst, OneSnapshot, Recorded, SentFirst, RecInv, Full

LEMMA InvNext == Inv /\ [Next]_vars => Inv'
<1>. SUFFICES ASSUME Inv, [Next]_vars PROVE Inv'
  OBVIOUS
<1>1. TypeOK'
  BY NextTypes
<1>2. Safe'
  <2>1. ASSUME NEW e \in execs, Execution(e) PROVE Safe'
    BY <1>1, <2>1, ExecutionKeeps
  <2>2. ASSUME NEW a \in Attempts, Prune(a) PROVE Safe'
    BY <1>1, <2>2, PruneKeeps
  <2>3. CASE ReconcileBegin
    BY <1>1, <2>3, ReconcileBeginKeeps
  <2>4. CASE ReconcileObserve
    BY <1>1, <2>4, ReconcileObserveKeeps
  <2>5. CASE ReconcileCommit
    BY <1>1, <2>5, ReconcileCommitKeeps
  <2>. QED
    BY <1>1, <2>1, <2>2, <2>3, <2>4, <2>5, SurroundingsKeep DEF Next
<1>. QED
  BY <1>1, <1>2 DEF Inv

\* The inductive invariant, for any targets and any number of attempts.
LEMMA InvHolds == Spec => []Inv
BY InitSafe, InvNext, PTL DEF Spec

\* The ledger, the checkpoint, the goroutines and the runners keep their
\* types: store.go and job.go never leave a half-written row behind.
THEOREM TypeCorrect == Spec => []TypeOK
<1>1. Inv => TypeOK
  BY DEF Inv
<1>. QED
  BY <1>1, InvHolds, PTL

\* Whatever the operator edits and however submissions are repeated, one set
\* of instructions leaves for one runner (job.go:66).
THEOREM SameInstructionsHolds == Spec => []SameInstructions
<1>1. Inv => SameInstructions
  <2>. SUFFICES ASSUME Inv PROVE SameInstructions
    OBVIOUS
  <2>1. posted \subseteq Targets /\ \A t \in posted : Recorded(t)
    BY DEF Inv, TypeOK, Recorded
  <2>2. \A t, u \in posted : t = u
    BY <2>1 DEF Inv, Safe, OneSnapshot
  <2>3. Cardinality(posted) <= 1
    <3>1. CASE posted = {}
      BY <3>1, FS_EmptySet
    <3>2. ASSUME NEW t \in posted
          PROVE  Cardinality(posted) <= 1
      <4>1. posted = {t}
        BY <2>2
      <4>. QED
        BY <4>1, FS_Singleton
    <3>. QED
      BY <3>1, <3>2
  <2>4. ASSUME NEW t \in posted, row # NoRow, ~row.compacted
        PROVE  row.target \in posted
    <3>1. Recorded(row.target) /\ row.target \in Targets
      BY <2>4 DEF Recorded, Full, Inv, Safe, Truthful, TruthAt
    <3>2. t = row.target
      BY <2>1, <3>1 DEF Inv, Safe, OneSnapshot
    <3>. QED
      BY <3>2
  <2>. QED
    BY <2>3, <2>4 DEF SameInstructions, Inv, Safe, SentFirst
<1>. QED
  BY <1>1, InvHolds, PTL

\* Work that was submitted has a row, and an unresolved row keeps its target
\* and a run to reconcile through (store.go:564).
THEOREM NoOrphanWorkHolds == Spec => []NoOrphanWork
<1>1. Inv => NoOrphanWork
  <2>. SUFFICES ASSUME Inv, posted # {}
                PROVE  /\ row # NoRow
                       /\ row.status \in Unresolved =>
                            /\ ~row.compacted
                            /\ \E a \in Attempts : runs[a] \notin {"none", "pruned"}
    BY DEF NoOrphanWork
  <2>. QED
    BY DEF Inv, Safe, IntentFirst, RowKept, Resolved, Unresolved
<1>. QED
  BY <1>1, InvHolds, PTL

\* A checkpoint never runs ahead of the runner, and a run succeeds only when
\* its job did (job.go, jobResult).
THEOREM CheckpointTrueHolds == Spec => []CheckpointTrue
<1>1. Inv => CheckpointTrue
  BY DEF Inv, Safe, Full, Truthful, TruthAt, RunnerJob, SuccessRecorded, CheckpointTrue
<1>. QED
  BY <1>1, InvHolds, PTL

\* Nobody writes the row under the execution that holds the live lease,
\* neither an older execution of the attempt that recovery did not cancel
\* (external_jobs.go:102) nor the operator (external_jobs.go:381).
THEOREM OwnerInSyncHolds == Spec => []OwnerInSync
<1>1. Inv => OwnerInSync
  BY DEF Inv, Safe, ExecInv, InSync, OwnerInSync, OwnsLive, Owns
<1>. QED
  BY <1>1, InvHolds, PTL

\* The row only moves forward: SaveExternalJob and ReconcileExternalJob
\* replace it by a newer one with the same snapshot, compaction keeps its
\* status, and an execution that lost its lease, cancelled or not, writes
\* nothing beside a newer one (external_jobs.go:102).
THEOREM CheckpointForwardHolds == Spec => CheckpointForward
<1>. DEFINE Forward ==
              /\ Rank(row.status) <= Rank(row'.status)
              /\ row.status \in Resolved => row'.status = row.status
              /\ row # NoRow /\ ~row'.compacted =>
                   /\ row'.target = row.target /\ row'.deadline = row.deadline
                   /\ row.known => row'.known
<1>1. ASSUME Inv, [Next]_vars PROVE Forward
  <2>0. TypeOK /\ Rank(row.status) <= Rank(row.status)
    BY <1>1 DEF Inv, Rank
  <2>1. CASE row' = row
    BY <2>0, <2>1
  <2>2. ASSUME NEW e \in execs, SaveIntent(e) PROVE Forward
    <3>1. CASE row' = row
      BY <2>0, <3>1
    <3>2. CASE row' # row
      <4>1. OwnsLive(e) /\ e.pc = "intent"
        BY <2>2, <3>2 DEF SaveIntent, Accepts, At
      <4>2. row = NoRow
        BY <1>1, <4>1 DEF Inv, Safe, ExecInv, StepInv, InSync
      <4>3. Rank(row'.status) \in Nat /\ Rank(row.status) = 0 /\ row.status \notin Resolved
        BY <4>2 DEF Rank, NoRow, Resolved
      <4>. QED
        BY <4>2, <4>3
    <3>. QED
      BY <3>1, <3>2
  <2>3. ASSUME NEW e \in execs, SaveObservation(e) PROVE Forward
    <3>1. CASE row' = row
      BY <2>0, <3>1
    <3>2. CASE row' # row
      <4>1. OwnsLive(e) /\ e.pc = "save" /\ Accepts(e, e.job) /\ row' = e.job
        BY <2>3, <3>2 DEF SaveObservation, Accepts, At
      <4>2. row # NoRow /\ row.status \in Unresolved /\ Rank(row.status) <= Rank(e.job.status)
        BY <1>1, <4>1 DEF Inv, Safe, ExecInv, InSync
      <4>. QED
        BY <4>1, <4>2 DEF Accepts, Unresolved, Resolved
    <3>. QED
      BY <3>1, <3>2
  <2>4. CASE ReconcileCommit
    <3>1. CASE row' = row
      BY <2>0, <3>1
    <3>2. CASE row' # row
      <4>1. row = rec.expected /\ row' = rec.observed /\ rec # NoRequest
        BY <2>4, <3>2 DEF ReconcileCommit, CanReconcile, NoRequest
      <4>. QED
        BY <1>1, <4>1 DEF Inv, Safe, RecInv, Unresolved, Resolved
    <3>. QED
      BY <3>1, <3>2
  <2>5. ASSUME NEW a \in Attempts, Prune(a) PROVE Forward
    <3>1. CASE row' = row
      BY <2>0, <3>1
    <3>2. CASE row' # row
      <4>1. row' = Compacted(row) /\ row \in Checkpoints
        BY <2>0, <2>5, <3>2 DEF Prune, TypeOK, NoRow, Resolved
      <4>2. row'.status = row.status /\ row'.compacted
        BY <4>1 DEF Compacted, Checkpoints
      <4>. QED
        BY <2>0, <4>2
    <3>. QED
      BY <3>1, <3>2
  <2>6. \/ row' = row
        \/ \E e \in execs : SaveIntent(e) \/ SaveObservation(e)
        \/ ReconcileCommit
        \/ \E a \in Attempts : Prune(a)
    BY <1>1 DEF Next, vars, SubmissionArrives, RunnerWorks, DeadlinePasses, LeaseExpires, RecoverLease,
       CancelRecovered, Claim, Restart, CancelExecution, Execution, Load, MarkRunning, Register, Abandon, Post, Answer, NoAnswer, Return,
       ReconcileBegin, ReconcileObserve
  <2>. QED
    BY <2>1, <2>2, <2>3, <2>4, <2>5, <2>6
<1>2. Inv /\ [Next]_vars => [Forward]_vars
  BY <1>1
<1>. QED
  BY <1>2, InvHolds, PTL DEF CheckpointForward, Spec

=============================================================================
