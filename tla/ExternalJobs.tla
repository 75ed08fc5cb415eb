---------------------------- MODULE ExternalJobs ----------------------------
(***************************************************************************)
(* One occurrence of a schedule whose target is a tracked HTTP job: its    *)
(* attempts, the executions that submit and poll the remote job, the       *)
(* checkpoint row in external_jobs, reconciliation by an operator, and     *)
(* retention.  The remote runner is JobService, one per origin.            *)
(*                                                                         *)
(* A submission may be lost, delayed or delivered again, an answer may be  *)
(* lost, an execution may outlive its lease, the daemon may die between    *)
(* any two steps, and the operator may edit the target at any moment.      *)
(* RunLedger.tla has the leases and the dispatcher in detail; here a lease *)
(* is its token and whether it has expired.                                *)
(***************************************************************************)
EXTENDS Naturals, FiniteSets

CONSTANTS
    Origins,      \* runners a target may address
    Bodies,       \* request bodies
    Targets,      \* targets the operator may give the schedule
    MaxAttempts,  \* retry.max_attempts
    MaxClaims     \* bound: claims of the occurrence's runs

ASSUME TargetAssumption ==
    Targets \subseteq [origin : Origins, body : Bodies, lookup : BOOLEAN]
ASSUME JobBounds == MaxAttempts \in Nat \ {0} /\ MaxClaims \in Nat

VARIABLES
    runs,     \* schedule_runs.status of each attempt
    lease,    \* the claim on the active attempt: token (0: none), attempt, live
    claims,   \* claims made so far, the source of lease tokens
    row,      \* the row of external_jobs
    execs,    \* the goroutines in executeRun
    active,   \* Dispatcher.active: the token registered for an attempt, 0: none
    toCancel, \* the attempt recovery requeued and is about to cancel, 0: none
    rec,      \* a request to reconcile: the row it read and what it observed
    posted,   \* targets a submission was sent to; it may arrive at any time
    remote,   \* the runners' jobs under the occurrence's key
    passed    \* job deadlines that passed, by the attempt they started from

vars == <<runs, lease, claims, row, execs, active, toCancel, rec, posted, remote, passed>>
ledger == <<runs, lease, claims>>
dispatch == <<active, toCancel>>
world == <<posted, remote, passed>>

Attempts == 1..MaxAttempts
Queued == "queued"          \* pending or retry_scheduled
Active == {"claimed", "running"}
Terminal == {"succeeded", "failed", "dead_lettered", "cancelled"}
Unresolved == {"submitting", "queued", "running"}
Resolved == {"succeeded", "failed", "cancelled"}

Runner == INSTANCE JobService WITH Keys <- Origins, Requests <- Targets, job <- remote

NoRow == [status |-> "none"]
NoTarget == [origin |-> "none", body |-> "none", lookup |-> FALSE]
NoLease == [token |-> 0, attempt |-> 1, live |-> FALSE]
NoRequest == [pc |-> "idle"]

\* domain.ExternalJob: the frozen target, the deadline (named by the attempt
\* whose start fixed it), the status and whether the runner's ID is known.
Checkpoint(t, a, s, known) ==
    [status |-> s, target |-> t, deadline |-> a, known |-> known, compacted |-> FALSE]

Init ==
    /\ runs = [a \in Attempts |-> IF a = 1 THEN Queued ELSE "none"]
    /\ lease = NoLease
    /\ claims = 0
    /\ row = NoRow
    /\ execs = {}
    /\ active = [a \in Attempts |-> 0]
    /\ toCancel = 0
    /\ rec = NoRequest
    /\ posted = {}
    /\ remote = [o \in Origins |-> Runner!NoJob]
    /\ passed = {}

-----------------------------------------------------------------------------
(***************************************************************************)
(* The surroundings: the clock, the runner and the dispatcher.             *)
(***************************************************************************)

\* The runner records a submission, or works on a job it has.
SubmissionArrives(t) ==
    /\ t \in posted
    /\ Runner!Accept(t.origin, t)
    /\ UNCHANGED <<ledger, row, execs, dispatch, rec, posted, passed>>

RunnerWorks(o) ==
    /\ \/ Runner!Start(o)
       \/ Runner!Report(o)
       \/ Runner!Succeed(o)
       \/ \E s \in {"failed", "cancelled"} : Runner!Stop(o, s)
    /\ UNCHANGED <<ledger, row, execs, dispatch, rec, posted, passed>>

\* Where an execution works under its own context: from registerCancel on.
Started == {"intent", "post", "posted", "poll", "save"}

\* The contexts of the executions under this deadline end.
DeadlinePasses(a) ==
    /\ a \notin passed
    /\ runs[a] \notin {"none", Queued}
    /\ passed' = passed \union {a}
    /\ execs' = {IF e.pc \in Started /\ e.ctx = "ok" /\ e.deadline = a
                 THEN [e EXCEPT !.ctx = "late"] ELSE e : e \in execs}
    /\ UNCHANGED <<ledger, row, dispatch, rec, posted, remote>>

LeaseExpires ==
    /\ lease.live
    /\ lease' = [lease EXCEPT !.live = FALSE]
    /\ UNCHANGED <<runs, claims, row, execs, dispatch, rec, world>>

\* recoverExpiredLeases: a run that only was claimed is reset; a running one
\* is released for resumption.  When the commit is confirmed the dispatcher
\* goes on to cancel its execution, otherwise it ends the tick.
RecoverLease ==
    /\ lease.token # 0 /\ ~lease.live
    /\ runs[lease.attempt] \in Active
    /\ toCancel = 0
    /\ runs' = [runs EXCEPT ![lease.attempt] = Queued]
    /\ lease' = NoLease
    /\ toCancel' \in IF runs[lease.attempt] = "running" THEN {lease.attempt, 0} ELSE {0}
    /\ UNCHANGED <<claims, row, execs, active, rec, world>>

\* cancelRun reaches the execution that is registered at that moment, not one
\* that has yet to register or was overwritten by another.
CancelRecovered ==
    /\ toCancel # 0
    /\ toCancel' = 0
    /\ execs' = {IF e.attempt = toCancel /\ active[toCancel] = e.token
                    /\ e.pc \in Started /\ e.ctx = "ok"
                 THEN [e EXCEPT !.ctx = "cancelled"] ELSE e : e \in execs}
    /\ UNCHANGED <<ledger, row, active, rec, world>>

\* ClaimRunWithToken by the same goroutine; executeRun starts with the target
\* the tick read, which the operator may have edited since the last claim.  A
\* claim whose confirmation is lost is left to recovery.
Claim(a, t) ==
    /\ toCancel = 0
    /\ runs[a] = Queued
    /\ lease.token = 0
    /\ claims < MaxClaims
    /\ claims' = claims + 1
    /\ runs' = [runs EXCEPT ![a] = "claimed"]
    /\ lease' = [token |-> claims + 1, attempt |-> a, live |-> TRUE]
    /\ \/ execs' = execs \union
            {[token |-> claims + 1, attempt |-> a, target |-> t, pc |-> "load",
              ctx |-> "ok", deadline |-> a, job |-> NoRow, result |-> "none"]}
       \/ UNCHANGED execs
    /\ UNCHANGED <<row, dispatch, rec, world>>

\* The daemon dies and starts again.
Restart ==
    /\ execs # {} \/ rec # NoRequest \/ toCancel # 0
    /\ execs' = {}
    /\ active' = [a \in Attempts |-> 0]
    /\ toCancel' = 0
    /\ rec' = NoRequest
    /\ UNCHANGED <<ledger, row, world>>

\* Shutdown or a failed heartbeat cancels an execution.
CancelExecution(e) ==
    /\ e.pc # "return" /\ e.ctx = "ok"
    /\ execs' = (execs \ {e}) \union {[e EXCEPT !.ctx = "cancelled"]}
    /\ UNCHANGED <<ledger, row, dispatch, rec, world>>

-----------------------------------------------------------------------------
(***************************************************************************)
(* executeRun and executeJob.                                              *)
(***************************************************************************)

Becomes(e, f) == execs' = (execs \ {e}) \union {f}
At(e, pc) == e \in execs /\ e.pc = pc

\* jobFailure: a cancelled context defers, an elapsed deadline is final, any
\* other error is for the next attempt.
Failure(e) ==
    CASE e.ctx = "cancelled" -> "deferred"
      [] e.ctx = "late" -> "dead_lettered"
      [] OTHER -> "failed"

Fails(e) == Becomes(e, [e EXCEPT !.pc = "return", !.result = Failure(e)])

\* Mutant: any final answer is taken for success.
JobResultLenient(s) == "succeeded"

\* jobResult: the remote outcome becomes the run's.
JobResult(s) == IF s = "failed" THEN "dead_lettered" ELSE s

\* After a checkpoint is at hand: a resolved job ends the run, a job the
\* runner confirmed is polled, an intent is submitted.
NextStep(j) ==
    IF j.status \in Resolved THEN "return" ELSE IF j.known THEN "poll" ELSE "post"

Continue(e, j) ==
    [e EXCEPT !.job = j, !.pc = NextStep(j),
              !.result = IF j.status \in Resolved THEN JobResult(j.status) ELSE "none"]

Load(e) ==
    /\ At(e, "load")
    /\ Becomes(e, [e EXCEPT !.pc = "mark", !.job = row,
                       !.deadline = IF row = NoRow THEN e.attempt ELSE row.deadline])
    /\ UNCHANGED <<ledger, row, dispatch, rec, world>>

\* lockRunLease: the execution's own token is the current one.
Owns(e) == lease.token = e.token

\* Mutant: the worker ID is compared and not the token.
OwnsLiveByWorker(e) == lease.attempt = e.attempt /\ lease.live

\* lockOwnedRun: and its lease has not expired.
OwnsLive(e) == Owns(e) /\ lease.live

\* unregisterCancel removes the execution's own registration only.
Ends(e) ==
    /\ execs' = execs \ {e}
    /\ active' = [active EXCEPT ![e.attempt] = IF @ = e.token THEN 0 ELSE @]

\* MarkRunRunningWithLease; a lost lease ends the execution.
MarkRunning(e) ==
    /\ At(e, "mark")
    /\ \/ /\ OwnsLive(e)
          /\ runs' = [runs EXCEPT ![e.attempt] = "running"]
          /\ Becomes(e, [e EXCEPT !.pc = "register"])
          /\ UNCHANGED active
       \/ /\ ~OwnsLive(e)
          /\ Ends(e)
          /\ UNCHANGED runs
    /\ UNCHANGED <<lease, claims, row, toCancel, rec, world>>

\* The execution's context with its deadline, and registerCancel, which
\* replaces the registration of a newer execution too.
Register(e) ==
    /\ At(e, "register")
    /\ active' = [active EXCEPT ![e.attempt] = e.token]
    /\ LET f == [e EXCEPT !.ctx = IF @ = "ok" /\ e.deadline \in passed THEN "late" ELSE @]
       IN  Becomes(e, IF e.job = NoRow THEN [f EXCEPT !.pc = "intent"] ELSE Continue(f, e.job))
    /\ UNCHANGED <<ledger, row, toCancel, rec, world>>

\* A store call of executeRun fails, or its confirmation is lost: the run is
\* left to lease recovery.
Abandon(e) ==
    /\ e.pc \in {"load", "mark", "register", "return"}
    /\ Ends(e)
    /\ UNCHANGED <<ledger, row, toCancel, rec, world>>

\* SaveExternalJob accepts a checkpoint: the lease is live, the snapshot and
\* the identity are the ones recorded, and a resolved job stays resolved.
Accepts(e, j) ==
    /\ OwnsLive(e)
    /\ row # NoRow =>
        /\ row.target = j.target /\ row.deadline = j.deadline
        /\ row.known => j.known
        /\ row.status \in Resolved => row = j

\* The intent to submit, with the target as it is now, before anything is
\* sent; a refused or failed write ends the attempt, as does a commit whose
\* confirmation is lost.
SaveIntent(e) ==
    /\ At(e, "intent")
    /\ LET j == Checkpoint(e.target, e.deadline, "submitting", FALSE)
       IN  \/ /\ Accepts(e, j) /\ e.ctx = "ok"
              /\ row' = j
              /\ Becomes(e, Continue(e, j)) \/ Fails(e)
           \/ Fails(e) /\ UNCHANGED row
    /\ UNCHANGED <<ledger, dispatch, rec, world>>

\* Mutant: the target of the schedule, not the one that was recorded.
PostCurrent(e) ==
    /\ At(e, "post")
    /\ e.ctx = "ok"
    /\ posted' = posted \union {e.target}
    /\ Becomes(e, [e EXCEPT !.pc = "posted"])
    /\ UNCHANGED <<ledger, row, dispatch, rec, remote, passed>>

\* A final failure, whatever the context.
FailsForGood(e) == Becomes(e, [e EXCEPT !.pc = "return", !.result = "dead_lettered"])

\* POST to the frozen target under the occurrence's key, unless the recorded
\* request is unusable or its body holds the reserved _wakeplane_event.
Post(e) ==
    /\ At(e, "post")
    /\ \/ /\ e.ctx = "ok"
          /\ posted' = posted \union {e.job.target}
          /\ Becomes(e, [e EXCEPT !.pc = "posted"])
       \/ e.ctx = "ok" /\ FailsForGood(e) /\ UNCHANGED posted
       \/ e.ctx # "ok" /\ Fails(e) /\ UNCHANGED posted
    /\ UNCHANGED <<ledger, row, dispatch, rec, remote, passed>>

\* The runner's answer: its job when the instructions are the recorded ones.
RunnerJob(j) == remote[j.target.origin]

Observation(j) == [j EXCEPT !.status = RunnerJob(j).status, !.known = TRUE]

Answer(e) ==
    /\ e \in execs /\ e.pc \in {"posted", "poll"}
    /\ RunnerJob(e.job) # Runner!NoJob
    /\ RunnerJob(e.job).req = e.job.target
    /\ Becomes(e, [e EXCEPT !.pc = "save", !.job = Observation(e.job)])
    /\ UNCHANGED <<ledger, row, dispatch, rec, world>>

\* No answer, or an error: transport, HTTP status, 409, end of the context.
\* An answer outside the contract is final.
NoAnswer(e) ==
    /\ e \in execs /\ e.pc \in {"posted", "poll"}
    /\ Fails(e) \/ FailsForGood(e)
    /\ UNCHANGED <<ledger, row, dispatch, rec, world>>

\* The checkpoint of an accepted submission or of a poll.
SaveObservation(e) ==
    /\ At(e, "save")
    /\ \/ /\ Accepts(e, e.job) /\ e.ctx = "ok"
          /\ row' = e.job
          /\ Becomes(e, Continue(e, e.job)) \/ Fails(e)
       \/ Fails(e) /\ UNCHANGED row
    /\ UNCHANGED <<ledger, dispatch, rec, world>>

\* completeFailureWithResult: a failed attempt is retried while attempts are
\* left, in the same transaction.
FinishedAs(e) ==
    IF e.result = "failed" /\ e.attempt >= MaxAttempts THEN "dead_lettered" ELSE e.result

\* The outcome, under the exact token; a deferred run is released under a
\* live lease.  Otherwise the execution leaves the run to lease recovery.
Return(e) ==
    /\ At(e, "return")
    /\ Ends(e)
    /\ \/ /\ Owns(e) /\ e.result # "deferred"
          /\ runs' = [a \in Attempts |->
                IF a = e.attempt THEN FinishedAs(e)
                ELSE IF a = e.attempt + 1 /\ FinishedAs(e) = "failed" THEN Queued ELSE runs[a]]
          /\ lease' = NoLease
       \/ /\ OwnsLive(e) /\ e.result = "deferred"
          /\ runs' = [runs EXCEPT ![e.attempt] = Queued]
          /\ lease' = NoLease
       \/ /\ IF e.result = "deferred" THEN ~OwnsLive(e) ELSE ~Owns(e)
          /\ UNCHANGED <<runs, lease>>
    /\ UNCHANGED <<claims, row, toCancel, rec, world>>

-----------------------------------------------------------------------------
(***************************************************************************)
(* Reconciliation: read, observe once, record.                             *)
(***************************************************************************)

ReconciliationAvailable(j) ==
    ~j.compacted /\ j.status \in Unresolved /\ (j.known \/ j.target.lookup)

\* The request names a finished run of the occurrence.
ReconcileBegin ==
    /\ rec = NoRequest
    /\ \E a \in Attempts : runs[a] \in Terminal
    /\ row # NoRow
    /\ ReconciliationAvailable(row)
    /\ rec' = [pc |-> "observe", expected |-> row, observed |-> row]
    /\ UNCHANGED <<ledger, row, execs, dispatch, world>>

\* By the status URL, or by the key when the runner's ID is not known.
ReconcileObserve ==
    /\ rec.pc = "observe"
    /\ \/ /\ RunnerJob(rec.expected) # Runner!NoJob
          /\ rec' = [rec EXCEPT !.pc = "commit", !.observed = Observation(rec.expected)]
       \/ rec' = NoRequest
    /\ UNCHANGED <<ledger, row, execs, dispatch, world>>

\* Mutant: only the row is compared.
CanReconcileRow == row = rec.expected

\* Store.ReconcileExternalJob: refused while a run of the occurrence is
\* queued or active, and when the row is not the one that was read.
CanReconcile ==
    /\ \A a \in Attempts : runs[a] \notin Active \union {Queued}
    /\ row = rec.expected

ReconcileCommit ==
    /\ rec.pc = "commit"
    /\ rec' = NoRequest
    /\ row' = IF CanReconcile THEN rec.observed ELSE row
    /\ UNCHANGED <<ledger, execs, dispatch, world>>

(***************************************************************************)
(* Retention: PruneTerminalRunsBefore with a cut-off between two attempts, *)
(* then compactPrunedExternalJobs in the same transaction.                 *)
(***************************************************************************)

Compacted(j) == [j EXCEPT !.target = NoTarget, !.compacted = TRUE]

\* Mutant: unresolved work does not hold back its history.
PrunableAlways == TRUE

Prunable == row.status \notin Unresolved

Prune(upto) ==
    /\ Prunable
    /\ \E a \in 1..upto : runs[a] \in Terminal
    /\ runs' = [a \in Attempts |-> IF a <= upto /\ runs[a] \in Terminal THEN "pruned" ELSE runs[a]]
    /\ row' = IF row.status \in Resolved /\ \A a \in Attempts : runs'[a] \in {"none", "pruned"}
              THEN Compacted(row) ELSE row
    /\ UNCHANGED <<lease, claims, execs, dispatch, rec, world>>

-----------------------------------------------------------------------------

Execution(e) ==
    \/ Load(e)
    \/ MarkRunning(e)
    \/ Register(e)
    \/ Abandon(e)
    \/ SaveIntent(e)
    \/ Post(e)
    \/ Answer(e)
    \/ NoAnswer(e)
    \/ SaveObservation(e)
    \/ Return(e)

Next ==
    \/ \E t \in posted : SubmissionArrives(t)
    \/ \E o \in Origins : RunnerWorks(o)
    \/ \E a \in Attempts : DeadlinePasses(a)
    \/ LeaseExpires
    \/ RecoverLease
    \/ CancelRecovered
    \/ \E a \in Attempts, t \in Targets : Claim(a, t)
    \/ Restart
    \/ \E e \in execs : CancelExecution(e) \/ Execution(e)
    \/ ReconcileBegin
    \/ ReconcileObserve
    \/ ReconcileCommit
    \/ \E a \in Attempts : Prune(a)

Spec == Init /\ [][Next]_vars

-----------------------------------------------------------------------------
(***************************************************************************)
(* Correctness.                                                            *)
(***************************************************************************)

Checkpoints ==
    [status : Unresolved \union Resolved, target : Targets \union {NoTarget},
     deadline : Attempts, known : BOOLEAN, compacted : BOOLEAN]

Results == {"none", "succeeded", "cancelled", "failed", "dead_lettered", "deferred"}

Executions ==
    [token : Nat \ {0}, attempt : Attempts, target : Targets,
     pc : {"load", "mark", "register", "intent", "post", "posted", "poll", "save", "return"},
     ctx : {"ok", "late", "cancelled"}, deadline : Attempts,
     job : {NoRow} \union Checkpoints, result : Results]

Reconciliations ==
    [pc : {"observe", "commit"}, expected : Checkpoints, observed : Checkpoints]

RemoteJobs ==
    [req : Targets, status : {"queued", "running"} \union Runner!Ended, report : BOOLEAN]

\* Types of the ledger, the checkpoint, the goroutines and the runners.
TypeOK ==
    /\ runs \in [Attempts -> {"none", Queued, "pruned"} \union Active \union Terminal]
    /\ lease \in [token : Nat, attempt : Attempts, live : BOOLEAN]
    /\ claims \in Nat
    /\ row \in {NoRow} \union Checkpoints
    /\ execs \subseteq Executions
    /\ active \in [Attempts -> Nat]
    /\ toCancel \in Attempts \union {0}
    /\ rec \in {NoRequest} \union Reconciliations
    /\ posted \subseteq Targets
    /\ remote \in [Origins -> {Runner!NoJob} \union RemoteJobs]
    /\ passed \subseteq Attempts

\* Every submission of the occurrence carries the same instructions to the
\* same runner, so no runner meets a key with other instructions and the
\* work exists once (job.go:66), whatever the operator edits and however
\* submissions are repeated.
SameInstructions ==
    /\ Cardinality(posted) <= 1
    /\ \A o \in Origins : remote[o] # Runner!NoJob => remote[o].req \in posted
    /\ posted # {} /\ row # NoRow /\ ~row.compacted => row.target \in posted

\* Remote work is never out of sight: before a submission leaves there is a
\* row for it, and until the row is resolved it keeps the target and some run
\* through which the operator can reconcile (store.go:564).
NoOrphanWork ==
    posted # {} =>
        /\ row # NoRow
        /\ row.status \in Unresolved =>
            /\ ~row.compacted
            /\ \E a \in Attempts : runs[a] \notin {"none", "pruned"}

Rank(s) ==
    CASE s = "none" -> 0 [] s = "submitting" -> 1 [] s = "queued" -> 2
      [] s = "running" -> 3 [] OTHER -> 4

\* A checkpoint never runs ahead of the runner and a resolved one says what
\* the runner says; a run succeeds only when its job did.
CheckpointTrue ==
    /\ row # NoRow /\ ~row.compacted /\ row.known =>
        /\ Rank(row.status) <= Rank(RunnerJob(row).status)
        /\ row.status \in Resolved => RunnerJob(row).status = row.status
    /\ \A a \in Attempts : runs[a] = "succeeded" => row.status = "succeeded"

\* The row never goes back: the snapshot stays until compaction, a known ID
\* stays known, the status only advances and a resolved one is final, also
\* with reconciliation and with a live execution that lost its lease trying to
\* save what it saw (external_jobs.go:102).
CheckpointForward ==
    [][/\ Rank(row.status) <= Rank(row'.status)
       /\ row.status \in Resolved => row'.status = row.status
       /\ row # NoRow /\ ~row'.compacted =>
            /\ row'.target = row.target /\ row'.deadline = row.deadline
            /\ row.known => row'.known]_vars

\* No one else writes under the execution that holds the live lease: between
\* its own checkpoints the row is what it last loaded or saved, whatever an
\* older execution of the attempt that is still running tries to save, and
\* reconciliation included (external_jobs.go:102, :381).
OwnerInSync ==
    \A e \in execs :
        lease.token = e.token /\ lease.live
        /\ e.pc \in {"mark", "register", "intent", "post", "posted", "poll"}
        => row = e.job
=============================================================================
