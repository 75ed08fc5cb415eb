------------------------------ MODULE RunLedger ------------------------------
(***************************************************************************)
(* The durable run ledger of Wakeplane and the one dispatcher that works   *)
(* on it: claims under a lease, executions with their heartbeats, lease    *)
(* recovery, retries, dead letters, queue coalescing, tracked remote jobs, *)
(* and the death and restart of the daemon between any two steps.          *)
(*                                                                         *)
(* A run is one row of schedule_runs and is named by its occurrence and    *)
(* attempt, which the table's unique index keeps distinct.  Every store    *)
(* method that commits one transaction is one step.  The deployment has    *)
(* one daemon with one worker ID, so the columns that hold the worker ID   *)
(* carry no information beyond the lease and are left out.                 *)
(***************************************************************************)
EXTENDS Naturals, FiniteSets

CONSTANTS
  Schedules,       \* schedule rows
  Occurrences,     \* occurrence keys: planned, manual or event
  ScheduleOf,      \* the schedule of an occurrence
  Policies,        \* the policies and targets an operator may give a schedule
  MaxAttempts,     \* retry.max_attempts (0 and 1 both mean one attempt)
  Backoff,         \* delay before the attempt that follows attempt a
  TTL,             \* lease time to live
  CandidateLimit,  \* rows one tick takes from the queue (64 in the code)
  Lateness,        \* how long after its due time a row may be inserted
  MaxTime,         \* bound: the clock stops here
  MaxClaims        \* bound: claims of one run

Attempts == 1..MaxAttempts
RunIds == Occurrences \X Attempts
Overlaps == {"allow", "forbid", "queue_latest", "replace"}

ASSUME ScheduleAssumption ==
  ScheduleOf \in [Occurrences -> Schedules] /\ IsFiniteSet(Occurrences)
\* domain.ValidateCreateSchedule: replace is refused for a tracked HTTP job.
ASSUME PolicyAssumption ==
  /\ Policies \subseteq [overlap : Overlaps, max : Nat \ {0}, tracked : BOOLEAN]
  /\ \A p \in Policies : p.tracked => p.overlap # "replace"
ASSUME RetryAssumption ==
  MaxAttempts \in Nat \ {0} /\ Backoff \in [Attempts -> Nat]
ASSUME TimeAssumption ==
  /\ TTL \in Nat \ {0} /\ CandidateLimit \in Nat \ {0}
  /\ Lateness \subseteq Nat
ASSUME BoundAssumption == MaxTime \in Nat /\ MaxClaims \in Nat

VARIABLES
  now,       \* the wall clock
  policy,    \* schedules: overlap policy, max_concurrency, HTTP job target
  status,    \* schedule_runs.status ("none": no such row)
  due,       \* schedule_runs.due_time, equal to retry_available_at of a retry
  lease,     \* worker_leases.id of a run: the number of the claim, 0: no lease
  expires,   \* worker_leases.expires_at
  dead,      \* runs with a row in dead_letters
  jobs,      \* external_jobs.job_status of an occurrence
  claims,    \* claims made of a run so far, the source of fresh lease tokens
  phase,     \* where the dispatcher goroutine is in Tick
  tickNow,   \* the time Tick read when it started
  expired,   \* <<run, status, tracked>> of expired leases still to recover
  cands,     \* candidates still to consider
  cur,       \* the candidate under consideration
  seen,      \* the schedule row read for cur, until it is decided and claimed
  signals,   \* active runs still to be cancelled for a replace policy
  skips,     \* queued runs still to be finished as skipped
  execs,     \* the goroutines in executeRun
  active     \* Dispatcher.active: the claim whose cancel function is registered

ledgerVars == <<status, due, lease, expires, dead, jobs, claims>>
tickVars == <<phase, tickNow, expired, cands, cur, seen, signals, skips>>
execVars == <<execs, active>>
vars == <<now, policy, ledgerVars, tickVars, execVars>>

Active == {"claimed", "running"}
Queued == {"pending", "retry_scheduled"}
Terminal == {"succeeded", "failed", "dead_lettered", "cancelled", "skipped"}
Statuses == {"none"} \cup Queued \cup Active \cup Terminal

JobTerminal == {"succeeded", "failed", "cancelled"}
JobStatuses == {"none", "open"} \cup JobTerminal

Phases == {"idle", "recover", "recovered", "dispatch", "prepare", "claim", "replace",
           "list", "cancel", "queue", "skip", "unlease"}
NoRun == <<>>
NoPolicy == [overlap |-> "none", max |-> 0, tracked |-> FALSE]

Outcomes == {"ok", "error", "cancelled", "terminal", "deferred"}
Execution ==
  [run : RunIds, claim : Nat, external : BOOLEAN,
   pc : {"spawned", "starting", "registering", "executing", "returned"},
   stamp : Nat, beat : {"idle", "renewing", "failed"},
   ctx : {"live", "canceled", "deadline"}, outcome : {"none"} \cup Outcomes]

RunsOf(o) == {o} \X Attempts
RunsOfSchedule(s) == {r \in RunIds : ScheduleOf[r[1]] = s}

Init ==
  /\ now = 0
  /\ policy \in [Schedules -> Policies]
  /\ status = [r \in RunIds |-> "none"]
  /\ due = [r \in RunIds |-> 0]
  /\ lease = [r \in RunIds |-> 0]
  /\ expires = [r \in RunIds |-> 0]
  /\ dead = {}
  /\ jobs = [o \in Occurrences |-> "none"]
  /\ claims = [r \in RunIds |-> 0]
  /\ phase = "idle" /\ tickNow = 0 /\ expired = {} /\ cands = {}
  /\ cur = NoRun /\ seen = NoPolicy /\ signals = {} /\ skips = {}
  /\ execs = {}
  /\ active = [r \in RunIds |-> 0]

-----------------------------------------------------------------------------
(* The environment: time, new work, operators, and process death.          *)

AdvanceClock ==
  /\ now < MaxTime
  /\ now' = now + 1
  /\ UNCHANGED <<policy, ledgerVars, tickVars, execVars>>

\* InsertRun of a first attempt: a planned slot found late, a manual trigger
\* or an event (late = 0).  A second insert of the key fails on the index.
InsertRun(o, late) ==
  /\ status[<<o, 1>>] = "none"
  /\ late <= now
  /\ status' = [status EXCEPT ![<<o, 1>>] = "pending"]
  /\ due' = [due EXCEPT ![<<o, 1>>] = now - late]
  /\ UNCHANGED <<now, policy, lease, expires, dead, jobs, claims, tickVars, execVars>>

\* PatchSchedule or ReplaceSchedule of the policy, at any moment.
EditPolicy(s, p) ==
  /\ policy[s] # p
  /\ policy' = [policy EXCEPT ![s] = p]
  /\ UNCHANGED <<now, ledgerVars, tickVars, execVars>>

\* The process dies and comes back: only the tables survive.
Restart ==
  /\ phase # "idle" \/ execs # {}
  /\ phase' = "idle" /\ tickNow' = 0 /\ expired' = {} /\ cands' = {}
  /\ cur' = NoRun /\ seen' = NoPolicy /\ signals' = {} /\ skips' = {}
  /\ execs' = {}
  /\ active' = [r \in RunIds |-> 0]
  /\ UNCHANGED <<now, policy, ledgerVars>>

\* An operator observes the remote job of an occurrence that has no live run.
ReconcileExternalJob(o, observed) ==
  /\ jobs[o] = "open"
  /\ \A r \in RunsOf(o) : status[r] \notin Queued \cup Active
  /\ jobs' = [jobs EXCEPT ![o] = observed]
  /\ UNCHANGED <<now, policy, status, due, lease, expires, dead, claims,
                 tickVars, execVars>>

-----------------------------------------------------------------------------
(* Transactions on a leased run, shared by its owner and by recovery.      *)

NextAttempt(r) == <<r[1], r[2] + 1>>
\* Mutant: one attempt too many.
ShouldRetryOnceMore(r) == r[2] <= MaxAttempts
ShouldRetry(r) == r[2] < MaxAttempts

\* The status completeFailureWithResult gives the attempt.
FailureStatus(r, outcome) ==
  IF outcome = "cancelled" THEN "cancelled"
  ELSE IF ShouldRetry(r) /\ outcome # "terminal" THEN "failed" ELSE "dead_lettered"

\* Mutant: the executor's outcome is stored as it is.
FinishStatusVerbatim(r, outcome) == IF outcome = "ok" THEN "succeeded" ELSE outcome
FinishStatus(r, outcome) ==
  IF outcome = "ok" THEN "succeeded" ELSE FailureStatus(r, outcome)

\* Mutant: the lease row stays behind.
DropLeaseForgotten(r) == UNCHANGED <<lease, expires>>
DropLease(r) ==
  /\ lease' = [lease EXCEPT ![r] = 0]
  /\ expires' = [expires EXCEPT ![r] = 0]

\* Mutant: a dead letter for a failure that is retried.
InsertDeadLetterOnFailure(r, st) ==
  dead' = IF st \in {"failed", "dead_lettered"} THEN dead \cup {r} ELSE dead
InsertDeadLetter(r, st) == dead' = IF st = "dead_lettered" THEN dead \cup {r} ELSE dead

\* finishExternalRun: outcome, lease removal, retry row and dead letter commit
\* together.  The retry insert does nothing where the row exists.
FinishRunTx(r, st) ==
  LET InsertsRetry(q) == st = "failed" /\ q = NextAttempt(r) /\ status[q] = "none"
  IN /\ status' = [q \in RunIds |-> IF q = r THEN st
                                    ELSE IF InsertsRetry(q) THEN "retry_scheduled"
                                    ELSE status[q]]
     /\ due' = [q \in RunIds |-> IF InsertsRetry(q) THEN now + Backoff[r[2]] ELSE due[q]]
     /\ DropLease(r)
     /\ InsertDeadLetter(r, st)
     /\ UNCHANGED <<jobs, claims>>

\* ResetClaimedRun and RequeueExternalRun: the same attempt waits again.
ReleaseRunTx(r) ==
  /\ status' = [status EXCEPT ![r] = "pending"]
  /\ DropLease(r)
  /\ UNCHANGED <<due, dead, jobs, claims>>

\* Mutant: a check of the worker ID without the token.
OwnsLeaseByWorker(e) == status[e.run] \in Active
\* lockRunLease: the exact claim is still the current one.
OwnsLease(e) == status[e.run] \in Active /\ lease[e.run] = e.claim
\* Mutant: an update by run ID.
OwnsLiveLeaseByID(e, at) == status[e.run] # "none"
\* lockOwnedRun: and it has not expired at the time the caller read.
OwnsLiveLease(e, at) == OwnsLease(e) /\ expires[e.run] > at

\* Mutant: the discovery snapshot is trusted.
LeaseExpiredInSnapshot(r, st, at) == status[r] = st /\ lease[r] # 0
\* lockExpiredRunningRun, and the checks under the lock in ResetClaimedRun
\* and RequeueExternalRun.
LeaseExpiredIn(r, st, at) == status[r] = st /\ lease[r] # 0 /\ expires[r] <= at

\* cancelRun: the context of the execution registered for the run ends.
cancelRun(r) ==
  execs' = {IF e.run = r /\ active[r] = e.claim /\ e.pc = "executing" /\ e.ctx = "live"
            THEN [e EXCEPT !.ctx = "canceled"] ELSE e : e \in execs}

-----------------------------------------------------------------------------
(* Dispatcher.Tick: recovery of expired leases.                            *)

\* ListExpiredLeases with the time read once at the start of the tick.
TickBegin ==
  /\ phase = "idle"
  /\ phase' = "recover"
  /\ tickNow' = now
  /\ expired' = {<<r, status[r], policy[ScheduleOf[r[1]]].tracked>> :
                  r \in {q \in RunIds : lease[q] # 0 /\ expires[q] <= now}}
  /\ UNCHANGED <<now, policy, ledgerVars, cands, cur, seen, signals, skips, execVars>>

\* The claim was never started: ResetClaimedRun, checked against the tick's time.
RecoverClaimed(item) ==
  /\ phase = "recover" /\ item \in expired /\ item[2] = "claimed"
  /\ expired' = expired \ {item}
  /\ IF LeaseExpiredIn(item[1], "claimed", tickNow)
     THEN ReleaseRunTx(item[1]) ELSE UNCHANGED ledgerVars
  /\ UNCHANGED <<now, policy, phase, tickNow, cands, cur, seen, signals, skips, execVars>>

\* Mutant: a lost lease is taken for a recovery, and the run is cancelled.
RecoverRunningAnyway(item) ==
  LET r == item[1]
      external == item[3] \/ jobs[r[1]] # "none"
      lapsed == LeaseExpiredIn(r, "running", IF external THEN tickNow ELSE now)
  IN /\ phase = "recover" /\ item \in expired /\ item[2] = "running"
     /\ expired' = expired \ {item}
     /\ IF lapsed THEN IF external THEN ReleaseRunTx(r)
                       ELSE FinishRunTx(r, FailureStatus(r, "error"))
        ELSE UNCHANGED ledgerVars
     /\ phase' = "recovered" /\ cur' = r
     /\ UNCHANGED <<now, policy, tickNow, cands, seen, signals, skips, execVars>>
\* The run was executing.  A tracked remote job is requeued under the tick's
\* time, any other target fails under the time of the write; a lost lease is
\* tolerated and leaves the execution alone.
RecoverRunning(item) ==
  LET r == item[1]
      external == item[3] \/ jobs[r[1]] # "none"
      lapsed == LeaseExpiredIn(r, "running", IF external THEN tickNow ELSE now)
  IN /\ phase = "recover" /\ item \in expired /\ item[2] = "running"
     /\ expired' = expired \ {item}
     /\ \/ /\ lapsed
           /\ IF external THEN ReleaseRunTx(r)
              ELSE FinishRunTx(r, FailureStatus(r, "error"))
           /\ phase' = "recovered" /\ cur' = r
        \/ /\ ~lapsed
           /\ UNCHANGED <<ledgerVars, phase, cur>>
     /\ UNCHANGED <<now, policy, tickNow, cands, seen, signals, skips, execVars>>

\* After the commit, cancelRun reaches the execution that is registered now.
CancelRecovered ==
  /\ phase = "recovered"
  /\ cancelRun(cur)
  /\ phase' = "recover" /\ cur' = NoRun
  /\ UNCHANGED <<now, policy, ledgerVars, tickNow, expired, cands, seen, signals, skips, active>>

\* A store error in recovery or in the candidate query ends the tick, also
\* where the transaction committed and only its confirmation was lost.
TickAbort ==
  /\ phase \in {"recover", "recovered"}
  /\ phase' = "idle" /\ tickNow' = 0 /\ expired' = {} /\ cur' = NoRun
  /\ UNCHANGED <<now, policy, ledgerVars, cands, seen, signals, skips, execVars>>

-----------------------------------------------------------------------------
(* Dispatcher.Tick: candidates in order of due time.                       *)

IsCandidate(r) == status[r] \in Queued /\ due[r] <= tickNow

\* ListCandidateRuns: the CandidateLimit oldest of the due rows.
ListCandidateRuns ==
  /\ phase = "recover" /\ expired = {}
  /\ \E C \in SUBSET {r \in RunIds : IsCandidate(r)} :
       /\ Cardinality(C) <= CandidateLimit
       /\ \A r \in {q \in RunIds : IsCandidate(q)} \ C :
            Cardinality(C) = CandidateLimit /\ \A c \in C : due[c] <= due[r]
       /\ cands' = C
  /\ phase' = "dispatch"
  /\ UNCHANGED <<now, policy, ledgerVars, tickNow, expired, cur, seen, signals, skips, execVars>>

TickEnd ==
  /\ phase = "dispatch" /\ cands = {}
  /\ phase' = "idle" /\ tickNow' = 0
  /\ UNCHANGED <<now, policy, ledgerVars, expired, cands, cur, seen, signals, skips, execVars>>

NextCandidate(r) == r \in cands /\ \A q \in cands : due[r] <= due[q]

\* GetSchedule: the candidate is handled under the row as it is now.
GetSchedule(r) ==
  /\ phase = "dispatch" /\ NextCandidate(r)
  /\ cands' = cands \ {r}
  /\ phase' = "prepare" /\ cur' = r /\ seen' = policy[ScheduleOf[r[1]]]
  /\ UNCHANGED <<now, policy, ledgerVars, tickNow, expired, signals, skips, execVars>>

\* Mutant: remote jobs do not count.
OtherActiveLocal(o) ==
  {p \in Occurrences \ {o} :
     ScheduleOf[p] = ScheduleOf[o] /\ \E r \in RunsOf(p) : status[r] \in Active}
\* activeOccurrenceQuery: other occurrences of the schedule that are active
\* here or unresolved at their runner.
OtherActive(o) ==
  {p \in Occurrences \ {o} :
     /\ ScheduleOf[p] = ScheduleOf[o]
     /\ jobs[p] = "open" \/ \E r \in RunsOf(p) : status[r] \in Active}

\* What prepareScheduleForClaim decides under a policy with n others active.
PrepareDecision(pol, n) ==
  IF n >= pol.max THEN "queue"
  ELSE IF n = 0 \/ pol.overlap = "allow" THEN "claim"
  ELSE IF pol.overlap = "queue_latest" THEN "queue"
  ELSE IF pol.overlap = "replace" THEN "replace"
  ELSE "wait"

NoUnresolvedJobs(s) == \A o \in Occurrences : ScheduleOf[o] = s => jobs[o] # "open"

\* prepareScheduleForClaim: the count of other occurrences and the decision.
PrepareScheduleForClaim ==
  LET decision == PrepareDecision(seen, Cardinality(OtherActive(cur[1])))
  IN /\ phase = "prepare"
     /\ \/ /\ decision = "wait"
           /\ phase' = "dispatch" /\ cur' = NoRun /\ seen' = NoPolicy
        \/ /\ decision = "claim"
           /\ phase' = "claim" /\ UNCHANGED <<cur, seen>>
        \/ /\ decision \in {"queue", "replace"}
           /\ phase' = decision /\ seen' = NoPolicy /\ UNCHANGED cur
     /\ UNCHANGED <<now, policy, ledgerVars, tickNow, expired, cands, signals, skips, execVars>>

\* Under replace: with unresolved remote work nothing is cancelled.
UnresolvedExternalJobCount ==
  /\ phase = "replace"
  /\ phase' = IF NoUnresolvedJobs(ScheduleOf[cur[1]]) THEN "list" ELSE "queue"
  /\ UNCHANGED <<now, policy, ledgerVars, tickNow, expired, cands, cur, seen, signals, skips,
                 execVars>>

ListActiveRuns ==
  /\ phase = "list"
  /\ signals' = {q \in RunsOfSchedule(ScheduleOf[cur[1]]) : status[q] \in Active}
  /\ phase' = IF signals' = {} THEN "queue" ELSE "cancel"
  /\ UNCHANGED <<now, policy, ledgerVars, tickNow, expired, cands, cur, seen, skips, execVars>>

\* One cancelRun of the loop over the listed runs.
CancelReplaced(q) ==
  /\ phase = "cancel" /\ q \in signals
  /\ cancelRun(q)
  /\ signals' = signals \ {q}
  /\ phase' = IF signals' = {} THEN "queue" ELSE "cancel"
  /\ UNCHANGED <<now, policy, ledgerVars, tickNow, expired, cands, cur, seen, skips, active>>

\* A store error in a candidate's handling: Tick goes on with the next one.
CandidateError ==
  /\ phase \in {"prepare", "claim", "replace", "list", "queue", "skip"}
  /\ phase' = "dispatch" /\ cur' = NoRun /\ seen' = NoPolicy /\ skips' = {}
  /\ UNCHANGED <<now, policy, ledgerVars, tickNow, expired, cands, signals, execVars>>

\* Mutant: submitted occurrences are listed too.
UnsubmittedOrNot(s) == {q \in RunsOfSchedule(s) : status[q] \in Queued}
\* ListPendingRunsBySchedule without the occurrences already submitted.
Unsubmitted(s) ==
  {q \in RunsOfSchedule(s) : status[q] \in Queued /\ jobs[q[1]] = "none"}

\* Mutant: the oldest is kept.
Oldest(pending) == {k \in pending : \A q \in pending : due[k] <= due[q]}
\* pending[len(pending)-1], where equal due times come in any order.
Newest(pending) == {k \in pending : \A q \in pending : due[q] <= due[k]}

\* enforceQueuePolicy: every unsubmitted queued run but the last is to go.
EnforceQueuePolicy ==
  /\ phase = "queue"
  /\ LET pending == Unsubmitted(ScheduleOf[cur[1]])
     IN skips' \in IF Cardinality(pending) <= 1 THEN {{}}
                   ELSE {pending \ {keep} : keep \in Newest(pending)}
  /\ phase' = IF skips' = {} THEN "dispatch" ELSE "skip"
  /\ cur' = NoRun
  /\ UNCHANGED <<now, policy, ledgerVars, tickNow, expired, cands, seen, signals, execVars>>

\* FinishRun with status skipped: an update by ID with no guard on the status.
SkipQueuedRun(q) ==
  /\ phase = "skip" /\ q \in skips
  /\ \A p \in skips : due[q] <= due[p]
  /\ status' = [status EXCEPT ![q] = "skipped"]
  /\ skips' = skips \ {q}
  /\ phase' = "unlease" /\ cur' = q
  /\ UNCHANGED <<now, policy, due, lease, expires, dead, jobs, claims, tickNow, expired, cands,
                 seen, signals, execVars>>

\* Its second statement deletes the run's lease; an error there is ignored.
ClearSkippedLease ==
  /\ phase = "unlease"
  /\ DropLease(cur) \/ UNCHANGED <<lease, expires>>
  /\ phase' = IF skips = {} THEN "dispatch" ELSE "skip"
  /\ cur' = NoRun
  /\ UNCHANGED <<now, policy, status, due, dead, jobs, claims, tickNow, expired, cands, seen,
                 signals, skips, execVars>>

\* The checks ClaimRunWithToken makes in its transaction, with the schedule
\* row read before it.
Claimable(r, pol) ==
  LET n == Cardinality(OtherActive(r[1]))
  IN /\ status[r] \in Queued
     /\ \A q \in RunsOf(r[1]) \ {r} : status[q] \notin Active
     /\ n < pol.max
     /\ n > 0 => pol.overlap = "allow"

\* ClaimRunWithToken at a fresh time.  A successful claim starts executeRun;
\* when only its confirmation is lost, the claimed row waits for recovery.
ClaimRunWithToken ==
  /\ phase = "claim"
  /\ \/ /\ Claimable(cur, seen) /\ claims[cur] < MaxClaims
        /\ status' = [status EXCEPT ![cur] = "claimed"]
        /\ claims' = [claims EXCEPT ![cur] = @ + 1]
        /\ lease' = [lease EXCEPT ![cur] = claims'[cur]]
        /\ expires' = [expires EXCEPT ![cur] = now + TTL]
        /\ \/ execs' = execs \cup
                {[run |-> cur, claim |-> claims'[cur], external |-> seen.tracked,
                  pc |-> "spawned", stamp |-> 0, beat |-> "idle", ctx |-> "live",
                  outcome |-> "none"]}
           \/ UNCHANGED execs
     \/ /\ ~Claimable(cur, seen)
        /\ UNCHANGED <<status, claims, lease, expires, execs>>
  /\ phase' = "dispatch" /\ cur' = NoRun /\ seen' = NoPolicy
  /\ UNCHANGED <<now, policy, due, dead, jobs, tickNow, expired, cands, signals, skips, active>>

-----------------------------------------------------------------------------
(* Dispatcher.executeRun, one goroutine per claim.                         *)

SetExec(e, f) == execs' = (execs \ {e}) \cup {f}

\* Mutant: any registration of the run is removed.
EndExecAny(e) ==
  /\ execs' = execs \ {e}
  /\ active' = [active EXCEPT ![e.run] = 0]
\* The deferred unregisterCancel removes only this execution's registration.
EndExec(e) ==
  /\ execs' = execs \ {e}
  /\ active' = [active EXCEPT ![e.run] = IF @ = e.claim THEN 0 ELSE @]

\* Mutant: only the schedule says whether the run is tracked.
BeginExecutionByTarget(e) ==
  /\ e.pc = "spawned"
  /\ SetExec(e, [e EXCEPT !.pc = "starting", !.stamp = now])
  /\ UNCHANGED <<now, policy, ledgerVars, tickVars, active>>
\* startedAt is read first, then the external job is loaded.
BeginExecution(e) ==
  /\ e.pc = "spawned"
  /\ SetExec(e, [e EXCEPT !.pc = "starting", !.stamp = now,
                          !.external = @ \/ jobs[e.run[1]] # "none"])
  /\ UNCHANGED <<now, policy, ledgerVars, tickVars, active>>

\* MarkRunRunningWithLease under startedAt.
MarkRunRunning(e) ==
  /\ e.pc = "starting"
  /\ \/ /\ OwnsLiveLease(e, e.stamp)
        /\ status' = [status EXCEPT ![e.run] = "running"]
        /\ SetExec(e, [e EXCEPT !.pc = "registering", !.stamp = 0])
        /\ UNCHANGED active
     \/ /\ ~OwnsLiveLease(e, e.stamp)
        /\ EndExec(e)
        /\ UNCHANGED status
  /\ UNCHANGED <<now, policy, due, lease, expires, dead, jobs, claims, tickVars>>

\* registerCancel replaces whatever is registered for the run, also when the
\* claim was lost since the commit and a newer execution is registered.
registerCancel(e) ==
  /\ e.pc = "registering"
  /\ active' = [active EXCEPT ![e.run] = e.claim]
  /\ SetExec(e, [e EXCEPT !.pc = "executing"])
  /\ UNCHANGED <<now, policy, ledgerVars, tickVars>>

\* The heartbeat goroutine reads the clock, then renews in a transaction of
\* its own.  Its select may still choose the ticker when the context is done or
\* the executor has returned; group.Wait waits for the renewal.
HeartbeatBegin(e) ==
  /\ e.pc \in {"executing", "returned"} /\ e.beat = "idle"
  /\ SetExec(e, [e EXCEPT !.beat = "renewing", !.stamp = now])
  /\ UNCHANGED <<now, policy, ledgerVars, tickVars, active>>

\* The errgroup cancels the executor's context when the heartbeat fails.
HeartbeatFailed(e) ==
  [e EXCEPT !.beat = "failed", !.stamp = 0,
            !.ctx = IF e.pc = "executing" /\ e.ctx = "live" THEN "canceled" ELSE e.ctx]

\* RenewLeaseWithToken; a lost lease, a store error or a lost confirmation ends
\* the heartbeat.
RenewLeaseWithToken(e) ==
  /\ e.beat = "renewing"
  /\ \/ /\ OwnsLiveLease(e, e.stamp)
        /\ expires' = [expires EXCEPT ![e.run] = e.stamp + TTL]
        /\ \/ SetExec(e, [e EXCEPT !.beat = "idle", !.stamp = 0])
           \/ SetExec(e, HeartbeatFailed(e))
     \/ /\ SetExec(e, HeartbeatFailed(e))
        /\ UNCHANGED expires
  /\ UNCHANGED <<now, policy, status, due, lease, dead, jobs, claims, tickVars, active>>

\* The deadline fires, or shutdown cancels the parent context.
ContextEnds(e, why) ==
  /\ e.pc = "executing" /\ e.ctx = "live"
  /\ SetExec(e, [e EXCEPT !.ctx = why])
  /\ UNCHANGED <<now, policy, ledgerVars, tickVars, active>>

\* SaveExternalJob of the submission intent, before the job is submitted.
CheckpointSubmission(e) ==
  /\ e.pc = "executing" /\ e.external
  /\ jobs[e.run[1]] = "none"
  /\ OwnsLiveLease(e, now)
  /\ jobs' = [jobs EXCEPT ![e.run[1]] = "open"]
  /\ UNCHANGED <<now, policy, status, due, lease, expires, dead, claims, tickVars, execVars>>

\* jobResult of a terminal remote status.
JobResult(st) ==
  IF st = "succeeded" THEN "ok" ELSE IF st = "failed" THEN "terminal" ELSE "cancelled"

\* jobFailure: a cancelled tracker defers, a missed deadline is terminal, any
\* other error is left to the retry policy.
JobFailure(ctx) ==
  IF ctx = "live" THEN "error" ELSE IF ctx = "canceled" THEN "deferred" ELSE "terminal"

\* SaveExternalJob of a terminal observation; the executor then returns it, or
\* fails when only the confirmation of the commit was lost.
CheckpointTerminal(e, st) ==
  /\ e.pc = "executing" /\ e.external
  /\ jobs[e.run[1]] = "open"
  /\ OwnsLiveLease(e, now)
  /\ jobs' = [jobs EXCEPT ![e.run[1]] = st]
  /\ \E outcome \in {JobResult(st), JobFailure(e.ctx)} :
       SetExec(e, [e EXCEPT !.pc = "returned", !.ctx = "live", !.outcome = outcome])
  /\ UNCHANGED <<now, policy, status, due, lease, expires, dead, claims, tickVars, active>>

\* What Execute may return.  A tracked job whose checkpoint is terminal returns
\* that result; otherwise a failure, which is final where the runner's answer or
\* the recorded request breaks the contract.  An ordinary executor reports an
\* error as a cancellation once its context is done.
ExecutorOutcomes(e) ==
  IF e.external
  THEN IF jobs[e.run[1]] \in JobTerminal THEN {JobResult(jobs[e.run[1]])}
       ELSE {"terminal", JobFailure(e.ctx)}
  ELSE {"ok", "error"} \cup (IF e.ctx = "live" THEN {} ELSE {"cancelled"})

ExecutorReturns(e, outcome) ==
  /\ e.pc = "executing" /\ outcome \in ExecutorOutcomes(e)
  /\ SetExec(e, [e EXCEPT !.pc = "returned", !.ctx = "live", !.outcome = outcome])
  /\ UNCHANGED <<now, policy, ledgerVars, tickVars, active>>

\* After group.Wait: a failed heartbeat overrides the result of an ordinary
\* executor and leaves a tracked run to recovery; a deferred tracker releases
\* its claim; every other outcome is recorded while the claim is current.
FinishExecution(e) ==
  LET outcome == IF e.beat = "failed" THEN "error" ELSE e.outcome
  IN /\ e.pc = "returned" /\ e.beat # "renewing"
     /\ EndExec(e)
     /\ \/ /\ e.beat = "failed" /\ e.external
           /\ UNCHANGED ledgerVars
        \/ /\ outcome = "deferred"
           /\ IF OwnsLiveLease(e, now) THEN ReleaseRunTx(e.run) ELSE UNCHANGED ledgerVars
        \/ /\ ~(e.beat = "failed" /\ e.external) /\ outcome # "deferred"
           /\ IF OwnsLease(e) THEN FinishRunTx(e.run, FinishStatus(e.run, outcome))
              ELSE UNCHANGED ledgerVars
     /\ UNCHANGED <<now, policy, tickVars>>

\* A store call of executeRun fails: the goroutine returns and the row keeps
\* its lease until recovery.
AbandonExecution(e) ==
  /\ e.pc # "executing" /\ e.beat # "renewing"
  /\ EndExec(e)
  /\ UNCHANGED <<now, policy, ledgerVars, tickVars>>

-----------------------------------------------------------------------------

Environment ==
  \/ AdvanceClock
  \/ \E o \in Occurrences, late \in Lateness : InsertRun(o, late)
  \/ \E s \in Schedules, p \in Policies : EditPolicy(s, p)
  \/ Restart
  \/ \E o \in Occurrences, st \in JobTerminal : ReconcileExternalJob(o, st)

Tick ==
  \/ TickBegin
  \/ \E item \in expired : RecoverClaimed(item)
  \/ \E item \in expired : RecoverRunning(item)
  \/ CancelRecovered
  \/ TickAbort
  \/ ListCandidateRuns
  \/ \E r \in cands : GetSchedule(r)
  \/ PrepareScheduleForClaim
  \/ UnresolvedExternalJobCount
  \/ ListActiveRuns
  \/ \E q \in signals : CancelReplaced(q)
  \/ CandidateError
  \/ EnforceQueuePolicy
  \/ \E q \in skips : SkipQueuedRun(q)
  \/ ClearSkippedLease
  \/ ClaimRunWithToken
  \/ TickEnd

Execute(e) ==
  \/ BeginExecution(e)
  \/ MarkRunRunning(e)
  \/ registerCancel(e)
  \/ HeartbeatBegin(e)
  \/ RenewLeaseWithToken(e)
  \/ \E why \in {"canceled", "deadline"} : ContextEnds(e, why)
  \/ CheckpointSubmission(e)
  \/ \E st \in JobTerminal : CheckpointTerminal(e, st)
  \/ \E outcome \in Outcomes : ExecutorReturns(e, outcome)
  \/ FinishExecution(e)
  \/ AbandonExecution(e)

Next == Environment \/ Tick \/ \E e \in execs : Execute(e)

Spec == Init /\ [][Next]_vars

-----------------------------------------------------------------------------
(* Properties.                                                             *)

\* Every table, local variable and goroutine holds values of its type.
TypeOK ==
  /\ now \in Nat
  /\ policy \in [Schedules -> Policies]
  /\ status \in [RunIds -> Statuses]
  /\ due \in [RunIds -> Nat]
  /\ lease \in [RunIds -> Nat]
  /\ expires \in [RunIds -> Nat]
  /\ dead \subseteq RunIds
  /\ jobs \in [Occurrences -> JobStatuses]
  /\ claims \in [RunIds -> Nat]
  /\ phase \in Phases
  /\ tickNow \in Nat
  /\ expired \subseteq RunIds \X Statuses \X BOOLEAN
  /\ cands \subseteq RunIds
  /\ cur \in RunIds \cup {NoRun}
  /\ seen \in Policies \cup {NoPolicy}
  /\ signals \subseteq RunIds
  /\ skips \subseteq RunIds
  /\ execs \subseteq Execution
  /\ active \in [RunIds -> Nat]

\* A run is claimed or running exactly while it has a row in worker_leases, so
\* recovery, which starts from the leases, can reach every stuck run and never
\* meets a lease of a finished one (the default branch of recoverExpiredLeases).
LeaseIffActive == \A r \in RunIds : status[r] \in Active <=> lease[r] # 0

\* Attempts of an occurrence follow one another: every attempt before an
\* existing one failed, and a failed attempt always has its successor, because
\* finishExternalRun commits both.  No crash loses or doubles a retry, and at
\* most one attempt of an occurrence is live.
RetryChain ==
  \A o \in Occurrences : \A a \in Attempts :
    /\ status[<<o, a>>] # "none" => \A b \in 1..(a - 1) : status[<<o, b>>] = "failed"
    /\ status[<<o, a>>] = "failed" => a < MaxAttempts /\ status[<<o, a + 1>>] # "none"

\* Stable contract: no two attempts of an occurrence are claimed or running.
OneActiveAttempt ==
  \A q, r \in RunIds :
    q[1] = r[1] /\ status[q] \in Active /\ status[r] \in Active => q = r

\* A dead letter exists exactly for the runs that ended dead_lettered.
DeadLettersMatch == dead = {r \in RunIds : status[r] = "dead_lettered"}

\* Occurrences of a schedule that hold capacity: active here, or unresolved at
\* their runner.
Occupied(s) ==
  {o \in Occurrences :
     /\ ScheduleOf[o] = s
     /\ jobs[o] = "open" \/ \E r \in RunsOf(o) : status[r] \in Active}

\* The capacity a policy grants: max_concurrency, and one unless overlap is
\* allowed.
Capacity(p) == IF p.overlap = "allow" THEN p.max ELSE 1

\* A schedule never occupies more capacity than some policy it may have had
\* grants, whatever is claimed, retried, requeued, recovered or restarted.
WithinCapacity ==
  \A s \in Schedules : Occupied(s) # {} =>
    \E p \in Policies : Cardinality(Occupied(s)) <= Capacity(p)

\* An execution that is registered stays so until it ends or another execution
\* of the run registers: the clean-up of an older execution, however late, does
\* not take the registration of a newer one (unregisterCancel's token).
RegistrationKept ==
  [][\A e \in execs :
       active[e.run] = e.claim /\ e.pc # "registering" /\ active'[e.run] # e.claim
       => \/ \E f \in execs' : f.run = e.run /\ f.claim = active'[e.run]
          \/ \A f \in execs' : f.run = e.run => f.claim # e.claim]_vars

\* Recovery cancels what it recovered and nothing else: between its commit and
\* cancelRun, and after a heartbeat that renewed in time, no execution that owns
\* its claim is told to stop by it.
RecoverySparesOwner ==
  [][phase = "recovered" /\ phase' = "recover"
     => \A e \in execs : OwnsLease(e) => e \in execs']_vars

\* A run with a remote job succeeds only if the checkpointed job succeeded.
SuccessMeansJobSucceeded ==
  \A r \in RunIds :
    status[r] = "succeeded" /\ jobs[r[1]] # "none" => jobs[r[1]] = "succeeded"

\* Terminal attempts are preserved: no late execution, recovery, coalescing or
\* reconciliation rewrites a recorded outcome.
TerminalStable ==
  [][\A r \in RunIds : status[r] \in Terminal => status'[r] = status[r]]_vars

\* Worker IDs cannot fence an old execution from a newer claim, tokens do: the
\* step of an execution changes its row only if its claim is the current one.
OnlyOwnerWrites ==
  [][\A e \in execs :
       e \notin execs' /\ status'[e.run] # status[e.run] /\ tickVars' = tickVars
       => lease[e.run] = e.claim]_vars

\* Recovery rechecks the expiry under the run lock: while a lease is unexpired
\* no step of the dispatcher takes the run away from its execution.
RecoveryRespectsRenewal ==
  [][\A r \in RunIds : lease[r] # 0 /\ expires[r] > now /\ tickVars' # tickVars
        => lease'[r] = lease[r] /\ status'[r] = status[r]]_vars

\* Queue coalescing never discards an occurrence already submitted to a runner.
SkipsOnlyUnsubmitted ==
  [][\A r \in RunIds : status'[r] = "skipped" /\ status[r] # "skipped"
        => jobs[r[1]] = "none" /\ status[r] \in Queued]_vars

\* Coalescing keeps the newest: when a run is skipped, another unsubmitted run
\* of the schedule that is due no earlier is still queued.
SkipLeavesSuccessor ==
  [][\A r \in RunIds : status'[r] = "skipped" /\ status[r] # "skipped"
        => \E q \in Unsubmitted(ScheduleOf[r[1]]) \ {r} :
             due[q] >= due[r] /\ status'[q] \in Queued]_vars


\* docs/public/policies.md on replace: "Active runs receive a cancellation
\* signal".  The dispatcher does not hold back a due run of such a schedule
\* without a word to the registered executions of its active runs.
ReplaceSignalsActive ==
  [][LET s == ScheduleOf[cur[1]]
     IN phase = "prepare" /\ phase' = "queue" /\ seen.overlap = "replace" /\ NoUnresolvedJobs(s)
        => \A e \in execs :
             ScheduleOf[e.run[1]] = s /\ e.pc = "executing"
             /\ status[e.run] \in Active /\ active[e.run] = e.claim
             => e.ctx # "live"]_vars

\* The ledger, whatever the dispatcher, the executions, the operator and the
\* crashes of the daemon do to it, moves every attempt through its life cycle.
Lifecycle == INSTANCE RunLifecycle WITH leased <- {r \in RunIds : lease[r] # 0}
RefinesLifecycle == Lifecycle!Spec

=============================================================================
