--------------------------- MODULE RunLedgerProofs ---------------------------
(***************************************************************************)
(* Proofs about RunLedger for every number of schedules, occurrences,      *)
(* attempts and claims, every set of policies, and every bound.            *)
(***************************************************************************)
EXTENDS RunLedger, FiniteSetTheorems, TLAPS

\* What the dispatcher's locals hold between two of its steps: the candidate
\* and the schedule row are there while they are needed.
TickLocals ==
  /\ phase \in {"recovered", "prepare", "claim", "replace", "list", "cancel", "queue", "unlease"}
       => cur \in RunIds
  /\ phase \in {"prepare", "claim"} => seen \in Policies

TypeInv == TypeOK /\ TickLocals

\* A run ID is an occurrence and an attempt, and names a schedule and a delay.
LEMMA RunIdParts ==
  ASSUME NEW r \in RunIds
  PROVE  /\ r[1] \in Occurrences /\ r[2] \in Attempts
         /\ r = <<r[1], r[2]>>
         /\ ScheduleOf[r[1]] \in Schedules
         /\ Backoff[r[2]] \in Nat
BY ScheduleAssumption, RetryAssumption DEF RunIds, Attempts

\* completeFailureWithResult records one of three statuses.
LEMMA FailureStatusType ==
  ASSUME NEW r, NEW outcome
  PROVE  FailureStatus(r, outcome) \in {"cancelled", "failed", "dead_lettered"}
BY DEF FailureStatus

\* executeRun records one of four statuses.
LEMMA FinishStatusType ==
  ASSUME NEW r, NEW outcome
  PROVE  FinishStatus(r, outcome) \in {"succeeded", "cancelled", "failed", "dead_lettered"}
BY FailureStatusType DEF FinishStatus

\* The ledger part of the type invariant.
LedgerType ==
  /\ status \in [RunIds -> Statuses]
  /\ due \in [RunIds -> Nat]
  /\ lease \in [RunIds -> Nat]
  /\ expires \in [RunIds -> Nat]
  /\ dead \subseteq RunIds
  /\ jobs \in [Occurrences -> JobStatuses]
  /\ claims \in [RunIds -> Nat]

\* finishExternalRun keeps the tables well typed.
LEMMA FinishRunTxType ==
  ASSUME LedgerType, now \in Nat, NEW r \in RunIds, NEW st \in Terminal, FinishRunTx(r, st)
  PROVE  LedgerType'
<1>1. status' \in [RunIds -> Statuses]
  BY DEF LedgerType, FinishRunTx, Statuses, Queued
<1>2. due' \in [RunIds -> Nat]
  BY RunIdParts DEF LedgerType, FinishRunTx
<1>3. QED
  BY <1>1, <1>2 DEF LedgerType, FinishRunTx, DropLease, InsertDeadLetter

\* ResetClaimedRun and RequeueExternalRun keep the tables well typed.
LEMMA ReleaseRunTxType ==
  ASSUME LedgerType, NEW r \in RunIds, ReleaseRunTx(r)
  PROVE  LedgerType'
BY DEF LedgerType, ReleaseRunTx, DropLease, Statuses, Queued

\* cancelRun changes only the context of executions.
LEMMA CancelRunType ==
  ASSUME execs \subseteq Execution, NEW r, cancelRun(r)
  PROVE  execs' \subseteq Execution
<1>1. ASSUME NEW e \in Execution PROVE [e EXCEPT !.ctx = "canceled"] \in Execution
  BY <1>1 DEF Execution
<1>2. QED
  BY <1>1 DEF cancelRun

\* An execution moves on to a well-typed one.
LEMMA SetExecType ==
  ASSUME execs \subseteq Execution, NEW e, NEW f \in Execution, SetExec(e, f)
  PROVE  execs' \subseteq Execution
BY DEF SetExec

\* The deferred clean-up of executeRun keeps executions and registrations typed.
LEMMA EndExecType ==
  ASSUME execs \subseteq Execution, active \in [RunIds -> Nat], NEW e, EndExec(e)
  PROVE  execs' \subseteq Execution /\ active' \in [RunIds -> Nat]
BY DEF EndExec

\* The tables of a new database and the locals of a new process are typed.
LEMMA TypeInit == Init => TypeInv
<1>1. SUFFICES ASSUME Init PROVE TypeInv
  OBVIOUS
<1>2. QED
  BY <1>1 DEF Init, TypeInv, TypeOK, TickLocals, Statuses, JobStatuses, Phases

\* Time, inserts, edits, restarts and reconciliation preserve the types.
LEMMA EnvironmentType == TypeInv /\ Environment => TypeInv'
<1> SUFFICES ASSUME TypeInv, Environment PROVE TypeInv'
  OBVIOUS
<1> USE DEF TypeInv, TypeOK, TickLocals, ledgerVars, tickVars, execVars
<1>1. CASE AdvanceClock
  BY <1>1 DEF AdvanceClock
<1>2. ASSUME NEW o \in Occurrences, NEW late \in Lateness, InsertRun(o, late)
      PROVE  TypeInv'
  <2>1. now - late \in Nat
    BY <1>2, TimeAssumption DEF InsertRun
  <2>2. QED
    BY <1>2, <2>1 DEF InsertRun, Statuses, Queued
<1>3. ASSUME NEW s \in Schedules, NEW p \in Policies, EditPolicy(s, p)
      PROVE  TypeInv'
  BY <1>3 DEF EditPolicy
<1>4. CASE Restart
  BY <1>4 DEF Restart, Phases
<1>5. ASSUME NEW o \in Occurrences, NEW st \in JobTerminal, ReconcileExternalJob(o, st)
      PROVE  TypeInv'
  BY <1>5 DEF ReconcileExternalJob, JobStatuses
<1>6. QED
  BY <1>1, <1>2, <1>3, <1>4, <1>5 DEF Environment

\* Every step of Dispatcher.Tick preserves the types.
LEMMA TickType == TypeInv /\ Tick => TypeInv'
<1> SUFFICES ASSUME TypeInv, Tick PROVE TypeInv'
  OBVIOUS
<1> USE DEF TypeInv, TypeOK, TickLocals, ledgerVars, tickVars, execVars
<1>0. LedgerType
  BY DEF LedgerType
<1>1. CASE TickBegin
  <2>1. expired' \subseteq RunIds \X Statuses \X BOOLEAN
    BY <1>1, RunIdParts, PolicyAssumption DEF TickBegin
  <2>2. QED
    BY <1>1, <2>1 DEF TickBegin, Phases
<1>2. ASSUME NEW item \in expired, RecoverClaimed(item)
      PROVE  TypeInv'
  <2>1. item[1] \in RunIds
    OBVIOUS
  <2>2. LedgerType'
    BY <1>0, <1>2, <2>1, ReleaseRunTxType DEF RecoverClaimed, LedgerType
  <2>3. QED
    BY <1>2, <2>2 DEF RecoverClaimed, LedgerType
<1>3. ASSUME NEW item \in expired, RecoverRunning(item)
      PROVE  TypeInv'
  <2>1. item[1] \in RunIds
    OBVIOUS
  <2>2. LedgerType'
    <3>1. FailureStatus(item[1], "error") \in Terminal
      BY FailureStatusType DEF Terminal
    <3>2. QED
      BY <1>0, <1>3, <2>1, <3>1, ReleaseRunTxType, FinishRunTxType
      DEF RecoverRunning, LedgerType
  <2>3. QED
    BY <1>3, <2>1, <2>2 DEF RecoverRunning, LedgerType, Phases
<1>4. CASE TickAbort
  BY <1>4 DEF TickAbort, Phases
<1>5. CASE ListCandidateRuns
  BY <1>5 DEF ListCandidateRuns, Phases
<1>6. ASSUME NEW r \in cands, GetSchedule(r)
      PROVE  TypeInv'
  <2>1. r \in RunIds /\ policy[ScheduleOf[r[1]]] \in Policies
    BY RunIdParts
  <2>2. QED
    BY <1>6, <2>1 DEF GetSchedule, Phases
<1>7. CASE PrepareScheduleForClaim \/ UnresolvedExternalJobCount
  BY <1>7 DEF PrepareScheduleForClaim, UnresolvedExternalJobCount, Phases
<1>14. CASE ListActiveRuns
  BY <1>14 DEF ListActiveRuns, RunsOfSchedule, Phases
<1>15. CASE CancelRecovered \/ \E q \in signals : CancelReplaced(q)
  <2>1. execs' \subseteq Execution
    BY <1>15, CancelRunType DEF CancelRecovered, CancelReplaced
  <2>2. QED
    BY <1>15, <2>1 DEF CancelRecovered, CancelReplaced, Phases
<1>8. CASE CandidateError
  BY <1>8 DEF CandidateError, Phases
<1>9. CASE EnforceQueuePolicy
  <2>1. skips' \subseteq RunIds
    BY <1>9 DEF EnforceQueuePolicy, Newest, Unsubmitted, RunsOfSchedule
  <2>2. QED
    BY <1>9, <2>1 DEF EnforceQueuePolicy, Phases
<1>10. ASSUME NEW q \in skips, SkipQueuedRun(q)
       PROVE  TypeInv'
  BY <1>10 DEF SkipQueuedRun, Statuses, Terminal, Phases
<1>16. CASE ClearSkippedLease
  BY <1>16 DEF ClearSkippedLease, DropLease, Phases
<1>11. CASE ClaimRunWithToken
  <2>1. cur \in RunIds /\ seen \in Policies
    BY <1>11 DEF ClaimRunWithToken
  <2>2. CASE Claimable(cur, seen) /\ claims[cur] < MaxClaims
    <3>1. now + TTL \in Nat /\ claims[cur] + 1 \in Nat
      BY <2>1, TimeAssumption
    <3>2. claims'[cur] = claims[cur] + 1
      BY <1>11, <2>1, <2>2 DEF ClaimRunWithToken
    <3>3. seen.tracked \in BOOLEAN
      BY <2>1, PolicyAssumption
    <3>4. execs' \subseteq Execution
      BY <1>11, <2>1, <2>2, <3>1, <3>2, <3>3 DEF ClaimRunWithToken, Execution
    <3>5. QED
      BY <1>11, <2>1, <2>2, <3>1, <3>2, <3>4
      DEF ClaimRunWithToken, Statuses, Active, Phases
  <2>3. CASE ~Claimable(cur, seen)
    BY <1>11, <2>3 DEF ClaimRunWithToken, Phases
  <2>4. QED
    BY <1>11, <2>2, <2>3 DEF ClaimRunWithToken
<1>12. CASE TickEnd
  BY <1>12 DEF TickEnd, Phases
<1>13. QED
  BY <1>1, <1>2, <1>3, <1>4, <1>5, <1>6, <1>7, <1>8, <1>9, <1>10, <1>11, <1>12,
     <1>14, <1>15, <1>16 DEF Tick

\* Every step of executeRun and its heartbeat preserves the types.
LEMMA ExecuteType ==
  ASSUME TypeInv, NEW e \in execs, Execute(e)
  PROVE  TypeInv'
<1> USE DEF TypeInv, TypeOK, TickLocals, ledgerVars, tickVars, execVars
<1>0. /\ LedgerType
      /\ e \in Execution /\ e.run \in RunIds /\ e.claim \in Nat
      /\ e.run[1] \in Occurrences
  BY RunIdParts DEF LedgerType, Execution
<1>1. CASE BeginExecution(e)
  <2>1. [e EXCEPT !.pc = "starting", !.stamp = now,
                  !.external = @ \/ jobs[e.run[1]] # "none"] \in Execution
    BY <1>0 DEF Execution
  <2>2. execs' \subseteq Execution
    BY <1>1, <2>1, SetExecType DEF BeginExecution
  <2>3. QED
    BY <1>1, <2>2 DEF BeginExecution
<1>2. CASE MarkRunRunning(e)
  <2>1. [e EXCEPT !.pc = "registering", !.stamp = 0] \in Execution
    BY <1>0 DEF Execution
  <2>2. execs' \subseteq Execution /\ active' \in [RunIds -> Nat]
    BY <1>0, <1>2, <2>1, SetExecType, EndExecType DEF MarkRunRunning
  <2>3. status' \in [RunIds -> Statuses]
    BY <1>0, <1>2 DEF MarkRunRunning, Statuses, Active
  <2>4. QED
    BY <1>2, <2>2, <2>3 DEF MarkRunRunning
<1>12. CASE registerCancel(e)
  <2>1. [e EXCEPT !.pc = "executing"] \in Execution
    BY <1>0 DEF Execution
  <2>2. execs' \subseteq Execution
    BY <1>12, <2>1, SetExecType DEF registerCancel
  <2>3. QED
    BY <1>0, <1>12, <2>2 DEF registerCancel
<1>3. CASE HeartbeatBegin(e)
  <2>1. [e EXCEPT !.beat = "renewing", !.stamp = now] \in Execution
    BY <1>0 DEF Execution
  <2>2. execs' \subseteq Execution
    BY <1>3, <2>1, SetExecType DEF HeartbeatBegin
  <2>3. QED
    BY <1>3, <2>2 DEF HeartbeatBegin
<1>4. CASE RenewLeaseWithToken(e)
  <2>1. [e EXCEPT !.beat = "idle", !.stamp = 0] \in Execution
    BY <1>0 DEF Execution
  <2>2. e.stamp \in Nat
    BY <1>0 DEF Execution
  <2>3. e.stamp + TTL \in Nat
    BY <2>2, TimeAssumption
  <2>4. HeartbeatFailed(e) \in Execution
    <3>1. (IF e.pc = "executing" /\ e.ctx = "live" THEN "canceled" ELSE e.ctx)
            \in {"live", "canceled", "deadline"}
      BY <1>0 DEF Execution
    <3>2. ASSUME NEW c \in {"live", "canceled", "deadline"}
          PROVE  [e EXCEPT !.beat = "failed", !.stamp = 0, !.ctx = c] \in Execution
      BY <1>0 DEF Execution
    <3>3. QED
      BY <3>1, <3>2 DEF HeartbeatFailed
  <2>5. execs' \subseteq Execution
    BY <1>4, <2>1, <2>4, SetExecType DEF RenewLeaseWithToken
  <2>6. expires' \in [RunIds -> Nat]
    BY <1>4, <2>3 DEF RenewLeaseWithToken
  <2>7. QED
    BY <1>4, <2>5, <2>6 DEF RenewLeaseWithToken
<1>5. ASSUME NEW why \in {"canceled", "deadline"}, ContextEnds(e, why)
      PROVE  TypeInv'
  <2>1. [e EXCEPT !.ctx = why] \in Execution
    BY <1>0 DEF Execution
  <2>2. execs' \subseteq Execution
    BY <1>5, <2>1, SetExecType DEF ContextEnds
  <2>3. QED
    BY <1>5, <2>2 DEF ContextEnds
<1>6. CASE CheckpointSubmission(e)
  BY <1>0, <1>6 DEF CheckpointSubmission, JobStatuses
<1>7. ASSUME NEW st \in JobTerminal, CheckpointTerminal(e, st)
      PROVE  TypeInv'
  <2>1. ASSUME NEW outcome \in {JobResult(st), JobFailure(e.ctx)}
        PROVE  [e EXCEPT !.pc = "returned", !.ctx = "live", !.outcome = outcome] \in Execution
    <3>1. outcome \in Outcomes
      BY <2>1 DEF JobResult, JobFailure, Outcomes
    <3>2. QED
      BY <1>0, <3>1 DEF Execution
  <2>2. execs' \subseteq Execution
    BY <1>7, <2>1, SetExecType DEF CheckpointTerminal
  <2>3. jobs' \in [Occurrences -> JobStatuses]
    BY <1>7 DEF CheckpointTerminal, JobStatuses
  <2>4. QED
    BY <1>7, <2>2, <2>3 DEF CheckpointTerminal
<1>8. ASSUME NEW outcome \in Outcomes, ExecutorReturns(e, outcome)
      PROVE  TypeInv'
  <2>1. [e EXCEPT !.pc = "returned", !.ctx = "live", !.outcome = outcome] \in Execution
    BY <1>0 DEF Execution
  <2>2. execs' \subseteq Execution
    BY <1>8, <2>1, SetExecType DEF ExecutorReturns
  <2>3. QED
    BY <1>8, <2>2 DEF ExecutorReturns
<1>9. CASE FinishExecution(e)
  <2>1. execs' \subseteq Execution /\ active' \in [RunIds -> Nat]
    BY <1>9, EndExecType DEF FinishExecution
  <2>2. ASSUME NEW outcome PROVE FinishStatus(e.run, outcome) \in Terminal
    BY FinishStatusType DEF Terminal
  <2>3. LedgerType'
    BY <1>0, <1>9, <2>2, ReleaseRunTxType, FinishRunTxType DEF FinishExecution, LedgerType
  <2>4. QED
    BY <1>9, <2>1, <2>3 DEF FinishExecution, LedgerType
<1>10. CASE AbandonExecution(e)
  BY <1>10, EndExecType DEF AbandonExecution
<1>11. QED
  BY <1>1, <1>2, <1>3, <1>4, <1>5, <1>6, <1>7, <1>8, <1>9, <1>10, <1>12 DEF Execute

\* The type invariant: every table, local variable and goroutine of the daemon
\* holds values of its type in every reachable state.
THEOREM TypeCorrect == Spec => []TypeOK
<1>1. TypeInv /\ [Next]_vars => TypeInv'
  <2>1. SUFFICES ASSUME TypeInv, [Next]_vars PROVE TypeInv'
    OBVIOUS
  <2>2. CASE Next
    BY <2>1, <2>2, EnvironmentType, TickType, ExecuteType DEF Next
  <2>3. CASE UNCHANGED vars
    BY <2>1, <2>3 DEF vars, ledgerVars, tickVars, execVars, TypeInv, TypeOK, TickLocals
  <2>4. QED
    BY <2>1, <2>2, <2>3
<1>2. TypeInv => TypeOK
  BY DEF TypeInv
<1>3. QED
  BY TypeInit, <1>1, <1>2, PTL DEF Spec

-----------------------------------------------------------------------------
(* The inductive invariant.                                                *)

\* The runs the dispatcher is about to skip are still queued and unsubmitted:
\* nobody else claims, and an execution of the occurrence would need a lease.
SkipsQueued ==
  /\ phase \notin {"skip", "unlease"} => skips = {}
  /\ \A q \in skips : status[q] \in Queued /\ jobs[q[1]] = "none"

LedgerInv == LeaseIffActive /\ RetryChain /\ DeadLettersMatch

\* Between the statements of FinishRun the run is skipped already, and between
\* a recovery and its cancelRun nobody has claimed the run again.
CurSettled ==
  /\ phase = "unlease" => status[cur] = "skipped"
  /\ phase = "recovered" => lease[cur] = 0

Inv == TypeInv /\ LedgerInv /\ SkipsQueued /\ CurSettled

\* An occurrence and an attempt make a run ID.
LEMMA RunIdOf ==
  ASSUME NEW o \in Occurrences, NEW a \in Attempts
  PROVE  <<o, a>> \in RunIds
BY DEF RunIds

\* The next attempt, when retry.max_attempts allows one, is another run.
LEMMA SuccessorId ==
  ASSUME NEW r \in RunIds, r[2] < MaxAttempts
  PROVE  LET n == <<r[1], r[2] + 1>>
         IN /\ n \in RunIds /\ n # r /\ n[1] = r[1] /\ n[2] > 1
            /\ r = <<n[1], n[2] - 1>>
<1>1. r = <<r[1], r[2]>> /\ r[1] \in Occurrences /\ r[2] \in 1..MaxAttempts
  BY RunIdParts DEF Attempts
<1>2. r[2] + 1 \in 1..MaxAttempts /\ r[2] + 1 > 1 /\ (r[2] + 1) - 1 = r[2] /\ r[2] + 1 # r[2]
  BY <1>1, RetryAssumption
<1>3. QED
  BY <1>1, <1>2 DEF RunIds, Attempts

\* Attempts of an occurrence other than a live one are failed or not yet there.
LEMMA LiveAlone ==
  ASSUME TypeOK, RetryChain, NEW r \in RunIds, NEW q \in RunIds,
         q[1] = r[1], q # r, status[r] \in Queued \cup Active
  PROVE  status[q] \in {"none", "failed"} /\ (q[2] > r[2] => status[q] = "none")
<1>1. /\ r = <<r[1], r[2]>> /\ q = <<r[1], q[2]>>
      /\ r[1] \in Occurrences /\ r[2] \in Attempts /\ q[2] \in Attempts
      /\ r[2] # q[2]
  BY RunIdParts
<1>2. /\ status[r] # "none" => \A b \in 1..(r[2] - 1) : status[<<r[1], b>>] = "failed"
      /\ status[q] # "none" => \A b \in 1..(q[2] - 1) : status[<<r[1], b>>] = "failed"
  BY <1>1 DEF RetryChain
<1>3. status[r] # "none" /\ status[r] # "failed"
  BY DEF Queued, Active
<1>4. CASE q[2] < r[2]
  <2>1. q[2] \in 1..(r[2] - 1)
    BY <1>1, <1>4, RetryAssumption DEF Attempts
  <2>2. QED
    BY <1>1, <1>2, <1>3, <1>4, <2>1, RetryAssumption DEF Attempts
<1>5. CASE r[2] < q[2]
  <2>1. r[2] \in 1..(q[2] - 1)
    BY <1>1, <1>5, RetryAssumption DEF Attempts
  <2>2. QED
    BY <1>1, <1>2, <1>3, <2>1
<1>6. QED
  BY <1>1, <1>4, <1>5, RetryAssumption DEF Attempts

\* The retry chain leaves room for one active attempt per occurrence.
LEMMA OneActiveFromInv == Inv => OneActiveAttempt
<1> SUFFICES ASSUME Inv, NEW q \in RunIds, NEW r \in RunIds,
                    q[1] = r[1], status[q] \in Active, status[r] \in Active
             PROVE  q = r
  BY DEF OneActiveAttempt
<1>1. QED
  BY LiveAlone DEF Inv, TypeInv, LedgerInv, Active

\* The inductive invariant holds in a new database.
LEMMA InvInit == Init => Inv
<1>1. SUFFICES ASSUME Init PROVE Inv
  OBVIOUS
<1>2. TypeInv
  BY <1>1, TypeInit
<1>3. \A r \in RunIds : status[r] = "none" /\ lease[r] = 0
  BY <1>1 DEF Init
<1>4. LeaseIffActive /\ DeadLettersMatch
  BY <1>1, <1>3 DEF LeaseIffActive, DeadLettersMatch, Active, Init
<1>5. RetryChain
  BY <1>3, RunIdOf DEF RetryChain
<1>6. SkipsQueued /\ CurSettled
  BY <1>1 DEF SkipsQueued, CurSettled, Init
<1>7. QED
  BY <1>2, <1>4, <1>5, <1>6 DEF Inv, LedgerInv

-----------------------------------------------------------------------------
(* Every step of the ledger is a step of the life cycle, or none.          *)

LStep == [Lifecycle!Next]_Lifecycle!vars

\* An owner, or recovery, holds the lease of the run it finishes or releases.
LEMMA FinishIsLifecycle ==
  ASSUME Inv, NEW r \in RunIds, lease[r] # 0, NEW outcome,
         FinishRunTx(r, FinishStatus(r, outcome))
  PROVE  Lifecycle!Next
<1> DEFINE st == FinishStatus(r, outcome)
           n == NextAttempt(r)
<1>0. /\ r = <<r[1], r[2]>> /\ r[1] \in Occurrences /\ r[2] \in Attempts
      /\ status[r] \in Active /\ status \in [RunIds -> Statuses]
      /\ lease \in [RunIds -> Nat]
  BY RunIdParts DEF Inv, TypeInv, TypeOK, LedgerInv, LeaseIffActive
<1>1. {q \in RunIds : lease'[q] # 0} = {q \in RunIds : lease[q] # 0} \ {r}
  BY <1>0 DEF FinishRunTx, DropLease
<1>2. CASE st = "failed"
  <2>1. r[2] < MaxAttempts
    BY <1>2 DEF FinishStatus, FailureStatus, ShouldRetry
  <2>2. n \in RunIds /\ n # r /\ n[1] = r[1] /\ n[2] = r[2] + 1
    BY <1>0, <2>1, RetryAssumption DEF NextAttempt, RunIds, Attempts
  <2>3. status[n] = "none"
    BY <1>0, <2>2, LiveAlone, RetryAssumption DEF Inv, TypeInv, LedgerInv, Attempts
  <2>4. status' = [status EXCEPT ![r] = "failed", ![n] = "retry_scheduled"]
    BY <1>0, <1>2, <2>2, <2>3 DEF FinishRunTx
  <2>5. dead' = dead
    BY <1>2 DEF FinishRunTx, InsertDeadLetter
  <2>6. Lifecycle!Retry(r)
    BY <1>0, <1>1, <2>1, <2>3, <2>4, <2>5 DEF Lifecycle!Retry, NextAttempt
  <2>7. QED
    BY <2>6 DEF Lifecycle!Next, Lifecycle!RunIds, RunIds, Attempts
<1>3. CASE st # "failed"
  <2>1. st \in {"succeeded", "cancelled", "dead_lettered"}
    BY <1>3, FinishStatusType
  <2>2. status' = [status EXCEPT ![r] = st]
    BY <1>0, <1>3 DEF FinishRunTx
  <2>3. Lifecycle!Finish(r, st)
    BY <1>0, <1>1, <2>2 DEF Lifecycle!Finish, FinishRunTx, InsertDeadLetter
  <2>4. QED
    BY <2>1, <2>3 DEF Lifecycle!Next, Lifecycle!RunIds, RunIds, Attempts
<1>4. QED
  BY <1>2, <1>3

\* Giving up a held lease is a requeue.
LEMMA ReleaseIsLifecycle ==
  ASSUME Inv, NEW r \in RunIds, lease[r] # 0, ReleaseRunTx(r)
  PROVE  Lifecycle!Next
<1>1. {q \in RunIds : lease'[q] # 0} = {q \in RunIds : lease[q] # 0} \ {r}
  BY DEF ReleaseRunTx, DropLease, Inv, TypeInv, TypeOK
<1>2. Lifecycle!Requeue(r)
  BY <1>1 DEF Lifecycle!Requeue, ReleaseRunTx
<1>3. QED
  BY <1>2 DEF Lifecycle!Next, Lifecycle!RunIds, RunIds, Attempts

\* A step that leaves status, leases and dead letters alone stutters.
LEMMA UnchangedIsStutter ==
  ASSUME UNCHANGED <<status, lease, dead>>
  PROVE  LStep
BY DEF LStep, Lifecycle!vars

\* Of the environment's steps only the first insert moves a run.
LEMMA EnvironmentIsLifecycle == Inv /\ Environment => LStep
<1> SUFFICES ASSUME Inv, Environment PROVE LStep
  OBVIOUS
<1>1. CASE AdvanceClock \/ Restart
         \/ (\E s \in Schedules, p \in Policies : EditPolicy(s, p))
         \/ (\E o \in Occurrences, st \in JobTerminal : ReconcileExternalJob(o, st))
  BY <1>1, UnchangedIsStutter
  DEF AdvanceClock, Restart, EditPolicy, ReconcileExternalJob, ledgerVars
<1>2. ASSUME NEW o \in Occurrences, NEW late \in Lateness, InsertRun(o, late)
      PROVE  LStep
  <2>1. \A a \in Attempts : status[<<o, a>>] = "none"
    <3> SUFFICES ASSUME NEW a \in Attempts, status[<<o, a>>] # "none" PROVE FALSE
      OBVIOUS
    <3>1. \A b \in 1..(a - 1) : status[<<o, b>>] = "failed"
      BY DEF Inv, LedgerInv, RetryChain
    <3>2. CASE a = 1
      BY <1>2, <3>2 DEF InsertRun
    <3>3. CASE a # 1
      <4>1. 1 \in 1..(a - 1)
        BY <3>3, RetryAssumption DEF Attempts
      <4>2. QED
        BY <1>2, <3>1, <4>1 DEF InsertRun
    <3>4. QED
      BY <3>2, <3>3
  <2>2. Lifecycle!Insert(o)
    BY <1>2, <2>1 DEF Lifecycle!Insert, InsertRun, Attempts
  <2>3. QED
    BY <2>2 DEF LStep, Lifecycle!Next
<1>3. QED
  BY <1>1, <1>2 DEF Environment

\* The dispatcher requeues, finishes, retries, skips and claims.
LEMMA TickIsLifecycle == Inv /\ Tick => LStep
<1> SUFFICES ASSUME Inv, Tick PROVE LStep
  OBVIOUS
<1>0. TypeOK /\ TickLocals /\ LeaseIffActive
  BY DEF Inv, TypeInv, LedgerInv
<1>1. CASE TickBegin \/ TickAbort \/ ListCandidateRuns \/ CandidateError
         \/ EnforceQueuePolicy \/ TickEnd \/ CancelRecovered \/ PrepareScheduleForClaim
         \/ UnresolvedExternalJobCount \/ ListActiveRuns
         \/ (\E r \in cands : GetSchedule(r)) \/ (\E q \in signals : CancelReplaced(q))
  BY <1>1, UnchangedIsStutter
  DEF TickBegin, TickAbort, ListCandidateRuns, CandidateError, EnforceQueuePolicy, TickEnd,
      CancelRecovered, PrepareScheduleForClaim, UnresolvedExternalJobCount, ListActiveRuns,
      GetSchedule, CancelReplaced, ledgerVars
<1>2. ASSUME NEW item \in expired, RecoverClaimed(item)
      PROVE  LStep
  <2>1. item[1] \in RunIds
    BY <1>0 DEF TypeOK
  <2>2. CASE LeaseExpiredIn(item[1], "claimed", tickNow)
    <3>1. lease[item[1]] # 0 /\ ReleaseRunTx(item[1])
      BY <1>2, <2>2 DEF RecoverClaimed, LeaseExpiredIn
    <3>2. QED
      BY <2>1, <3>1, ReleaseIsLifecycle DEF LStep
  <2>3. CASE ~LeaseExpiredIn(item[1], "claimed", tickNow)
    BY <1>2, <2>3, UnchangedIsStutter DEF RecoverClaimed, ledgerVars
  <2>4. QED
    BY <2>2, <2>3
<1>3. ASSUME NEW item \in expired, RecoverRunning(item)
      PROVE  LStep
  <2>1. item[1] \in RunIds
    BY <1>0 DEF TypeOK
  <2>2. CASE UNCHANGED ledgerVars
    BY <2>2, UnchangedIsStutter DEF ledgerVars
  <2>3. CASE lease[item[1]] # 0 /\ ReleaseRunTx(item[1])
    BY <2>1, <2>3, ReleaseIsLifecycle DEF LStep
  <2>4. CASE lease[item[1]] # 0 /\ FinishRunTx(item[1], FailureStatus(item[1], "error"))
    <3>1. FailureStatus(item[1], "error") = FinishStatus(item[1], "error")
      BY DEF FinishStatus
    <3>2. FinishRunTx(item[1], FinishStatus(item[1], "error"))
      BY <2>4, <3>1
    <3>3. QED
      BY <2>1, <2>4, <3>2, FinishIsLifecycle DEF LStep
  <2>5. QED
    BY <1>3, <2>2, <2>3, <2>4 DEF RecoverRunning, LeaseExpiredIn
<1>4. ASSUME NEW q \in skips, SkipQueuedRun(q)
      PROVE  LStep
  <2>1. q \in RunIds /\ status[q] \in Queued
    BY <1>0 DEF Inv, SkipsQueued, TypeOK
  <2>2. lease[q] = 0
    BY <1>0, <2>1 DEF LeaseIffActive, Active, Queued
  <2>3. lease' = lease
    BY <1>4 DEF SkipQueuedRun
  <2>4. Lifecycle!Skip(q)
    BY <1>4, <2>1, <2>2, <2>3 DEF Lifecycle!Skip, SkipQueuedRun, Queued, Lifecycle!Queued
  <2>5. QED
    BY <2>1, <2>4 DEF LStep, Lifecycle!Next, Lifecycle!RunIds, RunIds, Attempts
<1>5. CASE ClaimRunWithToken
  <2>1. cur \in RunIds
    BY <1>0, <1>5 DEF ClaimRunWithToken, TickLocals
  <2>2. CASE ~Claimable(cur, seen)
    BY <1>5, <2>2, UnchangedIsStutter DEF ClaimRunWithToken
  <2>3. CASE Claimable(cur, seen)
    <3>1. /\ status' = [status EXCEPT ![cur] = "claimed"]
          /\ lease' = [lease EXCEPT ![cur] = claims[cur] + 1]
          /\ UNCHANGED dead
      BY <1>0, <1>5, <2>1, <2>3 DEF ClaimRunWithToken, TypeOK
    <3>2. claims[cur] \in Nat
      BY <1>0, <2>1 DEF TypeOK
    <3>3. {q \in RunIds : lease'[q] # 0} = {q \in RunIds : lease[q] # 0} \cup {cur}
      BY <1>0, <2>1, <3>1, <3>2 DEF TypeOK
    <3>4. \A q \in RunIds : lease[q] # 0 => q[1] # cur[1]
      <4> SUFFICES ASSUME NEW q \in RunIds, lease[q] # 0, q[1] = cur[1] PROVE FALSE
        OBVIOUS
      <4>1. status[q] \in Active /\ status[cur] \in Queued
        BY <1>0, <2>3 DEF LeaseIffActive, Claimable
      <4>2. q # cur
        BY <4>1 DEF Active, Queued
      <4>3. QED
        BY <1>0, <2>1, <4>1, <4>2, LiveAlone DEF Inv, LedgerInv, Active
    <3>5. PICK r \in RunIds : r = cur
      BY <2>1
    <3>6. Lifecycle!Claim(r)
      BY <2>3, <3>1, <3>3, <3>4, <3>5
      DEF Lifecycle!Claim, Lifecycle!Queued, Claimable, Queued
    <3>7. QED
      BY <3>6 DEF LStep, Lifecycle!Next, Lifecycle!RunIds, RunIds, Attempts
  <2>4. QED
    BY <2>2, <2>3
<1>6. CASE ClearSkippedLease
  <2>1. cur \in RunIds /\ status[cur] = "skipped"
    BY <1>0, <1>6 DEF ClearSkippedLease, TickLocals, Inv, CurSettled
  <2>2. lease[cur] = 0
    BY <1>0, <2>1 DEF LeaseIffActive, Active
  <2>3. lease' = lease
    BY <1>0, <1>6, <2>1, <2>2 DEF ClearSkippedLease, DropLease, TypeOK
  <2>4. QED
    BY <1>6, <2>3, UnchangedIsStutter DEF ClearSkippedLease
<1>7. QED
  BY <1>1, <1>2, <1>3, <1>4, <1>5, <1>6 DEF Tick

\* An execution starts, finishes, retries or requeues the run it holds.
LEMMA ExecuteIsLifecycle ==
  ASSUME Inv, NEW e \in execs, Execute(e)
  PROVE  LStep
<1>0. /\ TypeOK /\ LeaseIffActive
      /\ e.run \in RunIds
      /\ OwnsLease(e) => lease[e.run] # 0
  BY DEF Inv, TypeInv, TypeOK, LedgerInv, LeaseIffActive, Execution, OwnsLease
<1>1. CASE BeginExecution(e) \/ registerCancel(e) \/ HeartbeatBegin(e) \/ RenewLeaseWithToken(e)
         \/ (\E why \in {"canceled", "deadline"} : ContextEnds(e, why))
         \/ CheckpointSubmission(e) \/ (\E st \in JobTerminal : CheckpointTerminal(e, st))
         \/ (\E outcome \in Outcomes : ExecutorReturns(e, outcome)) \/ AbandonExecution(e)
  BY <1>1, UnchangedIsStutter
  DEF BeginExecution, registerCancel, HeartbeatBegin, RenewLeaseWithToken, ContextEnds,
      CheckpointSubmission, CheckpointTerminal, ExecutorReturns, AbandonExecution, ledgerVars
<1>2. CASE MarkRunRunning(e)
  <2>1. CASE UNCHANGED status
    BY <1>2, <2>1, UnchangedIsStutter DEF MarkRunRunning
  <2>2. CASE OwnsLiveLease(e, e.stamp) /\ status' = [status EXCEPT ![e.run] = "running"]
    <3>1. Lifecycle!Start(e.run)
      BY <1>0, <1>2, <2>2 DEF Lifecycle!Start, MarkRunRunning, OwnsLiveLease
    <3>2. QED
      BY <1>0, <3>1 DEF LStep, Lifecycle!Next, Lifecycle!RunIds, RunIds, Attempts
  <2>3. QED
    BY <1>2, <2>1, <2>2 DEF MarkRunRunning
<1>3. CASE FinishExecution(e)
  <2>1. CASE UNCHANGED ledgerVars
    BY <2>1, UnchangedIsStutter DEF ledgerVars
  <2>2. CASE OwnsLease(e) /\ ReleaseRunTx(e.run)
    BY <1>0, <2>2, ReleaseIsLifecycle DEF LStep
  <2>3. ASSUME NEW outcome, OwnsLease(e), FinishRunTx(e.run, FinishStatus(e.run, outcome))
        PROVE  LStep
    BY <1>0, <2>3, FinishIsLifecycle DEF LStep
  <2>4. QED
    BY <1>3, <2>1, <2>2, <2>3 DEF FinishExecution, OwnsLiveLease
<1>4. QED
  BY <1>1, <1>2, <1>3 DEF Execute

-----------------------------------------------------------------------------
(* A step of the life cycle preserves the ledger's part of the invariant.  *)

\* Leases and active statuses change together.
LEMMA LifecycleKeepsLeases ==
  ASSUME TypeOK, TypeOK', LeaseIffActive, LStep
  PROVE  LeaseIffActive'
<1> DEFINE L == {q \in RunIds : lease[q] # 0}
<1>1. SUFFICES ASSUME NEW q \in RunIds PROVE status'[q] \in Active <=> q \in L'
  BY DEF LeaseIffActive
<1>2. status[q] \in Active <=> q \in L
  BY DEF LeaseIffActive
<1>3. CASE UNCHANGED Lifecycle!vars
  BY <1>2, <1>3 DEF Lifecycle!vars
<1>4. CASE Lifecycle!Next
  <2> USE <1>2 DEF TypeOK, Active, Queued, Lifecycle!Queued, Lifecycle!RunIds, RunIds, Attempts
  <2>1. ASSUME NEW o \in Occurrences, Lifecycle!Insert(o)
        PROVE  status'[q] \in Active <=> q \in L'
    <3>1. 1 \in 1..MaxAttempts
      BY RetryAssumption
    <3>2. status[<<o, 1>>] = "none"
      BY <2>1, <3>1 DEF Lifecycle!Insert
    <3>3. L' = L
      BY <2>1 DEF Lifecycle!Insert
    <3>4. QED
      BY <2>1, <3>2, <3>3 DEF Lifecycle!Insert
  <2>2. ASSUME NEW r \in RunIds, Lifecycle!Claim(r) \/ Lifecycle!Start(r)
        PROVE  status'[q] \in Active <=> q \in L'
    BY <2>2 DEF Lifecycle!Claim, Lifecycle!Start
  <2>3. ASSUME NEW r \in RunIds, Lifecycle!Requeue(r)
        PROVE  status'[q] \in Active <=> q \in L'
    BY <2>3 DEF Lifecycle!Requeue
  <2>4. ASSUME NEW r \in RunIds, NEW st \in {"succeeded", "cancelled", "dead_lettered"},
               Lifecycle!Finish(r, st)
        PROVE  status'[q] \in Active <=> q \in L'
    BY <2>4 DEF Lifecycle!Finish
  <2>5. ASSUME NEW r \in RunIds, Lifecycle!Retry(r)
        PROVE  status'[q] \in Active <=> q \in L'
    BY <2>5 DEF Lifecycle!Retry
  <2>6. ASSUME NEW r \in RunIds, Lifecycle!Skip(r)
        PROVE  status'[q] \in Active <=> q \in L'
    BY <2>6 DEF Lifecycle!Skip
  <2>7. QED
    BY <1>4, <2>1, <2>2, <2>3, <2>4, <2>5, <2>6 DEF Lifecycle!Next
<1>5. QED
  BY <1>3, <1>4 DEF LStep

\* Dead letters and dead_lettered statuses change together.
LEMMA LifecycleKeepsDeadLetters ==
  ASSUME TypeOK, TypeOK', LeaseIffActive, DeadLettersMatch, LStep
  PROVE  DeadLettersMatch'
<1>1. SUFFICES ASSUME NEW q \in RunIds PROVE q \in dead' <=> status'[q] = "dead_lettered"
  BY DEF DeadLettersMatch, TypeOK
<1>2. q \in dead <=> status[q] = "dead_lettered"
  BY DEF DeadLettersMatch
<1>3. \A r \in RunIds : lease[r] # 0 => status[r] # "dead_lettered"
  BY DEF LeaseIffActive, Active
<1>4. CASE UNCHANGED Lifecycle!vars
  BY <1>2, <1>4 DEF Lifecycle!vars
<1>5. CASE Lifecycle!Next
  <2> USE <1>2, <1>3 DEF TypeOK, Lifecycle!Queued, Lifecycle!RunIds, RunIds, Attempts
  <2>1. ASSUME NEW o \in Occurrences, Lifecycle!Insert(o)
        PROVE  q \in dead' <=> status'[q] = "dead_lettered"
    <3>1. status[<<o, 1>>] = "none" /\ dead' = dead
      BY <2>1, RetryAssumption DEF Lifecycle!Insert
    <3>2. QED
      BY <2>1, <3>1 DEF Lifecycle!Insert
  <2>2. ASSUME NEW r \in RunIds,
               \/ Lifecycle!Claim(r) \/ Lifecycle!Start(r) \/ Lifecycle!Requeue(r)
               \/ Lifecycle!Skip(r)
        PROVE  q \in dead' <=> status'[q] = "dead_lettered"
    BY <2>2 DEF Lifecycle!Claim, Lifecycle!Start, Lifecycle!Requeue, Lifecycle!Skip
  <2>3. ASSUME NEW r \in RunIds, Lifecycle!Retry(r)
        PROVE  q \in dead' <=> status'[q] = "dead_lettered"
    BY <2>3 DEF Lifecycle!Retry
  <2>4. ASSUME NEW r \in RunIds, NEW st \in {"succeeded", "cancelled", "dead_lettered"},
               Lifecycle!Finish(r, st)
        PROVE  q \in dead' <=> status'[q] = "dead_lettered"
    BY <2>4 DEF Lifecycle!Finish
  <2>5. QED
    BY <1>5, <2>1, <2>2, <2>3, <2>4 DEF Lifecycle!Next
<1>6. QED
  BY <1>4, <1>5 DEF LStep

\* Which statuses a life cycle step may change, and how.
LEMMA LifecycleMoves ==
  ASSUME TypeOK, TypeOK', LeaseIffActive, RetryChain, LStep, NEW q \in RunIds,
         status'[q] # status[q]
  PROVE  \/ /\ status[q] \in Queued \cup Active
            /\ status'[q] # "none" /\ status'[q] # "failed"
         \/ /\ status[q] \in Active /\ status'[q] = "failed"
            /\ q[2] < MaxAttempts
            /\ status'[<<q[1], q[2] + 1>>] = "retry_scheduled"
         \/ /\ status[q] = "none" /\ status'[q] = "retry_scheduled" /\ q[2] > 1
            /\ status[<<q[1], q[2] - 1>>] \in Active
            /\ status'[<<q[1], q[2] - 1>>] = "failed"
         \/ /\ status[q] = "none" /\ status'[q] = "pending" /\ q[2] = 1
<1>1. Lifecycle!Next
  BY DEF LStep, Lifecycle!vars
<1>2. \A r \in RunIds : lease[r] # 0 => status[r] \in Active
  BY DEF LeaseIffActive
<1> USE <1>2 DEF TypeOK, Active, Queued, Lifecycle!Queued, Lifecycle!RunIds, RunIds, Attempts
<1>3. ASSUME NEW o \in Occurrences, Lifecycle!Insert(o)
      PROVE  status[q] = "none" /\ status'[q] = "pending" /\ q[2] = 1
  <2>1. q = <<o, 1>>
    BY <1>3 DEF Lifecycle!Insert
  <2>2. 1 \in 1..MaxAttempts
    BY RetryAssumption
  <2>3. QED
    BY <1>3, <2>1, <2>2 DEF Lifecycle!Insert
<1>4. ASSUME NEW r \in RunIds, NEW st \in {"succeeded", "cancelled", "dead_lettered"},
             \/ Lifecycle!Claim(r) \/ Lifecycle!Start(r) \/ Lifecycle!Requeue(r)
             \/ Lifecycle!Skip(r) \/ Lifecycle!Finish(r, st)
      PROVE  /\ status[q] \in Queued \cup Active
             /\ status'[q] # "none" /\ status'[q] # "failed"
  BY <1>4 DEF Lifecycle!Claim, Lifecycle!Start, Lifecycle!Requeue, Lifecycle!Skip,
              Lifecycle!Finish
<1>5. ASSUME NEW r \in RunIds, Lifecycle!Retry(r)
      PROVE  \/ /\ status[q] \in Active /\ status'[q] = "failed"
                /\ q[2] < MaxAttempts
                /\ status'[<<q[1], q[2] + 1>>] = "retry_scheduled"
             \/ /\ status[q] = "none" /\ status'[q] = "retry_scheduled" /\ q[2] > 1
                /\ status[<<q[1], q[2] - 1>>] \in Active
                /\ status'[<<q[1], q[2] - 1>>] = "failed"
  <2> DEFINE n == <<r[1], r[2] + 1>>
  <2>1. n \in RunIds /\ n # r /\ n[2] > 1 /\ r = <<n[1], n[2] - 1>>
    BY <1>5, SuccessorId DEF Lifecycle!Retry
  <2>2. status'[r] = "failed" /\ status'[n] = "retry_scheduled" /\ (q = r \/ q = n)
    BY <1>5, <2>1 DEF Lifecycle!Retry
  <2>3. r[2] < MaxAttempts /\ status[n] = "none" /\ status[r] \in Active
    BY <1>5 DEF Lifecycle!Retry
  <2>4. QED
    BY <2>1, <2>2, <2>3
<1>6. QED
  BY <1>1, <1>3, <1>4, <1>5 DEF Lifecycle!Next

\* The chain of attempts grows only at its end, from a failure.
LEMMA LifecycleKeepsRetryChain ==
  ASSUME TypeOK, TypeOK', LeaseIffActive, RetryChain, LStep
  PROVE  RetryChain'
<1>1. ASSUME NEW q \in RunIds
      PROVE  /\ status[q] = "failed" => status'[q] = "failed"
             /\ status[q] # "none" => status'[q] # "none"
  BY <1>1, LifecycleMoves DEF Queued, Active
<1>2. SUFFICES ASSUME NEW o \in Occurrences, NEW a \in Attempts
      PROVE /\ status'[<<o, a>>] # "none" =>
                 \A b \in 1..(a - 1) : status'[<<o, b>>] = "failed"
            /\ status'[<<o, a>>] = "failed" =>
                 a < MaxAttempts /\ status'[<<o, a + 1>>] # "none"
  BY DEF RetryChain
<1>3. <<o, a>> \in RunIds /\ <<o, a>>[1] = o /\ <<o, a>>[2] = a /\ a \in Nat
  BY RunIdOf, RetryAssumption DEF Attempts
<1>4. ASSUME status'[<<o, a>>] # "none", NEW b \in 1..(a - 1)
      PROVE  status'[<<o, b>>] = "failed"
  <2>1. b \in Attempts /\ <<o, b>> \in RunIds
    BY <1>3, RunIdOf, RetryAssumption DEF Attempts
  <2>2. CASE status[<<o, a>>] # "none"
    BY <1>1, <1>3, <2>1, <2>2 DEF RetryChain
  <2>3. CASE status[<<o, a>>] = "none"
    <3>1. /\ a > 1
          /\ status[<<o, a - 1>>] \in Active /\ status'[<<o, a - 1>>] = "failed"
      <4>1. PICK q \in RunIds : q = <<o, a>> /\ q[1] = o /\ q[2] = a
        BY <1>3
      <4>2. a # 1
        BY <1>3
      <4>3. status[q] = "none" /\ status'[q] # status[q]
        BY <1>4, <2>3, <4>1
      <4>4. /\ q[2] > 1
            /\ status[<<q[1], q[2] - 1>>] \in Active
            /\ status'[<<q[1], q[2] - 1>>] = "failed"
        BY <4>1, <4>2, <4>3, LifecycleMoves DEF Queued, Active
      <4>5. QED
        BY <4>1, <4>4
    <3>2. CASE b = a - 1
      BY <3>1, <3>2
    <3>3. CASE b # a - 1
      <4>1. a - 1 \in Attempts /\ b \in 1..((a - 1) - 1)
        BY <1>3, <3>1, <3>3, RetryAssumption DEF Attempts
      <4>2. status[<<o, b>>] = "failed"
        BY <3>1, <4>1 DEF RetryChain, Active
      <4>3. QED
        BY <1>1, <2>1, <4>2
    <3>4. QED
      BY <3>2, <3>3
  <2>4. QED
    BY <2>2, <2>3
<1>5. ASSUME status'[<<o, a>>] = "failed"
      PROVE  a < MaxAttempts /\ status'[<<o, a + 1>>] # "none"
  <2>1. CASE status[<<o, a>>] = "failed"
    <3>1. a < MaxAttempts /\ status[<<o, a + 1>>] # "none"
      BY <2>1 DEF RetryChain
    <3>2. <<o, a + 1>> \in RunIds
      BY <1>3, <3>1, SuccessorId
    <3>3. QED
      BY <1>1, <3>1, <3>2
  <2>2. CASE status[<<o, a>>] # "failed"
    BY <1>3, <1>5, <2>2, LifecycleMoves
  <2>3. QED
    BY <2>1, <2>2
<1>6. QED
  BY <1>4, <1>5

-----------------------------------------------------------------------------
(* The dispatcher's list of runs to skip stays right.                      *)

\* A life cycle step other than a claim or a skip leaves queued runs alone.
LEMMA QueuedStays ==
  ASSUME TypeOK, TypeOK', LeaseIffActive, RetryChain, NEW q \in RunIds, status[q] \in Queued,
         \/ UNCHANGED status
         \/ \E o \in Occurrences, late \in Lateness : InsertRun(o, late)
         \/ \E r \in RunIds, st \in Terminal : lease[r] # 0 /\ FinishRunTx(r, st)
         \/ \E r \in RunIds : lease[r] # 0 /\ ReleaseRunTx(r)
         \/ \E r \in RunIds : lease[r] # 0 /\ status' = [status EXCEPT ![r] = "running"]
  PROVE  status'[q] = status[q]
<1>1. status[q] \notin Active /\ status[q] # "none"
  BY DEF Active, Queued
<1>2. lease[q] = 0
  BY <1>1 DEF LeaseIffActive
<1>3. QED
  BY <1>1, <1>2 DEF TypeOK, InsertRun, FinishRunTx, ReleaseRunTx

\* No step of the dispatcher or of others spoils the list of runs to skip.
LEMMA SkipsQueuedStep == Inv /\ TypeOK' /\ Next => SkipsQueued'
<1> SUFFICES ASSUME Inv, TypeOK', Next PROVE SkipsQueued'
  OBVIOUS
<1>0. /\ TypeOK /\ TickLocals /\ LeaseIffActive /\ RetryChain /\ SkipsQueued
      /\ \A q \in skips : q \in RunIds
  BY DEF Inv, TypeInv, LedgerInv, TypeOK
\* Enough for the steps of others: they keep the list and queued statuses, and
\* submit no occurrence that has a queued run.
<1>1. ASSUME UNCHANGED <<phase, skips>>,
             \A q \in skips : status'[q] = status[q] /\ jobs'[q[1]] = jobs[q[1]]
      PROVE  SkipsQueued'
  BY <1>0, <1>1 DEF SkipsQueued
<1>2. ASSUME NEW o \in Occurrences, NEW late \in Lateness, InsertRun(o, late)
      PROVE  SkipsQueued'
  <2>1. \A q \in skips : status'[q] = status[q]
    BY <1>0, <1>2, QueuedStays DEF SkipsQueued
  <2>2. QED
    BY <1>1, <1>2, <2>1 DEF InsertRun, tickVars
<1>3. ASSUME NEW o \in Occurrences, NEW st \in JobTerminal, ReconcileExternalJob(o, st)
      PROVE  SkipsQueued'
  <2>1. \A q \in skips : q[1] # o
    BY <1>0, <1>3 DEF SkipsQueued, ReconcileExternalJob
  <2>2. QED
    BY <1>0, <1>1, <1>3, <2>1 DEF ReconcileExternalJob, tickVars, TypeOK
<1>4. CASE AdvanceClock \/ (\E s \in Schedules, p \in Policies : EditPolicy(s, p))
  BY <1>1, <1>4 DEF AdvanceClock, EditPolicy, ledgerVars, tickVars
<1>5. CASE Restart \/ CandidateError
  BY <1>5 DEF Restart, CandidateError, SkipsQueued
<1>6. CASE Tick /\ phase \notin {"skip", "unlease"}
  <2>1. skips = {}
    BY <1>0, <1>6 DEF SkipsQueued
  <2>2. CASE EnforceQueuePolicy
    <3>1. \A q \in skips' : q \in Unsubmitted(ScheduleOf[cur[1]])
      BY <2>2 DEF EnforceQueuePolicy
    <3>2. status' = status /\ jobs' = jobs
      BY <2>2 DEF EnforceQueuePolicy, ledgerVars
    <3>3. phase' \notin {"skip", "unlease"} => skips' = {}
      BY <2>2 DEF EnforceQueuePolicy
    <3>4. QED
      BY <3>1, <3>2, <3>3 DEF SkipsQueued, Unsubmitted
  <2>3. CASE ~EnforceQueuePolicy
    <3>1. skips' = {}
      BY <1>6, <2>1, <2>3
      DEF Tick, TickBegin, RecoverClaimed, RecoverRunning, TickAbort, ListCandidateRuns,
          CancelRecovered, GetSchedule, PrepareScheduleForClaim, UnresolvedExternalJobCount,
          ListActiveRuns, CancelReplaced, CandidateError, SkipQueuedRun, ClearSkippedLease,
          ClaimRunWithToken, TickEnd
    <3>2. QED
      BY <3>1 DEF SkipsQueued
  <2>4. QED
    BY <2>2, <2>3
<1>7. ASSUME NEW r \in skips, SkipQueuedRun(r)
      PROVE  SkipsQueued'
  <2>1. \A q \in skips' : q \in skips /\ q # r /\ status'[q] = status[q] /\ jobs' = jobs
    BY <1>0, <1>7 DEF SkipQueuedRun, TypeOK
  <2>2. phase' = "unlease"
    BY <1>7 DEF SkipQueuedRun
  <2>3. QED
    BY <1>0, <2>1, <2>2 DEF SkipsQueued
<1>11. CASE ClearSkippedLease
  BY <1>0, <1>11 DEF ClearSkippedLease, SkipsQueued
<1>8. CASE Tick /\ phase \in {"skip", "unlease"}
  BY <1>5, <1>7, <1>8, <1>11
  DEF Tick, TickBegin, RecoverClaimed, RecoverRunning, TickAbort, ListCandidateRuns,
      CancelRecovered, GetSchedule, PrepareScheduleForClaim, UnresolvedExternalJobCount,
      ListActiveRuns, CancelReplaced, EnforceQueuePolicy, ClaimRunWithToken, TickEnd
<1>9. ASSUME NEW e \in execs, Execute(e)
      PROVE  SkipsQueued'
  <2>0. e.run \in RunIds /\ (OwnsLease(e) => lease[e.run] # 0)
    BY <1>0 DEF TypeOK, Execution, LeaseIffActive, OwnsLease
  <2>1. UNCHANGED <<phase, skips>>
    BY <1>9 DEF Execute, BeginExecution, MarkRunRunning, registerCancel, HeartbeatBegin, RenewLeaseWithToken,
       ContextEnds, CheckpointSubmission, CheckpointTerminal, ExecutorReturns,
       FinishExecution, AbandonExecution, tickVars
  <2>2. \A q \in skips : status'[q] = status[q]
    <3>1. CASE UNCHANGED status
      BY <3>1
    <3>2. CASE OwnsLease(e) /\ status' = [status EXCEPT ![e.run] = "running"]
      BY <1>0, <2>0, <3>2, QueuedStays DEF SkipsQueued
    <3>3. CASE OwnsLease(e) /\ ReleaseRunTx(e.run)
      BY <1>0, <2>0, <3>3, QueuedStays DEF SkipsQueued
    <3>4. ASSUME NEW outcome, OwnsLease(e), FinishRunTx(e.run, FinishStatus(e.run, outcome))
          PROVE  \A q \in skips : status'[q] = status[q]
      <4>1. FinishStatus(e.run, outcome) \in Terminal
        BY FinishStatusType DEF Terminal
      <4>2. QED
        BY <1>0, <2>0, <3>4, <4>1, QueuedStays DEF SkipsQueued
    <3>5. CASE FinishExecution(e)
      BY <3>1, <3>3, <3>4, <3>5 DEF FinishExecution, OwnsLiveLease, ledgerVars
    <3>6. CASE MarkRunRunning(e)
      BY <3>1, <3>2, <3>6 DEF MarkRunRunning, OwnsLiveLease
    <3>7. QED
      BY <1>9, <3>1, <3>5, <3>6
      DEF Execute, BeginExecution, registerCancel, HeartbeatBegin, RenewLeaseWithToken, ContextEnds,
          CheckpointSubmission, CheckpointTerminal, ExecutorReturns, AbandonExecution, ledgerVars
  <2>3. \A q \in skips : jobs'[q[1]] = jobs[q[1]]
    <3>1. CASE UNCHANGED jobs
      BY <3>1
    <3>2. CASE CheckpointSubmission(e) \/ \E st \in JobTerminal : CheckpointTerminal(e, st)
      <4>1. status[e.run] \in Active /\ jobs \in [Occurrences -> JobStatuses]
        BY <1>0, <3>2 DEF CheckpointSubmission, CheckpointTerminal, OwnsLiveLease, OwnsLease, TypeOK
      <4>2. \A q \in skips : q[1] # e.run[1]
        <5> SUFFICES ASSUME NEW q \in skips, q[1] = e.run[1] PROVE FALSE
          OBVIOUS
        <5>1. q \in RunIds /\ status[q] \in Queued
          BY <1>0 DEF SkipsQueued
        <5>2. q # e.run
          BY <4>1, <5>1 DEF Active, Queued
        <5>3. status[q] \in {"none", "failed"}
          BY <1>0, <2>0, <4>1, <5>1, <5>2, LiveAlone
        <5>4. QED
          BY <5>1, <5>3 DEF Queued
      <4>3. \A q \in skips : q[1] \in Occurrences
        BY <1>0, RunIdParts
      <4>4. CASE CheckpointSubmission(e)
        BY <4>1, <4>2, <4>3, <4>4 DEF CheckpointSubmission
      <4>5. ASSUME NEW st \in JobTerminal, CheckpointTerminal(e, st)
            PROVE  \A q \in skips : jobs'[q[1]] = jobs[q[1]]
        BY <4>1, <4>2, <4>3, <4>5 DEF CheckpointTerminal
      <4>6. QED
        BY <3>2, <4>4, <4>5
    <3>3. QED
      BY <1>9, <3>1, <3>2
      DEF Execute, BeginExecution, MarkRunRunning, registerCancel, HeartbeatBegin, RenewLeaseWithToken,
          ContextEnds, ExecutorReturns, FinishExecution, AbandonExecution, ReleaseRunTx,
          FinishRunTx, ledgerVars
  <2>4. QED
    BY <1>1, <2>1, <2>2, <2>3
<1>10. QED
  BY <1>2, <1>3, <1>4, <1>5, <1>6, <1>8, <1>9 DEF Next, Environment

\* A finished run stays finished and a recovered one unclaimed until the
\* dispatcher has gone on.
LEMMA CurSettledStep == Inv /\ TypeOK' /\ LStep /\ Next => CurSettled'
<1> SUFFICES ASSUME Inv, TypeOK', LStep, Next PROVE CurSettled'
  OBVIOUS
<1>0. TypeOK /\ TickLocals /\ LeaseIffActive /\ RetryChain /\ CurSettled
  BY DEF Inv, TypeInv, LedgerInv
<1>1. ASSUME UNCHANGED <<phase, cur>>,
             \A r \in RunIds : lease[r] = 0 => lease'[r] = 0
      PROVE  CurSettled'
  <2>1. CASE phase = "unlease"
    <3>1. cur \in RunIds /\ status[cur] = "skipped"
      BY <1>0, <2>1 DEF TickLocals, CurSettled
    <3>2. status'[cur] = status[cur]
      BY <1>0, <3>1, LifecycleMoves DEF Queued, Active
    <3>3. QED
      BY <1>1, <2>1, <3>1, <3>2 DEF CurSettled
  <2>2. CASE phase = "recovered"
    BY <1>0, <1>1, <2>2 DEF CurSettled, TickLocals
  <2>3. QED
    BY <1>1, <2>1, <2>2 DEF CurSettled
<1>2. CASE Environment
  <2>1. CASE Restart
    BY <2>1 DEF Restart, CurSettled
  <2>2. CASE ~Restart
    BY <1>1, <1>2, <2>2
    DEF Environment, AdvanceClock, InsertRun, EditPolicy, ReconcileExternalJob, ledgerVars, tickVars
  <2>3. QED
    BY <2>1, <2>2
<1>3. ASSUME NEW item \in expired, RecoverRunning(item)
      PROVE  CurSettled'
  <2>1. item[1] \in RunIds /\ lease \in [RunIds -> Nat]
    BY <1>0 DEF TypeOK
  <2>2. CASE phase' = "recovered" /\ cur' = item[1] /\ lease' = [lease EXCEPT ![item[1]] = 0]
    BY <2>1, <2>2 DEF CurSettled
  <2>3. CASE phase' = phase
    BY <1>3, <2>3 DEF RecoverRunning, CurSettled
  <2>4. QED
    BY <1>3, <2>2, <2>3 DEF RecoverRunning, ReleaseRunTx, FinishRunTx, DropLease
<1>4. ASSUME NEW q \in skips, SkipQueuedRun(q)
      PROVE  CurSettled'
  <2>1. q \in RunIds /\ status \in [RunIds -> Statuses]
    BY <1>0 DEF TypeOK
  <2>2. QED
    BY <1>4, <2>1 DEF SkipQueuedRun, CurSettled
<1>5. CASE Tick /\ ~(\E item \in expired : RecoverRunning(item))
           /\ ~(\E q \in skips : SkipQueuedRun(q))
  <2>1. phase' \notin {"unlease", "recovered"}
    BY <1>5
    DEF Tick, TickBegin, RecoverClaimed, CancelRecovered, TickAbort, ListCandidateRuns, GetSchedule,
        PrepareScheduleForClaim, UnresolvedExternalJobCount, ListActiveRuns, CancelReplaced,
        CandidateError, EnforceQueuePolicy, ClearSkippedLease, ClaimRunWithToken, TickEnd
  <2>2. QED
    BY <2>1 DEF CurSettled
<1>6. ASSUME NEW e \in execs, Execute(e)
      PROVE  CurSettled'
  <2>1. lease \in [RunIds -> Nat]
    BY <1>0 DEF TypeOK
  <2>2. /\ UNCHANGED <<phase, cur>>
        /\ lease' = lease \/ lease' = [lease EXCEPT ![e.run] = 0]
    BY <1>6 DEF Execute, BeginExecution, MarkRunRunning, registerCancel, HeartbeatBegin,
       RenewLeaseWithToken, ContextEnds, CheckpointSubmission, CheckpointTerminal,
       ExecutorReturns, FinishExecution, AbandonExecution, ReleaseRunTx, FinishRunTx, DropLease,
       ledgerVars, tickVars
  <2>3. QED
    BY <1>1, <2>1, <2>2
<1>7. QED
  BY <1>2, <1>3, <1>4, <1>5, <1>6 DEF Next

-----------------------------------------------------------------------------
(* The theorems.                                                           *)

\* Every step preserves the invariant and is a step of the life cycle.
LEMMA InvNext == Inv /\ [Next]_vars => Inv' /\ LStep
<1> SUFFICES ASSUME Inv, [Next]_vars PROVE Inv' /\ LStep
  OBVIOUS
<1>1. CASE Next
  <2>1. TypeInv'
    BY <1>1, EnvironmentType, TickType, ExecuteType DEF Next, Inv
  <2>2. LStep
    BY <1>1, EnvironmentIsLifecycle, TickIsLifecycle, ExecuteIsLifecycle DEF Next
  <2>3. LedgerInv'
    BY <2>1, <2>2, LifecycleKeepsLeases, LifecycleKeepsRetryChain, LifecycleKeepsDeadLetters
    DEF Inv, TypeInv, LedgerInv
  <2>4. SkipsQueued'
    BY <1>1, <2>1, SkipsQueuedStep DEF TypeInv
  <2>5. CurSettled'
    BY <1>1, <2>1, <2>2, CurSettledStep DEF TypeInv
  <2>6. QED
    BY <2>1, <2>2, <2>3, <2>4, <2>5 DEF Inv
<1>2. CASE UNCHANGED vars
  <2>1. Inv'
    BY <1>2 DEF vars, ledgerVars, tickVars, execVars, Inv, TypeInv, TypeOK, TickLocals,
       LedgerInv, LeaseIffActive, RetryChain, DeadLettersMatch, SkipsQueued, CurSettled
  <2>2. LStep
    BY <1>2, UnchangedIsStutter DEF vars, ledgerVars
  <2>3. QED
    BY <2>1, <2>2
<1>3. QED
  BY <1>1, <1>2

\* The inductive invariant holds throughout.
LEMMA InvAlways == Spec => []Inv
<1>1. Inv /\ [Next]_vars => Inv'
  BY InvNext
<1>2. QED
  BY InvInit, <1>1, PTL DEF Spec

\* A run is claimed or running exactly while worker_leases has its row, through
\* every claim, renewal, finish, requeue, recovery, skip and crash.
THEOREM LeaseIffActiveHolds == Spec => []LeaseIffActive
<1>1. Inv => LeaseIffActive
  BY DEF Inv, LedgerInv
<1>2. QED
  BY InvAlways, <1>1, PTL

\* Retries form a chain without gaps or forks: finishExternalRun commits a
\* failure with its successor, and nothing else creates an attempt.
THEOREM RetryChainHolds == Spec => []RetryChain
<1>1. Inv => RetryChain
  BY DEF Inv, LedgerInv
<1>2. QED
  BY InvAlways, <1>1, PTL

\* No two attempts of an occurrence are ever claimed or running together.
THEOREM OneActiveAttemptHolds == Spec => []OneActiveAttempt
BY InvAlways, OneActiveFromInv, PTL

\* dead_letters has a row for exactly the dead-lettered runs.
THEOREM DeadLettersMatchHolds == Spec => []DeadLettersMatch
<1>1. Inv => DeadLettersMatch
  BY DEF Inv, LedgerInv
<1>2. QED
  BY InvAlways, <1>1, PTL

\* The ledger implements the life cycle of runs.
THEOREM LedgerRefinesLifecycle == Spec => RefinesLifecycle
<1>1. Init => Lifecycle!Init
  BY DEF Init, Lifecycle!Init, Lifecycle!RunIds, RunIds, Attempts
<1>2. Inv /\ [Next]_vars => [Lifecycle!Next]_Lifecycle!vars
  BY InvNext DEF LStep
<1>3. QED
  BY InvAlways, <1>1, <1>2, PTL DEF Spec, RefinesLifecycle, Lifecycle!Spec

\* A recorded outcome is never rewritten: not by a late execution, recovery,
\* the unguarded update of FinishRun in coalescing, or a retry.
THEOREM TerminalStableHolds == Spec => TerminalStable
<1> DEFINE Stable == \A r \in RunIds : status[r] \in Terminal => status'[r] = status[r]
<1>1. Inv /\ Inv' /\ [Next]_vars => [Stable]_vars
  <2> SUFFICES ASSUME Inv, Inv', [Next]_vars, NEW r \in RunIds, status[r] \in Terminal,
                      status'[r] # status[r]
               PROVE  FALSE
    OBVIOUS
  <2>1. LStep /\ TypeOK /\ TypeOK' /\ LeaseIffActive /\ RetryChain
    BY InvNext DEF Inv, TypeInv, LedgerInv
  <2>2. QED
    BY <2>1, LifecycleMoves DEF Terminal, Queued, Active
<1>2. QED
  BY InvAlways, <1>1, PTL DEF Spec, TerminalStable

\* Only coalescing marks a run as skipped.
LEMMA SkippedBySkip ==
  ASSUME Inv, Next, NEW r \in RunIds, status'[r] = "skipped", status[r] # "skipped"
  PROVE  r \in skips /\ SkipQueuedRun(r)
<1>0. status \in [RunIds -> Statuses]
  BY DEF Inv, TypeInv, TypeOK
<1>1. ASSUME NEW q \in skips, SkipQueuedRun(q)
      PROVE  r = q
  BY <1>0, <1>1 DEF SkipQueuedRun
<1>2. ASSUME NEW q, NEW st, FinishRunTx(q, st), st # "skipped"
      PROVE  FALSE
  BY <1>0, <1>2 DEF FinishRunTx
<1>3. ASSUME NEW q, ReleaseRunTx(q)
      PROVE  FALSE
  BY <1>0, <1>3 DEF ReleaseRunTx
<1>4. ASSUME NEW q, NEW outcome
      PROVE  FinishStatus(q, outcome) # "skipped" /\ FailureStatus(q, outcome) # "skipped"
  BY FinishStatusType, FailureStatusType
<1>5. CASE Environment
  BY <1>0, <1>5
  DEF Environment, AdvanceClock, InsertRun, EditPolicy, Restart, ReconcileExternalJob, ledgerVars
<1>6. CASE Tick
  BY <1>0, <1>1, <1>2, <1>3, <1>4, <1>6
  DEF Tick, TickBegin, RecoverClaimed, RecoverRunning, TickAbort, ListCandidateRuns,
      CancelRecovered, GetSchedule, PrepareScheduleForClaim, UnresolvedExternalJobCount,
         ListActiveRuns, CancelReplaced, ClearSkippedLease, CandidateError, EnforceQueuePolicy,
      ClaimRunWithToken, TickEnd, ledgerVars
<1>7. ASSUME NEW e \in execs, Execute(e)
      PROVE  FALSE
  BY <1>0, <1>2, <1>3, <1>4, <1>7
  DEF Execute, BeginExecution, MarkRunRunning, registerCancel, HeartbeatBegin, RenewLeaseWithToken,
      ContextEnds, CheckpointSubmission, CheckpointTerminal, ExecutorReturns,
      FinishExecution, AbandonExecution, ledgerVars
<1>8. QED
  BY <1>5, <1>6, <1>7 DEF Next

\* Coalescing skips only queued runs of occurrences without a remote job.
THEOREM SkipsOnlyUnsubmittedHolds == Spec => SkipsOnlyUnsubmitted
<1> DEFINE Safe == \A r \in RunIds : status'[r] = "skipped" /\ status[r] # "skipped"
                      => jobs[r[1]] = "none" /\ status[r] \in Queued
<1>1. Inv /\ [Next]_vars => [Safe]_vars
  BY SkippedBySkip DEF Inv, SkipsQueued
<1>2. QED
  BY InvAlways, <1>1, PTL DEF Spec, SkipsOnlyUnsubmitted

-----------------------------------------------------------------------------
(* Capacity.                                                               *)

\* The occurrence is active here or unresolved at its runner.
Holds(o) == jobs[o] = "open" \/ \E r \in RunsOf(o) : status[r] \in Active

\* A schedule occupies finitely many occurrences.
LEMMA OccupiedFinite ==
  ASSUME NEW s
  PROVE  IsFiniteSet(Occupied(s)) /\ IsFiniteSet(Occupied(s)')
<1>1. Occupied(s) \subseteq Occurrences /\ Occupied(s)' \subseteq Occurrences
  BY DEF Occupied
<1>2. QED
  BY <1>1, ScheduleAssumption, FS_Subset

\* A step after which no further occurrence holds capacity is harmless.
LEMMA CapacityStays ==
  ASSUME WithinCapacity, \A o \in Occurrences : Holds(o)' => Holds(o)
  PROVE  WithinCapacity'
<1> SUFFICES ASSUME NEW s \in Schedules, Occupied(s)' # {}
             PROVE  \E p \in Policies : Cardinality(Occupied(s)') <= Capacity(p)
  BY DEF WithinCapacity
<1>1. Occupied(s)' \subseteq Occupied(s)
  BY DEF Occupied, Holds
<1>2. /\ Cardinality(Occupied(s)') <= Cardinality(Occupied(s))
      /\ Cardinality(Occupied(s)') \in Nat /\ Cardinality(Occupied(s)) \in Nat
  BY <1>1, OccupiedFinite, FS_Subset, FS_CardinalityType
<1>3. PICK p \in Policies : Cardinality(Occupied(s)) <= Capacity(p)
  BY <1>1 DEF WithinCapacity
<1>4. Capacity(p) \in Nat
  BY PolicyAssumption DEF Capacity
<1>5. QED
  BY <1>2, <1>3, <1>4

\* A claim adds one occurrence to those the transaction counted.
LEMMA ClaimWithinCapacity ==
  ASSUME Inv, WithinCapacity, ClaimRunWithToken
  PROVE  WithinCapacity'
<1>0. /\ TypeOK /\ cur \in RunIds /\ seen \in Policies
      /\ cur[1] \in Occurrences
  BY RunIdParts DEF Inv, TypeInv, TickLocals, ClaimRunWithToken
<1>1. CASE ~Claimable(cur, seen)
  BY <1>1, CapacityStays DEF ClaimRunWithToken, Holds
<1>2. CASE Claimable(cur, seen)
  <2> DEFINE n == Cardinality(OtherActive(cur[1]))
             c == cur[1]
  <2>1. status' = [status EXCEPT ![cur] = "claimed"] /\ jobs' = jobs
    BY <1>2 DEF ClaimRunWithToken
  <2>2. \A o \in Occurrences : o # c /\ Holds(o)' => Holds(o)
    BY <1>0, <2>1 DEF Holds, RunsOf, TypeOK
  <2> SUFFICES ASSUME NEW s \in Schedules, Occupied(s)' # {}
               PROVE  \E p \in Policies : Cardinality(Occupied(s)') <= Capacity(p)
    BY DEF WithinCapacity
  <2>3. CASE s # ScheduleOf[c]
    <3>1. Occupied(s)' \subseteq Occupied(s)
      BY <2>2, <2>3 DEF Occupied, Holds
    <3>2. /\ Cardinality(Occupied(s)') <= Cardinality(Occupied(s))
          /\ Cardinality(Occupied(s)') \in Nat /\ Cardinality(Occupied(s)) \in Nat
      BY <3>1, OccupiedFinite, FS_Subset, FS_CardinalityType
    <3>3. PICK p \in Policies : Cardinality(Occupied(s)) <= Capacity(p)
      BY <3>1 DEF WithinCapacity
    <3>4. Capacity(p) \in Nat
      BY PolicyAssumption DEF Capacity
    <3>5. QED
      BY <3>2, <3>3, <3>4
  <2>4. CASE s = ScheduleOf[c]
    <3>1. OtherActive(c) \subseteq Occurrences /\ c \notin OtherActive(c)
      BY DEF OtherActive
    <3>2. IsFiniteSet(OtherActive(c)) /\ n \in Nat
      BY <3>1, ScheduleAssumption, FS_Subset, FS_CardinalityType
    <3>3. IsFiniteSet(OtherActive(c) \cup {c}) /\ Cardinality(OtherActive(c) \cup {c}) = n + 1
      BY <3>1, <3>2, FS_AddElement
    <3>4. Occupied(s)' \subseteq OtherActive(c) \cup {c}
      BY <2>2, <2>4 DEF Occupied, OtherActive, Holds
    <3>5. Cardinality(Occupied(s)') <= n + 1 /\ Cardinality(Occupied(s)') \in Nat
      BY <3>3, <3>4, FS_Subset, FS_CardinalityType
    <3>6. seen.max \in Nat /\ n < seen.max /\ (n > 0 => seen.overlap = "allow")
      BY <1>0, <1>2, PolicyAssumption DEF Claimable
    <3>7. n + 1 <= Capacity(seen) /\ Capacity(seen) \in Nat
      BY <3>2, <3>6 DEF Capacity
    <3>8. Cardinality(Occupied(s)') <= Capacity(seen)
      BY <3>2, <3>5, <3>7
    <3>9. PICK p \in Policies : p = seen
      BY <1>0
    <3>10. QED
      BY <3>8, <3>9
  <2>5. QED
    BY <2>3, <2>4
<1>3. QED
  BY <1>1, <1>2

\* Only a claim adds to the occurrences that hold capacity.
LEMMA CapacityNext == Inv /\ WithinCapacity /\ [Next]_vars => WithinCapacity'
<1> SUFFICES ASSUME Inv, WithinCapacity, [Next]_vars PROVE WithinCapacity'
  OBVIOUS
<1>0. TypeOK /\ LeaseIffActive /\ SkipsQueued
  BY DEF Inv, TypeInv, LedgerInv
\* It is enough that no run becomes active and no further job opens.
<1>1. ASSUME \A r \in RunIds : status'[r] \in Active => status[r] \in Active,
             \A o \in Occurrences : jobs'[o] = "open" => Holds(o)
      PROVE  WithinCapacity'
  <2>1. \A o \in Occurrences : Holds(o)' => Holds(o)
    BY <1>1, RunIdOf DEF Holds, RunsOf
  <2>2. QED
    BY <2>1, CapacityStays
<1>2. ASSUME UNCHANGED <<status, jobs>> PROVE WithinCapacity'
  BY <1>1, <1>2 DEF Holds
<1>3. ASSUME NEW r \in RunIds, NEW st \in Terminal, FinishRunTx(r, st)
      PROVE  WithinCapacity'
  BY <1>0, <1>1, <1>3 DEF FinishRunTx, Holds, Active, Terminal, TypeOK
<1>4. ASSUME NEW r \in RunIds, ReleaseRunTx(r)
      PROVE  WithinCapacity'
  BY <1>0, <1>1, <1>4 DEF ReleaseRunTx, Holds, Active, TypeOK
<1>5. CASE Environment
  <2>1. ASSUME NEW o \in Occurrences, NEW late \in Lateness, InsertRun(o, late)
        PROVE  WithinCapacity'
    BY <1>0, <1>1, <2>1 DEF InsertRun, Holds, Active, TypeOK
  <2>2. ASSUME NEW o \in Occurrences, NEW st \in JobTerminal, ReconcileExternalJob(o, st)
        PROVE  WithinCapacity'
    BY <1>0, <1>1, <2>2 DEF ReconcileExternalJob, Holds, JobTerminal, TypeOK
  <2>3. QED
    BY <1>2, <1>5, <2>1, <2>2 DEF Environment, AdvanceClock, EditPolicy, Restart, ledgerVars
<1>6. CASE Tick
  <2>1. ASSUME NEW item \in expired, RecoverClaimed(item) \/ RecoverRunning(item)
        PROVE  WithinCapacity'
    <3>1. item[1] \in RunIds /\ FailureStatus(item[1], "error") \in Terminal
      BY <1>0, FailureStatusType DEF TypeOK, Terminal
    <3>2. QED
      BY <1>2, <1>3, <1>4, <2>1, <3>1 DEF RecoverClaimed, RecoverRunning, ledgerVars
  <2>2. ASSUME NEW q \in skips, SkipQueuedRun(q)
        PROVE  WithinCapacity'
    BY <1>0, <1>1, <2>2 DEF SkipQueuedRun, Holds, Active, TypeOK
  <2>3. QED
    BY <1>2, <1>6, <2>1, <2>2, ClaimWithinCapacity
    DEF Tick, TickBegin, TickAbort, ListCandidateRuns, CancelRecovered, GetSchedule,
        PrepareScheduleForClaim, UnresolvedExternalJobCount, ListActiveRuns, CancelReplaced,
        ClearSkippedLease, CandidateError, EnforceQueuePolicy, TickEnd, ledgerVars
<1>7. ASSUME NEW e \in execs, Execute(e)
      PROVE  WithinCapacity'
  <2>0. e.run \in RunIds /\ e.run[1] \in Occurrences /\ e.run \in RunsOf(e.run[1])
    <3>1. e.run \in RunIds
      BY <1>0 DEF TypeOK, Execution
    <3>2. QED
      BY <3>1, RunIdParts DEF RunsOf
  <2>1. CASE MarkRunRunning(e)
    BY <1>0, <1>1, <2>0, <2>1 DEF MarkRunRunning, OwnsLiveLease, OwnsLease, Holds, TypeOK
  <2>2. CASE CheckpointSubmission(e)
    BY <1>0, <1>1, <2>0, <2>2 DEF CheckpointSubmission, OwnsLiveLease, OwnsLease, Holds, TypeOK
  <2>3. ASSUME NEW st \in JobTerminal, CheckpointTerminal(e, st)
        PROVE  WithinCapacity'
    BY <1>0, <1>1, <2>3 DEF CheckpointTerminal, Holds, JobTerminal, TypeOK
  <2>4. CASE FinishExecution(e)
    <3>1. ASSUME NEW outcome PROVE FinishStatus(e.run, outcome) \in Terminal
      BY FinishStatusType DEF Terminal
    <3>2. QED
      BY <1>2, <1>3, <1>4, <2>0, <2>4, <3>1 DEF FinishExecution, ledgerVars
  <2>5. QED
    BY <1>2, <1>7, <2>1, <2>2, <2>3, <2>4
    DEF Execute, BeginExecution, registerCancel, HeartbeatBegin, RenewLeaseWithToken, ContextEnds,
        ExecutorReturns, AbandonExecution, ledgerVars
<1>8. QED
  BY <1>2, <1>5, <1>6, <1>7 DEF Next, vars, ledgerVars

\* The occurrences of a schedule that are active here or unresolved at their
\* runner never exceed the capacity of its policy (of one of those it has had,
\* when the operator edits it), across claims, retries, recovery and crashes.
THEOREM WithinCapacityHolds == Spec => []WithinCapacity
<1>1. Init => WithinCapacity
  <2> SUFFICES ASSUME Init, NEW s \in Schedules PROVE Occupied(s) = {}
    BY DEF WithinCapacity
  <2>1. QED
    BY RunIdOf DEF Init, Occupied, RunsOf, Active
<1>2. QED
  BY InvAlways, CapacityNext, <1>1, PTL DEF Spec

-----------------------------------------------------------------------------
(* Fencing.                                                                *)

\* The time Tick read is never ahead of the clock.
TickClock == tickNow <= now

\* The clock does not run backwards under the time Tick read.
LEMMA TickClockAlways == Spec => []TickClock
<1>1. Init => TickClock
  BY DEF Init, TickClock
<1>2. TypeInv /\ TickClock /\ [Next]_vars => TickClock'
  <2> SUFFICES ASSUME TypeInv, TickClock, [Next]_vars PROVE TickClock'
    OBVIOUS
  <2>1. now \in Nat /\ tickNow \in Nat
    BY DEF TypeInv, TypeOK
  <2>2. /\ tickNow' = tickNow \/ tickNow' = 0 \/ tickNow' = now
        /\ now' = now \/ (now' = now + 1 /\ tickNow' = tickNow)
    <3>1. CASE Environment
      BY <3>1 DEF Environment, AdvanceClock, InsertRun, EditPolicy, Restart,
         ReconcileExternalJob, tickVars
    <3>2. CASE Tick
      BY <3>2 DEF Tick, TickBegin, RecoverClaimed, RecoverRunning, TickAbort, ListCandidateRuns,
         CancelRecovered, GetSchedule, PrepareScheduleForClaim, UnresolvedExternalJobCount,
         ListActiveRuns, CancelReplaced, ClearSkippedLease, CandidateError, EnforceQueuePolicy,
         SkipQueuedRun, ClaimRunWithToken, TickEnd
    <3>3. ASSUME NEW e \in execs, Execute(e)
          PROVE  UNCHANGED <<now, tickNow>>
      BY <3>3 DEF Execute, BeginExecution, MarkRunRunning, registerCancel, HeartbeatBegin, RenewLeaseWithToken,
         ContextEnds, CheckpointSubmission, CheckpointTerminal, ExecutorReturns,
         FinishExecution, AbandonExecution, tickVars
    <3>4. QED
      BY <3>1, <3>2, <3>3 DEF Next, vars, tickVars
  <2>3. QED
    BY <2>1, <2>2 DEF TickClock
<1>3. Inv => TypeInv
  BY DEF Inv
<1>4. QED
  BY InvAlways, <1>1, <1>2, <1>3, PTL DEF Spec

\* Recovery decides from a snapshot, but writes only after it has rechecked the
\* expiry: no step of the dispatcher takes a run from an unexpired lease.
THEOREM RecoveryRespectsRenewalHolds == Spec => RecoveryRespectsRenewal
<1> DEFINE Kept(r) == lease'[r] = lease[r] /\ status'[r] = status[r]
           Respects == \A r \in RunIds :
             lease[r] # 0 /\ expires[r] > now /\ tickVars' # tickVars => Kept(r)
<1>1. Inv /\ TickClock /\ [Next]_vars => [Respects]_vars
  <2> SUFFICES ASSUME Inv, TickClock, [Next]_vars, NEW r \in RunIds,
                      lease[r] # 0, expires[r] > now, tickVars' # tickVars
               PROVE  Kept(r)
    OBVIOUS
  <2>0. /\ TypeOK /\ TickLocals /\ LeaseIffActive /\ SkipsQueued
        /\ status[r] \in Active /\ status[r] # "none"
        /\ now \in Nat /\ tickNow \in Nat /\ expires[r] \in Nat /\ tickNow <= now
    BY DEF Inv, TypeInv, TypeOK, LedgerInv, LeaseIffActive, Active, TickClock
  <2>1. ASSUME NEW q \in RunIds, NEW st, q # r, ReleaseRunTx(q) \/ FinishRunTx(q, st)
        PROVE  Kept(r)
    BY <2>0, <2>1 DEF ReleaseRunTx, FinishRunTx, DropLease, TypeOK
  <2>2. ASSUME NEW q, NEW st, NEW at \in {tickNow, now}, LeaseExpiredIn(q, st, at)
        PROVE  q # r
    BY <2>0, <2>2 DEF LeaseExpiredIn
  <2>3. ASSUME NEW item \in expired, RecoverClaimed(item) \/ RecoverRunning(item)
        PROVE  Kept(r)
    <3>1. item[1] \in RunIds
      BY <2>0 DEF TypeOK
    <3>2. CASE UNCHANGED ledgerVars
      BY <3>2 DEF ledgerVars
    <3>3. QED
      BY <2>1, <2>2, <2>3, <3>1, <3>2 DEF RecoverClaimed, RecoverRunning
  <2>4. ASSUME NEW q \in skips, SkipQueuedRun(q)
        PROVE  Kept(r)
    <3>1. q \in RunIds /\ q # r
      BY <2>0 DEF TypeOK, SkipsQueued, Active, Queued
    <3>2. QED
      BY <2>0, <2>4, <3>1 DEF SkipQueuedRun, TypeOK
  <2>10. CASE ClearSkippedLease
    <3>1. cur \in RunIds /\ status[cur] = "skipped" /\ cur # r
      BY <2>0, <2>10 DEF ClearSkippedLease, TickLocals, Inv, CurSettled, Active
    <3>2. QED
      BY <2>0, <2>10, <3>1 DEF ClearSkippedLease, DropLease, TypeOK
  <2>5. CASE ClaimRunWithToken
    <3>1. cur \in RunIds
      BY <2>0, <2>5 DEF ClaimRunWithToken, TickLocals
    <3>2. CASE cur = r
      <4>1. ~Claimable(cur, seen)
        BY <2>0, <3>2 DEF Claimable, Active, Queued
      <4>2. QED
        BY <2>5, <4>1 DEF ClaimRunWithToken
    <3>3. CASE cur # r
      BY <2>0, <2>5, <3>1, <3>3 DEF ClaimRunWithToken, TypeOK
    <3>4. QED
      BY <3>2, <3>3
  <2>6. CASE Tick
    BY <2>3, <2>4, <2>5, <2>6, <2>10
    DEF Tick, TickBegin, TickAbort, ListCandidateRuns, CancelRecovered, GetSchedule,
        PrepareScheduleForClaim, UnresolvedExternalJobCount, ListActiveRuns, CancelReplaced,
        CandidateError, EnforceQueuePolicy, TickEnd, ledgerVars
  <2>7. CASE Environment
    BY <2>7 DEF Environment, AdvanceClock, InsertRun, EditPolicy, Restart,
       ReconcileExternalJob, ledgerVars, tickVars
  <2>8. ASSUME NEW e \in execs, Execute(e)
        PROVE  tickVars' = tickVars
    BY <2>8 DEF Execute, BeginExecution, MarkRunRunning, registerCancel, HeartbeatBegin, RenewLeaseWithToken,
       ContextEnds, CheckpointSubmission, CheckpointTerminal, ExecutorReturns,
       FinishExecution, AbandonExecution, tickVars
  <2>9. QED
    BY <2>6, <2>7, <2>8 DEF Next, vars, tickVars
<1>2. QED
  BY InvAlways, TickClockAlways, <1>1, PTL DEF Spec, RecoveryRespectsRenewal

\* Tokens fence: the write with which an execution starts or ends changes its
\* row only under the claim it was started for.
THEOREM OnlyOwnerWritesHolds == Spec => OnlyOwnerWrites
<1> DEFINE Fenced == \A e \in execs :
             e \notin execs' /\ status'[e.run] # status[e.run] /\ tickVars' = tickVars
             => lease[e.run] = e.claim
<1>1. Inv /\ [Next]_vars => [Fenced]_vars
  <2> SUFFICES ASSUME Inv, [Next]_vars, NEW e \in execs, e \notin execs',
                      status'[e.run] # status[e.run], tickVars' = tickVars
               PROVE  lease[e.run] = e.claim
    OBVIOUS
  <2>1. CASE Environment
    BY <2>1 DEF Environment, AdvanceClock, InsertRun, EditPolicy, Restart,
       ReconcileExternalJob, ledgerVars, execVars
  <2>2. CASE Tick
    BY <2>2 DEF Tick, TickBegin, RecoverClaimed, RecoverRunning, TickAbort, ListCandidateRuns,
         CancelRecovered, GetSchedule, PrepareScheduleForClaim, UnresolvedExternalJobCount,
         ListActiveRuns, CancelReplaced, ClearSkippedLease, CandidateError, EnforceQueuePolicy,
         SkipQueuedRun, ClaimRunWithToken, TickEnd, tickVars, ledgerVars, execVars
  <2>3. ASSUME NEW f \in execs, Execute(f)
        PROVE  lease[e.run] = e.claim
    <3>1. f = e
      BY <2>3 DEF Execute, BeginExecution, MarkRunRunning, registerCancel, HeartbeatBegin, RenewLeaseWithToken,
         ContextEnds, CheckpointSubmission, CheckpointTerminal, ExecutorReturns,
         FinishExecution, AbandonExecution, SetExec, EndExec, execVars
    <3>2. MarkRunRunning(e) \/ FinishExecution(e)
      BY <2>3, <3>1 DEF Execute, BeginExecution, registerCancel, HeartbeatBegin, RenewLeaseWithToken,
         ContextEnds, CheckpointSubmission, CheckpointTerminal, ExecutorReturns,
         AbandonExecution, ledgerVars
    <3>3. OwnsLease(e)
      BY <3>2 DEF MarkRunRunning, FinishExecution, OwnsLiveLease, ledgerVars
    <3>4. QED
      BY <3>3 DEF OwnsLease
  <2>4. QED
    BY <2>1, <2>2, <2>3 DEF Next, vars, ledgerVars
<1>2. QED
  BY InvAlways, <1>1, PTL DEF Spec, OnlyOwnerWrites

\* Between the commit of a recovery and its cancelRun the run has no owner, so
\* the cancellation never stops an execution that holds its claim.
THEOREM RecoverySparesOwnerHolds == Spec => RecoverySparesOwner
<1> DEFINE Spares == phase = "recovered" /\ phase' = "recover"
                     => \A e \in execs : OwnsLease(e) => e \in execs'
<1>1. Inv /\ [Next]_vars => [Spares]_vars
  <2> SUFFICES ASSUME Inv, [Next]_vars, phase = "recovered", phase' = "recover",
                      NEW e \in execs, OwnsLease(e)
               PROVE  e \in execs'
    OBVIOUS
  <2>1. CASE Environment
    BY <2>1 DEF Environment, AdvanceClock, InsertRun, EditPolicy, Restart,
       ReconcileExternalJob, execVars
  <2>2. CASE Tick
    <3>1. CancelRecovered
      BY <2>2 DEF Tick, TickBegin, RecoverClaimed, RecoverRunning, TickAbort, ListCandidateRuns,
         GetSchedule, PrepareScheduleForClaim, UnresolvedExternalJobCount, ListActiveRuns,
         CancelReplaced, CandidateError, EnforceQueuePolicy, SkipQueuedRun, ClearSkippedLease,
         ClaimRunWithToken, TickEnd
    <3>2. cur \in RunIds /\ lease[cur] = 0 /\ LeaseIffActive
      BY DEF Inv, TypeInv, TickLocals, CurSettled, LedgerInv
    <3>3. e.run # cur
      BY <3>2 DEF OwnsLease, LeaseIffActive
    <3>4. QED
      BY <3>1, <3>3 DEF CancelRecovered, cancelRun
  <2>3. ASSUME NEW f \in execs, Execute(f)
        PROVE  FALSE
    BY <2>3 DEF Execute, BeginExecution, MarkRunRunning, registerCancel, HeartbeatBegin,
       RenewLeaseWithToken, ContextEnds, CheckpointSubmission, CheckpointTerminal,
       ExecutorReturns, FinishExecution, AbandonExecution, tickVars
  <2>4. QED
    BY <2>1, <2>2, <2>3 DEF Next, vars, tickVars
<1>2. QED
  BY InvAlways, <1>1, PTL DEF Spec, RecoverySparesOwner

=============================================================================
