------------------------- MODULE RunExecutionProofs -------------------------
(***************************************************************************)
(* More proofs about RunLedger: that the clean-up of an execution leaves   *)
(* the registrations of others alone, that a run succeeds only with its    *)
(* remote job, and that coalescing keeps a successor.                      *)
(***************************************************************************)
EXTENDS RunLedgerProofs

-----------------------------------------------------------------------------
(* Claims and executions.                                                  *)

\* Every execution has a claim of its own, and a lease belongs to a claim that
\* was made.
ClaimsApart ==
  /\ \A r \in RunIds : lease[r] <= claims[r]
  /\ \A e \in execs : 1 <= e.claim /\ e.claim <= claims[e.run]
  /\ \A e, f \in execs : e.run = f.run /\ e.claim = f.claim => e = f

\* What the owner of a run knows of its remote job: an execution that does not
\* track it has none, and one that returned a success has a job that succeeded.
KnowsJob(e) ==
  /\ e.pc # "spawned" /\ ~e.external => jobs[e.run[1]] = "none"
  /\ e.pc = "returned" /\ e.outcome = "ok" => jobs[e.run[1]] \in {"none", "succeeded"}

JobInv ==
  /\ SuccessMeansJobSucceeded
  /\ \A e \in execs : OwnsLease(e) => KnowsJob(e)

\* While runs are skipped, one that is due no earlier stays queued.
KeptRun(k) ==
  /\ k \notin skips /\ status[k] \in Queued /\ jobs[k[1]] = "none"
  /\ \A q \in skips : ScheduleOf[q[1]] = ScheduleOf[k[1]] /\ due[q] <= due[k]

SuccessorKept == phase \in {"skip", "unlease"} => \E k \in RunIds : KeptRun(k)
-----------------------------------------------------------------------------
(* The steps of the ledger as the executions see them.                     *)

\* No claim is made, and no run becomes active or succeeds.
LedgerLoses ==
  /\ claims' = claims
  /\ \A r \in RunIds : lease'[r] \in {lease[r], 0}
  /\ \A r \in RunIds : status'[r] \in Active => status[r] \in Active

\* The transactions on a leased run, and those that touch no lease.
LEMMA TxLoses ==
  ASSUME TypeOK, NEW r \in RunIds, NEW st \in Terminal,
         \/ UNCHANGED ledgerVars
         \/ ReleaseRunTx(r)
         \/ FinishRunTx(r, st)
  PROVE  LedgerLoses /\ jobs' = jobs
<1>1. CASE UNCHANGED ledgerVars
  BY <1>1 DEF ledgerVars, LedgerLoses, TypeOK
<1>2. CASE ReleaseRunTx(r)
  BY <1>2 DEF ReleaseRunTx, DropLease, LedgerLoses, TypeOK, Active
<1>3. CASE FinishRunTx(r, st)
  <2>1. \A q \in RunIds : status'[q] \in Active => status[q] \in Active
    BY <1>3 DEF FinishRunTx, Active, Terminal
  <2>2. \A q \in RunIds : lease'[q] \in {lease[q], 0}
    BY <1>3 DEF FinishRunTx, DropLease, TypeOK
  <2>3. QED
    BY <1>3, <2>1, <2>2 DEF FinishRunTx, LedgerLoses
<1>4. QED
  BY <1>1, <1>2, <1>3

\* Executions are neither started nor mixed up.
LEMMA ExecFrame ==
  ASSUME TypeOK, ClaimsApart, LedgerLoses, NEW h,
         \A f \in execs' : \E e \in execs : f = h[e],
         \A e \in execs : h[e].run = e.run /\ h[e].claim = e.claim
  PROVE  ClaimsApart'
<1>1. \A r \in RunIds : lease'[r] <= claims'[r]
  BY DEF ClaimsApart, LedgerLoses, TypeOK
<1>2. \A f \in execs' : 1 <= f.claim /\ f.claim <= claims'[f.run]
  BY DEF ClaimsApart, LedgerLoses
<1>3. \A f, g \in execs' : f.run = g.run /\ f.claim = g.claim => f = g
  BY DEF ClaimsApart
<1>4. QED
  BY <1>1, <1>2, <1>3 DEF ClaimsApart

\* Executions end, or the ledger changes under them.
LEMMA ExecsKept ==
  ASSUME TypeOK, ClaimsApart, LedgerLoses, execs' \subseteq execs
  PROVE  ClaimsApart'
<1>1. PICK h : h = [e \in execs |-> e]
  OBVIOUS
<1>2. QED
  BY <1>1, ExecFrame

\* The dispatcher cancels executions.
LEMMA ExecsCancelled ==
  ASSUME TypeOK, ClaimsApart, LedgerLoses, NEW r, cancelRun(r)
  PROVE  ClaimsApart'
<1>1. PICK h : h = [e \in execs |-> IF e.run = r /\ active[r] = e.claim
                                      /\ e.pc = "executing" /\ e.ctx = "live"
                                   THEN [e EXCEPT !.ctx = "canceled"] ELSE e]
  OBVIOUS
<1>2. \A f \in execs' : \E e \in execs : f = h[e]
  BY <1>1 DEF cancelRun
<1>3. ASSUME NEW e \in execs
      PROVE  h[e].run = e.run /\ h[e].claim = e.claim
  <2>1. e \in Execution
    BY DEF TypeOK
  <2>2. /\ [e EXCEPT !.ctx = "canceled"].run = e.run
        /\ [e EXCEPT !.ctx = "canceled"].claim = e.claim
    BY <2>1 DEF Execution
  <2>3. h[e] = e \/ h[e] = [e EXCEPT !.ctx = "canceled"]
    BY <1>1
  <2>4. QED
    BY <2>2, <2>3
<1>4. QED
  BY <1>2, <1>3, ExecFrame

\* One execution moves on.
LEMMA ExecMoves ==
  ASSUME TypeOK, ClaimsApart, LedgerLoses, NEW e \in execs, NEW f, SetExec(e, f),
         f.run = e.run, f.claim = e.claim
  PROVE  ClaimsApart'
<1>1. PICK h : h = [g \in execs |-> IF g = e THEN f ELSE g]
  OBVIOUS
<1>2. \A g \in execs' : \E d \in execs : g = h[d]
  BY <1>1 DEF SetExec
<1>3. QED
  BY <1>1, <1>2, ExecFrame

NoNewSuccess == \A r \in RunIds : status'[r] = "succeeded" => status[r] = "succeeded"

\* A step that starts no execution, moves none on, and touches no remote job.
Quiet ==
  /\ LedgerLoses /\ jobs' = jobs /\ NoNewSuccess
  /\ \/ execs' \subseteq execs
     \/ \E r : cancelRun(r)
     \/ \E e \in execs : \E f :
          /\ SetExec(e, f)
          /\ f.run = e.run /\ f.claim = e.claim /\ f.pc = e.pc
          /\ f.external = e.external /\ f.outcome = e.outcome

\* Time, inserts, edits and restarts are quiet.
LEMMA EnvironmentKinds ==
  ASSUME Inv, Environment
  PROVE  \/ Quiet
         \/ \E o \in Occurrences, st \in JobTerminal : ReconcileExternalJob(o, st)
<1>0. TypeOK
  BY DEF Inv, TypeInv
<1>1. CASE \E o \in Occurrences, late \in Lateness : InsertRun(o, late)
  BY <1>0, <1>1 DEF InsertRun, Quiet, LedgerLoses, NoNewSuccess, execVars, TypeOK, Active
<1>2. CASE AdvanceClock \/ (\E s \in Schedules, p \in Policies : EditPolicy(s, p))
  BY <1>0, <1>2 DEF AdvanceClock, EditPolicy, Quiet, LedgerLoses, NoNewSuccess, ledgerVars, execVars, TypeOK
<1>3. CASE Restart
  BY <1>0, <1>3 DEF Restart, Quiet, LedgerLoses, NoNewSuccess, ledgerVars, TypeOK
<1>4. QED
  BY <1>1, <1>2, <1>3 DEF Environment

\* All the dispatcher does but a claim is quiet.
LEMMA TickKinds ==
  ASSUME Inv, Tick
  PROVE  Quiet \/ ClaimRunWithToken
<1>0. TypeOK /\ SkipsQueued
  BY DEF Inv, TypeInv
<1>1. UNCHANGED ledgerVars => LedgerLoses /\ jobs' = jobs /\ NoNewSuccess
  BY <1>0 DEF ledgerVars, LedgerLoses, NoNewSuccess, TypeOK
<1>2. ASSUME NEW r \in RunIds, ReleaseRunTx(r) \/ FinishRunTx(r, FailureStatus(r, "error"))
      PROVE  LedgerLoses /\ jobs' = jobs /\ NoNewSuccess
  <2>1. PICK st \in Terminal : st = FailureStatus(r, "error") /\ st # "succeeded"
    BY FailureStatusType DEF Terminal
  <2>2. LedgerLoses /\ jobs' = jobs
    BY <1>0, <1>2, <2>1, TxLoses
  <2>3. NoNewSuccess
    BY <1>0, <1>2, <2>1 DEF NoNewSuccess, ReleaseRunTx, FinishRunTx, TypeOK
  <2>4. QED
    BY <2>2, <2>3
<1>3. ASSUME NEW item \in expired, RecoverClaimed(item)
      PROVE  Quiet
  <2>1. item[1] \in RunIds /\ UNCHANGED <<execs, active>>
    BY <1>0, <1>3 DEF TypeOK, RecoverClaimed, execVars
  <2>2. LedgerLoses /\ jobs' = jobs /\ NoNewSuccess
    BY <1>1, <1>2, <1>3, <2>1 DEF RecoverClaimed
  <2>3. QED
    BY <2>1, <2>2 DEF Quiet
<1>4. ASSUME NEW item \in expired, RecoverRunning(item)
      PROVE  Quiet
  <2>1. item[1] \in RunIds /\ UNCHANGED <<execs, active>>
    BY <1>0, <1>4 DEF TypeOK, RecoverRunning, execVars
  <2>2. LedgerLoses /\ jobs' = jobs /\ NoNewSuccess
    BY <1>1, <1>2, <1>4, <2>1 DEF RecoverRunning, ledgerVars
  <2>3. QED
    BY <2>1, <2>2 DEF Quiet
<1>5. CASE CancelRecovered \/ \E q \in signals : CancelReplaced(q)
  <2>1. LedgerLoses /\ jobs' = jobs /\ NoNewSuccess
    BY <1>1, <1>5 DEF CancelRecovered, CancelReplaced
  <2>2. \E r : cancelRun(r)
    BY <1>5 DEF CancelRecovered, CancelReplaced
  <2>3. QED
    BY <2>1, <2>2 DEF Quiet
<1>6. ASSUME NEW q \in skips, SkipQueuedRun(q)
      PROVE  Quiet
  <2>1. /\ status' = [status EXCEPT ![q] = "skipped"] /\ lease' = lease
        /\ claims' = claims /\ jobs' = jobs /\ UNCHANGED <<execs, active>>
    BY <1>6 DEF SkipQueuedRun, execVars
  <2>2. QED
    BY <1>0, <2>1 DEF Quiet, LedgerLoses, NoNewSuccess, TypeOK, Active
<1>9. CASE ClearSkippedLease
  BY <1>0, <1>9
  DEF ClearSkippedLease, DropLease, Quiet, LedgerLoses, NoNewSuccess, execVars, TypeOK
<1>7. CASE TickBegin \/ TickAbort \/ ListCandidateRuns \/ (\E r \in cands : GetSchedule(r))
           \/ PrepareScheduleForClaim \/ UnresolvedExternalJobCount \/ ListActiveRuns
           \/ CandidateError \/ EnforceQueuePolicy \/ TickEnd
  <2>1. UNCHANGED ledgerVars /\ UNCHANGED <<execs, active>>
    BY <1>7 DEF TickBegin, TickAbort, ListCandidateRuns, GetSchedule, PrepareScheduleForClaim,
       UnresolvedExternalJobCount, ListActiveRuns, CandidateError, EnforceQueuePolicy, TickEnd,
       execVars
  <2>2. QED
    BY <1>1, <2>1 DEF Quiet
<1>8. QED
  BY <1>3, <1>4, <1>5, <1>6, <1>7, <1>9 DEF Tick

\* Heartbeats, contexts and abandoned executions are quiet.
LEMMA ExecuteKinds ==
  ASSUME Inv, NEW e \in execs, Execute(e)
  PROVE  \/ Quiet
         \/ BeginExecution(e) \/ MarkRunRunning(e) \/ registerCancel(e) \/ FinishExecution(e)
         \/ CheckpointSubmission(e) \/ (\E st \in JobTerminal : CheckpointTerminal(e, st))
         \/ \E outcome \in Outcomes : ExecutorReturns(e, outcome)
<1>0. TypeOK /\ e \in Execution
  BY DEF Inv, TypeInv, TypeOK
<1>1. ASSUME HeartbeatBegin(e) \/ RenewLeaseWithToken(e) \/ \E why \in {"canceled", "deadline"} : ContextEnds(e, why)
      PROVE  Quiet
  <2>1. LedgerLoses /\ jobs' = jobs /\ NoNewSuccess
    BY <1>0, <1>1 DEF HeartbeatBegin, RenewLeaseWithToken, ContextEnds, ledgerVars, LedgerLoses,
       NoNewSuccess, TypeOK
  <2>2. PICK f : SetExec(e, f) /\ f \in {[e EXCEPT !.beat = "renewing", !.stamp = now],
                                         [e EXCEPT !.beat = "idle", !.stamp = 0],
                                         HeartbeatFailed(e),
                                         [e EXCEPT !.ctx = "canceled"], [e EXCEPT !.ctx = "deadline"]}
    BY <1>1 DEF HeartbeatBegin, RenewLeaseWithToken, ContextEnds
  <2>3. /\ f.run = e.run /\ f.claim = e.claim /\ f.pc = e.pc
        /\ f.external = e.external /\ f.outcome = e.outcome
    BY <1>0, <2>2 DEF HeartbeatFailed, Execution
  <2>4. QED
    BY <2>1, <2>2, <2>3 DEF Quiet
<1>2. ASSUME AbandonExecution(e)
      PROVE  Quiet
  <2>1. LedgerLoses /\ jobs' = jobs /\ NoNewSuccess /\ EndExec(e)
    BY <1>0, <1>2 DEF AbandonExecution, ledgerVars, LedgerLoses, NoNewSuccess, TypeOK
  <2>2. QED
    BY <2>1 DEF Quiet, EndExec
<1>3. QED
  BY <1>1, <1>2 DEF Execute
-----------------------------------------------------------------------------
(* Registrations.                                                          *)

LEMMA QuietKeepsExecs ==
  ASSUME TypeOK, ClaimsApart, Quiet
  PROVE  ClaimsApart'
BY ExecsCancelled, ExecMoves, ExecsKept DEF Quiet

\* A claim is numbered above all claims of the run before it.
LEMMA ClaimKeepsExecs ==
  ASSUME Inv, ClaimsApart, ClaimRunWithToken
  PROVE  ClaimsApart'
<1>0. TypeOK /\ cur \in RunIds
  BY DEF Inv, TypeInv, TickLocals, ClaimRunWithToken
<1>1. CASE ~Claimable(cur, seen)
  <2>1. LedgerLoses /\ execs' = execs
    BY <1>0, <1>1 DEF ClaimRunWithToken, LedgerLoses, TypeOK
  <2>2. QED
    BY <1>0, <2>1, ExecsKept
<1>2. CASE Claimable(cur, seen)
  <2>1. PICK n \in Nat : n = claims[cur] + 1 /\ n > claims[cur] /\ n >= 1 /\ claims[cur] \in Nat
    BY <1>0 DEF TypeOK
  <2>2. /\ status' = [status EXCEPT ![cur] = "claimed"]
        /\ claims' = [claims EXCEPT ![cur] = n] /\ claims'[cur] = n
    BY <1>0, <1>2, <2>1 DEF ClaimRunWithToken, TypeOK
  <2>3. lease' = [lease EXCEPT ![cur] = n]
    BY <1>2, <2>2 DEF ClaimRunWithToken
  <2>4. PICK new : /\ \A f \in execs' : f \in execs \/ f = new
                   /\ new.run = cur /\ new.claim = n
    <3>1. PICK new : new = [run |-> cur, claim |-> n, external |-> seen.tracked,
                            pc |-> "spawned", stamp |-> 0, beat |-> "idle", ctx |-> "live",
                            outcome |-> "none"]
      OBVIOUS
    <3>2. \A f \in execs' : f \in execs \/ f = new
      BY <1>2, <2>2, <3>1 DEF ClaimRunWithToken
    <3>3. new.run = cur /\ new.claim = n
      BY <3>1
    <3>4. QED
      BY <3>2, <3>3
  <2>5. \A e \in execs : /\ e.run \in RunIds /\ e.claim \in Nat /\ e.claim <= claims[e.run] /\ 1 <= e.claim
                         /\ e.run = cur => e.claim < n
    <3>1. \A e \in execs : e.run \in RunIds /\ e.claim \in Nat /\ e.claim <= claims[e.run] /\ 1 <= e.claim
      BY <1>0 DEF ClaimsApart, TypeOK, Execution
    <3>2. QED
      BY <2>1, <3>1
  <2>6. \A r \in RunIds : claims[r] \in Nat /\ lease[r] \in Nat /\ lease[r] <= claims[r]
    BY <1>0 DEF TypeOK, ClaimsApart
  <2>7. \A r \in RunIds : IF r = cur THEN lease'[r] = n /\ claims'[r] = n
                          ELSE lease'[r] = lease[r] /\ claims'[r] = claims[r] /\ status'[r] = status[r]
    BY <1>0, <2>2, <2>3 DEF TypeOK
  <2>8. ClaimsApart'
    <3>1. \A r \in RunIds : lease'[r] <= claims'[r]
      BY <2>1, <2>6, <2>7
    <3>2. \A f \in execs' : 1 <= f.claim /\ f.claim <= claims'[f.run]
      BY <1>0, <2>1, <2>4, <2>5, <2>7
    <3>3. \A f, g \in execs' : f.run = g.run /\ f.claim = g.claim => f = g
      <4>1. \A f, g \in execs : f.run = g.run /\ f.claim = g.claim => f = g
        BY DEF ClaimsApart
      <4>2. \A f \in execs : f.run = cur => f.claim # n
        BY <2>1, <2>5
      <4>3. QED
        BY <2>4, <4>1, <4>2
    <3>4. QED
      BY <3>1, <3>2, <3>3 DEF ClaimsApart
  <2>9. QED
    BY <2>8
<1>3. QED
  BY <1>1, <1>2

\* A start moves the execution on; a lost lease ends it.
LEMMA StartKeepsExecs ==
  ASSUME TypeOK, ClaimsApart, NEW e \in execs, MarkRunRunning(e)
  PROVE  ClaimsApart'
<1>0. e \in Execution /\ e.run \in RunIds
  BY DEF TypeOK, Execution
<1>1. LedgerLoses
  BY <1>0 DEF MarkRunRunning, OwnsLiveLease, OwnsLease, LedgerLoses, TypeOK
<1>2. CASE EndExec(e)
  BY <1>1, <1>2, ExecsKept DEF EndExec
<1>3. CASE SetExec(e, [e EXCEPT !.pc = "registering", !.stamp = 0])
  <2>1. PICK f : f = [e EXCEPT !.pc = "registering", !.stamp = 0] /\ SetExec(e, f)
    BY <1>3
  <2>2. f.run = e.run /\ f.claim = e.claim
    BY <1>0, <2>1 DEF Execution
  <2>3. QED
    BY <1>1, <2>1, <2>2, ExecMoves
<1>4. QED
  BY <1>2, <1>3 DEF MarkRunRunning

LEMMA FinishKeepsExecs ==
  ASSUME TypeOK, ClaimsApart, NEW e \in execs, FinishExecution(e)
  PROVE  ClaimsApart'
<1>1. e.run \in RunIds
  BY DEF TypeOK, Execution
<1>2. ASSUME NEW outcome PROVE FinishStatus(e.run, outcome) \in Terminal
  BY FinishStatusType DEF Terminal
<1>3. PICK st \in Terminal : UNCHANGED ledgerVars \/ ReleaseRunTx(e.run) \/ FinishRunTx(e.run, st)
  BY <1>2 DEF FinishExecution, Terminal
<1>4. LedgerLoses
  BY <1>1, <1>3, TxLoses
<1>5. EndExec(e)
  BY DEF FinishExecution
<1>6. QED
  BY <1>4, <1>5, ExecsKept DEF EndExec

\* A job is checkpointed, or an executor starts, registers or returns.
LEMMA OtherKeepsExecs ==
  ASSUME TypeOK, ClaimsApart, NEW e \in execs,
         \/ BeginExecution(e) \/ registerCancel(e) \/ CheckpointSubmission(e)
         \/ \E st \in JobTerminal : CheckpointTerminal(e, st)
         \/ \E outcome \in Outcomes : ExecutorReturns(e, outcome)
  PROVE  ClaimsApart'
<1>0. e \in Execution
  BY DEF TypeOK
<1>1. LedgerLoses
  BY DEF BeginExecution, registerCancel, CheckpointSubmission, CheckpointTerminal, ExecutorReturns,
     ledgerVars, LedgerLoses, TypeOK
<1>2. CASE CheckpointSubmission(e)
  BY <1>1, <1>2, ExecsKept DEF CheckpointSubmission, execVars
<1>3. CASE BeginExecution(e)
  <2>1. PICK f : SetExec(e, f) /\ f = [e EXCEPT !.pc = "starting", !.stamp = now,
                                              !.external = @ \/ jobs[e.run[1]] # "none"]
    BY <1>3 DEF BeginExecution
  <2>2. f.run = e.run /\ f.claim = e.claim /\ f.pc = "starting"
    BY <1>0, <2>1 DEF Execution
  <2>3. QED
    BY <1>1, <2>1, <2>2, ExecMoves
<1>6. CASE registerCancel(e)
  <2>1. PICK f : SetExec(e, f) /\ f = [e EXCEPT !.pc = "executing"]
    BY <1>6 DEF registerCancel
  <2>2. f.run = e.run /\ f.claim = e.claim
    BY <1>0, <2>1 DEF Execution
  <2>3. QED
    BY <1>1, <2>1, <2>2, ExecMoves
<1>4. ASSUME NEW outcome, SetExec(e, [e EXCEPT !.pc = "returned", !.ctx = "live", !.outcome = outcome])
      PROVE  ClaimsApart'
  <2>1. PICK f : SetExec(e, f) /\ f = [e EXCEPT !.pc = "returned", !.ctx = "live", !.outcome = outcome]
    BY <1>4
  <2>2. f.run = e.run /\ f.claim = e.claim /\ f.pc = "returned"
    BY <1>0, <2>1 DEF Execution
  <2>3. QED
    BY <1>1, <2>1, <2>2, ExecMoves
<1>5. QED
  BY <1>2, <1>3, <1>4, <1>6 DEF CheckpointTerminal, ExecutorReturns

LEMMA ClaimsNext == Inv /\ ClaimsApart /\ [Next]_vars => ClaimsApart'
<1> SUFFICES ASSUME Inv, ClaimsApart, [Next]_vars PROVE ClaimsApart'
  OBVIOUS
<1>0. TypeOK
  BY DEF Inv, TypeInv
<1>1. CASE UNCHANGED vars
  BY <1>1 DEF vars, ledgerVars, execVars, ClaimsApart
<1>2. CASE Quiet
  BY <1>0, <1>2, QuietKeepsExecs
<1>3. CASE \E o \in Occurrences, st \in JobTerminal : ReconcileExternalJob(o, st)
  <2>1. LedgerLoses /\ execs' = execs
    BY <1>0, <1>3 DEF ReconcileExternalJob, execVars, LedgerLoses, TypeOK
  <2>2. QED
    BY <1>0, <2>1, ExecsKept
<1>4. CASE Environment
  BY <1>2, <1>3, <1>4, EnvironmentKinds
<1>5. CASE Tick
  BY <1>2, <1>5, TickKinds, ClaimKeepsExecs
<1>6. ASSUME NEW e \in execs, Execute(e)
      PROVE  ClaimsApart'
  BY <1>0, <1>2, <1>6, ExecuteKinds, StartKeepsExecs, FinishKeepsExecs, OtherKeepsExecs
<1>7. QED
  BY <1>1, <1>4, <1>5, <1>6 DEF Next

LEMMA ClaimsApartAlways == Spec => []ClaimsApart
<1>1. Init => ClaimsApart
  BY DEF Init, ClaimsApart
<1>2. QED
  BY InvAlways, ClaimsNext, <1>1, PTL DEF Spec

\* The deferred unregisterCancel of an execution compares tokens: the entry of
\* another execution in Dispatcher.active stays, however late the clean-up is,
\* until that one ends or a further one registers.
THEOREM RegistrationKeptHolds == Spec => RegistrationKept
<1> DEFINE Kept ==
      \A e \in execs :
        active[e.run] = e.claim /\ e.pc # "registering" /\ active'[e.run] # e.claim
        => \/ \E f \in execs' : f.run = e.run /\ f.claim = active'[e.run]
           \/ \A f \in execs' : f.run = e.run => f.claim # e.claim
<1>1. Inv /\ ClaimsApart /\ [Next]_vars => [Kept]_vars
  <2> SUFFICES ASSUME Inv, ClaimsApart, [Next]_vars, NEW e \in execs,
                      active[e.run] = e.claim, active'[e.run] # e.claim
               PROVE  \/ \E f \in execs' : f.run = e.run /\ f.claim = active'[e.run]
                      \/ \A f \in execs' : f.run = e.run => f.claim # e.claim
    OBVIOUS
  <2>0. /\ active \in [RunIds -> Nat] /\ e.run \in RunIds
        /\ \A f \in execs : f \in Execution /\ f.run \in RunIds
    BY DEF Inv, TypeInv, TypeOK, Execution
  <2>1. ASSUME NEW g \in execs, EndExec(g)
        PROVE  \A f \in execs' : f.run = e.run => f.claim # e.claim
    <3>1. /\ execs' = execs \ {g}
          /\ active' = [active EXCEPT ![g.run] = IF @ = g.claim THEN 0 ELSE @]
      BY <2>1 DEF EndExec
    <3>2. g.run = e.run /\ g.claim = e.claim
      BY <2>0, <3>1
    <3>3. g = e
      BY <3>2 DEF ClaimsApart
    <3>4. QED
      BY <3>1, <3>3 DEF ClaimsApart
  <2>2. ASSUME NEW g \in execs, registerCancel(g)
        PROVE  \E f \in execs' : f.run = e.run /\ f.claim = active'[e.run]
    <3>1. PICK f : f = [g EXCEPT !.pc = "executing"] /\ execs' = (execs \ {g}) \cup {f}
      BY <2>2 DEF registerCancel, SetExec
    <3>2. f.run = g.run /\ f.claim = g.claim
      BY <2>0, <3>1 DEF Execution
    <3>3. active' = [active EXCEPT ![g.run] = g.claim]
      BY <2>2 DEF registerCancel
    <3>4. g.run = e.run /\ active'[e.run] = g.claim
      BY <2>0, <3>3
    <3>5. QED
      BY <3>1, <3>2, <3>4
  <2>3. CASE Environment
    BY <2>3 DEF Environment, AdvanceClock, InsertRun, EditPolicy, Restart,
       ReconcileExternalJob, execVars
  <2>4. CASE Tick
    BY <2>4 DEF Tick, TickBegin, RecoverClaimed, RecoverRunning, CancelRecovered, TickAbort,
       ListCandidateRuns, GetSchedule, PrepareScheduleForClaim, UnresolvedExternalJobCount,
       ListActiveRuns, CancelReplaced, CandidateError, EnforceQueuePolicy, SkipQueuedRun,
       ClearSkippedLease, ClaimRunWithToken, TickEnd, execVars
  <2>5. ASSUME NEW g \in execs, Execute(g)
        PROVE  active' = active \/ EndExec(g) \/ registerCancel(g)
    BY <2>5 DEF Execute, BeginExecution, MarkRunRunning, HeartbeatBegin, RenewLeaseWithToken,
       ContextEnds, CheckpointSubmission, CheckpointTerminal, ExecutorReturns,
       FinishExecution, AbandonExecution, execVars
  <2>6. QED
    BY <2>1, <2>2, <2>3, <2>4, <2>5 DEF Next, vars, execVars
<1>2. QED
  BY InvAlways, ClaimsApartAlways, <1>1, PTL DEF Spec, RegistrationKept
-----------------------------------------------------------------------------
(* A run succeeds only with its remote job.                                *)

\* An owner after a step that loses leases was an owner before it.
LEMMA OwnerStays ==
  ASSUME TypeOK, ClaimsApart, LedgerLoses, NEW e \in execs,
         status'[e.run] \in Active, lease'[e.run] = e.claim
  PROVE  OwnsLease(e)
<1>1. e.run \in RunIds /\ e.claim \in Nat /\ e.claim # 0
  BY DEF TypeOK, Execution, ClaimsApart
<1>2. QED
  BY <1>1 DEF LedgerLoses, OwnsLease

\* While an execution owns a run, no other one owns an attempt of the
\* occurrence, and none of the attempts has succeeded.
LEMMA OwnerAlone ==
  ASSUME Inv, ClaimsApart, NEW e \in execs, OwnsLease(e)
  PROVE  /\ e.run \in RunIds /\ e.run[1] \in Occurrences
         /\ \A f \in execs : OwnsLease(f) /\ f.run[1] = e.run[1] => f = e
         /\ \A r \in RunIds : r[1] = e.run[1] => status[r] # "succeeded"
<1>0. TypeOK /\ RetryChain /\ OneActiveAttempt /\ \A f \in execs : f.run \in RunIds
  BY OneActiveFromInv DEF Inv, TypeInv, LedgerInv, TypeOK, Execution
<1>1. e.run \in RunIds /\ e.run[1] \in Occurrences /\ status[e.run] \in Active /\ lease[e.run] = e.claim
  BY <1>0, RunIdParts DEF OwnsLease
<1>2. ASSUME NEW f \in execs, OwnsLease(f), f.run[1] = e.run[1]
      PROVE  f = e
  <2>1. f.run = e.run /\ f.claim = e.claim
    BY <1>0, <1>1, <1>2 DEF OneActiveAttempt, OwnsLease
  <2>2. QED
    BY <2>1 DEF ClaimsApart
<1>3. ASSUME NEW r \in RunIds, r[1] = e.run[1], status[r] = "succeeded"
      PROVE  FALSE
  <2>1. r # e.run
    BY <1>1, <1>3 DEF Active
  <2>2. status[r] \in {"none", "failed"}
    BY <1>0, <1>1, <1>3, <2>1, LiveAlone
  <2>3. QED
    BY <1>3, <2>2
<1>4. QED
  BY <1>1, <1>2, <1>3

\* Enough for a step that leaves the remote jobs alone.
LEMMA SameJobs ==
  ASSUME TypeOK, JobInv, jobs' = jobs, NoNewSuccess,
         \A f \in execs' : OwnsLease(f)' =>
           \/ KnowsJob(f)
           \/ \E e \in execs : /\ OwnsLease(e) /\ f.run = e.run /\ f.pc = e.pc
                               /\ f.external = e.external /\ f.outcome = e.outcome
  PROVE  JobInv'
<1>1. SuccessMeansJobSucceeded'
  BY DEF JobInv, SuccessMeansJobSucceeded, NoNewSuccess
<1>2. ASSUME NEW f \in execs', OwnsLease(f)'
      PROVE  KnowsJob(f)'
  <2>1. KnowsJob(f)
    BY <1>2 DEF JobInv, KnowsJob
  <2>2. QED
    BY <2>1 DEF KnowsJob
<1>3. QED
  BY <1>1, <1>2 DEF JobInv

LEMMA QuietKeepsJobs ==
  ASSUME TypeOK, ClaimsApart, JobInv, Quiet
  PROVE  JobInv'
<1>1. LedgerLoses /\ jobs' = jobs /\ NoNewSuccess
  BY DEF Quiet
<1>2. SUFFICES ASSUME NEW f \in execs', OwnsLease(f)'
               PROVE  \E e \in execs : /\ OwnsLease(e) /\ f.run = e.run /\ f.pc = e.pc
                                       /\ f.external = e.external /\ f.outcome = e.outcome
  BY <1>1, SameJobs
<1>3. \E e \in execs : /\ f.run = e.run /\ f.claim = e.claim /\ f.pc = e.pc
                       /\ f.external = e.external /\ f.outcome = e.outcome
  <2>1. CASE \E r : cancelRun(r)
    <3>1. PICK e \in execs : f = e \/ f = [e EXCEPT !.ctx = "canceled"]
      BY <2>1 DEF cancelRun
    <3>2. e \in Execution
      BY DEF TypeOK
    <3>3. QED
      BY <3>1, <3>2 DEF Execution
  <2>2. CASE execs' \subseteq execs
    BY <2>2
  <2>3. ASSUME NEW e \in execs, NEW g, SetExec(e, g), g.run = e.run, g.claim = e.claim, g.pc = e.pc,
               g.external = e.external, g.outcome = e.outcome
        PROVE  \E d \in execs : /\ f.run = d.run /\ f.claim = d.claim /\ f.pc = d.pc
                                /\ f.external = d.external /\ f.outcome = d.outcome
    BY <2>3 DEF SetExec
  <2>4. QED
    BY <2>1, <2>2, <2>3 DEF Quiet
<1>4. QED
  BY <1>1, <1>2, <1>3, OwnerStays DEF OwnsLease

LEMMA ReconcileKeepsJobs ==
  ASSUME Inv, ClaimsApart, JobInv, NEW o \in Occurrences, NEW st \in JobTerminal, ReconcileExternalJob(o, st)
  PROVE  JobInv'
<1>0. TypeOK /\ \A f \in execs : f.run \in RunIds
  BY DEF Inv, TypeInv, TypeOK, Execution
<1>1. /\ jobs[o] = "open" /\ jobs' = [jobs EXCEPT ![o] = st]
      /\ \A r \in RunsOf(o) : status[r] \notin Active
      /\ UNCHANGED <<status, lease, execs>>
  BY DEF ReconcileExternalJob, execVars
<1>2. \A p \in Occurrences : p # o => jobs'[p] = jobs[p]
  BY <1>0, <1>1 DEF TypeOK
<1>3. \A r \in RunIds : r[1] \in Occurrences /\ r \in RunsOf(r[1])
  BY RunIdParts DEF RunsOf
<1>4. SuccessMeansJobSucceeded'
  BY <1>1, <1>2, <1>3 DEF JobInv, SuccessMeansJobSucceeded
<1>5. \A f \in execs : OwnsLease(f) => f.run[1] # o
  BY <1>0, <1>1, <1>3 DEF OwnsLease
<1>6. QED
  BY <1>0, <1>1, <1>2, <1>3, <1>4, <1>5 DEF JobInv, OwnsLease, KnowsJob

LEMMA ClaimKeepsJobs ==
  ASSUME Inv, ClaimsApart, JobInv, ClaimRunWithToken
  PROVE  JobInv'
<1>0. TypeOK /\ cur \in RunIds /\ \A f \in execs : f.run \in RunIds
  BY DEF Inv, TypeInv, TickLocals, ClaimRunWithToken, TypeOK, Execution
<1>1. jobs' = jobs /\ NoNewSuccess
  BY <1>0 DEF ClaimRunWithToken, NoNewSuccess, TypeOK
<1>2. CASE ~Claimable(cur, seen)
  <2>1. UNCHANGED <<status, lease, execs>>
    BY <1>2 DEF ClaimRunWithToken
  <2>2. QED
    BY <1>0, <1>1, <2>1, SameJobs DEF OwnsLease
<1>3. CASE Claimable(cur, seen)
  <2>1. /\ status' = [status EXCEPT ![cur] = "claimed"]
        /\ lease' = [lease EXCEPT ![cur] = claims[cur] + 1]
        /\ \A f \in execs' : f \in execs \/ f.pc = "spawned"
    <3>1. claims'[cur] = claims[cur] + 1
      BY <1>0, <1>3 DEF ClaimRunWithToken, TypeOK
    <3>2. QED
      BY <1>3, <3>1 DEF ClaimRunWithToken
  <2>2. \A f \in execs : OwnsLease(f)' => f.run # cur
    <3>1. \A f \in execs : f.run = cur => f.claim \in Nat /\ claims[cur] \in Nat /\ f.claim <= claims[cur]
      BY <1>0 DEF ClaimsApart, TypeOK, Execution
    <3>2. lease'[cur] = claims[cur] + 1
      BY <1>0, <2>1 DEF TypeOK
    <3>3. QED
      BY <3>1, <3>2 DEF OwnsLease
  <2>3. \A f \in execs : OwnsLease(f)' => OwnsLease(f)
    BY <1>0, <2>1, <2>2 DEF OwnsLease, TypeOK
  <2>4. \A f \in execs' : OwnsLease(f)' => KnowsJob(f)
    BY <2>1, <2>3 DEF JobInv, KnowsJob
  <2>5. QED
    BY <1>0, <1>1, <2>4, SameJobs
<1>4. QED
  BY <1>2, <1>3

LEMMA StartKeepsJobs ==
  ASSUME Inv, ClaimsApart, JobInv, NEW e \in execs, MarkRunRunning(e)
  PROVE  JobInv'
<1>0. TypeOK /\ e \in Execution /\ \A f \in execs : f.run \in RunIds
  BY DEF Inv, TypeInv, TypeOK, Execution
<1>1. jobs' = jobs /\ lease' = lease /\ NoNewSuccess
  BY <1>0 DEF MarkRunRunning, NoNewSuccess, TypeOK
<1>2. CASE EndExec(e) /\ UNCHANGED status
  <2>1. execs' \subseteq execs /\ \A f \in execs : OwnsLease(f)' <=> OwnsLease(f)
    BY <1>1, <1>2 DEF EndExec, OwnsLease
  <2>2. QED
    BY <1>0, <1>1, <2>1, SameJobs
<1>3. CASE OwnsLiveLease(e, e.stamp)
  <2>1. OwnsLease(e) /\ e.pc = "starting" /\ status' = [status EXCEPT ![e.run] = "running"]
    BY <1>3 DEF MarkRunRunning, OwnsLiveLease
  <2>2. PICK g : g = [e EXCEPT !.pc = "registering", !.stamp = 0] /\ execs' = (execs \ {e}) \cup {g}
    BY <1>3 DEF MarkRunRunning, SetExec
  <2>3. g.run = e.run /\ g.external = e.external /\ g.pc = "registering"
    BY <1>0, <2>2 DEF Execution
  <2>4. KnowsJob(g)
    BY <2>1, <2>3 DEF JobInv, KnowsJob
  <2>5. \A f \in execs : OwnsLease(f)' => OwnsLease(f)
    BY <1>0, <1>1, <2>1 DEF OwnsLease, TypeOK
  <2>6. \A f \in execs' : OwnsLease(f)' => KnowsJob(f)
    BY <2>2, <2>4, <2>5 DEF JobInv
  <2>7. QED
    BY <1>0, <1>1, <2>6, SameJobs
<1>4. QED
  BY <1>2, <1>3 DEF MarkRunRunning

\* The executor starts, registers, or returns what its job allows.
LEMMA MovesKeepJobs ==
  ASSUME Inv, ClaimsApart, JobInv, NEW e \in execs,
         \/ BeginExecution(e) \/ registerCancel(e)
         \/ \E outcome \in Outcomes : ExecutorReturns(e, outcome)
  PROVE  JobInv'
<1>0. TypeOK /\ e \in Execution /\ e.run[1] \in Occurrences
  BY RunIdParts DEF Inv, TypeInv, TypeOK, Execution
<1>1. jobs' = jobs /\ status' = status /\ lease' = lease /\ NoNewSuccess
  BY DEF BeginExecution, registerCancel, ExecutorReturns, ledgerVars, NoNewSuccess
<1>2. \A f \in execs : OwnsLease(f)' <=> OwnsLease(f)
  BY <1>1 DEF OwnsLease
<1>3. ASSUME NEW g, SetExec(e, g), g.run = e.run, g.claim = e.claim, OwnsLease(e) => KnowsJob(g)
      PROVE  JobInv'
  <2>1. \A f \in execs' : f = g \/ f \in execs
    BY <1>3 DEF SetExec
  <2>2. OwnsLease(g)' => OwnsLease(e)
    BY <1>1, <1>3 DEF OwnsLease
  <2>3. \A f \in execs' : OwnsLease(f)' => KnowsJob(f)
    BY <1>2, <1>3, <2>1, <2>2 DEF JobInv
  <2>4. QED
    BY <1>0, <1>1, <2>3, SameJobs
<1>4. CASE BeginExecution(e)
  <2>1. PICK x \in BOOLEAN : x = (e.external \/ jobs[e.run[1]] # "none")
    OBVIOUS
  <2>2. PICK g : g = [e EXCEPT !.pc = "starting", !.stamp = now, !.external = x] /\ SetExec(e, g)
    BY <1>4, <2>1 DEF BeginExecution
  <2>3. g.run = e.run /\ g.claim = e.claim /\ g.pc = "starting" /\ g.external = x
    BY <1>0, <2>2 DEF Execution
  <2>4. KnowsJob(g)
    BY <2>1, <2>3 DEF KnowsJob
  <2>5. QED
    BY <1>3, <2>2, <2>3, <2>4
<1>7. CASE registerCancel(e)
  <2>1. PICK g : g = [e EXCEPT !.pc = "executing"] /\ SetExec(e, g)
    BY <1>7 DEF registerCancel
  <2>2. /\ g.run = e.run /\ g.claim = e.claim /\ g.pc = "executing" /\ g.external = e.external
        /\ e.pc = "registering"
    BY <1>0, <1>7, <2>1 DEF Execution, registerCancel
  <2>3. OwnsLease(e) => KnowsJob(g)
    BY <2>2 DEF JobInv, KnowsJob
  <2>4. QED
    BY <1>3, <2>1, <2>2, <2>3
<1>5. ASSUME NEW outcome \in Outcomes, ExecutorReturns(e, outcome)
      PROVE  JobInv'
  <2>1. PICK g : g = [e EXCEPT !.pc = "returned", !.ctx = "live", !.outcome = outcome] /\ SetExec(e, g)
    BY <1>5 DEF ExecutorReturns
  <2>2. /\ g.run = e.run /\ g.claim = e.claim /\ g.pc = "returned" /\ g.outcome = outcome
        /\ g.external = e.external /\ e.pc = "executing" /\ e.external \in BOOLEAN
    BY <1>0, <1>5, <2>1 DEF Execution, ExecutorReturns
  <2>3. ASSUME OwnsLease(e) PROVE KnowsJob(g)
    <3>1. ~e.external => jobs[e.run[1]] = "none"
      BY <2>2, <2>3 DEF JobInv, KnowsJob
    <3>2. e.external /\ outcome = "ok" => jobs[e.run[1]] = "succeeded"
      BY <1>5 DEF ExecutorReturns, ExecutorOutcomes, JobResult, JobFailure, JobTerminal
    <3>3. QED
      BY <2>2, <3>1, <3>2 DEF KnowsJob
  <2>4. QED
    BY <1>3, <2>1, <2>2, <2>3
<1>6. QED
  BY <1>4, <1>5, <1>7

\* A success is recorded by an owner that knows the job succeeded.
LEMMA FinishKeepsJobs ==
  ASSUME Inv, ClaimsApart, JobInv, NEW e \in execs, FinishExecution(e)
  PROVE  JobInv'
<1>0. TypeOK /\ e.run \in RunIds
  BY DEF Inv, TypeInv, TypeOK, Execution
<1>1. PICK outcome : /\ outcome = "ok" => e.outcome = "ok"
                     /\ \/ UNCHANGED ledgerVars
                        \/ ReleaseRunTx(e.run)
                        \/ OwnsLease(e) /\ FinishRunTx(e.run, FinishStatus(e.run, outcome))
  BY DEF FinishExecution
<1>2. PICK st \in Terminal : /\ st = FinishStatus(e.run, outcome)
                             /\ st = "succeeded" => e.outcome = "ok"
  BY <1>1, FailureStatusType DEF FinishStatus, Terminal
<1>3. LedgerLoses /\ jobs' = jobs
  BY <1>0, <1>1, <1>2, TxLoses
<1>4. execs' \subseteq execs /\ e.pc = "returned"
  BY DEF FinishExecution, EndExec
<1>5. ASSUME NEW r \in RunIds, status'[r] = "succeeded", status[r] # "succeeded"
      PROVE  jobs[r[1]] \in {"none", "succeeded"}
  <2>1. status' # status /\ ~ReleaseRunTx(e.run)
    BY <1>0, <1>5 DEF ReleaseRunTx, TypeOK
  <2>2. OwnsLease(e) /\ FinishRunTx(e.run, st)
    BY <1>1, <1>2, <2>1 DEF ledgerVars
  <2>3. r = e.run /\ st = "succeeded"
    BY <1>5, <2>2 DEF FinishRunTx
  <2>4. QED
    BY <1>2, <1>4, <2>2, <2>3 DEF JobInv, KnowsJob
<1>6. SuccessMeansJobSucceeded'
  BY <1>3, <1>5 DEF JobInv, SuccessMeansJobSucceeded
<1>7. ASSUME NEW f \in execs', OwnsLease(f)'
      PROVE  KnowsJob(f)'
  <2>1. f \in execs /\ OwnsLease(f)
    BY <1>0, <1>3, <1>4, <1>7, OwnerStays DEF OwnsLease
  <2>2. KnowsJob(f)
    BY <2>1 DEF JobInv
  <2>3. QED
    BY <1>3, <2>2 DEF KnowsJob
<1>8. QED
  BY <1>6, <1>7 DEF JobInv

\* Only an owner checkpoints its job, and its other attempts have not succeeded.
LEMMA CheckpointsKeepJobs ==
  ASSUME Inv, ClaimsApart, JobInv, NEW e \in execs,
         CheckpointSubmission(e) \/ \E st \in JobTerminal : CheckpointTerminal(e, st)
  PROVE  JobInv'
<1>0. TypeOK /\ e \in Execution /\ \A f \in execs : f.run \in RunIds /\ f.run[1] \in Occurrences
  BY RunIdParts DEF Inv, TypeInv, TypeOK, Execution
<1>1. OwnsLease(e) /\ UNCHANGED <<status, lease>> /\ e.pc = "executing" /\ e.external
  BY DEF CheckpointSubmission, CheckpointTerminal, OwnsLiveLease
<1>2. /\ \A f \in execs : OwnsLease(f) /\ f.run[1] = e.run[1] => f = e
      /\ \A r \in RunIds : r[1] = e.run[1] => status[r] # "succeeded"
  BY <1>1, OwnerAlone
<1>3. \A o \in Occurrences : o # e.run[1] => jobs'[o] = jobs[o]
  BY <1>0 DEF CheckpointSubmission, CheckpointTerminal, TypeOK
<1>4. SuccessMeansJobSucceeded'
  BY <1>1, <1>2, <1>3, RunIdParts DEF JobInv, SuccessMeansJobSucceeded
<1>5. ASSUME NEW f \in execs, f # e, OwnsLease(f)
      PROVE  KnowsJob(f)'
  <2>1. f.run[1] # e.run[1] /\ KnowsJob(f)
    BY <1>2, <1>5 DEF JobInv
  <2>2. QED
    BY <1>0, <1>3, <2>1 DEF KnowsJob
<1>6. CASE CheckpointSubmission(e)
  <2>1. KnowsJob(e)'
    BY <1>1 DEF KnowsJob
  <2>2. execs' = execs /\ \A f \in execs : OwnsLease(f)' <=> OwnsLease(f)
    BY <1>1, <1>6 DEF CheckpointSubmission, execVars, OwnsLease
  <2>3. QED
    BY <1>4, <1>5, <2>1, <2>2 DEF JobInv
<1>7. ASSUME NEW st \in JobTerminal, CheckpointTerminal(e, st)
      PROVE  JobInv'
  <2>1. PICK out \in {JobResult(st), JobFailure(e.ctx)} :
          SetExec(e, [e EXCEPT !.pc = "returned", !.ctx = "live", !.outcome = out])
    BY <1>7 DEF CheckpointTerminal
  <2>2. PICK g : g = [e EXCEPT !.pc = "returned", !.ctx = "live", !.outcome = out] /\ SetExec(e, g)
    BY <2>1
  <2>3. g.run = e.run /\ g.external = e.external /\ g.pc = "returned" /\ g.outcome = out
    BY <1>0, <2>2 DEF Execution
  <2>4. jobs'[e.run[1]] = st
    BY <1>0, <1>7 DEF CheckpointTerminal, TypeOK
  <2>5. KnowsJob(g)'
    BY <1>1, <2>1, <2>3, <2>4 DEF KnowsJob, JobResult, JobFailure, JobTerminal
  <2>6. \A f \in execs' : f = g \/ (f \in execs /\ f # e)
    BY <2>2 DEF SetExec
  <2>7. \A f \in execs : OwnsLease(f)' <=> OwnsLease(f)
    BY <1>1 DEF OwnsLease
  <2>8. QED
    BY <1>4, <1>5, <2>5, <2>6, <2>7 DEF JobInv
<1>8. QED
  BY <1>6, <1>7

LEMMA JobInvNext == Inv /\ ClaimsApart /\ JobInv /\ [Next]_vars => JobInv'
<1> SUFFICES ASSUME Inv, ClaimsApart, JobInv, [Next]_vars PROVE JobInv'
  OBVIOUS
<1>0. TypeOK
  BY DEF Inv, TypeInv
<1>1. CASE UNCHANGED vars
  BY <1>1 DEF vars, ledgerVars, execVars, JobInv, SuccessMeansJobSucceeded, OwnsLease, KnowsJob
<1>2. CASE Quiet
  BY <1>0, <1>2, QuietKeepsJobs
<1>3. CASE Environment
  BY <1>2, <1>3, EnvironmentKinds, ReconcileKeepsJobs
<1>4. CASE Tick
  BY <1>2, <1>4, TickKinds, ClaimKeepsJobs
<1>5. ASSUME NEW e \in execs, Execute(e)
      PROVE  JobInv'
  BY <1>2, <1>5, ExecuteKinds, StartKeepsJobs, MovesKeepJobs, FinishKeepsJobs, CheckpointsKeepJobs
<1>6. QED
  BY <1>1, <1>3, <1>4, <1>5 DEF Next

\* A run with a remote job succeeds only if the checkpointed job succeeded:
\* FinishRun of executeRun, whatever claims, checkpoints, recoveries and
\* reconciliations of other attempts come in between.
THEOREM SuccessMeansJobSucceededHolds == Spec => []SuccessMeansJobSucceeded
<1>1. Init => JobInv
  BY DEF Init, JobInv, SuccessMeansJobSucceeded
<1>2. JobInv => SuccessMeansJobSucceeded
  BY DEF JobInv
<1>3. QED
  BY InvAlways, ClaimsApartAlways, JobInvNext, <1>1, <1>2, PTL DEF Spec
-----------------------------------------------------------------------------
(* Coalescing keeps a successor.                                           *)

\* While runs are being skipped, a waiting run keeps its row.
LEMMA WaitingStays ==
  ASSUME Inv, Next, phase \in {"skip", "unlease"}, NEW k \in RunIds,
         status[k] \in Queued, jobs[k[1]] = "none", k \in skips => k \in skips'
  PROVE  status'[k] = status[k] /\ due'[k] = due[k] /\ jobs'[k[1]] = "none"
<1>0. /\ TypeOK /\ LeaseIffActive /\ RetryChain
      /\ k[1] \in Occurrences /\ k \in RunsOf(k[1])
  BY RunIdParts DEF Inv, TypeInv, LedgerInv, RunsOf
<1>1. status[k] \notin Active /\ status[k] # "none" /\ lease[k] = 0
  BY <1>0 DEF Active, Queued, LeaseIffActive
<1>2. ASSUME NEW r \in RunIds, NEW st, lease[r] # 0, ReleaseRunTx(r) \/ FinishRunTx(r, st)
      PROVE  status'[k] = status[k] /\ due'[k] = due[k] /\ jobs' = jobs
  BY <1>0, <1>1, <1>2 DEF ReleaseRunTx, FinishRunTx, TypeOK
<1>3. CASE Environment
  <2>1. ASSUME NEW o \in Occurrences, NEW late \in Lateness, InsertRun(o, late)
        PROVE  status'[k] = status[k] /\ due'[k] = due[k] /\ jobs' = jobs
    BY <1>0, <1>1, <2>1 DEF InsertRun, TypeOK
  <2>2. ASSUME NEW o \in Occurrences, NEW st \in JobTerminal, ReconcileExternalJob(o, st)
        PROVE  status' = status /\ due' = due /\ jobs'[k[1]] = jobs[k[1]]
    BY <1>0, <2>2 DEF ReconcileExternalJob, TypeOK
  <2>3. QED
    BY <1>3, <2>1, <2>2 DEF Environment, AdvanceClock, EditPolicy, Restart, ledgerVars
<1>4. CASE Tick
  <2>1. ASSUME NEW q \in skips, SkipQueuedRun(q)
        PROVE  status'[k] = status[k] /\ due' = due /\ jobs' = jobs
    BY <1>0, <2>1 DEF SkipQueuedRun, TypeOK
  <2>2. QED
    BY <1>4, <2>1
    DEF Tick, TickBegin, RecoverClaimed, RecoverRunning, CancelRecovered, TickAbort,
        ListCandidateRuns, GetSchedule, PrepareScheduleForClaim, UnresolvedExternalJobCount,
        ListActiveRuns, CancelReplaced, CandidateError, EnforceQueuePolicy, ClearSkippedLease,
        ClaimRunWithToken, TickEnd, ledgerVars
<1>5. ASSUME NEW e \in execs, Execute(e)
      PROVE  status'[k] = status[k] /\ due'[k] = due[k] /\ jobs'[k[1]] = "none"
  <2>0. e.run \in RunIds /\ e.run[1] \in Occurrences
    BY <1>0, RunIdParts DEF TypeOK, Execution
  <2>1. ASSUME OwnsLease(e)
        PROVE  lease[e.run] # 0 /\ e.run # k /\ e.run[1] # k[1]
    <3>1. status[e.run] \in Active /\ lease[e.run] # 0 /\ e.run # k
      BY <1>0, <1>1, <2>0, <2>1 DEF OwnsLease, LeaseIffActive
    <3>2. e.run[1] # k[1]
      BY <1>0, <2>0, <3>1, LiveAlone DEF Queued
    <3>3. QED
      BY <3>1, <3>2
  <2>2. CASE FinishExecution(e)
    BY <1>2, <2>0, <2>1, <2>2 DEF FinishExecution, OwnsLiveLease, ledgerVars
  <2>3. CASE MarkRunRunning(e)
    BY <1>0, <2>0, <2>1, <2>3 DEF MarkRunRunning, OwnsLiveLease, TypeOK
  <2>4. ASSUME CheckpointSubmission(e) \/ \E st \in JobTerminal : CheckpointTerminal(e, st)
        PROVE  status' = status /\ due' = due /\ jobs'[k[1]] = jobs[k[1]]
    BY <1>0, <2>0, <2>1, <2>4 DEF CheckpointSubmission, CheckpointTerminal, OwnsLiveLease, TypeOK
  <2>5. QED
    BY <1>5, <2>2, <2>3, <2>4
    DEF Execute, BeginExecution, registerCancel, HeartbeatBegin, RenewLeaseWithToken, ContextEnds,
        ExecutorReturns, AbandonExecution, ledgerVars
<1>6. QED
  BY <1>3, <1>4, <1>5 DEF Next

\* enforceQueuePolicy keeps one of the newest; skipping the others leaves it.
LEMMA SuccessorNext == Inv /\ SuccessorKept /\ [Next]_vars => SuccessorKept'
<1> SUFFICES ASSUME Inv, SuccessorKept, [Next]_vars, phase' \in {"skip", "unlease"}
             PROVE  \E k \in RunIds : KeptRun(k)'
  BY DEF SuccessorKept
<1>1. CASE UNCHANGED vars
  BY <1>1 DEF vars, ledgerVars, tickVars, SuccessorKept, KeptRun
<1>2. CASE EnforceQueuePolicy
  <2>1. PICK pending : pending = Unsubmitted(ScheduleOf[cur[1]])
    OBVIOUS
  <2>2. skips' # {} /\ UNCHANGED <<status, due, jobs>>
    BY <1>2 DEF EnforceQueuePolicy, ledgerVars
  <2>3. PICK keep \in Newest(pending) : skips' = pending \ {keep}
    BY <1>2, <2>1, <2>2 DEF EnforceQueuePolicy
  <2>4. keep \in RunIds /\ keep \in pending /\ \A q \in pending : due[q] <= due[keep]
    BY <2>1, <2>3 DEF Newest, Unsubmitted, RunsOfSchedule
  <2>5. KeptRun(keep)'
    BY <2>1, <2>2, <2>3, <2>4 DEF KeptRun, Unsubmitted, RunsOfSchedule
  <2>6. QED
    BY <2>4, <2>5
<1>3. CASE Next /\ ~EnforceQueuePolicy
  <2>1. phase \in {"skip", "unlease"} /\ skips' \subseteq skips
    <3>1. CASE Environment
      BY <1>3, <3>1
      DEF Environment, AdvanceClock, InsertRun, EditPolicy, Restart, ReconcileExternalJob, tickVars
    <3>2. CASE Tick
      BY <1>3, <3>2
      DEF Tick, TickBegin, RecoverClaimed, RecoverRunning, TickAbort, ListCandidateRuns,
          CancelRecovered, GetSchedule, PrepareScheduleForClaim, UnresolvedExternalJobCount,
          ListActiveRuns, CancelReplaced, CandidateError, SkipQueuedRun, ClearSkippedLease,
          ClaimRunWithToken, TickEnd
    <3>3. ASSUME NEW e \in execs, Execute(e)
          PROVE  UNCHANGED <<phase, skips>>
      BY <3>3
      DEF Execute, BeginExecution, MarkRunRunning, registerCancel, HeartbeatBegin,
          RenewLeaseWithToken, ContextEnds, CheckpointSubmission, CheckpointTerminal, ExecutorReturns,
          FinishExecution, AbandonExecution, tickVars
    <3>4. QED
      BY <1>3, <3>1, <3>2, <3>3 DEF Next
  <2>2. PICK k \in RunIds : KeptRun(k)
    BY <2>1 DEF SuccessorKept
  <2>3. status'[k] = status[k] /\ due'[k] = due[k] /\ jobs'[k[1]] = "none"
    BY <1>3, <2>1, <2>2, WaitingStays DEF KeptRun
  <2>4. ASSUME NEW q \in skips' PROVE q \in skips /\ due'[q] = due[q]
    <3>1. q \in skips /\ q \in RunIds /\ status[q] \in Queued /\ jobs[q[1]] = "none"
      BY <2>1 DEF Inv, TypeInv, TypeOK, SkipsQueued
    <3>2. QED
      BY <1>3, <2>1, <3>1, WaitingStays
  <2>5. KeptRun(k)'
    BY <2>1, <2>2, <2>3, <2>4 DEF KeptRun
  <2>6. QED
    BY <2>5
<1>4. QED
  BY <1>1, <1>2, <1>3

\* Coalescing keeps the newest: when enforceQueuePolicy skips a run, another
\* unsubmitted run of the schedule that is due no earlier is still queued.
THEOREM SkipLeavesSuccessorHolds == Spec => SkipLeavesSuccessor
<1> DEFINE Kept == \A r \in RunIds : status'[r] = "skipped" /\ status[r] # "skipped"
                      => \E q \in Unsubmitted(ScheduleOf[r[1]]) \ {r} :
                           due[q] >= due[r] /\ status'[q] \in Queued
<1>1. Init => SuccessorKept
  BY DEF Init, SuccessorKept
<1>2. Inv /\ SuccessorKept /\ [Next]_vars => [Kept]_vars
  <2> SUFFICES ASSUME Inv, SuccessorKept, Next, NEW r \in RunIds,
                      status'[r] = "skipped", status[r] # "skipped"
               PROVE  \E q \in Unsubmitted(ScheduleOf[r[1]]) \ {r} :
                        due[q] >= due[r] /\ status'[q] \in Queued
    OBVIOUS
  <2>1. r \in skips /\ SkipQueuedRun(r)
    BY SkippedBySkip
  <2>2. PICK k \in RunIds : KeptRun(k)
    BY <2>1 DEF SkipQueuedRun, SuccessorKept
  <2>3. k # r /\ k \in Unsubmitted(ScheduleOf[r[1]]) /\ due[r] <= due[k]
    BY <2>1, <2>2 DEF KeptRun, Unsubmitted, RunsOfSchedule
  <2>4. status'[k] = status[k] /\ status[k] \in Queued
    BY <2>1, <2>2, WaitingStays DEF KeptRun, SkipQueuedRun
  <2>5. due[k] >= due[r]
    BY <2>3 DEF Inv, TypeInv, TypeOK
  <2>6. QED
    BY <2>3, <2>4, <2>5
<1>3. QED
  BY InvAlways, SuccessorNext, <1>1, <1>2, PTL DEF Spec, SkipLeavesSuccessor

=============================================================================
