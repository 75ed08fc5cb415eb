----------------------- MODULE ServiceLifecycleProofs -----------------------
(***************************************************************************)
(* Proofs about ServiceLifecycle: for any number of executions, closers,   *)
(* requests and Runs, CloseContext closes the store last, and no execution *)
(* starts once an earlier Shutdown waits for them, as long as the owner    *)
(* does not call Run after it began to close.                              *)
(***************************************************************************)
EXTENDS ServiceLifecycle, TLAPS

-----------------------------------------------------------------------------
(***************************************************************************)
(* The inductive invariant.                                                *)
(***************************************************************************)

LoopsOff == planner = "off" /\ dispatch = "off"

\* While Run is in progress the service has its handle; the loops do not
\* outlive their Run.
RunHasHandle ==
    /\ Running => runDone = runs
    /\ ~LoopsOff => Running

\* A closer waits for the Run that is in progress, if any, as long as no other
\* begins after it.
CloserKnowsRun ==
    ~reopened => \A c \in AllClosers : closer[c].pc # "idle" /\ Running => closer[c].waitsFor = runs

\* A closer that drains the executions has seen the loops end.
DrainsAfterLoops ==
    ~reopened => \A c \in AllClosers : closer[c].pc \in {"drain", "closed"} => LoopsOff

\* The store is closed by a closer that has waited for every execution.
ClosedAfterDrain ==
    store = "closed" =>
        /\ \E c \in AllClosers : closer[c].pc = "closed"
        /\ ~reopened => \A e \in Execs : execs[e] = NoExec

\* runServe closes the service after the HTTP server.
ServerFirst ==
    /\ owner = "serve" =>
        \A c \in AllClosers : closer[c].pc # "idle" => http \in {"down", "late", "failed"}
    /\ http \in {"starting", "failed", "down"} => handlers = {}

Inv ==
    /\ TypeOK
    /\ RunHasHandle
    /\ CloserKnowsRun
    /\ DrainsAfterLoops
    /\ ClosedAfterDrain
    /\ ServerFirst

-----------------------------------------------------------------------------

\* A new service satisfies the invariant.
LEMMA InitInv == Init => Inv
<1>. SUFFICES ASSUME Init PROVE Inv
  OBVIOUS
<1>1. MaxRuns \in Nat /\ 0 \in 0..MaxRuns
  BY LifecycleAssumption
<1>2. NoExec \in Executions
  BY <1>1 DEF NoExec, Executions
<1>3. [pc |-> "idle", waitsFor |-> 0] \in Closings
  BY <1>1 DEF Closings
<1>4. TypeOK
  BY <1>1, <1>2, <1>3 DEF Init, TypeOK
<1>. QED
  BY <1>4 DEF Init, Inv, RunHasHandle, CloserKnowsRun, DrainsAfterLoops, ClosedAfterDrain,
     ServerFirst, Running, LoopsOff

\* The updates of executions and closers keep their types.
LEMMA UpdateTypes ==
    ASSUME TypeOK
    PROVE  /\ \A e \in Execs : \A pc \in {"starting", "registered", "finishing"} :
                [execs EXCEPT ![e].pc = pc] \in [Execs -> Executions]
           /\ \A e \in Execs : [execs EXCEPT ![e] = NoExec] \in [Execs -> Executions]
           /\ \A c \in AllClosers : \A pc \in {"drain", "closed", "timeout"} :
                [closer EXCEPT ![c].pc = pc] \in [AllClosers -> Closings]
<1>1. NoExec \in Executions
  BY LifecycleAssumption DEF NoExec, Executions
<1>2. ASSUME NEW e \in Execs, NEW pc \in {"starting", "registered", "finishing"}
      PROVE  [execs[e] EXCEPT !.pc = pc] \in Executions
  BY DEF TypeOK, Executions
<1>3. ASSUME NEW c \in AllClosers, NEW pc \in {"drain", "closed", "timeout"}
      PROVE  [closer[c] EXCEPT !.pc = pc] \in Closings
  BY DEF TypeOK, Closings
<1>. QED
  BY <1>1, <1>2, <1>3 DEF TypeOK

\* Every step keeps the types.
LEMMA TypeStep == TypeOK /\ RunHasHandle /\ [Next]_vars => TypeOK'
<1>. SUFFICES ASSUME TypeOK, RunHasHandle, [Next]_vars PROVE TypeOK'
  OBVIOUS
<1>0. MaxRuns \in Nat /\ runs \in Nat
  BY LifecycleAssumption DEF TypeOK
<1>1. CASE BeginRun
  <2>1. runs < MaxRuns /\ runs' = runs + 1 /\ runDone' = runs'
    BY <1>0, <1>1, LifecycleAssumption DEF BeginRun
  <2>2. runs' \in 0..MaxRuns /\ 1..runs \subseteq 1..runs'
    BY <1>0, <2>1
  <2>. QED
    BY <1>1, <2>1, <2>2 DEF BeginRun, TypeOK, httpVars
<1>2. ASSUME NEW r \in 1..MaxRuns, ParentEnds(r) PROVE TypeOK'
  BY <1>2 DEF ParentEnds, TypeOK, httpVars
<1>3. CASE PlannerTick \/ PlannerWakes \/ PlannerStops
  BY <1>3 DEF PlannerTick, PlannerWakes, PlannerStops, TypeOK, runVars, httpVars
<1>4. CASE Claim \/ DispatchTick \/ DispatchWakes \/ DispatchStops
  BY <1>4 DEF Claim, DispatchTick, DispatchWakes, DispatchStops, TypeOK, runVars, httpVars
<1>5. CASE RunReturns
  <2>1. runs \in 1..runs
    BY <1>0, <1>5 DEF RunReturns, Running
  <2>. QED
    BY <1>5, <2>1 DEF RunReturns, TypeOK, httpVars
<1>6. CASE ClearRunState
  BY <1>6 DEF ClearRunState, TypeOK, httpVars
<1>7. ASSUME NEW e \in Execs, StartExecution(e) PROVE TypeOK'
  <2>1. [pc |-> "starting", run |-> runs, cancelled |-> FALSE] \in Executions
    BY <1>0 DEF TypeOK, Executions
  <2>. QED
    BY <1>7, <2>1 DEF StartExecution, TypeOK, runVars, httpVars
<1>8. ASSUME NEW e \in Execs, Execution(e) PROVE TypeOK'
  <2>1. execs' \in [Execs -> Executions]
    BY <1>8, UpdateTypes DEF Execution, Register, ExecutionAborts, ExecutorReturns, ExecutionEnds
  <2>. QED
    BY <1>8, <2>1 DEF Execution, Register, ExecutionAborts, ExecutorReturns, ExecutionEnds, TypeOK,
       runVars, httpVars
<1>9. ASSUME NEW c \in AllClosers, CloseBegin(c) PROVE TypeOK'
  <2>1. runDone \in 0..MaxRuns /\ {runDone} \ {0} \subseteq 1..runs
    BY <1>0 DEF TypeOK
  <2>2. [pc |-> "wait", waitsFor |-> runDone] \in Closings
    BY <2>1 DEF Closings
  <2>. QED
    BY <1>9, <2>1, <2>2 DEF CloseBegin, TypeOK, httpVars
<1>10. ASSUME NEW c \in AllClosers, Shutdown(c) PROVE TypeOK'
  <2>1. ASSUME NEW e \in Execs
        PROVE  [execs[e] EXCEPT !.cancelled = @ \/ execs[e].pc = "registered"] \in Executions
    <3>1. PICK b \in BOOLEAN : b = (execs[e].cancelled \/ execs[e].pc = "registered")
      OBVIOUS
    <3>. QED
      BY <3>1 DEF TypeOK, Executions
  <2>2. closer' \in [AllClosers -> Closings]
    BY <1>10, UpdateTypes DEF Shutdown, Closing
  <2>3. execs' \in [Execs -> Executions]
    BY <1>10, <2>1 DEF Shutdown
  <2>. QED
    BY <1>10, <2>2, <2>3 DEF Shutdown, TypeOK, runVars, httpVars
<1>11. ASSUME NEW c \in AllClosers, CloseStore(c) \/ CloseTimeout(c) PROVE TypeOK'
  <2>1. closer' \in [AllClosers -> Closings]
    BY <1>11, UpdateTypes DEF CloseStore, CloseTimeout, Closing
  <2>. QED
    BY <1>11, <2>1 DEF CloseStore, CloseTimeout, TypeOK, runVars, httpVars
<1>12. ASSUME NEW h \in Handlers, RequestBegins(h) \/ RequestEnds(h) PROVE TypeOK'
  BY <1>12 DEF RequestBegins, RequestEnds, TypeOK, runVars
<1>13. CASE Listen \/ ServerShutdown \/ ServerDown \/ ServerTimeout
  BY <1>13 DEF Listen, ServerShutdown, ServerDown, ServerTimeout, TypeOK, runVars
<1>14. CASE UNCHANGED vars
  BY <1>14 DEF vars, runVars, httpVars, TypeOK
<1>. QED
  BY <1>1, <1>2, <1>3, <1>4, <1>5, <1>6, <1>7, <1>8, <1>9, <1>10, <1>11, <1>12, <1>13, <1>14
     DEF Next, Loops, Close

-----------------------------------------------------------------------------
(***************************************************************************)
(* The run loop and the closers.                                           *)
(***************************************************************************)

\* Nothing starts the loops again or takes the handle from a Run in progress.
LEMMA HandleStep == TypeOK /\ RunHasHandle /\ [Next]_vars => RunHasHandle'
<1>. SUFFICES ASSUME TypeOK, RunHasHandle, [Next]_vars PROVE RunHasHandle'
  OBVIOUS
<1>. USE DEF RunHasHandle, LoopsOff, Running
<1>0. runs \in Nat /\ done \subseteq 1..runs
  BY LifecycleAssumption DEF TypeOK
<1>1. CASE BeginRun
  <2>1. runs' = runs + 1 /\ runDone' = runs + 1 /\ done' = done
    BY <1>1 DEF BeginRun
  <2>2. runs + 1 \notin done /\ runs + 1 # 0
    BY <1>0
  <2>. QED
    BY <2>1, <2>2
<1>2. ASSUME NEW r \in 1..MaxRuns, ParentEnds(r) PROVE RunHasHandle'
  BY <1>2 DEF ParentEnds
<1>3. CASE PlannerTick \/ PlannerWakes \/ PlannerStops
  BY <1>3 DEF PlannerTick, PlannerWakes, PlannerStops, runVars
<1>4. CASE Claim \/ DispatchTick \/ DispatchWakes \/ DispatchStops
  BY <1>4 DEF Claim, DispatchTick, DispatchWakes, DispatchStops, runVars
<1>5. CASE RunReturns
  BY <1>5 DEF RunReturns
<1>6. CASE ClearRunState
  BY <1>6 DEF ClearRunState
<1>7. ASSUME NEW e \in Execs, StartExecution(e) PROVE RunHasHandle'
  BY <1>7 DEF StartExecution, runVars
<1>8. ASSUME NEW e \in Execs, Execution(e) PROVE RunHasHandle'
  BY <1>8 DEF Execution, Register, ExecutionAborts, ExecutorReturns, ExecutionEnds, runVars
<1>9. ASSUME NEW c \in AllClosers, CloseBegin(c) \/ Close(c) \/ CloseTimeout(c) PROVE RunHasHandle'
  BY <1>9 DEF CloseBegin, Close, Shutdown, CloseStore, CloseTimeout, runVars
<1>10. ASSUME NEW h \in Handlers, RequestBegins(h) \/ RequestEnds(h) PROVE RunHasHandle'
  BY <1>10 DEF RequestBegins, RequestEnds, runVars
<1>11. CASE Listen \/ ServerShutdown \/ ServerDown \/ ServerTimeout
  BY <1>11 DEF Listen, ServerShutdown, ServerDown, ServerTimeout, runVars
<1>12. CASE UNCHANGED vars
  BY <1>12 DEF vars, runVars
<1>. QED
  BY <1>1, <1>2, <1>3, <1>4, <1>5, <1>6, <1>7, <1>8, <1>9, <1>10, <1>11, <1>12 DEF Next, Loops

\* What has been reopened stays so.
LEMMA ReopenedStays == TypeOK /\ reopened /\ [Next]_vars => reopened'
<1>. SUFFICES ASSUME TypeOK, reopened, [Next]_vars PROVE reopened'
  OBVIOUS
<1>1. CASE BeginRun
  BY <1>1 DEF BeginRun
<1>2. ASSUME NEW r \in 1..MaxRuns, ParentEnds(r) PROVE reopened'
  BY <1>2 DEF ParentEnds
<1>3. CASE Loops
  BY <1>3 DEF Loops, PlannerTick, PlannerWakes, PlannerStops, Claim, DispatchTick, DispatchWakes,
     DispatchStops, RunReturns, ClearRunState, runVars
<1>4. ASSUME NEW e \in Execs, StartExecution(e) \/ Execution(e) PROVE reopened'
  BY <1>4 DEF StartExecution, Execution, Register, ExecutionAborts, ExecutorReturns, ExecutionEnds,
     runVars
<1>5. ASSUME NEW c \in AllClosers, CloseBegin(c) \/ Close(c) \/ CloseTimeout(c) PROVE reopened'
  BY <1>5 DEF CloseBegin, Close, Shutdown, CloseStore, CloseTimeout, runVars
<1>6. ASSUME NEW h \in Handlers, RequestBegins(h) \/ RequestEnds(h) PROVE reopened'
  BY <1>6 DEF RequestBegins, RequestEnds, runVars
<1>7. CASE Listen \/ ServerShutdown \/ ServerDown \/ ServerTimeout
  BY <1>7 DEF Listen, ServerShutdown, ServerDown, ServerTimeout, runVars
<1>8. CASE UNCHANGED vars
  BY <1>8 DEF vars, runVars
<1>. QED
  BY <1>1, <1>2, <1>3, <1>4, <1>5, <1>6, <1>7, <1>8 DEF Next

\* What every step outside the closers does to what a closer knows: it keeps
\* the closers, and a Run that begins once one of them is not idle shows.
LEMMA OthersKeepClosers ==
    ASSUME TypeOK, [Next]_vars,
           ~ \E c \in AllClosers : CloseBegin(c) \/ Close(c) \/ CloseTimeout(c)
    PROVE  /\ closer' = closer
           /\ store' = store
           /\ ~reopened' /\ Running' /\ CloseRequested => runs' = runs /\ Running
<1>. USE DEF Running
<1>1. CASE BeginRun
  BY <1>1 DEF BeginRun
<1>2. ASSUME NEW r \in 1..MaxRuns, ParentEnds(r)
      PROVE  closer' = closer /\ store' = store /\ runs' = runs /\ done' = done
  BY <1>2 DEF ParentEnds
<1>3. CASE Loops
  BY <1>3 DEF Loops, PlannerTick, PlannerWakes, PlannerStops, Claim, DispatchTick, DispatchWakes,
     DispatchStops, RunReturns, ClearRunState, runVars
<1>4. ASSUME NEW e \in Execs, StartExecution(e) \/ Execution(e)
      PROVE  closer' = closer /\ store' = store /\ runs' = runs /\ done' = done
  BY <1>4 DEF StartExecution, Execution, Register, ExecutionAborts, ExecutorReturns, ExecutionEnds,
     runVars
<1>5. ASSUME NEW h \in Handlers, RequestBegins(h) \/ RequestEnds(h)
      PROVE  closer' = closer /\ store' = store /\ runs' = runs /\ done' = done
  BY <1>5 DEF RequestBegins, RequestEnds, runVars
<1>6. CASE Listen \/ ServerShutdown \/ ServerDown \/ ServerTimeout
  BY <1>6 DEF Listen, ServerShutdown, ServerDown, ServerTimeout, runVars
<1>7. CASE UNCHANGED vars
  BY <1>7 DEF vars, runVars
<1>. QED
  BY <1>1, <1>2, <1>3, <1>4, <1>5, <1>6, <1>7 DEF Next

\* What a closer's own step does to the closers and to the Run.
LEMMA CloserStep ==
    ASSUME TypeOK, NEW c \in AllClosers, CloseBegin(c) \/ Close(c) \/ CloseTimeout(c)
    PROVE  /\ \A d \in AllClosers \ {c} : closer'[d] = closer[d]
           /\ closer[c].pc = "idle" => CloseBegin(c) /\ closer'[c] = [pc |-> "wait", waitsFor |-> runDone]
           /\ closer[c].pc # "idle" => closer'[c].waitsFor = closer[c].waitsFor
           /\ closer[c].pc # "idle" => (closer'[c].pc \in {"drain", "closed"} =>
                 Shutdown(c) \/ closer[c].pc = "drain")
           /\ UNCHANGED <<runs, runDone, done, planner, dispatch, http, handlers, owner>>
<1>1. closer \in [AllClosers -> Closings]
  BY DEF TypeOK
<1>2. CASE CloseBegin(c)
  BY <1>1, <1>2 DEF CloseBegin, httpVars
<1>3. CASE Shutdown(c)
  BY <1>1, <1>3 DEF Shutdown, Closing, Closings, httpVars, runVars
<1>4. CASE CloseStore(c)
  BY <1>1, <1>4 DEF CloseStore, Closing, Closings, httpVars, runVars
<1>5. CASE CloseTimeout(c)
  BY <1>1, <1>5 DEF CloseTimeout, Closing, Closings, httpVars, runVars
<1>. QED
  BY <1>2, <1>3, <1>4, <1>5 DEF Close

\* A closer names the Run that is in progress.
LEMMA CloserKnowsStep ==
    TypeOK /\ RunHasHandle /\ CloserKnowsRun /\ [Next]_vars => CloserKnowsRun'
<1>. SUFFICES ASSUME TypeOK, RunHasHandle, CloserKnowsRun, [Next]_vars,
                     ~reopened', NEW d \in AllClosers, closer'[d].pc # "idle", Running'
              PROVE  closer'[d].waitsFor = runs'
  BY DEF CloserKnowsRun, AllClosers
<1>0. ~reopened
  BY ReopenedStays
<1>1. CASE \E c \in AllClosers : CloseBegin(c) \/ Close(c) \/ CloseTimeout(c)
  <2>1. PICK c \in AllClosers : CloseBegin(c) \/ Close(c) \/ CloseTimeout(c)
    BY <1>1
  <2>2. Running /\ runs' = runs
    BY <2>1, CloserStep DEF Running
  <2>3. CASE d = c /\ closer[c].pc = "idle"
    BY <2>1, <2>2, <2>3, CloserStep DEF RunHasHandle
  <2>4. CASE d # c \/ closer[c].pc # "idle"
    BY <1>0, <2>1, <2>2, <2>4, CloserStep DEF CloserKnowsRun
  <2>. QED
    BY <2>3, <2>4
<1>2. CASE ~ \E c \in AllClosers : CloseBegin(c) \/ Close(c) \/ CloseTimeout(c)
  BY <1>0, <1>2, OthersKeepClosers DEF CloserKnowsRun, CloseRequested
<1>. QED
  BY <1>1, <1>2

\* No Run is in progress once a closer drains the executions.
LEMMA ShutdownAfterRun ==
    ASSUME TypeOK, RunHasHandle, CloserKnowsRun, ~reopened, NEW c \in AllClosers, Shutdown(c)
    PROVE  LoopsOff
  BY DEF Shutdown, RunStopped, CloserKnowsRun, RunHasHandle, Running

\* The loops stay off for a closer that has seen them end.
LEMMA DrainsStep ==
    TypeOK /\ RunHasHandle /\ CloserKnowsRun /\ DrainsAfterLoops /\ [Next]_vars => DrainsAfterLoops'
<1>. SUFFICES ASSUME TypeOK, RunHasHandle, CloserKnowsRun, DrainsAfterLoops, [Next]_vars,
                     ~reopened', NEW d \in AllClosers, closer'[d].pc \in {"drain", "closed"}
              PROVE  LoopsOff'
  BY DEF DrainsAfterLoops, AllClosers
<1>0. ~reopened
  BY ReopenedStays
<1>1. CASE \E c \in AllClosers : CloseBegin(c) \/ Close(c) \/ CloseTimeout(c)
  <2>1. PICK c \in AllClosers : CloseBegin(c) \/ Close(c) \/ CloseTimeout(c)
    BY <1>1
  <2>2. LoopsOff
    <3>1. CASE d = c
      BY <1>0, <2>1, <3>1, CloserStep, ShutdownAfterRun DEF DrainsAfterLoops
    <3>2. CASE d # c
      BY <1>0, <2>1, <3>2, CloserStep DEF DrainsAfterLoops
    <3>. QED
      BY <3>1, <3>2
  <2>. QED
    BY <2>1, <2>2, CloserStep DEF LoopsOff
<1>2. CASE ~ \E c \in AllClosers : CloseBegin(c) \/ Close(c) \/ CloseTimeout(c)
  <2>1. closer[d].pc \in {"drain", "closed"} /\ closer' = closer
    BY <1>2, OthersKeepClosers
  <2>2. LoopsOff /\ CloseRequested
    BY <1>0, <2>1 DEF DrainsAfterLoops, CloseRequested
  <2>3. ~Loops \/ LoopsOff'
    BY <2>2 DEF Loops, LoopsOff, PlannerTick, PlannerWakes, PlannerStops, Claim, DispatchTick,
       DispatchWakes, DispatchStops, RunReturns, ClearRunState
  <2>4. ~BeginRun
    BY <2>2 DEF BeginRun
  <2>5. ASSUME NEW r \in 1..MaxRuns, ParentEnds(r) PROVE LoopsOff'
    BY <2>2, <2>5 DEF ParentEnds, LoopsOff
  <2>6. ASSUME NEW e \in Execs, StartExecution(e) \/ Execution(e) PROVE LoopsOff'
    BY <2>2, <2>6 DEF StartExecution, Execution, Register, ExecutionAborts, ExecutorReturns,
       ExecutionEnds, LoopsOff
  <2>7. ASSUME NEW h \in Handlers, RequestBegins(h) \/ RequestEnds(h) PROVE LoopsOff'
    BY <2>2, <2>7 DEF RequestBegins, RequestEnds, LoopsOff
  <2>8. CASE Listen \/ ServerShutdown \/ ServerDown \/ ServerTimeout
    BY <2>2, <2>8 DEF Listen, ServerShutdown, ServerDown, ServerTimeout, LoopsOff
  <2>9. CASE UNCHANGED vars
    BY <2>2, <2>9 DEF vars, LoopsOff
  <2>. QED
    BY <1>2, <2>3, <2>4, <2>5, <2>6, <2>7, <2>8, <2>9 DEF Next
<1>. QED
  BY <1>1, <1>2

-----------------------------------------------------------------------------
(***************************************************************************)
(* The executions and the store.                                           *)
(***************************************************************************)

\* Writing the flag an execution has already changes nothing.
LEMMA SameFlag ==
    ASSUME NEW x \in Executions, NEW b \in BOOLEAN, x.cancelled = b
    PROVE  [x EXCEPT !.cancelled = b] = x
  BY DEF Executions

\* With the dispatcher loop stopped an execution only goes forward.
LEMMA NoNewExecution ==
    ASSUME TypeOK, LoopsOff, [Next]_vars, NEW e \in Execs
    PROVE  /\ execs'[e].pc = "starting" => execs[e].pc = "starting"
           /\ execs[e] = NoExec => execs'[e] = NoExec
<1>1. execs \in [Execs -> Executions]
  BY DEF TypeOK
<1>2. CASE UNCHANGED execs
  BY <1>2
<1>3. ASSUME NEW d \in Execs, StartExecution(d) PROVE FALSE
  BY <1>3 DEF StartExecution, LoopsOff
<1>4. ASSUME NEW d \in Execs, Execution(d)
      PROVE  /\ execs'[e].pc = "starting" => execs[e].pc = "starting"
             /\ execs[e] = NoExec => execs'[e] = NoExec
  <2>1. CASE d = e
    BY <1>1, <1>4, <2>1 DEF Execution, Register, ExecutionAborts, ExecutorReturns, ExecutionEnds,
       NoExec, Executions
  <2>2. CASE d # e
    BY <1>1, <1>4, <2>2 DEF Execution, Register, ExecutionAborts, ExecutorReturns, ExecutionEnds
  <2>. QED
    BY <2>1, <2>2
<1>5. ASSUME NEW c \in AllClosers, Shutdown(c)
      PROVE  /\ execs'[e].pc = "starting" => execs[e].pc = "starting"
             /\ execs[e] = NoExec => execs'[e] = NoExec
  <2>1. execs'[e] = [execs[e] EXCEPT !.cancelled = @ \/ execs[e].pc = "registered"]
    BY <1>5 DEF Shutdown
  <2>2. execs'[e].pc = execs[e].pc
    BY <1>1, <2>1 DEF Executions
  <2>3. execs[e] = NoExec => execs'[e] = NoExec
    <3>. SUFFICES ASSUME execs[e] = NoExec PROVE execs'[e] = NoExec
      OBVIOUS
    <3>1. ~(execs[e].cancelled \/ execs[e].pc = "registered")
      BY DEF NoExec
    <3>2. PICK b \in BOOLEAN : b = (execs[e].cancelled \/ execs[e].pc = "registered")
      OBVIOUS
    <3>3. execs'[e] = [execs[e] EXCEPT !.cancelled = b]
      BY <2>1, <3>2
    <3>4. execs[e].cancelled \in BOOLEAN
      BY <1>1 DEF Executions
    <3>5. execs[e].cancelled = b
      BY <3>1, <3>2, <3>4
    <3>. QED
      BY <1>1, <3>3, <3>5, SameFlag
  <2>. QED
    BY <2>2, <2>3
<1>6. ASSUME NEW c \in AllClosers, CloseBegin(c) \/ CloseStore(c) \/ CloseTimeout(c)
      PROVE  UNCHANGED execs
  BY <1>6 DEF CloseBegin, CloseStore, CloseTimeout
<1>7. CASE BeginRun \/ Loops
  BY <1>2, <1>7 DEF BeginRun, Loops, PlannerTick, PlannerWakes, PlannerStops, Claim, DispatchTick,
     DispatchWakes, DispatchStops, RunReturns, ClearRunState
<1>8. ASSUME NEW r \in 1..MaxRuns, ParentEnds(r) PROVE UNCHANGED execs
  BY <1>8 DEF ParentEnds
<1>9. ASSUME NEW h \in Handlers, RequestBegins(h) \/ RequestEnds(h) PROVE UNCHANGED execs
  BY <1>9 DEF RequestBegins, RequestEnds
<1>10. CASE Listen \/ ServerShutdown \/ ServerDown \/ ServerTimeout
  BY <1>2, <1>10 DEF Listen, ServerShutdown, ServerDown, ServerTimeout
<1>11. CASE UNCHANGED vars
  BY <1>2, <1>11 DEF vars
<1>. QED
  BY <1>2, <1>3, <1>4, <1>5, <1>6, <1>7, <1>8, <1>9, <1>10, <1>11 DEF Next, Close

\* The store is closed with nobody at work, and nobody starts work after it.
LEMMA ClosedStep ==
    TypeOK /\ DrainsAfterLoops /\ ClosedAfterDrain /\ [Next]_vars => ClosedAfterDrain'
<1>. SUFFICES ASSUME TypeOK, DrainsAfterLoops, ClosedAfterDrain, [Next]_vars, store' = "closed"
              PROVE  /\ \E c \in AllClosers : closer'[c].pc = "closed"
                     /\ ~reopened' => \A e \in Execs : execs'[e] = NoExec
  BY DEF ClosedAfterDrain, AllClosers, NoExec
<1>0. closer \in [AllClosers -> Closings]
  BY DEF TypeOK
<1>1. ASSUME NEW c \in AllClosers, CloseStore(c)
      PROVE  closer'[c].pc = "closed" /\ \A e \in Execs : execs'[e] = NoExec
  BY <1>0, <1>1 DEF CloseStore, Closing, Closings, Drained
<1>2. CASE ~ \E c \in AllClosers : CloseStore(c)
  <2>1. store = "closed"
    <3>1. ASSUME NEW c \in AllClosers, CloseBegin(c) \/ Close(c) \/ CloseTimeout(c)
          PROVE  store' = store
      BY <1>2, <3>1 DEF CloseBegin, Close, Shutdown, CloseTimeout
    <3>. QED
      BY <3>1, OthersKeepClosers
  <2>2. PICK c \in AllClosers : closer[c].pc = "closed"
    BY <2>1 DEF ClosedAfterDrain
  <2>3. closer'[c].pc = "closed"
    <3>1. ASSUME NEW d \in AllClosers, CloseBegin(d) \/ Close(d) \/ CloseTimeout(d)
          PROVE  d # c
      BY <2>2, <3>1 DEF CloseBegin, Close, Shutdown, CloseStore, CloseTimeout
    <3>2. ASSUME NEW d \in AllClosers, CloseBegin(d) \/ Close(d) \/ CloseTimeout(d)
          PROVE  closer'[c] = closer[c]
      BY <3>1, <3>2, CloserStep
    <3>. QED
      BY <2>2, <3>2, OthersKeepClosers
  <2>4. ASSUME ~reopened' PROVE \A e \in Execs : execs'[e] = NoExec
    <3>1. ~reopened
      BY <2>4, ReopenedStays
    <3>2. LoopsOff
      BY <2>2, <3>1 DEF DrainsAfterLoops
    <3>. QED
      BY <2>1, <3>1, <3>2, NoNewExecution DEF ClosedAfterDrain
  <2>. QED
    BY <2>3, <2>4
<1>. QED
  BY <1>1, <1>2

\* runServe's Close comes after the HTTP server, which starts no request then.
LEMMA ServerStep == TypeOK /\ ServerFirst /\ [Next]_vars => ServerFirst'
<1>. SUFFICES ASSUME TypeOK, ServerFirst, [Next]_vars PROVE ServerFirst'
  OBVIOUS
<1>1. ASSUME NEW c \in AllClosers, CloseBegin(c) \/ Close(c) \/ CloseTimeout(c) PROVE ServerFirst'
  <2>1. UNCHANGED <<http, handlers, owner>>
    BY <1>1, CloserStep
  <2>2. ASSUME owner = "serve", NEW d \in AllClosers, closer'[d].pc # "idle"
        PROVE  http \in {"down", "late", "failed"}
    <3>1. CASE closer[d].pc # "idle"
      BY <2>2, <3>1 DEF ServerFirst
    <3>2. CASE closer[d].pc = "idle"
      <4>1. d = c /\ CloseBegin(c)
        BY <1>1, <2>2, <3>2, CloserStep
      <4>. QED
        BY <2>2, <4>1 DEF CloseBegin, MayClose, ServerGroupEnded
    <3>. QED
      BY <3>1, <3>2
  <2>. QED
    BY <2>1, <2>2 DEF ServerFirst, AllClosers
<1>2. CASE ~ \E c \in AllClosers : CloseBegin(c) \/ Close(c) \/ CloseTimeout(c)
  <2>1. closer' = closer
    BY <1>2, OthersKeepClosers
  <2>2. CASE UNCHANGED <<http, handlers, owner>>
    BY <2>1, <2>2 DEF ServerFirst, AllClosers
  <2>3. CASE BeginRun \/ Loops
    BY <2>2, <2>3 DEF BeginRun, Loops, PlannerTick, PlannerWakes, PlannerStops, Claim, DispatchTick,
       DispatchWakes, DispatchStops, RunReturns, ClearRunState, runVars, httpVars
  <2>4. ASSUME NEW r \in 1..MaxRuns, ParentEnds(r) PROVE UNCHANGED <<http, handlers, owner>>
    BY <2>4 DEF ParentEnds, httpVars
  <2>5. ASSUME NEW e \in Execs, StartExecution(e) \/ Execution(e)
        PROVE  UNCHANGED <<http, handlers, owner>>
    BY <2>5 DEF StartExecution, Execution, Register, ExecutionAborts, ExecutorReturns, ExecutionEnds,
       runVars, httpVars
  <2>6. ASSUME NEW h \in Handlers, RequestBegins(h) \/ RequestEnds(h) PROVE ServerFirst'
    BY <2>1, <2>6 DEF RequestBegins, RequestEnds, ServerFirst, AllClosers, runVars
  <2>7. CASE Listen \/ ServerShutdown \/ ServerDown \/ ServerTimeout
    BY <2>1, <2>7 DEF Listen, ServerShutdown, ServerDown, ServerTimeout, ServerFirst, AllClosers,
       runVars
  <2>8. CASE UNCHANGED vars
    BY <2>2, <2>8 DEF vars, runVars, httpVars
  <2>. QED
    BY <1>2, <2>2, <2>3, <2>4, <2>5, <2>6, <2>7, <2>8 DEF Next
<1>. QED
  BY <1>1, <1>2

-----------------------------------------------------------------------------
(***************************************************************************)
(* The theorems.                                                           *)
(***************************************************************************)

\* The invariant holds in every state.
LEMMA InvAlways == Spec => []Inv
<1>1. Inv /\ [Next]_vars => Inv'
  BY TypeStep, HandleStep, CloserKnowsStep, DrainsStep, ClosedStep, ServerStep DEF Inv
<1>. QED
  BY <1>1, InitInv, PTL DEF Spec

\* The variables of Service, Dispatcher and runServe hold values of their
\* types, and Service.runDone is the handle of the last Run or none.
THEOREM LifecycleTypeCorrect == Spec => []TypeOK
<1>1. Inv => TypeOK
  BY DEF Inv
<1>. QED
  BY <1>1, InvAlways, PTL

\* CloseContext closes the store after the loops and every execution, for any
\* number of closers, executions and Runs, unless Run is called again once the
\* service closes.
THEOREM StoreClosedLastHolds == Spec => []StoreClosedLast
<1>1. Inv => StoreClosedLast
  BY DEF Inv, ClosedAfterDrain, DrainsAfterLoops, StoreClosedLast, LoopsOff
<1>. QED
  BY <1>1, InvAlways, PTL

\* No execution joins activeWG once a Shutdown waits on it, unless Run is
\* called again once the service closes.
THEOREM NoAddAfterWaitHolds == Spec => NoAddAfterWait
<1>1. Inv /\ [Next]_vars =>
        [~reopened /\ (\E c \in AllClosers : closer[c].pc \in {"drain", "closed"}) =>
            \A e \in Execs : execs'[e].pc = "starting" => execs[e].pc = "starting"]_vars
  BY NoNewExecution DEF Inv, DrainsAfterLoops
<1>. QED
  BY <1>1, InvAlways, PTL DEF Spec, NoAddAfterWait

\* Under runServe the store closes under no request but those that
\* server.Shutdown gave up.
THEOREM RequestsSeeStoreHolds == Spec => []RequestsSeeStore
<1>1. Inv => RequestsSeeStore
  BY DEF Inv, ClosedAfterDrain, ServerFirst, RequestsSeeStore
<1>. QED
  BY <1>1, InvAlways, PTL

=============================================================================
