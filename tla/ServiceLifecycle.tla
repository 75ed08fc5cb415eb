-------------------------- MODULE ServiceLifecycle --------------------------
(***************************************************************************)
(* Start and stop of the service: Run with its planner and dispatcher      *)
(* loops, the executions they start, CloseContext with and without a       *)
(* deadline, Dispatcher.Shutdown, and runServe, which drives them together *)
(* with the HTTP server.                                                   *)
(*                                                                         *)
(* A service is owned either by runServe ("serve") or by a program that    *)
(* embeds it, as examples/embedded does.  Contexts are named by the Run    *)
(* they belong to; an execution's context derives from the context of the  *)
(* Run whose tick started it.                                              *)
(***************************************************************************)
EXTENDS Naturals, FiniteSets

CONSTANTS
    Execs,     \* executeRun goroutines
    Closers,   \* callers of CloseContext in an embedding program
    Handlers,  \* HTTP requests
    Server,    \* runServe, which calls Close
    MaxRuns    \* bound: calls of Run

ASSUME LifecycleAssumption == Server \notin Closers /\ MaxRuns \in Nat \ {0}

VARIABLES
    owner,      \* who owns the service
    runs,       \* calls of Run so far; the last one may be in progress
    runDone,    \* Service.runDone and runCancel: the Run they are of, 0: nil
    ended,      \* Runs whose parent context ended, begun or not
    cancelled,  \* Runs whose own context is cancelled
    done,       \* Runs whose done channel is closed
    reopened,   \* history: a Run began after a CloseContext had
    planner,    \* the scheduler loop
    dispatch,   \* the dispatcher loop
    execs,      \* executions: step, Run, and whether cancelled by Shutdown
    closer,     \* calls of CloseContext
    http,       \* the HTTP server
    handlers,   \* requests in progress
    store       \* the database handle

runVars == <<owner, runs, runDone, ended, cancelled, done, reopened>>
httpVars == <<http, handlers>>
vars == <<runVars, planner, dispatch, execs, closer, httpVars, store>>

AllClosers == Closers \union {Server}
NoExec == [pc |-> "none", run |-> 0, cancelled |-> FALSE]

Running == runs # 0 /\ runs \notin done
CtxDone(r) == r \in ended \union cancelled
CloseRequested == \E c \in AllClosers : closer[c].pc # "idle"

Init ==
    /\ owner \in {"serve", "embedder"}
    /\ runs = 0
    /\ runDone = 0
    /\ ended = {}
    /\ cancelled = {}
    /\ done = {}
    /\ reopened = FALSE
    /\ planner = "off"
    /\ dispatch = "off"
    /\ execs = [e \in Execs |-> NoExec]
    /\ closer = [c \in AllClosers |-> [pc |-> "idle", waitsFor |-> 0]]
    /\ http = "starting"
    /\ handlers = {}
    /\ store = "open"

-----------------------------------------------------------------------------
(***************************************************************************)
(* Run and its loops.                                                      *)
(***************************************************************************)

\* beginRun refuses a second Run beside another, and no other: not one after
\* CloseContext, which an embedding program may call.  runServe calls Run once.
BeginRun ==
    /\ runDone = 0
    /\ runs < IF owner = "serve" THEN 1 ELSE MaxRuns
    /\ owner = "serve" => http \notin {"starting", "failed"}
    /\ reopened' = (reopened \/ CloseRequested)
    /\ runs' = runs + 1
    /\ runDone' = runs + 1
    /\ planner' = "tick"
    /\ dispatch' = "tick"
    /\ UNCHANGED <<owner, ended, cancelled, done, execs, closer, httpVars, store>>

\* The parent context ends: a signal, or the HTTP server failed.
ParentEnds(r) ==
    /\ ended' = ended \union {r}
    /\ UNCHANGED <<owner, runs, runDone, cancelled, done, reopened>>
    /\ UNCHANGED <<planner, dispatch, execs, closer, httpVars, store>>

PlannerTick ==
    /\ planner = "tick"
    /\ planner' = "wait"
    /\ UNCHANGED <<runVars, dispatch, execs, closer, httpVars, store>>

\* The select after a tick: with both channels ready, either is taken.
PlannerWakes ==
    /\ planner = "wait"
    /\ planner' = "tick"
    /\ UNCHANGED <<runVars, dispatch, execs, closer, httpVars, store>>

PlannerStops ==
    /\ planner = "wait"
    /\ CtxDone(runs)
    /\ planner' = "off"
    /\ UNCHANGED <<runVars, dispatch, execs, closer, httpVars, store>>

\* Within pruneRetention and Tick, a claim is committed ...
Claim ==
    /\ dispatch = "tick"
    /\ ~CtxDone(runs)
    /\ dispatch' = "claimed"
    /\ UNCHANGED <<runVars, planner, execs, closer, httpVars, store>>

\* ... and its execution joins activeWG and starts.
StartExecution(e) ==
    /\ dispatch = "claimed"
    /\ execs[e] = NoExec
    /\ execs' = [execs EXCEPT ![e] = [pc |-> "starting", run |-> runs, cancelled |-> FALSE]]
    /\ dispatch' = "tick"
    /\ UNCHANGED <<runVars, planner, closer, httpVars, store>>

DispatchTick ==
    /\ dispatch = "tick"
    /\ dispatch' = "wait"
    /\ UNCHANGED <<runVars, planner, execs, closer, httpVars, store>>

DispatchWakes ==
    /\ dispatch = "wait"
    /\ dispatch' = "tick"
    /\ UNCHANGED <<runVars, planner, execs, closer, httpVars, store>>

DispatchStops ==
    /\ dispatch = "wait"
    /\ CtxDone(runs)
    /\ dispatch' = "off"
    /\ UNCHANGED <<runVars, planner, execs, closer, httpVars, store>>

\* group.Wait returned: the context is cancelled and done is closed ...
RunReturns ==
    /\ Running
    /\ planner = "off" /\ dispatch = "off"
    /\ cancelled' = cancelled \union {runs}
    /\ done' = done \union {runs}
    /\ UNCHANGED <<owner, runs, runDone, ended, reopened>>
    /\ UNCHANGED <<planner, dispatch, execs, closer, httpVars, store>>

\* ... then clearRunState.
ClearRunState ==
    /\ runDone # 0 /\ runDone \in done
    /\ runDone' = 0
    /\ UNCHANGED <<owner, runs, ended, cancelled, done, reopened>>
    /\ UNCHANGED <<planner, dispatch, execs, closer, httpVars, store>>

-----------------------------------------------------------------------------
(***************************************************************************)
(* executeRun.                                                             *)
(***************************************************************************)

\* Mutant: executions get a context of their own, which only Shutdown ends.
ExecCancelledByShutdown(e) == execs[e].cancelled

\* Its context derives from the one of its Run, also before it is registered
\* with the dispatcher.
ExecCancelled(e) == execs[e].cancelled \/ CtxDone(execs[e].run)

Register(e) ==
    /\ execs[e].pc = "starting"
    /\ execs' = [execs EXCEPT ![e].pc = "registered"]
    /\ UNCHANGED <<runVars, planner, dispatch, closer, httpVars, store>>

\* The store refuses one of the first reads or writes: executeRun returns.
ExecutionAborts(e) ==
    /\ execs[e].pc = "starting"
    /\ execs' = [execs EXCEPT ![e] = NoExec]
    /\ UNCHANGED <<runVars, planner, dispatch, closer, httpVars, store>>

\* The executor returns by itself.
ExecutorReturns(e) ==
    /\ execs[e].pc = "registered"
    /\ execs' = [execs EXCEPT ![e].pc = "finishing"]
    /\ UNCHANGED <<runVars, planner, dispatch, closer, httpVars, store>>

\* A cooperative executor returns because its context ended.
ExecutorStops(e) == ExecCancelled(e) /\ ExecutorReturns(e)

\* The outcome is written with a context of its own, whatever was cancelled.
ExecutionEnds(e) ==
    /\ execs[e].pc = "finishing"
    /\ execs' = [execs EXCEPT ![e] = NoExec]
    /\ UNCHANGED <<runVars, planner, dispatch, closer, httpVars, store>>

-----------------------------------------------------------------------------
(***************************************************************************)
(* CloseContext and Dispatcher.Shutdown.                                   *)
(***************************************************************************)

Closing(c, pc) == closer' = [closer EXCEPT ![c].pc = pc]

\* Mutant: the deferred Close waits for Run but not for the HTTP server.
RunEnded == runs # 0 /\ ~Running

\* runServe calls Close after its group ended: Run has returned, and so has
\* server.Shutdown.
ServerGroupEnded == http \in {"down", "late"} /\ runs # 0 /\ ~Running

MayClose(c) ==
    \/ owner = "serve" /\ c = Server /\ (ServerGroupEnded \/ http = "failed")
    \/ owner = "embedder" /\ c \in Closers

\* runtimeHandle, and the cancellation of the Run it names.
CloseBegin(c) ==
    /\ closer[c].pc = "idle"
    /\ MayClose(c)
    /\ closer' = [closer EXCEPT ![c] = [pc |-> "wait", waitsFor |-> runDone]]
    /\ cancelled' = cancelled \union ({runDone} \ {0})
    /\ UNCHANGED <<owner, runs, runDone, ended, done, reopened>>
    /\ UNCHANGED <<planner, dispatch, execs, httpVars, store>>

\* Mutant: CloseContext goes on without waiting for the run loop.
RunStoppedNow(c) == c \in AllClosers

RunStopped(c) == closer[c].waitsFor \in done \union {0}

\* Shutdown: cancels the executions registered at this moment.
Shutdown(c) ==
    /\ closer[c].pc = "wait"
    /\ RunStopped(c)
    /\ execs' = [e \in Execs |-> [execs[e] EXCEPT !.cancelled = @ \/ execs[e].pc = "registered"]]
    /\ Closing(c, "drain")
    /\ UNCHANGED <<runVars, planner, dispatch, httpVars, store>>

\* Mutant: Shutdown waits for the registered executions only.
DrainedActive == \A e \in Execs : execs[e].pc \notin {"registered", "finishing"}

Drained == \A e \in Execs : execs[e] = NoExec

\* activeWG.Wait returned.
CloseStore(c) ==
    /\ closer[c].pc = "drain"
    /\ Drained
    /\ store' = "closed"
    /\ Closing(c, "closed")
    /\ UNCHANGED <<runVars, planner, dispatch, execs, httpVars>>

\* The deadline of the caller's context: Close gives it five seconds, a caller
\* of CloseContext any time or none.
CloseTimeout(c) ==
    /\ closer[c].pc \in {"wait", "drain"}
    /\ Closing(c, "timeout")
    /\ UNCHANGED <<runVars, planner, dispatch, execs, httpVars, store>>

-----------------------------------------------------------------------------
(***************************************************************************)
(* The HTTP server of runServe; a program that embeds the service has its  *)
(* own.                                                                    *)
(***************************************************************************)

\* net.Listen; without an address runServe returns.
Listen ==
    /\ owner = "serve"
    /\ http = "starting"
    /\ http' \in {"serving", "failed"}
    /\ UNCHANGED <<runVars, planner, dispatch, execs, closer, handlers, store>>

\* Also on a connection accepted before server.Shutdown, as long as it is open.
RequestBegins(h) ==
    /\ http \in {"serving", "draining", "late"}
    /\ handlers' = handlers \union {h}
    /\ h \notin handlers
    /\ UNCHANGED <<runVars, planner, dispatch, execs, closer, http, store>>

RequestEnds(h) ==
    /\ h \in handlers
    /\ handlers' = handlers \ {h}
    /\ UNCHANGED <<runVars, planner, dispatch, execs, closer, http, store>>

\* The context of the group ended: no more connections are accepted.
ServerShutdown ==
    /\ http = "serving"
    /\ 1 \in ended
    /\ http' = "draining"
    /\ UNCHANGED <<runVars, planner, dispatch, execs, closer, handlers, store>>

\* server.Shutdown returns when the requests ended, or after five seconds;
\* then what is left of them is given up ("late").
ServerDown ==
    /\ http = "draining"
    /\ handlers = {}
    /\ http' = "down"
    /\ UNCHANGED <<runVars, planner, dispatch, execs, closer, handlers, store>>

ServerTimeout ==
    /\ http = "draining"
    /\ http' = "late"
    /\ UNCHANGED <<runVars, planner, dispatch, execs, closer, handlers, store>>

-----------------------------------------------------------------------------

Loops ==
    \/ PlannerTick \/ PlannerWakes \/ PlannerStops
    \/ Claim \/ DispatchTick \/ DispatchWakes \/ DispatchStops
    \/ RunReturns \/ ClearRunState

Execution(e) == Register(e) \/ ExecutionAborts(e) \/ ExecutorReturns(e) \/ ExecutionEnds(e)

Close(c) == Shutdown(c) \/ CloseStore(c)

Next ==
    \/ BeginRun
    \/ \E r \in (1..MaxRuns) \ ended : ParentEnds(r)
    \/ Loops
    \/ \E e \in Execs : StartExecution(e) \/ Execution(e)
    \/ \E c \in AllClosers : CloseBegin(c) \/ Close(c) \/ CloseTimeout(c)
    \/ \E h \in Handlers : RequestBegins(h) \/ RequestEnds(h)
    \/ Listen \/ ServerShutdown \/ ServerDown \/ ServerTimeout

Spec == Init /\ [][Next]_vars

(***************************************************************************)
(* The Go scheduler runs every goroutine, and a select takes each channel  *)
(* that is ready infinitely often (strong fairness of the two stops).      *)
(* Executors are cooperative: they return once their context ended.        *)
(* server.Shutdown returns, if only at its deadline.  Nothing obliges a    *)
(* request to end, an executor to return by itself, or an embedding        *)
(* program to call Run or Close; runServe calls both.                      *)
(***************************************************************************)
Fairness ==
    /\ WF_vars(owner = "serve" /\ BeginRun)
    /\ WF_vars(PlannerTick) /\ SF_vars(PlannerStops)
    /\ WF_vars(DispatchTick) /\ SF_vars(DispatchStops)
    /\ WF_vars(\E e \in Execs : StartExecution(e))
    /\ WF_vars(RunReturns) /\ WF_vars(ClearRunState)
    /\ \A e \in Execs :
        WF_vars(Register(e)) /\ WF_vars(ExecutorStops(e)) /\ WF_vars(ExecutionEnds(e))
    /\ WF_vars(CloseBegin(Server))
    /\ \A c \in AllClosers : WF_vars(Close(c))
    /\ WF_vars(Listen) /\ WF_vars(ServerShutdown) /\ WF_vars(ServerDown \/ ServerTimeout)

FairSpec == Spec /\ Fairness

-----------------------------------------------------------------------------
(***************************************************************************)
(* Properties.                                                             *)
(***************************************************************************)

Executions ==
    [pc : {"none", "starting", "registered", "finishing"}, run : 0..MaxRuns, cancelled : BOOLEAN]
Closings ==
    [pc : {"idle", "wait", "drain", "closed", "timeout"}, waitsFor : 0..MaxRuns]

\* Types of the lifecycle's state; Service.runDone names no Run but the last.
TypeOK ==
    /\ owner \in {"serve", "embedder"}
    /\ runs \in 0..MaxRuns
    /\ runDone \in {0, runs}
    /\ ended \subseteq 1..MaxRuns
    /\ cancelled \subseteq 1..runs
    /\ done \subseteq 1..runs
    /\ reopened \in BOOLEAN
    /\ planner \in {"off", "tick", "wait"}
    /\ dispatch \in {"off", "tick", "claimed", "wait"}
    /\ execs \in [Execs -> Executions]
    /\ closer \in [AllClosers -> Closings]
    /\ http \in {"starting", "failed", "serving", "draining", "down", "late"}
    /\ handlers \subseteq Handlers
    /\ store \in {"open", "closed"}

\* CloseContext closes the store under nobody: once it is closed both loops
\* have stopped and every execution, registered or not, has written its
\* outcome (docs/architecture.md: "to avoid closing underneath active work"),
\* unless the owner has called Run again after it began to close.
StoreClosedLast ==
    store = "closed" /\ ~reopened =>
        /\ planner = "off" /\ dispatch = "off"
        /\ \A e \in Execs : execs[e] = NoExec

\* No execution joins activeWG while a Shutdown waits on it, or after:
\* WaitGroup.Add must not race with Wait, and the new execution would be
\* neither cancelled nor waited for.  Only an owner that calls Run again after
\* it began to close brings this about.
NoAddAfterWait ==
    [][~reopened /\ (\E c \in AllClosers : closer[c].pc \in {"drain", "closed"}) =>
            \A e \in Execs : execs'[e].pc = "starting" => execs[e].pc = "starting"]_vars

\* Under runServe a request that is still running when the store closes is
\* one that server.Shutdown, after its five seconds, did not wait for.
RequestsSeeStore ==
    owner = "serve" /\ store = "closed" /\ handlers # {} => http = "late"

\* A shutdown completes: a Close that began returns, with no execution that
\* escaped the cancellation of Shutdown because it was not registered yet
\* keeping it waiting, unless Run is called again; and a signal ends runServe,
\* the loops, the HTTP server and the deferred Close one after the other.
ShutdownCompletes ==
    /\ \A c \in AllClosers :
        closer[c].pc = "wait" ~> closer[c].pc \in {"closed", "timeout"} \/ reopened
    /\ owner = "serve" /\ 1 \in ended ~> closer[Server].pc \in {"closed", "timeout"}
=============================================================================
