--------------------------- MODULE TriggerEvents ---------------------------
(***************************************************************************)
(* Deliveries of external events to one schedule: Store.TriggerEvent as    *)
(* concurrent transactions, each statement a step, on a pool of            *)
(* connections, with pauses, deletion, execution and retention of the runs *)
(* and the death of the daemon around them.                                *)
(*                                                                         *)
(* Transactions are READ COMMITTED, as on PostgreSQL: an insert that meets *)
(* an uncommitted row of the same key waits for that transaction to end.   *)
(* With one connection, the pool of SQLite, they follow each other.        *)
(***************************************************************************)
EXTENDS Naturals, FiniteSets

CONSTANTS
    Deliveries,  \* requests; each brings its own candidate for the run's ID
    Events,      \* event identities: source and ID
    Data,        \* payloads
    EventOf,     \* the event a delivery carries
    DataOf,      \* its payload
    MaxConns     \* connections of the pool (1 on SQLite, 20 on PostgreSQL)

ASSUME DeliveryAssumption ==
    EventOf \in [Deliveries -> Events] /\ DataOf \in [Deliveries -> Data]
ASSUME PoolAssumption == MaxConns \in Nat \ {0}

VARIABLES
    schedule,  \* the schedule row: "enabled", "paused" or "deleted"
    events,    \* trigger_events: payload and run ID by event identity
    runs,      \* runs created, by the delivery that created them
    holder,    \* the transaction with an uncommitted trigger_events row
    req        \* the requests: step, what they read, their answer

vars == <<schedule, events, runs, holder, req>>

NoEvent == [run |-> "none"]
Nobody == "nobody"
ASSUME NobodyAssumption == Nobody \notin Deliveries

\* Steps of a request in its transaction, and the one after it.
InTx == {"insert", "prior", "new"}
Done == {"answered", "lost"}

Idle == [pc |-> "idle", enabled |-> FALSE, run |-> "none", answer |-> "none"]

Init ==
    /\ schedule = "enabled"
    /\ events = [e \in Events |-> NoEvent]
    /\ runs = [d \in Deliveries |-> "none"]
    /\ holder = [e \in Events |-> Nobody]
    /\ req = [d \in Deliveries |-> Idle]

\* Mutant: the transaction is kept while the run is read.
InUseUntilRead == {d \in Deliveries : req[d].pc \in InTx \union {"get"}}

InUse == {d \in Deliveries : req[d].pc \in InTx}
FreeConn == Cardinality(InUse) < MaxConns

Event(d) == EventOf[d]
Step(d, pc) == req' = [req EXCEPT ![d].pc = pc]
Answer(d, a) == req' = [req EXCEPT ![d].pc = "answered", ![d].answer = a]

\* The end of a transaction releases the row it may have inserted.
Release(d) == holder' = [e \in Events |-> IF holder[e] = d THEN Nobody ELSE holder[e]]

-----------------------------------------------------------------------------

\* BeginTx and the read of the schedule.
Begin(d) ==
    /\ req[d].pc = "idle"
    /\ FreeConn
    /\ IF schedule = "deleted"
       THEN Answer(d, "not_found")
       ELSE req' = [req EXCEPT ![d].pc = "insert", ![d].enabled = (schedule = "enabled")]
    /\ UNCHANGED <<schedule, events, runs, holder>>

\* Mutant: an event is known by its run, not by a record of its own.
KnownByRun(d) ==
    \E c \in Deliveries : Event(c) = Event(d) /\ runs[c] \in {"pending", "ended"}

\* INSERT ... ON CONFLICT DO NOTHING: waits for a row in progress, meets a
\* committed row, or leaves a row of its own; the foreign key refuses it
\* when the schedule is gone.
Known(d) == events[Event(d)] # NoEvent

Insert(d) ==
    /\ req[d].pc = "insert"
    /\ holder[Event(d)] = Nobody
    /\ \/ /\ schedule = "deleted"
          /\ Answer(d, "error")
          /\ UNCHANGED holder
       \/ /\ schedule # "deleted" /\ Known(d)
          /\ Step(d, "prior")
          /\ UNCHANGED holder
       \/ /\ schedule # "deleted" /\ ~Known(d)
          /\ holder' = [holder EXCEPT ![Event(d)] = d]
          /\ Step(d, "new")
    /\ UNCHANGED <<schedule, events, runs>>

\* Mutant: the payloads are not compared.
SameDataAlways(d) == TRUE

\* The event was delivered before: its payload decides, and the transaction
\* ends before the run is read on a connection of the pool.
SameData(d) == events[Event(d)].data = DataOf[d]

Prior(d) ==
    /\ req[d].pc = "prior"
    /\ \/ ~Known(d) /\ Answer(d, "error")
       \/ Known(d) /\ ~SameData(d) /\ Answer(d, "conflict")
       \/ Known(d) /\ SameData(d)
            /\ req' = [req EXCEPT ![d].pc = "get", ![d].run = events[Event(d)].run]
    /\ UNCHANGED <<schedule, events, runs, holder>>

\* GetRun: the run of the first delivery, or 410 when it is not there any more.
GetRun(d) ==
    /\ req[d].pc = "get"
    /\ FreeConn
    /\ Answer(d, IF runs[req[d].run] \in {"pending", "ended"} THEN "duplicate" ELSE "gone")
    /\ UNCHANGED <<schedule, events, runs, holder>>

\* Mutant: the refusal of a paused schedule commits the event.
NewKeepsEvent(d) ==
    /\ req[d].pc = "new"
    /\ Release(d)
    /\ events' = [events EXCEPT ![Event(d)] = [run |-> d, data |-> DataOf[d]]]
    /\ runs' = [runs EXCEPT ![d] = IF req[d].enabled THEN "pending" ELSE "none"]
    /\ Answer(d, IF req[d].enabled THEN "error" ELSE "paused")
    /\ UNCHANGED schedule

\* The first delivery: event and run are committed together; a schedule that
\* was paused refuses it and nothing remains.
New(d) ==
    /\ req[d].pc = "new"
    /\ Release(d)
    /\ \/ /\ ~req[d].enabled
          /\ Answer(d, "paused")
          /\ UNCHANGED <<events, runs>>
       \/ /\ req[d].enabled
          /\ events' = [events EXCEPT ![Event(d)] = [run |-> d, data |-> DataOf[d]]]
          /\ runs' = [runs EXCEPT ![d] = "pending"]
          /\ \/ req' = [req EXCEPT ![d].pc = "answered", ![d].answer = "created", ![d].run = d]
             \/ Answer(d, "error")   \* committed, and the confirmation lost
    /\ UNCHANGED schedule

\* The request is cancelled or a statement fails: rollback.
Abort(d) ==
    /\ req[d].pc \in InTx \union {"get"}
    /\ Release(d)
    /\ Answer(d, "error")
    /\ UNCHANGED <<schedule, events, runs>>

\* The daemon dies: open transactions roll back, requests are lost.
Crash ==
    /\ \E d \in Deliveries : req[d].pc \in InTx \union {"get"}
    /\ holder' = [e \in Events |-> Nobody]
    /\ req' = [d \in Deliveries |->
                IF req[d].pc \in InTx \union {"get"} THEN [req[d] EXCEPT !.pc = "lost"] ELSE req[d]]
    /\ UNCHANGED <<schedule, events, runs>>

-----------------------------------------------------------------------------

Pause ==
    /\ schedule = "enabled"
    /\ schedule' = "paused"
    /\ UNCHANGED <<events, runs, holder, req>>

Resume ==
    /\ schedule = "paused"
    /\ schedule' = "enabled"
    /\ UNCHANGED <<events, runs, holder, req>>

\* DELETE with its cascades waits for inserts that reference the row.
Delete ==
    /\ schedule # "deleted"
    /\ \A e \in Events : holder[e] = Nobody
    /\ schedule' = "deleted"
    /\ events' = [e \in Events |-> NoEvent]
    /\ runs' = [d \in Deliveries |-> IF runs[d] = "none" THEN "none" ELSE "deleted"]
    /\ UNCHANGED <<holder, req>>

\* The dispatcher brings a run to its end (RunLedger.tla).
EndRun(d) ==
    /\ runs[d] = "pending"
    /\ runs' = [runs EXCEPT ![d] = "ended"]
    /\ UNCHANGED <<schedule, events, holder, req>>

\* PruneTerminalRunsBefore leaves trigger_events alone.
Prune(S) ==
    /\ S # {}
    /\ runs' = [d \in Deliveries |-> IF d \in S THEN "pruned" ELSE runs[d]]
    /\ UNCHANGED <<schedule, events, holder, req>>

Request(d) == Begin(d) \/ Insert(d) \/ Prior(d) \/ GetRun(d) \/ New(d)

Next ==
    \/ \E d \in Deliveries : Request(d) \/ Abort(d) \/ EndRun(d)
    \/ \E S \in SUBSET {d \in Deliveries : runs[d] = "ended"} : Prune(S)
    \/ Crash
    \/ Pause
    \/ Resume
    \/ Delete

Spec == Init /\ [][Next]_vars

\* A request that can take its next step does; nobody else has to act.  A
\* connection or a row that is free again and again reaches everyone in turn.
FairSpec == Spec /\ \A d \in Deliveries : SF_vars(Request(d))

-----------------------------------------------------------------------------
(***************************************************************************)
(* Correctness.                                                            *)
(***************************************************************************)

Answers == {"none", "not_found", "paused", "created", "duplicate", "gone", "conflict", "error"}

Requests ==
    [pc : {"idle", "get"} \union InTx \union Done, enabled : BOOLEAN,
     run : Deliveries \union {"none"}, answer : Answers]

\* Types of the tables and of the requests.
TypeOK ==
    /\ schedule \in {"enabled", "paused", "deleted"}
    /\ events \in [Events -> [run : Deliveries, data : Data] \union {NoEvent}]
    /\ runs \in [Deliveries -> {"none", "pending", "ended", "pruned", "deleted"}]
    /\ holder \in [Events -> Deliveries \union {Nobody}]
    /\ req \in [Deliveries -> Requests]

\* An event runs at most once: over racing and repeated deliveries, crashes,
\* lost confirmations and retention of the first run (events.go:22).
OneRunPerEvent ==
    \A c, d \in Deliveries :
        runs[c] # "none" /\ runs[d] # "none" /\ Event(c) = Event(d) => c = d

\* No event is swallowed: a recorded event has the run its record names, with
\* the event's own payload.
EventHasRun ==
    \A e \in Events : events[e] # NoEvent =>
        /\ runs[events[e].run] # "none"
        /\ Event(events[e].run) = e
        /\ DataOf[events[e].run] = events[e].data

\* What a sender is told is so: a run it is given is the run of its event and
\* payload, only one sender is told that it created it, 410 stands for a run
\* that existed, and 409 for another payload that was recorded.
AnswersTrue ==
    \A d \in Deliveries :
        LET q == req[d]
            created(c) == Event(c) = Event(d) /\ runs[c] # "none"
        IN  /\ q.answer \in {"created", "duplicate", "gone"} =>
                created(q.run) /\ DataOf[q.run] = DataOf[d]
            /\ q.answer = "created" => q.run = d
            /\ q.answer = "gone" => runs[q.run] \in {"pruned", "deleted"}
            /\ q.answer = "conflict" =>
                \E c \in Deliveries : created(c) /\ DataOf[c] # DataOf[d]

\* Every delivery is answered, or lost with the daemon: requests that wait for
\* each other's rows and connections do not wait for ever.
AllAnswered == \A d \in Deliveries : <>(req[d].pc \in Done)
=============================================================================
