------------------------------- MODULE Runner -------------------------------
(***************************************************************************)
(* The example automation runner (examples/automation-runner): the remote  *)
(* side of a tracked HTTP job.  A job table in memory, its copy in         *)
(* jobs.json, HTTP handlers that accept jobs, a queue, workers that make a *)
(* report and deliver a notification, and a provider that takes the        *)
(* notification.  The process may crash, shut down and start again, and a  *)
(* write of the table may fail before or after the new file is in place.   *)
(*                                                                         *)
(* One action is one critical section of runner.mu, one channel operation  *)
(* or one HTTP exchange.                                                   *)
(***************************************************************************)
EXTENDS Naturals, Sequences, FiniteSets

CONSTANTS
    Keys,           \* idempotency keys; a job's ID is the hash of its key
    Offers,         \* the submissions clients make: <<key, instructions>>
    Workers,        \* worker goroutines (two in newRunner)
    MaxJobs,        \* maxJobs: capacity of the table and of the queue
    MaxDeliveries,  \* maxDeliveries: sends of one notification
    MaxStops,       \* bound: ends of the process (crash or shutdown)
    MaxFaults       \* bound: writes of jobs.json that fail

ASSUME RunnerBounds ==
    /\ Offers \subseteq Keys \X {"plain", "webhook", "native"}
    /\ MaxJobs \in Nat \ {0}
    /\ MaxDeliveries \in Nat \ {0}
    /\ MaxStops \in Nat
    /\ MaxFaults \in Nat

VARIABLES
    mem,        \* runner.jobs
    disk,       \* jobs.json
    phase,      \* where the process is between newRunner and its end
    handlers,   \* submissions recorded, not yet answered and put on the queue
    queue,      \* runner.queue
    worker,     \* the worker goroutines
    flight,     \* notifications on their way: <<key, attempt>>
    sends,      \* history: notifications sent
    accepts,    \* history: notifications the provider accepted
    unsaved,    \* history: keys with an update this process failed to save
    stops,      \* ends of the process so far
    faults      \* failed writes so far

store == <<mem, disk, unsaved, faults>>
history == <<sends, accepts>>
vars == <<store, phase, handlers, queue, worker, flight, history, stops>>

\* How a job is notified: not at all, by a webhook that honours an
\* idempotency key, or by a native provider (Discord, Gmail) that has none.
Requests == {"plain", "webhook", "native"}

NoJob == [status |-> "none"]
Unfinished == {"queued", "running"}
Undelivered == {"pending", "sending"}

Jobs ==
    [req : Requests,
     status : {"queued", "running", "succeeded", "failed"},
     result : BOOLEAN,
     delivery : {"none", "pending", "sending", "sent", "failed", "unknown"},
     attempts : 0..MaxDeliveries]

Recorded(table) == {k \in Keys : table[k] # NoJob}
Resumable(table) == {k \in Keys : table[k].status \in Unfinished}

CtxDone == phase \in {"stopping", "closed", "released"}
Closed == phase \in {"closed", "released"}
Locked == phase \in {"up", "stopping", "closed"}

Idle == [pc |-> "idle", key |-> "none", reply |-> "none"]

Init ==
    /\ mem = [k \in Keys |-> NoJob]
    /\ disk = [k \in Keys |-> NoJob]
    /\ phase = "down"
    /\ handlers = {}
    /\ queue = <<>>
    /\ worker = [w \in Workers |-> Idle]
    /\ flight = {}
    /\ sends = [k \in Keys |-> 0]
    /\ accepts = [k \in Keys |-> 0]
    /\ unsaved = {}
    /\ stops = 0
    /\ faults = 0

-----------------------------------------------------------------------------
(***************************************************************************)
(* The process.                                                            *)
(***************************************************************************)

Orders(S) ==
    {s \in [1..Cardinality(S) -> S] : \A i, j \in DOMAIN s : s[i] = s[j] => i = j}

\* newRunner: takes the lock, loads the table and queues what is unfinished,
\* in the order of a Go map.  It refuses a table over capacity.
Restart ==
    /\ phase = "down"
    /\ Cardinality(Recorded(disk)) <= MaxJobs
    /\ phase' = "up"
    /\ mem' = disk
    /\ queue' \in Orders(Resumable(disk))
    /\ unsaved' = {}
    /\ UNCHANGED <<disk, handlers, worker, flight, history, stops, faults>>

\* The process is gone: handlers, queue and workers with it.
ProcessEnds ==
    /\ phase' = "down"
    /\ mem' = [k \in Keys |-> NoJob]
    /\ handlers' = {}
    /\ queue' = <<>>
    /\ worker' = [w \in Workers |-> Idle]
    /\ unsaved' = {}
    /\ UNCHANGED <<disk, flight, history, faults>>

Crash ==
    /\ phase # "down"
    /\ stops < MaxStops
    /\ stops' = stops + 1
    /\ ProcessEnds

\* main: the signal cancels the context the workers' context derives from.
Signal ==
    /\ phase = "up"
    /\ stops < MaxStops
    /\ stops' = stops + 1
    /\ phase' = "stopping"
    /\ UNCHANGED <<store, handlers, queue, worker, flight, history>>

\* After server.Shutdown, which may time out with handlers still running.
CloseBegin ==
    /\ phase = "stopping"
    /\ phase' = "closed"
    /\ UNCHANGED <<store, handlers, queue, worker, flight, history, stops>>

\* workers.Wait() has returned: the directory lock is released.
CloseEnd ==
    /\ phase = "closed"
    /\ \A w \in Workers : worker[w] = Idle
    /\ phase' = "released"
    /\ UNCHANGED <<store, handlers, queue, worker, flight, history, stops>>

Exit ==
    /\ phase = "released"
    /\ ProcessEnds
    /\ UNCHANGED stops

-----------------------------------------------------------------------------
(***************************************************************************)
(* persistLocked: the whole table is written beside jobs.json and renamed  *)
(* over it.  A failure before the rename leaves the old file, a failure of *)
(* the directory sync the new one; the caller undoes its change in memory  *)
(* either way.                                                             *)
(***************************************************************************)

Saved(k, new) ==
    /\ mem' = [mem EXCEPT ![k] = new]
    /\ disk' = [mem EXCEPT ![k] = new]
    /\ UNCHANGED <<unsaved, faults>>

\* Mutant: the caller does not undo its change in memory.
SaveFailsKeepsMemory(k, new) ==
    /\ faults < MaxFaults
    /\ faults' = faults + 1
    /\ unsaved' = unsaved \union {k}
    /\ mem' = [mem EXCEPT ![k] = new]
    /\ disk' \in {disk, [mem EXCEPT ![k] = new]}

SaveFails(k, new) ==
    /\ faults < MaxFaults
    /\ faults' = faults + 1
    /\ unsaved' = unsaved \union {k}
    /\ mem' = mem
    /\ disk' \in {disk, [mem EXCEPT ![k] = new]}

\* submit, up to the unlock: a new key within capacity is recorded; the
\* failure of the write is answered 500.  A known key changes nothing: it is
\* answered with its job, or 409 when the instructions differ.
NewJob(r) ==
    [req |-> r, status |-> "queued", result |-> FALSE,
     delivery |-> "none", attempts |-> 0]

\* Mutant: handlers are not fenced.
CanSubmitLate == phase # "down"

HasRoom == Cardinality(Recorded(mem)) < MaxJobs

CanSubmit == phase \in {"up", "stopping"}

\* Mutant: a known job that is not finished is put on the queue again.
SubmitAgain(k, r) ==
    /\ <<k, r>> \in Offers
    /\ CanSubmit
    /\ \/ /\ mem[k] = NoJob /\ HasRoom
          /\ Saved(k, NewJob(r))
       \/ /\ mem[k].status \in Unfinished
          /\ UNCHANGED store
    /\ handlers' = handlers \union {k}
    /\ UNCHANGED <<phase, queue, worker, flight, history, stops>>

Submit(k, r) ==
    /\ <<k, r>> \in Offers
    /\ CanSubmit
    /\ mem[k] = NoJob
    /\ HasRoom
    /\ \/ Saved(k, NewJob(r)) /\ handlers' = handlers \union {k}
       \/ SaveFails(k, NewJob(r)) /\ UNCHANGED handlers
    /\ UNCHANGED <<phase, queue, worker, flight, history, stops>>

\* The rest of submit: the answer, then the queue unless the context ended.
Enqueue(k) ==
    /\ k \in handlers
    /\ handlers' = handlers \ {k}
    /\ \/ Len(queue) < MaxJobs /\ queue' = Append(queue, k)
       \/ CtxDone /\ UNCHANGED queue
    /\ UNCHANGED <<store, phase, worker, flight, history, stops>>

-----------------------------------------------------------------------------
(***************************************************************************)
(* The workers.                                                            *)
(***************************************************************************)

\* "idle" is the return to work; any other step keeps the job.
Goto(w, pc) ==
    worker' = [worker EXCEPT ![w] = IF pc = "idle" THEN Idle ELSE [@ EXCEPT !.pc = pc, !.reply = "none"]]
Return(w) == Goto(w, "idle")

AtStep(w, pc) == worker[w].pc = pc
Held(w) == mem[worker[w].key]

\* runner.update by worker w; every caller gives up the job when it fails.
Update(w, new, pc) ==
    /\ \/ ~Closed /\ Saved(worker[w].key, new) /\ Goto(w, pc)
       \/ ~Closed /\ SaveFails(worker[w].key, new) /\ Return(w)
       \/ Closed /\ Return(w) /\ UNCHANGED store
    /\ UNCHANGED <<phase, handlers, queue, flight, history, stops>>

GiveUp(w) ==
    /\ CtxDone
    /\ Return(w)
    /\ UNCHANGED <<store, phase, handlers, queue, flight, history, stops>>

\* work: one entry of the queue, unless the context ended.
Dequeue(w) ==
    /\ phase = "up"
    /\ worker[w] = Idle
    /\ queue # <<>>
    /\ queue' = Tail(queue)
    /\ worker' = [worker EXCEPT ![w] = [Idle EXCEPT !.pc = "execute", !.key = Head(queue)]]
    /\ UNCHANGED <<store, phase, handlers, flight, history, stops>>

\* execute after the report is there: deliver what is not settled yet.
AfterReport(j) == IF j.delivery \in Undelivered THEN "deliver" ELSE "finish"

\* Mutant: a job found running is taken for somebody else's.
ExecuteQueuedOnly(w) ==
    /\ AtStep(w, "execute")
    /\ \/ /\ Held(w).status # "queued"
          /\ Return(w)
          /\ UNCHANGED <<store, phase, handlers, queue, flight, history, stops>>
       \/ /\ Held(w).status = "queued"
          /\ Update(w, [Held(w) EXCEPT !.status = "running"],
                    IF Held(w).result THEN AfterReport(Held(w)) ELSE "report")

\* execute up to the report: a job that ended is left alone.
Execute(w) ==
    /\ AtStep(w, "execute")
    /\ \/ /\ Held(w).status \notin Unfinished
          /\ Return(w)
          /\ UNCHANGED <<store, phase, handlers, queue, flight, history, stops>>
       \/ /\ Held(w).status \in Unfinished
          /\ Update(w, [Held(w) EXCEPT !.status = "running"],
                    IF Held(w).result THEN AfterReport(Held(w)) ELSE "report")

\* repositoryReport or feedReport succeeds and the report is saved.
Report(w) ==
    /\ AtStep(w, "report")
    /\ LET j == [Held(w) EXCEPT !.result = TRUE,
                     !.delivery = IF Held(w).req = "plain" THEN "none" ELSE "pending"]
       IN  Update(w, j, AfterReport(j))

\* The sources could not be read: finishFailed, unless the context ended.
ReportFails(w) ==
    /\ AtStep(w, "report")
    /\ \/ GiveUp(w)
       \/ /\ ~CtxDone
          /\ Update(w, [Held(w) EXCEPT !.status = "failed"], "idle")

\* The job as saved before a send.
Sending(j) ==
    [j EXCEPT !.attempts = @ + 1, !.delivery = IF j.req = "native" THEN "sending" ELSE "pending"]

\* Mutant: an interrupted native send is repeated.
DeliverResends(w) ==
    /\ AtStep(w, "deliver")
    /\ LET j == Held(w)
       IN  \/ /\ j.attempts >= MaxDeliveries
              /\ Update(w, [j EXCEPT !.delivery = "failed"], "finish")
           \/ j.attempts < MaxDeliveries /\ Update(w, Sending(j), "send")

\* The top of deliver's loop: a native send that was interrupted is never
\* repeated, sends are limited, and a send is counted before it is made.
Deliver(w) ==
    /\ AtStep(w, "deliver")
    /\ LET j == Held(w)
           interrupted == j.req = "native" /\ j.delivery = "sending"
       IN  \/ interrupted /\ Update(w, [j EXCEPT !.delivery = "unknown"], "finish")
           \/ /\ ~interrupted /\ j.attempts >= MaxDeliveries
              /\ Update(w, [j EXCEPT !.delivery = "failed"], "finish")
           \/ /\ ~interrupted /\ j.attempts < MaxDeliveries
              /\ Update(w, Sending(j), "send")

Message(w) == <<worker[w].key, Held(w).attempts>>

\* sendNotification up to the exchange.
Send(w) ==
    /\ AtStep(w, "send")
    /\ flight' = flight \union {Message(w)}
    /\ sends' = [sends EXCEPT ![worker[w].key] = @ + 1]
    /\ Goto(w, "wait")
    /\ UNCHANGED <<store, phase, handlers, queue, accepts, stops>>

Answered(w, reply) ==
    worker' = [worker EXCEPT ![w].pc = "reply", ![w].reply = reply]

\* The provider takes a notification or refuses it, and its answer reaches
\* the worker if it still waits.  A 5xx and a broken exchange say nothing
\* about acceptance.
Provider(m) ==
    /\ m \in flight
    /\ flight' = flight \ {m}
    /\ \E ok \in BOOLEAN :
        /\ accepts' = [accepts EXCEPT ![m[1]] = IF ok THEN @ + 1 ELSE @]
        /\ LET waiting == {w \in Workers : AtStep(w, "wait") /\ Message(w) = m}
               replies == IF ok THEN {"confirmed", "noid", "5xx", "broken"}
                                ELSE {"429", "4xx", "5xx", "broken"}
           IN  \/ waiting = {} /\ UNCHANGED worker
               \/ \E w \in waiting, reply \in replies : Answered(w, reply)
    /\ UNCHANGED <<store, phase, handlers, queue, sends, stops>>

\* The client's time-out or the end of the context; the request may still
\* arrive.
SendBreaks(w) ==
    /\ AtStep(w, "wait")
    /\ Answered(w, "broken")
    /\ UNCHANGED <<store, phase, handlers, queue, flight, history, stops>>

\* Mutant: any answer but a success is a definite refusal.
VerdictDefinite(req, reply) ==
    IF reply \in {"confirmed", "noid"} THEN "sent"
    ELSE IF req = "native" /\ reply # "429" THEN "failed" ELSE "pending"

\* notificationError and deliver: what an answer means for the delivery.
Verdict(req, reply) ==
    CASE reply = "confirmed" -> "sent"
      [] reply = "noid" -> IF req = "native" THEN "unknown" ELSE "sent"
      [] reply \in {"5xx", "broken"} -> IF req = "native" THEN "unknown" ELSE "pending"
      [] reply = "4xx" -> IF req = "native" THEN "failed" ELSE "pending"
      [] reply = "429" -> "pending"

AfterReply(verdict, j) ==
    IF verdict # "pending" THEN "finish"
    ELSE IF j.attempts >= MaxDeliveries THEN "exhausted" ELSE "backoff"

Replied(w) ==
    /\ AtStep(w, "reply")
    /\ \/ GiveUp(w)
       \/ /\ ~CtxDone
          /\ LET j == Held(w)
                 verdict == Verdict(j.req, worker[w].reply)
             IN  Update(w, [j EXCEPT !.delivery = verdict], AfterReply(verdict, j))

\* The last permitted send failed.
Exhausted(w) ==
    /\ AtStep(w, "exhausted")
    /\ Update(w, [Held(w) EXCEPT !.delivery = "failed"], "finish")

\* The retry delay passes, or the context ends first.
BackoffEnds(w) ==
    /\ AtStep(w, "backoff")
    /\ \/ GiveUp(w)
       \/ /\ Goto(w, "deliver")
          /\ UNCHANGED <<store, phase, handlers, queue, flight, history, stops>>

\* The end of execute.
Finish(w) ==
    /\ AtStep(w, "finish")
    /\ \/ GiveUp(w)
       \/ /\ ~CtxDone
          /\ Update(w, [Held(w) EXCEPT !.status = "succeeded"], "idle")

-----------------------------------------------------------------------------

WorkerStep(w) ==
    \/ Dequeue(w)
    \/ Execute(w)
    \/ Report(w)
    \/ ReportFails(w)
    \/ Deliver(w)
    \/ Send(w)
    \/ SendBreaks(w)
    \/ Replied(w)
    \/ Exhausted(w)
    \/ BackoffEnds(w)
    \/ Finish(w)

Next ==
    \/ Restart
    \/ Crash
    \/ Signal
    \/ CloseBegin
    \/ CloseEnd
    \/ Exit
    \/ \E k \in Keys, r \in Requests : Submit(k, r)
    \/ \E k \in Keys : Enqueue(k)
    \/ \E w \in Workers : WorkerStep(w)
    \/ \E m \in flight : Provider(m)

Spec == Init /\ [][Next]_vars

\* A goroutine that can run does run, and main goes through its shutdown.
FairSpec ==
    /\ Spec
    /\ \A w \in Workers : WF_vars(WorkerStep(w))
    /\ \A k \in Keys : WF_vars(Enqueue(k))
    /\ WF_vars(CloseBegin)
    /\ WF_vars(CloseEnd)

-----------------------------------------------------------------------------
(***************************************************************************)
(* Correctness.                                                            *)
(***************************************************************************)

Steps == {"execute", "report", "deliver", "send", "wait", "reply", "exhausted", "backoff", "finish"}
Replies == {"none", "confirmed", "noid", "429", "4xx", "5xx", "broken"}

\* Types of the table and its file, of the process, and of the provider.
TypeOK ==
    /\ mem \in [Keys -> {NoJob} \union Jobs]
    /\ disk \in [Keys -> {NoJob} \union Jobs]
    /\ phase \in {"down", "up", "stopping", "closed", "released"}
    /\ handlers \subseteq Keys
    /\ queue \in Seq(Keys)
    /\ worker \in [Workers -> {Idle} \union [pc : Steps, key : Keys, reply : Replies]]
    /\ flight \subseteq Keys \X Nat
    /\ sends \in [Keys -> Nat]
    /\ accepts \in [Keys -> Nat]
    /\ unsaved \subseteq Keys
    /\ stops \in Nat
    /\ faults \in Nat

\* Who is responsible for the unfinished job k in this process.
Holders(k) ==
    {<<"handler", k>> : x \in handlers \intersect {k}}
        \union {<<"queue", i>> : i \in {i \in DOMAIN queue : queue[i] = k}}
        \union {<<"worker", w>> : w \in {w \in Workers : worker[w].pc # "idle" /\ worker[w].key = k}}

\* No job is in two hands and none is forgotten: through resubmissions,
\* restarts and failed writes an unfinished job of a running process waits in
\* one handler, at one place of the queue or with one worker, except one whose
\* update could not be saved, which may be in none until the next start.  So
\* the queue has room for every handler (runner.go:422).
HeldOnce ==
    /\ \A k \in Keys : Cardinality(Holders(k)) <= 1
    /\ handlers # {} => Len(queue) < MaxJobs
    /\ phase = "up" => \A k \in Resumable(mem) : Holders(k) # {} \/ k \in unsaved

\* Over all processes, through crashes, restarts, time-outs and failed writes,
\* a notification is sent at most MaxDeliveries times, and a native provider
\* accepts it at most once (runner.go:634).
SendsWithinPolicy ==
    \A k \in Keys :
        /\ sends[k] <= MaxDeliveries
        /\ disk[k] # NoJob /\ disk[k].req = "native" =>
            accepts[k] + Cardinality({m \in flight : m[1] = k}) <= 1

\* What a job says of its delivery is true of the provider: "sent" was
\* accepted, and a native "failed" was not and never will be.
DeliveryTruthful ==
    \A k \in Keys, table \in {mem, disk} :
        table[k] # NoJob =>
            /\ table[k].delivery = "sent" => accepts[k] > 0
            /\ table[k].delivery = "failed" /\ table[k].req = "native" =>
                accepts[k] = 0 /\ \A m \in flight : m[1] # k

\* jobs.json is written only by the process that holds the directory lock;
\* a late handler is fenced before the lock is released (runner.go:379).
WritesUnderLock == [][disk' # disk => Locked]_vars

\* What a client may see: the table while a process serves it, the file
\* while none does.
Visible ==
    [k \in Keys |->
        LET j == IF phase = "down" THEN disk[k] ELSE mem[k]
        IN  IF j = NoJob THEN NoJob
            ELSE [req |-> j.req, status |-> j.status, report |-> j.result]]

Service == INSTANCE JobService WITH job <- Visible

\* Through crashes and failed writes the runner is an idempotent job
\* service: a recorded job is not forgotten and does not go back.
KeepsService == Service!Spec

\* A job this process has is finished, unless the process stops or an update
\* of the job cannot be saved.
JobsFinish ==
    \A k \in Keys :
        (phase = "up" /\ k \in Resumable(mem))
            ~> (phase # "up" \/ k \in unsaved \/ mem[k].status \in {"succeeded", "failed"})
=============================================================================
