---------------------------- MODULE RunnerProofs ----------------------------
(***************************************************************************)
(* Proofs about Runner: for any keys, workers and capacity, through        *)
(* crashes, restarts and failed writes, a job is in one hand, a            *)
(* notification is sent within its policy and reported truthfully, and the *)
(* runner is the service that JobService promises.                         *)
(***************************************************************************)
EXTENDS Runner, FiniteSetTheorems, SequenceTheorems, TLAPS

-----------------------------------------------------------------------------
(***************************************************************************)
(* The inductive invariant.                                                *)
(***************************************************************************)

Busy(w) == worker[w].pc # "idle"

\* The table and the file are finite, and the table within capacity.
Counted ==
    /\ IsFiniteSet(Recorded(mem)) /\ Cardinality(Recorded(mem)) <= MaxJobs
    /\ IsFiniteSet(Recorded(disk))

\* Between two processes there is the file only.
DownInv ==
    phase = "down" =>
        /\ \A k \in Keys : mem[k] = NoJob
        /\ handlers = {} /\ queue = <<>>
        /\ \A w \in Workers : ~Busy(w)

\* A recorded job is in one hand at most.
HoldInv ==
    /\ \A k \in handlers : mem[k] # NoJob
    /\ \A i \in 1..Len(queue) : mem[queue[i]] # NoJob /\ queue[i] \notin handlers
    /\ \A i, j \in 1..Len(queue) : queue[i] = queue[j] => i = j
    /\ \A w \in Workers : Busy(w) =>
        /\ mem[worker[w].key] # NoJob
        /\ worker[w].key \notin handlers
        /\ \A i \in 1..Len(queue) : queue[i] # worker[w].key
    /\ \A v, w \in Workers : Busy(v) /\ Busy(w) /\ worker[v].key = worker[w].key => v = w

Has(k) ==
    \/ k \in handlers
    \/ \E i \in 1..Len(queue) : queue[i] = k
    \/ \E w \in Workers : Busy(w) /\ worker[w].key = k

\* An unfinished job of a running process is in a hand, or could not be saved.
KeptInv == phase = "up" => \A k \in Resumable(mem) : Has(k) \/ k \in unsaved

\* What a client sees of a job, and how one step may change that.
View(j) ==
    IF j = NoJob THEN NoJob
    ELSE [req |-> j.req, status |-> j.status, report |-> j.result]

Ahead(a, b) ==
    \/ a = b
    \/ a = NoJob /\ \E r \in Requests : b = [req |-> r, status |-> "queued", report |-> FALSE]
    \/ a.status = "queued" /\ b = [a EXCEPT !.status = "running"]
    \/ a.status = "running" /\ b = [a EXCEPT !.report = TRUE]
    \/ a.status = "running" /\ a.report /\ b = [a EXCEPT !.status = "succeeded"]
    \/ a.status = "running" /\ ~a.report /\ b = [a EXCEPT !.status = "failed"]

\* The file is the table, except for the last update that was not saved: its
\* job is in nobody's hand and at most a step ahead.
DiskInv ==
    phase # "down" =>
        /\ \A k \in Keys : disk[k] # mem[k] => ~Has(k) /\ Ahead(View(mem[k]), View(disk[k]))
        /\ \A k, l \in Keys : disk[k] # mem[k] /\ disk[l] # mem[l] => k = l

\* The provider has not accepted a notification of the job and will not.
Clean(k) == accepts[k] = 0 /\ \A m \in flight : m[1] # k

\* It has accepted one, or may accept one.
Once(k) ==
    \/ accepts[k] = 0 /\ \A m, n \in flight : m[1] = k /\ n[1] = k => m = n
    \/ accepts[k] = 1 /\ \A m \in flight : m[1] # k

\* What an entry of a table says of the sends is true.
Told(k, j) ==
    /\ j = NoJob => sends[k] = 0 /\ Clean(k)
    /\ j # NoJob =>
        /\ ~j.result => j.delivery = "none"
        /\ sends[k] <= j.attempts
        /\ j.delivery = "sent" => accepts[k] > 0
        /\ j.req = "native" => Once(k)
        /\ j.req = "native" /\ j.delivery \in {"none", "pending", "failed"} => Clean(k)

AllTold ==
    /\ \A k \in Keys : Told(k, disk[k])
    /\ phase # "down" => \A k \in Keys : Told(k, mem[k])

\* What a worker's job is like at each of its steps.
JobAt(pc, j) ==
    /\ pc = "report" => j.status = "running" /\ ~j.result
    /\ pc \in {"deliver", "send", "wait", "reply", "exhausted", "backoff", "finish"} =>
        j.status = "running" /\ j.result
    /\ pc = "deliver" => j.delivery \in Undelivered
    /\ pc \in {"send", "wait", "reply"} /\ j.req = "native" => j.delivery = "sending"
    /\ pc \in {"exhausted", "backoff"} => j.delivery = "pending"

\* What it knows of the provider.
Knows(pc, reply, k, j) ==
    /\ pc = "send" => sends[k] < j.attempts /\ (j.req = "native" => Clean(k))
    /\ pc = "reply" =>
        /\ reply # "none"
        /\ reply \in {"confirmed", "noid"} => accepts[k] > 0
        /\ reply \in {"429", "4xx"} /\ j.req = "native" => Clean(k)

WorkerInv(w) ==
    Busy(w) =>
        /\ JobAt(worker[w].pc, Held(w))
        /\ Knows(worker[w].pc, worker[w].reply, worker[w].key, Held(w))

Safe ==
    /\ Counted
    /\ DownInv
    /\ HoldInv
    /\ KeptInv
    /\ DiskInv
    /\ AllTold
    /\ \A w \in Workers : WorkerInv(w)

Inv == TypeOK /\ Safe

\* How a step of a process that may write changes table and file.
Writes ==
    \/ UNCHANGED <<mem, disk, phase>>
    \/ \E k \in Keys, new \in Jobs :
        /\ phase \in {"up", "stopping"} /\ phase' = phase
        /\ Ahead(View(mem[k]), View(new))
        /\ \/ Saved(k, new)
           \/ SaveFails(k, new)

-----------------------------------------------------------------------------
(***************************************************************************)
(* Types of what a step makes.                                             *)
(***************************************************************************)

LEMMA InitTypes == Init => TypeOK
BY EmptySeq, RunnerBounds DEF Init, TypeOK, Jobs, NoJob, Idle

\* The updates of a job are jobs.
LEMMA JobTypes ==
    ASSUME NEW j \in Jobs
    PROVE  /\ \A s \in {"running", "succeeded", "failed"} : [j EXCEPT !.status = s] \in Jobs
           /\ \A d \in {"none", "pending", "sending", "sent", "failed", "unknown"} :
                /\ [j EXCEPT !.delivery = d] \in Jobs
                /\ [j EXCEPT !.result = TRUE, !.delivery = d] \in Jobs
           /\ j.attempts < MaxDeliveries => Sending(j) \in Jobs
           /\ j # NoJob
<1>1. \A s \in {"running", "succeeded", "failed"} : [j EXCEPT !.status = s] \in Jobs
  BY DEF Jobs
<1>2. \A d \in {"none", "pending", "sending", "sent", "failed", "unknown"} :
         /\ [j EXCEPT !.delivery = d] \in Jobs
         /\ [j EXCEPT !.result = TRUE, !.delivery = d] \in Jobs
  BY DEF Jobs
<1>3. j.attempts < MaxDeliveries => Sending(j) \in Jobs
  <2>1. j.attempts < MaxDeliveries => j.attempts + 1 \in 0..MaxDeliveries
    BY RunnerBounds DEF Jobs
  <2>2. (IF j.req = "native" THEN "sending" ELSE "pending") \in {"pending", "sending"}
    OBVIOUS
  <2>. QED
    BY <2>1, <2>2 DEF Jobs, Sending
<1>4. j # NoJob
  BY DEF Jobs, NoJob
<1>. QED
  BY <1>1, <1>2, <1>3, <1>4

\* What a busy worker holds.
LEMMA BusyTypes ==
    ASSUME Inv, NEW w \in Workers, Busy(w)
    PROVE  /\ worker[w] \in [pc : Steps, key : Keys, reply : Replies]
           /\ Held(w) \in Jobs /\ Held(w) # NoJob
           /\ phase # "down"
           /\ Told(worker[w].key, Held(w))
           /\ disk[worker[w].key] = Held(w)
<1>1. worker[w] \in [pc : Steps, key : Keys, reply : Replies]
  BY DEF Inv, TypeOK, Busy, Idle
<1>2. Held(w) # NoJob /\ phase # "down"
  BY DEF Inv, Safe, HoldInv, DownInv, Held
<1>3. Held(w) \in Jobs
  BY <1>1, <1>2 DEF Inv, TypeOK, Held
<1>4. Has(worker[w].key)
  BY DEF Has
<1>. QED
  BY <1>1, <1>2, <1>3, <1>4 DEF Inv, Safe, AllTold, DiskInv, Held

\* A worker's next step.
LEMMA GotoTypes ==
    ASSUME TypeOK, NEW w \in Workers, Busy(w), NEW pc \in Steps \union {"idle"}, Goto(w, pc)
    PROVE  /\ worker' \in [Workers -> {Idle} \union [pc : Steps, key : Keys, reply : Replies]]
           /\ \A v \in Workers : v # w => worker'[v] = worker[v]
           /\ pc = "idle" => worker'[w] = Idle
           /\ pc # "idle" => worker'[w].pc = pc /\ worker'[w].key = worker[w].key /\ worker'[w].reply = "none"
<1>1. worker[w] \in [pc : Steps, key : Keys, reply : Replies]
  BY DEF TypeOK, Busy, Idle
<1>2. \E f \in {Idle} \union [pc : Steps, key : Keys, reply : Replies] :
         /\ worker' = [worker EXCEPT ![w] = f]
         /\ pc = "idle" => f = Idle
         /\ pc # "idle" => f.pc = pc /\ f.key = worker[w].key /\ f.reply = "none"
  <2>1. CASE pc = "idle"
    BY <2>1 DEF Goto, TypeOK
  <2>2. CASE pc # "idle"
    <3>. DEFINE f == [worker[w] EXCEPT !.pc = pc, !.reply = "none"]
    <3>1. worker' = [worker EXCEPT ![w] = f]
      BY <2>2 DEF Goto, TypeOK
    <3>2. f \in [pc : Steps, key : Keys, reply : Replies] /\ f.pc = pc /\ f.key = worker[w].key /\ f.reply = "none"
      BY <1>1, <2>2 DEF Replies
    <3>. QED
      BY <2>2, <3>1, <3>2
  <2>. QED
    BY <2>1, <2>2
<1>. QED
  BY <1>2 DEF TypeOK

-----------------------------------------------------------------------------
(***************************************************************************)
(* Updates of the table.                                                   *)
(***************************************************************************)

\* A worker that gives up its job leaves it in no hand.
LEMMA HandsAfterReturn ==
    ASSUME Inv, NEW w \in Workers, Busy(w), Return(w), UNCHANGED <<handlers, queue>>
    PROVE  /\ \A k \in Keys : Has(k)' => Has(k)
           /\ \A k \in Keys : k # worker[w].key /\ Has(k) => Has(k)'
           /\ \A k \in Keys : k = worker[w].key => ~Has(k)'
           /\ \A v \in Workers : Busy(v)' => v # w /\ Busy(v) /\ worker'[v] = worker[v]
<1>1. worker' = [worker EXCEPT ![w] = Idle] /\ worker \in [Workers -> {Idle} \union [pc : Steps, key : Keys, reply : Replies]]
  BY DEF Return, Goto, Inv, TypeOK
<1>2. \A v \in Workers : Busy(v)' => v # w /\ Busy(v) /\ worker'[v] = worker[v]
  BY <1>1 DEF Busy, Idle
<1>3. \A v \in Workers : v # w => worker'[v] = worker[v] /\ (Busy(v)' <=> Busy(v))
  BY <1>1 DEF Busy
<1>4. \A k \in Keys : Has(k)' => Has(k)
  BY <1>2 DEF Has
<1>5. \A k \in Keys : k # worker[w].key /\ Has(k) => Has(k)'
  BY <1>3 DEF Has
<1>6. \A k \in Keys : k = worker[w].key => ~Has(k)'
  BY <1>2 DEF Has, HoldInv, Inv, Safe
<1>. QED
  BY <1>2, <1>4, <1>5, <1>6
\* While nothing is sent or accepted, what was true of a job stays true.
LEMMA SameProvider ==
    ASSUME UNCHANGED <<flight, history>>
    PROVE  /\ \A k, j : Told(k, j) <=> Told(k, j)'
           /\ \A pc, reply, k, j : Knows(pc, reply, k, j) <=> Knows(pc, reply, k, j)'
BY DEF Told, Knows, Clean, Once, history

\* runner.update while the process may write: saved, or undone and given up.
LEMMA UpdateKeeps ==
    ASSUME Inv, NEW w \in Workers, Busy(w), NEW new \in Jobs, NEW pc \in Steps \union {"idle"},
           Update(w, new, pc),
           Ahead(View(Held(w)), View(new)),
           Told(worker[w].key, new),
           JobAt(pc, new), Knows(pc, "none", worker[w].key, new),
           pc = "idle" => new.status \notin Unfinished
    PROVE  Inv' /\ Writes
<1>. PICK k \in Keys : k = worker[w].key
  BY BusyTypes
<1>0. TypeOK /\ Safe
  BY DEF Inv
<1>1. /\ phase # "down" /\ mem[k] \in Jobs /\ mem[k] # NoJob /\ new # NoJob
      /\ Ahead(View(mem[k]), View(new)) /\ Told(k, new) /\ Knows(pc, "none", k, new)
  BY BusyTypes, JobTypes DEF Held
<1>2. /\ phase' = phase /\ handlers' = handlers /\ queue' = queue /\ UNCHANGED <<flight, history>>
      /\ flight' = flight /\ sends' = sends /\ accepts' = accepts /\ stops' = stops
  BY DEF Update, history
<1>a. /\ \A l, i : Told(l, i) <=> Told(l, i)'
      /\ \A p, r, l, i : Knows(p, r, l, i) <=> Knows(p, r, l, i)'
  BY <1>2, SameProvider
<1>3. \A v \in Workers : v # w /\ Busy(v) => worker[v].key # k /\ worker[v].key \in Keys
  BY <1>0, BusyTypes DEF Safe, HoldInv
<1>4. ASSUME Saved(k, new), Goto(w, pc)
      PROVE  Inv'
  <2>1. /\ mem' = [mem EXCEPT ![k] = new] /\ disk' = mem' /\ unsaved' = unsaved /\ faults' = faults
    BY <1>4 DEF Saved
  <2>2. /\ mem' \in [Keys -> {NoJob} \union Jobs] /\ mem'[k] = new
        /\ \A l \in Keys : l # k => mem'[l] = mem[l]
    BY <1>0, <2>1 DEF TypeOK
  <2>3. /\ worker' \in [Workers -> {Idle} \union [pc : Steps, key : Keys, reply : Replies]]
        /\ \A v \in Workers : v # w => worker'[v] = worker[v]
        /\ pc = "idle" => worker'[w] = Idle
        /\ pc # "idle" => worker'[w].pc = pc /\ worker'[w].key = k /\ worker'[w].reply = "none"
    BY <1>0, <1>4, GotoTypes
  <2>4. TypeOK'
    BY <1>0, <1>2, <2>1, <2>2, <2>3 DEF TypeOK
  <2>5. Counted'
    <3>1. Recorded(mem') = Recorded(mem) /\ Recorded(disk') = Recorded(mem)
      BY <1>1, <2>1, <2>2 DEF Recorded
    <3>. QED
      BY <1>0, <3>1 DEF Safe, Counted
  <2>6. DownInv'
    BY <1>1, <1>2 DEF DownInv
  <2>7. \A v \in Workers : Busy(v)' => Busy(v) /\ worker'[v].key = worker[v].key
    BY <2>3 DEF Busy, Idle
  <2>8. HoldInv'
    <3>1. \A l \in Keys : mem[l] # NoJob => mem'[l] # NoJob
      BY <1>1, <2>2
    <3>2. handlers \subseteq Keys /\ \A i \in 1..Len(queue) : queue[i] \in Keys
      BY <1>0 DEF TypeOK
    <3>3. \A v \in Workers : Busy(v) => worker[v].key \in Keys
      BY BusyTypes
    <3>. QED
      BY <1>0, <1>2, <2>7, <3>1, <3>2, <3>3 DEF Safe, HoldInv
  <2>9. KeptInv'
    <3>. SUFFICES ASSUME phase = "up", NEW l \in Keys, mem'[l].status \in Unfinished
                  PROVE  Has(l)' \/ l \in unsaved
      BY <1>2, <2>1 DEF KeptInv, Resumable
    <3>1. CASE l = k
      <4>1. pc # "idle"
        BY <2>2, <3>1
      <4>2. Busy(w)' /\ worker'[w].key = l
        BY <2>3, <3>1, <4>1 DEF Busy
      <4>. QED
        BY <4>2 DEF Has
    <3>2. CASE l # k
      <4>1. Has(l) \/ l \in unsaved
        BY <1>0, <2>2, <3>2 DEF Safe, KeptInv, Resumable
      <4>2. \A v \in Workers : Busy(v) /\ worker[v].key = l => Busy(v)' /\ worker'[v].key = l
        BY <2>3, <3>2 DEF Busy
      <4>. QED
        BY <1>2, <4>1, <4>2 DEF Has
    <3>. QED
      BY <3>1, <3>2
  <2>10. DiskInv'
    BY <2>1 DEF DiskInv
  <2>11. AllTold'
    <3>1. \A l \in Keys : Told(l, mem'[l])
      BY <1>0, <1>1, <2>2 DEF Safe, AllTold
    <3>. QED
      BY <1>2, <2>1, <3>1 DEF AllTold, Told, Clean, Once
  <2>12. ASSUME NEW v \in Workers
         PROVE  WorkerInv(v)'
    <3>. SUFFICES ASSUME Busy(v)'
                  PROVE  /\ JobAt(worker'[v].pc, mem'[worker'[v].key])
                         /\ Knows(worker'[v].pc, worker'[v].reply, worker'[v].key, mem'[worker'[v].key])
      BY <1>2 DEF WorkerInv, Held, Knows, Clean
    <3>1. CASE v = w
      <4>1. pc # "idle"
        BY <2>3, <3>1 DEF Busy, Idle
      <4>. QED
        BY <1>1, <2>2, <2>3, <3>1, <4>1
    <3>2. CASE v # w
      <4>1. Busy(v) /\ worker'[v] = worker[v] /\ mem'[worker[v].key] = mem[worker[v].key]
        BY <1>3, <2>2, <2>3, <3>2 DEF Busy
      <4>. QED
        BY <1>0, <4>1 DEF Safe, WorkerInv, Held
    <3>. QED
      BY <3>1, <3>2
  <2>. QED
    BY <2>4, <2>5, <2>6, <2>8, <2>9, <2>10, <2>11, <2>12 DEF Inv, Safe
<1>5. ASSUME Return(w), mem' = mem, UNCHANGED store \/ SaveFails(k, new), UNCHANGED store => phase # "up"
      PROVE  Inv'
  <2>1. /\ \A l \in Keys : Has(l)' => Has(l)
        /\ \A l \in Keys : l # k /\ Has(l) => Has(l)'
        /\ ~Has(k)'
        /\ \A v \in Workers : Busy(v)' => v # w /\ Busy(v) /\ worker'[v] = worker[v]
    BY <1>2, <1>5, HandsAfterReturn
  <2>2. /\ worker' \in [Workers -> {Idle} \union [pc : Steps, key : Keys, reply : Replies]]
    BY <1>0, <1>5, GotoTypes DEF Return
  <2>3. /\ disk' = disk \/ disk' = [mem EXCEPT ![k] = new]
        /\ faults' \in Nat /\ unsaved' \in {unsaved, unsaved \union {k}}
    BY <1>0, <1>5 DEF SaveFails, store, TypeOK
  <2>a. disk' \in [Keys -> {NoJob} \union Jobs]
    BY <1>0, <2>3 DEF TypeOK
  <2>4. TypeOK'
    BY <1>0, <1>2, <1>5, <2>2, <2>3, <2>a DEF TypeOK
  <2>5. Counted'
    <3>1. Recorded(disk') \in {Recorded(mem), Recorded(disk)}
      BY <1>0, <1>1, <2>3 DEF Recorded, TypeOK
    <3>. QED
      BY <1>0, <1>5, <3>1 DEF Safe, Counted
  <2>6. DownInv'
    BY <1>1, <1>2 DEF DownInv
  <2>7. HoldInv'
    BY <1>0, <1>2, <1>5, <2>1 DEF Safe, HoldInv
  <2>8. KeptInv'
    <3>1. CASE UNCHANGED store
      BY <1>2, <1>5, <3>1 DEF KeptInv
    <3>2. CASE SaveFails(k, new)
      BY <1>0, <1>2, <1>5, <2>1, <3>2 DEF Safe, KeptInv, SaveFails, Resumable
    <3>. QED
      BY <1>5, <3>1, <3>2
  <2>9. DiskInv'
    <3>1. CASE disk' = disk
      BY <1>0, <1>1, <1>5, <2>1, <3>1 DEF Safe, DiskInv
    <3>2. CASE disk' = [mem EXCEPT ![k] = new]
      <4>1. \A l \in Keys : disk'[l] # mem'[l] => l = k /\ disk'[l] = new /\ mem'[l] = mem[k]
        BY <1>0, <1>5, <3>2 DEF TypeOK
      <4>. QED
        BY <1>1, <2>1, <4>1 DEF DiskInv
    <3>. QED
      BY <2>3, <3>1, <3>2
  <2>10. AllTold'
    <3>1. \A l \in Keys : Told(l, mem'[l]) /\ Told(l, disk'[l])
      BY <1>0, <1>1, <1>5, <2>3 DEF Safe, AllTold, TypeOK
    <3>. QED
      BY <1>2, <3>1 DEF AllTold, Told, Clean, Once
  <2>11. ASSUME NEW v \in Workers
         PROVE  WorkerInv(v)'
    BY <1>0, <1>2, <1>5, <2>1 DEF Safe, WorkerInv, Held, Knows, Clean
  <2>. QED
    BY <2>4, <2>5, <2>6, <2>7, <2>8, <2>9, <2>10, <2>11 DEF Inv, Safe
<1>6. \/ Saved(k, new) /\ Goto(w, pc)
      \/ SaveFails(k, new) /\ Return(w)
      \/ Closed /\ Return(w) /\ UNCHANGED store
  BY DEF Update
<1>7. SaveFails(k, new) => mem' = mem /\ ~UNCHANGED store
  BY <1>0 DEF SaveFails, store, TypeOK
<1>8. UNCHANGED store => mem' = mem
  BY DEF store
<1>9. Closed => phase # "up"
  BY DEF Closed
<1>10. Writes
  <2>1. CASE Closed
    <3>1. UNCHANGED store
      BY <2>1 DEF Update
    <3>. QED
      BY <1>2, <3>1 DEF Writes, store
  <2>2. CASE ~Closed
    <3>1. phase \in {"up", "stopping"}
      BY <1>0, <1>1, <2>2 DEF TypeOK, Closed
    <3>. QED
      BY <1>1, <1>2, <1>6, <2>2, <3>1 DEF Writes
  <2>. QED
    BY <2>1, <2>2
<1>. QED
  BY <1>4, <1>5, <1>6, <1>7, <1>8, <1>9, <1>10

\* A worker goes on without touching the table.
LEMMA MoveKeeps ==
    ASSUME Inv, NEW w \in Workers, Busy(w), NEW pc \in (Steps \union {"idle"}) \ {"send", "reply"},
           Goto(w, pc), UNCHANGED <<store, phase, handlers, queue, flight, history, stops>>,
           JobAt(pc, Held(w)),
           pc = "idle" => phase # "up" \/ Held(w).status \notin Unfinished
    PROVE  Inv' /\ Writes
<1>. PICK k \in Keys : k = worker[w].key
  BY BusyTypes
<1>0. TypeOK /\ Safe
  BY DEF Inv
<1>1. /\ mem' = mem /\ disk' = disk /\ unsaved' = unsaved /\ faults' = faults
      /\ phase' = phase /\ handlers' = handlers /\ queue' = queue /\ stops' = stops
      /\ flight' = flight /\ sends' = sends /\ accepts' = accepts
  BY DEF store, history
<1>2. /\ worker' \in [Workers -> {Idle} \union [pc : Steps, key : Keys, reply : Replies]]
      /\ \A v \in Workers : v # w => worker'[v] = worker[v]
      /\ pc = "idle" => worker'[w] = Idle
      /\ pc # "idle" => worker'[w].pc = pc /\ worker'[w].key = k /\ worker'[w].reply = "none"
  BY <1>0, GotoTypes
<1>3. \A v \in Workers : Busy(v)' => Busy(v) /\ worker'[v].key = worker[v].key
  BY <1>2 DEF Busy, Idle
<1>4. \A l \in Keys : (Has(l)' => Has(l)) /\ (Has(l) => Has(l)' \/ (pc = "idle" /\ l = k))
  <2>1. \A v \in Workers : Busy(v) => (Busy(v)' /\ worker'[v].key = worker[v].key) \/ (pc = "idle" /\ v = w)
    BY <1>2 DEF Busy, Steps
  <2>. QED
    BY <1>1, <1>3, <2>1 DEF Has
<1>5. TypeOK'
  BY <1>0, <1>1, <1>2 DEF TypeOK
<1>6. Counted' /\ DownInv' /\ AllTold'
  <2>1. phase # "down"
    BY BusyTypes
  <2>. QED
    BY <1>0, <1>1, <2>1 DEF Safe, Counted, DownInv, AllTold, Told, Clean, Once
<1>7. HoldInv'
  BY <1>0, <1>1, <1>3 DEF Safe, HoldInv
<1>8. KeptInv'
  BY <1>0, <1>1, <1>4 DEF Safe, KeptInv, Resumable, Held
<1>9. DiskInv'
  BY <1>0, <1>1, <1>4 DEF Safe, DiskInv
<1>10. ASSUME NEW v \in Workers
       PROVE  WorkerInv(v)'
  <2>1. CASE v = w
    BY <1>1, <1>2, <2>1 DEF WorkerInv, Held, Knows, Busy, Idle
  <2>2. CASE v # w
    BY <1>0, <1>1, <1>2, <2>2 DEF Safe, WorkerInv, Held, Knows, Clean, Busy
  <2>. QED
    BY <2>1, <2>2
<1>11. Writes
  BY <1>1 DEF Writes
<1>. QED
  BY <1>5, <1>6, <1>7, <1>8, <1>9, <1>10, <1>11 DEF Inv, Safe

LEMMA GiveUpKeeps ==
    ASSUME Inv, NEW w \in Workers, Busy(w), GiveUp(w)
    PROVE  Inv' /\ Writes
<1>1. Goto(w, "idle") /\ UNCHANGED <<store, phase, handlers, queue, flight, history, stops>> /\ phase # "up"
  BY DEF GiveUp, Return, CtxDone
<1>2. JobAt("idle", Held(w))
  BY DEF JobAt
<1>. QED
  BY <1>1, <1>2, MoveKeeps

\* What the worker at a step holds.
LEMMA StepFacts ==
    ASSUME Inv, NEW w \in Workers, NEW pc \in Steps, AtStep(w, pc)
    PROVE  /\ Busy(w)
           /\ \E j \in Jobs :
                /\ j = Held(w)
                /\ JobAt(pc, j)
                /\ Told(worker[w].key, j)
                /\ Knows(pc, worker[w].reply, worker[w].key, j)
<1>1. Busy(w) /\ worker[w].pc = pc
  BY DEF AtStep, Busy, Steps
<1>. QED
  BY <1>1, BusyTypes DEF Inv, Safe, WorkerInv

\* The views of a job, after the updates that the workers make.
LEMMA ViewFacts ==
    ASSUME NEW j \in Jobs
    PROVE  /\ j # NoJob
           /\ View(j) = [req |-> j.req, status |-> j.status, report |-> j.result]
           /\ \A k \in Jobs : k.req = j.req /\ k.status = j.status /\ k.result = j.result =>
                Ahead(View(j), View(k))
           /\ \A k \in Jobs : j.status \in Unfinished /\ k = [j EXCEPT !.status = "running"] =>
                Ahead(View(j), View(k))
<1>1. \A k \in Jobs : k # NoJob /\ View(k) = [req |-> k.req, status |-> k.status, report |-> k.result]
  BY DEF Jobs, NoJob, View
<1>2. ASSUME NEW k \in Jobs, j.status \in Unfinished, k = [j EXCEPT !.status = "running"]
      PROVE  Ahead(View(j), View(k))
  <2>1. k.req = j.req /\ k.status = "running" /\ k.result = j.result
    BY <1>2 DEF Jobs
  <2>2. CASE j.status = "running"
    BY <1>1, <2>1, <2>2 DEF Ahead
  <2>3. CASE j.status = "queued"
    <3>1. View(k) = [View(j) EXCEPT !.status = "running"]
      BY <1>1, <2>1
    <3>. QED
      BY <1>1, <2>3, <3>1 DEF Ahead
  <2>. QED
    BY <1>2, <2>2, <2>3 DEF Unfinished
<1>. QED
  BY <1>1, <1>2 DEF Ahead
-----------------------------------------------------------------------------
(***************************************************************************)
(* The steps of a worker on its job.                                       *)
(***************************************************************************)

LEMMA ExecuteKeeps ==
    ASSUME Inv, NEW w \in Workers, Execute(w)
    PROVE  Inv' /\ Writes
<1>0. AtStep(w, "execute") /\ "execute" \in Steps
  BY DEF Execute, Steps
<1>1. PICK j \in Jobs : j = Held(w) /\ Told(worker[w].key, j) /\ Busy(w)
  BY <1>0, StepFacts
<1>2. CASE j.status \notin Unfinished
  <2>1. Goto(w, "idle") /\ UNCHANGED <<store, phase, handlers, queue, flight, history, stops>>
    BY <1>1, <1>2 DEF Execute, Return
  <2>2. JobAt("idle", Held(w))
    BY DEF JobAt
  <2>. QED
    BY <1>1, <1>2, <2>1, <2>2, MoveKeeps
<1>3. CASE j.status \in Unfinished
  <2>1. PICK new \in Jobs : new = [j EXCEPT !.status = "running"]
    BY <1>1, JobTypes
  <2>2. PICK pc : pc = IF j.result THEN AfterReport(j) ELSE "report"
    OBVIOUS
  <2>3. Update(w, new, pc)
    BY <1>1, <1>3, <2>1, <2>2 DEF Execute
  <2>4. /\ new.status = "running" /\ new.result = j.result /\ new.delivery = j.delivery
        /\ new.attempts = j.attempts /\ new.req = j.req
    BY <2>1 DEF Jobs
  <2>5. pc \in {"report", "deliver", "finish"} /\ JobAt(pc, new)
    BY <2>2, <2>4 DEF AfterReport, JobAt, Jobs
  <2>6. Ahead(View(Held(w)), View(new))
    BY <1>1, <1>3, <2>1, ViewFacts
  <2>7. Told(worker[w].key, new)
    BY <1>1, <2>4, ViewFacts DEF Told
  <2>8. Knows(pc, "none", worker[w].key, new)
    BY <2>5 DEF Knows
  <2>9. pc \in Steps \union {"idle"} /\ (pc = "idle" => new.status \notin Unfinished)
    BY <2>5 DEF Steps
  <2>. QED
    BY <1>1, <2>3, <2>5, <2>6, <2>7, <2>8, <2>9, UpdateKeeps
<1>. QED
  BY <1>2, <1>3

LEMMA ReportKeeps ==
    ASSUME Inv, NEW w \in Workers, Report(w)
    PROVE  Inv' /\ Writes
<1>0. AtStep(w, "report") /\ "report" \in Steps
  BY DEF Report, Steps
<1>1. PICK j \in Jobs : j = Held(w) /\ Told(worker[w].key, j) /\ JobAt("report", j) /\ Busy(w)
  BY <1>0, StepFacts
<1>2. PICK d \in {"none", "pending"} : d = IF j.req = "plain" THEN "none" ELSE "pending"
  OBVIOUS
<1>3. PICK new \in Jobs : new = [j EXCEPT !.result = TRUE, !.delivery = d]
  BY JobTypes
<1>4. PICK pc : pc = AfterReport(new)
  OBVIOUS
<1>5. Update(w, new, pc)
  BY <1>1, <1>2, <1>3, <1>4 DEF Report
<1>6. /\ new.status = "running" /\ j.status = "running" /\ new.result = TRUE /\ new.delivery = d
      /\ new.attempts = j.attempts /\ new.req = j.req
  BY <1>1, <1>3 DEF Jobs, JobAt
<1>7. pc \in {"deliver", "finish"} /\ JobAt(pc, new)
  BY <1>4, <1>6 DEF AfterReport, JobAt
<1>8. Ahead(View(Held(w)), View(new))
  <2>1. View(new) = [View(j) EXCEPT !.report = TRUE] /\ View(j).status = "running"
    BY <1>6, ViewFacts
  <2>. QED
    BY <1>1, <2>1 DEF Ahead
<1>9. Told(worker[w].key, new)
  BY <1>1, <1>6, ViewFacts DEF Told, JobAt
<1>10. Knows(pc, "none", worker[w].key, new)
  BY <1>7 DEF Knows
<1>11. pc \in Steps \union {"idle"} /\ pc # "idle"
  BY <1>7 DEF Steps
<1>. QED
  BY <1>1, <1>5, <1>7, <1>8, <1>9, <1>10, <1>11, UpdateKeeps
\* The end of the work without a report, and with one.
LEMMA EndKeeps ==
    ASSUME Inv, NEW w \in Workers, ReportFails(w) \/ Finish(w)
    PROVE  Inv' /\ Writes
<1>1. CASE GiveUp(w) /\ (AtStep(w, "report") \/ AtStep(w, "finish"))
  <2>1. Busy(w)
    BY <1>1 DEF AtStep, Busy
  <2>. QED
    BY <1>1, <2>1, GiveUpKeeps
<1>2. CASE AtStep(w, "report") /\ Update(w, [Held(w) EXCEPT !.status = "failed"], "idle")
  <2>0. "report" \in Steps
    BY DEF Steps
  <2>1. PICK j \in Jobs : j = Held(w) /\ Told(worker[w].key, j) /\ JobAt("report", j) /\ Busy(w)
    BY <1>2, <2>0, StepFacts
  <2>2. PICK new \in Jobs : new = [j EXCEPT !.status = "failed"]
    BY JobTypes
  <2>3. /\ new.status = "failed" /\ j.status = "running" /\ ~j.result /\ new.result = j.result
        /\ new.delivery = j.delivery /\ new.attempts = j.attempts /\ new.req = j.req
    BY <2>1, <2>2 DEF Jobs, JobAt
  <2>4. View(new) = [View(j) EXCEPT !.status = "failed"] /\ View(j).status = "running" /\ ~View(j).report
    BY <2>3, ViewFacts
  <2>5. Ahead(View(Held(w)), View(new))
    BY <2>1, <2>4 DEF Ahead
  <2>6. Told(worker[w].key, new)
    BY <2>1, <2>3, ViewFacts DEF Told
  <2>7. JobAt("idle", new) /\ Knows("idle", "none", worker[w].key, new) /\ new.status \notin Unfinished
    BY <2>3 DEF JobAt, Knows, Unfinished
  <2>. QED
    BY <1>2, <2>1, <2>2, <2>5, <2>6, <2>7, UpdateKeeps
<1>3. CASE AtStep(w, "finish") /\ Update(w, [Held(w) EXCEPT !.status = "succeeded"], "idle")
  <2>0. "finish" \in Steps
    BY DEF Steps
  <2>1. PICK j \in Jobs : j = Held(w) /\ Told(worker[w].key, j) /\ JobAt("finish", j) /\ Busy(w)
    BY <1>3, <2>0, StepFacts
  <2>2. PICK new \in Jobs : new = [j EXCEPT !.status = "succeeded"]
    BY JobTypes
  <2>3. /\ new.status = "succeeded" /\ j.status = "running" /\ j.result /\ new.result = j.result
        /\ new.delivery = j.delivery /\ new.attempts = j.attempts /\ new.req = j.req
    BY <2>1, <2>2 DEF Jobs, JobAt
  <2>4. View(new) = [View(j) EXCEPT !.status = "succeeded"] /\ View(j).status = "running" /\ View(j).report
    <3>1. /\ View(j) = [req |-> j.req, status |-> j.status, report |-> j.result]
          /\ View(new) = [req |-> new.req, status |-> new.status, report |-> new.result]
      BY ViewFacts
    <3>2. j.result = TRUE /\ new.result = TRUE
      BY <2>3 DEF Jobs
    <3>3. new.req = j.req /\ new.result = j.result /\ new.status = "succeeded" /\ j.status = "running"
      BY <2>3
    <3>4. View(new) = [View(j) EXCEPT !.status = "succeeded"] /\ View(j).status = "running"
      BY <3>1, <3>3
    <3>5. View(j).report
      BY <3>1, <3>2
    <3>. QED
      BY <3>4, <3>5
  <2>5. Ahead(View(Held(w)), View(new))
    BY <2>1, <2>4 DEF Ahead
  <2>6. Told(worker[w].key, new)
    BY <2>1, <2>3, ViewFacts DEF Told
  <2>7. JobAt("idle", new) /\ Knows("idle", "none", worker[w].key, new) /\ new.status \notin Unfinished
    BY <2>3 DEF JobAt, Knows, Unfinished
  <2>. QED
    BY <1>3, <2>1, <2>2, <2>5, <2>6, <2>7, UpdateKeeps
<1>. QED
  BY <1>1, <1>2, <1>3 DEF ReportFails, Finish

\* A delivery state is saved for a job with its report.
LEMMA DeliveryKeeps ==
    ASSUME Inv, NEW w \in Workers, NEW at \in Steps, AtStep(w, at),
           NEW d \in {"none", "pending", "sending", "sent", "failed", "unknown"},
           NEW pc \in {"finish", "exhausted", "backoff"},
           Update(w, [Held(w) EXCEPT !.delivery = d], pc),
           Held(w).status = "running", Held(w).result,
           d = "sent" => accepts[worker[w].key] > 0,
           d \in {"none", "pending", "failed"} /\ Held(w).req = "native" => Clean(worker[w].key),
           pc # "finish" => d = "pending"
    PROVE  Inv' /\ Writes
<1>1. PICK j \in Jobs : j = Held(w) /\ Told(worker[w].key, j) /\ Busy(w)
  BY StepFacts
<1>2. PICK new \in Jobs : new = [j EXCEPT !.delivery = d]
  BY JobTypes
<1>3. /\ new.status = "running" /\ new.result /\ new.result = j.result /\ new.status = j.status
      /\ new.delivery = d /\ new.attempts = j.attempts /\ new.req = j.req
  BY <1>1, <1>2 DEF Jobs
<1>4. Ahead(View(Held(w)), View(new))
  BY <1>1, <1>3, ViewFacts
<1>5. Told(worker[w].key, new)
  BY <1>1, <1>3, ViewFacts DEF Told
<1>6. JobAt(pc, new) /\ Knows(pc, "none", worker[w].key, new) /\ pc \in Steps \union {"idle"} /\ pc # "idle"
  BY <1>3 DEF JobAt, Knows, Steps
<1>. QED
  BY <1>1, <1>2, <1>4, <1>5, <1>6, UpdateKeeps

LEMMA DeliverKeeps ==
    ASSUME Inv, NEW w \in Workers, Deliver(w)
    PROVE  Inv' /\ Writes
<1>0. AtStep(w, "deliver") /\ "deliver" \in Steps
  BY DEF Deliver, Steps
<1>1. PICK j \in Jobs : j = Held(w) /\ Told(worker[w].key, j) /\ JobAt("deliver", j) /\ Busy(w)
  BY <1>0, StepFacts
<1>2. j.status = "running" /\ j.result /\ j.delivery \in {"pending", "sending"} /\ j # NoJob
  BY <1>1, JobTypes DEF JobAt, Undelivered
<1>3. CASE Update(w, [j EXCEPT !.delivery = "unknown"], "finish")
  BY <1>0, <1>1, <1>2, <1>3, DeliveryKeeps
<1>4. CASE ~(j.req = "native" /\ j.delivery = "sending") /\ Update(w, [j EXCEPT !.delivery = "failed"], "finish")
  <2>1. j.req = "native" => Clean(worker[w].key)
    BY <1>1, <1>2, <1>4 DEF Told
  <2>. QED
    BY <1>0, <1>1, <1>2, <1>4, <2>1, DeliveryKeeps
<1>5. CASE ~(j.req = "native" /\ j.delivery = "sending") /\ j.attempts < MaxDeliveries /\ Update(w, Sending(j), "send")
  <2>1. PICK new \in Jobs : new = Sending(j)
    BY <1>5, JobTypes
  <2>2. /\ new.status = "running" /\ new.result /\ new.result = j.result /\ new.status = j.status
        /\ new.delivery = (IF j.req = "native" THEN "sending" ELSE "pending")
        /\ new.attempts = j.attempts + 1 /\ new.req = j.req /\ new # NoJob
    <3>1. PICK d \in {"sending", "pending"} : d = IF j.req = "native" THEN "sending" ELSE "pending"
      OBVIOUS
    <3>2. new = [j EXCEPT !.attempts = j.attempts + 1, !.delivery = d]
      BY <2>1, <3>1 DEF Sending, Jobs
    <3>3. new # NoJob
      BY JobTypes
    <3>. QED
      BY <1>2, <3>1, <3>2, <3>3 DEF Jobs
  <2>3. j.req = "native" => Clean(worker[w].key)
    BY <1>1, <1>2, <1>5 DEF Told
  <2>4. j.attempts \in Nat /\ sends[worker[w].key] \in Nat
    BY <1>1, BusyTypes DEF Jobs, Inv, TypeOK
  <2>5. Ahead(View(Held(w)), View(new))
    BY <1>1, <2>2, ViewFacts
  <2>6. Told(worker[w].key, new) /\ Knows("send", "none", worker[w].key, new)
    BY <1>1, <1>2, <2>2, <2>3, <2>4 DEF Told, Knows, Once
  <2>7. JobAt("send", new) /\ "send" \in Steps
    BY <2>2 DEF JobAt, Steps
  <2>. QED
    BY <1>1, <1>5, <2>1, <2>5, <2>6, <2>7, UpdateKeeps
<1>. QED
  BY <1>1, <1>3, <1>4, <1>5 DEF Deliver

LEMMA RepliedKeeps ==
    ASSUME Inv, NEW w \in Workers, Replied(w) \/ Exhausted(w)
    PROVE  Inv' /\ Writes
<1>0. {"reply", "exhausted"} \subseteq Steps
  BY DEF Steps
<1>1. CASE GiveUp(w) /\ AtStep(w, "reply")
  <2>1. Busy(w)
    BY <1>1 DEF AtStep, Busy
  <2>. QED
    BY <1>1, <2>1, GiveUpKeeps
<1>2. CASE Exhausted(w)
  <2>1. AtStep(w, "exhausted") /\ Update(w, [Held(w) EXCEPT !.delivery = "failed"], "finish")
    BY <1>2 DEF Exhausted
  <2>2. PICK j \in Jobs : j = Held(w) /\ Told(worker[w].key, j) /\ JobAt("exhausted", j)
    BY <1>0, <2>1, StepFacts
  <2>3. j.status = "running" /\ j.result /\ (j.req = "native" => Clean(worker[w].key))
    BY <2>2, JobTypes DEF JobAt, Told
  <2>. QED
    BY <1>0, <2>1, <2>2, <2>3, DeliveryKeeps
<1>3. CASE Replied(w) /\ ~GiveUp(w)
  <2>1. PICK j \in Jobs : j = Held(w) /\ Told(worker[w].key, j) /\ JobAt("reply", j) /\ Knows("reply", worker[w].reply, worker[w].key, j)
    BY <1>0, <1>3, StepFacts DEF Replied
  <2>2. PICK d : d = Verdict(j.req, worker[w].reply)
    OBVIOUS
  <2>3. PICK pc : pc = AfterReply(d, j)
    OBVIOUS
  <2>4. AtStep(w, "reply") /\ Update(w, [Held(w) EXCEPT !.delivery = d], pc)
    BY <1>3, <2>1, <2>2, <2>3 DEF Replied
  <2>5. worker[w].reply \in Replies \ {"none"}
    <3>1. Busy(w)
      BY <2>4 DEF AtStep, Busy
    <3>. QED
      BY <2>1, <3>1, BusyTypes DEF Knows
  <2>6. /\ d \in {"sent", "unknown", "pending", "failed"}
        /\ d = "sent" => worker[w].reply \in {"confirmed", "noid"}
        /\ d = "pending" /\ j.req = "native" => worker[w].reply = "429"
        /\ d = "failed" => j.req = "native" /\ worker[w].reply = "4xx"
    BY <2>2, <2>5 DEF Verdict, Replies
  <2>7. pc \in {"finish", "exhausted", "backoff"} /\ (pc # "finish" => d = "pending")
    BY <2>3 DEF AfterReply
  <2>8. /\ j.status = "running" /\ j.result
        /\ d = "sent" => accepts[worker[w].key] > 0
        /\ d \in {"none", "pending", "failed"} /\ j.req = "native" => Clean(worker[w].key)
    BY <2>1, <2>6 DEF JobAt, Knows
  <2>. QED
    BY <1>0, <2>1, <2>4, <2>6, <2>7, <2>8, DeliveryKeeps
<1>. QED
  BY <1>1, <1>2, <1>3 DEF Replied

LEMMA BackoffKeeps ==
    ASSUME Inv, NEW w \in Workers, BackoffEnds(w)
    PROVE  Inv' /\ Writes
<1>0. AtStep(w, "backoff") /\ "backoff" \in Steps
  BY DEF BackoffEnds, Steps
<1>1. PICK j \in Jobs : j = Held(w) /\ JobAt("backoff", j) /\ Busy(w)
  BY <1>0, StepFacts
<1>2. CASE GiveUp(w)
  BY <1>1, <1>2, GiveUpKeeps
<1>3. CASE ~GiveUp(w)
  <2>1. Goto(w, "deliver") /\ UNCHANGED <<store, phase, handlers, queue, flight, history, stops>>
    BY <1>3 DEF BackoffEnds
  <2>2. JobAt("deliver", Held(w)) /\ "deliver" \in (Steps \union {"idle"}) \ {"send", "reply"}
    BY <1>1 DEF JobAt, Undelivered, Steps
  <2>. QED
    BY <1>1, <2>1, <2>2, MoveKeeps
<1>. QED
  BY <1>2, <1>3
-----------------------------------------------------------------------------
(***************************************************************************)
(* The exchanges with the provider.                                        *)
(***************************************************************************)

\* What is said of a job depends on its own notifications only.
LEMMA OtherKeys ==
    ASSUME NEW l, sends'[l] = sends[l], accepts'[l] = accepts[l],
           \A m : m[1] = l => (m \in flight <=> m \in flight')
    PROVE  /\ \A j : Told(l, j) => Told(l, j)'
           /\ \A pc, reply, j : Knows(pc, reply, l, j) => Knows(pc, reply, l, j)'
<1>1. (Clean(l) => Clean(l)') /\ (Once(l) => Once(l)')
  BY DEF Clean, Once
<1>. QED
  BY <1>1 DEF Told, Knows

\* An exchange leaves the table alone, and every job with its worker.
LEMMA ExchangeKeeps ==
    ASSUME Inv, UNCHANGED <<store, phase, handlers, queue, stops>>,
           worker' \in [Workers -> {Idle} \union [pc : Steps, key : Keys, reply : Replies]],
           flight' \subseteq Keys \X Nat, sends' \in [Keys -> Nat], accepts' \in [Keys -> Nat],
           \A v \in Workers : (Busy(v)' <=> Busy(v)) /\ worker'[v].key = worker[v].key,
           AllTold',
           \A v \in Workers : WorkerInv(v)'
    PROVE  Inv'
<1>0. TypeOK /\ Safe
  BY DEF Inv
<1>1. /\ mem' = mem /\ disk' = disk /\ unsaved' = unsaved /\ faults' = faults
      /\ phase' = phase /\ handlers' = handlers /\ queue' = queue /\ stops' = stops
  BY DEF store
<1>2. TypeOK'
  BY <1>0, <1>1 DEF TypeOK
<1>3. \A k \in Keys : Has(k)' <=> Has(k)
  BY <1>1 DEF Has
<1>4. Counted' /\ DownInv' /\ HoldInv'
  BY <1>0, <1>1 DEF Safe, Counted, DownInv, HoldInv
<1>5. KeptInv' /\ DiskInv'
  BY <1>0, <1>1, <1>3 DEF Safe, KeptInv, DiskInv, Resumable
<1>. QED
  BY <1>2, <1>4, <1>5 DEF Inv, Safe

LEMMA SendKeeps ==
    ASSUME Inv, NEW w \in Workers, Send(w)
    PROVE  Inv'
<1>0. AtStep(w, "send") /\ {"send", "wait"} \subseteq Steps
  BY DEF Send, Steps
<1>1. PICK j \in Jobs : /\ j = Held(w) /\ JobAt("send", j) /\ Told(worker[w].key, j)
                        /\ Knows("send", worker[w].reply, worker[w].key, j) /\ Busy(w)
  BY <1>0, StepFacts
<1>2. PICK k \in Keys : k = worker[w].key
  BY <1>1, BusyTypes
<1>3. /\ mem[k] = j /\ disk[k] = j /\ j # NoJob /\ j.attempts \in Nat
      /\ sends[k] < j.attempts /\ (j.req = "native" => Clean(k) /\ j.delivery = "sending")
  <2>1. j.attempts \in Nat
    BY RunnerBounds DEF Jobs
  <2>. QED
    BY <1>1, <1>2, <2>1, BusyTypes DEF Held, Knows, JobAt
<1>4. /\ flight' = flight \union {<<k, j.attempts>>} /\ sends' = [sends EXCEPT ![k] = sends[k] + 1]
      /\ accepts' = accepts /\ UNCHANGED <<store, phase, handlers, queue, stops>> /\ Goto(w, "wait")
      /\ mem' = mem
  BY <1>1, <1>2 DEF Send, Message, store, Inv, TypeOK
<1>5. TypeOK /\ Safe
  BY DEF Inv
<1>6. /\ worker' \in [Workers -> {Idle} \union [pc : Steps, key : Keys, reply : Replies]]
      /\ \A v \in Workers : v # w => worker'[v] = worker[v]
      /\ worker'[w].pc = "wait" /\ worker'[w].key = k /\ worker'[w].reply = "none"
  BY <1>0, <1>1, <1>2, <1>4, <1>5, GotoTypes
<1>7. /\ flight' \subseteq Keys \X Nat /\ sends' \in [Keys -> Nat] /\ accepts' \in [Keys -> Nat]
      /\ sends'[k] = sends[k] + 1 /\ \A l \in Keys : l # k => sends'[l] = sends[l]
  BY <1>3, <1>4, <1>5 DEF TypeOK
<1>8. ASSUME NEW l \in Keys, l # k
      PROVE  /\ \A i : Told(l, i) => Told(l, i)'
             /\ \A pc, reply, i : Knows(pc, reply, l, i) => Knows(pc, reply, l, i)'
  BY <1>4, <1>7, <1>8, OtherKeys
<1>9. Told(k, j)'
  <2>1. j.req = "native" => Once(k)'
    BY <1>3, <1>4 DEF Clean, Once
  <2>2. sends'[k] <= j.attempts
    BY <1>3, <1>5, <1>7 DEF TypeOK
  <2>. QED
    BY <1>1, <1>2, <1>3, <1>4, <2>1, <2>2 DEF Told
<1>10. AllTold'
  <2>1. ASSUME NEW l \in Keys
        PROVE  Told(l, disk[l])' /\ Told(l, mem[l])'
    <3>1. PICK x, y : x = disk[l] /\ y = mem[l] /\ Told(l, x) /\ Told(l, y)
      BY <1>1, <1>5, BusyTypes DEF Safe, AllTold
    <3>2. Told(l, x)' /\ Told(l, y)'
      <4>1. CASE l = k
        BY <1>3, <1>9, <3>1, <4>1
      <4>2. CASE l # k
        BY <1>8, <3>1, <4>2
      <4>. QED
        BY <4>1, <4>2
    <3>3. x = disk'[l] /\ y = mem'[l]
      BY <1>4, <3>1 DEF store
    <3>. QED
      BY <3>2, <3>3
  <2>. QED
    BY <2>1 DEF AllTold
<1>11. ASSUME NEW v \in Workers
       PROVE  WorkerInv(v)'
  <2>1. CASE v = w
    <3>1. JobAt("wait", j) /\ Knows("wait", "none", k, j)'
      BY <1>1 DEF JobAt, Knows
    <3>. QED
      BY <1>3, <1>4, <1>6, <2>1, <3>1 DEF WorkerInv, Held, Knows
  <2>2. CASE v # w
    <3>. SUFFICES ASSUME Busy(v)'
                  PROVE  WorkerInv(v)'
      BY DEF WorkerInv
    <3>1. Busy(v) /\ worker'[v] = worker[v] /\ worker[v].key # k /\ worker[v].key \in Keys
      BY <1>1, <1>2, <1>5, <1>6, <2>2, BusyTypes DEF Busy, Safe, HoldInv
    <3>2. PICK l, pc, r, i : l \in Keys /\ l = worker[v].key /\ pc = worker[v].pc /\ r = worker[v].reply /\ i = Held(v)
      BY <3>1
    <3>3. JobAt(pc, i) /\ Knows(pc, r, l, i)
      BY <1>5, <3>1, <3>2 DEF Safe, WorkerInv
    <3>4. Knows(pc, r, l, i)'
      BY <1>8, <3>1, <3>2, <3>3
    <3>. QED
      BY <1>4, <3>1, <3>2, <3>3, <3>4 DEF WorkerInv, Held
  <2>. QED
    BY <2>1, <2>2
<1>12. \A v \in Workers : (Busy(v)' <=> Busy(v)) /\ worker'[v].key = worker[v].key
  BY <1>1, <1>2, <1>6 DEF Busy
<1>. QED
  BY <1>4, <1>6, <1>7, <1>10, <1>11, <1>12, ExchangeKeeps
\* A worker has its answer.
LEMMA AnsweredTypes ==
    ASSUME TypeOK, NEW w \in Workers, AtStep(w, "wait"), NEW r \in Replies, Answered(w, r)
    PROVE  /\ worker' \in [Workers -> {Idle} \union [pc : Steps, key : Keys, reply : Replies]]
           /\ \A v \in Workers : v # w => worker'[v] = worker[v]
           /\ worker'[w].pc = "reply" /\ worker'[w].key = worker[w].key /\ worker'[w].reply = r
<1>1. worker[w] \in [pc : Steps, key : Keys, reply : Replies]
  BY DEF AtStep, TypeOK, Idle
<1>2. PICK f : f = [worker[w] EXCEPT !.pc = "reply", !.reply = r]
  OBVIOUS
<1>3. f \in [pc : Steps, key : Keys, reply : Replies] /\ f.pc = "reply" /\ f.key = worker[w].key /\ f.reply = r
  BY <1>1, <1>2 DEF Steps
<1>4. worker' = [worker EXCEPT ![w] = f]
  BY <1>2 DEF Answered, TypeOK
<1>. QED
  BY <1>3, <1>4 DEF TypeOK

LEMMA SendBreaksKeeps ==
    ASSUME Inv, NEW w \in Workers, SendBreaks(w)
    PROVE  Inv'
<1>0. AtStep(w, "wait") /\ "wait" \in Steps /\ "broken" \in Replies /\ Answered(w, "broken")
  BY DEF SendBreaks, Steps, Replies
<1>1. PICK j \in Jobs : j = Held(w) /\ JobAt("wait", j) /\ Busy(w)
  BY <1>0, StepFacts
<1>2. /\ UNCHANGED <<store, phase, handlers, queue, stops>> /\ UNCHANGED <<flight, history>>
      /\ mem' = mem /\ flight' = flight /\ sends' = sends /\ accepts' = accepts /\ phase' = phase
  BY DEF SendBreaks, store, history
<1>3. TypeOK /\ Safe
  BY DEF Inv
<1>4. /\ worker' \in [Workers -> {Idle} \union [pc : Steps, key : Keys, reply : Replies]]
      /\ \A v \in Workers : v # w => worker'[v] = worker[v]
      /\ worker'[w].pc = "reply" /\ worker'[w].key = worker[w].key /\ worker'[w].reply = "broken"
  BY <1>0, <1>3, AnsweredTypes
<1>5. \A v \in Workers : (Busy(v)' <=> Busy(v)) /\ worker'[v].key = worker[v].key
  BY <1>1, <1>4 DEF Busy
<1>6. AllTold'
  BY <1>2, <1>3 DEF Safe, AllTold, Told, Clean, Once, store
<1>7. ASSUME NEW v \in Workers
      PROVE  WorkerInv(v)'
  <2>1. CASE v = w
    <3>1. JobAt("reply", j) /\ Knows("reply", "broken", worker[w].key, j)'
      BY <1>1 DEF JobAt, Knows
    <3>. QED
      BY <1>1, <1>2, <1>4, <2>1, <3>1 DEF WorkerInv, Held, Knows
  <2>2. CASE v # w
    BY <1>2, <1>3, <1>4, <2>2 DEF Safe, WorkerInv, Held, Knows, Clean, Busy
  <2>. QED
    BY <2>1, <2>2
<1>. QED
  BY <1>2, <1>3, <1>4, <1>5, <1>6, <1>7, ExchangeKeeps DEF TypeOK

\* The provider takes or refuses the one notification of a job on its way.
LEMMA ProviderTells ==
    ASSUME NEW m, m \in flight, NEW k, k = m[1], flight' = flight \ {m}, sends' = sends,
           accepts[k] \in Nat, accepts'[k] \in {accepts[k], accepts[k] + 1},
           NEW j, Told(k, j)
    PROVE  /\ Told(k, j)'
           /\ j.req = "native" => Clean(k)' \/ accepts'[k] = accepts[k] + 1
           /\ \A pc, reply : Knows(pc, reply, k, j) => Knows(pc, reply, k, j)'
<1>1. ~Clean(k) /\ j # NoJob
  BY DEF Clean, Told
<1>2. j.req = "native" => accepts[k] = 0 /\ \A n \in flight : n[1] = k => n = m
  BY <1>1 DEF Told, Once
<1>3. j.req = "native" => Once(k)' /\ (Clean(k)' \/ accepts'[k] = accepts[k] + 1)
  BY <1>2 DEF Once, Clean
<1>4. accepts[k] > 0 => accepts'[k] > 0
  OBVIOUS
<1>5. Told(k, j)'
  BY <1>1, <1>3, <1>4 DEF Told
<1>6. \A pc, reply : Knows(pc, reply, k, j) => Knows(pc, reply, k, j)'
  BY <1>1, <1>4 DEF Knows
<1>. QED
  BY <1>3, <1>5, <1>6

LEMMA ProviderKeeps ==
    ASSUME Inv, NEW m \in flight, Provider(m)
    PROVE  Inv'
<1>0. TypeOK /\ Safe
  BY DEF Inv
<1>1. /\ flight' = flight \ {m} /\ sends' = sends /\ UNCHANGED <<store, phase, handlers, queue, stops>>
      /\ mem' = mem /\ disk' = disk /\ phase' = phase
  BY DEF Provider, store
<1>2. PICK k \in Keys : k = m[1]
  BY <1>0 DEF TypeOK
<1>3. PICK ok \in BOOLEAN :
        /\ accepts' = [accepts EXCEPT ![k] = IF ok THEN accepts[k] + 1 ELSE accepts[k]]
        /\ \/ worker' = worker
           \/ \E w \in Workers, reply \in Replies :
                /\ AtStep(w, "wait") /\ Message(w) = m /\ Answered(w, reply)
                /\ ok => reply \in {"confirmed", "noid", "5xx", "broken"}
                /\ ~ok => reply \in {"429", "4xx", "5xx", "broken"}
  <2>1. PICK ok \in BOOLEAN :
          /\ accepts' = [accepts EXCEPT ![k] = IF ok THEN accepts[k] + 1 ELSE accepts[k]]
          /\ LET waiting == {w \in Workers : AtStep(w, "wait") /\ Message(w) = m}
                 replies == IF ok THEN {"confirmed", "noid", "5xx", "broken"}
                                  ELSE {"429", "4xx", "5xx", "broken"}
             IN  \/ waiting = {} /\ UNCHANGED worker
                 \/ \E w \in waiting, reply \in replies : Answered(w, reply)
    BY <1>2 DEF Provider
  <2>2. (IF ok THEN {"confirmed", "noid", "5xx", "broken"} ELSE {"429", "4xx", "5xx", "broken"}) \subseteq Replies
    BY DEF Replies
  <2>. QED
    BY <2>1, <2>2
<1>4. /\ accepts' \in [Keys -> Nat] /\ accepts[k] \in Nat
      /\ accepts'[k] = IF ok THEN accepts[k] + 1 ELSE accepts[k]
      /\ accepts'[k] \in {accepts[k], accepts[k] + 1}
      /\ \A l \in Keys : l # k => accepts'[l] = accepts[l]
  BY <1>0, <1>3 DEF TypeOK
<1>5. ASSUME NEW l \in Keys
      PROVE  /\ \A i : Told(l, i) => Told(l, i)'
             /\ \A i, pc, reply : Told(l, i) /\ Knows(pc, reply, l, i) => Knows(pc, reply, l, i)'
  <2>1. CASE l = k
    BY <1>1, <1>2, <1>4, <2>1, ProviderTells
  <2>2. CASE l # k
    <3>1. \A n : n[1] = l => (n \in flight <=> n \in flight')
      BY <1>1, <1>2, <2>2
    <3>. QED
      BY <1>1, <1>4, <2>2, <3>1, OtherKeys
  <2>. QED
    BY <2>1, <2>2
<1>6. AllTold'
  <2>1. ASSUME NEW l \in Keys, Told(l, disk[l])
        PROVE  Told(l, disk[l])'
    <3>1. PICK x : x = disk[l]
      OBVIOUS
    <3>2. Told(l, x)'
      BY <1>5, <2>1, <3>1
    <3>. QED
      BY <1>1, <3>1, <3>2
  <2>2. ASSUME NEW l \in Keys, Told(l, mem[l])
        PROVE  Told(l, mem[l])'
    <3>1. PICK x : x = mem[l]
      OBVIOUS
    <3>2. Told(l, x)'
      BY <1>5, <2>2, <3>1
    <3>. QED
      BY <1>1, <3>1, <3>2
  <2>. QED
    BY <1>0, <1>1, <2>1, <2>2 DEF Safe, AllTold
<1>7. ASSUME NEW v \in Workers, Busy(v), worker'[v] = worker[v]
      PROVE  WorkerInv(v)'
  <2>1. PICK l, pc, r, i : l \in Keys /\ l = worker[v].key /\ pc = worker[v].pc /\ r = worker[v].reply /\ i = Held(v)
    BY <1>7, BusyTypes
  <2>2. JobAt(pc, i) /\ Knows(pc, r, l, i) /\ Told(l, i)
    BY <1>0, <1>7, <2>1, BusyTypes DEF Safe, WorkerInv
  <2>3. Knows(pc, r, l, i)'
    BY <1>5, <2>1, <2>2
  <2>. QED
    BY <1>1, <1>7, <2>1, <2>2, <2>3 DEF WorkerInv, Held
<1>8. CASE worker' = worker
  <2>1. \A v \in Workers : (Busy(v)' <=> Busy(v)) /\ worker'[v].key = worker[v].key
    BY <1>8 DEF Busy
  <2>2. \A v \in Workers : WorkerInv(v)'
    BY <1>7, <1>8 DEF WorkerInv, Busy
  <2>. QED
    BY <1>0, <1>1, <1>4, <1>6, <1>8, <2>1, <2>2, ExchangeKeeps DEF TypeOK
<1>9. ASSUME NEW w \in Workers, NEW reply \in Replies,
             AtStep(w, "wait"), Message(w) = m, Answered(w, reply),
             ok => reply \in {"confirmed", "noid", "5xx", "broken"},
             ~ok => reply \in {"429", "4xx", "5xx", "broken"}
      PROVE  Inv'
  <2>1. /\ worker' \in [Workers -> {Idle} \union [pc : Steps, key : Keys, reply : Replies]]
        /\ \A v \in Workers : v # w => worker'[v] = worker[v]
        /\ worker'[w].pc = "reply" /\ worker'[w].key = worker[w].key /\ worker'[w].reply = reply
    BY <1>0, <1>9, AnsweredTypes
  <2>2. worker[w].key = k
    BY <1>2, <1>9 DEF Message
  <2>3. PICK j \in Jobs : j = Held(w) /\ JobAt("wait", j) /\ Told(k, j) /\ Busy(w)
    BY <1>9, <2>2, StepFacts DEF Steps
  <2>4. j.req = "native" => Clean(k)' \/ accepts'[k] = accepts[k] + 1
    BY <1>1, <1>2, <1>4, <2>3, ProviderTells
  <2>5. JobAt("reply", j)
    BY <2>3 DEF JobAt
  <2>6. Knows("reply", reply, k, j)'
    <3>1. CASE ok
      BY <1>4, <1>9, <3>1 DEF Knows
    <3>2. CASE ~ok
      BY <1>4, <1>9, <2>4, <3>2 DEF Knows
    <3>. QED
      BY <3>1, <3>2
  <2>7. WorkerInv(w)'
    BY <1>1, <2>1, <2>2, <2>3, <2>5, <2>6 DEF WorkerInv, Held, Knows
  <2>8. \A v \in Workers : (Busy(v)' <=> Busy(v)) /\ worker'[v].key = worker[v].key
    BY <2>1, <2>3 DEF Busy
  <2>9. \A v \in Workers : WorkerInv(v)'
    <3>1. ASSUME NEW v \in Workers, v # w
          PROVE  WorkerInv(v)'
      <4>1. worker'[v] = worker[v]
        BY <2>1, <3>1
      <4>. QED
        BY <1>7, <4>1 DEF WorkerInv, Busy
    <3>. QED
      BY <2>7, <3>1
  <2>. QED
    BY <1>1, <1>4, <1>6, <2>1, <2>8, <2>9, <1>0, ExchangeKeeps DEF TypeOK
<1>. QED
  BY <1>3, <1>8, <1>9
-----------------------------------------------------------------------------
(***************************************************************************)
(* Handlers and queue.                                                     *)
(***************************************************************************)

\* A job passes from hand to hand.
LEMMA HandsKeep ==
    ASSUME Inv, phase # "down", UNCHANGED <<store, phase, flight, history, stops>>,
           handlers' \subseteq Keys, queue' \in Seq(Keys),
           worker' \in [Workers -> {Idle} \union [pc : Steps, key : Keys, reply : Replies]],
           HoldInv', \A k \in Keys : Has(k)' => Has(k),
           phase = "up" => \A k \in Keys : Has(k) => Has(k)',
           \A v \in Workers : Busy(v)' => worker'[v] = worker[v] \/ worker'[v].pc = "execute"
    PROVE  Inv'
<1>0. TypeOK /\ Safe
  BY DEF Inv
<1>1. /\ mem' = mem /\ disk' = disk /\ unsaved' = unsaved /\ faults' = faults
      /\ phase' = phase /\ stops' = stops
      /\ flight' = flight /\ sends' = sends /\ accepts' = accepts
  BY DEF store, history
<1>2. TypeOK'
  BY <1>0, <1>1 DEF TypeOK
<1>3. Counted' /\ DownInv' /\ AllTold'
  BY <1>0, <1>1 DEF Safe, Counted, DownInv, AllTold, Told, Clean, Once
<1>4. KeptInv'
  BY <1>0, <1>1 DEF Safe, KeptInv, Resumable
<1>5. DiskInv'
  BY <1>0, <1>1 DEF Safe, DiskInv
<1>6. ASSUME NEW v \in Workers
      PROVE  WorkerInv(v)'
  <2>1. CASE worker'[v] = worker[v]
    BY <1>0, <1>1, <2>1 DEF Safe, WorkerInv, Held, Knows, Clean, Busy
  <2>2. CASE worker'[v].pc = "execute"
    BY <2>2 DEF WorkerInv, JobAt, Knows
  <2>. QED
    BY <2>1, <2>2 DEF WorkerInv
<1>. QED
  BY <1>2, <1>3, <1>4, <1>5, <1>6 DEF Inv, Safe

LEMMA DequeueKeeps ==
    ASSUME Inv, NEW w \in Workers, Dequeue(w)
    PROVE  Inv'
<1>0. TypeOK /\ Safe
  BY DEF Inv
<1>1. /\ phase = "up" /\ queue # <<>> /\ queue' = Tail(queue)
      /\ UNCHANGED <<store, phase, flight, history, stops>>
      /\ mem' = mem /\ handlers' = handlers /\ ~Busy(w)
  BY DEF Dequeue, store, Busy, Idle
<1>2. PICK n \in Nat : n = Len(queue) /\ n >= 1
  <2>1. Len(queue) \in Nat /\ Len(queue) # 0
    BY <1>0, <1>1, EmptySeq DEF TypeOK
  <2>. QED
    BY <2>1
<1>3. /\ queue' \in Seq(Keys) /\ Len(queue') = n - 1
      /\ \A i \in 1..(n - 1) : queue'[i] = queue[i + 1]
      /\ \A i \in 1..n : queue[i] \in Keys
  BY <1>0, <1>1, <1>2, HeadTailProperties DEF TypeOK
<1>4. PICK k \in Keys : k = queue[1] /\ k = Head(queue)
  BY <1>0, <1>1, <1>2 DEF TypeOK
<1>5. PICK f \in [pc : Steps, key : Keys, reply : Replies] :
        /\ worker' = [worker EXCEPT ![w] = f]
        /\ f.pc = "execute" /\ f.key = k
  <2>1. PICK f : f = [Idle EXCEPT !.pc = "execute", !.key = k]
    OBVIOUS
  <2>2. f \in [pc : Steps, key : Keys, reply : Replies] /\ f.pc = "execute" /\ f.key = k
    BY <2>1 DEF Idle, Steps, Replies
  <2>. QED
    BY <1>4, <2>1, <2>2 DEF Dequeue
<1>6. /\ worker' \in [Workers -> {Idle} \union [pc : Steps, key : Keys, reply : Replies]]
      /\ \A v \in Workers : v # w => worker'[v] = worker[v]
      /\ worker'[w] = f
  BY <1>0, <1>5 DEF TypeOK
<1>7. /\ \A v \in Workers : v # w => (Busy(v)' <=> Busy(v))
      /\ Busy(w)' /\ worker'[w].key = k
  BY <1>5, <1>6 DEF Busy
<1>8. HoldInv'
  <2>1. \A i \in 1..(n - 1) : queue'[i] # k /\ mem[queue'[i]] # NoJob /\ queue'[i] \notin handlers
    BY <1>0, <1>2, <1>3, <1>4 DEF Safe, HoldInv
  <2>2. \A i, j \in 1..(n - 1) : queue'[i] = queue'[j] => i = j
    BY <1>0, <1>2, <1>3 DEF Safe, HoldInv
  <2>3. mem[k] # NoJob /\ k \notin handlers
    BY <1>0, <1>2, <1>4 DEF Safe, HoldInv
  <2>4. ASSUME NEW v \in Workers, v # w, Busy(v)'
        PROVE  /\ mem[worker'[v].key] # NoJob /\ worker'[v].key \notin handlers
               /\ worker'[v].key # k
               /\ \A i \in 1..(n - 1) : queue'[i] # worker'[v].key
    BY <1>0, <1>2, <1>3, <1>4, <1>6, <1>7, <2>4 DEF Safe, HoldInv
  <2>5. \A u, v \in Workers : Busy(u)' /\ Busy(v)' /\ worker'[u].key = worker'[v].key => u = v
    <3>1. \A u, v \in Workers : Busy(u)' /\ Busy(v)' /\ u # w /\ v # w /\ worker'[u].key = worker'[v].key => u = v
      BY <1>0, <1>6, <1>7 DEF Safe, HoldInv
    <3>. QED
      BY <1>7, <2>4, <3>1
  <2>6. \A v \in Workers : Busy(v)' =>
          /\ mem[worker'[v].key] # NoJob /\ worker'[v].key \notin handlers
          /\ \A i \in 1..(n - 1) : queue'[i] # worker'[v].key
    BY <1>7, <2>1, <2>3, <2>4
  <2>7. \A l \in handlers : mem[l] # NoJob
    BY <1>0 DEF Safe, HoldInv
  <2>. QED
    BY <1>1, <1>3, <2>1, <2>2, <2>5, <2>6, <2>7 DEF HoldInv
<1>9. ASSUME NEW l \in Keys
      PROVE  Has(l)' <=> Has(l)
  <2>1. Has(l)' => Has(l)
    <3>1. \A v \in Workers : Busy(v)' /\ worker'[v].key = l => Has(l)
      BY <1>2, <1>4, <1>6, <1>7 DEF Has
    <3>2. \A i \in 1..(n - 1) : queue'[i] = l => Has(l)
      BY <1>2, <1>3 DEF Has
    <3>. QED
      BY <1>1, <1>3, <3>1, <3>2 DEF Has
  <2>2. Has(l) => Has(l)'
    <3>1. \A v \in Workers : Busy(v) /\ worker[v].key = l => Has(l)'
      BY <1>1, <1>6, <1>7 DEF Has
    <3>2. ASSUME NEW i \in 1..n, queue[i] = l
          PROVE  Has(l)'
      <4>1. CASE i = 1
        BY <1>4, <1>7, <3>2, <4>1 DEF Has
      <4>2. CASE i # 1
        <5>1. i - 1 \in 1..(n - 1) /\ queue'[i - 1] = l
          BY <1>2, <1>3, <3>2, <4>2
        <5>. QED
          BY <1>3, <5>1 DEF Has
      <4>. QED
        BY <4>1, <4>2
    <3>. QED
      BY <1>1, <1>2, <3>1, <3>2 DEF Has
  <2>. QED
    BY <2>1, <2>2
<1>10. \A v \in Workers : worker'[v] = worker[v] \/ worker'[v].pc = "execute"
  BY <1>5, <1>6
<1>. QED
  BY <1>0, <1>1, <1>3, <1>6, <1>8, <1>9, <1>10, HandsKeep DEF TypeOK

LEMMA EnqueueKeeps ==
    ASSUME Inv, NEW k \in Keys, Enqueue(k)
    PROVE  Inv'
<1>0. TypeOK /\ Safe
  BY DEF Inv
<1>1. /\ k \in handlers /\ handlers' = handlers \ {k} /\ phase # "down"
      /\ UNCHANGED <<store, phase, flight, history, stops>>
      /\ mem' = mem /\ worker' = worker
  BY <1>0 DEF Enqueue, store, Safe, DownInv
<1>2. PICK n \in Nat : n = Len(queue) /\ \A i \in 1..n : queue[i] \in Keys
  BY <1>0 DEF TypeOK
<1>3. CASE phase # "up" /\ UNCHANGED queue
  <2>1. HoldInv' /\ \A l \in Keys : Has(l)' => Has(l)
    BY <1>0, <1>1, <1>3 DEF Safe, HoldInv, Has, Busy
  <2>. QED
    BY <1>0, <1>1, <1>3, <2>1, HandsKeep DEF TypeOK
<1>4. CASE queue' = Append(queue, k)
  <2>1. /\ queue' \in Seq(Keys) /\ Len(queue') = n + 1 /\ queue'[n + 1] = k
        /\ \A i \in 1..n : queue'[i] = queue[i]
    BY <1>0, <1>2, <1>4, AppendProperties DEF TypeOK
  <2>2. \A i \in 1..(n + 1) : i = n + 1 \/ i \in 1..n
    OBVIOUS
  <2>3. HoldInv'
    <3>1. \A i \in 1..n : queue[i] # k
      BY <1>0, <1>1, <1>2 DEF Safe, HoldInv
    <3>2. \A i \in 1..(n + 1) : mem[queue'[i]] # NoJob /\ queue'[i] \notin handlers'
      BY <1>0, <1>1, <1>2, <2>1, <2>2 DEF Safe, HoldInv
    <3>3. \A i, j \in 1..(n + 1) : queue'[i] = queue'[j] => i = j
      <4>1. \A i, j \in 1..n : queue[i] = queue[j] => i = j
        BY <1>0, <1>2 DEF Safe, HoldInv
      <4>. QED
        BY <2>1, <2>2, <3>1, <4>1
    <3>4. \A v \in Workers : Busy(v) =>
            /\ mem[worker[v].key] # NoJob /\ worker[v].key \notin handlers
            /\ \A i \in 1..(n + 1) : queue'[i] # worker[v].key
      BY <1>0, <1>1, <1>2, <2>1, <2>2 DEF Safe, HoldInv
    <3>5. /\ \A l \in handlers : mem[l] # NoJob
          /\ \A u, v \in Workers : Busy(u) /\ Busy(v) /\ worker[u].key = worker[v].key => u = v
      BY <1>0 DEF Safe, HoldInv
    <3>. QED
      BY <1>1, <2>1, <3>2, <3>3, <3>4, <3>5 DEF HoldInv, Busy
  <2>4. ASSUME NEW l \in Keys
        PROVE  Has(l)' <=> Has(l)
    <3>1. Has(l)' => Has(l)
      BY <1>1, <1>2, <2>1, <2>2 DEF Has, Busy
    <3>2. Has(l) => Has(l)'
      <4>1. l = k => Has(l)'
        <5>1. n + 1 \in 1..Len(queue')
          BY <2>1
        <5>. QED
          BY <2>1, <5>1 DEF Has
      <4>2. l # k /\ Has(l) => Has(l)'
        <5>1. \A i \in 1..n : i \in 1..Len(queue')
          BY <2>1
        <5>. QED
          BY <1>1, <1>2, <2>1, <5>1 DEF Has, Busy
      <4>. QED
        BY <4>1, <4>2
    <3>. QED
      BY <3>1, <3>2
  <2>. QED
    BY <1>0, <1>1, <2>1, <2>3, <2>4, HandsKeep DEF TypeOK
<1>. QED
  BY <1>3, <1>4 DEF Enqueue, CtxDone
-----------------------------------------------------------------------------
(***************************************************************************)
(* Submissions, and the process.                                           *)
(***************************************************************************)

LEMMA SubmitKeeps ==
    ASSUME Inv, NEW k \in Keys, NEW r \in Requests, Submit(k, r)
    PROVE  Inv' /\ Writes
<1>0. TypeOK /\ Safe
  BY DEF Inv
<1>1. /\ mem[k] = NoJob /\ HasRoom /\ phase # "down"
      /\ phase' = phase /\ queue' = queue /\ worker' = worker /\ stops' = stops
      /\ flight' = flight /\ sends' = sends /\ accepts' = accepts
  BY DEF Submit, CanSubmit, history
<1>2. PICK new \in Jobs : new = NewJob(r)
  <2>1. 0 \in 0..MaxDeliveries
    BY RunnerBounds
  <2>. QED
    BY <2>1 DEF NewJob, Jobs
<1>3. /\ new # NoJob /\ View(new) = [req |-> r, status |-> "queued", report |-> FALSE]
      /\ new.status = "queued" /\ new.delivery = "none" /\ ~new.result /\ new.attempts = 0
  BY <1>2, ViewFacts DEF NewJob
<1>4. Told(k, new)
  <2>1. Told(k, NoJob)
    BY <1>0, <1>1 DEF Safe, AllTold
  <2>. QED
    BY <1>3, <2>1 DEF Told, Clean, Once
<1>5. ~Has(k)
  BY <1>0, <1>1 DEF Safe, HoldInv, Has
<1>6. PICK table \in [Keys -> {NoJob} \union Jobs] : table = [mem EXCEPT ![k] = new]
  BY <1>0 DEF TypeOK
<1>7. table[k] = new /\ \A l \in Keys : l # k => table[l] = mem[l]
  BY <1>0, <1>6 DEF TypeOK
<1>8. /\ IsFiniteSet(Recorded(table)) /\ Cardinality(Recorded(table)) <= MaxJobs
  <2>1. Recorded(table) = Recorded(mem) \union {k} /\ k \notin Recorded(mem)
    BY <1>1, <1>3, <1>7 DEF Recorded
  <2>2. /\ IsFiniteSet(Recorded(table)) /\ Cardinality(Recorded(table)) = Cardinality(Recorded(mem)) + 1
    BY <1>0, <2>1, FS_AddElement DEF Safe, Counted
  <2>3. Cardinality(Recorded(mem)) \in Nat
    BY <1>0, FS_CardinalityType DEF Safe, Counted
  <2>. QED
    BY <1>1, <2>2, <2>3, RunnerBounds DEF HasRoom
<1>9. \A l \in Keys : Told(l, table[l])
  BY <1>0, <1>1, <1>4, <1>7 DEF Safe, AllTold
<1>10. ASSUME Saved(k, new), handlers' = handlers \union {k}
       PROVE  Inv'
  <2>1. mem' = table /\ disk' = table /\ unsaved' = unsaved /\ faults' = faults
    BY <1>6, <1>10 DEF Saved
  <2>2. TypeOK'
    BY <1>0, <1>1, <1>10, <2>1 DEF TypeOK
  <2>3. Counted' /\ DownInv' /\ DiskInv'
    BY <1>1, <1>8, <2>1 DEF Counted, DownInv, DiskInv
  <2>4. HoldInv'
    <3>1. \A l \in Keys : mem[l] # NoJob => table[l] # NoJob /\ l # k
      BY <1>1, <1>7
    <3>2. handlers \subseteq Keys /\ \A i \in 1..Len(queue) : queue[i] \in Keys
      BY <1>0 DEF TypeOK
    <3>3. \A v \in Workers : Busy(v) => worker[v].key \in Keys
      BY BusyTypes
    <3>. QED
      BY <1>0, <1>1, <1>3, <1>7, <1>10, <2>1, <3>1, <3>2, <3>3 DEF Safe, HoldInv, Busy
  <2>5. KeptInv'
    <3>1. \A l \in Keys : (Has(l) => Has(l)') /\ Has(k)'
      BY <1>1, <1>10 DEF Has, Busy
    <3>. QED
      BY <1>0, <1>1, <1>7, <2>1, <3>1 DEF Safe, KeptInv, Resumable
  <2>6. AllTold'
    BY <1>1, <1>9, <2>1 DEF AllTold, Told, Clean, Once
  <2>7. ASSUME NEW v \in Workers, Busy(v)
        PROVE  WorkerInv(v)'
    <3>1. worker[v].key # k /\ worker[v].key \in Keys
      BY <1>1, <2>7, BusyTypes DEF Held
    <3>2. mem'[worker[v].key] = mem[worker[v].key]
      BY <1>7, <2>1, <3>1
    <3>. QED
      BY <1>0, <1>1, <2>7, <3>2 DEF Safe, WorkerInv, Held, Knows, Clean
  <2>8. \A v \in Workers : WorkerInv(v)'
    BY <1>1, <2>7 DEF WorkerInv, Busy
  <2>. QED
    BY <2>2, <2>3, <2>4, <2>5, <2>6, <2>8 DEF Inv, Safe
<1>11. ASSUME SaveFails(k, new), UNCHANGED handlers
       PROVE  Inv'
  <2>1. /\ mem' = mem /\ disk' \in {disk, table} /\ unsaved' = unsaved \union {k} /\ faults' = faults + 1
        /\ handlers' = handlers
    BY <1>6, <1>11 DEF SaveFails
  <2>2. TypeOK'
    BY <1>0, <1>1, <2>1 DEF TypeOK
  <2>3. Counted' /\ DownInv'
    BY <1>0, <1>1, <1>8, <2>1 DEF Safe, Counted, DownInv
  <2>4. HoldInv' /\ \A l \in Keys : Has(l)' <=> Has(l)
    BY <1>0, <1>1, <2>1 DEF Safe, HoldInv, Has, Busy
  <2>5. KeptInv'
    BY <1>0, <1>1, <2>1, <2>4 DEF Safe, KeptInv, Resumable
  <2>6. DiskInv'
    <3>1. CASE disk' = disk
      BY <1>0, <1>1, <2>1, <2>4, <3>1 DEF Safe, DiskInv
    <3>2. CASE disk' = table
      <4>1. Ahead(View(NoJob), View(new))
        BY <1>3 DEF Ahead, View
      <4>2. \A l \in Keys : table[l] # mem[l] => l = k
        BY <1>7
      <4>. QED
        BY <1>1, <1>5, <1>7, <2>1, <2>4, <3>2, <4>1, <4>2 DEF DiskInv
    <3>. QED
      BY <2>1, <3>1, <3>2
  <2>7. AllTold'
    BY <1>0, <1>1, <1>9, <2>1 DEF Safe, AllTold, Told, Clean, Once
  <2>8. \A v \in Workers : WorkerInv(v)'
    BY <1>0, <1>1, <2>1 DEF Safe, WorkerInv, Held, Knows, Clean, Busy
  <2>. QED
    BY <2>2, <2>3, <2>4, <2>5, <2>6, <2>7, <2>8 DEF Inv, Safe
<1>12. Writes
  <2>1. Ahead(View(mem[k]), View(new))
    BY <1>1, <1>3 DEF Ahead, View
  <2>2. phase \in {"up", "stopping"}
    BY DEF Submit, CanSubmit
  <2>3. Saved(k, new) \/ SaveFails(k, new)
    BY <1>2 DEF Submit
  <2>. QED
    BY <1>1, <2>1, <2>2, <2>3 DEF Writes
<1>. QED
  BY <1>2, <1>10, <1>11, <1>12 DEF Submit

\* An order of a finite set names every element of it, once.
LEMMA OrderFacts ==
    ASSUME NEW S, IsFiniteSet(S), NEW s \in Orders(S)
    PROVE  /\ s \in Seq(S) /\ Len(s) \in Nat
           /\ \A i \in 1..Len(s) : s[i] \in S
           /\ \A i, j \in 1..Len(s) : s[i] = s[j] => i = j
           /\ \A x \in S : \E i \in 1..Len(s) : s[i] = x
<1>1. PICK n \in Nat : n = Cardinality(S)
  BY FS_CardinalityType
<1>2. s \in [1..n -> S] /\ \A i, j \in 1..n : s[i] = s[j] => i = j
  BY <1>1 DEF Orders
<1>3. s \in Seq(S) /\ Len(s) = n
  BY <1>2
<1>4. s \in Injection(1..n, S)
  BY <1>2 DEF Injection, IsInjective
<1>5. IsFiniteSet(1..n) /\ Cardinality(1..n) = n
  BY FS_Interval
<1>6. s \in Surjection(1..n, S)
  BY <1>1, <1>4, <1>5, FS_Injection
<1>. QED
  BY <1>1, <1>2, <1>3, <1>6 DEF Surjection

LEMMA RestartKeeps == Inv /\ Restart => Inv'
<1>. SUFFICES ASSUME Inv, Restart
              PROVE  Inv'
  OBVIOUS
<1>0. TypeOK /\ Safe
  BY DEF Inv
<1>1. /\ phase = "down" /\ phase' = "up" /\ mem' = disk /\ disk' = disk /\ unsaved' = {}
      /\ handlers' = {} /\ worker' = worker /\ stops' = stops /\ faults' = faults
      /\ flight' = flight /\ sends' = sends /\ accepts' = accepts
      /\ Cardinality(Recorded(disk)) <= MaxJobs
      /\ \A w \in Workers : ~Busy(w)
  BY <1>0 DEF Restart, history, Safe, DownInv
<1>2. PICK S : S = Resumable(disk)
  OBVIOUS
<1>3. S \subseteq Recorded(disk) /\ S \subseteq Keys
  BY <1>2 DEF Resumable, Recorded, NoJob, Unfinished
<1>4. IsFiniteSet(S)
  BY <1>0, <1>3, FS_Subset DEF Safe, Counted
<1>5. queue' \in Orders(S)
  BY <1>2 DEF Restart
<1>6. PICK q \in Seq(S), n \in Nat :
        /\ q = queue' /\ n = Len(q)
        /\ \A i \in 1..n : q[i] \in S
        /\ \A i, j \in 1..n : q[i] = q[j] => i = j
        /\ \A x \in S : \E i \in 1..n : q[i] = x
  BY <1>4, <1>5, OrderFacts
<1>7. TypeOK'
  <2>1. q \in Seq(Keys)
    BY <1>3, <1>6
  <2>. QED
    BY <1>0, <1>1, <1>6, <2>1 DEF TypeOK
<1>8. Counted' /\ DownInv' /\ DiskInv'
  BY <1>0, <1>1 DEF Safe, Counted, DownInv, DiskInv
<1>9. HoldInv'
  BY <1>1, <1>3, <1>6 DEF HoldInv, Recorded, Busy
<1>10. KeptInv'
  BY <1>1, <1>2, <1>6 DEF KeptInv, Has
<1>11. AllTold'
  BY <1>0, <1>1 DEF Safe, AllTold, Told, Clean, Once
<1>12. \A w \in Workers : WorkerInv(w)'
  BY <1>1 DEF WorkerInv, Busy
<1>. QED
  BY <1>7, <1>8, <1>9, <1>10, <1>11, <1>12 DEF Inv, Safe

\* Without a process: nothing but the file and the provider.
LEMMA DownKeeps ==
    ASSUME TypeOK', Counted', phase' = "down", AllTold',
           mem' = [k \in Keys |-> NoJob], handlers' = {}, queue' = <<>>,
           worker' = [w \in Workers |-> Idle]
    PROVE  Inv'
<1>1. Len(queue') = 0 /\ \A i \in 1..Len(queue') : FALSE
  <2>1. Len(<<>>) = 0
    BY EmptySeq
  <2>. QED
    BY <2>1
<1>2. \A w \in Workers : worker'[w].pc = "idle"
  BY DEF Idle
<1>3. DownInv' /\ HoldInv' /\ KeptInv' /\ DiskInv' /\ \A w \in Workers : WorkerInv(w)'
  BY <1>1, <1>2 DEF DownInv, HoldInv, KeptInv, DiskInv, WorkerInv, Busy
<1>. QED
  BY <1>3 DEF Inv, Safe

LEMMA NoneRecorded ==
    /\ IsFiniteSet(Recorded([k \in Keys |-> NoJob]))
    /\ Cardinality(Recorded([k \in Keys |-> NoJob])) <= MaxJobs
<1>1. Recorded([k \in Keys |-> NoJob]) = {}
  BY DEF Recorded
<1>. QED
  BY <1>1, FS_EmptySet, RunnerBounds

LEMMA EndsKeeps == Inv /\ (Crash \/ Exit) => Inv'
<1>. SUFFICES ASSUME Inv, Crash \/ Exit
              PROVE  Inv'
  OBVIOUS
<1>0. TypeOK /\ Safe
  BY DEF Inv
<1>1. /\ phase' = "down" /\ mem' = [k \in Keys |-> NoJob] /\ handlers' = {} /\ queue' = <<>>
      /\ worker' = [w \in Workers |-> Idle] /\ unsaved' = {} /\ disk' = disk /\ faults' = faults
      /\ flight' = flight /\ sends' = sends /\ accepts' = accepts /\ stops' \in Nat
  BY <1>0 DEF Crash, Exit, ProcessEnds, history, TypeOK
<1>2. TypeOK'
  BY <1>0, <1>1, EmptySeq DEF TypeOK
<1>3. Counted'
  BY <1>0, <1>1, NoneRecorded DEF Safe, Counted
<1>4. AllTold'
  BY <1>0, <1>1 DEF Safe, AllTold, Told, Clean, Once
<1>. QED
  BY <1>1, <1>2, <1>3, <1>4, DownKeeps

LEMMA ShutdownKeeps == Inv /\ (Signal \/ CloseBegin \/ CloseEnd) => Inv'
<1>. SUFFICES ASSUME Inv, Signal \/ CloseBegin \/ CloseEnd
              PROVE  Inv'
  OBVIOUS
<1>0. TypeOK /\ Safe
  BY DEF Inv
<1>1. /\ phase # "down" /\ phase' \in {"stopping", "closed", "released"} /\ stops' \in Nat
      /\ mem' = mem /\ disk' = disk /\ unsaved' = unsaved /\ faults' = faults
      /\ handlers' = handlers /\ queue' = queue /\ worker' = worker
      /\ flight' = flight /\ sends' = sends /\ accepts' = accepts
  BY <1>0 DEF Signal, CloseBegin, CloseEnd, store, history, TypeOK
<1>2. TypeOK'
  BY <1>0, <1>1 DEF TypeOK
<1>3. Counted' /\ DownInv' /\ HoldInv' /\ KeptInv'
  BY <1>0, <1>1 DEF Safe, Counted, DownInv, HoldInv, KeptInv, Busy
<1>4. DiskInv'
  BY <1>0, <1>1 DEF Safe, DiskInv, Has, Busy
<1>5. AllTold' /\ \A w \in Workers : WorkerInv(w)'
  BY <1>0, <1>1 DEF Safe, AllTold, Told, Clean, Once, WorkerInv, Held, Knows, Busy
<1>. QED
  BY <1>2, <1>3, <1>4, <1>5 DEF Inv, Safe
-----------------------------------------------------------------------------
(***************************************************************************)
(* The invariant holds.                                                    *)
(***************************************************************************)

LEMMA InitInv == Init => Inv
<1>. SUFFICES ASSUME Init
              PROVE  Inv
  OBVIOUS
<1>1. TypeOK
  BY InitTypes
<1>2. Counted
  BY NoneRecorded DEF Init, Counted
<1>3. Len(queue) = 0 /\ \A i \in 1..Len(queue) : FALSE
  <2>1. Len(<<>>) = 0
    BY EmptySeq
  <2>. QED
    BY <2>1 DEF Init
<1>4. \A w \in Workers : ~Busy(w)
  BY DEF Init, Busy, Idle
<1>5. DownInv /\ HoldInv /\ KeptInv /\ DiskInv /\ \A w \in Workers : WorkerInv(w)
  BY <1>3, <1>4 DEF Init, DownInv, HoldInv, KeptInv, DiskInv, WorkerInv
<1>6. AllTold
  BY DEF Init, AllTold, Told, Clean
<1>. QED
  BY <1>1, <1>2, <1>5, <1>6 DEF Inv, Safe

LEMMA WorkerKeeps ==
    ASSUME Inv, NEW w \in Workers, WorkerStep(w)
    PROVE  Inv' /\ Writes
<1>1. CASE Dequeue(w)
  BY <1>1, DequeueKeeps DEF Dequeue, store, Writes
<1>2. CASE Execute(w)
  BY <1>2, ExecuteKeeps
<1>3. CASE Report(w)
  BY <1>3, ReportKeeps
<1>4. CASE ReportFails(w) \/ Finish(w)
  BY <1>4, EndKeeps
<1>5. CASE Deliver(w)
  BY <1>5, DeliverKeeps
<1>6. CASE Send(w)
  BY <1>6, SendKeeps DEF Send, store, Writes
<1>7. CASE SendBreaks(w)
  BY <1>7, SendBreaksKeeps DEF SendBreaks, store, Writes
<1>8. CASE Replied(w) \/ Exhausted(w)
  BY <1>8, RepliedKeeps
<1>9. CASE BackoffEnds(w)
  BY <1>9, BackoffKeeps
<1>. QED
  BY <1>1, <1>2, <1>3, <1>4, <1>5, <1>6, <1>7, <1>8, <1>9 DEF WorkerStep

\* Every step keeps the invariant, and is an update or one of the process.
LEMMA NextKeeps ==
    ASSUME Inv, [Next]_vars
    PROVE  /\ Inv'
           /\ Writes \/ Restart \/ Crash \/ Exit \/ Signal \/ CloseBegin \/ CloseEnd
<1>1. CASE UNCHANGED vars
  <2>1. /\ mem' = mem /\ disk' = disk /\ unsaved' = unsaved /\ faults' = faults
        /\ phase' = phase /\ handlers' = handlers /\ queue' = queue /\ worker' = worker
        /\ flight' = flight /\ sends' = sends /\ accepts' = accepts /\ stops' = stops
    BY <1>1 DEF vars, store, history
  <2>2. TypeOK' /\ Counted' /\ DownInv' /\ HoldInv' /\ KeptInv'
    BY <2>1 DEF Inv, Safe, TypeOK, Counted, DownInv, HoldInv, KeptInv, Busy, Has
  <2>3. DiskInv' /\ AllTold'
    BY <2>1 DEF Inv, Safe, DiskInv, AllTold, Told, Clean, Once, Has, Busy
  <2>4. \A w \in Workers : WorkerInv(w)'
    BY <2>1 DEF Inv, Safe, WorkerInv, Held, Knows, Clean, Busy
  <2>. QED
    BY <2>1, <2>2, <2>3, <2>4 DEF Inv, Safe, Writes
<1>2. CASE Restart
  BY <1>2, RestartKeeps
<1>3. CASE Crash \/ Exit
  BY <1>3, EndsKeeps
<1>4. CASE Signal \/ CloseBegin \/ CloseEnd
  BY <1>4, ShutdownKeeps
<1>5. ASSUME NEW k \in Keys, NEW r \in Requests, Submit(k, r)
      PROVE  Inv' /\ Writes
  BY <1>5, SubmitKeeps
<1>6. ASSUME NEW k \in Keys, Enqueue(k)
      PROVE  Inv' /\ Writes
  BY <1>6, EnqueueKeeps DEF Enqueue, store, Writes
<1>7. ASSUME NEW w \in Workers, WorkerStep(w)
      PROVE  Inv' /\ Writes
  BY <1>7, WorkerKeeps
<1>8. ASSUME NEW m \in flight, Provider(m)
      PROVE  Inv' /\ Writes
  BY <1>8, ProviderKeeps DEF Provider, store, Writes
<1>. QED
  BY <1>1, <1>2, <1>3, <1>4, <1>5, <1>6, <1>7, <1>8 DEF Next

LEMMA InvHolds == Spec => []Inv
<1>1. Init => Inv
  BY InitInv
<1>2. Inv /\ [Next]_vars => Inv'
  BY NextKeeps
<1>. QED
  BY <1>1, <1>2, PTL DEF Spec

-----------------------------------------------------------------------------
(***************************************************************************)
(* The properties.                                                         *)
(***************************************************************************)

\* The types of the table, its file, the process and the provider
\* (newRunner, the struct runner).
THEOREM TypeCorrect == Spec => []TypeOK
<1>1. Inv => TypeOK
  BY DEF Inv
<1>. QED
  BY <1>1, InvHolds, PTL

LEMMA AtMostOne ==
    ASSUME NEW S, \A x, y \in S : x = y
    PROVE  IsFiniteSet(S) /\ Cardinality(S) \in {0, 1} /\ (S = {} => Cardinality(S) = 0)
<1>1. CASE S = {}
  BY <1>1, FS_EmptySet
<1>2. CASE S # {}
  <2>1. PICK x : S = {x}
    BY <1>2
  <2>. QED
    BY <1>2, <2>1, FS_Singleton
<1>. QED
  BY <1>1, <1>2

LEMMA HeldByOne ==
    ASSUME Inv, NEW k \in Keys
    PROVE  Cardinality(Holders(k)) <= 1
<1>1. ASSUME NEW x \in Holders(k), NEW y \in Holders(k)
      PROVE  x = y
  <2>1. DOMAIN queue = 1..Len(queue)
    BY DEF Inv, TypeOK
  <2>2. \A h \in Holders(k) :
          \/ h = <<"handler", k>> /\ k \in handlers
          \/ \E i \in 1..Len(queue) : h = <<"queue", i>> /\ queue[i] = k
          \/ \E w \in Workers : h = <<"worker", w>> /\ Busy(w) /\ worker[w].key = k
    BY <2>1 DEF Holders, Busy
  <2>3. HoldInv
    BY DEF Inv, Safe
  <2>. QED
    BY <2>2, <2>3 DEF HoldInv
<1>. QED
  BY <1>1, AtMostOne

\* A handler's job and those of the queue are different jobs of the table.
LEMMA QueueHasRoom ==
    ASSUME Inv, handlers # {}
    PROVE  Len(queue) < MaxJobs
<1>1. PICK h : h \in handlers /\ h \in Keys
  BY DEF Inv, TypeOK
<1>2. PICK n \in Nat : n = Len(queue) /\ \A i \in 1..n : queue[i] \in Keys
  BY DEF Inv, TypeOK
<1>3. PICK c \in Nat : /\ c = Cardinality(Recorded(mem)) /\ c <= MaxJobs /\ IsFiniteSet(Recorded(mem))
  BY FS_CardinalityType DEF Inv, Safe, Counted
<1>4. PICK f : f = [i \in 1..(n + 1) |-> IF i = n + 1 THEN h ELSE queue[i]]
  OBVIOUS
<1>5. \A i \in 1..(n + 1) : i = n + 1 \/ i \in 1..n
  OBVIOUS
<1>6. f \in [1..(n + 1) -> Recorded(mem)]
  BY <1>1, <1>2, <1>4, <1>5 DEF Inv, Safe, HoldInv, Recorded
<1>7. \A i, j \in 1..(n + 1) : f[i] = f[j] => i = j
  BY <1>1, <1>2, <1>4, <1>5 DEF Inv, Safe, HoldInv
<1>8. IsFiniteSet(1..(n + 1)) /\ Cardinality(1..(n + 1)) = n + 1
  BY FS_Interval
<1>9. ~(c < n + 1)
  BY <1>3, <1>6, <1>7, <1>8, FS_PigeonHole
<1>. QED
  BY <1>2, <1>3, <1>9, RunnerBounds

\* No job is in two hands and none is forgotten (submit, work and newRunner of
\* examples/automation-runner/runner.go), whatever is submitted again, fails
\* to be saved or is interrupted.
THEOREM HeldOnceHolds == Spec => []HeldOnce
<1>1. Inv => HeldOnce
  <2>. SUFFICES ASSUME Inv
                PROVE  HeldOnce
    OBVIOUS
  <2>1. ASSUME phase = "up", NEW k \in Resumable(mem)
        PROVE  Holders(k) # {} \/ k \in unsaved
    <3>1. Has(k) \/ k \in unsaved
      BY <2>1 DEF Inv, Safe, KeptInv
    <3>2. DOMAIN queue = 1..Len(queue)
      BY DEF Inv, TypeOK
    <3>3. Has(k) => Holders(k) # {}
      BY <3>2 DEF Has, Holders, Busy
    <3>. QED
      BY <3>1, <3>3
  <2>. QED
    BY <2>1, HeldByOne, QueueHasRoom DEF HeldOnce
<1>. QED
  BY <1>1, InvHolds, PTL

\* A notification is sent at most MaxDeliveries times and a native provider
\* accepts it at most once (deliver of runner.go), over all processes.
THEOREM SendsWithinPolicyHolds == Spec => []SendsWithinPolicy
<1>1. Inv => SendsWithinPolicy
  <2>. SUFFICES ASSUME Inv, NEW k \in Keys
                PROVE  /\ sends[k] <= MaxDeliveries
                       /\ disk[k] # NoJob /\ disk[k].req = "native" =>
                            accepts[k] + Cardinality({m \in flight : m[1] = k}) <= 1
    BY DEF SendsWithinPolicy
  <2>1. Told(k, disk[k]) /\ disk[k] \in {NoJob} \union Jobs /\ sends[k] \in Nat /\ accepts[k] \in Nat
    BY DEF Inv, TypeOK, Safe, AllTold
  <2>2. sends[k] <= MaxDeliveries
    <3>1. CASE disk[k] = NoJob
      BY <2>1, <3>1, RunnerBounds DEF Told
    <3>2. CASE disk[k] # NoJob
      <4>1. disk[k].attempts \in 0..MaxDeliveries
        BY <2>1, <3>2 DEF Jobs
      <4>. QED
        BY <2>1, <3>2, <4>1, RunnerBounds DEF Told
    <3>. QED
      BY <3>1, <3>2
  <2>3. ASSUME disk[k] # NoJob, disk[k].req = "native"
        PROVE  accepts[k] + Cardinality({m \in flight : m[1] = k}) <= 1
    <3>1. PICK S : S = {m \in flight : m[1] = k}
      OBVIOUS
    <3>2. Once(k)
      BY <2>1, <2>3 DEF Told
    <3>3. \A m, n \in S : m = n
      BY <3>1, <3>2 DEF Once
    <3>4. Cardinality(S) \in {0, 1} /\ (S = {} => Cardinality(S) = 0)
      BY <3>3, AtMostOne
    <3>5. accepts[k] = 0 \/ (accepts[k] = 1 /\ S = {})
      BY <3>1, <3>2 DEF Once
    <3>. QED
      BY <3>1, <3>4, <3>5
  <2>. QED
    BY <2>2, <2>3
<1>. QED
  BY <1>1, InvHolds, PTL

\* What table and file say of a delivery is true of the provider
\* (notificationError and deliver of runner.go).
THEOREM DeliveryTruthfulHolds == Spec => []DeliveryTruthful
<1>1. Inv => DeliveryTruthful
  <2>. SUFFICES ASSUME Inv, NEW k \in Keys, NEW table \in {mem, disk}, table[k] # NoJob
                PROVE  /\ table[k].delivery = "sent" => accepts[k] > 0
                       /\ table[k].delivery = "failed" /\ table[k].req = "native" =>
                            accepts[k] = 0 /\ \A m \in flight : m[1] # k
    BY DEF DeliveryTruthful
  <2>1. phase = "down" => mem[k] = NoJob
    BY DEF Inv, Safe, DownInv
  <2>2. Told(k, table[k])
    BY <2>1 DEF Inv, Safe, AllTold
  <2>. QED
    BY <2>2 DEF Told, Clean
<1>. QED
  BY <1>1, InvHolds, PTL

\* jobs.json is written under the directory lock only (update, submit and
\* Close of runner.go).
THEOREM WritesUnderLockHolds == Spec => WritesUnderLock
<1>1. Inv /\ [Next]_vars => [disk' # disk => Locked]_vars
  <2>. SUFFICES ASSUME Inv, [Next]_vars, disk' # disk
                PROVE  Locked
    OBVIOUS
  <2>1. ~(Restart \/ Crash \/ Exit \/ Signal \/ CloseBegin \/ CloseEnd)
    BY DEF Restart, Crash, Exit, ProcessEnds, Signal, CloseBegin, CloseEnd, store
  <2>2. Writes
    BY <2>1, NextKeeps
  <2>. QED
    BY <2>2 DEF Writes, Locked
<1>. QED
  BY <1>1, InvHolds, PTL DEF Spec, WritesUnderLock

-----------------------------------------------------------------------------
(***************************************************************************)
(* The runner is an idempotent job service.                                *)
(***************************************************************************)

LEMMA VisibleViews ==
    /\ Visible \in [Keys -> {Visible[k] : k \in Keys}]
    /\ \A k \in Keys : Visible[k] = View(IF phase = "down" THEN disk[k] ELSE mem[k])
BY DEF Visible, View

\* A job that is a step ahead is a step of the service.
LEMMA AheadIsStep ==
    ASSUME NEW k \in Keys, NEW b, Ahead(Visible[k], b), Visible' = [Visible EXCEPT ![k] = b]
    PROVE  [Service!Next]_Visible
<1>1. CASE Visible[k] = b
  BY <1>1, VisibleViews
<1>2. ASSUME NEW r \in Requests, Visible[k] = NoJob, b = [req |-> r, status |-> "queued", report |-> FALSE]
      PROVE  Service!Next
  BY <1>2 DEF Service!Next, Service!Accept, Service!Job, Service!NoJob, NoJob
<1>3. CASE Visible[k].status = "queued" /\ b = [Visible[k] EXCEPT !.status = "running"]
  <2>1. Service!Start(k)
    BY <1>3 DEF Service!Start
  <2>. QED
    BY <2>1 DEF Service!Next
<1>4. CASE Visible[k].status = "running" /\ b = [Visible[k] EXCEPT !.report = TRUE]
  <2>1. Service!Report(k)
    BY <1>4 DEF Service!Report
  <2>. QED
    BY <2>1 DEF Service!Next
<1>5. CASE Visible[k].status = "running" /\ Visible[k].report /\ b = [Visible[k] EXCEPT !.status = "succeeded"]
  <2>1. Service!Succeed(k)
    BY <1>5 DEF Service!Succeed
  <2>. QED
    BY <2>1 DEF Service!Next
<1>6. CASE Visible[k].status = "running" /\ ~Visible[k].report /\ b = [Visible[k] EXCEPT !.status = "failed"]
  <2>1. Service!Stop(k, "failed")
    BY <1>6 DEF Service!Stop
  <2>. QED
    BY <2>1 DEF Service!Next
<1>. QED
  BY <1>1, <1>2, <1>3, <1>4, <1>5, <1>6 DEF Ahead

LEMMA ServiceInit == Init => Service!Init
BY DEF Init, Service!Init, Visible, NoJob, Service!NoJob

LEMMA ServiceNext ==
    ASSUME Inv, [Next]_vars
    PROVE  [Service!Next]_Visible
<1>0. TypeOK /\ Safe
  BY DEF Inv
<1>1. CASE UNCHANGED <<mem, disk, phase>>
  BY <1>1 DEF Visible
<1>2. CASE Signal \/ CloseBegin \/ CloseEnd
  <2>1. phase # "down" /\ phase' # "down" /\ mem' = mem
    BY <1>2 DEF Signal, CloseBegin, CloseEnd, store
  <2>. QED
    BY <2>1 DEF Visible
<1>3. CASE Restart
  BY <1>3 DEF Visible, Restart
<1>4. CASE Crash \/ Exit
  <2>1. phase # "down" /\ phase' = "down" /\ disk' = disk
    BY <1>4 DEF Crash, Exit, ProcessEnds
  <2>2. \A k \in Keys : disk[k] # mem[k] => Ahead(View(mem[k]), View(disk[k]))
    BY <1>0, <2>1 DEF Safe, DiskInv
  <2>3. CASE \A k \in Keys : disk[k] = mem[k]
    BY <2>1, <2>3 DEF Visible
  <2>4. ASSUME NEW k \in Keys, disk[k] # mem[k]
        PROVE  [Service!Next]_Visible
    <3>1. \A l \in Keys : l # k => disk[l] = mem[l]
      BY <1>0, <2>1, <2>4 DEF Safe, DiskInv
    <3>2. PICK b : b = View(disk[k])
      OBVIOUS
    <3>3. Ahead(Visible[k], b)
      BY <2>1, <2>2, <2>4, <3>2, VisibleViews
    <3>4. Visible' = [Visible EXCEPT ![k] = b]
      BY <2>1, <3>1, <3>2 DEF Visible, View
    <3>. QED
      BY <3>3, <3>4, AheadIsStep
  <2>. QED
    BY <2>3, <2>4
<1>5. ASSUME NEW k \in Keys, NEW new \in Jobs, phase \in {"up", "stopping"}, phase' = phase,
             Ahead(View(mem[k]), View(new)), Saved(k, new) \/ SaveFails(k, new)
      PROVE  [Service!Next]_Visible
  <2>1. CASE SaveFails(k, new)
    BY <1>5, <2>1 DEF Visible, SaveFails
  <2>2. CASE Saved(k, new)
    <3>1. mem' = [mem EXCEPT ![k] = new] /\ mem'[k] = new /\ \A l \in Keys : l # k => mem'[l] = mem[l]
      BY <1>0, <2>2 DEF Saved, TypeOK
    <3>2. PICK b : b = View(new)
      OBVIOUS
    <3>3. Ahead(Visible[k], b)
      BY <1>5, <3>2, VisibleViews
    <3>4. Visible' = [Visible EXCEPT ![k] = b]
      BY <1>5, <3>1, <3>2 DEF Visible, View
    <3>. QED
      BY <3>3, <3>4, AheadIsStep
  <2>. QED
    BY <1>5, <2>1, <2>2
<1>. QED
  BY <1>1, <1>2, <1>3, <1>4, <1>5, NextKeeps DEF Writes

\* Through crashes and failed writes the runner is an idempotent job service:
\* a recorded job is not forgotten and does not go back.
THEOREM KeepsServiceHolds == Spec => KeepsService
<1>1. Init => Service!Init
  BY ServiceInit
<1>2. Inv /\ [Next]_vars => [Service!Next]_Visible
  BY ServiceNext
<1>. QED
  BY <1>1, <1>2, InvHolds, PTL DEF Spec, KeepsService, Service!Spec

=============================================================================
