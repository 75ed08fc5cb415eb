----------------------------- MODULE RunLifecycle -----------------------------
(***************************************************************************)
(* What the run ledger promises, without clocks, leases' tokens, policies, *)
(* remote jobs, goroutines or crashes: the life of each attempt of each    *)
(* occurrence.  RunLedger implements it.                                   *)
(***************************************************************************)
EXTENDS Naturals

CONSTANTS
  Occurrences,  \* occurrence keys
  MaxAttempts   \* retry.max_attempts

VARIABLES
  status,  \* status of each attempt ("none": not inserted)
  leased,  \* attempts held under a lease
  dead     \* attempts with a dead letter

vars == <<status, leased, dead>>

RunIds == Occurrences \X (1..MaxAttempts)
Queued == {"pending", "retry_scheduled"}

Init ==
  /\ status = [r \in RunIds |-> "none"]
  /\ leased = {}
  /\ dead = {}

\* An occurrence enters the ledger once.
Insert(o) ==
  /\ \A a \in 1..MaxAttempts : status[<<o, a>>] = "none"
  /\ status' = [status EXCEPT ![<<o, 1>>] = "pending"]
  /\ UNCHANGED <<leased, dead>>

\* A queued attempt is leased while no attempt of its occurrence is.
Claim(r) ==
  /\ status[r] \in Queued
  /\ \A q \in leased : q[1] # r[1]
  /\ status' = [status EXCEPT ![r] = "claimed"]
  /\ leased' = leased \cup {r}
  /\ UNCHANGED dead

\* The holder of the lease starts to execute.
Start(r) ==
  /\ r \in leased
  /\ status' = [status EXCEPT ![r] = "running"]
  /\ UNCHANGED <<leased, dead>>

\* The lease is given up or expires, and the same attempt waits again.
Requeue(r) ==
  /\ r \in leased
  /\ status' = [status EXCEPT ![r] = "pending"]
  /\ leased' = leased \ {r}
  /\ UNCHANGED dead

\* The attempt ends for good.
Finish(r, st) ==
  /\ r \in leased
  /\ status' = [status EXCEPT ![r] = st]
  /\ leased' = leased \ {r}
  /\ dead' = IF st = "dead_lettered" THEN dead \cup {r} ELSE dead

\* The attempt fails and its successor is scheduled, in one step.
Retry(r) ==
  /\ r \in leased
  /\ r[2] < MaxAttempts /\ status[<<r[1], r[2] + 1>>] = "none"
  /\ status' = [status EXCEPT ![r] = "failed", ![<<r[1], r[2] + 1>>] = "retry_scheduled"]
  /\ leased' = leased \ {r}
  /\ UNCHANGED dead

\* Coalescing discards a queued attempt.
Skip(r) ==
  /\ status[r] \in Queued /\ r \notin leased
  /\ status' = [status EXCEPT ![r] = "skipped"]
  /\ UNCHANGED <<leased, dead>>

Next ==
  \/ \E o \in Occurrences : Insert(o)
  \/ \E r \in RunIds :
       \/ Claim(r) \/ Start(r) \/ Requeue(r) \/ Retry(r) \/ Skip(r)
       \/ \E st \in {"succeeded", "cancelled", "dead_lettered"} : Finish(r, st)

Spec == Init /\ [][Next]_vars

=============================================================================
