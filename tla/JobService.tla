----------------------------- MODULE JobService -----------------------------
(***************************************************************************)
(* What a runner of remote jobs promises to its clients, whatever it keeps *)
(* in memory or on disk: an idempotency key names at most one job, the     *)
(* instructions of a job never change, its status only moves forward, one  *)
(* job at a time, and a job that has ended stays as it ended.              *)
(*                                                                         *)
(* Runner.tla shows that the example automation runner keeps this promise  *)
(* through crashes and failed writes; ExternalJobs.tla relies on it for    *)
(* the remote side of a tracked HTTP job.                                  *)
(***************************************************************************)
EXTENDS Naturals

CONSTANTS
    Keys,       \* idempotency keys
    Requests    \* instructions of a job: the fingerprint of its request

VARIABLE job    \* job[k]: what a client that asks about k may see

NoJob == [status |-> "none"]
Ended == {"succeeded", "failed", "cancelled"}

Job(r, s, ready) == [req |-> r, status |-> s, report |-> ready]

Init == job = [k \in Keys |-> NoJob]

\* A submission under an unused key is recorded.
Accept(k, r) ==
    /\ job[k] = NoJob
    /\ job' = [job EXCEPT ![k] = Job(r, "queued", FALSE)]

Start(k) ==
    /\ job[k].status = "queued"
    /\ job' = [job EXCEPT ![k].status = "running"]

\* The result of the work becomes available.
Report(k) ==
    /\ job[k].status = "running"
    /\ job' = [job EXCEPT ![k].report = TRUE]

Succeed(k) ==
    /\ job[k].status = "running"
    /\ job[k].report
    /\ job' = [job EXCEPT ![k].status = "succeeded"]

\* A job whose result is there does not fail any more.
Stop(k, s) ==
    /\ job[k].status \in {"queued", "running"}
    /\ ~job[k].report
    /\ s \in {"failed", "cancelled"}
    /\ job' = [job EXCEPT ![k].status = s]

Next ==
    \E k \in Keys :
        \/ \E r \in Requests : Accept(k, r)
        \/ Start(k)
        \/ Report(k)
        \/ Succeed(k)
        \/ \E s \in {"failed", "cancelled"} : Stop(k, s)

Spec == Init /\ [][Next]_job
=============================================================================
