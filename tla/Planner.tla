------------------------------- MODULE Planner -------------------------------
(***************************************************************************)
(* The planner loop and the API calls that change schedules.  Both read a  *)
(* schedule row, compute a new one and write all its columns back in a     *)
(* later statement, with nothing that detects a write in between.          *)
(*                                                                         *)
(* The times at which a schedule fires are a set of slots; cron, interval  *)
(* and once schedules with their bounds differ only in that set.  A slot   *)
(* is a second: the occurrence key formats the nominal time without its    *)
(* fraction.  A run that the planner inserted is known by its slot; what   *)
(* the dispatcher later does with it is in RunLedger.                      *)
(***************************************************************************)
EXTENDS Naturals

CONSTANTS
  Schedules,  \* schedule IDs, never used again after a deletion
  Timings,    \* the slot sets an operator may give a schedule
  Misfires,   \* the misfire policies an operator may give a schedule
  Grace,      \* Planner.misfireGrace: one polling interval
  Clients,    \* API calls that can be under way at once
  MaxTime,    \* bound: the clock stops here
  MaxCalls,   \* bound: API calls that write a schedule
  MaxFaults   \* bound: store errors seen by the planner, and restarts

Slots == 1..MaxTime
NoSlot == MaxTime + 1   \* next_run_at is NULL

ASSUME SlotAssumption ==
  MaxTime \in Nat /\ Timings \subseteq SUBSET Slots /\ Timings # {}
ASSUME MisfireAssumption ==
  /\ Misfires \subseteq {"skip", "run_once_if_late", "catch_up"} /\ Misfires # {}
  /\ Grace \in Nat
ASSUME BoundAssumption == MaxCalls \in Nat /\ MaxFaults \in Nat

VARIABLES
  now,      \* the wall clock
  exists,   \* whether the schedule row exists
  row,      \* schedules: the row's columns
  runs,     \* schedule_runs: what the planner recorded for a slot
  call,     \* API handlers between their read and their write
  phase,    \* where the planner goroutine is in Tick
  tickNow,  \* the time Tick read when it started
  todo,     \* rows listed and not yet considered
  cur,      \* the row being materialised
  due,      \* its due slots not yet inserted
  calls,    \* API calls made so far
  faults    \* faults so far

plannerVars == <<phase, tickNow, todo, cur, due>>
vars == <<now, exists, row, runs, call, plannerVars, calls, faults>>

\* since is not a column: it is the clock reading that next_run_at was last
\* computed from.  Creating, editing or resuming a schedule and finding a first
\* slot start again from the clock; materialising goes on from next_run_at.
Row == [enabled : BOOLEAN, paused : BOOLEAN, timing : Timings, misfire : Misfires,
        next : 0..NoSlot, since : 0..NoSlot]
Item == [sched : Schedules, row : Row]
NoItem == <<>>
Call == [sched : Schedules, row : Row, at : Nat]
NoCall == <<>>
\* A skipped run's error text says which policy skipped it.
RunStates == {"none", "pending", "misfire", "superseded"}

NoRuns == [u \in Slots |-> "none"]
\* The content of a row before its schedule is created.
BlankRow == [enabled |-> FALSE, paused |-> FALSE, timing |-> CHOOSE T \in Timings : TRUE,
             misfire |-> CHOOSE m \in Misfires : TRUE, next |-> NoSlot, since |-> NoSlot]

Init ==
  /\ now = 0
  /\ exists = [s \in Schedules |-> "unborn"]
  /\ row = [s \in Schedules |-> BlankRow]
  /\ runs = [s \in Schedules |-> NoRuns]
  /\ call = [c \in Clients |-> NoCall]
  /\ phase = "idle" /\ tickNow = 0 /\ todo = {} /\ cur = NoItem /\ due = {}
  /\ calls = 0 /\ faults = 0

Earliest(S) == IF S = {} THEN NoSlot ELSE CHOOSE u \in S : \A v \in S : u <= v
\* Mutant: the slot right after t is missed.
NextAfterBeyond(T, t) == Earliest({u \in T : u > t + 1})
\* NextAfter a slot, and NextAfter the nanosecond before a clock reading.
NextAfter(T, t) == Earliest({u \in T : u > t})
FirstFrom(T, t) == Earliest({u \in T : u >= t})

\* The whole row is written, if it still exists.
UpdateSchedule(s, r) == row' = IF exists[s] = "live" THEN [row EXCEPT ![s] = r] ELSE row

-----------------------------------------------------------------------------
(* The environment.                                                        *)

AdvanceClock ==
  /\ now < MaxTime
  /\ now' = now + 1
  /\ UNCHANGED <<exists, row, runs, call, plannerVars, calls, faults>>

\* The process dies and comes back: only the tables survive.
Restart ==
  /\ faults < MaxFaults
  /\ phase # "idle" \/ \E c \in Clients : call[c] # NoCall
  /\ faults' = faults + 1
  /\ call' = [c \in Clients |-> NoCall]
  /\ phase' = "idle" /\ tickNow' = 0 /\ todo' = {} /\ cur' = NoItem /\ due' = {}
  /\ UNCHANGED <<now, exists, row, runs, calls>>

-----------------------------------------------------------------------------
(* API calls.                                                              *)

\* The row as an enabled schedule starts again from time t, and as a disabled
\* one is left by ReplaceSchedule and PatchSchedule.
PlannedFrom(r, t) ==
  [r EXCEPT !.enabled = TRUE, !.paused = FALSE,
            !.next = FirstFrom(r.timing, t), !.since = t]
Unplanned(r) == [r EXCEPT !.enabled = FALSE, !.paused = IF r.enabled THEN TRUE ELSE @,
                          !.next = NoSlot, !.since = NoSlot]

CreateSchedule(s, T, m, enabled) ==
  LET blank == [BlankRow EXCEPT !.timing = T, !.misfire = m]
  IN /\ exists[s] = "unborn"
     /\ exists' = [exists EXCEPT ![s] = "live"]
     /\ row' = [row EXCEPT ![s] = IF enabled THEN PlannedFrom(blank, now) ELSE blank]
     /\ UNCHANGED <<now, runs, call, plannerVars, calls, faults>>

\* The foreign key deletes the schedule's runs with it.
DeleteSchedule(s) ==
  /\ exists[s] = "live" /\ calls < MaxCalls
  /\ calls' = calls + 1
  /\ exists' = [exists EXCEPT ![s] = "deleted"]
  /\ runs' = [runs EXCEPT ![s] = NoRuns]
  /\ UNCHANGED <<now, row, call, plannerVars, faults>>

\* A handler has read the row with GetSchedule.
BeginCall(c, s) ==
  /\ call[c] = NoCall /\ exists[s] = "live" /\ calls < MaxCalls
  /\ calls' = calls + 1
  /\ call' = [call EXCEPT ![c] = [sched |-> s, row |-> row[s], at |-> now]]
  /\ UNCHANGED <<now, exists, row, runs, plannerVars, faults>>

\* The handler writes the row it computed and returns.
CommitCall(c, r) ==
  /\ UpdateSchedule(call[c].sched, r)
  /\ call' = [call EXCEPT ![c] = NoCall]
  /\ UNCHANGED <<now, exists, runs, plannerVars, calls, faults>>

PauseSchedule(c) ==
  /\ call[c] # NoCall
  /\ CommitCall(c, [call[c].row EXCEPT !.enabled = FALSE, !.paused = TRUE])

\* The clock was read at some time t since the row was.
ResumeSchedule(c, t) ==
  /\ call[c] # NoCall /\ t \in call[c].at..now
  /\ CommitCall(c, PlannedFrom(call[c].row, t))

\* ReplaceSchedule and PatchSchedule, whichever fields they change.
EditSchedule(c, T, m, enabled, t) ==
  LET edited == [call[c].row EXCEPT !.timing = T, !.misfire = m]
  IN /\ call[c] # NoCall /\ t \in call[c].at..now
     /\ CommitCall(c, IF enabled THEN PlannedFrom(edited, t) ELSE Unplanned(edited))

\* Validation refuses the request, or the store does.
CallFails(c) ==
  /\ call[c] # NoCall
  /\ call' = [call EXCEPT ![c] = NoCall]
  /\ UNCHANGED <<now, exists, row, runs, plannerVars, calls, faults>>

-----------------------------------------------------------------------------
(* Planner.Tick.                                                           *)

TickBegin ==
  /\ phase = "idle"
  /\ phase' = "list" /\ tickNow' = now
  /\ UNCHANGED <<now, exists, row, runs, call, todo, cur, due, calls, faults>>

ListAllSchedules ==
  /\ phase = "list"
  /\ phase' = "loop"
  /\ todo' = {[sched |-> s, row |-> row[s]] : s \in {p \in Schedules : exists[p] = "live"}}
  /\ UNCHANGED <<now, exists, row, runs, call, tickNow, cur, due, calls, faults>>

TickEnd ==
  /\ phase = "loop" /\ todo = {}
  /\ phase' = "idle" /\ tickNow' = 0
  /\ UNCHANGED <<now, exists, row, runs, call, todo, cur, due, calls, faults>>

\* Disabled, paused, or not due yet.
NothingDue(r) ==
  ~r.enabled \/ r.paused \/ (r.next # NoSlot /\ r.next > tickNow)

DueSlots(r) == {u \in r.timing : u >= r.next /\ u <= tickNow}

PassOver(i) ==
  /\ phase = "loop" /\ i \in todo /\ NothingDue(i.row)
  /\ todo' = todo \ {i}
  /\ UNCHANGED <<now, exists, row, runs, call, phase, tickNow, cur, due, calls, faults>>

\* An enabled schedule without a next slot gets one, if there is one.
FindNext(i) ==
  LET found == FirstFrom(i.row.timing, tickNow)
  IN /\ phase = "loop" /\ i \in todo
     /\ ~NothingDue(i.row) /\ i.row.next = NoSlot
     /\ UpdateSchedule(i.sched,
          [i.row EXCEPT !.next = found, !.since = IF found = NoSlot THEN @ ELSE tickNow])
     /\ todo' = todo \ {i}
     /\ UNCHANGED <<now, exists, runs, call, phase, tickNow, cur, due, calls, faults>>

BeginMaterialize(i) ==
  /\ phase = "loop" /\ i \in todo
  /\ ~NothingDue(i.row) /\ i.row.next # NoSlot
  /\ phase' = "insert" /\ cur' = i /\ due' = DueSlots(i.row)
  /\ todo' = todo \ {i}
  /\ UNCHANGED <<now, exists, row, runs, call, tickNow, calls, faults>>

\* Mutant: every late slot is given up, the newest too.
MisfireStatusAllLate(m, u, at) ==
  IF m = "run_once_if_late" /\ u < at THEN "superseded" ELSE "pending"
\* Mutant: the tolerance excludes its boundary.
MisfireStatusExclusive(m, u, at) ==
  IF m = "skip" /\ at >= u + Grace THEN "misfire" ELSE "pending"
\* The three misfire policies, for slot u found at time at.
MisfireStatus(m, u, at) ==
  CASE m = "skip" -> IF at > u + Grace THEN "misfire" ELSE "pending"
    [] m = "run_once_if_late" -> IF \E v \in due : v > u THEN "superseded" ELSE "pending"
    [] m = "catch_up" -> "pending"

EndSchedule == phase' = "loop" /\ cur' = NoItem /\ due' = {}

\* Mutant: a slot that already has a run is an error.
InsertOccurrenceStrict(u) ==
  /\ phase = "insert" /\ u \in due /\ \A v \in due : u <= v
  /\ \/ /\ exists[cur.sched] = "live" /\ runs[cur.sched][u] = "none"
        /\ runs' = [runs EXCEPT ![cur.sched][u] = MisfireStatus(cur.row.misfire, u, tickNow)]
        /\ due' = due \ {u}
        /\ UNCHANGED <<phase, cur>>
     \/ /\ exists[cur.sched] # "live" \/ runs[cur.sched][u] # "none"
        /\ EndSchedule
        /\ UNCHANGED runs
  /\ UNCHANGED <<now, exists, row, call, tickNow, todo, calls, faults>>
\* InsertRun in order of the slots.  ErrAlreadyExists is passed over; the
\* foreign key refuses the run of a deleted schedule.
InsertOccurrence(u) ==
  /\ phase = "insert" /\ u \in due /\ \A v \in due : u <= v
  /\ \/ /\ exists[cur.sched] = "live"
        /\ runs' = [runs EXCEPT ![cur.sched][u] =
                      IF @ = "none" THEN MisfireStatus(cur.row.misfire, u, tickNow) ELSE @]
        /\ due' = due \ {u}
        /\ UNCHANGED <<phase, cur>>
     \/ /\ exists[cur.sched] # "live"
        /\ EndSchedule
        /\ UNCHANGED runs
  /\ UNCHANGED <<now, exists, row, call, tickNow, todo, calls, faults>>

\* UpdateSchedule with the slot after the last one that was due.
SaveNext ==
  /\ phase = "insert" /\ due = {}
  /\ UpdateSchedule(cur.sched, [cur.row EXCEPT !.next = NextAfter(cur.row.timing, tickNow)])
  /\ EndSchedule
  /\ UNCHANGED <<now, exists, runs, call, tickNow, todo, calls, faults>>

\* A store error ends the listing's tick, or this schedule's turn.
StoreError ==
  /\ faults < MaxFaults
  /\ faults' = faults + 1
  /\ \/ /\ phase = "list"
        /\ phase' = "idle" /\ tickNow' = 0
        /\ UNCHANGED <<todo, cur, due>>
     \/ /\ phase = "loop"
        /\ \E i \in todo : /\ ~NothingDue(i.row) /\ i.row.next = NoSlot
                           /\ todo' = todo \ {i}
        /\ UNCHANGED <<phase, tickNow, cur, due>>
     \/ /\ phase = "insert"
        /\ EndSchedule
        /\ UNCHANGED <<tickNow, todo>>
  /\ UNCHANGED <<now, exists, row, runs, call, calls>>

-----------------------------------------------------------------------------

ApiStep ==
  \/ \E s \in Schedules, T \in Timings, m \in Misfires, enabled \in BOOLEAN :
       CreateSchedule(s, T, m, enabled)
  \/ \E s \in Schedules : DeleteSchedule(s)
  \/ \E c \in Clients :
       \/ \E s \in Schedules : BeginCall(c, s)
       \/ PauseSchedule(c)
       \/ \E t \in 0..now, T \in Timings, m \in Misfires, enabled \in BOOLEAN :
            EditSchedule(c, T, m, enabled, t)
       \/ \E t \in 0..now : ResumeSchedule(c, t)
       \/ CallFails(c)

PlannerStep ==
  \/ TickBegin
  \/ ListAllSchedules
  \/ TickEnd
  \/ \E i \in todo : PassOver(i)
  \/ \E i \in todo : FindNext(i)
  \/ \E i \in todo : BeginMaterialize(i)
  \/ \E u \in due : InsertOccurrence(u)
  \/ SaveNext

Next == AdvanceClock \/ Restart \/ ApiStep \/ PlannerStep \/ StoreError

Spec == Init /\ [][Next]_vars

\* Time passes, and the loop runs as long as the process does: the scheduler's
\* ticker fires again and a tick makes one store call after the other.
FairSpec == Spec /\ WF_vars(AdvanceClock) /\ WF_vars(PlannerStep)

-----------------------------------------------------------------------------
(* Properties.                                                             *)

\* Tables and local variables hold values of their types, and the planner's
\* cursor is set exactly while it materialises a schedule.
TypeOK ==
  /\ now \in 0..MaxTime
  /\ exists \in [Schedules -> {"unborn", "live", "deleted"}]
  /\ row \in [Schedules -> Row]
  /\ runs \in [Schedules -> [Slots -> RunStates]]
  /\ call \in [Clients -> Call \cup {NoCall}]
  /\ phase \in {"idle", "list", "loop", "insert"}
  /\ tickNow \in 0..MaxTime
  /\ todo \subseteq Item
  /\ phase = "insert" => cur \in Item
  /\ due \subseteq Slots /\ (phase # "insert" => due = {} /\ cur = NoItem)
  /\ calls \in Nat /\ faults \in Nat

\* Every slot that next_run_at passed since it was computed has a run.
Accounted(s, r) ==
  \A u \in r.timing : r.since <= u /\ u < r.next => runs[s][u] # "none"

\* The planner loses no slot: of the slots from the clock reading on which
\* next_run_at was computed from, none is left behind without a run, through
\* crashes between the inserts and the update, store errors, and rows written
\* back from a stale read by either side (planner.go:128).  What an edit itself
\* leaves out is CatchUpRecordsAll's.
PlannerLosesNoSlot == \A s \in Schedules : exists[s] = "live" => Accounted(s, row[s])

\* skip tolerates a delay of one polling interval, boundary included: a run
\* that was recorded as misfired was later than that.
OnlyStaleMisfires ==
  \A s \in Schedules : \A u \in Slots : runs[s][u] = "misfire" => u + Grace < now

\* run_once_if_late gives up a slot only for a newer one that runs: once
\* next_run_at has passed a superseded slot, a later slot is pending, also when
\* the tick that superseded it was cut short and repeated (planner.go:105).
\* This is about a schedule that has this policy and the slot, that no edit has
\* planned anew since, and whose edits keep the slots after it.
LateWorkRuns ==
  \A s \in Schedules : \A u \in row[s].timing :
    /\ exists[s] = "live" /\ row[s].misfire = "run_once_if_late"
    /\ runs[s][u] = "superseded"
    /\ row[s].since <= u /\ u < row[s].next
    => \E v \in Slots : v > u /\ runs[s][v] = "pending"

\* Whatever was interrupted, repeated or overwritten, once the operator, the
\* clock and the faults leave the planner alone every enabled schedule is
\* planned beyond the present and stays so.
EventuallyPlanned ==
  <>[](\A s \in Schedules :
         exists[s] = "live" /\ row[s].enabled /\ ~row[s].paused => row[s].next > now)

\* docs/public/schedules.md on pause: "sets `enabled=false` and records
\* `paused_at`. The planner stops materializing new occurrences."  Only an API
\* call enables a schedule again.
PauseHolds ==
  [][\A s \in Schedules :
       exists[s] = "live" /\ row[s].paused /\ ~row'[s].paused => call' # call]_vars

\* docs/public/policies.md on catch_up: "Materialize a run for every missed
\* occurrence."  As long as a schedule stays enabled with this policy and these
\* slots, next_run_at passes no slot without a run.
CatchUpRecordsAll ==
  [][\A s \in Schedules :
       LET Runs(r) == r.enabled /\ ~r.paused /\ r.misfire = "catch_up"
       IN  /\ exists[s] = "live" /\ exists'[s] = "live"
           /\ Runs(row[s]) /\ Runs(row'[s]) /\ row'[s].timing = row[s].timing
           => \A u \in row[s].timing :
                row[s].next <= u /\ u < row'[s].next => runs'[s][u] # "none"]_vars

=============================================================================
