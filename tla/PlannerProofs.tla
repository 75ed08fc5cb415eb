---------------------------- MODULE PlannerProofs ----------------------------
(***************************************************************************)
(* Proofs about Planner, for any schedules, slot sets, policies, clients   *)
(* and bounds: types, that no slot is lost, that only stale slots are      *)
(* recorded as misfired, and that run_once_if_late gives a slot up only    *)
(* for a later one that runs.                                              *)
(***************************************************************************)
EXTENDS Planner, WellFoundedInduction, TLAPS

\* The earliest of a set of slots is below all of them.
LEMMA EarliestBelow ==
  ASSUME NEW S, S \subseteq Slots
  PROVE  /\ Earliest(S) \in 0..NoSlot
         /\ \A u \in S : Earliest(S) <= u
<1>0. MaxTime \in Nat /\ S \subseteq Nat
  BY SlotAssumption DEF Slots
<1>1. CASE S = {}
  BY <1>0, <1>1 DEF Earliest, NoSlot
<1>2. CASE S # {}
  <2>1. PICK x \in S : \A y \in S : ~ (<<y, x>> \in OpToRel(<, Nat))
    BY <1>0, <1>2, WFMin, NatLessThanWellFounded
  <2>2. \A y \in S : x <= y
    <3>. SUFFICES ASSUME NEW y \in S, ~(x <= y)
                  PROVE  FALSE
      OBVIOUS
    <3>1. <<y, x>> \in Nat \X Nat /\ <<y, x>>[1] < <<y, x>>[2]
      BY <1>0
    <3>2. <<y, x>> \in {ss \in Nat \X Nat : ss[1] < ss[2]}
      BY <3>1, Zenon
    <3>. QED
      BY <2>1, <3>2, Zenon DEF OpToRel
  <2>3. Earliest(S) \in S /\ \A v \in S : Earliest(S) <= v
    BY <1>2, <2>2 DEF Earliest
  <2>4. Earliest(S) \in 1..MaxTime
    BY <2>3 DEF Slots
  <2>5. Earliest(S) \in 0..(MaxTime + 1)
    BY <1>0, <2>4
  <2>. QED
    BY <2>3, <2>5 DEF NoSlot
<1>. QED
  BY <1>1, <1>2

\* Slots are times.
LEMMA TimingSlots ==
  ASSUME NEW T \in Timings
  PROVE  T \subseteq Slots /\ T \subseteq Nat
<1>1. T \subseteq Slots
  BY SlotAssumption
<1>2. Slots \subseteq Nat
  BY SlotAssumption DEF Slots
<1>. QED
  BY <1>1, <1>2

\* NextAfter and FirstFrom pass over no slot.
LEMMA NextSlots ==
  ASSUME NEW T \in Timings, NEW t \in Nat
  PROVE  /\ NextAfter(T, t) \in 0..NoSlot
         /\ \A u \in T : u > t => NextAfter(T, t) <= u
         /\ FirstFrom(T, t) \in 0..NoSlot
         /\ \A u \in T : u >= t => FirstFrom(T, t) <= u
<1>1. T \subseteq Slots
  BY SlotAssumption
<1>2. {u \in T : u > t} \subseteq Slots /\ {u \in T : u >= t} \subseteq Slots
  BY <1>1
<1>. QED
  BY <1>2, EarliestBelow DEF NextAfter, FirstFrom

\* The rows that create, resume, replace and patch compute are rows, and they
\* leave no slot behind.
LEMMA PlannedRows ==
  ASSUME NEW r \in Row, NEW t \in 0..MaxTime
  PROVE  /\ PlannedFrom(r, t) \in Row /\ Unplanned(r) \in Row
         /\ \A s : Accounted(s, PlannedFrom(r, t)) /\ Accounted(s, Unplanned(r))
<1>1. MaxTime \in Nat /\ t \in Nat /\ NoSlot \in Nat /\ t \in 0..NoSlot
  BY SlotAssumption DEF NoSlot
<1>2. r.timing \in Timings /\ r.timing \subseteq Nat
  BY TimingSlots DEF Row
<1>3. /\ FirstFrom(r.timing, t) \in 0..NoSlot
      /\ \A u \in r.timing : u >= t => FirstFrom(r.timing, t) <= u
  BY <1>1, <1>2, NextSlots
<1>4. PlannedFrom(r, t) \in Row
  BY <1>1, <1>3 DEF PlannedFrom, Row
<1>5. Unplanned(r) \in Row
  <2>. DEFINE p == IF r.enabled THEN TRUE ELSE r.paused
  <2>1. p \in BOOLEAN
    BY DEF Row
  <2>2. Unplanned(r) = [r EXCEPT !.enabled = FALSE, !.paused = p, !.next = NoSlot, !.since = NoSlot]
    BY DEF Unplanned
  <2>3. PICK q \in BOOLEAN : q = p
    BY <2>1
  <2>4. NoSlot \in 0..NoSlot
    BY <1>1
  <2>. HIDE DEF p
  <2>5. Unplanned(r) = [enabled |-> FALSE, paused |-> q, timing |-> r.timing,
                        misfire |-> r.misfire, next |-> NoSlot, since |-> NoSlot]
    BY <2>2, <2>3 DEF Row
  <2>6. r.timing \in Timings /\ r.misfire \in Misfires
    BY DEF Row
  <2>. QED
    BY <2>4, <2>5, <2>6 DEF Row
<1>6. /\ PlannedFrom(r, t).timing = r.timing
      /\ PlannedFrom(r, t).next = FirstFrom(r.timing, t)
      /\ PlannedFrom(r, t).since = t
  BY DEF PlannedFrom, Row
<1>7. /\ Unplanned(r).timing = r.timing
      /\ Unplanned(r).next = NoSlot /\ Unplanned(r).since = NoSlot
  BY DEF Unplanned, Row
<1>8. ASSUME NEW s
      PROVE  Accounted(s, PlannedFrom(r, t)) /\ Accounted(s, Unplanned(r))
  BY <1>1, <1>2, <1>3, <1>6, <1>7 DEF Accounted
<1>. QED
  BY <1>4, <1>5, <1>8

\* A misfire policy always decides.
LEMMA MisfireDecides ==
  ASSUME NEW m \in Misfires, NEW u \in Slots, NEW t \in Nat
  PROVE  /\ MisfireStatus(m, u, t) \in RunStates \ {"none"}
         /\ MisfireStatus(m, u, t) = "misfire" => u + Grace < t
BY MisfireAssumption, SlotAssumption DEF MisfireStatus, RunStates, Slots

-----------------------------------------------------------------------------

LEMMA BlankRowType == BlankRow \in Row
<1>1. (CHOOSE T \in Timings : TRUE) \in Timings /\ (CHOOSE m \in Misfires : TRUE) \in Misfires
  BY SlotAssumption, MisfireAssumption
<1>2. NoSlot \in 0..NoSlot
  BY SlotAssumption DEF NoSlot
<1>. QED
  BY <1>1, <1>2 DEF BlankRow, Row

\* Writing a row keeps the table's type.
LEMMA UpdateType ==
  ASSUME TypeOK, NEW s \in Schedules, NEW r \in Row, UpdateSchedule(s, r)
  PROVE  row' \in [Schedules -> Row]
BY DEF TypeOK, UpdateSchedule

\* A handler's write keeps the types.
LEMMA CommitType ==
  ASSUME TypeOK, NEW c \in Clients, call[c] # NoCall, NEW r \in Row, CommitCall(c, r)
  PROVE  TypeOK'
<1>1. call[c] \in Call
  BY DEF TypeOK
<1>2. row' \in [Schedules -> Row]
  BY <1>1, UpdateType DEF CommitCall, Call
<1>. QED
  BY <1>2 DEF TypeOK, CommitCall, plannerVars

\* The row a handler computes is a row.
LEMMA EditedRow ==
  ASSUME TypeOK, NEW c \in Clients, call[c] # NoCall, NEW T \in Timings, NEW m \in Misfires
  PROVE  /\ call[c] \in Call /\ call[c].row \in Row
         /\ [call[c].row EXCEPT !.enabled = FALSE, !.paused = TRUE] \in Row
         /\ [call[c].row EXCEPT !.timing = T, !.misfire = m] \in Row
BY DEF TypeOK, Call, Row

LEMMA TypeInit == Init => TypeOK
<1>. SUFFICES ASSUME Init PROVE TypeOK
  OBVIOUS
<1>1. row \in [Schedules -> Row]
  BY BlankRowType DEF Init
<1>. QED
  BY <1>1, SlotAssumption DEF Init, TypeOK, NoRuns, RunStates

\* Every API step keeps the types.
LEMMA TypeApi == TypeOK /\ ApiStep => TypeOK'
<1>. SUFFICES ASSUME TypeOK, ApiStep PROVE TypeOK'
  OBVIOUS
<1>0. now \in 0..MaxTime /\ MaxTime \in Nat /\ 0..now \subseteq 0..MaxTime
  BY SlotAssumption DEF TypeOK
<1>1. ASSUME NEW s \in Schedules, NEW T \in Timings, NEW m \in Misfires,
             NEW enabled \in BOOLEAN, CreateSchedule(s, T, m, enabled)
      PROVE  TypeOK'
  <2>1. [BlankRow EXCEPT !.timing = T, !.misfire = m] \in Row
    BY BlankRowType DEF Row
  <2>2. PlannedFrom([BlankRow EXCEPT !.timing = T, !.misfire = m], now) \in Row
    BY <1>0, <2>1, PlannedRows
  <2>3. row' \in [Schedules -> Row]
    BY <1>1, <2>1, <2>2 DEF CreateSchedule, TypeOK
  <2>. QED
    BY <1>1, <2>3 DEF CreateSchedule, TypeOK, plannerVars
<1>2. ASSUME NEW s \in Schedules, DeleteSchedule(s)
      PROVE  TypeOK'
  BY <1>2 DEF DeleteSchedule, TypeOK, plannerVars, NoRuns, RunStates
<1>3. ASSUME NEW c \in Clients, NEW s \in Schedules, BeginCall(c, s)
      PROVE  TypeOK'
  <2>1. [sched |-> s, row |-> row[s], at |-> now] \in Call
    BY <1>0 DEF TypeOK, Call
  <2>. QED
    BY <1>3, <2>1 DEF BeginCall, TypeOK, plannerVars
<1>4. ASSUME NEW c \in Clients, PauseSchedule(c)
      PROVE  TypeOK'
  <2>1. PICK T \in Timings, m \in Misfires : TRUE
    BY SlotAssumption, MisfireAssumption
  <2>. QED
    BY <1>4, EditedRow, CommitType, <2>1 DEF PauseSchedule
<1>5. ASSUME NEW c \in Clients, NEW t \in 0..now, ResumeSchedule(c, t)
      PROVE  TypeOK'
  <2>1. PICK T \in Timings, m \in Misfires : TRUE
    BY SlotAssumption, MisfireAssumption
  <2>2. call[c].row \in Row
    BY <1>5, <2>1, EditedRow DEF ResumeSchedule
  <2>3. PlannedFrom(call[c].row, t) \in Row
    BY <1>0, <2>2, PlannedRows
  <2>. QED
    BY <1>5, <2>3, CommitType DEF ResumeSchedule
<1>6. ASSUME NEW c \in Clients, NEW t \in 0..now, NEW T \in Timings, NEW m \in Misfires,
             NEW enabled \in BOOLEAN, EditSchedule(c, T, m, enabled, t)
      PROVE  TypeOK'
  <2>. DEFINE edited == [call[c].row EXCEPT !.timing = T, !.misfire = m]
  <2>1. edited \in Row
    BY <1>6, EditedRow DEF EditSchedule
  <2>2. PlannedFrom(edited, t) \in Row /\ Unplanned(edited) \in Row
    BY <1>0, <2>1, PlannedRows
  <2>3. PICK r \in Row : CommitCall(c, r)
    BY <1>6, <2>2 DEF EditSchedule
  <2>. QED
    BY <1>6, <2>3, CommitType DEF EditSchedule
<1>7. ASSUME NEW c \in Clients, CallFails(c)
      PROVE  TypeOK'
  BY <1>7 DEF CallFails, TypeOK, plannerVars
<1>. QED
  BY <1>1, <1>2, <1>3, <1>4, <1>5, <1>6, <1>7 DEF ApiStep

\* Every step of the planner keeps the types.
LEMMA TypePlanner == TypeOK /\ PlannerStep => TypeOK'
<1>. SUFFICES ASSUME TypeOK, PlannerStep PROVE TypeOK'
  OBVIOUS
<1>0. tickNow \in Nat /\ MaxTime \in Nat /\ tickNow \in 0..NoSlot
  BY SlotAssumption DEF TypeOK, NoSlot
<1>1. CASE TickBegin
  BY <1>1 DEF TickBegin, TypeOK
<1>2. CASE ListAllSchedules
  <2>1. todo' \subseteq Item
    BY <1>2 DEF ListAllSchedules, TypeOK, Item
  <2>. QED
    BY <1>2, <2>1 DEF ListAllSchedules, TypeOK
<1>3. CASE TickEnd
  BY <1>3, SlotAssumption DEF TickEnd, TypeOK
<1>4. ASSUME NEW i \in todo, PassOver(i)
      PROVE  TypeOK'
  BY <1>4 DEF PassOver, TypeOK
<1>5. ASSUME NEW i \in todo, FindNext(i)
      PROVE  TypeOK'
  <2>. DEFINE found == FirstFrom(i.row.timing, tickNow)
  <2>. DEFINE r == [i.row EXCEPT !.next = found, !.since = IF found = NoSlot THEN @ ELSE tickNow]
  <2>1. i.sched \in Schedules /\ i.row \in Row /\ i.row.timing \in Timings
    BY DEF TypeOK, Item, Row
  <2>2. found \in 0..NoSlot
    BY <1>0, <2>1, NextSlots
  <2>3. r \in Row
    BY <1>0, <2>1, <2>2 DEF Row
  <2>4. row' \in [Schedules -> Row]
    BY <1>5, <2>1, <2>3, UpdateType DEF FindNext
  <2>. QED
    BY <1>5, <2>4 DEF FindNext, TypeOK
<1>6. ASSUME NEW i \in todo, BeginMaterialize(i)
      PROVE  TypeOK'
  <2>1. i \in Item /\ DueSlots(i.row) \subseteq Slots
    BY SlotAssumption DEF TypeOK, Item, Row, DueSlots
  <2>. QED
    BY <1>6, <2>1 DEF BeginMaterialize, TypeOK
<1>7. ASSUME NEW u \in due, InsertOccurrence(u)
      PROVE  TypeOK'
  <2>1. u \in Slots /\ cur \in Item /\ cur.sched \in Schedules /\ cur.row.misfire \in Misfires
    BY <1>7 DEF InsertOccurrence, TypeOK, Item, Row
  <2>2. MisfireStatus(cur.row.misfire, u, tickNow) \in RunStates
    BY <1>0, <2>1, MisfireDecides
  <2>3. runs' \in [Schedules -> [Slots -> RunStates]]
    <3>. DEFINE st == IF runs[cur.sched][u] = "none"
                      THEN MisfireStatus(cur.row.misfire, u, tickNow) ELSE runs[cur.sched][u]
    <3>1. runs \in [Schedules -> [Slots -> RunStates]]
      BY DEF TypeOK
    <3>2. st \in RunStates
      BY <2>1, <2>2, <3>1
    <3>3. [runs EXCEPT ![cur.sched][u] = st] \in [Schedules -> [Slots -> RunStates]]
      <4>. HIDE DEF st
      <4>. QED
        BY <2>1, <3>1, <3>2
    <3>4. runs' = [runs EXCEPT ![cur.sched][u] = st] \/ runs' = runs
      BY <1>7 DEF InsertOccurrence
    <3>. QED
      BY <3>1, <3>3, <3>4
  <2>. QED
    BY <1>7, <2>3 DEF InsertOccurrence, EndSchedule, TypeOK
<1>8. CASE SaveNext
  <2>1. cur \in Item /\ cur.sched \in Schedules /\ cur.row \in Row /\ cur.row.timing \in Timings
    BY <1>8 DEF SaveNext, TypeOK, Item, Row
  <2>2. [cur.row EXCEPT !.next = NextAfter(cur.row.timing, tickNow)] \in Row
    BY <1>0, <2>1, NextSlots DEF Row
  <2>3. row' \in [Schedules -> Row]
    BY <1>8, <2>1, <2>2, UpdateType DEF SaveNext
  <2>. QED
    BY <1>8, <2>3 DEF SaveNext, EndSchedule, TypeOK
<1>. QED
  BY <1>1, <1>2, <1>3, <1>4, <1>5, <1>6, <1>7, <1>8 DEF PlannerStep

\* Every step keeps the types.
LEMMA TypeNext == TypeOK /\ [Next]_vars => TypeOK'
<1>. SUFFICES ASSUME TypeOK, [Next]_vars PROVE TypeOK'
  OBVIOUS
<1>1. CASE AdvanceClock
  BY <1>1, SlotAssumption DEF AdvanceClock, TypeOK, plannerVars
<1>2. CASE Restart
  BY <1>2, SlotAssumption DEF Restart, TypeOK
<1>3. CASE StoreError
  BY <1>3, SlotAssumption DEF StoreError, EndSchedule, TypeOK
<1>4. CASE UNCHANGED vars
  BY <1>4 DEF vars, plannerVars, TypeOK
<1>. QED
  BY <1>1, <1>2, <1>3, <1>4, TypeApi, TypePlanner DEF Next

\* Tables and planner variables are always of their types.
THEOREM PlannerTypeCorrect == Spec => []TypeOK
BY TypeInit, TypeNext, PTL DEF Spec

-----------------------------------------------------------------------------
(* The planner loses no slot.  A row is written long after it was read, so   *)
(* the invariant is also about every copy of a row that a handler or the     *)
(* planner holds, and about the slots the planner has yet to insert.         *)

Held(s, r) == exists[s] # "unborn" /\ (exists[s] = "live" => Accounted(s, r))

CallsHeld == \A c \in Clients : call[c] # NoCall => Held(call[c].sched, call[c].row)
TodoHeld == \A i \in todo : Held(i.sched, i.row)
CurHeld ==
  phase = "insert" =>
    /\ Held(cur.sched, cur.row)
    /\ exists[cur.sched] = "live" =>
         \A u \in cur.row.timing : cur.row.next <= u /\ u <= tickNow
            => u \in due \/ runs[cur.sched][u] # "none"

PlanInv == PlannerLosesNoSlot /\ CallsHeld /\ TodoHeld /\ CurHeld

\* What every step respects: a schedule is born once, and while it lives its
\* recorded slots stay recorded.
Grows ==
  \A s \in Schedules : exists[s] # "unborn" =>
    /\ exists'[s] # "unborn"
    /\ exists'[s] = "live" =>
         exists[s] = "live" /\ \A u \in Slots : runs[s][u] # "none" => runs'[s][u] # "none"

\* A copy of a row stays good.
LEMMA HeldStays ==
  ASSUME NEW s \in Schedules, NEW r \in Row, Held(s, r), Grows
  PROVE  Held(s, r)'
<1>1. r.timing \subseteq Slots
  <2>1. r.timing \in Timings
    BY DEF Row
  <2>. QED
    BY <2>1, SlotAssumption
<1>. QED
  BY <1>1 DEF Held, Grows, Accounted

\* Handlers that begin nothing keep good copies.
LEMMA CallsStay ==
  ASSUME TypeOK, CallsHeld, Grows, call' = call \/ \E c \in Clients : call' = [call EXCEPT ![c] = NoCall]
  PROVE  CallsHeld'
<1>. SUFFICES ASSUME NEW c \in Clients, (call[c] # NoCall)'
              PROVE  Held(call[c].sched, call[c].row)'
  BY DEF CallsHeld
<1>1. call'[c] = call[c] /\ call[c] # NoCall
  BY DEF TypeOK
<1>2. PICK x : x = call[c]
  OBVIOUS
<1>3. x.sched \in Schedules /\ x.row \in Row
  BY <1>1, <1>2 DEF TypeOK, Call
<1>4. Held(x.sched, x.row)'
  BY <1>1, <1>2, <1>3, HeldStays DEF CallsHeld
<1>. QED
  BY <1>1, <1>2, <1>4 DEF Held, Accounted

\* So does the planner's list, as it shrinks.
LEMMA TodoStays ==
  ASSUME TypeOK, TodoHeld, Grows, todo' \subseteq todo
  PROVE  TodoHeld'
<1>. SUFFICES ASSUME NEW i \in todo' PROVE Held(i.sched, i.row)'
  BY DEF TodoHeld
<1>1. PICK x : x = i
  OBVIOUS
<1>2. x.sched \in Schedules /\ x.row \in Row /\ Held(x.sched, x.row)
  BY <1>1 DEF TypeOK, Item, TodoHeld
<1>. QED
  BY <1>1, <1>2, HeldStays

\* And the row being materialised, when another actor moves.
LEMMA CurStays ==
  ASSUME TypeOK, CurHeld, Grows, UNCHANGED <<phase, cur, due, tickNow>>
  PROVE  CurHeld'
<1>. SUFFICES ASSUME phase = "insert"
              PROVE  CurHeld'
  BY DEF CurHeld
<1>1. PICK x : x = cur
  OBVIOUS
<1>2. x.sched \in Schedules /\ x.row \in Row /\ x.row.timing \in Timings
  BY <1>1 DEF TypeOK, Item, Row
<1>3. Held(x.sched, x.row)'
  BY <1>1, <1>2, HeldStays DEF CurHeld
<1>4. ASSUME exists'[x.sched] = "live", NEW u \in x.row.timing, x.row.next <= u, u <= tickNow
      PROVE  u \in due \/ runs'[x.sched][u] # "none"
  <2>1. u \in Slots
    BY <1>2, SlotAssumption
  <2>2. exists[x.sched] = "live"
    BY <1>1, <1>2, <1>4 DEF CurHeld, Held, Grows
  <2>3. u \in due \/ runs[x.sched][u] # "none"
    BY <1>1, <1>4, <2>2 DEF CurHeld
  <2>. QED
    BY <1>2, <1>4, <2>1, <2>2, <2>3 DEF Grows
<1>. QED
  BY <1>1, <1>3, <1>4 DEF CurHeld

\* Rows that are not written stay good.
LEMMA RowsStay ==
  ASSUME TypeOK, PlannerLosesNoSlot, Grows, row' = row,
         \A s \in Schedules : exists'[s] = "live" => exists[s] # "unborn"
  PROVE  PlannerLosesNoSlot'
<1>. SUFFICES ASSUME NEW s \in Schedules, exists'[s] = "live"
              PROVE  Accounted(s, row[s])'
  BY DEF PlannerLosesNoSlot
<1>1. PICK r : r = row[s]
  OBVIOUS
<1>2. r \in Row /\ Held(s, r)
  BY <1>1 DEF TypeOK, Held, PlannerLosesNoSlot, Grows
<1>3. Accounted(s, r)'
  BY <1>2, HeldStays DEF Held
<1>4. row'[s] = r
  BY <1>1
<1>. QED
  BY <1>3, <1>4 DEF Accounted

\* A write of a good copy keeps the rows good.
LEMMA WriteKeeps ==
  ASSUME TypeOK, PlannerLosesNoSlot, UNCHANGED <<exists, runs>>,
         NEW s \in Schedules, NEW r \in Row, Held(s, r), UpdateSchedule(s, r)
  PROVE  PlannerLosesNoSlot'
<1>. SUFFICES ASSUME NEW p \in Schedules, exists[p] = "live"
              PROVE  Accounted(p, row[p])'
  BY DEF PlannerLosesNoSlot
<1>1. Accounted(p, row[p])
  BY DEF PlannerLosesNoSlot
<1>2. (row'[p] = r /\ p = s) \/ row'[p] = row[p]
  BY DEF UpdateSchedule, TypeOK
<1>3. CASE row'[p] = row[p]
  BY <1>1, <1>3 DEF Accounted
<1>4. CASE row'[p] = r /\ p = s
  BY <1>4 DEF Accounted, Held
<1>. QED
  BY <1>2, <1>3, <1>4

\* A handler that writes a good row keeps the invariant.
LEMMA CommitKeeps ==
  ASSUME TypeOK, PlanInv, NEW c \in Clients, call[c] # NoCall,
         NEW r \in Row, Held(call[c].sched, r), CommitCall(c, r)
  PROVE  PlanInv'
<1>1. call[c].sched \in Schedules
  BY DEF TypeOK, Call
<1>2. Grows
  BY DEF CommitCall, Grows
<1>3. PlannerLosesNoSlot'
  BY <1>1, WriteKeeps DEF CommitCall, PlanInv
<1>4. CallsHeld'
  BY <1>2, CallsStay DEF CommitCall, PlanInv
<1>5. TodoHeld' /\ CurHeld'
  BY <1>2, TodoStays, CurStays DEF CommitCall, PlanInv, plannerVars
<1>. QED
  BY <1>3, <1>4, <1>5 DEF PlanInv

LEMMA PlanInit == Init => PlanInv
BY DEF Init, PlanInv, PlannerLosesNoSlot, CallsHeld, TodoHeld, CurHeld

\* Every API step keeps the invariant.
LEMMA PlanApi == TypeOK /\ PlanInv /\ ApiStep => PlanInv'
<1>. SUFFICES ASSUME TypeOK, PlanInv, ApiStep PROVE PlanInv'
  OBVIOUS
<1>0. now \in 0..MaxTime /\ MaxTime \in Nat /\ 0..now \subseteq 0..MaxTime
  BY SlotAssumption DEF TypeOK
<1>1. ASSUME NEW s \in Schedules, NEW T \in Timings, NEW m \in Misfires,
             NEW enabled \in BOOLEAN, CreateSchedule(s, T, m, enabled)
      PROVE  PlanInv'
  <2>. DEFINE blank == [BlankRow EXCEPT !.timing = T, !.misfire = m]
  <2>1. blank \in Row
    BY BlankRowType DEF Row
  <2>2. blank.next = NoSlot /\ blank.since = NoSlot /\ blank.timing = T
    BY DEF BlankRow
  <2>3. T \subseteq Nat /\ NoSlot \in Nat
    BY SlotAssumption DEF Slots, NoSlot
  <2>4. Accounted(s, blank) /\ Accounted(s, PlannedFrom(blank, now))
    <3>1. Accounted(s, blank)
      BY <2>2, <2>3 DEF Accounted
    <3>. HIDE DEF blank
    <3>. QED
      BY <1>0, <2>1, <3>1, PlannedRows
  <2>5. Grows
    BY <1>1 DEF CreateSchedule, Grows, TypeOK
  <2>6. PlannerLosesNoSlot'
    <3>. HIDE DEF blank
    <3>1. row'[s] = blank \/ row'[s] = PlannedFrom(blank, now)
      BY <1>1 DEF CreateSchedule, TypeOK, blank
    <3>2. PICK r : r = row'[s] /\ Accounted(s, r)
      BY <2>4, <3>1
    <3>3. Accounted(s, r)'
      BY <1>1, <3>2 DEF CreateSchedule, Accounted
    <3>4. ASSUME NEW p \in Schedules, exists'[p] = "live", p # s
          PROVE  Accounted(p, row[p])'
      <4>1. exists[p] = "live" /\ row'[p] = row[p] /\ runs' = runs
        BY <1>1, <3>4 DEF CreateSchedule, TypeOK
      <4>. QED
        BY <4>1 DEF PlanInv, PlannerLosesNoSlot, Accounted
    <3>5. Accounted(s, row[s])'
      BY <3>2, <3>3 DEF Accounted
    <3>. QED
      BY <3>4, <3>5 DEF PlannerLosesNoSlot
  <2>7. CallsHeld' /\ TodoHeld' /\ CurHeld'
    BY <1>1, <2>5, CallsStay, TodoStays, CurStays DEF CreateSchedule, PlanInv, plannerVars
  <2>. QED
    BY <2>6, <2>7 DEF PlanInv
<1>2. ASSUME NEW s \in Schedules, DeleteSchedule(s)
      PROVE  PlanInv'
  <2>1. Grows
    BY <1>2 DEF DeleteSchedule, Grows, TypeOK
  <2>2. \A p \in Schedules : exists'[p] = "live" => exists[p] # "unborn"
    BY <1>2 DEF DeleteSchedule, TypeOK
  <2>3. PlannerLosesNoSlot'
    BY <1>2, <2>1, <2>2, RowsStay DEF DeleteSchedule, PlanInv
  <2>4. CallsHeld' /\ TodoHeld' /\ CurHeld'
    BY <1>2, <2>1, CallsStay, TodoStays, CurStays DEF DeleteSchedule, PlanInv, plannerVars
  <2>. QED
    BY <2>3, <2>4 DEF PlanInv
<1>3. ASSUME NEW c \in Clients, NEW s \in Schedules, BeginCall(c, s)
      PROVE  PlanInv'
  <2>1. Grows
    BY <1>3 DEF BeginCall, Grows
  <2>2. PlannerLosesNoSlot'
    BY <1>3, <2>1, RowsStay DEF BeginCall, PlanInv
  <2>3. CallsHeld'
    <3>. SUFFICES ASSUME NEW d \in Clients, (call[d] # NoCall)'
                  PROVE  Held(call[d].sched, call[d].row)'
      BY DEF CallsHeld
    <3>1. CASE d = c
      <4>1. call'[d].sched = s /\ call'[d].row = row[s]
        BY <1>3, <3>1 DEF BeginCall, TypeOK
      <4>2. exists'[s] = "live" /\ Accounted(s, row[s]) /\ runs' = runs
        BY <1>3 DEF BeginCall, PlanInv, PlannerLosesNoSlot
      <4>. QED
        BY <4>1, <4>2 DEF Held, Accounted
    <3>2. CASE d # c
      <4>1. call'[d] = call[d] /\ UNCHANGED <<exists, runs>>
        BY <1>3, <3>2 DEF BeginCall, TypeOK
      <4>2. Held(call[d].sched, call[d].row)
        BY <4>1 DEF PlanInv, CallsHeld
      <4>. QED
        BY <4>1, <4>2 DEF Held, Accounted
    <3>. QED
      BY <3>1, <3>2
  <2>4. TodoHeld' /\ CurHeld'
    BY <1>3, <2>1, TodoStays, CurStays DEF BeginCall, PlanInv, plannerVars
  <2>. QED
    BY <2>2, <2>3, <2>4 DEF PlanInv
<1>4. ASSUME NEW c \in Clients, PauseSchedule(c)
      PROVE  PlanInv'
  <2>. DEFINE r == [call[c].row EXCEPT !.enabled = FALSE, !.paused = TRUE]
  <2>1. call[c] # NoCall /\ call[c].row \in Row /\ r \in Row
    <3>1. PICK T \in Timings, m \in Misfires : TRUE
      BY SlotAssumption, MisfireAssumption
    <3>. QED
      BY <1>4, <3>1, EditedRow DEF PauseSchedule
  <2>2. r.timing = call[c].row.timing /\ r.next = call[c].row.next /\ r.since = call[c].row.since
    BY <2>1 DEF Row
  <2>3. Held(call[c].sched, r)
    BY <2>1, <2>2 DEF PlanInv, CallsHeld, Held, Accounted
  <2>. QED
    BY <1>4, <2>1, <2>3, CommitKeeps DEF PauseSchedule
<1>5. ASSUME NEW c \in Clients, NEW t \in 0..now, NEW r \in Row, call[c] # NoCall,
             CommitCall(c, PlannedFrom(r, t)) \/ CommitCall(c, Unplanned(r))
      PROVE  PlanInv'
  <2>1. /\ PlannedFrom(r, t) \in Row /\ Accounted(call[c].sched, PlannedFrom(r, t))
        /\ Unplanned(r) \in Row /\ Accounted(call[c].sched, Unplanned(r))
    BY <1>0, PlannedRows
  <2>2. exists[call[c].sched] # "unborn"
    BY <1>5 DEF PlanInv, CallsHeld, Held
  <2>3. PICK w \in Row : Held(call[c].sched, w) /\ CommitCall(c, w)
    BY <1>5, <2>1, <2>2 DEF Held
  <2>. QED
    BY <1>5, <2>3, CommitKeeps
<1>6. ASSUME NEW c \in Clients, NEW t \in 0..now, ResumeSchedule(c, t)
      PROVE  PlanInv'
  <2>1. call[c] # NoCall /\ call[c].row \in Row
    BY <1>6 DEF ResumeSchedule, TypeOK, Call
  <2>. QED
    BY <1>5, <1>6, <2>1 DEF ResumeSchedule
<1>7. ASSUME NEW c \in Clients, NEW t \in 0..now, NEW T \in Timings, NEW m \in Misfires,
             NEW enabled \in BOOLEAN, EditSchedule(c, T, m, enabled, t)
      PROVE  PlanInv'
  <2>1. call[c] # NoCall /\ [call[c].row EXCEPT !.timing = T, !.misfire = m] \in Row
    BY <1>7, EditedRow DEF EditSchedule
  <2>. QED
    BY <1>5, <1>7, <2>1 DEF EditSchedule
<1>8. ASSUME NEW c \in Clients, CallFails(c)
      PROVE  PlanInv'
  <2>1. Grows
    BY <1>8 DEF CallFails, Grows
  <2>. QED
    BY <1>8, <2>1, RowsStay, CallsStay, TodoStays, CurStays
    DEF CallFails, PlanInv, plannerVars
<1>. QED
  BY <1>1, <1>2, <1>3, <1>4, <1>6, <1>7, <1>8 DEF ApiStep

\* A step that touches neither the tables nor the handlers keeps their part of
\* the invariant.
LEMMA TablesStay ==
  ASSUME TypeOK, PlanInv, UNCHANGED <<exists, row, runs, call>>
  PROVE  Grows /\ PlannerLosesNoSlot' /\ CallsHeld'
<1>1. Grows
  BY DEF Grows
<1>. QED
  BY <1>1, RowsStay, CallsStay DEF PlanInv

\* Every step of the planner keeps the invariant.
LEMMA PlanPlanner == TypeOK /\ PlanInv /\ PlannerStep => PlanInv'
<1>. SUFFICES ASSUME TypeOK, PlanInv, PlannerStep PROVE PlanInv'
  OBVIOUS
<1>0. tickNow \in Nat /\ MaxTime \in Nat /\ NoSlot \in Nat /\ tickNow \in 0..NoSlot
  BY SlotAssumption DEF TypeOK, NoSlot
<1>1. CASE TickBegin
  BY <1>1, TablesStay, TodoStays DEF TickBegin, PlanInv, CurHeld
<1>2. CASE ListAllSchedules
  <2>1. PlannerLosesNoSlot' /\ CallsHeld'
    BY <1>2, TablesStay DEF ListAllSchedules
  <2>2. TodoHeld'
    <3>. SUFFICES ASSUME NEW i \in todo' PROVE Held(i.sched, i.row)'
      BY DEF TodoHeld
    <3>1. PICK s \in Schedules : exists[s] = "live" /\ i = [sched |-> s, row |-> row[s]]
      BY <1>2 DEF ListAllSchedules
    <3>2. i.sched = s /\ i.row = row[s] /\ Accounted(s, row[s]) /\ UNCHANGED <<exists, runs>>
      BY <1>2, <3>1 DEF PlanInv, PlannerLosesNoSlot, ListAllSchedules
    <3>. QED
      BY <3>1, <3>2 DEF Held, Accounted
  <2>3. CurHeld'
    BY <1>2 DEF ListAllSchedules, CurHeld
  <2>. QED
    BY <2>1, <2>2, <2>3 DEF PlanInv
<1>3. CASE TickEnd
  BY <1>3, TablesStay, TodoStays DEF TickEnd, PlanInv, CurHeld
<1>4. ASSUME NEW i \in todo, PassOver(i)
      PROVE  PlanInv'
  BY <1>4, TablesStay, TodoStays DEF PassOver, PlanInv, CurHeld
<1>5. ASSUME NEW i \in todo, FindNext(i)
      PROVE  PlanInv'
  <2>. DEFINE found == FirstFrom(i.row.timing, tickNow)
  <2>. DEFINE r == [i.row EXCEPT !.next = found, !.since = IF found = NoSlot THEN @ ELSE tickNow]
  <2>1. i.sched \in Schedules /\ i.row \in Row /\ i.row.timing \in Timings
    BY DEF TypeOK, Item, Row
  <2>2. found \in 0..NoSlot /\ \A u \in i.row.timing : u >= tickNow => found <= u
    BY <1>0, <2>1, NextSlots
  <2>3. i.row.timing \subseteq Nat
    BY <2>1, TimingSlots
  <2>4. r \in Row
    BY <1>0, <2>1, <2>2 DEF Row
  <2>5. /\ r.timing = i.row.timing /\ r.next = found
        /\ r.since = IF found = NoSlot THEN i.row.since ELSE tickNow
    BY <2>1 DEF Row
  <2>6. Held(i.sched, r)
    <3>. HIDE DEF r
    <3>1. Held(i.sched, i.row) /\ i.row.next = NoSlot
      BY <1>5 DEF PlanInv, TodoHeld, FindNext
    <3>2. CASE found = NoSlot
      BY <2>5, <3>1, <3>2 DEF Held, Accounted
    <3>3. CASE found # NoSlot
      BY <1>0, <2>2, <2>3, <2>5, <3>1, <3>3 DEF Held, Accounted
    <3>. QED
      BY <3>2, <3>3
  <2>7. UpdateSchedule(i.sched, r)
    BY <1>5 DEF FindNext
  <2>. HIDE DEF r
  <2>8. PlannerLosesNoSlot'
    BY <1>5, <2>1, <2>4, <2>6, <2>7, WriteKeeps DEF FindNext, PlanInv
  <2>9. Grows
    BY <1>5 DEF FindNext, Grows
  <2>10. CallsHeld' /\ TodoHeld' /\ CurHeld'
    BY <1>5, <2>9, CallsStay, TodoStays, CurStays DEF FindNext, PlanInv
  <2>. QED
    BY <2>8, <2>10 DEF PlanInv
<1>6. ASSUME NEW i \in todo, BeginMaterialize(i)
      PROVE  PlanInv'
  <2>1. PlannerLosesNoSlot' /\ CallsHeld' /\ TodoHeld'
    BY <1>6, TablesStay, TodoStays DEF BeginMaterialize, PlanInv
  <2>2. PICK x : x = i
    OBVIOUS
  <2>3. Held(x.sched, x.row)'
    BY <1>6, <2>2 DEF BeginMaterialize, PlanInv, TodoHeld, Held, Accounted
  <2>4. \A u \in x.row.timing : x.row.next <= u /\ u <= tickNow => u \in due'
    BY <1>6, <2>2 DEF BeginMaterialize, DueSlots
  <2>5. cur' = x /\ tickNow' = tickNow
    BY <1>6, <2>2 DEF BeginMaterialize
  <2>6. CurHeld'
    BY <2>3, <2>4, <2>5 DEF CurHeld, Held, Accounted
  <2>. QED
    BY <2>1, <2>6 DEF PlanInv
<1>7. ASSUME NEW u \in due, InsertOccurrence(u)
      PROVE  PlanInv'
  <2>1. /\ u \in Slots /\ cur \in Item /\ cur.sched \in Schedules /\ cur.row \in Row
        /\ cur.row.misfire \in Misfires
    BY <1>7 DEF InsertOccurrence, TypeOK, Item, Row
  <2>2. MisfireStatus(cur.row.misfire, u, tickNow) # "none"
    BY <1>0, <2>1, MisfireDecides
  <2>3. /\ exists' = exists
        /\ \A s \in Schedules : \A v \in Slots : runs[s][v] # "none" => runs'[s][v] # "none"
    BY <1>7, <2>1, <2>2 DEF InsertOccurrence, TypeOK
  <2>4. Grows
    BY <2>3 DEF Grows
  <2>5. PlannerLosesNoSlot' /\ CallsHeld' /\ TodoHeld'
    BY <1>7, <2>3, <2>4, RowsStay, CallsStay, TodoStays DEF InsertOccurrence, PlanInv
  <2>6. CurHeld'
    <3>1. CASE exists[cur.sched] # "live"
      BY <1>7, <3>1 DEF InsertOccurrence, EndSchedule, CurHeld
    <3>2. CASE exists[cur.sched] = "live"
      <4>1. PICK x : x = cur
        OBVIOUS
      <4>2. /\ phase = "insert" /\ UNCHANGED <<phase, cur, tickNow>> /\ due' = due \ {u}
            /\ runs'[x.sched][u] # "none"
        BY <1>7, <2>1, <2>2, <3>2, <4>1 DEF InsertOccurrence, TypeOK
      <4>3. Held(x.sched, x.row)'
        BY <2>1, <2>4, <4>1, <4>2, HeldStays DEF PlanInv, CurHeld
      <4>4. x.row.timing \subseteq Slots
        BY <2>1, <4>1, SlotAssumption DEF Row
      <4>5. ASSUME NEW v \in x.row.timing, x.row.next <= v, v <= tickNow
            PROVE  v \in due' \/ runs'[x.sched][v] # "none"
        <5>1. v \in due \/ runs[x.sched][v] # "none"
          BY <3>2, <4>1, <4>2, <4>5 DEF PlanInv, CurHeld
        <5>. QED
          BY <2>1, <2>3, <4>1, <4>2, <4>4, <5>1
      <4>. QED
        BY <4>1, <4>2, <4>3, <4>5 DEF CurHeld, Held, Accounted
    <3>. QED
      BY <3>1, <3>2
  <2>. QED
    BY <2>5, <2>6 DEF PlanInv
<1>8. CASE SaveNext
  <2>. DEFINE r == [cur.row EXCEPT !.next = NextAfter(cur.row.timing, tickNow)]
  <2>1. cur.sched \in Schedules /\ cur.row \in Row /\ cur.row.timing \in Timings
    BY <1>8 DEF SaveNext, TypeOK, Item, Row
  <2>2. /\ NextAfter(cur.row.timing, tickNow) \in 0..NoSlot
        /\ \A u \in cur.row.timing : u > tickNow => NextAfter(cur.row.timing, tickNow) <= u
    BY <1>0, <2>1, NextSlots
  <2>3. r \in Row
    BY <2>1, <2>2 DEF Row
  <2>4. /\ r.timing = cur.row.timing /\ r.since = cur.row.since
        /\ r.next = NextAfter(cur.row.timing, tickNow)
    BY <2>1 DEF Row
  <2>5. cur.row.timing \subseteq Nat /\ cur.row.next \in Nat
    BY <1>0, <2>1, TimingSlots DEF Row
  <2>6. UpdateSchedule(cur.sched, r)
    BY <1>8 DEF SaveNext
  <2>. HIDE DEF r
  <2>7. Held(cur.sched, r)
    <3>1. Held(cur.sched, cur.row)
      BY <1>8 DEF SaveNext, PlanInv, CurHeld
    <3>2. ASSUME exists[cur.sched] = "live", NEW u \in cur.row.timing,
                 cur.row.since <= u, u < r.next
          PROVE  runs[cur.sched][u] # "none"
      <4>1. u <= tickNow
        BY <1>0, <2>2, <2>4, <2>5, <3>2
      <4>2. CASE u < cur.row.next
        BY <3>1, <3>2, <4>2 DEF Held, Accounted
      <4>3. CASE cur.row.next <= u
        BY <1>8, <3>2, <4>1, <4>3 DEF SaveNext, PlanInv, CurHeld
      <4>. QED
        BY <2>5, <4>2, <4>3
    <3>. QED
      BY <2>4, <3>1, <3>2 DEF Held, Accounted
  <2>8. PlannerLosesNoSlot'
    BY <1>8, <2>1, <2>3, <2>6, <2>7, WriteKeeps DEF SaveNext, PlanInv
  <2>9. Grows
    BY <1>8 DEF SaveNext, Grows
  <2>10. CallsHeld' /\ TodoHeld'
    BY <1>8, <2>9, CallsStay, TodoStays DEF SaveNext, PlanInv
  <2>11. CurHeld'
    BY <1>8 DEF SaveNext, EndSchedule, CurHeld
  <2>. QED
    BY <2>8, <2>10, <2>11 DEF PlanInv
<1>. QED
  BY <1>1, <1>2, <1>3, <1>4, <1>5, <1>6, <1>7, <1>8 DEF PlannerStep

\* Every step keeps the invariant.
LEMMA PlanNext == TypeOK /\ PlanInv /\ [Next]_vars => PlanInv'
<1>. SUFFICES ASSUME TypeOK, PlanInv, [Next]_vars PROVE PlanInv'
  OBVIOUS
<1>1. CASE AdvanceClock
  BY <1>1, TablesStay, TodoStays, CurStays DEF AdvanceClock, PlanInv, plannerVars
<1>2. CASE Restart
  <2>1. Grows /\ PlannerLosesNoSlot'
    BY <1>2, RowsStay DEF Restart, Grows, PlanInv
  <2>2. CallsHeld' /\ TodoHeld' /\ CurHeld'
    BY <1>2 DEF Restart, CallsHeld, TodoHeld, CurHeld
  <2>. QED
    BY <2>1, <2>2 DEF PlanInv
<1>3. CASE StoreError
  <2>1. PlannerLosesNoSlot' /\ CallsHeld' /\ Grows /\ todo' \subseteq todo
    BY <1>3, TablesStay DEF StoreError
  <2>2. TodoHeld'
    BY <2>1, TodoStays DEF PlanInv
  <2>3. CurHeld'
    BY <1>3 DEF StoreError, EndSchedule, CurHeld
  <2>. QED
    BY <2>1, <2>2, <2>3 DEF PlanInv
<1>4. CASE UNCHANGED vars
  BY <1>4, TablesStay, TodoStays, CurStays DEF vars, PlanInv, plannerVars
<1>. QED
  BY <1>1, <1>2, <1>3, <1>4, PlanApi, PlanPlanner DEF Next

\* From the clock reading that next_run_at was last computed from, at creation,
\* by an edit, a resumption or FindNext, the row never moves past a slot without
\* a run: through crashes, store errors, deletions and stale rows written back
\* by handlers and planner.  The slots that an edit leaves out when it starts
\* again from the clock are not among these (CatchUpRecordsAll).
THEOREM PlannerLosesNoSlotHolds == Spec => []PlannerLosesNoSlot
<1>1. Init => TypeOK /\ PlanInv
  BY TypeInit, PlanInit
<1>2. TypeOK /\ PlanInv /\ [Next]_vars => (TypeOK /\ PlanInv)'
  BY TypeNext, PlanNext
<1>3. TypeOK /\ PlanInv => PlannerLosesNoSlot
  BY DEF PlanInv
<1>. QED
  BY <1>1, <1>2, <1>3, PTL DEF Spec

-----------------------------------------------------------------------------
(* Only stale slots are recorded as misfired.                                *)

StaleInv == tickNow <= now /\ OnlyStaleMisfires

\* Every step keeps it: the tick's time is never ahead of the clock.
LEMMA StaleNext == TypeOK /\ TypeOK' /\ StaleInv /\ [Next]_vars => StaleInv'
<1>. SUFFICES ASSUME TypeOK, TypeOK', StaleInv, [Next]_vars PROVE StaleInv'
  OBVIOUS
<1>0. /\ now \in Nat /\ now' \in Nat /\ tickNow \in Nat /\ Grace \in Nat
      /\ Slots \subseteq Nat
  BY SlotAssumption, MisfireAssumption DEF TypeOK, Slots
<1>1. ASSUME now <= now', tickNow' \in {tickNow, now, 0}, UNCHANGED runs
      PROVE  StaleInv'
  BY <1>0, <1>1 DEF StaleInv, OnlyStaleMisfires
<1>2. CASE AdvanceClock
  BY <1>0, <1>1, <1>2 DEF AdvanceClock, plannerVars
<1>3. CASE Restart
  BY <1>0, <1>1, <1>3 DEF Restart
<1>4. CASE StoreError
  BY <1>0, <1>1, <1>4 DEF StoreError, EndSchedule
<1>5. CASE UNCHANGED vars
  BY <1>0, <1>1, <1>5 DEF vars, plannerVars
<1>6. CASE ApiStep
  <2>1. ASSUME NEW s \in Schedules, DeleteSchedule(s)
        PROVE  StaleInv'
    <3>1. \A p \in Schedules : \A u \in Slots : runs'[p][u] = "misfire" => runs[p][u] = "misfire"
      BY <2>1 DEF DeleteSchedule, NoRuns, TypeOK
    <3>. QED
      BY <1>0, <2>1, <3>1 DEF DeleteSchedule, plannerVars, StaleInv, OnlyStaleMisfires
  <2>2. CASE UNCHANGED <<now, runs, plannerVars>>
    BY <1>0, <1>1, <2>2 DEF plannerVars
  <2>. QED
    BY <1>6, <2>1, <2>2
    DEF ApiStep, CreateSchedule, BeginCall, PauseSchedule, ResumeSchedule, EditSchedule,
        CallFails, CommitCall
<1>7. CASE PlannerStep
  <2>1. ASSUME NEW u \in due, InsertOccurrence(u)
        PROVE  StaleInv'
    <3>1. u \in Slots /\ cur.sched \in Schedules /\ cur.row.misfire \in Misfires
      BY <2>1 DEF InsertOccurrence, TypeOK, Item, Row
    <3>2. MisfireStatus(cur.row.misfire, u, tickNow) = "misfire" => u + Grace < tickNow
      BY <1>0, <3>1, MisfireDecides
    <3>3. \A p \in Schedules : \A v \in Slots : runs'[p][v] = "misfire" =>
            \/ runs[p][v] = "misfire"
            \/ v = u /\ MisfireStatus(cur.row.misfire, u, tickNow) = "misfire"
      BY <2>1, <3>1 DEF InsertOccurrence, TypeOK
    <3>. QED
      BY <1>0, <2>1, <3>1, <3>2, <3>3 DEF InsertOccurrence, StaleInv, OnlyStaleMisfires
  <2>2. CASE UNCHANGED <<now, runs>> /\ tickNow' \in {tickNow, now, 0}
    BY <1>0, <1>1, <2>2
  <2>. QED
    BY <1>7, <2>1, <2>2
    DEF PlannerStep, TickBegin, ListAllSchedules, TickEnd, PassOver, FindNext,
        BeginMaterialize, SaveNext
<1>. QED
  BY <1>2, <1>3, <1>4, <1>5, <1>6, <1>7 DEF Next

\* A slot within one polling interval of the tick that found it is never
\* recorded as misfired, the boundary included.
THEOREM OnlyStaleMisfiresHolds == Spec => []OnlyStaleMisfires
<1>1. Init => StaleInv
  BY DEF Init, StaleInv, OnlyStaleMisfires, NoRuns
<1>2. StaleInv => OnlyStaleMisfires
  BY DEF StaleInv
<1>. QED
  BY <1>1, <1>2, StaleNext, PlannerTypeCorrect, PTL DEF Spec
-----------------------------------------------------------------------------
(* Late work runs, for a schedule that keeps run_once_if_late and its slots. *)

\* No edit changes the slots or the policy.
KeepsLateWork == Misfires = {"run_once_if_late"} /\ \A T, U \in Timings : T = U

\* A copy of a row that the table, a handler or the planner holds.
Copy(s, r) ==
  \/ exists[s] = "live" /\ row[s] = r
  \/ \E c \in Clients : call[c] # NoCall /\ call[c].sched = s /\ call[c].row = r
  \/ \E i \in todo : i.sched = s /\ i.row = r
  \/ phase = "insert" /\ cur.sched = s /\ cur.row = r

\* Every superseded slot that a copy has left behind has a later slot that runs.
LateRuns(s, r) ==
  exists[s] = "live" =>
    \A u \in Slots : runs[s][u] = "superseded" /\ r.since <= u /\ u < r.next
      => \E v \in Slots : v > u /\ runs[s][v] = "pending"

CopiesLate == \A s \in Schedules : \A r \in Row : Copy(s, r) => LateRuns(s, r)

\* A slot is given up only when a later one was due at the same time, which no
\* later tick can miss.
GivenUp ==
  \A s \in Schedules : \A u \in Slots :
    /\ runs[s][u] # "misfire"
    /\ runs[s][u] = "superseded" =>
         \A T \in Timings : u \in T /\ \E v \in T :
           v > u /\ v <= now /\ (phase # "idle" => v <= tickNow)

DueNow ==
  /\ tickNow <= now
  /\ \A u \in due : u <= tickNow /\ \A T \in Timings : u \in T

\* A set of slots has a last one.
LEMMA LatestSlot ==
  ASSUME NEW S, S \subseteq Slots, S # {}
  PROVE  \E m \in S : \A v \in S : v <= m
<1>. DEFINE Above == {n \in Nat : \A v \in S : v <= n}
<1>0. MaxTime \in Nat /\ S \subseteq Nat /\ \A v \in S : v <= MaxTime /\ v >= 1
  BY SlotAssumption DEF Slots
<1>1. MaxTime \in Above
  BY <1>0
<1>2. PICK m \in Above : \A n \in Above : ~ (<<n, m>> \in OpToRel(<, Nat))
  BY <1>1, WFMin, NatLessThanWellFounded
<1>3. \A n \in Above : m <= n
  <2>. SUFFICES ASSUME NEW n \in Above, ~(m <= n)
                PROVE  FALSE
    OBVIOUS
  <2>1. <<n, m>> \in Nat \X Nat /\ <<n, m>>[1] < <<n, m>>[2]
    OBVIOUS
  <2>2. <<n, m>> \in {ss \in Nat \X Nat : ss[1] < ss[2]}
    BY <2>1, Zenon
  <2>. QED
    BY <1>2, <2>2, Zenon DEF OpToRel
<1>4. m \in S
  <2>. SUFFICES ASSUME m \notin S PROVE FALSE
    OBVIOUS
  <2>1. m \in Nat /\ \A v \in S : v \in Nat /\ v >= 1 /\ v <= m /\ v # m
    BY <1>0
  <2>2. m >= 1
    BY <2>1
  <2>3. PICK n \in Nat : n = m - 1 /\ n < m
    BY <2>1, <2>2
  <2>4. n \in Above
    BY <2>1, <2>3
  <2>. QED
    BY <1>3, <2>1, <2>3, <2>4
<1>. QED
  BY <1>4

\* The policy gives a slot up for a later one only.
LEMMA LateStatus ==
  ASSUME KeepsLateWork, NEW m \in Misfires, NEW u, NEW t
  PROVE  \/ MisfireStatus(m, u, t) = "pending"
         \/ MisfireStatus(m, u, t) = "superseded" /\ \E v \in due : v > u
BY DEF KeepsLateWork, MisfireStatus

\* Slots once given up stay so for the same reason.
LEMMA GivenUpNext == KeepsLateWork /\ TypeOK /\ GivenUp /\ DueNow /\ [Next]_vars => GivenUp' /\ DueNow'
<1>. SUFFICES ASSUME KeepsLateWork, TypeOK, GivenUp, DueNow, [Next]_vars PROVE GivenUp' /\ DueNow'
  OBVIOUS
<1>0. /\ now \in Nat /\ tickNow \in Nat /\ Slots \subseteq Nat /\ due \subseteq Slots
      /\ \A T \in Timings : T \subseteq Slots
  BY SlotAssumption DEF TypeOK, Slots
\* Enough for all steps but an insert: the clock goes on, a tick begins or ends.
<1>1. ASSUME now' \in Nat, now <= now', due' \subseteq due,
             \/ phase' = "idle" /\ tickNow' = 0
             \/ phase = "idle" /\ tickNow' = now
             \/ phase # "idle" /\ tickNow' = tickNow
             \/ UNCHANGED <<phase, tickNow>>,
             due' = {} \/ tickNow' = tickNow,
             \A s \in Schedules, u \in Slots : runs'[s][u] \in {"none", runs[s][u]}
      PROVE  GivenUp' /\ DueNow'
  <2>1. DueNow'
    BY <1>0, <1>1 DEF DueNow
  <2>2. ASSUME NEW s \in Schedules, NEW u \in Slots, runs'[s][u] = "superseded", NEW T \in Timings
        PROVE  u \in T /\ \E v \in T : v > u /\ v <= now' /\ (phase' # "idle" => v <= tickNow')
    <3>1. u \in T /\ runs[s][u] = "superseded"
      BY <1>1, <2>2 DEF GivenUp
    <3>2. PICK v \in T : v > u /\ v <= now /\ (phase # "idle" => v <= tickNow)
      BY <3>1 DEF GivenUp
    <3>3. v \in Nat /\ v <= now'
      BY <1>0, <1>1, <3>2
    <3>4. phase' # "idle" => v <= tickNow'
      BY <1>1, <3>2
    <3>. QED
      BY <3>1, <3>2, <3>3, <3>4
  <2>3. \A s \in Schedules : \A u \in Slots : runs'[s][u] # "misfire"
    BY <1>1 DEF GivenUp
  <2>. QED
    BY <2>1, <2>2, <2>3 DEF GivenUp
<1>2. CASE AdvanceClock \/ UNCHANGED vars
  <2>1. now' \in Nat /\ now <= now' /\ UNCHANGED <<phase, tickNow, due, runs>>
    BY <1>0, <1>2 DEF AdvanceClock, vars, plannerVars
  <2>. QED
    BY <1>1, <2>1
<1>3. CASE Restart \/ StoreError \/ TickBegin \/ ListAllSchedules \/ TickEnd \/ SaveNext
           \/ (\E i \in todo : PassOver(i) \/ FindNext(i))
  <2>1. UNCHANGED <<now, runs>> /\ (due' = {} \/ UNCHANGED due)
    BY <1>3 DEF Restart, StoreError, TickBegin, ListAllSchedules, TickEnd, SaveNext, PassOver,
       FindNext, EndSchedule
  <2>2. phase # "insert" => due = {}
    BY DEF TypeOK
  <2>3. \/ phase' = "idle" /\ tickNow' = 0 /\ due' = {}
        \/ phase = "idle" /\ tickNow' = now /\ due' = {}
        \/ phase # "idle" /\ tickNow' = tickNow
        \/ UNCHANGED <<phase, tickNow>>
    BY <1>3, <2>2 DEF Restart, StoreError, TickBegin, ListAllSchedules, TickEnd, SaveNext, PassOver,
       FindNext, EndSchedule
  <2>. QED
    BY <1>0, <1>1, <2>1, <2>3
<1>4. CASE ApiStep
  <2>1. ASSUME NEW s \in Schedules, DeleteSchedule(s)
        PROVE  \A p \in Schedules, u \in Slots : runs'[p][u] \in {"none", runs[p][u]}
    BY <2>1 DEF DeleteSchedule, NoRuns, TypeOK
  <2>2. UNCHANGED <<now, plannerVars>>
    BY <1>4
    DEF ApiStep, CreateSchedule, DeleteSchedule, BeginCall, PauseSchedule, ResumeSchedule,
        EditSchedule, CallFails, CommitCall
  <2>3. runs' = runs \/ \E s \in Schedules : DeleteSchedule(s)
    BY <1>4
    DEF ApiStep, CreateSchedule, BeginCall, PauseSchedule, ResumeSchedule,
        EditSchedule, CallFails, CommitCall
  <2>. QED
    BY <1>0, <1>1, <2>1, <2>2, <2>3 DEF plannerVars
<1>5. ASSUME NEW u \in due, InsertOccurrence(u)
      PROVE  GivenUp' /\ DueNow'
  <2>1. /\ u \in Slots /\ cur.sched \in Schedules /\ cur.row.misfire \in Misfires
        /\ phase = "insert" /\ UNCHANGED <<now, tickNow>> /\ due' \subseteq due
    BY <1>5 DEF InsertOccurrence, EndSchedule, TypeOK, Item, Row
  <2>2. PICK st : st = MisfireStatus(cur.row.misfire, u, tickNow)
    OBVIOUS
  <2>3. st = "pending" \/ (st = "superseded" /\ \E v \in due : v > u)
    BY <2>1, <2>2, LateStatus
  <2>4. \A s \in Schedules, v \in Slots : runs'[s][v] = runs[s][v] \/ (v = u /\ runs'[s][v] = st)
    BY <1>5, <2>1, <2>2 DEF InsertOccurrence, TypeOK
  <2>5. DueNow'
    BY <2>1 DEF DueNow
  <2>6. ASSUME NEW s \in Schedules, NEW v \in Slots, runs'[s][v] = "superseded", NEW T \in Timings
        PROVE  v \in T /\ \E w \in T : w > v /\ w <= now /\ w <= tickNow
    <3>1. CASE runs[s][v] = "superseded"
      BY <2>1, <3>1 DEF GivenUp
    <3>2. CASE v = u /\ st = "superseded"
      <4>1. PICK w \in due : w > u
        BY <2>3, <3>2
      <4>2. w \in T /\ u \in T /\ w <= tickNow /\ w \in Nat /\ tickNow <= now
        BY <1>0, <4>1 DEF DueNow
      <4>. QED
        BY <1>0, <3>2, <4>1, <4>2
    <3>. QED
      BY <2>4, <2>6, <3>1, <3>2
  <2>7. \A s \in Schedules : \A v \in Slots : runs'[s][v] # "misfire"
    BY <2>3, <2>4 DEF GivenUp
  <2>. QED
    BY <2>1, <2>5, <2>6, <2>7 DEF GivenUp
<1>6. ASSUME NEW i \in todo, BeginMaterialize(i)
      PROVE  GivenUp' /\ DueNow'
  <2>1. i.row.timing \in Timings
    BY DEF TypeOK, Item, Row
  <2>2. \A v \in due' : v <= tickNow /\ \A T \in Timings : v \in T
    BY <1>6, <2>1 DEF BeginMaterialize, DueSlots, KeepsLateWork
  <2>3. UNCHANGED <<now, tickNow, runs>> /\ phase # "idle"
    BY <1>6 DEF BeginMaterialize
  <2>. QED
    BY <2>2, <2>3 DEF GivenUp, DueNow
<1>7. CASE PlannerStep
  BY <1>5, <1>6, <1>7, <1>3 DEF PlannerStep
<1>. QED
  BY <1>2, <1>4, <1>7, <1>3 DEF Next

\* The row passes over no slot at all.
NoGap(r) == \A u \in r.timing : ~(r.since <= u /\ u < r.next)

\* Rows that start again pass over none.
LEMMA NoGapRows ==
  ASSUME NEW r \in Row, NEW t \in 0..MaxTime
  PROVE  NoGap(PlannedFrom(r, t)) /\ NoGap(Unplanned(r))
<1>1. MaxTime \in Nat /\ t \in Nat /\ NoSlot \in Nat
  BY SlotAssumption DEF NoSlot
<1>2. r.timing \in Timings /\ r.timing \subseteq Nat
  BY TimingSlots DEF Row
<1>3. /\ FirstFrom(r.timing, t) \in 0..NoSlot
      /\ \A u \in r.timing : u >= t => FirstFrom(r.timing, t) <= u
  BY <1>1, <1>2, NextSlots
<1>4. /\ PlannedFrom(r, t).timing = r.timing
      /\ PlannedFrom(r, t).next = FirstFrom(r.timing, t)
      /\ PlannedFrom(r, t).since = t
  BY DEF PlannedFrom, Row
<1>5. /\ Unplanned(r).timing = r.timing
      /\ Unplanned(r).next = NoSlot /\ Unplanned(r).since = NoSlot
  BY DEF Unplanned, Row
<1>6. NoGap(PlannedFrom(r, t))
  BY <1>1, <1>2, <1>3, <1>4 DEF NoGap
<1>7. NoGap(Unplanned(r))
  BY <1>1, <1>2, <1>5 DEF NoGap
<1>. QED
  BY <1>6, <1>7

\* The row accounts for the same slots as a copy that is already there.
SameAsCopy(s, r) == \E q \in Row : Copy(s, q) /\ r.since = q.since /\ r.next = q.next

\* The planner moves next_run_at past the slots of its turn.
Saved(s, r) == SaveNext /\ s = cur.sched /\ r = [cur.row EXCEPT !.next = NextAfter(cur.row.timing, tickNow)]

\* A step that writes a row or none: copies come from it or were there.
LEMMA CopiesAfterWrite ==
  ASSUME TypeOK, exists' = exists, NEW p \in Schedules, NEW w \in Row,
         UpdateSchedule(p, w) \/ row' = row,
         call' = call \/ \E c \in Clients : call' = [call EXCEPT ![c] = NoCall],
         todo' \subseteq todo,
         phase' # "insert" \/ UNCHANGED <<phase, cur>>,
         NEW s \in Schedules, NEW r \in Row, Copy(s, r)'
  PROVE  Copy(s, r) \/ (s = p /\ r = w /\ row' # row)
<1>1. ASSUME exists[s] = "live", row'[s] = r
      PROVE  Copy(s, r) \/ (s = p /\ r = w /\ row' # row)
  BY <1>1 DEF UpdateSchedule, TypeOK, Copy
<1>2. ASSUME NEW c \in Clients, call'[c] # NoCall, call'[c].sched = s, call'[c].row = r
      PROVE  Copy(s, r)
  <2>1. call'[c] = call[c]
    BY <1>2 DEF TypeOK
  <2>. QED
    BY <1>2, <2>1 DEF Copy
<1>. QED
  BY <1>1, <1>2 DEF Copy

\* Where the copies of a row come from.
LEMMA CopyOrigin ==
  ASSUME TypeOK, [Next]_vars, NEW s \in Schedules, NEW r \in Row, Copy(s, r)'
  PROVE  SameAsCopy(s, r) \/ NoGap(r) \/ Saved(s, r)
<1>0. now \in 0..MaxTime /\ MaxTime \in Nat /\ 0..now \subseteq 0..MaxTime /\ tickNow \in 0..MaxTime
  BY SlotAssumption DEF TypeOK
<1>1. ASSUME Copy(s, r) PROVE SameAsCopy(s, r)
  BY <1>1 DEF SameAsCopy
<1>2. ASSUME UNCHANGED <<exists, row>>,
             call' = call \/ \E c \in Clients : call' = [call EXCEPT ![c] = NoCall],
             todo' \subseteq todo,
             phase' # "insert" \/ UNCHANGED <<phase, cur>>
      PROVE  SameAsCopy(s, r)
  <2>1. Copy(s, r)
    BY <1>2, CopiesAfterWrite
  <2>. QED
    BY <1>1, <2>1
<1>3. CASE AdvanceClock \/ StoreError \/ UNCHANGED vars
  BY <1>2, <1>3 DEF AdvanceClock, StoreError, EndSchedule, vars, plannerVars
<1>4. CASE Restart
  <2>1. Copy(s, r)
    BY <1>4 DEF Restart, Copy
  <2>. QED
    BY <1>1, <2>1
<1>5. CASE ApiStep
  <2>1. ASSUME NEW p \in Schedules, NEW T \in Timings, NEW m \in Misfires,
               NEW enabled \in BOOLEAN, CreateSchedule(p, T, m, enabled)
        PROVE  SameAsCopy(s, r) \/ NoGap(r)
    <3>1. PICK blank \in Row : /\ blank = [BlankRow EXCEPT !.timing = T, !.misfire = m]
                               /\ blank.next = NoSlot /\ blank.since = NoSlot /\ blank.timing = T
      <4>. DEFINE b == [BlankRow EXCEPT !.timing = T, !.misfire = m]
      <4>1. b \in Row
        BY BlankRowType DEF Row
      <4>2. b.next = NoSlot /\ b.since = NoSlot /\ b.timing = T
        BY DEF BlankRow
      <4>. QED
        BY <4>1, <4>2
    <3>2. NoGap(blank)
      <4>1. T \subseteq Nat /\ NoSlot \in Nat
        BY SlotAssumption DEF Slots, NoSlot
      <4>. QED
        BY <3>1, <4>1 DEF NoGap
    <3>3. NoGap(PlannedFrom(blank, now))
      BY <1>0, NoGapRows
    <3>4. row' = [row EXCEPT ![p] = IF enabled THEN PlannedFrom(blank, now) ELSE blank]
      BY <2>1, <3>1 DEF CreateSchedule
    <3>5. CASE s = p /\ row'[s] = r
      BY <3>2, <3>3, <3>4, <3>5 DEF TypeOK
    <3>6. CASE ~(s = p /\ row'[s] = r)
      <4>1. exists'[s] = "live" /\ row'[s] = r => exists[s] = "live" /\ row[s] = r
        BY <2>1, <3>4, <3>6 DEF CreateSchedule, TypeOK
      <4>2. Copy(s, r)
        BY <2>1, <4>1 DEF CreateSchedule, plannerVars, Copy
      <4>. QED
        BY <1>1, <4>2
    <3>. QED
      BY <3>5, <3>6
  <2>2. ASSUME NEW p \in Schedules, DeleteSchedule(p)
        PROVE  SameAsCopy(s, r)
    <3>1. exists'[s] = "live" => exists[s] = "live"
      BY <2>2 DEF DeleteSchedule, TypeOK
    <3>2. Copy(s, r)
      BY <2>2, <3>1 DEF DeleteSchedule, plannerVars, Copy
    <3>. QED
      BY <1>1, <3>2
  <2>3. ASSUME NEW c \in Clients, NEW p \in Schedules, BeginCall(c, p)
        PROVE  SameAsCopy(s, r)
    <3>1. \A d \in Clients : call'[d] = call[d] \/ (call'[d].sched = p /\ call'[d].row = row[p])
      BY <2>3 DEF BeginCall, TypeOK
    <3>2. Copy(s, r)
      BY <2>3, <3>1 DEF BeginCall, plannerVars, Copy
    <3>. QED
      BY <1>1, <3>2
  <2>4. ASSUME NEW c \in Clients, call[c] # NoCall, NEW w \in Row, CommitCall(c, w)
        PROVE  SameAsCopy(s, r) \/ (s = call[c].sched /\ r = w)
    <3>1. call[c].sched \in Schedules
      BY <2>4 DEF TypeOK, Call
    <3>2. Copy(s, r) \/ (s = call[c].sched /\ r = w)
      BY <2>4, <3>1, CopiesAfterWrite DEF CommitCall, plannerVars
    <3>. QED
      BY <1>1, <3>2
  <2>5. ASSUME NEW c \in Clients, PauseSchedule(c)
        PROVE  SameAsCopy(s, r)
    <3>1. PICK q \in Row : call[c] # NoCall /\ q = call[c].row
      BY <2>5 DEF PauseSchedule, TypeOK, Call
    <3>2. PICK w \in Row : /\ w = [q EXCEPT !.enabled = FALSE, !.paused = TRUE]
                           /\ w.since = q.since /\ w.next = q.next
      <4>1. [q EXCEPT !.enabled = FALSE, !.paused = TRUE] \in Row
        BY DEF Row
      <4>2. /\ [q EXCEPT !.enabled = FALSE, !.paused = TRUE].since = q.since
            /\ [q EXCEPT !.enabled = FALSE, !.paused = TRUE].next = q.next
        BY DEF Row
      <4>. QED
        BY <4>1, <4>2
    <3>3. CommitCall(c, w)
      BY <2>5, <3>1, <3>2 DEF PauseSchedule
    <3>4. SameAsCopy(call[c].sched, w)
      BY <3>1, <3>2 DEF SameAsCopy, Copy
    <3>. QED
      BY <2>4, <3>1, <3>3, <3>4
  <2>6. ASSUME NEW c \in Clients, NEW t \in 0..now, NEW q \in Row, call[c] # NoCall,
               CommitCall(c, PlannedFrom(q, t)) \/ CommitCall(c, Unplanned(q))
        PROVE  SameAsCopy(s, r) \/ NoGap(r)
    <3>1. /\ PlannedFrom(q, t) \in Row /\ Unplanned(q) \in Row
          /\ NoGap(PlannedFrom(q, t)) /\ NoGap(Unplanned(q))
      BY <1>0, PlannedRows, NoGapRows
    <3>2. PICK w \in Row : NoGap(w) /\ CommitCall(c, w)
      BY <2>6, <3>1
    <3>. QED
      BY <2>4, <2>6, <3>2
  <2>7. ASSUME NEW c \in Clients, NEW t \in 0..now, ResumeSchedule(c, t)
        PROVE  SameAsCopy(s, r) \/ NoGap(r)
    <3>1. call[c] # NoCall /\ call[c].row \in Row
      BY <2>7 DEF ResumeSchedule, TypeOK, Call
    <3>. QED
      BY <2>6, <2>7, <3>1 DEF ResumeSchedule
  <2>8. ASSUME NEW c \in Clients, NEW t \in 0..now, NEW T \in Timings, NEW m \in Misfires,
               NEW enabled \in BOOLEAN, EditSchedule(c, T, m, enabled, t)
        PROVE  SameAsCopy(s, r) \/ NoGap(r)
    <3>1. call[c] # NoCall /\ [call[c].row EXCEPT !.timing = T, !.misfire = m] \in Row
      BY <2>8, EditedRow DEF EditSchedule
    <3>. QED
      BY <2>6, <2>8, <3>1 DEF EditSchedule
  <2>9. ASSUME NEW c \in Clients, CallFails(c)
        PROVE  SameAsCopy(s, r)
    BY <1>2, <2>9 DEF CallFails, plannerVars
  <2>. QED
    BY <1>5, <2>1, <2>2, <2>3, <2>5, <2>7, <2>8, <2>9 DEF ApiStep
<1>6. CASE PlannerStep
  <2>1. CASE TickBegin \/ TickEnd \/ (\E i \in todo : PassOver(i)) \/ (\E u \in due : InsertOccurrence(u))
    BY <1>2, <2>1 DEF TickBegin, TickEnd, PassOver, InsertOccurrence, EndSchedule
  <2>2. CASE ListAllSchedules
    <3>1. \A i \in todo' : exists[i.sched] = "live" /\ i.row = row[i.sched]
      BY <2>2 DEF ListAllSchedules
    <3>2. Copy(s, r)
      BY <2>2, <3>1 DEF ListAllSchedules, Copy
    <3>. QED
      BY <1>1, <3>2
  <2>3. ASSUME NEW i \in todo, BeginMaterialize(i)
        PROVE  SameAsCopy(s, r)
    <3>1. Copy(s, r)
      BY <2>3 DEF BeginMaterialize, Copy
    <3>. QED
      BY <1>1, <3>1
  <2>4. ASSUME NEW i \in todo, FindNext(i)
        PROVE  SameAsCopy(s, r) \/ NoGap(r)
    <3>1. PICK q \in Row : q = i.row /\ q.next = NoSlot /\ i.sched \in Schedules
      BY <2>4 DEF TypeOK, Item, FindNext
    <3>2. PICK found \in 0..NoSlot : /\ found = FirstFrom(q.timing, tickNow)
                                     /\ \A u \in q.timing : u >= tickNow => found <= u
      BY <1>0, NextSlots DEF Row
    <3>3. q.timing \subseteq Nat /\ tickNow \in Nat /\ NoSlot \in Nat /\ tickNow \in 0..NoSlot
      BY <1>0, TimingSlots DEF Row, NoSlot
    <3>4. PICK since \in 0..NoSlot : since = IF found = NoSlot THEN q.since ELSE tickNow
      BY <3>3 DEF Row
    <3>5. PICK w \in Row : /\ w = [q EXCEPT !.next = found, !.since = since]
                           /\ w.timing = q.timing /\ w.next = found /\ w.since = since
      <4>. DEFINE x == [q EXCEPT !.next = found, !.since = since]
      <4>1. x \in Row
        BY DEF Row
      <4>2. x.timing = q.timing /\ x.next = found /\ x.since = since
        BY DEF Row
      <4>. QED
        BY <4>1, <4>2
    <3>6. UpdateSchedule(i.sched, w)
      BY <2>4, <3>1, <3>2, <3>4, <3>5 DEF FindNext
    <3>7. Copy(s, r) \/ (s = i.sched /\ r = w)
      BY <2>4, <3>1, <3>6, CopiesAfterWrite DEF FindNext
    <3>8. CASE found = NoSlot
      <4>1. SameAsCopy(i.sched, w)
        BY <3>1, <3>4, <3>5, <3>8 DEF SameAsCopy, Copy
      <4>. QED
        BY <1>1, <3>7, <4>1
    <3>9. CASE found # NoSlot
      <4>1. NoGap(w)
        BY <3>2, <3>3, <3>4, <3>5, <3>9 DEF NoGap
      <4>. QED
        BY <1>1, <3>7, <4>1
    <3>. QED
      BY <3>8, <3>9
  <2>5. CASE SaveNext
    <3>1. cur.sched \in Schedules /\ cur.row \in Row /\ cur.row.timing \in Timings
      BY <2>5 DEF SaveNext, TypeOK, Item, Row
    <3>2. NextAfter(cur.row.timing, tickNow) \in 0..NoSlot
      BY <1>0, <3>1, NextSlots
    <3>3. PICK w \in Row : w = [cur.row EXCEPT !.next = NextAfter(cur.row.timing, tickNow)]
      BY <3>1, <3>2 DEF Row
    <3>4. UpdateSchedule(cur.sched, w)
      BY <2>5, <3>3 DEF SaveNext
    <3>5. Copy(s, r) \/ (s = cur.sched /\ r = w)
      BY <2>5, <3>1, <3>4, CopiesAfterWrite DEF SaveNext, EndSchedule
    <3>. QED
      BY <1>1, <2>5, <3>3, <3>5 DEF Saved
  <2>. QED
    BY <1>6, <2>1, <2>2, <2>3, <2>4, <2>5 DEF PlannerStep
<1>. QED
  BY <1>3, <1>4, <1>5, <1>6 DEF Next

\* While a schedule lives, what is recorded for a slot does not change.
RunsKept ==
  \A s \in Schedules : exists[s] # "unborn" /\ exists'[s] = "live" =>
    /\ exists[s] = "live"
    /\ \A u \in Slots : runs[s][u] # "none" => runs'[s][u] = runs[s][u]

LEMMA RunsKeptNext == TypeOK /\ [Next]_vars => RunsKept
<1>. SUFFICES ASSUME TypeOK, [Next]_vars PROVE RunsKept
  OBVIOUS
<1>1. CASE UNCHANGED <<exists, runs>>
  BY <1>1 DEF RunsKept
<1>2. ASSUME NEW s \in Schedules, NEW T, NEW m, NEW enabled, CreateSchedule(s, T, m, enabled)
      PROVE  RunsKept
  BY <1>2 DEF CreateSchedule, RunsKept, TypeOK
<1>3. ASSUME NEW s \in Schedules, DeleteSchedule(s)
      PROVE  RunsKept
  BY <1>3 DEF DeleteSchedule, RunsKept, TypeOK
<1>4. ASSUME NEW u \in due, InsertOccurrence(u)
      PROVE  RunsKept
  <2>1. cur.sched \in Schedules /\ u \in Slots /\ exists' = exists
    BY <1>4 DEF InsertOccurrence, TypeOK, Item
  <2>2. \A s \in Schedules, v \in Slots : runs[s][v] # "none" => runs'[s][v] = runs[s][v]
    BY <1>4, <2>1 DEF InsertOccurrence, TypeOK
  <2>. QED
    BY <2>1, <2>2 DEF RunsKept
<1>. QED
  BY <1>1, <1>2, <1>3, <1>4
  DEF Next, vars, AdvanceClock, Restart, StoreError, ApiStep, BeginCall, PauseSchedule,
      ResumeSchedule, EditSchedule, CallFails, CommitCall, PlannerStep, TickBegin,
      ListAllSchedules, TickEnd, PassOver, FindNext, BeginMaterialize, SaveNext

\* A copy accounts for the slots it has left behind.
LEMMA CopiesHeld ==
  ASSUME PlanInv, NEW s \in Schedules, NEW r \in Row, Copy(s, r)
  PROVE  Held(s, r)
BY DEF PlanInv, PlannerLosesNoSlot, CallsHeld, TodoHeld, CurHeld, Copy, Held

\* A copy stays good: the slots it has left behind are recorded already.
LEMMA LateStays ==
  ASSUME KeepsLateWork, TypeOK, GivenUp', RunsKept,
         NEW s \in Schedules, NEW r \in Row, Held(s, r), LateRuns(s, r)
  PROVE  LateRuns(s, r)'
<1>. SUFFICES ASSUME exists'[s] = "live", NEW u \in Slots, runs'[s][u] = "superseded",
                     r.since <= u, u < r.next
              PROVE  \E v \in Slots : v > u /\ runs'[s][v] = "pending"
  BY DEF LateRuns
<1>1. r.timing \in Timings
  BY DEF Row
<1>2. u \in r.timing
  BY <1>1 DEF GivenUp
<1>3. exists[s] = "live" /\ runs[s][u] # "none"
  BY <1>2 DEF Held, Accounted, RunsKept
<1>4. runs[s][u] = "superseded"
  BY <1>3 DEF RunsKept, Held
<1>5. PICK v \in Slots : v > u /\ runs[s][v] = "pending"
  BY <1>3, <1>4 DEF LateRuns
<1>6. runs'[s][v] = "pending"
  BY <1>5 DEF RunsKept, Held
<1>. QED
  BY <1>5, <1>6

\* SaveNext leaves a turn behind whose last slot is pending.
LEMMA SavedLate ==
  ASSUME KeepsLateWork, TypeOK, PlanInv, GivenUp, CopiesLate,
         NEW s \in Schedules, NEW r \in Row, Saved(s, r)
  PROVE  LateRuns(s, r)'
<1>0. /\ SaveNext /\ s = cur.sched /\ UNCHANGED <<exists, runs>> /\ phase = "insert" /\ due = {}
      /\ tickNow \in Nat /\ Slots \subseteq Nat /\ MaxTime \in Nat
  BY SlotAssumption DEF Saved, SaveNext, TypeOK, Slots
<1>1. PICK q \in Row : q = cur.row /\ q.timing \in Timings
  BY <1>0 DEF TypeOK, Item, Row
<1>2. PICK next : next = NextAfter(q.timing, tickNow)
  OBVIOUS
<1>3. r.since = q.since /\ r.next = next
  BY <1>1, <1>2 DEF Saved, Row
<1>4. next \in 0..NoSlot /\ \A u \in q.timing : u > tickNow => next <= u
  BY <1>0, <1>1, <1>2, NextSlots
<1>5. Copy(s, q)
  BY <1>0, <1>1 DEF Copy
<1>. SUFFICES ASSUME exists[s] = "live", NEW u \in Slots, runs[s][u] = "superseded",
                     q.since <= u, u < next
              PROVE  \E v \in Slots : v > u /\ runs[s][v] = "pending"
  BY <1>0, <1>3 DEF LateRuns
<1>6. CASE u < q.next
  BY <1>5, <1>6 DEF CopiesLate, LateRuns
<1>7. CASE ~(u < q.next)
  <2>1. q.next \in Nat /\ next \in Nat /\ u \in Nat /\ q.timing \subseteq Slots
    <3>1. q.next \in 0..NoSlot /\ NoSlot \in Nat
      BY <1>0 DEF Row, NoSlot
    <3>2. q.timing \subseteq Slots
      BY <1>1, TimingSlots
    <3>. QED
      BY <1>0, <1>4, <3>1, <3>2
  <2>2. u \in q.timing
    BY <1>1 DEF GivenUp
  <2>3. u <= tickNow /\ q.next <= u
    BY <1>0, <1>4, <1>7, <2>1, <2>2
  <2>4. PICK S : S = {v \in q.timing : q.next <= v /\ v <= tickNow}
    OBVIOUS
  <2>5. S \subseteq Slots /\ u \in S
    BY <2>1, <2>2, <2>3, <2>4
  <2>6. PICK m \in S : \A v \in S : v <= m
    BY <2>5, LatestSlot
  <2>7. m \in q.timing /\ m \in Slots /\ q.next <= m /\ m <= tickNow /\ u <= m
    BY <2>4, <2>5, <2>6
  <2>8. runs[s][m] # "none"
    BY <1>0, <1>1, <2>7 DEF PlanInv, CurHeld
  <2>9. runs[s][m] # "superseded"
    <3>. SUFFICES ASSUME runs[s][m] = "superseded" PROVE FALSE
      OBVIOUS
    <3>1. PICK v \in q.timing : v > m /\ v <= tickNow
      BY <1>0, <1>1, <2>7 DEF GivenUp
    <3>2. v \in Nat /\ m \in Nat
      BY <1>0, <2>1, <2>7
    <3>3. q.next <= v
      BY <2>1, <2>7, <3>1, <3>2
    <3>4. v \in S
      BY <2>4, <3>1, <3>3
    <3>. QED
      BY <2>6, <3>1, <3>2, <3>4
  <2>10. runs[s][m] = "pending"
    BY <2>7, <2>8, <2>9 DEF GivenUp, TypeOK, RunStates
  <2>11. m > u
    BY <1>0, <2>7, <2>9
  <2>. QED
    BY <2>7, <2>10, <2>11
<1>. QED
  BY <1>6, <1>7

\* Every step keeps every copy good.
LEMMA LateNext ==
  ASSUME KeepsLateWork
  PROVE  TypeOK /\ TypeOK' /\ PlanInv /\ GivenUp /\ GivenUp' /\ CopiesLate /\ [Next]_vars => CopiesLate'
<1>. SUFFICES ASSUME TypeOK, TypeOK', PlanInv, GivenUp, GivenUp', CopiesLate, [Next]_vars,
                     NEW s \in Schedules, NEW r \in Row, Copy(s, r)'
              PROVE  LateRuns(s, r)'
  BY DEF CopiesLate
<1>1. RunsKept
  BY RunsKeptNext
<1>2. CASE SameAsCopy(s, r)
  <2>1. PICK q \in Row : Copy(s, q) /\ r.since = q.since /\ r.next = q.next
    BY <1>2 DEF SameAsCopy
  <2>2. Held(s, q) /\ LateRuns(s, q)
    BY <2>1, CopiesHeld DEF CopiesLate
  <2>3. LateRuns(s, q)'
    BY <1>1, <2>2, LateStays
  <2>. QED
    BY <2>1, <2>3 DEF LateRuns
<1>3. CASE NoGap(r)
  BY <1>3 DEF NoGap, LateRuns, GivenUp, Row
<1>4. CASE Saved(s, r)
  BY <1>4, SavedLate
<1>. QED
  BY <1>2, <1>3, <1>4, CopyOrigin

\* run_once_if_late gives up a slot only for a newer one that runs, also when the
\* materializeDue that superseded it was cut short and repeated, and whichever
\* handler or planner wrote its copy of the row back last. This is about
\* schedules that keep the policy and their slots: an edit starts them anew.
THEOREM LateWorkRunsHolds == KeepsLateWork => (Spec => []LateWorkRuns)
<1>. SUFFICES ASSUME KeepsLateWork PROVE Spec => []LateWorkRuns
  OBVIOUS
<1>. DEFINE LateInv == TypeOK /\ PlanInv /\ GivenUp /\ DueNow /\ CopiesLate
<1>1. Init => LateInv
  <2>. SUFFICES ASSUME Init PROVE LateInv
    OBVIOUS
  <2>1. TypeOK /\ PlanInv
    BY TypeInit, PlanInit
  <2>2. \A s \in Schedules : \A u \in Slots : runs[s][u] = "none"
    BY DEF Init, NoRuns
  <2>3. GivenUp /\ CopiesLate
    BY <2>2 DEF GivenUp, CopiesLate, LateRuns
  <2>4. DueNow
    BY DEF Init, DueNow
  <2>. QED
    BY <2>1, <2>3, <2>4
<1>2. LateInv /\ [Next]_vars => LateInv'
  BY TypeNext, PlanNext, GivenUpNext, LateNext
<1>3. ASSUME LateInv PROVE LateWorkRuns
  <2>1. ASSUME NEW s \in Schedules
        PROVE  LateRuns(s, row[s]) /\ row[s].timing \subseteq Slots
    <3>1. row[s] \in Row /\ (exists[s] = "live" => Copy(s, row[s]))
      BY <1>3 DEF TypeOK, Copy
    <3>2. row[s].timing \subseteq Slots
      BY <3>1, SlotAssumption DEF Row
    <3>. QED
      BY <1>3, <3>1, <3>2 DEF CopiesLate, LateRuns
  <2>. QED
    BY <2>1 DEF LateWorkRuns, LateRuns
<1>. QED
  BY <1>1, <1>2, <1>3, PTL DEF Spec

=============================================================================
