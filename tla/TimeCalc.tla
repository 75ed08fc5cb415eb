------------------------------ MODULE TimeCalc ------------------------------
(***************************************************************************)
(* The service's time calculations, each in the loop that uses it:         *)
(*   "preview"  PreviewSchedule of a draft;                                *)
(*   "stored"   a stored schedule, whose slots the planner materialises    *)
(*              one after the other, the first at creation, edit, resume;  *)
(*   "retry"    the delays before the attempts of a run (backoffFor).      *)
(*                                                                         *)
(* Instants are counted in units of 1/Sub second, Sub standing for the     *)
(* 10^9 nanoseconds; the unit is what the code calls a nanosecond.         *)
(***************************************************************************)
EXTENDS Integers, FiniteSets, FiniteSetsExt

CONSTANTS
    Sub,          \* units in a second
    Last,         \* the last instant of the year 9999
    Everys,       \* intervals, in seconds
    Crons,        \* cron expressions, by their sets of whole-second slots
    Delays,       \* delays of retry policies, in seconds
    MaxAttempts,  \* bound: attempts of a run
    PreviewRuns   \* slots of a preview (five)

ASSUME TimeAssumption == Sub \in Nat \ {0} /\ Last \in Nat
ASSUME EverysAssumption == Everys \subseteq Nat \ {0}
ASSUME CronsAssumption == \A c \in Crons : c \subseteq {t \in 0..Last : t % Sub = 0}
ASSUME DelaysAssumption == Delays \subseteq Nat \ {0}

VARIABLES
    ask,    \* the calculation: its loop and its input, as given and as kept
    base,   \* the instant or attempt the next step starts from
    got,    \* what the steps returned: slots, or attempts with their delays
    ended   \* the loop is over

vars == <<ask, base, got, ended>>

Times == 0..Last
None == -1                      \* a nil time
Opt == Times \union {None}

\* Schedules that pass ValidateCreateSchedule.
Windows == {w \in Opt \X Opt : None \in {w[1], w[2]} \/ w[1] <= w[2]}
Specs ==
    [kind: {"interval"}, every: Everys, anchor: Opt]
      \union [kind: {"cron"}, slots: Crons]
      \union [kind: {"once"}, at: Times]

\* Retry policies that pass validateRetry.
Policies == {p \in [initial: Delays, max: Delays] : p.initial <= p.max}

-----------------------------------------------------------------------------
(***************************************************************************)
(* timecalc.NextAfter.                                                     *)
(***************************************************************************)

bound(q, next) ==
    IF (q.start # None /\ next < q.start) \/ (q.end # None /\ next > q.end) THEN None ELSE next

\* Where the search starts: a unit before a start that is still to come.
FromWindow(q, after) == IF q.start > after THEN q.start - 1 ELSE after

\* robfig/cron: the first slot after an instant.
CronNext(slots, after) ==
    LET later == {t \in slots : t > after}
    IN  IF later = {} THEN None ELSE Min(later)

NextCron(q, after) ==
    LET next == CronNext(q.spec.slots, FromWindow(q, after))
    IN  IF q.end # None /\ next > q.end THEN None ELSE next

Anchor(q) ==
    IF q.spec.anchor # None THEN q.spec.anchor
    ELSE IF q.start # None THEN q.start ELSE q.created

\* Mutant: whole seconds are subtracted without a borrow.
ElapsedNoBorrow(t, anchor) == (t \div Sub) - (anchor \div Sub)

\* Whole seconds from anchor to t >= anchor, by their seconds and units.
Elapsed(t, anchor) ==
    (t \div Sub) - (anchor \div Sub) - (IF t % Sub < anchor % Sub THEN 1 ELSE 0)

NextInterval(q, after) ==
    LET anchor == Anchor(q)
        from == FromWindow(q, after)
        steps == (Elapsed(from, anchor) \div q.spec.every) + 1
        next == ((anchor \div Sub) + steps * q.spec.every) * Sub + (anchor % Sub)
    IN  IF from < anchor THEN bound(q, anchor)
        ELSE IF next > Last THEN None ELSE bound(q, next)

NextOnce(q, after) == IF after >= q.spec.at THEN None ELSE bound(q, q.spec.at)

NextAfter(q, after) ==
    CASE q.spec.kind = "cron" -> NextCron(q, after)
      [] q.spec.kind = "interval" -> NextInterval(q, after)
      [] q.spec.kind = "once" -> NextOnce(q, after)

-----------------------------------------------------------------------------
(***************************************************************************)
(* backoffFor.                                                             *)
(***************************************************************************)

\* Mutant: the doubled delay is not capped.
DoubledUncapped(p, delay) == IF delay > p.max THEN p.max ELSE 2 * delay

\* One turn of its loop.  At the maximum the loop is left, which is a turn
\* that changes nothing.
Doubled(p, delay) ==
    IF delay > p.max \div 2 \/ 2 * delay >= p.max THEN p.max ELSE 2 * delay

backoffFor(p, attempt) ==
    LET delay[i \in 1..attempt] == IF i = 1 THEN p.initial ELSE Doubled(p, delay[i - 1])
    IN  delay[attempt]

-----------------------------------------------------------------------------
(***************************************************************************)
(* The loops.                                                              *)
(***************************************************************************)

\* CreateSchedule and PreviewSchedule anchor an interval at the moment of the
\* request; ReplaceSchedule and PatchSchedule leave it without an anchor.
Anchored(spec, now) ==
    IF spec.kind = "interval" /\ spec.anchor = None THEN [spec EXCEPT !.anchor = now] ELSE spec

PreviewBase(q) ==
    IF q.start > q.now /\ q.spec.kind = "cron" THEN q.start - 1 ELSE q.now - 1

Preview ==
    \E spec \in Specs, w \in Windows, now \in Times :
        /\ ask = [use |-> "preview", given |-> spec, spec |-> Anchored(spec, now),
                  start |-> w[1], end |-> w[2], created |-> now, now |-> now]
        /\ base = PreviewBase(ask)

\* A creation stores the anchored specification, an edit the given one.
Stored ==
    \E spec \in Specs, w \in Windows, now \in Times : \E created \in {now, now \div 2} :
        /\ ask = [use |-> "stored", given |-> spec,
                  spec |-> IF created = now THEN Anchored(spec, now) ELSE spec,
                  start |-> w[1], end |-> w[2], created |-> created, now |-> now]
        /\ base = now - 1

Retry ==
    /\ ask \in [use: {"retry"}, policy: Policies]
    /\ base = 0

Init ==
    /\ Preview \/ Stored \/ Retry
    /\ got = {}
    /\ ended = FALSE

\* The next slot, and the search goes on from there.
Slot ==
    /\ ask.use \in {"preview", "stored"} /\ ~ended
    /\ ask.use = "preview" => Cardinality(got) < PreviewRuns
    /\ LET next == NextAfter(ask, base)
       IN  /\ next # None /\ next > base
           /\ base' = next
           /\ got' = got \union {next}
    /\ UNCHANGED <<ask, ended>>

\* No slot is left; a preview also ends when it is full.  A preview that met
\* a slot no later than the last would stop as well.
NoSlot ==
    /\ ask.use \in {"preview", "stored"} /\ ~ended
    /\ \/ ask.use = "preview" /\ (Cardinality(got) = PreviewRuns \/ NextAfter(ask, base) <= base)
       \/ ask.use = "stored" /\ NextAfter(ask, base) = None
    /\ ended' = TRUE
    /\ UNCHANGED <<ask, base, got>>

\* The attempt failed and a retry is due after its delay.
Fails ==
    /\ ask.use = "retry"
    /\ base < MaxAttempts
    /\ base' = base + 1
    /\ got' = got \union {<<base + 1, backoffFor(ask.policy, base + 1)>>}
    /\ UNCHANGED <<ask, ended>>

Next == Slot \/ NoSlot \/ Fails

Spec == Init /\ [][Next]_vars

-----------------------------------------------------------------------------
(***************************************************************************)
(* Properties, against what a schedule means.                              *)
(***************************************************************************)

\* docs/public/schedules.md:57: the anchor is "`schedule.anchor_at` when supplied,
\* otherwise `start_at`, otherwise the schedule's creation time."
DocumentedAnchor(q) ==
    IF q.given.anchor # None THEN q.given.anchor
    ELSE IF q.start # None THEN q.start ELSE q.created

\* The one case in which the service does otherwise: an interval created or
\* previewed with a start_at and no anchor is anchored at the moment of the
\* request (service.go:235, preview.go:23).
AnchoredAtRequest(q) == q.given.anchor = None /\ q.spec.anchor # None /\ q.start # None

CadenceAnchor(q) == IF AnchoredAtRequest(q) THEN q.now ELSE DocumentedAnchor(q)

\* The slots of a schedule: its cadence from the anchor on, or its cron or
\* single instants, that lie in the window.
Slots(q) ==
    {t \in Times :
        /\ q.start # None => t >= q.start
        /\ q.end # None => t <= q.end
        /\ CASE q.spec.kind = "cron" -> t \in q.spec.slots
             [] q.spec.kind = "interval" ->
                    t >= CadenceAnchor(q) /\ (t - CadenceAnchor(q)) % (q.spec.every * Sub) = 0
             [] q.spec.kind = "once" -> t = q.spec.at}

\* Whatever a loop over NextAfter has returned is, in order and without a
\* gap, what the schedule has from now on: no slot is skipped or invented at
\* a window's edge, at a fraction of a second or after the anchor, which is the
\* documented one unless AnchoredAtRequest, and a preview tells what a creation
\* at the same moment would plan.  A loop ends only when the schedule has no
\* further slot, or a preview is full.
NoSlotSkipped ==
    ask.use # "retry" =>
        /\ got = {t \in Slots(ask) : ask.now <= t /\ t <= base}
        /\ ended => \/ got = {t \in Slots(ask) : ask.now <= t}
                    \/ ask.use = "preview" /\ Cardinality(got) = PreviewRuns

\* The n-th delay is the initial one doubled n - 1 times, at most the maximum
\* (docs/public/policies.md:135).
DelaysDouble ==
    ask.use = "retry" =>
        \A r \in got : r[2] = Min({ask.policy.initial * 2^(r[1] - 1), ask.policy.max})
=============================================================================
