--------------------------- MODULE TimeCalcProofs ---------------------------
(***************************************************************************)
(* Proofs about TimeCalc, for every resolution of the clock, interval, set *)
(* of cron slots, window, last instant and retry policy:                   *)
(*   - no loop over NextAfter skips or invents a slot, because NextAfter   *)
(*     returns the least slot of its schedule after an instant;            *)
(*   - the delays of a policy double up to its maximum.                    *)
(* Facts about every natural number rest on the least member of a set of   *)
(* naturals: the least counterexample has a predecessor that is none.      *)
(***************************************************************************)
EXTENDS TimeCalc, FiniteSetTheorems, TLAPS

-----------------------------------------------------------------------------
(* Arithmetic.                                                             *)

\* A quotient and its remainder.
LEMMA DivMod ==
  ASSUME NEW a \in Int, NEW b \in Nat \ {0}
  PROVE  \E q \in Int : \E r \in 0..(b - 1) : q = a \div b /\ r = a % b /\ a = q * b + r
OBVIOUS

LEMMA TimesMonotone ==
  ASSUME NEW k \in Int, NEW m \in Int, NEW d \in Nat, k <= m
  PROVE  k * d <= m * d
OBVIOUS

LEMMA TimesCancel ==
  ASSUME NEW k \in Int, NEW m \in Int, NEW d \in Nat \ {0}, k * d < m * d
  PROVE  k < m
OBVIOUS

LEMMA Multiple ==
  ASSUME NEW k \in Int, NEW d \in Nat \ {0}
  PROVE  (k * d) % d = 0
OBVIOUS

LEMMA Distribute ==
  ASSUME NEW a \in Int, NEW b \in Int, NEW d \in Int
  PROVE  /\ (a + b) * d = a * d + b * d
         /\ (a - b) * d = a * d - b * d
         /\ a * d \in Int /\ b * d \in Int
OBVIOUS

LEMMA Regroup ==
  ASSUME NEW a \in Int, NEW b \in Int, NEW d \in Int
  PROVE  (a * b) * d = a * (b * d)
OBVIOUS

\* A set of naturals has a least member, and Min is it.
LEMMA MinIsLeast ==
  ASSUME NEW S, S \subseteq Nat, S # {}
  PROVE  Min(S) \in S /\ \A y \in S : Min(S) <= y
<1>1. PICK x \in S : \A y \in S : ~ (<<y, x>> \in OpToRel(<, Nat))
  BY WFMin, NatLessThanWellFounded
<1>2. \A y \in S : x <= y
  <2>. SUFFICES ASSUME NEW y \in S, ~(x <= y)
                PROVE  FALSE
    OBVIOUS
  <2>1. <<y, x>> \in Nat \X Nat /\ <<y, x>>[1] < <<y, x>>[2]
    OBVIOUS
  <2>2. <<y, x>> \in {ss \in Nat \X Nat : ss[1] < ss[2]}
    BY <2>1, Zenon
  <2>. QED
    BY <1>1, <2>2, Zenon DEF OpToRel
<1>. QED
  BY <1>2 DEF Min

\* Whole seconds between two instants, by their seconds and units.
LEMMA FloorOf ==
  ASSUME NEW d \in Nat \ {0}, NEW h \in Int, NEW m \in Int,
         NEW f \in 0..(d - 1), NEW a \in 0..(d - 1),
         NEW e, e = h - m - (IF f < a THEN 1 ELSE 0),
         NEW F \in Nat, F = h * d + f, NEW A \in Nat, A = m * d + a
  PROVE  e \in Int /\ e * d <= F - A /\ F - A < (e + 1) * d
<1>1. PICK b \in {0, 1} : b = IF f < a THEN 1 ELSE 0
  OBVIOUS
<1>2. e = h - m - b
  BY <1>1, Zenon
<1>3. PICK x \in Int : x = h * d
  OBVIOUS
<1>4. PICK y \in Int : y = m * d
  OBVIOUS
<1>5. F = x + f /\ A = y + a
  BY <1>3, <1>4
<1>6. PICK z \in Int : z = b * d /\ z = IF f < a THEN d ELSE 0
  BY <1>1
<1>7. e * d = x - y - z
  <2>1. (h - m - b) * d = h * d - m * d - b * d
    OBVIOUS
  <2>2. QED
    BY <1>2, <1>3, <1>4, <1>6, <2>1, Zenon
<1>8. (e + 1) * d = x - y - z + d
  <2>1. (h - m - b + 1) * d = h * d - m * d - b * d + d
    OBVIOUS
  <2>2. QED
    BY <1>2, <1>3, <1>4, <1>6, <2>1, Zenon
<1>9. e \in Int
  BY <1>2
<1>10. QED
  BY <1>5, <1>6, <1>7, <1>8, <1>9

LEMMA ElapsedIsFloor ==
  ASSUME NEW F \in Nat, NEW A \in Nat, NEW e, e = Elapsed(F, A)
  PROVE  e \in Int /\ e * Sub <= F - A /\ F - A < (e + 1) * Sub
<1>0. Sub \in Nat \ {0}
  BY TimeAssumption
<1>1. PICK h \in Int, f \in 0..(Sub - 1) : h = F \div Sub /\ f = F % Sub /\ F = h * Sub + f
  BY <1>0, DivMod
<1>2. PICK m \in Int, a \in 0..(Sub - 1) : m = A \div Sub /\ a = A % Sub /\ A = m * Sub + a
  BY <1>0, DivMod
<1>3. e = h - m - (IF f < a THEN 1 ELSE 0)
  <2>1. e = (F \div Sub) - (A \div Sub) - (IF F % Sub < A % Sub THEN 1 ELSE 0)
    BY DEF Elapsed
  <2>2. h = F \div Sub /\ f = F % Sub /\ m = A \div Sub /\ a = A % Sub
    BY <1>1, <1>2
  <2>3. QED
    BY <2>1, <2>2, Zenon
<1>4. F = h * Sub + f /\ A = m * Sub + a
  BY <1>1, <1>2
<1>5. QED
  BY <1>0, <1>3, <1>4, FloorOf, Zenon

\* One interval more than have elapsed is the first step past an instant.
LEMMA StepsPast ==
  ASSUME NEW every \in Nat \ {0}, NEW F \in Nat, NEW A \in Nat, A <= F,
         NEW k, k = (Elapsed(F, A) \div every) + 1
  PROVE  /\ k \in Int
         /\ (k - 1) * (every * Sub) <= F - A
         /\ F - A < k * (every * Sub)
<1>0. Sub \in Nat \ {0}
  BY TimeAssumption
<1>1. PICK e \in Int : e = Elapsed(F, A) /\ e * Sub <= F - A /\ F - A < (e + 1) * Sub
  BY ElapsedIsFloor
<1>2. PICK q \in Int, r \in 0..(every - 1) : q = e \div every /\ e = q * every + r
  BY DivMod
<1>3. k = q + 1
  BY <1>1, <1>2
<1>4. q * every <= e /\ e + 1 <= k * every
  BY <1>2, <1>3
<1>5. (q * every) * Sub <= e * Sub /\ (e + 1) * Sub <= (k * every) * Sub
  <2>1. q * every \in Int /\ k * every \in Int
    BY <1>3
  <2>2. QED
    BY <1>0, <1>4, <2>1, TimesMonotone
<1>6. (q * every) * Sub = q * (every * Sub) /\ (k * every) * Sub = k * (every * Sub)
  <2>1. q \in Int /\ k \in Int /\ every \in Int /\ Sub \in Int
    BY <1>0, <1>3
  <2>2. QED
    BY <2>1, Regroup
<1>7. k - 1 = q /\ k \in Int
  BY <1>3
<1>8. /\ q * (every * Sub) \in Int /\ k * (every * Sub) \in Int
      /\ e * Sub \in Int /\ (e + 1) * Sub \in Int
  BY <1>0, <1>7
<1>9. QED
  BY <1>1, <1>5, <1>6, <1>7, <1>8

\* The next instant of a cadence.
LEMMA CadenceNext ==
  ASSUME NEW every \in Nat \ {0}, NEW F \in Nat, NEW A \in Nat, A <= F,
         NEW k, k = (Elapsed(F, A) \div every) + 1,
         NEW next, next = ((A \div Sub) + k * every) * Sub + (A % Sub)
  PROVE  /\ next \in Nat /\ next > F /\ (next - A) % (every * Sub) = 0
         /\ \A t \in Nat : t > F /\ (t - A) % (every * Sub) = 0 => next <= t
<1>0. Sub \in Nat \ {0}
  BY TimeAssumption
<1>1. /\ k \in Int
      /\ (k - 1) * (every * Sub) <= F - A
      /\ F - A < k * (every * Sub)
  BY StepsPast
<1>2. PICK d \in Nat \ {0} : d = every * Sub
  BY <1>0
<1>3. next = A + k * d
  <2>1. PICK h \in Int, a \in 0..(Sub - 1) : h = A \div Sub /\ a = A % Sub /\ A = h * Sub + a
    <3>1. A \in Int
      OBVIOUS
    <3>2. QED
      BY <1>0, <3>1, DivMod, Zenon
  <2>2. (h + k * every) * Sub = h * Sub + (k * every) * Sub
    <3>1. h \in Int /\ k * every \in Int /\ Sub \in Int
      BY <1>0, <1>1
    <3>2. QED
      BY <3>1, Distribute, Zenon
  <2>3. (k * every) * Sub = k * d
    <3>1. k \in Int /\ every \in Int /\ Sub \in Int
      BY <1>0, <1>1
    <3>2. (k * every) * Sub = k * (every * Sub)
      BY <3>1, Regroup
    <3>3. QED
      BY <1>2, <3>2, Zenon
  <2>4. h * Sub \in Int /\ k * d \in Int
    BY <1>0, <1>1
  <2>5. QED
    BY <2>1, <2>2, <2>3, <2>4
<1>4. k * d \in Int /\ next \in Nat /\ next > F
  <2>1. k * d \in Int
    BY <1>1
  <2>2. QED
    BY <1>1, <1>2, <1>3, <2>1
<1>5. (next - A) % d = 0
  <2>1. next - A = k * d
    BY <1>3, <1>4
  <2>2. QED
    BY <1>1, <2>1, Multiple
<1>6. ASSUME NEW t \in Nat, t > F, (t - A) % d = 0
      PROVE  next <= t
  <2>1. PICK q \in Int : t - A = q * d
    <3>1. t - A \in Int
      OBVIOUS
    <3>2. PICK q \in Int, r \in 0..(d - 1) : r = (t - A) % d /\ t - A = q * d + r
      BY <3>1, DivMod
    <3>3. QED
      BY <1>6, <3>2
  <2>2. (k - 1) * d < q * d
    <3>1. (k - 1) * d \in Int /\ q * d \in Int
      BY <1>1
    <3>2. QED
      BY <1>1, <1>2, <1>6, <2>1, <3>1
  <2>3. k <= q
    <3>1. k - 1 \in Int /\ k - 1 < q
      BY <1>1, <2>2, TimesCancel
    <3>2. QED
      BY <1>1, <3>1
  <2>4. k * d <= q * d
    BY <1>1, <2>3, TimesMonotone
  <2>5. q * d \in Int
    OBVIOUS
  <2>6. QED
    BY <1>3, <1>4, <2>1, <2>4, <2>5
<1>7. QED
  BY <1>2, <1>4, <1>5, <1>6

-----------------------------------------------------------------------------
(* NextAfter returns the next slot.                                        *)

\* next is the least member of S later than after, or nil if there is none.
IsNext(S, after, next) ==
    \/ next = None /\ \A t \in S : t <= after
    \/ next \in S /\ next > after /\ \A t \in S : t > after => next <= t

\* The window of a schedule.
InWindow(q, t) == (q.start # None => t >= q.start) /\ (q.end # None => t <= q.end)

\* The slots of a schedule without its window.
Unbounded(q) ==
    {t \in Times :
        CASE q.spec.kind = "cron" -> t \in q.spec.slots
          [] q.spec.kind = "interval" ->
                 t >= CadenceAnchor(q) /\ (t - CadenceAnchor(q)) % (q.spec.every * Sub) = 0
          [] q.spec.kind = "once" -> t = q.spec.at}

LEMMA SlotsInWindow ==
  ASSUME NEW q
  PROVE  Slots(q) = {t \in Unbounded(q) : InWindow(q, t)}
BY Zenon DEF Slots, Unbounded, InWindow

\* A search from the window's start finds the next slot of the window.
LEMMA SearchFromWindow ==
  ASSUME NEW q, q.start \in Opt, q.end \in Opt, NEW after \in -1..Last,
         NEW C, C \subseteq Times,
         NEW from, from = FromWindow(q, after),
         NEW next, IsNext(C, from, next),
         NEW found, found = IF q.end # None /\ next > q.end THEN None ELSE next
  PROVE  /\ from \in -1..Last
         /\ next \in C => InWindow(q, next) \/ (q.end # None /\ next > q.end)
         /\ IsNext({t \in C : InWindow(q, t)}, after, found)
<1>0. Last \in Nat
  BY TimeAssumption
<1>1. PICK s \in -1..Last : s = q.start
  BY <1>0 DEF Opt, Times, None
<1>2. PICK e \in -1..Last : e = q.end
  BY <1>0 DEF Opt, Times, None
<1>3. from = IF s > after THEN s - 1 ELSE after
  BY <1>1 DEF FromWindow
<1>4. from \in -1..Last /\ from >= after
  BY <1>0, <1>3
<1>5. \A t \in C : t \in 0..Last
  BY DEF Times
<1>6. \A t \in C : InWindow(q, t) /\ t > after => t > from
  BY <1>0, <1>1, <1>3, <1>5 DEF InWindow, None
<1>7. \A t \in C : t > from => t > after /\ (InWindow(q, t) \/ (e # -1 /\ t > e))
  BY <1>0, <1>1, <1>2, <1>3, <1>5 DEF InWindow, None
<1>8. \A t \in C : InWindow(q, t) /\ e # -1 => t <= e
  BY <1>2 DEF InWindow, None
<1>9. found = IF e # -1 /\ next > e THEN -1 ELSE next
  BY <1>2, Zenon DEF None
<1>10. CASE next = None /\ \A t \in C : t <= from
  <2>1. next = -1 /\ next \notin C
    BY <1>5, <1>10 DEF None
  <2>2. found = -1
    BY <1>9, <2>1
  <2>3. \A t \in C : InWindow(q, t) => t <= after
    BY <1>0, <1>4, <1>5, <1>6, <1>10
  <2>4. QED
    BY <1>4, <2>1, <2>2, <2>3 DEF IsNext, None
<1>11. CASE next \in C /\ next > from /\ \A t \in C : t > from => next <= t
  <2>1. next > after /\ (InWindow(q, next) \/ (e # -1 /\ next > e))
    BY <1>7, <1>11
  <2>2. CASE e # -1 /\ next > e
    <3>1. found = -1
      BY <1>9, <2>2
    <3>2. \A t \in C : InWindow(q, t) => t <= after
      BY <1>0, <1>4, <1>5, <1>6, <1>8, <1>11, <2>2
    <3>3. q.end # None /\ next > q.end
      BY <1>2, <2>2 DEF None
    <3>4. QED
      BY <1>4, <3>1, <3>2, <3>3 DEF IsNext, None
  <2>3. CASE ~(e # -1 /\ next > e)
    <3>1. found = next /\ InWindow(q, next)
      BY <1>9, <2>1, <2>3
    <3>2. \A t \in C : InWindow(q, t) /\ t > after => next <= t
      BY <1>6, <1>11
    <3>3. QED
      BY <1>4, <1>11, <2>1, <3>1, <3>2 DEF IsNext
  <2>4. QED
    BY <2>2, <2>3
<1>12. QED
  BY <1>10, <1>11 DEF IsNext

\* A schedule, as CreateSchedule and the edits store it.
Scheduled(q) ==
    /\ q.start \in Opt /\ q.end \in Opt /\ q.created \in Times /\ q.now \in Times
    /\ \/ q.spec.kind = "interval" /\ q.spec.every \in Everys /\ q.spec.anchor \in Opt
       \/ q.spec.kind = "cron" /\ q.spec.slots \in Crons
       \/ q.spec.kind = "once" /\ q.spec.at \in Times
    /\ q.spec.kind = "interval" => Anchor(q) = CadenceAnchor(q)

LEMMA CronNextIsNext ==
  ASSUME NEW C, C \subseteq Times, NEW from \in -1..Last
  PROVE  IsNext(C, from, CronNext(C, from))
<1>0. Last \in Nat
  BY TimeAssumption
<1>1. \A t \in C : t \in 0..Last
  BY DEF Times
<1>2. PICK L : L = {t \in C : t > from}
  OBVIOUS
<1>3. CronNext(C, from) = IF L = {} THEN None ELSE Min(L)
  BY <1>2, Zenon DEF CronNext
<1>4. CASE L = {}
  <2>1. \A t \in C : t <= from
    BY <1>0, <1>1, <1>2, <1>4
  <2>2. QED
    BY <1>3, <1>4, <2>1 DEF IsNext
<1>5. CASE L # {}
  <2>1. L \subseteq Nat
    BY <1>0, <1>1, <1>2
  <2>2. Min(L) \in L /\ \A y \in L : Min(L) <= y
    BY <1>5, <2>1, MinIsLeast
  <2>3. PICK m \in L : m = Min(L)
    BY <2>2
  <2>4. m \in C /\ m > from /\ \A t \in C : t > from => m <= t
    BY <1>2, <2>2, <2>3
  <2>5. CronNext(C, from) = m
    BY <1>3, <1>5, <2>3
  <2>6. QED
    BY <2>4, <2>5 DEF IsNext
<1>6. QED
  BY <1>4, <1>5

LEMMA NextCronIsNext ==
  ASSUME NEW q, Scheduled(q), q.spec.kind = "cron", NEW after \in -1..Last
  PROVE  IsNext(Slots(q), after, NextAfter(q, after))
<1>1. PICK C : C = q.spec.slots
  OBVIOUS
<1>2. C \subseteq Times
  <2>1. C \in Crons
    BY <1>1 DEF Scheduled
  <2>2. C \subseteq {t \in 0..Last : t % Sub = 0}
    BY <2>1, CronsAssumption
  <2>3. QED
    BY <2>2 DEF Times
<1>3. PICK from : from = FromWindow(q, after)
  OBVIOUS
<1>4. PICK next : next = CronNext(C, from)
  OBVIOUS
<1>5. PICK found : found = IF q.end # None /\ next > q.end THEN None ELSE next
  OBVIOUS
<1>6. q.start \in Opt /\ q.end \in Opt
  BY DEF Scheduled
<1>7. from \in -1..Last
  BY <1>3, <1>6, TimeAssumption DEF FromWindow, Opt, Times, None
<1>8. IsNext({t \in C : InWindow(q, t)}, after, found)
  <2>1. IsNext(C, from, next)
    BY <1>2, <1>4, <1>7, CronNextIsNext
  <2>2. QED
    BY <1>2, <1>3, <1>5, <1>6, <2>1, SearchFromWindow, Zenon
<1>9. NextAfter(q, after) = found
  BY <1>1, <1>3, <1>4, <1>5 DEF NextAfter, NextCron
<1>10. Unbounded(q) = C
  BY <1>1, <1>2 DEF Unbounded
<1>11. QED
  BY <1>8, <1>9, <1>10, SlotsInWindow

LEMMA NextIntervalIsNext ==
  ASSUME NEW q, Scheduled(q), q.spec.kind = "interval", NEW after \in -1..Last
  PROVE  IsNext(Slots(q), after, NextAfter(q, after))
<1>0. Last \in Nat /\ Sub \in Nat \ {0}
  BY TimeAssumption
<1>1. PICK every \in Nat \ {0} : every = q.spec.every
  BY EverysAssumption DEF Scheduled
<1>2. PICK A \in 0..Last : A = Anchor(q) /\ A = CadenceAnchor(q)
  <2>1. Anchor(q) \in 0..Last
    BY <1>0 DEF Scheduled, Anchor, Opt, Times, None
  <2>2. Anchor(q) = CadenceAnchor(q)
    BY DEF Scheduled
  <2>3. QED
    BY <2>1, <2>2
<1>3. q.start \in Opt /\ q.end \in Opt
  BY DEF Scheduled
<1>4. PICK from \in -1..Last : from = FromWindow(q, after)
  BY <1>0, <1>3 DEF FromWindow, Opt, Times, None
<1>5. PICK C : C = {t \in Times : t >= A /\ (t - A) % (every * Sub) = 0}
  OBVIOUS
<1>6. C \subseteq Times /\ C = Unbounded(q)
  <2>1. Unbounded(q) = {t \in Times :
            t >= CadenceAnchor(q) /\ (t - CadenceAnchor(q)) % (q.spec.every * Sub) = 0}
    BY Zenon DEF Unbounded
  <2>2. QED
    BY <1>1, <1>2, <1>5, <2>1, Zenon
<1>7. PICK k : k = (Elapsed(from, A) \div every) + 1
  OBVIOUS
<1>8. PICK step : step = ((A \div Sub) + k * every) * Sub + (A % Sub)
  OBVIOUS
<1>9. NextAfter(q, after) =
        IF from < A THEN bound(q, A) ELSE IF step > Last THEN None ELSE bound(q, step)
  <2>1. NextAfter(q, after) = NextInterval(q, after)
    BY DEF NextAfter
  <2>2. QED
    BY <1>1, <1>2, <1>4, <1>7, <1>8, <2>1, Zenon DEF NextInterval
<1>10. PICK next : next = IF from < A THEN A ELSE IF step > Last THEN None ELSE step
  OBVIOUS
<1>11. IsNext(C, from, next) /\ (from < A \/ step # None)
  <2>1. CASE from < A
    <3>1. PICK d \in Nat \ {0} : d = every * Sub
      BY <1>0
    <3>2. (A - A) % d = 0
      OBVIOUS
    <3>3. A \in C /\ \A t \in C : A <= t
      BY <1>5, <3>1, <3>2 DEF Times
    <3>4. next = A
      BY <1>10, <2>1
    <3>5. QED
      BY <2>1, <3>3, <3>4 DEF IsNext
  <2>2. CASE ~(from < A)
    <3>1. from \in Nat /\ A \in Nat /\ A <= from
      BY <1>0, <2>2
    <3>2. /\ step \in Nat /\ step > from /\ (step - A) % (every * Sub) = 0
          /\ \A t \in Nat : t > from /\ (t - A) % (every * Sub) = 0 => step <= t
      <4>1. step = ((A \div Sub) + ((Elapsed(from, A) \div every) + 1) * every) * Sub + (A % Sub)
        BY <1>7, <1>8, Zenon
      <4>2. QED
        BY <3>1, <4>1, CadenceNext
    <3>3. \A t \in C : t \in 0..Last /\ t \in Nat /\ (t > from => step <= t)
      BY <1>0, <1>5, <3>2 DEF Times
    <3>4. step # None
      BY <3>2 DEF None
    <3>5. CASE step > Last
      <4>1. next = None /\ \A t \in C : t <= from
        BY <1>0, <1>10, <2>2, <3>2, <3>3, <3>5
      <4>2. QED
        BY <3>4, <4>1 DEF IsNext
    <3>6. CASE ~(step > Last)
      <4>1. next = step /\ step \in Times /\ step >= A
        BY <1>0, <1>10, <2>2, <3>1, <3>2, <3>6 DEF Times
      <4>2. step \in C
        BY <1>5, <3>2, <4>1
      <4>3. QED
        BY <3>2, <3>3, <3>4, <4>1, <4>2 DEF IsNext
    <3>7. QED
      BY <3>5, <3>6
  <2>3. QED
    BY <2>1, <2>2
<1>12. PICK found : found = IF q.end # None /\ next > q.end THEN None ELSE next
  OBVIOUS
<1>13. /\ IsNext({t \in C : InWindow(q, t)}, after, found)
       /\ next \in C => InWindow(q, next) \/ (q.end # None /\ next > q.end)
  BY <1>3, <1>4, <1>6, <1>11, <1>12, SearchFromWindow, Zenon
<1>14. next \in C => bound(q, next) = found
  BY <1>0, <1>3, <1>6, <1>12, <1>13 DEF bound, InWindow, Opt, Times, None
<1>15. next = None => found = None
  BY <1>12 DEF None
<1>16. next \in C \/ next = None
  BY <1>11 DEF IsNext
<1>17. next # None => NextAfter(q, after) = bound(q, next)
  BY <1>9, <1>10
<1>18. next = None => NextAfter(q, after) = None
  <2>1. A # None
    BY DEF None
  <2>2. QED
    BY <1>9, <1>10, <1>11, <2>1
<1>19. NextAfter(q, after) = found
  <2>1. None \notin C
    BY <1>6 DEF Times, None
  <2>2. QED
    BY <1>14, <1>15, <1>16, <1>17, <1>18, <2>1
<1>20. QED
  BY <1>6, <1>13, <1>19, SlotsInWindow

LEMMA NextOnceIsNext ==
  ASSUME NEW q, Scheduled(q), q.spec.kind = "once", NEW after \in -1..Last
  PROVE  IsNext(Slots(q), after, NextAfter(q, after))
<1>0. Last \in Nat
  BY TimeAssumption
<1>1. PICK at \in 0..Last : at = q.spec.at
  BY DEF Scheduled, Times
<1>2. Unbounded(q) = {at}
  BY <1>1 DEF Unbounded, Times
<1>3. Slots(q) = {t \in {at} : InWindow(q, t)}
  BY <1>2, SlotsInWindow
<1>4. NextAfter(q, after) = IF after >= at THEN None ELSE bound(q, at)
  BY <1>1 DEF NextAfter, NextOnce
<1>5. bound(q, at) = IF InWindow(q, at) THEN at ELSE None
  BY <1>0 DEF bound, InWindow, Scheduled, Opt, Times, None
<1>6. CASE after >= at \/ ~InWindow(q, at)
  <2>1. NextAfter(q, after) = None
    BY <1>4, <1>5, <1>6
  <2>2. \A t \in Slots(q) : t <= after
    BY <1>3, <1>6
  <2>3. QED
    BY <2>1, <2>2 DEF IsNext
<1>7. CASE ~(after >= at) /\ InWindow(q, at)
  <2>1. NextAfter(q, after) = at
    BY <1>4, <1>5, <1>7
  <2>2. at \in Slots(q) /\ \A t \in Slots(q) : t = at
    BY <1>3, <1>7
  <2>3. QED
    BY <1>7, <2>1, <2>2 DEF IsNext
<1>8. QED
  BY <1>6, <1>7

\* Whatever the kind of a schedule, NextAfter skips no slot of it.
LEMMA NextAfterIsNext ==
  ASSUME NEW q, Scheduled(q), NEW after \in -1..Last
  PROVE  IsNext(Slots(q), after, NextAfter(q, after))
BY NextCronIsNext, NextIntervalIsNext, NextOnceIsNext DEF Scheduled

-----------------------------------------------------------------------------
(* The loops.                                                              *)

\* The inductive invariant: a loop over NextAfter is about a schedule, has
\* not started before its moment, and has returned what it had to.
LoopInv ==
    /\ ask.use \in {"preview", "stored", "retry"}
    /\ ask.use # "retry" =>
           /\ Scheduled(ask)
           /\ base \in -1..Last
           /\ ask.now <= base + 1

Inv == LoopInv /\ NoSlotSkipped

LEMMA AnchoredSpec ==
  ASSUME NEW spec \in Specs, NEW now \in Times, NEW s \in {spec, Anchored(spec, now)}
  PROVE  \/ s.kind = "interval" /\ s.every \in Everys /\ s.anchor \in Opt
         \/ s.kind = "cron" /\ s.slots \in Crons
         \/ s.kind = "once" /\ s.at \in Times
<1>1. CASE spec \in [kind: {"interval"}, every: Everys, anchor: Opt]
  <2>1. [spec EXCEPT !.anchor = now] \in [kind: {"interval"}, every: Everys, anchor: Opt]
    BY <1>1 DEF Opt
  <2>2. s \in [kind: {"interval"}, every: Everys, anchor: Opt]
    BY <1>1, <2>1 DEF Anchored
  <2>3. QED
    BY <2>2
<1>2. CASE spec \in [kind: {"cron"}, slots: Crons]
  BY <1>2 DEF Anchored
<1>3. CASE spec \in [kind: {"once"}, at: Times]
  BY <1>3 DEF Anchored
<1>4. QED
  BY <1>1, <1>2, <1>3 DEF Specs

\* The code's anchor is the documented one, or the moment of the request.
LEMMA AnchorMeant ==
  ASSUME NEW q, NEW spec \in Specs, NEW now \in Times,
         q.given = spec, q.now = now, q.spec.kind = "interval",
         \/ q.spec = spec
         \/ q.spec = Anchored(spec, now) /\ q.created = now
  PROVE  Anchor(q) = CadenceAnchor(q)
<1>1. spec \in [kind: {"interval"}, every: Everys, anchor: Opt]
  BY DEF Specs, Anchored
<1>2. CASE q.spec = spec
  BY <1>2, Zenon DEF Anchor, CadenceAnchor, DocumentedAnchor, AnchoredAtRequest
<1>3. CASE q.spec # spec
  <2>1. spec.anchor = None /\ q.spec = [spec EXCEPT !.anchor = now] /\ q.created = now
    BY <1>3 DEF Anchored
  <2>2. q.spec.anchor = now /\ now # None
    BY <1>1, <2>1 DEF Times, None
  <2>3. QED
    BY <2>1, <2>2 DEF Anchor, CadenceAnchor, DocumentedAnchor, AnchoredAtRequest
<1>4. QED
  BY <1>2, <1>3

LEMMA InitInv == Init => Inv
<1>0. Last \in Nat
  BY TimeAssumption
<1>1. ASSUME Init, Preview \/ Stored
      PROVE  Inv
  <2>1. ask.use \in {"preview", "stored"} /\ Scheduled(ask)
    <3>1. CASE Preview
      <4>1. PICK spec \in Specs, w \in Windows, now \in Times :
              ask = [use |-> "preview", given |-> spec, spec |-> Anchored(spec, now),
                     start |-> w[1], end |-> w[2], created |-> now, now |-> now]
        BY <3>1 DEF Preview
      <4>2. PICK s \in {spec, Anchored(spec, now)} : s = Anchored(spec, now)
        OBVIOUS
      <4>3. ask.spec = s /\ ask.use = "preview" /\ ask.start = w[1] /\ ask.end = w[2]
              /\ ask.created = now /\ ask.now = now
        BY <4>1, <4>2
      <4>4. w[1] \in Opt /\ w[2] \in Opt
        BY DEF Windows
      <4>5. \/ s.kind = "interval" /\ s.every \in Everys /\ s.anchor \in Opt
            \/ s.kind = "cron" /\ s.slots \in Crons
            \/ s.kind = "once" /\ s.at \in Times
        BY AnchoredSpec
      <4>6. s.kind = "interval" => Anchor(ask) = CadenceAnchor(ask)
        <5>1. ask.given = spec
          BY <4>1
        <5>2. QED
          BY <4>2, <4>3, <5>1, AnchorMeant
      <4>7. QED
        BY <4>3, <4>4, <4>5, <4>6 DEF Scheduled
    <3>2. CASE Stored
      <4>1. PICK spec \in Specs, w \in Windows, now \in Times : \E created \in {now, now \div 2} :
              ask = [use |-> "stored", given |-> spec,
                     spec |-> IF created = now THEN Anchored(spec, now) ELSE spec,
                     start |-> w[1], end |-> w[2], created |-> created, now |-> now]
        BY <3>2 DEF Stored
      <4>2. PICK created \in {now, now \div 2} :
              ask = [use |-> "stored", given |-> spec,
                     spec |-> IF created = now THEN Anchored(spec, now) ELSE spec,
                     start |-> w[1], end |-> w[2], created |-> created, now |-> now]
        BY <4>1
      <4>3. PICK s \in {spec, Anchored(spec, now)} :
              s = IF created = now THEN Anchored(spec, now) ELSE spec
        OBVIOUS
      <4>4. ask.spec = s /\ ask.use = "stored" /\ ask.start = w[1] /\ ask.end = w[2]
              /\ ask.created = created /\ ask.now = now
        BY <4>2, <4>3
      <4>5. w[1] \in Opt /\ w[2] \in Opt
        BY DEF Windows
      <4>6. \/ s.kind = "interval" /\ s.every \in Everys /\ s.anchor \in Opt
            \/ s.kind = "cron" /\ s.slots \in Crons
            \/ s.kind = "once" /\ s.at \in Times
        BY AnchoredSpec
      <4>7. created \in Times
        BY <1>0 DEF Times
      <4>8. s.kind = "interval" => Anchor(ask) = CadenceAnchor(ask)
        <5>1. ask.given = spec
          BY <4>2
        <5>2. s = spec \/ (s = Anchored(spec, now) /\ created = now)
          BY <4>3
        <5>3. QED
          BY <4>4, <5>1, <5>2, AnchorMeant
      <4>9. QED
        BY <4>4, <4>5, <4>6, <4>7, <4>8 DEF Scheduled
    <3>3. QED
      BY <1>1, <3>1, <3>2
  <2>2. PICK now \in 0..Last : now = ask.now
    BY <2>1 DEF Scheduled, Times
  <2>3. \/ base = now - 1
        \/ ask.start # None /\ ask.start > now /\ base = ask.start - 1
    <3>1. CASE Preview
      BY <2>1, <2>2, <3>1 DEF Preview, PreviewBase, Scheduled, Opt, Times, None
    <3>2. CASE Stored
      BY <2>2, <3>2 DEF Stored
    <3>3. QED
      BY <1>1, <3>1, <3>2
  <2>4. base \in -1..Last /\ now <= base + 1
    BY <1>0, <2>1, <2>3 DEF Scheduled, Opt, Times, None
  <2>5. \A t \in Slots(ask) : ~(now <= t /\ t <= base)
    <3>1. \A t \in Slots(ask) : t \in 0..Last /\ (ask.start # None => t >= ask.start)
      BY Zenon DEF Slots, Times
    <3>2. QED
      BY <1>0, <2>1, <2>3, <3>1 DEF Scheduled, Opt, Times, None
  <2>6. got = {} /\ ended = FALSE
    BY <1>1 DEF Init
  <2>7. QED
    BY <2>1, <2>2, <2>4, <2>5, <2>6 DEF Inv, LoopInv, NoSlotSkipped
<1>2. ASSUME Init, Retry
      PROVE  Inv
  BY <1>2 DEF Retry, Inv, LoopInv, NoSlotSkipped
<1>3. QED
  BY <1>1, <1>2 DEF Init

LEMMA SlotInv == Inv /\ Slot => Inv'
<1>. SUFFICES ASSUME Inv, Slot
              PROVE  Inv'
  OBVIOUS
<1>0. Last \in Nat
  BY TimeAssumption
<1>1. /\ ask.use \in {"preview", "stored"} /\ ~ended /\ Scheduled(ask)
      /\ base \in -1..Last /\ ask.now <= base + 1
      /\ got = {t \in Slots(ask) : ask.now <= t /\ t <= base}
  BY DEF Slot, Inv, LoopInv, NoSlotSkipped
<1>2. PICK q : q = ask
  OBVIOUS
<1>3. PICK after \in -1..Last : after = base
  BY <1>1
<1>4. PICK S : S = Slots(q)
  OBVIOUS
<1>5. PICK now \in 0..Last : now = q.now
  BY <1>1, <1>2 DEF Scheduled, Times
<1>6. PICK next : next = NextAfter(q, after)
  OBVIOUS
<1>7. IsNext(S, after, next)
  BY <1>1, <1>2, <1>4, <1>6, NextAfterIsNext
<1>8. /\ next # None /\ next > after /\ base' = next /\ got' = got \union {next}
      /\ ask' = q /\ ended' = ended
  BY <1>2, <1>3, <1>6 DEF Slot
<1>9. \A t \in S : t \in 0..Last
  BY <1>4, Zenon DEF Slots, Times
<1>10. next \in S /\ next \in 0..Last /\ \A t \in S : t > after => next <= t
  BY <1>7, <1>8, <1>9 DEF IsNext
<1>11. got' = {t \in S : now <= t /\ t <= next}
  <2>1. got = {t \in S : now <= t /\ t <= after}
    BY <1>1, <1>2, <1>3, <1>4, <1>5
  <2>2. now <= after + 1
    BY <1>1, <1>2, <1>3, <1>5
  <2>3. \A t \in S : (now <= t /\ t <= next) <=> ((now <= t /\ t <= after) \/ t = next)
    BY <1>0, <1>8, <1>9, <1>10, <2>2
  <2>4. QED
    BY <1>8, <1>10, <2>1, <2>3
<1>12. LoopInv'
  BY <1>0, <1>1, <1>2, <1>3, <1>5, <1>8, <1>10 DEF LoopInv
<1>13. NoSlotSkipped'
  <2>1. Slots(ask)' = S /\ ask'.now = now
    BY <1>4, <1>5, <1>8
  <2>2. QED
    BY <1>1, <1>8, <1>11, <2>1 DEF NoSlotSkipped
<1>14. QED
  BY <1>12, <1>13 DEF Inv

LEMMA NoSlotInv == Inv /\ NoSlot => Inv'
<1>. SUFFICES ASSUME Inv, NoSlot
              PROVE  Inv'
  OBVIOUS
<1>0. Last \in Nat
  BY TimeAssumption
<1>1. /\ ask.use \in {"preview", "stored"} /\ Scheduled(ask)
      /\ base \in -1..Last /\ ask.now <= base + 1
      /\ got = {t \in Slots(ask) : ask.now <= t /\ t <= base}
  BY DEF NoSlot, Inv, LoopInv, NoSlotSkipped
<1>2. UNCHANGED <<ask, base, got>>
  BY DEF NoSlot
<1>3. \/ ask.use = "preview" /\ Cardinality(got) = PreviewRuns
      \/ NextAfter(ask, base) = None \/ NextAfter(ask, base) <= base
  BY DEF NoSlot
<1>4. \/ ask.use = "preview" /\ Cardinality(got) = PreviewRuns
      \/ got = {t \in Slots(ask) : ask.now <= t}
  <2>1. IsNext(Slots(ask), base, NextAfter(ask, base))
    BY <1>1, NextAfterIsNext
  <2>2. \A t \in Slots(ask) : t \in 0..Last
    BY Zenon DEF Slots, Times
  <2>3. CASE NextAfter(ask, base) = None \/ NextAfter(ask, base) <= base
    <3>1. \A t \in Slots(ask) : t <= base
      BY <1>0, <1>1, <2>1, <2>2, <2>3 DEF IsNext, None
    <3>2. QED
      BY <1>1, <3>1
  <2>4. QED
    BY <1>3, <2>3
<1>5. LoopInv'
  BY <1>2, Zenon DEF Inv, LoopInv
<1>6. NoSlotSkipped'
  BY <1>1, <1>2, <1>4, Zenon DEF NoSlotSkipped
<1>7. QED
  BY <1>5, <1>6 DEF Inv

\* A loop over NextAfter returns the slots of its schedule from its moment
\* on, in order and without a gap, and ends only when none is left or a
\* preview is full: for every resolution of the clock, interval, anchor,
\* window, set of cron slots and last instant.
THEOREM NoSlotSkippedHolds == Spec => []NoSlotSkipped
<1>1. Init => Inv
  BY InitInv
<1>2. Inv /\ [Next]_vars => Inv'
  <2>1. CASE Inv /\ Slot
    BY <2>1, SlotInv
  <2>2. CASE Inv /\ NoSlot
    BY <2>2, NoSlotInv
  <2>3. ASSUME Inv, Fails
        PROVE  Inv'
    BY <2>3 DEF Fails, Inv, LoopInv, NoSlotSkipped
  <2>4. ASSUME Inv, UNCHANGED vars
        PROVE  Inv'
    BY <2>4, Zenon DEF vars, Inv, LoopInv, NoSlotSkipped
  <2>5. QED
    BY <2>1, <2>2, <2>3, <2>4 DEF Next
<1>3. Inv => NoSlotSkipped
  BY DEF Inv
<1>4. QED
  BY <1>1, <1>2, <1>3, PTL DEF Spec

-----------------------------------------------------------------------------
(* Powers of two: 2^n is the number of subsets of 1..n.                    *)

LEMMA PowerCounts ==
  ASSUME NEW n \in Nat
  PROVE  /\ 2^n = Cardinality(SUBSET (1..n))
         /\ IsFiniteSet(SUBSET (1..n))
         /\ 2^n \in Nat
<1>1. IsFiniteSet(1..n) /\ Cardinality(1..n) = n
  BY FS_Interval
<1>2. IsFiniteSet(SUBSET (1..n)) /\ Cardinality(SUBSET (1..n)) = 2^n
  BY <1>1, FS_SUBSET, Zenon
<1>3. QED
  BY <1>2, FS_CardinalityType, Zenon

\* A subset of 1..(n + 1) is one of 1..n and whether n + 1 belongs to it.
LEMMA PowerDoubles ==
  ASSUME NEW n \in Nat
  PROVE  2^(n + 1) = 2 * 2^n
<1>1. PICK S : S = SUBSET (1..n)
  OBVIOUS
<1>2. PICK T : T = SUBSET (1..(n + 1))
  OBVIOUS
<1>3. PICK last : last = n + 1
  OBVIOUS
<1>4. last \notin 1..n /\ 1..(n + 1) = (1..n) \union {last}
  BY <1>3
<1>5. PICK split : split = [X \in T |-> <<X \ {last}, IF last \in X THEN 1 ELSE 0>>]
  OBVIOUS
<1>6. split \in [T -> S \X (0..1)]
  <2>1. \A X \in T : X \ {last} \in S
    BY <1>1, <1>2, <1>4
  <2>2. QED
    BY <1>5, <2>1
<1>7. ASSUME NEW X \in T, NEW Y \in T, split[X] = split[Y]
      PROVE  X = Y
  <2>1. X \ {last} = Y \ {last} /\ (last \in X <=> last \in Y)
    BY <1>5, <1>7
  <2>2. QED
    BY <2>1
<1>8. ASSUME NEW Z \in S, NEW b \in 0..1
      PROVE  \E X \in T : split[X] = <<Z, b>>
  <2>1. PICK X : X = IF b = 1 THEN Z \union {last} ELSE Z
    OBVIOUS
  <2>2. last \notin Z
    BY <1>1, <1>4
  <2>3. X \in T /\ X \ {last} = Z /\ (last \in X <=> b = 1)
    BY <1>1, <1>2, <1>4, <2>1, <2>2
  <2>4. split[X] = <<Z, b>>
    <3>1. split[X] = <<X \ {last}, IF last \in X THEN 1 ELSE 0>>
      BY <1>5, <2>3
    <3>2. b = IF last \in X THEN 1 ELSE 0
      BY <2>3
    <3>3. QED
      BY <2>3, <3>1, <3>2, Zenon
  <2>5. QED
    BY <2>3, <2>4
<1>9. ExistsBijection(T, S \X (0..1))
  <2>1. split \in Injection(T, S \X (0..1))
    BY <1>6, <1>7, Zenon DEF Injection, IsInjective
  <2>2. split \in Surjection(T, S \X (0..1))
    <3>1. \A p \in S \X (0..1) : \E X \in T : split[X] = p
      BY <1>8
    <3>2. QED
      BY <1>6, <3>1, Zenon DEF Surjection
  <2>3. QED
    BY <2>1, <2>2, Zenon DEF ExistsBijection, Bijection
<1>10. /\ Cardinality(S) = 2^n /\ IsFiniteSet(S) /\ 2^n \in Nat
       /\ Cardinality(T) = 2^(n + 1) /\ IsFiniteSet(T)
  <2>1. n + 1 \in Nat
    OBVIOUS
  <2>2. QED
    BY <1>1, <1>2, <2>1, PowerCounts, Zenon
<1>11. IsFiniteSet(0..1) /\ Cardinality(0..1) = 2
  <2>1. 0 \in Int /\ 1 \in Int
    OBVIOUS
  <2>2. IsFiniteSet(0..1) /\ Cardinality(0..1) = IF 0 > 1 THEN 0 ELSE 1 - 0 + 1
    BY <2>1, FS_Interval, Zenon
  <2>3. QED
    BY <2>2
<1>12. Cardinality(S \X (0..1)) = 2^n * 2
  <2>1. Cardinality(S \X (0..1)) = Cardinality(S) * Cardinality(0..1)
    BY <1>10, <1>11, FS_Product, Zenon
  <2>2. Cardinality(S) = 2^n /\ Cardinality(0..1) = 2
    BY <1>10, <1>11
  <2>3. QED
    BY <2>1, <2>2, Zenon
<1>13. Cardinality(S \X (0..1)) = Cardinality(T)
  BY <1>9, <1>10, FS_Bijection, Zenon
<1>14. \A x \in Nat : x * 2 = 2 * x
  OBVIOUS
<1>15. QED
  BY <1>10, <1>12, <1>13, <1>14, Zenon

-----------------------------------------------------------------------------
(* backoffFor doubles.                                                     *)

\* The n-th delay, without the recursion.
Delay(p, n) == IF p.initial * 2^(n - 1) <= p.max THEN p.initial * 2^(n - 1) ELSE p.max

\* One turn of the loop doubles a capped delay and caps it again.
LEMMA DoublesCapped ==
  ASSUME NEW p, p.max \in Nat, NEW a \in Nat \ {0}
  PROVE  Doubled(p, IF a <= p.max THEN a ELSE p.max) = IF 2 * a <= p.max THEN 2 * a ELSE p.max
<1>1. PICK m \in Nat : m = p.max
  OBVIOUS
<1>2. PICK x \in Nat : x = IF a <= m THEN a ELSE m
  OBVIOUS
<1>3. Doubled(p, x) = IF x > m \div 2 \/ 2 * x >= m THEN m ELSE 2 * x
  BY <1>1, Zenon DEF Doubled
<1>4. PICK h \in Int, r \in 0..1 : h = m \div 2 /\ m = h * 2 + r
  <2>1. m \in Int /\ 2 \in Nat \ {0} /\ 2 - 1 = 1
    OBVIOUS
  <2>2. \E q \in Int : \E r \in 0..(2 - 1) : q = m \div 2 /\ r = m % 2 /\ m = q * 2 + r
    BY <2>1, DivMod, Zenon
  <2>3. QED
    BY <2>1, <2>2, Zenon
<1>5. (IF x > h \/ 2 * x >= m THEN m ELSE 2 * x) = IF 2 * a <= m THEN 2 * a ELSE m
  <2>1. m = h * 2 + r
    BY <1>4
  <2>2. CASE a <= m
    BY <1>2, <2>1, <2>2
  <2>3. CASE ~(a <= m)
    BY <1>2, <2>1, <2>3
  <2>4. QED
    BY <2>2, <2>3
<1>6. Doubled(p, x) = IF 2 * a <= m THEN 2 * a ELSE m
  BY <1>3, <1>4, <1>5, Zenon
<1>7. QED
  BY <1>1, <1>2, <1>6, Zenon

LEMMA DelayFirst ==
  ASSUME NEW p \in Policies
  PROVE  Delay(p, 1) = p.initial
<1>1. PICK a \in Nat, m \in Nat : a = p.initial /\ m = p.max /\ a <= m
  BY DelaysAssumption DEF Policies
<1>2. 2^(1 - 1) = 1 /\ a * 1 = a
  OBVIOUS
<1>3. QED
  BY <1>1, <1>2, Zenon DEF Delay

LEMMA DelayNext ==
  ASSUME NEW p \in Policies, NEW i \in Nat \ {0}
  PROVE  Doubled(p, Delay(p, i)) = Delay(p, i + 1)
<1>1. PICK b \in Nat \ {0}, m \in Nat : b = p.initial /\ m = p.max
  BY DelaysAssumption DEF Policies
<1>2. PICK n \in Nat : n = i - 1
  OBVIOUS
<1>3. PICK x \in Nat : x = 2^n
  BY PowerCounts
<1>4. x # 0
  <2>1. {} \in SUBSET (1..n)
    OBVIOUS
  <2>2. IsFiniteSet(SUBSET (1..n)) /\ x = Cardinality(SUBSET (1..n))
    BY <1>3, PowerCounts
  <2>3. QED
    BY <2>1, <2>2, FS_EmptySet
<1>5. 2^(n + 1) = 2 * x
  BY <1>3, PowerDoubles
<1>6. PICK a \in Nat \ {0} : a = b * x
  BY <1>4
<1>7. i - 1 = n /\ (i + 1) - 1 = n + 1 /\ b * (2 * x) = 2 * a
  BY <1>2, <1>6
<1>8. Delay(p, i) = IF a <= p.max THEN a ELSE p.max
  BY <1>1, <1>3, <1>6, <1>7, Zenon DEF Delay
<1>9. Delay(p, i + 1) = IF 2 * a <= p.max THEN 2 * a ELSE p.max
  <2>1. 2^((i + 1) - 1) = 2 * x
    BY <1>5, <1>7, Zenon
  <2>2. p.initial * 2^((i + 1) - 1) = 2 * a
    BY <1>1, <1>7, <2>1, Zenon
  <2>3. QED
    BY <2>2, Zenon DEF Delay
<1>10. p.max \in Nat
  BY <1>1
<1>11. Doubled(p, Delay(p, i)) = IF 2 * a <= p.max THEN 2 * a ELSE p.max
  BY <1>8, <1>10, DoublesCapped, Zenon
<1>12. QED
  BY <1>9, <1>11, Zenon

\* The recursion has Delay as its only solution: the least attempt with
\* another delay would follow one that agrees.
LEMMA BackoffDoubles ==
  ASSUME NEW p \in Policies, NEW n \in Nat \ {0}
  PROVE  backoffFor(p, n) = Delay(p, n)
<1>1. PICK g : g = [i \in 1..n |-> Delay(p, i)]
  OBVIOUS
<1>2. g = [i \in 1..n |-> IF i = 1 THEN p.initial ELSE Doubled(p, g[i - 1])]
  <2>1. ASSUME NEW i \in 1..n
        PROVE  Delay(p, i) = IF i = 1 THEN p.initial ELSE Doubled(p, g[i - 1])
    <3>1. CASE i = 1
      BY <3>1, DelayFirst
    <3>2. CASE i # 1
      <4>1. PICK j \in 1..n : j = i - 1
        BY <3>2
      <4>2. j \in Nat \ {0} /\ i = j + 1
        BY <4>1
      <4>3. g[j] = Delay(p, j)
        BY <1>1
      <4>4. QED
        BY <3>2, <4>1, <4>2, <4>3, DelayNext
    <3>3. QED
      BY <3>1, <3>2
  <2>2. QED
    BY <1>1, <2>1
<1>3. PICK d : d = CHOOSE f : f = [i \in 1..n |-> IF i = 1 THEN p.initial ELSE Doubled(p, f[i - 1])]
  OBVIOUS
<1>4. d = [i \in 1..n |-> IF i = 1 THEN p.initial ELSE Doubled(p, d[i - 1])]
  BY <1>2, <1>3, Zenon
<1>5. \A i \in 1..n : d[i] = g[i]
  <2>1. PICK S : S = {i \in 1..n : d[i] # g[i]}
    OBVIOUS
  <2>2. SUFFICES ASSUME S # {}
                 PROVE  FALSE
    BY <2>1
  <2>3. S \subseteq Nat
    BY <2>1
  <2>4. PICK m \in S : \A y \in S : m <= y
    BY <2>2, <2>3, MinIsLeast
  <2>5. m \in 1..n /\ d[m] # g[m]
    BY <2>1
  <2>6. m # 1
    BY <1>2, <1>4, <2>5
  <2>7. m - 1 \in 1..n /\ m - 1 \notin S
    BY <2>1, <2>4, <2>5, <2>6
  <2>8. d[m - 1] = g[m - 1]
    BY <2>1, <2>7
  <2>9. d[m] = Doubled(p, d[m - 1])
    BY <1>4, <2>5, <2>6
  <2>10. g[m] = Doubled(p, g[m - 1])
    BY <1>2, <2>5, <2>6
  <2>11. QED
    BY <2>5, <2>8, <2>9, <2>10
<1>6. backoffFor(p, n) = d[n]
  BY <1>3, Zenon DEF backoffFor
<1>7. QED
  BY <1>1, <1>5, <1>6

LEMMA DelayIsMin ==
  ASSUME NEW p \in Policies, NEW n \in Nat \ {0}
  PROVE  Delay(p, n) = Min({p.initial * 2^(n - 1), p.max})
<1>1. PICK b \in Nat \ {0}, m \in Nat : b = p.initial /\ m = p.max
  BY DelaysAssumption DEF Policies
<1>2. PICK j \in Nat : j = n - 1
  OBVIOUS
<1>3. PICK x \in Nat : x = 2^j
  BY PowerCounts
<1>4. PICK a \in Nat : a = b * x
  OBVIOUS
<1>5. a = p.initial * 2^(n - 1)
  BY <1>1, <1>2, <1>3, <1>4, Zenon
<1>6. Delay(p, n) = IF a <= m THEN a ELSE m
  BY <1>1, <1>5, Zenon DEF Delay
<1>7. Min({a, m}) = IF a <= m THEN a ELSE m
  <2>1. {a, m} \subseteq Nat /\ {a, m} # {}
    OBVIOUS
  <2>2. Min({a, m}) \in {a, m} /\ \A y \in {a, m} : Min({a, m}) <= y
    BY <2>1, MinIsLeast, Zenon
  <2>3. PICK l \in {a, m} : l = Min({a, m})
    BY <2>2
  <2>4. l <= a /\ l <= m
    BY <2>2, <2>3, Zenon
  <2>5. l = IF a <= m THEN a ELSE m
    BY <2>4
  <2>6. QED
    BY <2>3, <2>5
<1>8. QED
  BY <1>1, <1>5, <1>6, <1>7, Zenon

\* The inductive invariant of the retries.
RetryInv ==
    ask.use = "retry" =>
        /\ ask.policy \in Policies
        /\ base \in Nat
        /\ \A r \in got : \E n \in Nat \ {0} : r = <<n, Delay(ask.policy, n)>>

LEMMA FailsInv == RetryInv /\ Fails => RetryInv'
<1>. SUFFICES ASSUME RetryInv, Fails
              PROVE  RetryInv'
  OBVIOUS
<1>1. ask.policy \in Policies /\ base \in Nat
  BY DEF RetryInv, Fails
<1>2. PICK p \in Policies : p = ask.policy
  BY <1>1
<1>3. PICK n \in Nat \ {0} : n = base + 1
  BY <1>1
<1>4. ask' = ask /\ base' = n /\ got' = got \union {<<n, Delay(p, n)>>}
  <2>1. backoffFor(p, n) = Delay(p, n)
    BY BackoffDoubles
  <2>2. QED
    BY <1>2, <1>3, <2>1 DEF Fails
<1>5. \A r \in got : \E k \in Nat \ {0} : r = <<k, Delay(p, k)>>
  BY <1>2 DEF RetryInv, Fails
<1>6. \A r \in got' : \E k \in Nat \ {0} : r = <<k, Delay(p, k)>>
  BY <1>4, <1>5
<1>7. QED
  BY <1>2, <1>4, <1>6 DEF RetryInv

\* The n-th attempt of a run waits for the initial delay doubled n - 1 times,
\* at most the maximum, for every policy and number of attempts: the test
\* against half the maximum, which keeps the code from overflowing, never
\* caps a delay early.
THEOREM DelaysDoubleHolds == Spec => []DelaysDouble
<1>1. Init => RetryInv
  BY DEF Init, Preview, Stored, Retry, RetryInv
<1>2. RetryInv /\ [Next]_vars => RetryInv'
  <2>1. ASSUME RetryInv, Slot \/ NoSlot
        PROVE  RetryInv'
    BY <2>1 DEF Slot, NoSlot, RetryInv
  <2>2. CASE RetryInv /\ Fails
    BY <2>2, FailsInv
  <2>3. ASSUME RetryInv, UNCHANGED vars
        PROVE  RetryInv'
    BY <2>3, Zenon DEF vars, RetryInv
  <2>4. QED
    BY <2>1, <2>2, <2>3 DEF Next
<1>3. RetryInv => DelaysDouble
  <2>. SUFFICES ASSUME RetryInv, ask.use = "retry", NEW r \in got
                PROVE  r[2] = Min({ask.policy.initial * 2^(r[1] - 1), ask.policy.max})
    BY DEF DelaysDouble
  <2>1. PICK p \in Policies : p = ask.policy
    BY DEF RetryInv
  <2>2. PICK n \in Nat \ {0} : r = <<n, Delay(p, n)>>
    BY <2>1 DEF RetryInv
  <2>3. Delay(p, n) = Min({p.initial * 2^(n - 1), p.max})
    BY DelayIsMin
  <2>4. r[1] = n /\ r[2] = Delay(p, n)
    BY <2>2
  <2>5. QED
    BY <2>1, <2>3, <2>4, Zenon
<1>4. QED
  BY <1>1, <1>2, <1>3, PTL DEF Spec

=============================================================================
