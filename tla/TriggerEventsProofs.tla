------------------------ MODULE TriggerEventsProofs ------------------------
(***************************************************************************)
(* Proofs about TriggerEvents: for any deliveries, events, payloads and    *)
(* pool, an event runs at most once, no recorded event is without its run, *)
(* and what senders are told is true.                                      *)
(***************************************************************************)
EXTENDS TriggerEvents, TLAPS

-----------------------------------------------------------------------------
(***************************************************************************)
(* The inductive invariant.                                                *)
(***************************************************************************)

\* An uncommitted row of trigger_events belongs to a transaction that is about
\* to decide on it.
HolderDecides ==
    \A e \in Events : holder[e] # Nobody =>
        Event(holder[e]) = e /\ req[holder[e]].pc = "new"

\* Such a transaction holds the row alone, of an event that is not recorded,
\* and keeps the schedule from being deleted.
NewHolds ==
    \A d \in Deliveries : req[d].pc = "new" =>
        /\ holder[Event(d)] = d
        /\ events[Event(d)] = NoEvent
        /\ schedule # "deleted"

\* Until the schedule is deleted the record of a run's event names the run,
\* also when the run has been pruned.
RunsRecorded ==
    schedule # "deleted" =>
        \A d \in Deliveries : runs[d] # "none" =>
            events[Event(d)] # NoEvent /\ events[Event(d)].run = d

\* A run of the event and payload of d.
RunFor(c, d) ==
    /\ c \in Deliveries
    /\ runs[c] # "none"
    /\ Event(c) = Event(d)
    /\ DataOf[c] = DataOf[d]

\* What one sender was told.
Told(d) ==
    /\ req[d].answer \in {"created", "duplicate", "gone"} => RunFor(req[d].run, d)
    /\ req[d].answer = "created" => req[d].run = d
    /\ req[d].answer = "gone" => runs[req[d].run] \in {"pruned", "deleted"}
    /\ req[d].answer = "conflict" =>
        \E c \in Deliveries : runs[c] # "none" /\ Event(c) = Event(d) /\ DataOf[c] # DataOf[d]

\* A request has read and been told the truth, and nothing before its end.
Honest(d) ==
    /\ req[d].pc = "get" => RunFor(req[d].run, d)
    /\ req[d].pc # "answered" => req[d].answer = "none"
    /\ Told(d)

Safe == OneRunPerEvent /\ EventHasRun /\ RunsRecorded
Inv == TypeOK /\ HolderDecides /\ NewHolds /\ Safe /\ \A d \in Deliveries : Honest(d)

-----------------------------------------------------------------------------

\* Deliveries carry an event and a payload of their types.
LEMMA EventTypes ==
    /\ \A d \in Deliveries : Event(d) \in Events /\ DataOf[d] \in Data
    /\ Nobody \notin Deliveries
BY DeliveryAssumption, NobodyAssumption DEF Event

\* The updates of a request keep its type.
LEMMA RequestTypes ==
    ASSUME TypeOK, NEW d \in Deliveries
    PROVE  /\ \A a \in Answers : Answer(d, a) => req' \in [Deliveries -> Requests]
           /\ \A pc \in InTx : Step(d, pc) => req' \in [Deliveries -> Requests]
<1>1. req \in [Deliveries -> Requests]
  BY DEF TypeOK
<1>2. ASSUME NEW a \in Answers
      PROVE  [req[d] EXCEPT !.pc = "answered", !.answer = a] \in Requests
  BY <1>1 DEF Requests, Done
<1>3. ASSUME NEW pc \in InTx
      PROVE  [req[d] EXCEPT !.pc = pc] \in Requests
  BY <1>1 DEF Requests
<1>. QED
  BY <1>1, <1>2, <1>3 DEF Answer, Step

\* The daemon starts in the invariant.
LEMMA InitInv == Init => Inv
<1>. SUFFICES ASSUME Init PROVE Inv
  OBVIOUS
<1>1. TypeOK
  BY DEF Init, TypeOK, Idle, Requests, Answers
<1>2. HolderDecides /\ NewHolds /\ Safe
  BY EventTypes DEF Init, HolderDecides, NewHolds, Safe, OneRunPerEvent, EventHasRun,
     RunsRecorded, Idle
<1>3. \A d \in Deliveries : Honest(d)
  BY DEF Init, Honest, Told, Idle
<1>. QED
  BY <1>1, <1>2, <1>3 DEF Inv

\* Every step keeps the types.
LEMMA TypeStep == TypeOK /\ [Next]_vars => TypeOK'
<1>. SUFFICES ASSUME TypeOK, [Next]_vars PROVE TypeOK'
  OBVIOUS
<1>. USE EventTypes
<1>1. ASSUME NEW d \in Deliveries, Begin(d) PROVE TypeOK'
  <2>1. CASE schedule = "deleted"
    <3>1. Answer(d, "not_found") /\ "not_found" \in Answers
      BY <1>1, <2>1 DEF Begin, Answers
    <3>. QED
      BY <1>1, <3>1, RequestTypes DEF Begin, TypeOK
  <2>2. CASE schedule # "deleted"
    <3>1. PICK b \in BOOLEAN : b = (schedule = "enabled")
      OBVIOUS
    <3>2. [req[d] EXCEPT !.pc = "insert", !.enabled = b] \in Requests
      BY <3>1 DEF TypeOK, Requests, InTx
    <3>3. req' = [req EXCEPT ![d] = [req[d] EXCEPT !.pc = "insert", !.enabled = b]]
      BY <1>1, <2>2, <3>1 DEF Begin, TypeOK
    <3>. QED
      BY <1>1, <3>2, <3>3 DEF Begin, TypeOK
  <2>. QED
    BY <2>1, <2>2
<1>2. ASSUME NEW d \in Deliveries, Insert(d) PROVE TypeOK'
  <2>1. "error" \in Answers /\ "prior" \in InTx /\ "new" \in InTx
    BY DEF Answers, InTx
  <2>2. req' \in [Deliveries -> Requests]
    BY <1>2, <2>1, RequestTypes DEF Insert
  <2>. QED
    BY <1>2, <2>2 DEF Insert, TypeOK
<1>3. ASSUME NEW d \in Deliveries, Prior(d) PROVE TypeOK'
  <2>1. "error" \in Answers /\ "conflict" \in Answers
    BY DEF Answers
  <2>2. ASSUME Known(d)
        PROVE  [req[d] EXCEPT !.pc = "get", !.run = events[Event(d)].run] \in Requests
    <3>1. events[Event(d)].run \in Deliveries
      BY <2>2 DEF Known, TypeOK
    <3>. QED
      BY <3>1 DEF TypeOK, Requests
  <2>3. req' \in [Deliveries -> Requests]
    BY <1>3, <2>1, <2>2, RequestTypes DEF Prior, TypeOK
  <2>. QED
    BY <1>3, <2>3 DEF Prior, TypeOK
<1>4. ASSUME NEW d \in Deliveries, GetRun(d) PROVE TypeOK'
  <2>1. "duplicate" \in Answers /\ "gone" \in Answers
    BY DEF Answers
  <2>2. PICK a \in Answers : Answer(d, a)
    BY <1>4, <2>1, Zenon DEF GetRun
  <2>3. req' \in [Deliveries -> Requests]
    BY <2>2, RequestTypes
  <2>. QED
    BY <1>4, <2>3 DEF GetRun, TypeOK
<1>5. ASSUME NEW d \in Deliveries, New(d) PROVE TypeOK'
  <2>1. "paused" \in Answers /\ "error" \in Answers /\ "created" \in Answers
    BY DEF Answers
  <2>2. [req[d] EXCEPT !.pc = "answered", !.answer = "created", !.run = d] \in Requests
    BY <2>1 DEF TypeOK, Requests, Done
  <2>3. req' \in [Deliveries -> Requests]
    BY <1>5, <2>1, <2>2, RequestTypes DEF New, TypeOK
  <2>4. events' \in [Events -> [run : Deliveries, data : Data] \union {NoEvent}]
    BY <1>5 DEF New, TypeOK
  <2>5. holder' \in [Events -> Deliveries \union {Nobody}]
    BY <1>5 DEF New, Release, TypeOK
  <2>. QED
    BY <1>5, <2>3, <2>4, <2>5 DEF New, TypeOK
<1>6. ASSUME NEW d \in Deliveries, Abort(d) PROVE TypeOK'
  <2>1. req' \in [Deliveries -> Requests]
    BY <1>6, RequestTypes DEF Abort, Answers
  <2>2. holder' \in [Events -> Deliveries \union {Nobody}]
    BY <1>6 DEF Abort, Release, TypeOK
  <2>. QED
    BY <1>6, <2>1, <2>2 DEF Abort, TypeOK
<1>7. ASSUME NEW d \in Deliveries, EndRun(d) PROVE TypeOK'
  BY <1>7 DEF EndRun, TypeOK
<1>8. ASSUME NEW S, Prune(S) PROVE TypeOK'
  BY <1>8 DEF Prune, TypeOK
<1>9. CASE Crash
  BY <1>9 DEF Crash, TypeOK, Requests, Done
<1>10. CASE Pause \/ Resume
  BY <1>10 DEF Pause, Resume, TypeOK
<1>11. CASE Delete
  BY <1>11 DEF Delete, TypeOK
<1>12. CASE UNCHANGED vars
  BY <1>12 DEF vars, TypeOK
<1>. QED
  BY <1>1, <1>2, <1>3, <1>4, <1>5, <1>6, <1>7, <1>8, <1>9, <1>10, <1>11, <1>12 DEF Next, Request

\* What the updates of a request change, and that the others are left alone.
LEMMA RequestEffects ==
    ASSUME TypeOK, NEW d \in Deliveries
    PROVE  /\ \A a : Answer(d, a) =>
                /\ req'[d].pc = "answered" /\ req'[d].answer = a /\ req'[d].run = req[d].run
                /\ \A c \in Deliveries \ {d} : req'[c] = req[c]
           /\ \A pc : Step(d, pc) =>
                /\ req'[d].pc = pc
                /\ req'[d].answer = req[d].answer /\ req'[d].run = req[d].run
                /\ \A c \in Deliveries \ {d} : req'[c] = req[c]
BY DEF TypeOK, Requests, Answer, Step

\* The first step of a request answers it, or goes on to the insert.
LEMMA BeginEffects ==
    ASSUME TypeOK, NEW d \in Deliveries, Begin(d)
    PROVE  /\ req'[d].pc = "insert" \/ (req'[d].pc = "answered" /\ req'[d].answer = "not_found")
           /\ req'[d].pc = "insert" => req'[d].answer = req[d].answer
           /\ req'[d].run = req[d].run
           /\ \A c \in Deliveries \ {d} : req'[c] = req[c]
<1>1. CASE schedule = "deleted"
  BY <1>1, RequestEffects DEF Begin
<1>2. CASE schedule # "deleted"
  <2>1. PICK b : req' = [req EXCEPT ![d].pc = "insert", ![d].enabled = b]
    BY <1>2, Zenon DEF Begin
  <2>. QED
    BY <2>1 DEF TypeOK, Requests
<1>. QED
  BY <1>1, <1>2

\* So does the lookup of an event that is known.
LEMMA PriorEffects ==
    ASSUME TypeOK, NEW d \in Deliveries, Prior(d)
    PROVE  /\ \/ req'[d].pc = "answered" /\ req'[d].answer = "error"
              \/ req'[d].pc = "answered" /\ req'[d].answer = "conflict" /\ Known(d) /\ ~SameData(d)
              \/ /\ req'[d].pc = "get" /\ req'[d].answer = req[d].answer
                 /\ req'[d].run = events[Event(d)].run /\ Known(d) /\ SameData(d)
           /\ \A c \in Deliveries \ {d} : req'[c] = req[c]
<1>1. CASE ~Known(d) /\ Answer(d, "error")
  BY <1>1, RequestEffects
<1>2. CASE Known(d) /\ ~SameData(d) /\ Answer(d, "conflict")
  BY <1>2, RequestEffects
<1>3. CASE Known(d) /\ SameData(d)
           /\ req' = [req EXCEPT ![d].pc = "get", ![d].run = events[Event(d)].run]
  BY <1>3 DEF TypeOK, Requests
<1>. QED
  BY <1>1, <1>2, <1>3 DEF Prior

\* The first delivery is answered; only a committed one is told so.
LEMMA NewEffects ==
    ASSUME TypeOK, NEW d \in Deliveries, New(d)
    PROVE  /\ req'[d].pc = "answered"
           /\ \/ req'[d].answer \in {"paused", "error"}
              \/ req'[d].answer = "created" /\ req'[d].run = d /\ runs'[d] = "pending"
           /\ \A c \in Deliveries \ {d} : req'[c] = req[c]
<1>1. CASE req[d].enabled
           /\ req' = [req EXCEPT ![d].pc = "answered", ![d].answer = "created", ![d].run = d]
  BY <1>1 DEF New, TypeOK, Requests
<1>2. CASE Answer(d, "paused") \/ Answer(d, "error")
  BY <1>2, RequestEffects
<1>. QED
  BY <1>1, <1>2 DEF New

\* Locked rows stay with the transactions that decide on them.
LEMMA HoldersStep == Inv /\ [Next]_vars => HolderDecides' /\ NewHolds'
<1>. SUFFICES ASSUME Inv, [Next]_vars PROVE HolderDecides' /\ NewHolds'
  OBVIOUS
<1>. USE EventTypes
<1>0. TypeOK /\ HolderDecides /\ NewHolds
  BY DEF Inv
<1>1. ASSUME NEW d \in Deliveries, Begin(d) \/ Prior(d) \/ GetRun(d)
      PROVE  HolderDecides' /\ NewHolds'
  <2>1. /\ UNCHANGED <<schedule, events, holder>>
        /\ req[d].pc # "new" /\ req'[d].pc # "new"
        /\ \A c \in Deliveries \ {d} : req'[c] = req[c]
    BY <1>0, <1>1, BeginEffects, PriorEffects, RequestEffects DEF Begin, Prior, GetRun
  <2>. QED
    BY <1>0, <2>1 DEF HolderDecides, NewHolds, Event, TypeOK
<1>2. ASSUME NEW d \in Deliveries, Insert(d) PROVE HolderDecides' /\ NewHolds'
  <2>1. CASE UNCHANGED holder /\ req'[d].pc # "new"
    BY <1>0, <1>2, <2>1 DEF Insert, Answer, Step, HolderDecides, NewHolds, Event, TypeOK
  <2>2. CASE /\ schedule # "deleted" /\ ~Known(d)
             /\ holder' = [holder EXCEPT ![Event(d)] = d]
             /\ Step(d, "new")
    <3>1. /\ holder'[Event(d)] = d /\ req'[d].pc = "new"
          /\ \A e \in Events \ {Event(d)} : holder'[e] = holder[e]
          /\ \A c \in Deliveries \ {d} : req'[c] = req[c]
          /\ holder[Event(d)] = Nobody
          /\ UNCHANGED <<schedule, events>>
      BY <1>0, <1>2, <2>2 DEF Insert, Step, TypeOK
    <3>2. \A c \in Deliveries \ {d} : req[c].pc = "new" => Event(c) # Event(d)
      BY <1>0, <3>1 DEF NewHolds
    <3>3. HolderDecides'
      BY <1>0, <1>2, <3>1 DEF HolderDecides, Insert, Event, TypeOK
    <3>4. NewHolds'
      BY <1>0, <2>2, <3>1, <3>2 DEF NewHolds, Known, Event
    <3>. QED
      BY <3>3, <3>4
  <2>. QED
    BY <1>0, <1>2, <2>1, <2>2, RequestEffects DEF Insert
<1>3. ASSUME NEW d \in Deliveries, New(d) \/ Abort(d) PROVE HolderDecides' /\ NewHolds'
  <2>1. /\ Release(d) /\ req'[d].pc # "new" /\ schedule' = schedule
        /\ \A c \in Deliveries \ {d} : req'[c] = req[c]
    BY <1>0, <1>3, NewEffects, RequestEffects DEF New, Abort
  <2>2. \A e \in Events : holder'[e] = IF holder[e] = d THEN Nobody ELSE holder[e]
    BY <2>1 DEF Release
  <2>3. HolderDecides'
    BY <1>0, <2>1, <2>2 DEF HolderDecides, Event, TypeOK
  <2>4. ASSUME NEW c \in Deliveries \ {d}, req[c].pc = "new"
        PROVE  Event(c) # Event(d) \/ req[d].pc # "new"
    BY <1>0, <2>4 DEF NewHolds
  <2>5. ASSUME NEW c \in Deliveries \ {d}, req[c].pc = "new"
        PROVE  events'[Event(c)] = events[Event(c)]
    BY <1>0, <1>3, <2>4, <2>5 DEF New, Abort, TypeOK
  <2>6. NewHolds'
    BY <1>0, <2>1, <2>2, <2>5 DEF NewHolds, Event
  <2>. QED
    BY <2>3, <2>6
<1>4. CASE Crash
  BY <1>0, <1>4 DEF Crash, HolderDecides, NewHolds, InTx, Event, TypeOK
<1>5. ASSUME UNCHANGED <<events, holder, req>>, schedule' # "deleted"
      PROVE  HolderDecides' /\ NewHolds'
  BY <1>0, <1>5 DEF HolderDecides, NewHolds, Event
<1>6. CASE Delete
  BY <1>0, <1>6 DEF Delete, HolderDecides, NewHolds, Event, TypeOK
<1>7. CASE UNCHANGED <<schedule, events, holder, req>>
  BY <1>0, <1>7 DEF HolderDecides, NewHolds, Event
<1>8. ASSUME Pause \/ Resume \/ (\E d \in Deliveries : EndRun(d)) \/ (\E S : Prune(S)) \/ UNCHANGED vars
      PROVE  HolderDecides' /\ NewHolds'
  BY <1>5, <1>7, <1>8 DEF Pause, Resume, EndRun, Prune, vars
<1>. QED
  BY <1>1, <1>2, <1>3, <1>4, <1>6, <1>8 DEF Next, Request

\* A run, once created, stays on record in some state.
LEMMA RunsStay ==
    ASSUME Inv, [Next]_vars, NEW c \in Deliveries, runs[c] # "none"
    PROVE  /\ runs'[c] # "none"
           /\ runs[c] \in {"pruned", "deleted"} => runs'[c] \in {"pruned", "deleted"}
<1>0. TypeOK
  BY DEF Inv
<1>1. ASSUME NEW d \in Deliveries, New(d)
      PROVE  runs'[c] = runs[c]
  <2>1. CASE ~req[d].enabled
    BY <1>1, <2>1 DEF New
  <2>2. CASE req[d].enabled
    <3>1. events[Event(d)] = NoEvent /\ schedule # "deleted" /\ Event(d) \in Events
      BY <1>1, EventTypes DEF Inv, NewHolds, New
    <3>2. c # d
      BY <3>1 DEF Inv, Safe, RunsRecorded
    <3>. QED
      BY <1>0, <1>1, <2>2, <3>2 DEF New, TypeOK
  <2>. QED
    BY <2>1, <2>2
<1>2. ASSUME NEW d \in Deliveries, Begin(d) \/ Insert(d) \/ Prior(d) \/ GetRun(d) \/ Abort(d)
      PROVE  runs' = runs
  BY <1>2 DEF Begin, Insert, Prior, GetRun, Abort
<1>3. ASSUME NEW d \in Deliveries, EndRun(d)
      PROVE  /\ runs'[c] # "none"
             /\ runs[c] \in {"pruned", "deleted"} => runs'[c] \in {"pruned", "deleted"}
  BY <1>0, <1>3 DEF EndRun, TypeOK
<1>4. ASSUME NEW S, Prune(S)
      PROVE  /\ runs'[c] # "none"
             /\ runs[c] \in {"pruned", "deleted"} => runs'[c] \in {"pruned", "deleted"}
  BY <1>0, <1>4 DEF Prune, TypeOK
<1>5. CASE Delete
  BY <1>0, <1>5 DEF Delete, TypeOK
<1>6. CASE Crash \/ Pause \/ Resume \/ UNCHANGED vars
  BY <1>6 DEF Crash, Pause, Resume, vars
<1>. QED
  BY <1>1, <1>2, <1>3, <1>4, <1>5, <1>6 DEF Next, Request

\* Records and runs stay in step.
LEMMA SafeStep == Inv /\ [Next]_vars => Safe'
<1>. SUFFICES ASSUME Inv, [Next]_vars PROVE Safe'
  OBVIOUS
<1>. USE EventTypes
<1>0. TypeOK /\ NewHolds /\ OneRunPerEvent /\ EventHasRun /\ RunsRecorded
  BY DEF Inv, Safe
<1>1. ASSUME NEW d \in Deliveries, New(d), req[d].enabled PROVE Safe'
  <2>1. /\ events[Event(d)] = NoEvent /\ schedule # "deleted" /\ schedule' = schedule
        /\ events'[Event(d)] = [run |-> d, data |-> DataOf[d]]
        /\ \A e \in Events \ {Event(d)} : events'[e] = events[e]
        /\ runs'[d] = "pending"
        /\ \A c \in Deliveries \ {d} : runs'[c] = runs[c]
    BY <1>0, <1>1 DEF New, NewHolds, TypeOK
  <2>2. \A c \in Deliveries : Event(c) = Event(d) => runs[c] = "none"
    BY <1>0, <2>1 DEF RunsRecorded
  <2>3. OneRunPerEvent'
    BY <1>0, <2>1, <2>2 DEF OneRunPerEvent, Event
  <2>4. [run |-> d, data |-> DataOf[d]] # NoEvent
    <3>1. DOMAIN [run |-> d, data |-> DataOf[d]] # DOMAIN NoEvent
      BY DEF NoEvent
    <3>. QED
      BY <3>1
  <2>5. RunsRecorded'
    BY <1>0, <2>1, <2>2, <2>4 DEF RunsRecorded, Event
  <2>6. \A e \in Events : events[e] # NoEvent => events[e].run # d
    BY <1>0, <2>1, <2>2 DEF EventHasRun, TypeOK
  <2>7. \A e \in Events : events[e] # NoEvent => events[e].run \in Deliveries
    BY <1>0 DEF TypeOK
  <2>8. EventHasRun'
    BY <1>0, <2>1, <2>6, <2>7 DEF EventHasRun, Event
  <2>. QED
    BY <2>3, <2>5, <2>8 DEF Safe
<1>2. ASSUME UNCHANGED <<events, runs>>, schedule # "deleted" \/ schedule' = "deleted" PROVE Safe'
  BY <1>0, <1>2 DEF Safe, OneRunPerEvent, EventHasRun, RunsRecorded, Event
<1>3. ASSUME NEW d \in Deliveries, EndRun(d) PROVE Safe'
  <2>1. /\ \A c \in Deliveries : runs'[c] = "none" <=> runs[c] = "none"
        /\ UNCHANGED <<schedule, events>>
    BY <1>0, <1>3 DEF EndRun, TypeOK
  <2>. QED
    BY <1>0, <2>1 DEF Safe, OneRunPerEvent, EventHasRun, RunsRecorded, Event, TypeOK
<1>4. ASSUME NEW S \in SUBSET {d \in Deliveries : runs[d] = "ended"}, Prune(S) PROVE Safe'
  <2>1. /\ \A c \in Deliveries : runs'[c] = "none" <=> runs[c] = "none"
        /\ UNCHANGED <<schedule, events>>
    BY <1>0, <1>4 DEF Prune, TypeOK
  <2>. QED
    BY <1>0, <2>1 DEF Safe, OneRunPerEvent, EventHasRun, RunsRecorded, Event, TypeOK
<1>5. CASE Delete
  BY <1>0, <1>5 DEF Delete, Safe, OneRunPerEvent, EventHasRun, RunsRecorded, Event, TypeOK
<1>6. ASSUME NEW d \in Deliveries,
             Begin(d) \/ Insert(d) \/ Prior(d) \/ GetRun(d) \/ Abort(d) \/ (New(d) /\ ~req[d].enabled)
      PROVE  Safe'
  BY <1>2, <1>6 DEF Begin, Insert, Prior, GetRun, Abort, New
<1>7. CASE Crash \/ Pause \/ Resume \/ UNCHANGED vars
  BY <1>2, <1>7 DEF Crash, Pause, Resume, vars
<1>. QED
  BY <1>1, <1>3, <1>4, <1>5, <1>6, <1>7 DEF Next, Request

\* What was told or read stays true.
LEMMA ToldStays ==
    ASSUME Inv, [Next]_vars, NEW d \in Deliveries,
           req'[d].answer = req[d].answer, req'[d].run = req[d].run
    PROVE  /\ Told(d)'
           /\ RunFor(req[d].run, d) => RunFor(req[d].run, d)'
<1>1. RunFor(req[d].run, d) => RunFor(req[d].run, d)'
  BY RunsStay DEF RunFor, Event
<1>2. Told(d)
  BY DEF Inv, Honest
<1>. QED
  BY <1>1, <1>2, RunsStay DEF Told, RunFor, Event

\* A request that does not take the step stays honest.
LEMMA HonestStays ==
    ASSUME Inv, [Next]_vars, NEW d \in Deliveries, req'[d] = req[d]
    PROVE  Honest(d)'
<1>1. Honest(d)
  BY DEF Inv
<1>2. Told(d)' /\ (RunFor(req[d].run, d) => RunFor(req[d].run, d)')
  BY ToldStays
<1>. QED
  BY <1>1, <1>2 DEF Honest, RunFor, Event

\* What a step tells its sender, or lets it read, is true.
LEMMA HonestStep == Inv /\ [Next]_vars => \A d \in Deliveries : Honest(d)'
<1>. SUFFICES ASSUME Inv, [Next]_vars PROVE \A d \in Deliveries : Honest(d)'
  OBVIOUS
<1>. USE EventTypes
<1>0. TypeOK /\ NewHolds /\ EventHasRun /\ \A d \in Deliveries : Honest(d)
  BY DEF Inv, Safe
<1>1. ASSUME NEW d \in Deliveries, \A c \in Deliveries \ {d} : req'[c] = req[c], Honest(d)'
      PROVE  \A c \in Deliveries : Honest(c)'
  <2>1. \A c \in Deliveries \ {d} : Honest(c)'
    BY <1>1, HonestStays
  <2>. QED
    BY <1>1, <2>1
<1>2. ASSUME NEW d \in Deliveries, Begin(d) PROVE \A c \in Deliveries : Honest(c)'
  <2>1. Honest(d) /\ req[d].pc # "answered"
    BY <1>0, <1>2 DEF Begin
  <2>2. Honest(d)'
    BY <1>0, <1>2, <2>1, BeginEffects DEF Honest, Told
  <2>. QED
    BY <1>0, <1>1, <1>2, <2>2, BeginEffects
<1>3. ASSUME NEW d \in Deliveries, Insert(d) PROVE \A c \in Deliveries : Honest(c)'
  <2>1. Honest(d) /\ req[d].pc # "answered"
    BY <1>0, <1>3 DEF Insert
  <2>2. Answer(d, "error") \/ Step(d, "prior") \/ Step(d, "new")
    BY <1>3 DEF Insert
  <2>3. Honest(d)'
    BY <1>0, <2>1, <2>2, RequestEffects DEF Honest, Told
  <2>. QED
    BY <1>0, <1>1, <2>2, <2>3, RequestEffects
<1>4. ASSUME NEW d \in Deliveries, Prior(d) PROVE \A c \in Deliveries : Honest(c)'
  <2>1. Honest(d) /\ req[d].pc # "answered" /\ UNCHANGED <<events, runs>>
    BY <1>0, <1>4 DEF Prior
  <2>2. ASSUME Known(d)
        PROVE  LET c == events[Event(d)].run IN
               /\ c \in Deliveries /\ runs[c] # "none" /\ Event(c) = Event(d)
               /\ DataOf[c] = events[Event(d)].data
    BY <1>0, <2>2 DEF Known, EventHasRun, TypeOK
  <2>3. Known(d) /\ SameData(d) => RunFor(events[Event(d)].run, d)'
    BY <2>1, <2>2 DEF RunFor, SameData, Event
  <2>4. ASSUME req'[d].pc = "get", req'[d].answer = req[d].answer,
               req'[d].run = events[Event(d)].run, Known(d), SameData(d)
        PROVE  Honest(d)'
    BY <2>1, <2>3, <2>4 DEF Honest, Told, RunFor, Event
  <2>5. ASSUME req'[d].pc = "answered", req'[d].answer = "conflict", Known(d), ~SameData(d)
        PROVE  Honest(d)'
    <3>1. events[Event(d)].run \in Deliveries /\ runs'[events[Event(d)].run] # "none"
      BY <2>1, <2>2, <2>5
    <3>2. DataOf[events[Event(d)].run] # DataOf[d] /\ Event(events[Event(d)].run) = Event(d)
      BY <2>2, <2>5 DEF SameData
    <3>. QED
      BY <2>5, <3>1, <3>2 DEF Honest, Told, Event
  <2>6. ASSUME req'[d].pc = "answered", req'[d].answer = "error"
        PROVE  Honest(d)'
    BY <2>6 DEF Honest, Told
  <2>7. Honest(d)'
    BY <1>0, <1>4, <2>4, <2>5, <2>6, PriorEffects
  <2>. QED
    BY <1>0, <1>1, <1>4, <2>7, PriorEffects
<1>5. ASSUME NEW d \in Deliveries, GetRun(d) PROVE \A c \in Deliveries : Honest(c)'
  <2>1. RunFor(req[d].run, d) /\ UNCHANGED runs
    BY <1>0, <1>5 DEF GetRun, Honest
  <2>2. CASE runs[req[d].run] \in {"pending", "ended"} /\ Answer(d, "duplicate")
    BY <1>0, <2>1, <2>2, RequestEffects DEF Honest, Told, RunFor, Event
  <2>3. CASE runs[req[d].run] \notin {"pending", "ended"} /\ Answer(d, "gone")
    <3>1. runs[req[d].run] \in {"pruned", "deleted"}
      BY <1>0, <2>1, <2>3 DEF RunFor, TypeOK
    <3>. QED
      BY <1>0, <2>1, <2>3, <3>1, RequestEffects DEF Honest, Told, RunFor, Event
  <2>4. \/ runs[req[d].run] \in {"pending", "ended"} /\ Answer(d, "duplicate")
        \/ runs[req[d].run] \notin {"pending", "ended"} /\ Answer(d, "gone")
    BY <1>5 DEF GetRun
  <2>5. Honest(d)'
    BY <2>2, <2>3, <2>4
  <2>. QED
    BY <1>0, <1>1, <2>4, <2>5, RequestEffects
<1>6. ASSUME NEW d \in Deliveries, New(d) PROVE \A c \in Deliveries : Honest(c)'
  <2>1. Honest(d)'
    BY <1>0, <1>6, NewEffects DEF Honest, Told, RunFor, Event
  <2>. QED
    BY <1>0, <1>1, <1>6, <2>1, NewEffects
<1>7. ASSUME NEW d \in Deliveries, Abort(d) PROVE \A c \in Deliveries : Honest(c)'
  <2>1. Answer(d, "error")
    BY <1>7 DEF Abort
  <2>2. Honest(d)'
    BY <1>0, <2>1, RequestEffects DEF Honest, Told
  <2>. QED
    BY <1>0, <1>1, <2>1, <2>2, RequestEffects
<1>8. CASE Crash
  <2>. SUFFICES ASSUME NEW d \in Deliveries PROVE Honest(d)'
    OBVIOUS
  <2>1. \/ req'[d] = req[d]
        \/ /\ req[d].pc \in InTx \union {"get"} /\ req'[d].pc = "lost"
           /\ req'[d].answer = req[d].answer /\ req'[d].run = req[d].run
    BY <1>0, <1>8 DEF Crash, TypeOK, Requests
  <2>2. CASE req'[d] = req[d]
    BY <2>2, HonestStays
  <2>3. CASE /\ req[d].pc \in InTx \union {"get"} /\ req'[d].pc = "lost"
             /\ req'[d].answer = req[d].answer /\ req'[d].run = req[d].run
    <3>1. req[d].answer = "none"
      BY <1>0, <2>3 DEF Honest, InTx
    <3>. QED
      BY <2>3, <3>1 DEF Honest, Told
  <2>. QED
    BY <2>1, <2>2, <2>3
<1>9. ASSUME UNCHANGED req PROVE \A d \in Deliveries : Honest(d)'
  BY <1>9, HonestStays
<1>10. ASSUME \/ Pause \/ Resume \/ Delete \/ (\E d \in Deliveries : EndRun(d))
              \/ (\E S : Prune(S)) \/ UNCHANGED vars
       PROVE  UNCHANGED req
  BY <1>10 DEF Pause, Resume, Delete, EndRun, Prune, vars
<1>. QED
  BY <1>2, <1>3, <1>4, <1>5, <1>6, <1>7, <1>8, <1>9, <1>10 DEF Next, Request

\* The invariant holds for ever.
LEMMA InvAlways == Spec => []Inv
<1>1. Init => Inv
  BY InitInv
<1>2. Inv /\ [Next]_vars => Inv'
  <2>. SUFFICES ASSUME Inv, [Next]_vars PROVE Inv'
    OBVIOUS
  <2>1. TypeOK'
    BY TypeStep DEF Inv
  <2>2. HolderDecides' /\ NewHolds' /\ Safe'
    BY HoldersStep, SafeStep
  <2>3. \A d \in Deliveries : Honest(d)'
    BY HonestStep
  <2>. QED
    BY <2>1, <2>2, <2>3 DEF Inv
<1>. QED
  BY <1>1, <1>2, PTL DEF Spec

-----------------------------------------------------------------------------
(***************************************************************************)
(* The theorems.                                                           *)
(***************************************************************************)

\* Rows and requests of Store.TriggerEvent hold values of their types.
THEOREM EventsTypeCorrect == Spec => []TypeOK
<1>1. Inv => TypeOK
  BY DEF Inv
<1>. QED
  BY InvAlways, <1>1, PTL

\* Racing and repeated deliveries of an event create one run at most, through
\* rollbacks, lost confirmations, retention and deletion.
THEOREM OneRunPerEventHolds == Spec => []OneRunPerEvent
<1>1. Inv => OneRunPerEvent
  BY DEF Inv, Safe
<1>. QED
  BY InvAlways, <1>1, PTL

\* A recorded event has the run that its record names: a refusal or a death in
\* the middle of a delivery leaves no record that would swallow the next one.
THEOREM EventHasRunHolds == Spec => []EventHasRun
<1>1. Inv => EventHasRun
  BY DEF Inv, Safe
<1>. QED
  BY InvAlways, <1>1, PTL

\* Every answer of TriggerEvent is true when it is given and stays so.
THEOREM AnswersTrueHolds == Spec => []AnswersTrue
<1>1. Inv => AnswersTrue
  BY DEF Inv, Honest, Told, RunFor, AnswersTrue
<1>. QED
  BY InvAlways, <1>1, PTL
=============================================================================
