---------------------------- MODULE ReadSchedule ----------------------------
(***************************************************************************)
(* The focus listener's read scheduler and its shell: the pure transition  *)
(* Schedule (verbatim-listener-logic, schedule.rs) with the threads, the   *)
(* watchdog and the alarm that drive it (verbatim-listener, focus_read.rs, *)
(* Readers).                                                               *)
(*                                                                         *)
(* UIA events arrive for applications (Push).  Each application has at     *)
(* most one thread in charge, which reads its events in order.  A read may *)
(* never return: the watchdog, woken by an alarm the schedule sets to the  *)
(* soonest time anything is due, publishes it at its bound or abandons it  *)
(* with its thread.  Every event was announced by a marker, and is owed    *)
(* exactly one outcome.                                                    *)
(*                                                                         *)
(* One lock orders everything.  A step of the schedule may ask the shell   *)
(* something, and starting a thread may fail; the shell answers those as   *)
(* steps of their own before it lets the lock go.  They are the variables  *)
(* asks and failed: while either is not empty the lock is held and only    *)
(* AnswerJudge, AnswerPublish and SpawnFailed are enabled.  The clock runs *)
(* all the while.                                                          *)
(*                                                                         *)
(* An event is known by its marker, a number given in the order events     *)
(* arrive, which is also its place in the order of every application's     *)
(* events.  What its read finds is not modelled: an outcome is "answered", *)
(* or "replaced" when a newer event of the same key took its place.        *)
(***************************************************************************)
EXTENDS InFlight, Sequences, FiniteSets

CONSTANTS
    Pids,        \* applications
    Keys,        \* (kind, element) pairs NVDA's limiter tells apart
    NoKey,       \* an event with no key
    Deadline,    \* BOUNDED_WALK_DEADLINE
    Limit,       \* ABANDONED_LIMIT
    Bounds,      \* how long after a walk arms its bound may be
    Early,       \* how much too early the alarm's timer may go off
    Windows,     \* what an event's cache may say of its window
    CanStop,     \* whether the readers are stopped in this instance
    MaxEvents, MaxWaiters, MaxTime   \* bounds of the instance

ASSUME ScheduleAssumption ==
    /\ NoKey \notin Keys
    /\ Deadline \in Nat \ {0}
    /\ Limit \in Nat \ {0}
    /\ Bounds \subseteq Nat
    /\ Early \in Nat
    /\ Windows \subseteq {"Never", "Unknown", "Known"}
    /\ CanStop \in BOOLEAN
    /\ {MaxEvents, MaxWaiters, MaxTime} \subseteq Nat

VARIABLES
    now,          \* the monotonic clock
    apps,         \* what the schedule keeps of each application it holds
    held,         \* the applications the schedule holds
    stopping,
    idle,         \* the idle waiters, each with the count of events before it
    alarmDue,     \* when the schedule believes the alarm is set to go off
    events,       \* per marker: its application and its outcome
    records,      \* the applications the shell keeps a record of
    watched,      \* per application: the read under way the shell shares
    waiters,      \* the idle waiters' closures the shell still has
    ran,          \* the idle waiters run so far
    threads,      \* the reading threads
    watchdog,     \* where the watchdog is: "tick", "wait" or "done"
    timer,        \* when the alarm's timer is set to go off
    signalled,    \* whether it has gone off and was not waited for
    alarmEvent,   \* whether the alarm's event is set
    failed,       \* thread starts that failed, to be stepped
    asks          \* asks to be answered

vars == <<now, apps, held, stopping, idle, alarmDue, events, records, watched,
          waiters, ran, threads, watchdog, timer, signalled, alarmEvent, failed, asks>>
alarmVars == <<alarmDue, timer, signalled>>
idleVars  == <<idle, waiters, ran>>

NoApp == [queue |-> {}, threaded |-> FALSE, flight |-> New, abandoned |-> 0,
          limitReached |-> NoTime, ending |-> FALSE]

Locked == failed # {} \/ asks # {}

Markers == DOMAIN events
Owed    == {m \in Markers : events[m].outcome = "owed"}

\* A queue is a set of entries, in the order of their markers: an entry is put
\* at the back with a marker greater than any other's.
MarkersOf(q) == {e.marker : e \in q}
Oldest(q) == CHOOSE e \in q : \A g \in q : e.marker <= g.marker

-----------------------------------------------------------------------------
(* One application. *)

AppInCharge(a, generation) == a.threaded /\ a.flight.generation = generation

\* Mutant: abandoned threads still out are not waited for.
SpentTooSoon(a) == a.ending /\ ~a.threaded /\ a.queue = {}

Spent(a) == a.ending /\ ~a.threaded /\ a.abandoned = 0 /\ a.queue = {}

WaitingEnd(a) ==
    IF a.threaded \/ a.queue = {} \/ a.limitReached = NoTime
    THEN NoTime ELSE a.limitReached + Deadline

\* The oldest event of the application whose outcome is still to be sent.
Front(a) ==
    IF Accepts(a.flight, a.flight.request) THEN a.flight.item
    ELSE IF a.queue # {} THEN Oldest(a.queue).marker ELSE 0

Started(a) == [a EXCEPT !.flight = Succeed(@), !.threaded = TRUE]

(***************************************************************************)
(* What a transition does to one application: the application after it,    *)
(* the events it answers, whether it starts a thread, what it asks, and    *)
(* whether it looks for idle waiters to run.                               *)
(***************************************************************************)
Quiet(a) == [app |-> a, out |-> {}, spawn |-> FALSE, ask |-> "None",
             why |-> "None", unwatch |-> FALSE, wake |-> FALSE]

\* Mutant: the limit is passed by one.
RoomForOneMore(count) == count <= Limit

\* Whether count abandoned threads leave room for one more.
Room(count) == count < Limit

\* Mutant: the waiting thread is not woken.
AbandonedWakingNobody(a, d, t) ==
    LET count  == a.abandoned + 1
        left   == [a EXCEPT !.flight = d.flight, !.threaded = FALSE, !.abandoned = count,
                            !.limitReached = IF ~Room(count) /\ @ = NoTime THEN t ELSE @]
        starts == a.queue # {} /\ Room(count)
    IN  [Quiet(IF starts THEN Started(left) ELSE left) EXCEPT
            !.out = IF d.published THEN {} ELSE {d.item},
            !.spawn = starts, !.unwatch = TRUE]

Abandoned(a, d, t) ==
    LET count  == a.abandoned + 1
        left   == [a EXCEPT !.flight = d.flight, !.threaded = FALSE, !.abandoned = count,
                            !.limitReached = IF ~Room(count) /\ @ = NoTime THEN t ELSE @]
        starts == a.queue # {} /\ Room(count)
    IN  [Quiet(IF starts THEN Started(left) ELSE left) EXCEPT
            !.out = IF d.published THEN {} ELSE {d.item},
            !.spawn = starts, !.unwatch = TRUE, !.wake = TRUE]

Decided(a, d, t) ==
    IF d.do = "Abandon" THEN Abandoned(a, d, t)
    ELSE [Quiet([a EXCEPT !.flight = d.flight]) EXCEPT
            !.ask = IF d.do = "Nothing" THEN "None" ELSE d.do, !.why = d.why]

DropWaiting(a) ==
    IF a.threaded \/ a.queue = {} THEN Quiet(a)
    ELSE [Quiet([a EXCEPT !.queue = {}]) EXCEPT !.out = MarkersOf(a.queue), !.wake = TRUE]

TickApp(a, t) ==
    IF Running(a.flight) THEN Decided(a, Judge(a.flight, t), t)
    ELSE IF WaitingEnd(a) # NoTime /\ t >= WaitingEnd(a) THEN DropWaiting(a)
    ELSE Quiet(a)

-----------------------------------------------------------------------------
(* The pieces of a step of the whole. *)

\* The events in ms are answered with how; one that is owed nothing is a fault.
Answer(es, ms, how) ==
    [m \in DOMAIN es |-> IF m \notin ms THEN es[m]
                         ELSE [es[m] EXCEPT !.outcome = IF @ = "owed" THEN how ELSE "twice"]]

\* Mutant: the waiter waits for the event after it too.
NothingUpTo(before, as, hs) == \A p \in hs : Front(as[p]) = 0 \/ before <= Front(as[p])

\* Whether every event queued before the count has its outcome sent.
NothingBefore(before, as, hs) == \A p \in hs : Front(as[p]) = 0 \/ before < Front(as[p])

\* Runs, in order, the waiters of line every event before which has its outcome.
WakeIdleWaiters(line, closures, as, hs) ==
    LET runs == {i \in DOMAIN line : \A j \in 1..i : NothingBefore(line[j].before, as, hs)}
        ids  == {line[i].waiter : i \in runs}
    IN  /\ idle' = SubSeq(line, Cardinality(runs) + 1, Len(line))
        /\ waiters' = closures \ ids
        /\ ran' = ran \union (ids \intersect closures)

\* The soonest time anything is due.
Soonest(times) == IF times \ {NoTime} = {} THEN NoTime
                  ELSE CHOOSE t \in times \ {NoTime} : \A u \in times \ {NoTime} : t <= u

\* Mutant: the end of a wait at the limit is left out.
DueReads(as, hs) == Soonest({NextWake(as[p].flight) : p \in hs})

Due(as, hs) == Soonest(UNION {{NextWake(as[p].flight), WaitingEnd(as[p])} : p \in hs})

\* The last thing a step does: set the alarm when the time due differs from was.
SetAlarm(was) ==
    LET due == Due(apps', held')
    IN  IF stopping' \/ due = was
        THEN alarmDue' = was /\ UNCHANGED <<timer, signalled>>
        ELSE /\ alarmDue' = due
             /\ timer' = due
             /\ signalled' = (signalled /\ due = NoTime)

Thread(p, generation) == [pid |-> p, generation |-> generation, pc |-> "next",
                          request |-> NoRequest, item |-> 0, window |-> "Never"]

\* Mutant: nobody is woken.
WakeNobody(ts, p) == {ts}

\* notify_one on the application's condition variable.
Wake(ts, p) ==
    LET waiting == {t \in ts : t.pid = p /\ t.pc = "waiting"}
    IN  IF waiting = {} THEN {ts}
        ELSE {(ts \ {t}) \union {[t EXCEPT !.pc = "next"]} : t \in waiting}

(***************************************************************************)
(* A step that does r[p] to each application p in DOMAIN r and answers its *)
(* events with "answered": every transition of the watchdog's and of an     *)
(* ask's answer.  Threads are started, those in refused failing.           *)
(***************************************************************************)
Apply(r, answered, was) ==
    LET spawned == {p \in DOMAIN r : r[p].spawn}
    IN  \E refused \in SUBSET spawned :
        /\ apps' = [p \in Pids |-> IF p \in DOMAIN r THEN r[p].app ELSE apps[p]]
        /\ events' = answered
        /\ watched' = [p \in Pids |-> IF p \in DOMAIN r /\ r[p].unwatch
                                      THEN NoRequest ELSE watched[p]]
        /\ records' = records \union spawned
        /\ threads' = threads \union
               {Thread(p, r[p].app.flight.generation) : p \in spawned \ refused}
        /\ failed' = {[pid |-> p, generation |-> r[p].app.flight.generation] : p \in refused}
        /\ IF \E p \in DOMAIN r : r[p].wake
           THEN WakeIdleWaiters(idle, waiters, apps', held) ELSE UNCHANGED idleVars
        /\ UNCHANGED <<held, stopping>>
        /\ SetAlarm(was)

AsksOf(r) == {[pid |-> p, request |-> r[p].app.flight.request,
               do |-> r[p].ask, why |-> r[p].why] : p \in {q \in DOMAIN r : r[q].ask # "None"}}

OutOf(r) == UNION {r[p].out : p \in DOMAIN r}

\* The application p is left as a, or let go once nothing of it is left.
LetGoIfSpent(p, a) ==
    IF Spent(a)
    THEN /\ apps' = [apps EXCEPT ![p] = NoApp]
         /\ held' = held \ {p}
         /\ records' = records \ {p}
    ELSE /\ apps' = [apps EXCEPT ![p] = a]
         /\ UNCHANGED <<held, records>>

-----------------------------------------------------------------------------
(* Events and callers. *)

PushStopping(p) ==
    /\ stopping
    /\ events' = Append(events, [pid |-> p, outcome |-> "answered"])
    /\ UNCHANGED <<apps, held, records, watched, threads, failed>>
    /\ UNCHANGED <<stopping, idleVars, alarmVars>>

PushRunning(p, key, window) ==
    LET m        == Len(events) + 1
        app      == IF p \in held THEN apps[p] ELSE NoApp
        same     == {e \in app.queue : key # NoKey /\ e.key = key}
        replaced == MarkersOf(same)
        entry    == [marker |-> m, key |-> key, window |-> window]
        a        == [app EXCEPT !.ending = FALSE, !.queue = (@ \ same) \union {entry}]
        past     == a.limitReached # NoTime /\ now >= a.limitReached + Deadline
        drops    == ~a.threaded /\ past
        starts   == ~a.threaded /\ ~past /\ Room(a.abandoned)
        pushed   == Append(events, [pid |-> p, outcome |-> "owed"])
        next     == IF drops THEN [a EXCEPT !.queue = {}]
                    ELSE IF starts THEN Started(a) ELSE a
    IN  /\ ~stopping
        /\ apps' = [apps EXCEPT ![p] = next]
        /\ held' = held \union {p}
        /\ events' = Answer(Answer(pushed, replaced, "replaced"),
                            IF drops THEN MarkersOf(a.queue) ELSE {}, "answered")
        /\ IF starts
           THEN /\ records' = records \union {p}
                /\ \/ /\ threads' = threads \union {Thread(p, next.flight.generation)}
                      /\ failed' = {}
                   \/ /\ threads' = threads
                      /\ failed' = {[pid |-> p, generation |-> next.flight.generation]}
           ELSE /\ threads' \in (IF a.threaded THEN Wake(threads, p) ELSE {threads})
                /\ UNCHANGED <<records, failed>>
        /\ IF replaced # {} \/ drops
           THEN WakeIdleWaiters(idle, waiters, apps', held') ELSE UNCHANGED idleVars
        /\ UNCHANGED <<stopping, watched>>
        /\ SetAlarm(alarmDue)

Push(p, key, window) ==
    /\ ~Locked
    /\ Len(events) < MaxEvents
    /\ PushStopping(p) \/ PushRunning(p, key, window)
    /\ UNCHANGED <<now, watchdog, alarmEvent, asks>>

OutpostEnded(p) ==
    LET a == [apps[p] EXCEPT !.ending = TRUE]
    IN  /\ ~Locked
        /\ p \in held
        /\ LetGoIfSpent(p, a)
        /\ threads' \in IF Spent(a) THEN {threads} ELSE Wake(threads, p)
        /\ UNCHANGED stopping
        /\ SetAlarm(alarmDue)
        /\ UNCHANGED <<now, idleVars, events, watched, watchdog, alarmEvent, failed, asks>>

\* when_idle: a barrier for the events queued so far.
WhenIdle ==
    LET id == Cardinality(waiters \union ran) + 1
    IN  /\ ~Locked
        /\ ~stopping
        /\ id \in 1..MaxWaiters
        /\ WakeIdleWaiters(Append(idle, [before |-> Len(events), waiter |-> id]),
                           waiters \union {id}, apps, held)
        /\ UNCHANGED <<apps, held, stopping>>
        /\ SetAlarm(alarmDue)
        /\ UNCHANGED <<now, events, records, watched, threads, watchdog, alarmEvent,
                       failed, asks>>

\* Mutant: parked threads are not woken.
StopWakingNobody ==
    /\ ~Locked
    /\ CanStop /\ ~stopping
    /\ stopping' = TRUE
    /\ alarmEvent' = TRUE
    /\ waiters' = {}
    /\ UNCHANGED <<now, apps, held, idle, alarmVars, events, records, watched, ran,
                   threads, watchdog, failed, asks>>

Stop ==
    /\ ~Locked
    /\ CanStop /\ ~stopping
    /\ stopping' = TRUE
    /\ threads' = {[t EXCEPT !.pc = IF @ = "waiting" THEN "next" ELSE @] : t \in threads}
    /\ alarmEvent' = TRUE
    /\ waiters' = {}
    /\ UNCHANGED <<now, apps, held, idle, alarmVars, events, records, watched, ran,
                   watchdog, failed, asks>>

-----------------------------------------------------------------------------
(* A reading thread. *)

InCharge(t) == ~stopping /\ t.pid \in held /\ AppInCharge(apps[t.pid], t.generation)

\* next_job: the thread t, asking for its next event, ends when it is no longer
\* in charge or its outpost has ended, takes the oldest event, or waits for one.
Leaves(t) ==
    /\ ~InCharge(t)
    /\ threads' = threads \ {t}
    /\ UNCHANGED <<apps, held, records, watched>>

Takes(t) ==
    LET p     == t.pid
        a     == apps[p]
        first == Oldest(a.queue)
        taken == Start(a.flight, first.marker, Deadline, first.window, now)
    IN  /\ InCharge(t) /\ a.queue # {}
        /\ apps' = [apps EXCEPT ![p] = [a EXCEPT !.queue = @ \ {first}, !.flight = taken]]
        /\ watched' = [watched EXCEPT ![p] = taken.request]
        /\ records' = records \union {p}
        /\ threads' = (threads \ {t}) \union
              {[t EXCEPT !.pc = "reading", !.request = taken.request,
                         !.item = first.marker, !.window = first.window]}
        /\ UNCHANGED held

Ends(t) ==
    /\ InCharge(t) /\ apps[t.pid].queue = {} /\ apps[t.pid].ending
    /\ threads' = threads \ {t}
    /\ LetGoIfSpent(t.pid, [apps[t.pid] EXCEPT !.threaded = FALSE])
    /\ UNCHANGED watched

Parks(t) ==
    /\ InCharge(t) /\ apps[t.pid].queue = {} /\ ~apps[t.pid].ending
    /\ threads' = (threads \ {t}) \union {[t EXCEPT !.pc = "waiting"]}
    /\ records' = records \union {t.pid}
    /\ UNCHANGED <<apps, held, watched>>

NextJob(t) ==
    /\ ~Locked
    /\ t.pc = "next"
    /\ Leaves(t) \/ Takes(t) \/ Ends(t) \/ Parks(t)
    /\ UNCHANGED stopping
    /\ SetAlarm(alarmDue)
    /\ UNCHANGED <<now, idleVars, events, watchdog, alarmEvent, failed, asks>>

\* A condition variable may wake its thread with no notification.
SpuriousWake(t) ==
    /\ t.pc = "waiting"
    /\ threads' = (threads \ {t}) \union {[t EXCEPT !.pc = "next"]}
    /\ UNCHANGED <<now, apps, held, stopping, idleVars, alarmVars, events, records, watched,
                   watchdog, alarmEvent, failed, asks>>

\* Mutant: another thread's read is let go of too.
UnwatchAny(t) == [watched EXCEPT ![t.pid] = NoRequest]

\* The shell shares the read of t no more, unless another's has taken its place.
Unwatch(t) == [watched EXCEPT ![t.pid] = IF @ = t.request THEN NoRequest ELSE @]

\* An abandoned thread of a is back.
OneBack(a) == [a EXCEPT !.abandoned = IF @ = 0 THEN 0 ELSE @ - 1,
                        !.limitReached = IF Room(a.abandoned - 1) THEN NoTime ELSE @]

Rested(t) == [t EXCEPT !.pc = "next", !.request = NoRequest, !.item = 0, !.window = "Never"]

\* The thread t's read returns: to an application that is gone; to the thread in
\* charge, its result being the event's outcome unless it was published; or to an
\* abandoned thread, which is put in charge again when events wait with none.
ReturnsToNobody(t) ==
    /\ t.pid \notin held
    /\ threads' = threads \ {t}
    /\ UNCHANGED <<apps, held, records, events, idleVars>>

ReturnsInCharge(t) ==
    LET a == apps[t.pid]
    IN  /\ t.pid \in held /\ AppInCharge(a, t.generation)
        /\ apps' = [apps EXCEPT ![t.pid].flight = End(@, t.request)]
        /\ events' = IF Accepts(a.flight, t.request)
                     THEN Answer(events, {t.item}, "answered") ELSE events
        /\ threads' = (threads \ {t}) \union (IF stopping THEN {} ELSE {Rested(t)})
        /\ WakeIdleWaiters(idle, waiters, apps', held)
        /\ UNCHANGED <<held, records>>

ReturnsAbandoned(t) ==
    LET p      == t.pid
        fewer  == OneBack(apps[p])
        starts == ~Spent(fewer) /\ ~fewer.threaded /\ fewer.queue # {} /\ ~stopping
        again  == Started(fewer)
    IN  /\ p \in held /\ ~AppInCharge(apps[p], t.generation)
        /\ IF starts
           THEN /\ apps' = [apps EXCEPT ![p] = again]
                /\ records' = records \union {p}
                /\ threads' = (threads \ {t}) \union
                      {[Rested(t) EXCEPT !.generation = again.flight.generation]}
                /\ UNCHANGED held
           ELSE /\ LetGoIfSpent(p, fewer)
                /\ threads' = threads \ {t}
        /\ UNCHANGED <<events, idleVars>>

ReadReturns(t) ==
    /\ ~Locked
    /\ t.pc \in {"reading", "walking"}
    /\ watched' = Unwatch(t)
    /\ ReturnsToNobody(t) \/ ReturnsInCharge(t) \/ ReturnsAbandoned(t)
    /\ UNCHANGED stopping
    /\ SetAlarm(alarmDue)
    /\ UNCHANGED <<now, watchdog, alarmEvent, failed, asks>>

\* on_learn: the read finds its window, a judgement due at once when late.
Learn(t) ==
    /\ ~Locked
    /\ t.pc = "reading" /\ t.window = "Unknown"
    /\ ~stopping /\ t.pid \in held
    /\ LET a == apps[t.pid]
           r == [p \in {t.pid} |-> Decided(a, Learned(a.flight, t.request, now), now)]
       IN  /\ Apply(r, Answer(events, OutOf(r), "answered"), alarmDue)
           /\ asks' = AsksOf(r)
    /\ UNCHANGED <<now, watchdog, alarmEvent>>

\* on_arm: the read has passed its checks, its walk bound at now + b.
Arm(t, b) ==
    /\ ~Locked
    /\ t.pc = "reading" /\ t.window # "Never"
    /\ threads' = (threads \ {t}) \union {[t EXCEPT !.pc = "walking"]}
    /\ apps' = IF t.pid \in held
               THEN [apps EXCEPT ![t.pid].flight = Armed(@, t.request, now + b)] ELSE apps
    /\ UNCHANGED <<held, stopping>>
    /\ SetAlarm(alarmDue)
    /\ UNCHANGED <<now, idleVars, events, records, watched, watchdog, alarmEvent,
                   failed, asks>>

-----------------------------------------------------------------------------
(* The watchdog, and the steps that follow under the same lock. *)

\* Mutant: the memory of the alarm is kept.
TickKeepingAlarm ==
    LET r == [p \in held |-> TickApp(apps[p], now)]
    IN  /\ Apply(r, Answer(events, OutOf(r), "answered"), alarmDue)
        /\ asks' = AsksOf(r)

Tick ==
    LET r == [p \in held |-> TickApp(apps[p], now)]
    IN  /\ Apply(r, Answer(events, OutOf(r), "answered"), NoTime)
        /\ asks' = AsksOf(r)

WatchdogTick ==
    /\ ~Locked
    /\ watchdog = "tick"
    /\ \/ /\ stopping
          /\ watchdog' = "done"
          /\ UNCHANGED <<apps, held, stopping, idleVars, alarmVars, events, records,
                         watched, threads, failed, asks>>
       \/ /\ ~stopping
          /\ watchdog' = "wait"
          /\ Tick
    /\ UNCHANGED <<now, alarmEvent>>

\* The answer to an ask for a judgement: any verdict Windows' state may give.
AnswerJudge(k) ==
    /\ failed = {}
    /\ k \in asks /\ k.do = "Judge"
    /\ \E verdict \in {"None", "Hung", "MovedOn"} :
       LET a == apps[k.pid]
           r == [p \in {k.pid} \intersect held |-> Decided(a, Judged(a.flight, k.request, verdict), now)]
       IN  /\ Apply(r, Answer(events, OutOf(r), "answered"), alarmDue)
           /\ asks' = (asks \ {k}) \union AsksOf(r)
    /\ UNCHANGED <<now, watchdog, alarmEvent>>

\* The answer to an ask for a publication: published from the read's progress
\* when the shell still shares it and its walk has not ended.
AnswerPublish(k) ==
    /\ failed = {}
    /\ k \in asks /\ k.do = "Publish"
    /\ \E prepared \in {FALSE, watched[k.pid] = k.request} :
       LET a   == apps[k.pid]
           got == prepared /\ Accepts(a.flight, k.request)
           d   == Decided(a, Published(a.flight, k.request, got, k.why, now), now)
           r   == [p \in {k.pid} \intersect held |-> [d EXCEPT !.wake = @ \/ got]]
           sent == Answer(events, IF got THEN {a.flight.item} ELSE {}, "answered")
       IN  /\ Apply(r, Answer(sent, OutOf(r), "answered"), alarmDue)
           /\ asks' = (asks \ {k}) \union AsksOf(r)
    /\ UNCHANGED <<now, watchdog, alarmEvent>>

\* A thread could not be started: its application's waiting events are dropped.
SpawnFailed(f) ==
    LET p == f.pid
        a == apps[p]
        b == [a EXCEPT !.threaded = FALSE, !.queue = {}]
    IN  /\ f \in failed
        /\ failed' = failed \ {f}
        /\ IF p \in held /\ AppInCharge(a, f.generation)
           THEN /\ events' = Answer(events, MarkersOf(a.queue), "answered")
                /\ LetGoIfSpent(p, b)
                /\ WakeIdleWaiters(idle, waiters, apps', held')
           ELSE UNCHANGED <<apps, held, records, events, idleVars>>
        /\ UNCHANGED stopping
        /\ SetAlarm(alarmDue)
        /\ UNCHANGED <<now, watched, threads, watchdog, alarmEvent, asks>>

-----------------------------------------------------------------------------
(* The alarm and the clock: Windows' timers, external to the code. *)

TimerGoesOff ==
    /\ timer # NoTime /\ now + Early >= timer
    /\ timer' = NoTime
    /\ signalled' = TRUE
    /\ UNCHANGED <<now, apps, held, stopping, idleVars, alarmDue, events, records, watched,
                   threads, watchdog, alarmEvent, failed, asks>>

\* The watchdog's wait ends: both the timer and the event reset as it does.
AlarmWait ==
    /\ ~Locked
    /\ watchdog = "wait"
    /\ signalled \/ alarmEvent
    /\ watchdog' = "tick"
    /\ signalled' = FALSE
    /\ alarmEvent' = (alarmEvent /\ signalled)
    /\ UNCHANGED <<now, apps, held, stopping, idleVars, alarmDue, events, records, watched,
                   threads, timer, failed, asks>>

Clock ==
    /\ now < MaxTime
    /\ now' = now + 1
    /\ UNCHANGED <<apps, held, stopping, idleVars, alarmVars, events, records, watched,
                   threads, watchdog, alarmEvent, failed, asks>>

-----------------------------------------------------------------------------
Init ==
    /\ now = 0
    /\ apps = [p \in Pids |-> NoApp]
    /\ held = {}
    /\ stopping = FALSE
    /\ idle = <<>>
    /\ alarmDue = NoTime
    /\ events = <<>>
    /\ records = {}
    /\ watched = [p \in Pids |-> NoRequest]
    /\ waiters = {}
    /\ ran = {}
    /\ threads = {}
    /\ watchdog = "tick"
    /\ timer = NoTime
    /\ signalled = FALSE
    /\ alarmEvent = FALSE
    /\ failed = {}
    /\ asks = {}

Next ==
    \/ \E p \in Pids, key \in Keys \union {NoKey}, window \in Windows :
          Push(p, key, window)
    \/ \E p \in Pids : OutpostEnded(p)
    \/ WhenIdle
    \/ Stop
    \/ \E t \in threads : NextJob(t) \/ SpuriousWake(t) \/ ReadReturns(t) \/ Learn(t)
    \/ \E t \in threads, b \in Bounds : Arm(t, b)
    \/ WatchdogTick
    \/ \E k \in asks : AnswerJudge(k) \/ AnswerPublish(k)
    \/ \E f \in failed : SpawnFailed(f)
    \/ TimerGoesOff
    \/ AlarmWait
    \/ Clock

Spec == Init /\ [][Next]_vars

(***************************************************************************)
(* The fairness of the parts that always run, each as a state that never   *)
(* lasts: the lock is let go, a thread that may take its next event does,  *)
(* the watchdog woken or about to tick comes to rest, a time a read or a   *)
(* wait is due at comes, a timer due goes off and, at a shutdown, UIA      *)
(* gives up on the calls of every read.  Nothing else says that a read     *)
(* returns.                                                                *)
(***************************************************************************)
Fairness ==
    /\ []<>~Locked
    /\ \A p \in Pids : []<>(\A t \in threads : t.pid = p => t.pc # "next")
    /\ []<>~(watchdog = "tick" \/ (watchdog = "wait" /\ (signalled \/ alarmEvent)))
    /\ []<>(Due(apps, held) = NoTime \/ Due(apps, held) <= now)
    /\ []<>~(timer # NoTime /\ timer <= now)
    /\ []<>(stopping => \A t \in threads : t.pc \notin {"reading", "walking"})

-----------------------------------------------------------------------------
(* Properties. *)

Times == Nat \union {NoTime}
Events == [pid : Pids, outcome : {"owed", "answered", "replaced", "twice"}]
Waits == [before : Nat, waiter : Nat]
Asks == [pid : Pids, request : Requests, do : {"Judge", "Publish"}, why : Reasons \union {"None"}]
Entries == [marker : Nat, key : Keys \union {NoKey}, window : Windows]
Apps == [queue : SUBSET Entries, threaded : BOOLEAN, flight : Flights, abandoned : Nat,
         limitReached : Times, ending : BOOLEAN]
Threads == [pid : Pids, generation : Nat, pc : {"next", "waiting", "reading", "walking"},
            request : Requests, item : Nat, window : Windows \union {"Never"}]

\* The types of the schedule's state and of the shell's tables.
TypeOK ==
    /\ now \in Nat
    /\ apps \in [Pids -> Apps]
    /\ held \subseteq Pids /\ records \subseteq Pids
    /\ stopping \in BOOLEAN
    /\ idle \in Seq(Waits)
    /\ alarmDue \in Times /\ timer \in Times
    /\ events \in Seq(Events)
    /\ watched \in [Pids -> Requests]
    /\ waiters \subseteq Nat /\ ran \subseteq Nat
    /\ threads \subseteq Threads
    /\ watchdog \in {"tick", "wait", "done"}
    /\ signalled \in BOOLEAN /\ alarmEvent \in BOOLEAN
    /\ failed \subseteq [pid : Pids, generation : Nat]
    /\ asks \subseteq Asks

\* The events of an application whose outcome is still to be sent.
OwedBy(a) == MarkersOf(a.queue) \union
             (IF Accepts(a.flight, a.flight.request) THEN {a.flight.item} ELSE {})

\* check_tables: what is owed is what the schedule still holds, an event is
\* waiting or being read once and in one application, the oldest being read; so
\* no transition loses a marker, and none answers one twice.
OwedMatches ==
    /\ \A m \in Markers : events[m].outcome # "twice"
    /\ Owed = UNION {OwedBy(apps[p]) : p \in held}
    /\ \A p \in held :
       LET a == apps[p] IN
       /\ \A m \in OwedBy(a) : events[m].pid = p
       /\ \A e, g \in a.queue : e.marker = g.marker => e = g
       /\ Running(a.flight) => \A m \in MarkersOf(a.queue) : a.flight.item < m

\* check_tables: the shell keeps one record for each application the schedule
\* holds, and the read it shares is the one under way.
RecordsMatch ==
    /\ records = held
    /\ \A p \in Pids : watched[p] = IF p \in held THEN apps[p].flight.request ELSE NoRequest

\* An application is threaded exactly when one thread is in charge of its
\* events (or its start has just failed and the failure is still to be stepped),
\* and abandoned counts exactly the threads still in a read nobody waits for.
\* So an application let go has no thread that could come back to it.
ThreadsMatch ==
    \A p \in Pids :
    LET mine   == {t \in threads : t.pid = p}
        charge == {t \in mine : p \in held /\ AppInCharge(apps[p], t.generation)}
        unmade == {f \in failed : f.pid = p /\ p \in held /\ AppInCharge(apps[p], f.generation)}
    IN  /\ Cardinality(charge) + Cardinality(unmade) <= 1
        /\ apps[p].threaded /\ ~stopping => charge \union unmade # {}
        /\ \A t \in mine \ charge : t.pc \in {"reading", "walking"}
        /\ Cardinality(mine \ charge) = apps[p].abandoned

\* A thread parked on its condition variable has been told of everything: with
\* an event waiting, its outpost ended or the readers stopping it is not parked.
NoLostWakeup ==
    \A t \in threads : t.pc = "waiting" =>
        InCharge(t) /\ apps[t.pid].queue = {} /\ ~apps[t.pid].ending

\* Events wait with no thread only at the abandoned limit, and then with an end
\* to their wait; the threads of one application never exceed the limit.
WaitIsBounded ==
    \A p \in held :
    /\ ~stopping /\ ~apps[p].threaded /\ apps[p].queue # {} =>
          apps[p].abandoned >= Limit /\ apps[p].limitReached # NoTime
    /\ Cardinality({t \in threads : t.pid = p}) <= Limit

\* The watchdog is never asleep past something due: with the lock free, it is
\* about to tick, or the timer has gone off, or it is set no later than anything
\* due.
AlarmCovers ==
    ~stopping /\ ~Locked /\ watchdog = "wait" /\ ~signalled =>
        \A p \in held : \A due \in {NextWake(apps[p].flight), WaitingEnd(apps[p])} :
           due # NoTime => timer # NoTime /\ timer <= due

\* An idle waiter still in line waits for an event queued before it.
IdleHasCause ==
    ~stopping => \A i \in DOMAIN idle : \E m \in Owed : m <= idle[i].before

\* The listener's promise: every event one outcome, sent once and in its turn,
\* and every idle waiter run behind the events it came after (FocusOutcomes).
Promise == INSTANCE FocusOutcomes
PromiseKept == Promise!Spec

\* Everyone is served in the end, whether or not any read ever returns: with no
\* more events to come all are answered and every idle waiter has run, unless the
\* readers stop.
EveryoneServed == []<>(stopping \/ (Owed = {} /\ waiters = {}))

\* Stopping ends every thread and the watchdog, once UIA gives up on its calls.
StopEndsThreads == []<>(stopping => threads = {} /\ watchdog = "done")
=============================================================================
