--------------------------- MODULE OutcomeProofs ----------------------------
(***************************************************************************)
(* The read scheduler keeps the listener's promise: every event has one    *)
(* outcome, sent once and in its turn, and every idle waiter runs behind   *)
(* the events it came after (FocusOutcomes).                               *)
(*                                                                         *)
(* The argument.  Every step but an event's arrival, a waiter's and the    *)
(* stop makes Progress (OutcomeSteps), which keeps TableInv and IdleInv    *)
(* and is a step of the promise (OutcomeProgress).  The other three are    *)
(* shown to be so here, each by itself.                                    *)
(***************************************************************************)
EXTENDS OutcomeSteps

USE GraceAssumption, ScheduleAssumption

-----------------------------------------------------------------------------
(* An event's arrival. *)

\* An event that arrives once the readers stop is answered at once.
LEMMA PushStoppingKeeps ==
    ASSUME TypeOK, TypeOK', TableInv, IdleInv, NEW p \in Pids, PushStopping(p)
    PROVE  TableInv' /\ IdleInv' /\ Promise!Step
<1> DEFINE m == Len(events) + 1
           new == [pid |-> p, outcome |-> "answered"]
<1>0. new.pid = p /\ new.outcome = "answered" /\ new \in Events
  BY DEF Events
<1>1. /\ stopping = TRUE /\ stopping' = stopping /\ events' = Append(events, new)
      /\ UNCHANGED <<apps, held, records, watched, threads, idle, waiters, ran>>
  BY DEF PushStopping, idleVars, TypeOK
<1> HIDE DEF new
<1>2. /\ DOMAIN events' = 1..m /\ events'[m] = new /\ Len(events') = m /\ m \in Nat
      /\ \A n \in DOMAIN events : events'[n] = events[n] /\ n \in 1..m
      /\ events \in Seq(Events) /\ idle \in Seq(Waits) /\ DOMAIN events = 1..Len(events)
      /\ \A n \in 1..m : n \in DOMAIN events \/ n = m
  BY <1>0, <1>1 DEF TypeOK
<1> HIDE DEF m
<1>3. ASSUME NEW q \in Pids PROVE OwedOf(events', q) = OwedOf(events, q)
  <2>1. \A n : n \in OwedOf(events', q) <=> n \in OwedOf(events, q)
    BY <1>0, <1>2 DEF OwedOf
  <2> QED BY <2>1
<1>4. TableInv'
  <2>1. \A q \in Pids : Running(apps[q].flight) => apps[q].flight.item <= m
    <3>1. \A q \in Pids : Running(apps[q].flight) => apps[q].flight.item <= Len(events)
      BY DEF TableInv
    <3>2. \A q \in Pids : apps[q].flight.item \in Nat
      BY Zenon DEF TypeOK, Apps, Flights
    <3> QED BY SMTT(30), <1>2, <3>1, <3>2 DEF m
  <2>2. \A n \in DOMAIN events' : events'[n].outcome # "twice"
    BY <1>0, <1>2 DEF TableInv, Markers
  <2> QED BY Zenon, <1>1, <1>2, <1>3, <2>1, <2>2 DEF TableInv, Markers
<1>5. IdleInv'
  <2>1. \A i \in DOMAIN idle : idle[i].before \in Nat
    <3> SUFFICES ASSUME NEW i \in DOMAIN idle PROVE idle[i].before \in Nat
      OBVIOUS
    <3>1. idle[i] \in Waits
      BY <1>2
    <3> QED BY <3>1 DEF Waits
  <2>2. Sorted(idle, m)
    BY <1>2, <2>1 DEF IdleInv, Sorted, m
  <2> QED BY <1>1, <1>2, <2>2 DEF IdleInv
<1>6. Promise!Serve(idle, 0) /\ 0 \in 0..Len(idle)
  <2>1. idle' = SubSeq(idle, 0 + 1, Len(idle))
    BY <1>1, <1>2, SubSeqFull
  <2> QED BY SMTT(30), <1>1, <1>2, <2>1 DEF Promise!Serve
<1>7. Promise!Outcomes
  <2>1. \A n \in DOMAIN events' \ DOMAIN events : n = m
    BY <1>2
  <2>2. Len(events') \in Len(events)..(Len(events) + 1)
    BY <1>2 DEF m
  <2>3. \A n \in DOMAIN events : events'[n] = events[n]
    BY <1>2
  <2> QED BY <1>0, <1>1, <1>2, <2>1, <2>2, <2>3 DEF Promise!Outcomes, Promise!InItsTurn, Promise!Settles
<1> QED BY <1>1, <1>4, <1>5, <1>6, <1>7 DEF Promise!Step

\* Another that arrives is owed, in place of those it replaces, or answered with all
\* that waited too long (Schedule::push).
LEMMA PushRunningKeeps ==
    ASSUME TypeOK, TypeOK', ThreadInv, ThreadInv', TableInv, IdleInv,
           NEW p \in Pids, NEW key \in Keys \union {NoKey}, NEW window \in Windows,
           PushRunning(p, key, window)
    PROVE  TableInv' /\ IdleInv' /\ Promise!Step
<1> DEFINE m == Len(events) + 1
           app == apps[p]
           same == {e \in app.queue : key # NoKey /\ e.key = key}
           replaced == MarkersOf(same)
           entry == [marker |-> m, key |-> key, window |-> window]
           a == [app EXCEPT !.ending = FALSE, !.queue = (@ \ same) \union {entry}]
           past == a.limitReached # NoTime /\ now >= a.limitReached + Deadline
           drops == ~a.threaded /\ past
           starts == ~a.threaded /\ ~past /\ Room(a.abandoned)
           next == IF drops THEN [a EXCEPT !.queue = {}]
                   ELSE IF starts THEN Started(a) ELSE a
           dropped == IF drops THEN MarkersOf(a.queue) ELSE {}
<1>0. /\ app \in Apps /\ m \in Nat /\ now \in Nat /\ events \in Seq(Events) /\ idle \in Seq(Waits)
      /\ Sound(app, FALSE) /\ (Running(app.flight) => app.threaded)
      /\ OwedBy(app) = OwedOf(events, p) /\ (Running(app.flight) => app.flight.item <= Len(events))
      /\ (p \in held \/ app = NoApp) /\ stopping = FALSE /\ app.flight.item \in Nat
  <2>1. stopping = FALSE
    BY Zenon DEF TypeOK, PushRunning
  <2>2. p \in held \/ app = NoApp
    BY DEF ThreadInv, Consistent
  <2>3. app.flight.item \in Nat
    BY Zenon DEF TypeOK, Apps, Flights
  <2>4. /\ app \in Apps /\ m \in Nat /\ now \in Nat /\ events \in Seq(Events) /\ idle \in Seq(Waits)
    BY DEF TypeOK
  <2>5. /\ Sound(app, stopping) /\ OwedBy(app) = OwedOf(events, p)
        /\ Running(app.flight) => app.flight.item <= Len(events)
    BY DEF TableInv
  <2>6. Running(app.flight) => app.threaded
    BY Zenon, ReadIsManned
  <2> HIDE DEF app, m
  <2> QED BY Zenon, <2>1, <2>2, <2>3, <2>4, <2>5, <2>6
<1>1. (IF p \in held THEN apps[p] ELSE NoApp) = app
  BY <1>0
<1>2. /\ apps' = [apps EXCEPT ![p] = next] /\ held' = held \union {p}
      /\ stopping' = stopping /\ watched' = watched
  BY Zenon, <1>1 DEF PushRunning
<1>e. events' = Answer(Answer(Append(events, [pid |-> p, outcome |-> "owed"]), replaced, "replaced"),
                       dropped, "answered")
  <2> DEFINE Keyed(z) == {e \in z.queue : key # NoKey /\ e.key = key}
             A(z) == [z EXCEPT !.ending = FALSE, !.queue = (@ \ Keyed(z)) \union {entry}]
             Past(z) == A(z).limitReached # NoTime /\ now >= A(z).limitReached + Deadline
             Grow(z) == Answer(Answer(Append(events, [pid |-> p, outcome |-> "owed"]),
                                      MarkersOf(Keyed(z)), "replaced"),
                               IF ~A(z).threaded /\ Past(z) THEN MarkersOf(A(z).queue) ELSE {},
                               "answered")
  <2>1. events' = Grow(IF p \in held THEN apps[p] ELSE NoApp)
    BY Zenon DEF PushRunning
  <2>2. events' = Grow(app)
    <3> HIDE DEF Grow, app
    <3> QED BY <1>1, <2>1
  <2> QED BY Zenon, <2>2
<1>s. IF starts
      THEN /\ records' = records \union {p}
           /\ threads' = threads \union {Thread(p, next.flight.generation)} \/ threads' = threads
      ELSE /\ threads' \in (IF a.threaded THEN Wake(threads, p) ELSE {threads})
           /\ records' = records
  BY Zenon, <1>1 DEF PushRunning
<1>i. IF replaced # {} \/ drops THEN WakeIdleWaiters(idle, waiters, apps', held')
      ELSE idle' = idle /\ waiters' = waiters /\ ran' = ran
  BY Zenon, <1>1 DEF PushRunning, idleVars
<1>3. \A n \in OwedBy(app) : n < m
  BY <1>0 DEF OwedOf
<1>4. Running(app.flight) => app.flight.item < m
  BY <1>0
<1>5. Arrives(app, m, replaced, dropped, next)
  <2> HIDE DEF m, app
  <2> QED BY ZenonT(60), <1>0, <1>3, <1>4, PushMoves
<1>6. starts \/ p \in held
  <2>1. SUFFICES ASSUME app = NoApp PROVE starts
    BY <1>0
  <2>2. a.threaded = FALSE /\ a.limitReached = NoTime /\ a.abandoned = 0
    BY <2>1 DEF NoApp
  <2> QED BY <2>2 DEF Room
<1>7. drops <=> dropped # {}
  <2>1. entry \in a.queue
    BY <1>0 DEF Apps
  <2>2. MarkersOf(a.queue) # {}
    BY Zenon, <2>1 DEF MarkersOf
  <2> HIDE DEF a, drops
  <2> QED BY <2>2
<1>t. threads' = threads \/ threads' \in Wake(threads, p)
         \/ threads' = threads \union {Thread(p, next.flight.generation)}
  <2> HIDE DEF a, next, starts
  <2> QED BY <1>s
<1> HIDE DEF app,  a, next, replaced, dropped, drops, starts, same
<1>8. /\ replaced \subseteq OwedOf(events, p)
      /\ dropped = {} \/ dropped = (OwedOf(events, p) \ replaced) \union {m}
      /\ OwedBy(next) = IF dropped = {} THEN (OwedOf(events, p) \ replaced) \union {m} ELSE {}
      /\ Sound(next, FALSE) /\ Follows(app, next) /\ next.flight.request = app.flight.request
  BY Zenon, <1>0, <1>5 DEF Arrives
<1>9. /\ Len(events') = m /\ DOMAIN events' = 1..m /\ events'[m].pid = p
      /\ events'[m].outcome = IF m \in dropped THEN "answered" ELSE "owed"
      /\ \A n \in DOMAIN events :
            /\ events'[n].pid = events[n].pid
            /\ events'[n].outcome = IF n \in dropped THEN "answered"
                                    ELSE IF n \in replaced THEN "replaced" ELSE events[n].outcome
            /\ n \notin dropped \union replaced => events'[n] = events[n]
      /\ OwedOf(events', p) = IF dropped = {} THEN (OwedOf(events, p) \ replaced) \union {m} ELSE {}
      /\ \A q \in Pids \ {p} : OwedOf(events', q) = OwedOf(events, q)
  <2>1. Grown(events, p, replaced, dropped, events')
    BY ZenonT(60), <1>0, <1>e, <1>8, PushedHistory
  <2> QED BY <2>1 DEF Grown
<1>10. /\ DOMAIN events = 1..Len(events) /\ \A n \in DOMAIN events : n \in 1..m /\ n # m /\ n < m
       /\ \A n \in 1..m : n \in DOMAIN events \/ n = m
       /\ m \in 1..m
  BY <1>0
<1> HIDE DEF m
<1>11. ASSUME NEW q \in Pids
       PROVE  /\ Sound(apps'[q], FALSE) /\ OwedBy(apps'[q]) = OwedOf(events', q)
              /\ watched'[q] = apps'[q].flight.request
              /\ Running(apps'[q].flight) => apps'[q].flight.item <= m
  <2>1. CASE q = p
    <3>1. apps'[q] = next
      BY <1>2, <2>1 DEF TypeOK
    <3>2. OwedBy(next) = OwedOf(events', p)
      BY <1>8, <1>9
    <3>0. \A n \in OwedBy(app) : n \in Nat
      BY <1>0 DEF OwedOf
    <3>3. Running(next.flight) => next.flight.item <= m
      BY <1>0, <1>3, <1>4, <1>8, <3>0 DEF Follows
    <3>4. watched[p] = app.flight.request
      BY DEF TableInv, app
    <3> QED BY Zenon, <1>2, <1>8, <2>1, <3>1, <3>2, <3>3, <3>4
  <2>2. CASE q # p
    <3>1. apps'[q] = apps[q] /\ watched'[q] = watched[q] /\ OwedOf(events', q) = OwedOf(events, q)
      BY <1>2, <1>9, <2>2 DEF TypeOK
    <3>2. apps[q].flight.item \in Nat
      BY Zenon DEF TypeOK, Apps, Flights
    <3>3. /\ Sound(apps[q], FALSE) /\ OwedBy(apps[q]) = OwedOf(events, q)
          /\ watched[q] = apps[q].flight.request
          /\ Running(apps[q].flight) => apps[q].flight.item <= Len(events)
      BY Zenon, <1>0 DEF TableInv
    <3>4. Running(apps[q].flight) => apps[q].flight.item <= m
      BY <1>0, <3>2, <3>3 DEF m
    <3> QED BY Zenon, <3>1, <3>3, <3>4
  <2> QED BY Zenon, <2>1, <2>2
<1>12. records' = held'
  BY <1>2, <1>s, <1>6 DEF TableInv
<1>13. \A t \in threads' : t.pc \in Busy => t.request.generation = t.generation
  <2>1. CASE threads' = threads
    BY <2>1 DEF TableInv
  <2>2. CASE threads' \in Wake(threads, p)
    BY Zenon, <2>2, WakeReads
  <2>3. CASE threads' = threads \union {Thread(p, next.flight.generation)}
    <3>1. Thread(p, next.flight.generation).pc \notin Busy
      BY DEF Thread, Busy
    <3> QED BY <2>3, <3>1 DEF TableInv
  <2> QED BY <1>t, <2>1, <2>2, <2>3
<1>14. TableInv'
  <2>1. \A n \in DOMAIN events' : events'[n].outcome # "twice"
    BY <1>9, <1>10 DEF TableInv, Markers
  <2>2. \A q \in Pids : /\ Sound(apps'[q], stopping') /\ watched'[q] = apps'[q].flight.request
                        /\ OwedBy(apps'[q]) = OwedOf(events', q)
                        /\ Running(apps'[q].flight) => apps'[q].flight.item <= Len(events')
    <3>1. stopping' = FALSE /\ Len(events') = m
      BY <1>0, <1>2, <1>9
    <3> QED BY Zenon, <3>1, <1>11
  <2> QED BY <1>12, <1>13, <2>1, <2>2 DEF TableInv, Markers
<1>15. Accounts(apps', held', events')
  <2>1. \A q \in Pids : InOrder(apps'[q]) /\ OwedBy(apps'[q]) = OwedOf(events', q)
    BY Zenon, <1>11 DEF Sound
  <2>2. \A q \in Pids : apps'[q] \in Apps /\ (q \in held' \/ apps'[q] = NoApp)
    BY DEF TypeOK, ThreadInv, Consistent
  <2> QED BY <2>1, <2>2 DEF Accounts, TypeOK
<1>16. /\ Sorted(idle, m) /\ Numbered(idle, waiters, ran) /\ Caused(idle, events)
  <2>1. \A i \in DOMAIN idle : idle[i].before \in Nat
    <3> SUFFICES ASSUME NEW i \in DOMAIN idle PROVE idle[i].before \in Nat
      OBVIOUS
    <3>1. idle[i] \in Waits
      BY SMTT(120), <1>0
    <3> QED BY <3>1 DEF Waits
  <2> QED BY SMTT(120), <1>0, <2>1 DEF IdleInv, Sorted, m
<1>17. IdleInv' /\ \E n \in 0..Len(idle) : Promise!Serve(idle, n)
  <2>1. CASE replaced # {} \/ drops
    <3>1. WakeIdleWaiters(idle, waiters, apps', held') /\ events' \in Seq(Events)
      BY <1>i, <2>1 DEF TypeOK
    <3>2. Served(idle, events')
      BY Zenon, <1>0, <1>9, <1>15, <1>16, <3>1, LineServed
    <3>3. IdleInv'
      BY <1>2, <3>2 DEF IdleInv, Served
    <3> QED BY ZenonT(60), <1>9, <1>10, <3>2, <3>3 DEF Served, Promise!Serve, Promise!Settles
  <2>2. CASE ~(replaced # {} \/ drops)
    <3>1. idle' = idle /\ waiters' = waiters /\ ran' = ran /\ dropped = {} /\ replaced = {}
      BY <1>i, <1>7, <2>2
    <3>2. Caused(idle, events')
      BY <1>9, <1>10, <1>16, <3>1 DEF Caused
    <3>3. IdleInv'
      BY <1>0, <1>2, <1>9, <1>16, <3>1, <3>2 DEF IdleInv
    <3>4. Promise!Serve(idle, 0)
      <4>1. idle' = SubSeq(idle, 0 + 1, Len(idle))
        <5>1. SubSeq(idle, 1, Len(idle)) = idle
          BY Zenon, <1>0, SubSeqFull
        <5> QED BY <3>1, <5>1
      <4>2. ran \union {idle[i].waiter : i \in 1..0} = ran
        OBVIOUS
      <4> QED BY SMTT(120), <3>1, <4>1, <4>2 DEF Promise!Serve
    <3>5. 0 \in 0..Len(idle)
      BY SMTT(30), <1>0
    <3> QED BY <3>3, <3>4, <3>5
  <2> QED BY <2>1, <2>2
<1>18. Promise!Outcomes
  <2>1. ASSUME NEW n \in 1..m, n \in dropped PROVE Promise!InItsTurn(n)
    <3>1. events'[n].outcome = "answered" /\ events'[n].pid = p
      <4>1. n \in OwedOf(events, p) \/ n = m
        BY <1>8, <2>1
      <4> QED BY <1>9, <2>1, <4>1 DEF OwedOf
    <3>2. OwedOf(events', p) = {}
      BY <1>9, <2>1
    <3>3. \A k \in 1..n : events'[k].pid = p => events'[k].outcome # "owed"
      BY SMTT(30), <1>9, <1>10, <3>2 DEF OwedOf
    <3> QED BY <3>1, <3>3 DEF Promise!InItsTurn, Promise!Settles
  <2>2. ASSUME NEW n \in DOMAIN events, n \in replaced, n \notin dropped PROVE Promise!GivesWay(n)
    <3>1. events[n].pid = p
      BY <1>8, <2>2 DEF OwedOf
    <3>2. Len(events') > Len(events)
      BY SMTT(120), <1>0, <1>9 DEF m
    <3> QED BY <1>9, <2>2, <3>1, <3>2 DEF Promise!GivesWay
  <2>3. \A n \in DOMAIN events : events[n].outcome # "owed" => events'[n] = events[n]
    <3>1. \A n \in DOMAIN events : events[n].outcome # "owed" => n \notin replaced /\ n \notin dropped
      BY <1>8, <1>10 DEF OwedOf
    <3> QED BY <1>9, <3>1
  <2>4. \A n \in DOMAIN events' \ DOMAIN events : n = m
    BY <1>9, <1>10
  <2>5. Len(events') \in Len(events)..(Len(events) + 1)
    BY SMTT(120), <1>0, <1>9 DEF m
  <2>6. ASSUME NEW n \in DOMAIN events, events[n].outcome = "owed", Promise!Settles(n)
        PROVE  Promise!InItsTurn(n) \/ Promise!GivesWay(n)
    <3>1. n \in dropped \/ n \in replaced
      BY <1>9, <2>6 DEF Promise!Settles
    <3> QED BY <1>10, <2>1, <2>2, <3>1
  <2>7. Promise!Settles(m) => Promise!InItsTurn(m)
    BY <1>9, <1>10, <2>1 DEF Promise!Settles
  <2> QED BY <1>9, <2>3, <2>4, <2>5, <2>6, <2>7 DEF Promise!Outcomes
<1> QED BY <1>2, <1>14, <1>17, <1>18 DEF Promise!Step

-----------------------------------------------------------------------------
(* An idle waiter's arrival, and the stop. *)

\* A waiter that comes joins the line, and those that nothing is owed before run
\* (Schedule::when_idle).
LEMMA WhenIdleKeeps ==
    ASSUME TypeOK, ThreadInv, TableInv, IdleInv, WhenIdle
    PROVE  TableInv' /\ IdleInv' /\ Promise!Join
<1> DEFINE id == Cardinality(waiters \union ran) + 1
           w == [before |-> Len(events), waiter |-> id]
           line == Append(idle, w)
<1>1. /\ events \in Seq(Events) /\ idle \in Seq(Waits) /\ stopping = FALSE
      /\ UNCHANGED <<apps, held, stopping, events, records, watched, threads>>
      /\ WakeIdleWaiters(line, waiters \union {id}, apps, held)
  BY Zenon DEF WhenIdle, TypeOK
<1>2. Sorted(idle, Len(events)) /\ Numbered(idle, waiters, ran)
  BY <1>1 DEF IdleInv
<1>3. Len(events) \in Nat
  BY <1>1
<1>4. /\ id = Cardinality(ran) + Len(idle) + 1 /\ id \in Nat
      /\ Numbered(line, waiters \union {id}, ran)
  <2> DEFINE d == Cardinality(ran) + Len(idle) + 1
  <2>1. /\ id = d /\ d \in Nat
        /\ Numbered(Append(idle, [before |-> Len(events), waiter |-> d]), waiters \union {d}, ran)
    BY Zenon, <1>1, <1>2, <1>3, NumberedJoins
  <2> HIDE DEF id, d
  <2> QED BY <2>1 DEF d
<1>5. line = Promise!Joins
  <2>1. Promise!Cardinality(ran) = Cardinality(ran)
    BY Zenon DEF Cardinality, Promise!Cardinality
  <2> HIDE DEF id
  <2> QED BY <1>4, <2>1 DEF Promise!Joins
<1>6. w \in Waits /\ w.before = Len(events)
  BY <1>3, <1>4 DEF Waits
<1> HIDE DEF w, id
<1>7. line \in Seq(Waits) /\ Sorted(line, Len(events))
  BY <1>1, <1>2, <1>3, <1>6, SortedJoins
<1> HIDE DEF line
<1>8. TableInv'
  BY <1>1 DEF TableInv, Markers
<1>9. Accounts(apps, held, events)
  <2>1. \A p \in Pids : InOrder(apps[p]) /\ OwedBy(apps[p]) = OwedOf(events, p)
    BY DEF TableInv, Sound
  <2>2. \A p \in Pids : apps[p] \in Apps /\ (p \in held \/ apps[p] = NoApp)
    BY DEF TypeOK, ThreadInv, Consistent
  <2> QED BY <2>1, <2>2 DEF Accounts, TypeOK
<1>10. Served(line, events)
  <2> DEFINE closures == waiters \union {id}
  <2>1. WakeIdleWaiters(line, closures, apps, held) /\ Numbered(line, closures, ran) /\ stopping \in BOOLEAN
    BY Zenon, <1>1, <1>4
  <2> HIDE DEF closures
  <2>2. stopping => closures = {}
    BY <1>1
  <2> QED BY Zenon, <1>1, <1>7, <1>9, <2>1, <2>2, LineServed
<1>11. IdleInv'
  BY <1>1, <1>10 DEF IdleInv, Served
<1>12. \E n \in 0..Len(Promise!Joins) : Promise!Serve(Promise!Joins, n)
  <2>1. \E n \in 0..Len(line) : Promise!Serve(line, n)
    BY Zenon, <1>1, <1>10 DEF Served, Promise!Serve, Promise!Settles
  <2> QED BY Zenon, <1>5, <2>1
<1> QED BY <1>1, <1>8, <1>11, <1>12 DEF Promise!Join

\* Stopping leaves what is owed to be answered or not, and forgets the waiters
\* (Schedule::stop).
LEMMA StopKeeps ==
    ASSUME TypeOK, TableInv, IdleInv, Stop
    PROVE  TableInv' /\ IdleInv' /\ Promise!Stop
<1>1. /\ stopping' = TRUE /\ waiters' = {}
      /\ threads' = {[t EXCEPT !.pc = IF @ = "waiting" THEN "next" ELSE @] : t \in threads}
      /\ UNCHANGED <<apps, held, idle, events, records, watched, ran>>
  BY DEF Stop
<1>2. \A p \in Pids : Sound(apps[p], TRUE)
  BY DEF TableInv, Sound, Limited
<1>3. ASSUME NEW u \in threads', u.pc \in Busy PROVE u.request.generation = u.generation
  <2>1. PICK t \in threads : u = [t EXCEPT !.pc = IF @ = "waiting" THEN "next" ELSE @]
    BY <1>1
  <2>2. t \in Threads
    BY DEF TypeOK
  <2>3. t.pc \in Busy /\ u.request = t.request /\ u.generation = t.generation
    BY <1>3, <2>1, <2>2 DEF Threads, Busy
  <2> QED BY <2>3 DEF TableInv
<1>4. TableInv'
  BY Zenon, <1>1, <1>2, <1>3 DEF TableInv, Markers
<1>5. IdleInv'
  BY <1>1 DEF IdleInv
<1> QED BY <1>1, <1>4, <1>5 DEF Promise!Stop

-----------------------------------------------------------------------------
(* The theorems. *)

\* Every step keeps the tables and the idle line, and is one the promise allows.
LEMMA EveryStepKeeps ==
    ASSUME TypeOK, TypeOK', ThreadInv, ThreadInv', TableInv, IdleInv, [Next]_vars
    PROVE  TableInv' /\ IdleInv' /\ Promise!Next
<1>p. ASSUME \E outs : Progress(outs) PROVE TableInv' /\ IdleInv' /\ Promise!Next
  <2>1. PICK outs : Progress(outs)
    BY <1>p
  <2>2. TableInv' /\ IdleInv' /\ Promise!Step
    BY Zenon, <2>1, ProgressKeeps
  <2> QED BY <2>2 DEF Promise!Next
<1>1. ASSUME NEW p \in Pids, NEW key \in Keys \union {NoKey}, NEW window \in Windows,
             Push(p, key, window)
      PROVE  TableInv' /\ IdleInv' /\ Promise!Next
  <2>1. CASE PushStopping(p)
    BY Zenon, <2>1, PushStoppingKeeps DEF Promise!Next
  <2>2. CASE PushRunning(p, key, window)
    BY Zenon, <2>2, PushRunningKeeps DEF Promise!Next
  <2> QED BY Zenon, <1>1, <2>1, <2>2 DEF Push
<1>2. ASSUME NEW p \in Pids, OutpostEnded(p) PROVE TableInv' /\ IdleInv' /\ Promise!Next
  BY Zenon, <1>2, <1>p, OutpostEndedProgress
<1>3. ASSUME WhenIdle PROVE TableInv' /\ IdleInv' /\ Promise!Next
  BY Zenon, <1>3, WhenIdleKeeps DEF Promise!Next
<1>4. ASSUME Stop PROVE TableInv' /\ IdleInv' /\ Promise!Next
  BY Zenon, <1>4, StopKeeps DEF Promise!Next
<1>5. ASSUME NEW t \in threads, NextJob(t) \/ SpuriousWake(t) \/ ReadReturns(t) \/ Learn(t)
      PROVE  TableInv' /\ IdleInv' /\ Promise!Next
  BY Zenon, <1>5, <1>p, NextJobProgress, ReadReturnsProgress, ReadProgress
<1>6. ASSUME NEW t \in threads, NEW b \in Bounds, Arm(t, b) PROVE TableInv' /\ IdleInv' /\ Promise!Next
  BY Zenon, <1>6, <1>p, ReadProgress
<1>7. ASSUME WatchdogTick PROVE TableInv' /\ IdleInv' /\ Promise!Next
  BY Zenon, <1>7, <1>p, WatchdogProgress
<1>8. ASSUME NEW k \in asks, AnswerJudge(k) \/ AnswerPublish(k)
      PROVE  TableInv' /\ IdleInv' /\ Promise!Next
  BY Zenon, <1>8, <1>p, WatchdogProgress
<1>9. ASSUME NEW f \in failed, SpawnFailed(f) PROVE TableInv' /\ IdleInv' /\ Promise!Next
  BY Zenon, <1>9, <1>p, WatchdogProgress
<1>10. ASSUME TimerGoesOff \/ AlarmWait \/ Clock \/ UNCHANGED vars
       PROVE  TableInv' /\ IdleInv' /\ Promise!Next
  <2>1. UNCHANGED <<apps, held, stopping, idle, waiters, ran, events, records, watched, threads>>
    BY SMTT(120), <1>10 DEF TimerGoesOff, AlarmWait, Clock, vars, idleVars
  <2>2. \A t \in threads' : t.pc \in Busy => t.request.generation = t.generation
    BY <2>1 DEF TableInv
  <2>3. UNCHANGED <<apps, held, stopping, idle, waiters, ran, events, records, watched>>
    BY <2>1
  <2> QED BY Zenon, <1>p, <2>2, <2>3, StillProgress
<1> QED BY SMTT(30), <1>1, <1>2, <1>3, <1>4, <1>5, <1>6, <1>7, <1>8, <1>9, <1>10 DEF Next

\* At the start nothing is owed and nobody waits.
LEMMA StartKeeps ==
    ASSUME Init PROVE TableInv /\ IdleInv /\ Promise!Init
<1>1. /\ apps = [p \in Pids |-> NoApp] /\ held = {} /\ records = {} /\ stopping = FALSE
      /\ events = <<>> /\ idle = <<>> /\ watched = [p \in Pids |-> NoRequest]
      /\ waiters = {} /\ ran = {} /\ threads = {}
  BY DEF Init
<1>2. Sound(NoApp, FALSE) /\ OwedBy(NoApp) = {} /\ NoApp.flight.request = NoRequest /\ ~Running(NoApp.flight)
  <2>1. /\ NoApp.queue = {} /\ ~NoApp.threaded /\ NoApp.abandoned = 0
        /\ NoApp.flight.walk = "None" /\ NoApp.flight.request = NoRequest
    BY DEF NoApp, New
  <2>2. MarkersOf({}) = {} /\ ~Running(NoApp.flight)
    BY <2>1 DEF MarkersOf, Running
  <2>3. InOrder(NoApp) /\ Requested(NoApp.flight)
    BY Zenon, <2>1, <2>2 DEF InOrder, Requested
  <2>4. Limited(NoApp, FALSE)
    BY <2>1 DEF Limited
  <2>5. OwedBy(NoApp) = {}
    BY <2>1, <2>2 DEF OwedBy, Accepts, RunningOf
  <2> QED BY Zenon, <2>1, <2>2, <2>3, <2>4, <2>5 DEF Sound
<1>3. \A p \in Pids : OwedOf(events, p) = {}
  BY <1>1 DEF OwedOf
<1>4. TableInv
  <2>1. ASSUME NEW p \in Pids
        PROVE  /\ Sound(apps[p], stopping)
               /\ watched[p] = apps[p].flight.request
               /\ OwedBy(apps[p]) = OwedOf(events, p)
               /\ Running(apps[p].flight) => apps[p].flight.item <= Len(events)
    <3>1. apps[p] = NoApp /\ watched[p] = NoRequest
      BY <1>1
    <3> QED BY Zenon, <1>1, <1>2, <1>3, <3>1
  <2>2. records = held /\ Markers = {} /\ threads = {}
    BY <1>1 DEF Markers
  <2> QED BY Zenon, <2>1, <2>2 DEF TableInv
<1>5. Numbered(idle, waiters, ran)
  <2>1. Cardinality(ran) = 0
    BY <1>1, FS_EmptySet
  <2> QED BY <1>1, <2>1 DEF Numbered
<1>6. IdleInv
  BY <1>1, <1>5 DEF IdleInv, Sorted, Caused
<1> QED BY <1>1, <1>4, <1>6 DEF Promise!Init

\* The tables account for the history, and the idle line for the waiters, whatever
\* the steps taken.
LEMMA TablesAccount == Spec => [](TableInv /\ IdleInv)
<1>1. Init => TableInv /\ IdleInv
  BY Zenon, StartKeeps
<1>2. TypeOK /\ TypeOK' /\ ThreadInv /\ ThreadInv' /\ (TableInv /\ IdleInv) /\ [Next]_vars =>
         (TableInv /\ IdleInv)'
  BY Zenon, EveryStepKeeps
<1> QED BY <1>1, <1>2, TypeCorrect, ThreadsConsistent, PTL DEF Spec

\* The read scheduler implements the listener's promise: every event one outcome,
\* sent once and in its turn, every idle waiter run behind the events it came after
\* (Schedule's send of each Outcome, and wake_idle_waiters).
THEOREM PromiseImplemented == Spec => PromiseKept
<1>1. Init => Promise!Init
  BY Zenon, StartKeeps
<1>2. TypeOK /\ TypeOK' /\ ThreadInv /\ ThreadInv' /\ (TableInv /\ IdleInv) /\ [Next]_vars =>
         [Promise!Next]_(Promise!vars)
  BY Zenon, EveryStepKeeps
<1> QED BY <1>1, <1>2, TypeCorrect, ThreadsConsistent, TablesAccount, PTL DEF Spec, PromiseKept, Promise!Spec

\* What is owed is exactly what the schedule still holds, each event in its own
\* application, once and in order, and none is answered twice (check_tables).
THEOREM OutcomesAccounted == Spec => []OwedMatches
<1>1. TypeOK /\ ThreadInv /\ (TableInv /\ IdleInv) => OwedMatches
  <2> SUFFICES ASSUME TypeOK, ThreadInv, TableInv PROVE OwedMatches
    OBVIOUS
  <2>1. \A m \in Markers : events[m].outcome # "twice"
    BY DEF TableInv
  <2>2. ASSUME NEW m \in Markers PROVE events[m].pid \in Pids
    <3>1. events \in Seq(Events) /\ m \in DOMAIN events
      BY DEF TypeOK, Markers
    <3>2. events[m] \in Events
      BY <3>1
    <3> QED BY <3>2 DEF Events
  <2>3. ASSUME NEW p \in Pids \ held PROVE OwedOf(events, p) = {}
    <3>1. apps[p] = NoApp
      BY DEF ThreadInv, Consistent
    <3>2. OwedBy(NoApp) = {}
      BY DEF OwedBy, NoApp, MarkersOf, Accepts, RunningOf, Running, New
    <3> QED BY <3>1, <3>2 DEF TableInv
  <2>4. held \subseteq Pids /\ \A p \in Pids : OwedBy(apps[p]) = OwedOf(events, p)
    BY DEF TypeOK, TableInv
  <2>5. Owed = UNION {OwedBy(apps[p]) : p \in held}
    BY SMTT(60), <2>2, <2>3, <2>4 DEF Owed, OwedOf, Markers
  <2>6. ASSUME NEW p \in held
        PROVE  /\ \A m \in OwedBy(apps[p]) : events[m].pid = p
               /\ InOrder(apps[p])
    BY SMTT(120), <2>4 DEF OwedOf, TableInv, Sound
  <2> QED BY <2>1, <2>5, <2>6 DEF OwedMatches, InOrder
<1> QED BY <1>1, TypeCorrect, ThreadsConsistent, TablesAccount, PTL

\* The shell keeps one record for each application the schedule holds, and the read
\* it shares is the one under way (check_tables; Readers' watched and records).
THEOREM RecordsAgree == Spec => []RecordsMatch
<1>1. TypeOK /\ ThreadInv /\ (TableInv /\ IdleInv) => RecordsMatch
  <2> SUFFICES ASSUME TypeOK, ThreadInv, TableInv PROVE RecordsMatch
    OBVIOUS
  <2>1. ASSUME NEW p \in Pids
        PROVE  watched[p] = IF p \in held THEN apps[p].flight.request ELSE NoRequest
    <3>1. watched[p] = apps[p].flight.request
      BY DEF TableInv
    <3>2. p \notin held => apps[p] = NoApp
      BY DEF ThreadInv, Consistent
    <3> QED BY SMTT(120), <3>1, <3>2 DEF NoApp, New
  <2> QED BY <2>1 DEF RecordsMatch, TableInv
<1> QED BY <1>1, TypeCorrect, ThreadsConsistent, TablesAccount, PTL

\* Events wait with no thread only at the abandoned limit, and then with an end to
\* their wait; the threads of one application never exceed the limit (Schedule's
\* start of a thread, abandon and room).
THEOREM WaitsBounded == Spec => []WaitIsBounded
<1>1. TypeOK /\ ThreadInv /\ (TableInv /\ IdleInv) => WaitIsBounded
  <2> SUFFICES ASSUME TypeOK, ThreadInv, TableInv, NEW p \in held
               PROVE  /\ ~stopping /\ ~apps[p].threaded /\ apps[p].queue # {} =>
                            apps[p].abandoned >= Limit /\ apps[p].limitReached # NoTime
                      /\ Cardinality(Mine(p)) <= Limit
    BY DEF WaitIsBounded, Mine
  <2> DEFINE a == apps[p]
             ts == Mine(p)
             ours == {t \in ts : t.generation = a.flight.generation}
  <2>1. /\ a \in Apps /\ Limited(a, stopping) /\ Limit \in Nat
        /\ Counted(a, ts) /\ Placed(a, ts)
    <3>1. p \in Pids
      BY DEF TypeOK
    <3> QED BY Zenon, <3>1, ScheduleAssumption DEF TypeOK, TableInv, Sound, ThreadInv, Consistent
  <2>2. a.abandoned \in Nat
    BY <2>1 DEF Apps
  <2> HIDE DEF a, ts
  <2>3. IsFiniteSet(ts) /\ Cardinality(Strays(a, ts)) = a.abandoned
    BY <2>1 DEF Counted
  <2>4. Cardinality(ts) <= Limit
    <3>1. CASE ours = {}
      <4>1. Strays(a, ts) = ts
        BY <3>1 DEF Strays
      <4> QED BY <2>1, <2>3, <4>1 DEF Limited
    <3>2. CASE ours # {}
      <4>1. PICK t \in ts : t.generation = a.flight.generation
        BY <3>2
      <4>2. Strays(a, ts) = ts \ {t}
        BY <2>1, <4>1 DEF Strays, Placed
      <4>3. a.threaded
        BY <2>1, <4>1 DEF Placed
      <4>4. Cardinality(ts \ {t}) = Cardinality(ts) - 1 /\ Cardinality(ts) \in Nat
        BY <2>3, <4>1, FS_RemoveElement, FS_CardinalityType
      <4> QED BY SMTT(120), <2>1, <2>2, <2>3, <4>2, <4>3, <4>4 DEF Limited
    <3> QED BY <3>1, <3>2
  <2>5. ~stopping /\ ~a.threaded /\ a.queue # {} => a.abandoned >= Limit /\ a.limitReached # NoTime
    BY <2>1, <2>2 DEF Limited
  <2> QED BY <2>4, <2>5 DEF a, ts
<1> QED BY <1>1, TypeCorrect, ThreadsConsistent, TablesAccount, PTL

\* An idle waiter still in line waits for an event queued before it
\* (Schedule::when_idle, wake_idle_waiters).
THEOREM WaitersCaused == Spec => []IdleHasCause
<1>1. TableInv /\ IdleInv => IdleHasCause
  BY DEF IdleInv, Caused, IdleHasCause, Owed, Markers
<1> QED BY <1>1, TablesAccount, PTL
=============================================================================
