---------------------------- MODULE OutcomeSteps ----------------------------
(***************************************************************************)
(* The steps that make Progress: the watchdog's and those of the asks it   *)
(* answers, a thread's, and the end of an outpost.                         *)
(***************************************************************************)
EXTENDS OutcomeProgress

USE GraceAssumption, ScheduleAssumption

-----------------------------------------------------------------------------
(* The steps of the watchdog and of the asks' answers. *)

\* A step over r, of results that answer the events in outs.
LEMMA ApplyProgress ==
    ASSUME TypeOK, TableInv, NEW P \in SUBSET held, NEW r \in [P -> Results], NEW outs, NEW was,
           Apply(r, Answer(events, UNION {outs[p] : p \in P}, "answered"), was),
           \A p \in P : /\ Moves(apps[p], r[p].app, outs[p], stopping)
                        /\ outs[p] # {} => r[p].wake
                        /\ r[p].app.flight.request =
                              IF r[p].unwatch THEN NoRequest ELSE apps[p].flight.request
    PROVE  \E all : Progress(all)
<1> DEFINE all == [p \in Pids |-> IF p \in P THEN outs[p] ELSE {}]
           spawned == {p \in DOMAIN r : r[p].spawn}
<1>0. P \subseteq Pids /\ DOMAIN r = P /\ records = held
  BY DEF TypeOK, TableInv
<1>1. PICK refused \in SUBSET spawned :
        /\ apps' = [p \in Pids |-> IF p \in DOMAIN r THEN r[p].app ELSE apps[p]]
        /\ events' = Answer(events, UNION {outs[p] : p \in P}, "answered")
        /\ watched' = [p \in Pids |-> IF p \in DOMAIN r /\ r[p].unwatch THEN NoRequest ELSE watched[p]]
        /\ records' = records \union spawned
        /\ threads' = threads \union
              {Thread(p, r[p].app.flight.generation) : p \in spawned \ refused}
        /\ IF \E p \in DOMAIN r : r[p].wake
           THEN WakeIdleWaiters(idle, waiters, apps', held) ELSE UNCHANGED idleVars
        /\ UNCHANGED <<held, stopping>>
  BY Zenon DEF Apply
<1>2. ASSUME NEW p \in Pids PROVE Moves(apps[p], apps'[p], all[p], stopping)
  <2>1. CASE p \in P
    BY <1>0, <1>1, <2>1
  <2>2. CASE p \notin P
    <3>1. Sound(apps[p], stopping) /\ apps'[p] = apps[p] /\ all[p] = {}
      BY <1>0, <1>1, <2>2 DEF TableInv
    <3> QED BY <3>1 DEF Moves, Settled, Follows
  <2> QED BY <2>1, <2>2
<1>3. UNION {all[p] : p \in Pids} = UNION {outs[p] : p \in P}
  BY <1>0
<1>4. ASSUME NEW p \in Pids PROVE watched'[p] = apps'[p].flight.request
  <2>1. watched[p] = apps[p].flight.request
    BY DEF TableInv
  <2> QED BY <1>0, <1>1, <2>1
<1>5. records' = held' /\ stopping' = stopping /\ held' = held
  BY <1>0, <1>1
<1>6. ASSUME NEW t \in threads', t.pc \in Busy PROVE t.request.generation = t.generation
  <2>1. CASE t \in threads
    BY <1>6, <2>1 DEF TableInv
  <2>2. CASE t \notin threads
    <3>1. t.pc = "next"
      BY <1>1, <2>2 DEF Thread
    <3> QED BY <1>6, <3>1 DEF Busy
  <2> QED BY <2>1, <2>2
<1>7. \/ WakeIdleWaiters(idle, waiters, apps', held')
      \/ idle' = idle /\ waiters' = waiters /\ ran' = ran /\ \A p \in Pids : all[p] = {}
  <2>1. CASE \E p \in P : r[p].wake
    BY <1>0, <1>1, <1>5, <2>1
  <2>2. CASE ~\E p \in P : r[p].wake
    <3>1. \A p \in Pids : all[p] = {}
      BY <2>2
    <3>2. idle' = idle /\ waiters' = waiters /\ ran' = ran
      BY Zenon, <1>0, <1>1, <2>2 DEF idleVars
    <3> QED BY <3>1, <3>2
  <2> QED BY <2>1, <2>2
<1> HIDE DEF all
<1>8. Progress(all)
  BY Zenon, <1>1, <1>2, <1>3, <1>4, <1>5, <1>6, <1>7 DEF Progress
<1> QED BY <1>8

\* A decision of one application, carried out.
LEMMA DecidedProgress ==
    ASSUME TypeOK, ThreadInv, TableInv, NEW p \in Pids, NEW P \in SUBSET ({p} \intersect held),
           NEW d \in Decisions, Tells(apps[p].flight, d), NEW r, NEW was,
           r = [q \in P |-> Decided(apps[p], d, now)],
           Apply(r, Answer(events, OutOf(r), "answered"), was)
    PROVE  \E all : Progress(all)
<1> DEFINE outs == [q \in P |-> r[q].out]
<1>1. apps[p] \in Apps /\ now \in Nat /\ Sound(apps[p], stopping) /\ P \in SUBSET held /\ DOMAIN r = P
  BY DEF TypeOK, TableInv
<1>2. Decided(apps[p], d, now) \in Results
  BY <1>1, DecidedType
<1>3. Accounted(apps[p], Decided(apps[p], d, now), stopping)
  BY Zenon, <1>1, ReadIsManned, DecidedMoves
<1>4. r \in [P -> Results]
  BY <1>2
<1>5. OutOf(r) = UNION {outs[q] : q \in P}
  BY <1>1 DEF OutOf
<1>6. ASSUME NEW q \in P
      PROVE  /\ Moves(apps[q], r[q].app, outs[q], stopping)
             /\ outs[q] # {} => r[q].wake
             /\ r[q].app.flight.request = IF r[q].unwatch THEN NoRequest ELSE apps[q].flight.request
  <2>1. q = p /\ r[q] = Decided(apps[p], d, now) /\ outs[q] = r[q].out
    OBVIOUS
  <2> HIDE DEF outs
  <2> QED BY Zenon, <1>3, <2>1 DEF Accounted
<1> HIDE DEF outs
<1>7. Apply(r, Answer(events, UNION {outs[q] : q \in P}, "answered"), was)
  BY Zenon, <1>5
<1>8. P \in SUBSET held
  BY Zenon, <1>1
<1> QED BY SMTT(60), <1>4, <1>6, <1>7, <1>8, ApplyProgress

\* The watchdog's tick, the answers to its asks and a failed start make progress
\* (Schedule::tick, judged, published, spawn_failed).
LEMMA WatchdogProgress ==
    ASSUME TypeOK, ThreadInv, TableInv
    PROVE  /\ WatchdogTick => \E outs : Progress(outs)
           /\ \A k \in asks : AnswerJudge(k) => \E outs : Progress(outs)
           /\ \A k \in asks : AnswerPublish(k) => \E outs : Progress(outs)
           /\ \A f \in failed : SpawnFailed(f) => \E outs : Progress(outs)
<1>0. /\ now \in Nat /\ held \in SUBSET Pids /\ apps \in [Pids -> Apps] /\ events \in Seq(Events)
      /\ \A p \in Pids : Sound(apps[p], stopping) /\ (Running(apps[p].flight) => apps[p].threaded)
  BY ReadIsManned DEF TypeOK, TableInv
<1>1. ASSUME WatchdogTick PROVE \E outs : Progress(outs)
  <2>1. CASE stopping
    <3>1. /\ UNCHANGED <<apps, held, stopping, idle, waiters, ran, events, records, watched>>
          /\ threads' = threads
      BY Zenon, <1>1, <2>1 DEF WatchdogTick, idleVars
    <3> QED BY <3>1, StillProgress DEF TableInv
  <2>2. CASE ~stopping
    <3> DEFINE r == [p \in held |-> TickApp(apps[p], now)]
               outs == [p \in held |-> r[p].out]
    <3>1. r \in [held -> Results]
      BY SMTT(30), <1>0, TickAppType
    <3>2. Apply(r, Answer(events, OutOf(r), "answered"), NoTime)
      BY SMTT(30), <1>1, <2>2 DEF WatchdogTick, Tick
    <3>3. OutOf(r) = UNION {outs[p] : p \in held}
      BY DEF OutOf
    <3>4. ASSUME NEW p \in held
          PROVE  /\ Moves(apps[p], r[p].app, outs[p], stopping)
                 /\ outs[p] # {} => r[p].wake
                 /\ r[p].app.flight.request = IF r[p].unwatch THEN NoRequest ELSE apps[p].flight.request
      <4>1. Accounted(apps[p], TickApp(apps[p], now), stopping)
        BY <1>0, TickMoves
      <4>2. r[p] = TickApp(apps[p], now) /\ outs[p] = r[p].out
        OBVIOUS
      <4> HIDE DEF r, outs
      <4> QED BY Zenon, <4>1, <4>2 DEF Accounted
    <3> HIDE DEF r, outs
    <3>5. Apply(r, Answer(events, UNION {outs[p] : p \in held}, "answered"), NoTime)
      BY Zenon, <3>2, <3>3
    <3>6. held \in SUBSET held
      OBVIOUS
    <3> QED BY ZenonT(60), <3>1, <3>4, <3>5, <3>6, ApplyProgress
  <2> QED BY <2>1, <2>2
<1>2. ASSUME NEW k \in asks, AnswerJudge(k) PROVE \E outs : Progress(outs)
  <2>0. k.pid \in Pids /\ k.request \in Requests /\ apps[k.pid].flight \in Flights
    BY SMTT(30) DEF TypeOK, Asks, Apps
  <2> DEFINE P == {k.pid} \intersect held
             D(verdict) == Judged(apps[k.pid].flight, k.request, verdict)
             R(verdict) == [p \in P |-> Decided(apps[k.pid], D(verdict), now)]
  <2>1. PICK verdict \in {"None", "Hung", "MovedOn"} :
          Apply(R(verdict), Answer(events, OutOf(R(verdict)), "answered"), alarmDue)
    BY ZenonT(30), <1>2 DEF AnswerJudge
  <2>2. D(verdict) \in Decisions
    BY SMTT(30), <1>0, <2>0, DecisionTypes
  <2>3. Tells(apps[k.pid].flight, D(verdict))
    BY Zenon, <1>0, <2>0, DecisionTells
  <2> HIDE DEF D
  <2>4. P \in SUBSET ({k.pid} \intersect held)
    OBVIOUS
  <2> HIDE DEF P
  <2> QED BY Zenon, <2>0, <2>1, <2>2, <2>3, <2>4, DecidedProgress
<1>3. ASSUME NEW k \in asks, AnswerPublish(k) PROVE \E outs : Progress(outs)
  <2> DEFINE a == apps[k.pid]
             P == {k.pid} \intersect held
             Got(prepared) == prepared /\ Accepts(a.flight, k.request)
             E(prepared) == Published(a.flight, k.request, Got(prepared), k.why, now)
             D(prepared) == Decided(a, E(prepared), now)
             R(prepared) == [p \in P |-> [D(prepared) EXCEPT !.wake = @ \/ Got(prepared)]]
             Sent(prepared) == IF Got(prepared) THEN {a.flight.item} ELSE {}
  <2>0. /\ k.pid \in Pids /\ k.request \in Requests /\ k.why \in Reasons \union {"None"}
        /\ a \in Apps /\ a.flight \in Flights
    BY SMTT(30) DEF TypeOK, Asks, Apps
  <2>1. PICK prepared \in BOOLEAN :
          Apply(R(prepared), Answer(Answer(events, Sent(prepared), "answered"), OutOf(R(prepared)), "answered"),
                alarmDue)
    BY Zenon, <1>3 DEF AnswerPublish
  <2> DEFINE got == Got(prepared)
             d == D(prepared)
             r == R(prepared)
             sent == Sent(prepared)
             outs == [p \in P |-> sent \union d.out]
  <2>2. got \in BOOLEAN /\ (got => Accepts(a.flight, k.request))
    BY DEF Accepts, RunningOf, Running
  <2>3. got => k.pid \in held
    <3>1. k.pid \notin held => a = NoApp
      BY <2>0 DEF ThreadInv, Consistent
    <3>2. ~Accepts(NoApp.flight, k.request)
      BY DEF NoApp, New, Accepts, RunningOf, Running
    <3> QED BY <2>2, <3>1, <3>2
  <2>4. d \in Results
    <3>1. E(prepared) \in Decisions
      BY ZenonT(30), <1>0, <2>0, <2>2, DecisionTypes
    <3> HIDE DEF E
    <3> QED BY ZenonT(30), <1>0, <2>0, <3>1, DecidedType
  <2>5. /\ Moves(a, d.app, sent \union d.out, stopping) /\ sent \intersect d.out = {}
        /\ d.out # {} => d.wake
        /\ d.app.flight.request = IF d.unwatch THEN NoRequest ELSE a.flight.request
    <3>1. Sound(a, stopping) /\ (Running(a.flight) => a.threaded)
      BY <1>0, <2>0
    <3> DEFINE e == E(prepared)
    <3>2. \/ e = Published(a.flight, k.request, FALSE, k.why, now) /\ sent = {}
          \/ /\ e = Published(a.flight, k.request, TRUE, k.why, now) /\ sent = {a.flight.item}
             /\ Accepts(a.flight, k.request)
      <4> HIDE DEF Got
      <4>1. CASE got
        <5>1. Got(prepared) = TRUE
          BY <2>2, <4>1
        <5> QED BY Zenon, <2>2, <4>1, <5>1
      <4>2. CASE ~got
        <5>1. Got(prepared) = FALSE
          BY <2>2, <4>2
        <5> QED BY Zenon, <5>1
      <4> QED BY Zenon, <4>1, <4>2
    <3>3. d = Decided(a, e, now)
      OBVIOUS
    <3> HIDE DEF a, e, sent, d
    <3>4. AccountedAfter(a, sent, Decided(a, e, now), stopping)
      BY Zenon, <1>0, <2>0, <3>1, <3>2, PublishedMoves
    <3> QED BY Zenon, <3>3, <3>4 DEF AccountedAfter
  <2>6. /\ r = [p \in P |-> [d EXCEPT !.wake = @ \/ got]] /\ sent = IF got THEN {a.flight.item} ELSE {}
        /\ Apply(r, Answer(Answer(events, sent, "answered"), OutOf(r), "answered"), alarmDue)
    BY Zenon, <2>1
  <2> HIDE DEF D, R, Sent, Got, E, got, d, r, sent, a
  <2>7. r \in [P -> Results]
    <3>1. [d EXCEPT !.wake = @ \/ got] \in Results
      BY <2>2, <2>4 DEF Results
    <3> QED BY Zenon, <2>6, <3>1
  <2>8. ASSUME NEW p \in P
        PROVE  /\ p = k.pid /\ r[p].app = d.app /\ r[p].out = d.out /\ r[p].unwatch = d.unwatch
               /\ r[p].wake = (d.wake \/ got)
    BY <2>4, <2>6 DEF Results
  <2>9. /\ UNION {outs[p] : p \in P} = sent \union OutOf(r) /\ sent \intersect OutOf(r) = {}
    <3>1. OutOf(r) = UNION {r[p].out : p \in P}
      BY <2>7 DEF OutOf
    <3>2. CASE k.pid \in held
      <4>1. P = {k.pid} /\ r[k.pid].out = d.out
        BY <2>8, <3>2
      <4>2. OutOf(r) = d.out /\ UNION {outs[p] : p \in P} = sent \union d.out
        BY <3>1, <4>1
      <4> QED BY <2>5, <4>2
    <3>3. CASE k.pid \notin held
      <4>1. P = {} /\ sent = {}
        BY <2>3, <2>6, <3>3
      <4> QED BY <3>1, <4>1
    <3> QED BY <3>2, <3>3
  <2>10. Answer(Answer(events, sent, "answered"), OutOf(r), "answered")
         = Answer(events, UNION {outs[p] : p \in P}, "answered")
    BY <1>0, <2>9, AnswerTwice
  <2>11. ASSUME NEW p \in P
         PROVE  /\ Moves(apps[p], r[p].app, outs[p], stopping)
                /\ outs[p] # {} => r[p].wake
                /\ r[p].app.flight.request = IF r[p].unwatch THEN NoRequest ELSE apps[p].flight.request
    <3>1. outs[p] = sent \union d.out /\ apps[p] = a
      BY <2>8 DEF a
    <3>2. outs[p] # {} => d.wake \/ got
      BY <2>5, <2>6, <3>1
    <3> HIDE DEF outs
    <3> QED BY Zenon, <2>5, <2>8, <3>1, <3>2
  <2>12. P \in SUBSET held
    OBVIOUS
  <2> HIDE DEF outs, P
  <2>13. Apply(r, Answer(events, UNION {outs[p] : p \in P}, "answered"), alarmDue)
    BY Zenon, <2>6, <2>10
  <2> QED BY ZenonT(60), <2>7, <2>11, <2>12, <2>13, ApplyProgress
<1>4. ASSUME NEW f \in failed, SpawnFailed(f) PROVE \E outs : Progress(outs)
  <2> DEFINE p == f.pid
             a == apps[p]
             b == [a EXCEPT !.threaded = FALSE, !.queue = {}]
  <2>0. p \in Pids /\ a \in Apps /\ f \in Failures(p)
    BY DEF TypeOK, Failures
  <2>1. p \in held /\ AppInCharge(a, f.generation) /\ ~Running(a.flight)
    BY <2>0 DEF ThreadInv, Consistent, Unmade, AppInCharge
  <2>2. /\ LetGoIfSpent(p, b) /\ UNCHANGED <<stopping, threads, watched>>
        /\ events' = Answer(events, MarkersOf(a.queue), "answered")
        /\ WakeIdleWaiters(idle, waiters, apps', held')
    BY <1>4, <2>1 DEF SpawnFailed
  <2>3. b \in Apps
    BY Zenon, <2>0 DEF Apps
  <2>4. Moves(a, b, MarkersOf(a.queue), stopping) /\ b.flight = a.flight
    BY Zenon, <1>0, <2>0, <2>1, DropMoves
  <2>5. ~Running(b.flight) /\ watched[p] = a.flight.request
    BY <2>0, <2>1, <2>4 DEF TableInv
  <2> HIDE DEF b
  <2>6. /\ Moves(apps[p], apps'[p], MarkersOf(a.queue), stopping)
        /\ \A q \in Pids \ {p} : apps'[q] = apps[q]
        /\ records' = held' /\ apps'[p].flight.request = b.flight.request
    BY Zenon, <2>1, <2>2, <2>3, <2>4, <2>5, LetGoTables
  <2>7. /\ watched'[p] = apps'[p].flight.request /\ \A q \in Pids \ {p} : watched'[q] = watched[q]
        /\ \A t \in threads' : t.pc \in Busy => t.request.generation = t.generation
    BY <2>2, <2>4, <2>5, <2>6 DEF TableInv
  <2> QED BY Zenon, <2>0, <2>2, <2>6, <2>7, OneProgress
<1> QED BY <1>1, <1>2, <1>3, <1>4

-----------------------------------------------------------------------------
(* The steps of a reading thread. *)

\* Each thread's request still names its generation when none is new but u.
LEMMA RequestsNamed ==
    ASSUME TableInv, NEW u, threads' \subseteq threads \union {u},
           u.pc \in Busy => u.request.generation = u.generation
    PROVE  \A t \in threads' : t.pc \in Busy => t.request.generation = t.generation
  BY DEF TableInv

\* A step of one application that answers nothing makes progress.
LEMMA QuietProgress ==
    ASSUME TypeOK, TableInv, NEW p \in Pids, Moves(apps[p], apps'[p], {}, stopping),
           \A q \in Pids \ {p} : apps'[q] = apps[q],
           UNCHANGED <<events, stopping, idleVars>>, records' = held',
           \A q \in Pids \ {p} : watched'[q] = watched[q], watched'[p] = apps'[p].flight.request,
           \A t \in threads' : t.pc \in Busy => t.request.generation = t.generation
    PROVE  \E outs : Progress(outs)
<1>1. events' = Answer(events, {}, "answered")
  <2>1. events \in Seq(Events) /\ events' = events
    BY DEF TypeOK
  <2> QED BY <2>1, AnswerNothing
<1>2. stopping' = stopping /\ idle' = idle /\ waiters' = waiters /\ ran' = ran
  BY DEF idleVars
<1> QED BY Zenon, <1>1, <1>2, OneProgress

\* What is known of a thread's application.
LEMMA ThreadTables ==
    ASSUME TypeOK, ThreadInv, TableInv, NEW t \in threads
    PROVE  /\ t \in Threads /\ t.pid \in Pids /\ t.pid \in held /\ apps[t.pid] \in Apps
           /\ apps \in [Pids -> Apps] /\ watched \in [Pids -> Requests] /\ now \in Nat
           /\ events \in Seq(Events) /\ stopping \in BOOLEAN
           /\ records = held /\ Sound(apps[t.pid], stopping)
           /\ Running(apps[t.pid].flight) => apps[t.pid].threaded
           /\ watched[t.pid] = apps[t.pid].flight.request
<1>1. t \in Threads /\ t.pid \in held /\ apps[t.pid] \in Apps
  BY Zenon, ThreadFacts
<1>2. t.pid \in Pids
  BY <1>1 DEF TypeOK
<1> QED BY SMTT(120), <1>1, <1>2, ReadIsManned DEF TypeOK, TableInv

\* A thread asking for its next event makes progress (Schedule::next_job), and so
\* does one that wakes by itself.
LEMMA NextJobProgress ==
    ASSUME TypeOK, ThreadInv, TableInv, NEW t \in threads
    PROVE  /\ NextJob(t) => \E outs : Progress(outs)
           /\ SpuriousWake(t) => \E outs : Progress(outs)
<1> DEFINE p == t.pid
           a == apps[p]
<1>0. /\ t \in Threads /\ p \in Pids /\ p \in held /\ a \in Apps
      /\ apps \in [Pids -> Apps] /\ watched \in [Pids -> Requests] /\ now \in Nat
      /\ records = held /\ Sound(a, stopping) /\ watched[p] = a.flight.request
  BY Zenon, ThreadTables
<1>1. ASSUME SpuriousWake(t) PROVE \E outs : Progress(outs)
  <2> DEFINE u == [t EXCEPT !.pc = "next"]
  <2>1. u.pc \notin Busy
    BY <1>0 DEF Threads, Busy
  <2>2. threads' \subseteq threads \union {u}
    BY <1>1 DEF SpuriousWake
  <2>3. UNCHANGED <<apps, held, stopping, idle, waiters, ran, events, records, watched>>
    BY <1>1 DEF SpuriousWake, idleVars
  <2> HIDE DEF u
  <2>4. \A v \in threads' : v.pc \in Busy => v.request.generation = v.generation
    BY Zenon, <2>1, <2>2, RequestsNamed
  <2> QED BY Zenon, <2>3, <2>4, StillProgress
<1>2. ASSUME NextJob(t) PROVE \E outs : Progress(outs)
  <2>0. t.pc = "next" /\ UNCHANGED <<events, stopping, idleVars>>
    BY <1>2 DEF NextJob
  <2>1. t.generation = a.flight.generation /\ ~Running(a.flight)
    BY Zenon, <2>0, ThreadFacts DEF Busy
  <2>2. CASE Leaves(t)
    <3>1. UNCHANGED <<apps, held, stopping, idle, waiters, ran, events, records, watched>>
      BY <2>0, <2>2 DEF Leaves, idleVars
    <3>2. \A v \in threads' : v.pc \in Busy => v.request.generation = v.generation
      BY <2>2 DEF Leaves, TableInv
    <3> QED BY Zenon, <3>1, <3>2, StillProgress
  <2>3. CASE Takes(t)
    <3> DEFINE first == Oldest(a.queue)
               taken == Start(a.flight, first.marker, Deadline, first.window, now)
               b == [a EXCEPT !.queue = @ \ {first}, !.flight = taken]
               u == [t EXCEPT !.pc = "reading", !.request = taken.request,
                              !.item = first.marker, !.window = first.window]
    <3>1. /\ apps' = [apps EXCEPT ![p] = b] /\ held' = held /\ records' = records \union {p}
          /\ watched' = [watched EXCEPT ![p] = taken.request]
          /\ threads' = (threads \ {t}) \union {u}
          /\ a.threaded /\ a.queue # {}
      BY SMTT(120), <2>3 DEF Takes, InCharge, AppInCharge
    <3>2. Moves(a, b, {}, stopping) /\ taken.request.generation = a.flight.generation
      BY Zenon, <1>0, <2>1, <3>1, TakesMoves
    <3> HIDE DEF taken
    <3>3. b.flight = taken
      BY <1>0 DEF Apps
    <3>4. u.request = taken.request /\ u.generation = t.generation
      BY <1>0 DEF Threads
    <3> HIDE DEF b, u, a
    <3>5. \A v \in threads' : v.pc \in Busy => v.request.generation = v.generation
      BY Zenon, <2>1, <3>1, <3>2, <3>4, RequestsNamed
    <3>6. /\ apps'[p] = b /\ (\A q \in Pids \ {p} : apps'[q] = apps[q]) /\ records' = held'
          /\ (\A q \in Pids \ {p} : watched'[q] = watched[q]) /\ watched'[p] = apps'[p].flight.request
      BY <1>0, <3>1, <3>3
    <3> QED BY Zenon, <1>0, <2>0, <3>2, <3>5, <3>6, QuietProgress DEF a
  <2>4. CASE Ends(t)
    <3> DEFINE b == [a EXCEPT !.threaded = FALSE]
    <3>1. /\ b \in Apps /\ ~b.threaded /\ b.abandoned = a.abandoned /\ b.flight = a.flight
          /\ b.queue = a.queue /\ b.limitReached = a.limitReached
      BY ZenonT(30), <1>0 DEF Apps
    <3>2. /\ LetGoIfSpent(p, b) /\ threads' = threads \ {t} /\ watched' = watched /\ a.queue = {}
      BY <2>4 DEF Ends
    <3> HIDE DEF b
    <3>3. Limited(b, stopping)
      BY <1>0, <3>1, <3>2 DEF Sound, Limited
    <3>4. Moves(a, b, {}, stopping)
      BY Zenon, <1>0, <2>1, <3>1, <3>3, RestMoves
    <3>5. /\ Moves(apps[p], apps'[p], {}, stopping) /\ \A q \in Pids \ {p} : apps'[q] = apps[q]
          /\ records' = held' /\ apps'[p].flight.request = b.flight.request
      BY Zenon, <1>0, <2>1, <3>1, <3>2, <3>4, LetGoTables
    <3>6. \A v \in threads' : v.pc \in Busy => v.request.generation = v.generation
      BY <3>2 DEF TableInv
    <3>7. watched'[p] = apps'[p].flight.request /\ \A q \in Pids \ {p} : watched'[q] = watched[q]
      BY <1>0, <3>1, <3>2, <3>5
    <3> QED BY Zenon, <1>0, <2>0, <3>5, <3>6, <3>7, QuietProgress
  <2>5. CASE Parks(t)
    <3> DEFINE u == [t EXCEPT !.pc = "waiting"]
    <3>1. u.pc \notin Busy
      BY <1>0 DEF Threads, Busy
    <3>2. /\ threads' \subseteq threads \union {u} /\ records' = records
          /\ UNCHANGED <<apps, held, watched>>
      BY <1>0, <2>5 DEF Parks
    <3> HIDE DEF u
    <3>3. \A v \in threads' : v.pc \in Busy => v.request.generation = v.generation
      BY Zenon, <3>1, <3>2, RequestsNamed
    <3>4. UNCHANGED <<apps, held, stopping, idle, waiters, ran, events, records, watched>>
      BY <2>0, <3>2 DEF idleVars
    <3> QED BY Zenon, <3>3, <3>4, StillProgress
  <2> QED BY <1>2, <2>2, <2>3, <2>4, <2>5 DEF NextJob
<1> QED BY <1>1, <1>2

\* A read that returns makes progress: to the thread in charge it answers its
\* event, unless that was published; to an abandoned one it answers nothing and
\* leaves the read that took its place alone (Schedule::finished).
LEMMA ReadReturnsProgress ==
    ASSUME TypeOK, ThreadInv, TableInv, NEW t \in threads, ReadReturns(t)
    PROVE  \E outs : Progress(outs)
<1> DEFINE p == t.pid
           a == apps[p]
<1>0. /\ t \in Threads /\ p \in Pids /\ p \in held /\ a \in Apps
      /\ apps \in [Pids -> Apps] /\ watched \in [Pids -> Requests] /\ events \in Seq(Events)
      /\ stopping \in BOOLEAN /\ records = held /\ Sound(a, stopping)
      /\ watched[p] = a.flight.request /\ (Running(a.flight) => a.threaded)
  BY Zenon, ThreadTables
<1>1. /\ t.pc \in Busy /\ stopping' = stopping /\ watched' = Unwatch(t)
      /\ t.generation = a.flight.generation <=> AppInCharge(a, t.generation)
  BY Zenon, ThreadFacts DEF ReadReturns, Busy
<1>2. t.request.generation = t.generation
  BY <1>1 DEF TableInv
<1>3. /\ \A q \in Pids \ {p} : watched'[q] = watched[q]
      /\ watched'[p] = IF a.flight.request = t.request THEN NoRequest ELSE a.flight.request
  BY <1>0, <1>1 DEF Unwatch
<1>4. CASE ReturnsToNobody(t)
  BY <1>0, <1>4 DEF ReturnsToNobody
<1>5. CASE ReturnsInCharge(t)
  <2> DEFINE b == [a EXCEPT !.flight = Taken(@)]
             out == IF a.flight.walk # "Published" THEN {a.flight.item} ELSE {}
             u == Rested(t)
  <2>1. /\ t.generation = a.flight.generation /\ Running(a.flight)
        /\ t.request = a.flight.request /\ t.item = a.flight.item
    BY Zenon, <1>1, <1>5, ThreadFacts DEF ReturnsInCharge
  <2>2. End(a.flight, t.request) = Taken(a.flight)
    BY <2>1 DEF End, RunningOf
  <2>3. /\ apps' = [apps EXCEPT ![p] = b] /\ held' = held /\ records' = records
        /\ threads' \subseteq threads \union {u}
        /\ WakeIdleWaiters(idle, waiters, apps', held')
    BY <1>5, <2>2 DEF ReturnsInCharge
  <2>4. events' = Answer(events, out, "answered")
    <3>1. Accepts(a.flight, t.request) <=> a.flight.walk # "Published"
      BY <2>1 DEF Accepts, RunningOf
    <3>2. events = Answer(events, {}, "answered")
      BY <1>0, AnswerNothing
    <3> QED BY <1>5, <2>1, <3>1, <3>2 DEF ReturnsInCharge
  <2>5. Moves(a, b, out, stopping) /\ Taken(a.flight).request = NoRequest
    BY Zenon, <1>0, <2>1, ReturnMoves
  <2>6. b.flight = Taken(a.flight)
    BY <1>0 DEF Apps
  <2>7. u.pc \notin Busy
    BY <1>0 DEF Rested, Threads, Busy
  <2> HIDE DEF u, b, out
  <2>8. \A v \in threads' : v.pc \in Busy => v.request.generation = v.generation
    BY Zenon, <2>3, <2>7, RequestsNamed
  <2>9. /\ apps'[p] = b /\ (\A q \in Pids \ {p} : apps'[q] = apps[q]) /\ records' = held'
        /\ watched'[p] = apps'[p].flight.request
    BY <1>0, <1>3, <2>1, <2>3, <2>5, <2>6
  <2> QED BY Zenon, <1>0, <1>1, <1>3, <2>3, <2>4, <2>5, <2>8, <2>9, OneProgress
<1>6. CASE ReturnsAbandoned(t)
  <2> DEFINE b == OneBack(a)
             c == Started(b)
             u == [Rested(t) EXCEPT !.generation = c.flight.generation]
             starts == ~b.threaded /\ b.queue # {} /\ ~stopping
  <2>1. t.generation # a.flight.generation
    BY <1>1, <1>6 DEF ReturnsAbandoned
  <2>2. watched'[p] = a.flight.request
    <3>1. CASE Running(a.flight)
      BY <1>0, <1>2, <1>3, <2>1, <3>1 DEF Sound, Requested
    <3>2. CASE ~Running(a.flight)
      BY <1>0, <1>3, <3>2 DEF Sound, Requested
    <3> QED BY <3>1, <3>2
  <2>3. /\ b \in Apps /\ b.threaded = a.threaded /\ b.flight = a.flight
    <3>1. a.abandoned \in Nat /\ a.limitReached \in Times
      BY SMTT(30), <1>0 DEF Apps
    <3>2. (IF a.abandoned = 0 THEN 0 ELSE a.abandoned - 1) \in Nat
      BY <3>1
    <3>3. (IF Room(a.abandoned - 1) THEN NoTime ELSE a.limitReached) \in Times
      BY <3>1 DEF Times
    <3> QED BY Zenon, <1>0, <3>2, <3>3 DEF OneBack, Apps
  <2>4. /\ starts => Moves(a, c, {}, stopping)
        /\ ~starts => Moves(a, b, {}, stopping)
        /\ c.flight.request = a.flight.request
    BY Zenon, <1>0, BackMoves
  <2>5. /\ UNCHANGED <<events, stopping, idleVars>>
        /\ \/ /\ starts /\ apps' = [apps EXCEPT ![p] = c] /\ records' = records \union {p}
              /\ held' = held /\ threads' = (threads \ {t}) \union {u}
           \/ ~starts /\ LetGoIfSpent(p, b) /\ threads' = threads \ {t}
    <3>1. starts => ~Spent(b)
      BY DEF Spent
    <3> QED BY SMTT(30), <1>1, <1>6, <3>1 DEF ReturnsAbandoned
  <2>6. u.pc \notin Busy
    BY <1>0 DEF Rested, Threads, Busy
  <2> HIDE DEF b, c, u, starts
  <2>7. \A v \in threads' : v.pc \in Busy => v.request.generation = v.generation
    BY Zenon, <2>5, <2>6, RequestsNamed
  <2>8. CASE starts
    <3>0. apps' = [apps EXCEPT ![p] = c] /\ records' = records \union {p} /\ held' = held
      BY <2>5, <2>8
    <3>1. /\ apps'[p] = c /\ (\A q \in Pids \ {p} : apps'[q] = apps[q]) /\ records' = held'
          /\ watched'[p] = apps'[p].flight.request
      BY <1>0, <2>2, <2>4, <3>0
    <3> QED BY Zenon, <1>0, <1>3, <2>4, <2>5, <2>7, <2>8, <3>1, QuietProgress
  <2>9. CASE ~starts
    <3>1. /\ Moves(apps[p], apps'[p], {}, stopping) /\ \A q \in Pids \ {p} : apps'[q] = apps[q]
          /\ records' = held' /\ apps'[p].flight.request = b.flight.request
      BY Zenon, <1>0, <2>3, <2>4, <2>5, <2>9, LetGoTables
    <3>2. watched'[p] = apps'[p].flight.request
      BY Zenon, <2>2, <2>3, <3>1
    <3> QED BY Zenon, <1>0, <1>3, <2>5, <2>7, <3>1, <3>2, QuietProgress
  <2> QED BY <2>8, <2>9
<1> QED BY <1>4, <1>5, <1>6 DEF ReadReturns

\* So does a read that learns its window or arms its walk (Schedule::learned,
\* Schedule::armed).
LEMMA ReadProgress ==
    ASSUME TypeOK, ThreadInv, TableInv, NEW t \in threads
    PROVE  /\ Learn(t) => \E outs : Progress(outs)
           /\ \A bound \in Bounds : Arm(t, bound) => \E outs : Progress(outs)
<1> DEFINE p == t.pid
           a == apps[p]
<1>0. /\ t \in Threads /\ p \in Pids /\ p \in held /\ a \in Apps
      /\ apps \in [Pids -> Apps] /\ now \in Nat /\ records = held
      /\ Sound(a, stopping) /\ watched[p] = a.flight.request
  BY Zenon, ThreadTables
<1>1. t.request \in Requests /\ a.flight \in Flights
  BY Zenon, <1>0 DEF Threads, Apps
<1>2. ASSUME Learn(t) PROVE \E outs : Progress(outs)
  <2> DEFINE d == Learned(a.flight, t.request, now)
             P == {p}
             r == [q \in P |-> Decided(a, d, now)]
  <2>1. Apply(r, Answer(events, OutOf(r), "answered"), alarmDue)
    BY Zenon, <1>2 DEF Learn
  <2>2. d \in Decisions /\ Tells(a.flight, d)
    <3>1. d \in Decisions
      BY SMTT(120), <1>0, <1>1, DecisionTypes
    <3>2. Tells(a.flight, d)
      BY Zenon, <1>0, <1>1, DecisionTells
    <3> QED BY <3>1, <3>2
  <2>3. P \in SUBSET ({p} \intersect held)
    BY <1>0
  <2> HIDE DEF d, P
  <2> QED BY Zenon, <1>0, <2>1, <2>2, <2>3, DecidedProgress
<1>3. ASSUME NEW bound \in Bounds, Arm(t, bound) PROVE \E outs : Progress(outs)
  <2> DEFINE g == Armed(a.flight, t.request, now + bound)
             b == [a EXCEPT !.flight = g]
             u == [t EXCEPT !.pc = "walking"]
  <2>1. /\ t.pc \in Busy /\ apps' = [apps EXCEPT ![p] = b] /\ held' = held /\ records' = records
        /\ watched' = watched /\ threads' = (threads \ {t}) \union {u}
        /\ UNCHANGED <<events, stopping, idleVars>>
    BY SMTT(30), <1>0, <1>3 DEF Arm, Busy
  <2>2. /\ g.generation = a.flight.generation /\ g.request = a.flight.request
        /\ g.item = a.flight.item /\ Running(g) = Running(a.flight)
        /\ (g.walk = "Published") = (a.flight.walk = "Published")
    BY SMTT(30), <1>1 DEF Armed, RunningOf, Running, Flights
  <2> HIDE DEF g
  <2>3. /\ b.flight = g /\ b.threaded = a.threaded /\ b.abandoned = a.abandoned
        /\ b.queue = a.queue /\ b.limitReached = a.limitReached
    BY SMTT(30), <1>0 DEF Apps
  <2>4. u.request = t.request /\ u.generation = t.generation
    BY <1>0 DEF Threads
  <2>5. t.request.generation = t.generation
    BY <2>1 DEF TableInv
  <2> HIDE DEF b, u
  <2>6. \A v \in threads' : v.pc \in Busy => v.request.generation = v.generation
    BY Zenon, <2>1, <2>4, <2>5, RequestsNamed
  <2>7. Moves(a, b, {}, stopping)
    BY Zenon, <1>0, <2>2, <2>3, SameMoves
  <2>8. /\ apps'[p] = b /\ (\A q \in Pids \ {p} : apps'[q] = apps[q]) /\ records' = held'
        /\ (\A q \in Pids \ {p} : watched'[q] = watched[q]) /\ watched'[p] = apps'[p].flight.request
    BY <1>0, <2>1, <2>2, <2>3
  <2> QED BY Zenon, <1>0, <2>1, <2>6, <2>7, <2>8, QuietProgress
<1> QED BY <1>2, <1>3

\* Waking a thread leaves those that read as they were.
LEMMA WakeReads ==
    ASSUME TypeOK, TableInv, NEW p, threads' \in Wake(threads, p)
    PROVE  \A t \in threads' : t.pc \in Busy => t.request.generation = t.generation
<1>1. CASE threads' = threads
  BY <1>1 DEF TableInv
<1>2. CASE \E t \in threads : threads' = (threads \ {t}) \union {[t EXCEPT !.pc = "next"]}
  <2>1. PICK t \in threads : threads' = (threads \ {t}) \union {[t EXCEPT !.pc = "next"]}
    BY <1>2
  <2>2. t \in Threads
    BY DEF TypeOK
  <2>3. [t EXCEPT !.pc = "next"].pc \notin Busy
    BY <2>2 DEF Threads, Busy
  <2> QED BY Zenon, <2>1, <2>3 DEF TableInv
<1> QED BY <1>1, <1>2 DEF Wake

\* And so does an outpost's end (Schedule::outpost_ended).
LEMMA OutpostEndedProgress ==
    ASSUME TypeOK, ThreadInv, TableInv, NEW p \in Pids, OutpostEnded(p)
    PROVE  \E outs : Progress(outs)
<1> DEFINE a == apps[p]
           b == [a EXCEPT !.ending = TRUE]
<1>0. a \in Apps /\ Sound(a, stopping) /\ watched[p] = a.flight.request /\ p \in held
      /\ (Running(a.flight) => a.threaded)
  BY ReadIsManned DEF TypeOK, TableInv, OutpostEnded
<1>1. /\ b \in Apps /\ b.threaded = a.threaded /\ b.abandoned = a.abandoned /\ b.flight = a.flight
      /\ b.queue = a.queue /\ b.limitReached = a.limitReached
  BY ZenonT(30), <1>0 DEF Apps
<1>2. /\ LetGoIfSpent(p, b) /\ watched' = watched /\ UNCHANGED <<events, stopping, idleVars>>
      /\ threads' = threads \/ threads' \in Wake(threads, p)
  BY DEF OutpostEnded
<1> HIDE DEF b
<1>3. Moves(a, b, {}, stopping)
  BY Zenon, <1>0, <1>1, SameMoves
<1>4. /\ Moves(apps[p], apps'[p], {}, stopping) /\ \A q \in Pids \ {p} : apps'[q] = apps[q]
      /\ records' = held' /\ apps'[p].flight.request = b.flight.request
  BY Zenon, <1>0, <1>1, <1>2, <1>3, LetGoTables
<1>5. \A v \in threads' : v.pc \in Busy => v.request.generation = v.generation
  <2>1. CASE threads' = threads
    BY <2>1 DEF TableInv
  <2>2. CASE threads' \in Wake(threads, p)
    BY Zenon, <2>2, WakeReads
  <2> QED BY <1>2, <2>1, <2>2
<1>6. watched'[p] = apps'[p].flight.request /\ \A q \in Pids \ {p} : watched'[q] = watched[q]
  BY <1>0, <1>1, <1>2, <1>4
<1> QED BY Zenon, <1>2, <1>4, <1>5, <1>6, QuietProgress

=============================================================================
