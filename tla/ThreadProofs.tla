---------------------------- MODULE ThreadProofs ----------------------------
(***************************************************************************)
(* One thread in charge of each application, every abandoned thread        *)
(* counted, no wake-up lost: for any number of applications, any limit,    *)
(* deadline and bounds.                                                    *)
(*                                                                         *)
(* Neither invariant is inductive; ThreadInv, that every application is    *)
(* Consistent (ReadScheduleProofs), is.                                    *)
(***************************************************************************)
EXTENDS ReadScheduleProofs

USE GraceAssumption

-----------------------------------------------------------------------------
(* What the callers, the watchdog and the end of an outpost do to the threads. *)

\* A step of one application leaves the others consistent.
LEMMA OneAppSteps ==
    ASSUME ThreadInv, NEW p \in Pids,
           \A q \in Pids \ {p} : /\ apps'[q] = apps[q] /\ (q \in held' <=> q \in held)
                                 /\ Mine(q)' = Mine(q) /\ Failures(q)' = Failures(q),
           stopping' = stopping,
           Consistent(apps'[p], p \in held', Mine(p)', Failures(p)', stopping)
    PROVE  ThreadInv'
  BY DEF ThreadInv

\* The threads of an application change with one of them.
LEMMA MineSwaps ==
    ASSUME NEW t \in threads, NEW u, u.pid = t.pid, threads' = (threads \ {t}) \union {u}
    PROVE  \A q : Mine(q)' = IF q = t.pid THEN (Mine(q) \ {t}) \union {u} ELSE Mine(q)
  BY DEF Mine

\* They lose one of them.
LEMMA MineLoses ==
    ASSUME NEW t \in threads, threads' = threads \ {t}
    PROVE  \A q : Mine(q)' = IF q = t.pid THEN Mine(q) \ {t} ELSE Mine(q)
  BY DEF Mine

\* They gain one.
LEMMA MineGains ==
    ASSUME NEW n, threads' = threads \union {n}
    PROVE  \A q : Mine(q)' = IF q = n.pid THEN Mine(q) \union {n} ELSE Mine(q)
  BY SMTT(30) DEF Mine

\* Letting an application go, or leaving it as b.
LEMMA LetGoConsistent ==
    ASSUME TypeOK, NEW p \in held, NEW b \in Apps, NEW ts \in SUBSET Threads, NEW fs,
           LetGoIfSpent(p, b), Consistent(b, TRUE, ts, fs, stopping)
    PROVE  /\ Consistent(apps'[p], p \in held', ts, fs, stopping)
           /\ \A q \in Pids \ {p} : apps'[q] = apps[q] /\ (q \in held' <=> q \in held)
<1>1. p \in Pids /\ apps \in [Pids -> Apps]
  BY DEF TypeOK
<1>2. \A q \in Pids \ {p} : apps'[q] = apps[q] /\ (q \in held' <=> q \in held)
  BY SMTT(30), <1>1 DEF LetGoIfSpent
<1>3. CASE Spent(b)
  <2>1. apps'[p] = NoApp /\ p \notin held'
    BY <1>1, <1>3 DEF LetGoIfSpent
  <2>2. Consistent(NoApp, FALSE, ts, fs, stopping)
    BY Zenon, <1>3, SpentConsistent
  <2> QED BY SMTT(30), <1>2, <2>1, <2>2 DEF Consistent
<1>4. CASE ~Spent(b)
  <2>1. apps'[p] = b /\ p \in held'
    BY <1>1, <1>4 DEF LetGoIfSpent
  <2> QED BY <1>2, <2>1 DEF Consistent
<1> QED BY SMTT(30), <1>3, <1>4

\* A step of the watchdog's or of an ask's answer.
LEMMA ApplyConsistent ==
    ASSUME TypeOK, ThreadInv, failed = {}, NEW P \in SUBSET held, NEW r \in [P -> Results],
           NEW answered, NEW was, Apply(r, answered, was),
           \A p \in P : ResultConsistent(r[p], Mine(p), stopping)
    PROVE  ThreadInv'
<1> DEFINE spawned == {p \in P : r[p].spawn}
           gen(p) == r[p].app.flight.generation
<1>1. PICK refused \in SUBSET spawned :
         /\ apps' = [p \in Pids |-> IF p \in P THEN r[p].app ELSE apps[p]]
         /\ threads' = threads \union {Thread(p, gen(p)) : p \in spawned \ refused}
         /\ failed' = {[pid |-> p, generation |-> gen(p)] : p \in refused}
         /\ UNCHANGED <<held, stopping>>
  BY SMTT(30) DEF Apply
<1>2. SUFFICES ASSUME NEW p \in Pids
               PROVE  Consistent(apps'[p], p \in held', Mine(p)', Failures(p)', stopping')
  BY DEF ThreadInv
<1>3. P \subseteq Pids /\ Failures(p) = {} /\ Mine(p) \in SUBSET Threads
  BY DEF TypeOK, Failures, Mine
<1>4. Consistent(apps[p], p \in held, Mine(p), {}, stopping)
  BY SMTT(30), <1>3 DEF ThreadInv
<1>5. Mine(p)' = IF p \in spawned \ refused THEN Mine(p) \union {Thread(p, gen(p))} ELSE Mine(p)
  BY SMTT(30), <1>1 DEF Mine, Thread
<1>6. Failures(p)' = IF p \in refused THEN {[pid |-> p, generation |-> gen(p)]} ELSE {}
  BY SMTT(30), <1>1 DEF Failures
<1>7. CASE p \notin P
  BY ZenonT(30), <1>1, <1>4, <1>5, <1>6, <1>7
<1>8. CASE p \in P
  <2>1. apps'[p] = r[p].app /\ p \in held' /\ stopping' = stopping
    BY <1>1, <1>8
  <2>2. gen(p) \in Nat
    BY <1>8 DEF Results, Apps, Flights
  <2>3. ResultConsistent(r[p], Mine(p), stopping)
    BY SMTT(30), <1>8
  <2>4. CASE p \notin spawned
    <3>1. Mine(p)' = Mine(p) /\ Failures(p)' = {} /\ ~r[p].spawn
      BY SMTT(30), <1>5, <1>6, <1>8, <2>4
    <3>2. Consistent(r[p].app, TRUE, Mine(p), {}, stopping)
      BY ZenonT(30), <2>3, <3>1 DEF ResultConsistent
    <3> QED BY ZenonT(30), <2>1, <3>1, <3>2 DEF Consistent
  <2>5. CASE p \in spawned \ refused
    <3>1. Mine(p)' = Mine(p) \union {Thread(p, gen(p))} /\ Failures(p)' = {} /\ r[p].spawn
      BY SMTT(30), <1>5, <1>6, <2>5
    <3>2. /\ Thread(p, gen(p)) \in Threads /\ Thread(p, gen(p)).generation = gen(p)
          /\ Thread(p, gen(p)).pc = "next"
      BY SMTT(30), <2>2, ThreadType DEF Thread
    <3>3. Consistent(r[p].app, TRUE, Mine(p) \union {Thread(p, gen(p))}, {}, stopping)
      BY ZenonT(30), <2>3, <3>1, <3>2 DEF ResultConsistent
    <3> QED BY Zenon, <2>1, <3>1, <3>3 DEF Consistent
  <2>6. CASE p \in refused
    <3> DEFINE f == [pid |-> p, generation |-> gen(p)]
    <3>1. Mine(p)' = Mine(p) /\ Failures(p)' = {f} /\ r[p].spawn
      BY SMTT(30), <1>5, <1>6, <2>6
    <3>2. f.generation = gen(p)
      BY SMTT(30)
    <3>3. Consistent(r[p].app, TRUE, Mine(p), {f}, stopping)
      <4> HIDE DEF f
      <4> QED BY Zenon, <2>3, <3>1, <3>2 DEF ResultConsistent
    <3> QED BY ZenonT(30), <2>1, <3>1, <3>3 DEF Consistent
  <2> QED BY SMTT(30), <2>4, <2>5, <2>6
<1> QED BY SMTT(30), <1>7, <1>8

\* The watchdog's tick, the answers to its asks and a failed start.
LEMMA WatchdogConsistent ==
    ASSUME TypeOK, ThreadInv
    PROVE  /\ WatchdogTick => ThreadInv'
           /\ \A k \in asks : AnswerJudge(k) => ThreadInv'
           /\ \A k \in asks : AnswerPublish(k) => ThreadInv'
           /\ \A f \in failed : SpawnFailed(f) => ThreadInv'
<1>0. /\ now \in Nat /\ held \in SUBSET Pids /\ apps \in [Pids -> Apps]
      /\ \A p \in Pids : Mine(p) \in SUBSET Threads
  BY DEF TypeOK, Mine
<1>a. failed = {} => \A p \in Pids : Consistent(apps[p], p \in held, Mine(p), {}, stopping)
  <2>1. failed = {} => \A p \in Pids : Failures(p) = {}
    BY DEF Failures
  <2> QED BY <2>1 DEF ThreadInv
<1>1. ASSUME WatchdogTick PROVE ThreadInv'
  <2>1. CASE stopping
    BY Zenon, <1>1, <2>1 DEF WatchdogTick, ThreadInv, Mine, Failures
  <2>2. CASE ~stopping
    <3> DEFINE r == [p \in held |-> TickApp(apps[p], now)]
    <3>0. failed = {}
      BY <1>1 DEF WatchdogTick, Locked
    <3>1. r \in [held -> Results]
      BY SMTT(30), <1>0, TickAppType
    <3>2. Apply(r, Answer(events, OutOf(r), "answered"), NoTime)
      BY SMTT(30), <1>1, <2>2 DEF WatchdogTick, Tick
    <3>3. ASSUME NEW p \in held PROVE ResultConsistent(r[p], Mine(p), stopping)
      BY SMTT(30), <1>0, <1>a, <3>0, TickAppConsistent
    <3> HIDE DEF r
    <3> QED BY SMTT(30), <3>0, <3>1, <3>2, <3>3, ApplyConsistent
  <2> QED BY <2>1, <2>2
<1>2. ASSUME NEW k \in asks, AnswerJudge(k) PROVE ThreadInv'
  <2>0. k.pid \in Pids /\ k.request \in Requests /\ apps[k.pid] \in Apps /\ apps[k.pid].flight \in Flights
    BY SMTT(30) DEF TypeOK, Asks, Apps
  <2> DEFINE R(verdict) == [p \in {k.pid} \intersect held |->
                              Decided(apps[k.pid], Judged(apps[k.pid].flight, k.request, verdict), now)]
  <2>1. PICK verdict \in {"None", "Hung", "MovedOn"} :
          Apply(R(verdict), Answer(events, OutOf(R(verdict)), "answered"), alarmDue)
    BY ZenonT(30), <1>2 DEF AnswerJudge
  <2>2. /\ Judged(apps[k.pid].flight, k.request, verdict) \in Decisions
        /\ Shaped(apps[k.pid].flight, Judged(apps[k.pid].flight, k.request, verdict))
    BY SMTT(30), <1>0, <2>0, DecisionTypes, DecisionShapes
  <2>3. R(verdict) \in [{k.pid} \intersect held -> Results]
    BY SMTT(30), <1>0, <2>0, <2>2, DecidedType
  <2>4. failed = {}
    BY SMTT(30), <1>2 DEF AnswerJudge
  <2>5. ASSUME NEW p \in {k.pid} \intersect held
        PROVE  ResultConsistent(R(verdict)[p], Mine(p), stopping)
    BY SMTT(30), <1>0, <1>a, <2>0, <2>2, <2>4, DecidedConsistent
  <2> HIDE DEF R
  <2> QED BY SMTT(30), <2>1, <2>3, <2>4, <2>5, ApplyConsistent
<1>3. ASSUME NEW k \in asks, AnswerPublish(k) PROVE ThreadInv'
  <2>0. /\ k.pid \in Pids /\ k.request \in Requests /\ k.why \in Reasons \union {"None"}
        /\ apps[k.pid] \in Apps /\ apps[k.pid].flight \in Flights
    BY SMTT(30) DEF TypeOK, Asks, Apps
  <2> DEFINE a == apps[k.pid]
             Got(prepared) == prepared /\ Accepts(a.flight, k.request)
             E(prepared) == Published(a.flight, k.request, Got(prepared), k.why, now)
             D(prepared) == Decided(a, E(prepared), now)
             R(prepared) == [p \in {k.pid} \intersect held |->
                               [D(prepared) EXCEPT !.wake = @ \/ Got(prepared)]]
             Sent(prepared) == Answer(events, IF Got(prepared) THEN {a.flight.item} ELSE {}, "answered")
  <2>1. PICK prepared \in BOOLEAN :
          Apply(R(prepared), Answer(Sent(prepared), OutOf(R(prepared)), "answered"), alarmDue)
    BY Zenon, <1>3 DEF AnswerPublish
  <2>2. Got(prepared) \in BOOLEAN
    BY DEF Accepts, RunningOf, Running
  <2>3. E(prepared) \in Decisions /\ Shaped(a.flight, E(prepared))
    BY ZenonT(30), <1>0, <2>0, <2>2, DecisionTypes, DecisionShapes
  <2> HIDE DEF E
  <2>4. D(prepared) \in Results
    BY ZenonT(30), <1>0, <2>0, <2>3, DecidedType
  <2>5. failed = {}
    BY <1>3 DEF AnswerPublish
  <2>6. k.pid \in held => ResultConsistent(D(prepared), Mine(k.pid), stopping)
    BY SMTT(30), <1>0, <1>a, <2>0, <2>3, <2>5, DecidedConsistent
  <2> HIDE DEF D
  <2>7. [D(prepared) EXCEPT !.wake = @ \/ Got(prepared)] \in Results
    BY <2>4 DEF Results
  <2>8. R(prepared) \in [{k.pid} \intersect held -> Results]
    BY SMTT(30), <2>7
  <2>9. ASSUME NEW p \in {k.pid} \intersect held
        PROVE  ResultConsistent(R(prepared)[p], Mine(p), stopping)
    <3>1. R(prepared)[p].app = D(prepared).app /\ R(prepared)[p].spawn = D(prepared).spawn
      BY <2>4, <2>9 DEF Results
    <3> HIDE DEF R
    <3> QED BY ZenonT(30), <2>6, <2>9, <3>1 DEF ResultConsistent
  <2> HIDE DEF R, Sent
  <2> QED BY SMTT(30), <2>1, <2>5, <2>8, <2>9, ApplyConsistent
<1>4. ASSUME NEW f \in failed, SpawnFailed(f) PROVE ThreadInv'
  <2> DEFINE p == f.pid
             a == apps[p]
             b == [a EXCEPT !.threaded = FALSE, !.queue = {}]
  <2>0. p \in Pids /\ a \in Apps /\ f \in Failures(p)
    BY DEF TypeOK, Failures
  <2>1. b \in Apps /\ b.flight = a.flight /\ b.abandoned = a.abandoned /\ ~b.threaded
    BY Zenon, <2>0 DEF Apps
  <2>2. Consistent(a, p \in held, Mine(p), Failures(p), stopping)
    BY SMTT(30), <2>0 DEF ThreadInv
  <2>3. p \in held /\ AppInCharge(a, f.generation)
    BY <2>0, <2>2 DEF Consistent, Unmade, AppInCharge
  <2>4. /\ LetGoIfSpent(p, b) /\ failed' = failed \ {f} /\ UNCHANGED <<stopping, threads>>
    BY <1>4, <2>3 DEF SpawnFailed
  <2>5. Failures(p)' = {}
    <3>1. \A g \in Failures(p) : g.generation = a.flight.generation /\ g.pid = p
      BY <2>0, <2>2 DEF Consistent, Unmade, Failures
    <3>2. Failures(p) \subseteq [pid : Pids, generation : Nat]
      BY DEF TypeOK, Failures
    <3>3. \A g \in Failures(p) : g = f
      BY SMTT(30), <2>0, <3>1, <3>2
    <3> QED BY SMTT(30), <2>4, <3>3 DEF Failures
  <2>6. Consistent(b, TRUE, Mine(p), {}, stopping)
    BY Zenon, <1>0, <2>0, <2>1, <2>2, UnmadeConsistent
  <2> HIDE DEF b
  <2>7. /\ Consistent(apps'[p], p \in held', Mine(p), {}, stopping)
        /\ \A q \in Pids \ {p} : apps'[q] = apps[q] /\ (q \in held' <=> q \in held)
    BY ZenonT(30), <1>0, <2>0, <2>1, <2>3, <2>4, <2>6, LetGoConsistent
  <2>8. \A q \in Pids : /\ Mine(q)' = Mine(q)
                        /\ q # p => Failures(q)' = Failures(q)
    BY SMTT(30), <2>4 DEF Mine, Failures
  <2> QED BY Zenon, <2>0, <2>4, <2>5, <2>7, <2>8, OneAppSteps
<1> QED BY SMTT(30), <1>1, <1>2, <1>3, <1>4

\* A thread that is not in a read is the one in charge, and no read is under way.
LEMMA IdleInCharge ==
    ASSUME NEW a, NEW h, NEW ts, NEW fs, NEW stop, Consistent(a, h, ts, fs, stop),
           NEW t \in ts, t.pc \notin Busy
    PROVE  h /\ a.threaded /\ t.generation = a.flight.generation /\ ~Running(a.flight)
<1>1. a.threaded /\ t.generation = a.flight.generation
  BY SMTT(30) DEF Consistent, Placed
<1> QED BY SMTT(30), <1>1 DEF Consistent, Reads, Placed

\* The application becomes b and the thread that waits, if one does, is notified.
LEMMA WakeConsistent ==
    ASSUME TypeOK, NEW p \in Pids, NEW b \in Apps, NEW h, NEW fs,
           Consistent(apps[p], h, Mine(p), fs, stopping), Same(apps[p], b),
           threads' \in Wake(threads, p)
    PROVE  /\ Consistent(b, TRUE, Mine(p)', fs, stopping)
           /\ \A q \in Pids \ {p} : Mine(q)' = Mine(q)
<1> DEFINE a == apps[p]
           waiting == {t \in threads : t.pid = p /\ t.pc = "waiting"}
<1>0. a \in Apps /\ Mine(p) \in SUBSET Threads
  BY DEF TypeOK, Mine
<1>1. CASE waiting = {}
  <2>1. threads' = threads
    BY <1>1 DEF Wake
  <2>2. \A q \in Pids : Mine(q)' = Mine(q)
    BY <2>1 DEF Mine
  <2>3. \A t \in Mine(p) : t.pc # "waiting"
    BY SMTT(30), <1>1 DEF Mine
  <2>4. Consistent(b, TRUE, Mine(p), fs, stopping)
    BY Zenon, <2>3, SameConsistent
  <2> QED BY ZenonT(30), <2>2, <2>4
<1>2. CASE waiting # {}
  <2>1. PICK t \in waiting : threads' = (threads \ {t}) \union {[t EXCEPT !.pc = "next"]}
    BY <1>2 DEF Wake
  <2> DEFINE u == [t EXCEPT !.pc = "next"]
  <2>2. t \in threads /\ t.pid = p /\ t.pc = "waiting" /\ t \in Mine(p) /\ t \in Threads
    BY DEF Mine, TypeOK
  <2>3. u.pid = t.pid /\ u.generation = t.generation /\ u.pc = "next"
    BY <2>2 DEF Threads
  <2>4. \A q : Mine(q)' = IF q = p THEN (Mine(q) \ {t}) \union {u} ELSE Mine(q)
    BY ZenonT(30), <2>1, <2>2, <2>3, MineSwaps
  <2>5. t.generation = a.flight.generation /\ ~Running(a.flight)
    BY <2>2, IdleInCharge DEF Busy
  <2> HIDE DEF u
  <2>6. fs = {} /\ Consistent(b, TRUE, (Mine(p) \ {t}) \union {u}, {}, stopping)
    <3>1. u.pc \notin Busy /\ u.pc # "waiting"
      BY SMTT(30), <2>3 DEF Busy
    <3>2. ~Running(b.flight) /\ b.threaded = a.threaded /\ b.abandoned = a.abandoned
          /\ b.flight.generation = a.flight.generation
      BY SMTT(30), <2>5 DEF Same
    <3>3. Swapped(a, b, t, u, stopping)
      BY SMTT(120), <2>3, <2>5, <3>1, <3>2 DEF Swapped
    <3>4. Consistent(a, h, Mine(p), fs, stopping)
      OBVIOUS
    <3> HIDE DEF a, waiting
    <3> QED BY ZenonT(30), <1>0, <2>2, <3>3, <3>4, SwapConsistent
  <2> QED BY Zenon, <2>4, <2>6
<1> QED BY Zenon, <1>1, <1>2

\* An event is pushed (Schedule::push).
LEMMA PushConsistent ==
    ASSUME TypeOK, ThreadInv, NEW p \in Pids, NEW key \in Keys \union {NoKey}, NEW window \in Windows,
           Push(p, key, window)
    PROVE  ThreadInv'
<1>1. CASE PushStopping(p)
  BY Zenon, <1>1 DEF PushStopping, ThreadInv, Mine, Failures
<1>2. CASE PushRunning(p, key, window)
  <2> DEFINE m     == Len(events) + 1
             app   == apps[p]
             same  == {e \in app.queue : key # NoKey /\ e.key = key}
             entry == [marker |-> m, key |-> key, window |-> window]
             a     == [app EXCEPT !.ending = FALSE, !.queue = (@ \ same) \union {entry}]
             past  == a.limitReached # NoTime /\ now >= a.limitReached + Deadline
             drops == ~a.threaded /\ past
             starts == ~a.threaded /\ ~past /\ Room(a.abandoned)
             next  == IF drops THEN [a EXCEPT !.queue = {}]
                      ELSE IF starts THEN Started(a) ELSE a
  <2>0. /\ app \in Apps /\ Mine(p) \in SUBSET Threads /\ apps \in [Pids -> Apps] /\ m \in Nat
        /\ failed = {}
    BY DEF TypeOK, Mine, Push, Locked
  <2>1. Consistent(app, p \in held, Mine(p), {}, stopping)
    <3>1. Failures(p) = {}
      BY <2>0 DEF Failures
    <3> QED BY <3>1 DEF ThreadInv
  <2>2. (IF p \in held THEN apps[p] ELSE NoApp) = app
    BY <2>1 DEF Consistent
  <2>3. a \in Apps
    <3>1. entry \in Entries
      BY <2>0 DEF Entries
    <3> HIDE DEF entry, same
    <3> QED BY Zenon, <2>0, <3>1 DEF Apps
  <2>4. Same(app, a)
    BY <2>0 DEF Same, Apps
  <2>5. /\ apps' = [apps EXCEPT ![p] = next] /\ held' = held \union {p} /\ stopping' = stopping
        /\ IF starts
           THEN \/ /\ threads' = threads \union {Thread(p, next.flight.generation)}
                   /\ failed' = {}
                \/ /\ threads' = threads
                   /\ failed' = {[pid |-> p, generation |-> next.flight.generation]}
           ELSE /\ threads' \in (IF a.threaded THEN Wake(threads, p) ELSE {threads})
                /\ failed' = failed
    BY Zenon, <1>2, <2>2 DEF PushRunning
  <2> HIDE DEF a
  <2>6. next \in Apps
    BY <2>3, AppTypes DEF Apps
  <2>7. /\ apps'[p] = next /\ p \in held'
        /\ \A q \in Pids \ {p} : apps'[q] = apps[q] /\ (q \in held' <=> q \in held)
    BY SMTT(30), <2>0, <2>5
  <2>8. ~app.threaded => \A t \in Mine(p) : t.pc # "waiting"
    BY SMTT(30), <2>0, <2>1, NobodyInCharge DEF Busy
  <2>9. CASE drops
    <3>1. ~starts /\ ~a.threaded /\ threads' = threads /\ failed' = {}
      BY SMTT(30), <2>0, <2>5, <2>9
    <3>2. \A q \in Pids : Mine(q)' = Mine(q) /\ Failures(q)' = Failures(q) /\ Failures(q)' = {}
      BY <2>0, <3>1 DEF Mine, Failures
    <3>3. Same(app, next)
      BY SMTT(30), <2>3, <2>4, <2>9 DEF Same, Apps
    <3>4. ~app.threaded
      BY SMTT(30), <2>4, <3>1 DEF Same
    <3> HIDE DEF next
    <3>5. Consistent(next, TRUE, Mine(p), {}, stopping)
      BY Zenon, <2>1, <2>8, <3>3, <3>4, SameConsistent
    <3>6. Consistent(apps'[p], p \in held', Mine(p)', Failures(p)', stopping)
      BY Zenon, <2>7, <3>2, <3>5 DEF Consistent
    <3> QED BY SMTT(30), <2>5, <2>7, <3>2, <3>6, OneAppSteps
  <2>10. CASE starts
    <3> DEFINE n == Thread(p, next.flight.generation)
               f == [pid |-> p, generation |-> next.flight.generation]
    <3>1. next = Started(a) /\ ~a.threaded /\ ~app.threaded
      BY <2>4, <2>10 DEF Same
    <3>2. next.flight.generation \in Nat
      BY <2>6 DEF Apps, Flights
    <3>3. n \in Threads /\ n.generation = next.flight.generation /\ n.pc = "next" /\ n.pid = p
      BY SMTT(30), <3>2, ThreadType DEF Thread
    <3>4. /\ Consistent(next, TRUE, Mine(p) \union {n}, {}, stopping)
          /\ Consistent(next, TRUE, Mine(p), {f}, stopping)
      <4>1. f.generation = next.flight.generation
        OBVIOUS
      <4> HIDE DEF n, f, next
      <4> QED BY ZenonT(30), <2>0, <2>1, <2>3, <2>4, <3>1, <3>3, <4>1, StartedConsistent
    <3>5. CASE threads' = threads \union {n} /\ failed' = {}
      <4>1. \A q : Mine(q)' = IF q = p THEN Mine(q) \union {n} ELSE Mine(q)
        BY <3>3, <3>5, MineGains
      <4>2. \A q : Failures(q)' = Failures(q) /\ Failures(q)' = {}
        BY SMTT(30), <2>0, <3>5 DEF Failures
      <4> HIDE DEF n, next
      <4>3. Consistent(apps'[p], p \in held', Mine(p)', Failures(p)', stopping)
        BY ZenonT(30), <2>7, <3>4, <4>1, <4>2 DEF Consistent
      <4> QED BY SMTT(120), <2>5, <2>7, <4>1, <4>2, <4>3, OneAppSteps
    <3>6. CASE threads' = threads /\ failed' = {f}
      <4>1. \A q : Mine(q)' = Mine(q)
        BY <3>6 DEF Mine
      <4>2. Failures(p)' = {f} /\ \A q \in Pids \ {p} : Failures(q)' = Failures(q)
        BY SMTT(30), <2>0, <3>6 DEF Failures
      <4> HIDE DEF f, next
      <4>3. Consistent(apps'[p], p \in held', Mine(p)', Failures(p)', stopping)
        BY Zenon, <2>7, <3>4, <4>1, <4>2 DEF Consistent
      <4> QED BY SMTT(120), <2>5, <2>7, <4>1, <4>2, <4>3, OneAppSteps
    <3> QED BY SMTT(30), <2>5, <2>10, <3>5, <3>6
  <2>11. CASE ~drops /\ ~starts
    <3>1. next = a /\ failed' = {} /\ threads' \in (IF a.threaded THEN Wake(threads, p) ELSE {threads})
      BY <2>0, <2>5, <2>11
    <3>2. \A q \in Pids : Failures(q)' = Failures(q) /\ Failures(q)' = {}
      BY <2>0, <3>1 DEF Failures
    <3>3. /\ Consistent(a, TRUE, Mine(p)', {}, stopping)
          /\ \A q \in Pids \ {p} : Mine(q)' = Mine(q)
      <4>1. CASE a.threaded
        BY ZenonT(30), <2>1, <2>3, <2>4, <3>1, <4>1, WakeConsistent
      <4>2. CASE ~a.threaded
        <5>1. \A q : Mine(q)' = Mine(q)
          BY SMTT(30), <3>1, <4>2 DEF Mine
        <5>2. ~app.threaded
          BY <2>4, <4>2 DEF Same
        <5> QED BY Zenon, <2>1, <2>4, <2>8, <5>1, <5>2, SameConsistent
      <4> QED BY Zenon, <4>1, <4>2
    <3>4. Consistent(apps'[p], p \in held', Mine(p)', Failures(p)', stopping)
      BY Zenon, <2>7, <3>1, <3>2, <3>3 DEF Consistent
    <3> QED BY SMTT(30), <2>5, <2>7, <3>2, <3>3, <3>4, OneAppSteps
  <2> QED BY SMTT(30), <2>9, <2>10, <2>11
<1> QED BY SMTT(30), <1>1, <1>2 DEF Push

\* An application's outpost ends (Schedule::outpost_ended).
LEMMA OutpostEndedConsistent ==
    ASSUME TypeOK, ThreadInv, NEW p \in Pids, OutpostEnded(p)
    PROVE  ThreadInv'
<1> DEFINE a == apps[p]
           b == [a EXCEPT !.ending = TRUE]
<1>0. /\ a \in Apps /\ p \in held /\ failed = {} /\ failed' = {} /\ stopping' = stopping
      /\ LetGoIfSpent(p, b) /\ Mine(p) \in SUBSET Threads
      /\ threads' \in IF Spent(b) THEN {threads} ELSE Wake(threads, p)
  BY DEF OutpostEnded, TypeOK, Locked, Mine
<1>1. b \in Apps /\ Same(a, b)
  BY Zenon, <1>0 DEF Apps, Same
<1>2. \A q \in Pids : Failures(q) = {} /\ Failures(q)' = {}
  BY <1>0 DEF Failures
<1>3. Consistent(a, p \in held, Mine(p), {}, stopping)
  BY <1>2 DEF ThreadInv
<1>4. /\ Consistent(b, TRUE, Mine(p)', {}, stopping)
      /\ \A q \in Pids \ {p} : Mine(q)' = Mine(q)
  <2>1. CASE Spent(b)
    <3>1. ~a.threaded /\ \A q : Mine(q)' = Mine(q)
      BY <1>0, <2>1 DEF Spent, Mine, Apps
    <3>2. \A t \in Mine(p) : t.pc # "waiting"
      BY SMTT(30), <1>0, <1>3, <3>1, NobodyInCharge DEF Busy
    <3> HIDE DEF a, b
    <3> QED BY Zenon, <1>1, <1>3, <3>1, <3>2, SameConsistent
  <2>2. CASE ~Spent(b)
    <3>1. threads' \in Wake(threads, p)
      BY <1>0, <2>2
    <3> HIDE DEF b
    <3> QED BY Zenon, <1>1, <1>3, <3>1, WakeConsistent
  <2> QED BY Zenon, <2>1, <2>2
<1>5. Mine(p)' \in SUBSET Threads
  <2>1. threads' \subseteq Threads
    <3> HIDE DEF b
    <3>1. CASE threads' = threads
      BY SMTT(30), <3>1 DEF TypeOK
    <3>2. CASE threads' \in Wake(threads, p)
      BY SMTT(30), <3>2, WakeType DEF TypeOK
    <3> QED BY SMTT(30), <1>0, <3>1, <3>2
  <2> QED BY <2>1 DEF Mine
<1> HIDE DEF a, b
<1>6. /\ Consistent(apps'[p], p \in held', Mine(p)', {}, stopping)
      /\ \A q \in Pids \ {p} : apps'[q] = apps[q] /\ (q \in held' <=> q \in held)
  BY ZenonT(30), <1>0, <1>1, <1>4, <1>5, LetGoConsistent
<1> QED BY SMTT(120), <1>0, <1>2, <1>4, <1>6, OneAppSteps

\* The readers stop, and every thread that waits is told (Schedule::stop).
LEMMA StopConsistent ==
    ASSUME TypeOK, ThreadInv, Stop
    PROVE  ThreadInv'
<1>0. /\ stopping = FALSE /\ stopping' = TRUE /\ apps' = apps /\ held' = held /\ failed' = failed
      /\ threads' = {[t EXCEPT !.pc = IF @ = "waiting" THEN "next" ELSE @] : t \in threads}
  BY DEF Stop, TypeOK
<1> SUFFICES ASSUME NEW p \in Pids
             PROVE  Consistent(apps[p], p \in held, Mine(p)', Failures(p), TRUE)
  BY Zenon, <1>0 DEF ThreadInv, Failures
<1> DEFINE a == apps[p]
           h == p \in held
           told(t) == [t EXCEPT !.pc = IF @ = "waiting" THEN "next" ELSE @]
<1>1. /\ a \in Apps /\ Mine(p) \in SUBSET Threads /\ Consistent(a, h, Mine(p), Failures(p), FALSE)
  BY Zenon, <1>0 DEF TypeOK, Mine, ThreadInv
<1>2. Mine(p)' = {told(t) : t \in Mine(p)}
  <2>1. \A t \in threads : told(t).pid = t.pid
    BY DEF TypeOK, Threads
  <2> QED BY ZenonT(30), <1>0, <2>1 DEF Mine
<1>3. \A t \in Mine(p) : t.pc # "waiting" => told(t) = t
  BY SMTT(30), <1>1 DEF Threads
<1>4. ASSUME NEW ts, Consistent(a, h, ts, Failures(p), FALSE), \A t \in ts : t.pc # "waiting"
      PROVE  Consistent(a, h, ts, Failures(p), TRUE)
  BY <1>4 DEF Consistent, Told, Charged
<1>5. CASE \A t \in Mine(p) : t.pc # "waiting"
  <2>1. Mine(p)' = Mine(p)
    BY <1>2, <1>3, <1>5
  <2> QED BY Zenon, <1>1, <1>4, <1>5, <2>1
<1>6. ASSUME NEW t \in Mine(p), t.pc = "waiting"
      PROVE  Consistent(a, h, Mine(p)', Failures(p), TRUE)
  <2> DEFINE u == [t EXCEPT !.pc = "next"]
             vs == (Mine(p) \ {t}) \union {u}
  <2>1. t \in Threads /\ u.generation = t.generation /\ u.pc = "next" /\ told(t) = u
    BY SMTT(30), <1>1, <1>6 DEF Threads
  <2>2. h /\ t.generation = a.flight.generation /\ ~Running(a.flight)
    <3>1. t.pc \notin Busy
      BY SMTT(30), <1>6 DEF Busy
    <3>2. a.threaded /\ t.generation = a.flight.generation
      BY SMTT(120), <1>1, <3>1 DEF Consistent, Placed
    <3> QED BY <1>1, <3>1, <3>2 DEF Consistent, Placed, Reads
  <2>3. \A v \in Mine(p) \ {t} : v.pc # "waiting"
    BY SMTT(120), <1>1, <2>2 DEF Consistent, Placed, Busy
  <2>4. Mine(p)' = vs
    <3> HIDE DEF u, told
    <3> QED BY SMTT(30), <1>2, <1>3, <2>1, <2>3
  <2>5. Swapped(a, a, t, u, FALSE)
    BY SMTT(30), <2>1, <2>2 DEF Swapped, Busy
  <2> HIDE DEF u, a, h
  <2>6. Failures(p) = {} /\ Consistent(a, TRUE, vs, {}, FALSE)
    BY ZenonT(30), <1>1, <2>5, SwapConsistent
  <2>7. \A v \in vs : v.pc # "waiting"
    BY <2>1, <2>3
  <2>8. Consistent(a, h, vs, Failures(p), FALSE)
    BY Zenon, <2>2, <2>6 DEF Consistent
  <2> QED BY Zenon, <1>4, <2>4, <2>7, <2>8
<1> QED BY Zenon, <1>5, <1>6

-----------------------------------------------------------------------------
(* The steps of a reading thread. *)

\* A step that leaves the application as b, or lets it go.
LEMMA StepConsistent ==
    ASSUME TypeOK, ThreadInv, NEW p \in held, NEW b \in Apps,
           \/ apps' = [apps EXCEPT ![p] = b] /\ held' = held
           \/ LetGoIfSpent(p, b),
           UNCHANGED <<stopping, failed>>, Mine(p)' \in SUBSET Threads,
           \A q \in Pids \ {p} : Mine(q)' = Mine(q),
           Consistent(b, TRUE, Mine(p)', Failures(p), stopping)
    PROVE  ThreadInv'
<1>0. p \in Pids /\ apps \in [Pids -> Apps] /\ \A q \in Pids : Failures(q)' = Failures(q)
  BY SMTT(30) DEF TypeOK, Failures
<1>1. /\ Consistent(apps'[p], p \in held', Mine(p)', Failures(p), stopping)
      /\ \A q \in Pids \ {p} : apps'[q] = apps[q] /\ (q \in held' <=> q \in held)
  <2>1. CASE apps' = [apps EXCEPT ![p] = b] /\ held' = held
    <3>1. apps'[p] = b /\ \A q \in Pids \ {p} : apps'[q] = apps[q]
      BY SMTT(30), <1>0, <2>1
    <3> QED BY SMTT(30), <2>1, <3>1 DEF Consistent
  <2>2. CASE LetGoIfSpent(p, b)
    BY ZenonT(30), <2>2, LetGoConsistent
  <2> QED BY SMTT(30), <2>1, <2>2
<1> QED BY SMTT(30), <1>0, <1>1, OneAppSteps

\* What holds of a thread and its application.
LEMMA ThreadFacts ==
    ASSUME TypeOK, ThreadInv, NEW t \in threads
    PROVE  /\ t \in Threads /\ t.pid \in held /\ apps[t.pid] \in Apps /\ t \in Mine(t.pid)
           /\ Mine(t.pid) \in SUBSET Threads
           /\ Consistent(apps[t.pid], TRUE, Mine(t.pid), Failures(t.pid), stopping)
           /\ t.generation = apps[t.pid].flight.generation <=> AppInCharge(apps[t.pid], t.generation)
           /\ t.pc \notin Busy => /\ t.generation = apps[t.pid].flight.generation
                                  /\ ~Running(apps[t.pid].flight)
           /\ t.pc \in Busy /\ t.generation = apps[t.pid].flight.generation =>
                 /\ Running(apps[t.pid].flight)
                 /\ t.request = apps[t.pid].flight.request /\ t.item = apps[t.pid].flight.item
<1>1. t \in Threads /\ t.pid \in Pids /\ t \in Mine(t.pid) /\ Mine(t.pid) \in SUBSET Threads
      /\ apps[t.pid] \in Apps
  BY SMTT(30) DEF TypeOK, Threads, Mine
<1> DEFINE a == apps[t.pid]
           ts == Mine(t.pid)
           fs == Failures(t.pid)
<1>2. Consistent(a, t.pid \in held, ts, fs, stopping)
  BY SMTT(30), <1>1 DEF ThreadInv
<1>3. t.pid \in held
  BY SMTT(120), <1>1, <1>2 DEF Consistent
<1>4. Consistent(a, TRUE, ts, fs, stopping)
  BY ZenonT(30), <1>2 DEF Consistent
<1> HIDE DEF a, ts, fs
<1>5. t.generation = a.flight.generation <=> AppInCharge(a, t.generation)
  BY ZenonT(30), <1>1, <1>4 DEF Consistent, Placed, AppInCharge, ts
<1>6. t.pc \notin Busy => t.generation = a.flight.generation /\ ~Running(a.flight)
  BY ZenonT(30), <1>1, <1>4, IdleInCharge DEF ts
<1>7. t.pc \in Busy /\ t.generation = a.flight.generation =>
         Running(a.flight) /\ t.request = a.flight.request /\ t.item = a.flight.item
  BY Zenon, <1>1, <1>4 DEF Consistent, Reads, ts
<1> QED BY Zenon, <1>1, <1>3, <1>4, <1>5, <1>6, <1>7 DEF a, ts, fs

\* The thread in charge goes on as u, its application as b.
LEMMA SwapStep ==
    ASSUME TypeOK, ThreadInv, NEW t \in threads, NEW u \in Threads, NEW b \in Apps, u.pid = t.pid,
           Swapped(apps[t.pid], b, t, u, stopping),
           apps' = [apps EXCEPT ![t.pid] = b], UNCHANGED <<held, stopping, failed>>,
           threads' = (threads \ {t}) \union {u}
    PROVE  ThreadInv'
<1> DEFINE p == t.pid
           vs == (Mine(p) \ {t}) \union {u}
<1>1. /\ p \in held /\ apps[p] \in Apps /\ t \in Mine(p) /\ Mine(p) \in SUBSET Threads
      /\ Consistent(apps[p], TRUE, Mine(p), Failures(p), stopping)
  BY Zenon, ThreadFacts
<1>2. Mine(p)' = vs /\ \A q \in Pids \ {p} : Mine(q)' = Mine(q)
  BY SMTT(30), MineSwaps
<1>3. Failures(p) = {} /\ Consistent(b, TRUE, vs, {}, stopping)
  BY Zenon, <1>1, SwapConsistent
<1>4. vs \in SUBSET Threads
  BY <1>1
<1> HIDE DEF vs, p
<1> QED BY Zenon, <1>1, <1>2, <1>3, <1>4, StepConsistent DEF p

\* The thread in charge ends, its application left as b.
LEMMA DepartStep ==
    ASSUME TypeOK, ThreadInv, NEW t \in threads, NEW b \in Apps,
           t.generation = apps[t.pid].flight.generation,
           stopping \/ ~b.threaded, b.abandoned = apps[t.pid].abandoned,
           b.flight.generation = apps[t.pid].flight.generation, ~Running(b.flight),
           \/ apps' = [apps EXCEPT ![t.pid] = b] /\ held' = held
           \/ LetGoIfSpent(t.pid, b),
           UNCHANGED <<stopping, failed>>, threads' = threads \ {t}
    PROVE  ThreadInv'
<1> DEFINE p == t.pid
           vs == Mine(p) \ {t}
<1>1. /\ p \in held /\ apps[p] \in Apps /\ t \in Mine(p) /\ Mine(p) \in SUBSET Threads
      /\ Consistent(apps[p], TRUE, Mine(p), Failures(p), stopping)
  BY Zenon, ThreadFacts
<1>2. Mine(p)' = vs /\ \A q \in Pids \ {p} : Mine(q)' = Mine(q)
  BY SMTT(30), MineLoses
<1>3. Failures(p) = {} /\ Consistent(b, TRUE, vs, {}, stopping)
  BY ZenonT(90), <1>1, DepartedConsistent
<1>4. vs \in SUBSET Threads
  BY <1>1
<1> HIDE DEF vs, p
<1> QED BY ZenonT(30), <1>1, <1>2, <1>3, <1>4, StepConsistent DEF p

\* A thread asks for its next event (next_job), or wakes by itself.
LEMMA NextJobConsistent ==
    ASSUME TypeOK, ThreadInv, NEW t \in threads
    PROVE  /\ NextJob(t) => ThreadInv'
           /\ SpuriousWake(t) => ThreadInv'
<1> DEFINE p == t.pid
           a == apps[p]
<1>0. /\ t \in Threads /\ p \in Pids /\ p \in held /\ a \in Apps /\ apps \in [Pids -> Apps]
      /\ apps = [apps EXCEPT ![p] = a]
      /\ t.generation = a.flight.generation <=> AppInCharge(a, t.generation)
      /\ t.pc \notin Busy => t.generation = a.flight.generation /\ ~Running(a.flight)
  <2>1. p \in held /\ a \in Apps /\ t \in Threads
    BY Zenon, ThreadFacts
  <2>2. p \in Pids /\ apps \in [Pids -> Apps]
    BY SMTT(30), <2>1 DEF TypeOK
  <2> QED BY Zenon, <2>1, <2>2, ThreadFacts
<1>1. ASSUME SpuriousWake(t) PROVE ThreadInv'
  <2> DEFINE u == [t EXCEPT !.pc = "next"]
  <2>1. u \in Threads /\ u.pid = p /\ u.generation = t.generation /\ u.pc = "next"
    BY <1>0 DEF Threads
  <2>2. t.pc \notin Busy
    BY <1>1 DEF SpuriousWake, Busy
  <2>3. Swapped(a, a, t, u, stopping)
    BY SMTT(30), <1>0, <2>1, <2>2 DEF Swapped, Busy
  <2>4. threads' = (threads \ {t}) \union {u} /\ UNCHANGED <<apps, held, stopping, failed>>
    BY SMTT(30), <1>1 DEF SpuriousWake
  <2> HIDE DEF u
  <2> QED BY ZenonT(30), <1>0, <2>1, <2>3, <2>4, SwapStep
<1>2. ASSUME NextJob(t) PROVE ThreadInv'
  <2>0. t.pc = "next" /\ UNCHANGED <<stopping, failed>>
    BY SMTT(30), <1>2 DEF NextJob
  <2>1. t.generation = a.flight.generation /\ ~Running(a.flight) /\ (InCharge(t) <=> ~stopping)
    BY SMTT(120), <1>0, <2>0 DEF Busy, InCharge
  <2>2. CASE Leaves(t)
    <3>1. stopping /\ threads' = threads \ {t} /\ apps' = apps /\ held' = held
      BY SMTT(30), <2>1, <2>2 DEF Leaves
    <3>2. apps' = [apps EXCEPT ![p] = a]
      BY SMTT(30), <1>0, <3>1
    <3> QED BY ZenonT(30), <1>0, <2>0, <2>1, <3>1, <3>2, DepartStep
  <2>3. CASE Takes(t)
    <3> DEFINE first == Oldest(a.queue)
               taken == Start(a.flight, first.marker, Deadline, first.window, now)
               b == [a EXCEPT !.queue = @ \ {first}, !.flight = taken]
               u == [t EXCEPT !.pc = "reading", !.request = taken.request,
                              !.item = first.marker, !.window = first.window]
    <3>1. first \in Entries
      BY SMTT(120), <1>0, <2>3, OldestType, MarkersType DEF Takes
    <3>2. first.marker \in Nat /\ first.window \in Windows /\ a.flight \in Flights /\ now \in Nat
      BY ZenonT(30), <1>0, <3>1 DEF Entries, Apps, TypeOK
    <3>3. /\ apps' = [apps EXCEPT ![p] = b] /\ held' = held
          /\ threads' = (threads \ {t}) \union {u}
      BY SMTT(120), <2>3 DEF Takes
    <3> HIDE DEF first
    <3>4. Deadline \in Nat /\ first.window \in Moveds
      BY Zenon, <3>2, ScheduleAssumption DEF Moveds
    <3>5. taken \in Flights
      BY Zenon, <3>2, <3>4, FlightTypes
    <3>6. /\ taken.generation = a.flight.generation /\ Running(taken) /\ taken.item = first.marker
          /\ taken.request \in Requests
      BY <3>2, <3>5 DEF Start, Running, Flights
    <3> HIDE DEF taken
    <3>7. /\ b \in Apps /\ b.flight = taken /\ b.threaded = a.threaded /\ b.abandoned = a.abandoned
      BY Zenon, <1>0, <3>5 DEF Apps
    <3>8. /\ u \in Threads /\ u.pid = t.pid /\ u.generation = t.generation /\ u.pc = "reading"
          /\ u.request = taken.request /\ u.item = first.marker
      BY ZenonT(30), <1>0, <3>2, <3>6 DEF Threads
    <3> HIDE DEF b, u
    <3>9. Swapped(a, b, t, u, stopping)
      BY SMTT(120), <2>1, <3>6, <3>7, <3>8 DEF Swapped, Busy
    <3> QED BY ZenonT(30), <2>0, <3>3, <3>7, <3>8, <3>9, SwapStep
  <2>4. CASE Ends(t)
    <3> DEFINE b == [a EXCEPT !.threaded = FALSE]
    <3>1. /\ b \in Apps /\ ~b.threaded /\ b.abandoned = a.abandoned /\ b.flight = a.flight
      BY ZenonT(30), <1>0 DEF Apps
    <3>2. LetGoIfSpent(p, b) /\ threads' = threads \ {t}
      BY <2>4 DEF Ends
    <3> HIDE DEF b
    <3> QED BY SMTT(120), <2>0, <2>1, <3>1, <3>2, DepartStep
  <2>5. CASE Parks(t)
    <3> DEFINE u == [t EXCEPT !.pc = "waiting"]
    <3>1. u \in Threads /\ u.pid = p /\ u.generation = t.generation /\ u.pc = "waiting"
      BY <1>0 DEF Threads
    <3>2. /\ ~stopping /\ a.queue = {} /\ ~a.ending
          /\ threads' = (threads \ {t}) \union {u} /\ apps' = apps /\ held' = held
      BY <2>5 DEF Parks, InCharge
    <3>3. Swapped(a, a, t, u, stopping)
      BY SMTT(30), <2>1, <3>1, <3>2 DEF Swapped, Busy
    <3>4. apps' = [apps EXCEPT ![p] = a]
      BY SMTT(30), <1>0, <3>2
    <3> HIDE DEF u
    <3> QED BY Zenon, <1>0, <2>0, <3>1, <3>2, <3>3, <3>4, SwapStep
  <2> QED BY SMTT(30), <1>2, <2>2, <2>3, <2>4, <2>5 DEF NextJob
<1> QED BY SMTT(30), <1>1, <1>2

\* A thread's read returns (finished), to whoever is in charge then.
LEMMA ReadReturnsConsistent ==
    ASSUME TypeOK, ThreadInv, NEW t \in threads, ReadReturns(t)
    PROVE  ThreadInv'
<1> DEFINE p == t.pid
           a == apps[p]
<1>0. /\ t \in Threads /\ p \in held /\ a \in Apps /\ t \in Mine(p) /\ Mine(p) \in SUBSET Threads
      /\ Consistent(a, TRUE, Mine(p), Failures(p), stopping)
      /\ t.generation = a.flight.generation <=> AppInCharge(a, t.generation)
  BY ZenonT(30), ThreadFacts
<1>1. /\ t.pc \in Busy /\ failed = {} /\ UNCHANGED <<stopping, failed>>
      /\ p \in Pids /\ apps \in [Pids -> Apps] /\ t.request \in Requests
  BY ZenonT(30), <1>0 DEF ReadReturns, Locked, Busy, TypeOK, Threads
<1>2. CASE ReturnsToNobody(t)
  BY <1>0, <1>2 DEF ReturnsToNobody
<1>3. CASE ReturnsInCharge(t)
  <2> DEFINE b == [a EXCEPT !.flight = Taken(@)]
             u == Rested(t)
  <2>1. t.generation = a.flight.generation /\ Running(a.flight) /\ t.request = a.flight.request
    BY Zenon, <1>0, <1>1, <1>3, ThreadFacts DEF ReturnsInCharge
  <2>2. End(a.flight, t.request) = Taken(a.flight)
    BY <2>1 DEF End, RunningOf
  <2>3. /\ apps' = [apps EXCEPT ![p] = b] /\ held' = held
        /\ threads' = (threads \ {t}) \union (IF stopping THEN {} ELSE {u})
    BY <1>3, <2>2 DEF ReturnsInCharge
  <2>4. /\ a.flight \in Flights /\ Taken(a.flight) \in Flights /\ ~Running(Taken(a.flight))
        /\ Taken(a.flight).generation = a.flight.generation
    <3>1. a.flight \in Flights /\ Taken(a.flight) \in Flights
      BY Zenon, <1>0, FlightTypes DEF Apps
    <3> QED BY SMTT(30), <3>1 DEF Taken, New, Running
  <2>5. /\ b \in Apps /\ b.flight = Taken(a.flight) /\ b.threaded = a.threaded
        /\ b.abandoned = a.abandoned
    BY <1>0, <2>4 DEF Apps
  <2>6. u \in Threads /\ u.pid = p /\ u.generation = t.generation /\ u.pc = "next"
    <3>1. NoRequest \in Requests
      BY DEF NoRequest, Requests
    <3> QED BY Zenon, <1>0, <3>1 DEF Rested, Threads
  <2> HIDE DEF b, u
  <2>7. CASE stopping
    <3>1. threads' = threads \ {t}
      BY SMTT(30), <2>3, <2>7
    <3> QED BY ZenonT(30), <1>1, <2>1, <2>3, <2>4, <2>5, <2>7, <3>1, DepartStep
  <2>8. CASE ~stopping
    <3>1. threads' = (threads \ {t}) \union {u}
      BY SMTT(30), <2>3, <2>8
    <3>2. Swapped(a, b, t, u, stopping)
      BY <2>1, <2>4, <2>5, <2>6 DEF Swapped, Busy
    <3> QED BY Zenon, <1>1, <2>3, <2>5, <2>6, <3>1, <3>2, SwapStep
  <2> QED BY <2>7, <2>8
<1>4. CASE ReturnsAbandoned(t)
  <2> DEFINE b == OneBack(a)
             c == Started(b)
             u == [Rested(t) EXCEPT !.generation = c.flight.generation]
  <2>1. t.generation # a.flight.generation
    BY SMTT(30), <1>0, <1>4 DEF ReturnsAbandoned
  <2>2. /\ b \in Apps /\ b.threaded = a.threaded /\ b.flight = a.flight /\ b.queue = a.queue
        /\ b.ending = a.ending
        /\ b.abandoned = IF a.abandoned = 0 THEN 0 ELSE a.abandoned - 1
    <3>1. a.abandoned \in Nat /\ a.limitReached \in Times
      BY SMTT(120), <1>0 DEF Apps
    <3>2. (IF a.abandoned = 0 THEN 0 ELSE a.abandoned - 1) \in Nat
      BY <3>1
    <3>3. (IF Room(a.abandoned - 1) THEN NoTime ELSE a.limitReached) \in Times
      BY <3>1 DEF Times
    <3> QED BY Zenon, <1>0, <3>2, <3>3 DEF OneBack, Apps
  <2>3. Failures(p) = {}
    BY <1>1 DEF Failures
  <2>4. \/ /\ ~b.threaded /\ apps' = [apps EXCEPT ![p] = c] /\ held' = held
           /\ threads' = (threads \ {t}) \union {u}
        \/ LetGoIfSpent(p, b) /\ threads' = threads \ {t}
    BY SMTT(30), <1>4 DEF ReturnsAbandoned
  <2> HIDE DEF b
  <2>5. Consistent(b, TRUE, Mine(p) \ {t}, {}, stopping)
    <3>1. Consistent(a, TRUE, Mine(p), {}, stopping)
      BY Zenon, <1>0, <2>3
    <3> HIDE DEF a
    <3> QED BY Zenon, <1>0, <2>1, <2>2, <3>1, StrayBackConsistent
  <2>6. Mine(p) \ {t} \in SUBSET Threads
    BY <1>0
  <2>7. CASE LetGoIfSpent(p, b) /\ threads' = threads \ {t}
    <3>1. Mine(p)' = Mine(p) \ {t} /\ \A q \in Pids \ {p} : Mine(q)' = Mine(q)
      BY SMTT(30), <2>7, MineLoses
    <3> QED BY ZenonT(30), <1>0, <1>1, <2>2, <2>3, <2>5, <2>6, <2>7, <3>1, StepConsistent
  <2>8. CASE /\ ~b.threaded /\ apps' = [apps EXCEPT ![p] = c] /\ held' = held
             /\ threads' = (threads \ {t}) \union {u}
    <3>1. c \in Apps /\ c.flight.generation \in Nat
      BY <2>2, AppTypes DEF Apps, Flights
    <3>2. u \in Threads /\ u.pid = p /\ u.generation = c.flight.generation /\ u.pc = "next"
      <4>1. NoRequest \in Requests
        BY DEF NoRequest, Requests
      <4> QED BY ZenonT(30), <1>0, <3>1, <4>1 DEF Rested, Threads
    <3>3. Same(b, b)
      BY DEF Same
    <3> HIDE DEF u
    <3>4. Consistent(c, TRUE, (Mine(p) \ {t}) \union {u}, {}, stopping)
      BY Zenon, <2>2, <2>5, <2>6, <2>8, <3>2, <3>3, StartedConsistent
    <3> HIDE DEF c
    <3>5. Mine(p)' = (Mine(p) \ {t}) \union {u} /\ \A q \in Pids \ {p} : Mine(q)' = Mine(q)
      BY SMTT(30), <2>8, <3>2, MineSwaps
    <3>6. Mine(p)' \in SUBSET Threads
      BY SMTT(30), <2>6, <3>2, <3>5
    <3> QED BY ZenonT(30), <1>0, <1>1, <2>3, <2>8, <3>1, <3>4, <3>5, <3>6, StepConsistent
  <2> QED BY SMTT(30), <2>4, <2>7, <2>8
<1> QED BY SMTT(30), <1>2, <1>3, <1>4 DEF ReadReturns

\* A thread's read learns its window (on_learn) or arms its walk (on_arm).
LEMMA ReadProgressConsistent ==
    ASSUME TypeOK, ThreadInv, NEW t \in threads
    PROVE  /\ Learn(t) => ThreadInv'
           /\ \A bound \in Bounds : Arm(t, bound) => ThreadInv'
<1> DEFINE p == t.pid
           a == apps[p]
<1>0. /\ t \in Threads /\ p \in held /\ a \in Apps /\ t \in Mine(p) /\ Mine(p) \in SUBSET Threads
      /\ Consistent(a, TRUE, Mine(p), Failures(p), stopping)
      /\ t.pc \in Busy /\ t.generation = a.flight.generation =>
            Running(a.flight) /\ t.request = a.flight.request /\ t.item = a.flight.item
  BY ZenonT(30), ThreadFacts
<1>1. /\ p \in Pids /\ t.request \in Requests /\ a.flight \in Flights /\ now \in Nat
      /\ apps \in [Pids -> Apps] /\ {p} \in SUBSET held
  BY ZenonT(30), <1>0 DEF TypeOK, Threads, Apps
<1>2. ASSUME Learn(t) PROVE ThreadInv'
  <2> DEFINE d == Learned(a.flight, t.request, now)
             r == [q \in {p} |-> Decided(a, d, now)]
  <2>1. failed = {} /\ Apply(r, Answer(events, OutOf(r), "answered"), alarmDue)
    BY ZenonT(30), <1>2 DEF Learn, Locked
  <2>2. d \in Decisions /\ Shaped(a.flight, d)
    BY SMTT(30), <1>1, DecisionTypes, DecisionShapes
  <2> HIDE DEF d
  <2>3. r \in [{p} -> Results]
    BY ZenonT(30), <1>0, <1>1, <2>2, DecidedType
  <2>4. Consistent(a, TRUE, Mine(p), {}, stopping)
    <3>1. Failures(p) = {}
      BY SMTT(30), <2>1 DEF Failures
    <3> QED BY ZenonT(30), <1>0, <3>1
  <2>5. ResultConsistent(Decided(a, d, now), Mine(p), stopping)
    BY ZenonT(30), <1>0, <1>1, <2>2, <2>4, DecidedConsistent
  <2>6. \A q \in {p} : ResultConsistent(r[q], Mine(q), stopping)
    BY SMTT(30), <2>5
  <2> HIDE DEF r
  <2> QED BY SMTT(30), <1>1, <2>1, <2>3, <2>6, ApplyConsistent
<1>3. ASSUME NEW bound \in Bounds, Arm(t, bound) PROVE ThreadInv'
  <2> DEFINE g == Armed(a.flight, t.request, now + bound)
             b == [a EXCEPT !.flight = g]
             u == [t EXCEPT !.pc = "walking"]
             vs == (Mine(p) \ {t}) \union {u}
  <2>1. /\ t.pc \in Busy /\ apps' = [apps EXCEPT ![p] = b] /\ UNCHANGED <<held, stopping, failed>>
        /\ threads' = (threads \ {t}) \union {u}
    BY SMTT(30), <1>0, <1>3 DEF Arm, Busy
  <2>2. now + bound \in Nat
    BY SMTT(30), <1>1, ScheduleAssumption
  <2>3. g \in Flights
    BY Zenon, <1>1, <2>2, FlightTypes
  <2>4. /\ g.generation = a.flight.generation /\ g.request = a.flight.request
        /\ g.item = a.flight.item /\ Running(g) = Running(a.flight)
    BY SMTT(120), <1>1, <2>3 DEF Armed, RunningOf, Running, Flights
  <2> HIDE DEF g
  <2>5. /\ b \in Apps /\ b.flight = g /\ b.threaded = a.threaded /\ b.abandoned = a.abandoned
        /\ b.queue = a.queue /\ b.ending = a.ending
    BY SMTT(30), <1>0, <2>3 DEF Apps
  <2>6. /\ u \in Threads /\ u.pid = p /\ u.generation = t.generation /\ u.pc = "walking"
        /\ u.request = t.request /\ u.item = t.item
    BY SMTT(30), <1>0 DEF Threads
  <2> HIDE DEF b, u
  <2>7. CASE t.generation = a.flight.generation
    <3>1. Running(a.flight) /\ t.request = a.flight.request /\ t.item = a.flight.item
      BY SMTT(120), <1>0, <2>1, <2>7
    <3>2. Running(b.flight) /\ u.request = b.flight.request /\ u.item = b.flight.item
          /\ b.flight.generation = a.flight.generation
      BY SMTT(120), <2>4, <2>5, <2>6, <3>1
    <3>3. Swapped(a, b, t, u, stopping)
      BY SMTT(120), <2>5, <2>6, <2>7, <3>2 DEF Swapped, Busy
    <3> QED BY ZenonT(30), <2>1, <2>5, <2>6, <3>3, SwapStep
  <2>8. CASE t.generation # a.flight.generation
    <3>1. Consistent(a, TRUE, vs, Failures(p), stopping)
      <4>1. u.pc \in Busy
        BY SMTT(30), <2>6 DEF Busy
      <4> HIDE DEF a
      <4> QED BY ZenonT(30), <1>0, <2>6, <2>8, <4>1, StrayArmsConsistent
    <3>2. Same(a, b)
      BY <2>4, <2>5 DEF Same
    <3>3. \A v \in vs : v.pc = "waiting" => b.queue = {} /\ ~b.ending
      BY ZenonT(30), <2>5, <3>1 DEF Consistent, Told
    <3>4. Consistent(b, TRUE, vs, Failures(p), stopping)
      <4> HIDE DEF a, vs
      <4> QED BY ZenonT(30), <3>1, <3>2, <3>3, SameConsistent
    <3>5. Mine(p)' = vs /\ \A q \in Pids \ {p} : Mine(q)' = Mine(q)
      BY SMTT(30), <2>1, <2>6, MineSwaps
    <3>6. vs \in SUBSET Threads
      BY Zenon, <1>0, <2>6
    <3> HIDE DEF vs
    <3> QED BY ZenonT(30), <1>0, <2>1, <2>5, <3>4, <3>5, <3>6, StepConsistent
  <2> QED BY SMTT(30), <2>7, <2>8
<1> QED BY SMTT(30), <1>2, <1>3

-----------------------------------------------------------------------------
(* The theorems. *)

\* Every application is consistent with its threads, whatever the steps taken.
LEMMA ThreadsConsistent == Spec => []ThreadInv
<1>1. Init => ThreadInv
  <2> SUFFICES ASSUME Init, NEW p \in Pids
               PROVE  Consistent(apps[p], p \in held, Mine(p), Failures(p), stopping)
    BY SMTT(30) DEF ThreadInv
  <2>1. apps[p] = NoApp /\ p \notin held /\ Mine(p) = {} /\ Failures(p) = {}
    BY Zenon DEF Init, Mine, Failures
  <2>2. Consistent(NoApp, FALSE, {}, {}, stopping)
    BY ZenonT(30), NobodyConsistent
  <2> QED BY SMTT(30), <2>1, <2>2 DEF Consistent
<1>2. TypeOK /\ ThreadInv /\ [Next]_vars => ThreadInv'
  <2> SUFFICES ASSUME TypeOK, ThreadInv, [Next]_vars PROVE ThreadInv'
    BY SMTT(30)
  <2>a. ASSUME UNCHANGED <<apps, held, threads, failed, stopping>> PROVE ThreadInv'
    BY ZenonT(30), <2>a DEF ThreadInv, Mine, Failures
  <2>1. ASSUME NEW p \in Pids, NEW key \in Keys \union {NoKey}, NEW window \in Windows,
               Push(p, key, window)
        PROVE  ThreadInv'
    BY <2>1, PushConsistent
  <2>2. ASSUME NEW p \in Pids, OutpostEnded(p) PROVE ThreadInv'
    BY SMTT(30), <2>2, OutpostEndedConsistent
  <2>3. ASSUME WhenIdle PROVE ThreadInv'
    BY SMTT(30), <2>3, <2>a DEF WhenIdle
  <2>4. ASSUME Stop PROVE ThreadInv'
    BY SMTT(30), <2>4, StopConsistent
  <2>5. ASSUME NEW t \in threads, NextJob(t) \/ SpuriousWake(t) \/ ReadReturns(t) \/ Learn(t)
        PROVE  ThreadInv'
    BY SMTT(30), <2>5, NextJobConsistent, ReadReturnsConsistent, ReadProgressConsistent
  <2>6. ASSUME NEW t \in threads, NEW b \in Bounds, Arm(t, b) PROVE ThreadInv'
    BY SMTT(30), <2>6, ReadProgressConsistent
  <2>7. ASSUME WatchdogTick PROVE ThreadInv'
    BY SMTT(30), <2>7, WatchdogConsistent
  <2>8. ASSUME NEW k \in asks, AnswerJudge(k) \/ AnswerPublish(k) PROVE ThreadInv'
    BY SMTT(30), <2>8, WatchdogConsistent
  <2>9. ASSUME NEW f \in failed, SpawnFailed(f) PROVE ThreadInv'
    BY SMTT(30), <2>9, WatchdogConsistent
  <2>10. ASSUME TimerGoesOff \/ AlarmWait \/ Clock PROVE ThreadInv'
    BY SMTT(30), <2>10, <2>a DEF TimerGoesOff, AlarmWait, Clock
  <2>11. ASSUME UNCHANGED vars PROVE ThreadInv'
    BY <2>11, <2>a DEF vars
  <2> QED BY SMTT(30), <2>1, <2>2, <2>3, <2>4, <2>5, <2>6, <2>7, <2>8, <2>9, <2>10, <2>11 DEF Next
<1> QED BY <1>1, <1>2, TypeCorrect, PTL DEF Spec

\* An application is threaded exactly when one thread is in charge of its events,
\* or its start has just failed, and abandoned counts exactly the threads still
\* in a read nobody waits for (Schedule's spawn, abandon, finished and let_go).
THEOREM OneThreadInCharge == Spec => []ThreadsMatch
<1>1. TypeOK /\ ThreadInv => ThreadsMatch
  <2> SUFFICES ASSUME TypeOK, ThreadInv, NEW p \in Pids
               PROVE  LET mine   == {t \in threads : t.pid = p}
                          charge == {t \in mine : p \in held /\ AppInCharge(apps[p], t.generation)}
                          unmade == {f \in failed : f.pid = p /\ p \in held /\ AppInCharge(apps[p], f.generation)}
                      IN  /\ Cardinality(charge) + Cardinality(unmade) <= 1
                          /\ apps[p].threaded /\ ~stopping => charge \union unmade # {}
                          /\ \A t \in mine \ charge : t.pc \in {"reading", "walking"}
                          /\ Cardinality(mine \ charge) = apps[p].abandoned
    BY ZenonT(30) DEF ThreadsMatch
  <2> DEFINE a == apps[p]
             mine == {t \in threads : t.pid = p}
             charge == {t \in mine : p \in held /\ AppInCharge(a, t.generation)}
             unmade == {f \in failed : f.pid = p /\ p \in held /\ AppInCharge(a, f.generation)}
  <2>1. Consistent(a, p \in held, Mine(p), Failures(p), stopping) /\ mine = Mine(p)
    BY SMTT(120) DEF ThreadInv, Mine
  <2>2. \A t \in mine : t \in charge <=> t.generation = a.flight.generation
    BY ZenonT(30), <2>1 DEF Consistent, Placed, AppInCharge
  <2>3. unmade = Failures(p)
    BY ZenonT(30), <2>1 DEF Consistent, Unmade, AppInCharge, Failures
  <2>4. mine \ charge = Strays(a, Mine(p))
    BY ZenonT(30), <2>1, <2>2 DEF Strays
  <2>5. \A t, u \in charge : t = u
    BY ZenonT(30), <2>1, <2>2 DEF Consistent, Placed
  <2>6. \A f, g \in unmade : f = g
    <3>1. \A f \in Failures(p) : f.generation = a.flight.generation /\ f.pid = p
      BY ZenonT(30), <2>1 DEF Consistent, Unmade, Failures
    <3>2. Failures(p) \subseteq [pid : Pids, generation : Nat]
      BY SMTT(30) DEF TypeOK, Failures
    <3> QED BY SMTT(30), <2>3, <3>1, <3>2
  <2>7. charge = {} \/ unmade = {}
    BY ZenonT(30), <2>1, <2>2, <2>3 DEF Consistent, Unmade
  <2>8. a.threaded /\ ~stopping => charge \union unmade # {}
    BY ZenonT(30), <2>1, <2>2, <2>3 DEF Consistent, Charged
  <2>9. \A t \in mine \ charge : t.pc \in {"reading", "walking"}
    BY ZenonT(30), <2>1, <2>2 DEF Consistent, Placed, Busy
  <2>10. Cardinality(mine \ charge) = a.abandoned
    BY Zenon, <2>1, <2>4 DEF Consistent, Counted
  <2> HIDE DEF charge, unmade, mine
  <2>11. Cardinality(charge) + Cardinality(unmade) <= 1
    <3>1. ASSUME NEW S, \A x, y \in S : x = y PROVE Cardinality(S) \in {0, 1} /\ (S = {} => Cardinality(S) = 0)
      <4>1. CASE S = {}
        BY SMTT(30), <4>1, FS_EmptySet
      <4>2. ASSUME NEW x \in S PROVE Cardinality(S) = 1
        <5>1. S = {x}
          BY <3>1
        <5> QED BY <5>1, FS_Singleton
      <4> QED BY <4>1, <4>2
    <3>2. Cardinality(charge) \in {0, 1} /\ Cardinality(unmade) \in {0, 1}
          /\ (Cardinality(charge) = 0 \/ Cardinality(unmade) = 0)
      BY SMTT(30), <2>5, <2>6, <2>7, <3>1
    <3> QED BY <3>2
  <2> QED BY ZenonT(30), <2>8, <2>9, <2>10, <2>11 DEF charge, unmade, mine
<1> QED BY <1>1, ThreadsConsistent, TypeCorrect, PTL

\* A thread parked on its condition variable is the one in charge and has been
\* told of everything: no event waits, its outpost has not ended and the readers
\* are not stopping (the notifications of push, outpost_ended and stop).
THEOREM WakeupsKept == Spec => []NoLostWakeup
<1>1. TypeOK /\ ThreadInv => NoLostWakeup
  <2> SUFFICES ASSUME TypeOK, ThreadInv, NEW t \in threads, t.pc = "waiting"
               PROVE  InCharge(t) /\ apps[t.pid].queue = {} /\ ~apps[t.pid].ending
    BY DEF NoLostWakeup
  <2>1. t.pc \notin Busy
    BY SMTT(30) DEF Busy
  <2>2. t.pid \in held /\ AppInCharge(apps[t.pid], t.generation)
    BY Zenon, <2>1, ThreadFacts
  <2>3. ~stopping /\ apps[t.pid].queue = {} /\ ~apps[t.pid].ending
    BY Zenon, ThreadFacts DEF Consistent, Told
  <2> QED BY SMTT(30), <2>2, <2>3 DEF InCharge
<1> QED BY <1>1, ThreadsConsistent, TypeCorrect, PTL
=============================================================================
