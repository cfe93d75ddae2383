------------------------- MODULE ReadScheduleProofs -------------------------
(***************************************************************************)
(* Theorems about the read scheduler, for any number of applications, any  *)
(* limit, deadline and bounds: the record of one read, for every time;     *)
(* what the transitions of one application do to its threads, for module   *)
(* ThreadProofs; the types; and the alarm.                                 *)
(***************************************************************************)
EXTENDS ReadSchedule, FiniteSetTheorems, SequenceTheorems, WellFoundedInduction, TLAPS

USE GraceAssumption, ScheduleAssumption

-----------------------------------------------------------------------------
(* The record of one read. *)

Decisions == [do : {"Nothing", "Judge", "Publish", "Abandon"}, why : Reasons \union {"None"},
              flight : Flights, item : Nat, published : BOOLEAN]

\* Every operation keeps the record well formed (new, start, succeed, end).
LEMMA FlightTypes ==
    /\ New \in Flights
    /\ \A f \in Flights :
       /\ Taken(f) \in Flights
       /\ Succeed(f) \in Flights
       /\ HandOn(f) \in Flights
       /\ \A r \in Requests : End(f, r) \in Flights
       /\ \A item, deadline, at \in Nat, w \in Moveds : Start(f, item, deadline, w, at) \in Flights
       /\ \A r \in Requests, b \in Nat : Armed(f, r, b) \in Flights
<1>1. New \in Flights
  BY DEF New, Flights, Walks, Moveds, NoRequest, Requests
<1>6. ASSUME NEW f \in Flights PROVE Taken(f) \in Flights
  BY <1>1 DEF Flights, Taken
<1>7. ASSUME NEW f \in Flights PROVE Succeed(f) \in Flights
  BY DEF Flights, Succeed
<1>2. ASSUME NEW f \in Flights PROVE HandOn(f) \in Flights
  <2>1. NextRequest(f) \in Requests
    BY DEF Flights, Requests, NextRequest
  <2>2. f.requests + 1 \in Nat
    BY DEF Flights
  <2>3. [f EXCEPT !.requests = @ + 1, !.request = NextRequest(f)] \in Flights
    BY <2>1, <2>2 DEF Flights
  <2> QED BY <2>3 DEF HandOn
<1>3. ASSUME NEW f \in Flights, NEW r \in Requests PROVE End(f, r) \in Flights
  BY <1>6 DEF End
<1>4. ASSUME NEW f \in Flights, NEW item \in Nat, NEW deadline \in Nat, NEW at \in Nat, NEW w \in Moveds
      PROVE  Start(f, item, deadline, w, at) \in Flights
  <2>1. NextRequest(f) \in Requests
    BY DEF Flights, Requests, NextRequest
  <2>2. (IF w \in {"Known", "Named"} THEN at + Grace ELSE 0) \in Nat
    OBVIOUS
  <2>3. "Unarmed" \in Walks /\ f.requests + 1 \in Nat /\ at + deadline \in Nat
    BY DEF Walks, Flights
  <2> QED BY <2>1, <2>2, <2>3 DEF Flights, Start
<1>5. ASSUME NEW f \in Flights, NEW r \in Requests, NEW b \in Nat PROVE Armed(f, r, b) \in Flights
  BY DEF Flights, Walks, Armed
<1> QED BY <1>1, <1>2, <1>3, <1>4, <1>5, <1>6, <1>7

\* What an operation decides is well formed: the record it leaves, the item that
\* leaves with an abandonment, its reason.
LEMMA DecisionForms ==
    ASSUME NEW f \in Flights, NEW why \in Reasons \union {"None"}
    PROVE  /\ Nothing(f) \in Decisions
           /\ AskJudge(f) \in Decisions
           /\ AskPublish(f, why) \in Decisions
           /\ Abandon(f, why) \in Decisions
<1>1. Nothing(f) \in Decisions
  BY DEF Nothing, Decisions
<1>2. AskJudge(f) \in Decisions
  BY <1>1 DEF AskJudge, Decisions
<1>3. AskPublish(f, why) \in Decisions
  BY <1>1 DEF AskPublish, Decisions
<1>4. [Taken(f) EXCEPT !.generation = @ + 1] \in Flights
  <2>1. Taken(f) \in Flights
    BY FlightTypes
  <2> QED BY <2>1 DEF Flights
<1>5. f.item \in Nat /\ (f.walk = "Published") \in BOOLEAN
  BY DEF Flights
<1>6. Abandon(f, why) \in Decisions
  BY <1>4, <1>5 DEF Abandon, Decisions
<1> QED BY <1>1, <1>2, <1>3, <1>6

\* A judgement is a decision.
LEMMA JudgeType ==
    ASSUME NEW f \in Flights, NEW t \in Nat
    PROVE  Judge(f, t) \in Decisions
<1>1. [f EXCEPT !.walk = "Unarmed", !.bound = 0] \in Flights
  BY DEF Flights, Walks
<1>2. [f EXCEPT !.next = t + Grace] \in Flights
  BY DEF Flights
<1> QED BY <1>1, <1>2, DecisionForms DEF Judge, Reasons

\* So is every other answer of the record.
LEMMA DecisionTypes ==
    ASSUME NEW f \in Flights, NEW r \in Requests, NEW t \in Nat
    PROVE  /\ Judge(f, t) \in Decisions
           /\ Learned(f, r, t) \in Decisions
           /\ \A past \in BOOLEAN : WalkReturned(f, r, past) \in Decisions
           /\ \A verdict \in {"None", "Hung", "MovedOn"} : Judged(f, r, verdict) \in Decisions
           /\ \A got \in BOOLEAN, why \in Reasons \union {"None"} :
              /\ PublishedJudgingNothing(f, r, got, why) \in Decisions
              /\ Published(f, r, got, why, t) \in Decisions
<1>1. [f EXCEPT !.walk = "Unarmed", !.bound = 0] \in Flights
  BY DEF Flights, Walks
<1>2. Learned(f, r, t) \in Decisions
  <2>1. f.started + Grace \in Nat /\ Later(f.started + Grace, t) \in Nat
    BY DEF Flights, Later
  <2>2. [f EXCEPT !.moved = "Known", !.next = Later(f.started + Grace, t)] \in Flights
    BY <2>1 DEF Flights, Moveds
  <2> QED BY <2>2, DecisionForms, JudgeType DEF Learned
<1>3. ASSUME NEW past \in BOOLEAN PROVE WalkReturned(f, r, past) \in Decisions
  BY <1>1, DecisionForms DEF WalkReturned
<1>4. ASSUME NEW verdict \in {"None", "Hung", "MovedOn"} PROVE Judged(f, r, verdict) \in Decisions
  BY <1>1, DecisionForms DEF Judged, Reasons
<1>5. ASSUME NEW got \in BOOLEAN, NEW why \in Reasons \union {"None"}
      PROVE  /\ PublishedJudgingNothing(f, r, got, why) \in Decisions
             /\ Published(f, r, got, why, t) \in Decisions
  <2>1. [f EXCEPT !.walk = "Published", !.bound = 0] \in Flights
    BY DEF Flights, Walks
  <2>2. PublishedJudgingNothing(f, r, got, why) \in Decisions
    BY <2>1, DecisionForms DEF PublishedJudgingNothing
  <2>3. PublishedJudgingNothing(f, r, got, why).flight \in Flights
    BY <2>2 DEF Decisions
  <2> QED BY <2>2, <2>3, JudgeType DEF Published
<1> QED BY <1>2, <1>3, <1>4, <1>5, JudgeType

-----------------------------------------------------------------------------
(* The alarm.  The schedule sleeps until NextWake: nothing may be due before *)
(* it, and a judgement made then may not leave the same time due again.      *)

\* tick before next_wake judges nothing, so an alarm set to next_wake is never late.
THEOREM NothingDueBeforeNextWake ==
    ASSUME NEW f \in Flights, NEW t \in Nat,
           NextWake(f) = NoTime \/ t < NextWake(f)
    PROVE  Judge(f, t) = Nothing(f)
  BY DEF Judge, NextWake, NoTime, Sooner, Flights, Running, Walks

\* A judgement that does nothing or asks for a verdict leaves the next wake after
\* it: the watchdog never spins on a time that stays due.
THEOREM JudgementMovesNextWake ==
    ASSUME NEW f \in Flights, NEW t \in Nat, Running(f),
           Judge(f, t).do \in {"Nothing", "Judge"}
    PROVE  NextWake(Judge(f, t).flight) > t
<1>1. CASE Judge(f, t) = Nothing(f)
  BY <1>1 DEF Judge, NextWake, NoTime, Sooner, Flights, Running, Walks, Nothing, AskJudge, AskPublish, Abandon
<1>2. CASE Judge(f, t) = AskJudge([f EXCEPT !.next = t + Grace])
  BY <1>2 DEF Judge, NextWake, NoTime, Sooner, Flights, Running, Walks, Nothing, AskJudge, AskPublish, Abandon
<1> QED BY <1>1, <1>2 DEF Judge, AskPublish, Abandon, Nothing

-----------------------------------------------------------------------------
(***************************************************************************)
(* What each application's transitions do to its threads: the inductive    *)
(* invariant behind OneThreadInCharge and WakeupsKept, and the lemmas about *)
(* one application.                                                        *)
(*                                                                         *)
(* Consistent says of one application a, held or not, its threads ts, its  *)
(* failed starts fs and whether the readers stop, that                     *)
(*  - a thread's generation tells it from the others, none is greater than *)
(*    the application's, and only the one in charge has the same (Placed); *)
(*  - the threads that have a lesser one are those counted as abandoned;   *)
(*  - the thread in charge is in the read under way, if one is (Reads).    *)
(* The last is why abandoning a read always abandons one thread, and the   *)
(* second why an application let go has none that could come back to it.   *)
(***************************************************************************)

HIDE ScheduleAssumption
HIDE GraceAssumption

Busy == {"reading", "walking"}

\* The threads of ts that are not in charge of a.
Strays(a, ts) == {t \in ts : t.generation # a.flight.generation}

Counted(a, ts) == IsFiniteSet(ts) /\ Cardinality(Strays(a, ts)) = a.abandoned

Placed(a, ts) ==
    /\ \A t, u \in ts : t.generation = u.generation => t = u
    /\ \A t \in ts : /\ t.generation <= a.flight.generation
                     /\ IF t.generation = a.flight.generation THEN a.threaded ELSE t.pc \in Busy

Reads(a, ts) ==
    /\ \A t \in ts : t.generation = a.flight.generation /\ t.pc \in Busy =>
          Running(a.flight) /\ t.request = a.flight.request /\ t.item = a.flight.item
    /\ Running(a.flight) => \E t \in ts : t.generation = a.flight.generation /\ t.pc \in Busy

Told(a, ts, stop) ==
    \A t \in ts : t.pc = "waiting" => ~stop /\ a.queue = {} /\ ~a.ending

\* A start that failed was the one of the thread to be in charge.
Unmade(a, ts, fs) ==
    fs # {} => /\ a.threaded /\ ~Running(a.flight)
               /\ \A f \in fs : f.generation = a.flight.generation
               /\ \A t \in ts : t.generation # a.flight.generation

Charged(a, ts, fs, stop) ==
    a.threaded /\ ~stop => fs # {} \/ \E t \in ts : t.generation = a.flight.generation

Consistent(a, h, ts, fs, stop) ==
    /\ Counted(a, ts) /\ Placed(a, ts) /\ Reads(a, ts) /\ Told(a, ts, stop)
    /\ Unmade(a, ts, fs) /\ Charged(a, ts, fs, stop)
    /\ h \/ (a = NoApp /\ ts = {} /\ fs = {})

Mine(p) == {t \in threads : t.pid = p}
Failures(p) == {f \in failed : f.pid = p}

ThreadInv == \A p \in Pids : Consistent(apps[p], p \in held, Mine(p), Failures(p), stopping)

-----------------------------------------------------------------------------
(* What one application's transitions do to it. *)

\* An application that is not held is consistent.
LEMMA NobodyConsistent ==
    ASSUME NEW stop
    PROVE  Consistent(NoApp, FALSE, {}, {}, stop)
<1>1. Strays(NoApp, {}) = {}
  BY DEF Strays
<1> QED BY Zenon, <1>1, FS_EmptySet DEF Consistent, Counted, Placed, Reads, Told, Unmade, Charged, NoApp, New, Running

\* b is a with, at most, another queue, another judgement of its read and its
\* outpost ended or not.
Same(a, b) ==
    /\ b.threaded = a.threaded /\ b.abandoned = a.abandoned
    /\ b.flight.generation = a.flight.generation
    /\ b.flight.request = a.flight.request /\ b.flight.item = a.flight.item
    /\ Running(b.flight) = Running(a.flight)

\* An event, an outpost's end or a judgement leaves the threads be, when none
\* waits that has to be told.
LEMMA SameConsistent ==
    ASSUME NEW a, NEW b, NEW h, NEW ts, NEW fs, NEW stop,
           Consistent(a, h, ts, fs, stop), Same(a, b),
           \A t \in ts : t.pc = "waiting" => b.queue = {} /\ ~b.ending
    PROVE  Consistent(b, TRUE, ts, fs, stop)
<1>1. Strays(b, ts) = Strays(a, ts)
  BY DEF Strays, Same
<1> QED BY <1>1 DEF Consistent, Counted, Placed, Reads, Told, Unmade, Charged, Same

\* With no thread in charge, every thread is a stray.
LEMMA NobodyInCharge ==
    ASSUME NEW a \in Apps, NEW h, NEW ts \in SUBSET Threads, NEW fs, NEW stop,
           Consistent(a, h, ts, fs, stop), ~a.threaded
    PROVE  /\ fs = {} /\ ~Running(a.flight) /\ Strays(a, ts) = ts
           /\ \A t \in ts : t.generation < a.flight.generation /\ t.pc \in Busy
<1>1. \A t \in ts : t.generation # a.flight.generation
  BY DEF Consistent, Placed
<1>2. \A t \in ts : t.generation < a.flight.generation /\ t.pc \in Busy
  BY <1>1 DEF Consistent, Placed, Threads, Apps, Flights
<1> QED BY <1>1, <1>2 DEF Consistent, Reads, Unmade, Strays

\* A thread started, or one whose start failed, is the one in charge.
LEMMA StartedConsistent ==
    ASSUME NEW a \in Apps, NEW b \in Apps, NEW h, NEW ts \in SUBSET Threads, NEW fs, NEW stop,
           Consistent(a, h, ts, fs, stop), Same(a, b), ~a.threaded
    PROVE  /\ \A n \in Threads : n.generation = Started(b).flight.generation /\ n.pc = "next" =>
                Consistent(Started(b), TRUE, ts \union {n}, {}, stop)
           /\ \A f : f.generation = Started(b).flight.generation =>
                Consistent(Started(b), TRUE, ts, {f}, stop)
<1> DEFINE c == Started(b)
<1>1. /\ c.flight.generation = a.flight.generation + 1 /\ a.flight.generation \in Nat
      /\ c.threaded /\ c.abandoned = a.abandoned
      /\ c.flight.walk = b.flight.walk
  BY DEF Started, Succeed, Same, Apps, Flights
<1>2. ~Running(c.flight)
  BY <1>1, NobodyInCharge DEF Running, Same
<1>3. \A t \in ts : t.generation \in Nat /\ t.generation < c.flight.generation /\ t.pc \in Busy
  BY SMTT(60), <1>1, NobodyInCharge DEF Threads
<1> HIDE DEF c
<1>4. Strays(c, ts) = ts /\ Strays(a, ts) = ts
  BY <1>1, <1>3, NobodyInCharge DEF Strays
<1>5. ASSUME NEW n \in Threads, n.generation = c.flight.generation, n.pc = "next"
      PROVE  Consistent(c, TRUE, ts \union {n}, {}, stop)
  <2>1. Strays(c, ts \union {n}) = ts
    BY <1>1, <1>3, <1>5 DEF Strays
  <2>2. Counted(c, ts \union {n})
    BY <1>1, <1>4, <2>1, FS_AddElement DEF Consistent, Counted
  <2>3. Placed(c, ts \union {n})
    BY SMTT(60), <1>1, <1>3, <1>5 DEF Consistent, Placed
  <2>4. Reads(c, ts \union {n}) /\ Told(c, ts \union {n}, stop)
    BY SMTT(60), <1>2, <1>3, <1>5 DEF Reads, Told, Busy
  <2> QED BY <1>5, <2>2, <2>3, <2>4 DEF Consistent, Unmade, Charged
<1>6. ASSUME NEW f, f.generation = c.flight.generation
      PROVE  Consistent(c, TRUE, ts, {f}, stop)
  <2>1. Counted(c, ts)
    BY <1>1, <1>4 DEF Consistent, Counted
  <2>2. Placed(c, ts)
    BY <1>1, <1>3 DEF Consistent, Placed
  <2>3. Reads(c, ts) /\ Told(c, ts, stop)
    BY <1>2, <1>3 DEF Reads, Told, Busy
  <2>4. Unmade(c, ts, {f})
    BY SMTT(60), <1>1, <1>2, <1>3, <1>6 DEF Unmade
  <2> QED BY <2>1, <2>2, <2>3, <2>4 DEF Consistent, Charged
<1> QED BY Zenon, <1>5, <1>6 DEF c

\* Abandoning a read abandons the thread in it.
LEMMA AbandonedConsistent ==
    ASSUME NEW a \in Apps, NEW b \in Apps, NEW h, NEW ts \in SUBSET Threads, NEW fs, NEW stop,
           Consistent(a, h, ts, fs, stop), Running(a.flight),
           b.flight.generation = a.flight.generation + 1, ~Running(b.flight),
           ~b.threaded, b.abandoned = a.abandoned + 1
    PROVE  fs = {} /\ Consistent(b, TRUE, ts, {}, stop)
<1>1. PICK c \in ts : c.generation = a.flight.generation /\ c.pc \in Busy
  BY DEF Consistent, Reads
<1>2. fs = {}
  BY DEF Consistent, Unmade
<1>3. \A t \in ts : t.generation \in Nat /\ t.generation < b.flight.generation
  BY SMTT(60) DEF Consistent, Placed, Threads, Apps, Flights
<1>4. \A t \in ts : t.pc \in Busy
  BY <1>1 DEF Consistent, Placed
<1>5. Counted(b, ts)
  <2>1. Strays(b, ts) = Strays(a, ts) \union {c} /\ c \notin Strays(a, ts)
    BY SMTT(60), <1>1, <1>3 DEF Strays, Consistent, Placed, Apps, Flights
  <2>2. IsFiniteSet(Strays(a, ts))
    BY FS_Subset DEF Strays, Consistent, Counted
  <2> QED BY ZenonT(90), <2>1, <2>2, FS_AddElement DEF Consistent, Counted
<1>6. Placed(b, ts)
  BY SMTT(60), <1>3, <1>4 DEF Consistent, Placed, Apps, Flights
<1> QED BY SMTT(120), <1>2, <1>3, <1>4, <1>5, <1>6 DEF Consistent, Reads, Told, Unmade, Charged, Busy

\* The thread t in charge of a is u after the step, and a is b: u is in the read
\* under way, if one is, and is told what it waits for.
Swapped(a, b, t, u, stop) ==
    /\ t.generation = a.flight.generation /\ u.generation = t.generation
    /\ b.threaded = a.threaded /\ b.abandoned = a.abandoned
    /\ b.flight.generation = a.flight.generation
    /\ Running(b.flight) <=> u.pc \in Busy
    /\ u.pc \in Busy => u.request = b.flight.request /\ u.item = b.flight.item
    /\ u.pc = "waiting" => ~stop /\ b.queue = {} /\ ~b.ending

\* The thread in charge takes an event, parks, is woken, arms its walk or has its
\* read return, and stays in charge.
LEMMA SwapConsistent ==
    ASSUME NEW a \in Apps, NEW b \in Apps, NEW h, NEW ts \in SUBSET Threads, NEW fs, NEW stop,
           Consistent(a, h, ts, fs, stop),
           NEW t \in ts, NEW u, Swapped(a, b, t, u, stop)
    PROVE  fs = {} /\ Consistent(b, TRUE, (ts \ {t}) \union {u}, {}, stop)
<1> USE DEF Swapped
<1> DEFINE vs == (ts \ {t}) \union {u}
<1>1. a.threaded /\ fs = {}
  BY DEF Consistent, Placed, Unmade
<1>2. \A v \in ts \ {t} : v.generation # a.flight.generation /\ v.pc \in Busy
  BY DEF Consistent, Placed
<1>3. Counted(b, vs)
  <2>1. Strays(b, vs) = Strays(a, ts)
    BY <1>2 DEF Strays
  <2>2. IsFiniteSet(vs)
    BY Zenon, FS_RemoveElement, FS_AddElement DEF Consistent, Counted
  <2> QED BY <2>1, <2>2 DEF Consistent, Counted
<1>4. Placed(b, vs)
  <2>1. \A v \in vs : v.generation <= b.flight.generation
    BY DEF Consistent, Placed
  <2>2. \A v, w \in vs : v.generation = w.generation => v = w
    BY <1>2 DEF Consistent, Placed
  <2> QED BY SMTT(120), <1>1, <1>2, <2>1, <2>2 DEF Placed
<1>5. Reads(b, vs)
  BY <1>2 DEF Reads
<1>6. Told(b, vs, stop)
  BY <1>2 DEF Told, Busy
<1> QED BY <1>1, <1>3, <1>4, <1>5, <1>6 DEF Consistent, Unmade, Charged

\* The thread in charge ends: the readers stop, or its outpost has ended.
LEMMA DepartedConsistent ==
    ASSUME NEW a \in Apps, NEW b \in Apps, NEW h, NEW ts \in SUBSET Threads, NEW fs, NEW stop,
           Consistent(a, h, ts, fs, stop),
           NEW t \in ts, t.generation = a.flight.generation,
           stop \/ ~b.threaded, b.abandoned = a.abandoned,
           b.flight.generation = a.flight.generation, ~Running(b.flight)
    PROVE  fs = {} /\ Consistent(b, TRUE, ts \ {t}, {}, stop)
<1>1. fs = {}
  BY DEF Consistent, Unmade
<1>2. \A v \in ts \ {t} : v.generation # a.flight.generation /\ v.pc \in Busy
  BY DEF Consistent, Placed
<1>3. Counted(b, ts \ {t})
  <2>1. Strays(b, ts \ {t}) = Strays(a, ts)
    BY <1>2 DEF Strays
  <2>2. IsFiniteSet(ts \ {t})
    BY SMTT(120), FS_RemoveElement DEF Consistent, Counted
  <2> QED BY <2>1, <2>2 DEF Consistent, Counted
<1>4. Placed(b, ts \ {t}) /\ Reads(b, ts \ {t}) /\ Told(b, ts \ {t}, stop)
  BY SMTT(120), <1>2 DEF Consistent, Placed, Reads, Told, Busy
<1> QED BY <1>1, <1>3, <1>4 DEF Consistent, Unmade, Charged

\* An abandoned thread is back, and ends: there was one to count.
LEMMA StrayBackConsistent ==
    ASSUME NEW a \in Apps, NEW b \in Apps, NEW h, NEW ts \in SUBSET Threads, NEW fs, NEW stop,
           Consistent(a, h, ts, fs, stop),
           NEW t \in ts, t.generation # a.flight.generation,
           b.threaded = a.threaded, b.flight = a.flight, b.queue = a.queue, b.ending = a.ending,
           b.abandoned = IF a.abandoned = 0 THEN 0 ELSE a.abandoned - 1
    PROVE  Consistent(b, TRUE, ts \ {t}, fs, stop)
<1>1. IsFiniteSet(ts \ {t})
  BY FS_RemoveElement DEF Consistent, Counted
<1>2. Cardinality(Strays(b, ts \ {t})) = b.abandoned
  <2>1. IsFiniteSet(Strays(a, ts)) /\ t \in Strays(a, ts)
    BY FS_Subset DEF Strays, Consistent, Counted
  <2>2. a.abandoned # 0 /\ a.abandoned \in Nat
    BY <2>1, FS_EmptySet DEF Consistent, Counted, Apps
  <2>3. Strays(b, ts \ {t}) = Strays(a, ts) \ {t}
    BY DEF Strays
  <2>4. Cardinality(Strays(a, ts) \ {t}) = Cardinality(Strays(a, ts)) - 1
    BY Zenon, <2>1, FS_RemoveElement
  <2>5. Cardinality(Strays(a, ts)) = a.abandoned
    BY DEF Consistent, Counted
  <2> QED BY Zenon, <2>2, <2>3, <2>4, <2>5
<1> QED BY SMTT(120), <1>1, <1>2 DEF Consistent, Counted, Placed, Reads, Told, Unmade, Charged

\* An abandoned thread arms its walk, which changes nothing.
LEMMA StrayArmsConsistent ==
    ASSUME NEW a \in Apps, NEW h, NEW ts \in SUBSET Threads, NEW fs, NEW stop,
           Consistent(a, h, ts, fs, stop),
           NEW t \in ts, t.generation # a.flight.generation,
           NEW u, u.generation = t.generation, u.pc \in Busy
    PROVE  Consistent(a, TRUE, (ts \ {t}) \union {u}, fs, stop)
<1> DEFINE vs == (ts \ {t}) \union {u}
<1>1. \A v \in ts \ {t} : v.generation # t.generation
  BY DEF Consistent, Placed
<1>2. Counted(a, vs)
  <2>1. IsFiniteSet(vs)
    BY Zenon, FS_RemoveElement, FS_AddElement DEF Consistent, Counted
  <2>2. IsFiniteSet(Strays(a, ts)) /\ t \in Strays(a, ts)
    BY FS_Subset DEF Strays, Consistent, Counted
  <2>3. Strays(a, vs) = (Strays(a, ts) \ {t}) \union {u}
    BY DEF Strays
  <2>4. u \notin Strays(a, ts) \ {t}
    BY <1>1 DEF Strays
  <2>5. /\ IsFiniteSet(Strays(a, ts) \ {t}) /\ Cardinality(Strays(a, ts)) \in Nat
        /\ Cardinality(Strays(a, ts) \ {t}) = Cardinality(Strays(a, ts)) - 1
    BY <2>2, FS_RemoveElement, FS_CardinalityType
  <2>6. Cardinality((Strays(a, ts) \ {t}) \union {u}) = Cardinality(Strays(a, ts) \ {t}) + 1
    BY Zenon, <2>4, <2>5, FS_AddElement
  <2>7. Cardinality((Strays(a, ts) \ {t}) \union {u}) = Cardinality(Strays(a, ts))
    <3> DEFINE c == Cardinality(Strays(a, ts))
               d == Cardinality(Strays(a, ts) \ {t})
               e == Cardinality((Strays(a, ts) \ {t}) \union {u})
    <3>1. c \in Nat /\ d = c - 1 /\ e = d + 1
      BY <2>5, <2>6
    <3> HIDE DEF c, d, e
    <3>2. e = c
      BY SMTT(60), <3>1
    <3> QED BY <3>2 DEF c, e
  <2> QED BY SMTT(120), <2>1, <2>3, <2>7 DEF Consistent, Counted
<1>3. Placed(a, vs)
  <2>1. \A v, w \in vs : v.generation = w.generation => v = w
    BY <1>1 DEF Consistent, Placed
  <2>2. \A v \in vs : v.generation <= a.flight.generation
    BY DEF Consistent, Placed
  <2>3. \A v \in vs : IF v.generation = a.flight.generation THEN a.threaded ELSE v.pc \in Busy
    BY DEF Consistent, Placed
  <2> QED BY SMTT(120), <2>1, <2>2, <2>3 DEF Placed
<1>4. Reads(a, vs) /\ Told(a, vs, stop)
  BY DEF Consistent, Reads, Told, Busy
<1> QED BY SMTT(120), <1>2, <1>3, <1>4 DEF Consistent, Unmade, Charged

\* A start that failed is stepped: nobody is in charge.
LEMMA UnmadeConsistent ==
    ASSUME NEW a \in Apps, NEW b \in Apps, NEW h, NEW ts \in SUBSET Threads, NEW fs, NEW stop,
           Consistent(a, h, ts, fs, stop), fs # {},
           b.flight = a.flight, b.abandoned = a.abandoned, ~b.threaded
    PROVE  Consistent(b, TRUE, ts, {}, stop)
<1>1. \A t \in ts : t.generation # a.flight.generation /\ t.pc \in Busy
  BY DEF Consistent, Unmade, Placed
<1>2. Strays(b, ts) = Strays(a, ts)
  BY DEF Strays
<1> QED BY SMTT(120), <1>1, <1>2 DEF Consistent, Counted, Placed, Reads, Told, Unmade, Charged, Busy

\* An application let go has no thread.
LEMMA SpentConsistent ==
    ASSUME NEW a \in Apps, NEW ts \in SUBSET Threads, NEW fs, NEW stop,
           Consistent(a, TRUE, ts, fs, stop), Spent(a)
    PROVE  ts = {} /\ fs = {} /\ Consistent(NoApp, FALSE, ts, fs, stop)
<1>1. ~a.threaded /\ a.abandoned = 0
  BY DEF Spent
<1>2. Strays(a, ts) = ts /\ fs = {}
  BY Zenon, <1>1, NobodyInCharge
<1>3. ts = {}
  BY <1>1, <1>2, FS_EmptySet DEF Consistent, Counted
<1> QED BY Zenon, <1>2, <1>3, NobodyConsistent

-----------------------------------------------------------------------------
(* Decisions and their consequences. *)

USE GraceAssumption

\* A decision abandons a read that runs, leaving none and the next generation, or
\* leaves the read under way be.
Shaped(f, d) ==
    IF d.do = "Abandon"
    THEN Running(f) /\ d.flight.generation = f.generation + 1 /\ ~Running(d.flight)
    ELSE /\ d.flight.generation = f.generation
         /\ d.flight.request = f.request /\ d.flight.item = f.item
         /\ Running(d.flight) = Running(f)

\* Every decision of the record is of that shape.
LEMMA DecisionShapes ==
    ASSUME NEW f \in Flights, NEW r \in Requests, NEW t \in Nat
    PROVE  /\ Shaped(f, Judge(f, t))
           /\ Shaped(f, Learned(f, r, t))
           /\ \A verdict \in {"None", "Hung", "MovedOn"} : Shaped(f, Judged(f, r, verdict))
           /\ \A got \in BOOLEAN, why \in Reasons \union {"None"} :
                 Shaped(f, Published(f, r, got, why, t))
<1> DEFINE kept(g) == /\ g.generation = f.generation /\ g.request = f.request
                      /\ g.item = f.item /\ Running(g) = Running(f)
<1>1. ASSUME NEW g \in Flights, kept(g)
      PROVE  /\ Shaped(f, Nothing(g)) /\ Shaped(f, AskJudge(g))
             /\ \A why \in Reasons \union {"None"} :
                   Shaped(f, AskPublish(g, why)) /\ (Running(f) => Shaped(f, Abandon(g, why)))
  <2>1. Shaped(f, Nothing(g)) /\ Shaped(f, AskJudge(g))
    BY <1>1 DEF Shaped, Nothing, AskJudge
  <2>2. ASSUME NEW why \in Reasons \union {"None"} PROVE Shaped(f, AskPublish(g, why))
    BY <1>1 DEF Shaped, Nothing, AskPublish
  <2>3. ASSUME NEW why \in Reasons \union {"None"}, Running(f) PROVE Shaped(f, Abandon(g, why))
    BY Zenon, <1>1, <2>3 DEF Shaped, Abandon, Taken, New, Running
  <2> QED BY <2>1, <2>2, <2>3
<1>2. ASSUME NEW g \in Flights, kept(g) PROVE Shaped(f, Judge(g, t))
  <2>1. CASE ~Running(g)
    BY <1>1, <1>2, <2>1 DEF Judge
  <2>2. CASE Running(g)
    <3>1. /\ kept([g EXCEPT !.walk = "Unarmed", !.bound = 0])
          /\ [g EXCEPT !.walk = "Unarmed", !.bound = 0] \in Flights
      BY Zenon, <1>2, <2>2 DEF Running, Flights, Walks
    <3>2. kept([g EXCEPT !.next = t + Grace]) /\ [g EXCEPT !.next = t + Grace] \in Flights
      BY <1>2, <2>2 DEF Running, Flights
    <3> HIDE DEF kept
    <3>3. kept(g) /\ Running(f)
      BY <1>2, <2>2 DEF kept
    <3> QED BY SMTT(30), <1>1, <1>2, <2>2, <3>1, <3>2, <3>3 DEF Judge, Reasons
  <2> QED BY <2>1, <2>2
<1>3. kept(f)
  OBVIOUS
<1>4. Shaped(f, Learned(f, r, t))
  <2>1. CASE ~RunningOf(f, r) \/ f.moved # "Unknown"
    BY <1>1, <2>1 DEF Learned
  <2>2. CASE ~(~RunningOf(f, r) \/ f.moved # "Unknown")
    <3> DEFINE known == [f EXCEPT !.moved = "Known", !.next = Later(f.started + Grace, t)]
    <3>1. f.started + Grace \in Nat /\ Later(f.started + Grace, t) \in Nat
      BY DEF Flights, Later
    <3>2. known \in Flights /\ kept(known)
      BY Zenon, <3>1 DEF Flights, Moveds, Running
    <3>3. Learned(f, r, t) \in {Judge(known, t), Nothing(known)}
      BY <2>2 DEF Learned
    <3> HIDE DEF known
    <3> QED BY SMTT(120), <1>1, <1>2, <3>2, <3>3
  <2> QED BY <2>1, <2>2
<1>5. [f EXCEPT !.walk = "Unarmed", !.bound = 0] \in Flights
  BY Zenon DEF Flights, Walks
<1>6. Running(f) => kept([f EXCEPT !.walk = "Unarmed", !.bound = 0])
  BY DEF Running, Flights
<1>7. ASSUME NEW verdict \in {"None", "Hung", "MovedOn"} PROVE Shaped(f, Judged(f, r, verdict))
  <2> HIDE DEF kept
  <2> QED BY <1>1, <1>3, <1>5, <1>6 DEF Judged, RunningOf, Reasons
<1>8. ASSUME NEW got \in BOOLEAN, NEW why \in Reasons \union {"None"}
      PROVE  Shaped(f, Published(f, r, got, why, t))
  <2> DEFINE g == IF got THEN [f EXCEPT !.walk = "Published", !.bound = 0] ELSE f
             d == PublishedJudgingNothing(f, r, got, why)
  <2>1. CASE ~RunningOf(f, r)
    BY SMTT(30), <1>1, <1>3, <2>1 DEF Published, PublishedJudgingNothing
  <2>2. CASE RunningOf(f, r)
    <3>1. g \in Flights /\ kept(g) /\ Running(f)
      BY Zenon, <2>2 DEF Flights, Walks, Running, RunningOf
    <3>2. d = IF why = "None" THEN Nothing(g) ELSE Abandon(g, why)
      BY <2>2 DEF PublishedJudgingNothing
    <3>3. Published(f, r, got, why, t) = IF why = "None" THEN Judge(d.flight, t) ELSE d
      BY <2>2 DEF Published
    <3>4. Nothing(g).flight = g
      BY DEF Nothing
    <3> HIDE DEF g, d, kept
    <3> QED BY SMTT(120), <1>1, <1>2, <3>1, <3>2, <3>3, <3>4
  <2> QED BY <2>1, <2>2
<1> QED BY SMTT(120), <1>2, <1>3, <1>4, <1>7, <1>8

\* What a result does is consistent, whether or not the thread it starts, if it
\* starts one, can be started.
ResultConsistent(r, ts, stop) ==
    /\ ~r.spawn => Consistent(r.app, TRUE, ts, {}, stop)
    /\ r.spawn => /\ \A n \in Threads :
                       n.generation = r.app.flight.generation /\ n.pc = "next" =>
                          Consistent(r.app, TRUE, ts \union {n}, {}, stop)
                  /\ \A f : f.generation = r.app.flight.generation =>
                        Consistent(r.app, TRUE, ts, {f}, stop)

\* Carrying out a decision is consistent (Schedule::decided, Schedule::abandon).
LEMMA DecidedConsistent ==
    ASSUME NEW a \in Apps, NEW h, NEW ts \in SUBSET Threads, NEW stop, NEW d \in Decisions,
           NEW t \in Nat, Consistent(a, h, ts, {}, stop), Shaped(a.flight, d)
    PROVE  ResultConsistent(Decided(a, d, t), ts, stop)
<1>1. CASE d.do # "Abandon"
  <2> DEFINE b == [a EXCEPT !.flight = d.flight]
  <2>1. Same(a, b) /\ b.queue = a.queue /\ b.ending = a.ending
    BY <1>1 DEF Same, Shaped, Apps
  <2>2. Consistent(b, TRUE, ts, {}, stop)
    <3>1. \A u \in ts : u.pc = "waiting" => b.queue = {} /\ ~b.ending
      BY <2>1 DEF Consistent, Told
    <3> HIDE DEF b
    <3> QED BY Zenon, <2>1, <3>1, SameConsistent
  <2>3. Decided(a, d, t).app = b /\ ~Decided(a, d, t).spawn
    BY <1>1 DEF Decided, Quiet
  <2> QED BY Zenon, <2>2, <2>3 DEF ResultConsistent
<1>2. CASE d.do = "Abandon"
  <2> DEFINE count  == a.abandoned + 1
             left   == [a EXCEPT !.flight = d.flight, !.threaded = FALSE, !.abandoned = count,
                                 !.limitReached = IF ~Room(count) /\ @ = NoTime THEN t ELSE @]
             starts == a.queue # {} /\ Room(count)
  <2>1. left \in Apps
    <3>1. d.flight \in Flights /\ count \in Nat
      BY DEF Decisions, Apps
    <3>2. (IF ~Room(count) /\ a.limitReached = NoTime THEN t ELSE a.limitReached) \in Times
      BY DEF Times, Apps
    <3> QED BY Zenon, <3>1, <3>2 DEF Apps
  <2>2. left.flight = d.flight /\ ~left.threaded /\ left.abandoned = a.abandoned + 1
    BY DEF Apps
  <2>3. /\ Decided(a, d, t).app = IF starts THEN Started(left) ELSE left
        /\ Decided(a, d, t).spawn = starts
    BY <1>2 DEF Decided, Abandoned, Quiet
  <2> HIDE DEF left, starts
  <2>4. Consistent(left, TRUE, ts, {}, stop)
    BY Zenon, <1>2, <2>1, <2>2, AbandonedConsistent DEF Shaped
  <2>5. Same(left, left)
    BY DEF Same
  <2>6. CASE starts
    <3>1. /\ \A n \in Threads : n.generation = Started(left).flight.generation /\ n.pc = "next" =>
                Consistent(Started(left), TRUE, ts \union {n}, {}, stop)
          /\ \A f : f.generation = Started(left).flight.generation =>
                Consistent(Started(left), TRUE, ts, {f}, stop)
      BY Zenon, <2>1, <2>2, <2>4, <2>5, StartedConsistent
    <3> QED BY Zenon, <2>3, <2>6, <3>1 DEF ResultConsistent
  <2>7. CASE ~starts
    BY Zenon, <2>3, <2>4, <2>7 DEF ResultConsistent
  <2> QED BY <2>6, <2>7
<1> QED BY <1>1, <1>2

\* So is a tick of one application.
LEMMA TickAppConsistent ==
    ASSUME NEW a \in Apps, NEW h, NEW ts \in SUBSET Threads, NEW stop, NEW t \in Nat,
           Consistent(a, h, ts, {}, stop)
    PROVE  ResultConsistent(TickApp(a, t), ts, stop)
<1>1. CASE Running(a.flight)
  <2>1. a.flight \in Flights /\ NoRequest \in Requests
    BY DEF Apps, NoRequest, Requests
  <2>2. Judge(a.flight, t) \in Decisions /\ Shaped(a.flight, Judge(a.flight, t))
    BY SMTT(120), <2>1, JudgeType, DecisionShapes
  <2> QED BY <1>1, <2>2, DecidedConsistent DEF TickApp
<1>2. CASE TickApp(a, t) = Quiet(a)
  <2>1. Same(a, a)
    BY SMTT(30) DEF Same
  <2>2. Consistent(a, TRUE, ts, {}, stop)
    BY SMTT(120), <2>1, SameConsistent DEF Consistent, Told
  <2>3. TickApp(a, t).app = a /\ ~TickApp(a, t).spawn
    BY SMTT(60), <1>2 DEF Quiet
  <2> QED BY Zenon, <2>2, <2>3 DEF ResultConsistent
<1>3. CASE ~a.threaded /\ TickApp(a, t).app = [a EXCEPT !.queue = {}] /\ ~TickApp(a, t).spawn
  <2>1. Same(a, [a EXCEPT !.queue = {}])
    BY DEF Same, Apps
  <2>2. \A u \in ts : u.pc # "waiting"
    BY <1>3, NobodyInCharge DEF Busy
  <2> DEFINE b == [a EXCEPT !.queue = {}]
  <2> HIDE DEF b
  <2>3. Consistent(b, TRUE, ts, {}, stop)
    BY Zenon, <2>1, <2>2, SameConsistent DEF b
  <2> QED BY Zenon, <1>3, <2>3 DEF ResultConsistent, b
<1> QED BY SMTT(30), <1>1, <1>2, <1>3 DEF TickApp, DropWaiting, Quiet, WaitingEnd

-----------------------------------------------------------------------------
(* The schedule's types and its alarm. *)

USE ScheduleAssumption

\* What a transition does to one application.
Results == [app : Apps, out : SUBSET Nat, spawn : BOOLEAN, ask : {"None", "Judge", "Publish"},
            why : Reasons \union {"None"}, unwatch : BOOLEAN, wake : BOOLEAN]

-----------------------------------------------------------------------------
(* The pieces of a step keep their types. *)

\* A nonempty set of times has a soonest.
LEMMA SoonestTime ==
    ASSUME NEW times \in SUBSET Times
    PROVE  /\ Soonest(times) \in Times
           /\ Soonest(times) = NoTime => times \subseteq {NoTime}
           /\ \A t \in times \ {NoTime} : Soonest(times) <= t
<1>1. CASE times \ {NoTime} = {}
  BY <1>1 DEF Soonest, Times
<1>2. CASE times \ {NoTime} # {}
  <2> DEFINE T == times \ {NoTime}
  <2>1. T \subseteq Nat /\ T # {}
    BY <1>2 DEF Times
  <2>2. \E x \in T : \A y \in T : ~(<<y, x>> \in OpToRel(<, Nat))
    BY <2>1, NatLessThanWellFounded, WFMin
  <2>3. \E x \in T : \A y \in T : x <= y
    <3>1. \A x, y \in Nat : x < y => <<x, y>> \in OpToRel(<, Nat)
      BY Zenon DEF OpToRel
    <3>2. \E x \in T : \A y \in T : ~(y < x)
      BY <2>1, <2>2, <3>1, Zenon
    <3> QED BY <2>1, <3>2
  <2>4. Soonest(times) \in T /\ \A y \in T : Soonest(times) <= y
    BY <1>2, <2>3 DEF Soonest
  <2> QED BY <2>1, <2>4, <1>2 DEF NoTime, Times
<1> QED BY <1>1, <1>2

\* A fresh application and one given a thread are applications, and what is due of
\* one is a time.
LEMMA AppTypes ==
    /\ NoApp \in Apps
    /\ \A a \in Apps : Started(a) \in Apps /\ WaitingEnd(a) \in Times /\ NextWake(a.flight) \in Times
<1>1. NoApp \in Apps
  BY FlightTypes DEF NoApp, Apps, Times
<1>2. ASSUME NEW a \in Apps PROVE Started(a) \in Apps
  <2>1. Succeed(a.flight) \in Flights
    BY FlightTypes DEF Apps
  <2> QED BY <2>1 DEF Started, Apps
<1>3. ASSUME NEW a \in Apps PROVE WaitingEnd(a) \in Times
  BY DEF WaitingEnd, Apps, Times, NoTime
<1>4. ASSUME NEW a \in Apps PROVE NextWake(a.flight) \in Times
  BY DEF NextWake, Apps, Flights, Times, NoTime, Sooner
<1> QED BY <1>1, <1>2, <1>3, <1>4

\* A queue's markers are numbers.
LEMMA MarkersType ==
    ASSUME NEW a \in Apps
    PROVE  /\ MarkersOf(a.queue) \subseteq Nat
           /\ a.queue \subseteq Entries
  BY DEF MarkersOf, Apps, Entries

\* A transition that does nothing is a result.
LEMMA QuietType ==
    ASSUME NEW a \in Apps PROVE Quiet(a) \in Results
  BY DEF Quiet, Results

\* Abandoning a read is a result (Schedule::abandon).
LEMMA AbandonedType ==
    ASSUME NEW a \in Apps, NEW d \in Decisions, NEW t \in Nat
    PROVE  Abandoned(a, d, t) \in Results
<1> DEFINE count == a.abandoned + 1
           left == [a EXCEPT !.flight = d.flight, !.threaded = FALSE, !.abandoned = count,
                             !.limitReached = IF ~Room(count) /\ @ = NoTime THEN t ELSE @]
           starts == a.queue # {} /\ Room(count)
           app == IF starts THEN Started(left) ELSE left
           out == IF d.published THEN {} ELSE {d.item}
<1>1. count \in Nat /\ d.flight \in Flights /\ out \in SUBSET Nat
  BY DEF Apps, Decisions
<1>2. (IF ~Room(count) /\ a.limitReached = NoTime THEN t ELSE a.limitReached) \in Times
  BY DEF Apps, Times
<1>3. left \in Apps
  BY <1>1, <1>2 DEF Apps, Times
<1>4. app \in Apps
  BY <1>3, AppTypes
<1>5. starts \in BOOLEAN
  BY DEF Room
<1>6. Abandoned(a, d, t) = [Quiet(app) EXCEPT !.out = out, !.spawn = starts, !.unwatch = TRUE, !.wake = TRUE]
  BY DEF Abandoned
<1> HIDE DEF app, out, starts
<1> QED BY <1>1, <1>4, <1>5, <1>6, QuietType DEF Results

\* Carrying out a decision is a result (Schedule::decided).
LEMMA DecidedType ==
    ASSUME NEW a \in Apps, NEW d \in Decisions, NEW t \in Nat
    PROVE  Decided(a, d, t) \in Results
<1>1. CASE d.do = "Abandon"
  BY <1>1, AbandonedType DEF Decided
<1>2. CASE d.do # "Abandon"
  <2>1. [a EXCEPT !.flight = d.flight] \in Apps
    BY DEF Apps, Decisions
  <2>2. Quiet([a EXCEPT !.flight = d.flight]) \in Results
    BY <2>1, QuietType
  <2>3. (IF d.do = "Nothing" THEN "None" ELSE d.do) \in {"None", "Judge", "Publish"}
        /\ d.why \in Reasons \union {"None"}
    BY <1>2 DEF Decisions
  <2> QED BY <1>2, <2>2, <2>3 DEF Decided, Results
<1> QED BY <1>1, <1>2

\* A tick of one application is a result (Schedule::tick's loop).
LEMMA TickAppType ==
    ASSUME NEW a \in Apps, NEW t \in Nat
    PROVE  TickApp(a, t) \in Results
<1>1. a.flight \in Flights
  BY DEF Apps
<1>2. Decided(a, Judge(a.flight, t), t) \in Results
  BY <1>1, JudgeType, DecidedType
<1>3. DropWaiting(a) \in Results
  <2>1. [a EXCEPT !.queue = {}] \in Apps
    BY DEF Apps
  <2> QED BY <2>1, QuietType, MarkersType DEF DropWaiting, Results
<1> QED BY <1>2, <1>3, QuietType DEF TickApp

\* Answering events keeps the history of events.
LEMMA AnswerType ==
    ASSUME NEW es \in Seq(Events), NEW ms, NEW how \in {"answered", "replaced"}
    PROVE  Answer(es, ms, how) \in Seq(Events) /\ Len(Answer(es, ms, how)) = Len(es)
<1>1. \A m \in 1..Len(es) : es[m] \in Events
  OBVIOUS
<1>2. \A m \in 1..Len(es) : Answer(es, ms, how)[m] \in Events
  <2> SUFFICES ASSUME NEW m \in 1..Len(es) PROVE Answer(es, ms, how)[m] \in Events
    OBVIOUS
  <2>1. es[m] \in Events /\ DOMAIN es = 1..Len(es)
    BY <1>1
  <2>2. [es[m] EXCEPT !.outcome = IF @ = "owed" THEN how ELSE "twice"] \in Events
    BY <2>1 DEF Events
  <2> QED BY <2>1, <2>2 DEF Answer
<1>3. Answer(es, ms, how) = [m \in 1..Len(es) |-> Answer(es, ms, how)[m]]
  BY DEF Answer
<1> QED BY <1>2, <1>3, IsASeq

\* Running idle waiters keeps the line of them (wake_idle_waiters).
LEMMA WakeIdleType ==
    ASSUME NEW line \in Seq(Waits), NEW closures \in SUBSET Nat, NEW as, NEW hs,
           ran \in SUBSET Nat, WakeIdleWaiters(line, closures, as, hs)
    PROVE  idle' \in Seq(Waits) /\ waiters' \in SUBSET Nat /\ ran' \in SUBSET Nat
<1> DEFINE runs == {i \in DOMAIN line : \A j \in 1..i : NothingBefore(line[j].before, as, hs)}
<1>1. IsFiniteSet(runs)
  <2>1. IsFiniteSet(1..Len(line))
    BY FS_Interval
  <2>2. DOMAIN line = 1..Len(line)
    OBVIOUS
  <2>3. runs \subseteq DOMAIN line
    BY Zenon
  <2> QED BY <2>1, <2>2, <2>3, FS_Subset
<1>2. Cardinality(runs) \in Nat
  BY <1>1, FS_CardinalityType
<1> HIDE DEF runs
<1>3. SubSeq(line, Cardinality(runs) + 1, Len(line)) \in Seq(Waits)
  BY <1>2, SubSeqProperties
<1> QED BY <1>3 DEF WakeIdleWaiters, runs

\* The soonest time anything is due is a time (Schedule::due).
LEMMA DueType ==
    ASSUME NEW as \in [Pids -> Apps], NEW hs \in SUBSET Pids
    PROVE  Due(as, hs) \in Times
<1>1. UNION {{NextWake(as[p].flight), WaitingEnd(as[p])} : p \in hs} \in SUBSET Times
  BY AppTypes
<1> QED BY <1>1, SoonestTime DEF Due

\* Setting the alarm keeps its times (set_alarm).
LEMMA SetAlarmType ==
    ASSUME apps' \in [Pids -> Apps], held' \in SUBSET Pids, NEW was \in Times,
           timer \in Times, signalled \in BOOLEAN, SetAlarm(was)
    PROVE  alarmDue' \in Times /\ timer' \in Times /\ signalled' \in BOOLEAN
<1>1. Due(apps', held') \in Times
  BY DueType
<1> QED BY <1>1 DEF SetAlarm

\* A thread that starts is a thread.
LEMMA ThreadType ==
    ASSUME NEW p \in Pids, NEW g \in Nat PROVE Thread(p, g) \in Threads
  BY DEF Thread, Threads, NoRequest, Requests

\* A step over r, of results for some of the applications held.
LEMMA ApplyType ==
    ASSUME TypeOK, NEW P \in SUBSET Pids, NEW r \in [P -> Results],
           NEW answered \in Seq(Events), NEW was \in Times, Apply(r, answered, was)
    PROVE  /\ apps' \in [Pids -> Apps] /\ events' \in Seq(Events)
           /\ held' \subseteq Pids /\ records' \subseteq Pids /\ stopping' \in BOOLEAN
           /\ idle' \in Seq(Waits) /\ waiters' \subseteq Nat /\ ran' \subseteq Nat
           /\ alarmDue' \in Times /\ timer' \in Times /\ signalled' \in BOOLEAN
           /\ watched' \in [Pids -> Requests]
           /\ threads' \subseteq Threads /\ failed' \subseteq [pid : Pids, generation : Nat]
<1>1. \A p \in P : r[p].app \in Apps /\ r[p].app.flight.generation \in Nat
  BY DEF Results, Apps, Flights
<1>2. apps' \in [Pids -> Apps]
  BY <1>1 DEF Apply, TypeOK
<1>3. watched' \in [Pids -> Requests]
  BY SMTT(60) DEF Apply, TypeOK, NoRequest, Requests
<1>4. held' \subseteq Pids /\ records' \subseteq Pids /\ stopping' \in BOOLEAN /\ events' \in Seq(Events)
  BY DEF Apply, TypeOK
<1>5. threads' \subseteq Threads /\ failed' \subseteq [pid : Pids, generation : Nat]
  BY <1>1, ThreadType DEF Apply, TypeOK
<1>6. idle' \in Seq(Waits) /\ waiters' \subseteq Nat /\ ran' \subseteq Nat
  <2>1. CASE UNCHANGED idleVars
    BY <2>1 DEF TypeOK, idleVars
  <2>2. CASE WakeIdleWaiters(idle, waiters, apps', held)
    BY <2>2, WakeIdleType DEF TypeOK
  <2> QED BY <2>1, <2>2 DEF Apply
<1>7. alarmDue' \in Times /\ timer' \in Times /\ signalled' \in BOOLEAN
  BY <1>2, <1>4, SetAlarmType DEF Apply, TypeOK
<1> QED BY <1>2, <1>3, <1>4, <1>5, <1>6, <1>7

\* What a step asks of the shell is well formed.
LEMMA AsksType ==
    ASSUME NEW P \in SUBSET Pids, NEW r \in [P -> Results] PROVE AsksOf(r) \subseteq Asks
<1>1. \A p \in P : /\ r[p].app.flight.request \in Requests /\ r[p].why \in Reasons \union {"None"}
                   /\ r[p].ask # "None" => r[p].ask \in {"Judge", "Publish"}
  BY DEF Results, Apps, Flights
<1> QED BY <1>1 DEF AsksOf, Asks

\* Notifying a condition variable keeps the threads.
LEMMA WakeType ==
    ASSUME NEW ts \in SUBSET Threads, NEW p, NEW woken \in Wake(ts, p)
    PROVE  woken \subseteq Threads
  BY DEF Wake, Threads

\* A nonempty queue has an oldest entry.
LEMMA OldestType ==
    ASSUME NEW a \in Apps, a.queue # {}
    PROVE  Oldest(a.queue) \in a.queue /\ \A g \in a.queue : Oldest(a.queue).marker <= g.marker
<1> DEFINE T == MarkersOf(a.queue)
<1>1. T \in SUBSET Times /\ NoTime \notin T
  BY MarkersType DEF Times, NoTime
<1>2. T # {}
  BY DEF MarkersOf
<1>3. Soonest(T) \in T /\ \A m \in T : Soonest(T) <= m
  BY <1>1, <1>2, SoonestTime DEF Soonest
<1>4. \E e \in a.queue : \A g \in a.queue : e.marker <= g.marker
  BY <1>3 DEF MarkersOf
<1> QED BY <1>4 DEF Oldest

\* Letting an application go keeps the tables (let_go).
LEMMA LetGoType ==
    ASSUME TypeOK, NEW p \in Pids, NEW a \in Apps, LetGoIfSpent(p, a)
    PROVE  apps' \in [Pids -> Apps] /\ held' \subseteq Pids /\ records' \subseteq Pids
  BY AppTypes DEF LetGoIfSpent, TypeOK

-----------------------------------------------------------------------------
(* Type correctness. *)

\* An event pushed keeps the types (Schedule::push).
LEMMA PushKeepsTypes ==
    ASSUME TypeOK, NEW p \in Pids, NEW key \in Keys \union {NoKey}, NEW window \in Windows,
           Push(p, key, window)
    PROVE  TypeOK'
<1>1. CASE PushStopping(p)
  BY <1>1 DEF Push, PushStopping, TypeOK, idleVars, alarmVars, Events
<1>2. CASE PushRunning(p, key, window)
  <2> DEFINE m == Len(events) + 1
             app == IF p \in held THEN apps[p] ELSE NoApp
             same == {e \in app.queue : key # NoKey /\ e.key = key}
             entry == [marker |-> m, key |-> key, window |-> window]
             a == [app EXCEPT !.ending = FALSE, !.queue = (@ \ same) \union {entry}]
             past == a.limitReached # NoTime /\ now >= a.limitReached + Deadline
             drops == ~a.threaded /\ past
             starts == ~a.threaded /\ ~past /\ Room(a.abandoned)
             pushed == Append(events, [pid |-> p, outcome |-> "owed"])
             next == IF drops THEN [a EXCEPT !.queue = {}] ELSE IF starts THEN Started(a) ELSE a
  <2>1. app \in Apps
    BY AppTypes DEF TypeOK
  <2>2. m \in Nat /\ entry \in Entries
    BY DEF TypeOK, Entries
  <2> HIDE DEF app, entry, m
  <2>3. a \in Apps
    BY <2>1, <2>2 DEF Apps
  <2> HIDE DEF a
  <2>4. [a EXCEPT !.queue = {}] \in Apps
    BY <2>3 DEF Apps
  <2>5. next \in Apps
    BY <2>3, <2>4, AppTypes
  <2>6. pushed \in Seq(Events)
    BY DEF TypeOK, Events
  <2> HIDE DEF pushed, next
  <2>7. apps' = [apps EXCEPT ![p] = next] /\ held' = held \union {p} /\ SetAlarm(alarmDue)
    BY <1>2 DEF PushRunning, next, drops, starts, past, a, app, same, entry, m
  <2>8. apps' \in [Pids -> Apps] /\ held' \subseteq Pids
    BY <2>5, <2>7 DEF TypeOK
  <2>9. events' \in Seq(Events)
    <3>1. \E ms : events' = Answer(Answer(pushed, MarkersOf(same), "replaced"), ms, "answered")
      BY <1>2 DEF PushRunning, pushed, app
    <3> QED BY <3>1, <2>6, AnswerType
  <2>10. next.flight.generation \in Nat
    BY <2>5 DEF Apps, Flights
  <2>11. records' \subseteq Pids /\ threads' \subseteq Threads /\ failed' \subseteq [pid : Pids, generation : Nat]
    <3>1. CASE starts
      <4>1. records' = records \union {p} /\ threads' \subseteq threads \union {Thread(p, next.flight.generation)}
            /\ failed' \subseteq {[pid |-> p, generation |-> next.flight.generation]}
        BY <1>2, <3>1 DEF PushRunning, next, drops, starts, past, a, app, same, entry, m
      <4> QED BY <4>1, <2>10, ThreadType DEF TypeOK
    <3>2. CASE ~starts
      <4>1. threads' \in Wake(threads, p) \/ threads' = threads
        BY <1>2, <3>2 DEF PushRunning, starts, past, a, app, same, entry, m
      <4>2. records' = records /\ failed' = failed
        BY <1>2, <3>2 DEF PushRunning, starts, past, a, app, same, entry, m
      <4> QED BY <4>1, <4>2, WakeType DEF TypeOK
    <3> QED BY <3>1, <3>2
  <2>12. idle' \in Seq(Waits) /\ waiters' \subseteq Nat /\ ran' \subseteq Nat
    <3>1. WakeIdleWaiters(idle, waiters, apps', held') \/ UNCHANGED idleVars
      BY <1>2 DEF PushRunning
    <3> QED BY <3>1, WakeIdleType DEF TypeOK, idleVars
  <2>13. alarmDue' \in Times /\ timer' \in Times /\ signalled' \in BOOLEAN
    BY <2>7, <2>8, SetAlarmType DEF TypeOK
  <2>14. UNCHANGED <<stopping, watched, now, watchdog, alarmEvent, asks>>
    BY <1>2 DEF PushRunning, Push
  <2> QED BY <2>8, <2>9, <2>11, <2>12, <2>13, <2>14 DEF TypeOK
<1> QED BY <1>1, <1>2 DEF Push

\* An outpost's end, a barrier and a stop keep the types.
LEMMA CallersKeepTypes ==
    ASSUME TypeOK
    PROVE  /\ \A p \in Pids : OutpostEnded(p) => TypeOK'
           /\ WhenIdle => TypeOK'
           /\ Stop => TypeOK'
<1>1. ASSUME NEW p \in Pids, OutpostEnded(p) PROVE TypeOK'
  <2>1. [apps[p] EXCEPT !.ending = TRUE] \in Apps
    BY DEF TypeOK, Apps
  <2>2. apps' \in [Pids -> Apps] /\ held' \subseteq Pids /\ records' \subseteq Pids
    BY <1>1, <2>1, LetGoType DEF OutpostEnded
  <2>3. threads' \subseteq Threads
    BY <1>1, WakeType DEF OutpostEnded, TypeOK
  <2>4. alarmDue' \in Times /\ timer' \in Times /\ signalled' \in BOOLEAN
    BY <1>1, <2>2, SetAlarmType DEF OutpostEnded, TypeOK
  <2> QED BY <1>1, <2>2, <2>3, <2>4 DEF OutpostEnded, TypeOK, idleVars
<1>2. ASSUME WhenIdle PROVE TypeOK'
  <2> DEFINE id == Cardinality(waiters \union ran) + 1
             line == Append(idle, [before |-> Len(events), waiter |-> id])
  <2>1. id \in Nat
    BY <1>2 DEF WhenIdle
  <2> HIDE DEF id
  <2>5. [before |-> Len(events), waiter |-> id] \in Waits
    BY <2>1 DEF TypeOK, Waits
  <2>2. line \in Seq(Waits) /\ waiters \union {id} \subseteq Nat
    BY <2>1, <2>5 DEF TypeOK
  <2>3. WakeIdleWaiters(line, waiters \union {id}, apps, held)
    BY <1>2 DEF WhenIdle, id
  <2> HIDE DEF line
  <2>4. idle' \in Seq(Waits) /\ waiters' \subseteq Nat /\ ran' \subseteq Nat
    BY <2>2, <2>3, WakeIdleType DEF TypeOK
  <2>6. alarmDue' \in Times /\ timer' \in Times /\ signalled' \in BOOLEAN
    BY <1>2, SetAlarmType DEF WhenIdle, TypeOK
  <2> QED BY <1>2, <2>4, <2>6 DEF WhenIdle, TypeOK
<1>3. ASSUME Stop PROVE TypeOK'
  <2>1. threads' \subseteq Threads
    BY SMTT(60), <1>3 DEF Stop, TypeOK, Threads
  <2> QED BY <1>3, <2>1 DEF Stop, TypeOK, alarmVars
<1> QED BY <1>1, <1>2, <1>3

\* Every step of a reading thread keeps the types.
LEMMA ThreadsKeepTypes ==
    ASSUME TypeOK, NEW t \in threads
    PROVE  /\ NextJob(t) => TypeOK'
           /\ SpuriousWake(t) => TypeOK'
           /\ ReadReturns(t) => TypeOK'
           /\ Learn(t) => TypeOK'
           /\ \A b \in Bounds : Arm(t, b) => TypeOK'
<1>0. t \in Threads /\ t.pid \in Pids /\ apps[t.pid] \in Apps
  BY DEF TypeOK, Threads
<1>1. ASSUME NextJob(t) PROVE TypeOK'
  <2>1. /\ apps' \in [Pids -> Apps] /\ held' \subseteq Pids /\ records' \subseteq Pids
        /\ threads' \subseteq Threads /\ watched' \in [Pids -> Requests]
    <3>1. CASE Leaves(t)
      BY <3>1 DEF Leaves, TypeOK
    <3>2. CASE Takes(t)
      <4> DEFINE a == apps[t.pid]
                 first == Oldest(a.queue)
                 taken == Start(a.flight, first.marker, Deadline, first.window, now)
                 left == [a EXCEPT !.queue = @ \ {first}, !.flight = taken]
                 reads == [t EXCEPT !.pc = "reading", !.request = taken.request,
                                    !.item = first.marker, !.window = first.window]
      <4>1. first \in Entries
        BY <1>0, <3>2, OldestType, MarkersType DEF Takes
      <4>2. first.marker \in Nat /\ first.window \in Windows /\ a.flight \in Flights /\ now \in Nat
        BY <1>0, <4>1 DEF Entries, Apps, TypeOK
      <4> HIDE DEF first
      <4>3. taken \in Flights
        BY <4>2, FlightTypes DEF Moveds
      <4>4. taken.request \in Requests
        BY <4>3 DEF Flights
      <4> HIDE DEF taken
      <4>5. left \in Apps
        BY <1>0, <4>3 DEF Apps
      <4>6. reads \in Threads
        BY <1>0, <4>2, <4>4 DEF Threads
      <4>7. /\ apps' = [apps EXCEPT ![t.pid] = left]
            /\ watched' = [watched EXCEPT ![t.pid] = taken.request]
            /\ records' = records \union {t.pid}
            /\ threads' = (threads \ {t}) \union {reads}
            /\ held' = held
        BY <3>2 DEF Takes, first, taken
      <4> HIDE DEF left, reads
      <4> QED BY <1>0, <4>4, <4>5, <4>6, <4>7 DEF TypeOK
    <3>3. CASE Ends(t)
      <4>1. [apps[t.pid] EXCEPT !.threaded = FALSE] \in Apps
        BY <1>0 DEF Apps
      <4>2. threads' \subseteq threads /\ watched' = watched
        BY <3>3 DEF Ends
      <4> QED BY <1>0, <3>3, <4>1, <4>2, LetGoType DEF Ends, TypeOK
    <3>4. CASE Parks(t)
      <4>1. [t EXCEPT !.pc = "waiting"] \in Threads
        BY <1>0 DEF Threads
      <4> QED BY <1>0, <3>4, <4>1 DEF Parks, TypeOK
    <3> QED BY <1>1, <3>1, <3>2, <3>3, <3>4 DEF NextJob
  <2>2. alarmDue' \in Times /\ timer' \in Times /\ signalled' \in BOOLEAN
    BY <1>1, <2>1, SetAlarmType DEF NextJob, TypeOK
  <2>3. UNCHANGED <<now, stopping, idle, waiters, ran, events, watchdog, alarmEvent, failed, asks>>
    BY <1>1 DEF NextJob, idleVars
  <2> QED BY <2>1, <2>2, <2>3 DEF TypeOK
<1>2. ASSUME SpuriousWake(t) PROVE TypeOK'
  <2>1. threads' \subseteq Threads
    BY <1>2 DEF SpuriousWake, TypeOK, Threads
  <2> QED BY <1>2, <2>1 DEF SpuriousWake, TypeOK, alarmVars, idleVars
<1>3. ASSUME ReadReturns(t) PROVE TypeOK'
  <2>0. Rested(t) \in Threads /\ \A g \in Nat : [Rested(t) EXCEPT !.generation = g] \in Threads
    <3>1. NoRequest \in Requests
      BY DEF NoRequest, Requests
    <3> QED BY <1>0, <3>1 DEF Rested, Threads
  <2>1. /\ apps' \in [Pids -> Apps] /\ held' \subseteq Pids /\ records' \subseteq Pids
        /\ threads' \subseteq Threads /\ events' \in Seq(Events)
        /\ idle' \in Seq(Waits) /\ waiters' \subseteq Nat /\ ran' \subseteq Nat
    <3>1. CASE ReturnsToNobody(t)
      BY <3>1 DEF ReturnsToNobody, TypeOK, idleVars
    <3>2. CASE ReturnsInCharge(t)
      <4>1. End(apps[t.pid].flight, t.request) \in Flights
        BY <1>0, FlightTypes DEF Apps, Threads
      <4>2. [apps[t.pid] EXCEPT !.flight = End(@, t.request)] \in Apps
        BY <1>0, <4>1 DEF Apps
      <4>3. apps' \in [Pids -> Apps] /\ held' \subseteq Pids /\ records' \subseteq Pids
        BY <1>0, <3>2, <4>2 DEF ReturnsInCharge, TypeOK
      <4>4. events' \in Seq(Events)
        BY <3>2, AnswerType DEF ReturnsInCharge, TypeOK
      <4>5. threads' \subseteq Threads
        BY <2>0, <3>2 DEF ReturnsInCharge, TypeOK
      <4> QED BY <3>2, <4>3, <4>4, <4>5, WakeIdleType DEF ReturnsInCharge, TypeOK
    <3>3. CASE ReturnsAbandoned(t)
      <4> DEFINE fewer == OneBack(apps[t.pid])
                 again == Started(fewer)
      <4>1. fewer \in Apps
        <5>1. apps[t.pid].abandoned \in Nat /\ apps[t.pid].limitReached \in Times
          BY <1>0 DEF Apps
        <5>2. (IF apps[t.pid].abandoned = 0 THEN 0 ELSE apps[t.pid].abandoned - 1) \in Nat
          BY <5>1
        <5>3. (IF Room(apps[t.pid].abandoned - 1) THEN NoTime ELSE apps[t.pid].limitReached) \in Times
          BY <5>1 DEF Times
        <5> QED BY <1>0, <5>2, <5>3 DEF OneBack, Apps
      <4>2. again \in Apps
        BY <4>1, AppTypes
      <4>3. again.flight.generation \in Nat
        BY <4>2 DEF Apps, Flights
      <4> HIDE DEF fewer, again
      <4>4. \/ /\ apps' = [apps EXCEPT ![t.pid] = again] /\ held' = held /\ records' = records \union {t.pid}
               /\ threads' = (threads \ {t}) \union {[Rested(t) EXCEPT !.generation = again.flight.generation]}
            \/ LetGoIfSpent(t.pid, fewer) /\ threads' = threads \ {t}
        BY <3>3 DEF ReturnsAbandoned, fewer, again
      <4>5. apps' \in [Pids -> Apps] /\ held' \subseteq Pids /\ records' \subseteq Pids
        BY SMTT(60), <1>0, <4>1, <4>2, <4>4, LetGoType DEF TypeOK
      <4>6. threads' \subseteq Threads
        <5>1. [Rested(t) EXCEPT !.generation = again.flight.generation] \in Threads
          BY <2>0, <4>3
        <5>2. threads \subseteq Threads
          BY DEF TypeOK
        <5> QED BY <5>1, <5>2, <4>4
      <4> QED BY <3>3, <4>5, <4>6 DEF ReturnsAbandoned, TypeOK, idleVars
    <3> QED BY <1>3, <3>1, <3>2, <3>3 DEF ReadReturns
  <2>2. alarmDue' \in Times /\ timer' \in Times /\ signalled' \in BOOLEAN
    BY <1>3, <2>1, SetAlarmType DEF ReadReturns, TypeOK
  <2>3. watched' \in [Pids -> Requests]
    BY <1>3 DEF ReadReturns, Unwatch, TypeOK, NoRequest, Requests
  <2>4. UNCHANGED <<now, stopping, watchdog, alarmEvent, failed, asks>>
    BY <1>3 DEF ReadReturns
  <2> QED BY <2>1, <2>2, <2>3, <2>4 DEF TypeOK
<1>4. ASSUME Learn(t) PROVE TypeOK'
  <2> DEFINE p == t.pid
             r == [q \in {p} |-> Decided(apps[p], Learned(apps[p].flight, t.request, now), now)]
  <2>1. now \in Nat /\ apps[p].flight \in Flights /\ t.request \in Requests /\ alarmDue \in Times
    BY <1>0 DEF TypeOK, Threads, Apps
  <2>2. r \in [{p} -> Results]
    BY <1>0, <2>1, DecisionTypes, DecidedType
  <2>3. Apply(r, Answer(events, OutOf(r), "answered"), alarmDue) /\ asks' = AsksOf(r)
    BY <1>4 DEF Learn
  <2> HIDE DEF r
  <2>4. Answer(events, OutOf(r), "answered") \in Seq(Events)
    BY AnswerType DEF TypeOK
  <2>5. asks' \subseteq Asks
    BY <1>0, <2>2, <2>3, AsksType
  <2>6. UNCHANGED <<now, watchdog, alarmEvent>>
    BY <1>4 DEF Learn
  <2> QED BY <1>0, <2>1, <2>2, <2>3, <2>4, <2>5, <2>6, ApplyType DEF TypeOK
<1>5. ASSUME NEW b \in Bounds, Arm(t, b) PROVE TypeOK'
  <2>1. now + b \in Nat /\ t.request \in Requests
    BY <1>0 DEF TypeOK, Threads
  <2>2. Armed(apps[t.pid].flight, t.request, now + b) \in Flights
    BY <1>0, <2>1, FlightTypes DEF Apps
  <2>3. [apps[t.pid] EXCEPT !.flight = Armed(@, t.request, now + b)] \in Apps
    BY <1>0, <2>2 DEF Apps
  <2>4. apps' \in [Pids -> Apps] /\ held' \subseteq Pids
    BY <1>0, <1>5, <2>3 DEF Arm, TypeOK
  <2>5. threads' \subseteq Threads
    BY <1>0, <1>5 DEF Arm, TypeOK, Threads
  <2>6. alarmDue' \in Times /\ timer' \in Times /\ signalled' \in BOOLEAN
    BY <1>5, <2>4, SetAlarmType DEF Arm, TypeOK
  <2>7. UNCHANGED <<now, stopping, idle, waiters, ran, events, records, watched, watchdog, alarmEvent, failed, asks>>
    BY <1>5 DEF Arm, idleVars
  <2> QED BY <2>4, <2>5, <2>6, <2>7 DEF TypeOK
<1> QED BY <1>1, <1>2, <1>3, <1>4, <1>5

\* A tick of the watchdog and the steps under its lock keep the types.
LEMMA WatchdogKeepsTypes ==
    ASSUME TypeOK
    PROVE  /\ WatchdogTick => TypeOK'
           /\ \A k \in asks : AnswerJudge(k) => TypeOK'
           /\ \A k \in asks : AnswerPublish(k) => TypeOK'
           /\ \A f \in failed : SpawnFailed(f) => TypeOK'
<1>0. now \in Nat /\ alarmDue \in Times /\ NoTime \in Times /\ held \subseteq Pids
  BY DEF TypeOK, Times
<1>1. ASSUME WatchdogTick PROVE TypeOK'
  <2>1. CASE stopping
    BY <1>1, <2>1 DEF WatchdogTick, TypeOK, idleVars, alarmVars
  <2>2. CASE ~stopping
    <3> DEFINE r == [p \in held |-> TickApp(apps[p], now)]
    <3>1. r \in [held -> Results]
      BY <1>0, TickAppType DEF TypeOK
    <3>2. Apply(r, Answer(events, OutOf(r), "answered"), NoTime) /\ asks' = AsksOf(r)
      BY <1>1, <2>2 DEF WatchdogTick, Tick
    <3> HIDE DEF r
    <3>3. Answer(events, OutOf(r), "answered") \in Seq(Events)
      BY AnswerType DEF TypeOK
    <3>4. asks' \subseteq Asks
      BY <1>0, <3>1, <3>2, AsksType
    <3>5. watchdog' = "wait" /\ UNCHANGED <<now, alarmEvent>>
      BY <1>1, <2>2 DEF WatchdogTick
    <3> QED BY <1>0, <3>1, <3>2, <3>3, <3>4, <3>5, ApplyType DEF TypeOK
  <2> QED BY <2>1, <2>2
<1>2. ASSUME NEW k \in asks, AnswerJudge(k) PROVE TypeOK'
  <2>0. k.pid \in Pids /\ k.request \in Requests /\ apps[k.pid] \in Apps /\ apps[k.pid].flight \in Flights
    BY DEF TypeOK, Asks, Apps
  <2> DEFINE R(verdict) == [p \in {k.pid} \intersect held |->
                              Decided(apps[k.pid], Judged(apps[k.pid].flight, k.request, verdict), now)]
  <2>1. PICK verdict \in {"None", "Hung", "MovedOn"} :
          /\ Apply(R(verdict), Answer(events, OutOf(R(verdict)), "answered"), alarmDue)
          /\ asks' = (asks \ {k}) \union AsksOf(R(verdict))
    BY <1>2 DEF AnswerJudge
  <2>2. R(verdict) \in [{k.pid} \intersect held -> Results]
    BY <1>0, <2>0, DecisionTypes, DecidedType
  <2> HIDE DEF R
  <2>3. Answer(events, OutOf(R(verdict)), "answered") \in Seq(Events)
    BY AnswerType DEF TypeOK
  <2>4. {k.pid} \intersect held \in SUBSET Pids
    BY <1>0
  <2>5. asks' \subseteq Asks
    BY <2>1, <2>2, <2>4, AsksType DEF TypeOK
  <2>6. UNCHANGED <<now, watchdog, alarmEvent>>
    BY <1>2 DEF AnswerJudge
  <2> QED BY <1>0, <2>1, <2>2, <2>3, <2>4, <2>5, <2>6, ApplyType DEF TypeOK
<1>3. ASSUME NEW k \in asks, AnswerPublish(k) PROVE TypeOK'
  <2>0. /\ k.pid \in Pids /\ k.request \in Requests /\ k.why \in Reasons \union {"None"}
        /\ apps[k.pid] \in Apps /\ apps[k.pid].flight \in Flights
    BY DEF TypeOK, Asks, Apps
  <2> DEFINE a == apps[k.pid]
             Got(prepared) == prepared /\ Accepts(a.flight, k.request)
             D(prepared) == Decided(a, Published(a.flight, k.request, Got(prepared), k.why, now), now)
             R(prepared) == [p \in {k.pid} \intersect held |->
                               [D(prepared) EXCEPT !.wake = @ \/ Got(prepared)]]
             Sent(prepared) == Answer(events, IF Got(prepared) THEN {a.flight.item} ELSE {}, "answered")
  <2>1. PICK prepared \in BOOLEAN :
          /\ Apply(R(prepared), Answer(Sent(prepared), OutOf(R(prepared)), "answered"), alarmDue)
          /\ asks' = (asks \ {k}) \union AsksOf(R(prepared))
    BY <1>3 DEF AnswerPublish
  <2>2. Got(prepared) \in BOOLEAN
    BY DEF Accepts, RunningOf, Running
  <2>3. D(prepared) \in Results
    BY <1>0, <2>0, <2>2, DecisionTypes, DecidedType
  <2> HIDE DEF D
  <2>4. [D(prepared) EXCEPT !.wake = @ \/ Got(prepared)] \in Results
    BY <2>3 DEF Results
  <2>5. R(prepared) \in [{k.pid} \intersect held -> Results]
    BY <2>4
  <2> HIDE DEF R
  <2>6. Sent(prepared) \in Seq(Events)
    BY AnswerType DEF TypeOK
  <2> HIDE DEF Sent
  <2>7. Answer(Sent(prepared), OutOf(R(prepared)), "answered") \in Seq(Events)
    BY <2>6, AnswerType
  <2>8. {k.pid} \intersect held \in SUBSET Pids
    BY <1>0
  <2>9. asks' \subseteq Asks
    BY <2>1, <2>5, <2>8, AsksType DEF TypeOK
  <2>10. UNCHANGED <<now, watchdog, alarmEvent>>
    BY <1>3 DEF AnswerPublish
  <2> QED BY <1>0, <2>1, <2>5, <2>7, <2>8, <2>9, <2>10, ApplyType DEF TypeOK
<1>4. ASSUME NEW f \in failed, SpawnFailed(f) PROVE TypeOK'
  <2> DEFINE b == [apps[f.pid] EXCEPT !.threaded = FALSE, !.queue = {}]
  <2>0. f.pid \in Pids /\ apps[f.pid] \in Apps
    BY DEF TypeOK
  <2>1. f.pid \in Pids /\ b \in Apps
    BY <2>0 DEF Apps
  <2>2. /\ apps' \in [Pids -> Apps] /\ held' \subseteq Pids /\ records' \subseteq Pids
        /\ events' \in Seq(Events)
    BY SMTT(60), <1>4, <2>1, LetGoType, AnswerType DEF SpawnFailed, TypeOK
  <2>3. idle' \in Seq(Waits) /\ waiters' \subseteq Nat /\ ran' \subseteq Nat
    <3>1. WakeIdleWaiters(idle, waiters, apps', held') \/ UNCHANGED idleVars
      BY <1>4 DEF SpawnFailed
    <3> QED BY <3>1, WakeIdleType DEF TypeOK, idleVars
  <2>4. alarmDue' \in Times /\ timer' \in Times /\ signalled' \in BOOLEAN
    BY <1>4, <2>2, SetAlarmType DEF SpawnFailed, TypeOK
  <2>5. failed' \subseteq failed /\ UNCHANGED <<stopping, now, watched, threads, watchdog, alarmEvent, asks>>
    BY <1>4 DEF SpawnFailed
  <2> QED BY <2>2, <2>3, <2>4, <2>5 DEF TypeOK
<1> QED BY <1>1, <1>2, <1>3, <1>4

\* The schedule's tables and the shell's keep their types at every step of every
\* behaviour (Readers::step and every input of Schedule::step).
THEOREM TypeCorrect == Spec => []TypeOK
<1>1. Init => TypeOK
  <2> SUFFICES ASSUME Init PROVE TypeOK
    OBVIOUS
  <2>1. apps \in [Pids -> Apps]
    BY AppTypes DEF Init
  <2>2. watched \in [Pids -> Requests]
    BY DEF Init, NoRequest, Requests
  <2>3. alarmDue \in Times /\ timer \in Times /\ now \in Nat
    BY DEF Init, Times
  <2>4. events \in Seq(Events) /\ idle \in Seq(Waits)
    BY DEF Init
  <2> QED BY <2>1, <2>2, <2>3, <2>4 DEF Init, TypeOK
<1>2. TypeOK /\ [Next]_vars => TypeOK'
  <2> SUFFICES ASSUME TypeOK, [Next]_vars PROVE TypeOK'
    OBVIOUS
  <2>1. CASE UNCHANGED vars
    BY <2>1 DEF TypeOK, vars
  <2>2. ASSUME NEW p \in Pids, NEW key \in Keys \union {NoKey}, NEW window \in Windows, Push(p, key, window)
        PROVE  TypeOK'
    BY <2>2, PushKeepsTypes
  <2>3. CASE TimerGoesOff
    BY <2>3 DEF TimerGoesOff, TypeOK, Times, idleVars
  <2>4. CASE AlarmWait
    BY <2>4 DEF AlarmWait, TypeOK, idleVars
  <2>5. CASE Clock
    BY SMTT(60), <2>5 DEF Clock, TypeOK, idleVars, alarmVars
  <2> QED BY <2>1, <2>2, <2>3, <2>4, <2>5, CallersKeepTypes, ThreadsKeepTypes, WatchdogKeepsTypes DEF Next
<1> QED BY <1>1, <1>2, PTL DEF Spec

-----------------------------------------------------------------------------
(***************************************************************************)
(* The watchdog never sleeps past something due, however early a timer     *)
(* goes off.                                                               *)
(*                                                                         *)
(* AlarmCovers is not inductive: it says nothing of what the schedule      *)
(* believes of the alarm, by which it leaves the timer alone.  AlarmAgrees *)
(* adds that: the time believed is the soonest due, at every step, and the *)
(* timer of a sleeping watchdog is set to it.                              *)
(***************************************************************************)
AlarmAgrees ==
    ~stopping =>
        /\ alarmDue = Due(apps, held)
        /\ watchdog = "wait" /\ ~signalled /\ alarmDue # NoTime => timer = alarmDue

-----------------------------------------------------------------------------
\* set_alarm re-establishes the agreement, from a belief that agrees with the
\* timer or from none (tick's, which follows a wait that consumed the timer).
LEMMA SetAlarmAgrees ==
    ASSUME NEW was, SetAlarm(was),
           \/ was = NoTime
           \/ was = alarmDue /\ watchdog' = watchdog /\ (stopping => stopping') /\ AlarmAgrees
    PROVE  AlarmAgrees'
<1> SUFFICES ASSUME ~stopping' PROVE AlarmAgrees'
  BY DEF AlarmAgrees
<1> DEFINE due == Due(apps', held')
<1>1. CASE due = was
  <2>1. alarmDue' = due /\ timer' = timer /\ signalled' = signalled
    BY <1>1 DEF SetAlarm
  <2>2. CASE was = NoTime
    BY <1>1, <2>1, <2>2 DEF AlarmAgrees
  <2>3. CASE was # NoTime
    BY <1>1, <2>1, <2>3 DEF AlarmAgrees
  <2> QED BY <2>2, <2>3
<1>2. CASE due # was
  <2>1. alarmDue' = due /\ timer' = due
    BY <1>2 DEF SetAlarm
  <2> QED BY <2>1 DEF AlarmAgrees
<1> QED BY <1>1, <1>2

\* A step that changes nothing due, and neither what is believed of the alarm nor
\* the timer, keeps the agreement.
LEMMA QuietStepAgrees ==
    ASSUME AlarmAgrees, UNCHANGED <<apps, held, alarmDue>>, stopping => stopping',
           \/ UNCHANGED <<timer, signalled, watchdog>>
           \/ signalled' = TRUE
           \/ watchdog' # "wait"
    PROVE  AlarmAgrees'
  BY DEF AlarmAgrees

\* The agreement is kept by every step of every actor.
LEMMA StepAgrees ==
    ASSUME AlarmAgrees, [Next]_vars
    PROVE  AlarmAgrees'
<1>1. CASE UNCHANGED vars
  BY <1>1, QuietStepAgrees DEF vars
<1>2. ASSUME NEW p \in Pids, NEW key \in Keys \union {NoKey}, NEW window \in Windows,
             Push(p, key, window)
      PROVE  AlarmAgrees'
  <2>1. CASE PushStopping(p)
    BY <1>2, <2>1 DEF Push, PushStopping, AlarmAgrees
  <2>2. CASE PushRunning(p, key, window)
    <3>1. SetAlarm(alarmDue) /\ UNCHANGED stopping
      BY <2>2 DEF PushRunning
    <3>2. watchdog' = watchdog
      BY <1>2 DEF Push
    <3> QED BY <3>1, <3>2, SetAlarmAgrees
  <2> QED BY <1>2, <2>1, <2>2 DEF Push
<1>3. ASSUME NEW p \in Pids, OutpostEnded(p) PROVE AlarmAgrees'
  BY <1>3, SetAlarmAgrees DEF OutpostEnded
<1>4. CASE WhenIdle
  BY <1>4, SetAlarmAgrees DEF WhenIdle
<1>5. CASE Stop
  BY <1>5 DEF Stop, AlarmAgrees
<1>6. ASSUME NEW t \in threads, NextJob(t) PROVE AlarmAgrees'
  BY <1>6, SetAlarmAgrees DEF NextJob
<1>7. ASSUME NEW t \in threads, SpuriousWake(t) PROVE AlarmAgrees'
  BY <1>7, QuietStepAgrees DEF SpuriousWake, alarmVars
<1>8. ASSUME NEW t \in threads, ReadReturns(t) PROVE AlarmAgrees'
  BY <1>8, SetAlarmAgrees DEF ReadReturns
<1>9. ASSUME NEW t \in threads, Learn(t) PROVE AlarmAgrees'
  <2>1. SetAlarm(alarmDue) /\ UNCHANGED stopping
    BY <1>9 DEF Learn, Apply
  <2>2. watchdog' = watchdog
    BY <1>9 DEF Learn
  <2> QED BY <2>1, <2>2, SetAlarmAgrees
<1>10. ASSUME NEW t \in threads, NEW b \in Bounds, Arm(t, b) PROVE AlarmAgrees'
  BY <1>10, SetAlarmAgrees DEF Arm
<1>11. CASE WatchdogTick
  <2>1. CASE watchdog' = "done"
    BY SMTT(60), <1>11, <2>1, QuietStepAgrees DEF WatchdogTick, Tick, alarmVars
  <2>2. CASE Tick
    <3>1. SetAlarm(NoTime)
      BY <2>2 DEF Tick, Apply
    <3> QED BY <3>1, SetAlarmAgrees
  <2> QED BY <1>11, <2>1, <2>2 DEF WatchdogTick
<1>12. ASSUME NEW k \in asks, AnswerJudge(k) PROVE AlarmAgrees'
  <2>1. SetAlarm(alarmDue) /\ UNCHANGED stopping
    BY <1>12 DEF AnswerJudge, Apply
  <2>2. watchdog' = watchdog
    BY <1>12 DEF AnswerJudge
  <2> QED BY <2>1, <2>2, SetAlarmAgrees
<1>13. ASSUME NEW k \in asks, AnswerPublish(k) PROVE AlarmAgrees'
  <2>1. SetAlarm(alarmDue) /\ UNCHANGED stopping
    BY <1>13 DEF AnswerPublish, Apply
  <2>2. watchdog' = watchdog
    BY <1>13 DEF AnswerPublish
  <2> QED BY <2>1, <2>2, SetAlarmAgrees
<1>14. ASSUME NEW f \in failed, SpawnFailed(f) PROVE AlarmAgrees'
  BY <1>14, SetAlarmAgrees DEF SpawnFailed
<1>15. CASE TimerGoesOff
  BY <1>15, QuietStepAgrees DEF TimerGoesOff
<1>16. CASE AlarmWait
  BY <1>16, QuietStepAgrees DEF AlarmWait
<1>17. CASE Clock
  BY <1>17, QuietStepAgrees DEF Clock, alarmVars
<1> QED
  BY <1>1, <1>2, <1>3, <1>4, <1>5, <1>6, <1>7, <1>8, <1>9, <1>10, <1>11, <1>12, <1>13,
     <1>14, <1>15, <1>16, <1>17 DEF Next

\* What agrees covers: the soonest due is no later than anything due.
LEMMA AgreementCovers ==
    ASSUME TypeOK, AlarmAgrees
    PROVE  AlarmCovers
<1> SUFFICES ASSUME ~stopping, watchdog = "wait", ~signalled, NEW p \in held,
                    NEW due \in {NextWake(apps[p].flight), WaitingEnd(apps[p])}, due # NoTime
             PROVE  timer # NoTime /\ timer <= due
  BY DEF AlarmCovers
<1> DEFINE T == UNION {{NextWake(apps[q].flight), WaitingEnd(apps[q])} : q \in held}
<1>1. T \in SUBSET Times
  BY SMTT(60), AppTypes DEF TypeOK
<1>2. due \in T \ {NoTime}
  OBVIOUS
<1>3. Soonest(T) # NoTime /\ Soonest(T) <= due
  BY <1>1, <1>2, SoonestTime
<1>4. alarmDue = Soonest(T)
  BY DEF AlarmAgrees, Due
<1> QED BY <1>3, <1>4 DEF AlarmAgrees

\* The watchdog is never asleep past something due: set_alarm, which leaves the
\* timer alone when the time due is the one it set last, is called at the end of
\* every step, and tick forgets what it set last.
THEOREM WatchdogCovers == Spec => []AlarmCovers
<1>1. Init => AlarmAgrees
  <2> SUFFICES ASSUME Init PROVE AlarmAgrees
    OBVIOUS
  <2>1. Due(apps, held) = NoTime
    <3>1. UNION {{NextWake(apps[q].flight), WaitingEnd(apps[q])} : q \in held} = {}
      BY DEF Init
    <3> QED BY <3>1 DEF Due, Soonest
  <2> QED BY <2>1 DEF Init, AlarmAgrees
<1>2. TypeOK /\ AlarmAgrees => AlarmCovers
  BY AgreementCovers
<1>3. AlarmAgrees /\ [Next]_vars => AlarmAgrees'
  BY StepAgrees
<1> QED BY <1>1, <1>2, <1>3, TypeCorrect, PTL DEF Spec

=============================================================================
