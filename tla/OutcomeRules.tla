---------------------------- MODULE OutcomeRules ----------------------------
(***************************************************************************)
(* What each application's transitions do to the events owed an outcome:   *)
(* the inductive invariants behind the theorems of OutcomeProofs, and the  *)
(* lemmas about one application, the history of events and the idle line.  *)
(*                                                                         *)
(* TableInv ties the schedule's tables to the history of events and to the *)
(* shell's tables, application by application, held or not:                *)
(*  - an application holds exactly the events of its own that are owed;    *)
(*  - its queue is in order, behind the read under way (InOrder);          *)
(*  - its events wait with no thread only at the limit (Limited);          *)
(*  - a request names the generation that made it (Requested), which is    *)
(*    why a late return never lets go of another thread's read.            *)
(* IdleInv says of the idle waiters that they are numbered in the order    *)
(* they came, run in that order, and each wait for an event owed.          *)
(***************************************************************************)
EXTENDS ThreadProofs

USE GraceAssumption, ScheduleAssumption

\* The events of the application p that are owed an outcome.
OwedOf(es, p) == {m \in DOMAIN es : es[m].pid = p /\ es[m].outcome = "owed"}

InOrder(a) ==
    /\ \A e, g \in a.queue : e.marker = g.marker => e = g
    /\ Running(a.flight) => \A m \in MarkersOf(a.queue) : a.flight.item < m

Limited(a, stop) ==
    /\ a.abandoned <= Limit
    /\ a.threaded => a.abandoned < Limit
    /\ a.abandoned = Limit => a.limitReached # NoTime
    /\ ~stop /\ ~a.threaded /\ a.queue # {} => a.abandoned = Limit

Requested(f) == IF Running(f) THEN f.request.generation = f.generation ELSE f.request = NoRequest

Sound(a, stop) == InOrder(a) /\ Limited(a, stop) /\ Requested(a.flight)

TableInv ==
    /\ records = held
    /\ \A p \in Pids : /\ Sound(apps[p], stopping)
                       /\ watched[p] = apps[p].flight.request
                       /\ OwedBy(apps[p]) = OwedOf(events, p)
                       /\ Running(apps[p].flight) => apps[p].flight.item <= Len(events)
    /\ \A m \in Markers : events[m].outcome # "twice"
    /\ \A t \in threads : t.pc \in Busy => t.request.generation = t.generation

\* The idle waiters in line, none for more than count events, none for fewer than
\* the one ahead of it.
Sorted(line, count) ==
    /\ \A i \in DOMAIN line : line[i].before <= count
    /\ \A i, j \in DOMAIN line : i <= j => line[i].before <= line[j].before

\* The waiters that have run came first, and those in line come next.
Numbered(line, closures, done) ==
    LET k == Cardinality(done)
    IN  /\ k \in Nat /\ done = 1..k /\ closures = (k + 1)..(k + Len(line))
        /\ \A i \in DOMAIN line : line[i].waiter = k + i

\* Each waiter in line waits for an event owed.
Caused(line, es) ==
    \A i \in DOMAIN line : \E m \in DOMAIN es : es[m].outcome = "owed" /\ m <= line[i].before

IdleInv ==
    /\ Sorted(idle, Len(events))
    /\ stopping => waiters = {}
    /\ ~stopping => Numbered(idle, waiters, ran) /\ Caused(idle, events)

-----------------------------------------------------------------------------
(* What one application's transitions do to what it is owed. *)

\* The read under way in b, if one is, is of an event a owes or already read.
Follows(a, b) ==
    Running(b.flight) => \/ b.flight.item \in OwedBy(a)
                         \/ Running(a.flight) /\ b.flight.item = a.flight.item

\* a becomes b and out of its events are answered, the oldest first.
Settled(a, b, out) ==
    /\ Follows(a, b)
    /\ out \subseteq OwedBy(a) /\ OwedBy(b) = OwedBy(a) \ out
    /\ \A m \in out, n \in OwedBy(b) : m < n

Moves(a, b, out, stop) == Sound(b, stop) /\ Settled(a, b, out)

\* An application whose queue, threads and read stay as they are owes the same.
LEMMA SameMoves ==
    ASSUME NEW a, NEW b, NEW stop, Sound(a, stop), b.queue = a.queue, b.threaded = a.threaded,
           b.abandoned = a.abandoned, b.limitReached = a.limitReached,
           b.flight.generation = a.flight.generation, b.flight.request = a.flight.request,
           b.flight.item = a.flight.item, Running(b.flight) = Running(a.flight),
           Running(a.flight) => (b.flight.walk = "Published") = (a.flight.walk = "Published")
    PROVE  Moves(a, b, {}, stop)
<1>1. Accepts(b.flight, b.flight.request) = Accepts(a.flight, a.flight.request)
  BY DEF Accepts, RunningOf, Running
<1>2. OwedBy(b) = OwedBy(a)
  BY <1>1 DEF OwedBy
<1>3. Sound(b, stop)
  BY DEF Sound, InOrder, Limited, Requested
<1> QED BY <1>2, <1>3 DEF Moves, Settled, Follows

\* What is owed of an application: its queue and, while it is not published, its
\* read.
LEMMA OwedByParts ==
    ASSUME NEW a
    PROVE  /\ ~Running(a.flight) => OwedBy(a) = MarkersOf(a.queue)
           /\ Running(a.flight) /\ a.flight.walk = "Published" => OwedBy(a) = MarkersOf(a.queue)
           /\ Running(a.flight) /\ a.flight.walk # "Published" =>
                 OwedBy(a) = MarkersOf(a.queue) \union {a.flight.item}
           /\ Accepts(a.flight, a.flight.request) <=>
                 Running(a.flight) /\ a.flight.walk # "Published"
  BY DEF OwedBy, Accepts, RunningOf, Running

\* What a decision says of a read: the item that leaves with it, whether it was
\* published, or that neither changes.
Tells(f, d) ==
    /\ Shaped(f, d)
    /\ IF d.do = "Abandon"
       THEN /\ d.item = f.item /\ d.published = (f.walk = "Published")
            /\ d.flight.request = NoRequest
       ELSE (d.flight.walk = "Published") = (f.walk = "Published")

\* What a result does to an application: the events it answers, that it then looks
\* for idle waiters, and that the shell stops sharing the read that left.
Accounted(a, r, stop) ==
    /\ Moves(a, r.app, r.out, stop)
    /\ r.out # {} => r.wake
    /\ r.app.flight.request = IF r.unwatch THEN NoRequest ELSE a.flight.request

\* The same with events sent before the result, which are others (Schedule::published).
AccountedAfter(a, sent, r, stop) ==
    /\ Moves(a, r.app, sent \union r.out, stop)
    /\ sent \intersect r.out = {}
    /\ r.out # {} => r.wake
    /\ r.app.flight.request = IF r.unwatch THEN NoRequest ELSE a.flight.request

\* Abandoning a read answers its event, unless it was published, before any that
\* waits (Schedule::abandon).
LEMMA AbandonedMoves ==
    ASSUME NEW a \in Apps, NEW d \in Decisions, NEW t \in Nat, NEW stop,
           Sound(a, stop), a.threaded, d.do = "Abandon", Tells(a.flight, d)
    PROVE  Accounted(a, Abandoned(a, d, t), stop)
<1> DEFINE count == a.abandoned + 1
           left == [a EXCEPT !.flight = d.flight, !.threaded = FALSE, !.abandoned = count,
                             !.limitReached = IF ~Room(count) /\ @ = NoTime THEN t ELSE @]
           starts == a.queue # {} /\ Room(count)
           b == IF starts THEN Started(left) ELSE left
           out == IF d.published THEN {} ELSE {d.item}
           r == Abandoned(a, d, t)
<1>1. r.app = b /\ r.out = out /\ r.wake = TRUE /\ r.unwatch = TRUE
  BY DEF Abandoned, Quiet
<1>2. /\ left.queue = a.queue /\ left.threaded = FALSE /\ left.abandoned = count
      /\ left.flight = d.flight
      /\ left.limitReached = IF ~Room(count) /\ a.limitReached = NoTime THEN t ELSE a.limitReached
  BY DEF Apps
<1>3. d.flight \in Flights /\ ~Running(d.flight) /\ d.flight.request = NoRequest /\ Running(a.flight)
  BY DEF Tells, Shaped, Decisions
<1>4. /\ b.queue = a.queue /\ b.abandoned = count /\ b.threaded = starts
      /\ b.limitReached = left.limitReached /\ ~Running(b.flight) /\ b.flight.request = NoRequest
  <2>1. left \in Apps
    <3>1. left.limitReached \in Times /\ count \in Nat
      BY <1>2 DEF Apps, Times
    <3> QED BY Zenon, <1>2, <1>3, <3>1 DEF Apps
  <2> HIDE DEF left
  <2>2. CASE starts
    BY Zenon, <1>2, <1>3, <2>1, <2>2 DEF Started, Succeed, Running, Apps, Flights
  <2>3. CASE ~starts
    BY Zenon, <1>2, <1>3, <2>3
  <2> QED BY <2>2, <2>3
<1>5. a.abandoned \in Nat /\ a.abandoned < Limit /\ a.limitReached \in Times
  BY DEF Apps, Sound, Limited
<1> HIDE DEF b, left
<1>6. Limited(b, stop)
  <2>1. /\ b.abandoned = a.abandoned + 1 /\ Limit \in Nat /\ (Room(count) <=> count < Limit)
        /\ b.limitReached = IF ~Room(count) /\ a.limitReached = NoTime THEN t ELSE a.limitReached
        /\ b.threaded <=> a.queue # {} /\ Room(count)
    BY Zenon, <1>2, <1>4 DEF Room
  <2>2. t # NoTime
    BY DEF NoTime
  <2>3. b.abandoned <= Limit /\ (b.threaded => b.abandoned < Limit)
    BY <1>5, <2>1
  <2>4. ~Room(count) <=> b.abandoned = Limit
    BY <1>5, <2>1
  <2>5. b.queue = a.queue
    BY <1>4
  <2> QED BY <2>1, <2>2, <2>3, <2>4, <2>5 DEF Limited
<1>7. InOrder(b) /\ Requested(b.flight)
  BY <1>4 DEF Sound, InOrder, Requested
<1>8. Settled(a, b, out)
  <2>1. OwedBy(b) = MarkersOf(a.queue)
    BY <1>4, OwedByParts
  <2>2. \A m \in MarkersOf(a.queue) : a.flight.item < m /\ m \in Nat
    BY <1>3, MarkersType DEF Sound, InOrder
  <2>3. d.published = (a.flight.walk = "Published") /\ d.item = a.flight.item
    BY DEF Tells
  <2>4. a.flight.item \in Nat
    BY DEF Apps, Flights
  <2>5. a.flight.item \notin MarkersOf(a.queue)
    BY SMTT(60), <2>2, <2>4
  <2>6. OwedBy(a) = MarkersOf(a.queue) \union out
    BY Zenon, <1>3, <2>3, OwedByParts
  <2>7. Follows(a, b)
    BY <1>4 DEF Follows
  <2> QED BY SMTT(60), <2>1, <2>2, <2>3, <2>5, <2>6, <2>7 DEF Settled
<1> QED BY <1>1, <1>4, <1>6, <1>7, <1>8 DEF Accounted, Moves, Sound

\* So does carrying out any decision (Schedule::decided).
LEMMA DecidedMoves ==
    ASSUME NEW a \in Apps, NEW d \in Decisions, NEW t \in Nat, NEW stop,
           Sound(a, stop), Running(a.flight) => a.threaded, Tells(a.flight, d)
    PROVE  Accounted(a, Decided(a, d, t), stop)
<1>1. CASE d.do = "Abandon"
  BY <1>1, AbandonedMoves DEF Decided, Tells, Shaped
<1>2. CASE d.do # "Abandon"
  <2> DEFINE b == [a EXCEPT !.flight = d.flight]
             r == Decided(a, d, t)
  <2>1. r.app = b /\ r.out = {} /\ r.unwatch = FALSE
    BY <1>2 DEF Decided, Quiet
  <2>2. /\ b.queue = a.queue /\ b.threaded = a.threaded /\ b.abandoned = a.abandoned
        /\ b.limitReached = a.limitReached /\ b.flight = d.flight
    BY DEF Apps
  <2> HIDE DEF b
  <2>3. Moves(a, b, {}, stop)
    BY SMTT(60), <1>2, <2>2, SameMoves DEF Tells, Shaped
  <2> QED BY <1>2, <2>1, <2>2, <2>3 DEF Accounted, Tells, Shaped
<1> QED BY <1>1, <1>2

\* Every decision of the record tells the truth about its read; of one that
\* answers "Publish", about the read as marked published or not.
LEMMA DecisionTells ==
    ASSUME NEW f \in Flights, NEW r \in Requests, NEW t \in Nat
    PROVE  /\ Tells(f, Judge(f, t))
           /\ Tells(f, Learned(f, r, t))
           /\ \A verdict \in {"None", "Hung", "MovedOn"} : Tells(f, Judged(f, r, verdict))
           /\ \A got \in BOOLEAN, why \in Reasons \union {"None"} :
                 LET g == IF got THEN [f EXCEPT !.walk = "Published", !.bound = 0] ELSE f
                 IN  IF RunningOf(f, r) THEN Tells(g, Published(f, r, got, why, t))
                                        ELSE Published(f, r, got, why, t) = Nothing(f)
<1> DEFINE same(f1, g) == /\ g.generation = f1.generation /\ g.request = f1.request
                          /\ g.item = f1.item /\ Running(g) = Running(f1)
                          /\ (g.walk = "Published") = (f1.walk = "Published")
           unarmed(f1) == [f1 EXCEPT !.walk = "Unarmed", !.bound = 0]
<1>1. ASSUME NEW f1 \in Flights, NEW g \in Flights, same(f1, g)
      PROVE  /\ Tells(f1, Nothing(g)) /\ Tells(f1, AskJudge(g))
             /\ \A why \in Reasons \union {"None"} :
                   Tells(f1, AskPublish(g, why)) /\ (Running(f1) => Tells(f1, Abandon(g, why)))
  <2>1. Tells(f1, Nothing(g)) /\ Tells(f1, AskJudge(g))
    BY <1>1 DEF Tells, Shaped, Nothing, AskJudge
  <2>2. ASSUME NEW why \in Reasons \union {"None"} PROVE Tells(f1, AskPublish(g, why))
    BY <1>1 DEF Tells, Shaped, Nothing, AskPublish
  <2>3. ASSUME NEW why \in Reasons \union {"None"}, Running(f1) PROVE Tells(f1, Abandon(g, why))
    BY Zenon, <1>1, <2>3 DEF Tells, Shaped, Abandon, Taken, New, Running
  <2> QED BY <2>1, <2>2, <2>3
<1>2. ASSUME NEW f1 \in Flights
      PROVE  unarmed(f1) \in Flights /\ (f1.walk = "Armed" => same(f1, unarmed(f1)))
  <2>1. unarmed(f1) \in Flights
    BY Zenon DEF Flights, Walks
  <2> QED BY <2>1 DEF Running, Flights
<1>3. ASSUME NEW f1 \in Flights, NEW g \in Flights, same(f1, g) PROVE Tells(f1, Judge(g, t))
  <2>1. CASE ~Running(g)
    BY <1>1, <1>3, <2>1 DEF Judge
  <2>2. CASE Running(g)
    <3>1. g.walk = "Armed" => same(f1, unarmed(g)) /\ unarmed(g) \in Flights
      BY Zenon, <1>2, <1>3
    <3>2. same(f1, [g EXCEPT !.next = t + Grace]) /\ [g EXCEPT !.next = t + Grace] \in Flights
      BY <1>3, <2>2 DEF Running, Flights
    <3>3. Running(f1)
      BY <1>3, <2>2
    <3> HIDE DEF same
    <3> QED BY SMTT(30), <1>1, <1>3, <2>2, <3>1, <3>2, <3>3 DEF Judge, Reasons
  <2> QED BY <2>1, <2>2
<1>4. same(f, f)
  OBVIOUS
<1>5. Tells(f, Learned(f, r, t))
  <2>1. CASE ~RunningOf(f, r) \/ f.moved # "Unknown"
    BY <1>1, <1>4, <2>1 DEF Learned
  <2>2. CASE ~(~RunningOf(f, r) \/ f.moved # "Unknown")
    <3> DEFINE known == [f EXCEPT !.moved = "Known", !.next = Later(f.started + Grace, t)]
    <3>1. f.started + Grace \in Nat /\ Later(f.started + Grace, t) \in Nat
      BY DEF Flights, Later
    <3>2. known \in Flights /\ same(f, known)
      BY Zenon, <3>1 DEF Flights, Moveds, Running
    <3>3. Learned(f, r, t) \in {Judge(known, t), Nothing(known)}
      BY <2>2 DEF Learned
    <3> HIDE DEF known, same
    <3> QED BY SMTT(30), <1>1, <1>3, <3>2, <3>3
  <2> QED BY <2>1, <2>2
<1>6. ASSUME NEW verdict \in {"None", "Hung", "MovedOn"} PROVE Tells(f, Judged(f, r, verdict))
  <2>1. f.walk = "Armed" => same(f, unarmed(f)) /\ unarmed(f) \in Flights
    BY Zenon, <1>2
  <2> HIDE DEF same
  <2> QED BY SMTT(30), <1>1, <1>4, <2>1 DEF Judged, RunningOf, Reasons
<1>7. ASSUME NEW got \in BOOLEAN, NEW why \in Reasons \union {"None"}
      PROVE  LET g == IF got THEN [f EXCEPT !.walk = "Published", !.bound = 0] ELSE f
             IN  IF RunningOf(f, r) THEN Tells(g, Published(f, r, got, why, t))
                                    ELSE Published(f, r, got, why, t) = Nothing(f)
  <2> DEFINE g == IF got THEN [f EXCEPT !.walk = "Published", !.bound = 0] ELSE f
             d == PublishedJudgingNothing(f, r, got, why)
  <2>1. CASE ~RunningOf(f, r)
    BY SMTT(30), <2>1 DEF Published, PublishedJudgingNothing
  <2>2. CASE RunningOf(f, r)
    <3>1. g \in Flights /\ Running(g)
      BY Zenon, <2>2 DEF Flights, Walks, Running, RunningOf
    <3>2. d = IF why = "None" THEN Nothing(g) ELSE Abandon(g, why)
      BY <2>2 DEF PublishedJudgingNothing
    <3>3. Published(f, r, got, why, t) = IF why = "None" THEN Judge(d.flight, t) ELSE d
      BY <2>2 DEF Published
    <3>4. Nothing(g).flight = g
      BY DEF Nothing
    <3>5. same(g, g)
      OBVIOUS
    <3> HIDE DEF g, d, same
    <3>6. Tells(g, Published(f, r, got, why, t))
      BY SMTT(30), <1>1, <1>3, <3>1, <3>2, <3>3, <3>4, <3>5
    <3> QED BY <2>2, <3>6 DEF g
  <2> QED BY <2>1, <2>2
<1> QED BY SMTT(120), <1>3, <1>4, <1>5, <1>6, <1>7

\* Two moves one after the other are one, and never answer the same event.
LEMMA MovesTwice ==
    ASSUME NEW a, NEW b, NEW c, NEW out, NEW more, NEW stop,
           Moves(a, b, out, stop), Moves(b, c, more, stop)
    PROVE  Moves(a, c, out \union more, stop) /\ out \intersect more = {}
<1>1. /\ out \subseteq OwedBy(a) /\ OwedBy(b) = OwedBy(a) \ out
      /\ more \subseteq OwedBy(b) /\ OwedBy(c) = OwedBy(b) \ more
      /\ Sound(c, stop)
  BY DEF Moves, Settled, Follows
<1>2. \A m \in out \union more, n \in OwedBy(c) : m < n
  BY <1>1 DEF Moves, Settled, Follows
<1> QED BY <1>1, <1>2 DEF Moves, Settled, Follows

\* A read published from its progress answers its event, and what is decided of it
\* then answers it no more (Schedule::published).
LEMMA PublishedMoves ==
    ASSUME NEW a \in Apps, NEW request \in Requests, NEW why \in Reasons \union {"None"},
           NEW t \in Nat, NEW stop, Sound(a, stop), Running(a.flight) => a.threaded,
           NEW d, NEW sent,
           \/ d = Published(a.flight, request, FALSE, why, t) /\ sent = {}
           \/ /\ d = Published(a.flight, request, TRUE, why, t) /\ sent = {a.flight.item}
              /\ Accepts(a.flight, request)
    PROVE  AccountedAfter(a, sent, Decided(a, d, t), stop)
<1>g. PICK got \in BOOLEAN :
         /\ d = Published(a.flight, request, got, why, t) /\ (got => Accepts(a.flight, request))
         /\ (got => sent = {a.flight.item}) /\ (~got => sent = {})
  BY Zenon
<1> DEFINE f == a.flight
           r == Decided(a, d, t)
           g == IF got THEN [f EXCEPT !.walk = "Published", !.bound = 0] ELSE f
           b == [a EXCEPT !.flight = g]
<1>0. f \in Flights /\ d \in Decisions
  BY <1>g, DecisionTypes DEF Apps
<1>r. (got => sent = {f.item}) /\ (~got => sent = {}) /\ (got => Accepts(f, request))
  BY <1>g
<1>1. CASE ~RunningOf(f, request)
  <2>1. d = Nothing(f)
    BY Zenon, <1>0, <1>1, <1>g, DecisionTells
  <2>2. ~got
    BY <1>1, <1>r DEF Accepts
  <2>3. Tells(f, Nothing(f))
    BY DEF Tells, Shaped, Nothing
  <2>4. Accounted(a, r, stop)
    BY <1>0, <1>r, <2>1, <2>3, DecidedMoves
  <2> QED BY <1>r, <2>1, <2>2, <2>4 DEF Accounted, AccountedAfter
<1>2. CASE RunningOf(f, request)
  <2>1. Tells(g, d)
    BY Zenon, <1>0, <1>2, <1>g, DecisionTells
  <2>2. /\ g \in Flights /\ g.generation = f.generation /\ g.request = f.request /\ g.item = f.item
        /\ Running(g) /\ Running(f) /\ (got => g.walk = "Published") /\ (~got => g = f)
    BY Zenon, <1>0, <1>2 DEF Flights, Walks, Running, RunningOf
  <2>3. ~got => b = a
    BY <2>2 DEF Apps
  <2> HIDE DEF g
  <2>4. /\ b \in Apps /\ b.queue = a.queue /\ b.threaded = a.threaded /\ b.abandoned = a.abandoned
        /\ b.limitReached = a.limitReached /\ b.ending = a.ending /\ b.flight = g
    BY Zenon, <2>2 DEF Apps
  <2>5. Moves(a, b, sent, stop)
    <3>1. Sound(b, stop)
      BY <2>2, <2>4 DEF Sound, InOrder, Limited, Requested
    <3>2. CASE got
      <4>1. OwedBy(b) = MarkersOf(a.queue)
        BY Zenon, <2>2, <2>4, <3>2, OwedByParts
      <4>2. OwedBy(a) = MarkersOf(a.queue) \union {f.item}
        BY <1>r, <2>2, <3>2, OwedByParts DEF Accepts
      <4>3. \A m \in MarkersOf(a.queue) : f.item < m /\ m \in Nat /\ f.item \in Nat
        BY <1>0, <2>2, MarkersType DEF Sound, InOrder, Flights
      <4>4. f.item \notin MarkersOf(a.queue)
        BY <4>3
      <4>5. Follows(a, b)
        BY <2>2, <2>4 DEF Follows
      <4> HIDE DEF b, f
      <4> QED BY SMTT(60), <1>r, <3>1, <3>2, <4>1, <4>2, <4>3, <4>4, <4>5 DEF Moves, Settled
    <3>3. CASE ~got
      BY Zenon, <1>r, <2>3, <3>1, <3>3 DEF Moves, Settled, Follows
    <3> QED BY <3>2, <3>3
  <2>6. Decided(b, d, t) = r
    <3>1. [b EXCEPT !.flight = d.flight] = [a EXCEPT !.flight = d.flight]
      BY Zenon DEF Apps
    <3>2. ASSUME NEW count, NEW limit
          PROVE  [b EXCEPT !.flight = d.flight, !.threaded = FALSE, !.abandoned = count, !.limitReached = limit]
                 = [a EXCEPT !.flight = d.flight, !.threaded = FALSE, !.abandoned = count, !.limitReached = limit]
      BY Zenon DEF Apps
    <3> HIDE DEF b
    <3>3. Abandoned(b, d, t) = Abandoned(a, d, t)
      BY ZenonT(60), <2>4, <3>2 DEF Abandoned
    <3> QED BY Zenon, <1>r, <3>1, <3>3 DEF Decided
  <2> HIDE DEF b
  <2>7. Accounted(b, r, stop)
    <3>1. Sound(b, stop) /\ Running(b.flight) /\ b.threaded
      BY <2>2, <2>4, <2>5 DEF Moves
    <3> QED BY <1>0, <2>1, <2>4, <2>6, <3>1, DecidedMoves
  <2> HIDE DEF f, r
  <2>8. Moves(a, r.app, sent \union r.out, stop) /\ sent \intersect r.out = {}
    BY SMTT(30), <2>5, <2>7, MovesTwice DEF Accounted
  <2> QED BY <2>2, <2>4, <2>7, <2>8 DEF Accounted, AccountedAfter, f, r
<1> QED BY <1>1, <1>2

\* A tick judges a read, or drops the events that waited too long at the limit
\* (Schedule::tick's loop, Schedule::drop_waiting).
LEMMA TickMoves ==
    ASSUME NEW a \in Apps, NEW t \in Nat, NEW stop, Sound(a, stop), Running(a.flight) => a.threaded
    PROVE  Accounted(a, TickApp(a, t), stop)
<1>1. CASE Running(a.flight)
  <2>1. a.flight \in Flights /\ NoRequest \in Requests
    BY DEF Apps, NoRequest, Requests
  <2>2. Judge(a.flight, t) \in Decisions /\ Tells(a.flight, Judge(a.flight, t))
    <3>1. Judge(a.flight, t) \in Decisions
      BY SMTT(30), <2>1, JudgeType
    <3>2. Tells(a.flight, Judge(a.flight, t))
      BY Zenon, <2>1, DecisionTells
    <3> QED BY <3>1, <3>2
  <2> QED BY <1>1, <2>2, DecidedMoves DEF TickApp
<1>2. CASE TickApp(a, t) = Quiet(a)
  <2>1. Moves(a, a, {}, stop)
    BY DEF Moves, Settled, Follows
  <2> QED BY <1>2, <2>1 DEF Quiet, Accounted
<1>3. CASE ~Running(a.flight) /\ ~a.threaded /\ a.queue # {} /\ TickApp(a, t) = DropWaiting(a)
  <2> DEFINE b == [a EXCEPT !.queue = {}]
             r == DropWaiting(a)
  <2>1. /\ b.queue = {} /\ b.threaded = a.threaded /\ b.abandoned = a.abandoned
        /\ b.limitReached = a.limitReached /\ b.flight = a.flight
    BY DEF Apps
  <2>2. r.app = b /\ r.out = MarkersOf(a.queue) /\ r.wake = TRUE /\ r.unwatch = FALSE
    BY <1>3 DEF DropWaiting, Quiet
  <2> HIDE DEF b, r
  <2>3. OwedBy(a) = MarkersOf(a.queue) /\ OwedBy(b) = {}
    BY <1>3, <2>1, OwedByParts DEF MarkersOf
  <2>4. Sound(b, stop)
    BY <1>3, <2>1 DEF Sound, InOrder, Limited, Requested, MarkersOf
  <2> QED BY <1>3, <2>1, <2>2, <2>3, <2>4 DEF Accounted, Moves, Settled, Follows, r
<1> QED BY SMTT(30), <1>1, <1>2, <1>3 DEF TickApp, DropWaiting, Quiet, WaitingEnd

\* An application changed only in its read, its thread or its end, with no read
\* under way before or after, answers nothing.
LEMMA RestMoves ==
    ASSUME NEW a, NEW b, NEW stop, Sound(a, stop), ~Running(a.flight), ~Running(b.flight),
           b.queue = a.queue, b.flight.request = a.flight.request, Limited(b, stop)
    PROVE  Moves(a, b, {}, stop)
<1>1. OwedBy(a) = MarkersOf(a.queue) /\ OwedBy(b) = MarkersOf(a.queue)
  BY OwedByParts
<1>2. InOrder(b) /\ Requested(b.flight)
  BY DEF Sound, InOrder, Requested
<1> QED BY <1>1, <1>2 DEF Moves, Settled, Follows, Sound

\* Taking the oldest event to read it leaves it owed, ahead of the others
\* (Schedule::next_job).
LEMMA TakesMoves ==
    ASSUME NEW a \in Apps, NEW stop, NEW t \in Nat, Sound(a, stop), ~Running(a.flight),
           a.threaded, a.queue # {}
    PROVE  LET first == Oldest(a.queue)
               taken == Start(a.flight, first.marker, Deadline, first.window, t)
           IN  /\ Moves(a, [a EXCEPT !.queue = @ \ {first}, !.flight = taken], {}, stop)
               /\ taken.request.generation = a.flight.generation
<1> DEFINE first == Oldest(a.queue)
           taken == Start(a.flight, first.marker, Deadline, first.window, t)
           b == [a EXCEPT !.queue = @ \ {first}, !.flight = taken]
<1>1. first \in a.queue /\ \A e \in a.queue : first.marker <= e.marker
  BY OldestType
<1>2. \A e \in a.queue : e.marker \in Nat
  BY MarkersType DEF Entries
<1> HIDE DEF first
<1>3. /\ taken.generation = a.flight.generation /\ taken.item = first.marker
      /\ taken.walk = "Unarmed" /\ taken.request.generation = a.flight.generation
  BY DEF Start, NextRequest, Apps, Flights
<1> HIDE DEF taken
<1>4. /\ b.queue = a.queue \ {first} /\ b.threaded = a.threaded /\ b.abandoned = a.abandoned
      /\ b.limitReached = a.limitReached /\ b.flight = taken
  BY Zenon DEF Apps
<1> HIDE DEF b
<1>5. MarkersOf(b.queue) \union {first.marker} = MarkersOf(a.queue)
  BY <1>1, <1>4 DEF MarkersOf
<1>6. OwedBy(a) = MarkersOf(a.queue) /\ OwedBy(b) = MarkersOf(a.queue)
  <2>1. Running(b.flight) /\ b.flight.walk # "Published" /\ b.flight.item = first.marker
    BY <1>3, <1>4 DEF Running
  <2> QED BY Zenon, <1>5, <2>1, OwedByParts
<1>7. InOrder(b)
  <2>1. \A e \in b.queue : first.marker < e.marker
    BY <1>1, <1>2, <1>4 DEF Sound, InOrder
  <2>2. \A m \in MarkersOf(b.queue) : first.marker < m
    BY <2>1 DEF MarkersOf
  <2> QED BY Zenon, <1>3, <1>4, <2>2 DEF Sound, InOrder
<1>8. Limited(b, stop) /\ Requested(b.flight)
  BY <1>3, <1>4 DEF Sound, Limited, Requested, Running
<1>9. Moves(a, b, {}, stop)
  <2>1. Follows(a, b)
    BY <1>1, <1>3, <1>4, <1>6 DEF Follows, MarkersOf
  <2> QED BY <1>6, <1>7, <1>8, <2>1 DEF Moves, Settled, Sound
<1> QED BY <1>3, <1>9 DEF b, taken, first

\* A read that returns answers its event, unless it was published
\* (Schedule::finished).
LEMMA ReturnMoves ==
    ASSUME NEW a \in Apps, NEW stop, Sound(a, stop), Running(a.flight)
    PROVE  /\ Moves(a, [a EXCEPT !.flight = Taken(@)],
                    IF a.flight.walk # "Published" THEN {a.flight.item} ELSE {}, stop)
           /\ Taken(a.flight).request = NoRequest
<1> DEFINE b == [a EXCEPT !.flight = Taken(@)]
           out == IF a.flight.walk # "Published" THEN {a.flight.item} ELSE {}
<1>1. /\ b.queue = a.queue /\ b.threaded = a.threaded /\ b.abandoned = a.abandoned
      /\ b.limitReached = a.limitReached /\ b.flight = Taken(a.flight)
  BY DEF Apps
<1>2. Taken(a.flight).request = NoRequest /\ ~Running(Taken(a.flight))
  BY Zenon DEF Taken, New, Running
<1> HIDE DEF b
<1>3. Sound(b, stop)
  BY <1>1, <1>2 DEF Sound, InOrder, Limited, Requested
<1>4. OwedBy(b) = MarkersOf(a.queue) /\ OwedBy(a) = MarkersOf(a.queue) \union out
  BY <1>1, <1>2, OwedByParts
<1>5. \A m \in MarkersOf(a.queue) : a.flight.item < m /\ m \in Nat /\ a.flight.item \in Nat
  BY MarkersType DEF Sound, InOrder, Apps, Flights
<1>6. a.flight.item \notin MarkersOf(a.queue)
  BY <1>5
<1>7. Moves(a, b, out, stop)
  <2>1. Follows(a, b)
    BY <1>1, <1>2 DEF Follows
  <2> QED BY <1>3, <1>4, <1>5, <1>6, <2>1 DEF Moves, Settled
<1> QED BY <1>2, <1>7 DEF b

\* An abandoned thread is back, there is room again, and it is put in charge when
\* events wait with none (Schedule::finished).
LEMMA BackMoves ==
    ASSUME NEW a \in Apps, NEW stop \in BOOLEAN, Sound(a, stop), Running(a.flight) => a.threaded
    PROVE  LET b == OneBack(a) IN
           /\ ~b.threaded /\ b.queue # {} /\ ~stop => Moves(a, Started(b), {}, stop)
           /\ ~(~b.threaded /\ b.queue # {} /\ ~stop) => Moves(a, b, {}, stop)
           /\ b.flight = a.flight /\ Started(b).flight.request = a.flight.request
<1> DEFINE b == OneBack(a)
           c == Started(b)
<1>1. a.abandoned \in Nat /\ a.abandoned <= Limit /\ Limit \in Nat \ {0}
  BY DEF Apps, Sound, Limited
<1>2. /\ b.queue = a.queue /\ b.threaded = a.threaded /\ b.flight = a.flight
      /\ b.abandoned = IF a.abandoned = 0 THEN 0 ELSE a.abandoned - 1
  BY DEF OneBack, Apps
<1>3. b.abandoned \in Nat /\ b.abandoned < Limit
  BY SMTT(60), <1>1, <1>2
<1>4. /\ c.queue = a.queue /\ c.threaded = TRUE /\ c.abandoned = b.abandoned
      /\ c.flight.request = a.flight.request /\ c.flight.walk = a.flight.walk
  BY <1>2 DEF Started, Succeed, OneBack, Apps, Flights
<1> HIDE DEF b, c
<1>5. CASE ~b.threaded /\ b.queue # {} /\ ~stop
  <2>1. Limited(c, stop)
    BY <1>1, <1>3, <1>4 DEF Limited
  <2>2. ~Running(a.flight) /\ ~Running(c.flight)
    BY <1>2, <1>4, <1>5 DEF Running
  <2>3. Moves(a, c, {}, stop)
    BY <1>4, <2>1, <2>2, RestMoves
  <2> QED BY <1>2, <1>4, <1>5, <2>3 DEF b, c
<1>6. CASE ~(~b.threaded /\ b.queue # {} /\ ~stop)
  <2>1. Limited(b, stop)
    BY <1>1, <1>3, <1>6 DEF Limited
  <2>2. Sound(b, stop)
    BY <1>2, <2>1 DEF Sound, InOrder, Requested
  <2>3. Moves(a, b, {}, stop)
    BY <1>2, <2>2 DEF Moves, Settled, Follows, OwedBy
  <2> QED BY <1>2, <1>4, <1>6, <2>3 DEF b, c
<1> QED BY <1>5, <1>6

\* A thread ends, or fails to start, and what waited is dropped with it.
LEMMA DropMoves ==
    ASSUME NEW a \in Apps, NEW stop, Sound(a, stop), ~Running(a.flight)
    PROVE  LET b == [a EXCEPT !.threaded = FALSE, !.queue = {}]
           IN  Moves(a, b, MarkersOf(a.queue), stop) /\ b.flight = a.flight
<1> DEFINE b == [a EXCEPT !.threaded = FALSE, !.queue = {}]
<1>1. /\ b.queue = {} /\ b.threaded = FALSE /\ b.abandoned = a.abandoned
      /\ b.limitReached = a.limitReached /\ b.flight = a.flight
  BY DEF Apps
<1> HIDE DEF b
<1>2. OwedBy(a) = MarkersOf(a.queue) /\ OwedBy(b) = {}
  BY <1>1, OwedByParts DEF MarkersOf
<1>3. Sound(b, stop)
  BY <1>1 DEF Sound, InOrder, Limited, Requested, MarkersOf
<1>4. Moves(a, b, MarkersOf(a.queue), stop)
  BY <1>1, <1>2, <1>3 DEF Moves, Settled, Follows
<1> QED BY <1>1, <1>4 DEF b

\* Letting an application go loses nothing: it owes nothing and reads nothing
\* (Schedule::let_go).
LEMMA LetGoMoves ==
    ASSUME NEW a, NEW b \in Apps, NEW out, NEW stop, Moves(a, b, out, stop),
           Running(b.flight) => b.threaded, Spent(b)
    PROVE  /\ Moves(a, NoApp, out, stop)
           /\ b.flight.request = NoRequest /\ NoApp.flight.request = NoRequest
<1>1. ~Running(b.flight) /\ b.queue = {}
  BY DEF Spent
<1>2. /\ NoApp.queue = {} /\ NoApp.threaded = FALSE /\ NoApp.abandoned = 0
      /\ ~Running(NoApp.flight) /\ NoApp.flight.request = NoRequest
  BY DEF NoApp, New, Running
<1>3. OwedBy(b) = {} /\ OwedBy(NoApp) = {}
  BY <1>1, <1>2, OwedByParts DEF MarkersOf
<1>4. Sound(NoApp, stop)
  BY <1>2 DEF Sound, InOrder, Limited, Requested
<1>5. b.flight.request = NoRequest
  BY <1>1 DEF Moves, Sound, Requested
<1> QED BY <1>2, <1>3, <1>4, <1>5 DEF Moves, Settled, Follows

\* With the event m an application goes from app to next: the events replaced give
\* way to m, and then either all it owes are dropped or none is.
Arrives(app, m, replaced, dropped, next) ==
    LET kept == (OwedBy(app) \ replaced) \union {m}
    IN  /\ replaced \subseteq OwedBy(app)
        /\ dropped = {} \/ dropped = kept
        /\ OwedBy(next) = IF dropped = {} THEN kept ELSE {}
        /\ Sound(next, FALSE) /\ Follows(app, next)
        /\ next.flight.request = app.flight.request

\* An event that arrives is owed by its application in place of those of its key,
\* and with the others dropped when they waited too long (Schedule::push).
LEMMA PushMoves ==
    ASSUME NEW app \in Apps, NEW m \in Nat, NEW key \in Keys \union {NoKey}, NEW window \in Windows,
           NEW t \in Nat, Sound(app, FALSE), Running(app.flight) => app.threaded,
           \A n \in OwedBy(app) : n < m, Running(app.flight) => app.flight.item < m
    PROVE  LET same   == {e \in app.queue : key # NoKey /\ e.key = key}
               entry  == [marker |-> m, key |-> key, window |-> window]
               a      == [app EXCEPT !.ending = FALSE, !.queue = (@ \ same) \union {entry}]
               past   == a.limitReached # NoTime /\ t >= a.limitReached + Deadline
               drops  == ~a.threaded /\ past
               starts == ~a.threaded /\ ~past /\ Room(a.abandoned)
               next   == IF drops THEN [a EXCEPT !.queue = {}]
                         ELSE IF starts THEN Started(a) ELSE a
           IN  Arrives(app, m, MarkersOf(same), IF drops THEN MarkersOf(a.queue) ELSE {}, next)
<1> DEFINE same   == {e \in app.queue : key # NoKey /\ e.key = key}
           entry  == [marker |-> m, key |-> key, window |-> window]
           a      == [app EXCEPT !.ending = FALSE, !.queue = (@ \ same) \union {entry}]
           past   == a.limitReached # NoTime /\ t >= a.limitReached + Deadline
           drops  == ~a.threaded /\ past
           starts == ~a.threaded /\ ~past /\ Room(a.abandoned)
           next   == IF drops THEN [a EXCEPT !.queue = {}]
                     ELSE IF starts THEN Started(a) ELSE a
           kept   == (OwedBy(app) \ MarkersOf(same)) \union {m}
           Goal   == /\ MarkersOf(same) \subseteq OwedBy(app)
                     /\ OwedBy(next) = IF drops THEN {} ELSE kept
                     /\ drops => MarkersOf(a.queue) = kept
                     /\ Sound(next, FALSE) /\ Follows(app, next)
                     /\ next.flight.request = app.flight.request
<1>0. ASSUME Goal
      PROVE  Arrives(app, m, MarkersOf(same), IF drops THEN MarkersOf(a.queue) ELSE {}, next)
  <2> HIDE DEF same, a, next, drops
  <2> QED BY Zenon, <1>0 DEF Arrives
<1> SUFFICES Goal
  BY Zenon, <1>0
<1>1. /\ same \subseteq app.queue /\ entry.marker = m
      /\ \A e \in app.queue : e.marker \in Nat /\ e.marker < m
  BY MarkersType DEF Entries, OwedBy, MarkersOf
<1>2. entry \in Entries
  BY DEF Entries
<1> HIDE DEF same, entry
<1>3. /\ a \in Apps /\ a.queue = (app.queue \ same) \union {entry} /\ a.threaded = app.threaded
      /\ a.abandoned = app.abandoned /\ a.limitReached = app.limitReached /\ a.flight = app.flight
  BY Zenon, <1>1, <1>2 DEF Apps
<1> HIDE DEF a
<1>4. MarkersOf(a.queue) = (MarkersOf(app.queue) \ MarkersOf(same)) \union {m}
  BY SMTT(60), <1>1, <1>3 DEF MarkersOf, Sound, InOrder
<1>5. MarkersOf(same) \subseteq MarkersOf(app.queue)
  BY <1>1 DEF MarkersOf
<1>6. MarkersOf(same) \subseteq OwedBy(app) /\ OwedBy(a) = kept
  <2>1. CASE Running(app.flight) /\ app.flight.walk # "Published"
    <3>1. /\ OwedBy(app) = MarkersOf(app.queue) \union {app.flight.item}
          /\ OwedBy(a) = MarkersOf(a.queue) \union {app.flight.item}
      BY Zenon, <1>3, <2>1, OwedByParts
    <3>2. app.flight.item \in Nat /\ \A n \in MarkersOf(app.queue) : app.flight.item < n
      BY <2>1 DEF Sound, InOrder, Apps, Flights
    <3>3. app.flight.item \notin MarkersOf(same)
      BY <1>5, <3>2
    <3> QED BY <1>4, <1>5, <3>1, <3>3
  <2>2. CASE ~(Running(app.flight) /\ app.flight.walk # "Published")
    <3>1. OwedBy(app) = MarkersOf(app.queue) /\ OwedBy(a) = MarkersOf(a.queue)
      BY Zenon, <1>3, <2>2, OwedByParts
    <3> QED BY <1>4, <1>5, <3>1
  <2> QED BY <2>1, <2>2
<1>7. InOrder(a) /\ Requested(a.flight)
  <2>1. \A e, g \in a.queue : e.marker = g.marker => e = g
    BY SMTT(120), <1>1, <1>3 DEF Sound, InOrder
  <2>2. Running(a.flight) => \A n \in MarkersOf(a.queue) : a.flight.item < n
    BY <1>3, <1>4 DEF Sound, InOrder
  <2> QED BY Zenon, <1>3, <2>1, <2>2 DEF Sound, Requested, InOrder
<1>8. CASE drops
  <2> DEFINE b == [a EXCEPT !.queue = {}]
  <2>1. /\ b.queue = {} /\ b.threaded = a.threaded /\ b.abandoned = a.abandoned
        /\ b.limitReached = a.limitReached /\ b.flight = a.flight
    BY <1>3 DEF Apps
  <2> HIDE DEF b
  <2>2. ~Running(a.flight)
    BY <1>3, <1>8
  <2>3. OwedBy(b) = {} /\ MarkersOf(a.queue) = kept
    BY Zenon, <1>6, <2>1, <2>2, OwedByParts DEF MarkersOf
  <2>4. Sound(b, FALSE) /\ Follows(app, b)
    BY <1>3, <1>7, <2>1, <2>2 DEF Sound, InOrder, Limited, Requested, MarkersOf, Follows
  <2> QED BY Zenon, <1>3, <1>6, <1>8, <2>1, <2>3, <2>4 DEF b, a, same, entry
<1>9. CASE starts
  <2> DEFINE b == Started(a)
  <2>1. /\ b.queue = a.queue /\ b.threaded = TRUE /\ b.abandoned = a.abandoned
        /\ b.limitReached = a.limitReached /\ b.flight.request = a.flight.request
        /\ b.flight.walk = a.flight.walk
    BY <1>3 DEF Started, Succeed, Apps, Flights
  <2> HIDE DEF b
  <2>2. ~Running(a.flight) /\ ~Running(b.flight)
    BY <1>3, <1>9, <2>1 DEF Running
  <2>3. OwedBy(b) = kept
    BY <1>6, <2>1, <2>2, OwedByParts
  <2>4. Limited(b, FALSE)
    BY SMTT(120), <1>3, <1>9, <2>1 DEF Limited, Room, Apps
  <2>5. Sound(b, FALSE) /\ Follows(app, b)
    BY Zenon, <1>7, <2>1, <2>2, <2>4 DEF Sound, InOrder, Requested, Follows
  <2> QED BY Zenon, <1>3, <1>6, <1>9, <2>1, <2>3, <2>5 DEF b, a, same, entry
<1>10. CASE ~drops /\ ~starts
  <2>1. Limited(a, FALSE)
    BY <1>3, <1>10 DEF Sound, Limited, Room, Apps
  <2>2. Sound(a, FALSE) /\ Follows(app, a)
    BY Zenon, <1>3, <1>7, <2>1 DEF Sound, Follows
  <2> QED BY Zenon, <1>3, <1>6, <1>10, <2>2 DEF a, same, entry
<1> QED BY Zenon, <1>8, <1>9, <1>10 DEF a, same, entry
=============================================================================
